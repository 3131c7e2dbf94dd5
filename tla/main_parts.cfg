CONSTANTS
  Sockets = {s1, s2}
  NoSocket = NoSocket
  Requests = {q1, q2, a1, w1, u1, o1}
  Queries = {q1, q2}
  Automated = {a1}
  Wakewords = {w1}
  Updates = {u1}
  Others = {o1}
  BackendEvents = {"streaming-response", "streaming-complete", "tool-call", "token-count"}
  NoTurn = NoTurn
  NoSync = NoSync
  Runs = {r1, r2}
  NoRun = NoRun
  Threads = {a, b}
  NoThread = NoThread
  MaxChunks = 1
  MaxLosses = 2
SPECIFICATION PartSpec
SYMMETRY Symmetry
INVARIANTS
  ContextAndReplayFollowTheSends
  StreamingPhaseHasATurn
  RunsAreServed
CHECK_DEADLOCK FALSE
