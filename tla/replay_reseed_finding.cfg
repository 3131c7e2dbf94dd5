SPECIFICATION ReplaySpec
CONSTANTS
  Writes = {w1}
  Legacy = {old}
  Summary = {s1}
  Compactions = {}
  Rewinds = {r1}
  Wipes = {}
  MaxResets = 1
  NoJob = NoJob
INVARIANTS
  NoStaleReplayRows
CHECK_DEADLOCK FALSE
