CONSTANTS
  Sockets = {s1, s2}
  NoSocket = NoSocket
  Requests = {q1, q2}
  Queries = {q1, q2}
  Automated = {}
  Wakewords = {}
  Updates = {}
  Others = {}
  BackendEvents = {}
  NoTurn = NoTurn
  NoSync = NoSync
SPECIFICATION GateSpec
PROPERTY FirstQueryInConnectionIsInitial
