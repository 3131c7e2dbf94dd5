CONSTANTS
  Sockets = {s1, s2}
  NoSocket = NoSocket
  Requests = {q1}
  Queries = {q1}
  Automated = {}
  Wakewords = {}
  Updates = {}
  Others = {}
  BackendEvents = {"streaming-response", "streaming-complete"}
  NoTurn = NoTurn
  NoSync = NoSync
SPECIFICATION GateFairSpec
PROPERTIES
  ImplementsConnection
  RequestsSettle
