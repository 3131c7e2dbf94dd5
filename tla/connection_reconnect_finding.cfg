CONSTANTS
  Sockets = {s1, s2}
  NoSocket = NoSocket
  Requests = {r1, r2}
SPECIFICATION Spec
PROPERTY UnexpectedCloseReconnects
