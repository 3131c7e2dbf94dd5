SPECIFICATION PartSpec
CONSTANTS
  Calls = {c1, c2}
  NoCall = NoCall
  MaxVoiceActs = 4
  Gateways = {g1, g2, g3}
  NoGateway = NoGateway
  Captures = {m1, m2}
  NoCapture = NoCapture
  MaxReconnects = 2
  MaxSessionActs = 4
  Renderers = {w1, w2}
  Windows = {w1, w2}
  MaxHistory = 3
  MaxSessionFaults = 2
  Savers = {s1, s2}
  Values = {x, y}
  NoValue = NoValue
  Absent = Absent
  Empty = Empty
  Torn = Torn
  MaxConfigActs = 3
SYMMETRY Symmetry
INVARIANTS
  SwitchReachesTheService
  OvertakenStartsCloseTheMicrophone
  DictationFollowsTheSwitch
  WindowsAgree
  ChoicesArrive
PROPERTIES
  QueriesHaveHistory
CHECK_DEADLOCK FALSE
