SPECIFICATION PartSpec
CONSTANTS
  RequestIds = {r1, r2}
  MaxAttempts = 1
  MaxGeneration = 3
  WritesFail = TRUE
  NoCallback = NoCallback
  Tools = {t1, t2}
  DashboardCaptures = {}
  PillCaptures = {p1}
  MaxTurn = 1
  MaxUserActs = 1
  RequestsFail = TRUE
  Conversations = {a, b}
  Turns = {q1, q2}
  NoConversation = NoConversation
  NoTurn = NoTurn
  MaxChunks = 2
  MaxTools = 1
  MaxChatActs = 2
SYMMETRY Symmetry
INVARIANTS
  QueuedLinesHaveADrain
  WindowsStayInStep
  JobsLeaveNothingBehind
  AcceptedCallsAreAnswered
  TurnsStayHome
  BusyMeansWork
  AnswersAreKept
PROPERTIES
  ImplementsRequestReply
  EventsKeepTheirPlace
CHECK_DEADLOCK FALSE
