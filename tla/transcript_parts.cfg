SPECIFICATION PartSpec
CONSTANTS
  Writes = {w1, w2}
  Legacy = {old}
  Summary = {s1}
  Compactions = {c1}
  Rewinds = {r1}
  Wipes = {x1}
  MaxResets = 1
  NoJob = NoJob
  Windows = {dashboard, pill}
  Chats = {a}
  NoChat = NoChat
  MaxUpdates = 3
  Writer = dashboard
  UserEntries = {u1, u2}
  AssistantEntries = {}
  ToolEntries = {t1}
  Flushes = {f1, f2}
INVARIANTS
  OneCurrentBootstrap
  EntriesReachReplay
  EntriesAreStoredOnce
  UncrossedSessionsAgree
PROPERTIES
  RewritesBeginFromTheTranscript
  WritesSettle
CHECK_DEADLOCK FALSE
