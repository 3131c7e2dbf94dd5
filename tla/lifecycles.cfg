SPECIFICATION PartSpec
CONSTANTS
  Sockets = {s1, s2}
  NoSocket = NoSocket
  Requests = {r1, r2}
  RequestIds = {}
  MaxAttempts = 3
  MaxGeneration = 3
  WritesFail = FALSE
  NoCallback = NoCallback
  MaxLosses = 2
  MaxSteps = 3
INVARIANTS
  OneLiveSocket
  WaitersAreServed
  IdleTimerTracksQuiet
  ReadinessIsPursued
PROPERTIES
  DemandIsWithdrawnOnlyWhenQuiet
  WaitersSettle
  StartsAndStopsEnd
  OrphansUnlock
CHECK_DEADLOCK FALSE
