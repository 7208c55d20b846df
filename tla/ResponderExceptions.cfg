SPECIFICATION FairSpec
CONSTANTS
  p1 = p1
  p2 = p2
  x1 = x1
  x2 = x2
  r1 = r1
  r2 = r2
  r3 = r3
  RequestIds <- TwoIds
  Params <- Pairs
  Bytes = {x1, x2}
  ParamLists <- NoParamLists
  StdInData <- EndOfStdIn
  Roles <- AnyRole
  KeepModes = {TRUE, FALSE}
  OtherTypes = {"StdOut"}
  ManagementTypes = {"GetValues", "Invalid"}
  ConnectionLimits <- None
  Limits <- None
  MultiplexingModes <- None
  AbortsProcessing = TRUE
  ReconfiguresWhileBusy = FALSE
  DropsResponses = FALSE
  CopiesResponses = TRUE
  DestroysResponder = TRUE
  MaxReceived = 4
  MaxStreamRecords = 0
  MaxExceptions = 1
  Unregistered = Unregistered
INVARIANTS
  OpenRequestIsAnswerable
  EndRequestIsFinal
PROPERTIES
  LeavesWithEndRequest
  LifecycleSpec
CHECK_DEADLOCK FALSE
