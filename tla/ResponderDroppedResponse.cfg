SPECIFICATION Spec
CONSTANTS
  p1 = p1
  p2 = p2
  x1 = x1
  x2 = x2
  r1 = r1
  r2 = r2
  r3 = r3
  RequestIds <- OneId
  Params <- Pairs
  Bytes = {x1, x2}
  ParamLists <- NoParamLists
  StdInData <- EndOfStdIn
  Roles <- ResponderRole
  KeepModes = {TRUE}
  OtherTypes <- None
  ManagementTypes = {}
  ConnectionLimits <- None
  Limits <- None
  MultiplexingModes <- None
  AbortsProcessing = FALSE
  ReconfiguresWhileBusy = FALSE
  DropsResponses = TRUE
  CopiesResponses = FALSE
  DestroysResponder = FALSE
  MaxReceived = 5
  MaxStreamRecords = 1
  MaxExceptions = 0
  Unregistered = Unregistered
SYMMETRY IdSymmetry
INVARIANTS
  OpenRequestIsAnswerable
CHECK_DEADLOCK FALSE
