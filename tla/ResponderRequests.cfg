SPECIFICATION Spec
CONSTANTS
  p1 = p1
  p2 = p2
  x1 = x1
  x2 = x2
  r1 = r1
  r2 = r2
  r3 = r3
  RequestIds <- TwoIds
  Params <- Pairs
  Bytes = {x1, x2}
  ParamLists <- TwoParamLists
  StdInData <- TwoStdInData
  Roles <- ResponderRole
  KeepModes = {TRUE, FALSE}
  OtherTypes <- None
  ManagementTypes = {}
  ConnectionLimits <- None
  Limits = {1}
  MultiplexingModes = {FALSE}
  AbortsProcessing = FALSE
  ReconfiguresWhileBusy = FALSE
  DropsResponses = TRUE
  CopiesResponses = FALSE
  DestroysResponder = FALSE
  MaxReceived = 5
  MaxStreamRecords = 1
  MaxExceptions = 0
  Unregistered = Unregistered
SYMMETRY IdSymmetry
INVARIANTS
  TypeOK
  ProcessedOnce
  ProcessedContentIsOwn
  RequestsWithinLimit
  SingleRequestWithoutMultiplexing
  EndsOpenRequestOnce
  KeepConnectionIsHonoured
  EndFollowsWholeAnswer
  ValidResponseCanBeSent
PROPERTIES
  AnswersOwnRequest
CHECK_DEADLOCK FALSE
