SPECIFICATION Spec
CONSTANTS
  IdLimit <- FourIds
  MaxReqsValues <- Two
  MultiplexingModes = {TRUE}
  KeepModes = {TRUE}
  ResultKinds <- Valid
  Statuses <- Complete
  Cancels <- WhenFinished
  SendsUnknownTypes = FALSE
  Volunteers = FALSE
  MaxRequests = 2
  MaxPieces = 0
  MaxFaults = 1
  NoContext = NoContext
INVARIANTS
  HandleCancelsOwnRequest
CHECK_DEADLOCK FALSE
