SPECIFICATION Spec
CONSTANTS
  IdLimit <- FourIds
  MaxReqsValues <- NoneOrTwo
  MultiplexingModes = {TRUE}
  KeepModes = {TRUE,FALSE}
  ResultKinds <- AnyKind
  Statuses <- Complete
  Cancels <- NotFromHandlers
  SendsUnknownTypes = TRUE
  Volunteers = TRUE
  MaxRequests = 3
  MaxPieces = 0
  MaxFaults = 1
  NoContext = NoContext
INVARIANTS
  TypeOK
  HandlerCalledOnce
  NoRequestForgotten
  CancelledByOwnHandle
  IdsAccountedFor
CHECK_DEADLOCK FALSE
