SPECIFICATION FairSpec
CONSTANTS
  IdLimit <- FourIds
  MaxReqsValues <- OneOrTwo
  MultiplexingModes = {TRUE, FALSE}
  KeepModes = {TRUE, FALSE}
  ResultKinds <- ValidOrBad
  Statuses <- CompleteOrOverloaded
  Cancels <- Nothing
  SendsUnknownTypes = TRUE
  Volunteers = FALSE
  MaxRequests = 2
  MaxPieces = 2
  MaxFaults = 1
  NoContext = NoContext
INVARIANTS
  ResponseIsOwnAndWhole
  AvailableIdsAreFree
PROPERTIES
  EveryRequestIsAnswered
CHECK_DEADLOCK FALSE
