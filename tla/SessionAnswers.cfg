SPECIFICATION FairSpec
CONSTANTS
  IdLimit <- ElevenIds
  KeepModes = {TRUE, FALSE}
  ConnectionLimits <- Five
  Limits <- OneOrTwo
  MultiplexingModes = {TRUE, FALSE}
  MaxRequests = 2
  MaxPieces = 1
  NoContext = NoContext
  Unregistered = Unregistered
INVARIANTS
  NeverRefused
  AnswersReachTheirRequests
PROPERTIES
  RequesterSpec
  EveryRequestIsAnswered
CHECK_DEADLOCK FALSE
