SPECIFICATION FairSpec
CONSTANTS
  N = 6
  Start <- MixedBounds
  Kind <- BrokenFirst
  Cuts <- OutsideSecond
  HandlerThrows = FALSE
  HasInvalidTypeHandler = TRUE
INVARIANTS
  TypeOK
  ChunkingIsInvisible
  ReadsInStep
PROPERTIES
  StreamSpec
CHECK_DEADLOCK FALSE
