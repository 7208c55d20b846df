SPECIFICATION Spec
CONSTANTS
  N = 5
  Start <- FatalBounds
  Kind <- Fatal
  Cuts <- AnywhereFatal
  HandlerThrows = TRUE
  HasInvalidTypeHandler = TRUE
INVARIANTS
  DeliveredInOrder
  OnlyRestOfChunkIsLost
CHECK_DEADLOCK FALSE
