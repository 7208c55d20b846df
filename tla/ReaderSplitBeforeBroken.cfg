SPECIFICATION Spec
CONSTANTS
  N = 4
  Start <- ShortBounds
  Kind <- OneBroken
  Cuts <- Anywhere
  HandlerThrows = FALSE
  HasInvalidTypeHandler = TRUE
INVARIANTS
  BrokenRecordIsSkipped
CHECK_DEADLOCK FALSE
