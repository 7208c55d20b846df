SPECIFICATION FairSpec
CONSTANTS
  Base = 16
  RequestIds <- TwoIds
  OwnParams <- FewOwnParams
  ForeignParams <- FewForeignParams
  Texts <- FewTexts
  ValueName <- SixByteNames
  Values <- FewValues
  Cuts <- FewCuts
INVARIANTS
  TypeOK
  MessagesArriveUnchanged
  TerminatorEndsData
  RequestFindsItsParams
  ResultTellsValues
PROPERTIES
  EverythingArrives
CHECK_DEADLOCK FALSE
