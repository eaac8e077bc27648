SPECIFICATION Spec
CONSTANTS
  Id <- ThreeIds
  MAX_HP = 2
  MAX_TURN_TIMER = 3
  MAX_SEND_TIMER = 1
  DeltaTime <- UnevenFrames
  Substr <- TwoSubstrs
  Word <- OneWord
  Valid <- CabFitsAb
  AnyDeparture = FALSE
INVARIANTS
  TypeOK
  TurnHolderAlive
  LobbyIsFresh
  OnlyLateWordsStop
PROPERTIES
  HeartsMove
  PlaysByTheRules
