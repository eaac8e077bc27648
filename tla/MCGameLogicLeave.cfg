SPECIFICATION Spec
CONSTANTS
  Id <- ThreeIds
  MAX_HP = 2
  MAX_TURN_TIMER = 2
  MAX_SEND_TIMER = 1
  DeltaTime <- ShortFrames
  Substr <- TwoSubstrs
  Word <- OneWord
  Valid <- CabFitsAb
  AnyDeparture = TRUE
PROPERTIES
  ClientsCanFollow
  TurnEnds
  GameDecided
