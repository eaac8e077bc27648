SPECIFICATION Spec
CONSTANTS
  Id <- TwoIds
  MAX_HP = 2
  MAX_TURN_TIMER = 2
  MAX_SEND_TIMER = 1
  DeltaTime <- ShortFrames
  Substr <- OneSubstr
  Word <- OneWord
  Valid <- NothingFits
  AnyDeparture = TRUE
PROPERTY
  LastStandingWins
