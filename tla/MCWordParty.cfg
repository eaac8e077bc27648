SPECIFICATION PartySpec
CONSTANTS
  Id <- ThreeIds
  MAX_HP = 1
  MAX_TURN_TIMER = 1
  MAX_SEND_TIMER = 0
  DeltaTime <- ShortFrames
  Substr <- OneSubstr
  Word <- OneWord
  Valid <- CabFitsAb
  AnyDeparture = TRUE
  QUEUE_ROOM = 2
  MaxStarts = 1
  MaxQuits = 1
  MaxWords = 1
INVARIANTS
  PartyTypeOK
  
  ClientsShowTheGame
  CrashesAreExplained
  
