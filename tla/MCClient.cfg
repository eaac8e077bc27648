SPECIFICATION Spec
CONSTANTS
  MAX_HP = 1
  ARG_LEN = 3
  Letter <- Letters
  INPUT_SIZE = 4
  ServerMessage <- Messages
  Other = 2
  default_alert_ttl = 2
  winner_ttl = 3
  DeltaTime <- OneTick
  TCACHE_COUNT = 2
  MaxAlerts = 3
  MaxKeys = 3
INVARIANT
  TypeOK
PROPERTIES
  ShowsTheBoard
  EnteredIsMeant
  
