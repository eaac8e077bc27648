SPECIFICATION Spec
CONSTANTS
  Fd <- TwoFds
  MAX_CLIENT_COUNT = 2
  Name <- Ann
  Word <- AllWords
  MAX_HP = 1
  ARG_LEN = 4
  MaxArrivals = 2
  MaxInputs = 1
INVARIANTS
  RostersConverge
  NoClientCrashes
PROPERTIES
  LogicCanFollow
  
CHECK_DEADLOCK FALSE
