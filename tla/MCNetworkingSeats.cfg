SPECIFICATION Spec
CONSTANTS
  Fd <- TwoFds
  MAX_CLIENT_COUNT = 1
  Name <- Ann
  Word <- ShortWord
  MAX_HP = 1
  ARG_LEN = 4
  MaxArrivals = 3
  MaxInputs = 1
INVARIANTS
  TypeOK
  SeatsAreCounted

  
CHECK_DEADLOCK FALSE
