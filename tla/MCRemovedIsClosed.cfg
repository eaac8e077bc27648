SPECIFICATION Spec
CONSTANTS
  Fd <- TwoFds
  MAX_CLIENT_COUNT = 2
  Name <- Ann
  Word <- ShortWord
  MAX_HP = 1
  ARG_LEN = 4
  MaxArrivals = 2
  MaxInputs = 0
INVARIANT
  RemovedIsClosed
CHECK_DEADLOCK FALSE
