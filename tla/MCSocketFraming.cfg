SPECIFICATION Spec
CONSTANTS
  Message <- Messages
  Size <- Sizes
  Refusals <- FullRefuses
  MAX_RECV_BUFFER_SIZE = 4
  StreamSize = 4
INVARIANTS
  TypeOK
  RecvNeverBlocks
PROPERTIES
  ImplementsStream
  WaitingIsDelivered
CHECK_DEADLOCK FALSE
