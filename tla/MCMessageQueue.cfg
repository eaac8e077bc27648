CONSTANTS
  MESSAGE_QUEUE_LEN = 4
  Message = {m1, m2, big}
  Oversized = {big}
  NoMessage = NoMessage
  Waits = TRUE
SPECIFICATION Spec
INVARIANTS TypeOK PipeMatchesOccupancy NoSlotRace ReadWaitsForPendingWrite
PROPERTIES ImplementsFifo HeadAdvances
