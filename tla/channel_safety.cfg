SPECIFICATION Spec
CONSTANTS
  Payload <- MCPayload
  Frags <- MCFrags
  MaximumFragments = 2
  MaximumAttempts = 3
  MaximumQueuedMessages = 2
  RetransmitInterval = 1
  ReorderWindow = 2
  AckBits = 2
  MaxMessages = 3
  Copies = {TRUE}
  MaxLosses = 0
INVARIANTS
  TypeOK
  NothingVanishes
  HeldIsDescribable
PROPERTY DeliverySpec
CHECK_DEADLOCK FALSE
