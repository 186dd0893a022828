SPECIFICATION FairSpec
CONSTANTS
  Payload <- MCPayload
  Frags <- MCFrags
  MaximumFragments = 1
  MaximumAttempts = 2
  MaximumQueuedMessages = 2
  RetransmitInterval = 1
  ReorderWindow = 2
  AckBits = 2
  MaxEvents = 2
  MaxJoins = 2
  MaxForgets = 1
  MaxLosses = 1
INVARIANTS
  TypeOK
  EventsOnceInOrder
  RetiredWereHandled
PROPERTIES
  EventsArrive
  QueuesDrain
CHECK_DEADLOCK FALSE
