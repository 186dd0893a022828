SPECIFICATION Spec
CONSTANTS
  Payload <- MCPayload
  Frags <- MCFrags
  MaximumFragments = 1
  MaximumAttempts = 2
  MaximumQueuedMessages = 2
  RetransmitInterval = 1
  ReorderWindow = 2
  AckBits = 2
  MaxEvents = 2
  MaxJoins = 2
  MaxForgets = 0
  MaxLosses = 0
INVARIANT SettledEventsWereHandled
CHECK_DEADLOCK FALSE
