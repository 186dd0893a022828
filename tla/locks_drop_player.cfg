SPECIFICATION Spec
CONSTANTS
  Relay = relay
  Nobody = nobody
  w1 = w1
  Workers <- MCOneWorker
  Calls <- MCAlways
  MaxDrops = 1
PROPERTY DropPlayerReturns
CHECK_DEADLOCK FALSE
