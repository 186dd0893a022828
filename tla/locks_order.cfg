SPECIFICATION Spec
CONSTANTS
  Relay = relay
  Nobody = nobody
  w1 = w1
  Workers <- MCOneWorker
  Calls <- MCLoopOnly
  MaxDrops = 2
INVARIANT LocksAreTakenInOrder
PROPERTY EveryThreadReturns
