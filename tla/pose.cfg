SPECIFICATION FairSpec
CONSTANTS
  p1 = p1
  p2 = p2
  Peers <- MCPeers
  Networks <- MCNetworks
  MaxOffers = 2
INVARIANTS
  TypeOK
  FramesAreSendable
PROPERTIES
  PosesKeepComing
  SettlesWhenPrompt
