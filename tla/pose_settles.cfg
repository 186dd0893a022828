SPECIFICATION FairSpec
CONSTANTS
  p1 = p1
  p2 = p2
  Peers <- MCPeers
  Networks <- MCFar
  MaxOffers = 2
PROPERTY
  StreamSettles
