SPECIFICATION Spec
CONSTANTS
  c1 = c1
  c2 = c2
  Connections <- MCConnections
  MaximumRole = 2
  Sessions = {s1}
  Maps = {plaza}
  UnknownMap = UnknownMap
  Positions <- MCApart
  Names = {}
  Unnamed = Unnamed
  Buckets = {0}
  Radius = 5
  HighDistance = 0
  MediumDistance = 0
  LowDistance = 0
  MediumDivisor = 1
  LowDivisor = 1
  MediumAbove = 0
  LowAbove = 0
  Poses = {1}
  Sequences = {1}
  StaleTimeout = 1
  MaxMoves = 0
  MaxDrops = 1
SYMMETRY Symmetry
INVARIANTS
  TypeOK
  AllocationsMatchPeers
  ScriptsKnowEveryPlayer
  ScopesAreOfPlayers
PROPERTIES
  ScopesFollowInterest
  IdsSpec
  JoiningPlayersAreKnown
