SPECIFICATION Spec
CONSTANTS
  c1 = c1
  c2 = c2
  c3 = c3
  Connections <- MCConnections
  MaximumRole = 3
  Sessions = {s1}
  Maps = {plaza}
  UnknownMap = UnknownMap
  Positions <- MCPositions
  Names = {}
  Unnamed = Unnamed
  Buckets = {0, 1}
  Radius = 0
  HighDistance = 1
  MediumDistance = 2
  LowDistance = 3
  MediumDivisor = 2
  LowDivisor = 4
  MediumAbove = 1
  LowAbove = 0
  Poses <- MCPoses
  Sequences <- MCSequences
  StaleTimeout = 0
SYMMETRY Symmetry
INVARIANTS
  TypeOK
  RolesMatchPeers
  InterestIsMutual
  NoDeltaWithoutKeyframe
  PoseGroupsRoutedWhole
  ThinningNeverFreezes
