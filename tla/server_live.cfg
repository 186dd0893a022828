SPECIFICATION FairSpec
CONSTANTS
  c1 = c1
  c2 = c2
  Connections <- MCAlone
  MaximumRole = 2
  Sessions = {s1}
  Maps = {plaza}
  UnknownMap = UnknownMap
  Positions = {0}
  Names = {ann}
  Unnamed = Unnamed
  Buckets = {0, 1}
  Radius = 0
  HighDistance = 0
  MediumDistance = 0
  LowDistance = 0
  MediumDivisor = 1
  LowDivisor = 1
  MediumAbove = 0
  LowAbove = 0
  Poses = {1}
  Sequences = {1}
  StaleTimeout = 1
  MaxMoves = 1
  MaxDrops = 0
INVARIANT StreamsAreAccepted
PROPERTIES
  ClosedClientsAreDropped
  RegistrationsComplete
