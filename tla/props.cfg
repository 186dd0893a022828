SPECIFICATION FairSpec
CONSTANTS
  s1 = s1
  s2 = s2
  here = here
  there = there
  Servers <- MCServers
  Places <- MCPlaces
  Home = s1
  Spawn = here
  Nowhere = Nowhere
  Capacity = 2
  MaxInputs = 3
INVARIANTS
  TypeOK
  VersionCoversProps
  PlacementsAreKept
PROPERTIES
  PropsArrive
  ShutdownReturns
CHECK_DEADLOCK FALSE
