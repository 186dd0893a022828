SPECIFICATION FairSpec
CONSTANTS
  ann = ann
  bob = bob
  Players <- MCPlayers
  Wardrobe <- MCWardrobe
  Bare = Bare
  Capacity = 1
  Habits = {"return", "unseen", "walk"}
  MaxTroubles = 1
INVARIANTS
  TypeOK
  WornLooksAreStored
PROPERTIES
  NobodyStaysAProxy
  RosterLooksAreShown
