CONSTANTS
  N = 2
  Alive = {0, 1}
  TopView = 6
  TwinViews = {}
  SlowViews = {1, 2}
  Lagging = {}
  MissedViews = {}
  Restarted = {}
  Durable = TRUE
  Slow <- MCSlow
  Lost <- LostToLagging
  Synced = {}
  MaxRestarts <- MCRestarts
  Block <- MCBlock
  Genesis <- MCGenesis
  NoBlock <- MCNoBlock
  ViewOf <- MCViewOf
  ParentOf <- MCParentOf
  Ancestors <- MCAncestors
SPECIFICATION Spec
INVARIANTS
  FinalizedIsComplete
