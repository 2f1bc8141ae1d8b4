CONSTANTS
  N = 4
  Alive = {0, 1, 2, 3}
  TopView = 3
  TwinViews = {}
  SlowViews = {1}
  Lagging = {}
  MissedViews = {}
  Restarted = {0, 1, 2, 3}
  Durable = FALSE
  Slow <- MCSlow
  Lost <- LostToLagging
  Synced = {}
  MaxRestarts <- MCRestarts
  Block <- MCBlock
  Genesis <- MCGenesis
  NoBlock <- MCNoBlock
  ViewOf <- MCViewOf
  ParentOf <- MCParentOf
  Ancestors <- MCAncestors
SPECIFICATION Spec
INVARIANTS
  SignOnce
