CONSTANTS
  N = 2
  Alive = {0, 1}
  TopView = 5
  TwinViews = {2}
  SlowViews = {1, 2, 3}
  Lagging = {}
  MissedViews = {}
  Restarted = {0, 1}
  Durable = TRUE
  Slow <- MCSlow
  Lost <- LostToLagging
  Synced = {}
  MaxRestarts <- MCRestarts
  Block <- MCBlock
  Genesis <- MCGenesis
  NoBlock <- MCNoBlock
  ViewOf <- MCViewOf
  ParentOf <- MCParentOf
  Ancestors <- MCAncestors
SPECIFICATION Spec
INVARIANTS
  SignOnce
  OneOutcomePerView
  ViewsIncrease
  PrepareBelowView
PROPERTIES
  NeverGoesBack
