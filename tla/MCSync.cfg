CONSTANTS
  N = 4
  Alive = {0, 1, 2, 3}
  TopView = 6
  TwinViews = {}
  SlowViews = {5}
  Lagging = {2}
  MissedViews = {3, 4, 5}
  Restarted = {2}
  Durable = TRUE
  Slow <- MCSlow
  Lost <- LostFirstToo
  Synced <- SyncedEarly
  MaxRestarts <- MCRestarts
  Block <- MCBlock
  Genesis <- MCGenesis
  NoBlock <- MCNoBlock
  ViewOf <- MCViewOf
  ParentOf <- MCParentOf
  Ancestors <- MCAncestors
SPECIFICATION SpecSync
INVARIANTS
  CommitIsFinal
  OneOutcomePerView
  PrepareIsHighestCert
PROPERTIES
  NeverGoesBack
