CONSTANTS
  N = 4
  Alive = {0, 1, 2, 3}
  TopView = 4
  TwinViews = {}
  SlowViews = {1}
  Lagging = {}
  MissedViews = {}
  Restarted = {}
  Durable = TRUE
  Slow <- MCSlow
  Lost <- LostToLagging
  Synced <- AnySynced
  MaxRestarts <- MCRestarts
  Block <- MCBlock
  Genesis <- MCGenesis
  NoBlock <- MCNoBlock
  ViewOf <- MCViewOf
  ParentOf <- MCParentOf
  Ancestors <- MCAncestors
SPECIFICATION SpecSync
INVARIANTS
  TimerArmed
