CONSTANTS
  N = 4
  Alive = {0, 1, 2, 3}
  TopView = 5
  TwinViews = {}
  SlowViews = {3, 4}
  Lagging = {1}
  MissedViews = {2, 3}
  Restarted = {1}
  Durable = TRUE
  Slow <- MCSlow
  Lost <- LostToLagging
  Synced = {}
  MaxRestarts <- MCRestarts
  Block <- MCBlock
  Genesis <- MCGenesis
  NoBlock <- MCNoBlock
  ViewOf <- MCViewOf
  ParentOf <- MCParentOf
  Ancestors <- MCAncestors
SPECIFICATION Spec
INVARIANTS
  TypeOK
  IInv
  OneOutcomePerView
  PrepareIsHighestCert
  StoreIsClosed
  TwoChainIsLocked
  CollectorsMatchView
  EventsInOrder
  CommitIsFinal
  TagsFollowCommit
PROPERTIES
  NeverGoesBack
