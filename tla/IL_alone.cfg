SPECIFICATION FairSpec
CONSTANTS
  Procs = {p1}
  Trees = {u, v}
  NoTree = NoTree
  Alone = TRUE
  MaxHead = 1
  MaxKills = 2
  MaxFails = 1
  MaxBenches = 1
CHECK_DEADLOCK FALSE
INVARIANTS StampMeansBuilt StampsAreCold AgentIndexBuilt
PROPERTIES ImplementsTreeIndex Prebuilt
