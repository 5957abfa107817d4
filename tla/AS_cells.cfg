SPECIFICATION FairSpec
CONSTANTS
  Threads = {t1, t2}
  Arms = {full, lean, bare, deepwiki, serena}
  Repos = {r1}
  Control = {bare}
  Static = {deepwiki}
  Indexless = {deepwiki, serena}
  Owner <- SharedOwner
  Plans <- EveryPlan
  Tracked = {r1}
  NoThread = NoThread
  NoCell = NoCell
  MaxHead = 1
  MaxCrashes = 1
  MaxTasks = 3
  MaxFaults = 1
  full = full
  lean = lean
  bare = bare
  deepwiki = deepwiki
  serena = serena
CHECK_DEADLOCK FALSE
INVARIANTS NoForeignServer NoBuildUnderAgent AgentHasIndex ControlClean
PROPERTIES ImplementsTreeIndex CellEndsUnlessHung
