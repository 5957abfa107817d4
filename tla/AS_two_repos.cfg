SPECIFICATION Spec
CONSTANTS
  Threads = {t1, t2}
  Arms = {full}
  Repos = {r1, r2}
  Control = {}
  Static = {}
  Indexless = {}
  Owner <- OwnOwner
  Plans <- BuildAll
  Tracked = {}
  NoThread = NoThread
  NoCell = NoCell
  MaxHead = 0
  MaxCrashes = 0
  MaxTasks = 2
  MaxFaults = 0
  full = full
  lean = lean
  bare = bare
  deepwiki = deepwiki
  serena = serena
CHECK_DEADLOCK FALSE
INVARIANTS NoForeignServer
