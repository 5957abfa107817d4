SPECIFICATION FairSpec
CONSTANTS
  Cells = {c1}
  Setups <- OpenCode
  MaxRetries = 2
  JudgeTries = 3
  MaxRoom = 4
  MaxRefresh = 1
CHECK_DEADLOCK FALSE
INVARIANTS AdoptionKept
