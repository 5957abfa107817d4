SPECIFICATION FairSpec
CONSTANTS
  Cells = {c1, c2}
  Setups <- AllSetups
  MaxRetries = 2
  JudgeTries = 3
  MaxRoom = 4
  MaxRefresh = 1
CHECK_DEADLOCK FALSE
INVARIANTS HomeUndisturbed OwnConfiguration RowsAuthentic CostHonest
PROPERTIES CellEnds
