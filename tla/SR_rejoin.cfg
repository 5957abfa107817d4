SPECIFICATION Spec
CONSTANTS
  Outs = {o1}
  NTasks = 2
  MaxLaunches = 2
  MaxTears = 0
CHECK_DEADLOCK FALSE
INVARIANTS ResumeRejoins
