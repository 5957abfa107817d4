SPECIFICATION Spec
CONSTANTS
  p1 = p1
  p2 = p2
  f = f
  t = t
  Procs = {p1, p2}
  Files = {f}
  Unnamed = {f}
  Trees = {t}
  Attempts = 2
  MaxSweeps = 3
  MaxFaults = 2
SYMMETRY MCSymmetry
CHECK_DEADLOCK FALSE
INVARIANTS SweepFills
PROPERTIES ImplementsSlots
