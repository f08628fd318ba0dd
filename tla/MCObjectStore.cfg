SPECIFICATION Spec
CONSTANTS
  Procs = {p1, p2}
  Packages = {n1, n2}
  Objects = {a}
  None = None
  Free = Free
  MaxOps = 3
  MaxCrashes = 1
SYMMETRY Symmetry
CHECK_DEADLOCK FALSE
INVARIANTS IInv
PROPERTIES DeletesOnlyUnused GcLeavesNoGarbage
