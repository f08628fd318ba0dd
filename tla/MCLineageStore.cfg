SPECIFICATION FairSpec
CONSTANTS
  Writers = {w1, w2}
  Namespaces = {n1, n2}
  Homes = {h1, h2}
  NoHome = NoHome
  None = None
  Free = Free
  MaxOps = 3
  MaxCrashes = 1
CHECK_DEADLOCK FALSE
INVARIANTS IInv
PROPERTIES MovesOnlyEmptyHome ImplementsRegisters WritersFinish
