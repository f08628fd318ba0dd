SPECIFICATION FairSpec
CONSTANTS
  a1 = a1
  a2 = a2
  b1 = b1
  A = A
  B = B
  Tasks = {a1, a2, b1}
  Processes = {A, B}
  ProcessOf <- InTwoProcesses
  Free = Free
  MaxCancels = 2
  MaxCrashes = 1
INVARIANTS LayersInv OneParkedThread
PROPERTIES ImplementsLock LockNotLost
