SPECIFICATION Spec
CONSTANTS
  a1 = a1
  a2 = a2
  b1 = b1
  A = A
  B = B
  Tasks = {a1, a2, b1}
  Processes = {A, B}
  ProcessOf <- InTwoProcesses
  Roles = {"reader", "writer"}
  None = None
  Free = Free
  MaxEvents = 3
CHECK_DEADLOCK FALSE
INVARIANTS IInv RefreshesAreCurrent ClientsFollow LogoutIsFinal NeverStuck
