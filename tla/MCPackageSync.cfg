SPECIFICATION Spec
CONSTANTS
  Clients = {c1, c2}
  Revisions = {r1, r2, r3}
  NoHash = NoHash
  NoRemote = NoRemote
  NotInstalled = NotInstalled
  MaxLocal = 2
  MaxChain = 1
  MaxFaults = 1
SYMMETRY Symmetry
INVARIANTS IInv
PROPERTIES PendingWorkKept PromoteSettles
