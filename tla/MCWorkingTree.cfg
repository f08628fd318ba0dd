SPECIFICATION Spec
CONSTANTS
  Paths = {p1, p2}
  Contents = {a, b}
  Absent = Absent
  Here = here
  NoHash = NoHash
  NoRemote = NoRemote
  NotInstalled = NotInstalled
  MaxEdits = 1
  MaxRevisions = 2
  MaxStops = 1
SYMMETRY Symmetry
INVARIANTS IInv OnlyEditsBlock
PROPERTIES RenamesKeepEdits ImplementsFetches
