SPECIFICATION Spec
CONSTANTS
  Desktops = {d1}
  Runs = {i1, i2}
  NoRun = NoRun
  MaxRevisions = 4
  MaxCrashes = 1
  MaxFaults = 1
INVARIANT IInv
PROPERTIES ClaimsAreClosed ImplementsRuns
