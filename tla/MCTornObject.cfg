CONSTANTS
    a = a
    b = b
    c1 = c1
    c2 = c2
    Paths = {a, b}
    Contents = {c1, c2, part}
    Part = part
    Absent = absent
    Here = here
    NoHash = nohash
    NoRemote = noremote
    NotInstalled = none
    MaxEdits = 2
    MaxChain = 3
    MaxStops = 1
SYMMETRY Alike
SPECIFICATION Spec
INVARIANT ObjectsHoldTheirNames
