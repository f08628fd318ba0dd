CONSTANTS
    MaxWrites = 2
    MaxRequests = 3
    MaxAnswers = 3
SPECIFICATION QuitSpec
INVARIANT QuitInv
PROPERTY FullGrace
PROPERTY QuitIsHeard
CHECK_DEADLOCK FALSE
