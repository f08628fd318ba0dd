CONSTANTS
    Packages = {p1}
    Wait = 2
    MaxSleep = 1
    BusyRetry = 1
    Backoff = 1
    Commands <- MCCommands
    MaxEvents = 1
SPECIFICATION FairSpec
INVARIANT IInv
PROPERTY NewChangesWait
PROPERTY ChangesArePublished
