SPECIFICATION Spec
CONSTANTS
    Cmd = {"ping", "stfu"}
    OwnCmds = {"ping"}
    LateCmds = {"stfu"}
    MaxRequests = 1
    MaxUpdates = 1
    MaxRestarts = 1
    MaxOutages = 1
CHECK_DEADLOCK FALSE
INVARIANTS
    RunOnce
PROPERTIES
    CommandsAreServed
    DueIsRun
