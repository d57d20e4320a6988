\* Pipes with room for every request: nothing blocks a writer for good.
CONSTANTS
    Callers = {c1, c2}
    Size = 2
    InCap = 6
    OutCap = 1
    BadLines = TRUE
    MaxReq = 3
    MaxNotes = 1
SPECIFICATION FairSpec
INVARIANTS
    NoCrossTalk
    WaiterIsPending
    NoStaleEntry
PROPERTIES
    ImplementsRpc
    RequestReturns
CHECK_DEADLOCK FALSE
