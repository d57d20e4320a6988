\* Buffers of one message in either direction: every send can meet a full one.
CONSTANTS
    Callers = {c1, c2}
    UpCap = 1
    DownCap = 1
    MaxReq = 3
    MaxNotes = 1
SPECIFICATION FairSpec
INVARIANTS
    NoStaleEntry
    DrainReachesAll
PROPERTIES
    ImplementsRpc
    ReturnsUnlessDeaf
CHECK_DEADLOCK FALSE
