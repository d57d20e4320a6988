\* Pipes smaller than what is in flight: a request longer than the stdin pipe
\* is being written while the server is blocked on its own output.
CONSTANTS
    Callers = {c1, c2}
    Size = 2
    InCap = 1
    OutCap = 1
    BadLines = FALSE
    MaxReq = 3
    MaxNotes = 1
SPECIFICATION FairSpec
PROPERTY
    RequestReturns
CHECK_DEADLOCK FALSE
