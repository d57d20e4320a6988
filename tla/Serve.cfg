\* Concurrent requests of one address against two slots: two tokens in the bucket, two more
\* every three units of time.
CONSTANTS
    Requests = {r1, r2, r3, r4}
    Ips = {x}
    rpm = 2
    max_sessions = 2
    Minute = 3
    MaxTime = 4
SYMMETRY RequestSymmetry
SPECIFICATION Spec
INVARIANTS
    SessionCap
    NoSlotLeaks
    RateHolds
    RetryAfterHonest
CHECK_DEADLOCK FALSE
