\* Every history of up to three items over two tool-use ids.
CONSTANTS
    Ids = {a, b}
    MaxItems = 3
    MaxIds = 2
SPECIFICATION GuardSpec
INVARIANT
    SelfHeals
PROPERTIES
    ReportsExactly
    KeepsHonestBlocks
CHECK_DEADLOCK FALSE
