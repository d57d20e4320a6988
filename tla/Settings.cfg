\* Two processes that may overlap, fail and die, over a file with a key the program
\* does not know and entries of the right or another type, or over none at all.
CONSTANTS
    Process = {p1, p2}
    Strings = {"m"}
    Tools = {"t"}
    EnvKeys = {"k1", "k2"}
    MaxOps = 3
SPECIFICATION Spec
INVARIANT
    AloneIsAtomic
CHECK_DEADLOCK FALSE
