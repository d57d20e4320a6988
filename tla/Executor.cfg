\* Every answer of up to three uses, then every one of up to two, in every
\* permission mode, either of them dropped at any poll.
CONSTANTS
    UseKinds <- MCUseKinds
    Registered <- MCRegistered
    policy_blocklist = {"Grep"}
    Preloadable = {"Bash"}
    NoParallel = FALSE
    MaxUses = 3
    MaxTurns = 2
SPECIFICATION FairSpec
INVARIANTS
    MutatorsRunAlone
    RunsOnlyWithConsent
    HookTrace
PROPERTIES
    AskedOncePerTool
    ExecuteReturns
CHECK_DEADLOCK FALSE
