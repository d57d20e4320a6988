\* A REPL session that is killed and resumed anywhere, at most once, with one
\* /retry.  Error counts matter only to a reminder and to the compaction
\* threshold, which is 0 already, hence the error threshold of 0.
CONSTANTS
    Ids = {a}
    Tools = {t}
    tool_name <- MCToolName
    max_turns = 2
    max_tool_calls_per_turn = 0
    token_budget = 0
    Threshold = 0
    StuckThreshold = 0
    TOOL_ERROR_THRESHOLD = 0
    turn_reminder_every = 0
    verify_enabled = FALSE
    auto_think_on_stuck = FALSE
    has_goal = FALSE
    driver = "repl"
    has_timeout = FALSE
    AETHER_DEBUG = FALSE
    MaxUses = 1
    MaxInputs = 2
    MaxDisabled = 0
    AnswerTexts = {"plain", "none"}
    HookReminders = {}
    TurnBound = 3
    MaxRestarts = 1
    MaxRetries = 1
SPECIFICATION JournalSpec
INVARIANTS
    ResumeRemembers
    CleanResumeIsPaired
    CrashCost
    BranchIsEarlierSession
PROPERTY
    JournalsOnlyNews
CHECK_DEADLOCK FALSE
