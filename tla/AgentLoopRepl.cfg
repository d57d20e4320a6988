\* One session under the REPL driver: Ctrl-C may drop any turn.
CONSTANTS
    Ids = {a, b}
    Tools = {t}
    tool_name <- MCToolName
    max_turns = 3
    max_tool_calls_per_turn = 1
    token_budget = 2
    Threshold = 2
    StuckThreshold = 1
    TOOL_ERROR_THRESHOLD = 2
    turn_reminder_every = 2
    verify_enabled = TRUE
    auto_think_on_stuck = FALSE
    has_goal = TRUE
    driver = "repl"
    has_timeout = FALSE
    AETHER_DEBUG = TRUE
    MaxUses = 2
    MaxInputs = 3
    MaxDisabled = 0
    AnswerTexts = {"plain", "flagged"}
    HookReminders = {}
    TurnBound = 5
SYMMETRY IdSymmetry
SPECIFICATION Spec
INVARIANTS
    TypeOK
    PairedHistory
    GuardNeverFires
    NoPrefill
    BlockedStaysOut
    ForgottenOnlyByFailure
    BlockGuidanceSent
    UnansweredOnlyAtBudget
    TurnBudgetHolds
PROPERTY
    CompactionKeepsTail
CHECK_DEADLOCK FALSE
