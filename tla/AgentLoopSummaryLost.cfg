\* A summary call fails: the drained head is gone.
CONSTANTS
    Ids = {a}
    Tools = {t}
    tool_name <- MCToolName
    max_turns = 0
    max_tool_calls_per_turn = 0
    token_budget = 2
    Threshold = 2
    StuckThreshold = 1
    TOOL_ERROR_THRESHOLD = 1
    turn_reminder_every = 2
    verify_enabled = TRUE
    auto_think_on_stuck = TRUE
    has_goal = TRUE
    driver = "tui"
    has_timeout = TRUE
    AETHER_DEBUG = TRUE
    MaxUses = 2
    MaxInputs = 3
    MaxDisabled = 1
    AnswerTexts = {"plain"}
    HookReminders = {}
    TurnBound = 4
SPECIFICATION Spec
INVARIANT
    NothingForgotten
CHECK_DEADLOCK FALSE
