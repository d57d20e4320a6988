\* One session under the TUI driver: a failed turn is retried once with the
\* fallback model, and "/compact full" runs at the prompt.
CONSTANTS
    Ids = {a}
    Tools = {t}
    tool_name <- MCToolName
    max_turns = 3
    max_tool_calls_per_turn = 0
    token_budget = 2
    Threshold = 2
    StuckThreshold = 1
    TOOL_ERROR_THRESHOLD = 1
    turn_reminder_every = 2
    verify_enabled = TRUE
    auto_think_on_stuck = TRUE
    has_goal = TRUE
    driver = "tui"
    has_timeout = TRUE
    AETHER_DEBUG = TRUE
    MaxUses = 2
    MaxInputs = 2
    MaxDisabled = 1
    AnswerTexts = {"none", "flagged"}
    HookReminders = {"Advice"}
    TurnBound = 5
SPECIFICATION FairSpec
PROPERTY
    RunReturns
CHECK_DEADLOCK FALSE
