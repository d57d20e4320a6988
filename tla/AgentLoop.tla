------------------------------ MODULE AgentLoop ------------------------------
(***************************************************************************)
(* One agent session: agent_turn_inner (aether-core/src/lib.rs) with the   *)
(* compaction pass (compaction.rs) and the driver loop that calls it.      *)
(*                                                                         *)
(* A turn runs to completion between its awaits, so it is cut into steps   *)
(* at exactly those points: waiting for a compaction summary, for the      *)
(* model's answer, and for the tools.  At each of them the provider may    *)
(* fail and the REPL driver may drop the turn on Ctrl-C.  The REPL's other *)
(* loop, /retry, is in Journal.                                            *)
(*                                                                         *)
(* Token counts, error counts and usage are small numbers compared only    *)
(* with their thresholds, so they saturate there.  A reminder is its kind: *)
(* the queue is deduplicated by body before it is read, hence a set.       *)
(***************************************************************************)
EXTENDS Context, FiniteSets

CONSTANTS
    Tools,                    \* tool names
    tool_name,                \* the tool each id calls
    max_turns,                \* Session.max_turns, 0 = unlimited
    max_tool_calls_per_turn,  \* SessionConfig, 0 = unlimited
    token_budget,             \* Session.token_budget, 0 = unlimited
    Threshold,                \* usage at which compaction fires
    StuckThreshold,           \* the lowered threshold of a stuck session
    TOOL_ERROR_THRESHOLD,     \* planner.rs
    turn_reminder_every,      \* Session.turn_reminder_every, 0 = off
    verify_enabled,
    auto_think_on_stuck,
    has_goal,                 \* plan.goal is Some
    driver,                   \* "repl", or "tui" with llm_fallback_model set
    has_timeout,              \* llm_timeout_secs > 0
    AETHER_DEBUG,             \* the pairing guard refuses instead of repairing
    AnswerTexts,              \* classes of text an answer may have
    HookReminders,            \* reminders hooks, playbook and duplicate detector may add
    MaxUses,                  \* bound: tool uses in one response
    MaxInputs,                \* bound: messages the user types
    MaxDisabled,              \* bound: initial tools_disabled_turns
    TurnBound                 \* bound: completed turns

ASSUME ConstantsAssumption ==
    /\ tool_name \in [Ids -> Tools]
    /\ max_turns \in Nat /\ max_tool_calls_per_turn \in Nat
    /\ token_budget \in Nat /\ turn_reminder_every \in Nat
    /\ Threshold \in Nat /\ StuckThreshold \in 0..Threshold
    /\ TOOL_ERROR_THRESHOLD \in Nat
    /\ driver \in {"repl", "tui"}
    /\ AnswerTexts \subseteq {"none", "plain", "flagged"}
    /\ HookReminders \subseteq {"Advice"}
    /\ MaxUses \in Nat /\ MaxInputs \in Nat /\ MaxDisabled \in Nat /\ TurnBound \in Nat
    /\ {verify_enabled, auto_think_on_stuck, has_goal, has_timeout, AETHER_DEBUG} \subseteq BOOLEAN

VARIABLES
    history,              \* Session.history
    turn_index,
    pending_reminders,
    usage_total,
    tool_error_counts,    \* Plan: consecutive errors of each tool
    tool_call_stats,      \* Plan: errors of each tool over the session
    thinking_budget,      \* TRUE iff Some: extended thinking is on
    tools_disabled_turns,
    pc,                   \* where the driver or the turn is waiting
    call,                 \* the turn's locals that live across an await
    summary,              \* compact_inner's locals that live across its await
    outcome,              \* what the last turn returned
    asked,                \* number of messages the user has typed
    lost,                 \* ghost: inputs dropped with a failed or cut-off step
    as_is                 \* ghost: the last stop reason continues with no user item

vars == <<history, turn_index, pending_reminders, usage_total,
          tool_error_counts, tool_call_stats, thinking_budget,
          tools_disabled_turns, pc, call, summary, outcome, asked, lost, as_is>>

planVars == <<tool_error_counts, tool_call_stats>>

StopReason == {"EndTurn", "ToolUse", "MaxTokens", "Refusal", "StopSequence", "PauseTurn"}
ReminderKind == {"TurnBudget", "Stuck", "Standing", "PeriodicGoal", "CompactGoal",
                 "TokenBudget", "ToolBudget", "Blocked", "AutoThink", "Advice"}
Outcome == {"Start", "AwaitUser", "ContinueImmediately", "Llm", "Internal", "Interrupted"}
Pc == {"Prompt", "Resume", "Retry", "Summarising", "Calling", "Executing"}

NoCall    == [tools |-> FALSE, reminders |-> {}, retry |-> FALSE,
              text |-> "none", uses |-> <<>>, stop |-> "EndTurn"]
NoSummary == [about |-> {}, pair |-> FALSE, forced |-> FALSE]

\* The TUI driver retries a failed turn once with the fallback model.
has_second_try == driver = "tui"

Saturate(n, bound) == IF n > bound THEN bound ELSE n

Init ==
    /\ history = <<>>
    /\ turn_index = 0
    /\ pending_reminders = {}
    /\ usage_total = 0
    /\ tool_error_counts = [t \in Tools |-> 0]
    /\ tool_call_stats = [t \in Tools |-> 0]
    /\ thinking_budget = FALSE
    /\ tools_disabled_turns \in 0..MaxDisabled
    /\ pc = "Prompt"
    /\ call = NoCall
    /\ summary = NoSummary
    /\ outcome = "Start"
    /\ asked = 0
    /\ lost = {}
    /\ as_is = FALSE

-----------------------------------------------------------------------------
(***************************************************************************)
(* Perceive: refresh the plan, queue the turn's reminders, drain the       *)
(* queue, build the request and run the pairing guard on it.               *)
(***************************************************************************)
stuck == \E t \in Tools : tool_error_counts[t] >= TOOL_ERROR_THRESHOLD

turn_reminders ==
         {"Standing"}
    \cup (IF stuck THEN {"Stuck"} ELSE {})
    \cup (IF /\ has_goal /\ turn_reminder_every > 0 /\ turn_index > 0
             /\ turn_index % turn_reminder_every = 0
          THEN {"PeriodicGoal"} ELSE {})

\* Mutant: the countdown does not stop.
disabled_after_underflow == tools_disabled_turns - 1

disabled_after == IF tools_disabled_turns > 0 THEN tools_disabled_turns - 1 ELSE 0

\* Mutant: the fallback attempt is itself retried.
after_error_again(retry) == IF has_second_try THEN "Retry" ELSE "Prompt"

\* Where the driver goes when agent_turn returns an error.
after_error(retry) == IF has_second_try /\ ~retry THEN "Retry" ELSE "Prompt"

\* The turn continues with history h and queue r; retry says whether this is
\* the driver's second attempt with the fallback model.
Assemble(h, r, retry) ==
    /\ history' = h
    /\ pending_reminders' = {}
    /\ summary' = NoSummary
    /\ IF AETHER_DEBUG /\ repairs(translate_history(h)) # {}
       THEN /\ outcome' = "Internal"
            /\ pc' = after_error(retry)
            /\ call' = NoCall
            /\ UNCHANGED tools_disabled_turns
       ELSE /\ call' = [NoCall EXCEPT
                          !.tools = ~thinking_budget /\ tools_disabled_turns = 0,
                          !.reminders = r \cup turn_reminders,
                          !.retry = retry]
            /\ tools_disabled_turns' = disabled_after
            /\ pc' = "Calling"
            /\ UNCHANGED outcome

-----------------------------------------------------------------------------
(***************************************************************************)
(* Compaction: where the history is cut, and the drain of its head.        *)
(***************************************************************************)
over_threshold == usage_total >= (IF stuck THEN StuckThreshold ELSE Threshold)

\* Mutant: the floor of two items is missing.
keep_count_unfloored(h) == Len(h) \div 3

keep_count(h)  == IF Len(h) \div 3 > 2 THEN Len(h) \div 3 ELSE 2
initial_cut(h) == Len(h) - keep_count(h)

\* Mutant: the cut is not walked back to a boundary.
boundaries_any(h, kind) == 1..initial_cut(h)

\* Cut points c (items 1..c are summarised) whose tail starts with this kind.
boundaries(h, kind) == {c \in 1..initial_cut(h) : h[c + 1].kind = kind}

cut_points(h) ==
    IF boundaries(h, "User") # {} THEN boundaries(h, "User")
    ELSE boundaries(h, "Assistant")

can_compact(h) == Len(h) >= 4 /\ cut_points(h) # {}

about_of(h) == UNION {h[i].about : i \in DOMAIN h}

\* compact_inner up to its await: the head leaves the history first.
Drain(h, forced) ==
    \E cut \in cut_points(h) :
        /\ \A c \in cut_points(h) : c <= cut
        /\ history' = SubSeq(h, cut + 1, Len(h))
        /\ summary' = [about  |-> about_of(SubSeq(h, 1, cut)),
                       pair   |-> boundaries(h, "User") # {},
                       forced |-> forced]
        /\ pc' = "Summarising"

\* Mutant: without a user boundary the summary is not spliced in.
with_summary_lost(h) ==
    IF summary.pair
    THEN <<User("header", {}), Item("Assistant", "summary", <<>>, summary.about)>> \o h
    ELSE h

\* The summary takes the head's place.
with_summary(h) ==
    IF summary.pair
    THEN <<User("header", {}), Item("Assistant", "summary", <<>>, summary.about)>> \o h
    ELSE <<User("summary", summary.about)>> \o h

-----------------------------------------------------------------------------
(***************************************************************************)
(* agent_turn_inner from its start to its first await.                     *)
(***************************************************************************)
\* Mutant: off by one.
budget_reached_late == max_turns > 0 /\ turn_index > max_turns

budget_reached == max_turns > 0 /\ turn_index >= max_turns

StopAtBudget(h) ==
    /\ budget_reached
    /\ history' = h
    /\ pending_reminders' = pending_reminders \cup {"TurnBudget"}
    /\ outcome' = "AwaitUser"
    /\ pc' = "Prompt"
    /\ UNCHANGED <<call, summary, tools_disabled_turns>>

CompactFirst(h, retry) ==
    /\ ~budget_reached
    /\ over_threshold /\ can_compact(h)
    /\ Drain(h, FALSE)
    /\ call' = [NoCall EXCEPT !.retry = retry]
    /\ UNCHANGED <<pending_reminders, outcome, tools_disabled_turns>>

CallDirectly(h, retry) ==
    /\ ~budget_reached
    /\ ~(over_threshold /\ can_compact(h))
    /\ Assemble(h, pending_reminders, retry)

AgentTurn(h, retry) ==
    /\ turn_index < TurnBound
    /\ StopAtBudget(h) \/ CompactFirst(h, retry) \/ CallDirectly(h, retry)
    /\ UNCHANGED <<turn_index, usage_total, planVars, thinking_budget, lost, as_is>>

\* The user types a message at the prompt.
Submit ==
    /\ pc = "Prompt"
    /\ asked < MaxInputs
    /\ asked' = asked + 1
    /\ AgentTurn(Append(history, User("input", {asked + 1})), FALSE)

\* ContinueImmediately: the driver calls again with no input.
Resume ==
    /\ pc = "Resume"
    /\ AgentTurn(history, FALSE)
    /\ UNCHANGED asked

\* After an error, once, with the fallback model and no input.
Retry ==
    /\ pc = "Retry"
    /\ AgentTurn(history, TRUE)
    /\ UNCHANGED asked

\* "/compact full" at the prompt.
ForceCompact ==
    /\ pc = "Prompt"
    /\ driver = "tui"
    /\ can_compact(history)
    /\ Drain(history, TRUE)
    /\ UNCHANGED <<turn_index, pending_reminders, usage_total, planVars, thinking_budget,
                   tools_disabled_turns, call, outcome, asked, lost, as_is>>

-----------------------------------------------------------------------------
(***************************************************************************)
(* The summary call comes back.  A failure is logged and the turn goes on  *)
(* with the history as drained.                                            *)
(***************************************************************************)
AfterSummary(h, r) ==
    /\ IF summary.forced
       THEN /\ history' = h
            /\ pending_reminders' = r
            /\ summary' = NoSummary
            /\ pc' = "Prompt"
            /\ UNCHANGED <<call, outcome, tools_disabled_turns>>
       ELSE Assemble(h, r, call.retry)
    /\ UNCHANGED <<turn_index, planVars, thinking_budget, asked, as_is>>

SummaryArrives ==
    /\ pc = "Summarising"
    /\ AfterSummary(with_summary(history),
                    pending_reminders \cup (IF has_goal THEN {"CompactGoal"} ELSE {}))
    /\ usage_total' \in 0..1
    /\ UNCHANGED lost

SummaryFails ==
    /\ pc = "Summarising"
    /\ AfterSummary(history, pending_reminders)
    /\ lost' = lost \cup summary.about
    /\ UNCHANGED usage_total

-----------------------------------------------------------------------------
(***************************************************************************)
(* Observe: record the turn and decide what the driver does next.          *)
(***************************************************************************)
recorded(text, uses) ==
    <<Assistant(text, uses)>> \o (IF uses = <<>> THEN <<>> ELSE <<ToolResults(uses)>>)

\* Mutant: an answer cut at max_tokens gets no user item after it.
follow_up_blocked(uses, stop, blocked) ==
    IF blocked THEN <<User("ack", {})>> ELSE <<>>

\* The synthetic user item that lets an unfinished answer be continued.
follow_up(uses, stop, blocked) ==
    IF blocked THEN <<User("ack", {})>>
    ELSE IF stop = "MaxTokens" /\ uses = <<>> THEN <<User("system", {})>>
    ELSE <<>>

\* Mutant: a blocked answer is handed back to the user.
goes_on_stop(stop, blocked) == stop \in {"ToolUse", "MaxTokens", "PauseTurn"}

goes_on(stop, blocked) == blocked \/ stop \in {"ToolUse", "MaxTokens", "PauseTurn"}

Observe(text, uses, stop, blocked) ==
    /\ history' = history \o recorded(text, uses) \o follow_up(uses, stop, blocked)
    /\ turn_index' = turn_index + 1
    /\ outcome' = IF goes_on(stop, blocked) THEN "ContinueImmediately" ELSE "AwaitUser"
    /\ pc' = IF goes_on(stop, blocked) THEN "Resume" ELSE "Prompt"
    /\ as_is' = (~blocked /\ uses = <<>> /\ stop \in {"ToolUse", "PauseTurn"})
    /\ call' = NoCall
    /\ UNCHANGED <<tools_disabled_turns, summary, asked, lost>>

\* The per-turn cap, then the verifier: a blocked answer is replaced by the
\* sentinel and its tool uses are dropped.
truncate(uses) ==
    IF max_tool_calls_per_turn > 0 /\ Len(uses) > max_tool_calls_per_turn
    THEN SubSeq(uses, 1, max_tool_calls_per_turn) ELSE uses

is_blocked(text) == verify_enabled /\ text = "flagged"

\* Mutant: the blocked text is kept.
final_text_kept(text) == text

accepted_uses(text, uses) == IF is_blocked(text) THEN <<>> ELSE truncate(uses)
final_text(text)          == IF is_blocked(text) THEN "sentinel" ELSE text

thinks == /\ auto_think_on_stuck /\ ~thinking_budget
          /\ \E t \in Tools : tool_call_stats[t] >= TOOL_ERROR_THRESHOLD

\* Mutant: guidance is queued only when the blocked answer called tools.
answer_reminders_partial(text, uses, used) ==
         (IF token_budget > 0 /\ used >= token_budget THEN {"TokenBudget"} ELSE {})
    \cup (IF truncate(uses) # uses THEN {"ToolBudget"} ELSE {})
    \cup (IF is_blocked(text) /\ uses # <<>> THEN {"Blocked"} ELSE {})
    \cup (IF thinks THEN {"AutoThink"} ELSE {})

answer_reminders(text, uses, used) ==
         (IF token_budget > 0 /\ used >= token_budget THEN {"TokenBudget"} ELSE {})
    \cup (IF truncate(uses) # uses THEN {"ToolBudget"} ELSE {})
    \cup (IF is_blocked(text) THEN {"Blocked"} ELSE {})
    \cup (IF thinks THEN {"AutoThink"} ELSE {})

\* The model answers: a response carries uses only when tools were offered.
\* The duplicate-call detector compares arguments, which are not modelled: its
\* warning may be among the advice whenever a call is accepted.
LlmAnswers(text, uses, stop, tokens, advice) ==
    /\ pc = "Calling"
    /\ uses # <<>> => call.tools
    /\ accepted_uses(text, uses) = <<>> => advice = {}
    /\ usage_total' = Saturate(usage_total + tokens, Threshold)
    /\ pending_reminders' =
          pending_reminders \cup answer_reminders(text, uses, usage_total') \cup advice
    /\ thinking_budget' = (thinking_budget \/ thinks)
    /\ IF accepted_uses(text, uses) = <<>>
       THEN Observe(final_text(text), <<>>, stop, is_blocked(text))
       ELSE /\ pc' = "Executing"
            /\ call' = [call EXCEPT !.text = final_text(text), !.stop = stop,
                                    !.uses = accepted_uses(text, uses)]
            /\ UNCHANGED <<history, turn_index, outcome, as_is, tools_disabled_turns,
                           summary, asked, lost>>
    /\ UNCHANGED planVars

\* Consecutive errors of a tool after a batch: a success resets the count.
errors_after(t, bad) ==
    LET mine  == {k \in DOMAIN call.uses : tool_name[call.uses[k]] = t}
        reset == \E k \in mine \ bad : TRUE
        since == {k \in mine \cap bad : \A s \in mine \ bad : s < k}
    IN  Saturate((IF reset THEN 0 ELSE tool_error_counts[t]) + Cardinality(since),
                 TOOL_ERROR_THRESHOLD)

errors_total(t, bad) ==
    Saturate(tool_call_stats[t]
                + Cardinality({k \in bad : tool_name[call.uses[k]] = t}),
             TOOL_ERROR_THRESHOLD)

\* The executor returns one result per use, in order; bad are the failed ones.
\* Hooks and the playbook may add reminders.
ToolsFinish(bad, advice) ==
    /\ pc = "Executing"
    /\ tool_error_counts' = [t \in Tools |-> errors_after(t, bad)]
    /\ tool_call_stats' = [t \in Tools |-> errors_total(t, bad)]
    /\ pending_reminders' = pending_reminders \cup advice
    /\ Observe(call.text, call.uses, call.stop, FALSE)
    /\ UNCHANGED <<usage_total, thinking_budget>>

-----------------------------------------------------------------------------
(***************************************************************************)
(* The turn ends early: the provider fails, the timeout of the model call  *)
(* expires, or the REPL driver drops the turn on Ctrl-C and pops a         *)
(* trailing user item.                                                     *)
(***************************************************************************)
ReturnError ==
    /\ pc' = after_error(call.retry)
    /\ outcome' = "Llm"
    /\ call' = NoCall
    /\ UNCHANGED <<history, turn_index, pending_reminders, usage_total, planVars,
                   thinking_budget, tools_disabled_turns, summary, asked, lost, as_is>>

LlmFails == pc = "Calling" /\ ReturnError

LlmTimeout == pc = "Calling" /\ has_timeout /\ ReturnError

pop_user(h) ==
    IF h # <<>> /\ h[Len(h)].kind = "User" THEN SubSeq(h, 1, Len(h) - 1) ELSE h

Interrupt ==
    /\ driver = "repl"
    /\ pc \in {"Summarising", "Calling", "Executing"}
    /\ history' = pop_user(history)
    /\ lost' = lost \cup (about_of(history) \ about_of(history')) \cup summary.about
    /\ pc' = "Prompt"
    /\ outcome' = "Interrupted"
    /\ call' = NoCall
    /\ summary' = NoSummary
    /\ UNCHANGED <<turn_index, pending_reminders, usage_total, planVars,
                   thinking_budget, tools_disabled_turns, asked, as_is>>

-----------------------------------------------------------------------------
LlmStep ==
    \E text \in AnswerTexts, uses \in BoundedSeq(Ids, MaxUses), stop \in StopReason,
       tokens \in 0..1, advice \in SUBSET HookReminders :
        LlmAnswers(text, uses, stop, tokens, advice)

ToolStep ==
    \E bad \in SUBSET (DOMAIN call.uses), advice \in SUBSET HookReminders :
        ToolsFinish(bad, advice)

Next ==
    \/ Submit \/ Resume \/ Retry \/ ForceCompact
    \/ SummaryArrives \/ SummaryFails
    \/ LlmStep \/ LlmFails \/ LlmTimeout
    \/ ToolStep
    \/ Interrupt

Spec == Init /\ [][Next]_vars

-----------------------------------------------------------------------------
ItemType == [kind : ItemKind, text : TextClass, ids : Seq(Ids), about : SUBSET Nat]

\* Every variable keeps the shape the session's fields have.
TypeOK ==
    /\ history \in Seq(ItemType)
    /\ turn_index \in Nat
    /\ pending_reminders \subseteq ReminderKind
    /\ usage_total \in Nat
    /\ tool_error_counts \in [Tools -> 0..TOOL_ERROR_THRESHOLD]
    /\ tool_call_stats \in [Tools -> 0..TOOL_ERROR_THRESHOLD]
    /\ thinking_budget \in BOOLEAN
    /\ tools_disabled_turns \in 0..MaxDisabled
    /\ pc \in Pc
    /\ call \in [tools : BOOLEAN, reminders : SUBSET ReminderKind, retry : BOOLEAN,
                 text : TextClass, uses : Seq(Ids), stop : StopReason]
    /\ summary \in [about : SUBSET Nat, pair : BOOLEAN, forced : BOOLEAN]
    /\ outcome \in Outcome
    /\ asked \in 0..MaxInputs
    /\ lost \subseteq Nat
    /\ as_is \in BOOLEAN

\* Item i of history h has its counterpart.
PairedAt(h, i) ==
    /\ (h[i].kind = "Assistant" /\ h[i].ids # <<>>) =>
          /\ i < Len(h)
          /\ h[i + 1].kind = "ToolResults"
          /\ h[i + 1].ids = h[i].ids
    /\ h[i].kind = "ToolResults" =>
          /\ i > 1
          /\ h[i - 1].kind = "Assistant"
          /\ h[i - 1].ids = h[i].ids

Paired(h) == \A i \in DOMAIN h : PairedAt(h, i)

\* Tool uses and results stay paired: an assistant item that called tools is
\* followed at once by the results of exactly those calls, and results follow
\* nothing else.  Compaction cuts, failed summaries, Ctrl-C and blocked
\* answers all edit the history around this rule.
PairedHistory == Paired(history)

\* The pairing guard has nothing to repair in a history this loop built, so
\* under AETHER_DEBUG=1 a turn never fails with AgentError::Internal.
GuardNeverFires == outcome # "Internal"

\* A request ends with a user-role message, unless the provider itself said
\* that the assistant item is to be continued as it stands (a pause, or a
\* tool_use stop that came without a tool use).  The comments in
\* agent_turn_inner call the opposite "assistant-prefill", answered with 400.
NoPrefill ==
    pc = "Calling" => \/ history = <<>>
                      \/ history[Len(history)].kind # "Assistant"
                      \/ as_is

\* With the verifier on, the text of a blocked answer reaches neither the
\* history nor the locals a later step would record.
BlockedStaysOut ==
    verify_enabled => /\ \A i \in DOMAIN history : history[i].text # "flagged"
                      /\ call.text # "flagged"

\* Whatever the user typed is in the history, verbatim or inside a summary,
\* while a summary is being made inside its locals, or it went down with a
\* summary call that failed or a turn the user cut off.
ForgottenOnlyByFailure ==
    1..asked \subseteq about_of(history) \cup summary.about \cup lost

\* The guidance queued for a blocked answer is in the first request made
\* after it, whatever compaction does in between; only the retry of a failed
\* request goes out without it.
BlockGuidanceSent ==
    (pc = "Calling" /\ history # <<>> /\ history[Len(history)].text = "ack")
        => ("Blocked" \in call.reminders \/ call.retry)

\* A turn that hands control back to the user has answered the last message,
\* or the turn budget is used up.
UnansweredOnlyAtBudget ==
    (pc = "Prompt" /\ outcome = "AwaitUser" /\ history[Len(history)].kind = "User")
        => budget_reached

\* The number of completed turns never passes the budget.
TurnBudgetHolds == max_turns > 0 => turn_index <= max_turns

\* The end of the history survives compaction: the drain leaves at least its
\* last two items in place, and the summary only goes in front of what is left.
LastItems(h, n) == SubSeq(h, Len(h) - n + 1, Len(h))

CompactionKeepsTail ==
    [][ /\ pc' = "Summarising" =>
              /\ Len(history') >= 2
              /\ LastItems(history', 2) =
                    LastItems(IF asked' # asked
                              THEN Append(history, User("input", {asked'})) ELSE history, 2)
        /\ (pc = "Summarising" /\ pc' = "Calling") => IsSuffix(history, history')
      ]_vars

\* lib.rs says of a failed compaction that the turn skips it silently: no
\* message the user typed is gone from history and summary alike.
NothingForgotten == 1..asked \subseteq about_of(history) \cup summary.about

-----------------------------------------------------------------------------
(***************************************************************************)
(* Fairness.  The driver calls again at once, tools end (each carries its  *)
(* own timeout), and the timeout around the model call expires.  Nothing   *)
(* is assumed of the model call itself.  The summary call has no timeout   *)
(* in the code, so that it ends has to be assumed of the provider.         *)
(***************************************************************************)
FairSpec ==
    /\ Spec
    /\ WF_vars(Resume) /\ WF_vars(Retry) /\ WF_vars(ToolStep)
    /\ WF_vars(LlmTimeout)
    /\ WF_vars(SummaryArrives \/ SummaryFails)

\* Under a turn budget an autonomous run always comes back to the prompt,
\* however the provider, the tools and compaction behave.
RunReturns == (pc # "Prompt") ~> (pc = "Prompt")
=============================================================================
