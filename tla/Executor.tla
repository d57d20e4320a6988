------------------------------- MODULE Executor ------------------------------
(***************************************************************************)
(* The tool executor (aether-core/src/executor.rs): the tool uses of one   *)
(* answer are walked left to right, contiguous runs of parallel-safe calls *)
(* become one join_all batch, everything else runs alone in its slot.      *)
(* Each call passes the policy blocklist, the argument filters and the     *)
(* permission mode, may ask the user, and is framed by the Pre and Post    *)
(* hooks.  run_one does not yield before the tool body starts, and again   *)
(* not from the body's end to the Post hook: those are the two steps.      *)
(* Ctrl-C drops the turn, and with it execute() and every body it awaits.  *)
(*                                                                         *)
(* A use is a record: the tool's name, whether a Bash command counts as    *)
(* read-only, and what the argument filters say of the input.              *)
(***************************************************************************)
EXTENDS Integers, Sequences, FiniteSets, SequencesExt

CONSTANTS
    UseKinds,          \* the tool uses a model may emit
    Registered,        \* names in the ToolRegistry
    policy_blocklist,  \* names the organisation's policy refuses
    Preloadable,       \* names settings.always_allow_tools may hold
    NoParallel,        \* AETHER_NO_PARALLEL_TOOLS=1
    MaxUses,           \* bound: uses of the first answer, each later one has fewer
    MaxTurns           \* bound: answers executed

PermissionMode == {"Default", "AcceptEdits", "Plan", "BypassPermissions"}
Answer         == {"Allow", "Deny", "AllowAlwaysForTool"}
ArgFilter      == {"NoMatch", "Refuse", "Warn"}

ASSUME ExecutorAssumption ==
    /\ \A u \in UseKinds : u.readonly \in BOOLEAN /\ u.filter \in ArgFilter
    /\ NoParallel \in BOOLEAN
    /\ MaxUses \in Nat /\ MaxTurns \in 0..MaxUses

VARIABLES
    mode,            \* Executor.mode
    prompter,        \* TRUE iff a prompter is installed
    always_allowed,
    uses,            \* the uses of the answer being executed
    status,          \* per use: "todo", "running", "done"
    results,         \* per use: how it ended, "none" before that
    reminders,       \* hook outputs, as <<phase, answer, use>>, until a turn drains them
    consent,         \* ghost: the uses a user's answer let through, by call or by tool
    prompts,         \* ghost: the uses the user was asked about
    phase,           \* "idle" or "executing"
    turns,
    dropped          \* ghost: the answers whose execution was cut off

vars == <<mode, prompter, always_allowed, uses, status, results, reminders,
          consent, prompts, phase, turns, dropped>>

-----------------------------------------------------------------------------
is_mutating(name) ==
    name \in {"Write", "Edit", "NotebookEdit", "Bash", "WebFetch", "WebSearch", "MemoryWrite"}

is_file_mutator(name) == name \in {"Write", "Edit", "NotebookEdit"}

is_parallel_safe(name) ==
    name \in {"Read", "Glob", "Grep", "MemoryRead", "WebFetch", "WebSearch"}

can_run_parallel(u) == is_parallel_safe(u.name) \/ (u.name = "Bash" /\ u.readonly)

decide(name) ==
    CASE mode = "BypassPermissions" -> "Allowed"
      [] mode = "Plan"        -> IF is_mutating(name) THEN "Refused" ELSE "Allowed"
      [] mode = "AcceptEdits" -> IF ~is_mutating(name) \/ is_file_mutator(name)
                                 THEN "Allowed" ELSE "Refused"
      [] mode = "Default"     -> IF is_mutating(name) THEN "Refused" ELSE "Allowed"

\* Mutant: the call that opens a batch is not looked at.
same_batch_open(i, j) ==
    \/ i = j
    \/ /\ ~NoParallel
       /\ \A k \in DOMAIN uses : (i < k /\ k <= j) \/ (j < k /\ k <= i)
                                    => can_run_parallel(uses[k])

\* i and j run in one batch: every use from one to the other is parallel-safe.
same_batch(i, j) ==
    \/ i = j
    \/ /\ ~NoParallel
       /\ \A k \in DOMAIN uses : (i <= k /\ k <= j) \/ (j <= k /\ k <= i)
                                    => can_run_parallel(uses[k])

-----------------------------------------------------------------------------
\* allow_tools has put the names from the settings into always_allowed.
Init ==
    /\ mode \in PermissionMode
    /\ prompter \in BOOLEAN
    /\ always_allowed \in SUBSET Preloadable
    /\ uses = <<>> /\ status = <<>> /\ results = <<>>
    /\ reminders = <<>>
    /\ consent = {} /\ prompts = {}
    /\ phase = "idle"
    /\ turns = 0
    /\ dropped = {}

\* agent_turn hands the uses of an answer to execute().
Execute ==
    /\ phase = "idle"
    /\ turns < MaxTurns
    /\ \E us \in BoundedSeq(UseKinds, MaxUses - turns) \ {<<>>} :
          /\ uses' = us
          /\ status' = [k \in DOMAIN us |-> "todo"]
          /\ results' = [k \in DOMAIN us |-> "none"]
    /\ phase' = "executing"
    /\ turns' = turns + 1
    /\ UNCHANGED <<mode, prompter, always_allowed, reminders, consent, prompts, dropped>>

\* The call ends in this poll, with these hook phases run.
Ends(k, result, phases) ==
    /\ status' = [status EXCEPT ![k] = "done"]
    /\ results' = [results EXCEPT ![k] = result]
    /\ reminders' = reminders \o [p \in DOMAIN phases |-> <<phases[p], turns, k>>]

\* An allowed call: Pre hook, then the body starts, or there is no such tool.
Dispatch(k) ==
    IF uses[k].name \in Registered
    THEN /\ status' = [status EXCEPT ![k] = "running"]
         /\ reminders' = Append(reminders, <<"Pre", turns, k>>)
         /\ UNCHANGED results
    ELSE Ends(k, "unknown", <<"Pre", "Post">>)

\* Mutant: a refusal returns before the Post hook.
Refuse_early(k) == Ends(k, "refused", <<>>)

\* Mutant: a refused call leaves its slot empty.
Refuse_unfilled(k) == UNCHANGED <<status, results, reminders>>

Refuse(k) == Ends(k, "refused", <<"Post">>)

NoPrompt == UNCHANGED <<always_allowed, consent, prompts>>

\* The user is asked; the prompt blocks the executor's thread.
Ask(k, answer) ==
    /\ prompts' = prompts \cup {k}
    /\ always_allowed' = IF answer = "AllowAlwaysForTool"
                         THEN always_allowed \cup {uses[k].name} ELSE always_allowed
    /\ consent' = IF answer = "Deny" THEN consent ELSE consent \cup {k}
    /\ IF answer = "Deny" THEN Refuse(k) ELSE Dispatch(k)

\* Mutant: the argument filters are not consulted.
policy_refuses_names(u) == u.name \in policy_blocklist

policy_refuses(u) == u.name \in policy_blocklist \/ u.filter = "Refuse"

\* Mutant: what "allow always" stored is never looked up.
is_always_allowed_never(name) == FALSE

is_always_allowed(name) == name \in always_allowed

\* Permission to run call k.
Gate(k) ==
    LET name == uses[k].name
        escalates == decide(name) = "Refused" /\ mode = "Default" /\ is_mutating(name)
    IN  \/ /\ policy_refuses(uses[k])
           /\ Ends(k, "policy", <<>>)
           /\ NoPrompt
        \/ /\ ~policy_refuses(uses[k])
           /\ decide(name) = "Allowed"
           /\ Dispatch(k)
           /\ NoPrompt
        \/ /\ ~policy_refuses(uses[k])
           /\ escalates /\ is_always_allowed(name)
           /\ Dispatch(k)
           /\ consent' = consent \cup {k}
           /\ UNCHANGED <<always_allowed, prompts>>
        \/ /\ ~policy_refuses(uses[k])
           /\ escalates /\ ~is_always_allowed(name) /\ prompter
           /\ \E answer \in Answer : Ask(k, answer)
        \/ /\ ~policy_refuses(uses[k])
           /\ decide(name) = "Refused"
           /\ ~(escalates /\ (is_always_allowed(name) \/ prompter))
           /\ Refuse(k)
           /\ NoPrompt

\* First poll of call k: batches one after another, the calls of a batch in
\* order, one poll round before any of them is polled again.
Start(k) ==
    /\ phase = "executing"
    /\ status[k] = "todo"
    /\ \A j \in DOMAIN uses : j < k =>
          IF same_batch(j, k) THEN status[j] # "todo" ELSE status[j] = "done"
    /\ Gate(k)
    /\ UNCHANGED <<mode, prompter, uses, phase, turns, dropped>>

\* The body of call k ends, within its first poll or after the poll round.
Finish(k) ==
    /\ status[k] = "running"
    /\ \/ \A j \in DOMAIN uses : same_batch(j, k) => status[j] # "todo"
       \/ \A j \in DOMAIN uses : (same_batch(j, k) /\ j > k) => status[j] = "todo"
    /\ \E result \in {"ok", "error"} : Ends(k, result, <<"Post">>)
    /\ UNCHANGED <<mode, prompter, always_allowed, uses, consent, prompts, phase, turns, dropped>>

drain_reminders == reminders' = <<>>

Forget ==
    /\ phase' = "idle"
    /\ uses' = <<>> /\ status' = <<>> /\ results' = <<>>
    /\ consent' = {} /\ prompts' = {}
    /\ UNCHANGED <<mode, prompter, always_allowed, turns>>

\* All slots are filled: execute() returns and the turn takes the results and
\* drains the reminders.
Return ==
    /\ phase = "executing"
    /\ \A k \in DOMAIN uses : status[k] = "done"
    /\ Forget
    /\ drain_reminders
    /\ UNCHANGED dropped

\* Ctrl-C while the turn waits for a body, the poll round being over: the
\* bodies that run are dropped, and no Post hook is called for them.  The
\* reminders stay, for the next turn that comes to its tools to drain.
Drop ==
    /\ phase = "executing"
    /\ \E k \in DOMAIN uses :
          /\ status[k] = "running"
          /\ \A j \in DOMAIN uses : same_batch(j, k) => status[j] # "todo"
    /\ Forget
    /\ dropped' = dropped \cup {turns}
    /\ UNCHANGED reminders

Next ==
    \/ Execute
    \/ \E k \in DOMAIN uses : Start(k) \/ Finish(k)
    \/ Return
    \/ Drop

Spec == Init /\ [][Next]_vars

\* The runtime keeps polling the turn, tools end, and the user answers a
\* prompt (part of Start).
FairSpec == Spec /\ WF_vars(\E k \in DOMAIN uses : Start(k) \/ Finish(k)) /\ WF_vars(Return)

-----------------------------------------------------------------------------
\* Shapes of the executor's state.
TypeOK ==
    /\ mode \in PermissionMode /\ prompter \in BOOLEAN
    /\ uses \in Seq(UseKinds)
    /\ status \in [DOMAIN uses -> {"todo", "running", "done"}]
    /\ results \in [DOMAIN uses -> {"none", "ok", "error", "unknown", "refused", "policy"}]
    /\ reminders \in Seq({"Pre", "Post"} \X (1..turns) \X Nat)
    /\ dropped \subseteq 1..turns
    /\ consent \subseteq DOMAIN uses /\ prompts \subseteq DOMAIN uses
    /\ phase \in {"idle", "executing"} /\ turns \in 0..MaxTurns

ran(k) == status[k] = "running" \/ results[k] \in {"ok", "error"}

\* A call that is not parallel-safe is a barrier: while it runs nothing else
\* does, everything before it is over and nothing after it has begun, even
\* when it sits between two parallel batches.
MutatorsRunAlone ==
    \A k \in DOMAIN uses :
        (status[k] = "running" /\ ~can_run_parallel(uses[k])) =>
            /\ \A j \in DOMAIN uses : j < k => status[j] = "done"
            /\ \A j \in DOMAIN uses : j > k => status[j] = "todo"

\* A tool body runs only with the right to: never past the policy, in Plan
\* mode never a mutating tool, in Default mode a mutating tool only on the
\* user's word for this call or for this tool, on an earlier one or in the
\* settings.
RunsOnlyWithConsent ==
    \A k \in DOMAIN uses : ran(k) =>
        /\ uses[k].name \notin policy_blocklist /\ uses[k].filter # "Refuse"
        /\ is_mutating(uses[k].name) =>
              /\ mode # "Plan"
              /\ mode = "Default" => k \in consent
              /\ mode = "AcceptEdits" => is_file_mutator(uses[k].name)

\* "Allow always" is asked once per tool: no prompt for a tool the user has
\* already allowed, also from a sibling call of the same parallel batch.
AskedOncePerTool ==
    [][\A k \in DOMAIN uses : (k \in prompts' /\ k \notin prompts)
          => uses[k].name \notin always_allowed]_vars

\* The trace s of hook calls holds e.
In(s, e) == \E n \in DOMAIN s : s[n] = e

Pre(t, k)  == <<"Pre", t, k>>
Post(t, k) == <<"Post", t, k>>

\* No hook twice for one call, and Pre before Post.
WellFormed(s) ==
    /\ \A m, n \in DOMAIN s : s[m] = s[n] => m = n
    /\ \A m, n \in DOMAIN s : s[n] = Post(s[m][2], s[m][3]) /\ s[m][1] = "Pre" => m < n

\* The hook calls the model is told about make sense, over answers too: no hook
\* twice for one call and Pre before Post; of the answer under way, Pre for
\* exactly the calls that were let through and Post for none but calls that are
\* over, and for all of them that the policy let pass; the rest is left over
\* from answers that were dropped, where a Pre may lack its Post.  Nothing is
\* said of a Post for calls the policy refused: the comment at the Post hook
\* wants one ("always fires after a call attempt (even refused ones)"), but the
\* two policy checks return before it and the operator's audit never sees them.
HookTrace ==
    /\ WellFormed(reminders)
    /\ \A n \in DOMAIN reminders :
          reminders[n][2] \in dropped \/ (phase = "executing" /\ reminders[n][2] = turns)
    /\ \A k \in DOMAIN uses :
          /\ In(reminders, Pre(turns, k)) <=> (ran(k) \/ results[k] = "unknown")
          /\ In(reminders, Post(turns, k)) => status[k] = "done"
          /\ status[k] = "done" /\ results[k] # "policy" => In(reminders, Post(turns, k))

\* execute() fills every slot and returns, whatever is refused on the way, or
\* is dropped.
ExecuteReturns == (phase = "executing") ~> (phase = "idle")
=============================================================================
