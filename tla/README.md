# Formal models of aether

TLA+ specifications of the stateful core of aether: the agent session that turns
a user's message into model calls and tool runs, the components it is built on,
the file that lets it be resumed, and the small concurrent services around it.
TLC checks them on small instances; TLAPS proves, for every value of the
parameters, every safety property the passing runs check, that both kinds of MCP
client implement one abstract service, and that every request of a session, whatever
crashes did to its file, obeys the provider's pairing rule.

Paths below are relative to `src/crates/`.

## 1. The system and its parts

| Part | State it keeps | Operations | What is hard |
|---|---|---|---|
| **Agent turn** `aether-core/src/lib.rs` | `Session`: history, turn index, pending reminders, usage, plan, thinking budget, `/notool` counter | `agent_turn` / `agent_turn_streamed`: perceive, compact, plan, call, verify, execute, observe, decide | a turn is suspended at three awaits; the provider fails, times out, or the driver drops the turn there |
| **Compaction** `aether-core/src/compaction.rs` | none of its own: edits `history`, `usage_total`, reminders | `maybe_compact` (in a turn), `force_compact` (`/compact full`) | where to cut; the head leaves the history before a call that can fail |
| **Context and pairing guard** `aether-core/src/context.rs` | none | `translate_history`, `sanitize_tool_pairing`, `build` | histories from resumed or edited sessions that break the provider's tool_use / tool_result rule |
| **Executor** `aether-core/src/executor.rs` | mode, blocklist, filters, remembered consent, hook outputs | `execute`, `run_one`, `allow_tools` | parallel batches, prompts inside a batch, hook order, a turn dropped while a tool runs |
| **Planner** `aether-core/src/planner.rs` | error counts, block records, goal | `record_*`, `refresh`, `prune_window` | counters feed both the stuck reminder and the compaction threshold |
| **MCP stdio client** `aether-mcp/src/lib.rs` | pending map, stdin, id counter, one mutex | `request`, reader task, `shutdown` | several tasks, one mutex held over a write, timeouts racing late answers, dropped callers, a dying server |
| **MCP network clients** `aether-mcp/src/lib.rs` | pending map and writer under two mutexes; endpoint | `spawn`, `request`, reader task, `shutdown` of `WsClient` and `SseClient` | answers on another connection than the POST, a stream that ends while requests are being made |
| **Drivers** `aether-cli/src/main.rs` | what to do after each outcome | REPL `select!` with Ctrl-C; the REPL's `/retry`; TUI loop with fallback retry | decide what survives an interrupted or failed turn |
| **Session files** `aether-cli/src/main.rs` | `~/.aether/sessions/<id>.jsonl` | `append_session_line`, `load_session_history`, `session_branch`, `/clear`, `/retry` | the driver guesses what a turn appended; `/retry` writes nothing; the process dies between, inside lines or inside a character |
| **Server admission** `aether-cli/src/main.rs` | token buckets by address, session counter | `RateLimiter::check`, `session_acquire`, `SessionGuard::drop`, two handlers | threads interleave between clock, lock, increment and comparison |
| **Settings store** `aether-store/src/lib.rs` | `settings.json` and its temporary file | `set`, `append_always_allow` | unlocked read-modify-write by several processes, one fixed temporary name, entries of a type the program does not expect |
| **Distributed scan** `aether-distrib/src/lib.rs` | child processes and pipes | `run_coordinator`, `run_worker` | bounded pipes, workers that die, waiting before reading, file names that do not survive the way as text |
| LLM retry wrapper, hook pipeline, self-check gate, memory store, deterministic scheduler, lock-order graph, tenants, fleet | | | not modelled, section 8 |
| Analysers, scanners, reports, TUI rendering, providers, built-in tools, plugins | stateless or I/O | | not modelled, section 8 |

A driver calls `agent_turn` with the user's text and again with none while it
returns `ContinueImmediately`, and appends to the session file what the turn
left at the end of the history. Three loops call it: the REPL's, the TUI's, and
the REPL's own for `/retry`, which pops the last answer, calls with no input and
appends nothing. The turn may call `compaction`, always calls
`context`, then the provider, then the `executor`, whose hook outputs come back
as reminders of the next turn. Tool outcomes feed the planner's counters, which
lower the compaction threshold and can switch on extended thinking. MCP tools
reach one of the three clients from any of the executor's concurrent calls.
"Allow always" in the executor's prompt ends in `append_always_allow`. The server runs one
turn per admitted request.

## 2. Modules

| Module | Models | Checked by | Proofs |
|---|---|---|---|
| `Context` | history items, wire messages, `sanitize_tool_pairing` | `Pairing`, `AgentLoopMC` | used by `AgentLoop_proofs`, `Journal_proofs` |
| `AgentLoop` | `agent_turn_inner` with compaction, planner counters and driver; extends `Context` | `AgentLoopMC` | `AgentLoop_proofs` |
| `Journal` | the session file; extends `AgentLoop` with the driver's writes, crashes and resumes | `JournalMC` | `Journal_proofs` |
| `Executor` | `execute` and `run_one` | `ExecutorMC` | `Executor_proofs` |
| `Rpc` | abstract: what any MCP client promises its callers | through the next two | - |
| `McpStdio` | `StdioClient` and, as environment, the server process; implements `Rpc` | itself | `McpStdio_proofs` |
| `McpNet` | `WsClient` and `SseClient` and, as environment, server and network; implements `Rpc` | itself | `McpNet_proofs` |
| `Serve` | admission of requests by `aether serve` | `ServeMC` | `Serve_proofs` |
| `Settings` | the settings store as system calls of several processes | itself | `Settings_proofs` |
| `Distrib` | coordinator and workers of the distributed scan | `DistribMC` | `Distrib_proofs` |
| `Pairing` | the guard applied to arbitrary short histories | itself | `AgentLoop_proofs` |

Operators whose comment begins with "Mutant:" are altered copies of the
definition that follows them. No specification uses them: each is a bug one
could plausibly write there, and substituting it must make TLC refute the
property listed for it in `PROJECT.json`.

### How AgentLoop follows the code

A turn runs uninterrupted between awaits, so each action is the whole code from
one await to the next:

- `Submit`, `Resume`, `Retry` run `agent_turn_inner` from its start: push the
  input, stop at the turn budget (`StopAtBudget`), or start a compaction
  (`CompactFirst`, up to the summary call), or go directly to the model call
  (`CallDirectly` -> `Assemble`: reminders queued and drained, request built,
  pairing guard, `/notool` counter). `pc` becomes `Prompt`, `Summarising` or
  `Calling`.
- `SummaryArrives` / `SummaryFails` end the compaction and go on to `Assemble`;
  for `force_compact` they return to the prompt.
- `LlmAnswers` is everything from the response to the tool dispatch: usage, token
  budget, cap on tool calls, verifier and blocked answer, duplicate-call
  warning, auto-thinking. Without tool uses it also observes and ends the turn.
- `ToolsFinish` feeds the planner and runs `Observe`: record the items, advance
  `turn_index`, add the synthetic user item where the code does, choose the
  outcome.
- `LlmFails`, `LlmTimeout`, `Interrupt` end the turn at an await. `after_error` is
  the driver's choice; `Interrupt` includes the driver's pop of a trailing user
  item.

Data is abstracted to what the code or a property distinguishes. A text is a
class (`flagged` is what some blocking rule matches); a tool use is its id; token
and error counts saturate at the threshold they are compared with; a reminder is
its kind, and the queue is a set because it is deduplicated before use. `about`
on an item, `lost` and `as_is` are ghosts read by properties only.

### How Journal follows the code

`Journal` runs `AgentLoop`'s own actions inside the driver loop: `Type` queues
the user's line, which is written before the turn; `Turn` is any step of the
session and, when `agent_turn` returned Ok, queues what `persisted` finds at the
end of the history; `AppendLine` writes one line; nothing else moves while lines
are queued, as in the code. `SlashRetry` is `handle_slash`'s pops and the start of its
loop; `silent` says that the turn runs there, and nothing is queued for it. A line of the file is the sequence of texts written
to it: normally one; after a crash that left no newline the next process
continues the same line, and `readable` is false for it. `Restart` ends the process
anywhere, leaving a line under way absent, torn, or complete but for its
newline, and starts one that loads the file. `LoseFile` ends it inside a character: the JSON
is not escaped, `read_to_string` refuses the file from then on (`loadable`), and no
process can resume it, so it is the last step of a session. The loops of `load_session_history`
and `session_branch` are functions of the number of lines read so far (`replayed`,
`copied`); `read_line` and `copy_line` are one round of each. `session_branch` is
evaluated on every reachable file and for every cut.

### How Executor follows the code

`run_one` does not yield before the tool body starts, nor between its end and
the Post hook, so a call has two steps: `Start` (policy, filters, mode, prompt,
Pre hook) and `Finish`. `join_all` polls its futures in order before any of them
again; `Start`'s guard is that order and `Finish`'s the two moments a body can
end. A prompt blocks the thread, hence lies inside `Start`. `Drop` is the REPL's Ctrl-C
while a body runs: the future goes, with the bodies under way and no Post hook for
them, and the reminders stay in their queue until a later turn drains it.
`always_allowed` starts with any set of the tools the settings may name.

### How the MCP models follow the code

`McpStdio`: `request` is cut at lock, write, wait and the lock of the expiry path.
The mutex is tokio's FIFO mutex: a queue with its owner at the head. Pipes have a
capacity; a request takes `Size` units of stdin, so a write can block half way
with the mutex held. `Cancel` drops a caller's future at any of these awaits (the
REPL does so on Ctrl-C); in the middle of a write it leaves half a line in the
pipe (`half`), which the next line continues, so that the server sees garbage
there. The server is external: it reads or answers one thing at a time, may
ignore a request, push notifications, crash at any time, or write a line that is no
UTF-8, which ends the reader while the server lives (`BadLines`). `serial`, `mine`,
`failed` and `served` are ghosts.

`McpNet`: the pending map has its own mutex, never held over an await, so using
it is one step; the WebSocket writer's mutex is held over the send and is a queue
as above. The POST of the SSE client and the answer on the event stream are
independent steps. The WebSocket reader also leaves on an error of one message, with
the connection up (`Eof`); from then on it is `Deaf`. `LinkFails` covers a closed connection and the HTTP client's
30 s limit, which also applies to the event stream itself.

`Rpc` is the common abstraction: a call is made, served, and comes back once with
the server's answer to that very call or an error, or its caller gives up. Both
models state `ImplementsRpc` by `INSTANCE Rpc WITH` a caller busy exactly while it is inside
`request`.

### How Serve, Settings and Distrib follow the code

`Serve`: reading the clock (`Arrive`), the locked part of `check` (`Check`), the
`fetch_add` with its comparison (`Acquire`) and the `fetch_sub` of a refusal
(`Refuse`) are separate steps because other threads run in between. Tokens are
counted in parts, `Minute` parts to a token, so that a refill is exact; the code
uses `f64`.

`Settings`: names point to inodes. `Begin` reads the file and computes the new
text, `Create` is the open-and-truncate of `fs::write`, `Write` its write,
`Rename` the rename; each may fail, a process may die between any two and in the
middle of the write (`Stop`), and a read that fails counts as an empty object. All
five branches of `set` and `append_always_allow` are there, with an `env` that is no
object and a list that is no list. A process keeps writing to the inode it opened, even after another one
renamed it into place.

`Distrib`: a write to a full pipe waits, a write to a pipe whose reader is gone
fails. `Collect` is wait, read, status and parse; after an error the coordinator
leaves the other children alone (`Bail`). What a worker makes of the text of a path
(`display()`, `lines()`, `trim()`, empty lines passed over) is `lines`, any sequence of
files or of paths `scan_file` gets nothing from; `plain` files are those that read as
themselves. `shard_files` says which files a shard
ends up with; that this is what the loop `shards[i % n].push(f)` leaves is the lemma
`DealtInTurn`.

## 3. Runs that pass

| Run | Instance | Shows |
|---|---|---|
| `repl` | 2 ids, 3 inputs, budget of 3 turns, cap 1, verifier on, Ctrl-C anywhere; 319 000 states | pairing (`PairedHistory`, `GuardNeverFires`), no assistant prefill (`NoPrefill`), blocked text stays out (`BlockedStaysOut`) and its guidance goes out (`BlockGuidanceSent`), nothing typed is lost except by a failure or the user (`ForgottenOnlyByFailure`), turns end answered or at the budget, the tail survives compaction |
| `tui` | 1 id, 2 inputs, timeout, fallback retry, `/compact full`, auto-thinking, hook advice, `/notool`; 172 000 states | `RunReturns`: an unattended run always comes back to the prompt |
| `pairing` | all histories of up to 3 items over 2 ids, each run through the guard twice; 6 700 states | the output is balanced, a report is made exactly when something is changed, nothing honest is lost |
| `executor` | 8 kinds of use, answers of up to 3, two answers, either of them dropped, 4 modes with and without prompter, Bash allowed by the settings or not; 757 000 states | barriers, consent, hook trace, one question per always-allowed tool, completion |
| `mcp` | 2 callers, 3 requests, 1 notification, stdin with room for all, lines that are no UTF-8; 524 000 states | no cross talk, waiters stay reachable, no stale entries, refinement of `Rpc`, every request returns |
| `net` | both transports, 2 callers, 3 requests, buffers of one message; 913 000 states | refinement of `Rpc`, `DrainReachesAll`: whoever waits when the stream ends is told, every request returns even with full buffers, but for a frame to send on a connection nobody reads (`ReturnsUnlessDeaf`) |
| `journal` | 1 tool id, 2 inputs, budget of 2 turns, compaction at every turn, one `/retry`, one crash and resume; 1 321 000 states | what a resume remembers, when it is balanced, what a crash costs at most, that a branch is an earlier session, what is written twice |
| `serve` | 4 requests of one address, 2 slots, bucket of 2, clock of 4 units; 586 000 states | the cap, the counter, the rate, Retry-After |
| `settings` | 2 processes, 3 operations of 5 kinds, errors and deaths anywhere, entries of the right or another type; 7 209 000 states | an operation that can read the file and that nothing overlaps is atomic whatever is lying about |
| `distrib` | 3 files with 6 readings of each path, 2 workers, pipes of one place; 120 000 states | an Ok report covers the files whose path survives; the coordinator returns unless a result outgrows the pipe |

**Bounds.** Three inputs and a turn budget of 3 give histories beyond the four items
compaction needs, reach both splice strategies and a repeated compaction; two uses
per answer with a cap of one exercise the cap; an error threshold of 1 or 2
reaches the stuck state. Three items suffice for the guard because each of its
decisions looks at one neighbour on either side. Three uses are the fewest with a
barrier between two batches or a batch next to a barrier; two answers are needed
for consent to be remembered from one to the next. Three requests let a caller
time out, ask again and meet the late answer while the other is writing. In
`net` a buffer of one message makes every send meet a full one. In `journal` two
messages, one tool exchange and one resume reach a compaction between exchange
and resume, a torn line in the middle of a tool exchange and a second process
that appends to it, and one `/retry` comes before and after any of these; a second
tool id or a second crash only repeats the same decisions and takes TLC past a few
minutes. Its error threshold is 0, every error at once sticks: error counts only
decide about a reminder and the compaction threshold, which is at its lowest anyway.
`serve` needs more requests than slots and
than tokens, and a clock that passes a refill. `settings` needs two overlapping
operations and one afterwards. Three files for two workers leave unequal shards, and
the paths in `MCReadings` are lost, split, taken for another's or kept. The proofs
of section 5 remove the bounds for the properties they cover.
`CHECK_DEADLOCK FALSE` is set throughout: a session at the prompt, a client with
no request to make, an idle server and a finished scan may rest.

**Fairness.** `AgentLoop`: the driver calls again at once; tools end (each has its
own timeout); the timer around the model call expires when `llm_timeout_secs` is
set. The model call itself is not assumed to end. The summary call has no timeout
in the code, so that it ends is an assumption about the provider. `Executor`: the
runtime polls the turn, tools end, the user answers. `McpStdio`: every task that
can move is polled, timers expire, and a live server that is not blocked on its
own output keeps reading and writing. `McpNet`: the same; a server with room for
its answer goes on taking requests, one that has none need not. `Distrib`: every process runs until it waits
for another one. A crash, a cancellation, Ctrl-C or a death is never assumed to happen.

## 4. Disagreements found

Two are runs that TLC refutes:

- `summary_lost` / `NothingForgotten`. `compact_inner` drains the head
  (compaction.rs:219) and then calls the provider with `?` (232). On an error the
  turn says compaction was "skipped", but the head is gone.
- `mcp_hang` / `RequestReturns`. The 30 s timeout starts after the write. With a
  request larger than the room in stdin and a server blocked on stdout, the
  writer holds the mutex the reader needs, and all three wait.

The others are the exceptions that passing properties state exactly; without the
exception TLC refutes each of them:

- `UnansweredOnlyAtBudget`. The reminder at the turn budget says "or just send a
  new message"; the index is never reset, so a new message is recorded and
  handed back unanswered.
- `HookTrace`. PostToolUse "always fires after a call attempt (even refused ones)"
  (executor.rs:534); calls refused by the blocklist or a filter return before it, so
  the property asks nothing of them. Nor does a call whose body Ctrl-C drops get
  one: its Pre reminder reaches a later turn alone.
- `ReturnsUnlessDeaf`. `WsClient::request` is bounded by 30 s only after the send. When
  the reader has left on a bad message (lib.rs:821), a server that waits for room
  stops taking frames, and the send, holding the writer's mutex, may never return:
  without the exception the same three-way wait as in `mcp_hang`.
- `ResumeRemembers`. An answer cut at `max_tokens` is followed by a synthetic user
  item, so the driver, which looks at the last item, writes nothing of it; a
  resumed session does not have it, although "resumed history matches live
  history" is what the loader is for (main.rs:4938). Nothing that `/retry` records
  is written either (main.rs:3338): a resume finds the answer it replaced.
- `CleanResumeIsPaired`. After a process died between the lines of a tool exchange
  the file stays unbalanced: only a trailing dispatch is dropped, and once the
  resumed session has appended to the file it is no longer trailing. The pairing
  guard repairs it at every request.
- `JournalsOnlyNews`. A continuation stopped by the turn budget adds nothing, and the
  exchange before it is written a second time.
- `CrashCost`. A crash can cost two records: the torn one and the next process's
  first, which is glued to it; or, inside a multi-byte character, all of them, because
  the file is read with `read_to_string` (main.rs:4911), although unreadable lines
  are meant to be skipped.
- `RateHolds`. The clock is read before the lock (main.rs:5196); a thread that
  gets the lock late sets the bucket's time back and the time between is refilled
  again. `rewound` is how much.
- `AloneIsAtomic`. `set` is called atomic; operations that overlap lose updates,
  expose an empty or broken file and can fail on the rename. Over an `env` that is no
  object (lib.rs:110) or a list that is no list (140) the update is dropped and Ok
  returned, for the list `Ok(true)`, "newly added"; and an operation whose read fails
  (78) replaces all the other fields by nothing.
- `ReportComplete`. A file whose path has a line break, a space at its ends or a byte
  that is no UTF-8, and one that cannot be read, is missing from the scan; the
  report is Ok, with `total_files` counting lines.
- `ReturnsUnlessLarge`. The coordinator waits for a child's exit before it reads
  the child's output; a result larger than the pipe blocks both for good.
- `NoStaleEntry`. A failed write or send, or a dropped caller, leaves its entry in
  the pending map of all three clients.
- `DrainReachesAll`. A request made after the stream ended is not told so; over SSE the
  stream ends at the latest with the HTTP client's 30 s limit (lib.rs:508), and
  later requests wait out their own timers.

Noted while reading, not checked: the doc of `llm_timeout_secs` describes an outcome
other than the error the code returns; auto-thinking is called temporary but
nothing switches it off, and its statistics are lifetime ones; a retry after a
failed request goes out without the reminders the first one consumed (the
exception in `BlockGuidanceSent`); a second compaction can find nothing but the pair the
first one inserted and summarise a summary; an answer with neither text nor tool
uses is recorded as an assistant item whose wire message has no content.

## 5. What is proved

The proofs hold for every value of the constants allowed by the assumptions the
modules name. These give the constants their types and say little more: capacities
and the message size are not 0; `McpAssumption`, the reader
task is not one of the callers; `SettingsAssumption`, the marks for an empty or
broken file and for entries of the wrong type are no string's or tool's name, and
there is a key for `env`;
`JournalAssumption`, the driver is the REPL, the one whose loop writes the session
file. TLC evaluates all of them in its runs. Sets of callers, requests, processes,
ids and addresses may be infinite, and bounds such as `MaxReq` or `MaxRestarts`
are any natural number. Each safety theorem is about the specification without
fairness, hence also about the one with it.

**`AgentLoop_proofs`**: `TypeCorrect`, `PairedHistoryHolds`, `GuardNeverFiresHolds`,
`TurnBudgetProved`, `NoPrefillHolds`, `BlockedStaysOutHolds`, `BlockGuidanceSentHolds`,
`ForgottenOnlyByFailureHolds`, `UnansweredOnlyAtBudgetHolds`, `CompactionKeepsTailHolds`,
and about the guard on any history `SelfHealsHolds`, `ReportsExactlyHolds`,
`KeepsHonestBlocksHolds`, `RequestsPassUntouched`.
The first inductive invariant is `TypeOK /\ PairedHistory /\ GuardNeverFires`. Pairing
is local: item `i` looks only at its neighbours. Three facts about sequences
carry it: joining two paired histories gives one (`ConcatHistories`), cutting before
a user or assistant item leaves a paired tail (`CutHistories`), and dropping a
trailing user item keeps it (`PopHistories`). `NothingToRepair` turns pairing of
the history into an empty set of repairs on the wire, for the guard. Then one
lemma per action. The budget needs `BudgetInv`: the comparison is at the start of
a turn and the increment at its end, so between them `turn_index` is strictly
below `max_turns`. The second, `HistInv`, rests on the first and is about what the
history may end with at each place a turn can stand: what is continued may be
sent (`PrefillInv`), the guidance for a blocked answer is in the queue, in the
request or known to be lost by a retry (`GuidanceInv`), and control is with the
user because there is an answer or no budget (`AnsweredInv`); `LocalsInv` says when
the locals of a compaction are live. `CompactionKeepsTail` is an action property:
a compaction's cut is a suffix of the history it found.

The guard works on threads that need not be paired: `Threads` has the one thing
`translate_history` guarantees (`TranslatedHistory`), that tool uses are in assistant
messages and tool results in user messages, for histories and messages of any length.
Both passes are loops over sequences, and what they leave is said in places. For
pass 1, `RetainFacts` (by `InductionOnNat`, from the least element of a set of numbers)
gives which blocks remain, so every message keeps its place, its role and its uses, and no
result without its use (`OrphansDropped`, `Orphanless`). For pass 2, `FlattenFacts`
shows that the pieces of a flattened sequence follow one another and leave no gap; hence
`Places`: message `k`, with the answers that were missing, is right after `at[k]`, the
answers made up for its own calls right after it, and there is nothing else. From this
`Completed` reads the provider's rule off neighbouring places: results are only added
where the message before has their uses, a message is only inserted where the next one has no
results. A balanced thread has nothing missing, so `at[k] = k - 1` and the guard is the
identity on it (`BalancedUntouched`); with `ReportsIffUnbalanced` this makes "reports
nothing", "changes nothing" and "obeys the rule" one condition. For a session's own
histories it follows that they reach the wire as they are (`RequestsPassUntouched`).

**`Journal_proofs`**: `ShapeInvariance`, `JournalsOnlyNewsHolds`, `CrashCostHolds`,
`BranchIsEarlierSessionHolds`, `CleanResumeIsPairedHolds`, `CleanSessionNeverFails`,
`EveryRequestBalanced`, `ResumeRemembersHolds`. A session that resumed a file may
hold any history, so no invariant of `AgentLoop` can be assumed of it;
`ShapeInvariance` is what every step keeps whatever was loaded. It is enough for
`EveryRequestBalanced`: the guard's lemmas ask no more of a history, and where
`CleanInv` gives a paired one they say that the guard leaves it alone.
The replay of a file is a loop, and a statement about every file needs induction:
`InductionOnNat` takes the statement as a set instead of an operator, and
`LoopExists` shows in the same way that the recursive functions satisfy their
equations.
`CrashCost` needs what can still be lost: a file that ends without a newline
has `Reserve` for the line that will be glued to it, and `CostInv` counts two
records for each restart including that; `loadable` is lost by the last line alone. For branches, `Follows` says that the
copy replays to what the file replays to so far or, once the cut is reached, to
a history that the file continues with a user item (`Ahead`), which no later
record changes. For the clean resume, `CleanInv`
says that as long as no process died while it was appending, replaying the file with
the lines still queued (`Whole`) gives a paired history: a queued exchange is
looked at as a whole, because half of one is unbalanced. `StretchFacts` says that the
lines of several uses, or results, of one answer become one item, `CallIsPaired`
that an exchange written out becomes a paired piece, and `PersistedIsPaired` that
what the driver picks from the end of a paired history is such a piece.
`ResumeRemembers` compares two things that different steps change: the live history,
which compaction cuts, Ctrl-C pops and `/clear` empties, and the file, which only
grows. What is not written, `unsaved_answers` and `unsaved_calls` count; a turn of
`/retry` adds to them what it adds to the history (`RemSilent`). `RemInv` states it of
`Whole`, so that it also holds while lines are queued, and
adds what makes it inductive: every item of results in the replay stands behind
the calls it answers (`Backed`), a message that is typed is in the file before its turn,
and a turn that goes on or returned Ok left the history ending in one of the three ways
the driver can recognise (`Recorded`). On the side of the file, `PersistedKept`
says that writing the end of such a history keeps what a resume found before (`Kept`)
and adds the results and one more answer, although uses may join an earlier answer of
the file and the trailing dispatch of a load may come back. On the side of the history,
`StepForms` sorts the steps of a session into those that only forget (`Quiet`, with `Less`
for what a compaction, a summary or a pop leaves) and those that record an answer.

**`Executor_proofs`**: `TypeCorrect`, `MutatorsRunAloneHolds`, `RunsOnlyWithConsentHolds`,
`HookTraceHolds`, `AskedOncePerToolHolds`. `Order` is the scheduling rule as a state
predicate: a call that has left "todo" has all earlier ones of its batch started and
all of earlier batches over; two running calls are then of one batch, which a
mutator never shares. `Trace` says which hook outputs each call of the answer under
way has left and that Pre stands before Post, and that the others are of dropped
answers; `Slots` and `Fresh` tie results to calls and empty
what belonged to the answer before.

**`McpStdio_proofs`**: `TypeCorrect`, `NoCrossTalkHolds`, `WaiterIsPendingHolds`,
`NoStaleEntryHolds`, `Refinement`. None is inductive alone. The strengthening
adds: ids and serial numbers in use are below the counters and a caller's id
belongs to its serial number (`Numbering`); every message in either pipe or in
the reader's hands carries a matching pair (`Traffic`); a channel holds only its
own request's answer (`Channels`); whoever writes owns the mutex (`WriterOwns`);
entries of the map match the request of their caller (`Entries`); what is in
stdin was asked and what is in stdout or in a channel was served (`Provenance`). Without
`WriterOwns` a drain could come between insert and write and leave a waiter
without a sender. `Refinement` shows `Spec => ImplementsRpc`: `ServiceStep` maps
`Request` to `Call`, `ServerRead` to `Serve`, the three ways back to `Return`,
`Cancel` to `GiveUp`, and every other step to a stutter; the returned value is
allowed by the service because of `Channels` and `Provenance`.

**`McpNet_proofs`**: `TypeCorrect`, `NoStaleEntryHolds`, `DrainReachesAllHolds`,
`Refinement`, for both transports. Here insert and send are not under one mutex, and what takes the
place of `WriterOwns` is that ids are never shared (`Numbering`) and that, while the reader
reads, whoever waits with an empty channel is in the map (`Reachable`); who got
something no longer is (`Taken`). So the drain at the end of the stream finds everyone
with an id up to `drained_at`.

**`Serve_proofs`**: `SessionCapHolds`, `NoSlotLeaksHolds`, `RateHoldsProved`,
`RetryAfterHonestHolds`. The counter is the cardinality of the set of requests
between `fetch_add` and `fetch_sub` (`SlotInv`), finite at any time even if requests
are not; whoever is let through saw it below the cap. The rate needs a potential
(`PotentialInv`): for each accepted request, those accepted since and the tokens
left fit into one bucket and the refill of the time credited since, where credited
time counts what a late thread set back. `PromiseInv` ties a Retry-After to the bucket it
was computed from.

**`Settings_proofs`**: `AloneIsAtomicHolds`. The file and its temporary name never
share an inode (`Names`), an operation that is alone is the only one in flight
(`Alone`), and `Progress` says what both names hold at each of its system calls, and
after an error or a death, whatever earlier ones left behind. `UpdatedFacts` compares
the code's branches with the one-field update they are to be.

**`Distrib_proofs`**: `ReportCompleteHolds`. What a child has scanned, what is in its
pipe and what is still to be written make up its shard until the coordinator gives
up (`Dealt`), a result is put together at the end of the input (`ReadAll`), and
results are collected in the order of the shards (`Collected`). `RoundRobin` adds that the
shards hold every file once, from the division lemmas.

## 6. Only model-checked

- Liveness (`RunReturns`, `ExecuteReturns`, `RequestReturns`, `ReturnsUnlessDeaf`,
  `ReturnsUnlessLarge`) is outside the prover's reach.
- The two runs that expect a violation show a disagreement on a small instance, which
  is all a counterexample needs.

## 7. Abstractions worth knowing

- The turn's telemetry, the 60 % notice, plan text, tool-output history,
  per-tool output limits and the last verification verdict are not state of the
  model: no control decision reads them.
- The kill switch `AETHER_NO_COMPACT` is the session that never reaches the threshold.
- `notify()` takes the same mutex for a write and waits for nothing; in the MCP
  models a request the server ignores covers its effect.
- Whether a Bash command counts as read-only is an attribute of the use, not a
  parser.
- In `Journal`, a write that fails without the process dying (`.ok()` discards the
  error) is not modelled.
- `AgentLoop`'s own runs and theorems know the REPL without `/retry`; `Journal` has it.
  With it two of them would need one more exception each: a `/retry` that pops back to
  the guidance's user item goes out without the guidance (`BlockGuidanceSent`), and
  one after a compacted turn that Ctrl-C cut off pops the summary itself
  (`ForgottenOnlyByFailure`). With "nothing to retry" the answer it popped is gone
  all the same.
- The REPL's `/compact` (main.rs:3329) calls `maybe_compact` at the prompt, outside
  Ctrl-C's reach and without a turn; modelled are compactions in a turn and the
  TUI's `/compact full`, by the same code.
- In `Serve`, an address is whatever `extract_client_ip` returns; "unknown" is
  one more address.

## 8. Not modelled

The repository has about 111 000 lines of implementation, 70 000 of them in
`aether-cli/src/main.rs`. Most are argument parsing, slash commands, rendering,
analysers, scanners and report generators, which map input files to text and
keep no state between steps: nothing a state machine would add to. The models cover the
components in which several actors, failures or long sequences of calls meet,
and their share of the lines is accordingly small.

Providers, built-in tools, plugins and the terminal UI are I/O or layout. The
hook pipeline and the self-check gate are stateless text matching whose results
`AgentLoop` takes as a choice; the retry wrapper is sequential, and its outcome is one too. The
deterministic scheduler and the lock-order graph are analysis tools of their own.
Tenants, SCIM, fleet registry and provider pool are file-backed tables inside
`main.rs` behind HTTP handlers; they are the next candidates.
