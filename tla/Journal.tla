------------------------------- MODULE Journal -------------------------------
(***************************************************************************)
(* The session file of the REPL (aether-cli/src/main.rs): the driver loop  *)
(* of AgentLoop, extended with the lines it appends to                     *)
(* ~/.aether/sessions/<id>.jsonl and with the resume that rebuilds the     *)
(* history from them.                                                      *)
(*                                                                         *)
(* The user's line is written before the turn; after a turn that returned  *)
(* Ok the driver looks at the last one or two items of the history and     *)
(* writes them, one line each.  /retry runs turns too, in a loop that      *)
(* writes nothing.  A line reaches the file in two writes, the JSON and    *)
(* the newline; the process may be killed before, between, within and      *)
(* after them, and a later one resumes from what is there.                 *)
(***************************************************************************)
EXTENDS AgentLoop

CONSTANTS
    MaxRestarts,    \* bound: times the session is resumed
    MaxRetries      \* bound: times the user types /retry

ASSUME JournalAssumption == MaxRestarts \in Nat /\ MaxRetries \in Nat /\ driver = "repl"

VARIABLES
    file,       \* the lines of the file, each a sequence of what was written to it
    open,       \* the last line of the file has no newline
    queue,      \* lines the driver has still to append before it goes on
    typed,      \* the user's line is written, its turn has not begun
    silent,     \* the turn runs in the loop of /retry, which writes nothing
    restarts,
    retries,
    dirty,           \* ghost: some process died while it was appending
    unsaved_answers, \* ghost: answers this process recorded and did not write
    unsaved_calls    \* ghost: the tool calls it recorded and did not write

ghosts == <<dirty, unsaved_answers, unsaved_calls>>

journalVars == <<file, open, queue, typed, silent, restarts, retries, ghosts>>

allVars == <<vars, journalVars>>

JournalInit ==
    /\ Init
    /\ file = <<>> /\ open = FALSE
    /\ queue = <<>> /\ typed = FALSE /\ silent = FALSE
    /\ restarts = 0 /\ retries = 0
    /\ dirty = FALSE /\ unsaved_answers = 0 /\ unsaved_calls = {}

-----------------------------------------------------------------------------
(***************************************************************************)
(* SessionLine: what a line says.  Torn is a JSON text cut short, Garbled  *)
(* one cut inside a character: the JSON is not escaped, and what is left   *)
(* of the character is not UTF-8.                                          *)
(***************************************************************************)
SessionLine(kind, text, id, about) ==
    [kind |-> kind, text |-> text, id |-> id, about |-> about]

Torn    == SessionLine("torn", "none", NoId, {})
Garbled == SessionLine("garbled", "none", NoId, {})
Broken  == {Torn, Garbled}

user_line(n)      == SessionLine("user", "input", NoId, {n})
tool_use_line(i)  == SessionLine("tool_use", "none", i, {})
result_line(i)    == SessionLine("tool_result", "none", i, {})

assistant_lines(item) ==
    (IF item.text = "none" THEN <<>> ELSE <<SessionLine("assistant", item.text, NoId, {})>>)
        \o [k \in DOMAIN item.ids |-> tool_use_line(item.ids[k])]

\* Mutant: the results are displayed, not persisted.
persisted_calls(h) ==
    LET n == Len(h) IN
    IF n >= 2 /\ h[n].kind = "ToolResults" THEN assistant_lines(h[n - 1])
    ELSE IF n >= 1 /\ h[n].kind = "Assistant" THEN assistant_lines(h[n])
    ELSE <<>>

\* "Persist whatever was just appended (last 1-2 items)": the driver does not
\* know what the turn appended, it looks at the end of the history.
persisted(h) ==
    LET n == Len(h)
        calls   == IF n >= 2 /\ h[n - 1].kind = "Assistant"
                   THEN assistant_lines(h[n - 1]) ELSE <<>>
    IN  IF n >= 1 /\ h[n].kind = "ToolResults"
        THEN calls \o [k \in DOMAIN h[n].ids |-> result_line(h[n].ids[k])]
        ELSE IF n >= 1 /\ h[n].kind = "Assistant" THEN assistant_lines(h[n])
        ELSE <<>>

\* Appending to a file that does not end with a newline continues its last line.
put(cell) ==
    file' = IF open THEN [file EXCEPT ![Len(file)] = Append(@, cell)]
            ELSE Append(file, <<cell>>)

-----------------------------------------------------------------------------
(***************************************************************************)
(* load_session_history                                                    *)
(***************************************************************************)
\* The file is read into a String, whole: one broken character fails it all.
loadable(lines) == \A k \in DOMAIN lines : \A c \in DOMAIN lines[k] : lines[k][c] # Garbled

\* One line, one JSON value: anything else is skipped.
readable(cells) == Len(cells) = 1 /\ cells[1] \notin Broken

LastIs(h, kind) == h # <<>> /\ h[Len(h)].kind = kind

extend_last(h, i) == [h EXCEPT ![Len(h)].ids = Append(@, i)]

push(h, r) ==
    CASE r.kind = "user"      -> Append(h, User(r.text, r.about))
      [] r.kind = "assistant" -> Append(h, Assistant(r.text, <<>>))
      [] r.kind = "tool_use"  -> IF LastIs(h, "Assistant") THEN extend_last(h, r.id)
                                 ELSE Append(h, Assistant("none", <<r.id>>))
      [] OTHER                -> IF LastIs(h, "ToolResults") THEN extend_last(h, r.id)
                                 ELSE Append(h, ToolResults(<<r.id>>))

\* A trailing dispatch whose results were never logged is dropped.
drop_unanswered(h) ==
    IF LastIs(h, "Assistant") /\ h[Len(h)].ids # <<>> THEN SubSeq(h, 1, Len(h) - 1) ELSE h

\* Mutant: tool records are skipped, as they once were.
read_line_text_only(h, cells) ==
    IF readable(cells) /\ cells[1].kind \in {"user", "assistant"} THEN push(h, cells[1]) ELSE h

read_line(h, cells) == IF readable(cells) THEN push(h, cells[1]) ELSE h

\* The loop over the lines: entry k is the history after the first k of them.
replayed(lines) ==
    LET after[k \in 0..Len(lines)] ==
            IF k = 0 THEN <<>> ELSE read_line(after[k - 1], lines[k])
    IN  after

load_session_history(lines) == drop_unanswered(replayed(lines)[Len(lines)])

-----------------------------------------------------------------------------
(***************************************************************************)
(* session_branch: the first at_turn exchanges, then on to the next user   *)
(* line.  An exchange is counted at its assistant line.                    *)
(***************************************************************************)
KindOf(cells) == IF readable(cells) THEN cells[1].kind ELSE "unreadable"

\* Mutant: the copy stops at once when the count is reached.
stops_at_once(line) == TRUE

stops_at(line) == KindOf(line) = "user"

\* Lines are copied as they are until the count is reached, and after that
\* without the unreadable ones.
copy_line(b, line, at_turn) ==
    IF b.ended THEN b
    ELSE IF b.exchanges < at_turn
         THEN [b EXCEPT !.kept = Append(@, line),
                        !.exchanges = @ + (IF KindOf(line) = "assistant" THEN 1 ELSE 0)]
    ELSE IF ~readable(line) THEN b
    ELSE IF stops_at(line) THEN [b EXCEPT !.ended = TRUE]
    ELSE [b EXCEPT !.kept = Append(@, line)]

\* The loop over the lines: entry k is what it has copied of the first k.
copied(lines, at_turn) ==
    LET after[k \in 0..Len(lines)] ==
            IF k = 0 THEN [kept |-> <<>>, exchanges |-> 0, ended |-> FALSE]
            ELSE copy_line(after[k - 1], lines[k], at_turn)
    IN  after

session_branch(lines, at_turn) == copied(lines, at_turn)[Len(lines)].kept

-----------------------------------------------------------------------------
(***************************************************************************)
(* The driver.                                                             *)
(***************************************************************************)
\* A message is typed: its line comes first.
Type ==
    /\ pc = "Prompt" /\ queue = <<>> /\ ~typed
    /\ asked < MaxInputs
    /\ queue' = <<user_line(asked + 1)>>
    /\ typed' = TRUE
    /\ UNCHANGED <<vars, file, open, silent, restarts, retries, ghosts>>

\* Mutant: the text is written without its newline.
ends_line_not == open' = TRUE

ends_line == open' = FALSE

AppendLine ==
    /\ queue # <<>>
    /\ put(Head(queue))
    /\ ends_line
    /\ queue' = Tail(queue)
    /\ UNCHANGED <<vars, typed, silent, restarts, retries, ghosts>>

\* Mutant: a failed turn is persisted too.
ReturnedOk_or_not == pc' \in {"Prompt", "Resume"}

ReturnedOk == pc' \in {"Prompt", "Resume"} /\ outcome' \in {"AwaitUser", "ContinueImmediately"}

\* What no line will tell of the turn the model has just answered: an answer that
\* a synthetic user item hides from the driver, and whatever /retry records.
CountUnsaved ==
    /\ unsaved_answers' = unsaved_answers +
          (IF turn_index' > turn_index /\ (silent \/ LastIs(history', "User")) THEN 1 ELSE 0)
    /\ unsaved_calls' = unsaved_calls \cup
          (IF turn_index' > turn_index /\ silent /\ LastIs(history', "ToolResults")
           THEN ToSet(history'[Len(history')].ids) ELSE {})

\* A step of the session; only a turn that returned Ok has something to persist.
Turn ==
    /\ queue = <<>>
    /\ pc = "Prompt" => typed
    /\ Next
    /\ typed' = FALSE
    /\ silent' = (silent /\ pc' # "Prompt")
    /\ queue' = IF ReturnedOk /\ ~silent THEN persisted(history') ELSE <<>>
    /\ CountUnsaved
    /\ UNCHANGED <<file, open, restarts, retries, dirty>>

\* /retry takes the last answer off the history, with its results.
pop_kind(h, kind) == IF LastIs(h, kind) THEN SubSeq(h, 1, Len(h) - 1) ELSE h

popped(h) == pop_kind(pop_kind(h, "ToolResults"), "Assistant")

\* "/retry": the turn runs again if a user item is left at the end.  Otherwise
\* there is nothing to retry, and what was popped is gone.
SlashRetry ==
    /\ pc = "Prompt" /\ queue = <<>> /\ ~typed
    /\ retries < MaxRetries /\ retries' = retries + 1
    /\ \/ /\ LastIs(popped(history), "User")
          /\ AgentTurn(popped(history), FALSE)
          /\ silent' = (pc' # "Prompt")
          /\ UNCHANGED asked
       \/ /\ ~LastIs(popped(history), "User")
          /\ popped(history) # history
          /\ history' = popped(history)
          /\ UNCHANGED <<turn_index, pending_reminders, usage_total, planVars, thinking_budget,
                         tools_disabled_turns, pc, call, summary, outcome, asked, lost, as_is,
                         silent>>
    /\ UNCHANGED <<file, open, queue, typed, restarts, ghosts>>

\* "/clear": the history goes, the file stays.
Clear ==
    /\ pc = "Prompt" /\ queue = <<>> /\ ~typed
    /\ history # <<>>
    /\ history' = <<>> /\ turn_index' = 0
    /\ UNCHANGED <<pending_reminders, usage_total, planVars, thinking_budget,
                   tools_disabled_turns, pc, call, summary, outcome, asked, lost, as_is,
                   journalVars>>

\* The process ends, at the prompt or anywhere else, and the session is resumed
\* by another one.  A line under way may have reached the file in part, or whole but
\* for the newline, which is a write of its own.
Restart ==
    /\ restarts < MaxRestarts
    /\ restarts' = restarts + 1
    /\ \/ UNCHANGED <<file, open>>
       \/ /\ queue # <<>>
          /\ \E cell \in {Torn, Head(queue)} : put(cell)
          /\ open' = TRUE
    /\ file' # <<>>      \* there is a file to resume from
    /\ dirty' = (dirty \/ queue # <<>>) /\ unsaved_answers' = 0 /\ unsaved_calls' = {}
    /\ queue' = <<>> /\ typed' = FALSE /\ silent' = FALSE
    /\ history' = load_session_history(file')
    /\ turn_index' = 0 /\ pending_reminders' = {} /\ usage_total' = 0
    /\ tool_error_counts' = [t \in Tools |-> 0] /\ tool_call_stats' = [t \in Tools |-> 0]
    /\ thinking_budget' = FALSE /\ tools_disabled_turns' = 0
    /\ pc' = "Prompt" /\ call' = NoCall /\ summary' = NoSummary
    /\ outcome' = "Start" /\ as_is' = FALSE /\ lost' = {}
    /\ asked' = IF typed THEN asked + 1 ELSE asked
    /\ UNCHANGED retries

\* The process dies inside a character of the line under way.  Every later one
\* fails at load_session_history, so this is the last step of the session.
LoseFile ==
    /\ queue # <<>>
    /\ put(Garbled) /\ open' = TRUE
    /\ queue' = <<>> /\ typed' = FALSE
    /\ dirty' = TRUE
    /\ UNCHANGED <<vars, silent, restarts, retries, unsaved_answers, unsaved_calls>>

JournalNext ==
    /\ loadable(file)
    /\ Type \/ AppendLine \/ Turn \/ SlashRetry \/ Clear \/ Restart \/ LoseFile

JournalSpec == JournalInit /\ [][JournalNext]_allVars

-----------------------------------------------------------------------------
Loaded == load_session_history(file)

\* What the pairing guard has to repair in the history a file holds.
ToRepair(lines) == repairs(translate_history(load_session_history(lines)))

AllReadable == \A k \in DOMAIN file : readable(file[k])

Answers(h) == {i \in DOMAIN h : h[i].kind = "Assistant" /\ h[i].text = "plain"}

\* Whenever the driver waits for nothing to be written, a process that resumes
\* the session knows what the live one knows: every message the user typed,
\* every tool call with its results, and every answer, through compaction,
\* failed and interrupted turns, /clear and earlier resumes, as long as no line
\* was torn or run together.  It does not know the answers that were cut at
\* max_tokens (a synthetic user item hides them from the driver) and nothing of
\* what /retry recorded, answers and calls alike: that loop writes no line,
\* although load_session_history says that "resumed history matches live history".
ResumeRemembers ==
    (queue = <<>> /\ AllReadable) =>
        LET loaded == Loaded
        IN  /\ about_of(history) \cup summary.about \subseteq about_of(loaded)
            /\ \A i \in DOMAIN history : history[i].kind = "ToolResults" =>
                  \/ ToSet(history[i].ids) \subseteq unsaved_calls
                  \/ \E j \in 2..Len(loaded) :
                        /\ loaded[j] = history[i]
                        /\ ToSet(history[i].ids) \subseteq ToSet(loaded[j - 1].ids)
            /\ Cardinality(Answers(history)) <= Cardinality(Answers(loaded)) + unsaved_answers

\* load_session_history promises that "resume starts from a clean, balanced
\* boundary": the pairing guard finds nothing to repair in what a resume loads,
\* unless some process died while it was appending.
CleanResumeIsPaired ==
    (~dirty /\ queue = <<>>) => ToRepair(file) = {}

\* The places of the file that no resume reads: a torn text, and texts that
\* were run together.
Spoiled ==
    UNION {{k} \X DOMAIN file[k] : k \in {i \in DOMAIN file : ~readable(file[i])}}

\* A process that dies in the middle of a line spoils that line and the one the
\* next process appends to it, never anything written before or later.  One that
\* dies inside a character costs the session: no process can load the file, for
\* the sake of its last line alone, when every line before it is as it was.
CrashCost ==
    IF loadable(file) THEN Cardinality(Spoiled) <= 2 * restarts
    ELSE /\ Cardinality(Spoiled) <= 2 * restarts + 1
         /\ \A k \in DOMAIN file :
               k < Len(file) => \A c \in DOMAIN file[k] : file[k][c] # Garbled

\* A branch of a session that can be read is an earlier state of it: wherever it
\* is cut, the history its copy loads is a prefix of the history the session
\* loads, with no answer separated from the tool calls it made.
BranchIsEarlierSession ==
    loadable(file) =>
        LET loaded == Loaded
        IN  \A n \in 0..MaxInputs :
                IsPrefix(load_session_history(session_branch(file, n)), loaded)

\* Only what is new is written.  The one exception: a turn that stops at the turn
\* budget before it adds anything has the previous exchange written again.
JournalsOnlyNews ==
    [][ (queue = <<>> /\ queue' # <<>> /\ ~typed' /\ Len(history') <= Len(history))
            => budget_reached ]_allVars
=============================================================================
