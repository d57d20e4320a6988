------------------------------- MODULE Context -------------------------------
(***************************************************************************)
(* The conversation data of the agent core (aether-core/src/context.rs):   *)
(* the items a session's history is made of, their translation into wire   *)
(* messages, and sanitize_tool_pairing, the pre-flight pass that repairs   *)
(* the tool_use / tool_result balance of an outgoing request.              *)
(*                                                                         *)
(* A text is one of a few classes (what the verifier and the properties    *)
(* tell apart); a tool use is its id; a tool result is the id it answers.  *)
(* "about" is the set of user inputs an item speaks for: a user message    *)
(* speaks for itself, a compaction summary for everything it summarised.   *)
(***************************************************************************)
EXTENDS Integers, Sequences, SequencesExt

CONSTANT Ids     \* tool-use ids

ItemKind == {"User", "Assistant", "ToolResults"}

\* "none" is Option::None; "input" a user's text, "system" a synthetic user
\* message, "ack" the one that follows a blocked answer, "header" the one that
\* introduces a summary, "summary" a compaction summary, "flagged" an answer some blocking
\* rule of the verifier matches, "sentinel" what replaces a blocked answer.
TextClass == {"none", "input", "system", "ack", "header",
              "summary", "plain", "flagged", "sentinel"}

Item(kind, text, ids, about) ==
    [kind |-> kind, text |-> text, ids |-> ids, about |-> about]

User(text, about)       == Item("User", text, <<>>, about)
Assistant(text, ids)    == Item("Assistant", text, ids, {})
ToolResults(ids)        == Item("ToolResults", "none", ids, {})

-----------------------------------------------------------------------------
(***************************************************************************)
(* Wire messages.  A user's text becomes Text and Image blocks, which the  *)
(* pairing rules treat alike: one Text block stands for them.              *)
(***************************************************************************)
NoId == "no id"

Text           == [type |-> "Text", id |-> NoId]
ToolUse(id)    == [type |-> "ToolUse", id |-> id]
ToolResult(id) == [type |-> "ToolResult", id |-> id]

Message(role, content) == [role |-> role, content |-> content]

Uses(ids)    == [k \in DOMAIN ids |-> ToolUse(ids[k])]
Results(ids) == [k \in DOMAIN ids |-> ToolResult(ids[k])]

decode_user_content == <<Text>>

translate_item(item) ==
    CASE item.kind = "User" -> Message("User", decode_user_content)
      [] item.kind = "Assistant" ->
            Message("Assistant",
                    (IF item.text = "none" THEN <<>> ELSE <<Text>>) \o Uses(item.ids))
      [] OTHER -> Message("User", Results(item.ids))

translate_history(items) == [i \in DOMAIN items |-> translate_item(items[i])]

-----------------------------------------------------------------------------
IdsOf(message, type) ==
    {message.content[k].id :
        k \in {j \in DOMAIN message.content : message.content[j].type = type}}

UseIds(messages, i) ==
    IF i \in DOMAIN messages THEN IdsOf(messages[i], "ToolUse") ELSE {}

ResultIds(messages, i) ==
    IF i \in DOMAIN messages THEN IdsOf(messages[i], "ToolResult") ELSE {}

\* Vec::retain: the blocks of a message that are in S, in order.  Entry k of the
\* loop is what is left of the first k.
retain(blocks, S) ==
    LET kept[k \in 0..Len(blocks)] ==
            IF k = 0 THEN <<>>
            ELSE IF blocks[k] \in S THEN Append(kept[k - 1], blocks[k]) ELSE kept[k - 1]
    IN  kept[Len(blocks)]

\* Mutant: one orphan condemns the whole message.
drop_orphans_whole(messages) ==
    [i \in DOMAIN messages |->
        IF ResultIds(messages, i) \subseteq UseIds(messages, i - 1)
        THEN messages[i] ELSE [messages[i] EXCEPT !.content = <<Text>>]]

\* Pass 1: a tool_result stays only if the previous message has its tool_use;
\* a message emptied that way gets a placeholder text.
drop_orphans(messages) ==
    [i \in DOMAIN messages |->
        LET paired == {b \in ToSet(messages[i].content) :
                          b.type = "ToolResult" => b.id \in UseIds(messages, i - 1)}
            kept   == retain(messages[i].content, paired)
        IN  [messages[i] EXCEPT !.content =
                IF @ # <<>> /\ kept = <<>> THEN <<Text>> ELSE kept]]

\* Mutant: an answer anywhere later in the thread counts.
unanswered_anywhere(messages, i) ==
    IF i \in DOMAIN messages /\ messages[i].role = "Assistant"
    THEN LET missing == {b \in ToSet(messages[i].content) :
                            /\ b.type = "ToolUse"
                            /\ \A j \in DOMAIN messages :
                                  j > i => b.id \notin ResultIds(messages, j)}
             blocks  == retain(messages[i].content, missing)
         IN  [k \in DOMAIN blocks |-> blocks[k].id]
    ELSE <<>>

\* The tool uses of message i that the next message does not answer, in order.
unanswered(messages, i) ==
    IF i \in DOMAIN messages /\ messages[i].role = "Assistant"
    THEN LET missing == {b \in ToSet(messages[i].content) :
                            b.type = "ToolUse" /\ b.id \notin ResultIds(messages, i + 1)}
             blocks  == retain(messages[i].content, missing)
         IN  [k \in DOMAIN blocks |-> blocks[k].id]
    ELSE <<>>

\* Pass 2: synthesized error results join the following tool-result message,
\* or form a message of their own right after the dangling dispatch.
synthesize_missing(messages) ==
    LET extended(i) ==
            IF ResultIds(messages, i) # {}
            THEN [messages[i] EXCEPT !.content = @ \o Results(unanswered(messages, i - 1))]
            ELSE messages[i]
        inserted(i) ==
            IF unanswered(messages, i) # <<>> /\ ResultIds(messages, i + 1) = {}
            THEN <<Message("User", Results(unanswered(messages, i)))>>
            ELSE <<>>
    IN  FlattenSeq([i \in DOMAIN messages |-> <<extended(i)>> \o inserted(i)])

sanitize_tool_pairing(messages) == synthesize_missing(drop_orphans(messages))

\* Mutant: dropped orphans are not reported.
repairs_silent(messages) ==
    UNION {UseIds(messages, i) \ ResultIds(messages, i + 1) : i \in DOMAIN messages}

\* What the pass reports: the orphans it dropped and the answers it made up.
repairs(messages) ==
    UNION {     (ResultIds(messages, i) \ UseIds(messages, i - 1))
           \cup IF messages[i].role = "Assistant"
                THEN UseIds(messages, i) \ ResultIds(messages, i + 1)
                ELSE {}
           : i \in DOMAIN messages}

-----------------------------------------------------------------------------
(***************************************************************************)
(* The provider's rule, stated on its own: every tool_result answers a     *)
(* tool_use of the message before it, and every tool_use of an assistant   *)
(* message is answered by the message after it.                            *)
(***************************************************************************)
Balanced(messages) ==
    \A i \in DOMAIN messages :
        /\ \A id \in IdsOf(messages[i], "ToolResult") :
              i > 1 /\ id \in IdsOf(messages[i - 1], "ToolUse")
        /\ \A id \in IdsOf(messages[i], "ToolUse") :
              i < Len(messages) /\ id \in IdsOf(messages[i + 1], "ToolResult")
=============================================================================
