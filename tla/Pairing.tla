------------------------------- MODULE Pairing -------------------------------
(***************************************************************************)
(* sanitize_tool_pairing over every short history, paired or not.  The     *)
(* loop itself builds only paired histories (AgentLoop!PairedHistory);     *)
(* resumed, edited and trimmed sessions need not be, and the guard is run  *)
(* before every request.  Each step is one run of the guard on the         *)
(* messages the previous one left.                                         *)
(***************************************************************************)
EXTENDS Context

CONSTANTS
    MaxItems,   \* bound: items in a history
    MaxIds      \* bound: tool uses or results in an item

ASSUME PairingAssumption == MaxItems \in Nat /\ MaxIds \in Nat

VARIABLES
    messages,   \* the thread of the request
    runs        \* times the guard has seen it

guardVars == <<messages, runs>>

IdSeqs == {s \in BoundedSeq(Ids, MaxIds) : \A i, j \in DOMAIN s : s[i] = s[j] => i = j}

Items ==      {User("input", {1})}
         \cup {Assistant(text, ids) : text \in {"none", "plain"}, ids \in IdSeqs}
         \cup {ToolResults(ids) : ids \in IdSeqs \ {<<>>}}

GuardInit ==
    /\ \E h \in BoundedSeq(Items, MaxItems) : messages = translate_history(h)
    /\ runs = 0

Preflight ==
    /\ runs < 2
    /\ messages' = sanitize_tool_pairing(messages)
    /\ runs' = runs + 1

GuardSpec == GuardInit /\ [][Preflight]_guardVars

-----------------------------------------------------------------------------
\* Whatever the history was, the request that goes out obeys the provider's
\* pairing rule, so an unbalanced thread cannot be rejected on every call.
SelfHeals == runs > 0 => Balanced(messages)

\* The guard reports no repair exactly on the balanced threads, and leaves
\* those alone: hard mode refuses precisely what production would change.
ReportsExactly ==
    [][ /\ (repairs(messages) = {}) <=> Balanced(messages)
        /\ (repairs(messages) = {}) <=> (messages' = messages)
      ]_guardVars

\* A block the rule does not condemn survives, in order, with its message's
\* role: a repair never costs text, tool uses or results that were paired.
Honest(ms, i) ==
    retain(ms[i].content, {b \in ToSet(ms[i].content) :
                              b.type = "ToolResult" => b.id \in UseIds(ms, i - 1)})

IsInserted(ms, i) == \A k \in DOMAIN ms[i].content : ms[i].content[k].type = "ToolResult"

KeepsHonestBlocks ==
    [][ \E place \in [DOMAIN messages -> DOMAIN messages'] :
            /\ \A i, j \in DOMAIN messages : i < j => place[i] < place[j]
            /\ \A i \in DOMAIN messages :
                  /\ messages'[place[i]].role = messages[i].role
                  /\ IsPrefix(Honest(messages, i), messages'[place[i]].content)
            /\ \A i \in DOMAIN messages' :
                  (\A j \in DOMAIN messages : place[j] # i) => IsInserted(messages', i)
      ]_guardVars
=============================================================================
