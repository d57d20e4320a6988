--------------------------- MODULE AgentLoop_proofs --------------------------
(***************************************************************************)
(* Proofs about AgentLoop, for any set of tools and ids, any settings of   *)
(* the session and any bounds: type correctness, the pairing of tool uses  *)
(* and tool results in the history, that the pre-flight guard has nothing  *)
(* to repair, the turn budget, and what the history says when a request    *)
(* goes out, a compaction runs or the user has the word again.  Then about *)
(* Pairing: what the guard makes of any history, paired or not.            *)
(***************************************************************************)
EXTENDS AgentLoop, Pairing, SequenceTheorems, FiniteSetTheorems, WellFoundedInduction, TLAPS

-----------------------------------------------------------------------------
(***************************************************************************)
(* Paired histories are closed under everything the loop does to them:     *)
(* concatenation, a cut in front of an item that is not a tool result, and *)
(* the removal of a trailing user item.                                    *)
(***************************************************************************)
Histories == {h \in Seq(ItemType) : Paired(h)}

\* A paired history neither starts with results nor ends with open calls, so
\* putting one after another leaves both paired.
LEMMA ConcatHistories ==
    ASSUME NEW g \in Histories, NEW h \in Histories
    PROVE  g \o h \in Histories
<1> DEFINE s == g \o h
<1>1. /\ g \in Seq(ItemType) /\ h \in Seq(ItemType)
      /\ Len(g) \in Nat /\ Len(h) \in Nat
      /\ DOMAIN g = 1..Len(g) /\ DOMAIN h = 1..Len(h)
  BY LenProperties DEF Histories
<1>2. /\ s \in Seq(ItemType) /\ Len(s) = Len(g) + Len(h) /\ DOMAIN s = 1..Len(s)
      /\ \A i \in 1..Len(g) : s[i] = g[i]
      /\ \A i \in 1..Len(h) : s[Len(g) + i] = h[i]
  <2>1. /\ s \in Seq(ItemType) /\ Len(s) = Len(g) + Len(h)
        /\ \A i \in 1..Len(g) + Len(h) : s[i] = IF i <= Len(g) THEN g[i] ELSE h[i - Len(g)]
    BY <1>1, ConcatProperties
  <2>. HIDE DEF s
  <2>2. DOMAIN s = 1..Len(s)
    BY <2>1, LenProperties
  <2>3. \A i \in 1..Len(g) : s[i] = g[i]
    BY <1>1, <2>1
  <2>4. ASSUME NEW i \in 1..Len(h) PROVE s[Len(g) + i] = h[i]
    <3>1. Len(g) + i \in 1..Len(g) + Len(h) /\ ~(Len(g) + i <= Len(g))
      BY <1>1
    <3>2. (Len(g) + i) - Len(g) = i
      BY <1>1
    <3>. QED
      BY <2>1, <3>1, <3>2
  <2>. QED
    BY <2>1, <2>2, <2>3, <2>4
<1>. HIDE DEF s
<1>3. ASSUME NEW i \in DOMAIN s, i <= Len(g) PROVE PairedAt(s, i)
  <2>1. PairedAt(g, i)
    BY <1>1, <1>2, <1>3 DEF Histories, Paired
  <2>2. /\ s[i] = g[i]
        /\ i < Len(g) => s[i + 1] = g[i + 1]
        /\ i > 1 => s[i - 1] = g[i - 1]
    BY <1>1, <1>2, <1>3
  <2>. QED
    BY <1>1, <1>2, <1>3, <2>1, <2>2 DEF PairedAt
<1>4. ASSUME NEW i \in DOMAIN s, i > Len(g) PROVE PairedAt(s, i)
  <2> DEFINE j == i - Len(g)
  <2>0. j \in 1..Len(h) /\ i = Len(g) + j
    BY <1>1, <1>2, <1>4
  <2>1. PairedAt(h, j)
    BY <1>1, <2>0 DEF Histories, Paired
  <2>2. /\ s[i] = h[j]
        /\ j < Len(h) => s[i + 1] = h[j + 1]
        /\ j > 1 => s[i - 1] = h[j - 1]
    <3>1. j < Len(h) => j + 1 \in 1..Len(h) /\ i + 1 = Len(g) + (j + 1)
      BY <1>1, <2>0
    <3>2. j > 1 => j - 1 \in 1..Len(h) /\ i - 1 = Len(g) + (j - 1)
      BY <1>1, <2>0
    <3>. HIDE DEF j
    <3>. QED
      BY <1>2, <2>0, <3>1, <3>2
  <2>3. (j < Len(h) => i < Len(s)) /\ (j > 1 => i > 1)
    BY <1>1, <1>2, <2>0
  <2>. HIDE DEF j
  <2>. QED
    BY <2>1, <2>2, <2>3 DEF PairedAt
<1>5. Paired(s)
  BY <1>1, <1>2, <1>3, <1>4 DEF Paired
<1>. QED
  BY <1>2, <1>5 DEF s, Histories

\* Two items, one after the other.
LEMMA ConcatUnits ==
    ASSUME NEW x, NEW y
    PROVE  <<x>> \o <<y>> = <<x, y>> /\ <<x>> \o <<>> = <<x>>
<1> DEFINE S == {x, y}
           s == <<x>> \o <<y>>
           t == <<x, y>>
<1>1. <<x>> \in Seq(S) /\ <<y>> \in Seq(S)
  OBVIOUS
<1>2. t \in Seq(S) /\ Len(t) = 2 /\ t[1] = x /\ t[2] = y
  OBVIOUS
<1>3. s \in Seq(S) /\ Len(s) = 2 /\ s[1] = x /\ s[2] = y
  BY <1>1, ConcatProperties
<1>4. <<x>> \o <<>> = <<x>>
  BY <1>1, ConcatEmptySeq
<1>. HIDE DEF s, t, S
<1>5. s = t
  BY <1>2, <1>3, SeqEqual
<1>. QED
  BY <1>4, <1>5 DEF s, t

\* A cut in front of an item that is not a tool result separates no pair.
LEMMA CutHistories ==
    ASSUME NEW h \in Histories, NEW cut \in 0..(Len(h) - 1),
           h[cut + 1].kind # "ToolResults"
    PROVE  SubSeq(h, cut + 1, Len(h)) \in Histories
<1> DEFINE s == SubSeq(h, cut + 1, Len(h))
<1>1. h \in Seq(ItemType) /\ Len(h) \in Nat /\ DOMAIN h = 1..Len(h)
  BY LenProperties DEF Histories
<1>2. /\ s \in Seq(ItemType) /\ Len(s) = Len(h) - cut
      /\ \A i \in 1..Len(s) : s[i] = h[cut + i]
  <2>1. \A i \in (cut + 1)..Len(h) : h[i] \in ItemType
    BY <1>1, ElementOfSeq
  <2>2. /\ s \in Seq(ItemType) /\ Len(s) = IF cut + 1 <= Len(h) THEN Len(h) - (cut + 1) + 1 ELSE 0
        /\ \A i \in 1..Len(h) - (cut + 1) + 1 : s[i] = h[(cut + 1) + i - 1]
    BY <1>1, <2>1, SubSeqProperties
  <2>. HIDE DEF s
  <2>. QED
    BY <1>1, <2>2
<1>. HIDE DEF s
<1>3. DOMAIN s = 1..Len(s)
  BY <1>2, LenProperties
<1>4. ASSUME NEW i \in DOMAIN s PROVE PairedAt(s, i)
  <2>1. PairedAt(h, cut + i)
    BY <1>1, <1>2, <1>3 DEF Histories, Paired
  <2>2. /\ s[i] = h[cut + i]
        /\ i < Len(s) => s[i + 1] = h[(cut + i) + 1]
        /\ i > 1 => s[i - 1] = h[(cut + i) - 1]
        /\ i = 1 => s[i].kind # "ToolResults"
    BY <1>1, <1>2, <1>3, SMTT(40)
  <2>3. cut + i < Len(h) => i < Len(s)
    BY <1>1, <1>2, <1>3
  <2>. QED
    BY <1>3, <2>1, <2>2, <2>3 DEF PairedAt
<1>. QED
  BY <1>2, <1>4 DEF s, Histories, Paired

\* A trailing user item may be taken off.
LEMMA PopHistories ==
    ASSUME NEW h \in Histories
    PROVE  pop_user(h) \in Histories
<1>1. h \in Seq(ItemType) /\ Len(h) \in Nat /\ DOMAIN h = 1..Len(h)
  BY LenProperties DEF Histories
<1>2. CASE h # <<>> /\ h[Len(h)].kind = "User"
  <2> DEFINE s == SubSeq(h, 1, Len(h) - 1)
  <2>1. /\ s \in Seq(ItemType) /\ Len(s) = Len(h) - 1
        /\ \A i \in 1..Len(s) : s[i] = h[i]
    <3>1. \A i \in 1..(Len(h) - 1) : h[i] \in ItemType
      BY <1>1, ElementOfSeq
    <3>2. Len(h) > 0
      BY <1>1, <1>2, EmptySeq
    <3>. QED
      BY <1>1, <3>1, <3>2, SubSeqProperties
  <2>. HIDE DEF s
  <2>2. DOMAIN s = 1..Len(s)
    BY <2>1, LenProperties
  <2>3. ASSUME NEW i \in DOMAIN s PROVE PairedAt(s, i)
    <3>1. PairedAt(h, i)
      BY <1>1, <2>1, <2>2 DEF Histories, Paired
    <3>2. /\ s[i] = h[i]
          /\ i < Len(s) => s[i + 1] = h[i + 1]
          /\ i > 1 => s[i - 1] = h[i - 1]
          /\ i = Len(s) => h[i + 1].kind = "User"
      BY <1>1, <1>2, <2>1, <2>2
    <3>. QED
      BY <1>1, <2>1, <2>2, <3>1, <3>2 DEF PairedAt
  <2>. QED
    BY <1>2, <2>1, <2>3 DEF s, Histories, Paired, pop_user
<1>3. CASE ~(h # <<>> /\ h[Len(h)].kind = "User")
  BY <1>3 DEF pop_user
<1>. QED
  BY <1>2, <1>3

\* The pieces the loop builds histories from: an item that opens no call, and
\* a dispatch with its results.
LEMMA Pieces ==
    /\ <<>> \in Histories
    /\ \A item \in ItemType :
          item.kind = "User" \/ (item.kind = "Assistant" /\ item.ids = <<>>)
             => <<item>> \in Histories
    /\ \A text \in TextClass, uses \in Seq(Ids) :
          <<Assistant(text, uses), ToolResults(uses)>> \in Histories
<1>1. <<>> \in Histories
  BY DEF Histories, Paired
<1>2. ASSUME NEW item \in ItemType,
             item.kind = "User" \/ (item.kind = "Assistant" /\ item.ids = <<>>)
      PROVE  <<item>> \in Histories
  BY <1>2 DEF Histories, Paired, PairedAt
<1>3. ASSUME NEW text \in TextClass, NEW uses \in Seq(Ids)
      PROVE  <<Assistant(text, uses), ToolResults(uses)>> \in Histories
  <2> DEFINE a == Assistant(text, uses)
             r == ToolResults(uses)
  <2>1. /\ a \in ItemType /\ a.kind = "Assistant" /\ a.ids = uses
        /\ r \in ItemType /\ r.kind = "ToolResults" /\ r.ids = uses
    BY DEF Assistant, ToolResults, Item, ItemType, ItemKind, TextClass
  <2>. HIDE DEF a, r
  <2>2. <<a, r>> \in Histories
    <3> DEFINE s == <<a, r>>
    <3>1. s \in Seq(ItemType) /\ DOMAIN s = 1..2 /\ Len(s) = 2 /\ s[1] = a /\ s[2] = r
      BY <2>1
    <3>. HIDE DEF s
    <3>2. PairedAt(s, 1) /\ PairedAt(s, 2)
      BY <2>1, <3>1 DEF PairedAt
    <3>3. \A i \in DOMAIN s : i = 1 \/ i = 2
      BY <3>1
    <3>. QED
      BY <3>1, <3>2, <3>3 DEF s, Histories, Paired
  <2>. QED
    BY <2>2 DEF a, r
<1>. QED
  BY <1>1, <1>2, <1>3

-----------------------------------------------------------------------------
(***************************************************************************)
(* The pre-flight guard on a paired history.                               *)
(***************************************************************************)

\* What translate_history makes of an item: only an assistant item yields tool
\* uses, only a results item yields tool results, and each yields its own ids.
LEMMA IdsOfItem ==
    ASSUME NEW item \in ItemType
    PROVE  LET ids == {item.ids[k] : k \in DOMAIN item.ids}
               m   == translate_item(item)
           IN  /\ IdsOf(m, "ToolUse") = IF item.kind = "Assistant" THEN ids ELSE {}
               /\ IdsOf(m, "ToolResult") = IF item.kind = "ToolResults" THEN ids ELSE {}
<1> DEFINE ids == {item.ids[k] : k \in DOMAIN item.ids}
           m   == translate_item(item)
<1>0. item.ids \in Seq(Ids) /\ item.kind \in ItemKind
  BY DEF ItemType
<1>1. CASE item.kind = "User"
  <2>1. m.content = <<Text>>
    BY <1>1 DEF translate_item, Message, decode_user_content
  <2>2. DOMAIN m.content = {1} /\ m.content[1].type = "Text"
    BY <2>1 DEF Text
  <2>. QED
    BY <1>1, <2>2 DEF IdsOf
<1>2. CASE item.kind = "ToolResults"
  <2>1. m.content = [k \in DOMAIN item.ids |-> [type |-> "ToolResult", id |-> item.ids[k]]]
    BY <1>2 DEF translate_item, Message, Results, ToolResult
  <2>2. /\ DOMAIN m.content = DOMAIN item.ids
        /\ \A k \in DOMAIN item.ids : /\ m.content[k].type = "ToolResult"
                                      /\ m.content[k].id = item.ids[k]
    BY <2>1
  <2>. QED
    BY <1>2, <2>2 DEF IdsOf
<1>3. CASE item.kind = "Assistant"
  <2> DEFINE pre == IF item.text = "none" THEN <<>> ELSE <<Text>>
             n   == Len(item.ids)
             u   == Uses(item.ids)
             c   == pre \o u
             Blocks == {Text} \cup {ToolUse(i) : i \in Ids}
  <2>0. n \in Nat /\ DOMAIN item.ids = 1..n /\ \A k \in 1..n : item.ids[k] \in Ids
    BY <1>0, LenProperties
  <2>1. m.content = c
    BY <1>3 DEF translate_item, Message
  <2>2. /\ u \in Seq(Blocks) /\ Len(u) = n
        /\ \A k \in 1..n : u[k] = ToolUse(item.ids[k])
    BY <2>0 DEF Uses
  <2>3. /\ pre \in Seq(Blocks) /\ Len(pre) \in 0..1
        /\ \A k \in 1..Len(pre) : pre[k] = Text
    <3>1. Text \in Blocks
      OBVIOUS
    <3>. HIDE DEF Blocks
    <3>2. CASE item.text = "none"
      BY <3>2
    <3>3. CASE item.text # "none"
      BY <3>1, <3>3
    <3>. QED
      BY <3>2, <3>3
  <2>. HIDE DEF u, pre, Blocks
  <2>4. /\ c \in Seq(Blocks) /\ Len(c) = Len(pre) + n
        /\ \A k \in 1..Len(pre) + n : c[k] = IF k <= Len(pre) THEN pre[k] ELSE u[k - Len(pre)]
    BY <2>2, <2>3, ConcatProperties
  <2>. HIDE DEF c
  <2>5. DOMAIN c = 1..(Len(pre) + n)
    BY <2>4, LenProperties
  <2>6. \A k \in DOMAIN c : \/ k <= Len(pre) /\ c[k] = Text
                            \/ k - Len(pre) \in 1..n /\ c[k] = ToolUse(item.ids[k - Len(pre)])
    BY <2>0, <2>2, <2>3, <2>4, <2>5, SMTT(40)
  <2>7. ASSUME NEW k \in 1..n
        PROVE  Len(pre) + k \in DOMAIN c /\ c[Len(pre) + k] = ToolUse(item.ids[k])
    <3>1. /\ Len(pre) + k \in 1..(Len(pre) + n) /\ ~(Len(pre) + k <= Len(pre))
          /\ (Len(pre) + k) - Len(pre) = k
      BY <2>0, <2>3
    <3>. QED
      BY <2>2, <2>4, <2>5, <3>1
  <2>8. Text.type = "Text" /\ \A i : ToolUse(i).type = "ToolUse" /\ ToolUse(i).id = i
    BY DEF Text, ToolUse
  <2>9. IdsOf(m, "ToolResult") = {}
    BY <2>1, <2>6, <2>8 DEF IdsOf
  <2>10. IdsOf(m, "ToolUse") \subseteq ids
    BY <2>0, <2>1, <2>6, <2>8 DEF IdsOf
  <2>11. ids \subseteq IdsOf(m, "ToolUse")
    BY <2>0, <2>1, <2>7, <2>8 DEF IdsOf
  <2>. QED
    BY <1>3, <2>9, <2>10, <2>11
<1>. QED
  BY <1>0, <1>1, <1>2, <1>3 DEF ItemKind

\* On a paired history the guard finds nothing to drop and nothing to add.
LEMMA NothingToRepair ==
    ASSUME NEW h \in Histories
    PROVE  repairs(translate_history(h)) = {}
<1> DEFINE ms == translate_history(h)
           ids(i) == {h[i].ids[k] : k \in DOMAIN h[i].ids}
<1>1. /\ h \in Seq(ItemType) /\ Len(h) \in Nat /\ DOMAIN h = 1..Len(h)
      /\ \A i \in 1..Len(h) : h[i] \in ItemType
  BY LenProperties, ElementOfSeq DEF Histories
<1>2. DOMAIN ms = 1..Len(h) /\ \A i \in 1..Len(h) : ms[i] = translate_item(h[i])
  BY <1>1 DEF translate_history
<1>. HIDE DEF ms
<1>3. ASSUME NEW i \in DOMAIN ms
      PROVE  /\ UseIds(ms, i) = IF h[i].kind = "Assistant" THEN ids(i) ELSE {}
             /\ ResultIds(ms, i) = IF h[i].kind = "ToolResults" THEN ids(i) ELSE {}
  BY <1>1, <1>2, IdsOfItem DEF UseIds, ResultIds
<1>4. ASSUME NEW i \in DOMAIN ms PROVE ResultIds(ms, i) \subseteq UseIds(ms, i - 1)
  <2>1. CASE h[i].kind = "ToolResults"
    <3>1. i > 1 /\ h[i - 1].kind = "Assistant" /\ h[i - 1].ids = h[i].ids
      BY <1>1, <1>2, <2>1 DEF Histories, Paired, PairedAt
    <3>2. i - 1 \in DOMAIN ms
      BY <1>1, <1>2, <3>1
    <3>. QED
      BY <1>3, <2>1, <3>1, <3>2
  <2>. QED
    BY <1>3, <2>1
<1>5. ASSUME NEW i \in DOMAIN ms PROVE UseIds(ms, i) \subseteq ResultIds(ms, i + 1)
  <2>1. CASE h[i].kind = "Assistant" /\ h[i].ids # <<>>
    <3>1. i < Len(h) /\ h[i + 1].kind = "ToolResults" /\ h[i + 1].ids = h[i].ids
      BY <1>1, <1>2, <2>1 DEF Histories, Paired, PairedAt
    <3>2. i + 1 \in DOMAIN ms
      BY <1>1, <1>2, <3>1
    <3>. QED
      BY <1>3, <2>1, <3>1, <3>2
  <2>2. CASE h[i].ids = <<>>
    BY <1>3, <2>2
  <2>. QED
    BY <1>3, <2>1, <2>2
<1>. QED
  BY <1>4, <1>5 DEF ms, repairs

-----------------------------------------------------------------------------
(***************************************************************************)
(* The inductive invariant: the history is a paired one.  Types come with  *)
(* it, since the ids an item carries are those of a request's answer.      *)
(***************************************************************************)
IInv == TypeOK /\ PairedHistory /\ GuardNeverFires

CallType == [tools : BOOLEAN, reminders : SUBSET ReminderKind, retry : BOOLEAN,
             text : TextClass, uses : Seq(Ids), stop : StopReason]
SummaryType == [about : SUBSET Nat, pair : BOOLEAN, forced : BOOLEAN]

\* The parts of the state that assembling a request or draining the history
\* for a summary may change.
TurnOK == /\ history' \in Histories
          /\ pending_reminders' \subseteq ReminderKind
          /\ call' \in CallType
          /\ summary' \in SummaryType
          /\ pc' \in Pc
          /\ outcome' \in Outcome \ {"Internal"}
          /\ tools_disabled_turns' \in 0..MaxDisabled

\* The default values of the locals.
LEMMA Defaults == NoCall \in CallType /\ NoSummary \in SummaryType
BY DEF NoCall, NoSummary, CallType, SummaryType, TextClass, StopReason

\* What a history speaks for are inputs.
LEMMA AboutType ==
    ASSUME NEW h \in Seq(ItemType)
    PROVE  about_of(h) \in SUBSET Nat
<1>1. \A i \in DOMAIN h : h[i] \in ItemType
  BY LenProperties, ElementOfSeq
<1>. QED
  BY <1>1 DEF about_of, ItemType

\* Assembling a request from a paired history never trips the guard.
LEMMA AssembleStep ==
    ASSUME TypeOK, GuardNeverFires, NEW h \in Histories, NEW r \in SUBSET ReminderKind,
           NEW retry \in BOOLEAN, Assemble(h, r, retry)
    PROVE  TurnOK
<1>1. repairs(translate_history(h)) = {}
  BY NothingToRepair
<1>2. /\ call' = [NoCall EXCEPT !.tools = ~thinking_budget /\ tools_disabled_turns = 0,
                                !.reminders = r \cup turn_reminders,
                                !.retry = retry]
      /\ tools_disabled_turns' = disabled_after
      /\ pc' = "Calling"
      /\ UNCHANGED outcome
      /\ history' = h /\ pending_reminders' = {} /\ summary' = NoSummary
  BY <1>1 DEF Assemble
<1>3. turn_reminders \in SUBSET ReminderKind
  BY DEF turn_reminders, ReminderKind
<1>4. call' \in CallType
  BY <1>2, <1>3, Defaults DEF CallType, NoCall
<1>5. tools_disabled_turns' \in 0..MaxDisabled
  <2>1. disabled_after \in 0..MaxDisabled
    BY ConstantsAssumption DEF TypeOK, disabled_after
  <2>. QED
    BY <1>2, <2>1
<1>. QED
  BY <1>2, <1>4, <1>5, Defaults DEF TurnOK, TypeOK, GuardNeverFires, Pc

\* Compaction cuts in front of a user or an assistant item.
LEMMA DrainStep ==
    ASSUME NEW h \in Histories, NEW forced \in BOOLEAN, Drain(h, forced)
    PROVE  history' \in Histories /\ summary' \in SummaryType /\ pc' = "Summarising"
<1>1. PICK cut \in cut_points(h) :
        /\ history' = SubSeq(h, cut + 1, Len(h))
        /\ summary' = [about  |-> about_of(SubSeq(h, 1, cut)),
                       pair   |-> boundaries(h, "User") # {},
                       forced |-> forced]
        /\ pc' = "Summarising"
  BY DEF Drain
<1>2. h \in Seq(ItemType) /\ Len(h) \in Nat
  BY LenProperties DEF Histories
<1>3. cut \in 1..(Len(h) - 1) /\ h[cut + 1].kind # "ToolResults"
  <2>1. keep_count(h) \in Nat /\ keep_count(h) >= 2
    BY <1>2 DEF keep_count
  <2>2. cut \in 1..initial_cut(h) /\ h[cut + 1].kind \in {"User", "Assistant"}
    BY <1>1 DEF cut_points, boundaries
  <2>. QED
    BY <1>2, <2>1, <2>2 DEF initial_cut
<1>4. history' \in Histories
  BY <1>1, <1>2, <1>3, CutHistories
<1>5. summary' \in SummaryType
  <2>1. SubSeq(h, 1, cut) \in Seq(ItemType)
    BY <1>2, <1>3, ElementOfSeq, SubSeqProperties
  <2>2. about_of(SubSeq(h, 1, cut)) \in SUBSET Nat
    BY <2>1, AboutType
  <2>. QED
    BY <1>1, <2>2 DEF SummaryType
<1>. QED
  BY <1>1, <1>4, <1>5

\* The parts of the state that only a finished turn, or the user, changes.
RestOK == /\ turn_index' \in Nat
          /\ usage_total' \in Nat
          /\ tool_error_counts' \in [Tools -> 0..TOOL_ERROR_THRESHOLD]
          /\ tool_call_stats' \in [Tools -> 0..TOOL_ERROR_THRESHOLD]
          /\ thinking_budget' \in BOOLEAN
          /\ asked' \in 0..MaxInputs
          /\ lost' \subseteq Nat
          /\ as_is' \in BOOLEAN

\* The two halves make the whole.
LEMMA Halves == TurnOK /\ RestOK => IInv'
BY DEF TurnOK, RestOK, IInv, TypeOK, PairedHistory, GuardNeverFires, Histories,
       CallType, SummaryType

\* The invariant puts the history among the paired ones.
LEMMA HistoryIsPaired == IInv => history \in Histories
BY DEF IInv, TypeOK, PairedHistory, Histories

\* The first part of a turn, from its start to its first await.
LEMMA AgentTurnStep ==
    ASSUME IInv, NEW h \in Histories, NEW retry \in BOOLEAN, AgentTurn(h, retry),
           asked' \in 0..MaxInputs
    PROVE  IInv'
<1>1. TurnOK
  <2>1. CASE StopAtBudget(h)
    BY <2>1 DEF StopAtBudget, TurnOK, IInv, TypeOK, ReminderKind, Pc, Outcome, CallType,
                SummaryType
  <2>2. CASE CompactFirst(h, retry)
    <3>1. history' \in Histories /\ summary' \in SummaryType /\ pc' = "Summarising"
      BY <2>2, DrainStep DEF CompactFirst
    <3>2. call' \in CallType
      BY <2>2, Defaults DEF CompactFirst, CallType, NoCall
    <3>. QED
      BY <2>2, <3>1, <3>2 DEF CompactFirst, TurnOK, IInv, TypeOK, GuardNeverFires, Pc
  <2>3. CASE CallDirectly(h, retry)
    BY <2>3, AssembleStep DEF CallDirectly, IInv, TypeOK
  <2>. QED
    BY <2>1, <2>2, <2>3 DEF AgentTurn
<1>2. RestOK
  BY DEF RestOK, AgentTurn, IInv, TypeOK, planVars
<1>. QED
  BY <1>1, <1>2, Halves

\* The summary pair, or the single summary, in front of a paired history.
LEMMA WithSummary == IInv => with_summary(history) \in Histories
<1> SUFFICES ASSUME IInv PROVE with_summary(history) \in Histories
  OBVIOUS
<1>1. summary.about \in SUBSET Nat
  BY DEF IInv, TypeOK
<1> DEFINE u == User("header", {})
           a == Item("Assistant", "summary", <<>>, summary.about)
           w == User("summary", summary.about)
<1>2. /\ u \in ItemType /\ u.kind = "User"
      /\ a \in ItemType /\ a.kind = "Assistant" /\ a.ids = <<>>
      /\ w \in ItemType /\ w.kind = "User"
  BY <1>1 DEF User, Item, ItemType, ItemKind, TextClass
<1>. HIDE DEF u, a, w
<1>3. <<u>> \in Histories /\ <<a>> \in Histories /\ <<w>> \in Histories
  BY <1>2, Pieces
<1>4. <<u, a>> \in Histories
  <2>1. <<u>> \o <<a>> \in Histories
    BY <1>3, ConcatHistories
  <2>2. <<u>> \o <<a>> = <<u, a>>
    BY ConcatUnits
  <2>. QED
    BY <2>1, <2>2
<1>5. <<u, a>> \o history \in Histories /\ <<w>> \o history \in Histories
  BY <1>3, <1>4, HistoryIsPaired, ConcatHistories
<1>. QED
  BY <1>5 DEF with_summary, u, a, w

\* The summary call comes back, one way or the other.
LEMMA SummaryStep == IInv /\ (SummaryArrives \/ SummaryFails) => IInv'
<1> SUFFICES ASSUME IInv, SummaryArrives \/ SummaryFails PROVE IInv'
  OBVIOUS
<1>1. ASSUME NEW h \in Histories, NEW r \in SUBSET ReminderKind, AfterSummary(h, r)
      PROVE  TurnOK
  <2>1. CASE summary.forced
    BY <1>1, <2>1, Defaults
       DEF AfterSummary, TurnOK, IInv, TypeOK, GuardNeverFires, Pc, CallType, SummaryType
  <2>2. CASE ~summary.forced
    BY <1>1, <2>2, AssembleStep DEF AfterSummary, IInv, TypeOK, CallType
  <2>. QED
    BY <2>1, <2>2
<1>2. CASE SummaryArrives
  <2> DEFINE r == pending_reminders \cup (IF has_goal THEN {"CompactGoal"} ELSE {})
  <2>1. r \in SUBSET ReminderKind
    BY DEF IInv, TypeOK, ReminderKind
  <2>2. AfterSummary(with_summary(history), r)
    BY <1>2 DEF SummaryArrives
  <2>3. TurnOK
    BY <1>1, <2>1, <2>2, WithSummary
  <2>4. RestOK
    BY <1>2, <2>2 DEF SummaryArrives, AfterSummary, RestOK, IInv, TypeOK, planVars
  <2>. QED
    BY <2>3, <2>4, Halves
<1>3. CASE SummaryFails
  <2>1. AfterSummary(history, pending_reminders)
    BY <1>3 DEF SummaryFails
  <2>2. TurnOK
    BY <1>1, <2>1, HistoryIsPaired DEF IInv, TypeOK
  <2>3. RestOK
    BY <1>3, <2>1 DEF SummaryFails, AfterSummary, RestOK, IInv, TypeOK, planVars
  <2>. QED
    BY <2>2, <2>3, Halves
<1>. QED
  BY <1>2, <1>3

\* A finished turn records the answer and, in one go, the results of its calls.
LEMMA ObserveStep ==
    ASSUME IInv, NEW text \in TextClass, NEW uses \in Seq(Ids), NEW stop \in StopReason,
           NEW blocked \in BOOLEAN, Observe(text, uses, stop, blocked),
           pending_reminders' \subseteq ReminderKind
    PROVE  TurnOK /\ turn_index' \in Nat /\ asked' = asked /\ lost' = lost /\ as_is' \in BOOLEAN
<1>1. recorded(text, uses) \in Histories
  <2> DEFINE a == Assistant(text, uses)
             r == ToolResults(uses)
  <2>1. a \in ItemType /\ a.kind = "Assistant" /\ a.ids = uses
    BY DEF Assistant, Item, ItemType, ItemKind, TextClass
  <2>2. <<a, r>> \in Histories
    BY Pieces
  <2>3. uses = <<>> => <<a>> \in Histories
    BY <2>1, Pieces
  <2>. HIDE DEF a, r
  <2>4. <<a>> \o <<>> = <<a>> /\ <<a>> \o <<r>> = <<a, r>>
    BY ConcatUnits
  <2>. QED
    BY <2>2, <2>3, <2>4 DEF a, r, recorded
<1>2. follow_up(uses, stop, blocked) \in Histories
  <2>1. \A text2 \in TextClass : User(text2, {}) \in ItemType /\ User(text2, {}).kind = "User"
    BY DEF User, Item, ItemType, ItemKind
  <2>2. \A text2 \in TextClass : <<User(text2, {})>> \in Histories
    BY <2>1, Pieces
  <2>. QED
    BY <2>2, Pieces DEF TextClass, follow_up
<1>3. history' = history \o recorded(text, uses) \o follow_up(uses, stop, blocked)
  BY DEF Observe
<1>4. history' \in Histories
  BY <1>1, <1>2, <1>3, HistoryIsPaired, ConcatHistories
<1>. QED
  BY <1>4, Defaults DEF Observe, TurnOK, IInv, TypeOK, Pc, Outcome, SummaryType

\* What the cap and the verifier leave of an answer.
LEMMA Accepted ==
    ASSUME NEW text \in AnswerTexts, NEW uses \in BoundedSeq(Ids, MaxUses)
    PROVE  /\ accepted_uses(text, uses) \in Seq(Ids)
           /\ final_text(text) \in TextClass /\ is_blocked(text) \in BOOLEAN
<1>1. uses \in Seq(Ids)
  BY SeqDef, ConstantsAssumption DEF BoundedSeq, SeqOf
<1>2. ASSUME max_tool_calls_per_turn > 0, Len(uses) > max_tool_calls_per_turn
      PROVE  SubSeq(uses, 1, max_tool_calls_per_turn) \in Seq(Ids)
  <2>1. \A i \in 1..max_tool_calls_per_turn : uses[i] \in Ids
    BY <1>1, <1>2, ElementOfSeq, LenProperties, ConstantsAssumption
  <2>. QED
    BY <2>1, SubSeqProperties, ConstantsAssumption
<1>3. truncate(uses) \in Seq(Ids)
  BY <1>1, <1>2 DEF truncate
<1>4. accepted_uses(text, uses) \in Seq(Ids)
  BY <1>1, <1>3, EmptySeq DEF accepted_uses
<1>5. final_text(text) \in TextClass /\ is_blocked(text) \in BOOLEAN
  BY ConstantsAssumption DEF final_text, is_blocked, TextClass
<1>. QED
  BY <1>4, <1>5

\* The model answers: an answer without accepted uses is recorded at once.
LEMMA LlmStepOK == IInv /\ LlmStep => IInv'
<1> SUFFICES ASSUME IInv, LlmStep PROVE IInv'
  OBVIOUS
<1>1. PICK text \in AnswerTexts, uses \in BoundedSeq(Ids, MaxUses), stop \in StopReason,
           tokens \in 0..1, advice \in SUBSET HookReminders :
               LlmAnswers(text, uses, stop, tokens, advice)
  BY DEF LlmStep
<1> DEFINE acc == accepted_uses(text, uses)
           fin == final_text(text)
<1>3. acc \in Seq(Ids)
  BY Accepted
<1>4. fin \in TextClass /\ is_blocked(text) \in BOOLEAN
  BY Accepted
<1>5. pending_reminders' \subseteq ReminderKind
  BY <1>1, ConstantsAssumption DEF LlmAnswers, answer_reminders, ReminderKind, IInv, TypeOK
<1>6. /\ usage_total' \in Nat /\ thinking_budget' \in BOOLEAN
      /\ UNCHANGED planVars
  <2>1. usage_total' \in Nat /\ UNCHANGED planVars
    <3>1. usage_total' = Saturate(usage_total + tokens, Threshold) /\ UNCHANGED planVars
      BY <1>1 DEF LlmAnswers
    <3>2. usage_total + tokens \in Nat /\ Threshold \in Nat
      BY ConstantsAssumption DEF IInv, TypeOK
    <3>. QED
      BY <3>1, <3>2 DEF Saturate
  <2>2. thinking_budget' = (thinking_budget \/ thinks)
    BY <1>1 DEF LlmAnswers
  <2>3. thinking_budget' \in BOOLEAN
    BY <2>2, Zenon
  <2>. QED
    BY <2>1, <2>3
<1>. HIDE DEF acc, fin
<1>7. CASE acc = <<>>
  <2>1. Observe(fin, <<>>, stop, is_blocked(text))
    BY <1>1, <1>7 DEF LlmAnswers, acc, fin
  <2>2. TurnOK /\ turn_index' \in Nat /\ asked' = asked /\ lost' = lost /\ as_is' \in BOOLEAN
    BY <1>4, <1>5, <2>1, ObserveStep, EmptySeq
  <2>3. RestOK
    BY <1>6, <2>2 DEF RestOK, IInv, TypeOK, planVars
  <2>. QED
    BY <2>2, <2>3, Halves
<1>8. CASE acc # <<>>
  <2>1. /\ pc' = "Executing"
        /\ call' = [call EXCEPT !.text = fin, !.stop = stop, !.uses = acc]
        /\ UNCHANGED <<history, turn_index, outcome, as_is, tools_disabled_turns,
                       summary, asked, lost>>
    BY <1>1, <1>8 DEF LlmAnswers, acc, fin
  <2>2. call' \in CallType
    BY <1>3, <1>4, <2>1 DEF IInv, TypeOK, CallType
  <2>3. TurnOK
    BY <1>5, <2>1, <2>2, HistoryIsPaired
       DEF TurnOK, IInv, TypeOK, GuardNeverFires, Pc, SummaryType
  <2>4. RestOK
    BY <1>6, <2>1 DEF RestOK, IInv, TypeOK, planVars
  <2>. QED
    BY <2>3, <2>4, Halves
<1>. QED
  BY <1>7, <1>8

\* The tools finish: the error counts stay below their threshold.
LEMMA ToolStepOK == IInv /\ ToolStep => IInv'
<1> SUFFICES ASSUME IInv, ToolStep PROVE IInv'
  OBVIOUS
<1>1. PICK bad \in SUBSET (DOMAIN call.uses), advice \in SUBSET HookReminders :
           ToolsFinish(bad, advice)
  BY DEF ToolStep
<1>2. call.text \in TextClass /\ call.uses \in Seq(Ids) /\ call.stop \in StopReason
  BY DEF IInv, TypeOK
<1>3. ASSUME NEW K \in SUBSET (DOMAIN call.uses) PROVE Cardinality(K) \in Nat
  <2>1. IsFiniteSet(DOMAIN call.uses)
    <3>1. DOMAIN call.uses = 1..Len(call.uses) /\ Len(call.uses) \in Nat
      BY <1>2, LenProperties
    <3>2. \A n \in Nat : IsFiniteSet(1..n)
      BY FS_Interval
    <3>. QED
      BY <3>1, <3>2
  <2>. QED
    BY <2>1, FS_Subset, FS_CardinalityType
<1>4. ASSUME NEW n \in Nat PROVE Saturate(n, TOOL_ERROR_THRESHOLD) \in 0..TOOL_ERROR_THRESHOLD
  BY ConstantsAssumption DEF Saturate
<1>5. ASSUME NEW t \in Tools PROVE errors_after(t, bad) \in 0..TOOL_ERROR_THRESHOLD
  <2> DEFINE its   == {k \in DOMAIN call.uses : tool_name[call.uses[k]] = t}
             since == {k \in its \cap bad : \A j \in its \ bad : j < k}
             base  == IF \E k \in its \ bad : TRUE THEN 0 ELSE tool_error_counts[t]
  <2>1. Cardinality(since) \in Nat
    BY <1>3
  <2>2. base \in Nat
    BY DEF IInv, TypeOK
  <2>3. errors_after(t, bad) = Saturate(base + Cardinality(since), TOOL_ERROR_THRESHOLD)
    BY DEF errors_after
  <2>. HIDE DEF base, since
  <2>. QED
    BY <1>4, <2>1, <2>2, <2>3
<1>6. ASSUME NEW t \in Tools PROVE errors_total(t, bad) \in 0..TOOL_ERROR_THRESHOLD
  <2> DEFINE its == {k \in bad : tool_name[call.uses[k]] = t}
  <2>1. Cardinality(its) \in Nat
    BY <1>3
  <2>. HIDE DEF its
  <2>2. tool_call_stats[t] + Cardinality(its) \in Nat
    BY <2>1 DEF IInv, TypeOK
  <2>. QED
    BY <1>4, <2>2 DEF errors_total, its
<1>7. /\ tool_error_counts' \in [Tools -> 0..TOOL_ERROR_THRESHOLD]
      /\ tool_call_stats' \in [Tools -> 0..TOOL_ERROR_THRESHOLD]
  BY <1>1, <1>5, <1>6 DEF ToolsFinish
<1>8. pending_reminders' \subseteq ReminderKind
  BY <1>1, ConstantsAssumption DEF ToolsFinish, IInv, TypeOK, ReminderKind
<1>9. TurnOK /\ turn_index' \in Nat /\ asked' = asked /\ lost' = lost /\ as_is' \in BOOLEAN
  BY <1>1, <1>2, <1>8, ObserveStep DEF ToolsFinish
<1>10. RestOK
  BY <1>1, <1>7, <1>9 DEF ToolsFinish, RestOK, IInv, TypeOK
<1>. QED
  BY <1>9, <1>10, Halves

\* The turn is cut off: Ctrl-C takes at most a trailing user item with it.
LEMMA InterruptStep == IInv /\ Interrupt => IInv'
<1> SUFFICES ASSUME IInv, Interrupt PROVE IInv'
  OBVIOUS
<1>1. history' \in Histories
  BY HistoryIsPaired, PopHistories DEF Interrupt
<1>2. lost' \subseteq Nat
  <2>1. about_of(history) \in SUBSET Nat
    BY AboutType DEF IInv, TypeOK
  <2>. QED
    BY <2>1 DEF Interrupt, IInv, TypeOK
<1>3. TurnOK
  BY <1>1, Defaults DEF Interrupt, TurnOK, IInv, TypeOK, Pc, Outcome
<1>4. RestOK
  BY <1>2 DEF Interrupt, RestOK, IInv, TypeOK, planVars
<1>. QED
  BY <1>3, <1>4, Halves

-----------------------------------------------------------------------------
(***************************************************************************)
(* The theorems.                                                           *)
(***************************************************************************)

\* The initial state is in the invariant.
LEMMA IInvInit == Init => IInv
<1> SUFFICES ASSUME Init PROVE IInv
  OBVIOUS
<1>1. NoCall \in CallType /\ NoSummary \in SummaryType
  BY Defaults
<1>2. history \in Histories
  BY Pieces DEF Init
<1>3. /\ tool_error_counts \in [Tools -> 0..TOOL_ERROR_THRESHOLD]
      /\ tool_call_stats \in [Tools -> 0..TOOL_ERROR_THRESHOLD]
      /\ asked \in 0..MaxInputs
  BY ConstantsAssumption DEF Init
<1>4. PairedHistory /\ GuardNeverFires
  BY <1>2 DEF Init, PairedHistory, GuardNeverFires, Histories
<1>5. TypeOK
  BY <1>1, <1>2, <1>3
     DEF Init, TypeOK, Histories, CallType, SummaryType, Pc, Outcome
<1>. QED
  BY <1>4, <1>5 DEF IInv

\* Every step keeps it.
LEMMA IInvStep == IInv /\ [Next]_vars => IInv'
<1> SUFFICES ASSUME IInv, [Next]_vars PROVE IInv'
  OBVIOUS
<1>1. CASE Submit
  <2> DEFINE u == User("input", {asked + 1})
  <2>1. u \in ItemType /\ u.kind = "User" /\ asked' \in 0..MaxInputs
    BY <1>1, ConstantsAssumption
       DEF Submit, IInv, TypeOK, User, Item, ItemType, ItemKind, TextClass
  <2>2. AgentTurn(Append(history, u), FALSE)
    BY <1>1 DEF Submit
  <2>. HIDE DEF u
  <2>3. <<u>> \in Histories
    BY <2>1, Pieces
  <2>4. Append(history, u) = history \o <<u>>
    BY <2>1, AppendIsConcat DEF IInv, TypeOK
  <2>5. Append(history, u) \in Histories
    BY <2>3, <2>4, HistoryIsPaired, ConcatHistories
  <2>. QED
    BY <2>1, <2>2, <2>5, AgentTurnStep
<1>2. CASE Resume \/ Retry
  <2>1. asked' \in 0..MaxInputs /\ \E retry \in BOOLEAN : AgentTurn(history, retry)
    BY <1>2 DEF Resume, Retry, IInv, TypeOK
  <2>. QED
    BY <2>1, HistoryIsPaired, AgentTurnStep
<1>3. CASE ForceCompact
  <2>1. history' \in Histories /\ summary' \in SummaryType /\ pc' = "Summarising"
    BY <1>3, HistoryIsPaired, DrainStep DEF ForceCompact
  <2>2. TurnOK
    BY <1>3, <2>1 DEF ForceCompact, TurnOK, IInv, TypeOK, GuardNeverFires, Pc, CallType
  <2>3. RestOK
    BY <1>3 DEF ForceCompact, RestOK, IInv, TypeOK, planVars
  <2>. QED
    BY <2>2, <2>3, Halves
<1>4. CASE SummaryArrives \/ SummaryFails
  BY <1>4, SummaryStep
<1>5. CASE LlmStep
  BY <1>5, LlmStepOK
<1>6. CASE LlmFails \/ LlmTimeout
  <2>1. ReturnError
    BY <1>6 DEF LlmFails, LlmTimeout
  <2>2. TurnOK
    BY <2>1, HistoryIsPaired, Defaults
       DEF ReturnError, after_error, TurnOK, IInv, TypeOK, Pc, Outcome, SummaryType
  <2>3. RestOK
    BY <2>1 DEF ReturnError, RestOK, IInv, TypeOK, planVars
  <2>. QED
    BY <2>2, <2>3, Halves
<1>7. CASE ToolStep
  BY <1>7, ToolStepOK
<1>8. CASE Interrupt
  BY <1>8, InterruptStep
<1>9. CASE UNCHANGED vars
  BY <1>9 DEF vars, IInv, TypeOK, PairedHistory, GuardNeverFires
<1>. QED
  BY <1>1, <1>2, <1>3, <1>4, <1>5, <1>6, <1>7, <1>8, <1>9 DEF Next

\* The invariant holds in every reachable state.
THEOREM Invariance == Spec => []IInv
BY IInvInit, IInvStep, PTL DEF Spec

\* The session's fields keep their shape, and in particular the counters that
\* drive stuck detection stay within their threshold.
THEOREM TypeCorrect == Spec => []TypeOK
BY Invariance, PTL DEF IInv

\* Tool uses and tool results stay paired through every turn, compaction,
\* failure, retry and Ctrl-C.
THEOREM PairedHistoryHolds == Spec => []PairedHistory
BY Invariance, PTL DEF IInv

\* With the pairing guard in hard mode no turn of this loop is refused: the
\* guard repairs nothing in a history the loop itself built.
THEOREM GuardNeverFiresHolds == Spec => []GuardNeverFires
BY Invariance, PTL DEF IInv

-----------------------------------------------------------------------------
(***************************************************************************)
(* The turn budget.  turn_index alone is not inductive: the increment      *)
(* comes at the end of the turn, the comparison at its start.  In between, *)
(* the turn that passed the comparison still has room for itself.          *)
(***************************************************************************)
InTurn == \/ pc \in {"Calling", "Executing"}
          \/ pc = "Summarising" /\ ~summary.forced

BudgetInv == TurnBudgetHolds /\ (max_turns > 0 /\ InTurn => turn_index < max_turns)

\* The start of a turn: it stops at the budget, or it has room.
LEMMA BudgetAgentTurn ==
    ASSUME IInv, BudgetInv, NEW h, NEW retry, AgentTurn(h, retry)
    PROVE  BudgetInv'
<1>1. turn_index' = turn_index /\ turn_index \in Nat /\ max_turns \in Nat
  BY ConstantsAssumption DEF AgentTurn, IInv, TypeOK
<1>2. CASE StopAtBudget(h)
  BY <1>1, <1>2 DEF StopAtBudget, BudgetInv, TurnBudgetHolds, InTurn
<1>3. CASE CompactFirst(h, retry) \/ CallDirectly(h, retry)
  <2>1. ~budget_reached
    BY <1>3 DEF CompactFirst, CallDirectly
  <2>2. max_turns > 0 => turn_index < max_turns
    BY <1>1, <2>1 DEF budget_reached
  <2>. QED
    BY <1>1, <2>2 DEF BudgetInv, TurnBudgetHolds, InTurn
<1>. QED
  BY <1>2, <1>3 DEF AgentTurn

\* The end of a turn: the increment uses the room.
LEMMA BudgetObserve ==
    ASSUME IInv, BudgetInv, InTurn, NEW text, NEW uses, NEW stop, NEW blocked,
           Observe(text, uses, stop, blocked)
    PROVE  BudgetInv'
<1>1. turn_index' = turn_index + 1 /\ turn_index \in Nat /\ max_turns \in Nat
  BY ConstantsAssumption DEF Observe, IInv, TypeOK
<1>2. pc' \in {"Resume", "Prompt"}
  BY DEF Observe
<1>. QED
  BY <1>1, <1>2 DEF BudgetInv, TurnBudgetHolds, InTurn

\* The number of completed turns never passes max_turns, whatever compaction,
\* failures, retries and Ctrl-C come in between.
THEOREM TurnBudgetProved == Spec => []TurnBudgetHolds
<1>1. Init => BudgetInv
  BY ConstantsAssumption DEF Init, BudgetInv, TurnBudgetHolds, InTurn
<1>2. IInv /\ BudgetInv /\ [Next]_vars => BudgetInv'
  <2> SUFFICES ASSUME IInv, BudgetInv, [Next]_vars PROVE BudgetInv'
    OBVIOUS
  <2>1. CASE Submit \/ Resume \/ Retry
    BY <2>1, BudgetAgentTurn DEF Submit, Resume, Retry
  <2>2. CASE ForceCompact
    BY <2>2 DEF ForceCompact, Drain, BudgetInv, TurnBudgetHolds, InTurn
  <2>3. CASE SummaryArrives \/ SummaryFails
    <3>1. /\ pc = "Summarising" /\ UNCHANGED turn_index
          /\ summary.forced => pc' = "Prompt"
      BY <2>3 DEF SummaryArrives, SummaryFails, AfterSummary
    <3>. QED
      BY <3>1 DEF BudgetInv, TurnBudgetHolds, InTurn
  <2>4. CASE LlmStep
    <3>1. PICK text \in AnswerTexts, uses \in BoundedSeq(Ids, MaxUses), stop \in StopReason,
               tokens \in 0..1, advice \in SUBSET HookReminders :
                   LlmAnswers(text, uses, stop, tokens, advice)
      BY <2>4 DEF LlmStep
    <3>2. pc = "Calling" /\ InTurn
      BY <3>1 DEF LlmAnswers, InTurn
    <3>3. CASE accepted_uses(text, uses) = <<>>
      BY <3>1, <3>2, <3>3, BudgetObserve DEF LlmAnswers
    <3>4. CASE accepted_uses(text, uses) # <<>>
      <4>1. pc' = "Executing" /\ UNCHANGED turn_index
        BY <3>1, <3>4 DEF LlmAnswers
      <4>. QED
        BY <3>2, <4>1 DEF BudgetInv, TurnBudgetHolds, InTurn
    <3>. QED
      BY <3>3, <3>4
  <2>5. CASE LlmFails \/ LlmTimeout
    <3>1. pc' \in {"Retry", "Prompt"} /\ UNCHANGED turn_index
      BY <2>5 DEF LlmFails, LlmTimeout, ReturnError, after_error
    <3>. QED
      BY <3>1 DEF BudgetInv, TurnBudgetHolds, InTurn
  <2>6. CASE ToolStep
    BY <2>6, BudgetObserve DEF ToolStep, ToolsFinish, InTurn
  <2>7. CASE Interrupt
    BY <2>7 DEF Interrupt, BudgetInv, TurnBudgetHolds, InTurn
  <2>8. CASE UNCHANGED vars
    BY <2>8 DEF vars, BudgetInv, TurnBudgetHolds, InTurn
  <2>. QED
    BY <2>1, <2>2, <2>3, <2>4, <2>5, <2>6, <2>7, <2>8 DEF Next
<1>. QED
  BY <1>1, <1>2, Invariance, PTL DEF Spec, BudgetInv

-----------------------------------------------------------------------------
(***************************************************************************)
(* What a session's history says: how it ends when a request goes out,     *)
(* whose inputs it still speaks for, which texts it may hold, and what     *)
(* compaction leaves of it.                                                *)
(*                                                                         *)
(* Each operation is first reduced to three facts about the history it     *)
(* builds: its last item, what it speaks for, and where its items come     *)
(* from.  The invariants then never look inside a sequence.                *)
(***************************************************************************)

\* g and h are not empty and end with the same item.
SameEnd(g, h) == /\ g # <<>> /\ h # <<>>
                 /\ g[Len(g)] = h[Len(h)]

\* Every item of g is an item of h, or its text is one of these.
DrawnFrom(g, h, texts) ==
    \A i \in DOMAIN g : g[i].text \in texts \/ \E j \in DOMAIN h : g[i] = h[j]

-----------------------------------------------------------------------------
(***************************************************************************)
(* Sequences of items.                                                     *)
(***************************************************************************)

\* Concatenation: the end is that of the second part, the items and what they
\* speak for are those of both.
LEMMA ConcatFacts ==
    ASSUME NEW g \in Seq(ItemType), NEW h \in Seq(ItemType)
    PROVE  /\ g \o h \in Seq(ItemType)
           /\ Len(g \o h) = Len(g) + Len(h)
           /\ h # <<>> => SameEnd(g \o h, h)
           /\ about_of(g \o h) = about_of(g) \cup about_of(h)
           /\ \A i \in DOMAIN (g \o h) : \/ \E j \in DOMAIN g : (g \o h)[i] = g[j]
                                         \/ \E j \in DOMAIN h : (g \o h)[i] = h[j]
           /\ \A i \in 1..Len(h) : (g \o h)[Len(g) + i] = h[i]
<1> DEFINE s == g \o h
<1>1. /\ Len(g) \in Nat /\ DOMAIN g = 1..Len(g)
      /\ Len(h) \in Nat /\ DOMAIN h = 1..Len(h)
  BY LenProperties
<1>2. /\ s \in Seq(ItemType) /\ Len(s) = Len(g) + Len(h)
      /\ \A i \in 1..Len(g) + Len(h) : s[i] = IF i <= Len(g) THEN g[i] ELSE h[i - Len(g)]
  BY ConcatProperties
<1>. HIDE DEF s
<1>3. DOMAIN s = 1..(Len(g) + Len(h))
  BY <1>2, LenProperties
<1>4. \A i \in 1..Len(g) : i \in DOMAIN s /\ s[i] = g[i]
  BY <1>1, <1>2, <1>3
<1>5. ASSUME NEW i \in 1..Len(h) PROVE Len(g) + i \in DOMAIN s /\ s[Len(g) + i] = h[i]
  <2>1. Len(g) + i \in 1..Len(g) + Len(h) /\ ~(Len(g) + i <= Len(g)) /\ (Len(g) + i) - Len(g) = i
    BY <1>1
  <2>. QED
    BY <1>2, <1>3, <2>1
<1>6. ASSUME NEW i \in DOMAIN s
      PROVE  \/ \E j \in DOMAIN g : s[i] = g[j]
             \/ \E j \in DOMAIN h : s[i] = h[j]
  <2>1. CASE i <= Len(g)
    BY <1>1, <1>2, <1>3, <2>1
  <2>2. CASE ~(i <= Len(g))
    <3>1. i - Len(g) \in DOMAIN h /\ s[i] = h[i - Len(g)]
      BY <1>1, <1>2, <1>3, <2>2
    <3>. QED
      BY <3>1
  <2>. QED
    BY <2>1, <2>2
<1>7. about_of(s) = about_of(g) \cup about_of(h)
  <2>1. about_of(s) \subseteq about_of(g) \cup about_of(h)
    BY <1>6 DEF about_of
  <2>2. about_of(g) \subseteq about_of(s)
    BY <1>1, <1>4 DEF about_of
  <2>3. about_of(h) \subseteq about_of(s)
    BY <1>1, <1>5 DEF about_of
  <2>. QED
    BY <2>1, <2>2, <2>3
<1>8. h # <<>> => SameEnd(s, h)
  <2> SUFFICES ASSUME h # <<>> PROVE SameEnd(s, h)
    OBVIOUS
  <2>1. Len(h) \in 1..Len(h)
    BY <1>1, EmptySeq
  <2>2. s[Len(s)] = h[Len(h)] /\ Len(s) # 0
    BY <1>1, <1>2, <1>5, <2>1
  <2>. QED
    BY <1>2, <2>2, EmptySeq DEF SameEnd
<1>. QED
  BY <1>2, <1>5, <1>6, <1>7, <1>8 DEF s

\* A piece of a history: its items keep their order and their place.
LEMMA PieceFacts ==
    ASSUME NEW h \in Seq(ItemType), NEW m \in 1..(Len(h) + 1), NEW n \in 0..Len(h), m <= n + 1
    PROVE  /\ SubSeq(h, m, n) \in Seq(ItemType)
           /\ Len(SubSeq(h, m, n)) = n - m + 1
           /\ DOMAIN SubSeq(h, m, n) = 1..(n - m + 1)
           /\ \A i \in 1..(n - m + 1) : SubSeq(h, m, n)[i] = h[m + i - 1]
           /\ DrawnFrom(SubSeq(h, m, n), h, {})
<1> DEFINE s == SubSeq(h, m, n)
<1>1. Len(h) \in Nat /\ DOMAIN h = 1..Len(h)
  BY LenProperties
<1>2. \A i \in m..n : h[i] \in ItemType
  BY <1>1, ElementOfSeq
<1>3. /\ s \in Seq(ItemType) /\ Len(s) = IF m <= n THEN n - m + 1 ELSE 0
      /\ \A i \in 1..(n - m + 1) : s[i] = h[m + i - 1]
  BY <1>1, <1>2, SubSeqProperties
<1>. HIDE DEF s
<1>4. Len(s) = n - m + 1
  BY <1>1, <1>3
<1>5. DOMAIN s = 1..(n - m + 1)
  BY <1>3, <1>4, LenProperties
<1>6. ASSUME NEW i \in DOMAIN s PROVE m + i - 1 \in DOMAIN h /\ s[i] = h[m + i - 1]
  BY <1>1, <1>3, <1>5
<1>7. DrawnFrom(s, h, {})
  BY <1>6 DEF DrawnFrom
<1>. QED
  BY <1>3, <1>4, <1>5, <1>7 DEF s

\* One item, and two.
LEMMA UnitFacts ==
    ASSUME NEW x \in ItemType, NEW y \in ItemType
    PROVE  /\ <<x>> \in Seq(ItemType) /\ <<x>> # <<>> /\ Len(<<x>>) = 1
           /\ <<x>>[Len(<<x>>)] = x /\ about_of(<<x>>) = x.about
           /\ \A i \in DOMAIN <<x>> : <<x>>[i] = x
           /\ <<x, y>> \in Seq(ItemType) /\ <<x, y>> # <<>> /\ Len(<<x, y>>) = 2
           /\ <<x, y>>[Len(<<x, y>>)] = y /\ about_of(<<x, y>>) = x.about \cup y.about
           /\ \A i \in DOMAIN <<x, y>> : <<x, y>>[i] \in {x, y}
           /\ about_of(<<>>) = {}
<1> DEFINE s == <<x>>
           t == <<x, y>>
<1>1. s \in Seq(ItemType) /\ DOMAIN s = {1} /\ Len(s) = 1 /\ s[1] = x
  OBVIOUS
<1>2. t \in Seq(ItemType) /\ DOMAIN t = {1, 2} /\ Len(t) = 2 /\ t[1] = x /\ t[2] = y
  OBVIOUS
<1>. HIDE DEF s, t
<1>3. s # <<>> /\ t # <<>>
  BY <1>1, <1>2, EmptySeq, SMTT(40)
<1>4. about_of(s) = x.about /\ about_of(t) = x.about \cup y.about
  BY <1>1, <1>2 DEF about_of
<1>5. about_of(<<>>) = {}
  BY DEF about_of
<1>. QED
  BY <1>1, <1>2, <1>3, <1>4, <1>5 DEF s, t

-----------------------------------------------------------------------------
(***************************************************************************)
(* The operations on the history.                                          *)
(***************************************************************************)

\* The drain leaves at least the last two items, and what it takes away is in
\* the summary's locals.
LEMMA DrainFacts ==
    ASSUME NEW h \in Histories, NEW forced \in BOOLEAN, Drain(h, forced)
    PROVE  /\ Len(h) >= 2 /\ Len(history') >= 2
           /\ LastItems(history', 2) = LastItems(h, 2)
           /\ SameEnd(history', h)
           /\ DrawnFrom(history', h, {})
           /\ about_of(h) = about_of(history') \cup summary'.about
           /\ summary'.forced = forced
           /\ pc' = "Summarising"
<1>1. PICK cut \in cut_points(h) :
        /\ history' = SubSeq(h, cut + 1, Len(h))
        /\ summary' = [about  |-> about_of(SubSeq(h, 1, cut)),
                       pair   |-> boundaries(h, "User") # {},
                       forced |-> forced]
        /\ pc' = "Summarising"
  BY DEF Drain
<1>2. h \in Seq(ItemType) /\ Len(h) \in Nat /\ DOMAIN h = 1..Len(h)
  BY LenProperties DEF Histories
<1>3. cut \in 1..(Len(h) - 2)
  <2>1. keep_count(h) \in Nat /\ keep_count(h) >= 2
    BY <1>2 DEF keep_count
  <2>2. cut \in 1..initial_cut(h)
    BY <1>1 DEF cut_points, boundaries
  <2>. QED
    BY <1>2, <2>1, <2>2 DEF initial_cut
<1> DEFINE head == SubSeq(h, 1, cut)
           tail == SubSeq(h, cut + 1, Len(h))
           n    == Len(h)
<1>4. /\ tail \in Seq(ItemType) /\ Len(tail) = n - cut /\ DOMAIN tail = 1..(n - cut)
      /\ \A i \in 1..(n - cut) : tail[i] = h[cut + i]
      /\ DrawnFrom(tail, h, {})
  <2>1. cut + 1 \in 1..(n + 1) /\ n \in 0..n /\ cut + 1 <= n + 1 /\ n - (cut + 1) + 1 = n - cut
    BY <1>2, <1>3
  <2>2. /\ tail \in Seq(ItemType) /\ Len(tail) = n - cut /\ DOMAIN tail = 1..(n - cut)
        /\ \A i \in 1..(n - cut) : tail[i] = h[(cut + 1) + i - 1]
        /\ DrawnFrom(tail, h, {})
    BY <1>2, <2>1, PieceFacts
  <2>3. \A i \in 1..(n - cut) : (cut + 1) + i - 1 = cut + i
    BY <1>2, <1>3
  <2>. QED
    BY <2>2, <2>3
<1>5. /\ head \in Seq(ItemType) /\ DOMAIN head = 1..cut
      /\ \A i \in 1..cut : head[i] = h[i]
  <2>1. 1 \in 1..(n + 1) /\ cut \in 0..n /\ 1 <= cut + 1 /\ cut - 1 + 1 = cut
    BY <1>2, <1>3
  <2>2. /\ head \in Seq(ItemType) /\ DOMAIN head = 1..cut
        /\ \A i \in 1..cut : head[i] = h[1 + i - 1]
    BY <1>2, <2>1, PieceFacts
  <2>. QED
    BY <2>2, <1>3
<1>. HIDE DEF head, tail
<1>6. about_of(h) = about_of(tail) \cup about_of(head)
  <2>1. ASSUME NEW i \in DOMAIN h
        PROVE  h[i].about \subseteq about_of(tail) \cup about_of(head)
    <3>1. CASE i <= cut
      BY <1>2, <1>3, <1>5, <3>1 DEF about_of
    <3>2. CASE ~(i <= cut)
      <4>1. i - cut \in DOMAIN tail /\ tail[i - cut] = h[i]
        <5>1. i - cut \in 1..(n - cut) /\ cut + (i - cut) = i
          BY <1>2, <1>3, <3>2
        <5>. QED
          BY <1>4, <5>1
      <4>. QED
        BY <4>1 DEF about_of
    <3>. QED
      BY <3>1, <3>2
  <2>2. \A i \in DOMAIN tail : cut + i \in DOMAIN h /\ tail[i] = h[cut + i]
    BY <1>2, <1>3, <1>4
  <2>3. \A i \in DOMAIN head : i \in DOMAIN h /\ head[i] = h[i]
    BY <1>2, <1>3, <1>5
  <2>4. about_of(h) \subseteq about_of(tail) \cup about_of(head)
    BY <2>1 DEF about_of
  <2>5. about_of(tail) \subseteq about_of(h)
    BY <2>2 DEF about_of
  <2>6. about_of(head) \subseteq about_of(h)
    BY <2>3 DEF about_of
  <2>. QED
    BY <2>4, <2>5, <2>6
<1>7. SameEnd(tail, h)
  <2>1. n - cut \in 1..(n - cut) /\ cut + (n - cut) = n /\ n > 0 /\ n - cut > 0
    BY <1>2, <1>3
  <2>2. tail[n - cut] = h[n]
    BY <1>4, <2>1
  <2>. QED
    BY <1>2, <1>4, <2>1, <2>2, EmptySeq DEF SameEnd
<1>8. LastItems(tail, 2) = LastItems(h, 2)
  <2> DEFINE a == SubSeq(tail, n - cut - 1, n - cut)
             b == SubSeq(h, n - 1, n)
  <2>1. LastItems(tail, 2) = a /\ LastItems(h, 2) = b
    <3>1. (n - cut) - 2 + 1 = n - cut - 1 /\ n - 2 + 1 = n - 1
      BY <1>2, <1>3
    <3>. QED
      BY <1>4, <3>1 DEF LastItems
  <2>2. /\ a \in Seq(ItemType) /\ Len(a) = 2
        /\ a[1] = tail[n - cut - 1] /\ a[2] = tail[n - cut]
    <3>1. /\ n - cut - 1 \in 1..(Len(tail) + 1) /\ n - cut \in 0..Len(tail)
          /\ n - cut - 1 <= (n - cut) + 1 /\ (n - cut) - (n - cut - 1) + 1 = 2
          /\ (n - cut - 1) + 1 - 1 = n - cut - 1 /\ (n - cut - 1) + 2 - 1 = n - cut
      BY <1>2, <1>3, <1>4
    <3>2. /\ a \in Seq(ItemType) /\ Len(a) = 2
          /\ \A i \in 1..2 : a[i] = tail[(n - cut - 1) + i - 1]
      BY <1>4, <3>1, PieceFacts, ZenonT(60)
    <3>. HIDE DEF a
    <3>. QED
      BY <3>1, <3>2
  <2>3. /\ b \in Seq(ItemType) /\ Len(b) = 2 /\ b[1] = h[n - 1] /\ b[2] = h[n]
    <3>1. /\ n - 1 \in 1..(n + 1) /\ n \in 0..n /\ n - 1 <= n + 1 /\ n - (n - 1) + 1 = 2
          /\ (n - 1) + 1 - 1 = n - 1 /\ (n - 1) + 2 - 1 = n
      BY <1>2, <1>3
    <3>2. /\ b \in Seq(ItemType) /\ Len(b) = 2
          /\ \A i \in 1..2 : b[i] = h[(n - 1) + i - 1]
      BY <1>2, <3>1, PieceFacts
    <3>. HIDE DEF b
    <3>. QED
      BY <3>1, <3>2
  <2>4. tail[n - cut - 1] = h[n - 1] /\ tail[n - cut] = h[n]
    <3>1. /\ n - cut - 1 \in 1..(n - cut) /\ n - cut \in 1..(n - cut)
          /\ cut + (n - cut - 1) = n - 1 /\ cut + (n - cut) = n
      BY <1>2, <1>3
    <3>. QED
      BY <1>4, <3>1
  <2>. HIDE DEF a, b
  <2>5. a = b
    <3>1. \A i \in 1..2 : a[i] = b[i]
      BY <2>2, <2>3, <2>4
    <3>. QED
      BY <2>2, <2>3, <3>1, SeqEqual
  <2>. QED
    BY <2>1, <2>5
<1>9. n >= 2 /\ Len(tail) >= 2
  BY <1>2, <1>3, <1>4
<1>10. history' = tail /\ summary'.about = about_of(head) /\ summary'.forced = forced
  BY <1>1 DEF head, tail
<1>. QED
  BY <1>1, <1>4, <1>6, <1>7, <1>8, <1>9, <1>10

\* The summary goes in front: the end stays, and the summary speaks for what
\* the drain took away.
LEMMA SummaryFacts ==
    ASSUME summary.about \in SUBSET Nat
    PROVE  \E p \in Seq(ItemType) :
              /\ with_summary(history) = p \o history
              /\ about_of(p) = summary.about
              /\ \A i \in DOMAIN p : p[i].text \in {"header", "summary"} /\ p[i].kind # "ToolResults"
<1> DEFINE u == User("header", {})
           a == Item("Assistant", "summary", <<>>, summary.about)
           w == User("summary", summary.about)
<1>1. /\ u \in ItemType /\ u.about = {} /\ u.text = "header" /\ u.kind = "User"
      /\ a \in ItemType /\ a.about = summary.about /\ a.text = "summary" /\ a.kind = "Assistant"
      /\ w \in ItemType /\ w.about = summary.about /\ w.text = "summary" /\ w.kind = "User"
  BY DEF User, Item, ItemType, ItemKind, TextClass
<1>2. with_summary(history) = IF summary.pair THEN <<u, a>> \o history ELSE <<w>> \o history
  BY DEF with_summary
<1>. HIDE DEF u, a, w
<1>3. /\ <<u, a>> \in Seq(ItemType) /\ about_of(<<u, a>>) = u.about \cup a.about
      /\ \A i \in DOMAIN <<u, a>> : <<u, a>>[i] \in {u, a}
  <2>1. u \in ItemType /\ a \in ItemType
    BY <1>1
  <2>. QED
    BY <2>1, UnitFacts
<1>4. /\ <<w>> \in Seq(ItemType) /\ about_of(<<w>>) = w.about
      /\ \A i \in DOMAIN <<w>> : <<w>>[i] = w
  <2>1. w \in ItemType
    BY <1>1
  <2>. QED
    BY <2>1, UnitFacts
<1>5. CASE summary.pair
  <2>1. about_of(<<u, a>>) = summary.about
    BY <1>1, <1>3
  <2>2. \A i \in DOMAIN <<u, a>> : <<u, a>>[i].text \in {"header", "summary"} /\ <<u, a>>[i].kind # "ToolResults"
    BY <1>1, <1>3
  <2>. QED
    BY <1>2, <1>3, <1>5, <2>1, <2>2
<1>6. CASE ~summary.pair
  <2>1. \A i \in DOMAIN <<w>> : <<w>>[i].text \in {"header", "summary"} /\ <<w>>[i].kind # "ToolResults"
    BY <1>1, <1>4
  <2>. QED
    BY <1>1, <1>2, <1>4, <1>6, <2>1
<1>. QED
  BY <1>5, <1>6

\* How a history ends that has just recorded an answer.
EndOfTurn(text, uses, stop, blocked) ==
    IF blocked THEN User("ack", {})
    ELSE IF uses # <<>> THEN ToolResults(uses)
    ELSE IF stop = "MaxTokens" THEN User("system", {})
    ELSE Assistant(text, uses)

\* A finished turn adds the answer, the results of its calls and the item that
\* lets it be continued; none of them speaks for an input.
LEMMA ObserveFacts ==
    ASSUME IInv, NEW text \in TextClass, NEW uses \in Seq(Ids), NEW stop \in StopReason,
           NEW blocked \in BOOLEAN, Observe(text, uses, stop, blocked)
    PROVE  /\ history' # <<>>
           /\ history'[Len(history')] = EndOfTurn(text, uses, stop, blocked)
           /\ about_of(history') = about_of(history)
           /\ DrawnFrom(history', history, {text, "none", "ack", "system"})
<1> DEFINE a == Assistant(text, uses)
           r == ToolResults(uses)
           k == User("ack", {})
           c == User("system", {})
           rec == recorded(text, uses)
           fol == follow_up(uses, stop, blocked)
           T   == {text, "none", "ack", "system"}
<1>1. /\ a \in ItemType /\ a.about = {} /\ a.text = text
      /\ r \in ItemType /\ r.about = {} /\ r.text = "none"
      /\ k \in ItemType /\ k.about = {} /\ k.text = "ack"
      /\ c \in ItemType /\ c.about = {} /\ c.text = "system"
  BY DEF Assistant, ToolResults, User, Item, ItemType, ItemKind, TextClass
<1>2. /\ rec = IF uses = <<>> THEN <<a>> ELSE <<a, r>>
      /\ fol = IF blocked THEN <<k>>
               ELSE IF stop = "MaxTokens" /\ uses = <<>> THEN <<c>> ELSE <<>>
  <2>1. <<a>> \o <<>> = <<a>> /\ <<a>> \o <<r>> = <<a, r>>
    BY ConcatUnits
  <2>. QED
    BY <2>1 DEF recorded, follow_up
<1>3. history' = (history \o rec) \o fol /\ history \in Seq(ItemType)
  BY DEF Observe, IInv, TypeOK
<1>4. EndOfTurn(text, uses, stop, blocked) =
        IF blocked THEN k ELSE IF uses # <<>> THEN r ELSE IF stop = "MaxTokens" THEN c ELSE a
  BY DEF EndOfTurn
<1>. HIDE DEF a, r, k, c, rec, fol
<1>5. /\ rec \in Seq(ItemType) /\ rec # <<>>
      /\ rec[Len(rec)] = IF uses = <<>> THEN a ELSE r
      /\ about_of(rec) = {}
      /\ \A i \in DOMAIN rec : rec[i].text \in {text, "none"}
  <2>1. CASE uses = <<>>
    <3>1. rec = <<a>>
      BY <1>2, <2>1
    <3>2. /\ rec \in Seq(ItemType) /\ rec # <<>> /\ rec[Len(rec)] = a
          /\ about_of(rec) = a.about /\ \A i \in DOMAIN rec : rec[i] = a
      BY <1>1, <3>1, UnitFacts
    <3>. QED
      BY <1>1, <2>1, <3>2
  <2>2. CASE uses # <<>>
    <3>1. rec = <<a, r>>
      BY <1>2, <2>2
    <3>2. /\ rec \in Seq(ItemType) /\ rec # <<>> /\ rec[Len(rec)] = r
          /\ about_of(rec) = a.about \cup r.about /\ \A i \in DOMAIN rec : rec[i] \in {a, r}
      BY <1>1, <3>1, UnitFacts, ZenonT(60)
    <3>. QED
      BY <1>1, <2>2, <3>2
  <2>. QED
    BY <2>1, <2>2
<1>6. /\ fol \in Seq(ItemType) /\ about_of(fol) = {}
      /\ \A i \in DOMAIN fol : fol[i].text \in {"ack", "system"}
      /\ fol = <<>> <=> (~blocked /\ ~(stop = "MaxTokens" /\ uses = <<>>))
      /\ fol # <<>> => fol[Len(fol)] = IF blocked THEN k ELSE c
  <2>1. CASE blocked
    <3>1. fol = <<k>>
      BY <1>2, <2>1
    <3>2. /\ fol \in Seq(ItemType) /\ fol # <<>> /\ fol[Len(fol)] = k
          /\ about_of(fol) = k.about /\ \A i \in DOMAIN fol : fol[i] = k
      BY <1>1, <3>1, UnitFacts
    <3>. QED
      BY <1>1, <2>1, <3>2
  <2>2. CASE ~blocked /\ stop = "MaxTokens" /\ uses = <<>>
    <3>1. fol = <<c>>
      BY <1>2, <2>2
    <3>2. /\ fol \in Seq(ItemType) /\ fol # <<>> /\ fol[Len(fol)] = c
          /\ about_of(fol) = c.about /\ \A i \in DOMAIN fol : fol[i] = c
      BY <1>1, <3>1, UnitFacts
    <3>. QED
      BY <1>1, <2>2, <3>2
  <2>3. CASE ~blocked /\ ~(stop = "MaxTokens" /\ uses = <<>>)
    <3>1. fol = <<>>
      BY <1>2, <2>3
    <3>2. fol \in Seq(ItemType) /\ about_of(fol) = {} /\ DOMAIN fol = {}
      BY <3>1 DEF about_of
    <3>. QED
      BY <2>3, <3>1, <3>2
  <2>. QED
    BY <2>1, <2>2, <2>3
<1> DEFINE g == history \o rec
<1>7. /\ g \in Seq(ItemType) /\ SameEnd(g, rec)
      /\ about_of(g) = about_of(history) \cup about_of(rec)
      /\ \A i \in DOMAIN g : \/ \E j \in DOMAIN history : g[i] = history[j]
                             \/ \E j \in DOMAIN rec : g[i] = rec[j]
  BY <1>3, <1>5, ConcatFacts
<1>. HIDE DEF g
<1>8. /\ fol # <<>> => SameEnd(g \o fol, fol)
      /\ about_of(g \o fol) = about_of(g) \cup about_of(fol)
      /\ \A i \in DOMAIN (g \o fol) : \/ \E j \in DOMAIN g : (g \o fol)[i] = g[j]
                                      \/ \E j \in DOMAIN fol : (g \o fol)[i] = fol[j]
  BY <1>6, <1>7, ConcatFacts
<1>9. history' = g \o fol
  BY <1>3 DEF g
<1>10. about_of(history') = about_of(history)
  BY <1>5, <1>6, <1>7, <1>8, <1>9
<1>11. ASSUME NEW i \in DOMAIN (g \o fol)
       PROVE  (g \o fol)[i].text \in T \/ \E j \in DOMAIN history : (g \o fol)[i] = history[j]
  <2>1. CASE \E j \in DOMAIN fol : (g \o fol)[i] = fol[j]
    BY <1>6, <2>1
  <2>2. CASE \E j \in DOMAIN g : (g \o fol)[i] = g[j]
    <3>1. PICK j \in DOMAIN g : (g \o fol)[i] = g[j]
      BY <2>2
    <3>2. (\E l \in DOMAIN history : g[j] = history[l]) \/ (\E l \in DOMAIN rec : g[j] = rec[l])
      BY <1>7
    <3>3. g[j].text \in T \/ \E l \in DOMAIN history : g[j] = history[l]
      BY <1>5, <3>2
    <3>. QED
      BY <3>1, <3>3
  <2>. QED
    BY <1>8, <2>1, <2>2
<1>12. /\ history' # <<>>
       /\ history'[Len(history')] = EndOfTurn(text, uses, stop, blocked)
  <2>1. CASE fol = <<>>
    <3>1. history' = g
      BY <1>7, <1>9, <2>1, ConcatEmptySeq
    <3>. QED
      BY <1>4, <1>5, <1>6, <1>7, <2>1, <3>1 DEF SameEnd
  <2>2. CASE fol # <<>>
    <3>1. SameEnd(history', fol)
      BY <1>8, <1>9, <2>2
    <3>2. blocked \/ (stop = "MaxTokens" /\ uses = <<>>)
      BY <1>6, <2>2
    <3>. QED
      BY <1>4, <1>6, <2>2, <3>1, <3>2 DEF SameEnd
  <2>. QED
    BY <2>1, <2>2
<1>. QED
  BY <1>9, <1>10, <1>11, <1>12 DEF DrawnFrom

\* Ctrl-C only takes items away.
LEMMA PopFacts ==
    ASSUME NEW h \in Seq(ItemType)
    PROVE  DrawnFrom(pop_user(h), h, {})
<1>1. Len(h) \in Nat /\ DOMAIN h = 1..Len(h)
  BY LenProperties
<1>2. CASE h # <<>> /\ h[Len(h)].kind = "User"
  <2>1. Len(h) > 0
    BY <1>1, <1>2, EmptySeq
  <2>2. 1 \in 1..(Len(h) + 1) /\ Len(h) - 1 \in 0..Len(h) /\ 1 <= (Len(h) - 1) + 1
    BY <1>1, <2>1
  <2>3. DrawnFrom(SubSeq(h, 1, Len(h) - 1), h, {})
    BY <2>2, PieceFacts
  <2>. QED
    BY <1>2, <2>3 DEF pop_user
<1>3. CASE ~(h # <<>> /\ h[Len(h)].kind = "User")
  BY <1>3 DEF pop_user, DrawnFrom
<1>. QED
  BY <1>2, <1>3

\* The start of a turn: it stops at the budget, drains the history, or calls
\* the model with the whole of it and with every queued reminder.
Stops(h) == /\ budget_reached
            /\ history' = h /\ pc' = "Prompt" /\ outcome' = "AwaitUser"
            /\ UNCHANGED <<call, summary>>

Drains(h, retry) ==
    /\ Drain(h, FALSE)
    /\ call'.retry = retry /\ call'.text = "none"
    /\ UNCHANGED <<pending_reminders, outcome>>

Calls(h, r, retry) ==
    /\ history' = h /\ pc' = "Calling" /\ summary' = NoSummary
    /\ call'.retry = retry /\ call'.text = "none" /\ r \subseteq call'.reminders
    /\ UNCHANGED outcome

\* Under the pairing invariant a request that is assembled is sent.
LEMMA AssembleFacts ==
    ASSUME NEW h \in Histories, NEW r, NEW retry \in BOOLEAN, Assemble(h, r, retry)
    PROVE  Calls(h, r, retry)
<1>1. repairs(translate_history(h)) = {}
  BY NothingToRepair
<1>2. /\ call' = [NoCall EXCEPT !.tools = ~thinking_budget /\ tools_disabled_turns = 0,
                                !.reminders = r \cup turn_reminders,
                                !.retry = retry]
      /\ pc' = "Calling" /\ UNCHANGED outcome
      /\ history' = h /\ summary' = NoSummary
  BY <1>1 DEF Assemble
<1>3. call'.retry = retry /\ call'.text = "none" /\ call'.reminders = r \cup turn_reminders
  BY <1>2 DEF NoCall
<1>. QED
  BY <1>2, <1>3 DEF Calls

\* The places the start of a turn leads to, with what each does to the history.
LEMMA AgentTurnFacts ==
    ASSUME NEW h \in Histories, NEW retry \in BOOLEAN, AgentTurn(h, retry)
    PROVE  /\ Stops(h) \/ Drains(h, retry) \/ Calls(h, pending_reminders, retry)
           /\ UNCHANGED <<turn_index, lost, as_is>>
<1>0. UNCHANGED <<turn_index, lost, as_is>>
  BY DEF AgentTurn
<1>1. CASE StopAtBudget(h)
  BY <1>0, <1>1 DEF StopAtBudget, Stops
<1>2. CASE CompactFirst(h, retry)
  <2>1. call'.retry = retry /\ call'.text = "none"
    BY <1>2 DEF CompactFirst, NoCall
  <2>. QED
    BY <1>0, <1>2, <2>1 DEF CompactFirst, Drains
<1>3. CASE CallDirectly(h, retry)
  BY <1>0, <1>3, AssembleFacts DEF CallDirectly
<1>. QED
  BY <1>1, <1>2, <1>3 DEF AgentTurn

-----------------------------------------------------------------------------
(***************************************************************************)
(* The inductive invariant.  The properties speak of the moment a request  *)
(* is out or the user is back at the prompt; what makes them true has to   *)
(* hold on the way there, through the drain, the summary call and the      *)
(* retry.                                                                  *)
(***************************************************************************)

\* A request is on its way, or the driver will make one with no new input.
Continuing == \/ pc \in {"Resume", "Retry", "Calling"}
              \/ pc = "Summarising" /\ ~summary.forced

\* The user is at the prompt, or waits there for "/compact full".
AtPrompt == \/ pc = "Prompt"
            \/ pc = "Summarising" /\ summary.forced

EndsWith(text) == history # <<>> /\ history[Len(history)].text = text

\* compact_inner's locals are live only while it waits, and it never waits
\* with an empty history.
LocalsInv == /\ pc = "Summarising" => history # <<>>
             /\ pc # "Summarising" => summary = NoSummary
             /\ call.text \in {"none", "plain", "flagged", "sentinel"}

\* What can be continued may be sent.
PrefillInv ==
    Continuing => history = <<>> \/ history[Len(history)].kind # "Assistant" \/ as_is

\* A blocked answer's guidance is queued until a request carries it.
GuidanceInv ==
    EndsWith("ack") =>
        /\ pc = "Resume" => "Blocked" \in pending_reminders
        /\ pc = "Summarising" /\ ~summary.forced
              => "Blocked" \in pending_reminders \/ call.retry
        /\ pc = "Calling" => "Blocked" \in call.reminders \/ call.retry

\* Control is with the user because the last message was answered, or the
\* budget is used up.
AnsweredInv ==
    AtPrompt /\ outcome = "AwaitUser"
        => budget_reached \/ (history # <<>> /\ history[Len(history)].kind # "User")

HistInv == /\ LocalsInv /\ PrefillInv /\ GuidanceInv /\ AnsweredInv
           /\ BlockedStaysOut /\ ForgottenOnlyByFailure

\* The start of a turn, given how the history it starts from ends.
LEMMA HistAgentTurn ==
    ASSUME IInv, HistInv, pc # "Summarising",
           NEW h \in Histories, NEW retry \in BOOLEAN, AgentTurn(h, retry),
           h = <<>> \/ h[Len(h)].kind # "Assistant" \/ as_is,
           (h # <<>> /\ h[Len(h)].text = "ack") => retry \/ "Blocked" \in pending_reminders,
           verify_enabled => \A i \in DOMAIN h : h[i].text # "flagged",
           1..asked' \subseteq about_of(h) \cup lost
    PROVE  HistInv'
<1>1. UNCHANGED <<turn_index, lost, as_is>> /\ summary = NoSummary
  BY AgentTurnFacts DEF HistInv, LocalsInv
<1>2. CASE Stops(h)
  <2>1. budget_reached'
    BY <1>1, <1>2 DEF Stops, budget_reached
  <2>2. LocalsInv' /\ AnsweredInv'
    BY <1>1, <1>2, <2>1 DEF Stops, HistInv, LocalsInv, AnsweredInv
  <2>3. PrefillInv' /\ GuidanceInv'
    BY <1>2 DEF Stops, PrefillInv, GuidanceInv, Continuing
  <2>4. BlockedStaysOut' /\ ForgottenOnlyByFailure'
    BY <1>1, <1>2 DEF Stops, HistInv, BlockedStaysOut, ForgottenOnlyByFailure
  <2>. QED
    BY <2>2, <2>3, <2>4 DEF HistInv
<1>3. CASE Drains(h, retry)
  <2>1. /\ pc' = "Summarising" /\ ~summary'.forced
        /\ call'.retry = retry /\ call'.text = "none" /\ UNCHANGED pending_reminders
        /\ SameEnd(history', h) /\ DrawnFrom(history', h, {})
        /\ about_of(h) = about_of(history') \cup summary'.about
    BY <1>3, DrainFacts DEF Drains
  <2>2. LocalsInv' /\ PrefillInv' /\ AnsweredInv'
    BY <1>1, <2>1 DEF LocalsInv, PrefillInv, AnsweredInv, AtPrompt, Continuing, SameEnd
  <2>3. GuidanceInv'
    BY <2>1 DEF GuidanceInv, EndsWith, SameEnd
  <2>4. BlockedStaysOut'
    BY <2>1 DEF BlockedStaysOut, DrawnFrom
  <2>5. ForgottenOnlyByFailure'
    BY <1>1, <2>1 DEF ForgottenOnlyByFailure
  <2>. QED
    BY <2>2, <2>3, <2>4, <2>5 DEF HistInv
<1>4. CASE Calls(h, pending_reminders, retry)
  <2>1. LocalsInv' /\ PrefillInv' /\ AnsweredInv'
    BY <1>1, <1>4 DEF Calls, LocalsInv, PrefillInv, AnsweredInv, AtPrompt, Continuing
  <2>2. GuidanceInv'
    BY <1>4 DEF Calls, GuidanceInv, EndsWith
  <2>3. BlockedStaysOut' /\ ForgottenOnlyByFailure'
    BY <1>1, <1>4 DEF Calls, NoSummary, BlockedStaysOut, ForgottenOnlyByFailure
  <2>. QED
    BY <2>1, <2>2, <2>3 DEF HistInv
<1>. QED
  BY <1>2, <1>3, <1>4, AgentTurnFacts

\* The summary call comes back: the turn goes on, or the user has the prompt.
LEMMA HistAfterSummary ==
    ASSUME IInv, HistInv, pc = "Summarising", NEW h \in Histories, NEW r,
           AfterSummary(h, r), pending_reminders \subseteq r,
           SameEnd(h, history), DrawnFrom(h, history, {"header", "summary"}),
           1..asked \subseteq about_of(h) \cup lost'
    PROVE  HistInv'
<1>1. UNCHANGED <<turn_index, asked, as_is>>
  BY DEF AfterSummary
<1>2. verify_enabled => \A i \in DOMAIN history' : history'[i].text # "flagged"
  <2>1. history' = h
    BY DEF AfterSummary, Assemble
  <2>. QED
    BY <2>1 DEF HistInv, BlockedStaysOut, DrawnFrom
<1>3. CASE summary.forced
  <2>1. /\ history' = h /\ pc' = "Prompt" /\ summary' = NoSummary /\ UNCHANGED <<call, outcome>>
    BY <1>3 DEF AfterSummary
  <2>2. LocalsInv'
    BY <2>1 DEF HistInv, LocalsInv
  <2>3. PrefillInv' /\ GuidanceInv'
    BY <2>1 DEF PrefillInv, GuidanceInv, Continuing
  <2>4. AnsweredInv'
    <3>1. budget_reached' <=> budget_reached
      BY <1>1 DEF budget_reached
    <3>. QED
      BY <1>3, <2>1, <3>1 DEF HistInv, AnsweredInv, AtPrompt, SameEnd
  <2>5. BlockedStaysOut' /\ ForgottenOnlyByFailure'
    BY <1>1, <1>2, <2>1 DEF HistInv, BlockedStaysOut, ForgottenOnlyByFailure
  <2>. QED
    BY <2>2, <2>3, <2>4, <2>5 DEF HistInv
<1>4. CASE ~summary.forced
  <2>1. Calls(h, r, call.retry)
    BY <1>4, AssembleFacts DEF AfterSummary, IInv, TypeOK
  <2>2. LocalsInv' /\ AnsweredInv'
    BY <2>1 DEF Calls, LocalsInv, AnsweredInv, AtPrompt
  <2>3. PrefillInv'
    BY <1>1, <1>4, <2>1 DEF Calls, HistInv, PrefillInv, Continuing, SameEnd
  <2>4. GuidanceInv'
    BY <1>4, <2>1 DEF Calls, HistInv, GuidanceInv, EndsWith, SameEnd
  <2>5. BlockedStaysOut' /\ ForgottenOnlyByFailure'
    BY <1>1, <1>2, <2>1 DEF Calls, BlockedStaysOut, ForgottenOnlyByFailure
  <2>. QED
    BY <2>2, <2>3, <2>4, <2>5 DEF HistInv
<1>. QED
  BY <1>3, <1>4

\* A finished turn: what can go on ends with an item the provider accepts, and
\* what goes back to the user ends with an answer.
LEMMA HistObserve ==
    ASSUME IInv, HistInv, pc # "Summarising",
           NEW text \in {"none", "plain", "flagged", "sentinel"}, NEW uses \in Seq(Ids),
           NEW stop \in StopReason, NEW blocked \in BOOLEAN,
           Observe(text, uses, stop, blocked),
           blocked => "Blocked" \in pending_reminders',
           verify_enabled => text # "flagged"
    PROVE  HistInv'
<1> DEFINE last == EndOfTurn(text, uses, stop, blocked)
<1>1. /\ history' # <<>> /\ history'[Len(history')] = last
      /\ about_of(history') = about_of(history)
      /\ DrawnFrom(history', history, {text, "none", "ack", "system"})
  BY ObserveFacts, ZenonT(60) DEF TextClass
<1>2. /\ pc' = IF goes_on(stop, blocked) THEN "Resume" ELSE "Prompt"
      /\ as_is' = (~blocked /\ uses = <<>> /\ stop \in {"ToolUse", "PauseTurn"})
      /\ call' = NoCall
      /\ UNCHANGED <<summary, asked, lost>>
  BY DEF Observe
<1>3. /\ last.kind = "Assistant" => ~blocked /\ uses = <<>> /\ stop # "MaxTokens"
      /\ last.kind = "User" => blocked \/ stop = "MaxTokens"
      /\ last.text = "ack" => blocked
  BY DEF EndOfTurn, User, Assistant, ToolResults, Item
<1>. HIDE DEF last
<1>4. LocalsInv'
  BY <1>2 DEF HistInv, LocalsInv, NoCall
<1>5. PrefillInv'
  BY <1>1, <1>2, <1>3 DEF PrefillInv, Continuing, goes_on
<1>6. GuidanceInv'
  BY <1>1, <1>2, <1>3 DEF GuidanceInv, EndsWith
<1>7. AnsweredInv'
  BY <1>1, <1>2, <1>3 DEF AnsweredInv, AtPrompt, goes_on
<1>8. BlockedStaysOut'
  BY <1>1, <1>2 DEF HistInv, BlockedStaysOut, DrawnFrom, NoCall
<1>9. ForgottenOnlyByFailure'
  BY <1>1, <1>2 DEF HistInv, ForgottenOnlyByFailure
<1>. QED
  BY <1>4, <1>5, <1>6, <1>7, <1>8, <1>9 DEF HistInv

-----------------------------------------------------------------------------
(***************************************************************************)
(* The theorems.                                                           *)
(***************************************************************************)

\* The user types: the history now ends with the input, and speaks for it.
LEMMA HistSubmit == IInv /\ HistInv /\ Submit => HistInv'
<1> SUFFICES ASSUME IInv, HistInv, Submit PROVE HistInv'
  OBVIOUS
<1> DEFINE u == User("input", {asked + 1})
           h == Append(history, u)
<1>1. /\ u \in ItemType /\ u.kind = "User" /\ u.text = "input" /\ u.about = {asked + 1}
      /\ asked \in Nat
  BY DEF IInv, TypeOK, User, Item, ItemType, ItemKind, TextClass
<1>2. AgentTurn(h, FALSE) /\ asked' = asked + 1 /\ pc = "Prompt"
  BY DEF Submit
<1>. HIDE DEF u
<1>3. /\ <<u>> \in Seq(ItemType) /\ <<u>> # <<>> /\ <<u>>[Len(<<u>>)] = u
      /\ about_of(<<u>>) = {asked + 1} /\ \A i \in DOMAIN <<u>> : <<u>>[i] = u
  BY <1>1, UnitFacts
<1>4. history \in Seq(ItemType)
  BY DEF IInv, TypeOK
<1>5. h = history \o <<u>>
  BY <1>1, <1>4, AppendIsConcat
<1>6. h \in Histories
  BY <1>1, <1>5, HistoryIsPaired, ConcatHistories, Pieces
<1> DEFINE w == <<u>>
<1>. HIDE DEF h, w
<1>7. /\ SameEnd(h, w) /\ about_of(h) = about_of(history) \cup {asked + 1}
      /\ \A i \in DOMAIN h : \/ \E j \in DOMAIN history : h[i] = history[j]
                             \/ \E j \in DOMAIN w : h[i] = w[j]
  <2>1. w \in Seq(ItemType) /\ w # <<>> /\ h = history \o w /\ about_of(w) = {asked + 1}
    BY <1>3, <1>5 DEF w
  <2>. QED
    BY <1>4, <2>1, ConcatFacts
<1>8. h[Len(h)] = u
  BY <1>3, <1>7 DEF SameEnd, w
<1>9. verify_enabled => \A i \in DOMAIN h : h[i].text # "flagged"
  BY <1>1, <1>3, <1>7 DEF HistInv, BlockedStaysOut, w
<1>10. 1..asked' \subseteq about_of(h) \cup lost
  <2>1. summary.about = {}
    BY <1>2 DEF HistInv, LocalsInv, NoSummary
  <2>2. 1..asked \subseteq about_of(history) \cup lost
    BY <2>1 DEF HistInv, ForgottenOnlyByFailure
  <2>3. \A n \in 1..asked' : n \in 1..asked \/ n = asked + 1
    BY <1>1, <1>2
  <2>. QED
    BY <1>7, <2>2, <2>3
<1>. QED
  BY <1>1, <1>2, <1>6, <1>8, <1>9, <1>10, HistAgentTurn

\* The model answers, or its calls are started.
LEMMA HistLlmStep == IInv /\ HistInv /\ LlmStep => HistInv'
<1> SUFFICES ASSUME IInv, HistInv, LlmStep PROVE HistInv'
  OBVIOUS
<1>1. PICK text \in AnswerTexts, uses \in BoundedSeq(Ids, MaxUses), stop \in StopReason,
           tokens \in 0..1, advice \in SUBSET HookReminders :
               LlmAnswers(text, uses, stop, tokens, advice)
  BY DEF LlmStep
<1> DEFINE acc == accepted_uses(text, uses)
           fin == final_text(text)
<1>2. pc = "Calling"
  BY <1>1 DEF LlmAnswers
<1>3. /\ fin \in {"none", "plain", "flagged", "sentinel"} /\ is_blocked(text) \in BOOLEAN
      /\ verify_enabled => fin # "flagged"
  BY ConstantsAssumption DEF final_text, is_blocked
<1>4. is_blocked(text) => "Blocked" \in pending_reminders'
  BY <1>1 DEF LlmAnswers, answer_reminders
<1>5. CASE acc = <<>>
  <2>1. Observe(fin, <<>>, stop, is_blocked(text))
    BY <1>1, <1>5 DEF LlmAnswers
  <2>2. <<>> \in Seq(Ids)
    OBVIOUS
  <2>. HIDE DEF fin
  <2>. QED
    BY <1>2, <1>3, <1>4, <2>1, <2>2, HistObserve
<1>6. CASE acc # <<>>
  <2>1. /\ pc' = "Executing" /\ call' = [call EXCEPT !.text = fin, !.stop = stop, !.uses = acc]
        /\ UNCHANGED <<history, summary, asked, lost>>
    BY <1>1, <1>6 DEF LlmAnswers
  <2>2. call'.text = fin
    BY <2>1 DEF IInv, TypeOK
  <2>. HIDE DEF acc, fin
  <2>3. LocalsInv'
    BY <1>2, <1>3, <2>1, <2>2 DEF HistInv, LocalsInv
  <2>4. PrefillInv' /\ GuidanceInv' /\ AnsweredInv'
    BY <2>1 DEF PrefillInv, Continuing, GuidanceInv, AnsweredInv, AtPrompt
  <2>5. BlockedStaysOut' /\ ForgottenOnlyByFailure'
    BY <1>3, <2>1, <2>2 DEF HistInv, BlockedStaysOut, ForgottenOnlyByFailure
  <2>. QED
    BY <2>3, <2>4, <2>5 DEF HistInv
<1>. QED
  BY <1>5, <1>6

\* The history invariant holds in every reachable state.
THEOREM HistoryInvariance == Spec => []HistInv
<1>1. Init => HistInv
  <2> SUFFICES ASSUME Init PROVE HistInv
    OBVIOUS
  <2>1. LocalsInv /\ PrefillInv /\ GuidanceInv /\ AnsweredInv
    BY DEF Init, NoCall, LocalsInv, PrefillInv, Continuing, GuidanceInv, AnsweredInv
  <2>2. BlockedStaysOut /\ ForgottenOnlyByFailure
    BY DEF Init, NoCall, BlockedStaysOut, ForgottenOnlyByFailure
  <2>. QED
    BY <2>1, <2>2 DEF HistInv
<1>2. IInv /\ HistInv /\ [Next]_vars => HistInv'
  <2> SUFFICES ASSUME IInv, HistInv, [Next]_vars PROVE HistInv'
    OBVIOUS
  <2>0. history \in Histories /\ history \in Seq(ItemType)
    BY HistoryIsPaired DEF IInv, TypeOK
  <2>1. CASE Submit
    BY <2>1, HistSubmit
  <2>2. CASE Resume \/ Retry
    <3>1. PICK retry \in BOOLEAN : /\ AgentTurn(history, retry)
                                   /\ pc = IF retry THEN "Retry" ELSE "Resume"
      BY <2>2 DEF Resume, Retry
    <3>2. asked' = asked /\ pc # "Summarising" /\ summary.about = {}
      <4>1. asked' = asked /\ pc # "Summarising"
        BY <2>2 DEF Resume, Retry
      <4>. QED
        BY <4>1 DEF HistInv, LocalsInv, NoSummary
    <3>3. history = <<>> \/ history[Len(history)].kind # "Assistant" \/ as_is
      BY <3>1 DEF HistInv, PrefillInv, Continuing
    <3>4. EndsWith("ack") => retry \/ "Blocked" \in pending_reminders
      BY <3>1 DEF HistInv, GuidanceInv
    <3>5. 1..asked' \subseteq about_of(history) \cup lost
      BY <3>2 DEF HistInv, ForgottenOnlyByFailure
    <3>6. verify_enabled => \A i \in DOMAIN history : history[i].text # "flagged"
      BY DEF HistInv, BlockedStaysOut
    <3>. QED
      BY <2>0, <3>1, <3>2, <3>3, <3>4, <3>5, <3>6, HistAgentTurn DEF EndsWith
  <2>3. CASE ForceCompact
    <3>1. /\ pc = "Prompt" /\ pc' = "Summarising" /\ summary'.forced
          /\ SameEnd(history', history) /\ DrawnFrom(history', history, {})
          /\ about_of(history) = about_of(history') \cup summary'.about
          /\ UNCHANGED <<turn_index, call, outcome, asked, lost>>
      BY <2>0, <2>3, DrainFacts DEF ForceCompact
    <3>2. LocalsInv' /\ PrefillInv' /\ GuidanceInv'
      BY <3>1 DEF HistInv, LocalsInv, PrefillInv, Continuing, GuidanceInv, SameEnd
    <3>3. AnsweredInv'
      <4>1. budget_reached' <=> budget_reached
        BY <3>1 DEF budget_reached
      <4>. QED
        BY <3>1, <4>1 DEF HistInv, AnsweredInv, AtPrompt, SameEnd
    <3>4. BlockedStaysOut'
      BY <3>1 DEF HistInv, BlockedStaysOut, DrawnFrom
    <3>5. ForgottenOnlyByFailure'
      BY <3>1 DEF HistInv, LocalsInv, NoSummary, ForgottenOnlyByFailure
    <3>. QED
      BY <3>2, <3>3, <3>4, <3>5 DEF HistInv
  <2>4. CASE SummaryArrives
    <3>1. PICK p \in Seq(ItemType) :
              /\ with_summary(history) = p \o history
              /\ about_of(p) = summary.about
              /\ \A i \in DOMAIN p : p[i].text \in {"header", "summary"}
      BY SummaryFacts DEF IInv, TypeOK
    <3> DEFINE h == p \o history
    <3>2. history # <<>>
      BY <2>4 DEF SummaryArrives, HistInv, LocalsInv
    <3>3. /\ SameEnd(h, history) /\ about_of(h) = about_of(p) \cup about_of(history)
          /\ \A i \in DOMAIN h : \/ \E j \in DOMAIN p : h[i] = p[j]
                                 \/ \E j \in DOMAIN history : h[i] = history[j]
      BY <2>0, <3>2, ConcatFacts
    <3>4. h \in Histories
      BY <3>1, WithSummary
    <3>5. DrawnFrom(h, history, {"header", "summary"})
      BY <3>1, <3>3 DEF DrawnFrom
    <3>6. 1..asked \subseteq about_of(h) \cup lost'
      BY <2>4, <3>1, <3>3 DEF SummaryArrives, HistInv, ForgottenOnlyByFailure
    <3>7. \E r : AfterSummary(h, r) /\ pending_reminders \subseteq r
      BY <2>4, <3>1 DEF SummaryArrives
    <3>8. pc = "Summarising"
      BY <2>4 DEF SummaryArrives
    <3>. HIDE DEF h
    <3>. QED
      BY <3>3, <3>4, <3>5, <3>6, <3>7, <3>8, HistAfterSummary
  <2>5. CASE SummaryFails
    <3>1. /\ pc = "Summarising" /\ AfterSummary(history, pending_reminders)
          /\ SameEnd(history, history) /\ DrawnFrom(history, history, {"header", "summary"})
      BY <2>5 DEF SummaryFails, HistInv, LocalsInv, SameEnd, DrawnFrom
    <3>2. 1..asked \subseteq about_of(history) \cup lost'
      BY <2>5 DEF SummaryFails, HistInv, ForgottenOnlyByFailure
    <3>. QED
      BY <2>0, <3>1, <3>2, HistAfterSummary
  <2>6. CASE LlmStep
    BY <2>6, HistLlmStep
  <2>7. CASE LlmFails \/ LlmTimeout
    <3>1. /\ pc = "Calling" /\ pc' \in {"Retry", "Prompt"} /\ outcome' = "Llm" /\ call' = NoCall
          /\ UNCHANGED <<history, summary, asked, lost, as_is>>
      BY <2>7 DEF LlmFails, LlmTimeout, ReturnError, after_error
    <3>2. LocalsInv' /\ PrefillInv' /\ GuidanceInv' /\ AnsweredInv'
      BY <3>1 DEF HistInv, LocalsInv, NoCall, PrefillInv, Continuing, GuidanceInv, AnsweredInv
    <3>3. BlockedStaysOut' /\ ForgottenOnlyByFailure'
      BY <3>1 DEF HistInv, BlockedStaysOut, NoCall, ForgottenOnlyByFailure
    <3>. QED
      BY <3>2, <3>3 DEF HistInv
  <2>8. CASE ToolStep
    <3>1. PICK bad \in SUBSET (DOMAIN call.uses), advice \in SUBSET HookReminders :
               ToolsFinish(bad, advice)
      BY <2>8 DEF ToolStep
    <3>2. /\ call.uses \in Seq(Ids) /\ call.stop \in StopReason
          /\ call.text \in {"none", "plain", "flagged", "sentinel"}
          /\ verify_enabled => call.text # "flagged"
      BY DEF IInv, TypeOK, HistInv, LocalsInv, BlockedStaysOut
    <3>. QED
      BY <3>1, <3>2, HistObserve DEF ToolsFinish
  <2>9. CASE Interrupt
    <3>1. /\ pc' = "Prompt" /\ outcome' = "Interrupted" /\ call' = NoCall
          /\ summary' = NoSummary /\ asked' = asked /\ DrawnFrom(history', history, {})
          /\ lost' = lost \cup (about_of(history) \ about_of(history')) \cup summary.about
      BY <2>0, <2>9, PopFacts DEF Interrupt
    <3>2. LocalsInv' /\ PrefillInv' /\ GuidanceInv' /\ AnsweredInv'
      BY <3>1 DEF LocalsInv, NoCall, PrefillInv, Continuing, GuidanceInv, AnsweredInv
    <3>3. BlockedStaysOut'
      BY <3>1 DEF HistInv, BlockedStaysOut, NoCall, DrawnFrom
    <3>4. ForgottenOnlyByFailure'
      BY <3>1 DEF HistInv, ForgottenOnlyByFailure
    <3>. QED
      BY <3>2, <3>3, <3>4 DEF HistInv
  <2>10. CASE UNCHANGED vars
    BY <2>10 DEF vars, HistInv, LocalsInv, PrefillInv, Continuing, GuidanceInv, EndsWith,
                 AnsweredInv, AtPrompt, budget_reached, BlockedStaysOut,
                 ForgottenOnlyByFailure, about_of
  <2>. QED
    BY <2>1, <2>2, <2>3, <2>4, <2>5, <2>6, <2>7, <2>8, <2>9, <2>10 DEF Next
<1>. QED
  BY <1>1, <1>2, Invariance, PTL DEF Spec

\* No request goes out that ends with an assistant item, unless the provider
\* itself asked for that item to be continued: not after a blocked or cut
\* answer, not after compaction, not on the retry with the fallback model.
THEOREM NoPrefillHolds == Spec => []NoPrefill
<1>1. HistInv => NoPrefill
  BY DEF HistInv, PrefillInv, Continuing, NoPrefill
<1>. QED
  BY <1>1, HistoryInvariance, PTL

\* With the verifier on, the text of a blocked answer never reaches the history
\* or the locals a later step records.
THEOREM BlockedStaysOutHolds == Spec => []BlockedStaysOut
<1>1. HistInv => BlockedStaysOut
  BY DEF HistInv
<1>. QED
  BY <1>1, HistoryInvariance, PTL

\* Every input is still spoken for by the history or by a summary in the making,
\* unless it went down with a failed summary call or a turn the user cut off.
THEOREM ForgottenOnlyByFailureHolds == Spec => []ForgottenOnlyByFailure
<1>1. HistInv => ForgottenOnlyByFailure
  BY DEF HistInv
<1>. QED
  BY <1>1, HistoryInvariance, PTL

\* The guidance for a blocked answer is in the first request after it, even if
\* compaction comes in between; only the retry of a failed request lacks it.
THEOREM BlockGuidanceSentHolds == Spec => []BlockGuidanceSent
<1>1. HistInv => BlockGuidanceSent
  BY DEF HistInv, GuidanceInv, EndsWith, BlockGuidanceSent
<1>. QED
  BY <1>1, HistoryInvariance, PTL

\* A turn hands control back with the last message answered, or with the turn
\* budget used up; "/compact full" at the prompt does not change that.
THEOREM UnansweredOnlyAtBudgetHolds == Spec => []UnansweredOnlyAtBudget
<1>1. HistInv => UnansweredOnlyAtBudget
  BY DEF HistInv, AnsweredInv, AtPrompt, UnansweredOnlyAtBudget
<1>. QED
  BY <1>1, HistoryInvariance, PTL

\* What is put in front of a history leaves it as a suffix.
LEMMA SuffixOfConcat ==
    ASSUME NEW p \in Seq(ItemType), NEW h \in Seq(ItemType)
    PROVE  IsSuffix(h, p \o h)
<1> DEFINE s == p \o h
           m == Len(h)
           n == Len(p)
           rh == Reverse(h)
           rs == Reverse(s)
<1>1. m \in Nat /\ n \in Nat /\ DOMAIN h = 1..m
  BY LenProperties
<1>2. /\ s \in Seq(ItemType) /\ Len(s) = n + m
      /\ \A i \in 1..m : s[n + i] = h[i]
  BY ConcatFacts
<1>. HIDE DEF s
<1>3. DOMAIN s = 1..(n + m)
  BY <1>2, LenProperties
<1>4. /\ rh \in Seq(ItemType) /\ Len(rh) = m
      /\ \A i \in 1..m : rh[i] = h[(m - i) + 1]
  <2>1. rh = [i \in 1..m |-> h[(m - i) + 1]]
    BY DEF Reverse
  <2>2. \A i \in 1..m : h[(m - i) + 1] \in ItemType
    BY <1>1, ElementOfSeq
  <2>. QED
    BY <1>1, <2>1, <2>2
<1>5. /\ rs \in Seq(ItemType) /\ Len(rs) = n + m
      /\ \A i \in 1..(n + m) : rs[i] = s[((n + m) - i) + 1]
  <2>1. rs = [i \in 1..(n + m) |-> s[((n + m) - i) + 1]]
    BY <1>2 DEF Reverse
  <2>2. \A i \in 1..(n + m) : s[((n + m) - i) + 1] \in ItemType
    BY <1>1, <1>2, ElementOfSeq
  <2>3. n + m \in Nat
    BY <1>1
  <2>. HIDE DEF rs
  <2>. QED
    BY <2>1, <2>2, <2>3
<1>. HIDE DEF rh, rs
<1>6. ASSUME NEW i \in 1..m PROVE rs[i] = rh[i]
  <2>1. /\ i \in 1..(n + m) /\ (m - i) + 1 \in 1..m
        /\ ((n + m) - i) + 1 = n + ((m - i) + 1)
    BY <1>1
  <2>. QED
    BY <1>2, <1>4, <1>5, <2>1
<1>7. SubSeq(rh, 1, m) = SubSeq(rs, 1, m)
  <2>1. 1 \in 1..(m + 1) /\ m \in 0..m /\ 1 <= m + 1 /\ m - 1 + 1 = m
        /\ 1 \in 1..((n + m) + 1) /\ m \in 0..(n + m)
    BY <1>1
  <2> DEFINE a == SubSeq(rh, 1, m)
             b == SubSeq(rs, 1, m)
  <2>2. /\ a \in Seq(ItemType) /\ Len(a) = m
        /\ \A i \in 1..m : a[i] = rh[1 + i - 1]
    BY <1>4, <2>1, PieceFacts
  <2>3. /\ b \in Seq(ItemType) /\ Len(b) = m
        /\ \A i \in 1..m : b[i] = rs[1 + i - 1]
    BY <1>5, <2>1, PieceFacts
  <2>. HIDE DEF a, b
  <2>4. \A i \in 1..m : a[i] = b[i]
    <3>1. \A i \in 1..m : 1 + i - 1 = i
      BY <1>1
    <3>. QED
      BY <1>6, <2>2, <2>3, <3>1
  <2>5. a = b
    BY <2>2, <2>3, <2>4, SeqEqual
  <2>. QED
    BY <2>5 DEF a, b
<1>. QED
  BY <1>1, <1>4, <1>5, <1>7 DEF IsSuffix, IsPrefix, rh, rs, s

\* Compaction never touches the end of the conversation: the drain leaves at
\* least the last two items, and the summary only goes in front of the rest.
THEOREM CompactionKeepsTailHolds == Spec => CompactionKeepsTail
<1> DEFINE before == IF asked' # asked
                     THEN Append(history, User("input", {asked'})) ELSE history
           Keeps == /\ pc' = "Summarising" => /\ Len(history') >= 2
                                              /\ LastItems(history', 2) = LastItems(before, 2)
                    /\ (pc = "Summarising" /\ pc' = "Calling") => IsSuffix(history, history')
<1>1. IInv /\ HistInv /\ [Next]_vars => [Keeps]_vars
  <2> SUFFICES ASSUME IInv, HistInv, Next PROVE Keeps
    OBVIOUS
  <2>0. history \in Histories /\ history \in Seq(ItemType) /\ asked \in Nat
    BY HistoryIsPaired DEF IInv, TypeOK
  <2>1. ASSUME NEW h \in Histories, NEW forced \in BOOLEAN, Drain(h, forced)
        PROVE  Len(history') >= 2 /\ LastItems(history', 2) = LastItems(h, 2)
    BY <2>1, DrainFacts
  <2>2. CASE Submit
    <3> DEFINE u == User("input", {asked + 1})
               h == Append(history, u)
    <3>1. AgentTurn(h, FALSE) /\ asked' = asked + 1 /\ pc = "Prompt"
      BY <2>2 DEF Submit
    <3>2. before = h
      BY <2>0, <3>1
    <3>3. u \in ItemType /\ u.kind = "User"
      BY <2>0 DEF User, Item, ItemType, ItemKind, TextClass
    <3>. HIDE DEF u
    <3>4. h \in Histories
      <4>1. h = history \o <<u>>
        BY <2>0, <3>3, AppendIsConcat
      <4>. QED
        BY <2>0, <3>3, <4>1, ConcatHistories, Pieces
    <3>. HIDE DEF h
    <3>5. pc' = "Summarising" => Drain(h, FALSE)
      BY <3>1, <3>4, AgentTurnFacts DEF Stops, Drains, Calls
    <3>. HIDE DEF before
    <3>. QED
      BY <2>1, <3>1, <3>2, <3>4, <3>5
  <2>3. CASE Resume \/ Retry
    <3>1. /\ \E retry \in BOOLEAN : AgentTurn(history, retry)
          /\ pc # "Summarising" /\ before = history
      BY <2>3 DEF Resume, Retry
    <3>2. pc' = "Summarising" => Drain(history, FALSE)
      BY <2>0, <3>1, AgentTurnFacts DEF Stops, Drains, Calls
    <3>. HIDE DEF before
    <3>. QED
      BY <2>0, <2>1, <3>1, <3>2
  <2>4. CASE ForceCompact
    <3>1. Drain(history, TRUE) /\ before = history /\ pc = "Prompt"
      BY <2>4 DEF ForceCompact
    <3>. HIDE DEF before
    <3>. QED
      BY <2>0, <2>1, <3>1
  <2>5. CASE SummaryArrives
    <3>1. PICK p \in Seq(ItemType) : with_summary(history) = p \o history
      BY SummaryFacts DEF IInv, TypeOK
    <3>2. history' = p \o history
      BY <2>5, <3>1 DEF SummaryArrives, AfterSummary, Assemble
    <3>3. pc' # "Summarising"
      BY <2>5 DEF SummaryArrives, AfterSummary, Assemble, after_error
    <3>. QED
      BY <2>0, <3>2, <3>3, SuffixOfConcat
  <2>6. CASE SummaryFails
    <3>1. history' = history /\ pc' # "Summarising"
      BY <2>6 DEF SummaryFails, AfterSummary, Assemble, after_error
    <3>2. <<>> \in Seq(ItemType) /\ <<>> \o history = history
      BY <2>0, ConcatEmptySeq
    <3>. QED
      BY <2>0, <3>1, <3>2, SuffixOfConcat
  <2>7. CASE LlmStep
    <3>1. pc = "Calling" /\ pc' # "Summarising"
      BY <2>7 DEF LlmStep, LlmAnswers, Observe
    <3>. QED
      BY <3>1
  <2>8. CASE LlmFails \/ LlmTimeout \/ ToolStep \/ Interrupt
    <3>1. pc' # "Summarising" /\ pc' # "Calling"
      BY <2>8 DEF LlmFails, LlmTimeout, ReturnError, after_error, ToolStep, ToolsFinish,
                  Observe, Interrupt
    <3>. QED
      BY <3>1
  <2>. QED
    BY <2>2, <2>3, <2>4, <2>5, <2>6, <2>7, <2>8 DEF Next
<1>. QED
  BY <1>1, Invariance, HistoryInvariance, PTL DEF Spec, CompactionKeepsTail

-----------------------------------------------------------------------------
(***************************************************************************)
(* Induction.  A set of numbers that has zero and the successor of each of *)
(* its members has them all; a loop over a sequence, written as a function *)
(* of the number of rounds, exists.                                        *)
(***************************************************************************)

\* A set of natural numbers that is not empty has a least one.
LEMMA LeastNumber ==
    ASSUME NEW S \in SUBSET Nat, S # {}
    PROVE  \E x \in S : \A y \in S : x <= y
<1> DEFINE R == OpToRel(<, Nat)
<1>1. IsWellFoundedOn(R, Nat)
  BY NatLessThanWellFounded
<1>2. \A x, y \in Nat : x < y => <<x, y>> \in R
  BY DEF OpToRel
<1> HIDE DEF R
<1>3. PICK x \in S : \A y \in S : ~ (<<y, x>> \in R)
  BY <1>1, WFMin
<1>4. \A y \in S : y \in Nat /\ ~(y < x)
  BY <1>2, <1>3
<1>. QED
  BY <1>4

\* Induction, for sets.
LEMMA InductionOnNat ==
    ASSUME NEW S, 0 \in S, \A n \in Nat : n \in S => n + 1 \in S
    PROVE  Nat \subseteq S
<1> SUFFICES ASSUME Nat \ S # {} PROVE FALSE
  OBVIOUS
<1>1. PICK x \in Nat \ S : \A y \in Nat \ S : x <= y
  BY LeastNumber
<1>2. x # 0 /\ x - 1 \in Nat /\ x - 1 \notin Nat \ S
  BY <1>1
<1>. QED
  BY <1>1, <1>2

\* g is what a loop over s leaves after each round, if it starts with base and
\* F gives what one round makes of one element.
Loops(g, base, F, s, n) ==
    g[0] = base /\ \A k \in 1..n : g[k] = F[<<g[k - 1], s[k]>>]

\* Such a loop exists.
LEMMA LoopExists ==
    ASSUME NEW V, NEW X, NEW base \in V, NEW F \in [V \X X -> V], NEW s \in Seq(X)
    PROVE  \E g \in [0..Len(s) -> V] : Loops(g, base, F, s, Len(s))
<1> DEFINE P == {n \in Nat : n <= Len(s) => \E g \in [0..n -> V] : Loops(g, base, F, s, n)}
<1>1. 0 \in P
  <2>1. /\ [k \in 0..0 |-> base] \in [0..0 -> V]
        /\ Loops([k \in 0..0 |-> base], base, F, s, 0)
    BY DEF Loops
  <2>. QED
    BY <2>1
<1>2. ASSUME NEW n \in Nat, n \in P PROVE n + 1 \in P
  <2> SUFFICES ASSUME n + 1 <= Len(s)
               PROVE  \E g \in [0..n + 1 -> V] : Loops(g, base, F, s, n + 1)
    OBVIOUS
  <2>0. Len(s) \in Nat /\ n <= Len(s)
    BY LenProperties
  <2>1. PICK g \in [0..n -> V] : Loops(g, base, F, s, n)
    BY <1>2, <2>0
  <2> DEFINE h == [k \in 0..n + 1 |-> IF k <= n THEN g[k] ELSE F[<<g[n], s[n + 1]>>]]
  <2>2. s[n + 1] \in X /\ g[n] \in V
    BY <2>0, ElementOfSeq
  <2>3. F[<<g[n], s[n + 1]>>] \in V
    BY <2>2
  <2>4. h \in [0..n + 1 -> V]
    BY <2>3
  <2>5. h[0] = base
    BY <2>1 DEF Loops
  <2>6. ASSUME NEW k \in 1..n + 1 PROVE h[k] = F[<<h[k - 1], s[k]>>]
    <3>1. CASE k <= n
      <4>1. h[k] = g[k] /\ h[k - 1] = g[k - 1]
        BY <3>1
      <4>. QED
        BY <2>1, <3>1, <4>1 DEF Loops
    <3>2. CASE k = n + 1
      <4>1. h[k] = F[<<g[n], s[n + 1]>>] /\ h[k - 1] = g[n]
        BY <3>2
      <4>. QED
        BY <3>2, <4>1
    <3>. QED
      BY <3>1, <3>2
  <2>7. Loops(h, base, F, s, n + 1)
    BY <2>5, <2>6 DEF Loops
  <2>. QED
    BY <2>4, <2>7
<1> HIDE DEF P
<1>3. Nat \subseteq P
  BY <1>1, <1>2, InductionOnNat
<1>. QED
  BY <1>3, LenProperties DEF P


-----------------------------------------------------------------------------
(***************************************************************************)
(* The guard, on any thread: resumed, edited and trimmed sessions need not *)
(* be paired.  Its two passes are loops over sequences; what each leaves   *)
(* is a fact about places.  Pass 1 leaves every message where it was.  In  *)
(* what pass 2 flattens, message k comes right after place at[k], and the  *)
(* answers it lacked right after it.                                       *)
(***************************************************************************)

\* What is retained of some blocks: those in the set, in order.
LEMMA RetainFacts ==
    ASSUME NEW T, NEW s \in Seq(T), NEW S
    PROVE  LET r == retain(s, S)
           IN  /\ r \in Seq(T) /\ ToSet(r) = ToSet(s) \cap S
               /\ ToSet(s) \subseteq S => r = s
<1> DEFINE n == Len(s)
           V == Seq(T)
           F == [p \in V \X T |-> IF p[2] \in S THEN Append(p[1], p[2]) ELSE p[1]]
           eq(f) == f = [k \in 0..n |-> IF k = 0 THEN <<>>
                                        ELSE IF s[k] \in S THEN Append(f[k - 1], s[k]) ELSE f[k - 1]]
           kept == CHOOSE f : eq(f)
<1>1. n \in Nat /\ DOMAIN s = 1..n /\ \A k \in 1..n : s[k] \in T
  BY LenProperties, ElementOfSeq
<1>2. \A v \in V, x \in T : Append(v, x) \in V
  BY AppendProperties
<1>3. F \in [V \X T -> V] /\ <<>> \in V
  BY <1>2, EmptySeq
<1>4. \A v \in V, x \in T : F[<<v, x>>] = IF x \in S THEN Append(v, x) ELSE v
  OBVIOUS
<1> HIDE DEF F, V
<1>5. PICK g \in [0..n -> V] : Loops(g, <<>>, F, s, n)
  BY <1>3, LoopExists
<1>6. \A k \in 0..n : g[k] = IF k = 0 THEN <<>>
                             ELSE IF s[k] \in S THEN Append(g[k - 1], s[k]) ELSE g[k - 1]
  <2> SUFFICES ASSUME NEW k \in 0..n
               PROVE  g[k] = IF k = 0 THEN <<>>
                             ELSE IF s[k] \in S THEN Append(g[k - 1], s[k]) ELSE g[k - 1]
    OBVIOUS
  <2>1. CASE k = 0
    BY <1>5, <2>1 DEF Loops
  <2>2. CASE k # 0
    <3>1. k \in 1..n /\ g[k - 1] \in V /\ s[k] \in T
      BY <1>1, <2>2
    <3>. QED
      BY <1>4, <1>5, <2>2, <3>1 DEF Loops
  <2>. QED
    BY <2>1, <2>2
<1>7. eq(g)
  <2>1. g = [k \in 0..n |-> g[k]]
    BY <1>5
  <2>. QED
    BY <1>6, <2>1
<1>8. eq(kept)
  <2> HIDE DEF eq
  <2>. QED
    BY <1>7
<1>9. retain(s, S) = kept[n]
  BY DEF retain
<1> HIDE DEF kept
<1>10. \A k \in 0..n : kept[k] = IF k = 0 THEN <<>>
                                 ELSE IF s[k] \in S THEN Append(kept[k - 1], s[k]) ELSE kept[k - 1]
  BY <1>8
<1> DEFINE Good(k) == /\ kept[k] \in V /\ ToSet(kept[k]) = {s[i] : i \in 1..k} \cap S
                      /\ (\A i \in 1..k : s[i] \in S) =>
                            Len(kept[k]) = k /\ \A i \in 1..k : kept[k][i] = s[i]
           P == {k \in Nat : k <= n => Good(k)}
<1>11. 0 \in P
  <2>1. kept[0] = <<>>
    BY <1>1, <1>10
  <2>. QED
    BY <1>3, <2>1 DEF ToSet
<1>12. ASSUME NEW k \in Nat, k \in P PROVE k + 1 \in P
  <2> SUFFICES ASSUME k + 1 <= n PROVE Good(k + 1)
    OBVIOUS
  <2> DEFINE m == k + 1
             v == kept[k]
             x == s[m]
             w == kept[m]
  <2>1. /\ m \in 1..n /\ m - 1 = k /\ x \in T /\ 1..m = (1..k) \cup {m}
        /\ v \in V /\ ToSet(v) = {s[i] : i \in 1..k} \cap S
        /\ (\A i \in 1..k : s[i] \in S) => Len(v) = k /\ \A i \in 1..k : v[i] = s[i]
    BY <1>1, <1>12
  <2>2. w = IF x \in S THEN Append(v, x) ELSE v
    BY <1>1, <1>10, <2>1
  <2>3. {s[i] : i \in 1..m} = {s[i] : i \in 1..k} \cup {x}
    BY <2>1
  <2> HIDE DEF v, w, x, m
  <2>4. CASE x \notin S
    <3>1. w = v
      BY <2>2, <2>4
    <3>2. ~(\A i \in 1..m : s[i] \in S)
      BY <2>1, <2>4 DEF x
    <3>3. ToSet(w) = {s[i] : i \in 1..m} \cap S
      BY <2>1, <2>3, <2>4, <3>1
    <3>. QED
      BY <2>1, <3>1, <3>2, <3>3 DEF w, m
  <2>5. CASE x \in S
    <3>1. w = Append(v, x)
      BY <2>2, <2>5
    <3>2. /\ w \in V /\ Len(w) = Len(v) + 1 /\ Len(v) \in Nat /\ DOMAIN v = 1..Len(v)
          /\ DOMAIN w = 1..(Len(v) + 1) /\ w[Len(v) + 1] = x /\ \A i \in 1..Len(v) : w[i] = v[i]
      BY <2>1, <3>1, AppendProperties, LenProperties DEF V
    <3>3. ToSet(w) = ToSet(v) \cup {x}
      <4>1. 1..(Len(v) + 1) = (1..Len(v)) \cup {Len(v) + 1}
        BY <3>2
      <4>. QED
        BY <3>2, <4>1 DEF ToSet
    <3>4. ToSet(w) = {s[i] : i \in 1..m} \cap S
      BY <2>1, <2>3, <2>5, <3>3
    <3>5. ASSUME \A i \in 1..m : s[i] \in S
          PROVE  Len(w) = m /\ \A i \in 1..m : w[i] = s[i]
      <4>1. Len(v) = k /\ \A i \in 1..k : v[i] = s[i]
        BY <2>1, <3>5
      <4>2. k + 1 = m
        BY DEF m
      <4>. QED
        BY <2>1, <3>2, <4>1, <4>2 DEF x
    <3>. QED
      BY <3>2, <3>4, <3>5 DEF w, m
  <2>. QED
    BY <2>4, <2>5
<1> HIDE DEF P
<1>13. Nat \subseteq P
  BY <1>11, <1>12, InductionOnNat
<1>14. Good(n)
  <2> HIDE DEF Good
  <2>. QED
    BY <1>1, <1>13 DEF P
<1> DEFINE r == kept[n]
<1>15. /\ r \in Seq(T) /\ ToSet(r) = {s[i] : i \in 1..n} \cap S
       /\ (\A i \in 1..n : s[i] \in S) => Len(r) = n /\ \A i \in 1..n : r[i] = s[i]
  BY <1>14 DEF V
<1> HIDE DEF r
<1>16. ToSet(s) = {s[i] : i \in 1..n}
  BY <1>1 DEF ToSet
<1>17. ToSet(s) \subseteq S => r = s
  <2> SUFFICES ASSUME ToSet(s) \subseteq S PROVE r = s
    OBVIOUS
  <2>1. Len(r) = Len(s) /\ \A i \in 1..Len(r) : r[i] = s[i]
    BY <1>15, <1>16
  <2>. QED
    BY <1>15, <2>1, SeqEqual
<1>. QED
  BY <1>9, <1>15, <1>16, <1>17 DEF r

\* Flattening is a loop that joins one sequence after the other.
LEMMA FlattenLoop ==
    ASSUME NEW T, NEW ss \in Seq(Seq(T))
    PROVE  \E at \in [0..Len(ss) -> Seq(T)] :
              /\ at[0] = <<>> /\ at[Len(ss)] = FlattenSeq(ss)
              /\ \A k \in 1..Len(ss) : at[k] = at[k - 1] \o ss[k]
<1> DEFINE n == Len(ss)
           V == Seq(T)
           F == [p \in V \X V |-> p[1] \o p[2]]
           eq(f) == f = [i \in 1..n |-> IF i = 1 THEN ss[i] ELSE f[i - 1] \o ss[i]]
           flat == CHOOSE f : eq(f)
<1>1. n \in Nat /\ ss \in Seq(V) /\ \A k \in 1..n : ss[k] \in V
  BY LenProperties, ElementOfSeq
<1>2. F \in [V \X V -> V] /\ <<>> \in V
  BY ConcatProperties, EmptySeq
<1>3. \A v \in V, x \in V : F[<<v, x>>] = v \o x
  OBVIOUS
<1>4. \A v \in V : <<>> \o v = v
  BY ConcatEmptySeq
<1> HIDE DEF F, V
<1>5. PICK g \in [0..n -> V] : Loops(g, <<>>, F, ss, n)
  BY <1>1, <1>2, LoopExists
<1>6. g[0] = <<>> /\ \A k \in 1..n : g[k] = g[k - 1] \o ss[k]
  <2>1. \A k \in 1..n : k - 1 \in 0..n
    BY <1>1
  <2>2. \A k \in 1..n : g[k - 1] \in V /\ ss[k] \in V
    BY <1>1, <2>1
  <2>. QED
    BY <1>3, <1>5, <2>2 DEF Loops
<1>7. CASE n = 0
  <2>1. ss = <<>> /\ FlattenSeq(ss) = ss
    BY <1>1, <1>7, EmptySeq DEF FlattenSeq
  <2>. QED
    BY <1>6, <1>7, <2>1 DEF V
<1>8. CASE n # 0
  <2> DEFINE h == [i \in 1..n |-> g[i]]
  <2>1. eq(h)
    <3>1. \A i \in 1..n : g[i] = IF i = 1 THEN ss[i] ELSE h[i - 1] \o ss[i]
      <4> SUFFICES ASSUME NEW i \in 1..n
                   PROVE  g[i] = IF i = 1 THEN ss[i] ELSE h[i - 1] \o ss[i]
        OBVIOUS
      <4>1. CASE i = 1
        <5>1. i - 1 = 0 /\ ss[i] \in V
          BY <1>1, <4>1
        <5>2. g[i] = g[0] \o ss[i]
          BY <1>6, <5>1
        <5>. QED
          BY <1>4, <1>6, <4>1, <5>1, <5>2
      <4>2. CASE i # 1
        <5>1. i - 1 \in 1..n
          BY <1>1, <4>2
        <5>. QED
          BY <1>6, <4>2, <5>1
      <4>. QED
        BY <4>1, <4>2
    <3>. QED
      BY <3>1
  <2>2. eq(flat)
    <3> HIDE DEF eq, h
    <3>. QED
      BY <2>1
  <2>3. FlattenSeq(ss) = flat[n]
    BY <1>8 DEF FlattenSeq
  <2> HIDE DEF flat
  <2>4. \A i \in 1..n : flat[i] = IF i = 1 THEN ss[i] ELSE flat[i - 1] \o ss[i]
    BY <2>2
  <2> DEFINE P == {k \in Nat : k + 1 <= n => flat[k + 1] = g[k + 1]}
  <2>5. 0 \in P
    <3>1. 1 \in 1..n /\ 0 + 1 = 1 /\ 1 - 1 = 0 /\ ss[1] \in V
      BY <1>1, <1>8
    <3>2. flat[1] = ss[1] /\ g[1] = g[0] \o ss[1]
      BY <1>6, <2>4, <3>1
    <3>3. flat[1] = g[1]
      BY <1>4, <1>6, <3>1, <3>2
    <3>. QED
      BY <3>1, <3>3
  <2>6. ASSUME NEW k \in Nat, k \in P PROVE k + 1 \in P
    <3> SUFFICES ASSUME (k + 1) + 1 <= n PROVE flat[(k + 1) + 1] = g[(k + 1) + 1]
      OBVIOUS
    <3> DEFINE c == k + 1
               d == c + 1
    <3>1. d \in 1..n /\ d - 1 = c /\ d # 1 /\ flat[c] = g[c]
      BY <1>1, <2>6
    <3> HIDE DEF c, d
    <3>2. flat[d] = flat[c] \o ss[d] /\ g[d] = g[c] \o ss[d]
      BY <1>6, <2>4, <3>1
    <3>. QED
      BY <3>1, <3>2 DEF c, d
  <2> HIDE DEF P
  <2>7. Nat \subseteq P
    BY <2>5, <2>6, InductionOnNat
  <2>8. n - 1 \in P /\ (n - 1) + 1 = n
    BY <1>1, <1>8, <2>7
  <2>9. flat[n] = g[n]
    BY <1>1, <2>8 DEF P
  <2>. QED
    BY <1>6, <2>3, <2>9 DEF V
<1>. QED
  BY <1>7, <1>8

\* What increases from place to place increases.
LEMMA Rising ==
    ASSUME NEW n \in Nat, NEW f, \A k \in 1..n : f[k] \in Nat, \A k \in 1..n : k + 1 <= n => f[k] < f[k + 1]
    PROVE  \A i, j \in 1..n : i < j => f[i] < f[j]
<1> DEFINE P == {m \in Nat : m <= n => \A i \in 1..n : i < m => f[i] < f[m]}
<1>1. 0 \in P
  OBVIOUS
<1>2. ASSUME NEW m \in Nat, m \in P PROVE m + 1 \in P
  <2> SUFFICES ASSUME m + 1 <= n, NEW i \in 1..n, i < m + 1 PROVE f[i] < f[m + 1]
    OBVIOUS
  <2>1. m \in 1..n /\ f[m] < f[m + 1] /\ m + 1 \in 1..n
    OBVIOUS
  <2>2. i = m \/ f[i] < f[m]
    BY <1>2, <2>1
  <2>3. f[i] \in Nat /\ f[m] \in Nat /\ f[m + 1] \in Nat
    BY <2>1
  <2>. QED
    BY <2>1, <2>2, <2>3
<1> HIDE DEF P
<1>3. Nat \subseteq P
  BY <1>1, <1>2, InductionOnNat
<1>. QED
  BY <1>3 DEF P

\* The n parts ss[k] are laid out one after another in out: part k starts after
\* place at[k], and there is nothing else.
LaidOut(ss, n, out) ==
    \E at \in [1..(n + 1) -> Nat] :
        /\ at[1] = 0 /\ at[n + 1] = Len(out)
        /\ \A k \in 1..n : at[k + 1] = at[k] + Len(ss[k])
        /\ \A k \in 1..n : \A j \in 1..Len(ss[k]) :
              at[k] + j \in 1..Len(out) /\ out[at[k] + j] = ss[k][j]
        /\ \A i \in 1..Len(out) : \E k \in 1..n : \E j \in 1..Len(ss[k]) : i = at[k] + j

\* That is what flattening does.
LEMMA FlattenFacts ==
    ASSUME NEW T, NEW ss \in Seq(Seq(T))
    PROVE  FlattenSeq(ss) \in Seq(T) /\ LaidOut(ss, Len(ss), FlattenSeq(ss))
<1> DEFINE n == Len(ss)
           out == FlattenSeq(ss)
<1>1. n \in Nat /\ \A k \in 1..n : ss[k] \in Seq(T) /\ Len(ss[k]) \in Nat
  BY LenProperties, ElementOfSeq
<1>2. PICK g \in [0..n -> Seq(T)] : /\ g[0] = <<>> /\ g[n] = out
                                    /\ \A k \in 1..n : g[k] = g[k - 1] \o ss[k]
  BY FlattenLoop
<1> HIDE DEF out
<1> DEFINE at == [k \in 1..(n + 1) |-> Len(g[k - 1])]
<1>3. \A k \in 0..n : g[k] \in Seq(T) /\ Len(g[k]) \in Nat
  BY <1>1, <1>2, LenProperties
<1>4. \A k \in 1..n : /\ k - 1 \in 0..n /\ k \in 0..n /\ k + 1 \in 1..(n + 1) /\ k \in 1..(n + 1)
                      /\ (k + 1) - 1 = k
  BY <1>1
<1>5. \A k \in 1..n : /\ Len(g[k]) = Len(g[k - 1]) + Len(ss[k])
                      /\ \A i \in 1..(Len(g[k - 1]) + Len(ss[k])) :
                            g[k][i] = IF i <= Len(g[k - 1]) THEN g[k - 1][i] ELSE ss[k][i - Len(g[k - 1])]
  <2> SUFFICES ASSUME NEW k \in 1..n
               PROVE  /\ Len(g[k]) = Len(g[k - 1]) + Len(ss[k])
                      /\ \A i \in 1..(Len(g[k - 1]) + Len(ss[k])) :
                            g[k][i] = IF i <= Len(g[k - 1]) THEN g[k - 1][i] ELSE ss[k][i - Len(g[k - 1])]
    OBVIOUS
  <2> DEFINE u == g[k - 1]
             v == ss[k]
  <2>1. u \in Seq(T) /\ v \in Seq(T) /\ g[k] = u \o v
    BY <1>1, <1>2, <1>3, <1>4
  <2> HIDE DEF u, v
  <2>2. /\ Len(u \o v) = Len(u) + Len(v)
        /\ \A i \in 1..(Len(u) + Len(v)) : (u \o v)[i] = IF i <= Len(u) THEN u[i] ELSE v[i - Len(u)]
    BY <2>1, ConcatProperties
  <2>. QED
    BY <2>1, <2>2 DEF u, v
<1>6. at \in [1..(n + 1) -> Nat]
  <2>1. \A k \in 1..(n + 1) : k - 1 \in 0..n
    BY <1>1
  <2>. QED
    BY <1>3, <2>1
<1>7. /\ at[1] = 0 /\ at[n + 1] = Len(out)
      /\ \A k \in 1..n : at[k] = Len(g[k - 1]) /\ at[k + 1] = Len(g[k])
  <2>1. 1 \in 1..(n + 1) /\ n + 1 \in 1..(n + 1) /\ (n + 1) - 1 = n /\ 1 - 1 = 0
    BY <1>1
  <2>. QED
    BY <1>2, <1>4, <2>1, EmptySeq
<1> HIDE DEF at
<1>8. \A k \in 1..n : at[k + 1] = at[k] + Len(ss[k])
  BY <1>5, <1>7
<1> DEFINE In(m) == /\ \A k \in 1..m : \A j \in 1..Len(ss[k]) :
                          at[k] + j \in 1..Len(g[m]) /\ g[m][at[k] + j] = ss[k][j]
                    /\ \A i \in 1..Len(g[m]) : \E k \in 1..m : \E j \in 1..Len(ss[k]) : i = at[k] + j
           P == {m \in Nat : m <= n => In(m)}
<1>9. 0 \in P
  <2>1. Len(g[0]) = 0
    BY <1>2, EmptySeq
  <2>. QED
    BY <2>1
<1>10. ASSUME NEW m \in Nat, m \in P PROVE m + 1 \in P
  <2> SUFFICES ASSUME m + 1 <= n PROVE In(m + 1)
    OBVIOUS
  <2> DEFINE l == m + 1
             a == Len(g[m])
             b == Len(ss[l])
  <2>0. In(m)
    <3> HIDE DEF In
    <3>. QED
      BY <1>1, <1>10
  <2>1. l \in 1..n /\ l - 1 = m /\ m \in 0..n /\ 1..l = (1..m) \cup {l} /\ l \in 0..n
    BY <1>1
  <2>2. /\ a \in Nat /\ b \in Nat /\ Len(g[l]) = a + b /\ at[l] = a
        /\ \A i \in 1..(a + b) : g[l][i] = IF i <= a THEN g[m][i] ELSE ss[l][i - a]
    <3> HIDE DEF l
    <3>1. b \in Nat /\ a \in Nat
      BY <1>1, <1>3, <2>1
    <3>2. at[l] = Len(g[l - 1])
      BY <1>7, <2>1
    <3>. QED
      BY <1>5, <2>1, <3>1, <3>2
  <2>3. \A k \in 1..m : at[k] \in Nat /\ \A j \in 1..Len(ss[k]) : at[k] + j \in 1..a /\ g[m][at[k] + j] = ss[k][j]
    <3>1. \A k \in 1..m : k \in 1..(n + 1)
      BY <1>1, <2>1
    <3>. QED
      BY <1>6, <2>0, <3>1
  <2>4. \A i \in 1..a : \E k \in 1..m : \E j \in 1..Len(ss[k]) : i = at[k] + j
    BY <2>0
  <2> HIDE DEF a, b, l, In
  <2>5. ASSUME NEW k \in 1..l, NEW j \in 1..Len(ss[k])
        PROVE  at[k] + j \in 1..Len(g[l]) /\ g[l][at[k] + j] = ss[k][j]
    <3>1. CASE k \in 1..m
      <4>1. at[k] + j \in 1..a /\ g[m][at[k] + j] = ss[k][j]
        BY <2>3, <2>5, <3>1
      <4>2. at[k] + j \in 1..(a + b) /\ at[k] + j <= a
        BY <2>2, <4>1
      <4>. QED
        BY <2>2, <4>1, <4>2
    <3>2. CASE k = l
      <4>1. j \in 1..b
        BY <2>5, <3>2 DEF b
      <4>2. a + j \in 1..(a + b) /\ ~(a + j <= a) /\ (a + j) - a = j
        BY <2>2, <4>1
      <4>3. g[l][a + j] = ss[l][j]
        BY <2>2, <4>2
      <4>. QED
        BY <2>2, <3>2, <4>2, <4>3
    <3>. QED
      BY <2>1, <3>1, <3>2
  <2>6. ASSUME NEW i \in 1..Len(g[l])
        PROVE  \E k \in 1..l : \E j \in 1..Len(ss[k]) : i = at[k] + j
    <3>1. CASE i <= a
      <4>1. i \in 1..a
        BY <2>2, <2>6, <3>1
      <4>. QED
        BY <2>1, <2>4, <4>1
    <3>2. CASE ~(i <= a)
      <4>1. i - a \in 1..b /\ i = a + (i - a)
        BY <2>2, <2>6, <3>2
      <4>2. l \in 1..l /\ i = at[l] + (i - a) /\ i - a \in 1..Len(ss[l])
        BY <2>1, <2>2, <4>1 DEF b
      <4>. QED
        BY <4>2
    <3>. QED
      BY <3>1, <3>2
  <2>. QED
    BY <2>5, <2>6 DEF In, l
<1> HIDE DEF P, In
<1>11. Nat \subseteq P
  BY <1>9, <1>10, InductionOnNat
<1>12. In(n)
  BY <1>1, <1>11 DEF P
<1>13. /\ \A k \in 1..n : \A j \in 1..Len(ss[k]) : at[k] + j \in 1..Len(out) /\ out[at[k] + j] = ss[k][j]
       /\ \A i \in 1..Len(out) : \E k \in 1..n : \E j \in 1..Len(ss[k]) : i = at[k] + j
  BY <1>2, <1>12 DEF In
<1>14. out \in Seq(T)
  <2>1. n \in 0..n
    BY <1>1
  <2>. QED
    BY <1>2, <1>3, <2>1
<1>. QED
  BY <1>6, <1>7, <1>8, <1>13, <1>14 DEF out, LaidOut

\* A function on 1..n is a sequence of length n.
LEMMA SequencesOfLength ==
    ASSUME NEW T, NEW n \in Nat, NEW f \in [1..n -> T]
    PROVE  f \in Seq(T) /\ Len(f) = n /\ DOMAIN f = 1..n
<1>1. f \in Seq(T) /\ DOMAIN f = 1..n
  BY SeqDef
<1>. QED
  BY <1>1, LenProperties

\* The threads a history is translated to: tool uses are in assistant messages,
\* tool results in user messages.
BlockType == [type : {"Text", "ToolUse", "ToolResult"}, id : Ids \cup {NoId}]

MessageType == [role : {"User", "Assistant"}, content : Seq(BlockType)]

Threads == {ms \in Seq(MessageType) :
               \A i \in DOMAIN ms : /\ ms[i].role = "User" => IdsOf(ms[i], "ToolUse") = {}
                                    /\ ms[i].role = "Assistant" => IdsOf(ms[i], "ToolResult") = {}}

\* The ids of the blocks of one type.
IdsIn(blocks, type) == {b.id : b \in {x \in ToSet(blocks) : x.type = type}}

\* They are those of the message.
LEMMA IdsOfBlocks ==
    ASSUME NEW m, NEW type
    PROVE  IdsOf(m, type) = IdsIn(m.content, type)
BY DEF IdsOf, IdsIn, ToSet

\* What a thread has at its places and beyond them.
LEMMA ThreadFacts ==
    ASSUME NEW ms \in Threads
    PROVE  /\ ms \in Seq(MessageType) /\ Len(ms) \in Nat /\ DOMAIN ms = 1..Len(ms)
           /\ \A i \in 1..Len(ms) :
                 /\ ms[i] \in MessageType /\ ms[i].content \in Seq(BlockType)
                 /\ ms[i].role \in {"User", "Assistant"}
                 /\ UseIds(ms, i) = IdsIn(ms[i].content, "ToolUse")
                 /\ ResultIds(ms, i) = IdsIn(ms[i].content, "ToolResult")
                 /\ ms[i].role = "User" => UseIds(ms, i) = {}
                 /\ ms[i].role = "Assistant" => ResultIds(ms, i) = {}
           /\ \A i : i \notin 1..Len(ms) => UseIds(ms, i) = {} /\ ResultIds(ms, i) = {}
<1>1. ms \in Seq(MessageType) /\ Len(ms) \in Nat /\ DOMAIN ms = 1..Len(ms)
  BY LenProperties DEF Threads
<1>2. \A i \in 1..Len(ms) : ms[i] \in MessageType
  BY <1>1, ElementOfSeq
<1>3. \A i \in 1..Len(ms) : /\ UseIds(ms, i) = IdsOf(ms[i], "ToolUse")
                            /\ ResultIds(ms, i) = IdsOf(ms[i], "ToolResult")
  BY <1>1 DEF UseIds, ResultIds
<1>4. \A i : i \notin 1..Len(ms) => UseIds(ms, i) = {} /\ ResultIds(ms, i) = {}
  BY <1>1 DEF UseIds, ResultIds
<1>5. \A i \in 1..Len(ms) : /\ ms[i].role = "User" => IdsOf(ms[i], "ToolUse") = {}
                            /\ ms[i].role = "Assistant" => IdsOf(ms[i], "ToolResult") = {}
  BY <1>1 DEF Threads
<1>6. \A i \in 1..Len(ms) : ms[i].content \in Seq(BlockType) /\ ms[i].role \in {"User", "Assistant"}
  BY <1>2 DEF MessageType
<1>. QED
  BY <1>1, <1>2, <1>3, <1>4, <1>5, <1>6, IdsOfBlocks

\* What pass 1 leaves: the messages with their tool uses, and of the results
\* those that the message before has the uses of.
LEMMA OrphansDropped ==
    ASSUME NEW ms \in Threads
    PROVE  LET d == drop_orphans(ms)
           IN  /\ d \in Threads /\ Len(d) = Len(ms)
               /\ \A i \in 1..Len(ms) :
                     /\ d[i].role = ms[i].role
                     /\ UseIds(d, i) = UseIds(ms, i)
                     /\ ResultIds(d, i) = ResultIds(ms, i) \cap UseIds(ms, i - 1)
                     /\ \/ d[i].content = Honest(ms, i)
                        \/ Honest(ms, i) = <<>> /\ d[i].content = <<Text>>
                     /\ ResultIds(ms, i) \subseteq UseIds(ms, i - 1) => d[i] = ms[i]
<1> DEFINE n == Len(ms)
           S(i) == {b \in ToSet(ms[i].content) :
                       b.type = "ToolResult" => b.id \in UseIds(ms, i - 1)}
           c(i) == IF ms[i].content # <<>> /\ Honest(ms, i) = <<>> THEN <<Text>> ELSE Honest(ms, i)
           d == [i \in 1..n |-> [ms[i] EXCEPT !.content = c(i)]]
<1>1. /\ ms \in Seq(MessageType) /\ n \in Nat /\ DOMAIN ms = 1..n
      /\ \A i \in 1..n :
            /\ ms[i] \in MessageType /\ ms[i].content \in Seq(BlockType)
            /\ ms[i].role \in {"User", "Assistant"}
            /\ UseIds(ms, i) = IdsIn(ms[i].content, "ToolUse")
            /\ ResultIds(ms, i) = IdsIn(ms[i].content, "ToolResult")
            /\ ms[i].role = "User" => UseIds(ms, i) = {}
            /\ ms[i].role = "Assistant" => ResultIds(ms, i) = {}
  BY ThreadFacts
<1>2. drop_orphans(ms) = d
  BY <1>1 DEF drop_orphans, Honest
<1>3. Text \in BlockType /\ Text.type = "Text" /\ <<Text>> \in Seq(BlockType) /\ ToSet(<<Text>>) = {Text}
  <2>1. Text \in BlockType /\ Text.type = "Text"
    BY DEF Text, BlockType
  <2>2. DOMAIN <<Text>> = {1} /\ <<Text>>[1] = Text
    OBVIOUS
  <2>. QED
    BY <2>1, <2>2 DEF ToSet
<1>4. ASSUME NEW i \in 1..n
      PROVE  LET h == Honest(ms, i)
             IN  /\ h \in Seq(BlockType) /\ ToSet(h) = S(i)
                 /\ ResultIds(ms, i) \subseteq UseIds(ms, i - 1) => h = ms[i].content
  <2> DEFINE k == ms[i].content
             P == S(i)
  <2>1. k \in Seq(BlockType) /\ P \subseteq ToSet(k) /\ Honest(ms, i) = retain(k, P)
    BY <1>1, <1>4 DEF Honest
  <2>2. ResultIds(ms, i) \subseteq UseIds(ms, i - 1) => ToSet(k) \subseteq P
    BY <1>1, <1>4 DEF IdsIn
  <2> HIDE DEF k, P
  <2>3. /\ retain(k, P) \in Seq(BlockType) /\ ToSet(retain(k, P)) = ToSet(k) \cap P
        /\ ToSet(k) \subseteq P => retain(k, P) = k
    BY <2>1, RetainFacts
  <2>. QED
    BY <2>1, <2>2, <2>3 DEF k, P
<1>5. ASSUME NEW i \in 1..n
      PROVE  /\ c(i) \in Seq(BlockType)
             /\ IdsIn(c(i), "ToolUse") = UseIds(ms, i)
             /\ IdsIn(c(i), "ToolResult") = ResultIds(ms, i) \cap UseIds(ms, i - 1)
             /\ \/ c(i) = Honest(ms, i)
                \/ Honest(ms, i) = <<>> /\ c(i) = <<Text>>
             /\ ResultIds(ms, i) \subseteq UseIds(ms, i - 1) => c(i) = ms[i].content
  <2> DEFINE h == Honest(ms, i)
  <2>1. /\ h \in Seq(BlockType) /\ ToSet(h) = S(i)
        /\ ResultIds(ms, i) \subseteq UseIds(ms, i - 1) => h = ms[i].content
    BY <1>4, <1>5
  <2>2. /\ IdsIn(h, "ToolUse") = UseIds(ms, i)
        /\ IdsIn(h, "ToolResult") = ResultIds(ms, i) \cap UseIds(ms, i - 1)
    BY <1>1, <1>5, <2>1 DEF IdsIn
  <2> HIDE DEF h
  <2>3. ToSet(<<>>) = {}
    BY DEF ToSet
  <2>4. h = <<>> => /\ IdsIn(<<Text>>, "ToolUse") = IdsIn(h, "ToolUse")
                    /\ IdsIn(<<Text>>, "ToolResult") = IdsIn(h, "ToolResult")
    BY <1>3, <2>3 DEF IdsIn
  <2>. QED
    BY <1>3, <2>1, <2>2, <2>4 DEF h
<1> HIDE DEF c
<1>6. \A i \in 1..n : /\ d[i] \in MessageType /\ d[i].role = ms[i].role /\ d[i].content = c(i)
                      /\ c(i) = ms[i].content => d[i] = ms[i]
  <2> SUFFICES ASSUME NEW i \in 1..n
               PROVE  /\ d[i] \in MessageType /\ d[i].role = ms[i].role /\ d[i].content = c(i)
                      /\ c(i) = ms[i].content => d[i] = ms[i]
    OBVIOUS
  <2>1. d[i] = [ms[i] EXCEPT !.content = c(i)] /\ ms[i] \in MessageType /\ c(i) \in Seq(BlockType)
    BY <1>1, <1>5
  <2> HIDE DEF d
  <2>. QED
    BY <2>1 DEF MessageType
<1>7. d \in Seq(MessageType) /\ Len(d) = n /\ DOMAIN d = 1..n
  <2>1. d \in [1..n -> MessageType]
    <3> HIDE DEF n
    <3>1. DOMAIN d = 1..n /\ d = [i \in 1..n |-> d[i]]
      OBVIOUS
    <3> HIDE DEF d
    <3>. QED
      BY <1>6, <3>1
  <2> HIDE DEF d, n
  <2>. QED
    BY <1>1, <2>1, SequencesOfLength
<1> HIDE DEF d
<1>8. \A i \in 1..n : /\ UseIds(d, i) = IdsIn(c(i), "ToolUse") /\ ResultIds(d, i) = IdsIn(c(i), "ToolResult")
                      /\ IdsOf(d[i], "ToolUse") = UseIds(d, i) /\ IdsOf(d[i], "ToolResult") = ResultIds(d, i)
  <2>1. \A i \in 1..n : UseIds(d, i) = IdsOf(d[i], "ToolUse") /\ ResultIds(d, i) = IdsOf(d[i], "ToolResult")
    BY <1>7 DEF UseIds, ResultIds
  <2>2. \A i \in 1..n : /\ IdsOf(d[i], "ToolUse") = IdsIn(d[i].content, "ToolUse")
                        /\ IdsOf(d[i], "ToolResult") = IdsIn(d[i].content, "ToolResult")
    BY IdsOfBlocks
  <2>. QED
    BY <1>6, <2>1, <2>2
<1>9. d \in Threads
  <2>1. \A i \in 1..n : /\ d[i].role = "User" => IdsOf(d[i], "ToolUse") = {}
                        /\ d[i].role = "Assistant" => IdsOf(d[i], "ToolResult") = {}
    BY <1>1, <1>5, <1>6, <1>8
  <2>. QED
    BY <1>7, <2>1 DEF Threads
<1>. QED
  BY <1>2, <1>5, <1>6, <1>7, <1>8, <1>9

IdOrNone == Ids \cup {NoId}

\* What two sequences have, their concatenation has.
LEMMA ConcatContents ==
    ASSUME NEW T, NEW s \in Seq(T), NEW t \in Seq(T)
    PROVE  /\ s \o t \in Seq(T) /\ ToSet(s \o t) = ToSet(s) \cup ToSet(t)
           /\ Len(s \o t) = Len(s) + Len(t)
           /\ \A i \in 1..Len(s) : (s \o t)[i] = s[i]
           /\ \A j \in 1..Len(t) : (s \o t)[Len(s) + j] = t[j]
<1> DEFINE r == s \o t
<1>1. /\ r \in Seq(T) /\ Len(r) = Len(s) + Len(t)
      /\ \A i \in 1..(Len(s) + Len(t)) : r[i] = IF i <= Len(s) THEN s[i] ELSE t[i - Len(s)]
  BY ConcatProperties
<1>2. /\ Len(s) \in Nat /\ Len(t) \in Nat
      /\ DOMAIN s = 1..Len(s) /\ DOMAIN t = 1..Len(t) /\ DOMAIN r = 1..(Len(s) + Len(t))
  BY <1>1, LenProperties
<1> HIDE DEF r
<1>3. \A i \in 1..Len(s) : i \in 1..(Len(s) + Len(t)) /\ r[i] = s[i]
  BY <1>1, <1>2
<1>4. \A j \in 1..Len(t) : Len(s) + j \in 1..(Len(s) + Len(t)) /\ r[Len(s) + j] = t[j]
  <2> SUFFICES ASSUME NEW j \in 1..Len(t)
               PROVE  Len(s) + j \in 1..(Len(s) + Len(t)) /\ r[Len(s) + j] = t[j]
    OBVIOUS
  <2>1. Len(s) + j \in 1..(Len(s) + Len(t)) /\ ~(Len(s) + j <= Len(s)) /\ (Len(s) + j) - Len(s) = j
    BY <1>2
  <2>. QED
    BY <1>1, <2>1
<1>5. \A i \in DOMAIN r : r[i] \in ToSet(s) \cup ToSet(t)
  <2> SUFFICES ASSUME NEW i \in DOMAIN r PROVE r[i] \in ToSet(s) \cup ToSet(t)
    OBVIOUS
  <2>1. CASE i <= Len(s)
    BY <1>1, <1>2, <2>1 DEF ToSet
  <2>2. CASE ~(i <= Len(s))
    <3>1. i - Len(s) \in DOMAIN t /\ r[i] = t[i - Len(s)]
      BY <1>1, <1>2, <2>2
    <3>. QED
      BY <3>1 DEF ToSet
  <2>. QED
    BY <2>1, <2>2
<1>6. ToSet(s) \cup ToSet(t) \subseteq ToSet(r)
  <2>1. ASSUME NEW i \in DOMAIN s PROVE s[i] \in ToSet(r)
    BY <1>2, <1>3, <2>1 DEF ToSet
  <2>2. ASSUME NEW j \in DOMAIN t PROVE t[j] \in ToSet(r)
    <3>1. Len(s) + j \in DOMAIN r /\ r[Len(s) + j] = t[j]
      BY <1>2, <1>4, <2>2
    <3>. QED
      BY <3>1 DEF ToSet
  <2>. QED
    BY <2>1, <2>2 DEF ToSet
<1>7. ToSet(r) = ToSet(s) \cup ToSet(t)
  BY <1>5, <1>6 DEF ToSet
<1>. QED
  BY <1>1, <1>3, <1>4, <1>7 DEF r

\* A list of ids as blocks: one result for each, and nothing else.
LEMMA ResultBlocks ==
    ASSUME NEW u \in Seq(IdOrNone)
    PROVE  /\ Results(u) \in Seq(BlockType) /\ Len(Results(u)) = Len(u)
           /\ IdsIn(Results(u), "ToolUse") = {} /\ IdsIn(Results(u), "ToolResult") = ToSet(u)
           /\ \A k \in DOMAIN Results(u) : Results(u)[k].type = "ToolResult"
<1> DEFINE r == Results(u)
<1>1. Len(u) \in Nat /\ DOMAIN u = 1..Len(u) /\ \A k \in 1..Len(u) : u[k] \in IdOrNone
  BY LenProperties, ElementOfSeq
<1>2. /\ DOMAIN r = 1..Len(u)
      /\ \A k \in 1..Len(u) : r[k] = [type |-> "ToolResult", id |-> u[k]]
      /\ r = [k \in 1..Len(u) |-> r[k]]
  BY <1>1 DEF Results, ToolResult
<1> HIDE DEF r
<1>3. \A k \in 1..Len(u) : r[k] \in BlockType /\ r[k].type = "ToolResult" /\ r[k].id = u[k]
  BY <1>1, <1>2 DEF BlockType, IdOrNone
<1>4. r \in [1..Len(u) -> BlockType]
  BY <1>2, <1>3
<1>5. r \in Seq(BlockType) /\ Len(r) = Len(u)
  BY <1>1, <1>4, SequencesOfLength
<1>6. \A b \in ToSet(r) : b.type = "ToolResult"
  BY <1>2, <1>3 DEF ToSet
<1>7. {b.id : b \in ToSet(r)} = ToSet(u)
  BY <1>1, <1>2, <1>3 DEF ToSet
<1>8. {x \in ToSet(r) : x.type = "ToolUse"} = {} /\ {x \in ToSet(r) : x.type = "ToolResult"} = ToSet(r)
  BY <1>6
<1>. QED
  BY <1>2, <1>3, <1>5, <1>7, <1>8 DEF IdsIn, r

\* The ids of a list of blocks.
LEMMA BlockIds ==
    ASSUME NEW s \in Seq(BlockType)
    PROVE  LET u == [k \in DOMAIN s |-> s[k].id]
           IN  u \in Seq(IdOrNone) /\ ToSet(u) = {b.id : b \in ToSet(s)}
<1> DEFINE u == [k \in DOMAIN s |-> s[k].id]
<1>1. Len(s) \in Nat /\ DOMAIN s = 1..Len(s) /\ \A k \in 1..Len(s) : s[k] \in BlockType
  BY LenProperties, ElementOfSeq
<1>2. u \in [1..Len(s) -> IdOrNone]
  BY <1>1 DEF BlockType, IdOrNone
<1>3. \A k \in 1..Len(s) : u[k] = s[k].id
  BY <1>1
<1>4. DOMAIN u = 1..Len(s)
  BY <1>1
<1> HIDE DEF u
<1>5. u \in Seq(IdOrNone)
  BY <1>1, <1>2, SequencesOfLength
<1>6. ToSet(u) = {b.id : b \in ToSet(s)}
  BY <1>1, <1>3, <1>4 DEF ToSet
<1>. QED
  BY <1>5, <1>6 DEF u

\* What pass 2 finds missing: the tool uses the next message does not answer.
LEMMA Unanswered ==
    ASSUME NEW d \in Threads, NEW i
    PROVE  /\ unanswered(d, i) \in Seq(IdOrNone)
           /\ ToSet(unanswered(d, i)) = UseIds(d, i) \ ResultIds(d, i + 1)
<1> DEFINE A == i \in 1..Len(d) /\ d[i].role = "Assistant"
<1>1. /\ DOMAIN d = 1..Len(d)
      /\ i \in 1..Len(d) => /\ d[i].content \in Seq(BlockType) /\ d[i].role \in {"User", "Assistant"}
                            /\ UseIds(d, i) = IdsIn(d[i].content, "ToolUse")
                            /\ d[i].role = "User" => UseIds(d, i) = {}
      /\ i \notin 1..Len(d) => UseIds(d, i) = {}
  BY ThreadFacts
<1>2. CASE A
  <2> DEFINE c == d[i].content
             R == ResultIds(d, i + 1)
             M == {b \in ToSet(c) : b.type = "ToolUse" /\ b.id \notin R}
             bs == retain(c, M)
             u == [k \in DOMAIN bs |-> bs[k].id]
  <2>1. unanswered(d, i) = u
    BY <1>1, <1>2 DEF unanswered
  <2>2. c \in Seq(BlockType) /\ UseIds(d, i) = IdsIn(c, "ToolUse")
    BY <1>1, <1>2
  <2> HIDE DEF c, R
  <2>3. bs \in Seq(BlockType) /\ ToSet(bs) = M
    <3>1. M \subseteq ToSet(c)
      OBVIOUS
    <3> HIDE DEF M
    <3>2. bs \in Seq(BlockType) /\ ToSet(bs) = ToSet(c) \cap M
      BY <2>2, RetainFacts
    <3>. QED
      BY <3>1, <3>2
  <2>4. {b.id : b \in M} = IdsIn(c, "ToolUse") \ R
    BY DEF IdsIn
  <2> HIDE DEF bs, M
  <2>5. u \in Seq(IdOrNone) /\ ToSet(u) = {b.id : b \in ToSet(bs)}
    BY <2>3, BlockIds
  <2>. QED
    BY <2>1, <2>2, <2>3, <2>4, <2>5 DEF R
<1>3. CASE ~A
  <2>1. unanswered(d, i) = <<>> /\ UseIds(d, i) = {}
    BY <1>1, <1>3 DEF unanswered
  <2>2. ToSet(<<>>) = {} /\ <<>> \in Seq(IdOrNone)
    BY DEF ToSet
  <2>. QED
    BY <2>1, <2>2
<1>. QED
  BY <1>2, <1>3

\* The two things pass 2 makes of message i: the message with the answers that
\* were missing before it, and a message of answers to its own calls.
Extended(d, i) ==
    IF ResultIds(d, i) # {}
    THEN [d[i] EXCEPT !.content = @ \o Results(unanswered(d, i - 1))]
    ELSE d[i]

Adds(d, i) == unanswered(d, i) # <<>> /\ ResultIds(d, i + 1) = {}

AnswerMessage(d, i) == Message("User", Results(unanswered(d, i)))

\* What pass 1 guarantees to pass 2.
Orphanless(d) == \A i \in 1..Len(d) : ResultIds(d, i) \subseteq UseIds(d, i - 1)

\* A message of answers has one result for each call it answers and nothing else.
LEMMA AnswerMessageFacts ==
    ASSUME NEW d \in Threads, NEW i
    PROVE  LET m == AnswerMessage(d, i)
           IN  /\ m \in MessageType /\ m.role = "User"
               /\ IdsOf(m, "ToolUse") = {}
               /\ IdsOf(m, "ToolResult") = UseIds(d, i) \ ResultIds(d, i + 1)
               /\ \A k \in DOMAIN m.content : m.content[k].type = "ToolResult"
<1> DEFINE m == AnswerMessage(d, i)
           u == unanswered(d, i)
           r == Results(u)
<1>1. u \in Seq(IdOrNone) /\ ToSet(u) = UseIds(d, i) \ ResultIds(d, i + 1)
  BY Unanswered
<1>2. m = [role |-> "User", content |-> r]
  BY DEF AnswerMessage, Message
<1> HIDE DEF u, m
<1>3. /\ r \in Seq(BlockType) /\ IdsIn(r, "ToolUse") = {} /\ IdsIn(r, "ToolResult") = ToSet(u)
      /\ \A k \in DOMAIN r : r[k].type = "ToolResult"
  BY <1>1, ResultBlocks
<1> HIDE DEF r
<1>4. m \in MessageType /\ m.role = "User" /\ m.content = r
  BY <1>2, <1>3 DEF MessageType
<1>5. IdsOf(m, "ToolUse") = IdsIn(r, "ToolUse") /\ IdsOf(m, "ToolResult") = IdsIn(r, "ToolResult")
  BY <1>4, IdsOfBlocks
<1>. QED
  BY <1>1, <1>3, <1>4, <1>5 DEF m

\* An extended message keeps all it had; if it has results, they are now those
\* of every call of the message before.
LEMMA ExtendedFacts ==
    ASSUME NEW d \in Threads, Orphanless(d), NEW i \in 1..Len(d)
    PROVE  LET e == Extended(d, i)
           IN  /\ e \in MessageType /\ e.role = d[i].role
               /\ IdsOf(e, "ToolUse") = UseIds(d, i)
               /\ IdsOf(e, "ToolResult") = IF ResultIds(d, i) = {} THEN {} ELSE UseIds(d, i - 1)
               /\ \E t \in Seq(BlockType) : e.content = d[i].content \o t
               /\ unanswered(d, i - 1) = <<>> => e = d[i]
<1> DEFINE e == Extended(d, i)
           m == d[i]
           c == m.content
           u == unanswered(d, i - 1)
           r == Results(u)
<1>1. /\ m \in MessageType /\ c \in Seq(BlockType)
      /\ UseIds(d, i) = IdsIn(c, "ToolUse") /\ ResultIds(d, i) = IdsIn(c, "ToolResult")
  BY ThreadFacts
<1>2. u \in Seq(IdOrNone) /\ ToSet(u) = UseIds(d, i - 1) \ ResultIds(d, i)
  <2>1. Len(d) \in Nat
    BY ThreadFacts
  <2>2. (i - 1) + 1 = i
    BY <2>1
  <2> DEFINE j == i - 1
  <2> HIDE DEF j
  <2>3. unanswered(d, j) \in Seq(IdOrNone) /\ ToSet(unanswered(d, j)) = UseIds(d, j) \ ResultIds(d, j + 1)
    BY Unanswered
  <2>. QED
    BY <2>2, <2>3 DEF j
<1>3. e = IF ResultIds(d, i) # {} THEN [m EXCEPT !.content = c \o r] ELSE m
  BY DEF Extended
<1>4. ResultIds(d, i) \subseteq UseIds(d, i - 1)
  BY DEF Orphanless
<1>5. IdsOf(m, "ToolUse") = IdsIn(c, "ToolUse") /\ IdsOf(m, "ToolResult") = IdsIn(c, "ToolResult")
  BY IdsOfBlocks
<1>6. c \o <<>> = c /\ <<>> \in Seq(BlockType)
  <2> HIDE DEF c
  <2>. QED
    BY <1>1, ConcatEmptySeq
<1>7. CASE ResultIds(d, i) = {}
  BY <1>1, <1>3, <1>5, <1>6, <1>7
<1>8. CASE ResultIds(d, i) # {}
  <2> DEFINE x == c \o r
  <2>1. /\ r \in Seq(BlockType) /\ Len(r) = Len(u)
        /\ IdsIn(r, "ToolUse") = {} /\ IdsIn(r, "ToolResult") = ToSet(u)
    <3> HIDE DEF u
    <3>. QED
      BY <1>2, ResultBlocks
  <2>2. x \in Seq(BlockType) /\ ToSet(x) = ToSet(c) \cup ToSet(r)
    <3> HIDE DEF c, r
    <3>. QED
      BY <1>1, <2>1, ConcatContents
  <2>3. u = <<>> => x = c
    <3>1. u = <<>> => r = <<>>
      <4> HIDE DEF u, r
      <4>1. u = <<>> => Len(r) = 0
        BY <2>1, EmptySeq
      <4>. QED
        BY <2>1, <4>1, EmptySeq
    <3>. QED
      BY <1>6, <3>1
  <2>4. e = [m EXCEPT !.content = x]
    BY <1>3, <1>8
  <2> HIDE DEF x, e, r, u
  <2>5. /\ e \in MessageType /\ e.role = m.role /\ e.content = x
        /\ x = c => e = m
    <3> HIDE DEF m
    <3>. QED
      BY <1>1, <2>2, <2>4 DEF MessageType
  <2>6. /\ IdsIn(x, "ToolUse") = IdsIn(c, "ToolUse") \cup IdsIn(r, "ToolUse")
        /\ IdsIn(x, "ToolResult") = IdsIn(c, "ToolResult") \cup IdsIn(r, "ToolResult")
    <3> HIDE DEF c
    <3>. QED
      BY <2>2 DEF IdsIn
  <2>7. IdsOf(e, "ToolUse") = IdsIn(x, "ToolUse") /\ IdsOf(e, "ToolResult") = IdsIn(x, "ToolResult")
    BY <2>5, IdsOfBlocks
  <2>8. \E t \in Seq(BlockType) : e.content = c \o t
    BY <2>1, <2>5 DEF x
  <2>9. IdsOf(e, "ToolUse") = UseIds(d, i) /\ IdsOf(e, "ToolResult") = UseIds(d, i - 1)
    <3> HIDE DEF c
    <3>. QED
      BY <1>1, <1>2, <1>4, <2>1, <2>6, <2>7
  <2>. QED
    BY <1>8, <2>3, <2>5, <2>8, <2>9 DEF e, u
<1>. QED
  BY <1>7, <1>8

\* The lists of one and of two messages that pass 2 puts together.
LEMMA OneOrTwo ==
    ASSUME NEW T, NEW x \in T, NEW y \in T
    PROVE  /\ <<x>> \o <<y>> \in Seq(T) /\ Len(<<x>> \o <<y>>) = 2
           /\ (<<x>> \o <<y>>)[1] = x /\ (<<x>> \o <<y>>)[2] = y
           /\ <<x>> \o <<>> \in Seq(T) /\ Len(<<x>> \o <<>>) = 1 /\ (<<x>> \o <<>>)[1] = x
<1> DEFINE s == <<x>>
           t == <<y>>
<1>1. /\ s \in Seq(T) /\ t \in Seq(T) /\ Len(s) = 1 /\ Len(t) = 1 /\ s[1] = x /\ t[1] = y
  OBVIOUS
<1> HIDE DEF s, t
<1>2. /\ s \o t \in Seq(T) /\ Len(s \o t) = Len(s) + Len(t)
      /\ \A i \in 1..Len(s) : (s \o t)[i] = s[i]
      /\ \A j \in 1..Len(t) : (s \o t)[Len(s) + j] = t[j]
  BY <1>1, ConcatContents
<1>3. s \o <<>> = s
  BY <1>1, ConcatEmptySeq
<1>4. Len(s \o t) = 2 /\ (s \o t)[1] = x /\ (s \o t)[1 + 1] = y
  <2>1. 1 \in 1..1
    OBVIOUS
  <2>. QED
    BY <1>1, <1>2, <2>1
<1>. QED
  BY <1>1, <1>2, <1>3, <1>4 DEF s, t

\* What pass 2 leaves: every message, extended, at its place, each followed by
\* the answers it needs and nothing else.
Places(d, out, at) ==
    /\ at \in [1..(Len(d) + 1) -> Nat]
    /\ at[1] = 0 /\ at[Len(d) + 1] = Len(out)
    /\ \A k \in 1..Len(d) :
          /\ at[k] + 1 \in 1..Len(out) /\ out[at[k] + 1] = Extended(d, k)
          /\ Adds(d, k) => /\ at[k + 1] = at[k] + 2 /\ at[k] + 2 \in 1..Len(out)
                           /\ out[at[k] + 2] = AnswerMessage(d, k)
          /\ ~Adds(d, k) => at[k + 1] = at[k] + 1
    /\ \A i \in 1..Len(out) : \E k \in 1..Len(d) :
          i = at[k] + 1 \/ (Adds(d, k) /\ i = at[k] + 2)

\* There are such places.
LEMMA Synthesized ==
    ASSUME NEW d \in Threads, Orphanless(d)
    PROVE  /\ synthesize_missing(d) \in Seq(MessageType)
           /\ \E at : Places(d, synthesize_missing(d), at)
<1> DEFINE n == Len(d)
           out == synthesize_missing(d)
           part(k) == <<Extended(d, k)>> \o (IF Adds(d, k) THEN <<AnswerMessage(d, k)>> ELSE <<>>)
           ss == [k \in 1..n |-> part(k)]
<1>1. n \in Nat /\ DOMAIN d = 1..n
  BY ThreadFacts
<1>2. out = FlattenSeq(ss)
  BY <1>1 DEF synthesize_missing, Extended, Adds, AnswerMessage
<1>3. \A k \in 1..n : Extended(d, k) \in MessageType /\ AnswerMessage(d, k) \in MessageType
  BY ExtendedFacts, AnswerMessageFacts
<1>5. \A k \in 1..n : /\ ss[k] \in Seq(MessageType) /\ ss[k][1] = Extended(d, k)
                      /\ Adds(d, k) => Len(ss[k]) = 2 /\ ss[k][2] = AnswerMessage(d, k)
                      /\ ~Adds(d, k) => Len(ss[k]) = 1
  <2> SUFFICES ASSUME NEW k \in 1..n
               PROVE  /\ ss[k] \in Seq(MessageType) /\ ss[k][1] = Extended(d, k)
                      /\ Adds(d, k) => Len(ss[k]) = 2 /\ ss[k][2] = AnswerMessage(d, k)
                      /\ ~Adds(d, k) => Len(ss[k]) = 1
    OBVIOUS
  <2> DEFINE x == Extended(d, k)
             y == AnswerMessage(d, k)
  <2>1. /\ Adds(d, k) => ss[k] = <<x>> \o <<y>>
        /\ ~Adds(d, k) => ss[k] = <<x>> \o <<>>
    OBVIOUS
  <2>2. x \in MessageType /\ y \in MessageType
    BY <1>3
  <2> HIDE DEF x, y, ss
  <2>3. /\ <<x>> \o <<y>> \in Seq(MessageType) /\ Len(<<x>> \o <<y>>) = 2
        /\ (<<x>> \o <<y>>)[1] = x /\ (<<x>> \o <<y>>)[2] = y
        /\ <<x>> \o <<>> \in Seq(MessageType) /\ Len(<<x>> \o <<>>) = 1 /\ (<<x>> \o <<>>)[1] = x
    BY <2>2, OneOrTwo
  <2>. QED
    BY <2>1, <2>3 DEF x, y
<1>6. ss \in Seq(Seq(MessageType)) /\ Len(ss) = n
  <2>1. ss = [k \in 1..n |-> ss[k]]
    OBVIOUS
  <2> HIDE DEF ss, n
  <2>2. ss \in [1..n -> Seq(MessageType)]
    BY <1>5, <2>1
  <2>. QED
    BY <1>1, <2>2, SequencesOfLength
<1> HIDE DEF ss, out
<1>7. out \in Seq(MessageType)
  BY <1>2, <1>6, FlattenFacts
<1>8. PICK at \in [1..(n + 1) -> Nat] :
         /\ at[1] = 0 /\ at[n + 1] = Len(out)
         /\ \A k \in 1..n : at[k + 1] = at[k] + Len(ss[k])
         /\ \A k \in 1..n : \A j \in 1..Len(ss[k]) :
               at[k] + j \in 1..Len(out) /\ out[at[k] + j] = ss[k][j]
         /\ \A i \in 1..Len(out) : \E k \in 1..n : \E j \in 1..Len(ss[k]) : i = at[k] + j
  <2>1. LaidOut(ss, n, out)
    BY <1>2, <1>6, FlattenFacts
  <2>. QED
    BY <2>1 DEF LaidOut
<1>9. \A k \in 1..n : /\ at[k] + 1 \in 1..Len(out) /\ out[at[k] + 1] = Extended(d, k)
                      /\ Adds(d, k) => /\ at[k + 1] = at[k] + 2 /\ at[k] + 2 \in 1..Len(out)
                                       /\ out[at[k] + 2] = AnswerMessage(d, k)
                      /\ ~Adds(d, k) => at[k + 1] = at[k] + 1
  <2> SUFFICES ASSUME NEW k \in 1..n
               PROVE  /\ at[k] + 1 \in 1..Len(out) /\ out[at[k] + 1] = Extended(d, k)
                      /\ Adds(d, k) => /\ at[k + 1] = at[k] + 2 /\ at[k] + 2 \in 1..Len(out)
                                       /\ out[at[k] + 2] = AnswerMessage(d, k)
                      /\ ~Adds(d, k) => at[k + 1] = at[k] + 1
    OBVIOUS
  <2>1. 1 \in 1..Len(ss[k]) /\ (Adds(d, k) => 2 \in 1..Len(ss[k]))
    BY <1>5
  <2>. QED
    BY <1>5, <1>8, <2>1
<1>10. \A i \in 1..Len(out) : \E k \in 1..n : i = at[k] + 1 \/ (Adds(d, k) /\ i = at[k] + 2)
  <2> SUFFICES ASSUME NEW i \in 1..Len(out)
               PROVE  \E k \in 1..n : i = at[k] + 1 \/ (Adds(d, k) /\ i = at[k] + 2)
    OBVIOUS
  <2>1. PICK k \in 1..n : \E j \in 1..Len(ss[k]) : i = at[k] + j
    BY <1>8
  <2>2. PICK j \in 1..Len(ss[k]) : i = at[k] + j
    BY <2>1
  <2>3. j = 1 \/ (Adds(d, k) /\ j = 2)
    <3>1. CASE Adds(d, k)
      <4>1. j \in 1..2
        BY <1>5, <2>2, <3>1
      <4>. QED
        BY <3>1, <4>1
    <3>2. CASE ~Adds(d, k)
      <4>1. j \in 1..1
        BY <1>5, <2>2, <3>2
      <4>. QED
        BY <4>1
    <3>. QED
      BY <3>1, <3>2
  <2>. QED
    BY <2>2, <2>3
<1>11. Places(d, out, at)
  BY <1>8, <1>9, <1>10 DEF Places
<1>. QED
  BY <1>7, <1>11 DEF out

\* The rule in terms of the ids of neighbouring messages: there is nothing
\* before the first message and after the last.
LEMMA BalancedIds ==
    ASSUME NEW ms \in Seq(MessageType)
    PROVE  Balanced(ms) <=> \A i \in 1..Len(ms) : /\ ResultIds(ms, i) \subseteq UseIds(ms, i - 1)
                                                  /\ UseIds(ms, i) \subseteq ResultIds(ms, i + 1)
<1>1. Len(ms) \in Nat /\ DOMAIN ms = 1..Len(ms)
  BY LenProperties
<1>2. \A i \in 1..Len(ms) : /\ ResultIds(ms, i) = IdsOf(ms[i], "ToolResult")
                            /\ UseIds(ms, i) = IdsOf(ms[i], "ToolUse")
  BY <1>1 DEF ResultIds, UseIds
<1>3. ASSUME NEW i \in 1..Len(ms)
      PROVE  /\ UseIds(ms, i - 1) = IF i > 1 THEN IdsOf(ms[i - 1], "ToolUse") ELSE {}
             /\ ResultIds(ms, i + 1) = IF i < Len(ms) THEN IdsOf(ms[i + 1], "ToolResult") ELSE {}
  <2>1. (i - 1 \in 1..Len(ms) <=> i > 1) /\ (i + 1 \in 1..Len(ms) <=> i < Len(ms))
    BY <1>1
  <2>. QED
    BY <1>1, <2>1 DEF ResultIds, UseIds
<1> DEFINE Ok(i) == /\ \A id \in IdsOf(ms[i], "ToolResult") :
                          i > 1 /\ id \in IdsOf(ms[i - 1], "ToolUse")
                    /\ \A id \in IdsOf(ms[i], "ToolUse") :
                          i < Len(ms) /\ id \in IdsOf(ms[i + 1], "ToolResult")
           By(i) == /\ ResultIds(ms, i) \subseteq UseIds(ms, i - 1)
                    /\ UseIds(ms, i) \subseteq ResultIds(ms, i + 1)
<1>4. \A i \in 1..Len(ms) : Ok(i) <=> By(i)
  <2> SUFFICES ASSUME NEW i \in 1..Len(ms) PROVE Ok(i) <=> By(i)
    OBVIOUS
  <2>. QED
    BY <1>2, <1>3, Zenon
<1>5. Balanced(ms) <=> \A i \in 1..Len(ms) : Ok(i)
  BY <1>1 DEF Balanced
<1> HIDE DEF Ok
<1>6. Balanced(ms) <=> \A i \in 1..Len(ms) : By(i)
  <2> HIDE DEF By
  <2>. QED
    BY <1>4, <1>5
<1>. QED
  BY <1>6

\* Pass 1 leaves no orphan.
LEMMA NoOrphans ==
    ASSUME NEW ms \in Threads
    PROVE  LET d == drop_orphans(ms)
           IN  d \in Threads /\ Len(d) = Len(ms) /\ Orphanless(d)
<1> DEFINE d == drop_orphans(ms)
<1>1. /\ d \in Threads /\ Len(d) = Len(ms)
      /\ \A i \in 1..Len(ms) : /\ UseIds(d, i) = UseIds(ms, i)
                               /\ ResultIds(d, i) = ResultIds(ms, i) \cap UseIds(ms, i - 1)
  BY OrphansDropped
<1> HIDE DEF d
<1>2. /\ \A i : i \notin 1..Len(ms) => UseIds(ms, i) = {}
      /\ \A i : i \notin 1..Len(ms) => UseIds(d, i) = {}
  BY <1>1, ThreadFacts
<1>3. \A i : UseIds(d, i) = UseIds(ms, i)
  BY <1>1, <1>2
<1>. QED
  BY <1>1, <1>3 DEF Orphanless, d

\* Pass 2 completes a thread without orphans: whatever is at a place, its
\* results answer the place before and its calls are answered by the one after.
LEMMA Completed ==
    ASSUME NEW d \in Threads, Orphanless(d)
    PROVE  synthesize_missing(d) \in Threads /\ Balanced(synthesize_missing(d))
<1> DEFINE n == Len(d)
           out == synthesize_missing(d)
<1>1. n \in Nat /\ \A i : i \notin 1..n => UseIds(d, i) = {} /\ ResultIds(d, i) = {}
  BY ThreadFacts
<1>2. out \in Seq(MessageType)
  BY Synthesized
<1>3. PICK at : Places(d, out, at)
  BY Synthesized
<1> HIDE DEF out
<1>4. Len(out) \in Nat /\ DOMAIN out = 1..Len(out)
  BY <1>2, LenProperties
<1>5. \A k \in 1..n : at[k] \in Nat /\ at[k + 1] \in Nat /\ k + 1 \in 1..(n + 1)
  <2>1. at \in [1..(n + 1) -> Nat]
    BY <1>3 DEF Places
  <2> HIDE DEF n
  <2>2. \A k \in 1..n : k \in 1..(n + 1) /\ k + 1 \in 1..(n + 1)
    BY <1>1
  <2>. QED
    BY <2>1, <2>2
<1>6. \A i \in 1..Len(out) : /\ ResultIds(out, i) = IdsOf(out[i], "ToolResult")
                             /\ UseIds(out, i) = IdsOf(out[i], "ToolUse")
  BY <1>4 DEF ResultIds, UseIds
<1>7. \A k \in 1..n : /\ at[k] + 1 \in 1..Len(out)
                      /\ out[at[k] + 1].role = d[k].role
                      /\ UseIds(out, at[k] + 1) = UseIds(d, k)
                      /\ ResultIds(out, at[k] + 1) = IF ResultIds(d, k) = {} THEN {} ELSE UseIds(d, k - 1)
  <2> SUFFICES ASSUME NEW k \in 1..n
               PROVE  /\ at[k] + 1 \in 1..Len(out)
                      /\ out[at[k] + 1].role = d[k].role
                      /\ UseIds(out, at[k] + 1) = UseIds(d, k)
                      /\ ResultIds(out, at[k] + 1) = IF ResultIds(d, k) = {} THEN {} ELSE UseIds(d, k - 1)
    OBVIOUS
  <2> DEFINE e == Extended(d, k)
             p == at[k] + 1
  <2>1. /\ e.role = d[k].role /\ IdsOf(e, "ToolUse") = UseIds(d, k)
        /\ IdsOf(e, "ToolResult") = IF ResultIds(d, k) = {} THEN {} ELSE UseIds(d, k - 1)
    BY ExtendedFacts
  <2>2. p \in 1..Len(out) /\ out[p] = e
    BY <1>3 DEF Places
  <2> HIDE DEF e, p
  <2>3. /\ p \in 1..Len(out) /\ out[p].role = d[k].role /\ UseIds(out, p) = UseIds(d, k)
        /\ ResultIds(out, p) = IF ResultIds(d, k) = {} THEN {} ELSE UseIds(d, k - 1)
    BY <1>6, <2>1, <2>2
  <2>. QED
    BY <2>3 DEF p
<1>8. \A k \in 1..n : Adds(d, k) =>
         /\ at[k] + 2 \in 1..Len(out) /\ at[k + 1] = at[k] + 2
         /\ out[at[k] + 2].role = "User"
         /\ UseIds(out, at[k] + 2) = {} /\ ResultIds(out, at[k] + 2) = UseIds(d, k)
  <2> SUFFICES ASSUME NEW k \in 1..n, Adds(d, k)
               PROVE  /\ at[k] + 2 \in 1..Len(out) /\ at[k + 1] = at[k] + 2
                      /\ out[at[k] + 2].role = "User"
                      /\ UseIds(out, at[k] + 2) = {} /\ ResultIds(out, at[k] + 2) = UseIds(d, k)
    OBVIOUS
  <2> DEFINE m == AnswerMessage(d, k)
             p == at[k] + 2
  <2>1. m.role = "User" /\ IdsOf(m, "ToolUse") = {} /\ IdsOf(m, "ToolResult") = UseIds(d, k)
    <3>1. /\ m.role = "User" /\ IdsOf(m, "ToolUse") = {}
          /\ IdsOf(m, "ToolResult") = UseIds(d, k) \ ResultIds(d, k + 1)
      BY AnswerMessageFacts
    <3>2. ResultIds(d, k + 1) = {}
      BY DEF Adds
    <3>. QED
      BY <3>1, <3>2
  <2>2. p \in 1..Len(out) /\ out[p] = m /\ at[k + 1] = p
    BY <1>3 DEF Places
  <2> HIDE DEF m, p
  <2>3. out[p].role = "User" /\ UseIds(out, p) = {} /\ ResultIds(out, p) = UseIds(d, k)
    BY <1>6, <2>1, <2>2
  <2>. QED
    BY <2>2, <2>3 DEF p
<1>9. \A k \in 1..n : ~Adds(d, k) => at[k + 1] = at[k] + 1
  BY <1>3 DEF Places
<1>10. \A i \in 1..Len(out) : \E k \in 1..n : i = at[k] + 1 \/ (Adds(d, k) /\ i = at[k] + 2)
  BY <1>3 DEF Places
<1>11. ASSUME NEW k \in 1..n
       PROVE  /\ ResultIds(out, at[k] + 1) \subseteq UseIds(out, (at[k] + 1) - 1)
              /\ UseIds(out, at[k] + 1) \subseteq ResultIds(out, (at[k] + 1) + 1)
  <2>1. ResultIds(out, at[k] + 1) \subseteq UseIds(out, (at[k] + 1) - 1)
    <3> SUFFICES ASSUME NEW id \in ResultIds(out, at[k] + 1)
                 PROVE  id \in UseIds(out, (at[k] + 1) - 1)
      OBVIOUS
    <3> DEFINE j == k - 1
    <3>1. ResultIds(d, k) # {} /\ id \in UseIds(d, j)
      BY <1>7, <1>11
    <3>2. j \in 1..n /\ j + 1 = k
      BY <1>1, <1>11, <3>1
    <3> HIDE DEF j
    <3>3. ~Adds(d, j)
      BY <3>1, <3>2 DEF Adds
    <3>4. at[k] = at[j] + 1
      BY <1>9, <3>2, <3>3
    <3>5. (at[k] + 1) - 1 = at[j] + 1
      BY <1>5, <1>11, <3>2, <3>4
    <3>. QED
      BY <1>7, <3>1, <3>2, <3>5
  <2>2. UseIds(out, at[k] + 1) \subseteq ResultIds(out, (at[k] + 1) + 1)
    <3> SUFFICES ASSUME NEW id \in UseIds(out, at[k] + 1)
                 PROVE  id \in ResultIds(out, (at[k] + 1) + 1)
      OBVIOUS
    <3>1. id \in UseIds(d, k) /\ (at[k] + 1) + 1 = at[k] + 2
      BY <1>5, <1>7, <1>11
    <3>2. CASE Adds(d, k)
      BY <1>8, <1>11, <3>1, <3>2
    <3>3. CASE ~Adds(d, k)
      <4> DEFINE j == k + 1
      <4>1. ResultIds(d, j) # {}
        <5>1. ToSet(unanswered(d, k)) = UseIds(d, k) \ ResultIds(d, j)
          BY Unanswered
        <5>2. unanswered(d, k) = <<>> => ToSet(unanswered(d, k)) = {}
          BY DEF ToSet
        <5>. QED
          BY <3>1, <3>3, <5>1, <5>2 DEF Adds
      <4>2. j \in 1..n /\ j - 1 = k /\ at[j] = at[k] + 1
        BY <1>1, <1>9, <1>11, <3>3, <4>1
      <4> HIDE DEF j
      <4>3. ResultIds(out, at[j] + 1) = UseIds(d, k)
        BY <1>7, <4>1, <4>2
      <4>. QED
        BY <3>1, <4>2, <4>3
    <3>. QED
      BY <3>2, <3>3
  <2>. QED
    BY <2>1, <2>2
<1>12. ASSUME NEW k \in 1..n, Adds(d, k)
       PROVE  /\ ResultIds(out, at[k] + 2) \subseteq UseIds(out, (at[k] + 2) - 1)
              /\ UseIds(out, at[k] + 2) \subseteq ResultIds(out, (at[k] + 2) + 1)
  <2>1. (at[k] + 2) - 1 = at[k] + 1
    BY <1>5, <1>12
  <2>. QED
    BY <1>7, <1>8, <1>12, <2>1
<1>13. Balanced(out)
  <2>1. ASSUME NEW i \in 1..Len(out)
        PROVE  /\ ResultIds(out, i) \subseteq UseIds(out, i - 1)
               /\ UseIds(out, i) \subseteq ResultIds(out, i + 1)
    <3>1. PICK k \in 1..n : i = at[k] + 1 \/ (Adds(d, k) /\ i = at[k] + 2)
      BY <1>10, <2>1
    <3>. QED
      BY <1>11, <1>12, <3>1
  <2>. QED
    BY <1>2, <2>1, BalancedIds
<1>14. out \in Threads
  <2>1. ASSUME NEW i \in 1..Len(out)
        PROVE  /\ out[i].role = "User" => UseIds(out, i) = {}
               /\ out[i].role = "Assistant" => ResultIds(out, i) = {}
    <3>1. PICK k \in 1..n : i = at[k] + 1 \/ (Adds(d, k) /\ i = at[k] + 2)
      BY <1>10, <2>1
    <3>2. CASE i = at[k] + 1
      <4>1. /\ d[k].role = "User" => UseIds(d, k) = {}
            /\ d[k].role = "Assistant" => ResultIds(d, k) = {}
        BY ThreadFacts
      <4>. QED
        BY <1>7, <3>2, <4>1
    <3>3. CASE Adds(d, k) /\ i = at[k] + 2
      BY <1>8, <3>3
    <3>. QED
      BY <3>1, <3>2, <3>3
  <2>. QED
    BY <1>2, <1>4, <1>6, <2>1 DEF Threads
<1>. QED
  BY <1>13, <1>14 DEF out

\* Whatever the thread, the guard makes a balanced thread of it.
LEMMA GuardBalances ==
    ASSUME NEW ms \in Threads
    PROVE  sanitize_tool_pairing(ms) \in Threads /\ Balanced(sanitize_tool_pairing(ms))
<1> DEFINE d == drop_orphans(ms)
<1>1. d \in Threads /\ Orphanless(d)
  BY NoOrphans
<1>2. sanitize_tool_pairing(ms) = synthesize_missing(d)
  BY DEF sanitize_tool_pairing
<1> HIDE DEF d
<1>. QED
  BY <1>1, <1>2, Completed

\* The guard reports nothing exactly on the balanced threads.
LEMMA ReportsIffUnbalanced ==
    ASSUME NEW ms \in Threads
    PROVE  repairs(ms) = {} <=> Balanced(ms)
<1> DEFINE n == Len(ms)
           Orphans(i) == ResultIds(ms, i) \ UseIds(ms, i - 1)
           Open(i) == UseIds(ms, i) \ ResultIds(ms, i + 1)
           Rep(i) == Orphans(i) \cup IF ms[i].role = "Assistant" THEN Open(i) ELSE {}
<1>1. /\ ms \in Seq(MessageType) /\ DOMAIN ms = 1..n
      /\ \A i \in 1..n : ms[i].role \in {"User", "Assistant"} /\ (ms[i].role = "User" => UseIds(ms, i) = {})
  BY ThreadFacts
<1>2. repairs(ms) = UNION {Rep(i) : i \in 1..n}
  BY <1>1 DEF repairs
<1>3. \A i \in 1..n : Rep(i) = {} <=> /\ ResultIds(ms, i) \subseteq UseIds(ms, i - 1)
                                      /\ UseIds(ms, i) \subseteq ResultIds(ms, i + 1)
  <2> SUFFICES ASSUME NEW i \in 1..n
               PROVE  Rep(i) = {} <=> /\ ResultIds(ms, i) \subseteq UseIds(ms, i - 1)
                                      /\ UseIds(ms, i) \subseteq ResultIds(ms, i + 1)
    OBVIOUS
  <2>1. ms[i].role = "Assistant" \/ UseIds(ms, i) = {}
    BY <1>1
  <2>2. Rep(i) = Orphans(i) \cup Open(i)
    BY <2>1
  <2> HIDE DEF Rep
  <2>. QED
    BY <2>2
<1>4. Balanced(ms) <=> \A i \in 1..n : /\ ResultIds(ms, i) \subseteq UseIds(ms, i - 1)
                                       /\ UseIds(ms, i) \subseteq ResultIds(ms, i + 1)
  BY <1>1, BalancedIds
<1> HIDE DEF Rep
<1>5. repairs(ms) = {} <=> \A i \in 1..n : Rep(i) = {}
  BY <1>2
<1>. QED
  BY <1>3, <1>4, <1>5

\* A list that has nothing is the empty list.
LEMMA NothingIn ==
    ASSUME NEW T, NEW u \in Seq(T), ToSet(u) = {}
    PROVE  u = <<>>
<1>1. Len(u) \in Nat /\ DOMAIN u = 1..Len(u)
  BY LenProperties
<1>2. Len(u) = 0
  <2> SUFFICES ASSUME Len(u) # 0 PROVE FALSE
    OBVIOUS
  <2>1. u[1] \in ToSet(u)
    BY <1>1 DEF ToSet
  <2>. QED
    BY <2>1
<1>. QED
  BY <1>2, EmptySeq

\* Places one apart from the start are the places one would expect.
LEMMA StepByStep ==
    ASSUME NEW n \in Nat, NEW at \in [1..(n + 1) -> Nat],
           at[1] = 0, \A k \in 1..n : at[k + 1] = at[k] + 1
    PROVE  \A k \in 1..(n + 1) : at[k] + 1 = k
<1> DEFINE P == {k \in Nat : k <= n => at[k + 1] = k}
<1>1. 0 \in P
  OBVIOUS
<1>2. ASSUME NEW k \in Nat, k \in P PROVE k + 1 \in P
  <2> SUFFICES ASSUME k + 1 <= n PROVE at[(k + 1) + 1] = k + 1
    OBVIOUS
  <2>1. k + 1 \in 1..n /\ at[k + 1] = k
    BY <1>2
  <2>. QED
    BY <2>1
<1> HIDE DEF P
<1>3. Nat \subseteq P
  BY <1>1, <1>2, InductionOnNat
<1>4. ASSUME NEW k \in 1..(n + 1) PROVE at[k] + 1 = k
  <2>1. k - 1 \in P /\ k - 1 <= n /\ (k - 1) + 1 = k
    BY <1>3, <1>4
  <2>2. at[(k - 1) + 1] = k - 1
    BY <2>1 DEF P
  <2>. QED
    BY <2>1, <2>2
<1>. QED
  BY <1>4

\* The guard leaves a balanced thread as it is.
LEMMA BalancedUntouched ==
    ASSUME NEW ms \in Threads, Balanced(ms)
    PROVE  sanitize_tool_pairing(ms) = ms
<1> DEFINE n == Len(ms)
           out == synthesize_missing(ms)
<1>1. ms \in Seq(MessageType) /\ n \in Nat /\ DOMAIN ms = 1..n
  BY ThreadFacts
<1>2. \A i \in 1..n : /\ ResultIds(ms, i) \subseteq UseIds(ms, i - 1)
                      /\ UseIds(ms, i) \subseteq ResultIds(ms, i + 1)
  BY <1>1, BalancedIds
<1>3. drop_orphans(ms) = ms
  <2> DEFINE d == drop_orphans(ms)
  <2>1. d \in Threads /\ Len(d) = n /\ \A i \in 1..n : d[i] = ms[i]
    BY <1>2, OrphansDropped
  <2> HIDE DEF d
  <2>2. d \in Seq(MessageType)
    BY <2>1, ThreadFacts
  <2>. QED
    BY <1>1, <2>1, <2>2, SeqEqual DEF d
<1>4. Orphanless(ms)
  BY <1>2 DEF Orphanless
<1>5. \A i : unanswered(ms, i) = <<>>
  <2> SUFFICES ASSUME NEW i PROVE unanswered(ms, i) = <<>>
    OBVIOUS
  <2>1. UseIds(ms, i) \subseteq ResultIds(ms, i + 1)
    <3>1. i \notin 1..n => UseIds(ms, i) = {}
      BY ThreadFacts
    <3>. QED
      BY <1>2, <3>1
  <2>2. unanswered(ms, i) \in Seq(IdOrNone) /\ ToSet(unanswered(ms, i)) = {}
    BY <2>1, Unanswered
  <2>. QED
    BY <2>2, NothingIn
<1>6. \A k \in 1..n : Extended(ms, k) = ms[k] /\ ~Adds(ms, k)
  BY <1>4, <1>5, ExtendedFacts DEF Adds
<1>7. out \in Seq(MessageType) /\ \E at : Places(ms, out, at)
  BY <1>4, Synthesized
<1> HIDE DEF out
<1>8. PICK at : Places(ms, out, at)
  BY <1>7
<1>9. /\ at \in [1..(n + 1) -> Nat] /\ at[1] = 0 /\ at[n + 1] = Len(out)
      /\ \A k \in 1..n : at[k + 1] = at[k] + 1 /\ out[at[k] + 1] = ms[k]
  BY <1>6, <1>8 DEF Places
<1>10. \A k \in 1..(n + 1) : at[k] + 1 = k
  <2>1. \A k \in 1..n : at[k + 1] = at[k] + 1
    BY <1>9
  <2> HIDE DEF n
  <2>. QED
    BY <1>1, <1>9, <2>1, StepByStep
<1>11. Len(out) = n
  <2>1. n + 1 \in 1..(n + 1)
    BY <1>1
  <2>2. Len(out) + 1 = n + 1 /\ Len(out) \in Nat
    BY <1>7, <1>9, <1>10, <2>1, LenProperties
  <2>. QED
    BY <1>1, <2>2
<1>12. \A k \in 1..n : out[k] = ms[k]
  <2>1. \A k \in 1..n : k \in 1..(n + 1)
    BY <1>1
  <2>. QED
    BY <1>9, <1>10, <2>1
<1>13. out = ms
  <2> HIDE DEF n
  <2>1. Len(out) = Len(ms) /\ \A k \in 1..Len(out) : out[k] = ms[k]
    BY <1>11, <1>12 DEF n
  <2>. QED
    BY <1>1, <1>7, <2>1, SeqEqual
<1>. QED
  BY <1>3, <1>13 DEF sanitize_tool_pairing, out

\* Every item is translated to a message of its role.
LEMMA TranslatedItem ==
    ASSUME NEW item \in ItemType
    PROVE  /\ translate_item(item) \in MessageType
           /\ translate_item(item).role = IF item.kind = "Assistant" THEN "Assistant" ELSE "User"
<1> DEFINE ids == item.ids
<1>1. ids \in Seq(IdOrNone) /\ item.kind \in ItemKind
  <2>1. ids \in Seq(Ids) /\ item.kind \in ItemKind
    BY DEF ItemType
  <2>2. Len(ids) \in Nat /\ DOMAIN ids = 1..Len(ids) /\ \A k \in 1..Len(ids) : ids[k] \in IdOrNone
    BY <2>1, LenProperties, ElementOfSeq DEF IdOrNone
  <2> HIDE DEF ids
  <2>3. ids \in [1..Len(ids) -> IdOrNone]
    BY <2>1, <2>2
  <2>. QED
    BY <2>1, <2>2, <2>3, SequencesOfLength
<1>2. Text \in BlockType /\ <<Text>> \in Seq(BlockType) /\ <<>> \in Seq(BlockType)
  <2>1. Text \in BlockType
    BY DEF Text, BlockType
  <2>. QED
    BY <2>1
<1>3. Results(ids) \in Seq(BlockType)
  <2> HIDE DEF ids
  <2>. QED
    BY <1>1, ResultBlocks
<1>4. Uses(ids) \in Seq(BlockType)
  <2> HIDE DEF ids
  <2>1. Len(ids) \in Nat /\ DOMAIN ids = 1..Len(ids) /\ \A k \in 1..Len(ids) : ids[k] \in IdOrNone
    BY <1>1, LenProperties, ElementOfSeq
  <2>2. \A k \in 1..Len(ids) : ToolUse(ids[k]) \in BlockType
    BY <2>1 DEF ToolUse, BlockType, IdOrNone
  <2>3. Uses(ids) \in [1..Len(ids) -> BlockType]
    BY <2>1, <2>2 DEF Uses
  <2>. QED
    BY <2>1, <2>3, SequencesOfLength
<1>5. \A role \in {"User", "Assistant"}, c \in Seq(BlockType) :
         Message(role, c) \in MessageType /\ Message(role, c).role = role
  BY DEF Message, MessageType
<1>6. CASE item.kind = "User"
  <2>1. translate_item(item) = Message("User", <<Text>>)
    BY <1>6 DEF translate_item, decode_user_content
  <2>. QED
    BY <1>2, <1>5, <1>6, <2>1
<1>7. CASE item.kind = "ToolResults"
  <2>1. translate_item(item) = Message("User", Results(ids))
    BY <1>7 DEF translate_item
  <2>. QED
    BY <1>3, <1>5, <1>7, <2>1
<1>8. CASE item.kind = "Assistant"
  <2> DEFINE pre == IF item.text = "none" THEN <<>> ELSE <<Text>>
             u == Uses(ids)
             c == pre \o u
  <2>1. translate_item(item) = Message("Assistant", c)
    BY <1>8 DEF translate_item
  <2>2. pre \in Seq(BlockType)
    BY <1>2
  <2> HIDE DEF pre, u
  <2>3. c \in Seq(BlockType)
    BY <1>4, <2>2, ConcatProperties DEF u
  <2> HIDE DEF c
  <2>. QED
    BY <1>5, <1>8, <2>1, <2>3
<1>. QED
  BY <1>1, <1>6, <1>7, <1>8 DEF ItemKind

\* Every history is translated to a thread.
LEMMA TranslatedHistory ==
    ASSUME NEW h \in Seq(ItemType)
    PROVE  translate_history(h) \in Threads
<1> DEFINE ms == translate_history(h)
<1>1. Len(h) \in Nat /\ DOMAIN h = 1..Len(h) /\ \A i \in 1..Len(h) : h[i] \in ItemType
  BY LenProperties, ElementOfSeq
<1>2. /\ ms = [i \in 1..Len(h) |-> ms[i]]
      /\ \A i \in 1..Len(h) : ms[i] = translate_item(h[i])
  BY <1>1 DEF translate_history
<1> HIDE DEF ms
<1>3. ASSUME NEW i \in 1..Len(h)
      PROVE  /\ ms[i] \in MessageType
             /\ ms[i].role = "User" => IdsOf(ms[i], "ToolUse") = {}
             /\ ms[i].role = "Assistant" => IdsOf(ms[i], "ToolResult") = {}
  <2> DEFINE x == h[i]
             m == translate_item(x)
  <2>1. x \in ItemType /\ ms[i] = m
    BY <1>1, <1>2, <1>3
  <2> HIDE DEF x
  <2>2. m \in MessageType /\ m.role = IF x.kind = "Assistant" THEN "Assistant" ELSE "User"
    BY <2>1, TranslatedItem
  <2>3. /\ x.kind # "Assistant" => IdsOf(m, "ToolUse") = {}
        /\ x.kind # "ToolResults" => IdsOf(m, "ToolResult") = {}
    BY <2>1, IdsOfItem
  <2> HIDE DEF m
  <2>. QED
    BY <2>1, <2>2, <2>3
<1>4. ms \in [1..Len(h) -> MessageType]
  BY <1>2, <1>3
<1>5. ms \in Seq(MessageType) /\ DOMAIN ms = 1..Len(h)
  BY <1>1, <1>4, SequencesOfLength
<1>. QED
  BY <1>3, <1>5 DEF Threads, ms

\* The histories of the guard's runs are such histories.
LEMMA GuardHistories == BoundedSeq(Items, MaxItems) \subseteq Seq(ItemType)
<1>1. IdSeqs \subseteq Seq(Ids)
  <2> SUFFICES ASSUME NEW s \in BoundedSeq(Ids, MaxIds) PROVE s \in Seq(Ids)
    BY DEF IdSeqs
  <2>1. PICK m \in 0..MaxIds : s \in [1..m -> Ids]
    BY DEF BoundedSeq, SeqOf
  <2>. QED
    BY <2>1, PairingAssumption, SequencesOfLength
<1>2. Items \subseteq ItemType
  <2>1. User("input", {1}) \in ItemType
    BY DEF User, Item, ItemType, ItemKind, TextClass
  <2>2. ASSUME NEW ids \in IdSeqs
        PROVE  /\ ToolResults(ids) \in ItemType
               /\ Assistant("none", ids) \in ItemType /\ Assistant("plain", ids) \in ItemType
    <3>1. ids \in Seq(Ids)
      BY <1>1, <2>2
    <3>. QED
      BY <3>1 DEF ToolResults, Assistant, Item, ItemType, ItemKind, TextClass
  <2> HIDE DEF ItemType
  <2>3. ASSUME NEW x \in Items PROVE x \in ItemType
    BY <2>1, <2>2, <2>3 DEF Items
  <2>. QED
    BY <2>3
<1>3. ASSUME NEW h \in BoundedSeq(Items, MaxItems) PROVE h \in Seq(ItemType)
  <2>1. PICK m \in 0..MaxItems : h \in [1..m -> Items]
    BY <1>3 DEF BoundedSeq, SeqOf
  <2>2. m \in Nat /\ h \in [1..m -> ItemType]
    BY <1>2, <2>1, PairingAssumption
  <2>. QED
    BY <2>2, SequencesOfLength
<1>. QED
  BY <1>3

\* The guard's runs stay within the threads, balanced after the first.
GuardInv == messages \in Threads /\ runs \in Nat /\ SelfHeals

\* However long the histories and however many the ids.
LEMMA GuardInvariance == GuardSpec => []GuardInv
<1>1. GuardInit => GuardInv
  <2> SUFFICES ASSUME GuardInit PROVE GuardInv
    OBVIOUS
  <2>1. PICK h \in BoundedSeq(Items, MaxItems) : messages = translate_history(h)
    BY DEF GuardInit
  <2>2. h \in Seq(ItemType)
    BY GuardHistories
  <2>3. messages \in Threads
    BY <2>1, <2>2, TranslatedHistory
  <2>. QED
    BY <2>3 DEF GuardInit, GuardInv, SelfHeals
<1>2. GuardInv /\ [Preflight]_guardVars => GuardInv'
  <2> SUFFICES ASSUME GuardInv, [Preflight]_guardVars PROVE GuardInv'
    OBVIOUS
  <2>1. CASE Preflight
    <3>1. messages' \in Threads /\ Balanced(messages')
      BY <2>1, GuardBalances DEF GuardInv, Preflight
    <3>. QED
      BY <2>1, <3>1 DEF GuardInv, Preflight, SelfHeals
  <2>2. CASE UNCHANGED guardVars
    BY <2>2 DEF GuardInv, guardVars, SelfHeals
  <2>. QED
    BY <2>1, <2>2
<1>. QED
  BY <1>1, <1>2, PTL DEF GuardSpec

\* What goes out obeys the provider's rule, whatever the history was.
THEOREM SelfHealsHolds == GuardSpec => []SelfHeals
<1>1. GuardInv => SelfHeals
  BY DEF GuardInv
<1>. QED
  BY <1>1, GuardInvariance, PTL

\* The guard reports a repair exactly when it changes the thread, which is
\* exactly when the thread breaks the rule.
THEOREM ReportsExactlyHolds == GuardSpec => ReportsExactly
<1> DEFINE A == /\ (repairs(messages) = {}) <=> Balanced(messages)
                /\ (repairs(messages) = {}) <=> (messages' = messages)
<1>1. GuardInv /\ [Preflight]_guardVars => [A]_guardVars
  <2> SUFFICES ASSUME GuardInv, Preflight PROVE A
    OBVIOUS
  <2>1. messages \in Threads /\ messages' = sanitize_tool_pairing(messages)
    BY DEF GuardInv, Preflight
  <2>2. repairs(messages) = {} <=> Balanced(messages)
    BY <2>1, ReportsIffUnbalanced
  <2>3. Balanced(messages) => messages' = messages
    BY <2>1, BalancedUntouched
  <2>4. Balanced(messages')
    BY <2>1, GuardBalances
  <2>5. messages' = messages => Balanced(messages)
    BY <2>4
  <2>. QED
    BY <2>2, <2>3, <2>5
<1>. QED
  BY <1>1, GuardInvariance, PTL DEF GuardSpec, ReportsExactly

\* What a concatenation starts with is a prefix of it.
LEMMA PrefixOfConcat ==
    ASSUME NEW T, NEW s \in Seq(T), NEW t \in Seq(T)
    PROVE  IsPrefix(s, s \o t) /\ IsPrefix(<<>>, s)
<1> DEFINE r == s \o t
<1>1. /\ r \in Seq(T) /\ Len(r) = Len(s) + Len(t) /\ \A i \in 1..Len(s) : r[i] = s[i]
  BY ConcatContents
<1>2. Len(s) \in Nat /\ Len(t) \in Nat
  BY LenProperties
<1> HIDE DEF r
<1> DEFINE n == Len(s)
           x == SubSeq(s, 1, n)
           y == SubSeq(r, 1, n)
<1>3. \A i \in 1..n : s[i] \in T /\ r[i] \in T
  BY <1>1, <1>2, ElementOfSeq
<1>4. /\ x \in Seq(T) /\ Len(x) = n /\ \A i \in 1..n : x[i] = s[i]
      /\ y \in Seq(T) /\ Len(y) = n /\ \A i \in 1..n : y[i] = r[i]
  <2>1. x = [i \in 1..n |-> s[i]] /\ y = [i \in 1..n |-> r[i]]
    BY <1>1, <1>2
  <2> HIDE DEF x, y, n
  <2>2. x \in [1..n -> T] /\ y \in [1..n -> T] /\ n \in Nat
    BY <1>2, <1>3, <2>1 DEF n
  <2>. QED
    BY <2>1, <2>2, SequencesOfLength
<1>5. x = y
  <2> HIDE DEF x, y, n
  <2>1. Len(x) = Len(y) /\ \A i \in 1..Len(x) : x[i] = y[i]
    BY <1>1, <1>4 DEF n
  <2>. QED
    BY <1>4, <2>1, SeqEqual
<1>6. IsPrefix(s, r)
  BY <1>1, <1>2, <1>5 DEF IsPrefix
<1>7. IsPrefix(<<>>, s)
  <2>1. Len(<<>>) = 0 /\ 0 <= Len(s)
    BY <1>2, EmptySeq
  <2>2. SubSeq(<<>>, 1, 0) = <<>> /\ SubSeq(s, 1, 0) = <<>>
    OBVIOUS
  <2>. QED
    BY <2>1, <2>2 DEF IsPrefix
<1>. QED
  BY <1>6, <1>7 DEF r

\* Every message has a place in the repaired thread, in order, with its role and
\* its honest blocks first; every other place holds answers only.
LEMMA HonestPlaces ==
    ASSUME NEW ms \in Threads
    PROVE  LET out == sanitize_tool_pairing(ms)
           IN  \E place \in [DOMAIN ms -> DOMAIN out] :
                  /\ \A i, j \in DOMAIN ms : i < j => place[i] < place[j]
                  /\ \A i \in DOMAIN ms : /\ out[place[i]].role = ms[i].role
                                          /\ IsPrefix(Honest(ms, i), out[place[i]].content)
                  /\ \A i \in DOMAIN out : (\A j \in DOMAIN ms : place[j] # i) => IsInserted(out, i)
<1> DEFINE n == Len(ms)
           d == drop_orphans(ms)
           out == sanitize_tool_pairing(ms)
<1>1. n \in Nat /\ DOMAIN ms = 1..n /\ \A i \in 1..n : ms[i].content \in Seq(BlockType)
  BY ThreadFacts
<1>2. /\ d \in Threads /\ Len(d) = n /\ Orphanless(d)
      /\ \A i \in 1..n : /\ d[i].role = ms[i].role
                         /\ \/ d[i].content = Honest(ms, i)
                            \/ Honest(ms, i) = <<>> /\ d[i].content = <<Text>>
  BY OrphansDropped, NoOrphans
<1>3. out = synthesize_missing(d)
  BY DEF sanitize_tool_pairing
<1> HIDE DEF d, out, n
<1>4. out \in Seq(MessageType) /\ \E at : Places(d, out, at)
  BY <1>2, <1>3, Synthesized
<1>5. PICK at : Places(d, out, at)
  BY <1>4
<1>6. DOMAIN out = 1..Len(out) /\ Len(out) \in Nat
  BY <1>4, LenProperties
<1>7. /\ at \in [1..(n + 1) -> Nat]
      /\ \A k \in 1..n : /\ at[k] + 1 \in 1..Len(out) /\ out[at[k] + 1] = Extended(d, k)
                         /\ Adds(d, k) => at[k + 1] = at[k] + 2 /\ out[at[k] + 2] = AnswerMessage(d, k)
                         /\ ~Adds(d, k) => at[k + 1] = at[k] + 1
      /\ \A i \in 1..Len(out) : \E k \in 1..n : i = at[k] + 1 \/ (Adds(d, k) /\ i = at[k] + 2)
  BY <1>2, <1>5 DEF Places
<1> DEFINE place == [i \in 1..n |-> at[i] + 1]
<1>8. place \in [DOMAIN ms -> DOMAIN out]
  BY <1>1, <1>6, <1>7
<1>9. \A i \in 1..n : place[i] = at[i] + 1
  OBVIOUS
<1> HIDE DEF place
<1>10. \A i, j \in DOMAIN ms : i < j => place[i] < place[j]
  <2>1. \A k \in 1..n : place[k] \in Nat
    BY <1>1, <1>6, <1>7, <1>9
  <2>2. ASSUME NEW k \in 1..n, k + 1 <= n PROVE place[k] < place[k + 1]
    <3>1. k + 1 \in 1..n /\ k + 1 \in 1..(n + 1) /\ k \in 1..(n + 1)
      BY <1>1, <2>2
    <3>2. at[k] \in Nat /\ at[k + 1] \in Nat
      BY <1>7, <3>1
    <3>3. at[k + 1] = at[k] + 1 \/ at[k + 1] = at[k] + 2
      BY <1>7, <2>2
    <3>4. place[k] = at[k] + 1 /\ place[k + 1] = at[k + 1] + 1
      BY <1>9, <3>1
    <3>. QED
      BY <3>2, <3>3, <3>4
  <2>3. \A i, j \in 1..n : i < j => place[i] < place[j]
    BY <1>1, <2>1, <2>2, Rising
  <2>. QED
    BY <1>1, <2>3
<1>11. ASSUME NEW i \in DOMAIN ms
       PROVE  /\ out[place[i]].role = ms[i].role
              /\ IsPrefix(Honest(ms, i), out[place[i]].content)
  <2> DEFINE e == Extended(d, i)
             c == d[i].content
  <2>1. i \in 1..n /\ out[place[i]] = e
    BY <1>1, <1>7, <1>9, <1>11
  <2>2. c \in Seq(BlockType)
    BY <1>2, <2>1, ThreadFacts
  <2>3. e.role = d[i].role /\ \E t \in Seq(BlockType) : e.content = c \o t
    BY <1>2, <2>1, ExtendedFacts
  <2>4. PICK t \in Seq(BlockType) : e.content = c \o t
    BY <2>3
  <2>5. c = Honest(ms, i) \/ Honest(ms, i) = <<>>
    BY <1>2, <2>1
  <2> DEFINE x == c \o t
  <2>6. x \in Seq(BlockType) /\ IsPrefix(c, x)
    <3> HIDE DEF c
    <3>. QED
      BY <2>2, PrefixOfConcat, ConcatProperties
  <2>7. IsPrefix(<<>>, x)
    <3> HIDE DEF x
    <3>. QED
      BY <2>6, PrefixOfConcat
  <2> HIDE DEF c, x, e
  <2>8. IsPrefix(Honest(ms, i), x)
    BY <2>5, <2>6, <2>7
  <2>. QED
    BY <1>2, <2>1, <2>3, <2>4, <2>8 DEF x
<1>12. ASSUME NEW i \in DOMAIN out, \A j \in DOMAIN ms : place[j] # i
       PROVE  IsInserted(out, i)
  <2>1. PICK k \in 1..n : i = at[k] + 1 \/ (Adds(d, k) /\ i = at[k] + 2)
    BY <1>6, <1>7, <1>12
  <2>2. out[i] = AnswerMessage(d, k)
    BY <1>1, <1>7, <1>9, <1>12, <2>1
  <2>3. LET m == AnswerMessage(d, k) IN \A p \in DOMAIN m.content : m.content[p].type = "ToolResult"
    BY <1>2, AnswerMessageFacts
  <2>. QED
    BY <2>2, <2>3 DEF IsInserted
<1>. QED
  BY <1>8, <1>10, <1>11, <1>12 DEF out

\* A repair costs no text, no tool use and no paired result.
THEOREM KeepsHonestBlocksHolds == GuardSpec => KeepsHonestBlocks
<1> DEFINE A == \E place \in [DOMAIN messages -> DOMAIN messages'] :
                   /\ \A i, j \in DOMAIN messages : i < j => place[i] < place[j]
                   /\ \A i \in DOMAIN messages :
                         /\ messages'[place[i]].role = messages[i].role
                         /\ IsPrefix(Honest(messages, i), messages'[place[i]].content)
                   /\ \A i \in DOMAIN messages' :
                         (\A j \in DOMAIN messages : place[j] # i) => IsInserted(messages', i)
<1>1. GuardInv /\ [Preflight]_guardVars => [A]_guardVars
  <2> SUFFICES ASSUME GuardInv, Preflight PROVE A
    OBVIOUS
  <2>1. messages \in Threads /\ messages' = sanitize_tool_pairing(messages)
    BY DEF GuardInv, Preflight
  <2>. QED
    BY <2>1, HonestPlaces
<1>. QED
  BY <1>1, GuardInvariance, PTL DEF GuardSpec, KeepsHonestBlocks

\* Put together: what this loop sends obeys the provider's rule, and the guard
\* sends it as it is.
THEOREM RequestsPassUntouched ==
    Spec => [](LET thread == translate_history(history)
               IN  Balanced(thread) /\ sanitize_tool_pairing(thread) = thread)
<1> DEFINE Untouched == LET thread == translate_history(history)
                        IN  Balanced(thread) /\ sanitize_tool_pairing(thread) = thread
<1>1. IInv => Untouched
  <2> SUFFICES ASSUME IInv PROVE Untouched
    OBVIOUS
  <2> DEFINE thread == translate_history(history)
  <2>1. history \in Histories /\ history \in Seq(ItemType)
    BY HistoryIsPaired DEF Histories
  <2>2. thread \in Threads /\ repairs(thread) = {}
    BY <2>1, TranslatedHistory, NothingToRepair
  <2> HIDE DEF thread
  <2>3. Balanced(thread)
    BY <2>2, ReportsIffUnbalanced
  <2>4. sanitize_tool_pairing(thread) = thread
    BY <2>2, <2>3, BalancedUntouched
  <2>. QED
    BY <2>3, <2>4 DEF thread
<1>. QED
  BY <1>1, Invariance, PTL
=============================================================================
