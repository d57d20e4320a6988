---------------------------- MODULE Journal_proofs ---------------------------
(***************************************************************************)
(* Proofs about Journal, for files of any length, any number of resumes    *)
(* and any settings of the session: what a crash can cost, what the driver *)
(* writes, that a session nobody killed in the middle of a write is loaded *)
(* balanced, that every request obeys the provider's rule all the same,    *)
(* that a branch is an earlier state of its session, and that a resume     *)
(* remembers what the live session knows.                                  *)
(***************************************************************************)
EXTENDS Journal, AgentLoop_proofs

-----------------------------------------------------------------------------
(***************************************************************************)
(* Reading a file.                                                         *)
(***************************************************************************)
Lines == {c \in [kind : {"user", "assistant", "tool_use", "tool_result"}, text : TextClass,
                 id : Ids \cup {NoId}, about : SUBSET Nat] :
             c.kind \in {"tool_use", "tool_result"} => c.id \in Ids}

Cells == Lines \cup Broken

Files == Seq(Seq(Cells))

\* A tool record joins the last item.
LEMMA ExtendFacts ==
    ASSUME NEW h \in Seq(ItemType), h # <<>>, NEW i \in Ids
    PROVE  LET g == extend_last(h, i)
               n == Len(h)
           IN  /\ g \in Seq(ItemType) /\ Len(g) = n /\ n \in Nat \ {0}
               /\ \A k \in 1..n : k # n => g[k] = h[k]
               /\ g[n] = [h[n] EXCEPT !.ids = Append(h[n].ids, i)]
<1> DEFINE n == Len(h)
           e == [h[n] EXCEPT !.ids = Append(h[n].ids, i)]
           g == extend_last(h, i)
<1>1. n \in Nat \ {0} /\ DOMAIN h = 1..n /\ h \in [1..n -> ItemType]
  BY LenProperties, EmptySeq
<1>2. g = [h EXCEPT ![n] = e]
  BY DEF extend_last
<1>3. h[n] \in ItemType /\ h[n].ids \in Seq(Ids)
  BY <1>1 DEF ItemType
<1>4. Append(h[n].ids, i) \in Seq(Ids)
  BY <1>3, AppendProperties
<1>5. e \in ItemType
  BY <1>3, <1>4 DEF ItemType
<1> HIDE DEF e, g, n
<1>6. /\ g \in [1..n -> ItemType]
      /\ g[n] = e /\ \A k \in 1..n : k # n => g[k] = h[k]
  BY <1>1, <1>2, <1>5
<1>7. g \in Seq(ItemType) /\ Len(g) = n
  BY <1>1, <1>6, SeqDef, LenProperties
<1>. QED
  BY <1>1, <1>6, <1>7 DEF e, g, n

\* What one record makes of a history: one more item, or the last one extended.
LEMMA PushFacts ==
    ASSUME NEW h \in Seq(ItemType), NEW r \in Lines
    PROVE  /\ push(h, r) \in Seq(ItemType)
           /\ \/ \E x \in ItemType : push(h, r) = Append(h, x)
              \/ /\ h # <<>> /\ h[Len(h)].kind # "User"
                 /\ push(h, r) = extend_last(h, r.id) /\ r.id \in Ids
           /\ r.kind = "user" => push(h, r) = Append(h, User(r.text, r.about))
<1>1. /\ r.kind \in {"user", "assistant", "tool_use", "tool_result"} /\ r.text \in TextClass
      /\ r.about \in SUBSET Nat
      /\ r.kind \in {"tool_use", "tool_result"} => r.id \in Ids
  BY DEF Lines
<1>2. User(r.text, r.about) \in ItemType /\ Assistant(r.text, <<>>) \in ItemType
  <2>1. <<>> \in Seq(Ids)
    BY EmptySeq
  <2>. QED
    BY <1>1, <2>1 DEF User, Assistant, Item, ItemType, ItemKind
<1>3. ASSUME r.id \in Ids
      PROVE  Assistant("none", <<r.id>>) \in ItemType /\ ToolResults(<<r.id>>) \in ItemType
  <2>1. <<r.id>> \in Seq(Ids)
    BY <1>3
  <2>. QED
    BY <2>1 DEF Assistant, ToolResults, Item, ItemType, ItemKind, TextClass
<1>4. \A x \in ItemType : Append(h, x) \in Seq(ItemType)
  BY AppendProperties
<1>5. CASE r.kind = "user"
  <2>1. push(h, r) = Append(h, User(r.text, r.about))
    BY <1>5 DEF push
  <2>. QED
    BY <1>2, <1>4, <2>1
<1>6. CASE r.kind = "assistant"
  <2>1. push(h, r) = Append(h, Assistant(r.text, <<>>))
    BY <1>6 DEF push
  <2>. QED
    BY <1>2, <1>4, <1>6, <2>1
<1>7. ASSUME NEW x \in ItemType, NEW kind, kind # "User", r.id \in Ids, r.kind # "user",
             push(h, r) = IF LastIs(h, kind) THEN extend_last(h, r.id) ELSE Append(h, x)
      PROVE  /\ push(h, r) \in Seq(ItemType)
             /\ \/ \E y \in ItemType : push(h, r) = Append(h, y)
                \/ /\ h # <<>> /\ h[Len(h)].kind # "User"
                   /\ push(h, r) = extend_last(h, r.id) /\ r.id \in Ids
  <2>1. CASE LastIs(h, kind)
    <3>1. h # <<>> /\ h[Len(h)].kind # "User" /\ push(h, r) = extend_last(h, r.id)
      BY <1>7, <2>1 DEF LastIs
    <3>2. push(h, r) \in Seq(ItemType)
      <4>1. extend_last(h, r.id) \in Seq(ItemType)
        BY ONLY <1>7, <3>1, ExtendFacts, h \in Seq(ItemType)
      <4>. QED
        BY <3>1, <4>1
    <3>. QED
      BY <1>7, <3>1, <3>2
  <2>2. CASE ~LastIs(h, kind)
    <3>1. push(h, r) = Append(h, x)
      BY <1>7, <2>2
    <3>. QED
      BY <1>4, <3>1
  <2>. QED
    BY <2>1, <2>2
<1>8. CASE r.kind = "tool_use"
  <2>1. push(h, r) = IF LastIs(h, "Assistant") THEN extend_last(h, r.id)
                     ELSE Append(h, Assistant("none", <<r.id>>))
    BY <1>8 DEF push
  <2>2. r.id \in Ids /\ r.kind # "user"
    BY <1>1, <1>8
  <2>. QED
    BY <1>3, <1>7, <2>1, <2>2
<1>9. CASE r.kind = "tool_result"
  <2>1. push(h, r) = IF LastIs(h, "ToolResults") THEN extend_last(h, r.id)
                     ELSE Append(h, ToolResults(<<r.id>>))
    BY <1>9 DEF push
  <2>2. r.id \in Ids /\ r.kind # "user"
    BY <1>1, <1>9
  <2>. QED
    BY <1>3, <1>7, <2>1, <2>2
<1>. QED
  BY <1>1, <1>5, <1>6, <1>8, <1>9

\* One line.
LEMMA ReadLineType ==
    ASSUME NEW h \in Seq(ItemType), NEW cells \in Seq(Cells)
    PROVE  /\ read_line(h, cells) \in Seq(ItemType)
           /\ readable(cells) => cells[1] \in Lines /\ read_line(h, cells) = push(h, cells[1])
           /\ ~readable(cells) => read_line(h, cells) = h
<1>1. readable(cells) => cells[1] \in Lines
  <2>1. ASSUME Len(cells) = 1 PROVE cells[1] \in Cells
    <3>1. 1 \in 1..Len(cells)
      BY <2>1
    <3>. QED
      BY <3>1, ElementOfSeq
  <2>. QED
    BY <2>1 DEF readable, Cells
<1>. QED
  BY <1>1, PushFacts DEF read_line

\* The loop of load_session_history.
LEMMA ReplayFacts ==
    ASSUME NEW lines \in Files
    PROVE  /\ replayed(lines) \in [0..Len(lines) -> Seq(ItemType)]
           /\ replayed(lines)[0] = <<>>
           /\ \A k \in 1..Len(lines) :
                 replayed(lines)[k] = read_line(replayed(lines)[k - 1], lines[k])
<1> DEFINE n == Len(lines)
           V == Seq(ItemType)
           X == Seq(Cells)
           F == [p \in V \X X |-> read_line(p[1], p[2])]
           eq(f) == f = [k \in 0..n |-> IF k = 0 THEN <<>> ELSE read_line(f[k - 1], lines[k])]
           after == replayed(lines)
<1>1. n \in Nat /\ lines \in Seq(X) /\ \A k \in 1..n : lines[k] \in X
  BY LenProperties, ElementOfSeq DEF Files
<1>2. F \in [V \X X -> V]
  BY ReadLineType
<1>3. <<>> \in V
  BY EmptySeq
<1>4. \A v \in V, x \in X : F[<<v, x>>] = read_line(v, x) /\ read_line(v, x) \in V
  BY ReadLineType
<1> HIDE DEF F, V, X
<1>5. PICK g \in [0..n -> V] : Loops(g, <<>>, F, lines, n)
  BY <1>1, <1>2, <1>3, LoopExists
<1>6. \A k \in 0..n : g[k] = IF k = 0 THEN <<>> ELSE read_line(g[k - 1], lines[k])
  <2> SUFFICES ASSUME NEW k \in 0..n
               PROVE  g[k] = IF k = 0 THEN <<>> ELSE read_line(g[k - 1], lines[k])
    OBVIOUS
  <2>1. CASE k = 0
    BY <1>5, <2>1 DEF Loops
  <2>2. CASE k # 0
    <3>1. k \in 1..n /\ g[k - 1] \in V /\ lines[k] \in X
      BY <1>1, <2>2
    <3>. QED
      BY <1>4, <1>5, <2>2, <3>1 DEF Loops
  <2>. QED
    BY <2>1, <2>2
<1>7. eq(g)
  <2>1. g = [k \in 0..n |-> g[k]]
    BY <1>5
  <2>. QED
    BY <1>6, <2>1
<1>8. after = CHOOSE f : eq(f)
  BY DEF replayed
<1>9. eq(CHOOSE f : eq(f))
  <2> HIDE DEF eq
  <2>. QED
    BY <1>7
<1>10. eq(after)
  <2> HIDE DEF eq, after
  <2>. QED
    BY <1>8, <1>9
<1> HIDE DEF after
<1>11. \A k \in 0..n : after[k] = IF k = 0 THEN <<>> ELSE read_line(after[k - 1], lines[k])
  BY <1>10
<1>12. after[0] = <<>> /\ \A k \in 1..n : after[k] = read_line(after[k - 1], lines[k])
  BY <1>1, <1>11
<1>13. \A k \in 0..n : after[k] \in V
  <2> DEFINE P == {k \in Nat : k <= n => after[k] \in V}
  <2>1. 0 \in P
    BY <1>3, <1>12
  <2>2. ASSUME NEW k \in Nat, k \in P PROVE k + 1 \in P
    <3> SUFFICES ASSUME k + 1 <= n PROVE after[k + 1] \in V
      OBVIOUS
    <3>1. k + 1 \in 1..n /\ (k + 1) - 1 = k /\ after[k] \in V
      BY <1>1, <2>2
    <3>2. after[k + 1] = read_line(after[k], lines[k + 1])
      BY <1>12, <3>1
    <3>. QED
      BY <1>1, <1>4, <3>1, <3>2
  <2> HIDE DEF P
  <2>3. Nat \subseteq P
    BY <2>1, <2>2, InductionOnNat
  <2>. QED
    BY <1>1, <2>3 DEF P
<1>14. after \in [0..n -> V]
  <2>1. after = [k \in 0..n |-> after[k]]
    BY <1>10
  <2>. QED
    BY <1>13, <2>1
<1>. QED
  BY <1>12, <1>14 DEF after, n, V

\* Only the lines read so far matter.
LEMMA ReplayAgrees ==
    ASSUME NEW a \in Files, NEW b \in Files, NEW m \in Nat, m <= Len(a), m <= Len(b),
           \A k \in 1..m : a[k] = b[k]
    PROVE  \A k \in 0..m : replayed(a)[k] = replayed(b)[k]
<1> DEFINE P == {k \in Nat : k <= m => replayed(a)[k] = replayed(b)[k]}
<1>0. Len(a) \in Nat /\ Len(b) \in Nat
  BY LenProperties DEF Files
<1>1. 0 \in P
  BY ReplayFacts
<1>2. ASSUME NEW k \in Nat, k \in P PROVE k + 1 \in P
  <2> SUFFICES ASSUME k + 1 <= m PROVE replayed(a)[k + 1] = replayed(b)[k + 1]
    OBVIOUS
  <2>1. /\ k + 1 \in 1..m /\ k + 1 \in 1..Len(a) /\ k + 1 \in 1..Len(b) /\ (k + 1) - 1 = k
        /\ replayed(a)[k] = replayed(b)[k]
    BY <1>0, <1>2
  <2>2. /\ replayed(a)[k + 1] = read_line(replayed(a)[k], a[k + 1])
        /\ replayed(b)[k + 1] = read_line(replayed(b)[k], b[k + 1])
    BY <2>1, ReplayFacts
  <2>. QED
    BY <2>1, <2>2
<1> HIDE DEF P
<1>3. Nat \subseteq P
  BY <1>1, <1>2, InductionOnNat
<1>. QED
  BY <1>3 DEF P

Replay(lines) == replayed(lines)[Len(lines)]

\* The history a file holds.
LEMMA ReplayType ==
    ASSUME NEW lines \in Files
    PROVE  Replay(lines) \in Seq(ItemType)
<1>1. Len(lines) \in Nat
  BY LenProperties DEF Files
<1>. QED
  BY <1>1, ReplayFacts DEF Replay

\* What one more line makes of it.
LEMMA ReplayAppend ==
    ASSUME NEW lines \in Files, NEW cells \in Seq(Cells)
    PROVE  /\ Append(lines, cells) \in Files
           /\ Replay(Append(lines, cells)) = read_line(Replay(lines), cells)
<1> DEFINE n == Len(lines)
           a == Append(lines, cells)
<1>1. /\ n \in Nat /\ a \in Files /\ Len(a) = n + 1
      /\ \A k \in 1..n : a[k] = lines[k]
      /\ a[n + 1] = cells
  BY LenProperties, AppendProperties DEF Files
<1> HIDE DEF a, n
<1>2. \A k \in 0..n : replayed(a)[k] = replayed(lines)[k]
  BY <1>1, ReplayAgrees DEF n
<1>3. n + 1 \in 1..Len(a) /\ (n + 1) - 1 = n
  BY <1>1
<1>4. replayed(a)[n + 1] = read_line(replayed(a)[n], a[n + 1])
  BY <1>1, <1>3, ReplayFacts
<1>. QED
  BY <1>1, <1>2, <1>4 DEF Replay, n, a

-----------------------------------------------------------------------------
(***************************************************************************)
(* The session under the REPL driver.  A resumed history need not be       *)
(* paired, so the invariant of AgentLoop is not at hand: this is what is   *)
(* true of a session whatever was loaded.                                  *)
(***************************************************************************)
SessionShape == /\ history \in Seq(ItemType)
                /\ call.text \in TextClass /\ call.uses \in Seq(Ids)
                /\ summary.about \in SUBSET Nat /\ summary.forced = FALSE

\* The locals start out, and are reset to, these.
LEMMA EmptyLocals ==
    /\ NoCall.text \in TextClass /\ NoCall.uses \in Seq(Ids)
    /\ NoSummary.about \in SUBSET Nat /\ NoSummary.forced = FALSE
<1>1. <<>> \in Seq(Ids)
  BY EmptySeq
<1>. QED
  BY <1>1 DEF NoCall, NoSummary, TextClass

\* A request is assembled, or the guard fails the turn.
LEMMA AssembleShape ==
    ASSUME NEW h \in Seq(ItemType), NEW r, NEW retry, Assemble(h, r, retry)
    PROVE  SessionShape' /\ ~ReturnedOk
<1>1. /\ history' = h /\ summary' = NoSummary
      /\ \/ outcome' = "Internal" /\ call' = NoCall
         \/ /\ pc' = "Calling"
            /\ call' = [NoCall EXCEPT !.tools = ~thinking_budget /\ tools_disabled_turns = 0,
                                      !.reminders = r \cup turn_reminders, !.retry = retry]
  BY DEF Assemble
<1>2. call'.text = NoCall.text /\ call'.uses = NoCall.uses
  BY <1>1 DEF NoCall
<1>3. SessionShape'
  BY <1>1, <1>2, EmptyLocals DEF SessionShape
<1>4. ~ReturnedOk
  BY <1>1 DEF ReturnedOk
<1>. QED
  BY <1>3, <1>4

\* The head is drained.
LEMMA DrainShape ==
    ASSUME NEW h \in Seq(ItemType), Drain(h, FALSE)
    PROVE  /\ history' \in Seq(ItemType)
           /\ summary'.about \in SUBSET Nat /\ summary'.forced = FALSE
           /\ ~ReturnedOk
<1>1. PICK c \in cut_points(h) :
        /\ history' = SubSeq(h, c + 1, Len(h))
        /\ summary' = [about  |-> about_of(SubSeq(h, 1, c)),
                       pair   |-> boundaries(h, "User") # {},
                       forced |-> FALSE]
        /\ pc' = "Summarising"
  BY DEF Drain
<1>2. Len(h) \in Nat
  BY LenProperties
<1>3. c \in 1..(Len(h) - 2)
  <2>1. keep_count(h) \in Nat /\ keep_count(h) >= 2
    BY <1>2 DEF keep_count
  <2>2. c \in 1..initial_cut(h)
    BY <1>1 DEF cut_points, boundaries
  <2>. QED
    BY <1>2, <2>1, <2>2 DEF initial_cut
<1>4. SubSeq(h, c + 1, Len(h)) \in Seq(ItemType)
  BY <1>2, <1>3, PieceFacts
<1>5. SubSeq(h, 1, c) \in Seq(ItemType)
  BY <1>2, <1>3, PieceFacts
<1>6. about_of(SubSeq(h, 1, c)) \in SUBSET Nat
  BY <1>5, AboutType
<1>. QED
  BY <1>1, <1>4, <1>6 DEF ReturnedOk

\* The first part of a turn: it returns at once only at the turn budget.
LEMMA AgentTurnShape ==
    ASSUME SessionShape, NEW h \in Seq(ItemType), NEW retry, AgentTurn(h, retry)
    PROVE  SessionShape' /\ (ReturnedOk => budget_reached)
<1>1. CASE StopAtBudget(h)
  BY <1>1 DEF StopAtBudget, SessionShape
<1>2. CASE CompactFirst(h, retry)
  <2>1. Drain(h, FALSE) /\ call' = [NoCall EXCEPT !.retry = retry]
    BY <1>2 DEF CompactFirst
  <2>2. call'.text = NoCall.text /\ call'.uses = NoCall.uses
    BY <2>1 DEF NoCall
  <2>. QED
    BY <2>1, <2>2, DrainShape, EmptyLocals DEF SessionShape
<1>3. CASE CallDirectly(h, retry)
  BY <1>3, AssembleShape DEF CallDirectly
<1>. QED
  BY <1>1, <1>2, <1>3 DEF AgentTurn

\* A finished turn makes the history longer.
LEMMA ObserveShape ==
    ASSUME SessionShape, NEW text \in TextClass, NEW uses \in Seq(Ids), NEW stop,
           NEW blocked \in BOOLEAN, Observe(text, uses, stop, blocked)
    PROVE  SessionShape' /\ Len(history') > Len(history)
<1> DEFINE a == Assistant(text, uses)
           r == ToolResults(uses)
           rec == recorded(text, uses)
           more == follow_up(uses, stop, blocked)
<1>1. a \in ItemType /\ r \in ItemType
  BY DEF Assistant, ToolResults, Item, ItemType, ItemKind, TextClass
<1>2. <<a>> \in Seq(ItemType) /\ <<r>> \in Seq(ItemType) /\ <<>> \in Seq(ItemType) /\ Len(<<a>>) = 1
  BY <1>1, EmptySeq
<1>3. rec = <<a>> \o <<>> \/ rec = <<a>> \o <<r>>
  BY DEF recorded
<1> HIDE DEF a, r
<1>4. rec \in Seq(ItemType) /\ Len(rec) \in Nat /\ Len(rec) >= 1
  <2>1. ASSUME NEW s \in Seq(ItemType)
        PROVE  <<a>> \o s \in Seq(ItemType) /\ Len(<<a>> \o s) \in Nat /\ Len(<<a>> \o s) >= 1
    <3>1. <<a>> \o s \in Seq(ItemType) /\ Len(<<a>> \o s) = 1 + Len(s) /\ Len(s) \in Nat
      BY <1>2, <2>1, ConcatFacts, LenProperties
    <3>. QED
      BY <3>1
  <2>. QED
    BY <1>2, <1>3, <2>1
<1>5. more \in Seq(ItemType) /\ Len(more) \in Nat
  <2>1. \A t \in TextClass : User(t, {}) \in ItemType
    <3>1. <<>> \in Seq(Ids)
      BY EmptySeq
    <3>. QED
      BY <3>1 DEF User, Item, ItemType, ItemKind
  <2>2. \A t \in TextClass : <<User(t, {})>> \in Seq(ItemType)
    BY <2>1
  <2>3. more \in Seq(ItemType)
    BY <1>2, <2>2 DEF follow_up, TextClass
  <2>. QED
    BY <2>3, LenProperties
<1>6. history' = (history \o rec) \o more /\ call' = NoCall /\ summary' = summary
  BY DEF Observe
<1> HIDE DEF rec, more
<1>7. history \o rec \in Seq(ItemType) /\ Len(history \o rec) = Len(history) + Len(rec)
  BY <1>4, ConcatFacts DEF SessionShape
<1>8. history' \in Seq(ItemType) /\ Len(history') = Len(history) + Len(rec) + Len(more)
  BY <1>5, <1>6, <1>7, ConcatFacts
<1>9. Len(history) \in Nat
  BY LenProperties DEF SessionShape
<1>. QED
  BY <1>4, <1>5, <1>6, <1>8, <1>9, EmptyLocals DEF SessionShape

\* A step of the session keeps its shape, and a turn that returns Ok has made
\* the history longer or stopped at the turn budget.
LEMMA SessionStep ==
    ASSUME SessionShape, asked \in Nat, Next
    PROVE  SessionShape' /\ (ReturnedOk => budget_reached \/ Len(history') > Len(history))
<1>1. CASE Submit
  <2> DEFINE u == User("input", {asked + 1})
  <2>1. u \in ItemType
    <3>1. <<>> \in Seq(Ids)
      BY EmptySeq
    <3>. QED
      BY <3>1 DEF User, Item, ItemType, ItemKind, TextClass
  <2>2. AgentTurn(Append(history, u), FALSE)
    BY <1>1 DEF Submit
  <2> HIDE DEF u
  <2>3. Append(history, u) \in Seq(ItemType)
    BY <2>1, AppendProperties DEF SessionShape
  <2>. QED
    BY <2>2, <2>3, AgentTurnShape
<1>2. CASE Resume \/ Retry
  <2>1. PICK retry \in BOOLEAN : AgentTurn(history, retry)
    BY <1>2 DEF Resume, Retry
  <2>2. history \in Seq(ItemType)
    BY DEF SessionShape
  <2>. QED
    BY <2>1, <2>2, AgentTurnShape
<1>3. CASE ForceCompact
  BY <1>3, JournalAssumption DEF ForceCompact
<1>4. CASE SummaryArrives \/ SummaryFails
  <2>1. summary.forced = FALSE /\ history \in Seq(ItemType)
    BY DEF SessionShape
  <2>2. with_summary(history) \in Seq(ItemType)
    <3> DEFINE x == User("header", {})
               y == Item("Assistant", "summary", <<>>, summary.about)
               z == User("summary", summary.about)
    <3>1. x \in ItemType /\ y \in ItemType /\ z \in ItemType
      <4>1. <<>> \in Seq(Ids)
        BY EmptySeq
      <4>. QED
        BY <4>1 DEF SessionShape, User, Item, ItemType, ItemKind, TextClass
    <3>2. with_summary(history) \in {<<x, y>> \o history, <<z>> \o history}
      BY DEF with_summary
    <3> HIDE DEF x, y, z
    <3>3. <<x, y>> \in Seq(ItemType) /\ <<z>> \in Seq(ItemType)
      BY <3>1
    <3>. QED
      BY <2>1, <3>2, <3>3, ConcatFacts
  <2>3. PICK h \in Seq(ItemType) : \E r : AfterSummary(h, r)
    BY <1>4, <2>1, <2>2 DEF SummaryArrives, SummaryFails
  <2>4. PICK r : Assemble(h, r, call.retry)
    BY <2>1, <2>3 DEF AfterSummary
  <2>. QED
    BY <2>4, AssembleShape
<1>5. CASE LlmStep
  <2>1. PICK text \in AnswerTexts, uses \in BoundedSeq(Ids, MaxUses), stop \in StopReason,
             tokens \in 0..1, advice \in SUBSET HookReminders :
                 LlmAnswers(text, uses, stop, tokens, advice)
    BY <1>5 DEF LlmStep
  <2> DEFINE acc == accepted_uses(text, uses)
             fin == final_text(text)
  <2>2. acc \in Seq(Ids) /\ fin \in TextClass /\ is_blocked(text) \in BOOLEAN
    BY Accepted
  <2>3. CASE acc = <<>>
    <3>1. Observe(fin, <<>>, stop, is_blocked(text))
      BY <2>1, <2>3 DEF LlmAnswers
    <3>2. <<>> \in Seq(Ids)
      BY EmptySeq
    <3> HIDE DEF fin
    <3>. QED
      BY <2>2, <3>1, <3>2, ObserveShape
  <2>4. CASE acc # <<>>
    <3>1. /\ pc' = "Executing"
          /\ call' = [call EXCEPT !.text = fin, !.stop = stop, !.uses = acc]
          /\ UNCHANGED <<history, summary>>
      BY <2>1, <2>4 DEF LlmAnswers
    <3> HIDE DEF acc, fin
    <3>2. ~ReturnedOk
      BY <3>1 DEF ReturnedOk
    <3>3. call'.text \in TextClass /\ call'.uses \in Seq(Ids)
      BY <2>2, <3>1
    <3>. QED
      BY <3>1, <3>2, <3>3 DEF SessionShape
  <2>. QED
    BY <2>3, <2>4
<1>6. CASE LlmFails \/ LlmTimeout
  <2>1. ReturnError
    BY <1>6 DEF LlmFails, LlmTimeout
  <2>2. outcome' = "Llm" /\ call' = NoCall /\ UNCHANGED <<history, summary>>
    BY <2>1 DEF ReturnError
  <2>3. ~ReturnedOk
    BY <2>2 DEF ReturnedOk
  <2>. QED
    BY <2>2, <2>3, EmptyLocals DEF SessionShape
<1>7. CASE ToolStep
  <2>1. Observe(call.text, call.uses, call.stop, FALSE)
    BY <1>7 DEF ToolStep, ToolsFinish
  <2>. QED
    BY <2>1, ObserveShape DEF SessionShape
<1>8. CASE Interrupt
  <2>1. history' = pop_user(history) /\ outcome' = "Interrupted" /\ call' = NoCall /\ summary' = NoSummary
    BY <1>8 DEF Interrupt
  <2>2. pop_user(history) \in Seq(ItemType)
    <3>1. history \in Seq(ItemType) /\ Len(history) \in Nat
      BY LenProperties DEF SessionShape
    <3>2. ASSUME history # <<>> PROVE SubSeq(history, 1, Len(history) - 1) \in Seq(ItemType)
      <4>1. Len(history) >= 1
        BY <3>1, <3>2, EmptySeq
      <4>. QED
        BY <3>1, <4>1, PieceFacts
    <3>. QED
      BY <3>1, <3>2 DEF pop_user
  <2>3. ~ReturnedOk
    BY <2>1 DEF ReturnedOk
  <2>. QED
    BY <2>1, <2>2, <2>3, EmptyLocals DEF SessionShape
<1>. QED
  BY <1>1, <1>2, <1>3, <1>4, <1>5, <1>6, <1>7, <1>8 DEF Next

-----------------------------------------------------------------------------
(***************************************************************************)
(* The file, the queue and the shape of the whole state.                   *)
(***************************************************************************)
JournalShape == /\ SessionShape
                /\ asked \in Nat
                /\ file \in Files /\ \A k \in 1..Len(file) : file[k] # <<>>
                /\ queue \in Seq(Lines)
                /\ open \in BOOLEAN /\ open => file # <<>>
                /\ restarts \in Nat

\* The lines of an assistant item.
LEMMA AssistantLinesType ==
    ASSUME NEW item \in ItemType
    PROVE  assistant_lines(item) \in Seq(Lines)
<1> DEFINE a == IF item.text = "none" THEN <<>>
                ELSE <<SessionLine("assistant", item.text, NoId, {})>>
           b == [k \in DOMAIN item.ids |-> tool_use_line(item.ids[k])]
<1>1. item.text \in TextClass /\ item.ids \in Seq(Ids)
  BY DEF ItemType
<1>2. SessionLine("assistant", item.text, NoId, {}) \in Lines
  BY <1>1 DEF SessionLine, Lines
<1>3. a \in Seq(Lines)
  BY <1>2, EmptySeq
<1>4. Len(item.ids) \in Nat /\ DOMAIN item.ids = 1..Len(item.ids)
      /\ \A k \in 1..Len(item.ids) : item.ids[k] \in Ids
  BY <1>1, LenProperties, ElementOfSeq
<1>5. \A i \in Ids : tool_use_line(i) \in Lines
  BY DEF tool_use_line, SessionLine, Lines, TextClass
<1>6. b \in [1..Len(item.ids) -> Lines]
  BY <1>4, <1>5
<1>7. b \in Seq(Lines)
  BY <1>4, <1>6, SeqDef
<1>8. assistant_lines(item) = a \o b
  BY DEF assistant_lines
<1> HIDE DEF a, b
<1>. QED
  BY <1>3, <1>7, <1>8, ConcatProperties

\* What the driver queues are lines.
LEMMA PersistedType ==
    ASSUME NEW h \in Seq(ItemType)
    PROVE  persisted(h) \in Seq(Lines)
<1> DEFINE n == Len(h)
           calls == IF n >= 2 /\ h[n - 1].kind = "Assistant" THEN assistant_lines(h[n - 1]) ELSE <<>>
           answers == [k \in DOMAIN h[n].ids |-> result_line(h[n].ids[k])]
<1>1. n \in Nat /\ \A k \in 1..n : h[k] \in ItemType
  BY LenProperties, ElementOfSeq
<1>2. <<>> \in Seq(Lines)
  BY EmptySeq
<1>3. \A k \in 1..n : assistant_lines(h[k]) \in Seq(Lines)
  BY <1>1, AssistantLinesType
<1>4. calls \in Seq(Lines)
  BY <1>1, <1>2, <1>3
<1>5. ASSUME n >= 1 PROVE answers \in Seq(Lines)
  <2> DEFINE ids == h[n].ids
  <2>1. ids \in Seq(Ids)
    BY <1>1, <1>5 DEF ItemType
  <2>2. Len(ids) \in Nat /\ DOMAIN ids = 1..Len(ids) /\ \A k \in 1..Len(ids) : ids[k] \in Ids
    BY <2>1, LenProperties, ElementOfSeq
  <2>3. \A i \in Ids : result_line(i) \in Lines
    BY DEF result_line, SessionLine, Lines, TextClass
  <2>4. answers = [k \in 1..Len(ids) |-> result_line(ids[k])]
    BY <2>2
  <2> HIDE DEF ids, answers
  <2>5. answers \in [1..Len(ids) -> Lines]
    BY <2>2, <2>3, <2>4
  <2>. QED
    BY <2>2, <2>5, SeqDef
<1>6. persisted(h) = IF n >= 1 /\ h[n].kind = "ToolResults" THEN calls \o answers
                     ELSE IF n >= 1 /\ h[n].kind = "Assistant" THEN assistant_lines(h[n])
                     ELSE <<>>
  BY DEF persisted
<1>7. n >= 1 => n \in 1..n
  BY <1>1
<1> HIDE DEF calls, answers, n
<1>8. n >= 1 => calls \o answers \in Seq(Lines)
  BY <1>4, <1>5, ConcatProperties
<1>. QED
  BY <1>2, <1>3, <1>6, <1>7, <1>8

\* Something is appended to the file.
LEMMA PutFacts ==
    ASSUME JournalShape, NEW cell \in Cells, put(cell)
    PROVE  /\ file' \in Files /\ file' # <<>> /\ \A k \in 1..Len(file') : file'[k] # <<>>
           /\ ~open => file' = Append(file, <<cell>>)
           /\ open => LET n == Len(file)
                      IN  /\ n \in Nat \ {0} /\ Len(file') = n
                          /\ \A k \in 1..n : k # n => file'[k] = file[k]
                          /\ file'[n] = Append(file[n], cell)
<1> DEFINE n == Len(file)
<1>1. n \in Nat /\ DOMAIN file = 1..n /\ \A k \in 1..n : file[k] \in Seq(Cells) /\ file[k] # <<>>
  BY LenProperties, ElementOfSeq DEF JournalShape, Files
<1>2. CASE ~open
  <2>1. file' = Append(file, <<cell>>) /\ <<cell>> \in Seq(Cells) /\ <<cell>> # <<>>
    BY <1>2 DEF put
  <2>2. file' \in Files /\ Len(file') = n + 1 /\ file'[n + 1] = <<cell>>
        /\ \A k \in 1..n : file'[k] = file[k]
    BY <2>1, AppendProperties DEF JournalShape, Files
  <2>3. \A k \in 1..n + 1 : file'[k] # <<>>
    BY <1>1, <2>1, <2>2
  <2>4. file' # <<>>
    BY <1>1, <2>2, EmptySeq
  <2>. QED
    BY <1>2, <2>1, <2>2, <2>3, <2>4
<1>3. CASE open
  <2>1. n \in Nat \ {0}
    BY <1>1, <1>3, EmptySeq DEF JournalShape, Files
  <2> DEFINE l == Append(file[n], cell)
  <2>2. l \in Seq(Cells) /\ l # <<>>
    <3>1. l \in Seq(Cells) /\ Len(l) = Len(file[n]) + 1 /\ Len(file[n]) \in Nat
      BY <1>1, <2>1, AppendProperties, LenProperties
    <3>. QED
      BY <3>1, EmptySeq
  <2>3. file' = [file EXCEPT ![n] = l]
    BY <1>3 DEF put
  <2> HIDE DEF l, n
  <2>4. file \in [1..n -> Seq(Cells)]
    BY <1>1, SeqDef DEF JournalShape, Files, n
  <2>5. /\ file' \in [1..n -> Seq(Cells)]
        /\ file'[n] = l /\ \A k \in 1..n : k # n => file'[k] = file[k]
    BY <2>1, <2>2, <2>3, <2>4
  <2>6. file' \in Files /\ Len(file') = n
    BY <2>1, <2>5, SeqDef, LenProperties DEF Files
  <2>7. \A k \in 1..n : file'[k] # <<>>
    BY <1>1, <2>2, <2>5 DEF n
  <2>8. file' # <<>>
    BY <2>1, <2>6, EmptySeq DEF Files
  <2>. QED
    BY <1>3, <2>1, <2>5, <2>6, <2>7, <2>8 DEF l, n
<1>. QED
  BY <1>2, <1>3 DEF JournalShape

\* The count of inputs.
LEMMA AskedStep == asked \in Nat /\ Next => asked' \in Nat
<1> SUFFICES ASSUME asked \in Nat, Next PROVE asked' \in Nat
  OBVIOUS
<1>1. CASE Submit
  BY <1>1 DEF Submit
<1>2. CASE Resume \/ Retry \/ ForceCompact
  BY <1>2 DEF Resume, Retry, ForceCompact
<1>3. CASE SummaryArrives \/ SummaryFails
  BY <1>3 DEF SummaryArrives, SummaryFails, AfterSummary
<1>4. CASE LlmStep
  <2>1. \E text, uses, stop, tokens, advice : LlmAnswers(text, uses, stop, tokens, advice)
    BY <1>4 DEF LlmStep
  <2>2. asked' = asked
    BY <2>1 DEF LlmAnswers, Observe
  <2>. QED
    BY <2>2
<1>5. CASE LlmFails \/ LlmTimeout \/ Interrupt
  BY <1>5 DEF LlmFails, LlmTimeout, ReturnError, Interrupt
<1>6. CASE ToolStep
  <2>1. Observe(call.text, call.uses, call.stop, FALSE)
    BY <1>6 DEF ToolStep, ToolsFinish
  <2>. QED
    BY <2>1 DEF Observe
<1>. QED
  BY <1>1, <1>2, <1>3, <1>4, <1>5, <1>6 DEF Next

\* What a resume loads is a history.
LEMMA LoadType ==
    ASSUME NEW lines \in Files
    PROVE  load_session_history(lines) \in Seq(ItemType)
<1> DEFINE h == Replay(lines)
<1>1. h \in Seq(ItemType) /\ Len(h) \in Nat
  BY ReplayType, LenProperties
<1>2. load_session_history(lines) = drop_unanswered(h)
  BY DEF load_session_history, Replay
<1> HIDE DEF h
<1>3. ASSUME h # <<>> PROVE SubSeq(h, 1, Len(h) - 1) \in Seq(ItemType)
  <2>1. Len(h) >= 1
    BY <1>1, <1>3, EmptySeq
  <2>. QED
    BY <1>1, <2>1, PieceFacts
<1>. QED
  BY <1>1, <1>2, <1>3 DEF drop_unanswered, LastIs

\* The last item is taken off if it is of this kind.
LEMMA PopKind ==
    ASSUME NEW h \in Seq(ItemType), NEW n \in 0..Len(h), NEW kind
    PROVE  pop_kind(SubSeq(h, 1, n), kind) =
              SubSeq(h, 1, IF n >= 1 /\ h[n].kind = kind THEN n - 1 ELSE n)
<1> DEFINE g == SubSeq(h, 1, n)
<1>1. Len(h) \in Nat
  BY LenProperties
<1>2. g \in Seq(ItemType) /\ Len(g) = n /\ \A i \in 1..n : g[i] = h[i]
  BY <1>1, SubSeqProperties
<1>3. LastIs(g, kind) <=> n >= 1 /\ h[n].kind = kind
  <2> HIDE DEF g
  <2>1. g # <<>> <=> n >= 1
    BY <1>2, EmptySeq
  <2>2. n >= 1 => g[n] = h[n]
    BY <1>2
  <2>. QED
    BY <1>2, <2>1, <2>2 DEF LastIs
<1>4. CASE LastIs(g, kind)
  <2>1. n >= 1
    BY <1>3, <1>4
  <2>2. SubSeq(g, 1, n - 1) = SubSeq(h, 1, n - 1)
    <3>1. /\ SubSeq(g, 1, n - 1) \in Seq(ItemType) /\ Len(SubSeq(g, 1, n - 1)) = n - 1
          /\ \A i \in 1..(n - 1) : SubSeq(g, 1, n - 1)[i] = g[i]
      <4> HIDE DEF g
      <4>. QED
        BY <1>1, <1>2, <2>1, SubSeqProperties
    <3>2. /\ SubSeq(h, 1, n - 1) \in Seq(ItemType) /\ Len(SubSeq(h, 1, n - 1)) = n - 1
          /\ \A i \in 1..(n - 1) : SubSeq(h, 1, n - 1)[i] = h[i]
      BY <1>1, <2>1, SubSeqProperties
    <3>. QED
      BY <1>2, <3>1, <3>2, SeqEqual
  <2>3. pop_kind(g, kind) = SubSeq(h, 1, n - 1)
    BY <1>2, <1>4, <2>2 DEF pop_kind
  <2>. QED
    BY <1>3, <1>4, <2>3
<1>5. CASE ~LastIs(g, kind)
  BY <1>3, <1>5 DEF pop_kind
<1>. QED
  BY <1>4, <1>5

\* /retry leaves a piece of the history; it does not cut a pair in two.
LEMMA PoppedPiece ==
    ASSUME NEW h \in Seq(ItemType)
    PROVE  \E n \in 0..Len(h) :
              /\ popped(h) = SubSeq(h, 1, n)
              /\ Paired(h) => n = Len(h) \/ h[n + 1].kind = "Assistant"
<1> DEFINE n == Len(h)
           k == IF n >= 1 /\ h[n].kind = "ToolResults" THEN n - 1 ELSE n
           m == IF k >= 1 /\ h[k].kind = "Assistant" THEN k - 1 ELSE k
<1>1. n \in Nat /\ SubSeq(h, 1, n) = h /\ DOMAIN h = 1..n
  BY LenProperties
<1>2. k \in 0..n /\ m \in 0..n
  BY <1>1
<1>3. pop_kind(h, "ToolResults") = SubSeq(h, 1, k)
  <2>1. n \in 0..n
    BY <1>1
  <2>2. pop_kind(SubSeq(h, 1, n), "ToolResults") = SubSeq(h, 1, k)
    BY <2>1, PopKind
  <2>. QED
    BY <1>1, <2>2
<1> HIDE DEF k
<1>4. pop_kind(SubSeq(h, 1, k), "Assistant") = SubSeq(h, 1, m)
  BY <1>2, PopKind
<1>5. popped(h) = SubSeq(h, 1, m)
  BY <1>3, <1>4 DEF popped
<1>6. ASSUME Paired(h) PROVE m = n \/ h[m + 1].kind = "Assistant"
  <2>1. CASE n >= 1 /\ h[n].kind = "ToolResults"
    <3>1. PairedAt(h, n)
      BY <1>1, <1>6, <2>1 DEF Paired
    <3>2. n > 1 /\ h[n - 1].kind = "Assistant"
      BY <2>1, <3>1 DEF PairedAt
    <3>3. k = n - 1 /\ k >= 1 /\ h[k].kind = "Assistant"
      BY <1>1, <2>1, <3>2 DEF k
    <3>4. m = k - 1 /\ k \in Nat
      BY <1>1, <1>2, <3>3
    <3>5. m + 1 = k
      BY <3>4
    <3>. QED
      BY <3>3, <3>5
  <2>2. CASE ~(n >= 1 /\ h[n].kind = "ToolResults")
    <3>1. k = n
      BY <2>2 DEF k
    <3>2. m = n \/ (m = n - 1 /\ h[n].kind = "Assistant")
      BY <3>1
    <3>3. (n - 1) + 1 = n
      BY <1>1
    <3>. QED
      BY <3>2, <3>3
  <2>. QED
    BY <2>1, <2>2
<1> HIDE DEF m
<1>. QED
  BY <1>2, <1>5, <1>6

LEMMA PoppedType ==
    ASSUME NEW h \in Seq(ItemType)
    PROVE  popped(h) \in Seq(ItemType)
<1>1. PICK n \in 0..Len(h) : popped(h) = SubSeq(h, 1, n)
  BY PoppedPiece
<1>. QED
  BY <1>1, LenProperties, PieceFacts

\* A step keeps the shape of the session, its file and its queue.
LEMMA ShapeStep == JournalShape /\ [JournalNext]_allVars => JournalShape'
<1> SUFFICES ASSUME JournalShape, [JournalNext]_allVars PROVE JournalShape'
  OBVIOUS
<1>0. <<>> \in Seq(Lines)
  BY EmptySeq
<1>1. CASE Type
  <2>1. UNCHANGED <<vars, file, open, restarts>> /\ queue' = <<user_line(asked + 1)>>
    BY <1>1 DEF Type
  <2>2. user_line(asked + 1) \in Lines
    BY DEF JournalShape, user_line, SessionLine, Lines, TextClass
  <2>3. queue' \in Seq(Lines)
    BY <2>1, <2>2
  <2>. QED
    BY <2>1, <2>3 DEF JournalShape, SessionShape, vars
<1>2. CASE AppendLine
  <2>1. /\ queue # <<>> /\ put(Head(queue)) /\ open' = FALSE /\ queue' = Tail(queue)
        /\ UNCHANGED <<vars, restarts>>
    BY <1>2 DEF AppendLine, ends_line
  <2>2. Head(queue) \in Cells /\ Tail(queue) \in Seq(Lines)
    BY <2>1, HeadTailProperties DEF JournalShape, Cells
  <2>. QED
    BY <2>1, <2>2, PutFacts DEF JournalShape, SessionShape, vars
<1>3. CASE Turn
  <2>1. /\ Next /\ UNCHANGED <<file, open, restarts>>
        /\ queue' = IF ReturnedOk /\ ~silent THEN persisted(history') ELSE <<>>
    BY <1>3 DEF Turn
  <2>2. SessionShape' /\ asked' \in Nat
    BY <2>1, SessionStep, AskedStep DEF JournalShape
  <2>3. queue' \in Seq(Lines)
    BY <1>0, <2>1, <2>2, PersistedType DEF SessionShape
  <2>. QED
    BY <2>1, <2>2, <2>3 DEF JournalShape
<1>4. CASE Clear
  <2>1. history' = <<>> /\ UNCHANGED <<call, summary, asked, file, open, queue, restarts>>
    BY <1>4 DEF Clear, journalVars
  <2>2. <<>> \in Seq(ItemType)
    BY EmptySeq
  <2>. QED
    BY <2>1, <2>2 DEF JournalShape, SessionShape
<1>5. CASE Restart
  <2>1. /\ restarts' = restarts + 1 /\ queue' = <<>>
        /\ history' = load_session_history(file')
        /\ call' = NoCall /\ summary' = NoSummary
        /\ asked' = IF typed THEN asked + 1 ELSE asked
    BY <1>5 DEF Restart
  <2>2. \/ UNCHANGED <<file, open>>
        \/ open' = TRUE /\ \E cell \in Cells : put(cell)
    <3>1. queue # <<>> => Head(queue) \in Cells
      BY HeadTailProperties DEF JournalShape, Cells
    <3>2. Torn \in Cells
      BY DEF Cells, Broken
    <3>. QED
      BY <1>5, <3>1, <3>2 DEF Restart
  <2>3. /\ file' \in Files /\ \A k \in 1..Len(file') : file'[k] # <<>>
        /\ open' \in BOOLEAN /\ open' => file' # <<>>
    <3>1. CASE UNCHANGED <<file, open>>
      BY <3>1 DEF JournalShape
    <3>2. CASE open' = TRUE /\ \E cell \in Cells : put(cell)
      BY <3>2, PutFacts
    <3>. QED
      BY <2>2, <3>1, <3>2
  <2>4. SessionShape'
    BY <2>1, <2>3, LoadType, EmptyLocals DEF SessionShape
  <2>5. asked' \in Nat /\ restarts' \in Nat
    BY <2>1 DEF JournalShape
  <2>. QED
    BY <1>0, <2>1, <2>3, <2>4, <2>5 DEF JournalShape
<1>6. CASE SlashRetry
  <2>1. UNCHANGED <<asked, file, open, queue, restarts>>
    BY <1>6 DEF SlashRetry
  <2>2. popped(history) \in Seq(ItemType)
    BY PoppedType DEF JournalShape, SessionShape
  <2>3. CASE AgentTurn(popped(history), FALSE)
    BY <2>1, <2>2, <2>3, AgentTurnShape DEF JournalShape
  <2>4. CASE history' = popped(history) /\ UNCHANGED <<call, summary>>
    BY <2>1, <2>2, <2>4 DEF JournalShape, SessionShape
  <2>. QED
    BY <1>6, <2>3, <2>4 DEF SlashRetry
<1>7. CASE LoseFile
  <2>1. put(Garbled) /\ open' = TRUE /\ queue' = <<>> /\ UNCHANGED <<vars, restarts>>
    BY <1>7 DEF LoseFile
  <2>2. Garbled \in Cells
    BY DEF Cells, Broken
  <2>. QED
    BY <1>0, <2>1, <2>2, PutFacts DEF JournalShape, SessionShape, vars
<1>8. CASE UNCHANGED allVars
  BY <1>8 DEF allVars, vars, journalVars, JournalShape, SessionShape
<1>. QED
  BY <1>1, <1>2, <1>3, <1>4, <1>5, <1>6, <1>7, <1>8 DEF JournalNext

\* The driver's state keeps its shape, whatever file a process starts from.
THEOREM ShapeInvariance == JournalSpec => []JournalShape
<1>1. JournalInit => JournalShape
  <2> SUFFICES ASSUME JournalInit PROVE JournalShape
    OBVIOUS
  <2>1. /\ <<>> \in Seq(ItemType) /\ <<>> \in Files /\ <<>> \in Seq(Lines)
        /\ \A k \in 1..Len(<<>>) : FALSE
    BY EmptySeq DEF Files
  <2>2. SessionShape
    BY <2>1, EmptyLocals DEF JournalInit, Init, SessionShape
  <2>. QED
    BY <2>1, <2>2 DEF JournalInit, Init, JournalShape
<1>. QED
  BY <1>1, ShapeStep, PTL DEF JournalSpec

\* The driver, which does not know what a turn appended and looks at the last
\* items of the history, writes only what is new, except when a turn stopped at
\* the turn budget before it added anything.
THEOREM JournalsOnlyNewsHolds == JournalSpec => JournalsOnlyNews
<1> DEFINE News == (queue = <<>> /\ queue' # <<>> /\ ~typed' /\ Len(history') <= Len(history))
                       => budget_reached
<1>1. JournalShape /\ [JournalNext]_allVars => [News]_allVars
  <2> SUFFICES ASSUME JournalShape, JournalNext, queue = <<>>, queue' # <<>>, ~typed',
                      Len(history') <= Len(history)
               PROVE  budget_reached
    OBVIOUS
  <2>1. ~Type /\ ~AppendLine
    BY DEF Type, AppendLine
  <2>2. ~Clear /\ ~Restart /\ ~SlashRetry /\ ~LoseFile
    BY DEF Clear, Restart, SlashRetry, LoseFile, journalVars
  <2>3. Next /\ ReturnedOk
    BY <2>1, <2>2 DEF JournalNext, Turn
  <2>4. SessionShape' /\ (budget_reached \/ Len(history') > Len(history))
    BY <2>3, SessionStep DEF JournalShape
  <2>5. Len(history) \in Nat /\ Len(history') \in Nat
    BY <2>4, LenProperties DEF JournalShape, SessionShape
  <2>. QED
    BY <2>4, <2>5
<1>. QED
  BY <1>1, ShapeInvariance, PTL DEF JournalSpec, JournalsOnlyNews

-----------------------------------------------------------------------------
(***************************************************************************)
(* What a crash costs.  A file that ends without a newline still has the   *)
(* next line to lose: that is what the invariant sets aside.  A broken     *)
(* character comes last: nothing is written after it.                      *)
(***************************************************************************)
SpoiledOf(f) == UNION {{k} \X DOMAIN f[k] : k \in {i \in DOMAIN f : ~readable(f[i])}}

Reserve == IF ~open THEN 0 ELSE IF readable(file[Len(file)]) THEN 2 ELSE 1

Whole8(cells) == \A c \in DOMAIN cells : cells[c] # Garbled

CostInv == /\ IsFiniteSet(Spoiled)
           /\ loadable(file) => Cardinality(Spoiled) + Reserve <= 2 * restarts
           /\ ~loadable(file) => /\ Cardinality(Spoiled) <= 2 * restarts + 1
                                 /\ \A k \in DOMAIN file : k < Len(file) => Whole8(file[k])

\* A place is spoiled if its line is.
LEMMA SpoiledPlace ==
    ASSUME NEW f
    PROVE  \A p : p \in SpoiledOf(f) <=>
              \E k \in DOMAIN f : \E j \in DOMAIN f[k] : ~readable(f[k]) /\ p = <<k, j>>
BY DEF SpoiledOf

\* One more line.
LEMMA SpoiledAppend ==
    ASSUME NEW f \in Files, NEW cell \in Cells
    PROVE  SpoiledOf(Append(f, <<cell>>)) = IF cell \in Broken THEN SpoiledOf(f) \cup {<<Len(f) + 1, 1>>}
                                            ELSE SpoiledOf(f)
<1> DEFINE n == Len(f)
           g == Append(f, <<cell>>)
<1>1. <<cell>> \in Seq(Cells) /\ DOMAIN <<cell>> = {1} /\ (readable(<<cell>>) <=> cell \notin Broken)
  BY DEF readable
<1>2. /\ n \in Nat /\ DOMAIN f = 1..n /\ g \in Files /\ Len(g) = n + 1
      /\ \A k \in 1..n : g[k] = f[k]
      /\ g[n + 1] = <<cell>>
  BY <1>1, LenProperties, AppendProperties DEF Files
<1> HIDE DEF n, g
<1>3. DOMAIN g = (DOMAIN f) \cup {n + 1} /\ n + 1 \notin DOMAIN f
  BY <1>2, LenProperties DEF Files
<1>4. \A k \in DOMAIN f : g[k] = f[k]
  BY <1>2
<1>5. ASSUME NEW p
      PROVE  p \in SpoiledOf(g) <=> \/ p \in SpoiledOf(f)
                                    \/ ~readable(<<cell>>) /\ p = <<n + 1, 1>>
  <2>1. p \in SpoiledOf(g) <=>
           \/ \E k \in DOMAIN f : \E j \in DOMAIN f[k] : ~readable(f[k]) /\ p = <<k, j>>
           \/ \E j \in DOMAIN <<cell>> : ~readable(<<cell>>) /\ p = <<n + 1, j>>
    BY <1>2, <1>3, <1>4, SpoiledPlace
  <2>2. p \in SpoiledOf(f) <=>
           \E k \in DOMAIN f : \E j \in DOMAIN f[k] : ~readable(f[k]) /\ p = <<k, j>>
    BY SpoiledPlace
  <2>. QED
    BY <1>1, <2>1, <2>2
<1>. QED
  BY <1>1, <1>5 DEF n, g

\* g is f, with its last line continued.
Continued(f, g, n, cell) ==
    /\ f \in Files /\ g \in Files /\ n \in Nat \ {0} /\ Len(f) = n /\ Len(g) = n /\ f[n] # <<>>
    /\ \A k \in 1..n : k # n => g[k] = f[k]
    /\ g[n] = Append(f[n], cell)

\* The last line is continued: it is spoiled then, if it was not before.
LEMMA SpoiledExtend ==
    ASSUME NEW f, NEW g, NEW n, NEW cell \in Cells, Continued(f, g, n, cell)
    PROVE  /\ ~readable(g[n])
           /\ SpoiledOf(g) = SpoiledOf(f) \cup (IF readable(f[n]) THEN {<<n, 1>>} ELSE {})
                                \cup {<<n, Len(f[n]) + 1>>}
<1> DEFINE l == Len(f[n])
<1>0. /\ f \in Files /\ g \in Files /\ n \in Nat \ {0} /\ Len(f) = n /\ Len(g) = n /\ f[n] # <<>>
      /\ \A k \in 1..n : k # n => g[k] = f[k]
      /\ g[n] = Append(f[n], cell)
  BY DEF Continued
<1>1. DOMAIN f = 1..n /\ DOMAIN g = 1..n /\ f[n] \in Seq(Cells) /\ n \in 1..n
  BY <1>0, LenProperties, ElementOfSeq DEF Files
<1>2. l \in Nat /\ l >= 1 /\ DOMAIN f[n] = 1..l
  BY <1>0, <1>1, LenProperties, EmptySeq
<1>3. g[n] \in Seq(Cells) /\ Len(g[n]) = l + 1
  BY <1>0, <1>1, AppendProperties
<1>4. DOMAIN g[n] = 1..(l + 1) /\ ~readable(g[n])
  BY <1>2, <1>3, LenProperties DEF readable
<1> HIDE DEF l
<1>5. readable(f[n]) => l = 1
  BY DEF readable, l
<1>6. DOMAIN g[n] = DOMAIN f[n] \cup {l + 1}
  BY <1>2, <1>4
<1>7. ASSUME NEW p
      PROVE  p \in SpoiledOf(g) <=> \/ p \in SpoiledOf(f)
                                    \/ readable(f[n]) /\ p = <<n, 1>>
                                    \/ p = <<n, l + 1>>
  <2>0. \A k \in DOMAIN f : k # n => g[k] = f[k]
    BY <1>0, <1>1
  <2>1. p \in SpoiledOf(g) <=>
           \/ \E k \in DOMAIN f : k # n /\ \E j \in DOMAIN f[k] : ~readable(f[k]) /\ p = <<k, j>>
           \/ \E j \in DOMAIN f[n] \cup {l + 1} : p = <<n, j>>
    <3>1. p \in SpoiledOf(g) <=>
             \/ \E k \in DOMAIN f : k # n /\ \E j \in DOMAIN g[k] : ~readable(g[k]) /\ p = <<k, j>>
             \/ \E j \in DOMAIN g[n] : ~readable(g[n]) /\ p = <<n, j>>
      <4> DEFINE Place(k) == \E j \in DOMAIN g[k] : ~readable(g[k]) /\ p = <<k, j>>
      <4>1. p \in SpoiledOf(g) <=> \E k \in DOMAIN g : Place(k)
        BY SpoiledPlace
      <4>2. DOMAIN g = DOMAIN f /\ n \in DOMAIN g
        BY <1>1
      <4> HIDE DEF Place
      <4>3. (\E k \in DOMAIN g : Place(k)) <=> (\E k \in DOMAIN f : k # n /\ Place(k)) \/ Place(n)
        BY ONLY <4>2
      <4>. QED
        BY <4>1, <4>3 DEF Place
    <3>2. (\E k \in DOMAIN f : k # n /\ \E j \in DOMAIN g[k] : ~readable(g[k]) /\ p = <<k, j>>)
             <=> \E k \in DOMAIN f : k # n /\ \E j \in DOMAIN f[k] : ~readable(f[k]) /\ p = <<k, j>>
      BY <2>0
    <3>. QED
      BY <1>4, <1>6, <3>1, <3>2
  <2>2. p \in SpoiledOf(f) <=>
           \/ \E k \in DOMAIN f : k # n /\ \E j \in DOMAIN f[k] : ~readable(f[k]) /\ p = <<k, j>>
           \/ \E j \in DOMAIN f[n] : ~readable(f[n]) /\ p = <<n, j>>
    BY <1>1, SpoiledPlace
  <2>3. readable(f[n]) => ((\E j \in DOMAIN f[n] : p = <<n, j>>) <=> p = <<n, 1>>)
    BY <1>2, <1>5
  <2>. QED
    BY <2>1, <2>2, <2>3
<1>. QED
  BY <1>4, <1>7 DEF l

\* What is appended to a line that has no end costs no more than was set aside.
LEMMA CostPut ==
    ASSUME JournalShape, CostInv, NEW cell \in Cells, put(cell)
    PROVE  /\ IsFiniteSet(Spoiled') /\ Cardinality(Spoiled') \in Nat /\ Cardinality(Spoiled) \in Nat
           /\ ~open => /\ Cardinality(Spoiled') <= Cardinality(Spoiled) + (IF cell \in Broken THEN 1 ELSE 0)
                       /\ readable(file'[Len(file')]) <=> cell \notin Broken
           /\ open => /\ Cardinality(Spoiled') <= Cardinality(Spoiled) + Reserve
                      /\ ~readable(file'[Len(file')])
<1>1. Spoiled = SpoiledOf(file) /\ Spoiled' = SpoiledOf(file')
  BY DEF Spoiled, SpoiledOf
<1>2. IsFiniteSet(Spoiled) /\ Cardinality(Spoiled) \in Nat
  BY FS_CardinalityType DEF CostInv
<1>3. ASSUME NEW S, IsFiniteSet(S), NEW x
      PROVE  /\ IsFiniteSet(S \cup {x}) /\ Cardinality(S \cup {x}) \in Nat /\ Cardinality(S) \in Nat
             /\ Cardinality(S \cup {x}) <= Cardinality(S) + 1
  BY <1>3, FS_AddElement, FS_CardinalityType
<1>4. CASE ~open
  <2>1. file' = Append(file, <<cell>>) /\ file \in Files
    BY <1>4, PutFacts DEF JournalShape
  <2>2. Spoiled' = IF cell \in Broken THEN Spoiled \cup {<<Len(file) + 1, 1>>} ELSE Spoiled
    BY <1>1, <2>1, SpoiledAppend
  <2>3. /\ IsFiniteSet(Spoiled') /\ Cardinality(Spoiled') \in Nat
        /\ Cardinality(Spoiled') <= Cardinality(Spoiled) + (IF cell \in Broken THEN 1 ELSE 0)
    <3>1. CASE cell \in Broken
      <4>1. Spoiled' = Spoiled \cup {<<Len(file) + 1, 1>>}
        BY <2>2, <3>1
      <4>. QED
        BY <1>2, <1>3, <3>1, <4>1
    <3>2. CASE cell \notin Broken
      <4>1. Spoiled' = Spoiled
        BY <2>2, <3>2
      <4>. QED
        BY <1>2, <3>2, <4>1
    <3>. QED
      BY <3>1, <3>2
  <2>4. file'[Len(file')] = <<cell>>
    <3>1. <<cell>> \in Seq(Cells) /\ Len(file) \in Nat
      BY <2>1, LenProperties DEF Files
    <3>. QED
      BY <2>1, <3>1, AppendProperties DEF Files
  <2>5. readable(file'[Len(file')]) <=> cell \notin Broken
    BY <2>4 DEF readable
  <2>. QED
    BY <1>2, <1>4, <2>3, <2>5
<1>5. CASE open
  <2> DEFINE n == Len(file)
             x == <<n, 1>>
             y == <<n, Len(file[n]) + 1>>
  <2>1. /\ n \in Nat \ {0} /\ Len(file') = n /\ file \in Files /\ file' \in Files
        /\ \A k \in 1..n : k # n => file'[k] = file[k]
        /\ file'[n] = Append(file[n], cell) /\ file[n] # <<>>
    BY <1>5, PutFacts DEF JournalShape
  <2>2. /\ ~readable(file'[n])
        /\ SpoiledOf(file') = SpoiledOf(file) \cup (IF readable(file[n]) THEN {x} ELSE {}) \cup {y}
    <3>1. Continued(file, file', n, cell)
      BY <2>1 DEF Continued
    <3>. QED
      BY <3>1, SpoiledExtend
  <2> DEFINE S == Spoiled \cup {x}
  <2>3. Reserve = IF readable(file[n]) THEN 2 ELSE 1
    BY <1>5 DEF Reserve
  <2> HIDE DEF x, y
  <2>4. CASE readable(file[n])
    <3>1. Spoiled' = S \cup {y}
      BY <1>1, <2>2, <2>4
    <3>2. IsFiniteSet(S) /\ Cardinality(S) \in Nat /\ Cardinality(S) <= Cardinality(Spoiled) + 1
      BY <1>2, <1>3
    <3> HIDE DEF S
    <3>3. /\ IsFiniteSet(Spoiled') /\ Cardinality(Spoiled') \in Nat
          /\ Cardinality(Spoiled') <= Cardinality(S) + 1
      BY <1>3, <3>1, <3>2
    <3>. QED
      BY <1>2, <1>5, <2>1, <2>2, <2>3, <2>4, <3>2, <3>3
  <2>5. CASE ~readable(file[n])
    <3>1. Spoiled' = Spoiled \cup {y}
      BY <1>1, <2>2, <2>5
    <3>2. /\ IsFiniteSet(Spoiled') /\ Cardinality(Spoiled') \in Nat
          /\ Cardinality(Spoiled') <= Cardinality(Spoiled) + 1
      BY <1>2, <1>3, <3>1
    <3>. QED
      BY <1>2, <1>5, <2>1, <2>2, <2>3, <2>5, <3>2
  <2>. QED
    BY <2>4, <2>5
<1>. QED
  BY <1>4, <1>5 DEF JournalShape

\* l is what was in the last line of g before the cell was put there.
PutOn(f, g, cell, l) ==
    /\ l \in Seq(Cells) /\ Whole8(l)
    /\ Len(g) \in 1..(Len(f) + 1) /\ g[Len(g)] = Append(l, cell)
    /\ \A k \in 1..Len(g) : k < Len(g) => k \in 1..Len(f) /\ g[k] = f[k]

\* What is appended touches the last line alone.
LEMMA LoadablePut ==
    ASSUME JournalShape, loadable(file), NEW cell \in Cells, put(cell)
    PROVE  /\ \A k \in DOMAIN file' : k < Len(file') => Whole8(file'[k])
           /\ cell # Garbled => loadable(file')
           /\ cell = Garbled => ~loadable(file')
<1> DEFINE n == Len(file)
<1>1. /\ file \in Files /\ n \in Nat /\ DOMAIN file = 1..n /\ file' \in Files
      /\ DOMAIN file' = 1..Len(file')
      /\ \A k \in 1..n : file[k] \in Seq(Cells)
  BY PutFacts, LenProperties, ElementOfSeq DEF JournalShape, Files
<1>2. \A k \in 1..n : Whole8(file[k])
  BY <1>1 DEF loadable, Whole8
<1>3. \E l : PutOn(file, file', cell, l)
  <2>1. CASE ~open
    <3> DEFINE e == <<>>
    <3>1. file' = Append(file, <<cell>>) /\ <<cell>> \in Seq(Cells) /\ file \in Seq(Seq(Cells))
      <4>1. file' = Append(file, <<cell>>)
        BY <2>1, PutFacts
      <4>2. <<cell>> \in Seq(Cells) /\ file \in Seq(Seq(Cells))
        BY <1>1 DEF Files
      <4>. QED
        BY <4>1, <4>2
    <3>2. /\ Len(file') = n + 1 /\ file'[n + 1] = <<cell>>
          /\ \A k \in 1..n : file'[k] = file[k]
      BY <3>1, AppendProperties
    <3>3. e \in Seq(Cells) /\ Whole8(e) /\ Append(e, cell) = <<cell>>
      BY EmptySeq DEF Whole8
    <3> HIDE DEF e, n
    <3>4. \A k \in 1..Len(file') : k < Len(file') => k \in 1..n /\ file'[k] = file[k]
      BY <1>1, <3>2
    <3>5. Len(file') \in 1..(n + 1) /\ file'[Len(file')] = Append(e, cell)
      BY <1>1, <3>2, <3>3
    <3>6. PutOn(file, file', cell, e)
      BY <3>3, <3>4, <3>5 DEF PutOn, n
    <3>. QED
      BY <3>6
  <2>2. CASE open
    <3>1. /\ n \in Nat \ {0} /\ Len(file') = n
          /\ \A k \in 1..n : k # n => file'[k] = file[k]
          /\ file'[n] = Append(file[n], cell)
      BY <2>2, PutFacts
    <3>2. n \in 1..n
      BY <3>1
    <3>3. Whole8(file[n]) /\ file[n] \in Seq(Cells)
      BY <1>1, <1>2, <3>2
    <3>4. /\ Len(file') \in 1..(n + 1) /\ file'[Len(file')] = Append(file[n], cell)
          /\ \A k \in 1..Len(file') : k < Len(file') => k \in 1..n /\ file'[k] = file[k]
      BY <3>1
    <3>5. PutOn(file, file', cell, file[n])
      BY <3>3, <3>4 DEF PutOn
    <3>. QED
      BY <3>5
  <2>. QED
    BY <2>1, <2>2 DEF JournalShape
<1>12. PICK l : PutOn(file, file', cell, l)
  BY <1>3
<1>4. /\ Len(file') \in 1..(n + 1) /\ file'[Len(file')] = Append(l, cell) /\ l \in Seq(Cells)
      /\ Whole8(l)
      /\ \A k \in 1..Len(file') : k < Len(file') => k \in 1..n /\ file'[k] = file[k]
  BY <1>12 DEF PutOn
<1> DEFINE m == Len(file')
           g == Append(l, cell)
<1>5. m \in 1..m /\ m \in Nat
  BY <1>1, <1>4
<1>6. /\ Len(l) \in Nat /\ DOMAIN l = 1..Len(l) /\ DOMAIN g = 1..(Len(l) + 1)
      /\ (\A c \in 1..Len(l) : g[c] = l[c]) /\ g[Len(l) + 1] = cell
  BY <1>4, LenProperties, AppendProperties
<1>7. Whole8(g) <=> cell # Garbled
  <2> HIDE DEF g
  <2>1. Len(l) + 1 \in DOMAIN g
    BY <1>6
  <2>2. \A c \in DOMAIN g : c \in DOMAIN l \/ c = Len(l) + 1
    BY <1>6
  <2>. QED
    BY <1>4, <1>6, <2>1, <2>2 DEF Whole8
<1>8. \A k \in DOMAIN file' : k < m => Whole8(file'[k])
  BY <1>1, <1>2, <1>4
<1>9. loadable(file') <=> \A k \in DOMAIN file' : Whole8(file'[k])
  BY DEF loadable, Whole8
<1>10. \A k \in DOMAIN file' : k < m \/ k = m
  BY <1>1, <1>5
<1>11. file'[m] = g /\ m \in DOMAIN file'
  BY <1>1, <1>4, <1>5
<1> HIDE DEF m, g
<1>. QED
  BY <1>7, <1>8, <1>9, <1>10, <1>11 DEF m

\* Only a restart sets something aside, and it sets aside no more than two places.
LEMMA CostStep == JournalShape /\ CostInv /\ [JournalNext]_allVars => CostInv'
<1> SUFFICES ASSUME JournalShape, CostInv, [JournalNext]_allVars PROVE CostInv'
  OBVIOUS
<1>1. CASE UNCHANGED <<file, open, restarts>>
  BY <1>1 DEF CostInv, Spoiled, Reserve, loadable, Whole8
<1>2. CASE Type \/ Turn \/ SlashRetry \/ Clear \/ UNCHANGED allVars
  <2>1. UNCHANGED <<file, open, restarts>>
    BY <1>2 DEF Type, Turn, SlashRetry, Clear, allVars, journalVars
  <2>. QED
    BY <1>1, <2>1
<1>3. ASSUME loadable(file)
      PROVE  /\ restarts \in Nat /\ Reserve \in {0, 1, 2} /\ IsFiniteSet(Spoiled)
             /\ Cardinality(Spoiled) \in Nat /\ Cardinality(Spoiled) + Reserve <= 2 * restarts
  BY <1>3, FS_CardinalityType DEF JournalShape, CostInv, Reserve
<1>4. CASE loadable(file) /\ AppendLine
  <2>1. queue # <<>> /\ put(Head(queue)) /\ open' = FALSE /\ restarts' = restarts
    BY <1>4 DEF AppendLine, ends_line
  <2>2. Head(queue) \in Lines
    BY <2>1, HeadTailProperties DEF JournalShape
  <2>3. Head(queue) \in Cells /\ Head(queue) \notin Broken /\ Head(queue) # Garbled
    BY <2>2 DEF Cells, Lines, Broken, Torn, Garbled, SessionLine
  <2>4. /\ IsFiniteSet(Spoiled') /\ Cardinality(Spoiled') \in Nat
        /\ Cardinality(Spoiled') <= Cardinality(Spoiled) + Reserve
    BY <1>3, <1>4, <2>1, <2>3, CostPut DEF JournalShape
  <2>5. Reserve' = 0
    BY <2>1 DEF Reserve
  <2>6. loadable(file')
    BY <1>4, <2>1, <2>3, LoadablePut
  <2>7. loadable(file)'
    BY <2>6
  <2>8. Cardinality(Spoiled') + Reserve' <= 2 * restarts'
    BY <1>3, <1>4, <2>1, <2>4, <2>5
  <2>. QED
    BY <2>4, <2>7, <2>8 DEF CostInv
<1>5. CASE loadable(file) /\ Restart /\ ~UNCHANGED <<file, open>>
  <2>1. restarts' = restarts + 1
    BY <1>5 DEF Restart
  <2>2. PICK cell \in {Torn, Head(queue)} : queue # <<>> /\ put(cell) /\ open' = TRUE
    BY <1>5 DEF Restart
  <2>3. cell \in Cells /\ cell # Garbled
    <3>1. Head(queue) \in Lines
      BY <2>2, HeadTailProperties DEF JournalShape
    <3>. QED
      BY <2>2, <3>1 DEF Cells, Lines, Broken, Torn, Garbled, SessionLine
  <2>4. Reserve' = IF readable(file'[Len(file')]) THEN 2 ELSE 1
    BY <2>2 DEF Reserve
  <2>5. /\ IsFiniteSet(Spoiled') /\ Cardinality(Spoiled') \in Nat
        /\ open => /\ Cardinality(Spoiled') <= Cardinality(Spoiled) + Reserve
                   /\ ~readable(file'[Len(file')])
    BY <2>2, <2>3, CostPut
  <2>6. ASSUME ~open
        PROVE  /\ Cardinality(Spoiled') <= Cardinality(Spoiled) + (IF cell \in Broken THEN 1 ELSE 0)
               /\ readable(file'[Len(file')]) <=> cell \notin Broken
    BY <2>2, <2>3, <2>6, CostPut
  <2>7. Cardinality(Spoiled') + Reserve' <= Cardinality(Spoiled) + Reserve + 2
    <3>1. CASE open
      <4>1. Cardinality(Spoiled') <= Cardinality(Spoiled) + Reserve /\ Reserve' = 1
        BY <2>4, <2>5, <3>1
      <4>. QED
        BY <1>3, <1>5, <2>5, <4>1
    <3>2. CASE ~open
      <4>1. CASE cell \in Broken
        <5>1. Cardinality(Spoiled') <= Cardinality(Spoiled) + 1 /\ Reserve' = 1
          BY <2>4, <2>6, <3>2, <4>1
        <5>. QED
          BY <1>3, <1>5, <2>5, <5>1
      <4>2. CASE cell \notin Broken
        <5>1. Cardinality(Spoiled') <= Cardinality(Spoiled) + 0 /\ Reserve' = 2
          BY <2>4, <2>6, <3>2, <4>2
        <5>. QED
          BY <1>3, <1>5, <2>5, <5>1
      <4>. QED
        BY <4>1, <4>2
    <3>. QED
      BY <3>1, <3>2 DEF JournalShape
  <2>8. Reserve' \in Nat
    BY <2>4
  <2>9. loadable(file')
    BY <1>5, <2>2, <2>3, LoadablePut
  <2>10. loadable(file)'
    BY <2>9
  <2>11. Cardinality(Spoiled') + Reserve' <= 2 * restarts'
    BY <1>3, <1>5, <2>1, <2>5, <2>7, <2>8
  <2>. QED
    BY <2>5, <2>10, <2>11 DEF CostInv
<1>6. CASE loadable(file) /\ Restart /\ UNCHANGED <<file, open>>
  <2>1. restarts' = restarts + 1 /\ Spoiled' = Spoiled /\ Reserve' = Reserve /\ loadable(file)'
    BY <1>6 DEF Restart, Spoiled, Reserve
  <2>2. Cardinality(Spoiled') + Reserve' <= 2 * restarts'
    BY <1>3, <1>6, <2>1
  <2>3. IsFiniteSet(Spoiled')
    BY <1>3, <1>6, <2>1
  <2>. QED
    BY <2>1, <2>2, <2>3 DEF CostInv
<1>7. CASE loadable(file) /\ LoseFile
  <2>1. put(Garbled) /\ restarts' = restarts /\ Garbled \in Cells /\ Garbled \in Broken
    BY <1>7 DEF LoseFile, Cells, Broken
  <2>2. /\ IsFiniteSet(Spoiled') /\ Cardinality(Spoiled') \in Nat
        /\ Cardinality(Spoiled') <= Cardinality(Spoiled) + 1 \/ Cardinality(Spoiled') <= Cardinality(Spoiled) + Reserve
    BY <2>1, CostPut DEF JournalShape
  <2>3. Cardinality(Spoiled') <= 2 * restarts' + 1
    BY <1>3, <1>7, <2>1, <2>2
  <2>4. ~loadable(file') /\ \A k \in DOMAIN file' : k < Len(file') => Whole8(file'[k])
    BY <1>7, <2>1, LoadablePut
  <2>5. ~loadable(file)' /\ (\A k \in DOMAIN file : k < Len(file) => Whole8(file[k]))'
    BY <2>4 DEF Whole8
  <2>. QED
    BY <2>2, <2>3, <2>5 DEF CostInv
<1>. QED
  BY <1>2, <1>4, <1>5, <1>6, <1>7 DEF JournalNext

\* A process that dies in the middle of a line spoils that line and the one the
\* next process appends to it, and nothing else, however often the session is
\* resumed; unless it dies inside a character.  Then no process can load the file,
\* although the character is in its last line and the others are as they were.
THEOREM CrashCostHolds == JournalSpec => []CrashCost
<1>1. JournalInit => CostInv
  <2> SUFFICES ASSUME JournalInit PROVE CostInv
    OBVIOUS
  <2>1. Spoiled = {} /\ loadable(file)
    BY DEF JournalInit, Spoiled, loadable
  <2>2. Reserve = 0 /\ restarts = 0
    BY DEF JournalInit, Reserve
  <2>. QED
    BY <2>1, <2>2, FS_EmptySet DEF CostInv
<1>2. JournalShape /\ CostInv => CrashCost
  BY FS_CardinalityType DEF JournalShape, CostInv, CrashCost, Reserve, Whole8
<1>3. JournalShape /\ CostInv /\ [JournalNext]_allVars => CostInv'
  BY CostStep
<1>. QED
  BY <1>1, <1>2, <1>3, ShapeInvariance, PTL DEF JournalSpec

-----------------------------------------------------------------------------
(***************************************************************************)
(* A branch.  As long as the copy goes on it loads what the session had    *)
(* loaded at the same line; it ends at a user line, and what the session   *)
(* loads from there on leaves the items before that line as they are.      *)
(***************************************************************************)
Branches == [kept : Files, exchanges : Nat, ended : BOOLEAN]

NoBranch == [kept |-> <<>>, exchanges |-> 0, ended |-> FALSE]

\* One line is copied, skipped, or ends the copy.
LEMMA CopyLineFacts ==
    ASSUME NEW b \in Branches, NEW line \in Seq(Cells), NEW at_turn \in Nat
    PROVE  LET c == copy_line(b, line, at_turn)
           IN  /\ c \in Branches
               /\ b.ended => c = b
               /\ ~b.ended => \/ ~c.ended /\ c.kept = Append(b.kept, line)
                              \/ ~c.ended /\ c.kept = b.kept /\ ~readable(line)
                              \/ /\ c.ended /\ c.kept = b.kept
                                 /\ readable(line) /\ line[1].kind = "user"
<1> DEFINE c == copy_line(b, line, at_turn)
           m == b.exchanges + (IF KindOf(line) = "assistant" THEN 1 ELSE 0)
<1>1. Append(b.kept, line) \in Files
  BY AppendProperties DEF Branches, Files
<1>2. b.exchanges \in Nat /\ b.kept \in Files /\ b.ended \in BOOLEAN /\ m \in Nat
  BY DEF Branches
<1>3. CASE b.ended
  BY <1>3 DEF copy_line
<1>4. CASE ~b.ended /\ b.exchanges < at_turn
  <2>1. c = [b EXCEPT !.kept = Append(b.kept, line), !.exchanges = m]
    BY <1>4 DEF copy_line
  <2> HIDE DEF c, m
  <2>2. c \in Branches /\ c.kept = Append(b.kept, line) /\ c.ended = b.ended
    BY <1>1, <1>2, <2>1 DEF Branches
  <2>. QED
    BY <1>4, <2>2 DEF c
<1>5. CASE ~b.ended /\ ~(b.exchanges < at_turn) /\ ~readable(line)
  <2>1. c = b
    BY <1>5 DEF copy_line
  <2>. QED
    BY <1>5, <2>1
<1>6. CASE ~b.ended /\ ~(b.exchanges < at_turn) /\ readable(line) /\ stops_at(line)
  <2>1. c = [b EXCEPT !.ended = TRUE]
    BY <1>6 DEF copy_line
  <2> HIDE DEF c
  <2>2. c \in Branches /\ c.kept = b.kept /\ c.ended
    BY <1>2, <2>1 DEF Branches
  <2>3. line[1].kind = "user"
    BY <1>6 DEF stops_at, KindOf
  <2>. QED
    BY <1>6, <2>2, <2>3 DEF c
<1>7. CASE ~b.ended /\ ~(b.exchanges < at_turn) /\ readable(line) /\ ~stops_at(line)
  <2>1. c = [b EXCEPT !.kept = Append(b.kept, line)]
    BY <1>7 DEF copy_line
  <2> HIDE DEF c
  <2>2. c \in Branches /\ c.kept = Append(b.kept, line) /\ c.ended = b.ended
    BY <1>1, <1>2, <2>1 DEF Branches
  <2>. QED
    BY <1>7, <2>2 DEF c
<1>. QED
  BY <1>3, <1>4, <1>5, <1>6, <1>7

\* The loop of session_branch.
LEMMA CopyFacts ==
    ASSUME NEW lines \in Files, NEW at_turn \in Nat
    PROVE  /\ copied(lines, at_turn)[0] = NoBranch
           /\ \A k \in 1..Len(lines) :
                 copied(lines, at_turn)[k] = copy_line(copied(lines, at_turn)[k - 1], lines[k], at_turn)
<1> DEFINE n == Len(lines)
           X == Seq(Cells)
           F == [p \in Branches \X X |-> copy_line(p[1], p[2], at_turn)]
           eq(f) == f = [k \in 0..n |-> IF k = 0 THEN [kept |-> <<>>, exchanges |-> 0, ended |-> FALSE]
                                        ELSE copy_line(f[k - 1], lines[k], at_turn)]
           after == copied(lines, at_turn)
<1>1. n \in Nat /\ lines \in Seq(X) /\ \A k \in 1..n : lines[k] \in X
  BY LenProperties, ElementOfSeq DEF Files
<1>2. F \in [Branches \X X -> Branches]
  BY CopyLineFacts
<1>3. NoBranch \in Branches
  <2>1. <<>> \in Files
    BY EmptySeq DEF Files
  <2>. QED
    BY <2>1 DEF NoBranch, Branches
<1>4. \A v \in Branches, x \in X : F[<<v, x>>] = copy_line(v, x, at_turn)
  OBVIOUS
<1> HIDE DEF F, X
<1>5. PICK g \in [0..n -> Branches] : Loops(g, NoBranch, F, lines, n)
  BY <1>1, <1>2, <1>3, LoopExists
<1>6. \A k \in 0..n : g[k] = IF k = 0 THEN NoBranch ELSE copy_line(g[k - 1], lines[k], at_turn)
  <2> SUFFICES ASSUME NEW k \in 0..n
               PROVE  g[k] = IF k = 0 THEN NoBranch ELSE copy_line(g[k - 1], lines[k], at_turn)
    OBVIOUS
  <2>1. CASE k = 0
    BY <1>5, <2>1 DEF Loops
  <2>2. CASE k # 0
    <3>1. k \in 1..n /\ g[k - 1] \in Branches /\ lines[k] \in X
      BY <1>1, <2>2
    <3>. QED
      BY <1>4, <1>5, <2>2, <3>1 DEF Loops
  <2>. QED
    BY <2>1, <2>2
<1>7. eq(g)
  <2>1. g = [k \in 0..n |-> g[k]]
    BY <1>5
  <2>. QED
    BY <1>6, <2>1 DEF NoBranch
<1>8. after = CHOOSE f : eq(f)
  BY DEF copied
<1>9. eq(CHOOSE f : eq(f))
  <2> HIDE DEF eq
  <2>. QED
    BY <1>7
<1>10. eq(after)
  <2> HIDE DEF eq, after
  <2>. QED
    BY <1>8, <1>9
<1> HIDE DEF after
<1>11. \A k \in 0..n : after[k] = IF k = 0 THEN [kept |-> <<>>, exchanges |-> 0, ended |-> FALSE]
                                 ELSE copy_line(after[k - 1], lines[k], at_turn)
  BY <1>10
<1>12. after[0] = NoBranch /\ \A k \in 1..n : after[k] = copy_line(after[k - 1], lines[k], at_turn)
  BY <1>1, <1>11 DEF NoBranch
<1>. QED
  BY <1>12 DEF after, n

\* r has the items of h, then a user item.
Ahead(h, r) == /\ Len(h) < Len(r)
               /\ \A i \in 1..Len(h) : r[i] = h[i]
               /\ r[Len(h) + 1].kind = "User"

\* A record never changes what comes before the last user item, nor that item.
LEMMA AheadStays ==
    ASSUME NEW h \in Seq(ItemType), NEW r \in Seq(ItemType), Ahead(h, r), NEW cells \in Seq(Cells)
    PROVE  Ahead(h, read_line(r, cells))
<1> DEFINE g == read_line(r, cells)
           m == Len(h)
           n == Len(r)
<1>1. m \in Nat /\ n \in Nat /\ m < n /\ m + 1 \in 1..n
  BY LenProperties DEF Ahead
<1>2. CASE ~readable(cells)
  BY <1>2, ReadLineType
<1>3. CASE readable(cells)
  <2>1. cells[1] \in Lines /\ g = push(r, cells[1])
    BY <1>3, ReadLineType
  <2>2. CASE \E x \in ItemType : g = Append(r, x)
    <3>1. PICK x \in ItemType : g = Append(r, x)
      BY <2>2
    <3>2. Len(g) = n + 1 /\ \A i \in 1..n : g[i] = r[i]
      BY <3>1, AppendProperties
    <3> HIDE DEF g, m, n
    <3>3. m < Len(g) /\ \A i \in 1..m : g[i] = r[i]
      BY <1>1, <3>2
    <3>. QED
      BY <1>1, <3>2, <3>3 DEF Ahead, g, m, n
  <2>3. CASE r # <<>> /\ r[Len(r)].kind # "User" /\ cells[1].id \in Ids /\ g = extend_last(r, cells[1].id)
    <3>1. Len(g) = n /\ \A i \in 1..n : i # n => g[i] = r[i]
      <4> DEFINE e == extend_last(r, cells[1].id)
      <4>1. Len(e) = n /\ \A i \in 1..n : i # n => e[i] = r[i]
        BY <2>3, ExtendFacts
      <4> HIDE DEF e
      <4>2. g = e
        BY <2>3 DEF e
      <4> HIDE DEF g
      <4>. QED
        BY <4>1, <4>2
    <3>2. n # m + 1
      BY <2>3 DEF Ahead
    <3> HIDE DEF g, m, n
    <3>3. m < Len(g) /\ \A i \in 1..m + 1 : g[i] = r[i]
      BY <1>1, <3>1, <3>2
    <3>4. \A i \in 1..m : g[i] = r[i]
      BY <1>1, <3>3
    <3>5. g[m + 1] = r[m + 1]
      BY <1>1, <3>3
    <3>. QED
      BY <3>3, <3>4, <3>5 DEF Ahead, g, m, n
  <2>4. \/ \E x \in ItemType : push(r, cells[1]) = Append(r, x)
        \/ /\ r # <<>> /\ r[Len(r)].kind # "User"
           /\ push(r, cells[1]) = extend_last(r, cells[1].id) /\ cells[1].id \in Ids
    BY <2>1, PushFacts
  <2> HIDE DEF g
  <2>. QED
    BY <2>1, <2>2, <2>3, <2>4 DEF g
<1>. QED
  BY <1>2, <1>3

\* What has been copied, against what the session has loaded.
Follows(b, h) == /\ b \in Branches
                 /\ ~b.ended => Replay(b.kept) = h
                 /\ b.ended => Ahead(Replay(b.kept), h)

\* One line.
LEMMA CopyLineFollows ==
    ASSUME NEW b, NEW h \in Seq(ItemType), Follows(b, h), NEW line \in Seq(Cells), NEW at_turn \in Nat
    PROVE  Follows(copy_line(b, line, at_turn), read_line(h, line))
<1> DEFINE c == copy_line(b, line, at_turn)
<1>1. b \in Branches /\ b.kept \in Files /\ Replay(b.kept) \in Seq(ItemType)
  BY ReplayType DEF Follows, Branches
<1>2. /\ c \in Branches
      /\ b.ended => c = b
      /\ ~b.ended => \/ ~c.ended /\ c.kept = Append(b.kept, line)
                     \/ ~c.ended /\ c.kept = b.kept /\ ~readable(line)
                     \/ c.ended /\ c.kept = b.kept /\ readable(line) /\ line[1].kind = "user"
  BY <1>1, CopyLineFacts, SMTT(40)
<1> HIDE DEF c
<1>3. CASE b.ended
  <2>1. Ahead(Replay(b.kept), read_line(h, line))
    BY <1>1, <1>3, AheadStays DEF Follows
  <2>. QED
    BY <1>2, <1>3, <2>1 DEF Follows, c
<1>4. CASE ~b.ended /\ ~c.ended /\ c.kept = Append(b.kept, line)
  <2>1. Replay(c.kept) = read_line(h, line)
    BY <1>1, <1>4, ReplayAppend DEF Follows
  <2>. QED
    BY <1>2, <1>4, <2>1 DEF Follows, c
<1>5. CASE ~b.ended /\ ~c.ended /\ c.kept = b.kept /\ ~readable(line)
  <2>1. Replay(c.kept) = read_line(h, line)
    BY <1>5 DEF Follows, read_line
  <2>. QED
    BY <1>2, <1>5, <2>1 DEF Follows, c
<1>6. CASE ~b.ended /\ c.ended /\ c.kept = b.kept /\ readable(line) /\ line[1].kind = "user"
  <2> DEFINE u == User(line[1].text, line[1].about)
  <2>1. line[1] \in Lines /\ read_line(h, line) = push(h, line[1])
    BY <1>6, ReadLineType
  <2>2. read_line(h, line) = Append(h, u)
    BY <1>6, <2>1, PushFacts
  <2>3. u \in ItemType /\ u.kind = "User"
    <3>1. <<>> \in Seq(Ids)
      BY EmptySeq
    <3>2. line[1].text \in TextClass /\ line[1].about \in SUBSET Nat
      BY <2>1 DEF Lines
    <3>. QED
      BY <3>1, <3>2 DEF User, Item, ItemType, ItemKind
  <2> HIDE DEF u
  <2>4. /\ Len(h) \in Nat /\ Len(Append(h, u)) = Len(h) + 1
        /\ \A i \in 1..Len(h) : Append(h, u)[i] = h[i]
        /\ Append(h, u)[Len(h) + 1] = u
    BY <2>3, AppendProperties, LenProperties
  <2>5. Ahead(h, Append(h, u))
    BY <2>3, <2>4 DEF Ahead
  <2>. QED
    BY <1>2, <1>6, <2>2, <2>5 DEF Follows, c
<1>. QED
  BY <1>2, <1>3, <1>4, <1>5, <1>6

\* All the lines.
LEMMA CopyFollows ==
    ASSUME NEW lines \in Files, NEW at_turn \in Nat
    PROVE  Follows(copied(lines, at_turn)[Len(lines)], Replay(lines))
<1> DEFINE n == Len(lines)
           b == copied(lines, at_turn)
           h == replayed(lines)
           P == {k \in Nat : k <= n => Follows(b[k], h[k])}
<1>1. n \in Nat /\ \A k \in 1..n : lines[k] \in Seq(Cells)
  BY LenProperties, ElementOfSeq DEF Files
<1>2. /\ b[0] = NoBranch
      /\ \A k \in 1..n : b[k] = copy_line(b[k - 1], lines[k], at_turn)
  BY CopyFacts
<1>3. /\ h \in [0..n -> Seq(ItemType)] /\ h[0] = <<>>
      /\ \A k \in 1..n : h[k] = read_line(h[k - 1], lines[k])
  BY ReplayFacts
<1> HIDE DEF b, h, n
<1>4. 0 \in P
  <2>1. <<>> \in Files /\ Len(<<>>) = 0
    BY EmptySeq DEF Files
  <2>2. NoBranch \in Branches /\ NoBranch.kept = <<>> /\ ~NoBranch.ended
    BY <2>1 DEF NoBranch, Branches
  <2>3. Replay(<<>>) = <<>>
    BY <2>1, ReplayFacts DEF Replay
  <2>. QED
    BY <1>2, <1>3, <2>2, <2>3 DEF Follows
<1>5. ASSUME NEW k \in Nat, k \in P PROVE k + 1 \in P
  <2> SUFFICES ASSUME k + 1 <= n PROVE Follows(b[k + 1], h[k + 1])
    OBVIOUS
  <2>1. k + 1 \in 1..n /\ (k + 1) - 1 = k /\ k \in 0..n /\ Follows(b[k], h[k])
    BY <1>1, <1>5
  <2>2. /\ b[k + 1] = copy_line(b[k], lines[k + 1], at_turn)
        /\ h[k + 1] = read_line(h[k], lines[k + 1])
        /\ h[k] \in Seq(ItemType) /\ lines[k + 1] \in Seq(Cells)
    BY <1>1, <1>2, <1>3, <2>1
  <2>. QED
    BY <2>1, <2>2, CopyLineFollows
<1> HIDE DEF P
<1>6. Nat \subseteq P
  BY <1>4, <1>5, InductionOnNat
<1>7. Follows(b[n], h[n])
  BY <1>1, <1>6 DEF P
<1>. QED
  BY <1>7 DEF Replay, b, h, n

\* g is the beginning of h.
Begins(g, h) == Len(g) <= Len(h) /\ \A i \in 1..Len(g) : g[i] = h[i]

\* The beginning, as SequencesExt has it.
LEMMA BeginsIsPrefix ==
    ASSUME NEW g \in Seq(ItemType), NEW h \in Seq(ItemType), Begins(g, h)
    PROVE  IsPrefix(g, h)
<1> DEFINE n == Len(g)
           s == SubSeq(g, 1, n)
           t == SubSeq(h, 1, n)
<1>1. n \in Nat /\ Len(h) \in Nat /\ n <= Len(h) /\ \A i \in 1..n : g[i] = h[i]
  BY LenProperties DEF Begins
<1>2. /\ s \in Seq(ItemType) /\ Len(s) = n /\ \A i \in 1..n : s[i] = g[i]
      /\ t \in Seq(ItemType) /\ Len(t) = n /\ \A i \in 1..n : t[i] = h[i]
  <2>1. /\ 1 \in 1..(n + 1) /\ 1 \in 1..(Len(h) + 1) /\ n \in 0..n /\ n \in 0..Len(h)
        /\ 1 <= n + 1 /\ n - 1 + 1 = n /\ \A i \in 1..n : 1 + i - 1 = i
    BY <1>1
  <2>2. s \in Seq(ItemType) /\ Len(s) = n /\ \A i \in 1..n : s[i] = g[i]
    BY <2>1, PieceFacts
  <2>3. t \in Seq(ItemType) /\ Len(t) = n /\ \A i \in 1..n : t[i] = h[i]
    BY <2>1, PieceFacts
  <2>. QED
    BY <2>2, <2>3
<1> HIDE DEF s, t
<1>3. s = t
  BY <1>1, <1>2, SeqEqual
<1>. QED
  BY <1>1, <1>3 DEF IsPrefix, s, t

\* What is dropped from the end of a history leaves its beginning.
LEMMA DropFacts ==
    ASSUME NEW h \in Seq(ItemType)
    PROVE  /\ drop_unanswered(h) \in Seq(ItemType) /\ Begins(drop_unanswered(h), h)
           /\ Len(drop_unanswered(h)) >= Len(h) - 1
<1>1. Len(h) \in Nat
  BY LenProperties
<1>2. CASE drop_unanswered(h) = h
  BY <1>1, <1>2 DEF Begins
<1>3. CASE h # <<>> /\ drop_unanswered(h) = SubSeq(h, 1, Len(h) - 1)
  <2> DEFINE s == SubSeq(h, 1, Len(h) - 1)
             m == Len(h) - 1
  <2>1. Len(h) >= 1
    BY <1>1, <1>3, EmptySeq
  <2>2. 1 \in 1..(Len(h) + 1) /\ m \in 0..Len(h) /\ 1 <= m + 1 /\ m - 1 + 1 = m
        /\ \A i \in 1..m : 1 + i - 1 = i
    BY <1>1, <2>1
  <2>3. s \in Seq(ItemType) /\ Len(s) = m /\ \A i \in 1..m : s[i] = h[i]
    BY <2>2, PieceFacts
  <2> HIDE DEF s
  <2>. QED
    BY <1>1, <1>3, <2>3 DEF Begins, s
<1>. QED
  BY <1>2, <1>3 DEF drop_unanswered, LastIs

\* A branch of a session is an earlier state of it: wherever it is cut, what its
\* copy loads is the beginning of what the session loads, whatever the file went
\* through.
THEOREM BranchIsEarlierSessionHolds == JournalSpec => []BranchIsEarlierSession
<1>1. JournalShape => BranchIsEarlierSession
  <2> SUFFICES ASSUME JournalShape, NEW n \in 0..MaxInputs
               PROVE  IsPrefix(load_session_history(session_branch(file, n)), Loaded)
    BY Zenon DEF BranchIsEarlierSession
  <2> DEFINE b == copied(file, n)[Len(file)]
             h == Replay(b.kept)
             r == Replay(file)
             g == drop_unanswered(h)
             l == drop_unanswered(r)
  <2>1. n \in Nat /\ file \in Files
    BY DEF JournalShape
  <2>2. Follows(b, r)
    BY <2>1, CopyFollows
  <2>3. h \in Seq(ItemType) /\ r \in Seq(ItemType)
    <3>1. b.kept \in Files
      BY <2>2 DEF Follows, Branches
    <3>. QED
      BY <2>1, <3>1, ReplayType
  <2>4. load_session_history(session_branch(file, n)) = g /\ Loaded = l
    BY DEF session_branch, load_session_history, Loaded, Replay
  <2> HIDE DEF b, h, r, g, l
  <2>5. /\ g \in Seq(ItemType) /\ Begins(g, h) /\ l \in Seq(ItemType) /\ Begins(l, r)
        /\ Len(l) >= Len(r) - 1
    BY <2>3, DropFacts DEF g, l
  <2>6. Len(g) \in Nat /\ Len(h) \in Nat /\ Len(l) \in Nat /\ Len(r) \in Nat
    BY <2>3, <2>5, LenProperties
  <2>7. CASE ~b.ended
    <3>1. g = l
      BY <2>2, <2>7 DEF Follows, g, l, h
    <3>. QED
      BY <2>4, <2>5, <2>6, <3>1, BeginsIsPrefix DEF Begins
  <2>8. CASE b.ended
    <3>1. Len(h) < Len(r) /\ \A i \in 1..Len(h) : r[i] = h[i]
      BY <2>2, <2>8 DEF Follows, Ahead, h
    <3>2. Len(g) <= Len(h) /\ Len(h) <= Len(l)
      BY <2>5, <2>6, <3>1 DEF Begins
    <3>3. \A i \in 1..Len(g) : g[i] = l[i]
      BY <2>5, <2>6, <3>1, <3>2 DEF Begins
    <3>4. Begins(g, l)
      BY <2>6, <3>2, <3>3 DEF Begins
    <3>. QED
      BY <2>4, <2>5, <3>4, BeginsIsPrefix
  <2>. QED
    BY <2>2, <2>7, <2>8 DEF Follows, Branches
<1>. QED
  BY <1>1, ShapeInvariance, PTL

-----------------------------------------------------------------------------
(***************************************************************************)
(* What a session nobody killed in the middle of a write is loaded as.     *)
(*                                                                         *)
(* The file and the queue together always hold a paired history: a turn    *)
(* queues the lines of an answer, of its tool uses and of their results,   *)
(* and however the reader joins them to what is there, each use meets its  *)
(* result.                                                                 *)
(***************************************************************************)

\* An item at the end of a history.
LEMMA AppendItem ==
    ASSUME NEW p \in Seq(ItemType), NEW x \in ItemType
    PROVE  LET h == Append(p, x)
           IN  /\ h \in Seq(ItemType) /\ h # <<>> /\ Len(h) = Len(p) + 1 /\ Len(p) \in Nat
               /\ DOMAIN h = 1..(Len(p) + 1) /\ DOMAIN p = 1..Len(p)
               /\ \A i \in 1..Len(p) : h[i] = p[i]
               /\ h[Len(p) + 1] = x
<1>1. Append(p, x) \in Seq(ItemType) /\ Len(Append(p, x)) = Len(p) + 1
  BY AppendProperties
<1>2. DOMAIN Append(p, x) = 1..(Len(p) + 1) /\ DOMAIN p = 1..Len(p) /\ Len(p) \in Nat
  BY <1>1, LenProperties
<1>. QED
  BY <1>1, <1>2, AppendProperties

\* A paired history and an item that opens no call.
LEMMA AppendPaired ==
    ASSUME NEW p \in Histories, NEW x \in ItemType,
           x.kind = "User" \/ (x.kind = "Assistant" /\ x.ids = <<>>)
    PROVE  Append(p, x) \in Histories
<1> DEFINE h == Append(p, x)
           n == Len(p)
<1>1. /\ h \in Seq(ItemType) /\ Len(h) = n + 1 /\ n \in Nat
      /\ DOMAIN h = 1..(n + 1) /\ DOMAIN p = 1..n
      /\ \A i \in 1..n : h[i] = p[i]
      /\ h[n + 1] = x
  BY AppendItem DEF Histories
<1> HIDE DEF h, n
<1>2. ASSUME NEW i \in 1..n PROVE PairedAt(h, i)
  <2>1. PairedAt(p, i)
    BY <1>1, <1>2 DEF Histories, Paired
  <2>2. i < n => h[i + 1] = p[i + 1]
    BY <1>1
  <2>3. i > 1 => h[i - 1] = p[i - 1]
    BY <1>1
  <2>. QED
    BY <1>1, <2>1, <2>2, <2>3 DEF PairedAt, n
<1>3. PairedAt(h, n + 1)
  BY <1>1 DEF PairedAt
<1>4. \A i \in DOMAIN h : PairedAt(h, i)
  BY <1>1, <1>2, <1>3
<1>. QED
  BY <1>1, <1>4 DEF Histories, Paired, h

\* A paired history, a dispatch and its results.
LEMMA AppendCallPaired ==
    ASSUME NEW p \in Histories, NEW x \in ItemType, NEW y \in ItemType,
           x.kind = "Assistant", y.kind = "ToolResults", x.ids = y.ids
    PROVE  Append(Append(p, x), y) \in Histories
<1> DEFINE n == Len(p)
           g == Append(p, x)
           h == Append(g, y)
<1>1. /\ g \in Seq(ItemType) /\ Len(g) = n + 1 /\ n \in Nat /\ DOMAIN p = 1..n
      /\ \A i \in 1..n : g[i] = p[i]
      /\ g[n + 1] = x
  BY AppendItem DEF Histories
<1> HIDE DEF g, n
<1>2. /\ h \in Seq(ItemType) /\ Len(h) = (n + 1) + 1 /\ DOMAIN h = 1..((n + 1) + 1)
      /\ \A i \in 1..n + 1 : h[i] = g[i]
      /\ h[(n + 1) + 1] = y
  BY <1>1, AppendItem
<1> HIDE DEF h
<1>3. /\ Len(h) = n + 2 /\ DOMAIN h = 1..(n + 2) /\ h[n + 1] = x /\ h[n + 2] = y
      /\ \A i \in 1..n : h[i] = p[i]
  <2>1. (n + 1) + 1 = n + 2 /\ n + 1 \in 1..n + 1 /\ \A i \in 1..n : i \in 1..n + 1
    BY <1>1
  <2>. QED
    BY <1>1, <1>2, <2>1
<1>4. ASSUME NEW i \in 1..n PROVE PairedAt(h, i)
  <2>1. PairedAt(p, i)
    BY <1>1, <1>4 DEF Histories, Paired
  <2>2. i < n => h[i + 1] = p[i + 1]
    BY <1>1, <1>3
  <2>3. i > 1 => h[i - 1] = p[i - 1]
    BY <1>1, <1>3
  <2>4. i < n => i < Len(h)
    BY <1>1, <1>3
  <2>. QED
    BY <1>3, <2>1, <2>2, <2>3, <2>4 DEF PairedAt, n
<1>5. PairedAt(h, n + 1)
  <2>1. n + 1 < Len(h) /\ (n + 1) + 1 = n + 2
    BY <1>1, <1>3
  <2>. QED
    BY <1>3, <2>1 DEF PairedAt
<1>6. PairedAt(h, n + 2)
  <2>1. n + 2 > 1 /\ (n + 2) - 1 = n + 1
    BY <1>1
  <2>. QED
    BY <1>3, <2>1 DEF PairedAt
<1>7. \A i \in DOMAIN h : i \in 1..n \/ i = n + 1 \/ i = n + 2
  BY <1>1, <1>3
<1>. QED
  BY <1>2, <1>4, <1>5, <1>6, <1>7 DEF Histories, Paired, h, g

\* A paired history that ends with an answer: the answer called no tool, and
\* what comes before it is paired too.
LEMMA FrontPaired ==
    ASSUME NEW h \in Histories, LastIs(h, "Assistant")
    PROVE  \E p \in Histories, x \in ItemType :
              h = Append(p, x) /\ x.kind = "Assistant" /\ x.ids = <<>>
<1> DEFINE n == Len(h)
           p == SubSeq(h, 1, n - 1)
           x == h[n]
<1>1. h \in Seq(ItemType) /\ n \in Nat \ {0} /\ DOMAIN h = 1..n /\ x \in ItemType
  BY LenProperties, EmptySeq, ElementOfSeq DEF Histories, LastIs
<1>2. x.kind = "Assistant" /\ x.ids = <<>>
  <2>1. PairedAt(h, n)
    BY <1>1 DEF Histories, Paired
  <2>. QED
    BY <1>1, <2>1 DEF PairedAt, LastIs
<1>3. p \in Seq(ItemType) /\ Len(p) = n - 1 /\ DOMAIN p = 1..(n - 1) /\ \A i \in 1..(n - 1) : p[i] = h[i]
  <2>1. /\ 1 \in 1..(n + 1) /\ n - 1 \in 0..n /\ 1 <= (n - 1) + 1 /\ (n - 1) - 1 + 1 = n - 1
        /\ \A i \in 1..(n - 1) : 1 + i - 1 = i
    BY <1>1
  <2>. QED
    BY <1>1, <2>1, PieceFacts
<1>0. h[n] = x
  OBVIOUS
<1> HIDE DEF p, n, x
<1>4. ASSUME NEW i \in 1..(n - 1) PROVE PairedAt(p, i)
  <2>1. PairedAt(h, i) /\ p[i] = h[i]
    BY <1>1, <1>3 DEF Histories, Paired
  <2>2. i < n - 1 => p[i + 1] = h[i + 1]
    BY <1>1, <1>3
  <2>3. i > 1 => p[i - 1] = h[i - 1]
    BY <1>1, <1>3
  <2>4. i = n - 1 => h[i + 1].kind = "Assistant"
    BY <1>0, <1>1, <1>2
  <2>5. i < n - 1 \/ i = n - 1
    BY <1>1
  <2>. QED
    BY <1>3, <2>1, <2>2, <2>3, <2>4, <2>5 DEF PairedAt
<1>5. p \in Histories
  BY <1>3, <1>4 DEF Histories, Paired
<1>6. h = Append(p, x)
  <2> DEFINE a == Append(p, x)
             m == Len(p)
  <2>1. a \in Seq(ItemType) /\ Len(a) = m + 1 /\ a[m + 1] = x /\ \A i \in 1..m : a[i] = p[i]
    BY <1>1, <1>3, AppendItem
  <2>0. m = n - 1 /\ m + 1 = n
    BY <1>1, <1>3
  <2> HIDE DEF a, m
  <2>2. a \in Seq(ItemType) /\ Len(a) = n /\ \A i \in 1..n : a[i] = h[i]
    <3>1. a \in Seq(ItemType) /\ Len(a) = n /\ a[n] = x /\ \A i \in 1..(n - 1) : a[i] = p[i]
      BY <2>0, <2>1
    <3>2. \A i \in 1..n : i = n \/ i \in 1..(n - 1)
      BY <1>1
    <3>. QED
      BY <1>0, <1>3, <3>1, <3>2
  <2>3. a = h
    BY <1>1, <2>2, SeqEqual DEF n
  <2>. QED
    BY <2>3 DEF a
<1>. QED
  BY <1>1, <1>2, <1>5, <1>6

\* The beginning of a history.
LEMMA FirstItems ==
    ASSUME NEW h \in Seq(ItemType), NEW n \in 0..Len(h)
    PROVE  /\ SubSeq(h, 1, n) \in Seq(ItemType) /\ Len(SubSeq(h, 1, n)) = n
           /\ DOMAIN SubSeq(h, 1, n) = 1..n
           /\ \A i \in 1..n : SubSeq(h, 1, n)[i] = h[i]
           /\ n = Len(h) => SubSeq(h, 1, n) = h
<1> DEFINE s == SubSeq(h, 1, n)
<1>1. s \in Seq(ItemType) /\ Len(s) = n /\ \A i \in 1..n : s[i] = h[i]
  BY SubSeqProperties
<1> HIDE DEF s
<1>2. DOMAIN s = 1..n
  BY <1>1, LenProperties
<1>3. n = Len(h) => s = h
  BY <1>1, SeqEqual
<1>. QED
  BY <1>1, <1>2, <1>3 DEF s

\* The beginning of a paired history, up to an item that is not a tool result.
LEMMA FirstPart ==
    ASSUME NEW h \in Histories, NEW n \in 0..Len(h),
           n = Len(h) \/ h[n + 1].kind # "ToolResults"
    PROVE  SubSeq(h, 1, n) \in Histories
<1> DEFINE s == SubSeq(h, 1, n)
<1>1. h \in Seq(ItemType) /\ Len(h) \in Nat /\ DOMAIN h = 1..Len(h)
  BY LenProperties DEF Histories
<1>2. CASE n = Len(h)
  <2>1. s = h
    BY <1>1, <1>2, FirstItems
  <2>. QED
    BY <2>1
<1>3. CASE n # Len(h)
  <2>1. /\ s \in Seq(ItemType) /\ Len(s) = n /\ DOMAIN s = 1..n
        /\ \A i \in 1..n : s[i] = h[i]
    BY <1>1, FirstItems
  <2> DEFINE m == Len(h)
  <2>2. n < m /\ n \in Nat /\ m \in Nat /\ h[n + 1].kind # "ToolResults"
    <3>1. m \in Nat /\ n \in 0..m /\ n # m
      BY <1>1, <1>3
    <3>2. h[n + 1].kind # "ToolResults"
      BY <1>3
    <3> HIDE DEF m
    <3>. QED
      BY <3>1, <3>2
  <2> HIDE DEF s, m
  <2>3. ASSUME NEW i \in 1..n PROVE PairedAt(s, i)
    <3>1. PairedAt(h, i) /\ s[i] = h[i]
      BY <1>1, <2>1 DEF Histories, Paired
    <3>2. i < n => s[i + 1] = h[i + 1]
      BY <2>1
    <3>3. i > 1 => s[i - 1] = h[i - 1]
      BY <2>1
    <3>4. i < m /\ (i < n \/ i = n)
      BY <2>2
    <3>5. i = n => h[i + 1].kind # "ToolResults"
      BY <2>2
    <3>. QED
      BY <2>1, <3>1, <3>2, <3>3, <3>4, <3>5 DEF PairedAt, m
  <2>. QED
    BY <2>1, <2>3 DEF Histories, Paired, s
<1>. QED
  BY <1>2, <1>3

\* What /retry leaves of a paired history is paired.
LEMMA PoppedPaired ==
    ASSUME NEW h \in Histories
    PROVE  popped(h) \in Histories
<1>1. h \in Seq(ItemType) /\ Paired(h)
  BY DEF Histories
<1>2. PICK n \in 0..Len(h) : popped(h) = SubSeq(h, 1, n)
                             /\ (n = Len(h) \/ h[n + 1].kind = "Assistant")
  BY <1>1, PoppedPiece
<1>. QED
  BY <1>2, FirstPart

\* The item at the end is extended.
LEMMA ExtendAppended ==
    ASSUME NEW p \in Seq(ItemType), NEW x \in ItemType, NEW i \in Ids
    PROVE  LET y == [x EXCEPT !.ids = Append(x.ids, i)]
           IN  y \in ItemType /\ extend_last(Append(p, x), i) = Append(p, y)
<1> DEFINE y == [x EXCEPT !.ids = Append(x.ids, i)]
           h == Append(p, x)
           n == Len(p)
           e == extend_last(h, i)
           f == Append(p, y)
<1>1. x.ids \in Seq(Ids)
  BY DEF ItemType
<1>2. Append(x.ids, i) \in Seq(Ids)
  BY <1>1, AppendProperties
<1>3. y \in ItemType
  BY <1>2 DEF ItemType
<1>4. /\ h \in Seq(ItemType) /\ h # <<>> /\ Len(h) = n + 1 /\ n \in Nat
      /\ (\A k \in 1..n : h[k] = p[k]) /\ h[n + 1] = x
  BY AppendItem
<1> HIDE DEF h
<1>5. /\ e \in Seq(ItemType) /\ Len(e) = Len(h)
      /\ \A k \in 1..Len(h) : k # Len(h) => e[k] = h[k]
      /\ e[Len(h)] = [h[Len(h)] EXCEPT !.ids = Append(h[Len(h)].ids, i)]
  BY <1>4, ExtendFacts
<1>6. e \in Seq(ItemType) /\ Len(e) = n + 1 /\ e[n + 1] = y /\ \A k \in 1..n : e[k] = p[k]
  <2>1. e[n + 1] = y
    BY <1>4, <1>5
  <2>2. \A k \in 1..n : k \in 1..n + 1 /\ k # n + 1
    BY <1>4
  <2>. QED
    BY <1>4, <1>5, <2>1, <2>2
<1> HIDE DEF y, e
<1>7. f \in Seq(ItemType) /\ Len(f) = n + 1 /\ f[n + 1] = y /\ \A k \in 1..n : f[k] = p[k]
  BY <1>3, AppendItem
<1> HIDE DEF f, n
<1>8. \A k \in 1..n + 1 : k = n + 1 \/ k \in 1..n
  BY <1>4
<1>9. e = f
  BY <1>6, <1>7, <1>8, SeqEqual
<1>. QED
  BY <1>3, <1>9 DEF e, f, h, y

\* From line a on, g has a tool record of this kind for each of the ids.
Stretch(g, a, ids, kind) ==
    /\ g \in Files /\ a \in Nat /\ ids \in Seq(Ids) /\ a + Len(ids) <= Len(g)
    /\ \A j \in 1..Len(ids) : /\ readable(g[a + j])
                              /\ g[a + j][1].kind = kind /\ g[a + j][1].id = ids[j]

\* The item a tool record belongs to.
Holder(kind) == IF kind = "tool_use" THEN "Assistant" ELSE "ToolResults"

\* What a record makes of a history: it joins the last item, or starts one.
LEMMA RecordFacts ==
    ASSUME NEW h \in Seq(ItemType), NEW kind \in {"tool_use", "tool_result"}, NEW cells \in Seq(Cells),
           readable(cells), cells[1].kind = kind
    PROVE  /\ cells[1].id \in Ids
           /\ LastIs(h, Holder(kind)) => read_line(h, cells) = extend_last(h, cells[1].id)
           /\ ~LastIs(h, Holder(kind)) =>
                 \E x \in ItemType : /\ x.kind = Holder(kind) /\ x.ids = <<cells[1].id>>
                                     /\ x = Item(Holder(kind), "none", <<cells[1].id>>, {})
                                     /\ read_line(h, cells) = Append(h, x)
<1> DEFINE i == cells[1].id
           r == cells[1]
<1>1. r \in Lines /\ read_line(h, cells) = push(h, r)
  BY ReadLineType
<1>2. i \in Ids
  BY <1>1 DEF Lines
<1>3. <<i>> \in Seq(Ids)
  BY <1>2
<1>4. CASE kind = "tool_use"
  <2>1. push(h, r) = IF LastIs(h, "Assistant") THEN extend_last(h, i)
                     ELSE Append(h, Assistant("none", <<i>>))
    BY <1>4 DEF push
  <2> DEFINE x == Assistant("none", <<i>>)
  <2>2. /\ x \in ItemType /\ x.kind = "Assistant" /\ x.ids = <<i>>
        /\ x = Item("Assistant", "none", <<i>>, {})
    BY <1>3 DEF Assistant, Item, ItemType, ItemKind, TextClass
  <2> HIDE DEF x, i, r
  <2>3. Holder(kind) = "Assistant"
    BY <1>4 DEF Holder
  <2>4. push(h, r) = IF LastIs(h, "Assistant") THEN extend_last(h, i) ELSE Append(h, x)
    BY <2>1 DEF x
  <2>. QED
    BY <1>1, <1>2, <2>2, <2>3, <2>4 DEF i
<1>5. CASE kind = "tool_result"
  <2>1. push(h, r) = IF LastIs(h, "ToolResults") THEN extend_last(h, i)
                     ELSE Append(h, ToolResults(<<i>>))
    BY <1>5 DEF push
  <2> DEFINE x == ToolResults(<<i>>)
  <2>2. /\ x \in ItemType /\ x.kind = "ToolResults" /\ x.ids = <<i>>
        /\ x = Item("ToolResults", "none", <<i>>, {})
    BY <1>3 DEF ToolResults, Item, ItemType, ItemKind, TextClass
  <2> HIDE DEF x, i, r
  <2>3. Holder(kind) = "ToolResults"
    BY <1>5 DEF Holder
  <2>4. push(h, r) = IF LastIs(h, "ToolResults") THEN extend_last(h, i) ELSE Append(h, x)
    BY <2>1 DEF x
  <2>. QED
    BY <1>1, <1>2, <2>2, <2>3, <2>4 DEF i
<1>. QED
  BY <1>4, <1>5

\* A stretch of records makes one item, once its first record is read.
LEMMA StretchFacts ==
    ASSUME NEW g, NEW a, NEW ids, NEW kind \in {"tool_use", "tool_result"},
           Stretch(g, a, ids, kind), Len(ids) >= 1,
           NEW p \in Seq(ItemType), NEW x1 \in ItemType, x1.kind = Holder(kind), x1.ids = <<ids[1]>>,
           replayed(g)[a + 1] = Append(p, x1)
    PROVE  \E x \in ItemType : /\ x.kind = Holder(kind) /\ x.ids = ids
                               /\ replayed(g)[a + Len(ids)] = Append(p, x)
<1> DEFINE m == Len(ids)
           h == replayed(g)
           Good(j, x) == /\ x.kind = Holder(kind) /\ Len(x.ids) = j
                         /\ \A i \in 1..j : x.ids[i] = ids[i]
                         /\ h[a + j] = Append(p, x)
           P == {j \in Nat : j + 1 <= m => \E x \in ItemType : Good(j + 1, x)}
<1>1. /\ g \in Files /\ a \in Nat /\ m \in Nat /\ a + m <= Len(g) /\ ids \in Seq(Ids)
      /\ \A j \in 1..m : ids[j] \in Ids
  BY LenProperties, ElementOfSeq DEF Stretch
<1>2. Len(g) \in Nat /\ \A k \in 1..Len(g) : g[k] \in Seq(Cells)
  BY <1>1, LenProperties, ElementOfSeq DEF Files
<1>3. /\ h \in [0..Len(g) -> Seq(ItemType)]
      /\ \A k \in 1..Len(g) : h[k] = read_line(h[k - 1], g[k])
  BY <1>1, ReplayFacts
<1>4. \A j \in 1..m : readable(g[a + j]) /\ g[a + j][1].kind = kind /\ g[a + j][1].id = ids[j]
  BY DEF Stretch
<1>5. h[a + 1] = Append(p, x1) /\ m >= 1
  OBVIOUS
<1> HIDE DEF h, m
<1>6. 0 \in P
  <2>1. Len(x1.ids) = 1 /\ \A i \in 1..1 : x1.ids[i] = ids[i]
    OBVIOUS
  <2>2. Good(0 + 1, x1)
    BY <1>5, <2>1
  <2>. QED
    BY <2>2
<1>7. ASSUME NEW j \in Nat, j \in P PROVE j + 1 \in P
  <2> SUFFICES ASSUME (j + 1) + 1 <= m PROVE \E x \in ItemType : Good((j + 1) + 1, x)
    OBVIOUS
  <2> DEFINE k == j + 1
  <2>1. k \in Nat /\ k <= m /\ k + 1 \in 1..m /\ a + (k + 1) \in 1..Len(g)
        /\ (a + (k + 1)) - 1 = a + k
    BY <1>1, <1>2
  <2>2. PICK x \in ItemType : Good(k, x)
    BY <1>1, <1>7, <2>1
  <2> HIDE DEF k
  <2> DEFINE i == ids[k + 1]
             y == [x EXCEPT !.ids = Append(x.ids, i)]
             q == Append(p, x)
             line == g[a + (k + 1)]
  <2>3. i \in Ids /\ line \in Seq(Cells) /\ readable(line) /\ line[1].kind = kind /\ line[1].id = i
    BY <1>1, <1>2, <1>4, <2>1
  <2>4. h[a + (k + 1)] = read_line(q, line)
    BY <1>3, <2>1, <2>2
  <2> HIDE DEF i, line
  <2>5. q \in Seq(ItemType) /\ LastIs(q, Holder(kind))
    BY <2>2, AppendItem DEF LastIs
  <2>6. read_line(q, line) = extend_last(q, i)
    BY <2>3, <2>5, RecordFacts
  <2>7. y \in ItemType /\ extend_last(q, i) = Append(p, y)
    BY <2>3, ExtendAppended
  <2>8. /\ x.ids \in Seq(Ids) /\ Len(x.ids) = k /\ \A l \in 1..k : x.ids[l] = ids[l]
    BY <2>2 DEF ItemType
  <2>9. /\ y.kind = Holder(kind) /\ y.ids = Append(x.ids, i)
    BY <2>2 DEF ItemType
  <2>10. /\ Len(y.ids) = k + 1 /\ y.ids[k + 1] = i
         /\ \A l \in 1..k : y.ids[l] = x.ids[l]
    <3> DEFINE s == x.ids
               t == Append(s, i)
    <3> HIDE DEF s
    <3>1. s \in Seq(Ids) /\ Len(s) = k
      BY <2>8 DEF s
    <3>2. Len(t) = k + 1 /\ t[k + 1] = i /\ \A l \in 1..k : t[l] = s[l]
      BY <2>3, <3>1, AppendProperties
    <3> HIDE DEF t
    <3>3. y.ids = t
      BY <2>9 DEF s, t
    <3> HIDE DEF y
    <3>. QED
      BY <3>2, <3>3 DEF s
  <2> HIDE DEF y, q
  <2>11. \A l \in 1..k + 1 : y.ids[l] = ids[l]
    <3>1. \A l \in 1..k + 1 : l = k + 1 \/ l \in 1..k
      BY <2>1
    <3>. QED
      BY <2>8, <2>10, <3>1 DEF i
  <2>12. Good(k + 1, y)
    BY <2>4, <2>6, <2>7, <2>9, <2>10, <2>11
  <2>. QED
    BY <2>7, <2>12 DEF k
<1> HIDE DEF P
<1>8. Nat \subseteq P
  BY <1>6, <1>7, InductionOnNat
<1>9. m - 1 \in Nat /\ (m - 1) + 1 = m
  BY <1>1, <1>5
<1>10. PICK x \in ItemType : Good(m, x)
  <2>1. m - 1 \in P
    BY <1>8, <1>9
  <2>2. (m - 1) + 1 <= m => \E x \in ItemType : Good((m - 1) + 1, x)
    BY <2>1 DEF P
  <2> HIDE DEF Good
  <2>. QED
    BY <1>1, <1>9, <2>2
<1>11. x.ids = ids
  <2>1. x.ids \in Seq(Ids) /\ Len(x.ids) = Len(ids) /\ \A i \in 1..Len(ids) : x.ids[i] = ids[i]
    BY <1>10 DEF ItemType, m
  <2>. QED
    BY <1>1, <2>1, SeqEqual
<1>. QED
  BY <1>10, <1>11 DEF h, m

\* Tool uses, then their results, whatever paired history comes before them.
LEMMA CallIsPaired ==
    ASSUME NEW g, NEW a, NEW ids, Len(ids) >= 1, Stretch(g, a, ids, "tool_use"),
           Stretch(g, a + Len(ids), ids, "tool_result"), replayed(g)[a] \in Histories
    PROVE  replayed(g)[(a + Len(ids)) + Len(ids)] \in Histories
<1> DEFINE m == Len(ids)
           b == a + m
           h == replayed(g)
<1>1. /\ g \in Files /\ a \in Nat /\ m \in Nat /\ m >= 1 /\ a + m <= Len(g) /\ b + m <= Len(g)
      /\ ids \in Seq(Ids)
  BY LenProperties DEF Stretch
<1>2. Len(g) \in Nat /\ \A k \in 1..Len(g) : g[k] \in Seq(Cells)
  BY <1>1, LenProperties, ElementOfSeq DEF Files
<1>3. \A k \in 1..Len(g) : h[k] = read_line(h[k - 1], g[k])
  BY <1>1, ReplayFacts
<1>4. readable(g[a + 1]) /\ g[a + 1][1].kind = "tool_use" /\ g[a + 1][1].id = ids[1]
  BY <1>1 DEF Stretch
<1>5. readable(g[b + 1]) /\ g[b + 1][1].kind = "tool_result" /\ g[b + 1][1].id = ids[1]
  BY <1>1 DEF Stretch
<1>6. h[a] \in Histories /\ h[a] \in Seq(ItemType)
  BY DEF Histories
<1>7. /\ b \in Nat /\ a + 1 \in 1..Len(g) /\ (a + 1) - 1 = a /\ b + 1 \in 1..Len(g) /\ (b + 1) - 1 = b
  BY <1>1, <1>2
<1> HIDE DEF b, h
<1>8. /\ h[a + 1] = read_line(h[a], g[a + 1]) /\ g[a + 1] \in Seq(Cells)
      /\ h[b + 1] = read_line(h[b], g[b + 1]) /\ g[b + 1] \in Seq(Cells)
  BY <1>2, <1>3, <1>7
<1>9. PICK p \in Histories : \E x \in ItemType : /\ x.kind = "Assistant" /\ x.ids = <<ids[1]>>
                                                 /\ h[a + 1] = Append(p, x)
  <2>1. CASE LastIs(h[a], "Assistant")
    <3>1. PICK p \in Histories, x \in ItemType :
             h[a] = Append(p, x) /\ x.kind = "Assistant" /\ x.ids = <<>>
      BY <1>6, <2>1, FrontPaired
    <3> DEFINE i == ids[1]
               y == [x EXCEPT !.ids = Append(x.ids, i)]
    <3>2. i \in Ids /\ h[a + 1] = extend_last(h[a], i)
      <4> DEFINE l == g[a + 1]
                 k == h[a]
      <4>1. /\ l \in Seq(Cells) /\ readable(l) /\ l[1].kind = "tool_use" /\ l[1].id = i
            /\ k \in Seq(ItemType) /\ LastIs(k, Holder("tool_use")) /\ h[a + 1] = read_line(k, l)
        BY <1>4, <1>6, <1>8, <2>1 DEF Holder
      <4> HIDE DEF l, k, i
      <4>2. i \in Ids /\ read_line(k, l) = extend_last(k, i)
        BY <4>1, RecordFacts
      <4>. QED
        BY <4>1, <4>2 DEF k
    <3>3. y \in ItemType /\ extend_last(Append(p, x), i) = Append(p, y)
      BY <3>2, ExtendAppended DEF Histories
    <3>4. y.kind = "Assistant" /\ y.ids = <<i>>
      <4>1. y.kind = x.kind /\ y.ids = Append(x.ids, i)
        BY DEF ItemType
      <4>2. Append(<<>>, i) = <<i>>
        OBVIOUS
      <4>. QED
        BY <3>1, <4>1, <4>2
    <3> HIDE DEF y, i
    <3>. QED
      BY <3>1, <3>2, <3>3, <3>4 DEF i
  <2>2. CASE ~LastIs(h[a], "Assistant")
    <3>1. \E x \in ItemType : /\ x.kind = "Assistant" /\ x.ids = <<ids[1]>>
                              /\ h[a + 1] = Append(h[a], x)
      <4>0. Holder("tool_use") = "Assistant"
        BY DEF Holder
      <4>1. \E x \in ItemType : /\ x.kind = Holder("tool_use") /\ x.ids = <<g[a + 1][1].id>>
                                /\ read_line(h[a], g[a + 1]) = Append(h[a], x)
        BY ONLY <1>4, <1>6, <1>8, <2>2, <4>0, RecordFacts
      <4>. QED
        BY <1>4, <1>8, <4>0, <4>1
    <3>. QED
      BY <1>6, <3>1
  <2>. QED
    BY <2>1, <2>2
<1>10. p \in Seq(ItemType)
  BY DEF Histories
<1>11. PICK x \in ItemType : x.kind = "Assistant" /\ x.ids = ids /\ h[b] = Append(p, x)
  <2>1. PICK x1 \in ItemType : x1.kind = Holder("tool_use") /\ x1.ids = <<ids[1]>>
                               /\ replayed(g)[a + 1] = Append(p, x1)
    BY <1>9 DEF Holder, h
  <2>2. \E x \in ItemType : /\ x.kind = Holder("tool_use") /\ x.ids = ids
                            /\ replayed(g)[a + Len(ids)] = Append(p, x)
    BY <1>10, <2>1, StretchFacts
  <2>. QED
    BY <2>2 DEF Holder, h, b
<1> DEFINE q == Append(p, x)
<1>12. q \in Seq(ItemType) /\ ~LastIs(q, "ToolResults")
  BY <1>10, <1>11, AppendItem DEF LastIs
<1>13. PICK y \in ItemType : y.kind = "ToolResults" /\ y.ids = ids /\ h[b + m] = Append(q, y)
  <2>1. PICK y1 \in ItemType : y1.kind = Holder("tool_result") /\ y1.ids = <<ids[1]>>
                               /\ h[b + 1] = Append(q, y1)
    <3> HIDE DEF q
    <3>0. Holder("tool_result") = "ToolResults"
      BY DEF Holder
    <3>1. h[b] = q
      BY <1>11 DEF q
    <3>2. \E z \in ItemType : /\ z.kind = Holder("tool_result") /\ z.ids = <<g[b + 1][1].id>>
                                /\ read_line(q, g[b + 1]) = Append(q, z)
      BY ONLY <1>5, <1>8, <1>12, <3>0, RecordFacts
    <3>. QED
      BY <1>5, <1>8, <3>1, <3>2
  <2>2. Stretch(g, b, ids, "tool_result") /\ replayed(g)[b + 1] = Append(q, y1)
    BY <2>1 DEF b, h
  <2> HIDE DEF q
  <2>3. \E y \in ItemType : /\ y.kind = Holder("tool_result") /\ y.ids = ids
                            /\ replayed(g)[b + Len(ids)] = Append(q, y)
    BY <1>12, <2>1, <2>2, StretchFacts
  <2>. QED
    BY <2>3 DEF Holder, h
<1>14. h[b + m] \in Histories
  BY <1>11, <1>13, AppendCallPaired
<1>. QED
  BY <1>14 DEF h, b

\* The file, and the lines that are still to be appended to it.
Whole(f, q) == [k \in 1..(Len(f) + Len(q)) |-> IF k <= Len(f) THEN f[k] ELSE <<q[k - Len(f)]>>]

\* Its lines.
LEMMA WholeFacts ==
    ASSUME NEW f \in Files, NEW q \in Seq(Lines)
    PROVE  LET g == Whole(f, q)
           IN  /\ g \in Files /\ Len(g) = Len(f) + Len(q) /\ Len(f) \in Nat /\ Len(q) \in Nat
               /\ \A k \in 1..Len(f) : g[k] = f[k]
               /\ \A j \in 1..Len(q) : g[Len(f) + j] = <<q[j]>>
               /\ replayed(g)[Len(f)] = Replay(f)
<1> DEFINE g == Whole(f, q)
           n == Len(f)
           m == Len(q)
<1>1. /\ n \in Nat /\ m \in Nat
      /\ \A k \in 1..n : f[k] \in Seq(Cells)
      /\ \A j \in 1..m : q[j] \in Cells
  BY LenProperties, ElementOfSeq DEF Files, Cells
<1>2. \A j \in 1..m : <<q[j]>> \in Seq(Cells)
  BY <1>1
<1> HIDE DEF n, m
<1>3. g = [k \in 1..(n + m) |-> IF k <= n THEN f[k] ELSE <<q[k - n]>>]
  BY DEF Whole, n, m
<1> HIDE DEF g
<1>4. \A k \in 1..(n + m) : k <= n \/ k - n \in 1..m
  BY <1>1
<1>5. g \in [1..(n + m) -> Seq(Cells)]
  <2>1. \A k \in 1..(n + m) : (IF k <= n THEN f[k] ELSE <<q[k - n]>>) \in Seq(Cells)
    <3> SUFFICES ASSUME NEW k \in 1..(n + m)
                 PROVE  (IF k <= n THEN f[k] ELSE <<q[k - n]>>) \in Seq(Cells)
      OBVIOUS
    <3>1. CASE k <= n
      BY <1>1, <3>1
    <3>2. CASE ~(k <= n)
      BY <1>2, <1>4, <3>2
    <3>. QED
      BY <3>1, <3>2
  <2>. QED
    BY <1>3, <2>1
<1>6. g \in Files /\ Len(g) = n + m
  BY <1>1, <1>5, SeqDef, LenProperties DEF Files
<1>7. \A k \in 1..n : g[k] = f[k]
  BY <1>1, <1>3
<1>8. \A j \in 1..m : g[n + j] = <<q[j]>>
  <2> SUFFICES ASSUME NEW j \in 1..m PROVE g[n + j] = <<q[j]>>
    OBVIOUS
  <2>1. n + j \in 1..(n + m) /\ ~(n + j <= n) /\ (n + j) - n = j
    BY <1>1
  <2>. QED
    BY <1>3, <2>1
<1>9. replayed(g)[n] = replayed(f)[n]
  <2>1. n <= Len(f) /\ n <= Len(g) /\ n \in 0..n
    BY <1>1, <1>6 DEF n
  <2>. QED
    BY <1>1, <1>6, <1>7, <2>1, ReplayAgrees
<1>. QED
  BY <1>1, <1>6, <1>7, <1>8, <1>9 DEF Replay, g, n, m

\* The line of an answer's text.
text_line(text) == SessionLine("assistant", text, NoId, {})

\* The lines of an assistant item: its text, if it has one, then its tool uses.
LEMMA AssistantLinesFacts ==
    ASSUME NEW item \in ItemType
    PROVE  LET s == assistant_lines(item)
               m == Len(item.ids)
           IN  /\ s \in Seq(Lines) /\ m \in Nat
               /\ \E t \in {0, 1} : /\ Len(s) = t + m
                                    /\ t = 0 <=> item.text = "none"
                                    /\ t = 1 => s[1] = text_line(item.text)
                                    /\ \A j \in 1..m : s[t + j] = tool_use_line(item.ids[j])
<1> DEFINE a == IF item.text = "none" THEN <<>> ELSE <<text_line(item.text)>>
           b == [k \in DOMAIN item.ids |-> tool_use_line(item.ids[k])]
           s == assistant_lines(item)
           m == Len(item.ids)
<1>1. item.text \in TextClass /\ item.ids \in Seq(Ids)
  BY DEF ItemType
<1>2. text_line(item.text) \in Lines
  BY <1>1 DEF text_line, SessionLine, Lines
<1>3. /\ a \in Seq(Lines) /\ Len(a) \in {0, 1} /\ (Len(a) = 0 <=> item.text = "none")
      /\ Len(a) = 1 => a[1] = text_line(item.text)
  <2>1. CASE item.text = "none"
    BY <2>1, EmptySeq
  <2>2. CASE item.text # "none"
    <3>1. a = <<text_line(item.text)>>
      BY <2>2
    <3>. QED
      BY <1>2, <2>2, <3>1
  <2>. QED
    BY <2>1, <2>2
<1>4. m \in Nat /\ DOMAIN item.ids = 1..m /\ \A k \in 1..m : item.ids[k] \in Ids
  BY <1>1, LenProperties, ElementOfSeq
<1>5. \A i \in Ids : tool_use_line(i) \in Lines
  BY DEF tool_use_line, SessionLine, Lines, TextClass
<1> HIDE DEF m
<1>6. b \in [1..m -> Lines] /\ \A k \in 1..m : b[k] = tool_use_line(item.ids[k])
  BY <1>4, <1>5
<1>7. s = a \o b
  BY DEF assistant_lines, text_line
<1> HIDE DEF a, b, s
<1>8. b \in Seq(Lines) /\ Len(b) = m
  BY <1>4, <1>6, SeqDef, LenProperties
<1>9. /\ s \in Seq(Lines) /\ Len(s) = Len(a) + m
      /\ \A i \in 1..Len(a) + m : s[i] = IF i <= Len(a) THEN a[i] ELSE b[i - Len(a)]
  BY <1>3, <1>7, <1>8, ConcatProperties
<1>10. PICK t \in {0, 1} : Len(a) = t
  BY <1>3
<1>11. t = 1 => s[1] = text_line(item.text)
  <2> SUFFICES ASSUME t = 1 PROVE s[1] = text_line(item.text)
    OBVIOUS
  <2>1. 1 \in 1..Len(a) + m /\ 1 <= Len(a)
    BY <1>4, <1>10
  <2>2. s[1] = a[1]
    BY <1>9, <2>1
  <2>. QED
    BY <1>3, <1>10, <2>2
<1>12. ASSUME NEW j \in 1..m PROVE s[t + j] = tool_use_line(item.ids[j])
  <2>1. t + j \in 1..Len(a) + m /\ ~(t + j <= Len(a)) /\ (t + j) - Len(a) = j
    BY <1>4, <1>10
  <2>2. s[t + j] = b[j]
    BY <1>9, <2>1
  <2>. QED
    BY <1>6, <2>2
<1>. QED
  BY <1>3, <1>4, <1>9, <1>10, <1>11, <1>12 DEF s, m

\* The line of a text, if there is one, leaves a paired history paired.
LEMMA TextIsPaired ==
    ASSUME NEW g \in Files, NEW a \in Nat, NEW t \in {0, 1}, a + t <= Len(g),
           replayed(g)[a] \in Histories,
           t = 1 => readable(g[a + 1]) /\ g[a + 1][1].kind = "assistant"
    PROVE  replayed(g)[a + t] \in Histories
<1>1. CASE t = 0
  <2>1. a + t = a
    BY <1>1
  <2>. QED
    BY <2>1
<1>2. CASE t = 1
  <2> DEFINE h == replayed(g)
             r == g[a + 1][1]
             x == Assistant(r.text, <<>>)
  <2>1. a + 1 \in 1..Len(g) /\ (a + 1) - 1 = a /\ a + t = a + 1
    <3>1. Len(g) \in Nat
      BY LenProperties DEF Files
    <3>. QED
      BY <1>2, <3>1
  <2>2. h[a + 1] = read_line(h[a], g[a + 1]) /\ g[a + 1] \in Seq(Cells) /\ h[a] \in Seq(ItemType)
    BY <2>1, ReplayFacts, ElementOfSeq DEF Files, Histories
  <2>3. r \in Lines /\ h[a + 1] = push(h[a], r) /\ r.kind = "assistant"
    BY <1>2, <2>2, ReadLineType
  <2>4. h[a + 1] = Append(h[a], x)
    BY <2>3 DEF push
  <2>5. x \in ItemType /\ x.kind = "Assistant" /\ x.ids = <<>>
    <3>1. <<>> \in Seq(Ids)
      BY EmptySeq
    <3>2. r.text \in TextClass
      BY <2>3 DEF Lines
    <3>. QED
      BY <3>1, <3>2 DEF Assistant, Item, ItemType, ItemKind
  <2> HIDE DEF h, r, x
  <2>6. h[a] \in Histories
    BY DEF h
  <2>7. h[a + 1] \in Histories
    BY <2>4, <2>5, <2>6, AppendPaired
  <2>. QED
    BY <2>1, <2>7 DEF h
<1>. QED
  BY <1>1, <1>2

\* From line a on, g has the text of an assistant item, if it has one.
TextAt(g, a, t, item) ==
    /\ t \in {0, 1}
    /\ t = 0 <=> item.text = "none"
    /\ t = 1 => readable(g[a + 1]) /\ g[a + 1][1] = text_line(item.text)

\* The lines the driver queues are read as they are.
LEMMA QueuedLines ==
    ASSUME NEW f \in Files, NEW q \in Seq(Lines)
    PROVE  \A j \in 1..Len(q) : /\ readable(Whole(f, q)[Len(f) + j])
                                /\ Whole(f, q)[Len(f) + j][1] = q[j]
<1> SUFFICES ASSUME NEW j \in 1..Len(q)
             PROVE  readable(Whole(f, q)[Len(f) + j]) /\ Whole(f, q)[Len(f) + j][1] = q[j]
  OBVIOUS
<1>1. q[j] \in Lines
  BY ElementOfSeq
<1>2. q[j] \notin Broken
  BY <1>1 DEF Lines, Broken, Torn, Garbled, SessionLine
<1>3. Whole(f, q)[Len(f) + j] = <<q[j]>>
  BY WholeFacts
<1>. QED
  BY <1>2, <1>3 DEF readable

\* What is written of an answer that called tools: its text, the uses, the results.
LEMMA ExchangeWritten ==
    ASSUME NEW f \in Files, NEW s \in Seq(ItemType), Len(s) >= 2,
           s[Len(s)].kind = "ToolResults", s[Len(s) - 1].kind = "Assistant",
           s[Len(s)].ids = s[Len(s) - 1].ids
    PROVE  LET g == Whole(f, persisted(s))
               a == Len(f)
               item == s[Len(s) - 1]
               m == Len(item.ids)
           IN  \E t \in {0, 1} : /\ TextAt(g, a, t, item)
                                 /\ Stretch(g, a + t, item.ids, "tool_use")
                                 /\ Stretch(g, (a + t) + m, item.ids, "tool_result")
                                 /\ Len(g) = ((a + t) + m) + m
<1> DEFINE q == persisted(s)
           g == Whole(f, q)
           a == Len(f)
           n == Len(s)
           item == s[n - 1]
           ids == item.ids
           m == Len(ids)
           calls == assistant_lines(item)
           answers == [k \in DOMAIN s[n].ids |-> result_line(s[n].ids[k])]
<1>1. n \in Nat /\ DOMAIN s = 1..n /\ (\A k \in 1..n : s[k] \in ItemType) /\ n >= 2
  BY LenProperties, ElementOfSeq
<1>2. q \in Seq(Lines)
  BY PersistedType
<1>3. item \in ItemType /\ ids \in Seq(Ids) /\ m \in Nat /\ DOMAIN ids = 1..m
      /\ \A k \in 1..m : ids[k] \in Ids
  <2>1. n - 1 \in 1..n
    BY <1>1
  <2>2. item \in ItemType
    BY <1>1, <2>1
  <2>3. ids \in Seq(Ids)
    BY <2>2 DEF ItemType
  <2>. QED
    BY <2>2, <2>3, LenProperties, ElementOfSeq
<1>4. q = calls \o answers
  BY <1>1 DEF persisted
<1>5. PICK t \in {0, 1} : /\ Len(calls) = t + m
                          /\ t = 0 <=> item.text = "none"
                          /\ t = 1 => calls[1] = text_line(item.text)
                          /\ \A j \in 1..m : calls[t + j] = tool_use_line(ids[j])
  BY <1>3, AssistantLinesFacts
<1>6. calls \in Seq(Lines)
  BY <1>3, AssistantLinesType
<1>7. answers \in Seq(Lines) /\ Len(answers) = m /\ \A j \in 1..m : answers[j] = result_line(ids[j])
  <2>1. \A i \in Ids : result_line(i) \in Lines
    BY DEF result_line, SessionLine, Lines, TextClass
  <2>2. answers = [k \in 1..m |-> result_line(ids[k])]
    BY <1>3
  <2> HIDE DEF answers, ids, m
  <2>3. answers \in [1..m -> Lines] /\ \A j \in 1..m : answers[j] = result_line(ids[j])
    BY <1>3, <2>1, <2>2
  <2>. QED
    BY <1>3, <2>3, SeqDef, LenProperties
<1> HIDE DEF q
<1>8. g \in Files /\ Len(g) = a + Len(q) /\ a \in Nat /\ Len(q) \in Nat
  BY <1>2, WholeFacts
<1>9. \A j \in 1..Len(q) : readable(g[a + j]) /\ g[a + j][1] = q[j]
  BY <1>2, QueuedLines
<1> HIDE DEF g, a, item, ids, m, calls, answers, n
<1>10. /\ Len(q) = (t + m) + m
       /\ \A i \in 1..((t + m) + m) : q[i] = IF i <= t + m THEN calls[i] ELSE answers[i - (t + m)]
  <2> DEFINE c == t + m
  <2>1. Len(calls) = c /\ Len(answers) = m /\ calls \in Seq(Lines) /\ answers \in Seq(Lines)
    BY <1>5, <1>6, <1>7
  <2> HIDE DEF c
  <2>2. /\ Len(q) = c + m
        /\ \A i \in 1..(c + m) : q[i] = IF i <= c THEN calls[i] ELSE answers[i - c]
    BY ONLY <1>4, <2>1, ConcatProperties
  <2>. QED
    BY <2>2 DEF c
<1>11. TextAt(g, a, t, item)
  <2>1. ASSUME t = 1 PROVE readable(g[a + 1]) /\ g[a + 1][1] = text_line(item.text)
    <3>1. 1 \in 1..((t + m) + m) /\ 1 <= t + m
      BY <1>3, <2>1
    <3>2. q[1] = calls[1] /\ 1 \in 1..Len(q)
      BY <1>10, <3>1
    <3>. QED
      BY <1>5, <1>9, <2>1, <3>2
  <2>. QED
    BY <1>5, <2>1 DEF TextAt
<1>12. ASSUME NEW j \in 1..m
       PROVE  /\ q[t + j] = tool_use_line(ids[j]) /\ t + j \in 1..Len(q)
              /\ q[(t + m) + j] = result_line(ids[j]) /\ (t + m) + j \in 1..Len(q)
  <2>1. /\ t + j \in 1..((t + m) + m) /\ t + j <= t + m
        /\ (t + m) + j \in 1..((t + m) + m) /\ ~((t + m) + j <= t + m)
        /\ ((t + m) + j) - (t + m) = j
    BY <1>3
  <2>2. q[t + j] = calls[t + j] /\ q[(t + m) + j] = answers[j]
    BY <1>10, <2>1
  <2>. QED
    BY <1>5, <1>7, <1>10, <2>1, <2>2
<1> DEFINE b == a + t
<1>13. b \in Nat /\ b + m <= Len(g) /\ b + m \in Nat /\ (b + m) + m = Len(g)
  BY <1>3, <1>8, <1>10
<1>14. Stretch(g, b, ids, "tool_use")
  <2>1. ASSUME NEW j \in 1..m
        PROVE  readable(g[b + j]) /\ g[b + j][1].kind = "tool_use" /\ g[b + j][1].id = ids[j]
    <3>1. b + j = a + (t + j)
      BY <1>8
    <3>2. readable(g[a + (t + j)]) /\ g[a + (t + j)][1] = tool_use_line(ids[j])
      BY <1>9, <1>12
    <3>. QED
      BY <3>1, <3>2 DEF tool_use_line, SessionLine
  <2>. QED
    BY <1>3, <1>8, <1>13, <2>1 DEF Stretch, m
<1>15. Stretch(g, b + m, ids, "tool_result")
  <2>1. ASSUME NEW j \in 1..m
        PROVE  /\ readable(g[(b + m) + j]) /\ g[(b + m) + j][1].kind = "tool_result"
               /\ g[(b + m) + j][1].id = ids[j]
    <3>1. (b + m) + j = a + ((t + m) + j)
      BY <1>3, <1>8
    <3>2. readable(g[a + ((t + m) + j)]) /\ g[a + ((t + m) + j)][1] = result_line(ids[j])
      BY <1>9, <1>12
    <3>. QED
      BY <3>1, <3>2 DEF result_line, SessionLine
  <2>2. (b + m) + m <= Len(g)
    BY <1>8, <1>13
  <2>. QED
    BY <1>3, <1>8, <1>13, <2>1, <2>2 DEF Stretch, m
<1>. QED
  BY <1>11, <1>13, <1>14, <1>15 DEF g, q, a, item, ids, m, n

\* What is written of an answer that called none: its text.
LEMMA AnswerWritten ==
    ASSUME NEW f \in Files, NEW s \in Seq(ItemType), Len(s) >= 1,
           s[Len(s)].kind = "Assistant", s[Len(s)].ids = <<>>
    PROVE  LET g == Whole(f, persisted(s))
           IN  \E t \in {0, 1} : TextAt(g, Len(f), t, s[Len(s)]) /\ Len(g) = Len(f) + t
<1> DEFINE q == persisted(s)
           g == Whole(f, q)
           a == Len(f)
           item == s[Len(s)]
<1>1. q = assistant_lines(item) /\ q \in Seq(Lines)
  BY PersistedType DEF persisted
<1>2. item \in ItemType /\ Len(item.ids) = 0
  <2>1. Len(s) \in 1..Len(s)
    BY LenProperties
  <2>. QED
    BY <2>1, ElementOfSeq
<1> HIDE DEF q
<1>3. g \in Files /\ Len(g) = a + Len(q) /\ a \in Nat /\ Len(q) \in Nat
  BY <1>1, WholeFacts
<1>4. \A j \in 1..Len(q) : readable(g[a + j]) /\ g[a + j][1] = q[j]
  BY <1>1, QueuedLines
<1> HIDE DEF g, item
<1>5. PICK t \in {0, 1} : /\ Len(q) = t + 0 /\ (t = 0 <=> item.text = "none")
                          /\ t = 1 => q[1] = text_line(item.text)
  BY <1>1, <1>2, AssistantLinesFacts
<1>6. Len(g) = a + t /\ TextAt(g, a, t, item)
  BY <1>3, <1>4, <1>5 DEF TextAt
<1>. QED
  BY <1>6 DEF g, q, item

\* What the driver writes of a paired history joins a paired history to a paired one.
LEMMA PersistedIsPaired ==
    ASSUME NEW f \in Files, Replay(f) \in Histories, NEW s \in Histories
    PROVE  Replay(Whole(f, persisted(s))) \in Histories
<1> DEFINE q == persisted(s)
           g == Whole(f, q)
           a == Len(f)
           n == Len(s)
<1>1. s \in Seq(ItemType) /\ n \in Nat /\ DOMAIN s = 1..n /\ \A k \in 1..n : s[k] \in ItemType
  BY LenProperties, ElementOfSeq DEF Histories
<1>2. q \in Seq(Lines)
  BY <1>1, PersistedType
<1> HIDE DEF q
<1>3. /\ g \in Files /\ Len(g) = a + Len(q) /\ a \in Nat /\ Len(q) \in Nat
      /\ replayed(g)[a] \in Histories
  BY <1>2, WholeFacts
<1> HIDE DEF g, a
<1>4. ASSUME NEW t, NEW item, TextAt(g, a, t, item), a + t <= Len(g)
      PROVE  replayed(g)[a + t] \in Histories
  <2>1. t = 1 => readable(g[a + 1]) /\ g[a + 1][1].kind = "assistant"
    BY <1>4 DEF TextAt, text_line, SessionLine
  <2>2. t \in {0, 1}
    BY <1>4 DEF TextAt
  <2>. QED
    BY <1>3, <1>4, <2>1, <2>2, TextIsPaired
<1>5. CASE n >= 1 /\ s[n].kind = "ToolResults"
  <2> DEFINE item == s[n - 1]
             ids == item.ids
             m == Len(ids)
  <2>1. PairedAt(s, n) /\ n \in 1..n
    BY <1>1, <1>5 DEF Histories, Paired
  <2>2. n >= 2 /\ n - 1 \in 1..n /\ item.kind = "Assistant" /\ s[n].ids = ids
    BY <1>1, <1>5, <2>1 DEF PairedAt
  <2>3. m \in Nat
    <3>1. ids \in Seq(Ids)
      BY <1>1, <2>2 DEF ItemType
    <3>. QED
      BY <3>1, LenProperties
  <2>4. PICK t \in {0, 1} : /\ TextAt(g, a, t, item)
                            /\ Stretch(g, a + t, ids, "tool_use")
                            /\ Stretch(g, (a + t) + m, ids, "tool_result")
                            /\ Len(g) = ((a + t) + m) + m
    BY <1>1, <1>5, <2>2, ExchangeWritten DEF g, q, a
  <2> DEFINE b == a + t
  <2>5. replayed(g)[b] \in Histories
    BY <1>3, <1>4, <2>3, <2>4
  <2> HIDE DEF item, ids, m
  <2>6. CASE m = 0
    <3>1. b = Len(g)
      BY <1>3, <2>4, <2>6
    <3>. QED
      BY <2>5, <3>1 DEF Replay, g, q
  <2>7. CASE m >= 1
    <3> HIDE DEF b
    <3>1. replayed(g)[(b + m) + m] \in Histories
      BY <2>4, <2>5, <2>7, CallIsPaired DEF m, b
    <3>. QED
      BY <2>4, <3>1 DEF Replay, g, q, b
  <2>. QED
    BY <2>3, <2>6, <2>7
<1>6. CASE n >= 1 /\ s[n].kind = "Assistant"
  <2>1. PairedAt(s, n) /\ n \in 1..n
    BY <1>1, <1>6 DEF Histories, Paired
  <2>2. s[n].ids = <<>>
    BY <1>1, <1>6, <2>1 DEF PairedAt
  <2>3. PICK t \in {0, 1} : TextAt(g, a, t, s[n]) /\ Len(g) = a + t
    BY <1>1, <1>6, <2>2, AnswerWritten DEF g, q, a
  <2>4. replayed(g)[a + t] \in Histories
    BY <1>3, <1>4, <2>3
  <2>. QED
    BY <2>3, <2>4 DEF Replay, g, q
<1>7. CASE ~(n >= 1 /\ s[n].kind = "ToolResults") /\ ~(n >= 1 /\ s[n].kind = "Assistant")
  <2>1. q = <<>>
    BY <1>7 DEF q, persisted
  <2>2. Len(g) = a
    BY <1>3, <2>1
  <2>. QED
    BY <1>3, <2>2 DEF Replay, g, q
<1>. QED
  BY <1>5, <1>6, <1>7

\* A line moves from the queue to the file.
LEMMA WholeMoves ==
    ASSUME NEW f \in Files, NEW q \in Seq(Lines), q # <<>>
    PROVE  Whole(Append(f, <<Head(q)>>), Tail(q)) = Whole(f, q)
<1> DEFINE e == Append(f, <<Head(q)>>)
           r == Tail(q)
           n == Len(f)
           m == Len(q)
           a == Whole(e, r)
           b == Whole(f, q)
<1>1. /\ n \in Nat /\ m \in Nat \ {0} /\ Head(q) \in Lines /\ Head(q) = q[1] /\ r \in Seq(Lines)
      /\ Len(r) = m - 1 /\ \A i \in 1..(m - 1) : r[i] = q[i + 1]
  BY HeadTailProperties, LenProperties, EmptySeq DEF Files
<1>2. <<Head(q)>> \in Seq(Cells)
  BY <1>1 DEF Cells
<1>3. e \in Files /\ Len(e) = n + 1 /\ e[n + 1] = <<q[1]>> /\ \A k \in 1..n : e[k] = f[k]
  BY <1>1, <1>2, AppendProperties DEF Files
<1> HIDE DEF e, r
<1>4. /\ b \in Files /\ Len(b) = n + m
      /\ \A k \in 1..n : b[k] = f[k]
      /\ \A j \in 1..m : b[n + j] = <<q[j]>>
  BY WholeFacts
<1>5. /\ a \in Files /\ Len(a) = (n + 1) + (m - 1)
      /\ \A k \in 1..n + 1 : a[k] = e[k]
      /\ \A j \in 1..(m - 1) : a[(n + 1) + j] = <<r[j]>>
  <2>1. /\ a \in Files /\ Len(a) = Len(e) + Len(r)
        /\ \A k \in 1..Len(e) : a[k] = e[k]
        /\ \A j \in 1..Len(r) : a[Len(e) + j] = <<r[j]>>
    BY <1>1, <1>3, WholeFacts
  <2>2. Len(e) = n + 1 /\ Len(r) = m - 1
    BY <1>1, <1>3
  <2> HIDE DEF a, n, m
  <2>. QED
    BY <2>1, <2>2
<1> HIDE DEF a, b, n, m
<1>6. ASSUME NEW k \in 1..(n + m) PROVE a[k] = b[k]
  <2>1. CASE k \in 1..n
    <3>1. k \in 1..n + 1
      BY <1>1, <2>1
    <3>. QED
      BY <1>3, <1>4, <1>5, <2>1, <3>1
  <2>2. CASE k = n + 1
    <3>1. k \in 1..n + 1 /\ 1 \in 1..m
      BY <1>1, <2>2
    <3>. QED
      BY <1>3, <1>4, <1>5, <2>2, <3>1
  <2>3. CASE k > n + 1
    <3> DEFINE j == k - (n + 1)
    <3>1. j \in 1..(m - 1) /\ j + 1 \in 1..m /\ k = (n + 1) + j /\ k = n + (j + 1)
      BY <1>1, <2>3
    <3> HIDE DEF j
    <3>2. a[k] = <<r[j]>> /\ r[j] = q[j + 1]
      BY <1>1, <1>5, <3>1
    <3>3. b[k] = <<q[j + 1]>>
      BY <1>4, <3>1
    <3>. QED
      BY <3>2, <3>3
  <2>4. k \in 1..n \/ k = n + 1 \/ k > n + 1
    BY <1>1
  <2>. QED
    BY <2>1, <2>2, <2>3, <2>4
<1>7. Len(a) = n + m
  BY <1>1, <1>5
<1>8. a = b
  <2>1. a \in Seq(Seq(Cells)) /\ b \in Seq(Seq(Cells)) /\ Len(a) = Len(b)
    BY <1>4, <1>5, <1>7 DEF Files
  <2>2. \A k \in 1..Len(a) : a[k] = b[k]
    BY <1>6, <1>7
  <2>. QED
    BY ONLY <2>1, <2>2, SeqEqual
<1>. QED
  BY <1>8 DEF a, b, e, r

\* Nothing is waiting.
LEMMA WholeIsFile ==
    ASSUME NEW f \in Files
    PROVE  Replay(Whole(f, <<>>)) = Replay(f)
<1>1. <<>> \in Seq(Lines) /\ Len(<<>>) = 0
  BY EmptySeq
<1>2. /\ Len(Whole(f, <<>>)) = Len(f) + 0 /\ Len(f) \in Nat
      /\ replayed(Whole(f, <<>>))[Len(f)] = Replay(f)
  BY <1>1, WholeFacts
<1>3. Len(Whole(f, <<>>)) = Len(f)
  BY <1>2
<1>. QED
  BY <1>2, <1>3 DEF Replay

\* Nothing is dropped from a paired history.
LEMMA NothingDropped ==
    ASSUME NEW h \in Histories
    PROVE  drop_unanswered(h) = h
<1> SUFFICES ASSUME LastIs(h, "Assistant") PROVE h[Len(h)].ids = <<>>
  BY DEF drop_unanswered
<1>1. PICK p \in Histories, x \in ItemType : h = Append(p, x) /\ x.ids = <<>>
  BY FrontPaired
<1>2. Len(h) = Len(p) + 1 /\ h[Len(p) + 1] = x
  BY <1>1, AppendItem DEF Histories
<1>. QED
  BY <1>1, <1>2

\* The inductive invariant.
CleanInv == ~dirty => /\ ~open /\ IInv
                      /\ typed => asked < MaxInputs
                      /\ Replay(Whole(file, queue)) \in Histories

\* The initial state.
LEMMA CleanInit == JournalInit => CleanInv
<1> SUFFICES ASSUME JournalInit PROVE CleanInv
  OBVIOUS
<1>1. IInv
  BY IInvInit DEF JournalInit
<1>2. <<>> \in Files /\ Len(<<>>) = 0
  BY EmptySeq DEF Files
<1>3. Replay(<<>>) = <<>>
  BY <1>2, ReplayFacts DEF Replay
<1>4. Replay(Whole(file, queue)) \in Histories
  BY <1>2, <1>3, WholeIsFile, Pieces DEF JournalInit
<1>. QED
  BY <1>1, <1>4 DEF JournalInit, CleanInv

\* A process that resumes the session starts from a paired history.
LEMMA CleanRestart ==
    ASSUME JournalShape, CleanInv, Restart, ~dirty'
    PROVE  ~open' /\ IInv' /\ ~typed' /\ Replay(Whole(file', queue')) \in Histories
<1>1. ~dirty /\ queue = <<>> /\ queue' = <<>> /\ ~typed' /\ UNCHANGED <<file, open>>
  BY DEF Restart
<1>2. ~open /\ IInv /\ (typed => asked < MaxInputs) /\ Replay(Whole(file, queue)) \in Histories
  BY <1>1 DEF CleanInv
<1>3. file \in Files
  BY DEF JournalShape
<1>4. Replay(file) \in Histories
  BY <1>1, <1>2, <1>3, WholeIsFile
<1>5. history' \in Histories
  <2>1. history' = drop_unanswered(Replay(file))
    BY <1>1 DEF Restart, load_session_history, Replay
  <2>. QED
    BY <1>4, <2>1, NothingDropped
<1>6. NoCall \in CallType /\ NoSummary \in SummaryType
  BY Defaults
<1>7. /\ tool_error_counts' \in [Tools -> 0..TOOL_ERROR_THRESHOLD]
      /\ tool_call_stats' \in [Tools -> 0..TOOL_ERROR_THRESHOLD]
      /\ tools_disabled_turns' \in 0..MaxDisabled
  BY ConstantsAssumption DEF Restart
<1>8. asked' \in 0..MaxInputs
  BY <1>2, ConstantsAssumption DEF Restart, IInv, TypeOK
<1>9. lost' \subseteq Nat
  BY <1>2 DEF Restart, IInv, TypeOK
<1>10. TypeOK'
  BY <1>5, <1>6, <1>7, <1>8, <1>9
     DEF Restart, TypeOK, Histories, CallType, SummaryType, Pc, Outcome
<1>11. PairedHistory' /\ GuardNeverFires'
  BY <1>5 DEF Restart, PairedHistory, GuardNeverFires, Histories
<1>. QED
  BY <1>1, <1>2, <1>10, <1>11 DEF IInv

\* Every step keeps the invariant.
LEMMA CleanStep == JournalShape /\ CleanInv /\ [JournalNext]_allVars => CleanInv'
<1> SUFFICES ASSUME JournalShape, CleanInv, [JournalNext]_allVars, ~dirty'
             PROVE  /\ ~open' /\ IInv' /\ (typed' => asked' < MaxInputs)
                    /\ Replay(Whole(file', queue')) \in Histories
  BY DEF CleanInv
<1>0. file \in Files /\ queue \in Seq(Lines)
  BY DEF JournalShape
<1>1. CASE Restart
  BY <1>1, CleanRestart
<1>2. ASSUME ~Restart PROVE ~dirty
  BY <1>2 DEF JournalNext, Type, AppendLine, Turn, SlashRetry, Clear, LoseFile, allVars,
              journalVars, ghosts
<1>3. ASSUME ~Restart
      PROVE  ~open /\ IInv /\ (typed => asked < MaxInputs) /\ Replay(Whole(file, queue)) \in Histories
  BY <1>2, <1>3 DEF CleanInv
<1>4. ASSUME UNCHANGED vars, IInv PROVE IInv'
  BY <1>4, IInvStep
<1>5. CASE Type /\ ~Restart
  <2> DEFINE r == user_line(asked + 1)
             u == User(r.text, r.about)
  <2>1. /\ queue = <<>> /\ asked < MaxInputs /\ queue' = <<r>> /\ typed' = TRUE
        /\ UNCHANGED <<vars, file, open>>
    BY <1>5 DEF Type
  <2>2. asked' = asked
    BY <2>1 DEF vars
  <2>3. r \in Lines /\ r.kind = "user" /\ r \notin Broken
    BY DEF JournalShape, user_line, SessionLine, Lines, TextClass, Broken, Torn, Garbled
  <2>4. u \in ItemType /\ u.kind = "User"
    <3>1. <<>> \in Seq(Ids)
      BY EmptySeq
    <3>2. r.text \in TextClass /\ r.about \in SUBSET Nat
      BY <2>3 DEF Lines
    <3>. QED
      BY <3>1, <3>2 DEF User, Item, ItemType, ItemKind
  <2> HIDE DEF r
  <2>5. Replay(file) \in Histories
    BY <1>0, <1>3, <1>5, <2>1, WholeIsFile
  <2> DEFINE g == Whole(file, <<r>>)
             n == Len(file)
  <2>6. <<r>> \in Seq(Lines) /\ Len(<<r>>) = 1 /\ <<r>>[1] = r
    BY <2>3
  <2>7. /\ g \in Files /\ Len(g) = n + 1 /\ n \in Nat
        /\ g[n + 1] = <<r>>
        /\ replayed(g)[n] = Replay(file)
    <3> DEFINE q == <<r>>
    <3>1. q \in Seq(Lines) /\ Len(q) = 1 /\ q[1] = r /\ 1 \in 1..Len(q)
      BY <2>6
    <3>2. Whole(file, q) = g
      OBVIOUS
    <3> HIDE DEF q, g
    <3>3. /\ g \in Files /\ Len(g) = n + Len(q) /\ n \in Nat
          /\ \A j \in 1..Len(q) : g[n + j] = <<q[j]>>
          /\ replayed(g)[n] = Replay(file)
      BY <1>0, <3>1, <3>2, WholeFacts
    <3> HIDE DEF n
    <3>. QED
      BY <3>1, <3>3
  <2> HIDE DEF g, n
  <2>8. n + 1 \in 1..Len(g) /\ (n + 1) - 1 = n
    BY <2>7
  <2>9. replayed(g)[n + 1] = read_line(Replay(file), <<r>>)
    BY <2>7, <2>8, ReplayFacts
  <2>10. read_line(Replay(file), <<r>>) = push(Replay(file), r)
    BY <2>3, <2>6 DEF read_line, readable
  <2>11. push(Replay(file), r) = Append(Replay(file), u)
    BY <2>3, <2>5, PushFacts DEF Histories
  <2> HIDE DEF u
  <2>12. Replay(g) \in Histories
    BY <2>4, <2>5, <2>7, <2>9, <2>10, <2>11, AppendPaired DEF Replay
  <2>. QED
    BY <1>3, <1>4, <1>5, <2>1, <2>2, <2>12 DEF g
<1>6. CASE AppendLine /\ ~Restart
  <2>1. /\ queue # <<>> /\ put(Head(queue)) /\ open' = FALSE /\ queue' = Tail(queue)
        /\ UNCHANGED <<vars, typed>>
    BY <1>6 DEF AppendLine, ends_line
  <2>2. file' = Append(file, <<Head(queue)>>)
    BY <1>3, <1>6, <2>1 DEF put
  <2>3. Whole(file', queue') = Whole(file, queue)
    BY <1>0, <2>1, <2>2, WholeMoves
  <2>4. asked' = asked
    BY <2>1 DEF vars
  <2>. QED
    BY <1>3, <1>4, <1>6, <2>1, <2>3, <2>4
<1>7. CASE Turn /\ ~Restart
  <2>1. /\ queue = <<>> /\ Next /\ typed' = FALSE /\ UNCHANGED <<file, open>>
        /\ queue' = IF ReturnedOk /\ ~silent THEN persisted(history') ELSE <<>>
    BY <1>7 DEF Turn
  <2>2. IInv'
    BY <1>3, <1>7, <2>1, IInvStep
  <2>3. history' \in Histories
    BY <2>2 DEF IInv, TypeOK, PairedHistory, Histories
  <2>4. Replay(file) \in Histories
    BY <1>0, <1>3, <1>7, <2>1, WholeIsFile
  <2>5. Replay(Whole(file, queue')) \in Histories
    BY <1>0, <2>1, <2>3, <2>4, WholeIsFile, PersistedIsPaired
  <2>. QED
    BY <1>3, <1>7, <2>1, <2>2, <2>5
<1>8. CASE Clear /\ ~Restart
  <2>1. /\ history' = <<>> /\ turn_index' = 0
        /\ UNCHANGED <<pending_reminders, usage_total, planVars, thinking_budget,
                       tools_disabled_turns, pc, call, summary, outcome, asked, lost, as_is,
                       file, open, queue, typed>>
    BY <1>8 DEF Clear, journalVars
  <2>2. history' \in Histories
    BY <2>1, Pieces
  <2>3. TypeOK'
    BY <1>3, <1>8, <2>1, <2>2 DEF IInv, TypeOK, Histories, planVars
  <2>4. PairedHistory' /\ GuardNeverFires'
    BY <1>3, <1>8, <2>1, <2>2 DEF IInv, PairedHistory, GuardNeverFires, Histories
  <2>. QED
    BY <1>3, <1>8, <2>1, <2>3, <2>4 DEF IInv
<1>9. CASE SlashRetry /\ ~Restart
  <2>1. UNCHANGED <<asked, file, open, queue, typed>>
    BY <1>9 DEF SlashRetry
  <2>2. popped(history) \in Histories
    BY <1>3, <1>9, HistoryIsPaired, PoppedPaired
  <2>3. CASE AgentTurn(popped(history), FALSE)
    <3>1. asked' \in 0..MaxInputs
      BY <1>3, <1>9, <2>1 DEF IInv, TypeOK
    <3>2. IInv'
      BY <1>3, <1>9, <2>2, <2>3, <3>1, AgentTurnStep
    <3>. QED
      BY <1>3, <1>9, <2>1, <3>2
  <2>4. CASE /\ history' = popped(history)
             /\ UNCHANGED <<turn_index, pending_reminders, usage_total, planVars,
                            thinking_budget, tools_disabled_turns, pc, call, summary, outcome,
                            asked, lost, as_is>>
    <3>1. TypeOK'
      BY <1>3, <1>9, <2>2, <2>4 DEF IInv, TypeOK, Histories, planVars
    <3>2. PairedHistory' /\ GuardNeverFires'
      BY <1>3, <1>9, <2>2, <2>4 DEF IInv, PairedHistory, GuardNeverFires, Histories
    <3>. QED
      BY <1>3, <1>9, <2>1, <3>1, <3>2 DEF IInv
  <2>. QED
    BY <1>9, <2>3, <2>4 DEF SlashRetry
<1>10. CASE UNCHANGED allVars /\ ~Restart
  <2>1. UNCHANGED <<vars, asked, file, open, queue, typed>>
    BY <1>10 DEF allVars, journalVars, vars
  <2>. QED
    BY <1>3, <1>4, <1>10, <2>1
<1>11. ~LoseFile
  BY DEF LoseFile
<1>. QED
  BY <1>1, <1>5, <1>6, <1>7, <1>8, <1>9, <1>10, <1>11 DEF JournalNext

\* A session whose processes never died in the middle of a write is loaded
\* balanced: the guard has nothing to repair in it, however often it was
\* resumed, cleared, interrupted or compacted.
THEOREM CleanResumeIsPairedHolds == JournalSpec => []CleanResumeIsPaired
<1>1. JournalShape /\ CleanInv => CleanResumeIsPaired
  <2> SUFFICES ASSUME JournalShape, CleanInv, ~dirty, queue = <<>>
               PROVE  ToRepair(file) = {}
    BY DEF CleanResumeIsPaired
  <2>1. file \in Files /\ Replay(Whole(file, <<>>)) \in Histories
    BY DEF CleanInv, JournalShape
  <2>2. Replay(file) \in Histories
    BY <2>1, WholeIsFile
  <2>3. load_session_history(file) = Replay(file)
    BY <2>2, NothingDropped DEF load_session_history, Replay
  <2>. QED
    BY <2>2, <2>3, NothingToRepair DEF ToRepair
<1>2. JournalShape /\ CleanInv /\ [JournalNext]_allVars => CleanInv'
  BY CleanStep
<1>. QED
  BY <1>1, <1>2, CleanInit, ShapeInvariance, PTL DEF JournalSpec

\* Such a session never trips the pairing guard itself: with the checks of
\* AETHER_DEBUG on, no turn of it fails, in whatever process it runs.
THEOREM CleanSessionNeverFails == JournalSpec => [](~dirty => PairedHistory /\ GuardNeverFires)
<1>1. CleanInv => (~dirty => PairedHistory /\ GuardNeverFires)
  BY DEF CleanInv, IInv
<1>2. JournalShape /\ CleanInv /\ [JournalNext]_allVars => CleanInv'
  BY CleanStep
<1>. QED
  BY <1>1, <1>2, CleanInit, ShapeInvariance, PTL DEF JournalSpec

\* From the file to the wire: whatever the crashes of earlier processes left in the
\* file and a resume made of it, what the guard sends obeys the provider's rule;
\* and as long as no process died while it was appending, the guard sends the
\* history as it is.
THEOREM EveryRequestBalanced ==
    JournalSpec => [](LET thread == translate_history(history)
                      IN  /\ Balanced(sanitize_tool_pairing(thread))
                          /\ ~dirty => sanitize_tool_pairing(thread) = thread)
<1> DEFINE Sound == LET thread == translate_history(history)
                    IN  /\ Balanced(sanitize_tool_pairing(thread))
                        /\ ~dirty => sanitize_tool_pairing(thread) = thread
<1>1. JournalShape /\ (~dirty => PairedHistory /\ GuardNeverFires) => Sound
  <2> SUFFICES ASSUME JournalShape, ~dirty => PairedHistory PROVE Sound
    OBVIOUS
  <2> DEFINE thread == translate_history(history)
  <2>1. history \in Seq(ItemType) /\ (~dirty => history \in Histories)
    BY DEF JournalShape, SessionShape, PairedHistory, Histories
  <2>2. thread \in Threads /\ (~dirty => repairs(thread) = {})
    BY <2>1, TranslatedHistory, NothingToRepair
  <2> HIDE DEF thread
  <2>3. Balanced(sanitize_tool_pairing(thread))
    BY <2>2, GuardBalances
  <2>4. ~dirty => sanitize_tool_pairing(thread) = thread
    BY <2>2, ReportsIffUnbalanced, BalancedUntouched
  <2>. QED
    BY <2>3, <2>4 DEF thread
<1>. QED
  BY <1>1, ShapeInvariance, CleanSessionNeverFails, PTL

-----------------------------------------------------------------------------
(***************************************************************************)
(* What a resume remembers.                                                *)
(*                                                                         *)
(* The live history and the file are changed by different hands: the one   *)
(* is cut by compaction, popped by Ctrl-C and emptied by /clear, the other *)
(* only grows, and joins records to items by rules of its own.  What is    *)
(* invariant is stated between the live history and the file as it will be *)
(* when the queue is written, less the dispatch a resume drops.            *)
(***************************************************************************)

\* An item with more ids.
Grown(x, ids) == [x EXCEPT !.ids = @ \o ids]

\* Its ids are those it had and the new ones.
LEMMA GrownFacts ==
    ASSUME NEW x \in ItemType, NEW ids \in Seq(Ids)
    PROVE  LET y == Grown(x, ids)
           IN  /\ y \in ItemType
               /\ y.kind = x.kind /\ y.text = x.text /\ y.about = x.about /\ y.ids = x.ids \o ids
               /\ ToSet(x.ids) \subseteq ToSet(y.ids) /\ ToSet(ids) \subseteq ToSet(y.ids)
<1> DEFINE s == x.ids
           c == s \o ids
<1>1. s \in Seq(Ids)
  BY DEF ItemType
<1> HIDE DEF s
<1>2. /\ c \in Seq(Ids) /\ Len(c) = Len(s) + Len(ids) /\ Len(s) \in Nat /\ Len(ids) \in Nat
      /\ \A i \in 1..Len(s) + Len(ids) : c[i] = IF i <= Len(s) THEN s[i] ELSE ids[i - Len(s)]
      /\ DOMAIN s = 1..Len(s) /\ DOMAIN ids = 1..Len(ids)
  BY <1>1, ConcatProperties, LenProperties
<1>3. DOMAIN c = 1..Len(s) + Len(ids)
  BY <1>2, LenProperties
<1> HIDE DEF c
<1>4. ToSet(s) \subseteq ToSet(c)
  <2>1. \A i \in DOMAIN s : i \in DOMAIN c /\ c[i] = s[i]
    BY <1>2, <1>3
  <2>. QED
    BY <2>1 DEF ToSet
<1>5. ToSet(ids) \subseteq ToSet(c)
  <2>1. \A i \in DOMAIN ids : Len(s) + i \in DOMAIN c /\ c[Len(s) + i] = ids[i]
    <3> SUFFICES ASSUME NEW i \in DOMAIN ids PROVE Len(s) + i \in DOMAIN c /\ c[Len(s) + i] = ids[i]
      OBVIOUS
    <3>1. Len(s) + i \in 1..Len(s) + Len(ids) /\ ~(Len(s) + i <= Len(s)) /\ (Len(s) + i) - Len(s) = i
      BY <1>2
    <3>. QED
      BY <1>2, <1>3, <3>1
  <2>. QED
    BY <2>1 DEF ToSet
<1>6. Grown(x, ids) = [x EXCEPT !.ids = c]
  BY DEF Grown, c, s
<1>7. /\ [x EXCEPT !.ids = c] \in ItemType /\ [x EXCEPT !.ids = c].ids = c
      /\ [x EXCEPT !.ids = c].kind = x.kind /\ [x EXCEPT !.ids = c].text = x.text
      /\ [x EXCEPT !.ids = c].about = x.about
  BY <1>2 DEF ItemType
<1>. QED
  BY <1>4, <1>5, <1>6, <1>7 DEF s, c

\* One id more.
LEMMA GrowOne ==
    ASSUME NEW x \in ItemType, NEW ids \in Seq(Ids), NEW i \in Ids
    PROVE  LET y == Grown(x, ids)
           IN  [y EXCEPT !.ids = Append(y.ids, i)] = Grown(x, Append(ids, i))
<1> DEFINE y == Grown(x, ids)
           s == x.ids
<1>1. s \in Seq(Ids) /\ y.ids = s \o ids
  BY GrownFacts DEF ItemType
<1>2. Append(s \o ids, i) = s \o Append(ids, i)
  <2> DEFINE a == s \o ids
             d == Append(a, i)
             e == Append(ids, i)
             f == s \o e
  <2> HIDE DEF s
  <2>1. /\ a \in Seq(Ids) /\ Len(a) = Len(s) + Len(ids) /\ Len(s) \in Nat /\ Len(ids) \in Nat
        /\ \A k \in 1..Len(s) + Len(ids) : a[k] = IF k <= Len(s) THEN s[k] ELSE ids[k - Len(s)]
    BY <1>1, ConcatProperties, LenProperties
  <2>2. /\ e \in Seq(Ids) /\ Len(e) = Len(ids) + 1 /\ e[Len(ids) + 1] = i
        /\ \A k \in 1..Len(ids) : e[k] = ids[k]
    BY AppendProperties
  <2> HIDE DEF a, e
  <2>3. /\ d \in Seq(Ids) /\ Len(d) = Len(a) + 1 /\ d[Len(a) + 1] = i
        /\ \A k \in 1..Len(a) : d[k] = a[k]
    BY <2>1, AppendProperties
  <2>4. /\ f \in Seq(Ids) /\ Len(f) = Len(s) + Len(e)
        /\ \A k \in 1..Len(s) + Len(e) : f[k] = IF k <= Len(s) THEN s[k] ELSE e[k - Len(s)]
    BY <1>1, <2>2, ConcatProperties
  <2> HIDE DEF d, f
  <2>5. ASSUME NEW k \in 1..Len(d) PROVE d[k] = f[k]
    <3>1. CASE k <= Len(s)
      <4>1. k \in 1..Len(a) /\ k \in 1..Len(s) + Len(ids) /\ k \in 1..Len(s) + Len(e)
        BY <2>1, <2>2, <2>3, <3>1
      <4>. QED
        BY <2>1, <2>3, <2>4, <3>1, <4>1
    <3>2. CASE k > Len(s) /\ k <= Len(a)
      <4>1. k - Len(s) \in 1..Len(ids) /\ k \in 1..Len(a) /\ ~(k <= Len(s))
            /\ k \in 1..Len(s) + Len(ids) /\ k \in 1..Len(s) + Len(e)
        BY <2>1, <2>2, <2>3, <3>2
      <4>2. d[k] = ids[k - Len(s)]
        BY <2>1, <2>3, <4>1
      <4>3. f[k] = e[k - Len(s)]
        BY <2>4, <4>1
      <4>. QED
        BY <2>2, <4>1, <4>2, <4>3
    <3>3. CASE k = Len(a) + 1
      <4>1. k - Len(s) = Len(ids) + 1 /\ ~(k <= Len(s)) /\ k \in 1..Len(s) + Len(e)
        BY <2>1, <2>2, <3>3
      <4>2. f[k] = e[k - Len(s)]
        BY <2>4, <4>1
      <4>. QED
        BY <2>2, <2>3, <3>3, <4>1, <4>2
    <3>4. k <= Len(s) \/ (k > Len(s) /\ k <= Len(a)) \/ k = Len(a) + 1
      BY <2>1, <2>3
    <3>. QED
      BY <3>1, <3>2, <3>3, <3>4
  <2>6. Len(d) = Len(f)
    BY <2>1, <2>2, <2>3, <2>4
  <2>7. d = f
    BY <2>3, <2>4, <2>5, <2>6, SeqEqual
  <2>. QED
    BY <2>7 DEF d, f, a, e
<1>3. y = [x EXCEPT !.ids = s \o ids] /\ Grown(x, Append(ids, i)) = [x EXCEPT !.ids = s \o Append(ids, i)]
  BY DEF Grown
<1>4. [y EXCEPT !.ids = Append(s \o ids, i)] = [x EXCEPT !.ids = Append(s \o ids, i)]
  BY <1>3 DEF ItemType
<1>. QED
  BY <1>1, <1>2, <1>3, <1>4

\* A stretch of records, as the one item it makes.
LEMMA StretchGrows ==
    ASSUME NEW g, NEW a \in Nat, NEW ids \in Seq(Ids), NEW kind \in {"tool_use", "tool_result"},
           Stretch(g, a, ids, kind), Len(ids) >= 1,
           NEW p \in Seq(ItemType), NEW x \in ItemType, x.kind = Holder(kind),
           replayed(g)[a + 1] = Append(p, Grown(x, <<ids[1]>>))
    PROVE  replayed(g)[a + Len(ids)] = Append(p, Grown(x, ids))
<1> DEFINE m == Len(ids)
           h == replayed(g)
           Part(j) == SubSeq(ids, 1, j)
           P == {j \in Nat : j + 1 <= m => h[a + (j + 1)] = Append(p, Grown(x, Part(j + 1)))}
<1>1. /\ g \in Files /\ a \in Nat /\ m \in Nat /\ a + m <= Len(g) /\ ids \in Seq(Ids) /\ m >= 1
      /\ \A j \in 1..m : ids[j] \in Ids
  BY LenProperties, ElementOfSeq DEF Stretch
<1>2. Len(g) \in Nat /\ \A k \in 1..Len(g) : g[k] \in Seq(Cells)
  BY <1>1, LenProperties, ElementOfSeq DEF Files
<1>3. \A k \in 1..Len(g) : h[k] = read_line(h[k - 1], g[k])
  BY <1>1, ReplayFacts
<1>4. \A j \in 1..m : readable(g[a + j]) /\ g[a + j][1].kind = kind /\ g[a + j][1].id = ids[j]
  BY DEF Stretch
<1>5. Part(1) = <<ids[1]>>
  <2>1. 1 \in 1..m /\ 1 \in 1..1
    BY <1>1
  <2>2. \A i \in 1..1 : ids[i] \in Ids
    BY <1>1
  <2>3. Part(1) \in Seq(Ids) /\ Len(Part(1)) = 1 /\ Part(1)[1] = ids[1]
    BY <2>2, SubSeqProperties
  <2> HIDE DEF Part
  <2>4. <<ids[1]>> \in Seq(Ids) /\ Len(<<ids[1]>>) = 1 /\ <<ids[1]>>[1] = ids[1]
    BY <1>1, <2>1
  <2>. QED
    BY <2>3, <2>4, SeqEqual
<1>6. ASSUME NEW j \in 1..m, j + 1 <= m
      PROVE  Part(j) \in Seq(Ids) /\ Part(j + 1) = Append(Part(j), ids[j + 1])
  <2>1. \A i \in 1..j : ids[i] \in Ids
    BY <1>1
  <2>2. Part(j) \in Seq(Ids) /\ Len(Part(j)) = j /\ \A i \in 1..j : Part(j)[i] = ids[i]
    BY <2>1, SubSeqProperties
  <2>3. \A i \in 1..j + 1 : ids[i] \in Ids
    BY <1>1, <1>6
  <2>4. Part(j + 1) \in Seq(Ids) /\ Len(Part(j + 1)) = j + 1 /\ \A i \in 1..j + 1 : Part(j + 1)[i] = ids[i]
    BY <2>3, SubSeqProperties
  <2> HIDE DEF Part
  <2> DEFINE b == Append(Part(j), ids[j + 1])
  <2>5. ids[j + 1] \in Ids
    BY <2>3
  <2>6. b \in Seq(Ids) /\ Len(b) = j + 1 /\ b[j + 1] = ids[j + 1] /\ \A i \in 1..j : b[i] = Part(j)[i]
    BY <2>2, <2>5, AppendProperties
  <2> HIDE DEF b
  <2>7. \A i \in 1..j + 1 : b[i] = Part(j + 1)[i]
    <3>1. \A i \in 1..j + 1 : i = j + 1 \/ i \in 1..j
      OBVIOUS
    <3>. QED
      BY <2>2, <2>4, <2>6, <3>1
  <2>8. b = Part(j + 1)
    BY <2>4, <2>6, <2>7, SeqEqual
  <2>. QED
    BY <2>2, <2>8 DEF b
<1>7. h[a + 1] = Append(p, Grown(x, Part(1)))
  BY <1>5
<1> HIDE DEF h, m, Part
<1>8. 0 \in P
  BY <1>7
<1>9. ASSUME NEW i \in Nat, i \in P PROVE i + 1 \in P
  <2> SUFFICES ASSUME (i + 1) + 1 <= m
               PROVE  h[a + ((i + 1) + 1)] = Append(p, Grown(x, Part((i + 1) + 1)))
    OBVIOUS
  <2> DEFINE j == i + 1
  <2>1. j \in 1..m /\ j + 1 \in 1..m /\ j + 1 <= m /\ a + (j + 1) \in 1..Len(g)
        /\ (a + (j + 1)) - 1 = a + j
    BY <1>1, <1>2
  <2>2. h[a + j] = Append(p, Grown(x, Part(j)))
    BY <1>1, <1>9, <2>1
  <2> HIDE DEF j
  <2> DEFINE y == Grown(x, Part(j))
             q == Append(p, y)
             line == g[a + (j + 1)]
  <2>3. /\ ids[j + 1] \in Ids /\ line \in Seq(Cells) /\ readable(line)
        /\ line[1].kind = kind /\ line[1].id = ids[j + 1]
    BY <1>1, <1>2, <1>4, <2>1
  <2>4. h[a + (j + 1)] = read_line(q, line)
    BY <1>3, <2>1, <2>2
  <2>5. Part(j) \in Seq(Ids) /\ Part(j + 1) = Append(Part(j), ids[j + 1])
    BY <1>6, <2>1
  <2>6. y \in ItemType /\ y.kind = Holder(kind)
    BY <2>5, GrownFacts
  <2>7. [y EXCEPT !.ids = Append(y.ids, ids[j + 1])] = Grown(x, Part(j + 1))
    <3> DEFINE s == Part(j)
               i1 == ids[j + 1]
    <3> HIDE DEF s, i1
    <3>1. s \in Seq(Ids) /\ i1 \in Ids /\ y = Grown(x, s) /\ Part(j + 1) = Append(s, i1)
      BY <2>3, <2>5 DEF s, i1
    <3>2. LET z == Grown(x, s) IN [z EXCEPT !.ids = Append(z.ids, i1)] = Grown(x, Append(s, i1))
      BY <3>1, GrowOne
    <3>. QED
      BY <3>1, <3>2 DEF i1
  <2> HIDE DEF y, line
  <2>8. q \in Seq(ItemType) /\ LastIs(q, Holder(kind))
    BY <2>6, AppendItem DEF LastIs
  <2>9. extend_last(q, ids[j + 1]) = Append(p, [y EXCEPT !.ids = Append(y.ids, ids[j + 1])])
    BY <2>3, <2>6, ExtendAppended
  <2> HIDE DEF q
  <2>10. read_line(q, line) = extend_last(q, ids[j + 1])
    BY <2>3, <2>8, RecordFacts
  <2>. QED
    BY <2>4, <2>7, <2>9, <2>10 DEF j
<1> HIDE DEF P
<1>10. Nat \subseteq P
  BY <1>8, <1>9, InductionOnNat
<1>11. m - 1 \in P /\ m - 1 \in Nat /\ (m - 1) + 1 = m
  BY <1>1, <1>10
<1>12. h[a + m] = Append(p, Grown(x, Part(m)))
  BY <1>1, <1>11 DEF P
<1>13. Part(m) = ids
  BY <1>1, SubSeqFull DEF Part, m
<1>. QED
  BY <1>12, <1>13 DEF h, m

\* A history that is not empty has a last item.
LEMMA LastItem ==
    ASSUME NEW h \in Seq(ItemType), h # <<>>
    PROVE  \E p \in Seq(ItemType), x \in ItemType : h = Append(p, x) /\ x = h[Len(h)]
<1> DEFINE n == Len(h)
           p == SubSeq(h, 1, n - 1)
           x == h[n]
           a == Append(p, x)
<1>1. n \in Nat \ {0} /\ x \in ItemType
  <2>1. n \in Nat \ {0}
    BY EmptySeq
  <2>2. n \in 1..n
    BY <2>1
  <2>. QED
    BY <2>1, <2>2, ElementOfSeq
<1>2. p \in Seq(ItemType) /\ Len(p) = n - 1 /\ \A i \in 1..(n - 1) : p[i] = h[i]
  <2>1. 1 \in 1..(n + 1) /\ n - 1 \in 0..n /\ 1 <= (n - 1) + 1 /\ (n - 1) - 1 + 1 = n - 1
    BY <1>1
  <2>2. /\ p \in Seq(ItemType) /\ Len(p) = (n - 1) - 1 + 1
        /\ \A i \in 1..((n - 1) - 1 + 1) : p[i] = h[1 + i - 1]
    BY <2>1, PieceFacts
  <2>3. \A i \in 1..(n - 1) : 1 + i - 1 = i
    BY <1>1
  <2> HIDE DEF p
  <2>. QED
    BY <2>1, <2>2, <2>3
<1> HIDE DEF p, x
<1>3. /\ a \in Seq(ItemType) /\ Len(a) = Len(p) + 1
      /\ (\A i \in 1..Len(p) : a[i] = p[i]) /\ a[Len(p) + 1] = x
  BY <1>1, <1>2, AppendItem
<1> HIDE DEF a
<1>4. \A i \in 1..n : a[i] = h[i]
  <2>1. \A i \in 1..n : i \in 1..(n - 1) \/ i = (n - 1) + 1
    BY <1>1
  <2>. QED
    BY <1>2, <1>3, <2>1 DEF x
<1>5. a = h
  BY <1>1, <1>2, <1>3, <1>4, SeqEqual
<1>. QED
  BY <1>1, <1>2, <1>5 DEF a, x

\* Items with no ids yet.
LEMMA Blanks ==
    ASSUME NEW text \in TextClass
    PROVE  /\ Assistant(text, <<>>) \in ItemType /\ ToolResults(<<>>) \in ItemType
           /\ Assistant(text, <<>>).kind = "Assistant" /\ Assistant(text, <<>>).text = text
           /\ Assistant(text, <<>>).ids = <<>>
           /\ ToolResults(<<>>).kind = "ToolResults"
           /\ \A ids \in Seq(Ids) : /\ Grown(Assistant(text, <<>>), ids) = Assistant(text, ids)
                                    /\ Grown(ToolResults(<<>>), ids) = ToolResults(ids)
<1>1. <<>> \in Seq(Ids)
  BY EmptySeq
<1>2. \A ids \in Seq(Ids) : <<>> \o ids = ids
  BY ConcatEmptySeq
<1>3. /\ Assistant(text, <<>>) \in ItemType /\ ToolResults(<<>>) \in ItemType
      /\ Assistant(text, <<>>).kind = "Assistant" /\ Assistant(text, <<>>).text = text
      /\ Assistant(text, <<>>).ids = <<>>
      /\ ToolResults(<<>>).kind = "ToolResults"
  BY <1>1 DEF Assistant, ToolResults, Item, ItemType, ItemKind, TextClass
<1>4. ASSUME NEW ids \in Seq(Ids)
      PROVE  /\ Grown(Assistant(text, <<>>), ids) = Assistant(text, ids)
             /\ Grown(ToolResults(<<>>), ids) = ToolResults(ids)
  <2>1. <<>> \o ids = ids
    BY <1>2
  <2> DEFINE x == Assistant(text, <<>>)
             y == ToolResults(<<>>)
  <2>2. x.ids = <<>> /\ y.ids = <<>>
    BY DEF Assistant, ToolResults, Item
  <2>3. Grown(x, ids) = [x EXCEPT !.ids = ids] /\ Grown(y, ids) = [y EXCEPT !.ids = ids]
    <3> HIDE DEF x, y
    <3>. QED
      BY <2>1, <2>2 DEF Grown
  <2>4. ASSUME NEW k, NEW v, NEW s, NEW about
        PROVE  [Item(k, v, s, about) EXCEPT !.ids = ids] = Item(k, v, ids, about)
    BY DEF Item
  <2>5. x = Item("Assistant", text, <<>>, {}) /\ y = Item("ToolResults", "none", <<>>, {})
    BY DEF Assistant, ToolResults
  <2>6. Assistant(text, ids) = Item("Assistant", text, ids, {}) /\ ToolResults(ids) = Item("ToolResults", "none", ids, {})
    BY DEF Assistant, ToolResults
  <2>7. [x EXCEPT !.ids = ids] = Item("Assistant", text, ids, {})
        /\ [y EXCEPT !.ids = ids] = Item("ToolResults", "none", ids, {})
    BY <2>4, <2>5
  <2>. QED
    BY <2>3, <2>6, <2>7
<1>. QED
  BY <1>3, <1>4

\* A record that joins the last item.
LEMMA ExtendGrows ==
    ASSUME NEW p \in Seq(ItemType), NEW x \in ItemType, NEW i \in Ids
    PROVE  extend_last(Append(p, x), i) = Append(p, Grown(x, <<i>>))
<1>1. <<>> \in Seq(Ids)
  BY EmptySeq
<1>2. LET z == Grown(x, <<>>) IN [z EXCEPT !.ids = Append(z.ids, i)] = Grown(x, Append(<<>>, i))
  BY <1>1, GrowOne
<1>3. Grown(x, <<>>) = x
  <2>1. x.ids \o <<>> = x.ids
    BY ConcatEmptySeq DEF ItemType
  <2>. QED
    BY <2>1 DEF Grown, ItemType
<1>4. Append(<<>>, i) = <<i>>
  OBVIOUS
<1>5. [x EXCEPT !.ids = Append(x.ids, i)] = Grown(x, <<i>>)
  BY <1>2, <1>3, <1>4
<1> DEFINE y == [x EXCEPT !.ids = Append(x.ids, i)]
<1>6. extend_last(Append(p, x), i) = Append(p, y)
  BY ExtendAppended
<1>7. y = Grown(x, <<i>>)
  BY <1>5
<1> HIDE DEF y
<1>. QED
  BY <1>6, <1>7

\* A record read after a history that does, or does not, end with its holder.
LEMMA RecordRead ==
    ASSUME NEW h \in Seq(ItemType), NEW cells \in Seq(Cells), readable(cells)
    PROVE  /\ cells[1].kind = "tool_use" =>
                 /\ LastIs(h, "Assistant") => read_line(h, cells) = extend_last(h, cells[1].id)
                 /\ ~LastIs(h, "Assistant") =>
                       read_line(h, cells) = Append(h, Assistant("none", <<cells[1].id>>))
           /\ cells[1].kind = "tool_result" =>
                 /\ LastIs(h, "ToolResults") => read_line(h, cells) = extend_last(h, cells[1].id)
                 /\ ~LastIs(h, "ToolResults") =>
                       read_line(h, cells) = Append(h, ToolResults(<<cells[1].id>>))
<1>1. read_line(h, cells) = push(h, cells[1])
  BY DEF read_line
<1>. QED
  BY <1>1 DEF push

\* The line of a text makes an item.
LEMMA TextReplayed ==
    ASSUME NEW g \in Files, NEW a \in Nat, NEW t \in {0, 1}, NEW item \in ItemType, TextAt(g, a, t, item),
           a + t <= Len(g)
    PROVE  /\ replayed(g)[a] \in Seq(ItemType)
           /\ t = 0 => item.text = "none" /\ replayed(g)[a + t] = replayed(g)[a]
           /\ t = 1 => /\ item.text # "none"
                       /\ replayed(g)[a + t] = Append(replayed(g)[a], Assistant(item.text, <<>>))
<1>0. Len(g) \in Nat /\ t \in {0, 1} /\ (t = 0 <=> item.text = "none")
  BY LenProperties DEF Files, TextAt
<1>1. a \in 0..Len(g) /\ replayed(g)[a] \in Seq(ItemType)
  <2>1. a \in 0..Len(g)
    BY <1>0
  <2>. QED
    BY <2>1, ReplayFacts
<1>2. CASE t = 0
  <2>1. a + t = a
    BY <1>2
  <2>. QED
    BY <1>0, <1>1, <1>2, <2>1
<1>3. CASE t = 1
  <2> DEFINE h == replayed(g)
             r == g[a + 1][1]
  <2>1. a + 1 \in 1..Len(g) /\ (a + 1) - 1 = a /\ a + t = a + 1
    BY <1>0, <1>3
  <2>2. h[a + 1] = read_line(h[a], g[a + 1]) /\ g[a + 1] \in Seq(Cells)
    BY <2>1, ReplayFacts, ElementOfSeq DEF Files
  <2>3. readable(g[a + 1]) /\ r = text_line(item.text)
    BY <1>3 DEF TextAt
  <2>4. h[a + 1] = push(h[a], r)
    BY <1>1, <2>2, <2>3, ReadLineType
  <2>5. r.kind = "assistant" /\ r.text = item.text
    BY <2>3 DEF text_line, SessionLine
  <2> HIDE DEF r, h
  <2>6. push(h[a], r) = Append(h[a], Assistant(item.text, <<>>))
    BY <2>5 DEF push
  <2>. QED
    BY <1>0, <1>1, <1>3, <2>1, <2>4, <2>6 DEF h
<1>. QED
  BY <1>0, <1>2, <1>3

\* An answer with its calls and their results, read after history h: it makes
\* two items, or its uses join an answer of h that ends with it.
Exchange(h, text, ids, p, x) ==
    /\ p \in Seq(ItemType) /\ x \in ItemType /\ x.kind = "Assistant"
    /\ \/ p = h /\ x = Assistant(text, <<>>)
       \/ text = "none" /\ h = Append(p, x)

\* That is what the lines of such an answer are read as.
LEMMA ExchangeReplayed ==
    ASSUME NEW g \in Files, NEW a \in Nat, NEW t \in {0, 1}, NEW item \in ItemType,
           Len(item.ids) >= 1, TextAt(g, a, t, item),
           Stretch(g, a + t, item.ids, "tool_use"),
           Stretch(g, (a + t) + Len(item.ids), item.ids, "tool_result")
    PROVE  \E p, x : /\ Exchange(replayed(g)[a], item.text, item.ids, p, x)
                     /\ replayed(g)[((a + t) + Len(item.ids)) + Len(item.ids)]
                           = Append(Append(p, Grown(x, item.ids)), ToolResults(item.ids))
<1> DEFINE ids == item.ids
           m == Len(ids)
           h == replayed(g)
           b == a + t
           i == ids[1]
<1>1. /\ b \in Nat /\ m \in Nat /\ m >= 1 /\ b + m <= Len(g) /\ (b + m) + m <= Len(g)
      /\ ids \in Seq(Ids) /\ i \in Ids /\ item.text \in TextClass /\ <<i>> \in Seq(Ids)
      /\ Len(g) \in Nat
  <2>1. ids \in Seq(Ids) /\ item.text \in TextClass
    BY DEF ItemType
  <2>2. m >= 1 /\ b + m <= Len(g) /\ (b + m) + m <= Len(g) /\ b \in Nat
    BY DEF Stretch
  <2> HIDE DEF ids, b
  <2>3. m \in Nat /\ Len(g) \in Nat
    BY <2>1, LenProperties DEF Files
  <2>4. 1 \in 1..m
    BY <2>2, <2>3
  <2>5. i \in Ids
    BY <2>1, <2>4, ElementOfSeq
  <2> HIDE DEF i, m
  <2>. QED
    BY <2>1, <2>2, <2>3, <2>5
<1>2. h \in [0..Len(g) -> Seq(ItemType)] /\ \A k \in 1..Len(g) : h[k] = read_line(h[k - 1], g[k])
  BY ReplayFacts
<1>3. \A k \in 1..Len(g) : g[k] \in Seq(Cells)
  BY ElementOfSeq DEF Files
<1>4. /\ h[a] \in Seq(ItemType)
      /\ t = 0 => item.text = "none" /\ h[b] = h[a]
      /\ t = 1 => h[b] = Append(h[a], Assistant(item.text, <<>>))
  <2>1. b <= Len(g)
    <3> HIDE DEF b, m
    <3>. QED
      BY <1>1
  <2>2. a + t <= Len(g)
    BY <2>1
  <2>3. /\ replayed(g)[a] \in Seq(ItemType)
        /\ t = 0 => item.text = "none" /\ replayed(g)[a + t] = replayed(g)[a]
        /\ t = 1 => /\ item.text # "none"
                    /\ replayed(g)[a + t] = Append(replayed(g)[a], Assistant(item.text, <<>>))
    <3>1. t \in {0, 1} /\ a \in Nat /\ item \in ItemType /\ g \in Files
      OBVIOUS
    <3> HIDE DEF b, h, i, ids, m
    <3>. QED
      BY <2>2, <3>1, TextReplayed
  <2>. QED
    BY <2>3
<1>5. /\ b + 1 \in 1..Len(g) /\ (b + 1) - 1 = b /\ b \in 0..Len(g) /\ 1 \in 1..m
      /\ (b + m) + 1 \in 1..Len(g) /\ ((b + m) + 1) - 1 = b + m /\ b + m \in Nat
  <2> DEFINE l == Len(g)
  <2> HIDE DEF b, m, l
  <2>1. b \in Nat /\ m \in Nat /\ l \in Nat /\ m >= 1 /\ b + m <= l /\ (b + m) + m <= l
    BY <1>1 DEF l
  <2>2. b + 1 \in 1..l /\ (b + 1) - 1 = b /\ b \in 0..l /\ 1 \in 1..m
    BY <2>1
  <2>3. (b + m) + 1 \in 1..l /\ ((b + m) + 1) - 1 = b + m /\ b + m \in Nat
    BY <2>1
  <2>. QED
    BY <2>2, <2>3 DEF l
<1>6. /\ readable(g[b + 1]) /\ g[b + 1][1].kind = "tool_use" /\ g[b + 1][1].id = i
      /\ readable(g[(b + m) + 1]) /\ g[(b + m) + 1][1].kind = "tool_result"
      /\ g[(b + m) + 1][1].id = i
  BY <1>5 DEF Stretch
<1>7. Stretch(g, b, ids, "tool_use") /\ Stretch(g, b + m, ids, "tool_result") /\ Len(ids) >= 1
  OBVIOUS
<1>8. /\ Holder("tool_use") = "Assistant" /\ Holder("tool_result") = "ToolResults"
      /\ "tool_use" \in {"tool_use", "tool_result"} /\ "tool_result" \in {"tool_use", "tool_result"}
  BY DEF Holder
<1> HIDE DEF ids, m, b, h
<1>9. PICK p, x : Exchange(h[a], item.text, ids, p, x) /\ h[b + 1] = Append(p, Grown(x, <<i>>))
  <2> DEFINE s == h[b]
  <2>1. s \in Seq(ItemType) /\ h[b + 1] = read_line(s, g[b + 1])
    BY <1>2, <1>5
  <2> HIDE DEF s
  <2>2. CASE LastIs(s, "Assistant")
    <3>1. PICK p \in Seq(ItemType), x \in ItemType : s = Append(p, x) /\ x = s[Len(s)]
      BY <2>1, <2>2, LastItem DEF LastIs
    <3>2. x.kind = "Assistant"
      BY <2>2, <3>1 DEF LastIs
    <3>3. h[b + 1] = extend_last(s, i)
      BY <1>3, <1>5, <1>6, <1>8, <2>1, <2>2, RecordFacts
    <3>4. extend_last(s, i) = Append(p, Grown(x, <<i>>))
      BY <1>1, <3>1, ExtendGrows
    <3>6. Exchange(h[a], item.text, ids, p, x)
      <4>1. CASE t = 0
        BY <1>4, <3>1, <3>2, <4>1 DEF Exchange, s
      <4>2. CASE t = 1
        <5> DEFINE y == Assistant(item.text, <<>>)
        <5>1. y \in ItemType
          BY <1>1, Blanks
        <5>2. s = Append(h[a], y)
          BY <1>4, <4>2 DEF s
        <5> HIDE DEF y
        <5>3. Len(s) = Len(p) + 1 /\ Len(p) \in Nat /\ (\A k \in 1..Len(p) : s[k] = p[k]) /\ s[Len(p) + 1] = x
          BY <3>1, AppendItem
        <5>4. /\ Len(s) = Len(h[a]) + 1 /\ Len(h[a]) \in Nat
              /\ (\A k \in 1..Len(h[a]) : s[k] = h[a][k]) /\ s[Len(h[a]) + 1] = y
          BY <1>4, <5>1, <5>2, AppendItem
        <5>5. Len(p) = Len(h[a]) /\ x = y
          BY <5>3, <5>4
        <5>6. p = h[a]
          BY <1>4, <3>1, <5>3, <5>4, <5>5, SeqEqual
        <5>. QED
          BY <1>4, <3>1, <3>2, <5>5, <5>6 DEF Exchange, y
      <4>. QED
        BY <4>1, <4>2
    <3>. QED
      BY <3>3, <3>4, <3>6
  <2>3. CASE ~LastIs(s, "Assistant")
    <3>1. t = 0
      <4> SUFFICES ASSUME t = 1 PROVE FALSE
        OBVIOUS
      <4> DEFINE y == Assistant(item.text, <<>>)
      <4>1. y \in ItemType /\ y.kind = "Assistant"
        BY <1>1, Blanks
      <4>2. s = Append(h[a], y)
        BY <1>4 DEF s
      <4> HIDE DEF y
      <4>. QED
        BY <1>4, <2>3, <4>1, <4>2, AppendItem DEF LastIs
    <3>2. h[b + 1] = Append(s, Assistant("none", <<i>>))
      BY <1>3, <1>5, <1>6, <2>1, <2>3, RecordRead
    <3> DEFINE x == Assistant("none", <<>>)
    <3>3. x \in ItemType /\ x.kind = "Assistant" /\ Grown(x, <<i>>) = Assistant("none", <<i>>)
      BY <1>1, Blanks DEF TextClass
    <3>4. h[b + 1] = Append(s, Grown(x, <<i>>))
      BY <3>2, <3>3
    <3>5. Exchange(h[a], item.text, ids, s, x)
      BY <1>4, <2>1, <3>1, <3>3 DEF Exchange, s
    <3>. QED
      BY <3>4, <3>5
  <2>. QED
    BY <2>2, <2>3
<1>10. p \in Seq(ItemType) /\ x \in ItemType /\ x.kind = "Assistant"
  BY <1>9 DEF Exchange
<1>t. b \in Nat /\ b + m \in Nat /\ ids \in Seq(Ids)
  BY <1>1, <1>5
<1> DEFINE e == Append(p, Grown(x, ids))
<1>11. h[b + m] = e
  <2>1. replayed(g)[b + 1] = Append(p, Grown(x, <<ids[1]>>))
    BY <1>9 DEF h, i
  <2>2. x.kind = Holder("tool_use")
    BY <1>8, <1>10
  <2>3. replayed(g)[b + Len(ids)] = Append(p, Grown(x, ids))
    BY <1>t, <1>7, <1>8, <1>10, <2>1, <2>2, StretchGrows
  <2>. QED
    BY <2>3 DEF h, m
<1>12. e \in Seq(ItemType) /\ ~LastIs(e, "ToolResults")
  <2>1. Grown(x, ids) \in ItemType /\ Grown(x, ids).kind = "Assistant"
    BY <1>1, <1>10, GrownFacts
  <2>. QED
    BY <1>10, <2>1, AppendItem DEF LastIs
<1> HIDE DEF e
<1>13. h[(b + m) + 1] = Append(e, ToolResults(<<i>>))
  <2>1. h[(b + m) + 1] = read_line(e, g[(b + m) + 1])
    BY <1>2, <1>5, <1>11
  <2>. QED
    BY <1>3, <1>5, <1>6, <1>12, <2>1, RecordRead
<1> DEFINE y == ToolResults(<<>>)
<1>14. /\ y \in ItemType /\ y.kind = "ToolResults"
       /\ Grown(y, <<i>>) = ToolResults(<<i>>) /\ Grown(y, ids) = ToolResults(ids)
  BY <1>1, Blanks
<1>15. replayed(g)[(b + m) + Len(ids)] = Append(e, Grown(y, ids))
  <2>1. replayed(g)[(b + m) + 1] = Append(e, Grown(y, <<ids[1]>>))
    BY <1>13, <1>14 DEF h, i
  <2>2. y.kind = Holder("tool_result")
    BY <1>8, <1>14
  <2> DEFINE c == b + m
  <2>3. /\ c \in Nat /\ ids \in Seq(Ids) /\ Len(ids) >= 1 /\ Stretch(g, c, ids, "tool_result")
        /\ replayed(g)[c + 1] = Append(e, Grown(y, <<ids[1]>>))
        /\ "tool_result" \in {"tool_use", "tool_result"}
    BY <1>t, <1>7, <2>1
  <2> HIDE DEF y, c
  <2>4. replayed(g)[c + Len(ids)] = Append(e, Grown(y, ids))
    BY <1>12, <1>14, <2>2, <2>3, StretchGrows
  <2>. QED
    BY <2>4 DEF c
<1>. QED
  BY <1>9, <1>14, <1>15 DEF e, h, b, m, ids

\* Every batch of results follows an item that made those calls.
Backed(h) == \A j \in DOMAIN h : h[j].kind = "ToolResults" =>
                 j >= 2 /\ ToSet(h[j].ids) \subseteq ToSet(h[j - 1].ids)

\* One item more.
LEMMA BackedAppend ==
    ASSUME NEW p \in Seq(ItemType), NEW x \in ItemType
    PROVE  Backed(Append(p, x)) <=>
              /\ Backed(p)
              /\ x.kind = "ToolResults" =>
                    Len(p) >= 1 /\ ToSet(x.ids) \subseteq ToSet(p[Len(p)].ids)
<1> DEFINE h == Append(p, x)
           n == Len(p)
           OkAt(s, j) == s[j].kind = "ToolResults" => j >= 2 /\ ToSet(s[j].ids) \subseteq ToSet(s[j - 1].ids)
<1>1. /\ n \in Nat /\ DOMAIN h = 1..(n + 1) /\ DOMAIN p = 1..n
      /\ (\A i \in 1..n : h[i] = p[i]) /\ h[n + 1] = x
  BY AppendItem
<1>2. Backed(h) <=> \A j \in 1..(n + 1) : OkAt(h, j)
  BY <1>1 DEF Backed
<1>3. Backed(p) <=> \A j \in 1..n : OkAt(p, j)
  BY <1>1 DEF Backed
<1> HIDE DEF h, n
<1>4. ASSUME NEW j \in 1..n PROVE OkAt(h, j) <=> OkAt(p, j)
  <2>1. h[j] = p[j] /\ (j >= 2 => h[j - 1] = p[j - 1])
    BY <1>1
  <2>. QED
    BY <2>1
<1>5. OkAt(h, n + 1) <=> (x.kind = "ToolResults" => n >= 1 /\ ToSet(x.ids) \subseteq ToSet(p[n].ids))
  <2>1. (n + 1) - 1 = n /\ (n + 1 >= 2 <=> n >= 1) /\ (n >= 1 => h[n] = p[n])
    BY <1>1
  <2>. QED
    BY <1>1, <2>1
<1> HIDE DEF OkAt
<1>6. \A j : j \in 1..(n + 1) <=> j \in 1..n \/ j = n + 1
  BY <1>1
<1>7. Backed(h) <=> (\A j \in 1..n : OkAt(h, j)) /\ OkAt(h, n + 1)
  BY <1>2, <1>6
<1>8. Backed(h) <=> Backed(p) /\ OkAt(h, n + 1)
  BY <1>3, <1>4, <1>7
<1>. QED
  BY <1>5, <1>8 DEF h, n

\* Reading a line backs no results that were not backed before.
LEMMA BackedPush ==
    ASSUME NEW h \in Seq(ItemType), NEW cells \in Seq(Cells), Backed(read_line(h, cells))
    PROVE  Backed(h)
<1> SUFFICES ASSUME readable(cells) PROVE Backed(h)
  BY ReadLineType
<1> DEFINE r == cells[1]
<1>1. r \in Lines /\ Backed(push(h, r))
  BY ReadLineType
<1> HIDE DEF r
<1>2. CASE \E x \in ItemType : push(h, r) = Append(h, x)
  BY <1>1, <1>2, BackedAppend
<1>3. CASE h # <<>> /\ push(h, r) = extend_last(h, r.id) /\ r.id \in Ids
  <2>1. PICK p \in Seq(ItemType), x \in ItemType : h = Append(p, x)
    BY <1>3, LastItem
  <2> DEFINE i == r.id
             y == Grown(x, <<i>>)
  <2>2. i \in Ids /\ <<i>> \in Seq(Ids)
    BY <1>3
  <2> HIDE DEF i
  <2>3. push(h, r) = Append(p, y)
    BY <1>3, <2>1, <2>2, ExtendGrows DEF i
  <2>4. y \in ItemType /\ y.kind = x.kind /\ ToSet(x.ids) \subseteq ToSet(y.ids)
    BY <2>2, GrownFacts
  <2> HIDE DEF y
  <2>. QED
    BY <1>1, <2>1, <2>3, <2>4, BackedAppend
<1>. QED
  BY <1>1, <1>2, <1>3, PushFacts

\* So what a session file loads is backed if what a longer one loads is.
LEMMA BackedBefore ==
    ASSUME NEW g \in Files, Backed(Replay(g)), NEW k \in 0..Len(g)
    PROVE  Backed(replayed(g)[k])
<1> DEFINE n == Len(g)
           h == replayed(g)
           P == {d \in Nat : d <= n => Backed(h[n - d])}
<1>1. /\ n \in Nat /\ (\A i \in 1..n : g[i] \in Seq(Cells)) /\ h \in [0..n -> Seq(ItemType)]
      /\ \A i \in 1..n : h[i] = read_line(h[i - 1], g[i])
  BY ReplayFacts, LenProperties, ElementOfSeq DEF Files
<1>2. Backed(h[n])
  BY DEF Replay
<1> HIDE DEF n, h
<1>3. 0 \in P
  <2>1. n - 0 = n
    BY <1>1
  <2>. QED
    BY <1>2, <2>1
<1>4. ASSUME NEW d \in Nat, d \in P PROVE d + 1 \in P
  <2> SUFFICES ASSUME d + 1 <= n PROVE Backed(h[n - (d + 1)])
    OBVIOUS
  <2> DEFINE i == n - d
  <2>1. i \in 1..n /\ n - (d + 1) = i - 1 /\ i - 1 \in 0..n /\ d <= n
    BY <1>1
  <2>2. Backed(h[i])
    BY <1>4, <2>1
  <2> HIDE DEF i
  <2>3. h[i] = read_line(h[i - 1], g[i]) /\ h[i - 1] \in Seq(ItemType) /\ g[i] \in Seq(Cells)
    BY <1>1, <2>1
  <2>. QED
    BY <2>1, <2>2, <2>3, BackedPush
<1> HIDE DEF P
<1>5. Nat \subseteq P
  BY <1>3, <1>4, InductionOnNat
<1>6. n - k \in P /\ n - k <= n /\ n - (n - k) = k
  BY <1>1, <1>5 DEF n
<1>. QED
  BY <1>6 DEF P, h

\* What a resume knows of a session stays known: M has the items of L, in
\* their places, though an answer of M may have more tool uses.
Kept(L, M) ==
    /\ Len(L) <= Len(M)
    /\ \A i \in 1..Len(L) : /\ M[i].kind = L[i].kind /\ M[i].text = L[i].text
                            /\ M[i].about = L[i].about
                            /\ L[i].kind = "ToolResults" => M[i] = L[i]

\* Nothing is lost if nothing happens.
LEMMA KeptSame ==
    ASSUME NEW h \in Seq(ItemType)
    PROVE  Kept(h, h)
<1>1. Len(h) \in Nat
  BY LenProperties
<1>. QED
  BY <1>1 DEF Kept

\* A history that ends with anything but an unanswered dispatch is loaded whole.
LEMMA NotDropped ==
    ASSUME NEW p \in Seq(ItemType), NEW x \in ItemType, x.kind = "Assistant" => x.ids = <<>>
    PROVE  drop_unanswered(Append(p, x)) = Append(p, x)
<1> DEFINE h == Append(p, x)
<1>1. h[Len(h)] = x
  BY AppendItem
<1> HIDE DEF h
<1>. QED
  BY <1>1 DEF drop_unanswered, LastIs, h

\* A new item keeps what a resume knew, and comes after it.
LEMMA AppendKept ==
    ASSUME NEW R \in Seq(ItemType), NEW x \in ItemType, x.kind = "Assistant" => x.ids = <<>>
    PROVE  LET L == drop_unanswered(R)
               M == drop_unanswered(Append(R, x))
           IN  /\ M = Append(R, x) /\ Kept(L, M)
               /\ Len(M) > Len(L) /\ Len(M) \in DOMAIN M /\ M[Len(M)] = x
<1> DEFINE L == drop_unanswered(R)
           M == Append(R, x)
<1>1. /\ Len(M) = Len(R) + 1 /\ Len(R) \in Nat /\ DOMAIN M = 1..(Len(R) + 1)
      /\ (\A i \in 1..Len(R) : M[i] = R[i]) /\ M[Len(R) + 1] = x
  BY AppendItem
<1>2. /\ L \in Seq(ItemType) /\ Len(L) <= Len(R) /\ \A i \in 1..Len(L) : L[i] = R[i]
  BY DropFacts DEF Begins
<1>3. Len(L) \in Nat
  BY <1>2, LenProperties
<1>4. drop_unanswered(M) = M
  BY NotDropped
<1> HIDE DEF L, M
<1>5. Kept(L, M)
  <2>1. \A i \in 1..Len(L) : i \in 1..Len(R) /\ M[i] = L[i]
    BY <1>1, <1>2, <1>3
  <2>. QED
    BY <1>1, <1>2, <1>3, <2>1 DEF Kept
<1>6. Len(M) > Len(L) /\ Len(M) \in DOMAIN M
  BY <1>1, <1>2, <1>3
<1>. QED
  BY <1>1, <1>4, <1>5, <1>6 DEF L, M

\* So does an answer with its calls and their results, whether it makes an item
\* of its own or joins the last one.
LEMMA ExchangeKept ==
    ASSUME NEW R \in Seq(ItemType), NEW text \in TextClass, NEW ids \in Seq(Ids), NEW p, NEW x,
           Exchange(R, text, ids, p, x)
    PROVE  LET L == drop_unanswered(R)
               N == Append(Append(p, Grown(x, ids)), ToolResults(ids))
               M == drop_unanswered(N)
           IN  /\ M = N /\ N \in Seq(ItemType) /\ Kept(L, M)
               /\ Backed(R) => Backed(N)
               /\ Len(M) \in DOMAIN M /\ M[Len(M)] = ToolResults(ids)
               /\ text # "none" => \E k \in DOMAIN M : k > Len(L) /\ M[k].kind = "Assistant" /\ M[k].text = text
<1> DEFINE L == drop_unanswered(R)
           y == Grown(x, ids)
           z == ToolResults(ids)
           e == Append(p, y)
           N == Append(e, z)
           n == Len(p)
<1>1. p \in Seq(ItemType) /\ x \in ItemType /\ x.kind = "Assistant"
  BY DEF Exchange
<1>2. /\ y \in ItemType /\ y.kind = "Assistant" /\ y.text = x.text /\ y.about = x.about
      /\ ToSet(ids) \subseteq ToSet(y.ids)
  BY <1>1, GrownFacts
<1>3. z \in ItemType /\ z.kind = "ToolResults" /\ z.ids = ids
  BY DEF ToolResults, Item, ItemType, ItemKind, TextClass
<1>4. L \in Seq(ItemType) /\ Len(L) \in Nat /\ Len(L) <= Len(R) /\ \A i \in 1..Len(L) : L[i] = R[i]
  BY DropFacts, LenProperties DEF Begins
<1> HIDE DEF L, y, z
<1>5. /\ e \in Seq(ItemType) /\ Len(e) = n + 1 /\ n \in Nat
      /\ (\A i \in 1..n : e[i] = p[i]) /\ e[n + 1] = y
  BY <1>1, <1>2, AppendItem
<1> HIDE DEF e
<1>6. /\ N \in Seq(ItemType) /\ Len(N) = Len(e) + 1 /\ DOMAIN N = 1..(Len(e) + 1)
      /\ (\A i \in 1..Len(e) : N[i] = e[i]) /\ N[Len(e) + 1] = z
  BY <1>3, <1>5, AppendItem
<1>7. drop_unanswered(N) = N
  BY <1>3, <1>5, NotDropped
<1> HIDE DEF N
<1>8. /\ \A i \in 1..n : N[i] = p[i]
      /\ N[n + 1] = y /\ n + 1 \in DOMAIN N /\ Len(N) = n + 2 /\ Len(N) \in DOMAIN N
  <2>1. \A i \in 1..n : i \in 1..Len(e)
    BY <1>5
  <2>2. n + 1 \in 1..Len(e)
    BY <1>5
  <2>. QED
    BY <1>5, <1>6, <2>1, <2>2
<1>9. Kept(L, N) /\ (Backed(R) => Backed(e)) /\ (text # "none" => n + 1 > Len(L) /\ y.text = text)
  <2>1. CASE p = R /\ x = Assistant(text, <<>>)
    <3>1. Len(L) <= n /\ \A i \in 1..Len(L) : i \in 1..n /\ N[i] = L[i]
      BY <1>4, <1>5, <1>8, <2>1
    <3>2. Kept(L, N)
      BY <1>4, <1>5, <1>8, <3>1 DEF Kept
    <3>3. x.text = text
      BY <2>1 DEF Assistant, Item
    <3>4. Backed(R) => Backed(e)
      BY <1>1, <1>2, <2>1, BackedAppend DEF e
    <3>. QED
      BY <1>2, <1>4, <1>5, <3>1, <3>2, <3>3, <3>4
  <2>2. CASE text = "none" /\ R = Append(p, x)
    <3>1. Len(R) = n + 1 /\ (\A i \in 1..n : R[i] = p[i]) /\ R[n + 1] = x
      BY <1>1, <2>2, AppendItem
    <3>2. ASSUME NEW i \in 1..Len(L)
          PROVE  /\ N[i].kind = L[i].kind /\ N[i].text = L[i].text /\ N[i].about = L[i].about
                 /\ L[i].kind = "ToolResults" => N[i] = L[i]
      <4>1. L[i] = R[i] /\ (i \in 1..n \/ i = n + 1)
        BY <1>4, <1>5, <3>1
      <4>2. CASE i \in 1..n
        BY <1>8, <3>1, <4>1, <4>2
      <4>3. CASE i = n + 1
        BY <1>1, <1>2, <1>8, <3>1, <4>1, <4>3
      <4>. QED
        BY <4>1, <4>2, <4>3
    <3>3. Kept(L, N)
      BY <1>4, <1>5, <1>8, <3>1, <3>2 DEF Kept
    <3>4. Backed(R) => Backed(e)
      BY <1>1, <1>2, <2>2, BackedAppend DEF e
    <3>. QED
      BY <2>2, <3>3, <3>4
  <2>. QED
    BY <2>1, <2>2 DEF Exchange
<1>10. Backed(R) => Backed(N)
  <2>1. Len(e) >= 1 /\ e[Len(e)] = y
    BY <1>5
  <2>. QED
    BY <1>2, <1>3, <1>5, <1>9, <2>1, BackedAppend DEF N
<1>11. N[Len(N)] = z
  BY <1>6
<1>12. text # "none" => \E k \in DOMAIN N : k > Len(L) /\ N[k].kind = "Assistant" /\ N[k].text = text
  BY <1>2, <1>8, <1>9
<1>. QED
  BY <1>6, <1>7, <1>8, <1>9, <1>10, <1>11, <1>12 DEF L, N, e, y, z

\* How a turn that returned Ok leaves the history: a user item that asks for more,
\* an answer, or an exchange.
Recorded(h) ==
    LET n == Len(h) IN
    \/ LastIs(h, "User")
    \/ LastIs(h, "Assistant") /\ h[n].ids = <<>>
    \/ /\ n >= 2 /\ h[n] = ToolResults(h[n - 1].ids)
       /\ h[n - 1].kind = "Assistant" /\ h[n - 1].ids # <<>>

\* The answer that such a history ends with.
LastAnswer(h) == IF LastIs(h, "ToolResults") THEN h[Len(h) - 1] ELSE h[Len(h)]

\* What the driver writes of such a history loses nothing and adds the turn: the
\* results, and the answer's text beyond all that was known before.
LEMMA PersistedKept ==
    ASSUME NEW f \in Files, NEW s \in Seq(ItemType), Recorded(s)
    PROVE  LET R == Replay(f)
               N == Replay(Whole(f, persisted(s)))
               L == drop_unanswered(R)
               M == drop_unanswered(N)
           IN  /\ Backed(R) => Backed(N)
               /\ Kept(L, M)
               /\ LastIs(s, "User") => N = R
               /\ LastIs(s, "ToolResults") => \E j \in DOMAIN M : M[j] = s[Len(s)]
               /\ ~LastIs(s, "User") /\ LastAnswer(s).text = "plain" =>
                     \E k \in Answers(M) : k > Len(L)
<1> DEFINE q == persisted(s)
           g == Whole(f, q)
           R == Replay(f)
           N == Replay(g)
           L == drop_unanswered(R)
           M == drop_unanswered(N)
           n == Len(s)
           a == Len(f)
<1> SUFFICES /\ Backed(R) => Backed(N)
             /\ Kept(L, M)
             /\ LastIs(s, "User") => N = R
             /\ LastIs(s, "ToolResults") => \E j \in DOMAIN M : M[j] = s[Len(s)]
             /\ ~LastIs(s, "User") /\ LastAnswer(s).text = "plain" => \E k \in Answers(M) : k > Len(L)
  OBVIOUS
<1>1. q \in Seq(Lines) /\ R \in Seq(ItemType) /\ n \in Nat
  BY PersistedType, ReplayType, LenProperties
<1>2. /\ g \in Files /\ replayed(g)[a] = R /\ a \in Nat
  <2> HIDE DEF q
  <2>. QED
    BY <1>1, WholeFacts
<1>3. L \in Seq(ItemType)
  BY <1>1, DropFacts
<1>4. CASE LastIs(s, "User")
  <2>1. s # <<>> /\ s[n].kind = "User"
    BY <1>4 DEF LastIs
  <2>2. q = <<>>
    BY <2>1 DEF persisted
  <2>3. N = R
    BY <2>2, WholeIsFile
  <2>4. ~LastIs(s, "ToolResults")
    BY <2>1 DEF LastIs
  <2> HIDE DEF N, R
  <2>. QED
    BY <1>3, <1>4, <2>3, <2>4, KeptSame
<1>5. CASE LastIs(s, "Assistant") /\ s[n].ids = <<>>
  <2> DEFINE x == s[n]
  <2>1. n >= 1 /\ x.kind = "Assistant" /\ x \in ItemType /\ x.ids = <<>>
    <3>1. s # <<>> /\ x.kind = "Assistant" /\ x.ids = <<>>
      BY <1>5 DEF LastIs
    <3>2. n >= 1
      BY <1>1, <3>1, EmptySeq
    <3>. QED
      BY <1>1, <3>1, <3>2, ElementOfSeq
  <2>2. LastAnswer(s) = x /\ ~LastIs(s, "ToolResults") /\ ~LastIs(s, "User")
    BY <2>1 DEF LastAnswer, LastIs
  <2>3. PICK t \in {0, 1} : TextAt(g, a, t, x) /\ Len(g) = a + t
    BY <2>1, AnswerWritten
  <2> HIDE DEF g, x, R, a
  <2>4. /\ t = 0 => x.text = "none" /\ N = R
        /\ t = 1 => N = Append(R, Assistant(x.text, <<>>))
    <3>1. a + t <= Len(g)
      BY <1>2, <2>3
    <3>2. /\ t = 0 => x.text = "none" /\ replayed(g)[a + t] = replayed(g)[a]
          /\ t = 1 => replayed(g)[a + t] = Append(replayed(g)[a], Assistant(x.text, <<>>))
      BY <1>2, <2>1, <2>3, <3>1, TextReplayed
    <3>. QED
      BY <1>2, <2>3, <3>2 DEF Replay
  <2> HIDE DEF N
  <2>5. CASE t = 0
    BY <1>1, <1>3, <2>2, <2>4, <2>5, KeptSame
  <2>6. CASE t = 1
    <3> DEFINE y == Assistant(x.text, <<>>)
    <3>1. y \in ItemType /\ y.kind = "Assistant" /\ y.text = x.text /\ y.ids = <<>>
      BY <2>1, Blanks DEF ItemType
    <3>2. N = Append(R, y)
      BY <2>4, <2>6
    <3> HIDE DEF y
    <3>3. M = N /\ Kept(L, M) /\ Len(M) > Len(L) /\ Len(M) \in DOMAIN M /\ M[Len(M)] = y
      BY <1>1, <3>1, <3>2, AppendKept
    <3>4. Backed(R) => Backed(N)
      BY <1>1, <3>1, <3>2, BackedAppend
    <3> HIDE DEF M, L
    <3>5. x.text = "plain" => Len(M) \in Answers(M)
      BY <3>1, <3>3 DEF Answers
    <3>. QED
      BY <2>2, <3>3, <3>4, <3>5
  <2>. QED
    BY <2>5, <2>6 
<1>6. CASE n >= 2 /\ s[n] = ToolResults(s[n - 1].ids) /\ s[n - 1].kind = "Assistant" /\ s[n - 1].ids # <<>>
  <2> DEFINE x == s[n - 1]
  <2>1. n - 1 \in 1..n /\ n \in 1..n
    BY <1>1, <1>6
  <2>2. x \in ItemType /\ x.kind = "Assistant" /\ x.ids # <<>> /\ s[n] = ToolResults(x.ids) /\ s # <<>>
    BY <1>6, <2>1, ElementOfSeq, EmptySeq
  <2>3. s[n].kind = "ToolResults" /\ s[n].ids = x.ids
    BY <2>2 DEF ToolResults, Item
  <2>4. LastAnswer(s) = x /\ LastIs(s, "ToolResults") /\ ~LastIs(s, "User")
    BY <2>2, <2>3 DEF LastAnswer, LastIs
  <2>5. x.ids \in Seq(Ids) /\ x.text \in TextClass
    BY <2>2 DEF ItemType
  <2>6. Len(x.ids) >= 1 /\ Len(x.ids) \in Nat
    BY <2>2, <2>5, EmptySeq, LenProperties
  <2>7. PICK t \in {0, 1} : /\ TextAt(g, a, t, x)
                            /\ Stretch(g, a + t, x.ids, "tool_use")
                            /\ Stretch(g, (a + t) + Len(x.ids), x.ids, "tool_result")
                            /\ Len(g) = ((a + t) + Len(x.ids)) + Len(x.ids)
    BY <1>6, <2>2, <2>3, ExchangeWritten
  <2>8. LastIs(s, "ToolResults") /\ s[Len(s)] = ToolResults(x.ids)
    BY <2>2, <2>4
  <2> HIDE DEF g, x, R, a
  <2>9. PICK p, y : /\ Exchange(R, x.text, x.ids, p, y)
                    /\ N = Append(Append(p, Grown(y, x.ids)), ToolResults(x.ids))
    <3>1. \E p, y : /\ Exchange(replayed(g)[a], x.text, x.ids, p, y)
                    /\ replayed(g)[((a + t) + Len(x.ids)) + Len(x.ids)]
                          = Append(Append(p, Grown(y, x.ids)), ToolResults(x.ids))
      BY <1>2, <2>2, <2>6, <2>7, ExchangeReplayed
    <3>. QED
      BY <1>2, <2>7, <3>1 DEF Replay
  <2> HIDE DEF N
  <2>10. /\ M = N /\ Kept(L, M) /\ (Backed(R) => Backed(N))
         /\ Len(M) \in DOMAIN M /\ M[Len(M)] = ToolResults(x.ids)
         /\ x.text # "none" =>
               \E k \in DOMAIN M : k > Len(L) /\ M[k].kind = "Assistant" /\ M[k].text = x.text
    <3> DEFINE ids == x.ids
               text == x.text
    <3>1. ids \in Seq(Ids) /\ text \in TextClass /\ Exchange(R, text, ids, p, y)
          /\ N = Append(Append(p, Grown(y, ids)), ToolResults(ids))
      BY <2>5, <2>9
    <3> HIDE DEF ids, text
    <3>2. /\ M = N /\ Kept(L, M) /\ (Backed(R) => Backed(N))
          /\ Len(M) \in DOMAIN M /\ M[Len(M)] = ToolResults(ids)
          /\ text # "none" =>
                \E k \in DOMAIN M : k > Len(L) /\ M[k].kind = "Assistant" /\ M[k].text = text
      BY <1>1, <3>1, ExchangeKept
    <3>. QED
      BY <3>2 DEF ids, text
  <2> HIDE DEF M, L
  <2>11. x.text = "plain" => \E k \in Answers(M) : k > Len(L)
    BY <2>10 DEF Answers
  <2>12. \E j \in DOMAIN M : M[j] = s[Len(s)]
    BY <2>8, <2>10
  <2>. QED
    BY <2>4, <2>10, <2>11, <2>12 
<1>. QED
  BY <1>4, <1>5, <1>6 DEF Recorded

\* There are finitely many answers.
LEMMA AnswersFinite ==
    ASSUME NEW h \in Seq(ItemType)
    PROVE  /\ DOMAIN h = 1..Len(h) /\ Len(h) \in Nat
           /\ IsFiniteSet(Answers(h)) /\ Cardinality(Answers(h)) \in Nat
<1>1. DOMAIN h = 1..Len(h) /\ Len(h) \in Nat
  BY LenProperties
<1>2. IsFiniteSet(1..Len(h))
  BY <1>1, FS_Interval
<1>3. Answers(h) \in SUBSET (1..Len(h))
  BY <1>1 DEF Answers
<1>4. IsFiniteSet(Answers(h))
  BY <1>2, <1>3, FS_Subset
<1>. QED
  BY <1>1, <1>4, FS_CardinalityType

\* A history whose answers are all found in another, each as far along, has no
\* more of them.
LEMMA FewerAnswers ==
    ASSUME NEW g \in Seq(ItemType), NEW h \in Seq(ItemType), NEW d \in Int,
           \A i \in Answers(g) : i + d \in Answers(h)
    PROVE  Cardinality(Answers(g)) <= Cardinality(Answers(h))
<1> DEFINE f == [i \in Answers(g) |-> i + d]
<1>1. Answers(g) \subseteq Nat
  <2>1. DOMAIN g = 1..Len(g) /\ Len(g) \in Nat
    BY AnswersFinite
  <2>. QED
    BY <2>1 DEF Answers
<1>2. \A i, j \in Answers(g) : f[i] = f[j] => i = j
  BY <1>1
<1>3. f \in [Answers(g) -> Answers(h)]
  OBVIOUS
<1> HIDE DEF f
<1>4. f \in Injection(Answers(g), Answers(h))
  BY <1>2, <1>3 DEF Injection, IsInjective
<1>. QED
  BY <1>4, AnswersFinite, FS_Injection

\* What is kept keeps its inputs, its results and its answers.
LEMMA KeptFacts ==
    ASSUME NEW L \in Seq(ItemType), NEW M \in Seq(ItemType), Kept(L, M)
    PROVE  /\ about_of(L) \subseteq about_of(M)
           /\ \A j \in DOMAIN L : L[j].kind = "ToolResults" => j \in DOMAIN M /\ M[j] = L[j]
           /\ Cardinality(Answers(L)) <= Cardinality(Answers(M))
           /\ (\E k \in Answers(M) : k > Len(L)) =>
                 Cardinality(Answers(L)) + 1 <= Cardinality(Answers(M))
<1>1. DOMAIN L = 1..Len(L) /\ Len(L) \in Nat /\ DOMAIN M = 1..Len(M) /\ Len(M) \in Nat
  BY LenProperties
<1>2. \A j \in DOMAIN L : /\ j \in DOMAIN M /\ M[j].kind = L[j].kind /\ M[j].text = L[j].text
                          /\ M[j].about = L[j].about
                          /\ L[j].kind = "ToolResults" => M[j] = L[j]
  BY <1>1 DEF Kept
<1>3. about_of(L) \subseteq about_of(M)
  BY <1>2 DEF about_of
<1>4. Answers(L) \subseteq Answers(M)
  BY <1>2 DEF Answers
<1>5. /\ IsFiniteSet(Answers(M)) /\ Cardinality(Answers(M)) \in Nat /\ Cardinality(Answers(L)) \in Nat
  BY AnswersFinite
<1>6. Cardinality(Answers(L)) <= Cardinality(Answers(M))
  BY <1>4, <1>5, FS_Subset
<1>7. ASSUME NEW k \in Answers(M), k > Len(L)
      PROVE  Cardinality(Answers(L)) + 1 <= Cardinality(Answers(M))
  <2>1. k \notin DOMAIN L
    BY <1>1, <1>7
  <2>2. k \notin Answers(L)
    BY <2>1 DEF Answers
  <2> DEFINE S == Answers(M) \ {k}
  <2>3. IsFiniteSet(S) /\ Cardinality(S) = Cardinality(Answers(M)) - 1
    BY <1>5, FS_RemoveElement
  <2>4. Answers(L) \in SUBSET S
    BY <1>4, <2>2
  <2> HIDE DEF S
  <2>5. Cardinality(Answers(L)) <= Cardinality(S)
    BY <2>3, <2>4, FS_Subset
  <2>. QED
    BY <1>5, <2>3, <2>5
<1>. QED
  BY <1>2, <1>3, <1>6, <1>7

\* L has the results x, unless they are results of the calls u.
Found(x, u, L) == x.kind = "ToolResults" => ToSet(x.ids) \subseteq u \/ \E j \in DOMAIN L : L[j] = x

\* A resume that finds R in the file knows what history h and the inputs about
\* speak for, but for c answers and the calls u.
Remembers(h, about, c, u, R) ==
    LET loaded == drop_unanswered(R)
    IN  /\ about_of(h) \cup about \subseteq about_of(loaded)
        /\ \A i \in DOMAIN h : Found(h[i], u, loaded)
        /\ Cardinality(Answers(h)) <= Cardinality(Answers(loaded)) + c

\* The file keeps what it had: what was remembered still is.
LEMMA KeptRemembered ==
    ASSUME NEW h \in Seq(ItemType), NEW about, NEW c \in Nat, NEW u, NEW R \in Seq(ItemType),
           NEW N \in Seq(ItemType), Remembers(h, about, c, u, R),
           Kept(drop_unanswered(R), drop_unanswered(N))
    PROVE  Remembers(h, about, c, u, N)
<1> DEFINE L == drop_unanswered(R)
           M == drop_unanswered(N)
<1>1. L \in Seq(ItemType) /\ M \in Seq(ItemType) /\ Kept(L, M)
  BY DropFacts
<1>2. /\ about_of(h) \cup about \subseteq about_of(L)
      /\ \A i \in DOMAIN h : Found(h[i], u, L)
      /\ Cardinality(Answers(h)) <= Cardinality(Answers(L)) + c
  BY DEF Remembers
<1> SUFFICES /\ about_of(h) \cup about \subseteq about_of(M)
             /\ \A i \in DOMAIN h : Found(h[i], u, M)
             /\ Cardinality(Answers(h)) <= Cardinality(Answers(M)) + c
  BY DEF Remembers
<1> HIDE DEF L, M
<1>3. /\ about_of(L) \subseteq about_of(M)
      /\ \A j \in DOMAIN L : L[j].kind = "ToolResults" => j \in DOMAIN M /\ M[j] = L[j]
      /\ Cardinality(Answers(L)) <= Cardinality(Answers(M))
  BY <1>1, KeptFacts
<1>4. /\ Cardinality(Answers(L)) \in Nat /\ Cardinality(Answers(M)) \in Nat
      /\ Cardinality(Answers(h)) \in Nat
  BY <1>1, AnswersFinite
<1>5. Cardinality(Answers(h)) <= Cardinality(Answers(M)) + c
  BY <1>2, <1>3, <1>4
<1>6. \A i \in DOMAIN h : Found(h[i], u, M)
  BY <1>2, <1>3 DEF Found
<1>. QED
  BY <1>2, <1>3, <1>5, <1>6

\* History g speaks for no more than history h does.
Less(g, ga, h, ha) ==
    /\ about_of(g) \cup ga \subseteq about_of(h) \cup ha
    /\ \A i \in DOMAIN g : g[i].kind = "ToolResults" => \E j \in DOMAIN h : h[j] = g[i]
    /\ Cardinality(Answers(g)) <= Cardinality(Answers(h))

\* Then it is remembered if h is.
LEMMA LessRemembered ==
    ASSUME NEW g \in Seq(ItemType), NEW h \in Seq(ItemType), NEW ga, NEW ha, NEW c \in Nat, NEW u,
           NEW R \in Seq(ItemType), Remembers(h, ha, c, u, R), Less(g, ga, h, ha)
    PROVE  Remembers(g, ga, c, u, R)
<1> DEFINE L == drop_unanswered(R)
<1>1. L \in Seq(ItemType)
  BY DropFacts
<1>2. /\ about_of(h) \cup ha \subseteq about_of(L)
      /\ \A i \in DOMAIN h : Found(h[i], u, L)
      /\ Cardinality(Answers(h)) <= Cardinality(Answers(L)) + c
  BY DEF Remembers
<1> SUFFICES /\ about_of(g) \cup ga \subseteq about_of(L)
             /\ \A i \in DOMAIN g : Found(g[i], u, L)
             /\ Cardinality(Answers(g)) <= Cardinality(Answers(L)) + c
  BY DEF Remembers
<1> HIDE DEF L
<1>3. /\ about_of(g) \cup ga \subseteq about_of(h) \cup ha
      /\ \A i \in DOMAIN g : g[i].kind = "ToolResults" => \E j \in DOMAIN h : h[j] = g[i]
      /\ Cardinality(Answers(g)) <= Cardinality(Answers(h))
  BY DEF Less
<1>4. /\ Cardinality(Answers(g)) \in Nat /\ Cardinality(Answers(h)) \in Nat
      /\ Cardinality(Answers(L)) \in Nat
  BY <1>1, AnswersFinite
<1>5. Cardinality(Answers(g)) <= Cardinality(Answers(L)) + c
  BY <1>2, <1>3, <1>4
<1>6. ASSUME NEW i \in DOMAIN g PROVE Found(g[i], u, L)
  <2> SUFFICES ASSUME g[i].kind = "ToolResults" PROVE Found(g[i], u, L)
    BY DEF Found
  <2>1. PICK j \in DOMAIN h : h[j] = g[i]
    BY <1>3
  <2>2. Found(h[j], u, L)
    BY <1>2
  <2>. QED
    BY <2>1, <2>2
<1>. QED
  BY <1>2, <1>3, <1>5, <1>6

\* An item more is remembered if the file has it too.
LEMMA AppendRemembered ==
    ASSUME NEW h \in Seq(ItemType), NEW about, NEW c \in Nat, NEW u, NEW R \in Seq(ItemType),
           Remembers(h, about, c, u, R), NEW x \in ItemType,
           x.about \subseteq about_of(drop_unanswered(R)),
           Found(x, u, drop_unanswered(R)),
           x.kind = "Assistant" /\ x.text = "plain" =>
              Cardinality(Answers(h)) + 1 <= Cardinality(Answers(drop_unanswered(R))) + c
    PROVE  /\ Remembers(Append(h, x), about, c, u, R)
           /\ Cardinality(Answers(Append(h, x))) <=
                 Cardinality(Answers(h)) + (IF x.kind = "Assistant" /\ x.text = "plain" THEN 1 ELSE 0)
<1> DEFINE L == drop_unanswered(R)
           g == Append(h, x)
           n == Len(h)
<1>1. /\ g \in Seq(ItemType) /\ DOMAIN g = 1..(n + 1) /\ DOMAIN h = 1..n /\ n \in Nat
      /\ (\A i \in 1..n : g[i] = h[i]) /\ g[n + 1] = x
  BY AppendItem
<1>2. /\ about_of(h) \cup about \subseteq about_of(L)
      /\ \A i \in DOMAIN h : Found(h[i], u, L)
      /\ Cardinality(Answers(h)) <= Cardinality(Answers(L)) + c
  BY DEF Remembers
<1>3. /\ x.about \subseteq about_of(L)
      /\ Found(x, u, L)
      /\ x.kind = "Assistant" /\ x.text = "plain" => Cardinality(Answers(h)) + 1 <= Cardinality(Answers(L)) + c
      /\ L \in Seq(ItemType)
  BY DropFacts
<1> HIDE DEF L, g, n
<1>4. \A i \in DOMAIN g : (i \in DOMAIN h /\ g[i] = h[i]) \/ (i = n + 1 /\ g[i] = x)
  BY <1>1
<1>5. about_of(g) \cup about \subseteq about_of(L)
  <2>1. about_of(g) \subseteq about_of(h) \cup x.about
    BY <1>4 DEF about_of
  <2>. QED
    BY <1>2, <1>3, <2>1
<1>6. \A i \in DOMAIN g : Found(g[i], u, L)
  BY <1>2, <1>3, <1>4
<1>7. /\ Cardinality(Answers(h)) \in Nat /\ Cardinality(Answers(L)) \in Nat
      /\ Cardinality(Answers(g)) \in Nat /\ IsFiniteSet(Answers(h))
  BY <1>1, <1>3, AnswersFinite
<1>8. Cardinality(Answers(g)) <= Cardinality(Answers(h)) + (IF x.kind = "Assistant" /\ x.text = "plain" THEN 1 ELSE 0)
  <2>1. CASE x.kind = "Assistant" /\ x.text = "plain"
    <3> DEFINE S == Answers(h) \cup {n + 1}
    <3>0. /\ IsFiniteSet(S)
          /\ Cardinality(S) = IF n + 1 \in Answers(h) THEN Cardinality(Answers(h)) ELSE Cardinality(Answers(h)) + 1
      BY <1>7, FS_AddElement
    <3>1. IsFiniteSet(S) /\ Cardinality(S) <= Cardinality(Answers(h)) + 1
      <4> HIDE DEF S
      <4>. QED
        BY <1>7, <3>0
    <3>2. Answers(g) \in SUBSET S
      BY <1>4 DEF Answers
    <3> HIDE DEF S
    <3>3. Cardinality(Answers(g)) <= Cardinality(S) /\ Cardinality(S) \in Nat
      BY <3>1, <3>2, FS_Subset, FS_CardinalityType
    <3>. QED
      BY <1>7, <2>1, <3>1, <3>3
  <2>2. CASE ~(x.kind = "Assistant" /\ x.text = "plain")
    <3>1. Answers(g) \in SUBSET Answers(h)
      BY <1>4, <2>2 DEF Answers
    <3>2. Cardinality(Answers(g)) <= Cardinality(Answers(h))
      BY <1>7, <3>1, FS_Subset
    <3>. QED
      BY <1>7, <2>2, <3>2
  <2>. QED
    BY <2>1, <2>2
<1>9. Cardinality(Answers(g)) <= Cardinality(Answers(L)) + c
  BY <1>2, <1>3, <1>7, <1>8
<1>10. Remembers(g, about, c, u, R)
  BY <1>5, <1>6, <1>9 DEF Remembers, L
<1>. QED
  BY <1>8, <1>10 DEF g

\* An answer the driver writes nothing of, and what comes with it: they are
\* remembered once they are counted.
LEMMA RememberUnsaved ==
    ASSUME NEW h \in Seq(ItemType), NEW about, NEW c \in Nat, NEW u, NEW R \in Seq(ItemType),
           Remembers(h, about, c, u, R), NEW v, u \subseteq v,
           NEW x \in ItemType, x.kind = "Assistant", x.about = {}
    PROVE  /\ Remembers(Append(h, x), about, c + 1, v, R)
           /\ \A z \in ItemType :
                 (z.kind # "Assistant" /\ z.about = {} /\ (z.kind = "ToolResults" => ToSet(z.ids) \subseteq v))
                    => Remembers(Append(Append(h, x), z), about, c + 1, v, R)
<1> DEFINE L == drop_unanswered(R)
           g == Append(h, x)
           d == c + 1
<1>1. g \in Seq(ItemType)
  BY AppendItem
<1>2. L \in Seq(ItemType)
  BY DropFacts
<1>3. /\ about_of(h) \cup about \subseteq about_of(L)
      /\ \A i \in DOMAIN h : Found(h[i], u, L)
      /\ Cardinality(Answers(h)) <= Cardinality(Answers(L)) + c
  BY DEF Remembers
<1>4. x.about \subseteq about_of(L) /\ Found(x, v, L)
  BY DEF Found
<1> HIDE DEF L, g
<1>5. Cardinality(Answers(h)) \in Nat /\ Cardinality(Answers(L)) \in Nat
  BY <1>2, AnswersFinite
<1>6. /\ d \in Nat /\ Cardinality(Answers(h)) <= Cardinality(Answers(L)) + d
      /\ Cardinality(Answers(h)) + 1 <= Cardinality(Answers(L)) + d
  BY <1>3, <1>5
<1>7. \A i \in DOMAIN h : Found(h[i], v, L)
  BY <1>3 DEF Found
<1> HIDE DEF d
<1>8. Remembers(h, about, d, v, R)
  BY <1>3, <1>6, <1>7 DEF Remembers, L
<1>9. Remembers(g, about, d, v, R)
  BY <1>4, <1>6, <1>8, AppendRemembered DEF g, L
<1>10. ASSUME NEW z \in ItemType, z.kind # "Assistant", z.about = {},
              z.kind = "ToolResults" => ToSet(z.ids) \subseteq v
       PROVE  Remembers(Append(g, z), about, d, v, R)
  <2>1. z.about \subseteq about_of(drop_unanswered(R)) /\ Found(z, v, drop_unanswered(R))
    BY <1>10 DEF Found
  <2>. QED
    BY <1>1, <1>6, <1>9, <1>10, <2>1, AppendRemembered
<1>. QED
  BY <1>9, <1>10 DEF g, d

\* A piece of a history speaks for no more than the history.
LEMMA LessPiece ==
    ASSUME NEW h \in Seq(ItemType), NEW m \in 1..(Len(h) + 1), NEW n \in 0..Len(h), m <= n + 1
    PROVE  LET s == SubSeq(h, m, n)
           IN  s \in Seq(ItemType) /\ about_of(s) \subseteq about_of(h) /\ Less(s, {}, h, {})
<1> DEFINE s == SubSeq(h, m, n)
<1>1. /\ s \in Seq(ItemType) /\ DOMAIN s = 1..(n - m + 1)
      /\ \A i \in 1..(n - m + 1) : s[i] = h[m + i - 1]
  BY PieceFacts
<1>2. DOMAIN h = 1..Len(h) /\ Len(h) \in Nat
  BY LenProperties
<1> HIDE DEF s
<1>3. m - 1 \in Int /\ \A i \in DOMAIN s : i + (m - 1) \in DOMAIN h /\ s[i] = h[i + (m - 1)]
  <2>1. \A i \in 1..(n - m + 1) : m + i - 1 = i + (m - 1) /\ i + (m - 1) \in 1..Len(h)
    BY <1>2
  <2>2. m - 1 \in Int
    OBVIOUS
  <2>. QED
    BY <1>1, <1>2, <2>1, <2>2
<1>4. about_of(s) \subseteq about_of(h)
  BY <1>3 DEF about_of
<1>5. \A i \in DOMAIN s : s[i].kind = "ToolResults" => \E j \in DOMAIN h : h[j] = s[i]
  BY <1>3
<1>6. \A i \in Answers(s) : i + (m - 1) \in Answers(h)
  BY <1>3 DEF Answers
<1>7. Cardinality(Answers(s)) <= Cardinality(Answers(h))
  <2> DEFINE d == m - 1
  <2>1. d \in Int /\ \A i \in Answers(s) : i + d \in Answers(h)
    BY <1>3, <1>6
  <2> HIDE DEF d
  <2>. QED
    BY <1>1, <2>1, FewerAnswers
<1>. QED
  BY <1>1, <1>4, <1>5, <1>7 DEF Less, s

\* A summary in front of a history speaks for what it summarised and no answer.
LEMMA LessSummary ==
    ASSUME SessionShape
    PROVE  with_summary(history) \in Seq(ItemType) /\ Less(with_summary(history), {}, history, summary.about)
<1> DEFINE h == history
           w == with_summary(history)
<1>1. h \in Seq(ItemType) /\ summary.about \in SUBSET Nat
  BY DEF SessionShape
<1>2. PICK p \in Seq(ItemType) :
         /\ w = p \o h /\ about_of(p) = summary.about
         /\ \A i \in DOMAIN p : p[i].text \in {"header", "summary"} /\ p[i].kind # "ToolResults"
  BY <1>1, SummaryFacts
<1>3. /\ DOMAIN p = 1..Len(p) /\ Len(p) \in Nat /\ DOMAIN h = 1..Len(h) /\ Len(h) \in Nat
  BY <1>1, LenProperties
<1> HIDE DEF h, w
<1>4. /\ w \in Seq(ItemType) /\ about_of(w) = about_of(p) \cup about_of(h)
      /\ Len(w) = Len(p) + Len(h)
      /\ \A i \in DOMAIN w : (\E j \in DOMAIN p : w[i] = p[j]) \/ (\E j \in DOMAIN h : w[i] = h[j])
  BY <1>1, <1>2, ConcatFacts
<1>5. /\ DOMAIN w = 1..(Len(p) + Len(h))
      /\ \A i \in 1..Len(p) + Len(h) : w[i] = IF i <= Len(p) THEN p[i] ELSE h[i - Len(p)]
  BY <1>1, <1>2, <1>4, ConcatProperties, LenProperties
<1>6. \A i \in DOMAIN w : w[i].kind = "ToolResults" => \E j \in DOMAIN h : h[j] = w[i]
  BY <1>2, <1>4
<1> DEFINE d == 0 - Len(p)
<1>7. d \in Int /\ \A i \in Answers(w) : i + d \in Answers(h)
  <2> SUFFICES ASSUME NEW i \in Answers(w) PROVE i + d \in Answers(h)
    BY <1>3
  <2>1. i \in DOMAIN w /\ w[i].kind = "Assistant" /\ w[i].text = "plain"
    BY DEF Answers
  <2>2. ~(i <= Len(p))
    <3> SUFFICES ASSUME i <= Len(p) PROVE FALSE
      OBVIOUS
    <3>1. i \in DOMAIN p /\ w[i] = p[i]
      BY <1>3, <1>5, <2>1
    <3>. QED
      BY <1>2, <2>1, <3>1
  <2>3. w[i] = h[i - Len(p)] /\ i - Len(p) \in DOMAIN h /\ i + d = i - Len(p)
    BY <1>3, <1>5, <2>1, <2>2
  <2>. QED
    BY <2>1, <2>3 DEF Answers
<1> HIDE DEF d
<1>8. Cardinality(Answers(w)) <= Cardinality(Answers(h))
  BY <1>1, <1>4, <1>7, FewerAnswers
<1>. QED
  BY <1>2, <1>4, <1>6, <1>8 DEF Less, h, w

\* Nothing happens, or the locals of a summary are dropped.
LEMMA LessSame ==
    ASSUME NEW h \in Seq(ItemType), NEW a, NEW b, b \subseteq a
    PROVE  Less(h, b, h, a)
<1>1. Cardinality(Answers(h)) \in Nat
  BY AnswersFinite
<1>. QED
  BY <1>1 DEF Less

\* The drain.
LEMMA LessDrain ==
    ASSUME NEW h \in Seq(ItemType), NEW a, Drain(h, FALSE)
    PROVE  Less(history', summary'.about, h, a) /\ pc' = "Summarising"
<1>1. PICK c \in cut_points(h) :
        /\ history' = SubSeq(h, c + 1, Len(h))
        /\ summary' = [about  |-> about_of(SubSeq(h, 1, c)),
                       pair   |-> boundaries(h, "User") # {},
                       forced |-> FALSE]
        /\ pc' = "Summarising"
  BY DEF Drain
<1>2. Len(h) \in Nat
  BY LenProperties
<1>3. c \in 1..(Len(h) - 2)
  <2>1. keep_count(h) \in Nat /\ keep_count(h) >= 2
    BY <1>2 DEF keep_count
  <2>2. c \in 1..initial_cut(h)
    BY <1>1 DEF cut_points, boundaries
  <2>. QED
    BY <1>2, <2>1, <2>2 DEF initial_cut
<1>4. Less(SubSeq(h, c + 1, Len(h)), {}, h, {})
  BY <1>2, <1>3, LessPiece
<1>5. about_of(SubSeq(h, 1, c)) \subseteq about_of(h)
  BY <1>2, <1>3, LessPiece
<1>6. Less(history', {}, h, {}) /\ summary'.about \subseteq about_of(h)
  BY <1>1, <1>4, <1>5
<1>. QED
  BY <1>1, <1>6 DEF Less

\* The driver's Ctrl-C.
LEMMA LessPop ==
    ASSUME NEW h \in Seq(ItemType), NEW a
    PROVE  Less(pop_user(h), {}, h, a)
<1>1. Len(h) \in Nat
  BY LenProperties
<1>2. CASE h # <<>> /\ h[Len(h)].kind = "User"
  <2>1. Len(h) >= 1
    BY <1>1, <1>2, EmptySeq
  <2>2. Less(SubSeq(h, 1, Len(h) - 1), {}, h, {})
    BY <1>1, <2>1, LessPiece
  <2>. QED
    BY <1>2, <2>2 DEF pop_user, Less
<1>3. CASE ~(h # <<>> /\ h[Len(h)].kind = "User")
  <2>1. pop_user(h) = h
    BY <1>3 DEF pop_user
  <2>. QED
    BY <2>1, LessSame
<1>. QED
  BY <1>2, <1>3

\* A request is assembled: the REPL has no second try.
LEMMA LessAssemble ==
    ASSUME NEW h \in Seq(ItemType), NEW r, NEW retry, Assemble(h, r, retry)
    PROVE  /\ history' = h /\ summary'.about = {}
           /\ pc' \in {"Prompt", "Calling"} /\ ~ReturnedOk
<1>1. after_error(retry) = "Prompt"
  BY JournalAssumption DEF after_error, has_second_try
<1>2. history' = h /\ summary'.about = {}
  BY DEF Assemble, NoSummary
<1>3. pc' \in {"Prompt", "Calling"}
  BY <1>1 DEF Assemble
<1>. QED
  BY <1>2, <1>3, AssembleShape

\* A step that records no answer: of history h, which may have the new message,
\* nothing is left that h did not speak for.
Quiet(h) == /\ Less(history', summary'.about, h, summary.about)
            /\ turn_index' = turn_index /\ pc' \notin {"Retry", "Resume"}
            /\ ReturnedOk => history' = h

\* The first part of a turn is one.
LEMMA AgentTurnQuiet ==
    ASSUME NEW h \in Seq(ItemType), NEW retry, AgentTurn(h, retry)
    PROVE  Quiet(h)
<1>0. turn_index' = turn_index
  BY DEF AgentTurn
<1>1. CASE StopAtBudget(h)
  <2>1. history' = h /\ summary' = summary /\ pc' = "Prompt"
    BY <1>1 DEF StopAtBudget
  <2>2. Less(h, summary.about, h, summary.about)
    BY LessSame
  <2>. QED
    BY <1>0, <2>1, <2>2 DEF Quiet
<1>2. CASE CompactFirst(h, retry)
  <2>1. Drain(h, FALSE)
    BY <1>2 DEF CompactFirst
  <2>2. Less(history', summary'.about, h, summary.about) /\ pc' = "Summarising"
    BY <2>1, LessDrain
  <2>. QED
    BY <1>0, <2>2 DEF Quiet, ReturnedOk
<1>3. CASE CallDirectly(h, retry)
  <2>1. Assemble(h, pending_reminders, retry)
    BY <1>3 DEF CallDirectly
  <2>2. history' = h /\ summary'.about = {} /\ pc' \in {"Prompt", "Calling"} /\ ~ReturnedOk
    BY <2>1, LessAssemble
  <2>3. Less(h, {}, h, summary.about)
    BY LessSame
  <2>. QED
    BY <1>0, <2>2, <2>3 DEF Quiet
<1>. QED
  BY <1>1, <1>2, <1>3 DEF AgentTurn

\* A step that records an answer; a blocked one has no tool uses left.
Records(text, uses, stop, blocked) ==
    /\ text \in TextClass /\ uses \in Seq(Ids) /\ blocked \in BOOLEAN
    /\ Observe(text, uses, stop, blocked)
    /\ blocked => uses = <<>>

\* A step of the session takes a message, records an answer, or does neither.
LEMMA StepForms ==
    ASSUME SessionShape, asked \in Nat, pc # "Retry", Next
    PROVE  \/ pc = "Prompt" /\ Quiet(Append(history, User("input", {asked + 1})))
           \/ Quiet(history) /\ (ReturnedOk => pc = "Resume")
           \/ \E text, uses, stop, blocked : Records(text, uses, stop, blocked)
<1>0. history \in Seq(ItemType) /\ summary.forced = FALSE
  BY DEF SessionShape
<1>1. CASE Submit
  <2> DEFINE u == User("input", {asked + 1})
  <2>1. u \in ItemType
    <3>1. <<>> \in Seq(Ids)
      BY EmptySeq
    <3>. QED
      BY <3>1 DEF User, Item, ItemType, ItemKind, TextClass
  <2>2. pc = "Prompt" /\ AgentTurn(Append(history, u), FALSE)
    BY <1>1 DEF Submit
  <2> HIDE DEF u
  <2>3. Append(history, u) \in Seq(ItemType)
    BY <1>0, <2>1, AppendProperties
  <2>4. Quiet(Append(history, u))
    BY <2>2, <2>3, AgentTurnQuiet
  <2>. QED
    BY <2>2, <2>4 DEF u
<1>2. CASE Resume \/ Retry
  <2>1. pc = "Resume" /\ AgentTurn(history, FALSE)
    BY <1>2 DEF Resume, Retry
  <2>. QED
    BY <1>0, <2>1, AgentTurnQuiet
<1>3. CASE ForceCompact
  BY <1>3, JournalAssumption DEF ForceCompact
<1>4. CASE SummaryArrives \/ SummaryFails
  <2>1. with_summary(history) \in Seq(ItemType) /\ Less(with_summary(history), {}, history, summary.about)
    BY LessSummary
  <2>2. Less(history, {}, history, summary.about)
    BY <1>0, LessSame
  <2>3. PICK h \in Seq(ItemType) : Less(h, {}, history, summary.about) /\ \E r : AfterSummary(h, r)
    BY <1>0, <1>4, <2>1, <2>2 DEF SummaryArrives, SummaryFails
  <2>4. PICK r : Assemble(h, r, call.retry) /\ turn_index' = turn_index
    BY <1>0, <2>3 DEF AfterSummary
  <2>5. history' = h /\ summary'.about = {} /\ pc' \in {"Prompt", "Calling"} /\ ~ReturnedOk
    BY <2>4, LessAssemble
  <2>. QED
    BY <2>3, <2>4, <2>5 DEF Quiet
<1>5. CASE LlmStep
  <2>1. PICK text \in AnswerTexts, uses \in BoundedSeq(Ids, MaxUses), stop \in StopReason,
             tokens \in 0..1, advice \in SUBSET HookReminders :
                 LlmAnswers(text, uses, stop, tokens, advice)
    BY <1>5 DEF LlmStep
  <2> DEFINE acc == accepted_uses(text, uses)
             fin == final_text(text)
             blocked == is_blocked(text)
  <2>2. acc \in Seq(Ids) /\ fin \in TextClass /\ blocked \in BOOLEAN
    BY Accepted
  <2>3. CASE acc = <<>>
    <3>1. Observe(fin, <<>>, stop, blocked)
      BY <2>1, <2>3 DEF LlmAnswers
    <3>2. <<>> \in Seq(Ids)
      BY EmptySeq
    <3>3. Records(fin, <<>>, stop, blocked)
      BY <2>2, <3>1, <3>2 DEF Records
    <3>. QED
      BY <3>3
  <2>4. CASE acc # <<>>
    <3>1. /\ pc' = "Executing" /\ UNCHANGED <<history, summary, turn_index>>
      BY <2>1, <2>4 DEF LlmAnswers
    <3>2. Less(history, summary.about, history, summary.about)
      BY <1>0, LessSame
    <3>3. ~ReturnedOk
      BY <3>1 DEF ReturnedOk
    <3>. QED
      BY <3>1, <3>2, <3>3 DEF Quiet
  <2>. QED
    BY <2>3, <2>4
<1>6. CASE LlmFails \/ LlmTimeout
  <2>1. ReturnError
    BY <1>6 DEF LlmFails, LlmTimeout
  <2>2. after_error(call.retry) = "Prompt"
    BY JournalAssumption DEF after_error, has_second_try
  <2>3. pc' = "Prompt" /\ outcome' = "Llm" /\ UNCHANGED <<history, summary, turn_index>>
    BY <2>1, <2>2 DEF ReturnError
  <2>4. Less(history, summary.about, history, summary.about)
    BY <1>0, LessSame
  <2>5. ~ReturnedOk
    BY <2>3 DEF ReturnedOk
  <2>. QED
    BY <2>3, <2>4, <2>5 DEF Quiet
<1>7. CASE ToolStep
  <2>1. Observe(call.text, call.uses, call.stop, FALSE)
    BY <1>7 DEF ToolStep, ToolsFinish
  <2>2. call.text \in TextClass /\ call.uses \in Seq(Ids)
    BY DEF SessionShape
  <2>3. Records(call.text, call.uses, call.stop, FALSE)
    BY <2>1, <2>2 DEF Records
  <2>. QED
    BY <2>3
<1>8. CASE Interrupt
  <2>1. /\ history' = pop_user(history) /\ outcome' = "Interrupted" /\ summary' = NoSummary
        /\ pc' = "Prompt" /\ turn_index' = turn_index
    BY <1>8 DEF Interrupt
  <2>2. Less(pop_user(history), {}, history, summary.about)
    BY <1>0, LessPop
  <2>3. ~ReturnedOk /\ summary'.about = {}
    BY <2>1 DEF ReturnedOk, NoSummary
  <2>. QED
    BY <2>1, <2>2, <2>3 DEF Quiet
<1>. QED
  BY <1>1, <1>2, <1>3, <1>4, <1>5, <1>6, <1>7, <1>8 DEF Next

\* What a finished turn adds to the history.
LEMMA ObserveForms ==
    ASSUME SessionShape, NEW text, NEW uses, NEW stop, NEW blocked,
           Records(text, uses, stop, blocked)
    PROVE  /\ ReturnedOk /\ turn_index' = turn_index + 1 /\ summary' = summary /\ pc' \in {"Prompt", "Resume"}
           /\ \/ /\ uses = <<>>
                 /\ \/ history' = Append(history, Assistant(text, <<>>))
                    \/ \E t \in TextClass :
                          history' = Append(Append(history, Assistant(text, <<>>)), User(t, {}))
              \/ /\ uses # <<>>
                 /\ history' = Append(Append(history, Assistant(text, uses)), ToolResults(uses))
<1> DEFINE a == Assistant(text, uses)
           r == ToolResults(uses)
           h == history
<1>0. /\ text \in TextClass /\ uses \in Seq(Ids) /\ blocked \in BOOLEAN
      /\ Observe(text, uses, stop, blocked) /\ (blocked => uses = <<>>)
  BY DEF Records
<1>1. h \in Seq(ItemType) /\ a \in ItemType /\ r \in ItemType
  <2>1. h \in Seq(ItemType)
    BY DEF SessionShape
  <2>. QED
    BY <1>0, <2>1 DEF Assistant, ToolResults, Item, ItemType, ItemKind, TextClass
<1>2. ReturnedOk /\ turn_index' = turn_index + 1 /\ summary' = summary /\ pc' \in {"Prompt", "Resume"}
  BY <1>0 DEF Observe, ReturnedOk
<1>3. history' = (h \o recorded(text, uses)) \o follow_up(uses, stop, blocked)
  BY <1>0 DEF Observe
<1>4. recorded(text, uses) = <<a>> \o (IF uses = <<>> THEN <<>> ELSE <<r>>)
  BY DEF recorded
<1> HIDE DEF a, r, h
<1>5. ASSUME NEW s \in Seq(ItemType), NEW x \in ItemType PROVE s \o <<x>> = Append(s, x)
  BY AppendIsConcat
<1>6. Append(h, a) \in Seq(ItemType) /\ h \o <<a>> = Append(h, a)
  BY <1>1, <1>5, AppendItem
<1>7. CASE uses = <<>>
  <2>1. recorded(text, uses) = <<a>>
    BY <1>4, <1>7, ConcatUnits
  <2>2. history' = Append(h, a) \o follow_up(uses, stop, blocked)
    BY <1>3, <1>6, <2>1
  <2>3. CASE follow_up(uses, stop, blocked) = <<>>
    <3>1. Append(h, a) \o <<>> = Append(h, a)
      BY <1>6, ConcatEmptySeq
    <3>. QED
      BY <1>2, <1>7, <2>2, <2>3, <3>1 DEF a, h
  <2>4. CASE \E t \in TextClass : follow_up(uses, stop, blocked) = <<User(t, {})>>
    <3>1. PICK t \in TextClass : follow_up(uses, stop, blocked) = <<User(t, {})>>
      BY <2>4
    <3>2. User(t, {}) \in ItemType
      <4>1. <<>> \in Seq(Ids)
        BY EmptySeq
      <4>. QED
        BY <4>1 DEF User, Item, ItemType, ItemKind
    <3>3. history' = Append(Append(h, a), User(t, {}))
      BY <1>5, <1>6, <2>2, <3>1, <3>2
    <3>. QED
      BY <1>2, <1>7, <3>3 DEF a, h
  <2>5. "ack" \in TextClass /\ "system" \in TextClass
    BY DEF TextClass
  <2>. QED
    BY <2>3, <2>4, <2>5 DEF follow_up
<1>8. CASE uses # <<>>
  <2>1. follow_up(uses, stop, blocked) = <<>>
    BY <1>0, <1>8 DEF follow_up
  <2>2. recorded(text, uses) = <<a, r>>
    BY <1>4, <1>8, ConcatUnits
  <2>3. h \o <<a, r>> = (h \o <<a>>) \o <<r>>
    <3>1. <<a>> \in Seq(ItemType) /\ <<r>> \in Seq(ItemType)
      BY <1>1
    <3>2. (h \o <<a>>) \o <<r>> = h \o (<<a>> \o <<r>>)
      BY <1>1, <3>1, ConcatAssociative
    <3>3. <<a>> \o <<r>> = <<a, r>>
      BY ConcatUnits
    <3>. QED
      BY <3>2, <3>3
  <2> DEFINE g == Append(Append(h, a), r)
  <2>4. h \o <<a, r>> = g /\ g \in Seq(ItemType)
    BY <1>1, <1>5, <1>6, <2>3, AppendItem
  <2>5. history' = g
    <3> HIDE DEF g
    <3>1. g \o <<>> = g
      BY <2>4, ConcatEmptySeq
    <3>. QED
      BY <1>3, <2>1, <2>2, <2>4, <3>1
  <2>. QED
    BY <1>2, <1>8, <2>5 DEF a, r, h
<1>. QED
  BY <1>7, <1>8

\* The driver writes what a turn left: what was remembered still is, the turn's
\* results are known, and there is room for its answer.
LEMMA RememberWritten ==
    ASSUME NEW f \in Files, NEW h \in Seq(ItemType), NEW about, NEW c \in Nat, NEW u,
           Backed(Replay(f)), Remembers(h, about, c, u, Replay(f)),
           NEW s \in Seq(ItemType), Recorded(s)
    PROVE  LET N == Replay(Whole(f, persisted(s)))
               M == drop_unanswered(N)
           IN  /\ N \in Seq(ItemType) /\ Backed(N) /\ Remembers(h, about, c, u, N)
               /\ LastIs(s, "User") => N = Replay(f)
               /\ LastIs(s, "ToolResults") => \E j \in DOMAIN M : M[j] = s[Len(s)]
               /\ ~LastIs(s, "User") /\ LastAnswer(s).text = "plain" =>
                     Cardinality(Answers(h)) + 1 <= Cardinality(Answers(M)) + c
<1> DEFINE R == Replay(f)
           N == Replay(Whole(f, persisted(s)))
           L == drop_unanswered(R)
           M == drop_unanswered(N)
<1> SUFFICES /\ N \in Seq(ItemType) /\ Backed(N) /\ Remembers(h, about, c, u, N)
             /\ LastIs(s, "User") => N = R
             /\ LastIs(s, "ToolResults") => \E j \in DOMAIN M : M[j] = s[Len(s)]
             /\ ~LastIs(s, "User") /\ LastAnswer(s).text = "plain" =>
                   Cardinality(Answers(h)) + 1 <= Cardinality(Answers(M)) + c
  OBVIOUS
<1>1. R \in Seq(ItemType) /\ N \in Seq(ItemType)
  <2>1. persisted(s) \in Seq(Lines)
    BY PersistedType
  <2>2. Whole(f, persisted(s)) \in Files
    BY <2>1, WholeFacts
  <2>. QED
    BY <2>2, ReplayType
<1>2. /\ Backed(N) /\ Kept(L, M)
      /\ LastIs(s, "User") => N = R
      /\ LastIs(s, "ToolResults") => \E j \in DOMAIN M : M[j] = s[Len(s)]
      /\ ~LastIs(s, "User") /\ LastAnswer(s).text = "plain" => \E k \in Answers(M) : k > Len(L)
  BY PersistedKept
<1>3. Remembers(h, about, c, u, R)
  OBVIOUS
<1> HIDE DEF R, N
<1>4. Remembers(h, about, c, u, N)
  BY <1>1, <1>2, <1>3, KeptRemembered
<1>5. L \in Seq(ItemType) /\ M \in Seq(ItemType)
  BY <1>1, DropFacts
<1>6. Cardinality(Answers(h)) <= Cardinality(Answers(L)) + c
  BY <1>3 DEF Remembers
<1> HIDE DEF L, M
<1>7. (\E k \in Answers(M) : k > Len(L)) => Cardinality(Answers(L)) + 1 <= Cardinality(Answers(M))
  BY <1>2, <1>5, KeptFacts
<1>8. /\ Cardinality(Answers(h)) \in Nat /\ Cardinality(Answers(L)) \in Nat
      /\ Cardinality(Answers(M)) \in Nat
  BY <1>5, AnswersFinite
<1>9. (\E k \in Answers(M) : k > Len(L)) => Cardinality(Answers(h)) + 1 <= Cardinality(Answers(M)) + c
  BY <1>6, <1>7, <1>8
<1>. QED
  BY <1>1, <1>2, <1>4, <1>9

\* An answer without tool uses.
LEMMA RememberAnswer ==
    ASSUME NEW f \in Files, NEW h \in Seq(ItemType), NEW about, NEW c \in Nat, NEW u,
           Backed(Replay(f)), Remembers(h, about, c, u, Replay(f)), NEW text \in TextClass
    PROVE  LET s == Append(h, Assistant(text, <<>>))
               N == Replay(Whole(f, persisted(s)))
           IN  Recorded(s) /\ ~LastIs(s, "User") /\ Backed(N) /\ Remembers(s, about, c, u, N)
<1> DEFINE x == Assistant(text, <<>>)
           s == Append(h, x)
           N == Replay(Whole(f, persisted(s)))
           M == drop_unanswered(N)
<1>1. x \in ItemType /\ x.kind = "Assistant" /\ x.text = text /\ x.ids = <<>> /\ x.about = {}
  BY Blanks DEF Assistant, Item
<1> HIDE DEF x
<1>2. s \in Seq(ItemType) /\ s # <<>> /\ s[Len(s)] = x
  BY <1>1, AppendItem
<1> HIDE DEF s
<1>3. Recorded(s) /\ ~LastIs(s, "User") /\ LastAnswer(s) = x
  BY <1>1, <1>2 DEF Recorded, LastIs, LastAnswer
<1>4. /\ N \in Seq(ItemType) /\ Backed(N) /\ Remembers(h, about, c, u, N)
      /\ ~LastIs(s, "User") /\ LastAnswer(s).text = "plain" =>
            Cardinality(Answers(h)) + 1 <= Cardinality(Answers(M)) + c
  BY <1>2, <1>3, RememberWritten
<1>5. x.about \subseteq about_of(M) /\ Found(x, u, M)
  BY <1>1 DEF Found
<1>6. x.text = "plain" => Cardinality(Answers(h)) + 1 <= Cardinality(Answers(M)) + c
  BY <1>3, <1>4
<1> HIDE DEF N
<1>7. Remembers(Append(h, x), about, c, u, N)
  BY <1>1, <1>4, <1>5, <1>6, AppendRemembered
<1>. QED
  BY <1>3, <1>4, <1>7 DEF s, x, N

\* An answer that is cut: the driver writes nothing of it.
LEMMA RememberCut ==
    ASSUME NEW f \in Files, NEW h \in Seq(ItemType), NEW about, NEW c \in Nat, NEW u,
           Backed(Replay(f)), Remembers(h, about, c, u, Replay(f)), NEW text \in TextClass,
           NEW t \in TextClass
    PROVE  LET s == Append(Append(h, Assistant(text, <<>>)), User(t, {}))
               N == Replay(Whole(f, persisted(s)))
           IN  Recorded(s) /\ LastIs(s, "User") /\ Backed(N) /\ Remembers(s, about, c + 1, u, N)
<1> DEFINE x == Assistant(text, <<>>)
           z == User(t, {})
           g == Append(h, x)
           s == Append(g, z)
           N == Replay(Whole(f, persisted(s)))
           R == Replay(f)
<1>1. /\ x \in ItemType /\ x.kind = "Assistant" /\ x.text = text /\ x.ids = <<>> /\ x.about = {}
  BY Blanks DEF Assistant, Item
<1>2. z \in ItemType /\ z.kind = "User" /\ z.about = {}
  <2>1. <<>> \in Seq(Ids)
    BY EmptySeq
  <2>. QED
    BY <2>1 DEF User, Item, ItemType, ItemKind
<1> HIDE DEF x, z
<1>3. g \in Seq(ItemType)
  BY <1>1, AppendItem
<1> HIDE DEF g
<1>4. s \in Seq(ItemType) /\ s # <<>> /\ s[Len(s)] = z
  BY <1>2, <1>3, AppendItem
<1> HIDE DEF s
<1>5. LastIs(s, "User") /\ Recorded(s)
  BY <1>2, <1>4 DEF Recorded, LastIs
<1>6. N = R /\ Backed(R) /\ Remembers(h, about, c, u, R)
  BY <1>4, <1>5, RememberWritten
<1>7. R \in Seq(ItemType)
  BY ReplayType
<1> HIDE DEF N, R
<1>8. Remembers(s, about, c + 1, u, R)
  BY <1>1, <1>2, <1>6, <1>7, RememberUnsaved DEF s, g
<1>. QED
  BY <1>5, <1>6, <1>8 DEF s, g, x, z, N

\* An answer with its calls and their results.
LEMMA RememberExchange ==
    ASSUME NEW f \in Files, NEW h \in Seq(ItemType), NEW about, NEW c \in Nat, NEW u,
           Backed(Replay(f)), Remembers(h, about, c, u, Replay(f)), NEW text \in TextClass,
           NEW uses \in Seq(Ids), uses # <<>>
    PROVE  LET s == Append(Append(h, Assistant(text, uses)), ToolResults(uses))
               N == Replay(Whole(f, persisted(s)))
           IN  Recorded(s) /\ ~LastIs(s, "User") /\ Backed(N) /\ Remembers(s, about, c, u, N)
<1> DEFINE x == Assistant(text, uses)
           z == ToolResults(uses)
           g == Append(h, x)
           s == Append(g, z)
           N == Replay(Whole(f, persisted(s)))
           M == drop_unanswered(N)
           n == Len(h)
<1>1. /\ x \in ItemType /\ x.kind = "Assistant" /\ x.text = text /\ x.ids = uses /\ x.about = {}
      /\ z \in ItemType /\ z.kind = "ToolResults" /\ z.about = {} /\ z = ToolResults(x.ids)
  BY DEF Assistant, ToolResults, Item, ItemType, ItemKind, TextClass
<1> HIDE DEF x, z
<1>2. g \in Seq(ItemType) /\ Len(g) = n + 1 /\ n \in Nat /\ g[n + 1] = x
  BY <1>1, AppendItem
<1> HIDE DEF g
<1>3. /\ s \in Seq(ItemType) /\ s # <<>> /\ Len(s) = (n + 1) + 1 /\ s[(n + 1) + 1] = z
      /\ \A i \in 1..(n + 1) : s[i] = g[i]
  BY <1>1, <1>2, AppendItem
<1> HIDE DEF s
<1>4. Len(s) >= 2 /\ s[Len(s)] = z /\ s[Len(s) - 1] = x
  <2>1. n + 1 \in 1..(n + 1) /\ ((n + 1) + 1) - 1 = n + 1 /\ (n + 1) + 1 >= 2
    BY <1>2
  <2>. QED
    BY <1>2, <1>3, <2>1
<1>5. /\ Recorded(s) /\ ~LastIs(s, "User") /\ LastIs(s, "ToolResults") /\ LastAnswer(s) = x
  BY <1>1, <1>3, <1>4 DEF Recorded, LastIs, LastAnswer
<1>6. /\ N \in Seq(ItemType) /\ Backed(N) /\ Remembers(h, about, c, u, N)
      /\ LastIs(s, "ToolResults") => \E j \in DOMAIN M : M[j] = s[Len(s)]
      /\ ~LastIs(s, "User") /\ LastAnswer(s).text = "plain" =>
            Cardinality(Answers(h)) + 1 <= Cardinality(Answers(M)) + c
  BY <1>3, <1>5, RememberWritten
<1>7. /\ x.about \subseteq about_of(M) /\ z.about \subseteq about_of(M)
      /\ Found(x, u, M) /\ Found(z, u, M)
      /\ x.text = "plain" => Cardinality(Answers(h)) + 1 <= Cardinality(Answers(M)) + c
  BY <1>1, <1>4, <1>5, <1>6 DEF Found
<1> HIDE DEF N
<1>8. Remembers(g, about, c, u, N)
  BY <1>1, <1>6, <1>7, AppendRemembered DEF g
<1>9. Remembers(s, about, c, u, N)
  BY <1>1, <1>2, <1>6, <1>7, <1>8, AppendRemembered DEF s
<1>. QED
  BY <1>5, <1>6, <1>9 DEF s, g, x, z, N

\* What a turn that answers leaves at the end of the history is what the driver records.
LEMMA EndsRecorded ==
    ASSUME NEW h \in Seq(ItemType), NEW text \in TextClass, NEW uses \in Seq(Ids)
    PROVE  /\ LET s == Append(h, Assistant(text, <<>>)) IN Recorded(s) /\ ~LastIs(s, "User")
           /\ \A t \in TextClass :
                 LET s == Append(Append(h, Assistant(text, <<>>)), User(t, {}))
                 IN  Recorded(s) /\ LastIs(s, "User")
           /\ uses # <<>> =>
                 LET s == Append(Append(h, Assistant(text, uses)), ToolResults(uses))
                 IN  Recorded(s) /\ ~LastIs(s, "User")
<1>1. ASSUME NEW x \in ItemType, x.kind = "Assistant"
      PROVE  /\ Append(h, x) \in Seq(ItemType)
             /\ x.ids = <<>> => Recorded(Append(h, x)) /\ ~LastIs(Append(h, x), "User")
  <2> DEFINE s == Append(h, x)
  <2>1. s \in Seq(ItemType) /\ s # <<>> /\ s[Len(s)] = x
    BY <1>1, AppendItem
  <2> HIDE DEF s
  <2>2. x.ids = <<>> => Recorded(s) /\ ~LastIs(s, "User")
    BY <1>1, <2>1 DEF Recorded, LastIs
  <2>. QED
    BY <2>1, <2>2 DEF s
<1>2. ASSUME NEW x \in ItemType, NEW z \in ItemType, x.kind = "Assistant",
             \/ z.kind = "User"
             \/ z.kind = "ToolResults" /\ z = ToolResults(x.ids) /\ x.ids # <<>>
      PROVE  LET s == Append(Append(h, x), z)
             IN  Recorded(s) /\ (LastIs(s, "User") <=> z.kind = "User")
  <2> DEFINE g == Append(h, x)
             s == Append(g, z)
             n == Len(h)
  <2>1. g \in Seq(ItemType) /\ Len(g) = n + 1 /\ n \in Nat /\ g[n + 1] = x
    BY <1>2, AppendItem
  <2> HIDE DEF g
  <2>2. /\ s \in Seq(ItemType) /\ s # <<>> /\ Len(s) = (n + 1) + 1 /\ s[(n + 1) + 1] = z
        /\ \A i \in 1..(n + 1) : s[i] = g[i]
    BY <1>2, <2>1, AppendItem
  <2> HIDE DEF s
  <2>3. n + 1 \in 1..(n + 1) /\ ((n + 1) + 1) - 1 = n + 1 /\ (n + 1) + 1 >= 2
    BY <2>1
  <2>4. Len(s) >= 2 /\ s[Len(s)] = z /\ s[Len(s) - 1] = x
    BY <2>1, <2>2, <2>3
  <2>5. Recorded(s) /\ (LastIs(s, "User") <=> z.kind = "User")
    BY <1>2, <2>2, <2>4 DEF Recorded, LastIs
  <2>. QED
    BY <2>5 DEF s, g
<1>3. /\ Assistant(text, <<>>) \in ItemType /\ Assistant(text, <<>>).kind = "Assistant"
      /\ Assistant(text, <<>>).ids = <<>>
  BY Blanks DEF Assistant, Item
<1>4. /\ Assistant(text, uses) \in ItemType /\ Assistant(text, uses).kind = "Assistant"
      /\ ToolResults(uses) \in ItemType /\ ToolResults(uses).kind = "ToolResults"
      /\ ToolResults(uses) = ToolResults(Assistant(text, uses).ids) /\ Assistant(text, uses).ids = uses
  BY DEF Assistant, ToolResults, Item, ItemType, ItemKind, TextClass
<1>5. \A t \in TextClass : User(t, {}) \in ItemType /\ User(t, {}).kind = "User"
  <2>1. <<>> \in Seq(Ids)
    BY EmptySeq
  <2>. QED
    BY <2>1 DEF User, Item, ItemType, ItemKind
<1>. QED
  BY <1>1, <1>2, <1>3, <1>4, <1>5

\* What a resume would find if all the driver has queued were written, R, backs its
\* results and has all that the live session knows and the message being typed.
Known(R) == /\ Backed(R)
            /\ Remembers(history, summary.about, unsaved_answers, unsaved_calls, R)
            /\ typed => asked + 1 \in about_of(drop_unanswered(R))

\* That, of a file that can be read, and where a turn leaves the history.
RemInv == /\ pc # "Retry" /\ (pc = "Resume" => Recorded(history))
          /\ unsaved_answers \in Nat /\ turn_index \in Nat
          /\ AllReadable => Known(Replay(Whole(file, queue)))

\* A session begins with it.
LEMMA RemInit == JournalInit => RemInv
<1> SUFFICES ASSUME JournalInit PROVE RemInv
  OBVIOUS
<1>1. /\ history = <<>> /\ turn_index = 0 /\ pc = "Prompt" /\ summary = NoSummary
      /\ file = <<>> /\ queue = <<>> /\ typed = FALSE
      /\ unsaved_answers = 0 /\ unsaved_calls = {}
  BY DEF JournalInit, Init
<1>2. <<>> \in Files /\ <<>> \in Seq(ItemType) /\ Len(<<>>) = 0
  BY EmptySeq DEF Files
<1>3. Replay(<<>>) = <<>>
  BY <1>2, ReplayFacts DEF Replay
<1>4. Replay(Whole(file, queue)) = <<>>
  BY <1>1, <1>2, <1>3, WholeIsFile
<1>5. Backed(<<>>) /\ drop_unanswered(<<>>) = <<>>
  BY DEF Backed, drop_unanswered, LastIs
<1>6. Remembers(<<>>, {}, 0, {}, <<>>)
  <2>1. Answers(<<>>) = {}
    BY DEF Answers
  <2>2. about_of(<<>>) = {}
    BY DEF about_of
  <2>. QED
    BY <1>5, <2>1, <2>2, FS_EmptySet DEF Remembers
<1>7. summary.about = {}
  BY <1>1 DEF NoSummary
<1>8. Known(<<>>)
  BY <1>1, <1>5, <1>6, <1>7 DEF Known
<1>. QED
  BY <1>1, <1>4, <1>8 DEF RemInv

\* An answer in the loop of /retry: nothing is written, everything is counted.
LEMMA RemSilent ==
    ASSUME JournalShape, RemInv, Turn, silent,
           \E text, uses, stop, blocked : Records(text, uses, stop, blocked)
    PROVE  /\ pc' # "Retry" /\ (pc' = "Resume" => Recorded(history'))
           /\ unsaved_answers' \in Nat /\ turn_index' \in Nat
           /\ Known(Replay(file)) =>
                 /\ Backed(Replay(Whole(file, queue')))
                 /\ Remembers(history', summary'.about, unsaved_answers', unsaved_calls',
                              Replay(Whole(file, queue')))
<1> DEFINE R == Replay(file)
           s == history'
           b == summary.about
           v == unsaved_calls'
<1>1. /\ SessionShape /\ history \in Seq(ItemType) /\ file \in Files
      /\ unsaved_answers \in Nat /\ turn_index \in Nat
  BY DEF JournalShape, SessionShape, RemInv
<1>2. /\ queue' = <<>>
      /\ unsaved_answers' = unsaved_answers +
            (IF turn_index' > turn_index /\ (silent \/ LastIs(s, "User")) THEN 1 ELSE 0)
      /\ v = unsaved_calls \cup (IF turn_index' > turn_index /\ silent /\ LastIs(s, "ToolResults")
                                 THEN ToSet(s[Len(s)].ids) ELSE {})
  BY DEF Turn, CountUnsaved
<1>3. PICK text, uses, stop, blocked : Records(text, uses, stop, blocked)
  OBVIOUS
<1>4. text \in TextClass /\ uses \in Seq(Ids)
  BY <1>3 DEF Records
<1> DEFINE x == Assistant(text, uses)
           g == Append(history, x)
<1>5. /\ turn_index' = turn_index + 1 /\ summary' = summary /\ pc' \in {"Prompt", "Resume"}
      /\ \/ uses = <<>> /\ s = g
         \/ uses = <<>> /\ \E t \in TextClass : s = Append(g, User(t, {}))
         \/ uses # <<>> /\ s = Append(g, ToolResults(uses))
  BY <1>1, <1>3, ObserveForms
<1>6. /\ unsaved_answers' = unsaved_answers + 1 /\ turn_index' \in Nat
      /\ unsaved_calls \subseteq v /\ (LastIs(s, "ToolResults") => ToSet(s[Len(s)].ids) \subseteq v)
  <2>1. turn_index' > turn_index /\ turn_index' \in Nat
    BY <1>1, <1>5
  <2>. QED
    BY <1>2, <2>1
<1>7. Recorded(s)
  BY <1>1, <1>4, <1>5, EndsRecorded
<1>8. x \in ItemType /\ x.kind = "Assistant" /\ x.about = {}
  BY <1>4 DEF Assistant, Item, ItemType, ItemKind, TextClass
<1>9. g \in Seq(ItemType)
  BY <1>1, <1>8, AppendItem
<1>10. R \in Seq(ItemType) /\ Replay(Whole(file, queue')) = R
  BY <1>1, <1>2, WholeIsFile, ReplayType
<1>11. ASSUME Known(R) PROVE Remembers(s, b, unsaved_answers + 1, v, R)
  <2>1. Remembers(history, b, unsaved_answers, unsaved_calls, R)
    BY <1>11 DEF Known
  <2> HIDE DEF s, b, v, x, R, g
  <2>2. /\ Remembers(g, b, unsaved_answers + 1, v, R)
        /\ \A z \in ItemType :
              (z.kind # "Assistant" /\ z.about = {} /\ (z.kind = "ToolResults" => ToSet(z.ids) \subseteq v))
                 => Remembers(Append(g, z), b, unsaved_answers + 1, v, R)
    BY <1>1, <1>6, <1>8, <1>10, <2>1, RememberUnsaved DEF g
  <2>3. CASE \E t \in TextClass : s = Append(g, User(t, {}))
    <3>1. PICK t \in TextClass : s = Append(g, User(t, {}))
      BY <2>3
    <3>2. User(t, {}) \in ItemType /\ User(t, {}).kind = "User" /\ User(t, {}).about = {}
      <4>1. <<>> \in Seq(Ids)
        BY EmptySeq
      <4>. QED
        BY <4>1 DEF User, Item, ItemType, ItemKind
    <3>. QED
      BY <2>2, <3>1, <3>2
  <2>4. CASE s = Append(g, ToolResults(uses))
    <3> DEFINE z == ToolResults(uses)
    <3>1. z \in ItemType /\ z.kind = "ToolResults" /\ z.about = {}
      BY <1>4 DEF ToolResults, Item, ItemType, ItemKind, TextClass
    <3> HIDE DEF z
    <3>2. s = Append(g, z)
      BY <2>4 DEF z
    <3>3. s # <<>> /\ s[Len(s)] = z
      BY <1>9, <3>1, <3>2, AppendItem
    <3>4. ToSet(z.ids) \subseteq v
      BY <1>6, <3>1, <3>3 DEF LastIs
    <3>. QED
      BY <2>2, <3>1, <3>2, <3>4
  <2>. QED
    BY <1>5, <2>2, <2>3, <2>4
<1>12. Known(R) => Backed(R)
  BY DEF Known
<1> HIDE DEF s, v, R
<1>. QED
  BY <1>1, <1>5, <1>6, <1>7, <1>10, <1>11, <1>12 DEF s, v, R

\* A step of the session keeps it.
LEMMA RemTurn ==
    ASSUME JournalShape, RemInv, Turn
    PROVE  RemInv'
<1> DEFINE R == Replay(file)
           N == Replay(Whole(file, queue'))
<1>1. /\ SessionShape /\ history \in Seq(ItemType) /\ asked \in Nat /\ file \in Files
  BY DEF JournalShape, SessionShape
<1>2. /\ pc # "Retry" /\ (pc = "Resume" => Recorded(history)) /\ unsaved_answers \in Nat /\ turn_index \in Nat
  BY DEF RemInv
<1>3. /\ queue = <<>> /\ (pc = "Prompt" => typed) /\ Next /\ typed' = FALSE /\ file' = file
      /\ queue' = IF ReturnedOk /\ ~silent THEN persisted(history') ELSE <<>>
      /\ unsaved_answers' = unsaved_answers +
            (IF turn_index' > turn_index /\ (silent \/ LastIs(history', "User")) THEN 1 ELSE 0)
      /\ unsaved_calls' = unsaved_calls \cup
            (IF turn_index' > turn_index /\ silent /\ LastIs(history', "ToolResults")
             THEN ToSet(history'[Len(history')].ids) ELSE {})
  BY DEF Turn, CountUnsaved
<1>4. history' \in Seq(ItemType) /\ R \in Seq(ItemType)
  BY <1>1, <1>3, SessionStep, ReplayType DEF SessionShape
<1>5. AllReadable' <=> AllReadable
  BY <1>3 DEF AllReadable
<1>6. AllReadable => Known(R)
  BY <1>1, <1>3, WholeIsFile DEF RemInv
<1>7. Known(R) => /\ Backed(R) /\ Remembers(history, summary.about, unsaved_answers, unsaved_calls, R)
                  /\ typed => asked + 1 \in about_of(drop_unanswered(R))
  BY DEF Known
<1> SUFFICES /\ pc' # "Retry" /\ (pc' = "Resume" => Recorded(history'))
             /\ unsaved_answers' \in Nat /\ turn_index' \in Nat
             /\ Known(R) => Backed(N) /\ Remembers(history', summary'.about, unsaved_answers', unsaved_calls', N)
  BY <1>3, <1>5, <1>6 DEF RemInv, Known
<1>8. ASSUME NEW h \in Seq(ItemType), Quiet(h),
             Known(R) => Remembers(h, summary.about, unsaved_answers, unsaved_calls, R),
             ReturnedOk => Recorded(history')
      PROVE  /\ pc' # "Retry" /\ (pc' = "Resume" => Recorded(history'))
             /\ unsaved_answers' \in Nat /\ turn_index' \in Nat
             /\ Known(R) => Backed(N) /\ Remembers(history', summary'.about, unsaved_answers', unsaved_calls', N)
  <2>1. /\ Less(history', summary'.about, h, summary.about) /\ turn_index' = turn_index
        /\ pc' \notin {"Retry", "Resume"}
    BY <1>8 DEF Quiet
  <2>2. /\ unsaved_answers' = unsaved_answers /\ unsaved_answers' \in Nat /\ turn_index' \in Nat
        /\ unsaved_calls' = unsaved_calls
    BY <1>2, <1>3, <2>1
  <2>3. ASSUME Known(R) PROVE Backed(N) /\ Remembers(history', summary'.about, unsaved_answers, unsaved_calls, N)
    <3>1. Backed(R) /\ Remembers(h, summary.about, unsaved_answers, unsaved_calls, R)
      BY <1>7, <1>8, <2>3
    <3>2. Remembers(history', summary'.about, unsaved_answers, unsaved_calls, R)
      BY <1>2, <1>4, <2>1, <3>1, LessRemembered
    <3>3. CASE ReturnedOk /\ ~silent
      <4>1. Recorded(history') /\ queue' = persisted(history')
        BY <1>3, <1>8, <3>3
      <4> DEFINE s == history'
                 b == summary'.about
      <4>2. /\ s \in Seq(ItemType) /\ Recorded(s) /\ Remembers(s, b, unsaved_answers, unsaved_calls, Replay(file))
            /\ Backed(Replay(file))
        BY <1>4, <3>1, <3>2, <4>1
      <4> HIDE DEF s, b
      <4>3. LET M == Replay(Whole(file, persisted(s)))
            IN  Backed(M) /\ Remembers(s, b, unsaved_answers, unsaved_calls, M)
        BY <1>1, <1>2, <4>2, RememberWritten
      <4>. QED
        BY <4>1, <4>3 DEF s, b
    <3>4. CASE ~(ReturnedOk /\ ~silent)
      <4>1. N = R
        BY <1>1, <1>3, <3>4, WholeIsFile
      <4>. QED
        BY <3>1, <3>2, <4>1
    <3>. QED
      BY <3>3, <3>4
  <2>. QED
    BY <2>1, <2>2, <2>3
<1>9. CASE pc = "Prompt" /\ Quiet(Append(history, User("input", {asked + 1})))
  <2> DEFINE u == User("input", {asked + 1})
             h == Append(history, u)
  <2>1. u \in ItemType /\ u.kind = "User" /\ u.about = {asked + 1}
    <3>1. <<>> \in Seq(Ids)
      BY EmptySeq
    <3>. QED
      BY <1>1, <3>1 DEF User, Item, ItemType, ItemKind, TextClass
  <2>2. Quiet(h)
    BY <1>9
  <2> HIDE DEF u
  <2>3. h \in Seq(ItemType) /\ h # <<>> /\ h[Len(h)] = u
    BY <1>1, <2>1, AppendItem
  <2>4. Known(R) => Remembers(h, summary.about, unsaved_answers, unsaved_calls, R)
    <3> SUFFICES ASSUME Known(R) PROVE Remembers(h, summary.about, unsaved_answers, unsaved_calls, R)
      OBVIOUS
    <3>1. Remembers(history, summary.about, unsaved_answers, unsaved_calls, R) /\ u.about \subseteq about_of(drop_unanswered(R))
      BY <1>3, <1>7, <1>9, <2>1
    <3> HIDE DEF R
    <3> DEFINE b == summary.about
    <3> HIDE DEF b
    <3>2. Remembers(history, b, unsaved_answers, unsaved_calls, R)
      BY <3>1 DEF b
    <3>3. Found(u, unsaved_calls, drop_unanswered(R)) /\ u.kind # "Assistant"
      BY <2>1 DEF Found
    <3>4. unsaved_answers \in Nat /\ u.about \subseteq about_of(drop_unanswered(R))
      BY <1>2, <3>1
    <3>5. Remembers(h, b, unsaved_answers, unsaved_calls, R)
      BY <1>1, <1>4, <2>1, <3>2, <3>3, <3>4, AppendRemembered
    <3>. QED
      BY <3>5 DEF b
  <2>5. ReturnedOk => Recorded(history')
    <3>1. Recorded(h)
      <4> HIDE DEF h
      <4>. QED
        BY <2>1, <2>3 DEF Recorded, LastIs
    <3>. QED
      BY <2>2, <3>1 DEF Quiet
  <2> HIDE DEF h, R, N
  <2>. QED
    BY <1>8, <2>2, <2>3, <2>4, <2>5
<1>10. CASE Quiet(history) /\ (ReturnedOk => pc = "Resume")
  <2>1. ReturnedOk => Recorded(history')
    BY <1>2, <1>10 DEF Quiet
  <2>2. Quiet(history) /\ history \in Seq(ItemType)
    BY <1>1, <1>10
  <2>3. Known(R) => Remembers(history, summary.about, unsaved_answers, unsaved_calls, R)
    BY <1>7
  <2> HIDE DEF R, N
  <2>. QED
    BY <1>8, <2>1, <2>2, <2>3
<1>11. CASE silent /\ \E text, uses, stop, blocked : Records(text, uses, stop, blocked)
  BY <1>11, RemSilent
<1>12. CASE ~silent /\ \E text, uses, stop, blocked : Records(text, uses, stop, blocked)
  <2>1. PICK text, uses, stop, blocked : Records(text, uses, stop, blocked)
    BY <1>12
  <2>2. text \in TextClass /\ uses \in Seq(Ids)
    BY <2>1 DEF Records
  <2>3. /\ ReturnedOk /\ turn_index' = turn_index + 1 /\ summary' = summary /\ pc' \in {"Prompt", "Resume"}
        /\ \/ /\ uses = <<>>
              /\ \/ history' = Append(history, Assistant(text, <<>>))
                 \/ \E t \in TextClass :
                       history' = Append(Append(history, Assistant(text, <<>>)), User(t, {}))
           \/ /\ uses # <<>>
              /\ history' = Append(Append(history, Assistant(text, uses)), ToolResults(uses))
    BY <1>1, <2>1, ObserveForms
  <2>4. /\ queue' = persisted(history') /\ turn_index' \in Nat /\ turn_index' > turn_index
        /\ unsaved_answers' = unsaved_answers + (IF LastIs(history', "User") THEN 1 ELSE 0) /\ unsaved_answers' \in Nat
        /\ unsaved_calls' = unsaved_calls
    BY <1>2, <1>3, <1>12, <2>3
  <2> DEFINE s == history'
             b == summary.about
             M == Replay(Whole(file, persisted(s)))
  <2>5. Recorded(s) /\ (Known(R) => Backed(M) /\ Remembers(s, b, unsaved_answers', unsaved_calls', M))
    <3>0. Known(R) => Backed(Replay(file)) /\ Remembers(history, b, unsaved_answers, unsaved_calls, Replay(file))
      BY <1>7
    <3> HIDE DEF b
    <3>1. CASE history' = Append(history, Assistant(text, <<>>))
      <4>1. s = Append(history, Assistant(text, <<>>))
        BY <3>1
      <4> HIDE DEF s
      <4>2. Recorded(s) /\ ~LastIs(s, "User") /\ (Known(R) => Backed(M) /\ Remembers(s, b, unsaved_answers, unsaved_calls, M))
        <5>1. Recorded(s) /\ ~LastIs(s, "User")
          BY <1>1, <2>2, <4>1, EndsRecorded
        <5>2. ASSUME Known(R) PROVE Backed(M) /\ Remembers(s, b, unsaved_answers, unsaved_calls, M)
          BY <1>1, <1>2, <2>2, <3>0, <4>1, <5>2, RememberAnswer
        <5>. QED
          BY <5>1, <5>2
      <4>3. unsaved_answers' = unsaved_answers /\ unsaved_calls' = unsaved_calls
        BY <1>2, <2>4, <4>2 DEF s
      <4>. QED
        BY <4>2, <4>3
    <3>2. CASE \E t \in TextClass :
                  history' = Append(Append(history, Assistant(text, <<>>)), User(t, {}))
      <4>1. PICK t \in TextClass : s = Append(Append(history, Assistant(text, <<>>)), User(t, {}))
        BY <3>2
      <4> HIDE DEF s
      <4>2. Recorded(s) /\ LastIs(s, "User") /\ (Known(R) => Backed(M) /\ Remembers(s, b, unsaved_answers + 1, unsaved_calls, M))
        <5>1. Recorded(s) /\ LastIs(s, "User")
          BY <1>1, <2>2, <4>1, EndsRecorded
        <5>2. ASSUME Known(R) PROVE Backed(M) /\ Remembers(s, b, unsaved_answers + 1, unsaved_calls, M)
          BY <1>1, <1>2, <2>2, <3>0, <4>1, <5>2, RememberCut
        <5>. QED
          BY <5>1, <5>2
      <4>3. unsaved_answers' = unsaved_answers + 1 /\ unsaved_calls' = unsaved_calls
        BY <2>4, <4>2 DEF s
      <4>. QED
        BY <4>2, <4>3
    <3>3. CASE uses # <<>> /\ history' = Append(Append(history, Assistant(text, uses)), ToolResults(uses))
      <4>1. uses # <<>> /\ s = Append(Append(history, Assistant(text, uses)), ToolResults(uses))
        BY <3>3
      <4> HIDE DEF s
      <4>2. Recorded(s) /\ ~LastIs(s, "User") /\ (Known(R) => Backed(M) /\ Remembers(s, b, unsaved_answers, unsaved_calls, M))
        <5>1. Recorded(s) /\ ~LastIs(s, "User")
          BY <1>1, <2>2, <4>1, EndsRecorded
        <5>2. ASSUME Known(R) PROVE Backed(M) /\ Remembers(s, b, unsaved_answers, unsaved_calls, M)
          BY <1>1, <1>2, <2>2, <3>0, <4>1, <5>2, RememberExchange
        <5>. QED
          BY <5>1, <5>2
      <4>3. unsaved_answers' = unsaved_answers /\ unsaved_calls' = unsaved_calls
        BY <1>2, <2>4, <4>2 DEF s
      <4>. QED
        BY <4>2, <4>3
    <3>. QED
      BY <2>3, <3>1, <3>2, <3>3
  <2>6. N = M /\ summary'.about = b
    BY <2>3, <2>4
  <2>. QED
    BY <2>3, <2>4, <2>5, <2>6
<1>. QED
  BY <1>1, <1>2, <1>3, <1>9, <1>10, <1>11, <1>12, StepForms

\* Only whole lines that begin where a line ends keep a file readable.
LEMMA PutReadable ==
    ASSUME JournalShape, NEW cell \in Cells, put(cell), AllReadable'
    PROVE  ~open /\ AllReadable /\ cell \notin Broken /\ file' = Append(file, <<cell>>)
<1> DEFINE n == Len(file)
<1>1. /\ n \in Nat /\ DOMAIN file = 1..n /\ file' \in Files /\ DOMAIN file' = 1..Len(file')
      /\ \A k \in 1..n : file[k] \in Seq(Cells) /\ file[k] # <<>>
  BY PutFacts, LenProperties, ElementOfSeq DEF JournalShape, Files
<1>2. \A k \in 1..Len(file') : Len(file'[k]) = 1 /\ file'[k][1] \notin Broken
  BY <1>1 DEF AllReadable, readable
<1>3. ~open
  <2> SUFFICES ASSUME open PROVE FALSE
    BY DEF JournalShape
  <2>1. n \in Nat \ {0} /\ Len(file') = n /\ file'[n] = Append(file[n], cell)
    BY PutFacts
  <2> HIDE DEF n
  <2>2. n \in 1..n
    BY <2>1
  <2>3. Len(file'[n]) = 1
    BY <1>2, <2>1, <2>2
  <2> DEFINE l == file[n]
  <2>4. l \in Seq(Cells) /\ l # <<>>
    BY <1>1, <2>2
  <2> HIDE DEF l
  <2>5. Len(l) \in Nat /\ Len(l) >= 1 /\ Len(Append(l, cell)) = Len(l) + 1
    BY <2>4, EmptySeq, LenProperties, AppendProperties
  <2>. QED
    BY <2>1, <2>3, <2>5 DEF l
<1>4. file' = Append(file, <<cell>>)
  BY <1>3, PutFacts
<1>5. /\ Len(file') = n + 1 /\ file'[n + 1] = <<cell>>
      /\ \A k \in 1..n : file'[k] = file[k]
  <2>1. <<cell>> \in Seq(Cells) /\ file \in Seq(Seq(Cells))
    BY DEF JournalShape, Files
  <2>. QED
    BY <1>4, <2>1, AppendProperties
<1>6. cell \notin Broken
  <2>1. n + 1 \in 1..Len(file')
    BY <1>1, <1>5
  <2>2. file'[n + 1][1] \notin Broken
    BY <1>2, <2>1
  <2>. QED
    BY <1>5, <2>2
<1>7. AllReadable
  <2>1. \A k \in 1..n : k \in 1..Len(file') /\ file'[k] = file[k]
    BY <1>1, <1>5
  <2>. QED
    BY <1>1, <1>2, <2>1 DEF AllReadable, readable
<1>. QED
  BY <1>3, <1>4, <1>6, <1>7

\* A file backs its results if it will when all that is queued is written.
LEMMA BackedWhole ==
    ASSUME NEW f \in Files, NEW q \in Seq(Lines), Backed(Replay(Whole(f, q)))
    PROVE  Backed(Replay(f))
<1> DEFINE g == Whole(f, q)
           n == Len(f)
<1>1. g \in Files /\ Len(g) = n + Len(q) /\ n \in Nat /\ Len(q) \in Nat /\ replayed(g)[n] = Replay(f)
  BY WholeFacts
<1>2. Backed(Replay(g))
  OBVIOUS
<1> HIDE DEF g, n
<1>3. n \in 0..Len(g)
  BY <1>1
<1>4. Backed(replayed(g)[n])
  BY <1>1, <1>2, <1>3, BackedBefore
<1>. QED
  BY <1>1, <1>4

\* A process that resumes the session knows what it has loaded.
LEMMA RemRestart ==
    ASSUME JournalShape, RemInv, Restart
    PROVE  RemInv'
<1>1. /\ file \in Files /\ queue \in Seq(Lines) /\ queue' = <<>> /\ typed' = FALSE
      /\ unsaved_answers' = 0 /\ unsaved_calls' = {}
      /\ turn_index' = 0 /\ pc' = "Prompt" /\ summary'.about = {}
      /\ history' = load_session_history(file')
  BY DEF JournalShape, Restart, NoSummary
<1> SUFFICES ASSUME AllReadable'
             PROVE  /\ Backed(Replay(Whole(file', queue')))
                    /\ Remembers(history', {}, 0, {}, Replay(Whole(file', queue')))
  BY <1>1 DEF RemInv, Known
<1> DEFINE f == file'
           R == Replay(f)
           L == drop_unanswered(R)
<1>2. f \in Files /\ Backed(Replay(f))
  <2>1. CASE UNCHANGED <<file, open>>
    <3>1. AllReadable
      BY <2>1 DEF AllReadable
    <3>2. Backed(Replay(Whole(file, queue)))
      BY <3>1 DEF RemInv, Known
    <3>. QED
      BY <1>1, <2>1, <3>2, BackedWhole
  <2>2. CASE queue # <<>> /\ \E cell \in {Torn, Head(queue)} : put(cell)
    <3>1. PICK cell \in {Torn, Head(queue)} : put(cell)
      BY <2>2
    <3>2. Head(queue) \in Lines /\ Tail(queue) \in Seq(Lines)
      BY <1>1, <2>2, HeadTailProperties
    <3>3. cell \in Cells
      BY <3>1, <3>2 DEF Cells, Broken
    <3>4. AllReadable /\ cell = Head(queue) /\ f = Append(file, <<Head(queue)>>) /\ f \in Files
      BY <3>1, <3>3, PutReadable, PutFacts DEF Broken
    <3>5. Whole(f, Tail(queue)) = Whole(file, queue)
      BY <1>1, <2>2, <3>4, WholeMoves
    <3>6. Backed(Replay(Whole(f, Tail(queue))))
      BY <3>4, <3>5 DEF RemInv, Known
    <3> HIDE DEF f
    <3>. QED
      BY <3>2, <3>4, <3>6, BackedWhole
  <2>. QED
    BY <2>1, <2>2 DEF Restart
<1>3. Replay(Whole(f, queue')) = R /\ history' = L
  BY <1>1, <1>2, WholeIsFile DEF load_session_history, Replay
<1>4. Backed(R) /\ R \in Seq(ItemType)
  BY <1>2, ReplayType
<1>5. Remembers(L, {}, 0, {}, R)
  <2> HIDE DEF R
  <2>1. L \in Seq(ItemType)
    BY <1>4, DropFacts
  <2>2. Cardinality(Answers(L)) <= Cardinality(Answers(L)) + 0
    BY <2>1, AnswersFinite
  <2>3. \A i \in DOMAIN L : Found(L[i], {}, L)
    BY DEF Found
  <2>. QED
    BY <2>2, <2>3 DEF Remembers
<1>6. Replay(Whole(file', queue')) = R /\ history' = L
  BY <1>3
<1> HIDE DEF L, R
<1>7. Backed(Replay(Whole(file', queue')))
  BY <1>4, <1>6
<1>8. Remembers(history', {}, 0, {}, Replay(Whole(file', queue')))
  BY <1>5, <1>6
<1>. QED
  BY <1>7, <1>8

\* A message that is typed will be found.
LEMMA RemType ==
    ASSUME JournalShape, RemInv, Type
    PROVE  RemInv'
<1> DEFINE r == user_line(asked + 1)
           u == User(r.text, r.about)
           R == Replay(file)
           g == Whole(file, <<r>>)
           n == Len(file)
<1>0. file \in Files /\ asked \in Nat /\ history \in Seq(ItemType) /\ unsaved_answers \in Nat
  BY DEF JournalShape, SessionShape, RemInv
<1>1. /\ queue = <<>> /\ queue' = <<r>> /\ typed' = TRUE
      /\ UNCHANGED <<vars, file, unsaved_answers, unsaved_calls>>
  BY DEF Type, ghosts
<1>2. UNCHANGED <<pc, history, summary, turn_index, asked>>
  BY <1>1 DEF vars
<1>3. r \in Lines /\ r.kind = "user" /\ r \notin Broken /\ r.about = {asked + 1}
  BY <1>0 DEF user_line, SessionLine, Lines, TextClass, Broken, Torn, Garbled
<1>4. u \in ItemType /\ u.kind = "User" /\ u.about = {asked + 1}
  <2>1. <<>> \in Seq(Ids)
    BY EmptySeq
  <2>2. r.text \in TextClass /\ r.about \in SUBSET Nat
    BY <1>3 DEF Lines
  <2>. QED
    BY <1>3, <2>1, <2>2 DEF User, Item, ItemType, ItemKind
<1> HIDE DEF r
<1> SUFFICES ASSUME AllReadable
             PROVE  /\ Backed(Replay(g)) /\ Remembers(history, summary.about, unsaved_answers, unsaved_calls, Replay(g))
                    /\ asked + 1 \in about_of(drop_unanswered(Replay(g)))
  BY <1>1, <1>2 DEF RemInv, Known, AllReadable
<1>5. R \in Seq(ItemType) /\ Backed(R) /\ Remembers(history, summary.about, unsaved_answers, unsaved_calls, R)
  BY <1>0, <1>1, WholeIsFile, ReplayType DEF RemInv, Known
<1>6. <<r>> \in Seq(Lines) /\ Len(<<r>>) = 1 /\ <<r>>[1] = r
  BY <1>3
<1>7. g \in Files /\ Len(g) = n + 1 /\ n \in Nat /\ g[n + 1] = <<r>> /\ replayed(g)[n] = R
  <2> DEFINE q == <<r>>
  <2>1. q \in Seq(Lines) /\ Len(q) = 1 /\ q[1] = r /\ 1 \in 1..Len(q) /\ Whole(file, q) = g
    BY <1>6
  <2> HIDE DEF q, g
  <2>2. /\ g \in Files /\ Len(g) = n + Len(q) /\ n \in Nat
        /\ \A j \in 1..Len(q) : g[n + j] = <<q[j]>>
        /\ replayed(g)[n] = R
    BY <1>0, <2>1, WholeFacts
  <2> HIDE DEF n
  <2>. QED
    BY <2>1, <2>2
<1> HIDE DEF g, n
<1>8. n + 1 \in 1..Len(g) /\ (n + 1) - 1 = n
  BY <1>7
<1>9. replayed(g)[n + 1] = read_line(R, <<r>>)
  BY <1>7, <1>8, ReplayFacts
<1>10. read_line(R, <<r>>) = push(R, r)
  BY <1>3, <1>6 DEF read_line, readable
<1>11. push(R, r) = Append(R, u)
  BY <1>3, <1>5, PushFacts
<1>12. Replay(g) = Append(R, u)
  BY <1>7, <1>9, <1>10, <1>11 DEF Replay
<1> HIDE DEF u, R
<1> DEFINE N == Append(R, u)
           M == drop_unanswered(N)
           b == summary.about
<1>13. N \in Seq(ItemType) /\ Backed(N)
  BY <1>4, <1>5, AppendItem, BackedAppend
<1>14. Kept(drop_unanswered(R), M) /\ Len(M) \in DOMAIN M /\ M[Len(M)] = u
  BY <1>4, <1>5, AppendKept
<1>15. Remembers(history, b, unsaved_answers, unsaved_calls, R)
  BY <1>5
<1> HIDE DEF N, b
<1>16. Remembers(history, b, unsaved_answers, unsaved_calls, N)
  BY <1>0, <1>5, <1>13, <1>14, <1>15, KeptRemembered
<1>17. asked + 1 \in about_of(M)
  BY <1>4, <1>14 DEF about_of
<1>. QED
  BY <1>12, <1>13, <1>16, <1>17 DEF N, b

\* Every step keeps the invariant.
LEMMA RemStep == JournalShape /\ RemInv /\ [JournalNext]_allVars => RemInv'
<1> SUFFICES ASSUME JournalShape, RemInv, [JournalNext]_allVars PROVE RemInv'
  OBVIOUS
<1>0. /\ file \in Files /\ queue \in Seq(Lines) /\ history \in Seq(ItemType)
      /\ pc # "Retry" /\ (pc = "Resume" => Recorded(history)) /\ unsaved_answers \in Nat /\ turn_index \in Nat
      /\ AllReadable => Known(Replay(Whole(file, queue)))
  BY DEF JournalShape, SessionShape, RemInv
<1>1. CASE Type
  BY <1>1, RemType
<1>2. CASE AppendLine
  <2>1. /\ queue # <<>> /\ put(Head(queue)) /\ queue' = Tail(queue) /\ UNCHANGED <<vars, typed, ghosts>>
    BY <1>2 DEF AppendLine
  <2>2. UNCHANGED <<pc, history, summary, turn_index, asked, typed, unsaved_answers, unsaved_calls>>
    BY <2>1 DEF vars, ghosts
  <2>3. Head(queue) \in Cells
    BY <1>0, <2>1, HeadTailProperties DEF Cells
  <2>4. AllReadable' => AllReadable /\ file' = Append(file, <<Head(queue)>>)
    BY <2>1, <2>3, PutReadable
  <2>5. AllReadable' => AllReadable /\ Whole(file', queue') = Whole(file, queue)
    BY <1>0, <2>1, <2>4, WholeMoves
  <2>. QED
    BY <1>0, <2>2, <2>5 DEF RemInv, Known
<1>3. CASE Turn
  BY <1>3, RemTurn
<1>4. CASE Clear
  <2>1. /\ pc = "Prompt" /\ history' = <<>> /\ turn_index' = 0
        /\ UNCHANGED <<pc, summary, asked, file, queue, typed, unsaved_answers, unsaved_calls>>
    BY <1>4 DEF Clear, journalVars, ghosts
  <2> DEFINE R == Replay(Whole(file, queue))
             b == summary.about
  <2>2. AllReadable' = AllReadable
    BY <2>1 DEF AllReadable
  <2>3. Known(R) => Remembers(<<>>, b, unsaved_answers, unsaved_calls, R)
    <3> SUFFICES ASSUME Known(R) PROVE Remembers(<<>>, b, unsaved_answers, unsaved_calls, R)
      OBVIOUS
    <3>1. R \in Seq(ItemType)
      BY <1>0, WholeFacts, ReplayType
    <3>2. Remembers(history, b, unsaved_answers, unsaved_calls, R)
      BY DEF Known
    <3> HIDE DEF R, b
    <3>3. about_of(<<>>) = {} /\ Answers(<<>>) = {} /\ <<>> \in Seq(ItemType)
      BY EmptySeq DEF about_of, Answers
    <3>4. Cardinality(Answers(<<>>)) <= Cardinality(Answers(history))
      <4>1. Cardinality(Answers(<<>>)) = 0
        BY <3>3, FS_EmptySet
      <4>2. Cardinality(Answers(history)) \in Nat
        BY <1>0, AnswersFinite
      <4>. QED
        BY <4>1, <4>2
    <3>5. Less(<<>>, b, history, b)
      BY <3>3, <3>4 DEF Less
    <3> DEFINE e == <<>>
    <3>6. e \in Seq(ItemType) /\ Less(e, b, history, b)
      BY <3>3, <3>5
    <3> HIDE DEF e
    <3>7. Remembers(e, b, unsaved_answers, unsaved_calls, R)
      BY <1>0, <3>1, <3>2, <3>6, LessRemembered
    <3>. QED
      BY <3>7 DEF e
  <2>. QED
    BY <1>0, <2>1, <2>2, <2>3 DEF RemInv, Known
<1>5. CASE Restart
  BY <1>5, RemRestart
<1>6. CASE SlashRetry
  <2> DEFINE R == Replay(file)
             b == summary.about
             h == popped(history)
  <2>1. /\ pc = "Prompt" /\ queue = <<>> /\ ~typed
        /\ UNCHANGED <<file, queue, typed, unsaved_answers, unsaved_calls>>
    BY <1>6 DEF SlashRetry, ghosts
  <2>2. AllReadable' = AllReadable
    BY <2>1 DEF AllReadable
  <2>3. h \in Seq(ItemType) /\ Less(h, b, history, b)
    <3>1. PICK n \in 0..Len(history) : h = SubSeq(history, 1, n)
      BY <1>0, PoppedPiece
    <3>2. Less(h, {}, history, {})
      <4>1. Len(history) \in Nat
        BY <1>0, LenProperties
      <4>2. 1 \in 1..(Len(history) + 1) /\ 1 <= n + 1
        BY <4>1
      <4>. QED
        BY <1>0, <3>1, <4>2, LessPiece
    <3>3. h \in Seq(ItemType)
      BY <1>0, PoppedType
    <3>. QED
      BY <3>2, <3>3 DEF Less
  <2>4. /\ Less(history', summary'.about, h, b) /\ turn_index' = turn_index
        /\ pc' \notin {"Retry", "Resume"} /\ history' \in Seq(ItemType)
    <3>1. CASE AgentTurn(h, FALSE)
      <4>1. Quiet(h)
        BY <2>3, <3>1, AgentTurnQuiet
      <4>2. history' \in Seq(ItemType)
        BY <2>3, <3>1, AgentTurnShape DEF JournalShape, SessionShape
      <4>. QED
        BY <4>1, <4>2 DEF Quiet
    <3>2. CASE history' = h /\ UNCHANGED <<turn_index, pc, summary>>
      <4>1. Less(h, b, h, b)
        BY <2>3, LessSame
      <4>. QED
        BY <2>1, <2>3, <3>2, <4>1
    <3>. QED
      BY <1>6, <3>1, <3>2 DEF SlashRetry
  <2>5. Known(R) => Remembers(history', summary'.about, unsaved_answers, unsaved_calls, R)
    <3> SUFFICES ASSUME Known(R)
                 PROVE  Remembers(history', summary'.about, unsaved_answers, unsaved_calls, R)
      OBVIOUS
    <3>1. R \in Seq(ItemType)
      BY <1>0, ReplayType
    <3>2. Remembers(history, b, unsaved_answers, unsaved_calls, R)
      BY DEF Known
    <3> HIDE DEF R, b, h
    <3>3. Remembers(h, b, unsaved_answers, unsaved_calls, R)
      BY <1>0, <2>3, <3>1, <3>2, LessRemembered
    <3>. QED
      BY <1>0, <2>3, <2>4, <3>1, <3>3, LessRemembered
  <2>6. Replay(Whole(file, queue)) = R /\ Replay(Whole(file, queue))' = R
    BY <1>0, <2>1, WholeIsFile
  <2>7. AllReadable => Known(R)
    BY <1>0, <2>6
  <2>8. AllReadable' => Known(Replay(Whole(file, queue)))'
    BY <2>1, <2>2, <2>5, <2>6, <2>7 DEF Known
  <2>. QED
    BY <1>0, <2>1, <2>4, <2>8 DEF RemInv
<1>7. CASE LoseFile
  <2>1. /\ put(Garbled) /\ Garbled \in Cells /\ Garbled \in Broken
        /\ UNCHANGED <<vars, unsaved_answers>>
    BY <1>7 DEF LoseFile, Cells, Broken
  <2>2. ~AllReadable'
    BY <2>1, PutReadable
  <2>3. UNCHANGED <<pc, history, turn_index, unsaved_answers>>
    BY <2>1 DEF vars
  <2>. QED
    BY <1>0, <2>2, <2>3 DEF RemInv
<1>8. CASE UNCHANGED allVars
  <2>1. UNCHANGED <<pc, history, summary, turn_index, asked, file, queue, typed, unsaved_answers,
                    unsaved_calls>>
    BY <1>8 DEF allVars, journalVars, ghosts, vars
  <2>. QED
    BY <1>0, <2>1 DEF RemInv, Known, AllReadable
<1>. QED
  BY <1>1, <1>2, <1>3, <1>4, <1>5, <1>6, <1>7, <1>8 DEF JournalNext

\* A process that resumes the session knows what the live one knows: the messages,
\* the calls with their results and the answers, but the answers cut at max_tokens
\* and what /retry recorded, through any number of compactions, failed turns, clears
\* and resumes, of a file that no crash has spoiled.
THEOREM ResumeRemembersHolds == JournalSpec => []ResumeRemembers
<1>1. JournalShape /\ RemInv => ResumeRemembers
  <2> SUFFICES ASSUME JournalShape, RemInv, queue = <<>>, AllReadable PROVE ResumeRemembers
    BY DEF ResumeRemembers
  <2> DEFINE R == Replay(file)
             L == drop_unanswered(R)
  <2>1. file \in Files /\ R \in Seq(ItemType)
    BY ReplayType DEF JournalShape
  <2>2. Backed(R) /\ Remembers(history, summary.about, unsaved_answers, unsaved_calls, R)
    BY <2>1, WholeIsFile DEF RemInv, Known
  <2>3. Loaded = L
    BY DEF Loaded, load_session_history, Replay
  <2> HIDE DEF R
  <2>4. /\ L \in Seq(ItemType) /\ Begins(L, R) /\ DOMAIN L = 1..Len(L) /\ Len(L) \in Nat
        /\ DOMAIN R = 1..Len(R) /\ Len(R) \in Nat
    BY <2>1, DropFacts, LenProperties
  <2>5. /\ about_of(history) \cup summary.about \subseteq about_of(L)
        /\ \A i \in DOMAIN history : Found(history[i], unsaved_calls, L)
        /\ Cardinality(Answers(history)) <= Cardinality(Answers(L)) + unsaved_answers
    BY <2>2 DEF Remembers
  <2> HIDE DEF L
  <2>6. \A j \in DOMAIN L : L[j].kind = "ToolResults" =>
           j \in 2..Len(L) /\ ToSet(L[j].ids) \subseteq ToSet(L[j - 1].ids)
    <3> SUFFICES ASSUME NEW j \in DOMAIN L, L[j].kind = "ToolResults"
                 PROVE  j \in 2..Len(L) /\ ToSet(L[j].ids) \subseteq ToSet(L[j - 1].ids)
      OBVIOUS
    <3>1. j \in 1..Len(L) /\ j \in DOMAIN R /\ R[j] = L[j]
      BY <2>4 DEF Begins
    <3>2. j >= 2 /\ ToSet(R[j].ids) \subseteq ToSet(R[j - 1].ids)
      BY <2>2, <3>1 DEF Backed
    <3>3. j - 1 \in 1..Len(L) /\ R[j - 1] = L[j - 1]
      BY <2>4, <3>1, <3>2 DEF Begins
    <3>. QED
      BY <2>4, <3>1, <3>2, <3>3
  <2>7. \A i \in DOMAIN history : history[i].kind = "ToolResults" =>
           \/ ToSet(history[i].ids) \subseteq unsaved_calls
           \/ \E j \in 2..Len(L) : /\ L[j] = history[i]
                                   /\ ToSet(history[i].ids) \subseteq ToSet(L[j - 1].ids)
    <3> SUFFICES ASSUME NEW i \in DOMAIN history, history[i].kind = "ToolResults",
                        ~(ToSet(history[i].ids) \subseteq unsaved_calls)
                 PROVE  \E j \in 2..Len(L) :
                           /\ L[j] = history[i]
                           /\ ToSet(history[i].ids) \subseteq ToSet(L[j - 1].ids)
      OBVIOUS
    <3>1. PICK j \in DOMAIN L : L[j] = history[i]
      BY <2>5 DEF Found
    <3>2. j \in 2..Len(L) /\ ToSet(history[i].ids) \subseteq ToSet(L[j - 1].ids)
      BY <2>6, <3>1
    <3>. QED
      BY <3>1, <3>2
  <2>. QED
    BY <2>3, <2>5, <2>7 DEF ResumeRemembers
<1>2. JournalShape /\ RemInv /\ [JournalNext]_allVars => RemInv'
  BY RemStep
<1>. QED
  BY <1>1, <1>2, RemInit, ShapeInvariance, PTL DEF JournalSpec

=============================================================================
