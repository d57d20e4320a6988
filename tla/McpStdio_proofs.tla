--------------------------- MODULE McpStdio_proofs ---------------------------
(***************************************************************************)
(* Proofs about McpStdio, for any set of callers, pipe capacities and      *)
(* bounds: type correctness, and the three invariants that TLC checks on   *)
(* two callers.                                                            *)
(***************************************************************************)
EXTENDS McpStdio, SequenceTheorems, TLAPS

-----------------------------------------------------------------------------
(***************************************************************************)
(* The inductive invariant.                                                *)
(***************************************************************************)

\* Ids number the requests, so no two callers ever share one.
Numbering ==
    /\ next_id = serial + 1
    /\ \A c \in Callers : mine[c] = id[c] /\ id[c] <= serial
    /\ \A c \in Callers : pc[c] # "idle" => id[c] # 0
    /\ \A c, d \in Callers : (c # d /\ id[c] = id[d]) => id[c] = 0
    /\ \A p \in pending : p.n = p.id /\ p.id # 0

\* A message on the wire that carries an id answers, or is, that request.
Genuine == {m \in Message : m.id # 0 => m.n = m.id}

Traffic ==
    /\ stdin \in Seq(Genuine) /\ stdout \in Seq(Genuine)
    /\ line \in Genuine /\ writing \in Genuine

Channels ==
    \A c \in Callers :
        /\ rx[c] \in {0, Closed, mine[c]}
        /\ reply[c] \in {0, Closed, mine[c]}
        /\ pc[c] \in {"locking", "writing"} => rx[c] = 0

\* The mutex is held over the whole write: the reader cannot take the entry
\* of a request away before its caller has begun to wait.
WriterOwns == \A c \in Callers : pc[c] = "writing" => Owns(c) /\ left[c] # 0

Entry(c, p) == p.id = id[c] /\ p.caller = c /\ p.n = mine[c]

Entries ==
    /\ \A c \in Callers : (pc[c] = "writing" \/ (pc[c] = "waiting" /\ rx[c] = 0))
            => \E p \in pending : Entry(c, p)
    /\ \A c \in Callers : (pc[c] = "waiting" /\ rx[c] # 0)
            => \A p \in pending : p.id # id[c]
    /\ NoStaleEntry

\* What goes to the server was asked; what comes back was answered.
Asked    == {m \in Message : m = NoMsg \/ m.n \in 1..serial}
Answered == {m \in Message : m.id # 0 => m.n \in served}

Provenance ==
    /\ stdin \in Seq(Asked) /\ stdout \in Seq(Answered)
    /\ line \in Answered /\ writing \in Answered
    /\ \A c \in Callers : rx[c] \in {0, Closed} \cup served

IInv == TypeOK /\ Numbering /\ Traffic /\ Channels /\ WriterOwns /\ Entries /\ Provenance

-----------------------------------------------------------------------------
(***************************************************************************)
(* The mutex queue.                                                        *)
(***************************************************************************)

\* What is left of a sequence, with its first element taken or not.
LEMMA RestInSeq ==
    ASSUME NEW S, NEW q \in Seq(S), NEW r, r = q \/ (q # <<>> /\ r = Tail(q))
    PROVE  r \in Seq(S)
<1>1. q # <<>> => Tail(q) \in Seq(S)
  BY HeadTailProperties
<1>. QED
  BY <1>1

\* A sequence with an element of the set put at its end, or not.
LEMMA LongerInSeq ==
    ASSUME NEW S, NEW q \in Seq(S), NEW x \in S, NEW r, r = q \/ r = Append(q, x)
    PROVE  r \in Seq(S)
<1>1. Append(q, x) \in Seq(S)
  BY AppendProperties
<1>. QED
  BY <1>1

\* A task that joins the queue does not displace the owner.
LEMMA AppendKeepsHead ==
    ASSUME NEW S, NEW q \in Seq(S), NEW who \in S
    PROVE  /\ Append(q, who) \in Seq(S)
           /\ q # <<>> => (Append(q, who) # <<>> /\ Head(Append(q, who)) = Head(q))
BY HeadTailAppend, AppendProperties

\* Taking another task out of the queue does not displace the owner.
LEMMA RemoveKeepsHead ==
    ASSUME NEW S, NEW q \in Seq(S), NEW i \in DOMAIN q
    PROVE  /\ RemoveAt(q, i) \in Seq(S)
           /\ Head(q) # q[i] => (RemoveAt(q, i) # <<>> /\ Head(RemoveAt(q, i)) = Head(q))
<1> DEFINE a == SubSeq(q, 1, i - 1)
           b == SubSeq(q, i + 1, Len(q))
<1>1. /\ a \in Seq(S) /\ Len(a) = i - 1
      /\ \A k \in 1..(i - 1) : a[k] = q[k]
      /\ b \in Seq(S)
  BY SubSeqProperties
<1>2. RemoveAt(q, i) \in Seq(S)
  BY <1>1, ConcatProperties DEF RemoveAt
<1>3. ASSUME Head(q) # q[i]
      PROVE  RemoveAt(q, i) # <<>> /\ Head(RemoveAt(q, i)) = Head(q)
  <2>1. i > 1
    BY <1>3
  <2>2. Len(a \o b) = Len(a) + Len(b) /\ (a \o b)[1] = a[1] /\ Len(b) \in Nat
    <3>1. 1 \in 1..(Len(a) + Len(b)) /\ 1 <= Len(a)
      BY <1>1, <2>1
    <3>. QED
      BY <1>1, <3>1, ConcatProperties
  <2>. QED
    BY <1>1, <1>2, <2>1, <2>2 DEF RemoveAt
<1>. QED
  BY <1>2, <1>3

-----------------------------------------------------------------------------
(***************************************************************************)
(* Type correctness.                                                       *)
(***************************************************************************)

\* The initial state satisfies the inductive invariant.
LEMMA InitIInv == Init => IInv
<1> SUFFICES ASSUME Init PROVE IInv
  OBVIOUS
<1>1. TypeOK
  <2>1. half \in BOOLEAN
    BY Zenon DEF Init
  <2>. QED
    BY <2>1, McpAssumption DEF Init, TypeOK, Message, Closed, NoMsg, Msg
<1>3. Numbering /\ Traffic /\ Channels /\ WriterOwns /\ Entries
  BY McpAssumption
     DEF Init, Numbering, Genuine, Message, Traffic, Channels, WriterOwns,
         Entries, NoStaleEntry, Closed, NoMsg, Msg
<1>2. Provenance
  <2>1. NoMsg \in Answered
    BY DEF Answered, Message, NoMsg, Msg
  <2>. QED
    BY <2>1, EmptySeq DEF Init, Provenance
<1>. QED
  BY <1>1, <1>2, <1>3 DEF IInv

\* Every step keeps the shapes of the state.
LEMMA TypeStep == TypeOK /\ WriterOwns /\ [Next]_vars => TypeOK'
<1> SUFFICES ASSUME TypeOK, WriterOwns, [Next]_vars PROVE TypeOK'
  OBVIOUS
<1> DEFINE Tasks == Callers \cup {"reader"}
<1> USE McpAssumption DEF TypeOK
<1>a. /\ \A who \in Tasks : Lock(who) => mutex' \in Seq(Tasks)
      /\ \A who \in Tasks : Owns(who) /\ Unlock => mutex' \in Seq(Tasks)
      /\ \A who \in Tasks : Leave(who) => mutex' \in Seq(Tasks)
  <2>1. \A who \in Tasks : Lock(who) => mutex' \in Seq(Tasks)
    BY AppendKeepsHead DEF Lock
  <2>2. \A who \in Tasks : Owns(who) /\ Unlock => mutex' \in Seq(Tasks)
    BY HeadTailProperties DEF Unlock, Owns
  <2>3. \A who \in Tasks : Leave(who) => mutex' \in Seq(Tasks)
    BY RemoveKeepsHead DEF Leave
  <2>. QED
    BY <2>1, <2>2, <2>3
<1>b. NoMsg \in Message /\ Note \in Message /\ \A i, n \in Nat : Msg(i, n) \in Message
  BY DEF NoMsg, Note, Message, Msg
<1>c. \A m \in Message : m.id \in Nat /\ m.n \in Nat \cup {Closed}
  BY DEF Message, Closed
<1>1. ASSUME NEW c \in Callers, Request(c) PROVE TypeOK'
  <2>1. mutex' \in Seq(Tasks)
    BY <1>1, <1>a DEF Request
  <2>. QED
    BY <1>1, <2>1 DEF Request, fetch_add, channel, serverVars
<1>2. ASSUME NEW c \in Callers, Insert(c) PROVE TypeOK'
  <2>1. pending' \subseteq [id : Nat, caller : Callers, n : Nat]
    BY <1>2 DEF Insert
  <2>. QED
    BY <1>2, <2>1 DEF Insert, line_size, serverVars
<1>3. ASSUME NEW c \in Callers, Write(c) PROVE TypeOK'
  <2>1. mutex' \in Seq(Tasks)
    BY <1>3, <1>a DEF Write, WriterOwns
  <2>2. stdin' \in Seq(Message)
    BY <1>3, <1>b, AppendProperties DEF Write
  <2>3. left' \in [Callers -> Nat]
    BY <1>3 DEF Write, WriterOwns
  <2>. QED
    BY <1>3, <2>1, <2>2, <2>3 DEF Write, serverVars
<1>4. ASSUME NEW c \in Callers, WriteFails(c) PROVE TypeOK'
  <2>1. mutex' \in Seq(Tasks)
    BY <1>4, <1>a DEF WriteFails, WriterOwns
  <2>. QED
    BY <1>4, <2>1 DEF WriteFails, serverVars, Closed
<1>5. ASSUME NEW c \in Callers, Receive(c) PROVE TypeOK'
  BY <1>5 DEF Receive, serverVars
<1>6. ASSUME NEW c \in Callers, Timeout(c) PROVE TypeOK'
  <2>1. mutex' \in Seq(Tasks)
    BY <1>6, <1>a DEF Timeout
  <2>. QED
    BY <1>6, <2>1 DEF Timeout, serverVars
<1>7. ASSUME NEW c \in Callers, Expire(c) PROVE TypeOK'
  <2>1. mutex' \in Seq(Tasks)
    BY <1>7, <1>a DEF Expire
  <2>. QED
    BY <1>7, <2>1 DEF Expire, remove, serverVars, Closed
<1>8. CASE ReadLine
  <2>1. mutex' \in Seq(Tasks)
    BY <1>8, <1>a DEF ReadLine
  <2>2. stdout' \in Seq(Message) /\ line' \in Message
    BY <1>8, HeadTailProperties DEF ReadLine
  <2>. QED
    BY <1>8, <2>1, <2>2 DEF ReadLine, callerVars, serverVars
<1>9. CASE Route
  <2>1. mutex' \in Seq(Tasks)
    BY <1>9, <1>a DEF Route
  <2>2. rx' \in [Callers -> Nat \cup {Closed}]
    BY <1>9, <1>c DEF Route, Deliver
  <2>. QED
    BY <1>9, <1>b, <2>1, <2>2 DEF Route, remove, serverVars
<1>10. CASE Eof
  <2>1. mutex' \in Seq(Tasks)
    BY <1>10, <1>a DEF Eof
  <2>2. stdout' \in Seq(Message)
    <3>1. stdout' = stdout \/ (stdout # <<>> /\ stdout' = Tail(stdout))
      BY <1>10 DEF Eof
    <3>. QED
      BY <3>1, RestInSeq
  <2>. QED
    BY <1>10, <2>1, <2>2 DEF Eof, callerVars, serverVars
<1>11. CASE Drain
  <2>1. mutex' \in Seq(Tasks)
    BY <1>11, <1>a DEF Drain
  <2>2. rx' \in [Callers -> Nat \cup {Closed}]
    BY <1>11 DEF Drain, Deliver
  <2>. QED
    BY <1>11, <2>1, <2>2 DEF Drain, serverVars
<1>12. CASE Shutdown
  <2>1. mutex' \in Seq(Tasks)
    BY <1>12, <1>a DEF Shutdown
  <2>. QED
    BY <1>12, <1>b, <2>1 DEF Shutdown, callerVars
<1>13. CASE ServerRead
  <2>1. stdin' \in Seq(Message) /\ writing' \in Message /\ Head(stdin) \in Message
    BY <1>13, <1>b, HeadTailProperties DEF ServerRead
  <2>2. served' \subseteq Int
    <3>1. Head(stdin).n \in Int
      BY <2>1 DEF Message
    <3>. QED
      BY <1>13, <3>1 DEF ServerRead
  <2>. QED
    BY <1>13, <2>1, <2>2 DEF ServerRead, callerVars
<1>14. CASE ServerNotify
  BY <1>14, <1>b DEF ServerNotify, callerVars
<1>15. CASE ServerWrite
  <2>1. stdout' \in Seq(Message)
    <3>1. stdout' = stdout \/ stdout' = Append(stdout, writing)
      BY <1>15 DEF ServerWrite
    <3>. QED
      BY <3>1, LongerInSeq
  <2>. QED
    BY <1>15, <1>b, <2>1 DEF ServerWrite, callerVars
<1>16. CASE ServerCrash
  BY <1>16, <1>b DEF ServerCrash, callerVars
<1>17. CASE UNCHANGED vars
  BY <1>17 DEF vars
<1>18. ASSUME NEW c \in Callers, Cancel(c) PROVE TypeOK'
  <2>1. mutex' \in Seq(Tasks)
    BY <1>18, <1>a DEF Cancel
  <2>2. half' \in BOOLEAN
    BY <1>18 DEF Cancel
  <2>. QED
    BY <1>18, <2>1, <2>2 DEF Cancel, serverVars
<1>. QED
  BY <1>1, <1>2, <1>3, <1>4, <1>5, <1>6, <1>7, <1>8, <1>9, <1>10, <1>11, <1>12,
     <1>13, <1>14, <1>15, <1>16, <1>17, <1>18
     DEF Next, CallerStep, ReaderStep, ServerStep

-----------------------------------------------------------------------------
(***************************************************************************)
(* The other parts of the invariant, one lemma each.                       *)
(***************************************************************************)

\* The request counter and the ids stay in step.
LEMMA NumberingStep == TypeOK /\ Numbering /\ [Next]_vars => Numbering'
<1> SUFFICES ASSUME TypeOK, Numbering, [Next]_vars PROVE Numbering'
  OBVIOUS
<1> USE DEF TypeOK, Numbering
<1>1. ASSUME NEW c \in Callers, Request(c) PROVE Numbering'
  BY <1>1 DEF Request, fetch_add, channel
<1>2. ASSUME NEW c \in Callers, Insert(c) PROVE Numbering'
  BY <1>2 DEF Insert
<1>3. ASSUME NEW c \in Callers, CallerStep(c), ~Insert(c) PROVE Numbering'
  BY <1>3 DEF CallerStep, Write, WriteFails, Receive, Timeout, Expire, remove
<1>4. CASE ReaderStep
  BY <1>4 DEF ReaderStep, ReadLine, Route, remove, Eof, Drain, callerVars
<1>5. CASE ServerStep \/ ServerCrash \/ Shutdown \/ UNCHANGED vars
  BY <1>5 DEF ServerStep, ServerRead, ServerNotify, ServerWrite, ServerCrash, Shutdown,
              vars, callerVars
<1>6. ASSUME NEW c \in Callers, Cancel(c) PROVE Numbering'
  BY <1>6 DEF Cancel
<1>. QED
  BY <1>1, <1>2, <1>3, <1>4, <1>5, <1>6 DEF Next

\* What travels on the wire stays genuine.
LEMMA TrafficStep == TypeOK /\ Numbering /\ Traffic /\ [Next]_vars => Traffic'
<1> SUFFICES ASSUME TypeOK, Numbering, Traffic, [Next]_vars PROVE Traffic'
  OBVIOUS
<1>a. NoMsg \in Genuine /\ Note \in Genuine /\ \A n \in Nat : Msg(n, n) \in Genuine
  BY DEF NoMsg, Note, Message, Msg, Genuine
<1> USE DEF Traffic
<1>1. ASSUME NEW c \in Callers, Request(c) PROVE Traffic'
  BY <1>1 DEF Request, serverVars
<1>2. ASSUME NEW c \in Callers, Write(c) PROVE Traffic'
  <2>1. Msg(id[c], mine[c]) \in Genuine
    BY <1>2, <1>a DEF TypeOK, Numbering
  <2>. QED
    BY <1>2, <1>a, <2>1, AppendProperties DEF Write, serverVars
<1>3. ASSUME NEW c \in Callers, CallerStep(c), ~Write(c) PROVE Traffic'
  BY <1>3 DEF CallerStep, Insert, WriteFails, Receive, Timeout, Expire, serverVars
<1>4. CASE ReadLine
  BY <1>4, HeadTailProperties DEF ReadLine, serverVars
<1>5. CASE Route \/ Drain
  BY <1>5, <1>a, EmptySeq DEF Route, Drain, serverVars
<1>b. CASE Eof
  <2>1. stdout' = stdout \/ (stdout # <<>> /\ stdout' = Tail(stdout))
    BY <1>b DEF Eof
  <2>2. stdout' \in Seq(Genuine)
    BY <2>1, HeadTailProperties
  <2>. QED
    BY <1>b, <2>2 DEF Eof, serverVars
<1>6. CASE ServerRead
  BY <1>6, <1>a, HeadTailProperties DEF ServerRead
<1>7. CASE ServerWrite
  BY <1>7, <1>a, AppendProperties DEF ServerWrite
<1>8. CASE ServerNotify \/ ServerCrash \/ Shutdown
  BY <1>8, <1>a, EmptySeq DEF ServerNotify, ServerCrash, Shutdown
<1>9. CASE UNCHANGED vars
  BY <1>9 DEF vars
<1>10. ASSUME NEW c \in Callers, Cancel(c) PROVE Traffic'
  BY <1>10 DEF Cancel, serverVars
<1>. QED
  BY <1>1, <1>2, <1>3, <1>4, <1>5, <1>6, <1>7, <1>8, <1>9, <1>10,
     <1>b DEF Next, ReaderStep, ServerStep

\* A oneshot channel holds nothing but the answer to its own request.
LEMMA ChannelsStep ==
    TypeOK /\ Numbering /\ Traffic /\ Channels /\ [Next]_vars => Channels'
<1> SUFFICES ASSUME TypeOK, Numbering, Traffic, Channels, [Next]_vars PROVE Channels'
  OBVIOUS
<1> USE DEF TypeOK, Channels
<1>1. ASSUME NEW c \in Callers, Request(c) PROVE Channels'
  BY <1>1 DEF Request, channel
<1>2. ASSUME NEW c \in Callers, CallerStep(c) PROVE Channels'
  <2>1. CASE Insert(c) \/ Write(c) \/ WriteFails(c) \/ Timeout(c) \/ Expire(c)
    BY <2>1 DEF Insert, Write, WriteFails, Timeout, Expire
  <2>2. CASE Receive(c)
    BY <2>2 DEF Receive
  <2>. QED
    BY <1>2, <2>1, <2>2 DEF CallerStep
<1>3. CASE Route
  <2>1. ASSUME NEW c \in Callers, NEW p \in pending,
               p.id = line.id, p.caller = c, p.n = mine[c]
        PROVE  line.n = mine[c]
    BY <2>1 DEF Numbering, Traffic, Genuine
  <2>. QED
    BY <1>3, <2>1 DEF Route, Deliver
<1>4. CASE Drain
  BY <1>4 DEF Drain, Deliver
<1>5. CASE ReadLine \/ Eof \/ ServerStep \/ ServerCrash \/ Shutdown \/ UNCHANGED vars
  BY <1>5 DEF ReadLine, Eof, ServerStep, ServerRead, ServerNotify, ServerWrite,
              ServerCrash, Shutdown, vars, callerVars
<1>6. ASSUME NEW c \in Callers, Cancel(c) PROVE Channels'
  BY <1>6 DEF Cancel
<1>. QED
  BY <1>1, <1>2, <1>3, <1>4, <1>5, <1>6 DEF Next, ReaderStep

\* A caller owns the mutex for as long as it writes.
LEMMA WriterOwnsStep == TypeOK /\ WriterOwns /\ [Next]_vars => WriterOwns'
<1> SUFFICES ASSUME TypeOK, WriterOwns, [Next]_vars PROVE WriterOwns'
  OBVIOUS
<1> DEFINE Tasks == Callers \cup {"reader"}
           Held(who) == mutex' # <<>> /\ Head(mutex') = who
<1> USE McpAssumption
<1>a. ASSUME NEW who \in Tasks, Lock(who), NEW c \in Callers, Owns(c) PROVE Held(c)
  BY <1>a, AppendKeepsHead DEF Lock, Owns, TypeOK
<1>b. ASSUME NEW who \in Tasks, Owns(who), NEW c \in Callers, c # who PROVE pc[c] # "writing"
  BY <1>b DEF WriterOwns, Owns
<1>c. ASSUME NEW who \in Tasks, Leave(who), NEW c \in Callers, Owns(c), c # who
      PROVE  Held(c)
  BY <1>c, RemoveKeepsHead DEF Leave, Owns, TypeOK
<1>d. ASSUME UNCHANGED mutex, NEW c \in Callers, Owns(c) PROVE Held(c)
  BY <1>d DEF Owns
<1>e. SUFFICES ASSUME NEW d \in Callers, pc'[d] = "writing" PROVE Held(d) /\ left'[d] # 0
  BY DEF WriterOwns, Owns
<1> USE DEF WriterOwns, TypeOK
<1>1. ASSUME NEW c \in Callers, Request(c) PROVE Held(d) /\ left'[d] # 0
  BY <1>1, <1>a, <1>e DEF Request
<1>2. ASSUME NEW c \in Callers, Insert(c) PROVE Held(d) /\ left'[d] # 0
  BY <1>2, <1>b, <1>d, <1>e DEF Insert, line_size
<1>3. ASSUME NEW c \in Callers, Write(c) PROVE Held(d) /\ left'[d] # 0
  <2>1. d = c
    BY <1>3, <1>b, <1>e DEF Write
  <2>2. left[c] # 1 /\ UNCHANGED mutex
    BY <1>3, <1>e, <2>1 DEF Write
  <2>. QED
    BY <1>3, <1>d, <2>1, <2>2 DEF Write
<1>4. ASSUME NEW c \in Callers, WriteFails(c) PROVE Held(d) /\ left'[d] # 0
  BY <1>4, <1>b, <1>e DEF WriteFails
<1>5. ASSUME NEW c \in Callers, Receive(c) PROVE Held(d) /\ left'[d] # 0
  BY <1>5, <1>d, <1>e DEF Receive
<1>6. ASSUME NEW c \in Callers, Timeout(c) PROVE Held(d) /\ left'[d] # 0
  BY <1>6, <1>a, <1>e DEF Timeout
<1>7. ASSUME NEW c \in Callers, Expire(c) PROVE Held(d) /\ left'[d] # 0
  BY <1>7, <1>b, <1>e DEF Expire
<1>8. CASE ReadLine
  BY <1>8, <1>a, <1>d, <1>e DEF ReadLine, callerVars
<1>9. CASE Route \/ Drain
  BY <1>9, <1>b, <1>e DEF Route, Drain
<1>10. CASE Eof
  BY <1>10, <1>a, <1>e DEF Eof, callerVars
<1>11. CASE Shutdown
  BY <1>11, <1>c, <1>e DEF Shutdown, callerVars
<1>12. CASE ServerStep \/ ServerCrash \/ UNCHANGED vars
  BY <1>12, <1>d, <1>e DEF ServerStep, ServerRead, ServerNotify, ServerWrite, ServerCrash,
                          vars, callerVars
<1>13. ASSUME NEW c \in Callers, Cancel(c) PROVE Held(d) /\ left'[d] # 0
  BY <1>13, <1>c, <1>e DEF Cancel
<1>. QED
  BY <1>1, <1>2, <1>3, <1>4, <1>5, <1>6, <1>7, <1>8, <1>9, <1>10, <1>11, <1>12, <1>13
     DEF Next, CallerStep, ReaderStep

\* No entry outlives its request, unless its write failed or its caller was dropped.
LEMMA StaleStep == IInv /\ [Next]_vars => NoStaleEntry'
<1> SUFFICES ASSUME IInv, [Next]_vars PROVE NoStaleEntry'
  OBVIOUS
<1> USE DEF IInv, TypeOK, Entries, NoStaleEntry
<1>1. ASSUME NEW c \in Callers, Request(c) PROVE NoStaleEntry'
  BY <1>1 DEF Request, fetch_add
<1>2. ASSUME NEW c \in Callers, CallerStep(c) PROVE NoStaleEntry'
  <2>1. CASE Insert(c)
    BY <2>1 DEF Insert
  <2>2. CASE Write(c) \/ Timeout(c)
    <3>1. \A d \in Callers : pc'[d] = pc[d] \/ pc'[d] \in {"waiting", "expiring"}
      BY <2>2 DEF Write, Timeout
    <3>2. UNCHANGED <<pending, id, failed>>
      BY <2>2 DEF Write, Timeout
    <3>3. \A p \in pending : p.caller \in Callers
      OBVIOUS
    <3>. QED
      BY <3>1, <3>2, <3>3, Zenon
  <2>3. CASE WriteFails(c)
    BY <2>3 DEF WriteFails
  <2>4. CASE Receive(c)
    BY <2>4 DEF Receive
  <2>5. CASE Expire(c)
    BY <2>5 DEF Expire, remove
  <2>. QED
    BY <1>2, <2>1, <2>2, <2>3, <2>4, <2>5 DEF CallerStep
<1>3. CASE Route \/ Drain
  BY <1>3 DEF Route, remove, Drain
<1>4. CASE ReadLine \/ Eof \/ ServerStep \/ ServerCrash \/ Shutdown \/ UNCHANGED vars
  BY <1>4 DEF ReadLine, Eof, ServerStep, ServerRead, ServerNotify, ServerWrite,
              ServerCrash, Shutdown, vars, callerVars
<1>5. ASSUME NEW c \in Callers, Cancel(c) PROVE NoStaleEntry'
  BY <1>5 DEF Cancel
<1>. QED
  BY <1>1, <1>2, <1>3, <1>4, <1>5 DEF Next, ReaderStep

\* A caller that writes, or waits with an empty channel, has its entry in the
\* map; one whose channel is full has none.
LEMMA EntriesStep == IInv /\ [Next]_vars => Entries'
<1> SUFFICES ASSUME IInv, [Next]_vars PROVE Entries'
  OBVIOUS
<1> DEFINE Has(c)  == (pc[c] = "writing" \/ (pc[c] = "waiting" /\ rx[c] = 0))
                          => \E p \in pending : Entry(c, p)
           Done(c) == (pc[c] = "waiting" /\ rx[c] # 0) => \A p \in pending : p.id # id[c]
<1> SUFFICES ASSUME NEW d \in Callers PROVE Has(d)' /\ Done(d)'
  BY StaleStep DEF Entries
<1>a. Has(d) /\ Done(d)
  BY DEF IInv, Entries
<1> USE <1>a DEF IInv, TypeOK
<1>1. ASSUME NEW c \in Callers, Request(c) PROVE Has(d)' /\ Done(d)'
  <2>1. Has(d)'
    BY <1>1 DEF Request, fetch_add, channel, Numbering, Entry
  <2>2. Done(d)'
    BY <1>1 DEF Request, fetch_add, channel, Numbering
  <2>. QED
    BY <2>1, <2>2
<1>2. ASSUME NEW c \in Callers, Insert(c) PROVE Has(d)' /\ Done(d)'
  <2>1. Has(d)'
    <3> DEFINE new == [id |-> id[c], caller |-> c, n |-> mine[c]]
    <3>1. CASE d = c
      <4>1. /\ new \in pending'
            /\ new.id = id'[c] /\ new.caller = c /\ new.n = mine'[c]
        BY <1>2 DEF Insert
      <4>2. \E p \in pending' : p.id = id'[c] /\ p.caller = c /\ p.n = mine'[c]
        BY <4>1
      <4>. QED
        BY <3>1, <4>2 DEF Entry
    <3>2. CASE d # c
      <4>1. pc'[d] = pc[d] /\ (pc[d] # "idle" => id[d] # id[c])
        BY <1>2, <3>2 DEF Insert, Numbering
      <4>2. \A p \in pending : p.id # id[c] => p \in pending'
        BY <1>2 DEF Insert
      <4>3. rx' = rx /\ id' = id /\ mine' = mine
        BY <1>2 DEF Insert
      <4>. QED
        BY <4>1, <4>2, <4>3 DEF Entry
    <3>. QED
      BY <3>1, <3>2
  <2>2. Done(d)'
    BY <1>2 DEF Insert, Numbering
  <2>. QED
    BY <2>1, <2>2
<1>3. ASSUME NEW c \in Callers, Write(c) PROVE Has(d)' /\ Done(d)'
  BY <1>3 DEF Write, Channels, Entry
<1>4. ASSUME NEW c \in Callers, WriteFails(c) PROVE Has(d)' /\ Done(d)'
  BY <1>4 DEF WriteFails, Entry
<1>5. ASSUME NEW c \in Callers, Receive(c) PROVE Has(d)' /\ Done(d)'
  BY <1>5 DEF Receive, Entry
<1>6. ASSUME NEW c \in Callers, Timeout(c) PROVE Has(d)' /\ Done(d)'
  BY <1>6 DEF Timeout, Entry
<1>7. ASSUME NEW c \in Callers, Expire(c) PROVE Has(d)' /\ Done(d)'
  <2>1. Has(d)'
    BY <1>7 DEF Expire, remove, Numbering, Entry
  <2>2. Done(d)'
    BY <1>7 DEF Expire, remove, Numbering
  <2>. QED
    BY <2>1, <2>2
<1>8. CASE Route
  <2>a. rx'[d] = IF pc[d] = "waiting" /\ \E p \in pending :
                                          p.id = line.id /\ p.caller = d /\ p.n = mine[d]
                 THEN line.n ELSE rx[d]
    BY <1>8 DEF Route, Deliver
  <2>b. ASSUME NEW p \in pending, p.id = line.id PROVE line.n = p.n /\ p.n = p.id /\ line.n # 0
    BY <2>b DEF Numbering, Traffic, Genuine
  <2>c. pc[d] # "writing"
    BY <1>8, McpAssumption DEF Route, Owns, WriterOwns
  <2>1. Has(d)'
    BY <1>8, <2>a, <2>b, <2>c DEF Route, remove, Entry
  <2>2. Done(d)'
    BY <1>8, <2>a, <2>b DEF Route, remove, Numbering
  <2>. QED
    BY <2>1, <2>2
<1>9. CASE Drain
  <2>a. pc[d] # "writing"
    BY <1>9, McpAssumption DEF Drain, Owns, WriterOwns
  <2>1. Has(d)'
    BY <1>9, <2>a DEF Drain, Deliver, Entry, Closed
  <2>. QED
    BY <1>9, <2>1 DEF Drain
<1>10. CASE ReadLine \/ Eof \/ ServerStep \/ ServerCrash \/ Shutdown \/ UNCHANGED vars
  BY <1>10 DEF ReadLine, Eof, ServerStep, ServerRead, ServerNotify, ServerWrite,
              ServerCrash, Shutdown, vars, callerVars, Entry
<1>11. ASSUME NEW c \in Callers, Cancel(c) PROVE Has(d)' /\ Done(d)'
  BY <1>11 DEF Cancel, Entry
<1>. QED
  BY <1>1, <1>2, <1>3, <1>4, <1>5, <1>6, <1>7, <1>8, <1>9, <1>10, <1>11
     DEF Next, CallerStep, ReaderStep

\* A sequence over a set is one over every larger set.
LEMMA WiderSeq ==
    ASSUME NEW S, NEW T, S \subseteq T, NEW s \in Seq(S)
    PROVE  s \in Seq(T)
<1>1. Len(s) \in Nat /\ s \in [1..Len(s) -> S]
  BY LenProperties
<1>2. s \in [1..Len(s) -> T]
  BY <1>1
<1>. QED
  BY <1>1, <1>2, SeqDef

\* Requests on the wire stay requests that were made, answers stay answers
\* the server gave.
LEMMA ProvenanceStep == IInv /\ [Next]_vars => Provenance'
<1> SUFFICES ASSUME IInv, [Next]_vars PROVE Provenance'
  OBVIOUS
<1> USE DEF IInv, TypeOK, Provenance
<1>a. NoMsg \in Asked /\ NoMsg \in Answered /\ Note \in Answered /\ NoMsg \in Answered'
  BY DEF NoMsg, Note, Message, Msg, Asked, Answered
<1>b. Answered' \subseteq Message /\ (served \subseteq served' => Answered \subseteq Answered')
  BY DEF Answered
<1>c. serial' \in Nat /\ serial <= serial' => Asked \subseteq Asked'
  BY DEF Asked
<1>1. ASSUME NEW c \in Callers, Request(c) PROVE Provenance'
  <2>1. stdin' \in Seq(Asked')
    BY <1>1, <1>c, WiderSeq DEF Request
  <2>2. Answered' = Answered
    BY <1>1 DEF Request, Answered
  <2>. QED
    BY <1>1, <2>1, <2>2 DEF Request, channel, serverVars
<1>2. ASSUME NEW c \in Callers, Write(c) PROVE Provenance'
  <2>1. Asked' = Asked /\ Answered' = Answered
    BY <1>2 DEF Write, Asked, Answered
  <2>2. Msg(id[c], mine[c]) \in Asked
    BY <1>2 DEF Write, Numbering, Asked, Msg, Message
  <2>. QED
    BY <1>2, <1>a, <2>1, <2>2, AppendProperties DEF Write, serverVars
<1>3. ASSUME NEW c \in Callers, (CallerStep(c) /\ ~Write(c)) \/ Cancel(c) PROVE Provenance'
  <2>1. Asked' = Asked /\ Answered' = Answered
    BY <1>3 DEF CallerStep, Insert, WriteFails, Receive, Timeout, Expire, Cancel,
                Asked, Answered
  <2>. QED
    BY <1>3, <2>1 DEF CallerStep, Insert, WriteFails, Receive, Timeout, Expire, Cancel,
                      serverVars
<1>4. CASE Route
  <2>1. Asked' = Asked /\ Answered' = Answered
    BY <1>4 DEF Route, Asked, Answered
  <2>2. \A p \in pending : p.id = line.id => line.n \in served
    BY DEF Numbering, Answered
  <2>. QED
    BY <1>4, <1>a, <2>1, <2>2 DEF Route, Deliver, serverVars
<1>5. CASE Drain
  <2>1. Asked' = Asked /\ Answered' = Answered
    BY <1>5 DEF Drain, Asked, Answered
  <2>. QED
    BY <1>5, <2>1 DEF Drain, Deliver, serverVars
<1>6. CASE ReadLine
  <2>1. Asked' = Asked /\ Answered' = Answered
    BY <1>6 DEF ReadLine, Asked, Answered
  <2>. QED
    BY <1>6, <2>1, HeadTailProperties DEF ReadLine, callerVars, serverVars
<1>7. CASE ServerRead
  <2>1. Asked' = Asked /\ served \subseteq served'
    BY <1>7 DEF ServerRead, Asked
  <2>2. stdin' \in Seq(Asked') /\ Head(stdin) \in Asked
    BY <1>7, <2>1, HeadTailProperties DEF ServerRead
  <2>3. stdout' \in Seq(Answered') /\ line' \in Answered'
    BY <1>7, <1>b, <2>1, WiderSeq DEF ServerRead
  <2>4. writing' \in Answered'
    BY <1>7, <1>a, <2>2 DEF ServerRead, Asked, Answered
  <2>. QED
    BY <1>7, <2>1, <2>2, <2>3, <2>4 DEF ServerRead, callerVars
<1>8. CASE ServerWrite
  <2>1. Asked' = Asked /\ Answered' = Answered
    BY <1>8 DEF ServerWrite, Asked, Answered
  <2>2. stdout' \in Seq(Answered)
    <3>1. stdout' = stdout \/ stdout' = Append(stdout, writing)
      BY <1>8 DEF ServerWrite
    <3>. QED
      BY <3>1, LongerInSeq
  <2>. QED
    BY <1>8, <1>a, <2>1, <2>2 DEF ServerWrite, callerVars
<1>9. CASE ServerNotify \/ ServerCrash \/ Shutdown \/ UNCHANGED vars
  <2>1. Asked' = Asked /\ Answered' = Answered
    BY <1>9 DEF ServerNotify, ServerCrash, Shutdown, vars, Asked, Answered
  <2>. QED
    BY <1>9, <1>a, <2>1, EmptySeq DEF ServerNotify, ServerCrash, Shutdown, vars,
                                      callerVars, serverVars
<1>10. CASE Eof
  <2>1. Asked' = Asked /\ Answered' = Answered
    BY <1>10 DEF Eof, Asked, Answered, serverVars
  <2>2. stdout' = stdout \/ (stdout # <<>> /\ stdout' = Tail(stdout))
    BY <1>10 DEF Eof
  <2>3. stdout' \in Seq(Answered)
    BY <2>2, HeadTailProperties
  <2>. QED
    BY <1>10, <2>1, <2>3 DEF Eof, callerVars, serverVars
<1>. QED
  BY <1>1, <1>2, <1>3, <1>4, <1>5, <1>6, <1>7, <1>8, <1>9,
     <1>10 DEF Next, ReaderStep, ServerStep

-----------------------------------------------------------------------------
(***************************************************************************)
(* The theorems.                                                           *)
(***************************************************************************)

\* The invariant is inductive: it holds in every reachable state.
THEOREM Invariance == Spec => []IInv
<1>1. Init => IInv
  BY InitIInv
<1>2. IInv /\ [Next]_vars => IInv'
  BY TypeStep, NumberingStep, TrafficStep, ChannelsStep, WriterOwnsStep, EntriesStep,
     ProvenanceStep
     DEF IInv
<1>. QED
  BY <1>1, <1>2, PTL DEF Spec

\* The client's state keeps its shape.
THEOREM TypeCorrect == Spec => []TypeOK
BY Invariance, PTL DEF IInv

\* request() never hands a caller the answer to another request: not one that
\* arrives after its own request timed out, nor one of a sibling task.
THEOREM NoCrossTalkHolds == Spec => []NoCrossTalk
<1>1. IInv => NoCrossTalk
  BY DEF IInv, Channels, NoCrossTalk
<1>. QED
  BY <1>1, Invariance, PTL

\* Every step of the client is a step of the service, or none of it.
LEMMA ServiceStep == IInv /\ [Next]_vars => [Service!Next]_(Service!rpcVars)
<1> DEFINE Busy == {c \in Callers : pc[c] # "idle"}
<1> SUFFICES ASSUME IInv, [Next]_vars PROVE [Service!Next]_(Service!rpcVars)
  OBVIOUS
<1> USE DEF IInv, TypeOK, Service!rpcVars
<1>1. ASSUME NEW c \in Callers, Request(c) PROVE Service!Call(c)
  <2>1. Busy' = Busy \cup {c} /\ c \notin Busy
    BY <1>1 DEF Request
  <2>. QED
    BY <1>1, <2>1 DEF Request, Service!Call
<1>2. ASSUME NEW c \in Callers, WriteFails(c) \/ Expire(c) PROVE Service!Return(c)
  <2>1. Busy' = Busy \ {c} /\ c \in Busy
    BY <1>2 DEF WriteFails, Expire
  <2>. QED
    BY <1>2, <2>1 DEF WriteFails, Expire, Closed, Service!Return, Service!Error
<1>3. ASSUME NEW c \in Callers, Receive(c) PROVE Service!Return(c)
  <2>1. Busy' = Busy \ {c} /\ c \in Busy
    BY <1>3 DEF Receive
  <2>2. rx[c] \in {Service!Error} \cup ({mine[c]} \cap served)
    BY <1>3 DEF Receive, Channels, Provenance, Closed, Service!Error
  <2>. QED
    BY <1>3, <2>1, <2>2 DEF Receive, Service!Return
<1>4. ASSUME NEW c \in Callers, Cancel(c) PROVE Service!GiveUp(c)
  <2>1. Busy' = Busy \ {c} /\ c \in Busy
    BY <1>4 DEF Cancel
  <2>. QED
    BY <1>4, <2>1 DEF Cancel, Service!GiveUp
<1>5. ASSUME NEW c \in Callers, Insert(c) \/ Write(c) \/ Timeout(c)
      PROVE  UNCHANGED Service!rpcVars
  <2>1. Busy' = Busy
    BY <1>5 DEF Insert, Write, Timeout
  <2>. QED
    BY <1>5, <2>1 DEF Insert, Write, Timeout
<1>6. CASE ServerRead
  <2>1. Head(stdin) # NoMsg => Head(stdin).n \in 1..serial
    BY <1>6, HeadTailProperties DEF ServerRead, Provenance, Asked
  <2>2. UNCHANGED Service!rpcVars \/ Service!Serve
    BY <1>6, <2>1 DEF ServerRead, callerVars, Service!Serve
  <2>. QED
    BY <2>2 DEF Service!Next
<1>7. CASE \/ ReaderStep \/ ServerNotify \/ ServerWrite \/ ServerCrash \/ Shutdown
           \/ UNCHANGED vars
  BY <1>7 DEF ReaderStep, ReadLine, Route, Eof, Drain, ServerNotify, ServerWrite,
              ServerCrash, Shutdown, vars, callerVars
<1>. QED
  BY <1>1, <1>2, <1>3, <1>4, <1>5, <1>6, <1>7 DEF Next, CallerStep, ServerStep, Service!Next

\* The stdio client implements the request/response service of Rpc: what a
\* caller of request() sees over any interleaving of tasks, timers, crashes
\* and cancellations is one answer to its own request, an error, or nothing.
THEOREM Refinement == Spec => ImplementsRpc
<1>1. Init => Service!Init
  BY DEF Init, Service!Init
<1>. QED
  BY <1>1, ServiceStep, Invariance, PTL DEF Spec, ImplementsRpc, Service!Spec

\* A task waiting in request() with an empty channel has its sender in the
\* map, however the reader, the timers and shutdown are interleaved.
THEOREM WaiterIsPendingHolds == Spec => []WaiterIsPending
<1>1. IInv => WaiterIsPending
  BY DEF IInv, Entries, Entry, WaiterIsPending
<1>. QED
  BY <1>1, Invariance, PTL

\* The pending map holds no entry of a finished request, but for requests
\* whose write failed or whose caller was dropped.
THEOREM NoStaleEntryHolds == Spec => []NoStaleEntry
<1>1. IInv => NoStaleEntry
  BY DEF IInv, Entries
<1>. QED
  BY <1>1, Invariance, PTL
=============================================================================
