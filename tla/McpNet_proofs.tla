---------------------------- MODULE McpNet_proofs ----------------------------
(***************************************************************************)
(* Proofs about McpNet, for any set of callers, buffer sizes and bounds:   *)
(* type correctness, the two invariants TLC checks on two callers, and     *)
(* that both network clients implement the service of Rpc.                 *)
(***************************************************************************)
EXTENDS McpNet, SequenceTheorems, TLAPS

-----------------------------------------------------------------------------
(***************************************************************************)
(* The inductive invariant.                                                *)
(***************************************************************************)
Made == 1..(next_id - 1)

\* Ids number the requests, so no two callers ever share one.
Numbering ==
    /\ next_id >= 1
    /\ \A c \in Callers : id[c] < next_id
    /\ \A c \in Callers : pc[c] # "idle" => id[c] # 0
    /\ \A c, d \in Callers : (c # d /\ id[c] = id[d]) => id[c] = 0
    /\ \A p \in pending : p.id \in Made

\* What goes to the server was asked; what comes back was answered, and a
\* channel holds nothing but the answer to its own request or an error.
Provenance ==
    /\ up \in Seq(Made)
    /\ served \subseteq Made
    /\ down \in Seq({Note} \cup served)
    /\ \A c \in Callers : rx[c] \in {0, Closed} \cup ({id[c]} \cap served)

\* While the reader reads, it can reach whoever still waits for something.
Reachable ==
    reader = "reading" =>
        \A c \in Callers :
            (pc[c] # "idle" /\ rx[c] = 0) => [id |-> id[c], caller |-> c] \in pending

\* Who got something has no entry any more: a channel is used once.
Taken ==
    \A c \in Callers : (pc[c] # "idle" /\ rx[c] # 0) => \A p \in pending : p.id # id[c]

DrainInv == drained_at < next_id /\ DrainReachesAll

IInv ==
    /\ TypeOK /\ Numbering /\ Provenance /\ Reachable /\ Taken
    /\ DrainInv /\ NoStaleEntry

-----------------------------------------------------------------------------
(***************************************************************************)
(* Sequences.                                                              *)
(***************************************************************************)

\* A sequence with an element taken out is over the same set.
LEMMA RemoveInSeq ==
    ASSUME NEW S, NEW q \in Seq(S), NEW i \in DOMAIN q
    PROVE  RemoveAt(q, i) \in Seq(S)
<1>1. SubSeq(q, 1, i - 1) \in Seq(S) /\ SubSeq(q, i + 1, Len(q)) \in Seq(S)
  BY SubSeqProperties
<1>. QED
  BY <1>1, ConcatProperties DEF RemoveAt

\* What is left of a sequence, with its first element taken or not.
LEMMA RestInSeq ==
    ASSUME NEW S, NEW q \in Seq(S), NEW r, r = q \/ (q # <<>> /\ r = Tail(q))
    PROVE  r \in Seq(S)
<1>1. q # <<>> => Tail(q) \in Seq(S)
  BY HeadTailProperties
<1>. QED
  BY <1>1

\* A sequence over a set is one over every larger set.
LEMMA WiderSeq ==
    ASSUME NEW S, NEW T, S \subseteq T, NEW s \in Seq(S)
    PROVE  s \in Seq(T)
<1>1. Len(s) \in Nat /\ s \in [1..Len(s) -> S]
  BY LenProperties
<1>2. s \in [1..Len(s) -> T]
  BY <1>1
<1>. QED
  BY <1>1, <1>2, SeqDef

-----------------------------------------------------------------------------
(***************************************************************************)
(* Every step keeps every part of the invariant.                           *)
(***************************************************************************)

\* The initial state satisfies the inductive invariant.
LEMMA InitIInv == Init => IInv
<1> SUFFICES ASSUME Init PROVE IInv
  OBVIOUS
<1>1. TypeOK
  BY NetAssumption DEF Init, TypeOK, Closed
<1>2. Numbering /\ Reachable /\ Taken /\ DrainInv /\ NoStaleEntry
  BY DEF Init, Numbering, Reachable, Taken, DrainInv, DrainReachesAll, NoStaleEntry
<1>3. Provenance
  BY EmptySeq DEF Init, Provenance, Closed
<1>. QED
  BY <1>1, <1>2, <1>3 DEF IInv

\* Every step keeps the shapes of the state.
LEMMA TypeStep == TypeOK /\ Numbering /\ [Next]_vars => TypeOK'
<1> SUFFICES ASSUME TypeOK, Numbering, [Next]_vars PROVE TypeOK'
  OBVIOUS
<1> USE NetAssumption DEF TypeOK
<1>a. \A c \in Callers : Owns(c) /\ Unlock => writer' \in Seq(Callers)
  BY HeadTailProperties DEF Unlock, Owns
<1>b. \A c \in Callers : Leave(c) => writer' \in Seq(Callers)
  BY RemoveInSeq DEF Leave
<1>c. \A c \in Callers : Append(up, id[c]) \in Seq(Nat)
  BY AppendProperties
<1>1. CASE Endpoint \/ SpawnDeadline \/ Shutdown \/ UNCHANGED vars
  BY <1>1 DEF Endpoint, SpawnDeadline, Shutdown, callerVars, ghostVars, vars
<1>2. ASSUME NEW c \in Callers, Request(c) PROVE TypeOK'
  <2>1. Append(writer, c) \in Seq(Callers)
    BY AppendProperties
  <2>2. writer' = Append(writer, c) \/ writer' = writer
    BY <1>2 DEF Request
  <2>3. pending' \subseteq [id : Nat, caller : Callers]
    BY <1>2 DEF Request
  <2>4. pc' \in [Callers -> {"idle", "sending", "posting", "posted", "waiting"}]
    BY <1>2 DEF Request
  <2>5. /\ id' \in [Callers -> Nat] /\ next_id' \in Nat
        /\ rx' \in [Callers -> Nat \cup {Closed}] /\ reply' \in [Callers -> Nat \cup {Closed}]
    BY <1>2 DEF Request, channel
  <2>6. UNCHANGED <<transport, phase, link, up, down, reader, notes, failed, served, drained_at>>
    BY <1>2 DEF Request, ghostVars
  <2>. QED
    BY <2>1, <2>2, <2>3, <2>4, <2>5, <2>6
<1>3. ASSUME NEW c \in Callers, Send(c) PROVE TypeOK'
  <2>1. writer' \in Seq(Callers) /\ up' \in Seq(Nat)
    BY <1>3, <1>a, <1>c DEF Send
  <2>. QED
    BY <1>3, <2>1 DEF Send, ghostVars
<1>4. ASSUME NEW c \in Callers, SendFails(c) PROVE TypeOK'
  <2>1. writer' \in Seq(Callers)
    BY <1>4, <1>a DEF SendFails
  <2>. QED
    BY <1>4, <2>1 DEF SendFails, Ends
<1>5. ASSUME NEW c \in Callers, Post(c) PROVE TypeOK'
  BY <1>5, <1>c DEF Post, ghostVars
<1>6. ASSUME NEW c \in Callers, PostReturns(c) PROVE TypeOK'
  BY <1>6 DEF PostReturns, ghostVars
<1>7. ASSUME NEW c \in Callers, PostFails(c) PROVE TypeOK'
  BY <1>7 DEF PostFails, Ends
<1>8. ASSUME NEW c \in Callers, Receive(c) PROVE TypeOK'
  BY <1>8 DEF Receive, Ends, ghostVars
<1>9. ASSUME NEW c \in Callers, Timeout(c) PROVE TypeOK'
  BY <1>9 DEF Timeout, Ends, remove, ghostVars
<1>10. ASSUME NEW c \in Callers, Cancel(c) PROVE TypeOK'
  <2>1. writer' \in Seq(Callers) /\ up' \in Seq(Nat)
    BY <1>10, <1>b, <1>c DEF Cancel
  <2>. QED
    BY <1>10, <2>1 DEF Cancel
<1>11. CASE ReadMessage
  <2>1. down' \in Seq(Nat) /\ Head(down) \in Nat
    BY <1>11, HeadTailProperties DEF ReadMessage
  <2>2. rx' \in [Callers -> Nat \cup {Closed}]
    BY <1>11, <2>1 DEF ReadMessage, Deliver
  <2>3. pending' \subseteq pending
    BY <1>11 DEF ReadMessage, remove
  <2>. QED
    BY <1>11, <2>1, <2>2, <2>3 DEF ReadMessage, ghostVars
<1>12. CASE Eof
  <2>1. rx' \in [Callers -> Nat \cup {Closed}] /\ pending' = {}
    BY <1>12 DEF Eof, drain, Deliver
  <2>2. down' \in Seq(Nat)
    <3>1. down' = down \/ (down # <<>> /\ down' = Tail(down))
      BY <1>12 DEF Eof
    <3>. QED
      BY <3>1, RestInSeq
  <2>3. drained_at' \in Nat
    BY <1>12 DEF Eof, Numbering
  <2>. QED
    BY <1>12, <2>1, <2>2, <2>3 DEF Eof
<1>13. ASSUME NEW answers \in BOOLEAN, ServerTakes(answers) PROVE TypeOK'
  <2>1. PICK k \in DOMAIN up :
          /\ up' = RemoveAt(up, k)
          /\ IF answers
             THEN /\ down' = IF link = "up" THEN Append(down, up[k]) ELSE down
                  /\ served' = served \cup {up[k]}
             ELSE UNCHANGED <<down, served>>
    BY <1>13 DEF ServerTakes
  <2>2. up[k] \in Nat
    BY <2>1, ElementOfSeq
  <2>3. up' \in Seq(Nat) /\ down' \in Seq(Nat) /\ served' \subseteq Nat
    <3>1. RemoveAt(up, k) \in Seq(Nat) /\ Append(down, up[k]) \in Seq(Nat)
      BY <2>1, <2>2, RemoveInSeq, AppendProperties
    <3>2. down' = down \/ down' = Append(down, up[k])
      BY <2>1
    <3>3. served' = served \/ served' = served \cup {up[k]}
      BY <2>1
    <3>. QED
      BY <2>1, <2>2, <3>1, <3>2, <3>3
  <2>. QED
    BY <1>13, <2>3 DEF ServerTakes, callerVars
<1>14. CASE ServerNotifies
  <2>1. down' \in Seq(Nat)
    BY <1>14, AppendProperties DEF ServerNotifies, Note
  <2>. QED
    BY <1>14, <2>1 DEF ServerNotifies, callerVars, ghostVars
<1>15. CASE LinkFails
  <2>1. up' \in Seq(Nat)
    BY <1>15, EmptySeq DEF LinkFails
  <2>. QED
    BY <1>15, <2>1 DEF LinkFails, callerVars, ghostVars
<1>. QED
  BY <1>1, <1>2, <1>3, <1>4, <1>5, <1>6, <1>7, <1>8, <1>9, <1>10, <1>11, <1>12, <1>13,
     <1>14, <1>15
     DEF Next, CallerStep, ReaderStep, ServerAnswers, ServerIgnores

\* The request counter and the ids stay in step.
LEMMA NumberingStep == TypeOK /\ Numbering /\ [Next]_vars => Numbering'
<1> SUFFICES ASSUME TypeOK, Numbering, [Next]_vars PROVE Numbering'
  OBVIOUS
<1> USE DEF TypeOK, Numbering, Made
<1>1. ASSUME NEW c \in Callers, Request(c) PROVE Numbering'
  <2>1. /\ next_id' = next_id + 1 /\ next_id >= 1 /\ next_id \in Nat
        /\ id' = [id EXCEPT ![c] = next_id]
        /\ pending' = pending \cup {[id |-> next_id, caller |-> c]}
        /\ \A d \in Callers : d # c => pc'[d] = pc[d]
    BY <1>1 DEF Request
  <2>2. \A p \in pending' : p.id \in 1..(next_id' - 1)
    BY <2>1
  <2>. QED
    BY <2>1, <2>2
<1>2. ASSUME NEW c \in Callers, CallerStep(c) \/ Cancel(c) PROVE Numbering'
  <2>1. /\ UNCHANGED <<next_id, id>> /\ pending' \subseteq pending
        /\ \A d \in Callers : pc'[d] # "idle" => pc[d] # "idle"
    BY <1>2 DEF CallerStep, Send, SendFails, Post, PostReturns, PostFails, Receive, Timeout,
                Cancel, Ends, remove
  <2>. QED
    BY <2>1
<1>3. CASE \/ Endpoint \/ SpawnDeadline \/ ReaderStep \/ Shutdown
           \/ ServerAnswers \/ ServerIgnores \/ ServerNotifies \/ LinkFails
           \/ UNCHANGED vars
  <2>1. UNCHANGED <<next_id, id, pc>> /\ pending' \subseteq pending
    BY <1>3 DEF Endpoint, SpawnDeadline, ReaderStep, ReadMessage, Eof, remove, drain, Shutdown,
                ServerAnswers, ServerIgnores, ServerTakes, ServerNotifies, LinkFails,
                callerVars, vars
  <2>. QED
    BY <2>1
<1>. QED
  BY <1>1, <1>2, <1>3 DEF Next

\* The buffers hold requests that were made and answers that were given.
LEMMA ProvenanceStep == TypeOK /\ Numbering /\ Provenance /\ [Next]_vars => Provenance'
<1> SUFFICES ASSUME TypeOK, Numbering, Provenance, [Next]_vars PROVE Provenance'
  OBVIOUS
<1> USE DEF TypeOK, Provenance
<1>a. \A c \in Callers : pc[c] # "idle" => Append(up, id[c]) \in Seq(Made)
  <2>1. \A c \in Callers : pc[c] # "idle" => id[c] \in Made
    BY DEF Numbering, Made
  <2>. QED
    BY <2>1, AppendProperties
<1>1. ASSUME NEW c \in Callers, Request(c) PROVE Provenance'
  <2>1. Made \subseteq Made' /\ UNCHANGED <<up, down, served>>
    BY <1>1 DEF Request, Made, ghostVars
  <2>2. up' \in Seq(Made')
    BY <2>1, WiderSeq
  <2>3. \A d \in Callers : rx'[d] = 0 \/ (rx'[d] = rx[d] /\ id'[d] = id[d])
    BY <1>1 DEF Request, channel
  <2>. QED
    BY <2>1, <2>2, <2>3
<1>2. ASSUME NEW c \in Callers, CallerStep(c) \/ Cancel(c) PROVE Provenance'
  <2>1. UNCHANGED <<next_id, down, served, rx, id>>
    BY <1>2 DEF CallerStep, Send, SendFails, Post, PostReturns, PostFails, Receive, Timeout,
                Cancel, ghostVars
  <2>2. up' = up \/ (up' = Append(up, id[c]) /\ pc[c] # "idle")
    BY <1>2 DEF CallerStep, Send, SendFails, Post, PostReturns, PostFails, Receive, Timeout,
                Cancel
  <2>3. up' \in Seq(Made) /\ Made' = Made
    BY <1>a, <2>1, <2>2 DEF Made
  <2>. QED
    BY <2>1, <2>3
<1>3. CASE ReadMessage
  <2>1. UNCHANGED <<next_id, up, served, id>> /\ Made' = Made
    BY <1>3 DEF ReadMessage, ghostVars, Made
  <2>2. down' \in Seq({Note} \cup served) /\ Head(down) \in {Note} \cup served
    BY <1>3, HeadTailProperties DEF ReadMessage
  <2>3. ASSUME NEW d \in Callers
        PROVE  rx'[d] = rx[d] \/ (rx'[d] = Head(down) /\ Head(down) # Note /\ id[d] = Head(down))
    BY <1>3 DEF ReadMessage, Deliver
  <2>. QED
    BY <2>1, <2>2, <2>3
<1>4. CASE Eof
  <2>1. UNCHANGED <<next_id, up, served, id>> /\ Made' = Made
    BY <1>4 DEF Eof, Made
  <2>2. \A d \in Callers : rx'[d] = rx[d] \/ rx'[d] = Closed
    BY <1>4 DEF Eof, drain, Deliver
  <2>3. down' \in Seq({Note} \cup served)
    <3>1. down' = down \/ (down # <<>> /\ down' = Tail(down))
      BY <1>4 DEF Eof
    <3>. QED
      BY <3>1, RestInSeq
  <2>. QED
    BY <2>1, <2>2, <2>3
<1>5. ASSUME NEW answers \in BOOLEAN, ServerTakes(answers) PROVE Provenance'
  <2>1. PICK k \in DOMAIN up :
          /\ up' = RemoveAt(up, k)
          /\ IF answers
             THEN /\ down' = IF link = "up" THEN Append(down, up[k]) ELSE down
                  /\ served' = served \cup {up[k]}
             ELSE UNCHANGED <<down, served>>
    BY <1>5 DEF ServerTakes
  <2>2. up[k] \in Made
    BY <2>1, ElementOfSeq
  <2>3. up' \in Seq(Made) /\ served' \subseteq Made /\ served \subseteq served'
    BY <2>1, <2>2, RemoveInSeq
  <2>4. down' \in Seq({Note} \cup served')
    <3>1. down \in Seq({Note} \cup served')
      BY <2>3, WiderSeq
    <3>2. CASE answers
      <4>1. up[k] \in {Note} \cup served'
        BY <2>1, <3>2
      <4>2. Append(down, up[k]) \in Seq({Note} \cup served')
        BY <3>1, <4>1, AppendProperties
      <4>. QED
        BY <2>1, <3>1, <3>2, <4>2
    <3>3. CASE ~answers
      BY <2>1, <3>1, <3>3
    <3>. QED
      BY <3>2, <3>3
  <2>5. UNCHANGED <<next_id, rx, id>> /\ Made' = Made
    BY <1>5 DEF ServerTakes, callerVars, Made
  <2>. QED
    BY <2>3, <2>4, <2>5
<1>6. CASE ServerNotifies
  <2>1. UNCHANGED <<next_id, up, served, rx, id>> /\ Made' = Made
    BY <1>6 DEF ServerNotifies, callerVars, ghostVars, Made
  <2>2. down' \in Seq({Note} \cup served)
    BY <1>6, AppendProperties DEF ServerNotifies
  <2>. QED
    BY <2>1, <2>2
<1>7. CASE LinkFails
  <2>1. UNCHANGED <<next_id, down, served, rx, id>> /\ Made' = Made
    BY <1>7 DEF LinkFails, callerVars, ghostVars, Made
  <2>2. up' \in Seq(Made)
    BY <1>7, EmptySeq DEF LinkFails
  <2>. QED
    BY <2>1, <2>2
<1>8. CASE Endpoint \/ SpawnDeadline \/ Shutdown \/ UNCHANGED vars
  <2>1. UNCHANGED <<next_id, up, down, served, rx, id>> /\ Made' = Made
    BY <1>8 DEF Endpoint, SpawnDeadline, Shutdown, callerVars, ghostVars, vars, Made
  <2>. QED
    BY <2>1
<1>. QED
  BY <1>1, <1>2, <1>3, <1>4, <1>5, <1>6, <1>7, <1>8
     DEF Next, ReaderStep, ServerAnswers, ServerIgnores

\* Until the reader ends, an empty channel has its sender in the map: an entry
\* is taken out with a value for its own caller, or by that caller.
LEMMA ReachableStep ==
    TypeOK /\ Numbering /\ Reachable /\ [Next]_vars => Reachable'
<1> SUFFICES ASSUME TypeOK, Numbering, Reachable, [Next]_vars,
                    reader' = "reading", NEW d \in Callers, pc'[d] # "idle", rx'[d] = 0
             PROVE  [id |-> id'[d], caller |-> d] \in pending'
  BY DEF Reachable
<1> DEFINE e == [id |-> id[d], caller |-> d]
<1>a. reader = "reading" /\ pc[d] # "idle" /\ rx[d] = 0 => e \in pending
  BY DEF Reachable
<1> USE DEF TypeOK
<1>1. ASSUME NEW c \in Callers, Request(c) PROVE [id |-> id'[d], caller |-> d] \in pending'
  <2>1. CASE d = c
    BY <1>1, <2>1 DEF Request
  <2>2. CASE d # c
    BY <1>1, <1>a, <2>2 DEF Request, channel
  <2>. QED
    BY <2>1, <2>2
<1>2. ASSUME NEW c \in Callers, CallerStep(c) \/ Cancel(c)
      PROVE  [id |-> id'[d], caller |-> d] \in pending'
  <2>1. UNCHANGED <<reader, rx, id>> /\ pc[d] # "idle" /\ (pc'[d] # "idle")
    BY <1>2 DEF CallerStep, Send, SendFails, Post, PostReturns, PostFails, Receive, Timeout,
                Cancel, Ends, ghostVars
  <2>2. CASE Timeout(c)
    <3>1. d # c
      BY <2>1, <2>2 DEF Timeout, Ends
    <3>2. id[d] # id[c]
      BY <2>1, <3>1 DEF Numbering
    <3>3. e \in pending /\ e.id = id[d]
      BY <1>a, <2>1
    <3>. QED
      BY <2>1, <2>2, <3>2, <3>3 DEF Timeout, remove
  <2>3. CASE ~Timeout(c)
    <3>1. UNCHANGED pending
      BY <1>2, <2>3 DEF CallerStep, Send, SendFails, Post, PostReturns, PostFails, Receive,
                        Cancel
    <3>. QED
      BY <1>a, <2>1, <3>1
  <2>. QED
    BY <2>2, <2>3
<1>3. CASE ReadMessage
  <2>1. UNCHANGED <<pc, id, reader>>
    BY <1>3 DEF ReadMessage
  <2>2. CASE Head(down) = Note
    BY <1>3, <1>a, <2>1, <2>2 DEF ReadMessage
  <2>3. CASE Head(down) # Note
    <3>1. rx'[d] = IF pc[d] # "idle" /\ e \in {p \in pending : p.id = Head(down)}
                   THEN Head(down) ELSE rx[d]
      BY <1>3, <2>3 DEF ReadMessage, Deliver
    <3>2. e \notin {p \in pending : p.id = Head(down)} /\ rx[d] = 0
      BY <2>1, <2>3, <3>1 DEF Note
    <3>3. e \in pending /\ e.id # Head(down)
      BY <1>a, <2>1, <3>2
    <3>. QED
      BY <1>3, <2>1, <2>3, <3>3 DEF ReadMessage, remove
  <2>. QED
    BY <2>2, <2>3
<1>4. CASE Eof
  BY <1>4 DEF Eof
<1>5. CASE \/ Endpoint \/ SpawnDeadline \/ Shutdown \/ ServerAnswers \/ ServerIgnores
           \/ ServerNotifies \/ LinkFails \/ UNCHANGED vars
  <2>1. UNCHANGED <<pc, rx, id, pending>> /\ (reader' = "reading" => reader = "reading")
    BY <1>5 DEF Endpoint, SpawnDeadline, Shutdown, ServerAnswers, ServerIgnores, ServerTakes,
                ServerNotifies, LinkFails, callerVars, vars
  <2>. QED
    BY <1>a, <2>1
<1>. QED
  BY <1>1, <1>2, <1>3, <1>4, <1>5 DEF Next, ReaderStep

\* The drain leaves no channel empty, and whoever comes later has a later id.
LEMMA DrainStep ==
    TypeOK /\ Numbering /\ Reachable /\ DrainInv /\ [Next]_vars => DrainInv'
<1> SUFFICES ASSUME TypeOK, Numbering, Reachable, DrainInv, [Next]_vars PROVE DrainInv'
  OBVIOUS
<1> USE DEF TypeOK, DrainInv, DrainReachesAll
<1>1. ASSUME NEW c \in Callers, Request(c) PROVE DrainInv'
  <2>1. /\ next_id' = next_id + 1 /\ UNCHANGED <<reader, drained_at>>
        /\ id' = [id EXCEPT ![c] = next_id]
        /\ \A d \in Callers : d # c => pc'[d] = pc[d] /\ rx'[d] = rx[d]
    BY <1>1 DEF Request, channel, ghostVars
  <2>. QED
    BY <2>1
<1>2. ASSUME NEW c \in Callers, CallerStep(c) \/ Cancel(c) PROVE DrainInv'
  <2>1. /\ UNCHANGED <<reader, rx, id, next_id, drained_at>>
        /\ \A d \in Callers : pc'[d] # "idle" => pc[d] # "idle"
    BY <1>2 DEF CallerStep, Send, SendFails, Post, PostReturns, PostFails, Receive, Timeout,
                Cancel, Ends, ghostVars
  <2>. QED
    BY <2>1
<1>3. CASE Eof
  <2>1. \A d \in Callers : rx'[d] = IF pc[d] # "idle" /\ [id |-> id[d], caller |-> d] \in pending
                                    THEN Closed ELSE rx[d]
    BY <1>3 DEF Eof, drain, Deliver
  <2>2. ASSUME NEW d \in Callers, pc[d] # "idle" PROVE rx'[d] # 0
    <3>1. rx[d] = 0 => [id |-> id[d], caller |-> d] \in pending
      BY <1>3, <2>2 DEF Eof, Reachable
    <3>. QED
      BY <2>1, <2>2, <3>1 DEF Closed
  <2>3. UNCHANGED <<pc, id, next_id>> /\ drained_at' = next_id - 1
    BY <1>3 DEF Eof
  <2>. QED
    BY <2>2, <2>3
<1>4. CASE ReadMessage
  BY <1>4 DEF ReadMessage, ghostVars
<1>5. CASE \/ Endpoint \/ SpawnDeadline \/ Shutdown \/ ServerAnswers \/ ServerIgnores
           \/ ServerNotifies \/ LinkFails \/ UNCHANGED vars
  <2>1. /\ UNCHANGED <<pc, rx, id, next_id, drained_at>>
        /\ (reader' = "drained" => reader = "drained")
    BY <1>5 DEF Endpoint, SpawnDeadline, Shutdown, ServerAnswers, ServerIgnores, ServerTakes,
                ServerNotifies, LinkFails, callerVars, ghostVars, vars
  <2>. QED
    BY <2>1
<1>. QED
  BY <1>1, <1>2, <1>3, <1>4, <1>5 DEF Next, ReaderStep

\* The answer and the drain take out the entries of the channels they fill.
LEMMA TakenStep == TypeOK /\ Numbering /\ Taken /\ [Next]_vars => Taken'
<1> SUFFICES ASSUME TypeOK, Numbering, Taken, [Next]_vars,
                    NEW d \in Callers, pc'[d] # "idle", rx'[d] # 0, NEW p \in pending'
             PROVE  p.id # id'[d]
  BY DEF Taken
<1> USE DEF TypeOK
<1>1. ASSUME NEW c \in Callers, Request(c) PROVE p.id # id'[d]
  <2>1. d # c /\ id'[d] = id[d] /\ pc[d] # "idle" /\ rx[d] # 0
    BY <1>1 DEF Request, channel
  <2>2. p \in pending \/ p.id = next_id
    BY <1>1 DEF Request
  <2>. QED
    BY <2>1, <2>2 DEF Taken, Numbering
<1>2. ASSUME NEW c \in Callers, CallerStep(c) \/ Cancel(c) PROVE p.id # id'[d]
  <2>1. UNCHANGED <<rx, id>> /\ pc[d] # "idle" /\ p \in pending
    BY <1>2 DEF CallerStep, Send, SendFails, Post, PostReturns, PostFails, Receive, Timeout,
                Cancel, Ends, remove
  <2>. QED
    BY <2>1 DEF Taken
<1>3. CASE ReadMessage
  <2>1. UNCHANGED <<pc, id>> /\ p \in pending
    BY <1>3 DEF ReadMessage, remove
  <2>2. rx'[d] = rx[d] \/ (id[d] = Head(down) /\ p.id # Head(down))
    BY <1>3 DEF ReadMessage, Deliver, remove
  <2>. QED
    BY <2>1, <2>2 DEF Taken
<1>4. CASE Eof
  BY <1>4 DEF Eof, drain
<1>5. CASE \/ Endpoint \/ SpawnDeadline \/ Shutdown \/ ServerAnswers \/ ServerIgnores
           \/ ServerNotifies \/ LinkFails \/ UNCHANGED vars
  <2>1. UNCHANGED <<pc, rx, id, pending>>
    BY <1>5 DEF Endpoint, SpawnDeadline, Shutdown, ServerAnswers, ServerIgnores, ServerTakes,
                ServerNotifies, LinkFails, callerVars, vars
  <2>. QED
    BY <2>1 DEF Taken
<1>. QED
  BY <1>1, <1>2, <1>3, <1>4, <1>5 DEF Next, ReaderStep

\* An entry outlives its request only when the send failed or the caller was
\* dropped.
LEMMA StaleStep == TypeOK /\ Taken /\ NoStaleEntry /\ [Next]_vars => NoStaleEntry'
<1> SUFFICES ASSUME TypeOK, Taken, NoStaleEntry, [Next]_vars PROVE NoStaleEntry'
  OBVIOUS
<1> USE DEF TypeOK, NoStaleEntry
<1>1. ASSUME NEW c \in Callers, Request(c) PROVE NoStaleEntry'
  <2>1. /\ UNCHANGED failed /\ pc[c] = "idle" /\ pc'[c] # "idle" /\ id'[c] = next_id
        /\ \A d \in Callers : d # c => pc'[d] = pc[d] /\ id'[d] = id[d]
        /\ pending' = pending \cup {[id |-> next_id, caller |-> c]}
    BY <1>1 DEF Request, ghostVars
  <2>. QED
    BY <2>1
<1>2. ASSUME NEW c \in Callers, Send(c) \/ Post(c) \/ PostReturns(c) PROVE NoStaleEntry'
  <2>1. /\ UNCHANGED <<failed, pending, id>> /\ pc'[c] # "idle"
        /\ \A d \in Callers : d # c => pc'[d] = pc[d]
    BY <1>2 DEF Send, Post, PostReturns, ghostVars
  <2>. QED
    BY <2>1
<1>3. ASSUME NEW c \in Callers, SendFails(c) \/ PostFails(c) \/ Cancel(c) PROVE NoStaleEntry'
  <2>1. /\ UNCHANGED <<pending, id>> /\ failed' = failed \cup {id[c]}
        /\ \A d \in Callers : d # c => pc'[d] = pc[d]
    BY <1>3 DEF SendFails, PostFails, Cancel, Ends
  <2>. QED
    BY <2>1
<1>4. ASSUME NEW c \in Callers, Timeout(c) PROVE NoStaleEntry'
  <2>1. /\ UNCHANGED <<failed, id>> /\ pending' = {p \in pending : p.id # id[c]}
        /\ \A d \in Callers : d # c => pc'[d] = pc[d]
    BY <1>4 DEF Timeout, Ends, remove, ghostVars
  <2>. QED
    BY <2>1
<1>5. ASSUME NEW c \in Callers, Receive(c) PROVE NoStaleEntry'
  <2>1. /\ UNCHANGED <<failed, pending, id>> /\ \A p \in pending : p.id # id[c]
        /\ \A d \in Callers : d # c => pc'[d] = pc[d]
    BY <1>5 DEF Receive, Ends, ghostVars, Taken
  <2>. QED
    BY <2>1
<1>6. CASE \/ Endpoint \/ SpawnDeadline \/ ReaderStep \/ Shutdown
           \/ ServerAnswers \/ ServerIgnores \/ ServerNotifies \/ LinkFails
           \/ UNCHANGED vars
  <2>1. UNCHANGED <<failed, id, pc>> /\ pending' \subseteq pending
    BY <1>6 DEF Endpoint, SpawnDeadline, ReaderStep, ReadMessage, Eof, remove, drain, Shutdown,
                ServerAnswers, ServerIgnores, ServerTakes, ServerNotifies, LinkFails,
                callerVars, ghostVars, vars
  <2>. QED
    BY <2>1
<1>. QED
  BY <1>1, <1>2, <1>3, <1>4, <1>5, <1>6 DEF Next, CallerStep

-----------------------------------------------------------------------------
(***************************************************************************)
(* The theorems.                                                           *)
(***************************************************************************)

\* The invariant is inductive: it holds in every reachable state.
THEOREM Invariance == Spec => []IInv
<1>1. Init => IInv
  BY InitIInv
<1>2. IInv /\ [Next]_vars => IInv'
  BY TypeStep, NumberingStep, ProvenanceStep, ReachableStep, TakenStep, DrainStep, StaleStep
     DEF IInv
<1>. QED
  BY <1>1, <1>2, PTL DEF Spec

\* The state of the network clients keeps its shape.
THEOREM TypeCorrect == Spec => []TypeOK
BY Invariance, PTL DEF IInv

\* The pending map holds no entry of a finished request, but for requests
\* whose send or POST failed or whose caller was dropped.
THEOREM NoStaleEntryHolds == Spec => []NoStaleEntry
BY Invariance, PTL DEF IInv

\* When the stream ends, the drain reaches every caller that waits: a request
\* with nothing in its channel was made after the drain.
THEOREM DrainReachesAllHolds == Spec => []DrainReachesAll
<1>1. IInv => DrainReachesAll
  BY DEF IInv, DrainInv
<1>. QED
  BY <1>1, Invariance, PTL

\* Every step of the client is a step of the service, or none of it.
LEMMA ServiceStep == IInv /\ [Next]_vars => [Service!Next]_(Service!rpcVars)
<1> DEFINE Busy == {c \in Callers : pc[c] # "idle"}
<1> SUFFICES ASSUME IInv, [Next]_vars PROVE [Service!Next]_(Service!rpcVars)
  OBVIOUS
<1> USE DEF IInv, TypeOK, Service!rpcVars
<1>1. ASSUME NEW c \in Callers, Request(c) PROVE Service!Call(c)
  <2>1. Busy' = Busy \cup {c} /\ c \notin Busy
    BY <1>1 DEF Request
  <2>2. next_id' - 1 = (next_id - 1) + 1 /\ next_id - 1 < MaxReq /\ next_id = (next_id - 1) + 1
    BY <1>1, NetAssumption DEF Request
  <2>. QED
    BY <1>1, <2>1, <2>2 DEF Request, ghostVars, Service!Call
<1>2. ASSUME NEW c \in Callers, SendFails(c) \/ PostFails(c) \/ Timeout(c)
      PROVE  Service!Return(c)
  <2>1. Busy' = Busy \ {c} /\ c \in Busy
    BY <1>2 DEF SendFails, PostFails, Timeout, Ends
  <2>. QED
    BY <1>2, <2>1 DEF SendFails, PostFails, Timeout, Ends, ghostVars, Closed,
                      Service!Return, Service!Error
<1>3. ASSUME NEW c \in Callers, Receive(c) PROVE Service!Return(c)
  <2>1. Busy' = Busy \ {c} /\ c \in Busy
    BY <1>3 DEF Receive, Ends
  <2>2. rx[c] \in {Service!Error} \cup ({id[c]} \cap served)
    BY <1>3 DEF Receive, Provenance, Closed, Service!Error
  <2>. QED
    BY <1>3, <2>1, <2>2 DEF Receive, Ends, ghostVars, Service!Return
<1>4. ASSUME NEW c \in Callers, Cancel(c) PROVE Service!GiveUp(c)
  <2>1. Busy' = Busy \ {c} /\ c \in Busy
    BY <1>4 DEF Cancel
  <2>. QED
    BY <1>4, <2>1 DEF Cancel, Service!GiveUp
<1>5. ASSUME NEW c \in Callers, Send(c) \/ Post(c) \/ PostReturns(c)
      PROVE  UNCHANGED Service!rpcVars
  <2>1. Busy' = Busy
    BY <1>5 DEF Send, Post, PostReturns
  <2>. QED
    BY <1>5, <2>1 DEF Send, Post, PostReturns, ghostVars
<1>6. CASE ServerAnswers
  <2>1. PICK k \in DOMAIN up : served' = served \cup {up[k]}
    BY <1>6 DEF ServerAnswers, ServerTakes
  <2>2. up[k] \in 1..(next_id - 1)
    BY <2>1, ElementOfSeq DEF Provenance, Made
  <2>3. UNCHANGED <<next_id, id, pc, reply>>
    BY <1>6 DEF ServerAnswers, ServerTakes, callerVars
  <2>. QED
    BY <2>1, <2>2, <2>3 DEF Service!Serve, Service!Next
<1>7. CASE \/ Endpoint \/ SpawnDeadline \/ ReaderStep \/ Shutdown
           \/ ServerIgnores \/ ServerNotifies \/ LinkFails \/ UNCHANGED vars
  <2>1. UNCHANGED <<next_id, id, pc, reply, served>>
    BY <1>7 DEF Endpoint, SpawnDeadline, ReaderStep, ReadMessage, Eof, Shutdown,
                ServerIgnores, ServerTakes, ServerNotifies, LinkFails,
                callerVars, ghostVars, vars
  <2>. QED
    BY <2>1
<1>. QED
  BY <1>1, <1>2, <1>3, <1>4, <1>5, <1>6, <1>7 DEF Next, CallerStep, Service!Next

\* Both network clients implement the request/response service of Rpc, as the
\* stdio client does: one answer to the caller's own request, an error, or
\* nothing, however answers, timers, drops and the end of the stream race.
THEOREM Refinement == Spec => ImplementsRpc
<1>1. Init => Service!Init
  BY DEF Init, Service!Init
<1>. QED
  BY <1>1, ServiceStep, Invariance, PTL DEF Spec, ImplementsRpc, Service!Spec
=============================================================================
