--------------------------- MODULE Executor_proofs ---------------------------
(***************************************************************************)
(* Proofs about Executor, for any set of tool uses, registry, blocklist    *)
(* and bounds: the barriers between batches, the permission to run, the    *)
(* order of the hooks and the single prompt per tool.                      *)
(***************************************************************************)
EXTENDS Executor, SequenceTheorems, FiniteSetTheorems, TLAPS

-----------------------------------------------------------------------------
(***************************************************************************)
(* The inductive invariant.                                                *)
(***************************************************************************)

\* Between two answers only hook outputs are left of the last one, and the
\* answer under way is the latest, not one that was dropped.
Fresh ==
    /\ phase = "idle" => uses = <<>> /\ consent = {} /\ prompts = {}
    /\ phase = "executing" => turns \in (1..MaxTurns) \ dropped

\* A slot is filled when its call is over, and not before.
Slots == \A k \in DOMAIN uses : status[k] # "done" <=> results[k] = "none"

\* What had to be started, or over, before a call started, is so ever after.
After(j, k) == IF same_batch(j, k) THEN status[j] # "todo" ELSE status[j] = "done"

Order == \A j, k \in DOMAIN uses : (j < k /\ status[k] # "todo") => After(j, k)

\* The hooks of call k are those its state says were run, of the answer under
\* way no others, and of dropped answers whatever they left.
Left ==
    \A n \in DOMAIN reminders :
        reminders[n][2] \in dropped \/ (phase = "executing" /\ reminders[n][2] = turns)

TraceOf(k) ==
    /\ In(reminders, Pre(turns, k)) <=> (ran(k) \/ results[k] = "unknown")
    /\ In(reminders, Post(turns, k)) <=> (status[k] = "done" /\ results[k] # "policy")

Trace == WellFormed(reminders) /\ Left /\ \A k \in DOMAIN uses : TraceOf(k)

IInv == TypeOK /\ Fresh /\ Slots /\ Order /\ RunsOnlyWithConsent /\ Trace

-----------------------------------------------------------------------------
(***************************************************************************)
(* What the steps do.                                                      *)
(***************************************************************************)
HookMark == {"Pre", "Post"} \X (1..turns) \X Nat

\* While there is a call, its answer is under way.
LEMMA UnderWay ==
    ASSUME TypeOK, Fresh, NEW k \in DOMAIN uses
    PROVE  /\ phase = "executing" /\ turns \in 1..turns /\ turns \notin dropped
           /\ reminders \in Seq(HookMark)
           /\ Pre(turns, k) \in HookMark /\ Post(turns, k) \in HookMark
<1>1. phase = "executing"
  <2>1. phase = "idle" => DOMAIN uses = {}
    BY DEF Fresh
  <2>. QED
    BY <2>1 DEF TypeOK
<1>2. turns \in 1..turns /\ turns \notin dropped
  BY <1>1, ExecutorAssumption DEF Fresh
<1>3. k \in Nat
  BY DEF TypeOK
<1>. QED
  BY <1>1, <1>2, <1>3 DEF TypeOK, HookMark, Pre, Post

Filled(k, result) ==
    /\ status' = [status EXCEPT ![k] = "done"]
    /\ results' = [results EXCEPT ![k] = result]

\* A sequence of two, built one by one.
LEMMA TwoInSeq ==
    ASSUME NEW S, NEW a \in S, NEW b \in S
    PROVE  Append(<<a>>, b) = <<a, b>>
<1>1. <<a>> \in Seq(S) /\ <<a, b>> \in Seq(S) /\ Append(<<a>>, b) \in Seq(S)
  BY AppendProperties
<1>2. Len(Append(<<a>>, b)) = 2 /\ Append(<<a>>, b)[1] = a /\ Append(<<a>>, b)[2] = b
  BY AppendProperties
<1>3. \A i \in 1..Len(<<a, b>>) : Append(<<a>>, b)[i] = <<a, b>>[i]
  BY <1>2
<1>. QED
  BY <1>1, <1>2, <1>3, SeqEqual

\* The hook outputs of a call that ends are added one by one.
LEMMA EndsFacts ==
    ASSUME TypeOK, Fresh, NEW k \in DOMAIN uses, NEW r
    PROVE  /\ Ends(k, r, <<>>) => Filled(k, r) /\ reminders' = reminders
           /\ Ends(k, r, <<"Post">>)
                => Filled(k, r) /\ reminders' = Append(reminders, Post(turns, k))
           /\ Ends(k, r, <<"Pre", "Post">>)
                => /\ Filled(k, r)
                   /\ reminders' = Append(Append(reminders, Pre(turns, k)), Post(turns, k))
<1> DEFINE pre == Pre(turns, k)  post == Post(turns, k)
<1>1. reminders \in Seq(HookMark) /\ pre \in HookMark /\ post \in HookMark
  BY UnderWay
<1>2. [p \in DOMAIN <<>> |-> <<(<<>>)[p], turns, k>>] = <<>>
  OBVIOUS
<1>3. [p \in DOMAIN <<"Post">> |-> <<(<<"Post">>)[p], turns, k>>] = <<post>>
  BY DEF Post
<1>4. [p \in DOMAIN <<"Pre", "Post">> |-> <<(<<"Pre", "Post">>)[p], turns, k>>] = <<pre, post>>
  BY DEF Pre, Post
<1>5. reminders \o <<>> = reminders
  BY <1>1, ConcatEmptySeq
<1>6. reminders \o <<post>> = Append(reminders, post)
  BY <1>1, AppendIsConcat
<1>7. reminders \o <<pre, post>> = Append(Append(reminders, pre), post)
  <2>1. Append(reminders, pre) \in Seq(HookMark) /\ Append(reminders, pre) = reminders \o <<pre>>
    BY <1>1, AppendProperties, AppendIsConcat
  <2>2. Append(Append(reminders, pre), post) = (reminders \o <<pre>>) \o <<post>>
    BY <1>1, <2>1, AppendIsConcat
  <2>3. (reminders \o <<pre>>) \o <<post>> = reminders \o (<<pre>> \o <<post>>)
    BY <1>1, ConcatAssociative
  <2>4. <<pre>> \o <<post>> = <<pre, post>>
    <3>1. <<pre>> \in Seq(HookMark)
      BY <1>1
    <3> HIDE DEF pre, post
    <3>2. <<pre>> \o <<post>> = Append(<<pre>>, post)
      BY <1>1, <3>1, AppendIsConcat
    <3>. QED
      BY <1>1, <3>2, TwoInSeq
  <2>. QED
    BY <2>2, <2>3, <2>4
<1>. QED
  BY <1>2, <1>3, <1>4, <1>5, <1>6, <1>7 DEF Ends, Filled

\* The ways call k can leave its first poll: refused by the policy, refused by
\* the permission mode or the user, unknown, or with its body running.
Policy(k) == Filled(k, "policy") /\ reminders' = reminders

Refused(k) == Filled(k, "refused") /\ reminders' = Append(reminders, Post(turns, k))

Unknown(k) ==
    /\ Filled(k, "unknown")
    /\ reminders' = Append(Append(reminders, Pre(turns, k)), Post(turns, k))

Runs(k) ==
    /\ status' = [status EXCEPT ![k] = "running"] /\ results' = results
    /\ reminders' = Append(reminders, Pre(turns, k))

\* The right to run call k.
Permitted(k, agreed) ==
    /\ uses[k].name \notin policy_blocklist /\ uses[k].filter # "Refuse"
    /\ is_mutating(uses[k].name) =>
          /\ mode # "Plan"
          /\ mode = "Default" => k \in agreed
          /\ mode = "AcceptEdits" => is_file_mutator(uses[k].name)

\* The first poll of a call.
LEMMA StartFacts ==
    ASSUME TypeOK, Fresh, NEW k \in DOMAIN uses, Start(k)
    PROVE  /\ UNCHANGED <<mode, prompter, uses, phase, turns, dropped>>
           /\ phase = "executing" /\ status[k] = "todo"
           /\ \A j \in DOMAIN uses : j < k => After(j, k)
           /\ consent \subseteq consent' /\ consent' \subseteq consent \cup {k}
           /\ prompts \subseteq prompts' /\ prompts' \subseteq prompts \cup {k}
           /\ (k \in prompts' /\ k \notin prompts) => uses[k].name \notin always_allowed
           /\ \/ Policy(k) \/ Refused(k)
              \/ (Unknown(k) \/ Runs(k)) /\ Permitted(k, consent')
<1>1. /\ UNCHANGED <<mode, prompter, uses, phase, turns, dropped>>
      /\ phase = "executing" /\ status[k] = "todo" /\ Gate(k)
      /\ \A j \in DOMAIN uses : j < k => After(j, k)
  BY DEF Start, After
<1>2. Dispatch(k) => Unknown(k) \/ Runs(k)
  BY EndsFacts DEF Dispatch, Unknown, Runs, Pre
<1>3. Refuse(k) => Refused(k)
  BY EndsFacts DEF Refuse, Refused
<1>4. Ends(k, "policy", <<>>) => Policy(k)
  BY EndsFacts DEF Policy
<1> DEFINE name == uses[k].name
           escalates == decide(name) = "Refused" /\ mode = "Default" /\ is_mutating(name)
           Rest == /\ consent \subseteq consent' /\ consent' \subseteq consent \cup {k}
                   /\ prompts \subseteq prompts' /\ prompts' \subseteq prompts \cup {k}
                   /\ (k \in prompts' /\ k \notin prompts) => uses[k].name \notin always_allowed
                   /\ \/ Policy(k) \/ Refused(k)
                      \/ (Unknown(k) \/ Runs(k)) /\ Permitted(k, consent')
<1>5. ASSUME policy_refuses(uses[k]), Ends(k, "policy", <<>>), NoPrompt PROVE Rest
  BY <1>4, <1>5 DEF NoPrompt
<1>6. ASSUME ~policy_refuses(uses[k]), decide(name) = "Allowed", Dispatch(k), NoPrompt
      PROVE  Rest
  <2>1. mode \in PermissionMode
    BY DEF TypeOK
  <2>2. is_mutating(name) =>
            /\ mode # "Plan" /\ mode # "Default"
            /\ mode = "AcceptEdits" => is_file_mutator(name)
    BY <1>6, <2>1 DEF decide, PermissionMode
  <2>3. Permitted(k, consent')
    BY <1>6, <2>2 DEF Permitted, policy_refuses
  <2>. QED
    BY <1>2, <1>6, <2>3 DEF NoPrompt
<1>7. ASSUME ~policy_refuses(uses[k]), escalates, is_always_allowed(name), Dispatch(k),
             consent' = consent \cup {k}, UNCHANGED <<always_allowed, prompts>>
      PROVE  Rest
  <2>1. Permitted(k, consent')
    BY <1>7 DEF Permitted, policy_refuses
  <2>. QED
    BY <1>2, <1>7, <2>1
<1>8. ASSUME ~policy_refuses(uses[k]), escalates, ~is_always_allowed(name),
             NEW answer \in Answer, Ask(k, answer)
      PROVE  Rest
  <2>1. CASE answer = "Deny"
    BY <1>3, <1>8, <2>1 DEF Ask, is_always_allowed
  <2>2. CASE answer # "Deny"
    <3>1. Dispatch(k) /\ consent' = consent \cup {k} /\ prompts' = prompts \cup {k}
      BY <1>8, <2>2 DEF Ask
    <3>2. Permitted(k, consent')
      BY <1>8, <3>1 DEF Permitted, policy_refuses
    <3>. QED
      BY <1>2, <1>8, <3>1, <3>2 DEF is_always_allowed
  <2>. QED
    BY <2>1, <2>2
<1>9. ASSUME Refuse(k), NoPrompt PROVE Rest
  BY <1>3, <1>9 DEF NoPrompt
<1>10. Rest
  BY <1>1, <1>5, <1>6, <1>7, <1>8, <1>9 DEF Gate
<1>. QED
  BY <1>1, <1>10

\* The body of a call ends.
LEMMA FinishFacts ==
    ASSUME TypeOK, Fresh, NEW k \in DOMAIN uses, Finish(k)
    PROVE  /\ UNCHANGED <<mode, prompter, always_allowed, uses, consent, prompts, phase, turns, dropped>>
           /\ status[k] = "running"
           /\ \E r \in {"ok", "error"} : Filled(k, r)
           /\ reminders' = Append(reminders, Post(turns, k))
BY EndsFacts DEF Finish

-----------------------------------------------------------------------------
(***************************************************************************)
(* Every step keeps every part of the invariant.                           *)
(***************************************************************************)

\* The initial state satisfies the inductive invariant.
LEMMA InitIInv == Init => IInv
<1> SUFFICES ASSUME Init PROVE IInv
  OBVIOUS
<1>1. uses = <<>> /\ DOMAIN uses = {}
  BY DEF Init
<1>2. TypeOK
  <2>1. uses \in Seq(UseKinds) /\ reminders \in Seq({"Pre", "Post"} \X (1..turns) \X Nat)
    BY EmptySeq DEF Init
  <2>2. prompter \in BOOLEAN
    BY Zenon DEF Init
  <2>. QED
    BY <1>1, <2>1, <2>2, ExecutorAssumption DEF Init, TypeOK
<1>3. Fresh
  BY DEF Init, Fresh
<1>4. Trace
  <2>1. reminders = <<>> /\ DOMAIN reminders = {}
    BY DEF Init
  <2>. QED
    BY <1>1, <2>1 DEF Trace, WellFormed, Left
<1>. QED
  BY <1>1, <1>2, <1>3, <1>4 DEF IInv, Slots, Order, RunsOnlyWithConsent

\* A new answer is a sequence of uses.
LEMMA ExecuteFacts ==
    ASSUME TypeOK, Execute
    PROVE  /\ phase = "idle" /\ phase' = "executing"
           /\ uses' \in Seq(UseKinds)
           /\ status' = [k \in DOMAIN uses' |-> "todo"]
           /\ results' = [k \in DOMAIN uses' |-> "none"]
           /\ UNCHANGED <<mode, prompter, always_allowed, reminders, consent, prompts, dropped>>
           /\ turns' = turns + 1 /\ turns' \in 1..MaxTurns
<1>1. PICK us \in BoundedSeq(UseKinds, MaxUses - turns) :
          /\ uses' = us
          /\ status' = [k \in DOMAIN us |-> "todo"]
          /\ results' = [k \in DOMAIN us |-> "none"]
  BY DEF Execute
<1>2. MaxUses - turns \in Nat /\ turns + 1 \in 1..MaxTurns
  BY ExecutorAssumption DEF Execute, TypeOK
<1>3. us \in Seq(UseKinds)
  <2> DEFINE B == MaxUses - turns
  <2>1. PICK n \in 0..B : us \in [1..n -> UseKinds]
    BY DEF BoundedSeq, SeqOf
  <2>2. n \in Nat
    BY <1>2, <2>1
  <2>. QED
    BY <2>1, <2>2, SeqDef
<1>. QED
  BY <1>1, <1>2, <1>3 DEF Execute

\* A turn that ends, or is dropped, leaves no call behind.
LEMMA ForgetFacts ==
    ASSUME Return \/ Drop
    PROVE  /\ uses' = <<>> /\ DOMAIN uses' = {} /\ status' = <<>> /\ results' = <<>>
           /\ consent' = {} /\ prompts' = {} /\ phase' = "idle" /\ phase = "executing"
           /\ UNCHANGED <<mode, prompter, always_allowed, turns>>
           /\ \/ reminders' = <<>> /\ dropped' = dropped
              \/ reminders' = reminders /\ dropped' = dropped \cup {turns}
BY DEF Return, Drop, Forget, drain_reminders

\* Every step keeps the shapes of the state.
LEMMA TypeStep == TypeOK /\ Fresh /\ [Next]_vars => TypeOK'
<1> SUFFICES ASSUME TypeOK, Fresh, [Next]_vars PROVE TypeOK'
  OBVIOUS
<1>a. reminders \in Seq(HookMark)
  BY DEF TypeOK, HookMark
<1>b. mode' = mode /\ prompter' = prompter => mode' \in PermissionMode /\ prompter' \in BOOLEAN
  BY DEF TypeOK
<1>1. CASE Execute
  <2>1. consent = {} /\ prompts = {}
    BY <1>1 DEF Execute, Fresh
  <2>2. reminders' \in Seq(HookMark')
    <3>1. HookMark \subseteq HookMark'
      BY <1>1, ExecuteFacts DEF HookMark, TypeOK
    <3>. QED
      BY <1>1, <1>a, <3>1, ExecuteFacts, SeqMonotonic
  <2>a. dropped' = dropped /\ turns' = turns + 1 /\ turns' \in 1..MaxTurns /\ turns \in Nat
    BY <1>1, ExecuteFacts, ExecutorAssumption DEF TypeOK
  <2>b. dropped \subseteq 1..turns
    BY DEF TypeOK
  <2>3. turns' \in 0..MaxTurns /\ dropped' \subseteq 1..turns'
    BY <2>a, <2>b, ExecutorAssumption
  <2>4. mode' \in PermissionMode /\ prompter' \in BOOLEAN
    BY <1>1, <1>b, ExecuteFacts
  <2>5. /\ uses' \in Seq(UseKinds) /\ phase' = "executing"
        /\ status' \in [DOMAIN uses' -> {"todo", "running", "done"}]
        /\ results' \in [DOMAIN uses' -> {"none", "ok", "error", "unknown", "refused", "policy"}]
        /\ consent' = {} /\ prompts' = {}
    BY <1>1, <2>1, ExecuteFacts
  <2>. QED
    BY <2>2, <2>3, <2>4, <2>5 DEF TypeOK, HookMark
<1>2. ASSUME NEW k \in DOMAIN uses, Start(k) PROVE TypeOK'
  <2>1. /\ UNCHANGED <<mode, prompter, uses, phase, turns, dropped>>
        /\ consent' \subseteq DOMAIN uses /\ prompts' \subseteq DOMAIN uses
    BY <1>2, StartFacts DEF TypeOK
  <2>2. Policy(k) \/ Refused(k) \/ Unknown(k) \/ Runs(k)
    BY <1>2, StartFacts
  <2>3. /\ Append(reminders, Pre(turns, k)) \in Seq(HookMark)
        /\ Append(reminders, Post(turns, k)) \in Seq(HookMark)
        /\ Append(Append(reminders, Pre(turns, k)), Post(turns, k)) \in Seq(HookMark)
    BY <1>a, UnderWay, AppendProperties
  <2>4. reminders' \in Seq(HookMark)
    BY <1>a, <2>2, <2>3 DEF Policy, Refused, Unknown, Runs
  <2>5. /\ status' \in [DOMAIN uses -> {"todo", "running", "done"}]
        /\ results' \in [DOMAIN uses -> {"none", "ok", "error", "unknown", "refused", "policy"}]
    BY <2>2 DEF Policy, Refused, Unknown, Runs, Filled, TypeOK
  <2>6. mode' \in PermissionMode /\ prompter' \in BOOLEAN
    BY <1>b, <2>1
  <2>. QED
    BY <2>1, <2>4, <2>5, <2>6 DEF TypeOK, HookMark
<1>3. ASSUME NEW k \in DOMAIN uses, Finish(k) PROVE TypeOK'
  <2>1. UNCHANGED <<mode, prompter, uses, consent, prompts, phase, turns, dropped>>
    BY <1>3, FinishFacts
  <2>2. reminders' \in Seq(HookMark)
    BY <1>3, <1>a, FinishFacts, UnderWay, AppendProperties
  <2>3. /\ status' \in [DOMAIN uses -> {"todo", "running", "done"}]
        /\ results' \in [DOMAIN uses -> {"none", "ok", "error", "unknown", "refused", "policy"}]
    BY <1>3, FinishFacts, ZenonT(60) DEF Filled, TypeOK
  <2>4. mode' \in PermissionMode /\ prompter' \in BOOLEAN
    BY <1>b, <2>1
  <2>. QED
    BY <2>1, <2>2, <2>3, <2>4 DEF TypeOK, HookMark
<1>4. CASE Return \/ Drop
  <2>1. uses' \in Seq(UseKinds) /\ reminders' \in Seq(HookMark')
    BY <1>4, <1>a, EmptySeq, ForgetFacts DEF HookMark
  <2>2. mode' \in PermissionMode /\ prompter' \in BOOLEAN
    BY <1>4, <1>b, ForgetFacts
  <2>a. /\ turns' = turns /\ turns \in 1..turns /\ dropped \subseteq 1..turns
        /\ dropped' = dropped \/ dropped' = dropped \cup {turns}
    BY <1>4, ForgetFacts, ExecutorAssumption DEF Fresh, TypeOK
  <2>3. dropped' \subseteq 1..turns'
    BY <2>a
  <2>4. /\ DOMAIN uses' = {} /\ status' = <<>> /\ results' = <<>> /\ phase' = "idle"
        /\ consent' = {} /\ prompts' = {} /\ turns' \in 0..MaxTurns
    BY <1>4, ForgetFacts DEF TypeOK
  <2>5. /\ status' \in [DOMAIN uses' -> {"todo", "running", "done"}]
        /\ results' \in [DOMAIN uses' -> {"none", "ok", "error", "unknown", "refused", "policy"}]
    BY <2>4
  <2>. QED
    BY <2>1, <2>2, <2>3, <2>4, <2>5 DEF TypeOK, HookMark
<1>5. CASE UNCHANGED vars
  <2>1. mode' \in PermissionMode /\ prompter' \in BOOLEAN
    BY <1>5, <1>b DEF vars
  <2>. QED
    BY <1>5, <2>1 DEF vars, TypeOK
<1>. QED
  BY <1>1, <1>2, <1>3, <1>4, <1>5 DEF Next

\* Slots fill as calls end, and a return leaves nothing behind.
LEMMA SlotsStep ==
    TypeOK /\ Fresh /\ Slots /\ [Next]_vars => Fresh' /\ Slots'
<1> SUFFICES ASSUME TypeOK, Fresh, Slots, [Next]_vars PROVE Fresh' /\ Slots'
  OBVIOUS
<1>1. CASE Execute
  <2>1. dropped' = dropped /\ dropped \subseteq 1..turns /\ turns' = turns + 1
    BY <1>1, ExecuteFacts DEF TypeOK
  <2>2. turns' \in (1..MaxTurns) \ dropped'
    BY <1>1, <2>1, ExecuteFacts DEF TypeOK
  <2>3. Fresh'
    BY <1>1, <2>2, ExecuteFacts DEF Fresh
  <2>4. Slots'
    BY <1>1, ExecuteFacts DEF Slots
  <2>. QED
    BY <2>3, <2>4
<1>2. ASSUME NEW k \in DOMAIN uses, Start(k) PROVE Fresh' /\ Slots'
  <2>1. phase = "executing" /\ UNCHANGED <<phase, uses, turns, dropped>> /\ status[k] = "todo"
    BY <1>2, StartFacts
  <2>2. Policy(k) \/ Refused(k) \/ Unknown(k) \/ Runs(k)
    BY <1>2, StartFacts
  <2>3. Slots'
    BY <2>1, <2>2 DEF Policy, Refused, Unknown, Runs, Filled, Slots, TypeOK
  <2>. QED
    BY <2>1, <2>3 DEF Fresh
<1>3. ASSUME NEW k \in DOMAIN uses, Finish(k) PROVE Fresh' /\ Slots'
  <2>1. UNCHANGED <<uses, phase, turns, dropped>>
    BY <1>3, FinishFacts
  <2>2. Slots'
    BY <1>3, <2>1, FinishFacts DEF Filled, Slots, TypeOK
  <2>3. phase = "executing"
    BY UnderWay
  <2>. QED
    BY <2>1, <2>2, <2>3 DEF Fresh
<1>4. CASE Return \/ Drop
  BY <1>4, ForgetFacts DEF Fresh, Slots
<1>5. CASE UNCHANGED vars
  BY <1>5 DEF vars, Fresh, Slots
<1>. QED
  BY <1>1, <1>2, <1>3, <1>4, <1>5 DEF Next

\* Once a call has started, what came before it never goes back.
LEMMA OrderStep == TypeOK /\ Fresh /\ Order /\ [Next]_vars => Order'
<1> SUFFICES ASSUME TypeOK, Fresh, Order, [Next]_vars PROVE Order'
  OBVIOUS
<1>1. CASE Execute
  BY <1>1, ExecuteFacts DEF Order
<1>a. ASSUME uses' = uses PROVE \A i, j \in DOMAIN uses : same_batch(i, j)' = same_batch(i, j)
  BY <1>a DEF same_batch
<1>2. ASSUME NEW k \in DOMAIN uses, Start(k) PROVE Order'
  <2>1. /\ uses' = uses /\ status[k] = "todo"
        /\ \A j \in DOMAIN uses : j < k => After(j, k)
    BY <1>2, StartFacts
  <2>2. Policy(k) \/ Refused(k) \/ Unknown(k) \/ Runs(k)
    BY <1>2, StartFacts
  <2>3. /\ \A j \in DOMAIN uses : j # k => status'[j] = status[j]
        /\ status'[k] # "todo"
    BY <2>2 DEF Policy, Refused, Unknown, Runs, Filled, TypeOK
  <2>4. ASSUME NEW i \in DOMAIN uses, NEW j \in DOMAIN uses, i < j, status'[j] # "todo"
        PROVE  After(i, j)'
    <3>1. CASE j = k
      <4>1. After(i, k) /\ i # k
        BY <2>1, <2>4, <3>1 DEF TypeOK
      <4>. QED
        BY <1>a, <2>1, <2>3, <3>1, <4>1 DEF After, TypeOK
    <3>2. CASE j # k
      <4>1. After(i, j)
        BY <2>3, <2>4, <3>2 DEF Order
      <4>2. i # k
        BY <2>1, <4>1 DEF After
      <4>. QED
        BY <1>a, <2>1, <2>3, <4>1, <4>2 DEF After, TypeOK
    <3>. QED
      BY <3>1, <3>2
  <2>. QED
    BY <2>1, <2>4 DEF Order
<1>3. ASSUME NEW k \in DOMAIN uses, Finish(k) PROVE Order'
  <2>1. uses' = uses /\ status[k] = "running" /\ status' = [status EXCEPT ![k] = "done"]
    BY <1>3, FinishFacts DEF Filled
  <2>2. ASSUME NEW i \in DOMAIN uses, NEW j \in DOMAIN uses, i < j, status'[j] # "todo"
        PROVE  After(i, j)'
    <3>1. After(i, j)
      BY <2>1, <2>2 DEF Order
    <3>. QED
      BY <1>a, <2>1, <3>1 DEF After, TypeOK
  <2>. QED
    BY <2>1, <2>2 DEF Order
<1>4. CASE Return \/ Drop
  BY <1>4, ForgetFacts DEF Order
<1>5. CASE UNCHANGED vars
  <2>1. uses' = uses /\ status' = status
    BY <1>5 DEF vars
  <2>2. \A i, j \in DOMAIN uses : After(i, j) => After(i, j)'
    BY <1>a, <2>1 DEF After
  <2>. QED
    BY <2>1, <2>2 DEF Order
<1>. QED
  BY <1>1, <1>2, <1>3, <1>4, <1>5 DEF Next

\* A body starts only with the right to run, and the mode and the consent
\* given do not change under it.
LEMMA ConsentStep ==
    TypeOK /\ Fresh /\ Slots /\ RunsOnlyWithConsent /\ [Next]_vars => RunsOnlyWithConsent'
<1> SUFFICES ASSUME TypeOK, Fresh, Slots, RunsOnlyWithConsent, [Next]_vars PROVE RunsOnlyWithConsent'
  OBVIOUS
<1>a. \A k \in DOMAIN uses : ran(k) => Permitted(k, consent)
  BY DEF RunsOnlyWithConsent, Permitted
<1>1. CASE Execute
  BY <1>1, ExecuteFacts DEF RunsOnlyWithConsent, ran
<1>2. ASSUME NEW k \in DOMAIN uses, Start(k) PROVE RunsOnlyWithConsent'
  <2>1. UNCHANGED <<mode, uses>> /\ status[k] = "todo" /\ consent \subseteq consent'
    BY <1>2, StartFacts
  <2>2. Policy(k) \/ Refused(k) \/ ((Unknown(k) \/ Runs(k)) /\ Permitted(k, consent'))
    BY <1>2, StartFacts
  <2>3. ASSUME NEW j \in DOMAIN uses, ran(j)' PROVE Permitted(j, consent')
    <3>1. CASE j = k
      <4>1. ~Policy(k) /\ ~Refused(k)
        BY <2>3, <3>1 DEF ran, Policy, Refused, Filled, TypeOK
      <4>. QED
        BY <2>2, <3>1, <4>1
    <3>2. CASE j # k
      <4>1. status'[j] = status[j] /\ results'[j] = results[j]
        BY <2>2, <3>2 DEF Policy, Refused, Unknown, Runs, Filled, TypeOK
      <4>2. Permitted(j, consent)
        BY <1>a, <2>3, <4>1 DEF ran
      <4>. QED
        BY <2>1, <4>2 DEF Permitted
    <3>. QED
      BY <3>1, <3>2
  <2>. QED
    BY <2>1, <2>3 DEF RunsOnlyWithConsent, Permitted
<1>3. ASSUME NEW k \in DOMAIN uses, Finish(k) PROVE RunsOnlyWithConsent'
  <2>1. UNCHANGED <<mode, uses, consent>> /\ status[k] = "running"
    BY <1>3, FinishFacts
  <2>2. \A j \in DOMAIN uses : j # k => status'[j] = status[j] /\ results'[j] = results[j]
    BY <1>3, FinishFacts DEF Filled, TypeOK
  <2>3. \A j \in DOMAIN uses : ran(j)' => ran(j)
    BY <2>1, <2>2 DEF ran
  <2>. QED
    BY <2>1, <2>3 DEF RunsOnlyWithConsent
<1>4. CASE Return \/ Drop
  BY <1>4, ForgetFacts DEF RunsOnlyWithConsent
<1>5. CASE UNCHANGED vars
  BY <1>5 DEF vars, RunsOnlyWithConsent, ran
<1>. QED
  BY <1>1, <1>2, <1>3, <1>4, <1>5 DEF Next

\* A hook output is added at the end of the trace: Pre to a call without any,
\* Post to a call without one.
LEMMA AppendMark ==
    ASSUME NEW S, NEW s \in Seq(S), WellFormed(s), NEW x \in S, ~In(s, x),
           NEW t, NEW k, x = Post(t, k) \/ (x = Pre(t, k) /\ ~In(s, Post(t, k)))
    PROVE  /\ Append(s, x) \in Seq(S)
           /\ WellFormed(Append(s, x))
           /\ \A e : In(Append(s, x), e) <=> (In(s, e) \/ e = x)
           /\ \A n \in DOMAIN Append(s, x) :
                 Append(s, x)[n] = x \/ (n \in DOMAIN s /\ Append(s, x)[n] = s[n])
<1> DEFINE b == Append(s, x)
<1>1. /\ b \in Seq(S) /\ Len(s) \in Nat
      /\ DOMAIN b = 1..(Len(s) + 1) /\ DOMAIN s = 1..Len(s)
      /\ \A n \in 1..Len(s) : b[n] = s[n]
      /\ b[Len(s) + 1] = x
  BY AppendProperties, LenProperties
<1> HIDE DEF b
<1>2. \A e : In(b, e) <=> (In(s, e) \/ e = x)
  BY <1>1 DEF In
<1>3. \A n \in DOMAIN b : b[n] = x \/ (n \in DOMAIN s /\ b[n] = s[n])
  BY <1>1
<1>4. ASSUME NEW m \in DOMAIN b, NEW n \in DOMAIN b, b[m] = b[n] PROVE m = n
  <2>1. CASE m \in DOMAIN s /\ n \in DOMAIN s
    BY <1>1, <1>4, <2>1 DEF WellFormed
  <2>2. CASE m = Len(s) + 1 \/ n = Len(s) + 1
    BY <1>1, <1>4, <2>2 DEF In
  <2>. QED
    BY <1>1, <2>1, <2>2
<1>5. ASSUME NEW m \in DOMAIN b, NEW n \in DOMAIN b, b[n] = Post(b[m][2], b[m][3]), b[m][1] = "Pre"
      PROVE  m < n
  <2>1. CASE m \in DOMAIN s /\ n \in DOMAIN s
    <3>1. s[n] = Post(s[m][2], s[m][3]) /\ s[m][1] = "Pre"
      BY <1>1, <1>5, <2>1
    <3>. QED
      BY <2>1, <3>1 DEF WellFormed
  <2>2. CASE m = Len(s) + 1
    <3>1. x[1] = "Pre" /\ b[n] = Post(x[2], x[3])
      BY <1>1, <1>5, <2>2
    <3>2. x = Pre(t, k) /\ ~In(s, Post(t, k))
      BY <3>1 DEF Pre, Post
    <3>3. b[n] = Post(t, k) /\ Post(t, k) # x
      BY <3>1, <3>2 DEF Pre, Post
    <3>4. n \in DOMAIN s /\ s[n] = Post(t, k)
      BY <1>3, <3>3
    <3>. QED
      BY <3>2, <3>4 DEF In
  <2>3. CASE m \in DOMAIN s /\ n = Len(s) + 1
    BY <1>1, <2>3
  <2>. QED
    BY <1>1, <2>1, <2>2, <2>3
<1>6. WellFormed(b)
  BY <1>4, <1>5 DEF WellFormed
<1>. QED
  BY <1>1, <1>2, <1>3, <1>6 DEF b

\* The marks of different calls, and of the two hooks, differ.
LEMMA MarksDiffer ==
    ASSUME NEW t, NEW i, NEW j
    PROVE  /\ Pre(t, i) # Post(t, j)
           /\ Pre(t, i) = Pre(t, j) <=> i = j
           /\ Post(t, i) = Post(t, j) <=> i = j
           /\ Pre(t, i)[2] = t /\ Post(t, i)[2] = t
BY DEF Pre, Post

\* Each hook runs once per call, Pre before Post, and what is left over is left
\* by dropped answers.
LEMMA TraceStep == TypeOK /\ Fresh /\ Slots /\ Trace /\ [Next]_vars => Trace'
<1> SUFFICES ASSUME TypeOK, Fresh, Slots, Trace, [Next]_vars PROVE Trace'
  OBVIOUS
<1>a. WellFormed(reminders) /\ Left /\ \A k \in DOMAIN uses : TraceOf(k)
  BY DEF Trace
<1>1. CASE Execute
  <2>1. /\ reminders' = reminders /\ dropped' = dropped /\ turns' \notin dropped
        /\ \A n \in DOMAIN reminders : reminders[n][2] \in dropped
    BY <1>1, <1>a, ExecuteFacts DEF Left, TypeOK
  <2>2. \A k : ~In(reminders', Pre(turns', k)) /\ ~In(reminders', Post(turns', k))
    BY <2>1 DEF In, Pre, Post
  <2>3. \A k \in DOMAIN uses' : TraceOf(k)'
    BY <1>1, <2>2, ExecuteFacts DEF TraceOf, ran
  <2>4. Left'
    BY <2>1 DEF Left
  <2>. QED
    BY <1>a, <2>1, <2>3, <2>4 DEF Trace
<1>2. ASSUME NEW k \in DOMAIN uses, Start(k) PROVE Trace'
  <2>1. UNCHANGED <<uses, turns, dropped, phase>> /\ status[k] = "todo" /\ results[k] = "none"
    BY <1>2, StartFacts DEF Slots
  <2>2. Policy(k) \/ Refused(k) \/ Unknown(k) \/ Runs(k)
    BY <1>2, StartFacts
  <2>3. ~In(reminders, Pre(turns, k)) /\ ~In(reminders, Post(turns, k))
    BY <1>a, <2>1 DEF TraceOf, ran
  <2>4. /\ phase = "executing" /\ reminders \in Seq(HookMark)
        /\ Pre(turns, k) \in HookMark /\ Post(turns, k) \in HookMark
    BY UnderWay
  <2>5. /\ \A j \in DOMAIN uses : j # k => status'[j] = status[j] /\ results'[j] = results[j]
        /\ Policy(k) => status'[k] = "done" /\ results'[k] = "policy"
        /\ Refused(k) => status'[k] = "done" /\ results'[k] = "refused"
        /\ Unknown(k) => status'[k] = "done" /\ results'[k] = "unknown"
        /\ Runs(k) => status'[k] = "running" /\ results'[k] = "none"
    BY <2>1, <2>2 DEF Policy, Refused, Unknown, Runs, Filled, TypeOK
  <2> DEFINE one == Append(reminders, Pre(turns, k))
             two == Append(one, Post(turns, k))
             alone == Append(reminders, Post(turns, k))
             Longer(s) == /\ WellFormed(s)
                          /\ \A n \in DOMAIN s : s[n][2] \in dropped \/ s[n][2] = turns
  <2>6. \A n \in DOMAIN reminders : reminders[n][2] \in dropped \/ reminders[n][2] = turns
    BY <1>a DEF Left
  <2>7. Longer(one) /\ one \in Seq(HookMark) /\ \A e : In(one, e) <=> In(reminders, e) \/ e = Pre(turns, k)
    BY <1>a, <2>3, <2>4, <2>6, AppendMark, MarksDiffer
  <2>8. Longer(alone) /\ \A e : In(alone, e) <=> In(reminders, e) \/ e = Post(turns, k)
    BY <1>a, <2>3, <2>4, <2>6, AppendMark, MarksDiffer
  <2>9. /\ Longer(two)
        /\ \A e : In(two, e) <=> In(reminders, e) \/ e = Pre(turns, k) \/ e = Post(turns, k)
    <3>1. ~In(one, Post(turns, k))
      BY <2>3, <2>7, MarksDiffer
    <3> HIDE DEF one
    <3>. QED
      BY <2>4, <2>7, <3>1, AppendMark, MarksDiffer
  <2> HIDE DEF one, two, alone
  <2>10. \/ Policy(k) /\ reminders' = reminders
         \/ Refused(k) /\ reminders' = alone
         \/ Unknown(k) /\ reminders' = two
         \/ Runs(k) /\ reminders' = one
    BY <2>2 DEF Policy, Refused, Unknown, Runs, one, two, alone
  <2>11. Longer(reminders')
    BY <1>a, <2>6, <2>7, <2>8, <2>9, <2>10
  <2>12. WellFormed(reminders') /\ Left'
    BY <2>1, <2>4, <2>11 DEF Left
  <2> HIDE DEF Longer
  <2>13. ASSUME NEW j \in DOMAIN uses PROVE TraceOf(j)'
    <3>1. CASE j # k
      <4>1. /\ In(reminders', Pre(turns, j)) <=> In(reminders, Pre(turns, j))
            /\ In(reminders', Post(turns, j)) <=> In(reminders, Post(turns, j))
        BY <2>7, <2>8, <2>9, <2>10, <3>1, MarksDiffer
      <4>2. TraceOf(j) /\ status'[j] = status[j] /\ results'[j] = results[j]
        BY <1>a, <2>5, <3>1
      <4>. QED
        BY <2>1, <4>1, <4>2 DEF TraceOf, ran
    <3>2. CASE j = k
      <4>1. CASE Policy(k) /\ reminders' = reminders
        BY <2>1, <2>3, <2>5, <3>2, <4>1 DEF TraceOf, ran
      <4>2. CASE Refused(k) /\ reminders' = alone
        BY <2>1, <2>3, <2>5, <2>8, <3>2, <4>2, MarksDiffer DEF TraceOf, ran
      <4>3. CASE Unknown(k) /\ reminders' = two
        BY <2>1, <2>3, <2>5, <2>9, <3>2, <4>3, MarksDiffer DEF TraceOf, ran
      <4>4. CASE Runs(k) /\ reminders' = one
        BY <2>1, <2>3, <2>5, <2>7, <3>2, <4>4, MarksDiffer DEF TraceOf, ran
      <4>. QED
        BY <2>10, <4>1, <4>2, <4>3, <4>4
    <3>. QED
      BY <3>1, <3>2
  <2>. QED
    BY <2>1, <2>12, <2>13 DEF Trace
<1>3. ASSUME NEW k \in DOMAIN uses, Finish(k) PROVE Trace'
  <2>1. UNCHANGED <<uses, turns, dropped, phase>> /\ status[k] = "running"
    BY <1>3, FinishFacts
  <2>2. reminders' = Append(reminders, Post(turns, k))
    BY <1>3, FinishFacts
  <2>3. ~In(reminders, Post(turns, k)) /\ In(reminders, Pre(turns, k))
    BY <1>a, <2>1 DEF TraceOf, ran
  <2>4. phase = "executing" /\ reminders \in Seq(HookMark) /\ Post(turns, k) \in HookMark
    BY UnderWay
  <2>5. /\ WellFormed(reminders')
        /\ \A e : In(reminders', e) <=> In(reminders, e) \/ e = Post(turns, k)
        /\ \A n \in DOMAIN reminders' :
              \/ reminders'[n] = Post(turns, k)
              \/ n \in DOMAIN reminders /\ reminders'[n] = reminders[n]
    BY <1>a, <2>2, <2>3, <2>4, AppendMark
  <2>6. Left'
    BY <1>a, <2>1, <2>4, <2>5, MarksDiffer DEF Left
  <2>7. /\ \A j \in DOMAIN uses : j # k => status'[j] = status[j] /\ results'[j] = results[j]
        /\ status'[k] = "done" /\ results'[k] \in {"ok", "error"}
    BY <1>3, FinishFacts DEF Filled, TypeOK
  <2>8. ASSUME NEW j \in DOMAIN uses PROVE TraceOf(j)'
    <3>1. CASE j # k
      <4>1. TraceOf(j)
        BY <1>a
      <4>. QED
        BY <2>1, <2>5, <2>7, <3>1, <4>1, MarksDiffer DEF TraceOf, ran
    <3>2. CASE j = k
      BY <2>1, <2>3, <2>5, <2>7, <3>2, MarksDiffer DEF TraceOf, ran
    <3>. QED
      BY <3>1, <3>2
  <2>. QED
    BY <2>1, <2>5, <2>6, <2>8 DEF Trace
<1>4. CASE Return \/ Drop
  <2>1. WellFormed(reminders')
    BY <1>4, <1>a, ForgetFacts DEF WellFormed
  <2>2. Left'
    BY <1>4, <1>a, ForgetFacts DEF Left
  <2>. QED
    BY <1>4, <2>1, <2>2, ForgetFacts DEF Trace
<1>5. CASE UNCHANGED vars
  BY <1>5 DEF vars, Trace, TraceOf, Left, ran
<1>. QED
  BY <1>1, <1>2, <1>3, <1>4, <1>5 DEF Next

-----------------------------------------------------------------------------
(***************************************************************************)
(* The theorems.                                                           *)
(***************************************************************************)

\* The invariant is inductive: it holds in every reachable state.
THEOREM Invariance == Spec => []IInv
<1>1. Init => IInv
  BY InitIInv
<1>2. IInv /\ [Next]_vars => IInv'
  BY TypeStep, SlotsStep, OrderStep, ConsentStep, TraceStep DEF IInv
<1>. QED
  BY <1>1, <1>2, PTL DEF Spec

\* The executor's state keeps its shape.
THEOREM TypeCorrect == Spec => []TypeOK
BY Invariance, PTL DEF IInv

\* A call that is not parallel-safe runs alone: everything before it is over
\* and nothing after it has begun, whatever batches surround it.
THEOREM MutatorsRunAloneHolds == Spec => []MutatorsRunAlone
<1>1. IInv => MutatorsRunAlone
  <2> SUFFICES ASSUME IInv, NEW k \in DOMAIN uses, status[k] = "running",
                      ~can_run_parallel(uses[k]), NEW j \in DOMAIN uses
               PROVE  /\ j < k => status[j] = "done"
                      /\ j > k => status[j] = "todo"
    BY DEF MutatorsRunAlone
  <2>1. j \in Int /\ k \in Int
    BY DEF IInv, TypeOK
  <2>2. j # k => ~same_batch(j, k) /\ ~same_batch(k, j)
    BY <2>1 DEF same_batch
  <2>3. j < k => status[j] = "done"
    BY <2>1, <2>2 DEF IInv, Order, After
  <2>4. j > k => status[j] = "todo"
    BY <2>1, <2>2 DEF IInv, Order, After
  <2>. QED
    BY <2>3, <2>4
<1>. QED
  BY <1>1, Invariance, PTL

\* A tool body runs only past the policy, and a mutating one only in a mode,
\* or with a user's word, that lets it.
THEOREM RunsOnlyWithConsentHolds == Spec => []RunsOnlyWithConsent
BY Invariance, PTL DEF IInv

\* Over any number of answers, returned or dropped in the middle: no hook runs
\* twice for a call or Post before Pre, the answer under way has its Pre for the
\* calls let through and its Post for calls that are over, for all of them but
\* those the policy refused, and only dropped answers leave anything behind.
THEOREM HookTraceHolds == Spec => []HookTrace
<1>1. IInv => HookTrace
  BY DEF IInv, Trace, Left, TraceOf, HookTrace
<1>. QED
  BY <1>1, Invariance, PTL

\* Nobody is asked about a tool that was allowed for good before, not even by
\* a sibling of the same parallel batch.
THEOREM AskedOncePerToolHolds == Spec => AskedOncePerTool
<1>1. IInv /\ [Next]_vars =>
        [\A k \in DOMAIN uses : (k \in prompts' /\ k \notin prompts)
            => uses[k].name \notin always_allowed]_vars
  <2> SUFFICES ASSUME IInv, [Next]_vars, NEW j \in DOMAIN uses, j \in prompts', j \notin prompts
               PROVE  uses[j].name \notin always_allowed
    OBVIOUS
  <2>1. ASSUME NEW k \in DOMAIN uses, Start(k) PROVE uses[j].name \notin always_allowed
    <3>1. j = k
      BY <2>1, StartFacts DEF IInv
    <3>. QED
      BY <2>1, <3>1, StartFacts DEF IInv
  <2>2. CASE Execute \/ Return \/ Drop \/ UNCHANGED vars
    BY <2>2 DEF Execute, Return, Drop, Forget, vars
  <2>3. ASSUME NEW k \in DOMAIN uses, Finish(k) PROVE uses[j].name \notin always_allowed
    BY <2>3 DEF Finish
  <2>. QED
    BY <2>1, <2>2, <2>3 DEF Next
<1>. QED
  BY <1>1, Invariance, PTL DEF Spec, AskedOncePerTool
=============================================================================
