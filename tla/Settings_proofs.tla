--------------------------- MODULE Settings_proofs ---------------------------
(***************************************************************************)
(* Proof that an operation on the settings file that no other one overlaps *)
(* is atomic, for any number of processes, values, tools and operations,   *)
(* and whatever operations that did overlap, failed or died have left      *)
(* behind.                                                                 *)
(***************************************************************************)
EXTENDS Settings, SequenceTheorems, TLAPS

-----------------------------------------------------------------------------
(***************************************************************************)
(* The inductive invariant.                                                *)
(***************************************************************************)
Content ==
    [model : {Unset} \cup Strings, allow : (SUBSET Tools) \cup {NotAList},
     env : [EnvKeys -> {Unset} \cup Strings] \cup {NotAnObject}, extra : BOOLEAN]

Text == Content \cup {Blank, Broken}

\* Shapes of the file system and of the processes.
TypeInv ==
    /\ inodes \in Seq(Text) /\ path \in 0..Len(inodes) /\ tmp \in 0..Len(inodes)
    /\ fd \in [Process -> 0..Len(inodes)]
    /\ pc \in [Process -> {"idle", "create", "write", "rename", "ok", "failed", "died"}]
    /\ op \in [Process -> Op \cup {NoOp}]
    /\ body \in [Process -> Content] /\ before \in [Process -> Content]
    /\ alone \in [Process -> BOOLEAN]

\* The two names never point to one inode, and a process that writes has one.
Names ==
    /\ tmp # 0 => tmp # path
    /\ \A p \in Process : pc[p] = "write" => fd[p] # 0

\* An operation that began alone is alone for as long as it says so.
Alone == \A p \in Process : alone[p] => InFlight \subseteq {p}

\* What an operation that returned Ok made of v.
Done(v, w, o) == IF WrongType(v, o) THEN w = v ELSE OnlyField(v, w, o)

\* How far an operation that is alone has come: the file is as before, the
\* temporary file is its own and, once written, holds all of the new text.
Progress(p) ==
    /\ pc[p] \in {"create", "write", "rename", "ok", "failed", "died"}
    /\ pc[p] \in {"create", "write", "rename", "failed", "died"} => current = before[p]
    /\ pc[p] \in {"create", "write", "rename"} =>
          op[p] \in Op /\ op[p].kind # "set_unknown"
          /\ body[p] = updated(before[p], op[p])
    /\ pc[p] \in {"write", "rename"} => tmp # 0 /\ fd[p] = tmp
    /\ pc[p] = "write" => inodes[tmp] = Blank
    /\ pc[p] = "rename" => inodes[tmp] = body[p]
    /\ pc[p] = "ok" => Done(before[p], current, op[p])

IInv == TypeInv /\ Names /\ Alone /\ \A p \in Process : alone[p] => Progress(p)

-----------------------------------------------------------------------------
(***************************************************************************)
(* Values and operations.                                                  *)
(***************************************************************************)

\* What an operation may do is one of five things.
LEMMA OpKinds ==
    ASSUME NEW o \in Op
    PROVE  \/ o.kind = "set_model" /\ o.arg \in Strings
           \/ o.kind = "set_allow" /\ o.arg \in SUBSET Tools
           \/ o.kind = "set_env" /\ o.arg.key \in EnvKeys /\ o.arg.value \in Strings
           \/ o.kind = "set_unknown"
           \/ o.kind = "append_always_allow" /\ o.arg \in Tools
BY DEF Op

\* A text that is a value is neither blank nor broken.
LEMMA TextKinds ==
    /\ Blank \notin Content /\ Broken \notin Content /\ Empty \in Content
    /\ Blank \in Text /\ Broken \in Text
<1>1. Blank.model = "blank" /\ Broken.model = "broken" /\ \A v \in Content : v.model \in {Unset} \cup Strings
  BY DEF Blank, Broken, Value, Content
<1>2. Blank \notin Content /\ Broken \notin Content
  BY <1>1, SettingsAssumption DEF Unset
<1>3. Empty \in Content
  BY DEF Empty, Value, NoEnv, Content
<1>. QED
  BY <1>2, <1>3 DEF Text

\* The new text is a value, and differs from the old one in the field alone,
\* if that has the type it should have.
LEMMA UpdatedFacts ==
    ASSUME NEW v \in Content, NEW o \in Op
    PROVE  /\ updated(v, o) \in Content
           /\ o.kind # "set_unknown" => Done(v, updated(v, o), o)
           /\ already_present(v, o) => Done(v, v, o)
<1>1. /\ v.model \in {Unset} \cup Strings /\ v.allow \in (SUBSET Tools) \cup {NotAList}
      /\ v.env \in [EnvKeys -> {Unset} \cup Strings] \cup {NotAnObject} /\ v.extra \in BOOLEAN
      /\ v = [model |-> v.model, allow |-> v.allow, env |-> v.env, extra |-> v.extra]
  BY DEF Content
<1>2. CASE o.kind = "set_model" /\ o.arg \in Strings
  BY <1>1, <1>2 DEF updated, OnlyField, WrongType, Done, already_present, Content
<1>3. CASE o.kind = "set_allow" /\ o.arg \in SUBSET Tools
  BY <1>1, <1>3 DEF updated, OnlyField, WrongType, Done, already_present, Content
<1>4. CASE o.kind = "append_always_allow" /\ o.arg \in Tools
  <2>1. CASE v.allow = NotAList
    BY <1>1, <1>4, <2>1 DEF updated, WrongType, Done, already_present, Content
  <2>2. CASE v.allow # NotAList
    <3>1. updated(v, o) = [v EXCEPT !.allow = v.allow \cup {o.arg}]
      BY <1>4, <2>2 DEF updated
    <3>2. v.allow \cup {o.arg} \in SUBSET Tools
      BY <1>1, <1>4, <2>2
    <3>3. updated(v, o) \in Content
      BY <1>1, <3>1, <3>2 DEF Content
    <3>4. OnlyField(v, updated(v, o), o)
      BY <1>1, <1>4, <2>2, <3>1 DEF OnlyField
    <3>5. already_present(v, o) => OnlyField(v, v, o)
      <4>1. already_present(v, o) => v.allow \cup {o.arg} = v.allow
        BY DEF already_present
      <4>. QED
        BY <1>4, <2>2, <4>1 DEF OnlyField
    <3>6. ~WrongType(v, o)
      BY <1>4, <2>2 DEF WrongType
    <3>. QED
      BY <3>3, <3>4, <3>5, <3>6 DEF Done
  <2>. QED
    BY <2>1, <2>2
<1>5. CASE o.kind = "set_env" /\ o.arg.key \in EnvKeys /\ o.arg.value \in Strings
  <2>1. CASE v.env = NotAnObject
    BY <1>1, <1>5, <2>1 DEF updated, WrongType, Done, already_present, Content
  <2>2. CASE v.env # NotAnObject
    <3> DEFINE e == [v.env EXCEPT ![o.arg.key] = o.arg.value]
    <3>1. e \in [EnvKeys -> {Unset} \cup Strings]
      BY <1>1, <1>5, <2>2
    <3>2. \A k \in EnvKeys : e[k] = IF k = o.arg.key THEN o.arg.value ELSE v.env[k]
      BY <1>1, <1>5, <2>2
    <3>3. updated(v, o) = [v EXCEPT !.env = e]
      BY <1>5, <2>2 DEF updated
    <3> HIDE DEF e
    <3>4. updated(v, o) \in Content
      BY <1>1, <3>1, <3>3 DEF Content
    <3>5. /\ updated(v, o).extra = v.extra /\ updated(v, o).model = v.model
          /\ updated(v, o).allow = v.allow /\ updated(v, o).env = e
      BY <1>1, <3>3
    <3>6. OnlyField(v, updated(v, o), o)
      BY <1>5, <3>2, <3>5 DEF OnlyField
    <3>7. ~WrongType(v, o) /\ ~already_present(v, o)
      BY <1>5, <2>2 DEF WrongType, already_present
    <3>. QED
      BY <3>4, <3>6, <3>7 DEF Done
  <2>. QED
    BY <2>1, <2>2
<1>6. CASE o.kind = "set_unknown"
  BY <1>6 DEF updated, already_present
<1>. QED
  BY <1>2, <1>3, <1>4, <1>5, <1>6, OpKinds

\* What a reader of the file makes of it is a value.
LEMMA CurrentFacts ==
    ASSUME TypeInv
    PROVE  /\ current \in Content
           /\ \A i \in 1..Len(inodes) : inodes[i] \in Text
<1>1. \A i \in 1..Len(inodes) : inodes[i] \in Text
  BY ElementOfSeq DEF TypeInv
<1>2. CASE path = 0 \/ inodes[path] \in {Blank, Broken}
  BY <1>1, <1>2, TextKinds DEF current
<1>3. CASE path # 0 /\ inodes[path] \notin {Blank, Broken}
  <2>1. path \in 1..Len(inodes)
    BY <1>3, LenProperties DEF TypeInv
  <2>. QED
    BY <1>1, <1>3, <2>1 DEF current, Text
<1>. QED
  BY <1>1, <1>2, <1>3

-----------------------------------------------------------------------------
(***************************************************************************)
(* The steps.                                                              *)
(***************************************************************************)

\* The initial state satisfies the inductive invariant.
LEMMA InitIInv == Init => IInv
<1> SUFFICES ASSUME Init PROVE IInv
  OBVIOUS
<1>1. PICK allow \in {{}, NotAList}, env \in {NoEnv, NotAnObject} :
            inodes = <<Value(Unset, allow, env, TRUE)>>
  BY DEF Init
<1>2. Value(Unset, allow, env, TRUE) \in Text
  <2>1. NoEnv \in [EnvKeys -> {Unset} \cup Strings]
    BY DEF NoEnv
  <2>. QED
    BY <1>1, <2>1 DEF Value, Text, Content
<1>3. inodes \in Seq(Text) /\ Len(inodes) = 1
  <2> DEFINE v == Value(Unset, allow, env, TRUE)
  <2> HIDE DEF v
  <2>1. inodes = <<v>> /\ v \in Text
    BY <1>1, <1>2 DEF v
  <2>. QED
    BY <2>1
<1>4. \A p \in Process : alone[p] = FALSE
  BY Zenon DEF Init
<1>5. alone \in [Process -> BOOLEAN]
  BY Zenon DEF Init
<1>6. TypeInv
  <2>1. path \in 0..Len(inodes) /\ tmp \in 0..Len(inodes) /\ 0 \in 0..Len(inodes)
    BY <1>3 DEF Init
  <2>2. /\ fd \in [Process -> 0..Len(inodes)]
        /\ op \in [Process -> Op \cup {NoOp}]
        /\ body \in [Process -> Content] /\ before \in [Process -> Content]
    BY <2>1, TextKinds DEF Init
  <2>3. pc \in [Process -> {"idle", "create", "write", "rename", "ok", "failed", "died"}]
    BY DEF Init
  <2>. QED
    BY <1>3, <1>5, <2>1, <2>2, <2>3 DEF TypeInv
<1>7. Names
  BY DEF Init, Names
<1>. QED
  BY <1>4, <1>6, <1>7 DEF IInv, Alone

\* The temporary file, made or emptied, is no other file.
LEMMA CreateFacts ==
    ASSUME TypeInv, Names, NEW p \in Process, Create(p)
    PROVE  /\ inodes' \in Seq(Text) /\ Len(inodes) <= Len(inodes')
           /\ tmp' \in 1..Len(inodes') /\ tmp' # path
           /\ inodes'[tmp'] = Blank
           /\ path # 0 => inodes'[path] = inodes[path]
<1> USE DEF TypeInv
<1>1. Len(inodes) \in Nat /\ DOMAIN inodes = 1..Len(inodes)
  BY LenProperties
<1>2. CASE tmp = 0
  <2>1. inodes' = Append(inodes, Blank) /\ tmp' = Len(inodes')
    BY <1>2 DEF Create
  <2>2. /\ Append(inodes, Blank) \in Seq(Text)
        /\ Len(Append(inodes, Blank)) = Len(inodes) + 1
        /\ \A i \in 1..Len(inodes) : Append(inodes, Blank)[i] = inodes[i]
        /\ Append(inodes, Blank)[Len(inodes) + 1] = Blank
    BY AppendProperties, TextKinds
  <2>. QED
    BY <1>1, <2>1, <2>2
<1>3. CASE tmp # 0
  <2>1. inodes' = [inodes EXCEPT ![tmp] = Blank] /\ tmp' = tmp
    BY <1>3 DEF Create
  <2>2. inodes' \in Seq(Text) /\ Len(inodes') = Len(inodes)
    BY <1>1, <1>3, <2>1, TextKinds, ExceptSeq
  <2>. QED
    BY <1>1, <1>3, <2>1, <2>2 DEF Names
<1>. QED
  BY <1>2, <1>3

\* A file that is written to stays a file.
LEMMA OverwriteFacts ==
    ASSUME NEW s \in Seq(Text), NEW i \in 1..Len(s), NEW x \in Text
    PROVE  /\ [s EXCEPT ![i] = x] \in Seq(Text)
           /\ Len([s EXCEPT ![i] = x]) = Len(s)
           /\ [s EXCEPT ![i] = x][i] = x
           /\ \A j \in 1..Len(s) : j # i => [s EXCEPT ![i] = x][j] = s[j]
<1>1. DOMAIN s = 1..Len(s)
  BY LenProperties
<1>. QED
  BY <1>1, ExceptSeq

\* Every step keeps the shapes of the state and the names apart.
LEMMA TypeStep == TypeInv /\ Names /\ [Next]_vars => TypeInv' /\ Names'
<1> SUFFICES ASSUME TypeInv, Names, [Next]_vars PROVE TypeInv' /\ Names'
  OBVIOUS
<1>a. /\ Len(inodes) \in Nat /\ inodes \in Seq(Text)
      /\ path \in 0..Len(inodes) /\ tmp \in 0..Len(inodes)
      /\ fd \in [Process -> 0..Len(inodes)]
  BY LenProperties DEF TypeInv
<1>b. pc \in [Process -> {"idle", "create", "write", "rename", "ok", "failed", "died"}]
  BY DEF TypeInv
<1>c. UNCHANGED opVars => /\ op' \in [Process -> Op \cup {NoOp}]
                          /\ body' \in [Process -> Content] /\ before' \in [Process -> Content]
                          /\ alone' \in [Process -> BOOLEAN]
  BY DEF opVars, TypeInv
<1>1. ASSUME NEW p \in Process, NEW o \in Op, Begin(p, o) PROVE TypeInv' /\ Names'
  <2>1. UNCHANGED <<inodes, path, tmp, fd>>
    BY <1>1 DEF Begin
  <2>2. pc' \in [Process -> {"idle", "create", "write", "rename", "ok", "failed", "died"}]
    BY <1>1, <1>b DEF Begin
  <2>3. \A q \in Process : pc'[q] = "write" => pc[q] = "write"
    BY <1>1, <1>b DEF Begin
  <2>r. PICK read \in {current, Empty} :
          /\ body' = [body EXCEPT ![p] = updated(read, o)]
          /\ alone' = [q \in Process |-> q = p /\ InFlight = {} /\ read = current]
    BY <1>1, Zenon DEF Begin
  <2>4. alone' \in [Process -> BOOLEAN]
    BY <2>r, Zenon
  <2>5. op' \in [Process -> Op \cup {NoOp}]
    BY <1>1 DEF Begin, TypeInv
  <2>6. current \in Content /\ updated(read, o) \in Content
    BY CurrentFacts, UpdatedFacts, TextKinds
  <2>7. body' \in [Process -> Content] /\ before' \in [Process -> Content]
    BY <1>1, <2>r, <2>6 DEF Begin, TypeInv
  <2>8. TypeInv'
    BY <1>a, <2>1, <2>2, <2>4, <2>5, <2>7 DEF TypeInv
  <2>. QED
    BY <2>1, <2>3, <2>8 DEF Names
<1>2. ASSUME NEW p \in Process, Create(p) PROVE TypeInv' /\ Names'
  <2>1. /\ UNCHANGED <<path, opVars>> /\ fd' = [fd EXCEPT ![p] = tmp']
        /\ pc' = [pc EXCEPT ![p] = "write"]
    BY <1>2 DEF Create
  <2>2. /\ inodes' \in Seq(Text) /\ Len(inodes) <= Len(inodes')
        /\ tmp' \in 1..Len(inodes') /\ tmp' # path
    BY <1>2, CreateFacts
  <2>3. Len(inodes') \in Nat
    BY <2>2, LenProperties
  <2>4. fd' \in [Process -> 0..Len(inodes')] /\ path' \in 0..Len(inodes') /\ tmp' \in 0..Len(inodes')
    BY <1>a, <2>1, <2>2, <2>3
  <2>5. pc' \in [Process -> {"idle", "create", "write", "rename", "ok", "failed", "died"}]
    BY <1>b, <2>1
  <2>6. TypeInv'
    BY <1>c, <2>1, <2>2, <2>4, <2>5 DEF TypeInv
  <2>7. \A q \in Process : pc'[q] = "write" => fd'[q] # 0
    BY <1>a, <1>b, <2>1, <2>2, <2>3 DEF Names
  <2>. QED
    BY <2>1, <2>2, <2>6, <2>7 DEF Names
<1>3. ASSUME NEW p \in Process, Write(p) PROVE TypeInv' /\ Names'
  <2>1. UNCHANGED <<path, tmp, fd, opVars>> /\ pc' = [pc EXCEPT ![p] = "rename"]
    BY <1>3 DEF Write
  <2>2. PICK text \in {body[p]} \cup {Broken} : inodes' = [inodes EXCEPT ![fd[p]] = text]
    BY <1>3 DEF Write
  <2>3. text \in Text /\ fd[p] \in 1..Len(inodes)
    BY <1>3, <1>a, TextKinds DEF Write, Names, TypeInv, Text
  <2>4. inodes' \in Seq(Text) /\ Len(inodes') = Len(inodes)
    BY <1>a, <2>2, <2>3, OverwriteFacts
  <2>5. pc' \in [Process -> {"idle", "create", "write", "rename", "ok", "failed", "died"}]
    BY <1>b, <2>1
  <2>6. TypeInv'
    BY <1>a, <1>c, <2>1, <2>4, <2>5 DEF TypeInv
  <2>. QED
    BY <1>b, <2>1, <2>6 DEF Names
<1>4. ASSUME NEW p \in Process, Rename(p) PROVE TypeInv' /\ Names'
  <2>1. UNCHANGED <<inodes, fd, opVars>> /\ tmp' = 0 /\ path' \in {path, tmp}
    BY <1>4 DEF Rename
  <2>2. pc' \in [Process -> {"idle", "create", "write", "rename", "ok", "failed", "died"}]
    BY <1>4, <1>b DEF Rename
  <2>3. \A q \in Process : pc'[q] = "write" => pc[q] = "write"
    BY <1>4, <1>b DEF Rename
  <2>4. TypeInv'
    BY <1>a, <1>c, <2>1, <2>2 DEF TypeInv
  <2>. QED
    BY <2>1, <2>3, <2>4 DEF Names
<1>5. ASSUME NEW p \in Process, NEW how \in {"failed", "died"}, Stop(p, how)
      PROVE  TypeInv' /\ Names'
  <2>1. UNCHANGED <<path, tmp, fd, opVars>> /\ pc' = [pc EXCEPT ![p] = how]
    BY <1>5 DEF Stop
  <2>2. inodes' \in Seq(Text) /\ Len(inodes') = Len(inodes)
    <3>1. CASE UNCHANGED inodes
      BY <1>a, <3>1
    <3>2. CASE pc[p] = "write" /\ inodes' = [inodes EXCEPT ![fd[p]] = Broken]
      <4>1. fd[p] \in 1..Len(inodes)
        BY <1>a, <3>2 DEF Names
      <4>. QED
        BY <1>a, <3>2, <4>1, OverwriteFacts, TextKinds
    <3>. QED
      BY <1>5, <3>1, <3>2 DEF Stop
  <2>3. pc' \in [Process -> {"idle", "create", "write", "rename", "ok", "failed", "died"}]
    BY <1>b, <2>1
  <2>4. TypeInv'
    BY <1>a, <1>c, <2>1, <2>2, <2>3 DEF TypeInv
  <2>. QED
    BY <1>b, <2>1, <2>4 DEF Names
<1>6. CASE UNCHANGED vars
  <2>1. UNCHANGED opVars /\ UNCHANGED <<inodes, path, tmp, fd, pc>>
    BY <1>6 DEF vars, opVars
  <2>. QED
    BY <1>a, <1>b, <1>c, <2>1 DEF TypeInv, Names
<1>. QED
  BY <1>1, <1>2, <1>3, <1>4, <1>5, <1>6 DEF Next

\* The system calls of an operation under way.
Act(p) == Create(p) \/ Write(p) \/ Rename(p) \/ \E how \in {"failed", "died"} : Stop(p, how)

\* Only Begin puts a process in flight, and it settles who is alone.
LEMMA AloneStep == TypeInv /\ Alone /\ [Next]_vars => Alone'
<1> SUFFICES ASSUME TypeInv, Alone, [Next]_vars, NEW p \in Process, alone'[p],
                    NEW q \in InFlight'
             PROVE  q = p
  BY DEF Alone
<1>a. pc \in [Process -> {"idle", "create", "write", "rename", "ok", "failed", "died"}]
  BY DEF TypeInv
<1>1. ASSUME NEW r \in Process, NEW o \in Op, Begin(r, o) PROVE q = p
  <2>1. p = r /\ InFlight = {}
    <3>1. PICK read \in {current, Empty} :
            alone' = [s \in Process |-> s = r /\ InFlight = {} /\ read = current]
      BY <1>1, Zenon DEF Begin
    <3>. QED
      BY <3>1, Zenon
  <2>2. \A s \in Process : s # r => pc'[s] = pc[s]
    BY <1>1, <1>a DEF Begin
  <2>. QED
    BY <1>a, <2>1, <2>2 DEF InFlight
<1>2. ASSUME NEW r \in Process, Act(r) PROVE q = p
  <2>1. alone' = alone
    BY <1>2 DEF Act, Create, Write, Rename, Stop, opVars
  <2>2. \A s \in Process : s # r => pc'[s] = pc[s]
    BY <1>2, <1>a DEF Act, Create, Write, Rename, Stop
  <2>3. r \in InFlight
    BY <1>2 DEF Act, Create, Write, Rename, Stop, InFlight
  <2>4. q \in InFlight
    BY <2>2, <2>3 DEF InFlight
  <2>. QED
    BY <2>1, <2>4 DEF Alone
<1>3. CASE UNCHANGED vars
  BY <1>3 DEF vars, Alone, InFlight
<1>. QED
  BY <1>1, <1>2, <1>3 DEF Next, Act

\* An operation that is alone goes its way undisturbed.
LEMMA ProgressStep ==
    ASSUME IInv, [Next]_vars, NEW p \in Process, alone'[p]
    PROVE  Progress(p)'
<1>a. TypeInv /\ Names
  BY DEF IInv
<1>b. pc \in [Process -> {"idle", "create", "write", "rename", "ok", "failed", "died"}]
  BY <1>a DEF TypeInv
<1>c. /\ Len(inodes) \in Nat /\ inodes \in Seq(Text)
      /\ path \in 0..Len(inodes) /\ tmp \in 0..Len(inodes)
  BY <1>a, LenProperties DEF TypeInv
<1>d. body[p] \in Content /\ before[p] \in Content
  BY <1>a DEF TypeInv
<1>1. ASSUME NEW q \in Process, NEW o \in Op, Begin(q, o) PROVE Progress(p)'
  <2>r. PICK read \in {current, Empty} :
          /\ body' = [body EXCEPT ![q] = updated(read, o)]
          /\ pc' = [pc EXCEPT ![q] = IF o.kind = "set_unknown" THEN "failed"
                                    ELSE IF already_present(read, o) THEN "ok" ELSE "create"]
          /\ alone' = [s \in Process |-> s = q /\ InFlight = {} /\ read = current]
    BY <1>1, Zenon DEF Begin
  <2>1. p = q /\ read = current
    BY <2>r, Zenon
  <2>2. current' = current
    BY <1>1 DEF Begin, current
  <2>3. /\ before'[p] = current /\ op'[p] = o /\ body'[p] = updated(current, o)
        /\ pc'[p] = IF o.kind = "set_unknown" THEN "failed"
                    ELSE IF already_present(current, o) THEN "ok" ELSE "create"
    BY <1>1, <1>a, <2>r, <2>1 DEF Begin, TypeInv
  <2>4. /\ already_present(current, o) => Done(current, current, o)
        /\ already_present(current, o) => o.kind # "set_unknown"
    BY <1>a, CurrentFacts, UpdatedFacts DEF already_present
  <2>5. CASE already_present(current, o)
    <3>1. pc'[p] = "ok" /\ Done(before'[p], current', op'[p])
      BY <2>2, <2>3, <2>4, <2>5
    <3>2. Done(before[p], current, op[p])' = Done(before'[p], current', op'[p])
      BY DEF Done, WrongType, OnlyField
    <3>. QED
      BY <3>1, <3>2 DEF Progress
  <2>7. CASE o.kind = "set_unknown"
    <3>1. pc'[p] = "failed"
      BY <2>3, <2>7
    <3>. QED
      BY <2>2, <2>3, <3>1 DEF Progress
  <2>6. CASE ~already_present(current, o) /\ o.kind # "set_unknown"
    <3>1. pc'[p] = "create"
      BY <2>3, <2>6
    <3>2. updated(before[p], op[p])' = updated(before'[p], op'[p])
      BY DEF updated
    <3>. QED
      BY <2>2, <2>3, <3>1, <3>2 DEF Progress
  <2>. QED
    BY <2>5, <2>6, <2>7
<1>2. ASSUME NEW q \in Process, Act(q) PROVE Progress(p)'
  <2>1. UNCHANGED <<op, body, before, alone>>
    BY <1>2 DEF Act, Create, Write, Rename, Stop, opVars
  <2>2. q \in InFlight
    BY <1>2 DEF Act, Create, Write, Rename, Stop, InFlight
  <2>3. q = p /\ Progress(p)
    BY <2>1, <2>2 DEF IInv, Alone
  <2>4. p \in InFlight
    BY <2>2, <2>3
  <2>5. /\ current = before[p] /\ op[p] \in Op /\ body[p] = updated(before[p], op[p])
        /\ pc[p] \in {"create", "write", "rename"} /\ op[p].kind # "set_unknown"
    BY <2>3, <2>4 DEF Progress, InFlight
  <2>6. (path' = path /\ (path # 0 => inodes'[path] = inodes[path])) => current' = current
    BY DEF current
  <2>7. updated(before[p], op[p])' = updated(before[p], op[p])
    BY <2>1 DEF updated
  <2>8. CASE Create(p)
    <3>1. pc'[p] = "write" /\ path' = path /\ fd'[p] = tmp'
      BY <2>8, <1>a, <1>b DEF Create, TypeInv
    <3>2. tmp' # 0 /\ inodes'[tmp'] = Blank /\ (path # 0 => inodes'[path] = inodes[path])
      BY <2>8, <1>a, CreateFacts
    <3>3. current' = before'[p]
      BY <2>1, <2>5, <2>6, <3>1, <3>2
    <3>. QED
      BY <2>1, <2>5, <2>7, <3>1, <3>2, <3>3 DEF Progress
  <2>9. CASE Write(p)
    <3>1. pc[p] = "write" /\ pc'[p] = "rename" /\ UNCHANGED <<path, tmp, fd>>
      BY <2>9, <1>b DEF Write
    <3>2. tmp # 0 /\ fd[p] = tmp /\ inodes[tmp] = Blank
      BY <2>3, <3>1 DEF Progress
    <3>3. inodes' = [inodes EXCEPT ![tmp] = body[p]]
      BY <2>9, <3>2 DEF Write
    <3>4. tmp \in 1..Len(inodes) /\ body[p] \in Text /\ tmp # path
      BY <1>a, <1>c, <1>d, <3>2 DEF Names, Text
    <3>5. inodes'[tmp] = body[p] /\ (path # 0 => inodes'[path] = inodes[path])
      BY <1>c, <3>3, <3>4, OverwriteFacts
    <3>6. current' = before'[p]
      BY <2>1, <2>5, <2>6, <3>1, <3>5
    <3>. QED
      BY <2>1, <2>5, <2>7, <3>1, <3>2, <3>5, <3>6 DEF Progress
  <2>10. CASE Rename(p)
    <3>1. pc[p] = "rename"
      BY <2>10 DEF Rename
    <3>2. tmp # 0 /\ inodes[tmp] = body[p]
      BY <2>3, <3>1 DEF Progress
    <3>3. pc'[p] = "ok" /\ path' = tmp /\ inodes' = inodes
      BY <2>10, <1>b, <3>2 DEF Rename
    <3>4. current' = body[p]
      BY <1>d, <3>2, <3>3, TextKinds DEF current
    <3>5. Done(before[p], body[p], op[p])
      BY <1>d, <2>5, UpdatedFacts
    <3>6. Done(before[p], current, op[p])'
      BY <2>1, <3>4, <3>5 DEF Done, WrongType, OnlyField
    <3>. QED
      BY <3>3, <3>6 DEF Progress
  <2>11. ASSUME NEW how \in {"failed", "died"}, Stop(p, how) PROVE Progress(p)'
    <3>1. pc'[p] = how /\ path' = path
      BY <2>11, <1>b DEF Stop
    <3>2. path # 0 => inodes'[path] = inodes[path]
      <4>1. CASE UNCHANGED inodes
        BY <4>1
      <4>2. CASE pc[p] = "write" /\ inodes' = [inodes EXCEPT ![fd[p]] = Broken]
        <5>1. tmp # 0 /\ fd[p] = tmp
          BY <2>3, <4>2 DEF Progress
        <5>2. tmp \in 1..Len(inodes) /\ tmp # path
          BY <1>a, <1>c, <5>1 DEF Names
        <5>. QED
          BY <1>c, <4>2, <5>1, <5>2, OverwriteFacts, TextKinds
      <4>. QED
        BY <2>11, <4>1, <4>2 DEF Stop
    <3>3. current' = before'[p]
      BY <2>1, <2>5, <2>6, <3>1, <3>2
    <3>. QED
      BY <3>1, <3>3 DEF Progress
  <2>. QED
    BY <1>2, <2>3, <2>8, <2>9, <2>10, <2>11 DEF Act
<1>3. CASE UNCHANGED vars
  <2>1. alone[p] /\ Progress(p)
    BY <1>3 DEF vars, IInv
  <2>2. current' = current /\ Done(before[p], current, op[p])' = Done(before[p], current, op[p])
    BY <1>3 DEF vars, current, Done, WrongType, OnlyField
  <2>3. updated(before[p], op[p])' = updated(before[p], op[p])
    BY <1>3 DEF vars, updated
  <2>4. UNCHANGED <<inodes, tmp, pc, op, body, fd, before>>
    BY <1>3 DEF vars
  <2>. QED
    BY <2>1, <2>2, <2>3, <2>4 DEF Progress
<1>. QED
  BY <1>1, <1>2, <1>3 DEF Next, Act

-----------------------------------------------------------------------------
(***************************************************************************)
(* The theorems.                                                           *)
(***************************************************************************)

\* The invariant is inductive: it holds in every reachable state.
THEOREM Invariance == Spec => []IInv
<1>1. Init => IInv
  BY InitIInv
<1>2. IInv /\ [Next]_vars => IInv'
  BY TypeStep, AloneStep, ProgressStep DEF IInv
<1>. QED
  BY <1>1, <1>2, PTL DEF Spec

\* set and append_always_allow are atomic single-field updates that keep
\* unknown keys, for an operation that can read the file and that no other one
\* overlaps: writes that fail, crashes, and whatever overlapping, failing or dying operations left in
\* the two files before, included; over an entry of another JSON type they
\* return Ok and change nothing.
THEOREM AloneIsAtomicHolds == Spec => []AloneIsAtomic
<1>1. IInv => AloneIsAtomic
  <2> SUFFICES ASSUME IInv, NEW p \in Process, alone[p]
               PROVE  /\ (p \in InFlight \/ pc[p] \in {"failed", "died"}) => current = before[p]
                      /\ pc[p] = "ok" => Done(before[p], current, op[p])
    BY DEF AloneIsAtomic, Done
  <2>1. Progress(p)
    BY DEF IInv
  <2>. QED
    BY <2>1 DEF Progress, InFlight
<1>. QED
  BY <1>1, Invariance, PTL
=============================================================================
