----------------------------- MODULE Serve_proofs ----------------------------
(***************************************************************************)
(* Proofs about Serve, for any number of requests and addresses, any cap,  *)
(* any rate and any unit of time: the session cap and its counter, the     *)
(* rate the token bucket lets through, and the honesty of Retry-After.     *)
(***************************************************************************)
EXTENDS Serve, SequenceTheorems, FiniteSetTheorems, TLAPS

-----------------------------------------------------------------------------
(***************************************************************************)
(* Types.  A request reads the clock before it locks the buckets, so what  *)
(* it carries is at most the clock.                                        *)
(***************************************************************************)
PcType == {"away", "timed", "passed", "limited", "refusing", "refused",
           "holding", "running", "done"}

Bucket == [at : Nat, tokens : Nat]

ServeType ==
    /\ clock \in 0..MaxTime
    /\ buckets \in [Ips -> Bucket \cup {Absent}]
    /\ active \in Int
    /\ pc \in [Requests -> PcType]
    /\ req \in [Requests -> [ip : Ips \cup {NoReq.ip}, route : Route, now : Nat]]
    /\ accepted \in [Ips -> Seq(Nat)]
    /\ rewound \in [Ips -> Nat]
    /\ promised \in [Ips -> Nat]
    /\ \A r \in Requests :
          pc[r] = "timed" => req[r].ip \in Ips /\ req[r].now <= clock /\ rpm > 0

\* Absent is no bucket, and Never is later than any clock reading.
LEMMA Constants ==
    /\ rpm \in Nat /\ max_sessions \in Nat /\ Minute \in Nat /\ Minute > 0 /\ MaxTime \in Nat
    /\ cap \in Nat /\ (rpm > 0 => cap >= Minute)
    /\ Never \in Nat /\ Never > MaxTime
    /\ Absent \notin Bucket
    /\ \A b \in Bucket : b.at \in Nat /\ b.tokens \in Nat
<1>1. /\ rpm \in Nat /\ max_sessions \in Nat /\ Minute \in Nat /\ Minute > 0 /\ MaxTime \in Nat
  BY ServeAssumption
<1>2. rpm * Minute \in Nat /\ (rpm > 0 => rpm * Minute >= Minute)
  BY <1>1
<1>3. Absent.at = -1
  BY DEF Absent
<1>4. Absent \notin Bucket
  BY <1>3 DEF Bucket
<1>. QED
  BY <1>1, <1>2, <1>4 DEF cap, Never, Bucket

-----------------------------------------------------------------------------
(***************************************************************************)
(* The arithmetic of the bucket.                                           *)
(***************************************************************************)

\* Rounded-up division: that many units of time bring at least x parts.
LEMMA RoundedUp ==
    ASSUME NEW x \in Nat, x > 0, NEW q \in Nat, q > 0
    PROVE  /\ (x + q - 1) \div q \in Nat /\ (x + q - 1) \div q >= 1
           /\ q * ((x + q - 1) \div q) >= x
<1> DEFINE y == x + q - 1
           d == y \div q
<1>1. y \in Nat /\ y >= q /\ d \in Int /\ q * d + q > y /\ q * d <= y
  OBVIOUS
<1>. HIDE DEF d
<1>2. q * d >= x
  BY <1>1
<1>3. d >= 1
  <2>1. q * d > 0
    BY <1>1, <1>2
  <2>2. ASSUME d <= 0 PROVE q * d <= 0
    <3> DEFINE e == 0 - d
    <3>1. e \in Nat /\ d = 0 - e
      BY <1>1, <2>2
    <3>. HIDE DEF e
    <3>2. q * e \in Nat /\ q * (0 - e) = 0 - q * e
      BY <3>1
    <3>. QED
      BY <3>1, <3>2
  <2>. QED
    BY <1>1, <2>1, <2>2
<1>. QED
  BY <1>1, <1>2, <1>3 DEF d

\* What refilled returns: a number of parts within the bucket, no more than
\* were left and came in since, and the whole bucket for a new address.
LEMMA Refill ==
    ASSUME NEW b \in Bucket \cup {Absent}, NEW now \in Nat,
           b \in Bucket => b.tokens <= cap
    PROVE  LET tokens == refilled(b, now) IN
           /\ tokens \in Nat /\ tokens <= cap
           /\ b \in Bucket => tokens <= b.tokens + duration_since(now, b.at) * rpm
           /\ b \in Bucket /\ tokens < cap =>
                 tokens = b.tokens + duration_since(now, b.at) * rpm
           /\ b \in Bucket => duration_since(now, b.at) \in Nat
<1>0. cap \in Nat /\ rpm \in Nat
  BY Constants
<1>1. CASE b = Absent
  BY <1>0, <1>1, Constants DEF refilled
<1>2. CASE b \in Bucket
  <2> DEFINE D == duration_since(now, b.at)
             full == b.tokens + D * rpm
  <2>1. b.at \in Nat /\ b.tokens \in Nat /\ b # Absent
    BY <1>2, Constants
  <2>2. D \in Nat
    BY <2>1 DEF duration_since
  <2>. HIDE DEF D
  <2>3. D * rpm \in Nat
    BY <1>0, <2>2
  <2>4. full \in Nat
    BY <2>1, <2>3
  <2>5. refilled(b, now) = IF full > cap THEN cap ELSE full
    BY <2>1 DEF refilled, D
  <2>. HIDE DEF full
  <2>6. refilled(b, now) \in Nat /\ refilled(b, now) <= cap /\ refilled(b, now) <= full
        /\ (refilled(b, now) < cap => refilled(b, now) = full)
    BY <1>0, <2>4, <2>5
  <2>. QED
    BY <1>2, <2>1, <2>2, <2>6 DEF full, D
<1>. QED
  BY <1>1, <1>2

-----------------------------------------------------------------------------
(***************************************************************************)
(* Type correctness.                                                       *)
(***************************************************************************)

\* A token bucket never holds more than its capacity.
Filled == \A i \in Ips : buckets[i] \in Bucket => buckets[i].tokens <= cap

\* One check, in the terms the proofs use: the parts there are when request r
\* has the lock, how far it puts the bucket's time back, and its two outcomes.
Parts(r) == refilled(buckets[req[r].ip], req[r].now)
Back(r)  == LET at == buckets[req[r].ip].at
            IN  IF req[r].now < at THEN at - req[r].now ELSE 0

Accepts(r, i, now) ==
    /\ Parts(r) >= Minute
    /\ buckets' = [buckets EXCEPT ![i] = [at |-> now, tokens |-> Parts(r) - Minute]]
    /\ pc' = [pc EXCEPT ![r] = "passed"]
    /\ accepted' = [accepted EXCEPT ![i] = Append(@, now + (rewound[i] + Back(r)))]
    /\ promised' = [promised EXCEPT ![i] = Never]

Rejects(r, i, now) ==
    /\ Parts(r) < Minute
    /\ buckets' = [buckets EXCEPT ![i] = [at |-> now, tokens |-> Parts(r)]]
    /\ pc' = [pc EXCEPT ![r] = "limited"]
    /\ accepted' = accepted
    /\ promised' = [promised EXCEPT ![i] = now + retry_after(Parts(r))]

Checked(r, i, now) ==
    /\ i \in Ips /\ now \in Nat /\ now <= clock /\ rpm > 0
    /\ i = req[r].ip /\ now = req[r].now
    /\ buckets[i] \in Bucket \cup {Absent}
    /\ Parts(r) \in Nat /\ Parts(r) <= cap /\ Back(r) \in Nat
    /\ Accepts(r, i, now) \/ Rejects(r, i, now)
    /\ rewound' = [rewound EXCEPT ![i] = @ + Back(r)]
    /\ req' = [req EXCEPT ![r].now = 0]
    /\ UNCHANGED <<clock, active>>

\* A step of check is one of the two answers, on the refilled bucket.
LEMMA CheckFacts ==
    ASSUME ServeType, Filled, NEW r \in Requests, Check(r)
    PROVE  \E i, now : Checked(r, i, now)
<1> DEFINE i == req[r].ip
           now == req[r].now
           b == buckets[i]
<1>1. i \in Ips /\ now \in Nat /\ now <= clock /\ rpm > 0
  BY DEF Check, ServeType
<1>2. b \in Bucket \cup {Absent}
  BY <1>1 DEF ServeType
<1>3. Parts(r) \in Nat /\ Parts(r) <= cap
  <2>1. Parts(r) = refilled(b, now)
    BY DEF Parts
  <2>. HIDE DEF now
  <2>. QED
    BY <1>1, <1>2, <2>1, Refill DEF Filled
<1>4. Back(r) \in Nat
  <2>1. b.at \in Nat \/ b.at = -1
    BY <1>2, Constants DEF Absent
  <2>2. Back(r) = IF now < b.at THEN b.at - now ELSE 0
    BY DEF Back
  <2>. HIDE DEF b, now
  <2>. QED
    BY <1>1, <2>1, <2>2
<1>5. rewound' = [rewound EXCEPT ![i] = @ + Back(r)] /\ rewound'[i] = rewound[i] + Back(r)
  BY <1>1 DEF Check, ServeType, Back
<1>6. /\ IF Parts(r) >= Minute
         THEN /\ buckets' = [buckets EXCEPT ![i] = [at |-> now, tokens |-> Parts(r) - Minute]]
              /\ pc' = [pc EXCEPT ![r] = "passed"]
              /\ accepted' = [accepted EXCEPT ![i] = Append(@, now + rewound'[i])]
              /\ promised' = [promised EXCEPT ![i] = Never]
         ELSE /\ buckets' = [buckets EXCEPT ![i] = [at |-> now, tokens |-> Parts(r)]]
              /\ pc' = [pc EXCEPT ![r] = "limited"]
              /\ promised' = [promised EXCEPT ![i] = now + retry_after(Parts(r))]
              /\ UNCHANGED accepted
      /\ req' = [req EXCEPT ![r].now = 0]
      /\ UNCHANGED <<clock, active>>
  BY DEF Check, Parts
<1>. HIDE DEF i, now, b
<1>7. Accepts(r, i, now) \/ Rejects(r, i, now)
  <2>1. CASE Parts(r) >= Minute
    BY <1>5, <1>6, <2>1 DEF Accepts
  <2>2. CASE ~(Parts(r) >= Minute)
    <3>1. Parts(r) < Minute
      BY <1>3, <2>2, Constants
    <3>. QED
      BY <1>6, <2>2, <3>1 DEF Rejects
  <2>. QED
    BY <2>1, <2>2
<1>8. Checked(r, i, now)
  BY <1>1, <1>2, <1>3, <1>4, <1>5, <1>6, <1>7 DEF Checked, i, now, b
<1>. QED
  BY <1>8

\* The check keeps the types, and the bucket within its capacity.
LEMMA TypeCheck ==
    ASSUME ServeType, Filled, NEW r \in Requests, Check(r)
    PROVE  ServeType' /\ Filled'
<1>1. PICK i, now : Checked(r, i, now)
  BY CheckFacts
<1>2. /\ i \in Ips /\ now \in Nat /\ now <= clock /\ rpm > 0
      /\ Parts(r) \in Nat /\ Parts(r) <= cap /\ Back(r) \in Nat
      /\ rewound' = [rewound EXCEPT ![i] = @ + Back(r)]
      /\ req' = [req EXCEPT ![r].now = 0]
      /\ UNCHANGED <<clock, active>>
  BY <1>1 DEF Checked
<1>3. \E left \in Nat, p \in {"passed", "limited"} :
        /\ left <= cap
        /\ buckets' = [buckets EXCEPT ![i] = [at |-> now, tokens |-> left]]
        /\ pc' = [pc EXCEPT ![r] = p]
        /\ accepted' \in [Ips -> Seq(Nat)]
        /\ promised' \in [Ips -> Nat]
  <2>1. CASE Accepts(r, i, now)
    <3>1. Parts(r) - Minute \in Nat /\ Parts(r) - Minute <= cap
      BY <1>2, <2>1, Constants DEF Accepts
    <3>2. now + (rewound[i] + Back(r)) \in Nat
      BY <1>2 DEF ServeType
    <3>3. accepted' \in [Ips -> Seq(Nat)]
      BY <1>2, <2>1, <3>2 DEF ServeType, Accepts
    <3>4. promised' \in [Ips -> Nat]
      BY <1>2, <2>1, Constants DEF ServeType, Accepts
    <3>. QED
      BY <2>1, <3>1, <3>3, <3>4 DEF Accepts
  <2>2. CASE Rejects(r, i, now)
    <3>1. Minute - Parts(r) \in Nat /\ Minute - Parts(r) > 0
      BY <1>2, <2>2, Constants DEF Rejects
    <3>2. retry_after(Parts(r)) \in Nat
      BY <1>2, <3>1, RoundedUp, Constants DEF retry_after
    <3>3. promised' \in [Ips -> Nat]
      BY <1>2, <2>2, <3>2 DEF ServeType, Rejects
    <3>. QED
      BY <1>2, <2>2, <3>3 DEF ServeType, Rejects
  <2>. QED
    BY <1>1, <2>1, <2>2 DEF Checked
<1>4. PICK left \in Nat, p \in {"passed", "limited"} :
        /\ left <= cap
        /\ buckets' = [buckets EXCEPT ![i] = [at |-> now, tokens |-> left]]
        /\ pc' = [pc EXCEPT ![r] = p]
        /\ accepted' \in [Ips -> Seq(Nat)]
        /\ promised' \in [Ips -> Nat]
  BY <1>3
<1>5. [at |-> now, tokens |-> left] \in Bucket
  BY <1>2 DEF Bucket
<1>6. buckets' \in [Ips -> Bucket \cup {Absent}] /\ Filled'
  BY <1>2, <1>4, <1>5 DEF ServeType, Filled
<1>7. rewound' \in [Ips -> Nat] /\ pc' \in [Requests -> PcType]
  BY <1>2, <1>4 DEF ServeType, PcType
<1>8. req' \in [Requests -> [ip : Ips \cup {NoReq.ip}, route : Route, now : Nat]]
  BY <1>2 DEF ServeType
<1>9. ASSUME NEW q \in Requests, pc'[q] = "timed"
      PROVE  req'[q].ip \in Ips /\ req'[q].now <= clock' /\ rpm > 0
  <2>1. q # r /\ pc[q] = "timed" /\ req'[q] = req[q]
    BY <1>2, <1>4, <1>9 DEF ServeType
  <2>. QED
    BY <1>2, <2>1 DEF ServeType
<1>. QED
  BY <1>2, <1>4, <1>6, <1>7, <1>8, <1>9 DEF ServeType

\* The steps that leave clock and buckets alone.
LEMMA TypeOthers ==
    ASSUME ServeType, NEW r \in Requests, Acquire(r) \/ Refuse(r) \/ Unauthorized(r) \/ Start(r) \/ End(r)
    PROVE  ServeType' /\ UNCHANGED rateVars
<1>1. /\ \E p \in PcType \ {"timed"} : pc' = [pc EXCEPT ![r] = p]
      /\ active' \in Int
      /\ UNCHANGED rateVars
  <2>1. CASE Acquire(r)
    <3>1. \E p \in {"refusing", "holding"} : pc' = [pc EXCEPT ![r] = p]
      BY <2>1 DEF Acquire
    <3>2. \E p \in PcType \ {"timed"} : pc' = [pc EXCEPT ![r] = p]
      BY <3>1 DEF PcType
    <3>3. active' \in Int /\ UNCHANGED rateVars
      BY <2>1 DEF Acquire, ServeType, rateVars
    <3>. QED
      BY <3>2, <3>3
  <2>2. CASE Refuse(r) \/ Unauthorized(r) \/ Start(r) \/ End(r)
    BY <2>2 DEF Refuse, Unauthorized, Start, End, drops_guard, ServeType, PcType, rateVars
  <2>. QED
    BY <2>1, <2>2
<1>2. pc' \in [Requests -> PcType] /\ \A q \in Requests : pc'[q] = "timed" => pc[q] = "timed"
  BY <1>1 DEF ServeType
<1>. QED
  BY <1>1, <1>2 DEF ServeType, rateVars

TypeInv == ServeType /\ Filled

\* Every step keeps the shapes, and no bucket above its size.
LEMMA TypeStep == TypeInv /\ [Next]_vars => TypeInv'
<1> SUFFICES ASSUME TypeInv, [Next]_vars PROVE TypeInv'
  OBVIOUS
<1>1. CASE Tick
  BY <1>1, ServeAssumption DEF Tick, TypeInv, ServeType, Filled
<1>2. ASSUME NEW r \in Requests, NEW i \in Ips, NEW route \in Route, Arrive(r, i, route)
      PROVE  TypeInv'
  <2>1. /\ pc' = [pc EXCEPT ![r] = IF rpm = 0 THEN "passed" ELSE "timed"]
        /\ req' = [req EXCEPT ![r] = [ip |-> i, route |-> route, now |-> clock]]
        /\ UNCHANGED <<clock, buckets, active, accepted, rewound, promised>>
    BY <1>2 DEF Arrive
  <2>2. /\ pc' \in [Requests -> PcType]
        /\ req' \in [Requests -> [ip : Ips \cup {NoReq.ip}, route : Route, now : Nat]]
    BY <2>1 DEF TypeInv, ServeType, PcType
  <2>3. ASSUME NEW q \in Requests, pc'[q] = "timed"
        PROVE  req'[q].ip \in Ips /\ req'[q].now <= clock' /\ rpm > 0
    <3>1. CASE q = r
      BY <2>1, <2>3, <3>1, Constants DEF TypeInv, ServeType
    <3>2. CASE q # r
      BY <2>1, <2>3, <3>2 DEF TypeInv, ServeType
    <3>. QED
      BY <3>1, <3>2
  <2>. QED
    BY <2>1, <2>2, <2>3 DEF TypeInv, ServeType, Filled
<1>3. ASSUME NEW r \in Requests, Check(r) PROVE TypeInv'
  BY <1>3, TypeCheck DEF TypeInv
<1>4. ASSUME NEW r \in Requests, Acquire(r) \/ Refuse(r) \/ Unauthorized(r) \/ Start(r) \/ End(r)
      PROVE  TypeInv'
  BY <1>4, TypeOthers DEF TypeInv, Filled, rateVars
<1>5. CASE UNCHANGED vars
  BY <1>5 DEF vars, TypeInv, ServeType, Filled
<1>. QED
  BY <1>1, <1>2, <1>3, <1>4, <1>5 DEF Next

\* The server's shared state keeps its shape, no thread carries a reading from
\* the future, and no bucket holds more than a minute's tokens.
THEOREM TypeInvariance == Spec => []TypeInv
<1>1. Init => TypeInv
  <2> SUFFICES ASSUME Init PROVE TypeInv
    OBVIOUS
  <2>1. req \in [Requests -> [ip : Ips \cup {NoReq.ip}, route : Route, now : Nat]]
    BY DEF Init, NoReq, Route
  <2>2. clock \in 0..MaxTime /\ promised \in [Ips -> Nat]
    BY Constants DEF Init
  <2>. QED
    BY <2>1, <2>2, Constants DEF Init, TypeInv, ServeType, Filled, PcType
<1>. QED
  BY <1>1, TypeStep, PTL DEF Spec

-----------------------------------------------------------------------------
(***************************************************************************)
(* The session slots.  The counter counts the requests that have passed    *)
(* fetch_add and not yet fetch_sub, and those are finitely many at any     *)
(* time, however many requests there may be.  That makes the cap follow:   *)
(* whoever is let through saw a counter below it.                          *)
(***************************************************************************)
Counted == {"holding", "running", "refusing"}

SlotInv == IsFiniteSet(At(Counted)) /\ NoSlotLeaks /\ SessionCap

\* Those let through are among those counted.
LEMMA HoldersCounted ==
    ASSUME IsFiniteSet(At(Counted))
    PROVE  /\ IsFiniteSet(At({"holding", "running"}))
           /\ Cardinality(At({"holding", "running"})) <= Cardinality(At(Counted))
           /\ Cardinality(At({"holding", "running"})) \in Nat
           /\ Cardinality(At(Counted)) \in Nat
<1>1. At({"holding", "running"}) \in SUBSET At(Counted)
  BY DEF At, Counted
<1>. QED
  BY <1>1, FS_Subset, FS_CardinalityType

\* One request moves.
LEMMA SlotStep ==
    ASSUME TypeInv, SlotInv, NEW r \in Requests, NEW p \in PcType,
           pc' = [pc EXCEPT ![r] = p],
           \/ pc[r] \in Counted /\ p \in Counted /\ active' = active
           \/ pc[r] \notin Counted /\ p \notin Counted /\ active' = active
           \/ pc[r] \notin Counted /\ p \in Counted /\ active' = active + 1
           \/ pc[r] \in Counted /\ p \notin Counted /\ active' = active - 1,
           p \in {"holding", "running"} /\ pc[r] \notin {"holding", "running"} => active < max_sessions
    PROVE  SlotInv'
<1> DEFINE C == At(Counted)
           H == At({"holding", "running"})
<1>1. pc \in [Requests -> PcType] /\ pc' \in [Requests -> PcType] /\ active \in Int
  BY DEF TypeInv, ServeType
<1>2. /\ C' = IF p \in Counted THEN C \cup {r} ELSE C \ {r}
      /\ H' = IF p \in {"holding", "running"} THEN H \cup {r} ELSE H \ {r}
      /\ r \in C <=> pc[r] \in Counted
      /\ r \in H <=> pc[r] \in {"holding", "running"}
  <2>1. \A q \in Requests : pc'[q] = IF q = r THEN p ELSE pc[q]
    BY <1>1
  <2>. QED
    BY <2>1 DEF At
<1>3. /\ IsFiniteSet(C) /\ active = Cardinality(C)
      /\ IsFiniteSet(H) /\ Cardinality(H) <= Cardinality(C)
      /\ Cardinality(H) \in Nat /\ Cardinality(C) \in Nat
      /\ Cardinality(H) <= max_sessions
  BY HoldersCounted DEF SlotInv, NoSlotLeaks, SessionCap, Counted
<1>. HIDE DEF C, H
<1>4. IsFiniteSet(C') /\ active' = Cardinality(C')
  <2>1. CASE p \in Counted
    BY <1>1, <1>2, <1>3, <2>1, FS_AddElement
  <2>2. CASE p \notin Counted
    BY <1>1, <1>2, <1>3, <2>2, FS_RemoveElement
  <2>. QED
    BY <2>1, <2>2
<1>5. Cardinality(H') <= max_sessions
  <2>1. CASE p \in {"holding", "running"} /\ r \in H
    BY <1>2, <1>3, <2>1, FS_AddElement
  <2>2. CASE p \in {"holding", "running"} /\ r \notin H
    <3>1. active < max_sessions
      BY <1>2, <2>2
    <3>2. Cardinality(H') = Cardinality(H) + 1
      BY <1>2, <1>3, <2>2, FS_AddElement
    <3>. QED
      BY <1>1, <1>3, <3>1, <3>2, Constants
  <2>3. CASE p \notin {"holding", "running"}
    <3>1. Cardinality(H') = IF r \in H THEN Cardinality(H) - 1 ELSE Cardinality(H)
      BY <1>2, <1>3, <2>3, FS_RemoveElement
    <3>. QED
      BY <1>3, <3>1, Constants
  <2>. QED
    BY <2>1, <2>2, <2>3
<1>. QED
  BY <1>4, <1>5 DEF SlotInv, NoSlotLeaks, SessionCap, C, H, Counted

\* At most max_sessions requests are past session_acquire, and the counter is
\* exactly the number of requests that hold a slot or are about to give one
\* back, whatever the interleaving and on every way out of a handler.
THEOREM SlotInvariance == Spec => []SlotInv
<1>1. Init => SlotInv
  <2> SUFFICES ASSUME Init PROVE SlotInv
    OBVIOUS
  <2>1. At(Counted) = {} /\ At({"holding", "running"}) = {}
    BY DEF Init, At, Counted
  <2>2. IsFiniteSet(At(Counted)) /\ Cardinality(At(Counted)) = 0
        /\ Cardinality(At({"holding", "running"})) = 0
    BY <2>1, FS_EmptySet
  <2>3. active = 0 /\ max_sessions >= 0
    BY Constants DEF Init
  <2>. QED
    BY <2>2, <2>3 DEF SlotInv, NoSlotLeaks, SessionCap, Counted
<1>2. TypeInv /\ SlotInv /\ [Next]_vars => SlotInv'
  <2> SUFFICES ASSUME TypeInv, SlotInv, [Next]_vars PROVE SlotInv'
    OBVIOUS
  <2>0. active \in Int
    BY DEF TypeInv, ServeType
  <2>1. CASE Tick \/ UNCHANGED vars
    BY <2>1 DEF Tick, vars, SlotInv, NoSlotLeaks, SessionCap, At
  <2>2. ASSUME NEW r \in Requests, NEW i \in Ips, NEW route \in Route, Arrive(r, i, route)
        PROVE  SlotInv'
    <3>1. PICK p \in {"passed", "timed"} : pc' = [pc EXCEPT ![r] = p]
      BY <2>2 DEF Arrive
    <3>2. /\ pc[r] \notin Counted /\ p \notin Counted /\ active' = active
          /\ p \in PcType /\ p \notin {"holding", "running"}
      BY <2>2 DEF Arrive, Counted, PcType
    <3>. QED
      BY <3>1, <3>2, SlotStep
  <2>3. ASSUME NEW r \in Requests, Check(r) PROVE SlotInv'
    <3>1. PICK p \in {"passed", "limited"} : pc' = [pc EXCEPT ![r] = p]
      BY <2>3 DEF Check
    <3>2. /\ pc[r] \notin Counted /\ p \notin Counted /\ active' = active
          /\ p \in PcType /\ p \notin {"holding", "running"}
      BY <2>3 DEF Check, Counted, PcType
    <3>. QED
      BY <3>1, <3>2, SlotStep
  <2>4. ASSUME NEW r \in Requests, Acquire(r) PROVE SlotInv'
    <3>1. /\ pc[r] = "passed" /\ active' = active + 1
          /\ pc' = [pc EXCEPT ![r] = IF active >= max_sessions THEN "refusing" ELSE "holding"]
      BY <2>4 DEF Acquire, cap_reached
    <3>2. PICK p \in {"refusing", "holding"} :
              pc' = [pc EXCEPT ![r] = p] /\ (p = "holding" => ~(active >= max_sessions))
      BY <3>1
    <3>3. /\ pc[r] \notin Counted /\ p \in Counted /\ p \in PcType
          /\ p \in {"holding", "running"} => active < max_sessions
      BY <2>0, <3>1, <3>2, Constants DEF Counted, PcType
    <3>. QED
      BY <3>1, <3>2, <3>3, SlotStep
  <2>5. ASSUME NEW r \in Requests, Refuse(r) PROVE SlotInv'
    <3>1. /\ pc[r] = "refusing" /\ active' = active - 1
          /\ pc' = [pc EXCEPT ![r] = "refused"]
      BY <2>5 DEF Refuse
    <3>2. pc[r] \in Counted /\ "refused" \notin Counted /\ "refused" \in PcType
      BY <3>1 DEF Counted, PcType
    <3>. QED
      BY <3>1, <3>2, SlotStep
  <2>6. ASSUME NEW r \in Requests, Start(r) PROVE SlotInv'
    <3>1. pc[r] = "holding" /\ active' = active /\ pc' = [pc EXCEPT ![r] = "running"]
      BY <2>6 DEF Start
    <3>2. pc[r] \in Counted /\ "running" \in Counted /\ "running" \in PcType
      BY <3>1 DEF Counted, PcType
    <3>. QED
      BY <3>1, <3>2, SlotStep
  <2>7. ASSUME NEW r \in Requests, Unauthorized(r) \/ End(r) PROVE SlotInv'
    <3>1. /\ pc[r] \in {"holding", "running"} /\ active' = active - 1
          /\ pc' = [pc EXCEPT ![r] = "done"]
      BY <2>7 DEF Unauthorized, End, drops_guard
    <3>2. pc[r] \in Counted /\ "done" \notin Counted /\ "done" \in PcType
      BY <3>1 DEF Counted, PcType
    <3>. QED
      BY <3>1, <3>2, SlotStep
  <2>. QED
    BY <2>1, <2>2, <2>3, <2>4, <2>5, <2>6, <2>7 DEF Next
<1>. QED
  BY <1>1, <1>2, TypeInvariance, PTL DEF Spec

\* The session cap is hard.
THEOREM SessionCapHolds == Spec => []SessionCap
BY SlotInvariance, PTL DEF SlotInv

\* No way out of a handler leaks a slot.
THEOREM NoSlotLeaksHolds == Spec => []NoSlotLeaks
BY SlotInvariance, PTL DEF SlotInv

-----------------------------------------------------------------------------
(***************************************************************************)
(* The rate.  RateHolds compares two accepted requests and says nothing of *)
(* the bucket, so it is not inductive.  What is: for every accepted        *)
(* request j, the requests accepted since and the parts still in the       *)
(* bucket fit into one bucket and the refill of the credited time since j. *)
(* Credited time moves on by exactly what duration_since counts.           *)
(***************************************************************************)
Credited(i) == buckets[i].at + rewound[i]

PotentialInv ==
    \A i \in Ips :
        /\ buckets[i] = Absent => accepted[i] = <<>>
        /\ \A j \in DOMAIN accepted[i] :
              (Len(accepted[i]) - j + 1) * Minute + buckets[i].tokens
                 <= cap + rpm * (Credited(i) - accepted[i][j])

RateInv == PotentialInv /\ RateHolds

\* What the bucket of address i has room for after a check, in numbers.
LEMMA CheckPotential ==
    ASSUME TypeInv, PotentialInv, NEW r \in Requests, NEW i, NEW now, Checked(r, i, now),
           NEW j \in DOMAIN accepted[i]
    PROVE  (Len(accepted[i]) - j + 1) * Minute + Parts(r)
              <= cap + rpm * ((now + (rewound[i] + Back(r))) - accepted[i][j])
<1> DEFINE b == buckets[i]
           D == duration_since(now, b.at)
           n == Len(accepted[i]) - j + 1
           a == accepted[i][j]
<1>1. /\ i \in Ips /\ now \in Nat /\ i = req[r].ip /\ now = req[r].now
      /\ b \in Bucket \cup {Absent} /\ Parts(r) \in Nat
      /\ accepted[i] \in Seq(Nat) /\ rewound[i] \in Nat
  BY DEF Checked, TypeInv, ServeType
<1>2. j \in 1..Len(accepted[i]) /\ Len(accepted[i]) \in Nat /\ a \in Nat /\ n \in Int
  <2>1. j \in 1..Len(accepted[i]) /\ Len(accepted[i]) \in Nat
    BY <1>1, LenProperties
  <2>2. a \in Nat
    BY <1>1, <2>1, ElementOfSeq
  <2>. QED
    BY <2>1, <2>2
<1>3. b \in Bucket
  <2>1. accepted[i] # <<>>
    BY <1>2, EmptySeq
  <2>. QED
    BY <1>1, <2>1 DEF PotentialInv
<1>4. b.at \in Nat /\ b.tokens \in Nat /\ b.tokens <= cap
  BY <1>1, <1>3, Constants DEF TypeInv, Filled
<1>5. D \in Nat /\ Parts(r) <= b.tokens + D * rpm
  <2>1. Parts(r) = refilled(b, now)
    BY <1>1 DEF Parts
  <2>. QED
    BY <1>1, <1>3, <1>4, <2>1, Refill
<1>6. now + (rewound[i] + Back(r)) = (b.at + rewound[i]) + D
  <2>1. Back(r) = IF now < b.at THEN b.at - now ELSE 0
    BY <1>1 DEF Back
  <2>2. D = IF now > b.at THEN now - b.at ELSE 0
    BY DEF duration_since
  <2>3. Back(r) \in Nat
    BY DEF Checked
  <2>. HIDE DEF b, D
  <2>4. CASE now < b.at
    <3>1. Back(r) = b.at - now /\ D = 0
      BY <1>1, <1>4, <2>1, <2>2, <2>4
    <3>. QED
      BY <1>1, <1>4, <3>1
  <2>5. CASE ~(now < b.at)
    <3>1. Back(r) = 0 /\ D = now - b.at
      BY <1>1, <1>4, <2>1, <2>2, <2>5
    <3>. QED
      BY <1>1, <1>4, <3>1
  <2>. QED
    BY <2>4, <2>5
<1>7. n * Minute + b.tokens <= cap + rpm * ((b.at + rewound[i]) - a)
  BY <1>1 DEF PotentialInv, Credited
<1> DEFINE X == b.at + rewound[i]
<1>8. X \in Int /\ cap \in Int /\ rpm \in Int /\ Minute \in Int
  BY <1>1, <1>4, Constants, SMTT(40)
<1>9. n * Minute + b.tokens <= cap + rpm * (X - a)
  BY <1>7
<1>. HIDE DEF b, D, n, a, X
<1>10. /\ rpm * ((X + D) - a) = rpm * (X - a) + D * rpm
       /\ rpm * (X - a) \in Int /\ D * rpm \in Int /\ n * Minute \in Int
  BY <1>2, <1>5, <1>8
<1>11. n * Minute + Parts(r) <= cap + rpm * ((X + D) - a)
  BY <1>1, <1>4, <1>5, <1>8, <1>9, <1>10, SMTT(40)
<1>12. now + (rewound[i] + Back(r)) = X + D
  BY <1>6 DEF X
<1>. QED
  BY <1>11, <1>12 DEF n, a

\* A check keeps the rate.
LEMMA RateCheck ==
    ASSUME TypeInv, RateInv, NEW r \in Requests, Check(r)
    PROVE  RateInv'
<1>1. PICK i, now : Checked(r, i, now)
  BY CheckFacts DEF TypeInv
<1> DEFINE s == accepted[i]
           m == Len(s)
           T == now + (rewound[i] + Back(r))
<1>2. /\ i \in Ips /\ now \in Nat /\ Parts(r) \in Nat /\ Back(r) \in Nat /\ Parts(r) <= cap
      /\ s \in Seq(Nat) /\ m \in Nat /\ DOMAIN s = 1..m /\ rewound[i] \in Nat /\ T \in Nat
      /\ \A j \in 1..m : s[j] \in Nat
  BY <1>1, LenProperties, ElementOfSeq, SMTT(40) DEF Checked, TypeInv, ServeType
<1>3. cap \in Nat /\ rpm \in Nat /\ Minute \in Nat
  BY Constants
<1>4. ASSUME NEW j \in 1..m PROVE (m - j + 1) * Minute + Parts(r) <= cap + rpm * (T - s[j])
  BY <1>1, <1>2, <1>4, CheckPotential DEF RateInv
<1>5. rewound' = [rewound EXCEPT ![i] = @ + Back(r)] /\ rewound'[i] = rewound[i] + Back(r)
  BY <1>1, <1>2 DEF Checked, TypeInv, ServeType
<1>6. ASSUME NEW k \in Ips, k # i
      PROVE  buckets'[k] = buckets[k] /\ accepted'[k] = accepted[k] /\ rewound'[k] = rewound[k]
  BY <1>1, <1>2, <1>6 DEF Checked, Accepts, Rejects, TypeInv, ServeType
<1>7. CASE Rejects(r, i, now)
  <2>1. /\ buckets'[i] = [at |-> now, tokens |-> Parts(r)] /\ accepted' = accepted
    BY <1>2, <1>7 DEF Rejects, TypeInv, ServeType
  <2>2. buckets'[i] # Absent
    BY <1>2, <2>1 DEF Absent
  <2>3. Credited(i)' = T /\ buckets'[i].tokens = Parts(r)
    BY <1>2, <1>5, <2>1 DEF Credited
  <2>4. \A j \in DOMAIN accepted'[i] : (Len(accepted'[i]) - j + 1) * Minute + buckets'[i].tokens
                                          <= cap + rpm * (Credited(i)' - accepted'[i][j])
    BY <1>2, <1>4, <2>1, <2>3
  <2>5. PotentialInv'
    BY <1>6, <2>2, <2>4 DEF RateInv, PotentialInv, Credited
  <2>. QED
    BY <2>1, <2>5 DEF RateInv, RateHolds
<1>8. CASE Accepts(r, i, now)
  <2> DEFINE t == Append(s, T)
             left == Parts(r) - Minute
  <2>1. buckets'[i] = [at |-> now, tokens |-> left] /\ accepted'[i] = t /\ left \in Nat
    BY <1>2, <1>3, <1>8 DEF Accepts, TypeInv, ServeType
  <2>2. /\ t \in Seq(Nat) /\ Len(t) = m + 1 /\ t[m + 1] = T /\ DOMAIN t = 1..(m + 1)
        /\ \A j \in 1..m : t[j] = s[j]
    BY <1>2, AppendProperties, LenProperties
  <2>. HIDE DEF t, T, m, s
  <2>3. ASSUME NEW j \in 1..(m + 1)
        PROVE  (m + 1 - j + 1) * Minute + left <= cap + rpm * (T - t[j])
    <3>1. CASE j = m + 1
      <4>1. T - t[j] = 0 /\ m + 1 - j + 1 = 1
        BY <1>2, <2>2, <3>1
      <4>2. (m + 1 - j + 1) * Minute = Minute /\ rpm * (T - t[j]) = 0
        BY <1>3, <4>1
      <4> DEFINE P == (m + 1 - j + 1) * Minute
                 Q == rpm * (T - t[j])
      <4>3. P = Minute /\ Q = 0
        BY <4>2
      <4>. HIDE DEF P, Q
      <4>4. P + left <= cap + Q
        BY <1>2, <1>3, <4>3
      <4>. QED
        BY <4>4 DEF P, Q
    <3>2. CASE j # m + 1
      <4>1. j \in 1..m
        BY <1>2, <3>2
      <4>2. (m - j + 1) * Minute + Parts(r) <= cap + rpm * (T - t[j])
        BY <1>4, <2>2, <4>1
      <4>3. (m + 1 - j + 1) * Minute = (m - j + 1) * Minute + Minute
        BY <1>2, <1>3, <4>1
      <4>4. (m - j + 1) * Minute \in Int
        BY <1>2, <1>3, <4>1
      <4>5. rpm * (T - t[j]) \in Int
        BY <1>2, <1>3, <2>2, <4>1, SMTT(40)
      <4>. HIDE DEF left
      <4>6. left = Parts(r) - Minute
        BY DEF left
      <4>. QED
        BY <1>2, <1>3, <2>1, <4>2, <4>3, <4>4, <4>5, <4>6
    <3>. QED
      BY <3>1, <3>2
  <2>4. buckets'[i] # Absent
    BY <1>2, <2>1 DEF Absent
  <2>5. Credited(i)' = T /\ buckets'[i].tokens = left
    BY <1>2, <1>5, <2>1 DEF Credited, T
  <2>6. \A j \in DOMAIN accepted'[i] : (Len(accepted'[i]) - j + 1) * Minute + buckets'[i].tokens
                                          <= cap + rpm * (Credited(i)' - accepted'[i][j])
    <3>1. Len(accepted'[i]) = m + 1 /\ DOMAIN accepted'[i] = 1..(m + 1)
      BY <2>1, <2>2
    <3>. HIDE DEF left
    <3>2. ASSUME NEW j \in 1..(m + 1)
          PROVE  (Len(accepted'[i]) - j + 1) * Minute + buckets'[i].tokens
                    <= cap + rpm * (Credited(i)' - accepted'[i][j])
      <4>1. accepted'[i][j] = t[j]
        BY <2>1
      <4>2. (m + 1 - j + 1) * Minute + left <= cap + rpm * (T - t[j])
        BY <2>3
      <4>3. (Len(accepted'[i]) - j + 1) * Minute = (m + 1 - j + 1) * Minute
        BY <1>2, <1>3, <3>1
      <4>4. rpm * (Credited(i)' - accepted'[i][j]) = rpm * (T - t[j])
        BY <2>5, <4>1
      <4>5. buckets'[i].tokens = left
        BY <2>5
      <4>. QED
        BY <4>2, <4>3, <4>4, <4>5
    <3>. QED
      BY <3>1, <3>2
  <2>7. PotentialInv'
    BY <1>6, <2>4, <2>6 DEF RateInv, PotentialInv, Credited
  <2>8. ASSUME NEW j \in 1..(m + 1), NEW k \in 1..(m + 1), j <= k
        PROVE  (k - j + 1) * Minute <= cap + rpm * (t[k] - t[j])
    <3>1. CASE k = m + 1
      <4>1. (m + 1 - j + 1) * Minute + left <= cap + rpm * (t[k] - t[j])
        BY <2>2, <2>3, <3>1
      <4>2. (m + 1 - j + 1) * Minute \in Int
        BY <1>2, <1>3
      <4>3. t[k] \in Nat /\ t[j] \in Nat
        BY <2>2, ElementOfSeq
      <4>4. rpm * (t[k] - t[j]) \in Int
        BY <1>3, <4>3
      <4>5. (k - j + 1) * Minute = (m + 1 - j + 1) * Minute
        BY <1>2, <1>3, <3>1
      <4>. HIDE DEF left
      <4>. QED
        BY <1>3, <2>1, <4>1, <4>2, <4>4, <4>5
    <3>2. CASE k # m + 1
      <4>1. j \in 1..m /\ k \in 1..m
        BY <1>2, <2>8, <3>2
      <4>2. (k - j + 1) * Minute <= cap + rpm * (s[k] - s[j])
        BY <1>2, <2>8, <4>1 DEF RateInv, RateHolds, s, m
      <4>. QED
        BY <2>2, <4>1, <4>2
    <3>. QED
      BY <3>1, <3>2
  <2>9. RateHolds'
    BY <1>6, <2>1, <2>2, <2>8 DEF RateInv, RateHolds
  <2>. QED
    BY <2>7, <2>9 DEF RateInv
<1>. QED
  BY <1>1, <1>7, <1>8 DEF Checked

\* Between any two accepted requests of an address lie no more requests than
\* one bucket and the refill of the credited time, however many threads check
\* at once and in whatever order they get the lock.
THEOREM RateHoldsProved == Spec => []RateHolds
<1>1. Init => RateInv
  BY DEF Init, RateInv, PotentialInv, RateHolds
<1>2. TypeInv /\ RateInv /\ [Next]_vars => RateInv'
  <2> SUFFICES ASSUME TypeInv, RateInv, [Next]_vars PROVE RateInv'
    OBVIOUS
  <2>1. ASSUME NEW r \in Requests, Check(r) PROVE RateInv'
    BY <2>1, RateCheck
  <2>2. ASSUME UNCHANGED <<buckets, accepted, rewound>> PROVE RateInv'
    BY <2>2 DEF RateInv, PotentialInv, Credited, RateHolds
  <2>3. CASE Tick \/ UNCHANGED vars
    BY <2>2, <2>3 DEF Tick, vars
  <2>4. ASSUME NEW r \in Requests, NEW i \in Ips, NEW route \in Route, Arrive(r, i, route)
        PROVE  RateInv'
    BY <2>2, <2>4 DEF Arrive
  <2>5. ASSUME NEW r \in Requests,
               Acquire(r) \/ Refuse(r) \/ Unauthorized(r) \/ Start(r) \/ End(r)
        PROVE  RateInv'
    BY <2>2, <2>5, TypeOthers DEF TypeInv, rateVars
  <2>. QED
    BY <2>1, <2>3, <2>4, <2>5 DEF Next
<1>. QED
  BY <1>1, <1>2, TypeInvariance, PTL DEF Spec, RateInv

-----------------------------------------------------------------------------
(***************************************************************************)
(* Retry-After.  A promise stands as long as the bucket it was computed    *)
(* from is untouched; the next check of the address replaces both.         *)
(***************************************************************************)
PromiseInv ==
    \A i \in Ips : \/ promised[i] = Never
                   \/ /\ rpm > 0
                      /\ buckets[i] \in Bucket /\ buckets[i].tokens < Minute
                      /\ promised[i] = buckets[i].at + retry_after(buckets[i].tokens)

\* A promise that stands is kept: by then the refill brings the missing parts.
LEMMA PromiseKept == TypeInv /\ PromiseInv => RetryAfterHonest
<1> SUFFICES ASSUME TypeInv, PromiseInv, NEW i \in Ips, clock >= promised[i]
             PROVE  refilled(buckets[i], clock) >= Minute
  BY DEF RetryAfterHonest
<1> DEFINE b == buckets[i]
           w == retry_after(b.tokens)
           D == duration_since(clock, b.at)
           full == b.tokens + D * rpm
<1>1. clock \in Nat /\ clock < Never
  BY Constants DEF TypeInv, ServeType
<1>2. promised[i] # Never
  BY <1>1, Constants DEF TypeInv, ServeType
<1>3. /\ rpm > 0 /\ b \in Bucket /\ b.tokens < Minute /\ promised[i] = b.at + w
      /\ b.at \in Nat /\ b.tokens \in Nat /\ b # Absent
  BY <1>2, Constants DEF PromiseInv
<1>4. w \in Nat /\ w >= 1 /\ rpm * w >= Minute - b.tokens
  <2> DEFINE x == Minute - b.tokens
  <2>1. x \in Nat /\ x > 0 /\ rpm \in Nat
    BY <1>3, Constants
  <2>2. w = (x + rpm - 1) \div rpm
    BY DEF retry_after
  <2>. HIDE DEF x, w
  <2>3. w \in Nat /\ w >= 1 /\ rpm * w >= x
    BY <1>3, <2>1, <2>2, RoundedUp
  <2>. QED
    BY <2>3 DEF x
<1>. HIDE DEF w
<1>5. D \in Nat /\ D >= w
  BY <1>1, <1>3, <1>4 DEF duration_since
<1>. HIDE DEF D, b
<1>6. D * rpm \in Nat /\ D * rpm >= rpm * w
  <2>1. PICK e \in Nat : D = w + e
    <3>1. D - w \in Nat /\ D = w + (D - w)
      BY <1>4, <1>5
    <3>. QED
      BY <3>1
  <2>2. rpm * e \in Nat /\ rpm * w \in Nat
    BY <1>4, Constants
  <2>3. D * rpm = rpm * w + rpm * e
    BY <1>4, <2>1, Constants
  <2>. QED
    BY <2>2, <2>3
<1>7. full \in Nat /\ full >= Minute
  <2>1. rpm * w \in Int /\ Minute \in Nat
    BY <1>4, Constants
  <2>. QED
    BY <1>3, <1>4, <1>6, <2>1
<1>8. refilled(b, clock) = IF full > cap THEN cap ELSE full
  BY <1>3 DEF refilled, D
<1>. HIDE DEF full
<1>9. refilled(b, clock) >= Minute
  BY <1>3, <1>7, <1>8, Constants
<1>. QED
  BY <1>9 DEF b

\* Once the time a refusal named has passed, and nobody else at the address was
\* served in between, the next request is let through.
THEOREM RetryAfterHonestHolds == Spec => []RetryAfterHonest
<1>1. Init => PromiseInv
  BY DEF Init, PromiseInv
<1>2. TypeInv /\ PromiseInv /\ [Next]_vars => PromiseInv'
  <2> SUFFICES ASSUME TypeInv, PromiseInv, [Next]_vars PROVE PromiseInv'
    OBVIOUS
  <2>1. ASSUME NEW r \in Requests, Check(r) PROVE PromiseInv'
    <3>1. PICK i, now : Checked(r, i, now)
      BY <2>1, CheckFacts DEF TypeInv
    <3>2. /\ i \in Ips /\ now \in Nat /\ rpm > 0 /\ Parts(r) \in Nat
          /\ buckets \in [Ips -> Bucket \cup {Absent}] /\ promised \in [Ips -> Nat]
      BY <3>1 DEF Checked, TypeInv, ServeType
    <3>3. CASE Accepts(r, i, now)
      BY <3>2, <3>3 DEF Accepts, PromiseInv
    <3>4. CASE Rejects(r, i, now)
      <4>1. /\ buckets'[i] = [at |-> now, tokens |-> Parts(r)] /\ Parts(r) < Minute
            /\ promised'[i] = now + retry_after(Parts(r))
        BY <3>2, <3>4 DEF Rejects
      <4>2. buckets'[i] \in Bucket /\ buckets'[i].at = now /\ buckets'[i].tokens = Parts(r)
        BY <3>2, <4>1 DEF Bucket
      <4>3. \A k \in Ips : k # i => buckets'[k] = buckets[k] /\ promised'[k] = promised[k]
        BY <3>2, <3>4 DEF Rejects
      <4>. QED
        BY <3>2, <4>1, <4>2, <4>3 DEF PromiseInv
    <3>. QED
      BY <3>1, <3>3, <3>4 DEF Checked
  <2>2. ASSUME UNCHANGED <<buckets, promised>> PROVE PromiseInv'
    BY <2>2 DEF PromiseInv
  <2>3. CASE Tick \/ UNCHANGED vars
    BY <2>2, <2>3 DEF Tick, vars
  <2>4. ASSUME NEW r \in Requests, NEW i \in Ips, NEW route \in Route, Arrive(r, i, route)
        PROVE  PromiseInv'
    BY <2>2, <2>4 DEF Arrive
  <2>5. ASSUME NEW r \in Requests,
               Acquire(r) \/ Refuse(r) \/ Unauthorized(r) \/ Start(r) \/ End(r)
        PROVE  PromiseInv'
    BY <2>2, <2>5, TypeOthers DEF TypeInv, rateVars
  <2>. QED
    BY <2>1, <2>3, <2>4, <2>5 DEF Next
<1>. QED
  BY <1>1, <1>2, TypeInvariance, PromiseKept, PTL DEF Spec
=============================================================================
