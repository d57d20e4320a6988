-------------------------------- MODULE Serve --------------------------------
(***************************************************************************)
(* Admission of requests by "aether serve" (aether-cli/src/main.rs): the   *)
(* token bucket of RateLimiter, the session counter and its guard, shared  *)
(* by every request of /v1/messages and /ws/chat.                          *)
(*                                                                         *)
(* Requests run on the threads of the async runtime.  A request reads the  *)
(* clock before it locks the buckets, and increments the counter before it *)
(* compares: those are separate steps.  Tokens are counted in parts, a     *)
(* minute's worth of parts to a token, so that a refill is a whole number; *)
(* the code counts in f64.                                                 *)
(***************************************************************************)
EXTENDS Integers, Sequences, FiniteSets

CONSTANTS
    Requests,
    Ips,            \* what extract_client_ip may return, "unknown" included
    rpm,            \* RateLimiter.rpm, 0 = off
    max_sessions,
    Minute,         \* units of time in a minute (60 s in the code)
    MaxTime         \* bound: units of time that pass

ASSUME ServeAssumption ==
    /\ rpm \in Nat /\ max_sessions \in Nat
    /\ Minute \in Nat \ {0} /\ MaxTime \in Nat

VARIABLES
    clock,
    buckets,    \* RateLimiter.buckets: time of the last update and parts left
    active,     \* ServeState.active
    pc,         \* where each request is
    req,        \* each request's address, route and clock reading
    accepted,   \* ghost: by address, the credited time of every accepted request
    rewound,    \* ghost: by address, how far late threads put the bucket's time back
    promised    \* ghost: by address, when the last refusal said to try again, or Never

vars == <<clock, buckets, active, pc, req, accepted, rewound, promised>>

Absent == [at |-> -1, tokens |-> -1]
Never  == MaxTime + 60 * Minute
Route  == {"messages", "chat"}
NoReq  == [ip |-> CHOOSE i \in Ips : TRUE, route |-> "messages", now |-> 0]

Init ==
    /\ clock = 0
    /\ buckets = [i \in Ips |-> Absent]
    /\ active = 0
    /\ pc = [r \in Requests |-> "away"]
    /\ req = [r \in Requests |-> NoReq]
    /\ accepted = [i \in Ips |-> <<>>]
    /\ rewound = [i \in Ips |-> 0]
    /\ promised = [i \in Ips |-> Never]

-----------------------------------------------------------------------------
(***************************************************************************)
(* RateLimiter::check                                                      *)
(***************************************************************************)
cap == rpm * Minute

\* duration_since saturates: a reading older than the bucket's counts as 0.
duration_since(now, at) == IF now > at THEN now - at ELSE 0

\* Mutant: the bucket may overflow.
refilled_uncapped(b, now) ==
    IF b = Absent THEN cap ELSE b.tokens + duration_since(now, b.at) * rpm

refilled(b, now) ==
    LET full == b.tokens + duration_since(now, b.at) * rpm
    IN  IF b = Absent \/ full > cap THEN cap ELSE full

\* Mutant: rounded down.
retry_after_floor(tokens) == (Minute - tokens) \div rpm

\* Time until one token is there, rounded up.
retry_after(tokens) == (Minute - tokens + rpm - 1) \div rpm

\* The handler is called; the limiter, when on, reads the clock.
Arrive(r, i, route) ==
    /\ pc[r] = "away"
    /\ pc' = [pc EXCEPT ![r] = IF rpm = 0 THEN "passed" ELSE "timed"]
    /\ req' = [req EXCEPT ![r] = [ip |-> i, route |-> route, now |-> clock]]
    /\ UNCHANGED <<clock, buckets, active, accepted, rewound, promised>>

\* With the buckets locked.
Check(r) ==
    LET i      == req[r].ip
        now    == req[r].now
        tokens == refilled(buckets[i], now)
        back   == IF now < buckets[i].at THEN buckets[i].at - now ELSE 0
    IN  /\ pc[r] = "timed"
        /\ rewound' = [rewound EXCEPT ![i] = @ + back]
        /\ IF tokens >= Minute
           THEN /\ buckets' = [buckets EXCEPT ![i] = [at |-> now, tokens |-> tokens - Minute]]
                /\ pc' = [pc EXCEPT ![r] = "passed"]
                /\ accepted' = [accepted EXCEPT ![i] = Append(@, now + rewound'[i])]
                /\ promised' = [promised EXCEPT ![i] = Never]
           ELSE /\ buckets' = [buckets EXCEPT ![i] = [at |-> now, tokens |-> tokens]]
                /\ pc' = [pc EXCEPT ![r] = "limited"]
                /\ promised' = [promised EXCEPT ![i] = now + retry_after(tokens)]
                /\ UNCHANGED accepted
        /\ req' = [req EXCEPT ![r].now = 0]
        /\ UNCHANGED <<clock, active>>

-----------------------------------------------------------------------------
(***************************************************************************)
(* session_acquire and SessionGuard                                        *)
(***************************************************************************)
rateVars == <<clock, buckets, req, accepted, rewound, promised>>

\* Mutant: the cap itself is let through.
cap_reached_late(prev) == prev > max_sessions

cap_reached(prev) == prev >= max_sessions

\* fetch_add, and the comparison of the value it returned.
Acquire(r) ==
    /\ pc[r] = "passed"
    /\ active' = active + 1
    /\ pc' = [pc EXCEPT ![r] = IF cap_reached(active) THEN "refusing" ELSE "holding"]
    /\ UNCHANGED rateVars

\* fetch_sub, and the 503.
Refuse(r) ==
    /\ pc[r] = "refusing"
    /\ active' = active - 1
    /\ pc' = [pc EXCEPT ![r] = "refused"]
    /\ UNCHANGED rateVars

\* Mutant: the slot is given back by the code after the turn, not by a guard.
drops_guard_late(r) == active' = IF pc[r] = "running" THEN active - 1 ELSE active

\* SessionGuard::drop, on whatever way out.
drops_guard(r) == active' = active - 1

\* A chat request with a wrong bearer token: 401, after the slot was taken.
Unauthorized(r) ==
    /\ pc[r] = "holding" /\ req[r].route = "chat"
    /\ drops_guard(r)
    /\ pc' = [pc EXCEPT ![r] = "done"]
    /\ UNCHANGED rateVars

\* The turn begins, or the upgrade of the connection.
Start(r) ==
    /\ pc[r] = "holding"
    /\ pc' = [pc EXCEPT ![r] = "running"]
    /\ UNCHANGED <<rateVars, active>>

\* The turn returns or panics, the client goes away and the handler's future or
\* the socket's task is dropped, or the upgrade fails.
End(r) ==
    /\ pc[r] = "running"
    /\ drops_guard(r)
    /\ pc' = [pc EXCEPT ![r] = "done"]
    /\ UNCHANGED rateVars

Tick ==
    /\ clock < MaxTime
    /\ clock' = clock + 1
    /\ UNCHANGED <<buckets, active, pc, req, accepted, rewound, promised>>

Next ==
    \/ Tick
    \/ \E r \in Requests :
          \/ \E i \in Ips, route \in Route : Arrive(r, i, route)
          \/ Check(r) \/ Acquire(r) \/ Refuse(r)
          \/ Unauthorized(r) \/ Start(r) \/ End(r)

Spec == Init /\ [][Next]_vars

-----------------------------------------------------------------------------
At(states) == {r \in Requests : pc[r] \in states}

\* The hard cap of ServeState: however the increments, the comparisons and the
\* releases of concurrent requests interleave, at most max_sessions of them are
\* past session_acquire.
SessionCap == Cardinality(At({"holding", "running"})) <= max_sessions

\* "A panic / early return still releases the slot": the counter is the number
\* of requests that hold a slot or are about to give one back, so no way out of
\* a handler leaks one, and an idle server is back at zero.
NoSlotLeaks == active = Cardinality(At({"holding", "running", "refusing"}))

\* A burst of at most rpm requests, then rpm per minute: between any two
\* accepted requests of an address lie no more than the bucket holds and the
\* credited time refills.  Credited time is the clock, plus what threads that
\* took the lock late put the bucket's time back: only that much is refilled twice.
RateHolds ==
    \A i \in Ips : \A j, k \in DOMAIN accepted[i] :
        j <= k => (k - j + 1) * Minute <= cap + rpm * (accepted[i][k] - accepted[i][j])

\* Retry-After tells the truth: once that time has passed, and nobody else at
\* the address was served in between, the next request is let through.
RetryAfterHonest ==
    \A i \in Ips : clock >= promised[i] => refilled(buckets[i], clock) >= Minute
=============================================================================
