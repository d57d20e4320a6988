--------------------------------- MODULE Rpc ---------------------------------
(***************************************************************************)
(* What an MCP client promises to the tasks that use it (the Client trait  *)
(* of aether-mcp/src/lib.rs), whatever the transport: a call comes back    *)
(* once, with the answer the server gave to that very call or with an      *)
(* error, and a task that gave up on a call gets nothing from it later.    *)
(* Calls are numbered in the order they are made.                          *)
(***************************************************************************)
EXTENDS Integers

CONSTANTS
    Callers,   \* tasks that use the client
    MaxReq     \* bound: calls

VARIABLES
    serial,    \* calls made so far
    mine,      \* per task: the number of its latest call
    busy,      \* tasks whose call has not come back
    reply,     \* per task: what its latest call returned, 0 if nothing
    served     \* calls the server has answered

rpcVars == <<serial, mine, busy, reply, served>>

Error == -1

Init ==
    /\ serial = 0
    /\ mine = [c \in Callers |-> 0]
    /\ busy = {}
    /\ reply = [c \in Callers |-> 0]
    /\ served = {}

Call(c) ==
    /\ c \notin busy
    /\ serial < MaxReq
    /\ serial' = serial + 1
    /\ mine' = [mine EXCEPT ![c] = serial + 1]
    /\ busy' = busy \cup {c}
    /\ reply' = [reply EXCEPT ![c] = 0]
    /\ UNCHANGED served

\* The server answers a call that was made; nobody needs to be waiting.
Serve ==
    /\ \E n \in 1..serial : served' = served \cup {n}
    /\ UNCHANGED <<serial, mine, busy, reply>>

Return(c) ==
    /\ c \in busy
    /\ busy' = busy \ {c}
    /\ \E r \in {Error} \cup ({mine[c]} \cap served) : reply' = [reply EXCEPT ![c] = r]
    /\ UNCHANGED <<serial, mine, served>>

\* The task is dropped while it waits, and starts over with nothing.
GiveUp(c) ==
    /\ c \in busy
    /\ busy' = busy \ {c}
    /\ UNCHANGED <<serial, mine, reply, served>>

Next ==
    \/ \E c \in Callers : Call(c) \/ Return(c) \/ GiveUp(c)
    \/ Serve

Spec == Init /\ [][Next]_rpcVars
=============================================================================
