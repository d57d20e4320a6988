------------------------------- MODULE McpStdio ------------------------------
(***************************************************************************)
(* The stdio MCP client (StdioClient in aether-mcp/src/lib.rs): tasks send *)
(* JSON-RPC requests to a server process over its stdin and wait for the   *)
(* answer a reader task routes to them from the server's stdout.           *)
(*                                                                         *)
(* One mutex guards both the stdin pipe and the map of pending requests.   *)
(* A request holds it over its whole write, the reader takes it for every  *)
(* response, and a request whose timer ran out takes it to remove itself.  *)
(* The mutex is tokio's: first come, first served, so it is the queue of   *)
(* its waiters with the owner at the head.  Pipes have a capacity; what    *)
(* does not fit waits.  The server reads a request, then answers it, and   *)
(* does neither while a write of its own is blocked.  A caller may be      *)
(* dropped at any await: Ctrl-C drops the whole turn it runs in.           *)
(***************************************************************************)
EXTENDS Integers, Sequences, SequencesExt

CONSTANTS
    Callers,     \* tasks that use the client
    Size,        \* units of pipe a request takes
    InCap,       \* capacity of the stdin pipe, in units
    OutCap,      \* capacity of the stdout pipe, in messages
    BadLines,    \* whether the server may write a line that is not UTF-8
    MaxReq,      \* bound: requests
    MaxNotes     \* bound: notifications the server pushes

ASSUME McpAssumption ==
    /\ "reader" \notin Callers
    /\ Size \in Nat \ {0} /\ InCap \in Nat \ {0} /\ OutCap \in Nat \ {0}
    /\ MaxReq \in Nat /\ MaxNotes \in Nat /\ BadLines \in BOOLEAN

VARIABLES
    mutex,      \* state.lock(): owner first, then the waiters in order
    pending,    \* ClientState.pending: id, and the waiter it belongs to
    next_id,
    pc,         \* per caller
    id,         \* per caller: the id of its current request
    left,       \* per caller: units of the request still to be written
    rx,         \* per caller: what the oneshot channel holds, 0 if nothing
    reply,      \* per caller: how the last request ended
    stdin, stdout,
    reader,     \* the reader task
    line,       \* the response the reader is routing
    server,     \* "up" or "down"
    writing,    \* the message the server is writing, 0 if none
    notes,
    half,       \* the end of stdin is a line that will never be finished
    serial,     \* ghost: requests made so far
    mine,       \* ghost: per caller, the serial number of its request
    failed,     \* ghost: ids of requests whose write failed or that were dropped
    served      \* ghost: requests the server has answered

vars == <<mutex, pending, next_id, pc, id, left, rx, reply, stdin, stdout, reader,
          line, server, writing, notes, half, serial, mine, failed, served>>

callerVars == <<pc, id, left, rx, reply, mine>>
serverVars == <<server, writing, notes>>

\* A wire message: the id it carries and the request it answers.
Msg(i, n) == [id |-> i, n |-> n]
NoMsg     == Msg(0, 0)
Note      == Msg(0, -1)

Closed == -1

Owns(who) == mutex # <<>> /\ Head(mutex) = who
Lock(who) == mutex' = Append(mutex, who)

\* Mutant: the guard is never dropped.
Unlock_leaked == UNCHANGED mutex

Unlock == mutex' = Tail(mutex)

\* A task that is aborted gives up the mutex or its place in the queue.
Leave(who) ==
    \/ /\ \A i \in DOMAIN mutex : mutex[i] # who
       /\ UNCHANGED mutex
    \/ \E i \in DOMAIN mutex : mutex[i] = who /\ mutex' = RemoveAt(mutex, i)

Init ==
    /\ mutex = <<>> /\ pending = {} /\ next_id = 1
    /\ pc = [c \in Callers |-> "idle"]
    /\ id = [c \in Callers |-> 0]
    /\ left = [c \in Callers |-> 0]
    /\ rx = [c \in Callers |-> 0]
    /\ reply = [c \in Callers |-> 0]
    /\ stdin = <<>> /\ stdout = <<>>
    /\ reader = "reading" /\ line = NoMsg
    /\ server = "up" /\ writing = NoMsg /\ notes = 0
    /\ serial = 0
    /\ mine = [c \in Callers |-> 0]
    /\ failed = {}
    /\ half = FALSE /\ served = {}

-----------------------------------------------------------------------------
\* Mutant: the counter is read but not advanced.
fetch_add_reuse(c) ==
    /\ id' = [id EXCEPT ![c] = next_id]
    /\ UNCHANGED next_id

\* next_id.fetch_add(1): caller c's request gets the next number.
fetch_add(c) ==
    /\ id' = [id EXCEPT ![c] = next_id]
    /\ next_id' = next_id + 1

\* Mutant: a caller keeps one channel for all its requests.
channel_kept(c) == UNCHANGED rx

\* oneshot::channel(): every request waits on a channel of its own.
channel(c) == rx' = [rx EXCEPT ![c] = 0]

\* Mutant: everybody's entry is removed.
remove_all(i) == pending' = {}

\* Mutant: the entry stays.
remove_none(i) == UNCHANGED pending

\* pending.remove(&id)
remove(i) == pending' = {p \in pending : p.id # i}

\* What request() writes: the line and its newline.
line_size == Size

(***************************************************************************)
(* request(), cut at its awaits.                                           *)
(***************************************************************************)
Request(c) ==
    /\ pc[c] = "idle"
    /\ serial < MaxReq
    /\ fetch_add(c)
    /\ serial' = serial + 1
    /\ mine' = [mine EXCEPT ![c] = serial + 1]
    /\ channel(c)
    /\ reply' = [reply EXCEPT ![c] = 0]
    /\ pc' = [pc EXCEPT ![c] = "locking"]
    /\ Lock(c)
    /\ UNCHANGED <<pending, left, stdin, stdout, reader, line, serverVars, failed, half,
                   served>>

Insert(c) ==
    /\ pc[c] = "locking" /\ Owns(c)
    /\ pending' = {p \in pending : p.id # id[c]}
                     \cup {[id |-> id[c], caller |-> c, n |-> mine[c]]}
    /\ left' = [left EXCEPT ![c] = line_size]
    /\ pc' = [pc EXCEPT ![c] = "writing"]
    /\ UNCHANGED <<mutex, next_id, id, rx, reply, mine, stdin, stdout, reader, line,
                   serverVars, serial, failed, half, served>>

\* One unit into the pipe; the last one is the newline and the flush.  A line
\* that continues an abandoned one is not a request the server can read.
Write(c) ==
    /\ pc[c] = "writing" /\ server = "up"
    /\ Len(stdin) < InCap
    /\ stdin' = Append(stdin, IF left[c] = 1 /\ ~half THEN Msg(id[c], mine[c]) ELSE NoMsg)
    /\ left' = [left EXCEPT ![c] = @ - 1]
    /\ IF left[c] = 1
       THEN /\ Unlock
            /\ pc' = [pc EXCEPT ![c] = "waiting"]
            /\ half' = FALSE
       ELSE UNCHANGED <<mutex, pc, half>>
    /\ UNCHANGED <<pending, next_id, id, rx, reply, mine, stdout, reader, line,
                   serverVars, serial, failed, served>>

\* The server is gone: the error returns at once, the map keeps the entry.
WriteFails(c) ==
    /\ pc[c] = "writing" /\ server = "down"
    /\ pc' = [pc EXCEPT ![c] = "idle"]
    /\ reply' = [reply EXCEPT ![c] = Closed]
    /\ failed' = failed \cup {id[c]}
    /\ Unlock
    /\ UNCHANGED <<pending, next_id, id, left, rx, mine, stdin, stdout, reader, line,
                   serverVars, serial, half, served>>

Receive(c) ==
    /\ pc[c] = "waiting" /\ rx[c] # 0
    /\ pc' = [pc EXCEPT ![c] = "idle"]
    /\ reply' = [reply EXCEPT ![c] = rx[c]]
    /\ UNCHANGED <<mutex, pending, next_id, id, left, rx, mine, stdin, stdout, reader,
                   line, serverVars, serial, failed, half, served>>

\* The 30 s timer runs out with nothing in the channel, whose receiver is
\* dropped; removing the entry needs the mutex.
Timeout(c) ==
    /\ pc[c] = "waiting" /\ rx[c] = 0
    /\ pc' = [pc EXCEPT ![c] = "expiring"]
    /\ Lock(c)
    /\ UNCHANGED <<pending, next_id, id, left, rx, reply, mine, stdin, stdout, reader,
                   line, serverVars, serial, failed, half, served>>

Expire(c) ==
    /\ pc[c] = "expiring" /\ Owns(c)
    /\ remove(id[c])
    /\ pc' = [pc EXCEPT ![c] = "idle"]
    /\ reply' = [reply EXCEPT ![c] = Closed]
    /\ Unlock
    /\ UNCHANGED <<next_id, id, left, rx, mine, stdin, stdout, reader, line,
                   serverVars, serial, failed, half, served>>

\* The caller's future is dropped at an await: the guard and the place in the
\* queue go with it, the entry of the map and a half-written line stay.
Cancel(c) ==
    /\ pc[c] # "idle"
    /\ pc' = [pc EXCEPT ![c] = "idle"]
    /\ Leave(c)
    /\ half' = (half \/ (pc[c] = "writing" /\ left[c] < line_size))
    /\ failed' = failed \cup {id[c]}
    /\ UNCHANGED <<pending, next_id, id, left, rx, reply, mine, stdin, stdout, reader, line,
                   serverVars, serial, served>>

-----------------------------------------------------------------------------
(***************************************************************************)
(* The reader task.                                                        *)
(***************************************************************************)
\* Only a response needs the mutex; notifications are ignored.
ReadLine ==
    /\ reader = "reading" /\ stdout # <<>>
    /\ stdout' = Tail(stdout)
    /\ IF Head(stdout) = Note
       THEN UNCHANGED <<reader, line, mutex>>
       ELSE /\ reader' = "routing"
            /\ line' = Head(stdout)
            /\ Lock("reader")
    /\ UNCHANGED <<pending, next_id, callerVars, stdin, serverVars, serial, failed, half,
                   served>>

\* A value sent reaches its caller only while that caller still waits for it.
Deliver(ps, value) ==
    rx' = [c \in Callers |->
              IF pc[c] = "waiting" /\ \E p \in ps : p.caller = c /\ p.n = mine[c]
              THEN value ELSE rx[c]]

Route ==
    /\ reader = "routing" /\ Owns("reader")
    /\ Deliver({p \in pending : p.id = line.id}, line.n)
    /\ remove(line.id)
    /\ reader' = "reading" /\ line' = NoMsg
    /\ Unlock
    /\ UNCHANGED <<next_id, pc, id, left, reply, mine, stdin, stdout, serverVars,
                   serial, failed, half, served>>

\* The server's end of the pipe is closed; or a line is not UTF-8, and the
\* reader leaves a server that lives.
Eof ==
    /\ reader = "reading"
    /\ \/ stdout = <<>> /\ server = "down" /\ UNCHANGED stdout
       \/ BadLines /\ stdout # <<>> /\ stdout' = Tail(stdout)
    /\ reader' = "draining"
    /\ Lock("reader")
    /\ UNCHANGED <<pending, next_id, callerVars, stdin, line, serverVars, serial, failed,
                   half, served>>

\* The task ends, and only then is the client's end of stdout closed.
Drain ==
    /\ reader = "draining" /\ Owns("reader")
    /\ Deliver(pending, Closed)
    /\ pending' = {}
    /\ reader' = "ended" /\ stdout' = <<>>
    /\ Unlock
    /\ UNCHANGED <<next_id, pc, id, left, reply, mine, stdin, line, serverVars, serial,
                   failed, half, served>>

-----------------------------------------------------------------------------
(***************************************************************************)
(* shutdown(): the child is killed, then the reader task is aborted, which *)
(* takes it out of the mutex queue and leaves the pending map as it is.    *)
(***************************************************************************)
Shutdown ==
    /\ server' = "down" /\ writing' = NoMsg /\ stdin' = <<>>
    /\ reader' = "ended" /\ line' = NoMsg
    /\ Leave("reader")
    /\ UNCHANGED <<pending, next_id, callerVars, stdout, notes, serial, failed, half,
                   served>>

-----------------------------------------------------------------------------
(***************************************************************************)
(* The server process: external, single-threaded.                          *)
(***************************************************************************)
ServerIdle == server = "up" /\ writing = NoMsg

\* It takes a unit from its stdin; a complete request is answered or not.
ServerRead ==
    /\ ServerIdle /\ stdin # <<>>
    /\ stdin' = Tail(stdin)
    /\ \/ writing' = NoMsg /\ UNCHANGED served
       \/ /\ Head(stdin) # NoMsg
          /\ writing' = Head(stdin)
          /\ served' = served \cup {Head(stdin).n}
    /\ UNCHANGED <<mutex, pending, next_id, callerVars, stdout, reader, line, server,
                   notes, serial, failed, half>>

ServerNotify ==
    /\ ServerIdle /\ notes < MaxNotes
    /\ notes' = notes + 1
    /\ writing' = Note
    /\ UNCHANGED <<mutex, pending, next_id, callerVars, stdin, stdout, reader, line,
                   server, serial, failed, half, served>>

\* The write waits for room, or fails because nobody has the other end.
ServerWrite ==
    /\ server = "up" /\ writing # NoMsg
    /\ IF reader = "ended"
       THEN UNCHANGED stdout
       ELSE Len(stdout) < OutCap /\ stdout' = Append(stdout, writing)
    /\ writing' = NoMsg
    /\ UNCHANGED <<mutex, pending, next_id, callerVars, stdin, reader, line, server,
                   notes, serial, failed, half, served>>

ServerCrash ==
    /\ server = "up"
    /\ server' = "down" /\ writing' = NoMsg /\ stdin' = <<>>
    /\ UNCHANGED <<mutex, pending, next_id, callerVars, stdout, reader, line, notes,
                   serial, failed, half, served>>

-----------------------------------------------------------------------------
CallerStep(c) ==
    Insert(c) \/ Write(c) \/ WriteFails(c) \/ Receive(c) \/ Timeout(c) \/ Expire(c)

ReaderStep == ReadLine \/ Route \/ Eof \/ Drain

ServerStep == ServerRead \/ ServerNotify \/ ServerWrite

Next ==
    \/ \E c \in Callers : Request(c) \/ CallerStep(c) \/ Cancel(c)
    \/ ReaderStep
    \/ ServerStep
    \/ ServerCrash \/ Shutdown

Spec == Init /\ [][Next]_vars

\* The runtime polls every task that can move, timers expire, and a server
\* that is up and not blocked keeps reading and writing.
FairSpec ==
    /\ Spec
    /\ \A c \in Callers : WF_vars(CallerStep(c))
    /\ WF_vars(ReaderStep)
    /\ WF_vars(ServerRead) /\ WF_vars(ServerWrite)

-----------------------------------------------------------------------------
Message == [id : Nat, n : Nat \cup {-1}]

\* Shapes of the client's state.
TypeOK ==
    /\ mutex \in Seq(Callers \cup {"reader"})
    /\ pending \subseteq [id : Nat, caller : Callers, n : Nat]
    /\ next_id \in Nat
    /\ pc \in [Callers -> {"idle", "locking", "writing", "waiting", "expiring"}]
    /\ id \in [Callers -> Nat] /\ left \in [Callers -> Nat]
    /\ rx \in [Callers -> Nat \cup {Closed}] /\ reply \in [Callers -> Nat \cup {Closed}]
    /\ stdin \in Seq(Message) /\ stdout \in Seq(Message)
    /\ reader \in {"reading", "routing", "draining", "ended"}
    /\ line \in Message
    /\ server \in {"up", "down"} /\ writing \in Message
    /\ notes \in Nat
    /\ serial \in Nat /\ mine \in [Callers -> Nat]
    /\ failed \subseteq Nat /\ served \subseteq Int
    /\ half \in BOOLEAN

\* A request that returns an answer returns the server's answer to that very
\* request: an answer that comes after its request timed out is dropped and
\* never handed to the caller's next request.
NoCrossTalk == \A c \in Callers : reply[c] \in {0, Closed, mine[c]}

\* A caller that waits with an empty channel still has its sender in the map,
\* so an answer, the end of the stream or its own timer can reach it.
WaiterIsPending ==
    \A c \in Callers : (pc[c] = "waiting" /\ rx[c] = 0)
        => \E p \in pending : p.id = id[c] /\ p.caller = c /\ p.n = mine[c]

\* The map does not grow with finished requests: an entry belongs to a request
\* in progress, or to one whose write failed or whose caller was dropped.
NoStaleEntry ==
    \A p \in pending :
        \/ p.id \in failed
        \/ id[p.caller] = p.id /\ pc[p.caller] \in {"writing", "waiting", "expiring"}

(***************************************************************************)
(* The service the client provides: Rpc, with a caller busy from request() *)
(* to its return.                                                          *)
(***************************************************************************)
Service == INSTANCE Rpc WITH busy <- {c \in Callers : pc[c] # "idle"}

\* request() implements the service over pipes, a shared map and timers: it
\* returns the server's answer to that very request, once, or an error; an
\* answer nobody waits for any more changes nothing for any caller.
ImplementsRpc == Service!Spec

\* The doc comment of request(): "Send a request, wait for the matching
\* response. Times out after 30s."  Whatever the server does, it returns.
RequestReturns == \A c \in Callers : (pc[c] # "idle") ~> (pc[c] = "idle")
=============================================================================
