-------------------------------- MODULE McpNet -------------------------------
(***************************************************************************)
(* The two network MCP clients of aether-mcp/src/lib.rs: WsClient, which   *)
(* sends requests as frames of the connection its reader task listens to,  *)
(* and SseClient, which POSTs them and gets the answers on an event stream.*)
(*                                                                         *)
(* Unlike the stdio client they keep the map of pending requests under a   *)
(* mutex of its own that nobody holds over an await, so taking it is part  *)
(* of the step that uses it.  The WebSocket writer has another mutex, held *)
(* over the send; it is tokio's, a queue with its owner at the head.       *)
(*                                                                         *)
(* A request is its id.  The server is external: it may serve requests in  *)
(* any order, ignore some, push notifications, and send what the reader    *)
(* cannot take.                                                            *)
(***************************************************************************)
EXTENDS Integers, Sequences, SequencesExt

CONSTANTS
    Callers,     \* tasks that use the client
    UpCap,       \* frames the connection takes before a send has to wait
    DownCap,     \* messages the server can write before the reader takes one
    MaxReq,      \* bound: requests
    MaxNotes     \* bound: notifications the server pushes

ASSUME NetAssumption ==
    /\ UpCap \in Nat \ {0} /\ DownCap \in Nat \ {0}
    /\ MaxReq \in Nat /\ MaxNotes \in Nat

VARIABLES
    transport,   \* "ws" or "sse"
    phase,       \* of the client: "spawning", "ready", "failed", "shut"
    writer,      \* WsClient.writer: owner first, then the waiters in order
    pending,     \* id, and the task whose channel the entry sends to
    next_id,
    pc,          \* per caller
    id,          \* per caller: the id of its current request
    rx,          \* per caller: what the oneshot channel holds, 0 if nothing
    reply,       \* per caller: how the last request ended
    link,        \* the connection or event stream: "up" or "down"
    up, down,    \* requests under way, messages to the reader
    reader,      \* the reader task
    notes,
    failed,      \* ghost: requests that ended without removing their entry
    served,      \* ghost: requests the server has answered
    drained_at   \* ghost: requests made when the reader drained the map

vars == <<transport, phase, writer, pending, next_id, pc, id, rx, reply, link, up, down,
          reader, notes, failed, served, drained_at>>

callerVars == <<pc, id, rx, reply>>
ghostVars  == <<failed, served, drained_at>>

Closed == -1
Note   == 0

Init ==
    /\ transport \in {"ws", "sse"}
    /\ phase = IF transport = "ws" THEN "ready" ELSE "spawning"
    /\ writer = <<>> /\ pending = {} /\ next_id = 1
    /\ pc = [c \in Callers |-> "idle"]
    /\ id = [c \in Callers |-> 0]
    /\ rx = [c \in Callers |-> 0]
    /\ reply = [c \in Callers |-> 0]
    /\ link = "up" /\ up = <<>> /\ down = <<>>
    /\ reader = "reading" /\ notes = 0
    /\ failed = {} /\ served = {} /\ drained_at = 0

-----------------------------------------------------------------------------
(***************************************************************************)
(* SseClient::spawn: the reader runs already and learns the endpoint from  *)
(* the stream; spawn polls for it and gives up after five seconds.  A      *)
(* client whose spawn failed is never used.                                *)
(***************************************************************************)
Endpoint ==
    /\ phase = "spawning" /\ reader = "reading" /\ link = "up"
    /\ phase' = "ready"
    /\ UNCHANGED <<transport, writer, pending, next_id, callerVars, link, up, down, reader,
                   notes, ghostVars>>

SpawnDeadline ==
    /\ phase = "spawning"
    /\ phase' = "failed"
    /\ UNCHANGED <<transport, writer, pending, next_id, callerVars, link, up, down, reader,
                   notes, ghostVars>>

-----------------------------------------------------------------------------
(***************************************************************************)
(* request()                                                               *)
(***************************************************************************)
Owns(c) == writer # <<>> /\ Head(writer) = c

\* Mutant: the guard outlives the block around the send.
Unlock_leaked == UNCHANGED writer

Unlock == writer' = Tail(writer)

\* A caller that is dropped gives up the mutex or its place in the queue.
Leave(c) ==
    \/ /\ \A i \in DOMAIN writer : writer[i] # c
       /\ UNCHANGED writer
    \/ \E i \in DOMAIN writer : writer[i] = c /\ writer' = RemoveAt(writer, i)

\* Mutant: the channel of the caller's last request is used again.
channel_kept(c) == UNCHANGED rx

\* oneshot::channel()
channel(c) == rx' = [rx EXCEPT ![c] = 0]

\* Mutant: the entry stays.
remove_none(i) == UNCHANGED pending

\* pending.lock().await.remove(&id)
remove(i) == pending' = {p \in pending : p.id # i}

Ends(c, value) ==
    /\ pc' = [pc EXCEPT ![c] = "idle"]
    /\ reply' = [reply EXCEPT ![c] = value]

\* The id and the entry in the map, then the writer's mutex or the POST.
Request(c) ==
    /\ phase \in {"ready", "shut"} /\ pc[c] = "idle"
    /\ next_id <= MaxReq
    /\ id' = [id EXCEPT ![c] = next_id]
    /\ next_id' = next_id + 1
    /\ channel(c)
    /\ reply' = [reply EXCEPT ![c] = 0]
    /\ pending' = pending \cup {[id |-> next_id, caller |-> c]}
    /\ IF transport = "ws"
       THEN pc' = [pc EXCEPT ![c] = "sending"] /\ writer' = Append(writer, c)
       ELSE pc' = [pc EXCEPT ![c] = "posting"] /\ UNCHANGED writer
    /\ UNCHANGED <<transport, phase, link, up, down, reader, notes, ghostVars>>

\* WebSocket: the frame fits, or the caller waits with the mutex held.
Send(c) ==
    /\ pc[c] = "sending" /\ Owns(c) /\ link = "up"
    /\ Len(up) < UpCap
    /\ up' = Append(up, id[c])
    /\ Unlock
    /\ pc' = [pc EXCEPT ![c] = "waiting"]
    /\ UNCHANGED <<transport, phase, pending, next_id, id, rx, reply, link, down, reader,
                   notes, ghostVars>>

SendFails(c) ==
    /\ pc[c] = "sending" /\ Owns(c) /\ link = "down"
    /\ Unlock
    /\ Ends(c, Closed)
    /\ failed' = failed \cup {id[c]}
    /\ UNCHANGED <<transport, phase, pending, next_id, id, rx, link, up, down, reader, notes,
                   served, drained_at>>

\* SSE: the server has the request before the POST returns, and its answer can
\* come first.  The POST goes its own way, whatever happened to the stream.
Post(c) ==
    /\ pc[c] = "posting"
    /\ up' = Append(up, id[c])
    /\ pc' = [pc EXCEPT ![c] = "posted"]
    /\ UNCHANGED <<transport, phase, writer, pending, next_id, id, rx, reply, link, down,
                   reader, notes, ghostVars>>

\* The status of the response is not looked at.
PostReturns(c) ==
    /\ pc[c] = "posted"
    /\ pc' = [pc EXCEPT ![c] = "waiting"]
    /\ UNCHANGED <<transport, phase, writer, pending, next_id, id, rx, reply, link, up, down,
                   reader, notes, ghostVars>>

\* No connection, or the HTTP client's own timeout, before or after the server
\* got the request.
PostFails(c) ==
    /\ pc[c] \in {"posting", "posted"}
    /\ Ends(c, Closed)
    /\ failed' = failed \cup {id[c]}
    /\ UNCHANGED <<transport, phase, writer, pending, next_id, id, rx, link, up, down, reader,
                   notes, served, drained_at>>

Receive(c) ==
    /\ pc[c] = "waiting" /\ rx[c] # 0
    /\ Ends(c, rx[c])
    /\ UNCHANGED <<transport, phase, writer, pending, next_id, id, rx, link, up, down, reader,
                   notes, ghostVars>>

\* Thirty seconds after the send with nothing in the channel.
Timeout(c) ==
    /\ pc[c] = "waiting" /\ rx[c] = 0
    /\ remove(id[c])
    /\ Ends(c, Closed)
    /\ UNCHANGED <<transport, phase, writer, next_id, id, rx, link, up, down, reader, notes,
                   ghostVars>>

\* The caller's future is dropped: with it its place at the writer's mutex, not
\* its entry.  A frame whose flush was waiting is sent whole or not at all.
Cancel(c) ==
    /\ pc[c] # "idle"
    /\ pc' = [pc EXCEPT ![c] = "idle"]
    /\ Leave(c)
    /\ failed' = failed \cup {id[c]}
    /\ \/ UNCHANGED up
       \/ Owns(c) /\ link = "up" /\ up' = Append(up, id[c])
    /\ UNCHANGED <<transport, phase, pending, next_id, id, rx, reply, link, down, reader,
                   notes, served, drained_at>>

-----------------------------------------------------------------------------
(***************************************************************************)
(* The reader task.  A value reaches its caller while the request that     *)
(* made the channel is still under way.                                    *)
(***************************************************************************)
Deliver(ps, value) ==
    rx' = [c \in Callers |->
              IF pc[c] # "idle" /\ [id |-> id[c], caller |-> c] \in ps THEN value ELSE rx[c]]

ReadMessage ==
    /\ reader = "reading" /\ down # <<>>
    /\ down' = Tail(down)
    /\ IF Head(down) = Note
       THEN UNCHANGED <<pending, rx>>
       ELSE /\ Deliver({p \in pending : p.id = Head(down)}, Head(down))
            /\ remove(Head(down))
    /\ UNCHANGED <<transport, phase, writer, next_id, pc, id, reply, link, up, reader, notes,
                   ghostVars>>

\* Mutant: an error ends the task without the drain.
drain_skipped == UNCHANGED <<pending, rx>>

\* "so callers don't hang"
drain ==
    /\ Deliver(pending, Closed)
    /\ pending' = {}

\* The stream ends with an error or a close, and what it still held is not
\* read; or the WebSocket gives an error for one message (too long, not UTF-8),
\* and the reader leaves a connection that is still up.
Eof ==
    /\ reader = "reading"
    /\ \/ link = "down" /\ UNCHANGED down
       \/ transport = "ws" /\ down # <<>> /\ down' = Tail(down)
    /\ drain
    /\ reader' = "drained"
    /\ drained_at' = next_id - 1
    /\ UNCHANGED <<transport, phase, writer, next_id, pc, id, reply, link, up, notes,
                   failed, served>>

\* The reader is aborted, whoever still waits, and nothing else is closed.
Shutdown ==
    /\ phase = "ready"
    /\ phase' = "shut"
    /\ reader' = IF reader = "reading" THEN "aborted" ELSE reader
    /\ UNCHANGED <<transport, writer, pending, next_id, callerVars, link, up, down, notes,
                   ghostVars>>

-----------------------------------------------------------------------------
(***************************************************************************)
(* The server and the network: external.                                   *)
(***************************************************************************)
ServerTakes(answers) ==
    /\ \E k \in DOMAIN up :
          /\ up' = RemoveAt(up, k)
          /\ IF answers
             THEN /\ Len(down) < DownCap
                  /\ down' = IF link = "up" THEN Append(down, up[k]) ELSE down
                  /\ served' = served \cup {up[k]}
             ELSE UNCHANGED <<down, served>>
    /\ UNCHANGED <<transport, phase, writer, pending, next_id, callerVars, link, reader, notes,
                   failed, drained_at>>

ServerAnswers == ServerTakes(TRUE)
ServerIgnores == ServerTakes(FALSE)

ServerNotifies ==
    /\ link = "up" /\ notes < MaxNotes /\ Len(down) < DownCap
    /\ down' = Append(down, Note)
    /\ notes' = notes + 1
    /\ UNCHANGED <<transport, phase, writer, pending, next_id, callerVars, link, up, reader,
                   ghostVars>>

\* The server closes, the network breaks, or the HTTP client's 30 s limit,
\* which covers the whole event stream, runs out.
LinkFails ==
    /\ link = "up"
    /\ link' = "down"
    /\ up' = IF transport = "ws" THEN <<>> ELSE up
    /\ UNCHANGED <<transport, phase, writer, pending, next_id, callerVars, down, reader, notes,
                   ghostVars>>

-----------------------------------------------------------------------------
CallerStep(c) ==
    \/ Send(c) \/ SendFails(c)
    \/ Post(c) \/ PostReturns(c) \/ PostFails(c)
    \/ Receive(c) \/ Timeout(c)

ReaderStep == ReadMessage \/ Eof

Next ==
    \/ Endpoint \/ SpawnDeadline
    \/ \E c \in Callers : Request(c) \/ CallerStep(c) \/ Cancel(c)
    \/ ReaderStep \/ Shutdown
    \/ ServerAnswers \/ ServerIgnores \/ ServerNotifies \/ LinkFails

Spec == Init /\ [][Next]_vars

\* Tasks that can move are polled, timers run out, and a server that has room
\* for its answer goes on taking requests.
FairSpec ==
    /\ Spec
    /\ \A c \in Callers : WF_vars(CallerStep(c))
    /\ WF_vars(ReaderStep)
    /\ WF_vars(ServerAnswers)

-----------------------------------------------------------------------------
\* Shapes of the client's state.
TypeOK ==
    /\ transport \in {"ws", "sse"}
    /\ phase \in {"spawning", "ready", "failed", "shut"}
    /\ writer \in Seq(Callers)
    /\ pending \subseteq [id : Nat, caller : Callers]
    /\ next_id \in Nat
    /\ pc \in [Callers -> {"idle", "sending", "posting", "posted", "waiting"}]
    /\ id \in [Callers -> Nat]
    /\ rx \in [Callers -> Nat \cup {Closed}] /\ reply \in [Callers -> Nat \cup {Closed}]
    /\ link \in {"up", "down"} /\ up \in Seq(Nat) /\ down \in Seq(Nat)
    /\ reader \in {"reading", "drained", "aborted"}
    /\ notes \in Nat
    /\ failed \subseteq Nat /\ served \subseteq Nat /\ drained_at \in Nat

\* The map holds entries of requests under way, and of requests whose send or
\* POST failed or whose caller was dropped: those are never taken out but by a
\* late answer or the end of the stream.
NoStaleEntry ==
    \A p \in pending : p.id \in failed \/ (id[p.caller] = p.id /\ pc[p.caller] # "idle")

\* "Stream closed - drain pending with err so callers don't hang": whoever had
\* made a request when the stream ended has its error in the channel already;
\* only requests made later wait for their timers.
DrainReachesAll ==
    reader = "drained" => \A c \in Callers : (pc[c] # "idle" /\ rx[c] = 0) => id[c] > drained_at

Service == INSTANCE Rpc WITH
    serial <- next_id - 1, mine <- id, busy <- {c \in Callers : pc[c] # "idle"}

\* request() of either client implements the service: the server's answer to
\* that very request, once, or an error, also when the answer overtakes the
\* POST, comes out of order, or after the caller gave up.
ImplementsRpc == Service!Spec

\* A WebSocket that is up and that nobody reads any more: the server may come
\* to wait for room of its own and stop taking frames.
Deaf == transport = "ws" /\ link = "up" /\ reader # "reading"

\* request() comes back however small the buffers are, but for one that still
\* has to send its frame on a connection nobody reads.  As long as the reader
\* reads it never needs what a blocked sender holds, so the server's answers
\* are always taken.  Once it has left on an error the drain ("so callers don't
\* hang") is over, and neither w.send nor the wait for the writer's mutex is
\* inside the 30 s timer: such a request may never come back.
ReturnsUnlessDeaf ==
    \A c \in Callers : (pc[c] # "idle") ~> (pc[c] = "idle" \/ (pc[c] = "sending" /\ Deaf))
=============================================================================
