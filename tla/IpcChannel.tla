----------------------------- MODULE IpcChannel -----------------------------
(***************************************************************************)
(* Main's end of the channel to one federation worker: callers blocked in   *)
(* send_request, the reader thread that routes frames, the dispatch thread  *)
(* that passes the worker's own requests to the handler pool, the EDU       *)
(* relays those requests carry, and a thread in stop()                      *)
(* (ipc/IpcChannel.cpp, homeserver/WorkerPool.cpp).                         *)
(*                                                                          *)
(* An action is one hold of pending_mu_ or dispatch_mu_, one frame, or one  *)
(* store of the flags.  A frame keeps what the code reads of it: a reply    *)
(* names its request and says whether it holds an answer, a relay names its *)
(* parent request, the origin it claims and the digest of its EDU.  The     *)
(* worker is not trusted to name them truly.                                *)
(***************************************************************************)
EXTENDS Integers, Sequences, FiniteSets

CONSTANTS
    Callers,               \* threads of main that send requests
    Origins,               \* servers whose signature main has verified
    NoOrigin,              \* the origin of a request that is not theirs
    Digests,               \* EDUs, told apart by their digest
    MaxCopies,             \* bound on how often a body carries one EDU
    MaxId,                 \* bound on request ids
    MaxRelays,             \* bound on relays the worker sends
    MaxQueue,              \* dispatch_queue_max_count_, 0 for no limit
    MaxInFlight            \* max_in_flight_, 0 for no limit

Ids    == 1..MaxId
Copies == 0..MaxCopies
None   == [d \in Digests |-> 0]

ASSUME IpcAssumption ==
    /\ IsFiniteSet(Callers) /\ NoOrigin \notin Origins
    /\ MaxCopies \in Nat /\ MaxId \in Nat /\ MaxRelays \in Nat
    /\ MaxQueue \in Nat /\ MaxInFlight \in Nat

VARIABLES
    running, healthy,      \* running_ and healthy_
    fd,                    \* the descriptor: open, shut down or closed
    next_id,               \* next_id_
    pending,               \* pending_
    call,                  \* the request each caller waits for, 0 for none
    outcome,               \* how each request ended
    carried, applied,      \* EDUs of each verified body, and those applied
    asked, replied,        \* requests the worker was sent, and those it answered
    relays,                \* relays it has sent
    wire,                  \* frames from the worker not yet read
    reader, dispatcher,    \* where the two threads are
    queue,                 \* dispatch_queue_
    tasks,                 \* relays the handler pool holds
    stopper                \* where the thread in stop() is

callVars   == <<next_id, call, outcome, carried>>
peerVars   == <<asked, replied, relays>>
handleVars == <<dispatcher, queue, tasks>>
vars == <<running, healthy, fd, next_id, pending, call, outcome, carried, applied, asked, replied, relays, wire, reader, dispatcher, queue, tasks, stopper>>

Init ==
    /\ running = TRUE /\ healthy = TRUE /\ fd = "open"
    /\ next_id = 1
    /\ pending = <<>>
    /\ call = [c \in Callers |-> 0]
    /\ outcome = [i \in Ids |-> "unused"]
    /\ carried = [i \in Ids |-> None]
    /\ applied = [i \in Ids |-> None]
    /\ asked = {} /\ replied = {} /\ relays = 0
    /\ wire = <<>>
    /\ reader = "reading" /\ dispatcher = "awake" /\ queue = <<>> /\ tasks = {}
    /\ stopper = "no"

-----------------------------------------------------------------------------
(* send_request.                                                            *)

Erased(i) == [j \in DOMAIN pending \ {i} |-> pending[j]]

Entered(i, origin, edus) ==
    [j \in DOMAIN pending \cup {i} |->
        IF j = i
        THEN [origin |-> origin, edus |-> edus, expired |-> FALSE, ready |-> FALSE, response |-> FALSE]
        ELSE pending[j]]

\* The request ends, and the account of its EDUs is closed.
Return(c, result) ==
    /\ call' = [call EXCEPT ![c] = 0]
    /\ outcome' = [outcome EXCEPT ![call[c]] = result]
    /\ carried' = [carried EXCEPT ![call[c]] = None]
    /\ applied' = [applied EXCEPT ![call[c]] = None]

\* A request is entered under pending_mu_ if the channel is up, and written.
\* The worker can answer or relay only what it has read, and the reader and
\* stop() treat an entry that is being written as one that is waited for, so
\* the two are one action.
MutantSendUnchecked(c, origin, edus) ==
    /\ call[c] = 0 /\ next_id \in Ids
    /\ fd = "open"
    /\ next_id' = next_id + 1
    /\ pending' = Entered(next_id, origin, edus)
    /\ call' = [call EXCEPT ![c] = next_id]
    /\ carried' = [carried EXCEPT ![next_id] = edus]
    /\ asked' = asked \cup {next_id}
    /\ UNCHANGED <<running, healthy, fd, outcome, applied, replied, relays, wire, reader,
                   handleVars, stopper>>

Send(c, origin, edus) ==
    /\ call[c] = 0 /\ next_id \in Ids
    /\ running /\ healthy
    /\ fd = "open"
    /\ next_id' = next_id + 1
    /\ pending' = Entered(next_id, origin, edus)
    /\ call' = [call EXCEPT ![c] = next_id]
    /\ carried' = [carried EXCEPT ![next_id] = edus]
    /\ asked' = asked \cup {next_id}
    /\ UNCHANGED <<running, healthy, fd, outcome, applied, replied, relays, wire, reader,
                   handleVars, stopper>>

\* A request that is too large, has no usable deadline or finds the channel
\* down is refused.  One whose write fails, on a closed descriptor, to a dead
\* worker or to one that has not read for the length of the send timeout, is
\* erased again.
Refuse(c) ==
    /\ call[c] = 0 /\ next_id \in Ids
    /\ next_id' = next_id + 1
    /\ outcome' = [outcome EXCEPT ![next_id] = "failed"]
    /\ UNCHANGED <<running, healthy, fd, pending, call, carried, applied, peerVars, wire, reader,
                   handleVars, stopper>>

\* The deadline of a request passes; its caller has yet to notice.
Expire(i) ==
    /\ i \in DOMAIN pending /\ ~pending[i].expired /\ ~pending[i].ready
    /\ pending' = [pending EXCEPT ![i].expired = TRUE]
    /\ UNCHANGED <<running, healthy, fd, callVars, applied, peerVars, wire, reader, handleVars, stopper>>

\* wait_until has returned, for `ready' or for the deadline.
Resume(c) ==
    LET i == call[c]
    IN  /\ i # 0
        /\ pending[i].ready \/ pending[i].expired
        /\ pending' = Erased(i)
        /\ Return(c, IF pending[i].ready /\ pending[i].response THEN "answered" ELSE "failed")
        /\ UNCHANGED <<running, healthy, fd, next_id, peerVars, wire, reader,
                       handleVars, stopper>>

-----------------------------------------------------------------------------
(* The worker.  A frame that the reader will not read is left out, and the  *)
(* worker's death is the read that fails.                                   *)

Relays == [kind : {"relay"}, id : 1..MaxRelays, parent : Ids, origin : Origins, digest : Digests]

\* `answer': a reply of type failure, or one that does not parse, holds none.
WorkerReplies(i, answer) ==
    /\ reader = "reading" /\ fd = "open"
    /\ i \in asked \ replied
    /\ replied' = replied \cup {i}
    /\ wire' = Append(wire, [kind |-> "reply", to |-> i, answer |-> answer])
    /\ UNCHANGED <<running, healthy, fd, callVars, pending, applied, asked, relays,
                   reader, handleVars, stopper>>

WorkerRelays(frame) ==
    /\ reader = "reading" /\ fd = "open"
    /\ frame.id = relays + 1 /\ frame.parent \in asked
    /\ relays' = relays + 1
    /\ wire' = Append(wire, frame)
    /\ UNCHANGED <<running, healthy, fd, callVars, pending, applied, asked, replied,
                   reader, handleVars, stopper>>

-----------------------------------------------------------------------------
(* reader_loop.                                                             *)

AllReady == [i \in DOMAIN pending |-> [pending[i] EXCEPT !.ready = TRUE]]

\* The loop tests running_ after each frame; what is on the wire when it ends is
\* never read.
Onward ==
    /\ wire' = IF running THEN Tail(wire) ELSE <<>>
    /\ reader' = IF running THEN "reading" ELSE "leaving"

\* A reply to a request that is no longer pending is dropped.
MutantReplyWaits ==
    /\ reader = "reading" /\ wire # <<>> /\ Head(wire).kind = "reply"
    /\ tasks = {}
    /\ pending' = [i \in DOMAIN pending |->
                      IF i = Head(wire).to
                      THEN [pending[i] EXCEPT !.ready = TRUE, !.response = @ \/ Head(wire).answer]
                      ELSE pending[i]]
    /\ Onward
    /\ UNCHANGED <<running, healthy, fd, callVars, applied, peerVars, handleVars, stopper>>

ReadReply ==
    /\ reader = "reading" /\ wire # <<>> /\ Head(wire).kind = "reply"
    /\ pending' = [i \in DOMAIN pending |->
                      IF i = Head(wire).to
                      THEN [pending[i] EXCEPT !.ready = TRUE, !.response = @ \/ Head(wire).answer]
                      ELSE pending[i]]
    /\ Onward
    /\ UNCHANGED <<running, healthy, fd, callVars, applied, peerVars, handleVars, stopper>>

\* A relay is queued under dispatch_mu_, which the dispatch thread holds
\* between its test and its wait; the notify wakes it.
ReadRelay ==
    /\ reader = "reading" /\ wire # <<>> /\ Head(wire).kind = "relay"
    /\ dispatcher # "deciding"
    /\ MaxQueue = 0 \/ Len(queue) < MaxQueue
    /\ queue' = Append(queue, Head(wire))
    /\ dispatcher' = IF dispatcher = "asleep" THEN "awake" ELSE dispatcher
    /\ Onward
    /\ UNCHANGED <<running, healthy, fd, callVars, pending, applied, peerVars, tasks, stopper>>

ReadFlood ==
    /\ reader = "reading" /\ wire # <<>> /\ Head(wire).kind = "relay"
    /\ dispatcher # "deciding"
    /\ MaxQueue > 0 /\ Len(queue) >= MaxQueue
    /\ wire' = <<>>
    /\ healthy' = FALSE
    /\ reader' = "leaving"
    /\ UNCHANGED <<running, fd, callVars, pending, applied, peerVars, handleVars, stopper>>

\* The descriptor is shut down, or the worker is dead and has left nothing.
ReadFails ==
    /\ reader = "reading"
    /\ fd # "open" \/ wire = <<>>
    /\ wire' = <<>>
    /\ healthy' = FALSE
    /\ reader' = "leaving"
    /\ UNCHANGED <<running, fd, callVars, pending, applied, peerVars, handleVars, stopper>>

ReaderEnds ==
    /\ reader = "leaving"
    /\ pending' = AllReady
    /\ reader' = "ended"
    /\ UNCHANGED <<running, healthy, fd, callVars, applied, peerVars, wire, handleVars, stopper>>

-----------------------------------------------------------------------------
(* dispatcher_loop and the handler pool.                                    *)

\* The predicate is tested under dispatch_mu_; a wait then releases it.
Test ==
    /\ dispatcher = "awake" /\ queue = <<>>
    /\ dispatcher' = IF running THEN "deciding" ELSE "ended"
    /\ UNCHANGED <<running, healthy, fd, callVars, pending, applied, peerVars, wire, reader,
                   queue, tasks, stopper>>

Wait ==
    /\ dispatcher = "deciding"
    /\ dispatcher' = "asleep"
    /\ UNCHANGED <<running, healthy, fd, callVars, pending, applied, peerVars, wire, reader,
                   queue, tasks, stopper>>

\* submit_limited: at the cap the relay is answered as overloaded instead.
Dispatch ==
    /\ dispatcher = "awake" /\ queue # <<>>
    /\ queue' = Tail(queue)
    /\ tasks' = IF MaxInFlight > 0 /\ Cardinality(tasks) >= MaxInFlight
                THEN tasks
                ELSE tasks \cup {Head(queue)}
    /\ UNCHANGED <<running, healthy, fd, callVars, pending, applied, peerVars, wire, reader,
                   dispatcher, stopper>>

\* A handler that throws ends the dispatch thread and the channel with it.
HandlerThrows ==
    /\ dispatcher = "awake" /\ queue # <<>>
    /\ queue' = Tail(queue)
    /\ healthy' = FALSE
    /\ pending' = AllReady
    /\ dispatcher' = "threw"
    /\ UNCHANGED <<running, fd, callVars, applied, peerVars, wire, reader, tasks, stopper>>

\* pending_admits_origin.
Admits(i, origin) ==
    /\ running /\ healthy
    /\ i \in DOMAIN pending
    /\ ~pending[i].ready /\ ~pending[i].expired
    /\ pending[i].origin = origin

Unused(t) == Admits(t.parent, t.origin) /\ pending[t.parent].edus[t.digest] > 0

\* handle_edu_ingest_request: consume_pending_edu marks the EDU used, and main
\* applies it.
MutantKeepUnused(t) ==
    /\ Unused(t)
    /\ tasks' = tasks \ {t}
    /\ applied' = [applied EXCEPT ![t.parent][t.digest] = @ + 1]
    /\ UNCHANGED <<running, healthy, fd, callVars, pending, peerVars, wire, reader, dispatcher,
                   queue, stopper>>

MutantConsumeAny(t) ==
    /\ Admits(t.parent, t.origin)
    /\ tasks' = tasks \ {t}
    /\ pending' = [pending EXCEPT ![t.parent].edus[t.digest] = @ - 1]
    /\ applied' = [applied EXCEPT ![t.parent][t.digest] = @ + 1]
    /\ UNCHANGED <<running, healthy, fd, callVars, peerVars, wire, reader, dispatcher, queue, stopper>>

Consume(t) ==
    /\ Unused(t)
    /\ tasks' = tasks \ {t}
    /\ pending' = [pending EXCEPT ![t.parent].edus[t.digest] = @ - 1]
    /\ applied' = [applied EXCEPT ![t.parent][t.digest] = @ + 1]
    /\ UNCHANGED <<running, healthy, fd, callVars, peerVars, wire, reader, dispatcher, queue, stopper>>

RefuseRelay(t) ==
    /\ ~Unused(t)
    /\ tasks' = tasks \ {t}
    /\ UNCHANGED <<running, healthy, fd, callVars, pending, applied, peerVars, wire, reader,
                   dispatcher, queue, stopper>>

-----------------------------------------------------------------------------
(* stop().                                                                  *)

StopFlags ==
    /\ stopper = "no"
    /\ running' = FALSE /\ healthy' = FALSE
    /\ stopper' = "flagged"
    /\ UNCHANGED <<fd, callVars, pending, applied, peerVars, wire, reader, handleVars>>

StopWakes ==
    /\ stopper = "flagged"
    /\ pending' = AllReady
    /\ fd' = "shut"
    /\ stopper' = "joining reader"
    /\ UNCHANGED <<running, healthy, callVars, applied, peerVars, wire, reader, handleVars>>

\* The reader is joined; then dispatch_mu_ is taken and released before the
\* notify.
MutantNotifyUnlocked ==
    /\ stopper = "joining reader" /\ reader = "ended"
    /\ dispatcher' = IF dispatcher = "asleep" THEN "awake" ELSE dispatcher
    /\ stopper' = "joining dispatcher"
    /\ UNCHANGED <<running, healthy, fd, callVars, pending, applied, peerVars, wire, reader, queue,
                   tasks>>

StopNotifies ==
    /\ stopper = "joining reader" /\ reader = "ended"
    /\ dispatcher # "deciding"
    /\ dispatcher' = IF dispatcher = "asleep" THEN "awake" ELSE dispatcher
    /\ stopper' = "joining dispatcher"
    /\ UNCHANGED <<running, healthy, fd, callVars, pending, applied, peerVars, wire, reader, queue,
                   tasks>>

StopCloses ==
    /\ stopper = "joining dispatcher" /\ dispatcher \in {"ended", "threw"}
    /\ fd' = "closed"
    /\ stopper' = "stopped"
    /\ UNCHANGED <<running, healthy, callVars, pending, applied, peerVars, wire, reader, handleVars>>

-----------------------------------------------------------------------------
Caller(c) ==
    \/ \E origin \in Origins, edus \in [Digests -> Copies] : Send(c, origin, edus)
    \/ Send(c, NoOrigin, None)
    \/ Refuse(c) \/ Resume(c)

Worker ==
    \/ \E i \in Ids, answer \in BOOLEAN : WorkerReplies(i, answer)
    \/ \E frame \in Relays : WorkerRelays(frame)

Reader     == ReadReply \/ ReadRelay \/ ReadFlood \/ ReadFails \/ ReaderEnds
Dispatcher == Test \/ Wait \/ Dispatch \/ HandlerThrows
Handler    == \E t \in tasks : Consume(t) \/ RefuseRelay(t)
Stopper    == StopFlags \/ StopWakes \/ StopNotifies \/ StopCloses

Next ==
    \/ \E c \in Callers : Caller(c)
    \/ \E i \in Ids : Expire(i)
    \/ Worker \/ Reader \/ Dispatcher \/ Handler \/ Stopper

Spec == Init /\ [][Next]_vars

\* The threads of the channel run, and a caller that is woken.  Nothing makes
\* the worker answer, a deadline pass or a handler return: a handler may wait
\* for a lock as long as it likes.
FairSpec ==
    /\ Spec
    /\ \A c \in Callers : WF_vars(Resume(c))
    /\ WF_vars(Reader)
    /\ WF_vars(Dispatcher)
    /\ WF_vars(StopWakes) /\ WF_vars(StopNotifies) /\ WF_vars(StopCloses)

-----------------------------------------------------------------------------
(* Properties.                                                              *)

Entry == [origin : Origins \cup {NoOrigin}, edus : [Digests -> Copies], expired : BOOLEAN,
          ready : BOOLEAN, response : BOOLEAN]
Frames == Relays \cup [kind : {"reply"}, to : Ids, answer : BOOLEAN]

\* Every variable holds a value of its kind, and a caller inside send_request
\* has its own entry in pending_ (IpcChannel.hpp, PendingEntry).
TypeOK ==
    /\ running \in BOOLEAN /\ healthy \in BOOLEAN /\ fd \in {"open", "shut", "closed"}
    /\ next_id \in 1..MaxId + 1
    /\ DOMAIN pending \subseteq Ids /\ \A i \in DOMAIN pending : pending[i] \in Entry
    /\ call \in [Callers -> 0..MaxId]
    /\ outcome \in [Ids -> {"unused", "answered", "failed"}]
    /\ carried \in [Ids -> [Digests -> Copies]]
    /\ applied \in [Ids -> [Digests -> Copies]]
    /\ asked \subseteq Ids /\ replied \subseteq asked
    /\ relays \in 0..MaxRelays
    /\ wire \in Seq(Frames) /\ queue \in Seq(Relays) /\ tasks \subseteq Relays
    /\ reader \in {"reading", "leaving", "ended"}
    /\ dispatcher \in {"awake", "deciding", "asleep", "ended", "threw"}
    /\ stopper \in {"no", "flagged", "joining reader", "joining dispatcher", "stopped"}
    /\ \A i \in DOMAIN pending : \E c \in Callers : call[c] = i

\* Once the reader has ended, a handler has thrown, or stop() has woken the
\* waiters, no request is left to wait for its deadline: every entry of
\* pending_ is ready, also one whose caller was between its check of healthy_
\* and its wait (send_request, lines 483-490, against reader_loop's last hold of
\* pending_mu_).
NoStrandedCaller ==
    reader = "ended" \/ dispatcher = "threw" \/ stopper \notin {"no", "flagged"}
        => \A i \in DOMAIN pending : pending[i].ready

Status == [i \in Ids |-> IF i \notin DOMAIN pending THEN outcome[i]
                         ELSE IF pending[i].ready THEN "settled" ELSE "open"]

Calls == INSTANCE WorkerCalls WITH status <- Status

\* The channel implements WorkerCalls: a request is answered only by the
\* worker's reply to it, however late replies and deadlines cross, and an EDU
\* relay is applied only while its request is open and no more often than the
\* verified body carried it, whatever the worker relays and however the handler
\* threads interleave (consume_pending_edu, handle_edu_ingest_request).
CallsAreKept == Calls!Spec

\* A reply that has reached main frees its caller without the help of the
\* deadline, even while handlers of the worker's own requests never return
\* (reader_loop queues requests for the dispatch thread for this reason).
RepliesReachCallers ==
    \A c \in Callers, i \in Ids :
        (/\ call[c] = i
         /\ \E k \in 1..Len(wire) : wire[k].kind = "reply" /\ wire[k].to = i)
            ~> call[c] # i

\* stop() returns: the reader leaves its recv and the dispatch thread is never
\* missed by the notify that ends it (stop, lines 258-279).
StopReturns == (stopper # "no") ~> (stopper = "stopped")
=============================================================================
