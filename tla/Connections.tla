----------------------------- MODULE Connections -----------------------------
(***************************************************************************)
(* Who owns an HTTP connection.  A connection with nothing to read waits on *)
(* the one thread of the ConnectionParker; when it is readable the parker   *)
(* hands it, with a share of the worker caps, to the request ThreadPool; a  *)
(* worker serves one request and parks it again, closes it, or transfers it *)
(* to a task of another pool (net/ConnectionParker.cpp, net/ThreadPool.cpp, *)
(* HttpConnectionDispatcher in homeserver/http_server.cpp, main.cpp).       *)
(*                                                                          *)
(* An action is one hold of State::mutex or of the pool's queue_mutex_, one *)
(* read or write of the wake pipe, or one poll.  A thread that must write a *)
(* wake byte does so after the unlock, as an action of its own: `owes'.     *)
(*                                                                          *)
(* The task of another pool that answers connection c is thread c.  A poll  *)
(* that fails and a thread that throws are left out.                        *)
(***************************************************************************)
EXTENDS Integers, Sequences, FiniteSets, SequencesExt

CONSTANTS
    Conns,                 \* connections that clients may open
    Workers,               \* threads of the request pool
    Main,                  \* the thread that accepts, and later stops
    KeyOf,                 \* client_key of each connection
    NoKey,                 \* the empty key of a trusted proxy
    NoConn,
    TlsConns,              \* connections of a TLS listener
    MaxPerAddress,         \* max_connections_per_ip
    MaxNew,                \* max_queued_connections, 0 for no limit
    MaxKeptAlive,          \* keep_alive max_connections
    MaxRequests            \* max_requests_per_connection

Threads == Workers \cup Conns \cup {Main}
Keys    == {KeyOf[c] : c \in Conns}

ASSUME ConnectionsAssumption ==
    /\ IsFiniteSet(Conns) /\ IsFiniteSet(Workers) /\ Workers # {}
    /\ Workers \cap Conns = {} /\ Main \notin Workers \cup Conns /\ NoConn \notin Conns
    /\ KeyOf \in [Conns -> Keys] /\ TlsConns \subseteq Conns
    /\ MaxPerAddress \in Nat /\ MaxNew \in Nat /\ MaxKeptAlive \in Nat \ {0}
    /\ MaxRequests \in Nat \ {0}

VARIABLES
    fresh, closed,         \* connections not yet accepted, and closed ones
    incoming,              \* State::incoming
    awaiting, ready,       \* the parker thread's own lists
    out,                   \* connections dispatch_ready has selected
    pc,                    \* where the parker thread is
    parked_count, active_total, active_per_client,
    stopping, wake_pending,
    pipe,                  \* the wake pipe holds a byte
    owes,                  \* threads that must write one
    queue, poolStopping,   \* queue_ and stopping_ of the pool
    task,                  \* what each thread is doing
    reservation,           \* parked_reservation of each connection
    handshake,             \* connections with tls_handshake_owed
    served,                \* requests_served
    sent,                  \* connections with bytes in the socket
    buffered,              \* connections with has_buffered_input
    gone                   \* connections whose client closed them

lists   == <<incoming, awaiting, ready, out>>
counts  == <<parked_count, active_total, active_per_client>>
wake    == <<wake_pending, pipe, owes>>
pool    == <<queue, poolStopping, task>>
bytes   == <<sent, buffered, gone>>
request == <<handshake, served>>
vars    == <<fresh, closed, lists, pc, counts, stopping, wake, pool, reservation, request, bytes>>

Idle == [step |-> "idle", conn |-> NoConn, key |-> NoKey]

Init ==
    /\ fresh = Conns /\ closed = {}
    /\ incoming = <<>> /\ awaiting = <<>> /\ ready = <<>> /\ out = <<>>
    /\ pc = "drain"
    /\ parked_count = 0 /\ active_total = 0 /\ active_per_client = [k \in Keys |-> 0]
    /\ stopping = FALSE /\ wake_pending = FALSE /\ pipe = FALSE /\ owes = {}
    /\ queue = <<>> /\ poolStopping = FALSE /\ task = [t \in Threads |-> Idle]
    /\ reservation = [c \in Conns |-> "none"]
    /\ handshake = TlsConns /\ served = [c \in Conns |-> 0]
    /\ sent = {} /\ buffered = {} /\ gone = {}

-----------------------------------------------------------------------------
(***************************************************************************)
(* Parking.                                                                 *)
(***************************************************************************)
MutantKeepReservation(C) ==
    /\ closed' = closed \cup C
    /\ sent' = sent \ C /\ buffered' = buffered \ C /\ gone' = gone \ C
    /\ served' = [c \in Conns |-> IF c \in C THEN 0 ELSE served[c]]
    /\ UNCHANGED reservation

\* Destroying a connection closes it and returns its reservation.
Close(C) ==
    /\ closed' = closed \cup C
    /\ sent' = sent \ C /\ buffered' = buffered \ C /\ gone' = gone \ C
    /\ served' = [c \in Conns |-> IF c \in C THEN 0 ELSE served[c]]
    /\ reservation' = [c \in Conns |-> IF c \in C THEN "none" ELSE reservation[c]]

\* ParkingReservation::try_acquire has a slot.
Available(kind, cap) == cap = 0 \/ Cardinality({c \in Conns : reservation[c] = kind}) < cap

\* A thread that finds no wake pending under the lock must write one after it.
Wakes(t) ==
    /\ wake_pending' = TRUE
    /\ owes' = IF wake_pending THEN owes ELSE owes \cup {t}
    /\ UNCHANGED pipe

MutantUncountedPark(t, c, kind, requests) ==
    \/ /\ stopping
       /\ Close({c})
       /\ UNCHANGED <<incoming, parked_count, wake>>
    \/ /\ ~stopping
       /\ incoming' = Append(incoming, c)
       /\ Wakes(t)
       /\ reservation' = [reservation EXCEPT ![c] = kind]
       /\ served' = [served EXCEPT ![c] = requests]
       /\ UNCHANGED <<closed, bytes, parked_count>>

\* park, of a connection with that reservation and that many requests served.
Park(t, c, kind, requests) ==
    \/ /\ stopping
       /\ Close({c})
       /\ UNCHANGED <<incoming, parked_count, wake>>
    \/ /\ ~stopping
       /\ incoming' = Append(incoming, c)
       /\ parked_count' = parked_count + 1
       /\ Wakes(t)
       /\ reservation' = [reservation EXCEPT ![c] = kind]
       /\ served' = [served EXCEPT ![c] = requests]
       /\ UNCHANGED <<closed, bytes>>

park_awaiting_first_request(t, c) ==
    \/ Available("new", MaxNew) /\ Park(t, c, "new", 0)
    \/ ~Available("new", MaxNew) /\ Close({c}) /\ UNCHANGED <<incoming, parked_count, wake>>

\* The wake byte, written with no lock held.
write_wake(t) ==
    /\ t \in owes
    /\ owes' = owes \ {t}
    /\ pipe' = TRUE
    /\ UNCHANGED <<fresh, closed, lists, pc, counts, stopping, wake_pending, pool, reservation, request, bytes>>

\* admit_connection: a client address holds at most MaxPerAddress connections.
Admitted(c) ==
    \/ KeyOf[c] = NoKey
    \/ Cardinality({d \in Conns \ (fresh \cup closed) : KeyOf[d] = KeyOf[c]}) < MaxPerAddress

\* The acceptor's thread takes a connection, until shutdown.
Accept(c) ==
    /\ c \in fresh /\ ~stopping /\ Main \notin owes
    /\ fresh' = fresh \ {c}
    /\ \/ Admitted(c) /\ park_awaiting_first_request(Main, c)
       \/ ~Admitted(c) /\ Close({c}) /\ UNCHANGED <<incoming, parked_count, wake>>
    /\ UNCHANGED <<awaiting, ready, out, pc, active_total, active_per_client, stopping, pool, handshake>>

-----------------------------------------------------------------------------
(***************************************************************************)
(* The parker thread, State::run.                                           *)
(***************************************************************************)
MutantOneMoreActive == Cardinality(Workers) + 1

\* Limits, as HttpConnectionDispatcher::Impl::start sets them.
MaxActive == Cardinality(Workers)
MaxActivePerClient == IF Cardinality(Workers) < 4 THEN 1 ELSE Cardinality(Workers) \div 4

drain_wake ==
    /\ pc = "drain"
    /\ pc' = "swap"
    /\ pipe' = FALSE
    /\ UNCHANGED <<fresh, closed, lists, counts, stopping, wake_pending, owes, pool, reservation, request, bytes>>

\* The lock after the drain: what was parked meanwhile becomes the thread's
\* own, and the next parker or share must wake it again.
Swap ==
    /\ pc = "swap"
    /\ \/ /\ stopping
          /\ pc' = "closing"
          /\ UNCHANGED <<incoming, awaiting, ready, wake_pending>>
       \/ /\ ~stopping
          /\ pc' = "dispatch"
          /\ incoming' = <<>>
          /\ wake_pending' = FALSE
          /\ ready' = ready \o SelectSeq(incoming, LAMBDA c : c \in buffered)
          /\ awaiting' = awaiting \o SelectSeq(incoming, LAMBDA c : c \notin buffered)
    /\ UNCHANGED <<fresh, closed, out, counts, stopping, pipe, owes, pool, reservation, request, bytes>>

\* Whether another connection of that key may go out, given the shares held.
Allowed(key, total, held) == total < MaxActive /\ (key = NoKey \/ held[key] < MaxActivePerClient)

\* The walk over `ready', oldest first.
Selection ==
    FoldLeft(LAMBDA s, c :
                IF Allowed(KeyOf[c], s.total, s.held)
                THEN [s EXCEPT !.out = Append(@, c), !.total = @ + 1,
                               !.held = IF KeyOf[c] = NoKey THEN @ ELSE [@ EXCEPT ![KeyOf[c]] = @ + 1]]
                ELSE [s EXCEPT !.kept = Append(@, c)],
             [out |-> <<>>, kept |-> <<>>, total |-> active_total, held |-> active_per_client],
             ready)

MutantDrainLate ==
    /\ pc = "dispatch"
    /\ pipe' = FALSE
    /\ \/ stopping /\ pc' = "poll" /\ UNCHANGED <<out, ready, counts>>
       \/ /\ ~stopping
          /\ pc' = "submit"
          /\ out' = Selection.out /\ ready' = Selection.kept
          /\ active_total' = Selection.total /\ active_per_client' = Selection.held
          /\ parked_count' = parked_count - Len(Selection.out)
    /\ UNCHANGED <<fresh, closed, incoming, awaiting, stopping, wake_pending, owes, pool, reservation, request, bytes>>

dispatch_ready ==
    /\ pc = "dispatch"
    /\ \/ stopping /\ pc' = "poll" /\ UNCHANGED <<out, ready, counts>>
       \/ /\ ~stopping
          /\ pc' = "submit"
          /\ out' = Selection.out /\ ready' = Selection.kept
          /\ active_total' = Selection.total /\ active_per_client' = Selection.held
          /\ parked_count' = parked_count - Len(Selection.out)
    /\ UNCHANGED <<fresh, closed, incoming, awaiting, stopping, wake, pool, reservation, request, bytes>>

\* ThreadPool::submit; main gives the pool a queue as deep as it has workers.
PoolAccepts == ~poolStopping /\ Len(queue) < Cardinality(Workers)

\* The calls of m_dispatch after the unlock, in order.  That the pool never
\* refuses one, so that there is no refusal to model, is PoolNeverRefuses.
Submit ==
    /\ pc = "submit"
    /\ \/ out = <<>> /\ pc' = "poll" /\ UNCHANGED <<out, queue>>
       \/ /\ out # <<>> /\ PoolAccepts
          /\ queue' = Append(queue, Head(out))
          /\ out' = Tail(out)
          /\ UNCHANGED pc
    /\ UNCHANGED <<fresh, closed, incoming, awaiting, ready, counts, stopping, wake, poolStopping, task, reservation, request, bytes>>

\* poll and the sweep after it.  A client that is gone shows as readable (an
\* orderly close) or as a hang-up; a deadline may have passed at any time.
Poll ==
    /\ pc = "poll"
    /\ \E late \in SUBSET Range(awaiting), hangup \in SUBSET (Range(awaiting) \cap (gone \ sent)) :
          LET readable == (sent \cup gone) \ hangup
              dropped  == hangup \cup (late \ readable)
          IN  /\ pipe \/ late # {} \/ Range(awaiting) \cap (sent \cup gone) # {}
              /\ ready' = ready \o SelectSeq(awaiting, LAMBDA c : c \in readable)
              /\ awaiting' = SelectSeq(awaiting, LAMBDA c : c \notin readable \cup dropped)
              /\ parked_count' = parked_count - Cardinality(dropped)
              /\ Close(dropped)
    /\ pc' = "drain"
    /\ UNCHANGED <<fresh, incoming, out, active_total, active_per_client, stopping, wake, pool, handshake>>

\* The end of run: everything still parked is closed.
CloseParked ==
    /\ pc = "closing"
    /\ pc' = "ended"
    /\ Close(Range(incoming) \cup Range(awaiting) \cup Range(ready))
    /\ incoming' = <<>> /\ awaiting' = <<>> /\ ready' = <<>>
    /\ parked_count' = 0
    /\ UNCHANGED <<fresh, out, active_total, active_per_client, stopping, wake, pool, handshake>>

Parker == drain_wake \/ Swap \/ dispatch_ready \/ Submit \/ Poll \/ CloseParked

-----------------------------------------------------------------------------
(***************************************************************************)
(* The pool's workers, and the tasks a request was transferred to.          *)
(***************************************************************************)
\* What a thread does once it no longer owns a connection: a worker returns
\* from serve, which releases the share.
Leave(t) == task' = [task EXCEPT ![t] = IF t \in Workers THEN [@ EXCEPT !.step = "return", !.conn = NoConn]
                                                         ELSE Idle]

Conn(t) == task[t].conn

\* worker_loop takes a connection; serve gives back its parking reservation
\* and reads: end of stream, or the ClientHello, or a request, which may leave
\* bytes of the next one behind.
Take(w) ==
    /\ task[w].step = "idle" /\ w \notin owes /\ queue # <<>>
    /\ queue' = Tail(queue)
    /\ LET c == Head(queue)
           Doing(step, conn) == task' = [task EXCEPT ![w] = [step |-> step, conn |-> conn, key |-> KeyOf[c]]]
       IN  \/ /\ c \notin sent \cup buffered
              /\ Close({c}) /\ Doing("return", NoConn)
           \/ /\ c \in sent \cup buffered
              /\ Doing(IF c \in handshake THEN "handshake" ELSE "request", c)
              /\ reservation' = [reservation EXCEPT ![c] = "none"]
              /\ \/ buffered' = buffered \ {c} /\ sent' = IF c \in buffered THEN sent ELSE sent \ {c}
                 \/ c \in sent \ handshake /\ buffered' = buffered \cup {c} /\ sent' = sent \ {c}
              /\ UNCHANGED <<closed, gone, served>>
    /\ UNCHANGED <<fresh, lists, pc, counts, stopping, wake, poolStopping, handshake>>

\* accept_tls_connection, and the wait for the first request after it.
Handshake(w) ==
    /\ task[w].step = "handshake"
    /\ handshake' = handshake \ {Conn(w)}
    /\ Leave(w)
    /\ \/ park_awaiting_first_request(w, Conn(w))
       \/ Close({Conn(w)}) /\ UNCHANGED <<incoming, parked_count, wake>>
    /\ UNCHANGED <<fresh, awaiting, ready, out, pc, active_total, active_per_client, stopping, queue, poolStopping>>

\* A round that answers.  decide_connection counts the request and takes a slot
\* for a connection that is to be kept alive; if the response is written the
\* connection is parked with it, or else closed.
Answer(t) ==
    /\ task[t].step = "request"
    /\ Leave(t)
    /\ \/ Close({Conn(t)}) /\ UNCHANGED <<incoming, parked_count, wake>>
       \/ /\ served[Conn(t)] + 1 < MaxRequests /\ Available("kept", MaxKeptAlive)
          /\ Park(t, Conn(t), "kept", served[Conn(t)] + 1)
    /\ UNCHANGED <<fresh, awaiting, ready, out, pc, active_total, active_per_client, stopping, queue, poolStopping, handshake>>

MutantTransferKeeps(w) ==
    /\ w \in Workers /\ task[w].step = "request"
    /\ task' = [task EXCEPT ![Conn(w)] = [step |-> "request", conn |-> Conn(w), key |-> NoKey]]
    /\ UNCHANGED <<fresh, closed, lists, pc, counts, stopping, wake, queue, poolStopping, reservation, request, bytes>>

\* RoundOutcome::transferred: a task of another pool owns the connection.
Transfer(w) ==
    /\ w \in Workers /\ task[w].step = "request"
    /\ Conn(w) \notin owes
    /\ task' = [task EXCEPT ![Conn(w)] = [step |-> "request", conn |-> Conn(w), key |-> NoKey],
                            ![w] = [@ EXCEPT !.step = "return", !.conn = NoConn]]
    /\ UNCHANGED <<fresh, closed, lists, pc, counts, stopping, wake, queue, poolStopping, reservation, request, bytes>>

MutantReleaseUnkeyed(w) ==
    /\ task[w].step = "return" /\ w \notin owes
    /\ task' = [task EXCEPT ![w] = Idle]
    /\ active_total' = active_total - 1
    /\ IF stopping THEN UNCHANGED wake ELSE Wakes(w)
    /\ UNCHANGED <<active_per_client, fresh, closed, lists, pc, parked_count, stopping, queue, poolStopping, reservation, request, bytes>>

MutantReleaseQuietly(w) ==
    /\ task[w].step = "return" /\ w \notin owes
    /\ task' = [task EXCEPT ![w] = Idle]
    /\ active_total' = active_total - 1
    /\ active_per_client' = IF task[w].key = NoKey THEN active_per_client
                            ELSE [active_per_client EXCEPT ![task[w].key] = @ - 1]
    /\ UNCHANGED <<wake, fresh, closed, lists, pc, parked_count, stopping, queue, poolStopping, reservation, request, bytes>>

\* serve returns: release_share.
release_share(w) ==
    /\ task[w].step = "return" /\ w \notin owes
    /\ task' = [task EXCEPT ![w] = Idle]
    /\ active_total' = active_total - 1
    /\ active_per_client' = IF task[w].key = NoKey THEN active_per_client
                            ELSE [active_per_client EXCEPT ![task[w].key] = @ - 1]
    /\ IF stopping THEN UNCHANGED wake ELSE Wakes(w)
    /\ UNCHANGED <<fresh, closed, lists, pc, parked_count, stopping, queue, poolStopping, reservation, request, bytes>>

\* A worker of a stopped pool whose queue is drained.
End(w) ==
    /\ task[w].step = "idle" /\ w \notin owes /\ poolStopping /\ queue = <<>>
    /\ task' = [task EXCEPT ![w] = [Idle EXCEPT !.step = "ended"]]
    /\ UNCHANGED <<fresh, closed, lists, pc, counts, stopping, wake, queue, poolStopping, reservation, request, bytes>>

Work(w) == Take(w) \/ Handshake(w) \/ Answer(w) \/ Transfer(w) \/ release_share(w) \/ End(w)

-----------------------------------------------------------------------------
(***************************************************************************)
(* Clients, the clock and the shutdown.                                     *)
(***************************************************************************)
\* What a client does to a connection is noticed only by the poll that waits
\* for it, so it happens there.
ClientSends(c) ==
    /\ c \in Range(awaiting) \ (sent \cup gone)
    /\ sent' = sent \cup {c}
    /\ UNCHANGED <<fresh, closed, lists, pc, counts, stopping, wake, pool, reservation, request, buffered, gone>>

ClientLeaves(c) ==
    /\ c \in Range(awaiting) \ gone
    /\ gone' = gone \cup {c}
    /\ UNCHANGED <<fresh, closed, lists, pc, counts, stopping, wake, pool, reservation, request, sent, buffered>>

MutantStopQuietly ==
    /\ ~stopping /\ Main \notin owes
    /\ stopping' = TRUE
    /\ UNCHANGED <<fresh, closed, lists, pc, counts, wake, pool, reservation, request, bytes>>

\* main, after its listeners: dispatcher.request_stop, which joins the parker
\* thread, and then pool.request_stop.
StopParker ==
    /\ ~stopping /\ Main \notin owes
    /\ stopping' = TRUE
    /\ owes' = owes \cup {Main}
    /\ UNCHANGED <<fresh, closed, lists, pc, counts, wake_pending, pipe, pool, reservation, request, bytes>>

StopPool ==
    /\ stopping /\ pc = "ended" /\ Main \notin owes /\ ~poolStopping
    /\ poolStopping' = TRUE
    /\ UNCHANGED <<fresh, closed, lists, pc, counts, stopping, wake, queue, task, reservation, request, bytes>>

Next ==
    \/ Parker
    \/ \E w \in Workers : Work(w)
    \/ \E c \in Conns : Answer(c)
    \/ \E t \in Threads : write_wake(t)
    \/ \E c \in Conns : Accept(c) \/ ClientSends(c) \/ ClientLeaves(c)
    \/ StopParker
    \/ StopPool

Spec == Init /\ [][Next]_vars

\* Threads run, a request ends (its reads, its handler and its writes have
\* deadlines), and main goes on with a shutdown it has begun.
Fairness ==
    /\ WF_vars(Parker)
    /\ \A w \in Workers : WF_vars(Work(w))
    /\ \A c \in Conns : WF_vars(Answer(c))
    /\ \A t \in Threads : WF_vars(write_wake(t))
    /\ WF_vars(StopPool)

FairSpec == Spec /\ Fairness

-----------------------------------------------------------------------------
(***************************************************************************)
(* Properties.                                                              *)
(***************************************************************************)
Steps == {"idle", "handshake", "request", "return", "ended"}

\* The state has the types of the code's fields.
TypeOK ==
    /\ fresh \subseteq Conns /\ closed \subseteq Conns
    /\ \A s \in {incoming, awaiting, ready, out, queue} : s \in Seq(Conns)
    /\ pc \in {"drain", "swap", "dispatch", "submit", "poll", "closing", "ended"}
    /\ parked_count \in Nat /\ active_total \in Nat /\ active_per_client \in [Keys -> Nat]
    /\ stopping \in BOOLEAN /\ wake_pending \in BOOLEAN /\ pipe \in BOOLEAN /\ poolStopping \in BOOLEAN
    /\ owes \subseteq Threads
    /\ task \in [Threads -> [step : Steps, conn : Conns \cup {NoConn}, key : Keys \cup {NoKey}]]
    /\ reservation \in [Conns -> {"none", "new", "kept"}]
    /\ handshake \subseteq Conns /\ served \in [Conns -> Nat]
    /\ sent \subseteq Conns /\ buffered \subseteq Conns /\ gone \subseteq Conns

Busy == {w \in Workers : task[w].step \notin {"idle", "ended"}}

\* How often each list names a connection.
Times(c) == Len(SelectSeq(incoming \o awaiting \o ready \o out \o queue, LAMBDA d : d = c))
            + Cardinality({t \in Threads : task[t].conn = c})

\* ConnectionOwner is a unique_ptr: whatever the threads do, an accepted
\* connection that is not closed has exactly one owner, and a closed one none.
OneOwner == \A c \in Conns : Times(c) = IF c \in fresh \cup closed THEN 0 ELSE 1

\* The counters of State are the shares that exist: one for each connection
\* selected, queued or being served (also while its worker returns), in all
\* and by client, and within the limits.
SharesAreExact ==
    /\ active_total = Len(out) + Len(queue) + Cardinality(Busy)
    /\ active_total <= MaxActive
    /\ \A k \in Keys \ {NoKey} :
          /\ active_per_client[k] = Len(SelectSeq(out \o queue, LAMBDA c : KeyOf[c] = k))
                                    + Cardinality({w \in Busy : task[w].key = k})
          /\ active_per_client[k] <= MaxActivePerClient

\* "Only when the pool is stopping" (HttpConnectionDispatcher::dispatch): the
\* pool takes every connection the parker hands it, and main's order of the
\* stops leaves no time when it would not.
PoolNeverRefuses == pc = "submit" /\ out # <<>> => PoolAccepts

\* A parked connection holds a parking reservation, so the caps on new and on
\* kept-alive connections bound what the parker holds, and parked_count is it.
ParkedIsBudgeted ==
    /\ \A c \in Range(incoming) \cup Range(awaiting) \cup Range(ready) : reservation[c] # "none"
    /\ \A c \in closed : reservation[c] = "none"
    /\ MaxNew > 0 => Cardinality({c \in Conns : reservation[c] = "new"}) <= MaxNew
    /\ Cardinality({c \in Conns : reservation[c] = "kept"}) <= MaxKeptAlive
    /\ parked_count = Len(incoming) + Len(awaiting) + Len(ready)

\* "Never missed" (the drain before the swap): when the parker thread sleeps in
\* poll with no byte in the pipe and none about to be written, nobody has
\* parked a connection it does not know, no ready connection could be handed
\* out, and nobody has asked it to stop.
NoMissedWake ==
    pc = "poll" /\ ~pipe /\ owes = {} =>
       /\ incoming = <<>>
       /\ \A c \in Range(ready) : ~Allowed(KeyOf[c], active_total, active_per_client)
       /\ ~stopping

\* What a client sends on a parked connection reaches a worker, unless the
\* connection is closed first.
RequestsAreServed ==
    \A c \in Conns : c \in sent ~> (c \in closed \/ \E t \in Threads : Conn(t) = c)

\* request_stop returns, every connection is closed and the workers end.
StopClosesEverything ==
    stopping ~> (pc = "ended" /\ closed = Conns \ fresh /\ \A w \in Workers : task[w].step = "ended")
=============================================================================
