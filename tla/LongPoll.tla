------------------------------ MODULE LongPoll ------------------------------
(***************************************************************************)
(* How an event reaches a waiting /sync: writers take a stream ordering,    *)
(* commit the event and publish it; the SyncNotifier moves its positions    *)
(* and generations and wakes; a poll with nothing to return parks in the    *)
(* ParkedPollRegistry or holds its sync-pool thread; the answer's token is  *)
(* the visible stream position (homeserver/HomeserverRuntime.cpp,           *)
(* PublishedStreamOrdering.cpp, sync/SyncNotifier.cpp,                      *)
(* sync/ParkedPollRegistry.cpp, homeserver/http_server.cpp).                *)
(*                                                                          *)
(* An action is one hold of runtime.mutex, of the notifier's mutex_ or of   *)
(* the registry's m_mutex.  `mutex' is runtime.mutex, which a writer keeps  *)
(* while it publishes; the other two never outlast an action.               *)
(*                                                                          *)
(* Only the event stream is modelled: the sync stream id (typing, receipts, *)
(* to-device) moves the same notifier.  An event has the audience it had    *)
(* when it was written.                                                     *)
(***************************************************************************)
EXTENDS Integers, FiniteSets

CONSTANTS
    Users,
    Polls,                \* clients, each with at most one request at a time
    UserOf,               \* the user of each client
    LocalWriters,         \* requests that write under one hold of runtime.mutex
    RemoteWriters,        \* PDU ingestions, which release it to commit
    Free,                 \* runtime.mutex is held by nobody
    Audiences,            \* the audiences an event may have
    MaxParked,            \* sync_max_in_flight
    MaxParkedPerUser,     \* sync_max_per_user
    SyncThreads,          \* threads of the sync pool
    PoolDepth,            \* max_queue_depth_ of the sync pool
    \* bounds of the model
    MaxOrdering,          \* orderings allocated over a behaviour
    MaxRequests,          \* requests over a behaviour
    MaxBoots,             \* process starts over a behaviour
    MaxFaults             \* failed watermark writes over a behaviour

Writers == LocalWriters \cup RemoteWriters

ASSUME SyncAssumption ==
    /\ UserOf \in [Polls -> Users]
    /\ LocalWriters \cap RemoteWriters = {}
    /\ Free \notin Writers
    /\ Audiences \subseteq SUBSET Users
    /\ {} \notin Audiences
    /\ MaxParked \in Nat /\ MaxParkedPerUser \in Nat
    /\ SyncThreads \in Nat \ {0} /\ PoolDepth \in Nat \ {0}
    /\ MaxOrdering \in Nat /\ MaxRequests \in Nat
    /\ MaxBoots \in Nat /\ MaxFaults \in Nat

VARIABLES
    mutex,        \* who holds runtime.mutex
    next,         \* database.next_stream_ordering
    pending,      \* database.pending_stream_orderings
    events,       \* the events of the in-memory store that clients may be given
    disk,         \* the durable ones
    watermark,    \* the durable event_stream_watermark
    published,    \* stream_ordering_
    broadcasts,   \* broadcast_generation_
    generation,   \* by_user_[u].generation
    known,        \* users with an entry in by_user_
    wpc,          \* where each writer is
    work,         \* its event
    pub,          \* the arguments of its publish
    pc,           \* where each poll is
    cursor,       \* its WaitCursor
    expired,      \* polls whose deadline has passed
    ticket,       \* the ticket a parked poll has in m_entries
    parkers,      \* threads inside SyncNotifier::park, after the insertion
    stopping,     \* m_stopping
    poolStopped,  \* the sync pool no longer runs
    tok,          \* the client's since token
    delivered,    \* orderings the client has been given
    requests, boots, faults

store    == <<next, pending, events, disk, watermark>>
notifier == <<published, broadcasts, generation, known>>
writing  == <<wpc, work, pub>>
polling  == <<pc, cursor, expired, ticket>>
stop     == <<stopping, poolStopped>>
client   == <<tok, delivered>>
bounds   == <<requests, boots, faults>>
vars     == <<mutex, store, notifier, writing, polling, parkers, stop, client, bounds>>

Events       == [ord : Nat, aud : SUBSET Users]
Publications == [visible : Int, scope : {"everyone", "users"}, users : SUBSET Users]
Cursors      == [user : Nat, all : Nat]
NoEvent      == [ord |-> 0, aud |-> {}]
NoCursor     == [user |-> 0, all |-> 0]
NoTicket     == 0
Nothing      == [visible |-> 0, scope |-> "users", users |-> {}]

-----------------------------------------------------------------------------
(***************************************************************************)
(* The stream.                                                              *)
(***************************************************************************)
MutantNewestIsVisible(n, P) == n - 1

\* visible_stream_position of a database with that counter and those pending
\* orderings.
VisiblePosition(n, P) ==
    LET newest == n - 1
        oldest == CHOOSE o \in P : \A q \in P : o <= q
    IN  IF P = {} \/ newest < oldest - 1 THEN newest ELSE oldest - 1

visible_stream_position == VisiblePosition(next, pending)

\* An ordering and its watermark write, whose failure is ignored.
allocate_stream_ordering ==
    /\ next <= MaxOrdering
    /\ next' = next + 1
    /\ \/ watermark' = next /\ UNCHANGED faults
       \/ faults < MaxFaults /\ faults' = faults + 1 /\ UNCHANGED watermark

\* A token past the stream was not issued here and is served like no token.
Since(p) == IF tok[p] > visible_stream_position THEN 0 ELSE tok[p]

MutantUnboundedTimeline(p) == {e.ord : e \in {f \in events : UserOf[p] \in f.aud /\ f.ord > Since(p)}}

\* What an incremental sync of poll p returns: events past the token, and
\* nothing above the position the answer names.
Timeline(p) ==
    {e.ord : e \in {f \in events : /\ UserOf[p] \in f.aud
                                   /\ f.ord > Since(p)
                                   /\ f.ord <= visible_stream_position}}

-----------------------------------------------------------------------------
(***************************************************************************)
(* Writers.                                                                 *)
(***************************************************************************)
At(w, label) == wpc' = [wpc EXCEPT ![w] = label]

\* The writer's locals are gone.
Done(w) ==
    /\ At(w, "idle")
    /\ work' = [work EXCEPT ![w] = NoEvent]
    /\ pub' = [pub EXCEPT ![w] = Nothing]

\* ingest_pdu_event takes its ordering, pending until the event is applied.
Reserve(w) ==
    /\ w \in RemoteWriters /\ wpc[w] = "idle" /\ mutex = Free
    /\ allocate_stream_ordering
    /\ pending' = pending \cup {next}
    /\ \E a \in Audiences : work' = [work EXCEPT ![w] = [ord |-> next, aud |-> a]]
    /\ At(w, "commit")
    /\ UNCHANGED <<mutex, events, disk, notifier, pub, polling, parkers, stop, client, requests, boots>>

\* The commit, with runtime.mutex released.  A commit that fails and an event
\* that is stored as rejected or soft-failed are alike here: the ordering is
\* used up and no client is given anything.
Commit(w) ==
    /\ wpc[w] = "commit"
    /\ \/ disk' = disk \cup {work[w]} /\ UNCHANGED work
       \/ work' = [work EXCEPT ![w].aud = {}] /\ UNCHANGED disk
    /\ At(w, "apply")
    /\ UNCHANGED <<mutex, next, pending, events, watermark, notifier, pub, polling, parkers, stop,
                   client, bounds>>

\* ~PublishedStreamOrdering: events held behind this ordering become visible
\* with it, after their writers' own publishes, so everyone is told.
EndReservation(w) ==
    LET visible == VisiblePosition(next, pending \ {work[w].ord})
    IN  pub' = [pub EXCEPT ![w] = [visible |-> visible, users |-> {},
                                   scope |-> IF visible > work[w].ord THEN "everyone" ELSE "users"]]

\* runtime.mutex again: the event is applied and its ordering no longer pending.
Apply(w) ==
    /\ wpc[w] = "apply" /\ mutex = Free
    /\ mutex' = w
    /\ events' = IF work[w].aud = {} THEN events ELSE events \cup {work[w]}
    /\ pending' = pending \ {work[w].ord}
    /\ EndReservation(w)
    /\ At(w, "announce")
    /\ UNCHANGED <<next, disk, watermark, notifier, work, polling, parkers, stop, client, bounds>>

\* publish, the hold of mutex_: the position rises, the generations move.
Move(w) ==
    /\ published' = IF pub[w].visible > published THEN pub[w].visible ELSE published
    /\ broadcasts' = IF pub[w].scope = "everyone" THEN broadcasts + 1 ELSE broadcasts
    /\ generation' = [u \in Users |-> IF u \in pub[w].users \cap known
                                      THEN generation[u] + 1 ELSE generation[u]]
    /\ UNCHANGED known

Parked == {p \in Polls : pc[p] = "parked"}

\* make_ready_locked: the entries leave the registry for m_ready.
Ready(P) ==
    /\ pc' = [p \in Polls |-> IF p \in P THEN "ready" ELSE pc[p]]
    /\ ticket' = [p \in Polls |-> IF p \in P THEN NoTicket ELSE ticket[p]]

MutantWakeOnlyForAll(w) == Ready({p \in Parked : pub[w].scope = "everyone"})

\* publish, the registry's hold: wake_users or wake_all.
Wake(w) ==
    Ready({p \in Parked : pub[w].scope = "everyone" \/ UserOf[p] \in pub[w].users})

Announce(w) ==
    /\ wpc[w] = "announce"
    /\ Move(w)
    /\ At(w, "announced")
    /\ UNCHANGED <<mutex, store, work, pub, polling, parkers, stop, client, bounds>>

\* The end of the publish and of the hold of runtime.mutex.
Announced(w) ==
    /\ wpc[w] = "announced"
    /\ Wake(w)
    /\ mutex' = Free
    /\ IF work[w].aud = {} THEN Done(w) ELSE At(w, "accepted") /\ UNCHANGED <<work, pub>>
    /\ UNCHANGED <<store, notifier, cursor, expired, parkers, stop, client, bounds>>

\* pdu_sink, after the ingestion: the audience and the position in one hold.
ReadAudience(w) ==
    /\ wpc[w] = "accepted" /\ mutex = Free
    /\ pub' = [pub EXCEPT ![w] = [visible |-> visible_stream_position, scope |-> "users",
                                  users |-> work[w].aud]]
    /\ At(w, "notify")
    /\ UNCHANGED <<mutex, store, notifier, work, polling, parkers, stop, client, bounds>>

\* A local event: ordering, commit, store and publish in one hold.  When the
\* event cannot be stored its ordering stays unused and nobody is told.
LocalWrite(w) ==
    /\ w \in LocalWriters /\ wpc[w] = "idle" /\ mutex = Free
    /\ allocate_stream_ordering
    /\ UNCHANGED pending
    /\ \/ \E a \in Audiences :
            LET e == [ord |-> next, aud |-> a]
            IN  /\ work' = [work EXCEPT ![w] = e]
                /\ events' = events \cup {e}
                /\ disk' = disk \cup {e}
                /\ pub' = [pub EXCEPT ![w] = [visible |-> VisiblePosition(next + 1, pending),
                                              scope |-> "users", users |-> a]]
                /\ mutex' = w
                /\ At(w, "notify")
       \/ UNCHANGED <<work, events, disk, pub, mutex, wpc>>
    /\ UNCHANGED <<notifier, polling, parkers, stop, client, requests, boots>>

Notify(w) ==
    /\ wpc[w] = "notify"
    /\ Move(w)
    /\ At(w, "notified")
    /\ UNCHANGED <<mutex, store, work, pub, polling, parkers, stop, client, bounds>>

Notified(w) ==
    /\ wpc[w] = "notified"
    /\ Wake(w)
    /\ mutex' = IF mutex = w THEN Free ELSE mutex
    /\ Done(w)
    /\ UNCHANGED <<store, notifier, cursor, expired, parkers, stop, client, bounds>>

WriterStep(w) ==
    \/ Commit(w) \/ Apply(w) \/ Announce(w) \/ Announced(w)
    \/ ReadAudience(w) \/ Notify(w) \/ Notified(w)

-----------------------------------------------------------------------------
(***************************************************************************)
(* Polls.                                                                   *)
(***************************************************************************)
Goto(p, label) == pc' = [pc EXCEPT ![p] = label]

\* The poll ends: its connection is handed back or closed.
Leave(p) ==
    /\ Goto(p, "idle")
    /\ cursor' = [cursor EXCEPT ![p] = NoCursor]
    /\ expired' = expired \ {p}

\* Polls the sync pool has queued: new ones, woken ones, and ones woken by
\* their deadline.
Queued   == {p \in Polls : pc[p] \in {"new", "woken", "overdue"}}
OnThread == {p \in Polls : pc[p] \in {"check", "rerun", "park", "held", "heldMoved", "heldRerun", "final"}}

\* ThreadPool::submit takes the task.
PoolAccepts == ~poolStopped /\ Cardinality(Queued) < PoolDepth

\* A sync-pool thread is free to run a task; one inside SyncNotifier::park is
\* not.
ThreadFree == Cardinality(OnThread) + Cardinality(parkers) < SyncThreads

\* The answer names the visible position.  It may not reach the client, who
\* then asks again with the old token.
Answer(p) ==
    \/ /\ tok' = [tok EXCEPT ![p] = visible_stream_position]
       /\ delivered' = [delivered EXCEPT ![p] = @ \cup Timeline(p)]
    \/ UNCHANGED client

\* sync_json waits only when nothing is past the token.
HasTimelineAdvance(p) == visible_stream_position > Since(p)

\* A request on a main-pool thread: answered at once, handed to the sync pool,
\* or refused (an admission budget or the pool is full).
Request(p) ==
    /\ pc[p] = "idle" /\ mutex = Free /\ ~poolStopped
    /\ requests < MaxRequests
    /\ requests' = requests + 1
    /\ \/ HasTimelineAdvance(p) /\ Answer(p) /\ UNCHANGED pc
       \/ ~HasTimelineAdvance(p) /\ PoolAccepts /\ Goto(p, "new") /\ UNCHANGED client
       \/ ~HasTimelineAdvance(p) /\ UNCHANGED <<pc, client>>
    /\ UNCHANGED <<mutex, store, notifier, writing, cursor, expired, ticket, parkers, stop, boots, faults>>

\* moved_since, and the predicate of the cursor wait.
Moved(u, c) == generation[u] # c.user \/ broadcasts # c.all

\* observe: the user gets an entry, the poll a cursor.
Observe(p) ==
    /\ known' = known \cup {UserOf[p]}
    /\ cursor' = [cursor EXCEPT ![p] = [user |-> generation[UserOf[p]], all |-> broadcasts]]

\* advance_sync_poll up to the cursor.
Begin(p) ==
    /\ p \in Queued /\ ThreadFree
    /\ \/ /\ pc[p] = "overdue" \/ poolStopped
          /\ Goto(p, "final")
          /\ UNCHANGED <<known, cursor>>
       \/ /\ pc[p] # "overdue" /\ ~poolStopped
          /\ Observe(p)
          /\ Goto(p, IF pc[p] = "new" THEN "check" ELSE "rerun")
    /\ UNCHANGED <<mutex, store, published, broadcasts, generation, writing, expired, ticket, parkers,
                   stop, client, bounds>>

\* The first pass reruns only when the published position has passed the token.
Check(p) ==
    /\ pc[p] = "check"
    /\ Goto(p, IF published > Since(p) THEN "rerun" ELSE "park")
    /\ UNCHANGED <<mutex, store, notifier, writing, cursor, expired, ticket, parkers, stop, client, bounds>>

\* rerun_waiting_sync with can_wait: an answer, or on with the wait.
Rerun(p) ==
    /\ pc[p] \in {"rerun", "heldRerun"} /\ mutex = Free
    /\ \/ HasTimelineAdvance(p) /\ Answer(p) /\ Leave(p)
       \/ /\ ~HasTimelineAdvance(p)
          /\ Goto(p, IF pc[p] = "rerun" THEN "park" ELSE "held")
          /\ UNCHANGED <<client, cursor, expired>>
    /\ UNCHANGED <<mutex, store, notifier, writing, ticket, parkers, stop, bounds>>

\* ParkedPollRegistry::park takes the poll.
ParkAccepts(p) ==
    /\ ~stopping
    /\ Cardinality(Parked) < MaxParked
    /\ Cardinality({q \in Parked : UserOf[q] = UserOf[p]}) < MaxParkedPerUser

\* m_next_ticket++: a number no entry and no thread in park has.  Tickets are
\* only compared, so the least such number stands for all.
NewTicket ==
    LET used == {ticket[p] : p \in Polls} \cup {k.ticket : k \in parkers} \cup {NoTicket}
    IN  CHOOSE n \in 1..(Cardinality(used) + 1) : n \notin used /\ \A m \in 1..(n - 1) : m \in used

\* The deadline, then the insertion.  The thread goes on to compare the cursor
\* while the poll may already be resumed on another; a refused poll keeps its
\* thread.
Park(p) ==
    /\ pc[p] = "park"
    /\ \/ p \in expired /\ Goto(p, "final") /\ UNCHANGED <<cursor, ticket, parkers>>
       \/ /\ p \notin expired /\ ParkAccepts(p)
          /\ Goto(p, "parked")
          /\ ticket' = [ticket EXCEPT ![p] = NewTicket]
          /\ parkers' = parkers \cup {[poll |-> p, ticket |-> NewTicket, cursor |-> cursor[p],
                                       step |-> "compare"]}
          /\ cursor' = [cursor EXCEPT ![p] = NoCursor]
       \/ p \notin expired /\ ~ParkAccepts(p) /\ Goto(p, "held") /\ UNCHANGED <<cursor, ticket, parkers>>
    /\ UNCHANGED <<mutex, store, notifier, writing, expired, stop, client, bounds>>

MutantNoCompare(k) ==
    /\ k.step = "compare"
    /\ parkers' = parkers \ {k}
    /\ UNCHANGED <<mutex, store, notifier, writing, polling, stop, client, bounds>>

\* SyncNotifier::park, second: did a publish come before the insertion?
Compare(k) ==
    /\ k.step = "compare"
    /\ parkers' = (parkers \ {k}) \cup
                  (IF Moved(UserOf[k.poll], k.cursor) THEN {[k EXCEPT !.step = "wake"]} ELSE {})
    /\ UNCHANGED <<mutex, store, notifier, writing, polling, stop, client, bounds>>

\* ParkedPollRegistry::wake, which finds the ticket or nothing.
WakeTicket(k) ==
    /\ k.step = "wake"
    /\ parkers' = parkers \ {k}
    /\ Ready({p \in Parked : ticket[p] = k.ticket})
    /\ UNCHANGED <<mutex, store, notifier, writing, cursor, expired, stop, client, bounds>>

Due   == {p \in Parked : p \in expired}
Batch == {p \in Polls : pc[p] \in {"resume", "resumeLate"}}

MutantNeverExpires ==
    /\ ~stopping
    /\ Batch = {}
    /\ \E p \in Polls : pc[p] = "ready"
    /\ pc' = [p \in Polls |-> IF pc[p] = "ready" THEN "resume" ELSE pc[p]]
    /\ UNCHANGED <<mutex, store, notifier, writing, cursor, expired, ticket, parkers, stop, client, bounds>>

\* The registry's thread: expire, then take everything that is ready.
Take ==
    /\ ~stopping
    /\ Batch = {}
    /\ Due # {} \/ \E p \in Polls : pc[p] = "ready"
    /\ pc' = [p \in Polls |-> IF p \in Due THEN "resumeLate"
                             ELSE IF pc[p] = "ready" THEN "resume" ELSE pc[p]]
    /\ ticket' = [p \in Polls |-> IF p \in Due THEN NoTicket ELSE ticket[p]]
    /\ UNCHANGED <<mutex, store, notifier, writing, cursor, expired, parkers, stop, client, bounds>>

\* resume_parked_poll: to the sync pool, or dropped when that refuses.
Resume(p) ==
    /\ p \in Batch
    /\ IF PoolAccepts
       THEN Goto(p, IF pc[p] = "resume" THEN "woken" ELSE "overdue") /\ UNCHANGED <<cursor, expired>>
       ELSE Leave(p)
    /\ UNCHANGED <<mutex, store, notifier, writing, ticket, parkers, stop, client, bounds>>

MutantHeldIgnoresStop(p) ==
    /\ pc[p] = "held"
    /\ \/ Moved(UserOf[p], cursor[p]) /\ Goto(p, "heldMoved")
       \/ p \in expired /\ Goto(p, "final")
    /\ UNCHANGED <<mutex, store, notifier, writing, cursor, expired, ticket, parkers, stop, client, bounds>>

\* long_poll_wait on the thread of a poll that could not park.
HeldWait(p) ==
    /\ pc[p] = "held"
    /\ \/ Moved(UserOf[p], cursor[p]) /\ Goto(p, "heldMoved")
       \/ (poolStopped \/ p \in expired) /\ Goto(p, "final")
    /\ UNCHANGED <<mutex, store, notifier, writing, cursor, expired, ticket, parkers, stop, client, bounds>>

HeldObserve(p) ==
    /\ pc[p] = "heldMoved"
    /\ Observe(p)
    /\ Goto(p, "heldRerun")
    /\ UNCHANGED <<mutex, store, published, broadcasts, generation, writing, expired, ticket, parkers,
                   stop, client, bounds>>

\* The last rerun, which does not wait.
Final(p) ==
    /\ pc[p] = "final" /\ mutex = Free
    /\ Answer(p)
    /\ Leave(p)
    /\ UNCHANGED <<mutex, store, notifier, writing, ticket, parkers, stop, bounds>>

\* peer_has_closed, looked at when a pass begins and between slices.
ClientGone(p) ==
    /\ (p \in Queued /\ ThreadFree) \/ pc[p] = "held"
    /\ Leave(p)
    /\ UNCHANGED <<mutex, store, notifier, writing, ticket, parkers, stop, client, bounds>>

\* The deadline passes; it is set when the first pass begins.
TimeUp(p) ==
    /\ pc[p] \notin {"idle", "new"} /\ p \notin expired
    /\ expired' = expired \cup {p}
    /\ UNCHANGED <<mutex, store, notifier, writing, pc, cursor, ticket, parkers, stop, client, bounds>>

PollStep(p) ==
    \/ Begin(p) \/ Check(p) \/ Rerun(p) \/ Park(p) \/ HeldWait(p) \/ HeldObserve(p) \/ Final(p)

ParkerStep == \E k \in parkers : Compare(k) \/ WakeTicket(k)
RegistryStep == Take \/ \E p \in Polls : Resume(p)

-----------------------------------------------------------------------------
(***************************************************************************)
(* The process.                                                             *)
(***************************************************************************)
\* HttpConnectionDispatcher::request_stop: every parked or ready poll is
\* dropped, and its connection closed.
request_stop ==
    LET doomed == {p \in Polls : pc[p] \in {"parked", "ready"}}
    IN  /\ ~stopping
        /\ stopping' = TRUE
        /\ pc' = [p \in Polls |-> IF p \in doomed THEN "idle" ELSE pc[p]]
        /\ ticket' = [p \in Polls |-> NoTicket]
        /\ expired' = expired \ doomed
        /\ UNCHANGED <<mutex, store, notifier, writing, cursor, parkers, poolStopped, client, bounds>>

\* The sync pool stops once the registry's thread has been joined; it runs
\* what it has queued.
PoolStop ==
    /\ stopping /\ ~poolStopped
    /\ Batch = {}
    /\ poolStopped' = TRUE
    /\ UNCHANGED <<mutex, store, notifier, writing, polling, parkers, stopping, client, bounds>>

Largest(S) == CHOOSE m \in S : \A n \in S : n <= m

MutantRebuiltWithoutOne == Largest({0, watermark} \cup {e.ord : e \in disk})
MutantCountFromEvents == 1 + Largest({0} \cup {e.ord : e \in disk})

\* The counter rebuilt from the stored events and the watermark.
RebuiltCounter == 1 + Largest({0, watermark} \cup {e.ord : e \in disk})

\* Memory is lost, the durable store and the clients' tokens stay.
Restart ==
    /\ boots < MaxBoots
    /\ boots' = boots + 1
    /\ mutex' = Free
    /\ next' = RebuiltCounter
    /\ watermark' = RebuiltCounter - 1
    /\ pending' = {}
    /\ events' = disk
    /\ published' = 0 /\ broadcasts' = 0
    /\ generation' = [u \in Users |-> 0] /\ known' = {}
    /\ wpc' = [w \in Writers |-> "idle"]
    /\ work' = [w \in Writers |-> NoEvent]
    /\ pub' = [w \in Writers |-> Nothing]
    /\ pc' = [p \in Polls |-> "idle"]
    /\ cursor' = [p \in Polls |-> NoCursor]
    /\ expired' = {}
    /\ ticket' = [p \in Polls |-> NoTicket] /\ parkers' = {}
    /\ stopping' = FALSE /\ poolStopped' = FALSE
    /\ UNCHANGED <<disk, client, requests, faults>>

Init ==
    /\ mutex = Free
    /\ next = 1 /\ watermark = 0
    /\ pending = {} /\ events = {} /\ disk = {}
    /\ published = 0 /\ broadcasts = 0
    /\ generation = [u \in Users |-> 0] /\ known = {}
    /\ wpc = [w \in Writers |-> "idle"]
    /\ work = [w \in Writers |-> NoEvent]
    /\ pub = [w \in Writers |-> Nothing]
    /\ pc = [p \in Polls |-> "idle"]
    /\ cursor = [p \in Polls |-> NoCursor]
    /\ expired = {}
    /\ ticket = [p \in Polls |-> NoTicket] /\ parkers = {}
    /\ stopping = FALSE /\ poolStopped = FALSE
    /\ tok = [p \in Polls |-> 0] /\ delivered = [p \in Polls |-> {}]
    /\ requests = 0 /\ boots = 1 /\ faults = 0

Next ==
    \/ \E w \in Writers : Reserve(w) \/ LocalWrite(w) \/ WriterStep(w)
    \/ \E p \in Polls : Request(p) \/ PollStep(p) \/ ClientGone(p) \/ TimeUp(p)
    \/ ParkerStep
    \/ RegistryStep
    \/ request_stop
    \/ PoolStop
    \/ Restart

Spec == Init /\ [][Next]_vars

\* Threads that can run do run: a writer finishes its write, a poll on a
\* thread its pass, the registry its batch, and a stop goes on to the pool.
\* Nothing forces the clock, requests, writes, stops or restarts.
Fairness ==
    /\ \A w \in Writers : WF_vars(WriterStep(w))
    /\ \A p \in Polls : WF_vars(PollStep(p))
    /\ WF_vars(ParkerStep)
    /\ WF_vars(RegistryStep)
    /\ WF_vars(PoolStop)

FairSpec == Spec /\ Fairness

-----------------------------------------------------------------------------
(***************************************************************************)
(* Properties.                                                              *)
(***************************************************************************)
\* Every variable keeps its shape.
TypeOK ==
    /\ mutex \in Writers \cup {Free}
    /\ next \in Nat \ {0} /\ watermark \in Nat
    /\ pending \subseteq Nat \ {0}
    /\ events \subseteq Events /\ disk \subseteq Events
    /\ published \in Int /\ broadcasts \in Nat
    /\ generation \in [Users -> Nat] /\ known \subseteq Users
    /\ wpc \in [Writers -> {"idle", "commit", "apply", "announce", "announced", "accepted",
                            "notify", "notified"}]
    /\ work \in [Writers -> Events] /\ pub \in [Writers -> Publications]
    /\ pc \in [Polls -> {"idle", "new", "woken", "overdue", "check", "rerun", "park", "parked",
                         "ready", "resume", "resumeLate", "held", "heldMoved", "heldRerun", "final"}]
    /\ cursor \in [Polls -> Cursors]
    /\ expired \subseteq Polls /\ ticket \in [Polls -> Nat]
    /\ parkers \subseteq [poll : Polls, ticket : Nat, cursor : Cursors, step : {"compare", "wake"}]
    /\ stopping \in BOOLEAN /\ poolStopped \in BOOLEAN
    /\ tok \in [Polls -> Nat] /\ delivered \in [Polls -> SUBSET Nat]
    /\ requests \in Nat /\ boots \in Nat /\ faults \in Nat

\* A token never passes an event its user was not given, although events are
\* committed and applied out of the order of their orderings and a commit may
\* be followed by a crash (visible_stream_position, sync_json).
NoEventSkipped ==
    \A p \in Polls : \A e \in events \cup disk :
        UserOf[p] \in e.aud /\ e.ord <= tok[p] => e.ord \in delivered[p]

\* No event is given twice: everything a client was given is at or below its
\* token, so the next answer starts after it (sync_position in sync_json).
NoEventRepeated == \A p \in Polls : \A o \in delivered[p] : o <= tok[p]

\* A token stays at or below the live stream, over restarts too, or it would be
\* treated as foreign or hide the events that reuse its orderings
\* (allocate_stream_ordering, the watermark).
TokensStayValid == \A p \in Polls : tok[p] <= visible_stream_position

\* Poll p waits with nothing on its way to wake it.
Asleep(p) ==
    \/ pc[p] = "parked" /\ \A k \in parkers : k.poll # p
    \/ pc[p] = "held" /\ ~Moved(UserOf[p], cursor[p])

\* An event for p's user is visible and past its token.
Unseen(p) ==
    \E e \in events : /\ UserOf[p] \in e.aud
                      /\ e.ord > tok[p]
                      /\ e.ord <= visible_stream_position

\* A poll sleeps on an event of its user only while some writer has yet to
\* publish (SyncNotifier::park: insert first, compare second; the broadcast of
\* ~PublishedStreamOrdering).
NoMissedWake ==
    (\A w \in Writers : wpc[w] \in {"idle", "commit", "apply"})
        => \A p \in Polls : Asleep(p) => ~Unseen(p)

\* A poll that sleeps on an event of its user is woken, without help of the
\* clock.
EventWakes == \A p \in Polls : (Asleep(p) /\ Unseen(p)) ~> ~Asleep(p)

\* After a stop no poll is left behind (request_stop, the held polls).
StopEndsPolls == stopping ~> (~stopping \/ \A p \in Polls : pc[p] = "idle")

\* A request is answered or its connection closed, once its deadline comes.
PollsEnd ==
    (\A p \in Polls : WF_vars(TimeUp(p)))
        => \A p \in Polls : pc[p] # "idle" ~> pc[p] = "idle"
=============================================================================
