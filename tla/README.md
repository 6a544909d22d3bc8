# Merovingian in TLA+

TLA+ specifications of the concurrent and persistent parts of Merovingian, a
Matrix homeserver written in C++ (`src/src`, headers in `src/include/merovingian`):
what they do, what TLC checks of them on small instances, and what TLAPS proves
of them for every instance. `PROJECT.json` lists the components, the runs, the
mutants that show each property can fail, the source lines of each definition,
the findings, the hazards and the theorems.

## The system and its parts

The main process owns the database and one `HomeserverRuntime` guarded by a
single recursive `runtime.mutex`. Around it run thread pools and long-lived
threads that hand work to each other:

| part | where | what makes it hard |
| --- | --- | --- |
| outbound federation queue | `federation/DispatchWorker.cpp`, `federation/outbound_transaction.cpp` | delivery threads, retries, durable rows, replay, drain |
| sync long-polls | `sync/SyncNotifier.cpp`, `sync/ParkedPollRegistry.cpp`, `homeserver/http_server.cpp` | wake-ups against parking, resume on another thread, stop |
| stream orderings | `homeserver/HomeserverRuntime.cpp`, `PendingStreamOrdering.cpp`, `PublishedStreamOrdering.cpp` | positions allocated before their events are committed, watermark over a restart |
| connections and pools | `net/ConnectionParker.cpp`, `net/ThreadPool.cpp`, `http/keep_alive.cpp` | hand-over of connections, bounded queues, stop |
| worker processes | `ipc/IpcChannel.cpp`, `homeserver/WorkerSupervisor.cpp`, `WorkerPool.cpp`, `FederationProxy.cpp` | deadlines against late replies, restart against stop |
| inbound federation | `federation/inbound_*.cpp`, `EduIdempotenceWindow.cpp`, `homeserver/deferred_pdu_retry.cpp` | work with the mutex released, duplicates |
| rooms and events | `homeserver/room_service.cpp`, `state_bookkeeping.cpp`, `events/*.cpp` | authorization and state resolution over event graphs |
| sessions | `homeserver/auth_service.cpp`, `LoginTokenStore.cpp` | several writes of which one may fail |
| push, email, application services | `push/*.cpp`, `homeserver/appservice_delivery.cpp` | retries, sends with the mutex released |
| media, limits, periodic jobs | `media/*.cpp`, `http/InFlightBudget.cpp`, `homeserver/PeriodicJob.cpp` | coalescing, caps |
| database, configuration, crypto, hardening | `database/*.cpp`, `config/*.cpp`, `crypto/*.cpp`, `platform/*.cpp` | I/O and pure code; a database transaction is one atomic step that may fail |

## Modules

| module | models |
| --- | --- |
| `DispatchWorker` | the outbound federation queue with its durable rows |
| `MCDispatchWorker` | instances of it for TLC |
| `DispatchWorkerProofs` | type correctness |
| `DispatchWorkerAttemptProofs` | durability, exclusive attempts, current copies, complete drains |
| `DispatchWorkerPlacementProofs` | a transaction is in one place; settled stays settled |
| `DispatchWorkerSlotProofs` | slot accounting; the parked backlog moves |
| `LongPoll`, `MCLongPoll` | stream orderings, the sync notifier and the parked long-polls; instances |
| `Connections`, `MCConnections` | the connection parker, the request pool and keep-alive; instances |
| `WorkerCalls` | what main is promised about its calls to a worker, abstractly |
| `IpcChannel`, `MCIpcChannel`, `IpcChannelProofs` | main's end of the channel to a worker; an instance; proofs, among them that it implements `WorkerCalls` |
| `WorkerSupervisor`, `MCWorkerSupervisor`, `WorkerSupervisorProofs` | a shard's worker processes and the room reloads; an instance; proofs |
| `AppserviceDelivery`, `MCAppserviceDelivery`, `AppserviceDeliveryProofs` | the outbox of the application services; an instance; a proof |

### DispatchWorker

Each critical section of `mutex_` is one action. The three critical sections
that contain a loop (`enqueue_batch`, `top_up_replay_locked`, `replay_pending`)
keep `mutex` and take one action per iteration. Discovery, the request and the
database writes happen between or inside these sections as in the code, and a
crash can happen between any two actions.

| state | code |
| --- | --- |
| `queue`, `parked`, `slots`, `inFlight`, `dest` | `queue_`, `pending_replay_`, `pending_per_destination_`, `in_flight_destinations_`, the destination states |
| `pc`, `job`, `seen`, `at` | per delivery thread: where it is, its transaction, its copy of the destination, the time it read |
| `toLook`, `batch`, `taken`, `takenPer`, `toReplay`, `excluded` | locals of the three loops |
| `rows`, `destRows` | the durable tables |
| `life`, `shutdown`, `drainDueBy`, `drainCut`, `refused` | the process, its stop and its policy |
| `now`, `faults`, `boots`, `nextTxn` | the clock and the bounds |
| `accepted`, `delivered`, `dropped`, `born` | a ledger the properties talk about |

| action | code |
| --- | --- |
| `EnqueueBegin`, `EnqueueConsider`, `EnqueueCommit` | `enqueue_batch`: refuse when stopping, admit each transaction, commit, queue |
| `LoopCheck`, `Poll`, `PollIdle`, `TopUp` | `loop`, `run_due`, `take_next`, `top_up_replay_locked` |
| `AttemptBegin`, `Discover`, `Perform`, `AttemptSucceeded`, `AttemptFailed`, `DropExhausted`, `ReleaseInFlight` | `attempt`, `re_enqueue_with_backoff`, `wait_out_open_circuit`, `InFlightSlot` |
| `DrainBegin`, `DrainCheck`, `DrainTake`, `DrainEnd` | the drain at the end of `loop` |
| `Boot`, `ReplayRow`, `Start` | `replay_pending`, `start` |
| `request_shutdown`, `Exit`, `Crash`, `Tick` | `request_shutdown`, `join`, the process and the clock |

A transaction is `[id, dst, retries, due]`. Its id is its place in the order of
enqueue calls; the code gives it a random name. Content, signing, the summary
counters, the replacement of the signing identity and malformed transactions
are left out. The outcome of discovery and of the request is a choice, and so
is the jitter of the backoff. A failed database write changes nothing in memory
beyond what the code does on its error path; `MaxFaults` bounds them.

### LongPoll

How an event reaches a waiting `/sync`. A writer reserves a stream ordering,
commits its event (a local request under one hold of `runtime.mutex`, a PDU
ingestion with the mutex released in between), publishes, and the notifier moves
its generations and wakes. A poll with nothing to return observes the
generations, looks again and parks in the registry, or keeps its pool thread
when the registry is full.

| state | code |
| --- | --- |
| `mutex`, `next`, `pending`, `events` | `runtime.mutex` and the counter, the pending orderings and the events under it |
| `disk`, `watermark` | the durable events and `event_stream_watermark` |
| `published`, `broadcasts`, `generation`, `known` | the fields of `SyncNotifier` |
| `pc`, `cursor`, `expired`, `ticket`, `parkers` | each poll, its `WaitCursor`, its deadline, its ticket, and the threads between insert and compare |
| `stopping`, `poolStopped` | the registry's and the pool's stop |
| `tok`, `delivered` | the client's token and what it was given |

`Reserve`, `Commit`, `Apply`, `LocalWrite`, `Announce`, `Notify` are the writers
(`allocate_stream_ordering`, `PublishedStreamOrdering`, `SyncNotifier::publish`);
`Request`, `Begin`, `Check`, `Rerun`, `Park`, `Compare`, `HeldWait`, `Final` are a
poll (`run_sync_poll`, `SyncNotifier::park`); `Take` and `Resume` are the registry's
thread; `Restart` rebuilds the counter from the watermark and the events.

Assumed: a commit that is reported as failed is not durable; an event keeps the
audience it was written with. Left out: the streams other than events, which
move the same notifier; servers without a sync pool; the failed watermark write,
which `Reserve` has but the runs bound to none (a hazard, below).

### Connections

Who owns an HTTP connection. The parker's one thread drains its wake pipe, swaps
in what was parked, selects what is ready within the worker caps, submits it to
the pool and polls. A worker serves one request and parks the connection, closes
it or transfers it to another pool. An action is one hold of `State::mutex` or of
the pool's `queue_mutex_`, one read or write of the pipe, or one poll; a wake
byte is written after the unlock, so it is an action of its own (`owes`).

`incoming`, `parked_count`, `active_total`, `active_per_client`, `stopping` and
`wake_pending` are the fields of `ConnectionParker::State`; `awaiting`, `ready`
and `out` the thread's own lists; `queue` and `poolStopping` the pool's;
`reservation`, `handshake` and `served` the connection's. `Accept` is the
acceptor with its per-address limit. Deciding on keep-alive, writing the answer
and parking are one step. When a poll's deadline falls is a choice; bytes and
hang-ups of a client come while its connection waits. Left out: errors of
`poll`, threads that throw, what is in a request.

### WorkerCalls and IpcChannel

`WorkerCalls` is the promise: a call is opened with the EDUs its verified body
carried, settled once, ends answered or failed, and an EDU the worker relays
back is applied only while its call is open and no more often than the body
carried it. `IpcChannel` is the code: `pending`, `queue`, `running`, `healthy`
and `next_id` are `pending_`, `dispatch_queue_`, `running_`, `healthy_` and
`next_id_`; `reader`, `dispatcher`, `stopper` and `call` say where the threads
are; `wire` is what the worker has written. The refinement maps a call's status
to its entry: none and its outcome, `ready` is settled, otherwise open.

Entering a request and writing it is one action, for the reason given there. The
worker may reply once to what it was sent and relay anything in any order; its
death is a read that fails. A refused submit to the handler pool is the same as
the cap. The other ingestion requests take the same path through the pool as an
EDU relay and are not told apart. The worker's own end is not modelled.

### WorkerSupervisor

One shard and one room. `supervisor` and `stopper` say where `supervisor_loop`
and `stop()` are; `channel`, `pid`, `running`, `healthy` are the fields; `proc` and
`link` the processes and main's end of their channels, numbered by spawn. The
room is the number of commits to it; `thread` is a caller of
`notify_room_changed` between its commit and its frame; `store`, `frames`,
`reloads` and `results` are the worker's copy and the notifications under way;
`generation` and `status` are `room_sync_generations_` and `room_sync_status_`.

Init is after `start()`. Taking `channel_` and stopping that channel is one step,
and so is the test of the process with `waitpid`, and the grace, SIGTERM and
SIGKILL of `stop()`. Errors of `waitpid` other than those the code retries, and
the relayed operations other than `room_sync`, are left out.

### AppserviceDelivery

`outbox` and `cursor` are the durable rows and the transaction cursor,
`ephemeral`, `parked` and `waiting` what is in memory only, `at`, `sent` and
`call` the drainer. An action is one hold of `runtime.mutex`, which the drainer
releases only around the network call: `Done`, `ResendEphemeral`, `Retry`,
`SendEphemeral`, `SendEvent` and `CursorFails` are the ways a pass of
`drain_one_appservice` reaches the call or the next service, `Accept`,
`AcceptUnrecorded` and `SendFails` what it does with the answer. `log` and
`accepted` record what each service was sent and took.

A row that cannot be written is one the service was not interested in. An event
is enqueued once. The length of the back-off and `wake()`, which only shorten or
lengthen a wait, are left out, and so are stored events that cannot be read,
which the code drops as corruption.

## Runs

| run | shows |
| --- | --- |
| `dispatch` | two threads, a caller, the clock, a failing write, shutdown and crash interleave: the slot count of a destination is the number of its queued and held transactions and within its share; one attempt per destination; attempts to a destination keep the order within a life; the copy an attempt works on is current; a drain that was not cut short leaves nothing that was due |
| `dispatch_restart` | over a crash or an exit and a new start, possibly with a policy that refuses a destination, with a queue of depth one: an accepted transaction is durable until settled, a settled one is nowhere any more, every row of a running process is queued, parked or held, a parked backlog is never left behind an empty queue, and the depth is passed only by what the threads hold or have put back |
| `dispatch_liveness` | a shutdown ends and a ready transaction is taken |
| `dispatch_order` | a disagreement, below |
| `longpoll` | a local and two remote writers, whose events commit out of order, against a poll, with a stop and a restart: no token passes an event its user was not given, no event is given twice, tokens stay within the stream, and no poll sleeps on an event that was published |
| `longpoll_liveness` | two polls of one user, one parked and one holding its thread: an event wakes them without help of the clock, a stop ends them, and a request whose deadline comes is answered |
| `connections` | two connections, of a client and of a proxy, and two workers: one owner each, exact shares of the worker caps, reservations for all that is parked, no missed wake of the parker |
| `connections_liveness` | with a TLS handshake owed: the pool never refuses the parker, what a client sends is served, and a stop closes everything |
| `ipc` | requests, replies, deadlines, relays, a flooded queue, a throwing handler and a stop interleave: the channel implements `WorkerCalls`, no caller is stranded, a reply frees its caller though handlers hang, and `stop()` returns |
| `supervisor` | two threads announce three changes to a worker that dies, hangs, fails its reloads or loses its channel, with a stop at any time: a room marked synchronised is current, no process is lost track of, and a worker that died or cannot be reached is replaced |
| `supervisor_fallback` | a disagreement, below |
| `appservice` | two services of which the first never answers, with a failed write and a restart: a transaction id keeps its content, an event its id, and every queued event of the live service is delivered |

Bounds. Two destinations and two threads are the least at which attempts to one
and to different destinations overlap; three transactions let one be in flight,
one wait behind it and one overflow a queue of depth two. Two retries reach both
the retry and the drop. One clock tick is a whole backoff, so a transaction is
seen both waiting and due. One fault places a failed write at every write of
the code; two boots are one restart. Threads and destinations are symmetric in
the safety runs (no property names one, and the model picks none by `CHOOSE`);
the liveness run uses no symmetry.

Two polls and three writers are the least at which an event commits before an
older one and a poll is turned away from a full registry; two orderings and two
boots place a restart between them. Two connections with a cap of one make the
parker hold a ready connection back; two requests on a connection park it again.
One caller with two request ids lets a late reply meet the next request; two
relays of an EDU carried once make the second one too many, and caps of one fill
the queue and the pool. Two workers are one restart, three commits let a result
be late by two. In `appservice`, two events with an outbox of one reach its cap,
two items of one key replace each other, and one transaction per drain reaches
the end of a turn. Queues longer than that (an overflowing ephemeral queue, more
callers or services) are left to the proofs.

Deadlock is checked in `appservice`, whose drainer never ends. Elsewhere it is
not: a process that is down with no boots left, a stopped channel or supervisor,
and a server whose connections are all closed, really stop.

Fairness (`FairSpec`). Weak fairness of each thread's steps: the operating
system runs it, and every network call ends (`attempt_timeout_seconds`,
`dispatch_discovery_timeout_seconds`). Weak fairness of finishing an enqueue
call, a replay and the exit, which no code path abandons. Nothing is assumed of
time, new calls, shutdowns, crashes or restarts. `LongPoll` and `Connections`
likewise: the threads run, and nothing forces clients, writes, the clock or
stops. `IpcChannel` assumes of its handlers nothing at all, since one may wait
for a lock as long as it likes. `WorkerSupervisor` assumes that its thread runs
and that a handshake with a dead child fails; not that a child ever answers.
`AppserviceDelivery` assumes that the drainer runs, a call ends
(`total_timeout_seconds`), a back-off runs out, and, strongly, that a service
that is not in `Dead` answers 200 now and then: the first is the operating
system's and the code's part, the last is what a live service is.

Finding. `DispatchWorker.hpp:59` says that a destination's "transactions keep
their order". Within a life they do (`AttemptsKeepOrder`). Over a restart they
need not: `replay_pending` queues the rows in the order the store returns them,
by random transaction id in PostgreSQL and unordered in SQLite.
`dispatch_order` is the counterexample.

Finding. `docs/architecture.md:498` says that "A room whose last `room_sync`
reload failed is served by main until a reload succeeds". The next change of the
room overwrites "failed" with "pending" (`WorkerPool.cpp:1712`), and until that
reload has answered the room's requests go to the worker whose last reload
failed. `supervisor_fallback` is the counterexample.

## Proofs

### Dispatch

TLAPS proves, for every set of destinations and threads and every value of the
configuration with `ConfigAssumption` (a share of at least two per destination;
`effective_max_pending_per_destination` never gives less in production, where
nothing sets it and the queue depth yields at least 16):

| theorem | states |
| --- | --- |
| `TypeCorrect` | `TypeOK` |
| `AcceptedStaysDurable` | `AcceptedIsDurable` |
| `AttemptsAreExclusive` | `OneAttemptPerDestination` |
| `CopiesAreCurrent` | `CopyIsCurrent` |
| `DrainsComplete` | `DrainIsComplete` |
| `SettledStaysSettled` | `SettledIsFinal` |
| `SlotsAreExact` | `SlotsAreHeld` |
| `BacklogMoves` | `BacklogIsNotStranded` |

The inductive invariant is built in layers. `Shapes` types the variables;
Boolean ones are apart (`Flags`). `Attempts` ties `inFlight` to the program
counters, so two threads cannot attempt one destination, and with it a copy of
a destination cannot go stale, since only the thread that attempts it writes it
back. `Drain` adds what the drain has seen: a thread that finds the queue
without due work and has not been cut short leaves none. `Lock` says who may
hold `mutex`, `Fresh` that the ids of a batch under way are newer than every
known id, and `Placement` that an id is in one place and a settled id in none.
`SettledIsFinal` alone is not inductive: a settled id could be in a second
place, which only `Placement` excludes, and a new id could be a settled one,
which only `Fresh` excludes. Every step of a thread is one of six moves between
the places (`ThreadMoves`), so each of these layers is shown once per move.
`Slots` then follows because a move adds or removes one id of one destination,
and `Backlog` because an empty queue leaves at most the one transaction in
flight per destination, below a share of two, so the head of the backlog is
promoted.

### The other modules

| theorem | states | for any number of |
| --- | --- | --- |
| `KeepsCalls` | `CallsAreKept`: `IpcChannel` implements `WorkerCalls` | callers, origins, EDUs, requests, relays |
| `StrandsNoCaller` | `NoStrandedCaller` | the same |
| `KeepsItsWorker` | `OwnsItsWorker` | threads, commits, restarts |
| `SyncedIsFresh` | `OkIsFresh` | the same |
| `FixesTransactions` | `TransactionsAreFixed` | services, events, items, crashes, failed writes |

`IpcChannel`. The refinement needs that an entry of `pending` has exactly one
caller, that a request id is used once, that a reply on the wire was given by the
worker, and that what is left of an EDU in an entry plus what was applied is what
the body carried. Every step is then a step of `WorkerCalls` or leaves its
variables alone. `NoStrandedCaller` adds that the channel is unhealthy before a
thread marks the entries, so no entry is made after the marking.

`WorkerSupervisor`. `Owned` ties `pid` to the place of the supervisor: it is
cleared before a spawn, and the supervisor is gone before `stop()` clears it.
`Synced` says that a result "ok" of the latest generation was read from the
database after that generation's commit, that reads and swaps of a worker do not
cross, and that a new worker's snapshot is at least as new as every announced
change once main can ask it. `OkIsFresh` alone is not inductive: it says nothing
of results and reloads under way.

`AppserviceDelivery`. Ids in the log are below the cursor's next one; what was
sent under the pending id is the pending event with the items a retry would
carry, and with none after a restart; a parked events-free transaction belongs
to this life; an event that was sent and is still queued is the pending one. The
last is what keeps an event from a second id: an acknowledgement clears the
cursor and deletes the row in one transaction.

Only model-checked: `QueueIsBounded`, `AttemptsKeepOrder`, `NothingIsForgotten`,
the properties of `LongPoll` and `Connections`, and the liveness properties,
which are out of the prover's reach.

## Not modelled

The models cover the code in which threads, processes, the network and the
database meet: the queues, hand-overs, wake-ups, restarts and retries. That is a
small share of the implementation's lines. Most of the others are of three kinds.

- Sequential code under `runtime.mutex`: the client-server runtime and its
  routing, the room service, sessions and accounts. A request is one atomic step
  there; its many lines decide what a response contains, which the properties do
  not tell apart. Where such code takes part in a protocol (a room write, a sync
  answer, the announcement to a worker, the queueing for an application service)
  that part is an action above.
- Pure functions: parsing, canonical JSON, signatures, event authorization and
  state resolution. A model would restate them, and instances within TLC's reach
  say no more than the repository's own test vectors.
- SQL text, file and system calls: a database transaction is an atomic step that
  may fail, in every model.

`PROJECT.json` gives the reason for each component. Known gaps in what could be
modelled: the writes of a token refresh of which one may fail, the passes of the
deferred-PDU retry, the email digest and push retries, the EDU idempotence
window, the waiting of the in-flight budget, the failed watermark write in
`LongPoll`, the worker's end of the channel, and a child that hangs in its
handshake while `stop()` joins the supervisor.
