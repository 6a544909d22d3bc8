--------------------------- MODULE DispatchWorker ---------------------------
(***************************************************************************)
(* The federation outbound dispatch worker (federation/DispatchWorker.cpp): *)
(* a bounded queue of transactions, delivery threads that attempt them one  *)
(* destination at a time, retry with backoff, durable rows that survive a   *)
(* crash, their replay at the next start, and the shutdown drain.           *)
(*                                                                          *)
(* Every critical section of mutex_ is one action, except the three that    *)
(* contain a loop (enqueue_batch, top_up_replay_locked, replay_pending):    *)
(* they keep `mutex' and take one action per iteration.  Between critical   *)
(* sections the threads, the caller, the clock and a crash interleave.      *)
(*                                                                          *)
(* A transaction's id is its place in the order of enqueue calls; the code  *)
(* gives it a random name, which says nothing about that order.             *)
(***************************************************************************)
EXTENDS Integers, FiniteSets, Sequences, Functions

CONSTANTS
    Destinations,         \* remote servers
    Threads,              \* config_.delivery_threads of them
    Caller,               \* whoever calls enqueue_batch or replay_pending
    Free,                 \* mutex_ is held by nobody
    NoTransaction,        \* a thread that attempts nothing
    MaxQueueDepth,        \* config_.max_queue_depth, 0 is unbounded
    MaxPending,           \* effective_max_pending_per_destination(config_)
    MaxRetries,           \* config_.max_retries
    BaseRetryInterval,    \* base_retry_interval_ms
    MaxRetryInterval,     \* max_retry_interval_ms
    SlowAttempt,          \* config_.slow_attempt_ms
    DrainBudget,          \* config_.shutdown_drain_budget
    Policies,             \* the destination_refusal outcomes a start may have
    \* bounds of the model
    MaxBatch,             \* transactions in one enqueue_batch call
    MaxTxn,               \* transactions over a behaviour
    MaxTime,              \* clock ticks over a behaviour
    MaxBoots,             \* process starts over a behaviour
    MaxFaults             \* failed database writes over a behaviour

ASSUME ConfigAssumption ==
    /\ IsFiniteSet(Threads)
    /\ Threads # {}
    /\ Caller \notin Threads
    /\ Free \notin Threads \cup {Caller}
    /\ MaxQueueDepth \in Nat
    /\ MaxPending \in Nat \ {0, 1}
    /\ MaxRetries \in Nat
    /\ BaseRetryInterval \in Nat \ {0}
    /\ MaxRetryInterval \in Nat \ {0}
    /\ SlowAttempt \in Nat
    /\ DrainBudget \in Nat
    /\ Policies \subseteq SUBSET Destinations
    /\ MaxBatch \in Nat /\ MaxTxn \in Nat /\ MaxTime \in Nat
    /\ MaxBoots \in Nat /\ MaxFaults \in Nat

VARIABLES
    life,         \* the process: "down", "replaying", "running"
    refused,      \* destinations config_.destination_refusal refuses in this life
    mutex,        \* who holds mutex_
    queue,        \* queue_
    parked,       \* pending_replay_
    slots,        \* queued_per_destination_ (absent is 0)
    inFlight,     \* in_flight_destinations_
    dest,         \* destinations_ (absent is a fresh FederationDestination)
    shutdown,     \* shutdown_requested_
    drainDueBy,   \* drain_due_by_, NoDrain is nullopt
    drainCut,     \* some thread left the drain because its budget ran out
    pc,           \* where each thread is
    job,          \* the transaction each thread attempts
    seen,         \* attempt()'s copy of the destination
    at,           \* the clock reading attempt() schedules from
    toLook,       \* parked rows top_up_replay_locked has still to look at
    batch,        \* enqueue_batch: members not yet considered
    taken,        \* enqueue_batch: members admitted so far
    takenPer,     \* taken_per_destination
    toReplay,     \* replay_pending: rows not yet considered
    excluded,     \* replay_pending: excluded_rows
    rows,         \* durable federation_transactions
    destRows,     \* durable federation_destinations
    now,          \* now_ms_()
    nextTxn,      \* next id to hand out
    born,         \* first id of this life
    accepted,     \* ids enqueue_batch answered true for
    delivered,    \* ids counted in summary_.delivered
    dropped,      \* ids counted in summary_.dropped
    boots,        \* starts so far
    faults        \* failed database writes so far

worker  == <<queue, parked, slots, inFlight, dest>>
control == <<life, refused, shutdown, drainDueBy, drainCut, born, boots>>
threads == <<pc, job, seen, at>>
calls   == <<toLook, batch, taken, takenPer, toReplay, excluded>>
disk    == <<rows, destRows>>
ledger  == <<nextTxn, accepted, delivered, dropped>>
vars    == <<worker, control, threads, calls, disk, ledger, mutex, now, faults>>

Transactions == [id : Nat, dst : Destinations, retries : Nat, due : Nat]
DestinationStates == [failures : Nat, retryAfter : Nat]
FreshDestination == [failures |-> 0, retryAfter |-> 0]
NoDrain == -1

(***************************************************************************)
(* Helpers.                                                                 *)
(***************************************************************************)
\* Doubles from the base interval and is capped at the maximum.
compute_backoff(retryCount) ==
    LET grown == BaseRetryInterval * 2^retryCount
    IN  IF grown \in 0..MaxRetryInterval THEN grown ELSE MaxRetryInterval

destination_should_retry(destination, ts) == ~(ts < destination.retryAfter)

apply_outbound_result(destination, ok, ts) ==
    IF ok THEN FreshDestination
    ELSE [failures   |-> destination.failures + 1,
          retryAfter |-> ts + compute_backoff(destination.failures + 1)]

apply_slow_success(failuresBefore, ts) ==
    [failures   |-> failuresBefore + 1,
     retryAfter |-> ts + compute_backoff(failuresBefore + 1)]

QueueFull == MaxQueueDepth # 0 /\ Len(queue) >= MaxQueueDepth

destination_at_share_locked(d) == slots[d] >= MaxPending

release_destination_slot_locked(d) ==
    slots' = [slots EXCEPT ![d] = IF @ <= 1 THEN 0 ELSE @ - 1]

push_queue_locked(row) ==
    /\ slots' = [slots EXCEPT ![row.dst] = @ + 1]
    /\ queue' = Append(queue, row)

\* queue_.erase: the entry at position i is gone.
Erase(s, i) == SubSeq(s, 1, i - 1) \o SubSeq(s, i + 1, Len(s))

\* Mutant: a retry goes behind the transactions that waited for it.
MutantRequeueAtBack(row) == queue' = Append(queue, row)

\* At the front, and without counting a slot again.
requeue_locked(row) == queue' = <<row>> \o queue

\* Mutant: in_flight_destinations_ is not consulted.
MutantReadyIgnoresInFlight(dueBy) ==
    {i \in 1..Len(queue) :
        /\ queue[i].due <= dueBy
        /\ \A j \in 1..(i - 1) : queue[j].dst # queue[i].dst}

\* Positions of queue_ that may go: nothing of the destination is in flight
\* or ahead of it, and it is due.
Ready(dueBy) ==
    {i \in 1..Len(queue) :
        /\ queue[i].dst \notin inFlight
        /\ queue[i].due <= dueBy
        /\ \A j \in 1..(i - 1) : queue[j].dst # queue[i].dst}

\* Mutant: only the front of the queue is looked at.
MutantFrontOnly(i, dueBy) == i = 1 /\ i \in Ready(dueBy)

next_ready_locked(i, dueBy) ==
    /\ i \in Ready(dueBy)
    /\ \A j \in Ready(dueBy) : i <= j

\* The durable row of a transaction is written in place, or added.
store_federation_transaction(row) ==
    rows' = {r \in rows : r.id # row.id} \cup {row}

delete_federation_transaction(row) ==
    rows' = {r \in rows : r.id # row.id}

\* A database write that fails changes nothing durable.
Fault == /\ faults < MaxFaults
         /\ faults' = faults + 1

-----------------------------------------------------------------------------
Init ==
    /\ life = "down"
    /\ refused = {}
    /\ mutex = Free
    /\ queue = <<>>
    /\ parked = <<>>
    /\ slots = [d \in Destinations |-> 0]
    /\ inFlight = {}
    /\ dest = [d \in Destinations |-> FreshDestination]
    /\ shutdown = FALSE
    /\ drainDueBy = NoDrain
    /\ drainCut = FALSE
    /\ pc = [t \in Threads |-> "done"]
    /\ job = [t \in Threads |-> NoTransaction]
    /\ seen = [t \in Threads |-> FreshDestination]
    /\ at = [t \in Threads |-> 0]
    /\ toLook = 0
    /\ batch = <<>>
    /\ taken = <<>>
    /\ takenPer = [d \in Destinations |-> 0]
    /\ toReplay = {}
    /\ excluded = {}
    /\ rows = {}
    /\ destRows = [d \in Destinations |-> FreshDestination]
    /\ now = 0
    /\ nextTxn = 1
    /\ born = 1
    /\ accepted = {}
    /\ delivered = {}
    /\ dropped = {}
    /\ boots = 0
    /\ faults = 0

(***************************************************************************)
(* enqueue_batch: EnqueueBegin, one EnqueueConsider per member, and         *)
(* EnqueueCommit.                                                           *)
(***************************************************************************)
\* Mutant: shutdown_requested_ is not looked at.
MutantEnqueueWhileStopping ==
    /\ life = "running"
    /\ mutex = Free
    /\ \E n \in 1..MaxBatch :
        /\ nextTxn + n - 1 <= MaxTxn
        /\ \E to \in [1..n -> Destinations] :
            batch' = [k \in 1..n |-> [id |-> nextTxn + k - 1, dst |-> to[k],
                                      retries |-> 0, due |-> 0]]
        /\ nextTxn' = nextTxn + n
    /\ mutex' = Caller
    /\ UNCHANGED <<worker, control, threads, disk, accepted, delivered, dropped,
                   toLook, taken, takenPer, toReplay, excluded, now, faults>>

EnqueueBegin ==
    /\ life = "running"
    /\ mutex = Free
    /\ ~shutdown
    /\ \E n \in 1..MaxBatch :
        /\ nextTxn + n - 1 <= MaxTxn
        /\ \E to \in [1..n -> Destinations] :
            batch' = [k \in 1..n |-> [id |-> nextTxn + k - 1, dst |-> to[k],
                                      retries |-> 0, due |-> 0]]
        /\ nextTxn' = nextTxn + n
    /\ mutex' = Caller
    /\ UNCHANGED <<worker, control, threads, disk, accepted, delivered, dropped,
                   toLook, taken, takenPer, toReplay, excluded, now, faults>>

\* Mutant: the queue depth is not looked at.
MutantNoDepthLimit(row) ==
    /\ row.dst \notin refused
    /\ slots[row.dst] + takenPer[row.dst] < MaxPending

\* The bounds count the batch's own earlier members.
Admissible(row) ==
    /\ row.dst \notin refused
    /\ ~(MaxQueueDepth # 0 /\ Len(queue) + Len(taken) >= MaxQueueDepth)
    /\ slots[row.dst] + takenPer[row.dst] < MaxPending

EnqueueConsider ==
    /\ life = "running"
    /\ mutex = Caller
    /\ batch # <<>>
    /\ batch' = Tail(batch)
    /\ IF Admissible(Head(batch))
       THEN /\ taken' = Append(taken, Head(batch))
            /\ takenPer' = [takenPer EXCEPT ![Head(batch).dst] = @ + 1]
       ELSE UNCHANGED <<taken, takenPer>>
    /\ UNCHANGED <<worker, control, threads, disk, ledger, mutex, toLook,
                   toReplay, excluded, now, faults>>

\* Mutant: the batch is accepted although its commit failed.
MutantAcceptUnstored ==
    /\ life = "running"
    /\ mutex = Caller
    /\ batch = <<>>
    /\ \/ /\ rows' = rows \cup {taken[k] : k \in 1..Len(taken)}
          /\ UNCHANGED faults
       \/ /\ taken # <<>>
          /\ Fault
          /\ UNCHANGED rows
    /\ queue' = queue \o taken
    /\ slots' = [d \in Destinations |-> slots[d] + takenPer[d]]
    /\ accepted' = accepted \cup {taken[k].id : k \in 1..Len(taken)}
    /\ taken' = <<>>
    /\ takenPer' = [d \in Destinations |-> 0]
    /\ mutex' = Free
    /\ UNCHANGED <<control, threads, parked, inFlight, dest, destRows, nextTxn,
                   delivered, dropped, toLook, batch, toReplay, excluded, now>>

EnqueueCommit ==
    /\ life = "running"
    /\ mutex = Caller
    /\ batch = <<>>
    /\ \/ /\ rows' = rows \cup {taken[k] : k \in 1..Len(taken)}
          /\ queue' = queue \o taken
          /\ slots' = [d \in Destinations |-> slots[d] + takenPer[d]]
          /\ accepted' = accepted \cup {taken[k].id : k \in 1..Len(taken)}
          /\ UNCHANGED faults
       \/ /\ taken # <<>>
          /\ Fault
          /\ UNCHANGED <<rows, queue, slots, accepted>>
    /\ taken' = <<>>
    /\ takenPer' = [d \in Destinations |-> 0]
    /\ mutex' = Free
    /\ UNCHANGED <<control, threads, parked, inFlight, dest, destRows, nextTxn,
                   delivered, dropped, toLook, batch, toReplay, excluded, now>>

(***************************************************************************)
(* The delivery threads: loop(), run_due(), attempt().                      *)
(***************************************************************************)
Goto(t, label) == pc' = [pc EXCEPT ![t] = label]

\* The loop condition, read without mutex_.
LoopCheck(t) ==
    /\ pc[t] = "loop"
    /\ ~shutdown
    /\ Goto(t, "poll")
    /\ UNCHANGED <<worker, control, job, seen, at, calls, disk, ledger, mutex,
                   now, faults>>

\* Mutants: the transaction is not handed out; the queue is not topped up.
MutantTakeNothing(t, dueBy) ==
    /\ mutex = Free
    /\ \E i \in 1..Len(queue) :
        /\ next_ready_locked(i, dueBy)
        /\ queue' = Erase(queue, i)
        /\ inFlight' = inFlight \cup {queue[i].dst}
    /\ toLook' = Len(parked)
    /\ mutex' = t
    /\ Goto(t, "topup")
    /\ UNCHANGED <<control, parked, slots, dest, job, seen, at, batch, taken,
                   takenPer, toReplay, excluded, disk, ledger, now, faults>>

MutantNoTopUp(t, dueBy) ==
    /\ mutex = Free
    /\ \E i \in 1..Len(queue) :
        /\ next_ready_locked(i, dueBy)
        /\ job' = [job EXCEPT ![t] = queue[i]]
        /\ queue' = Erase(queue, i)
        /\ inFlight' = inFlight \cup {queue[i].dst}
    /\ toLook' = 0
    /\ mutex' = t
    /\ Goto(t, "topup")
    /\ UNCHANGED <<control, parked, slots, dest, seen, at, batch, taken,
                   takenPer, toReplay, excluded, disk, ledger, now, faults>>

\* take_next: erase the entry, mark its destination in flight, then top up.
take_next(t, dueBy) ==
    /\ mutex = Free
    /\ \E i \in 1..Len(queue) :
        /\ next_ready_locked(i, dueBy)
        /\ job' = [job EXCEPT ![t] = queue[i]]
        /\ queue' = Erase(queue, i)
        /\ inFlight' = inFlight \cup {queue[i].dst}
    /\ toLook' = Len(parked)
    /\ mutex' = t
    /\ Goto(t, "topup")
    /\ UNCHANGED <<control, parked, slots, dest, seen, at, batch, taken,
                   takenPer, toReplay, excluded, disk, ledger, now, faults>>

Poll(t) ==
    /\ pc[t] = "poll"
    /\ take_next(t, now)

\* Nothing is ready: the idle wait ends at the latest after config_.idle_poll.
PollIdle(t) ==
    /\ pc[t] = "poll"
    /\ mutex = Free
    /\ Ready(now) = {}
    /\ Goto(t, "loop")
    /\ UNCHANGED <<worker, control, job, seen, at, calls, disk, ledger, mutex,
                   now, faults>>

\* One iteration of the loop in top_up_replay_locked, or its end.
TopUp(t) ==
    /\ pc[t] = "topup"
    /\ mutex = t
    /\ IF toLook = 0 \/ parked = <<>> \/ QueueFull
       THEN /\ toLook' = 0
            /\ mutex' = Free
            /\ Goto(t, "begin")
            /\ UNCHANGED <<queue, slots, parked>>
       ELSE /\ toLook' = toLook - 1
            /\ UNCHANGED <<mutex, pc>>
            /\ IF destination_at_share_locked(Head(parked).dst)
               THEN /\ parked' = Append(Tail(parked), Head(parked))
                    /\ UNCHANGED <<queue, slots>>
               ELSE /\ parked' = Tail(parked)
                    /\ push_queue_locked(Head(parked))
    /\ UNCHANGED <<control, inFlight, dest, job, seen, at, batch, taken,
                   takenPer, toReplay, excluded, disk, ledger, now, faults>>

\* attempt(): copy the destination and look at its backoff.
AttemptBegin(t) ==
    /\ pc[t] = "begin"
    /\ mutex = Free
    /\ seen' = [seen EXCEPT ![t] = dest[job[t].dst]]
    /\ at' = [at EXCEPT ![t] = now]
    /\ Goto(t, IF destination_should_retry(dest[job[t].dst], now)
               THEN "resolve" ELSE "circuit")
    /\ UNCHANGED <<worker, control, job, calls, disk, ledger, mutex, now, faults>>

\* Mutant: the slot is kept by a transaction that could not be persisted.
MutantLeakSlot(t, row) ==
    /\ \/ /\ store_federation_transaction(row)
          /\ requeue_locked(row)
          /\ UNCHANGED faults
       \/ /\ Fault
          /\ UNCHANGED <<rows, queue>>
    /\ Goto(t, "release")
    /\ UNCHANGED <<control, parked, slots, inFlight, dest, job, seen, at, calls,
                   destRows, ledger, mutex, now>>

\* The end of both retry paths: the row is written before the transaction is
\* queued again; if it cannot be, the transaction leaves this life's memory.
PersistAndRequeue(t, row) ==
    /\ \/ /\ store_federation_transaction(row)
          /\ requeue_locked(row)
          /\ UNCHANGED <<slots, faults>>
       \/ /\ Fault
          /\ release_destination_slot_locked(row.dst)
          /\ UNCHANGED <<rows, queue>>
    /\ Goto(t, "release")
    /\ UNCHANGED <<control, parked, inFlight, dest, job, seen, at, calls,
                   destRows, ledger, mutex, now>>

wait_out_open_circuit(t) ==
    /\ pc[t] = "circuit"
    /\ mutex = Free
    /\ PersistAndRequeue(t,
         [job[t] EXCEPT !.due = IF seen[t].retryAfter > at[t]
                                THEN seen[t].retryAfter
                                ELSE at[t] + compute_backoff(job[t].retries)])

\* Discovery, outside mutex_.
Discover(t) ==
    /\ pc[t] = "resolve"
    /\ \/ /\ Goto(t, "send")
          /\ UNCHANGED <<seen, at>>
       \/ /\ seen' = [seen EXCEPT ![t] = apply_outbound_result(@, FALSE, now)]
          /\ at' = [at EXCEPT ![t] = now]
          /\ Goto(t, "failed")
    /\ UNCHANGED <<worker, control, job, calls, disk, ledger, mutex, now, faults>>

\* perform_outbound_transaction, outside mutex_; the answer is 2xx or not.
Perform(t) ==
    /\ pc[t] = "send"
    /\ at' = [at EXCEPT ![t] = now]
    /\ \E ok \in BOOLEAN :
        /\ seen' = [seen EXCEPT ![t] =
                      IF ok /\ now - at[t] > SlowAttempt
                      THEN apply_slow_success(@.failures, now)
                      ELSE apply_outbound_result(@, ok, now)]
        /\ Goto(t, IF ok THEN "succeeded" ELSE "failed")
    /\ UNCHANGED <<worker, control, job, calls, disk, ledger, mutex, now, faults>>

\* The copy goes back; whether it could be persisted is not looked at.
remember_destination_locked(t) ==
    /\ dest' = [dest EXCEPT ![job[t].dst] = seen[t]]
    /\ \/ destRows' = [destRows EXCEPT ![job[t].dst] = seen[t]]
       \/ UNCHANGED destRows

\* Mutant: counted as delivered although its row could not be deleted.
MutantDeliveredAnyway(t) ==
    /\ pc[t] = "succeeded"
    /\ mutex = Free
    /\ remember_destination_locked(t)
    /\ release_destination_slot_locked(job[t].dst)
    /\ delivered' = delivered \cup {job[t].id}
    /\ \/ delete_federation_transaction(job[t]) /\ UNCHANGED faults
       \/ Fault /\ UNCHANGED rows
    /\ Goto(t, "release")
    /\ UNCHANGED <<control, queue, parked, inFlight, job, seen, at, calls,
                   nextTxn, accepted, dropped, mutex, now>>

\* attempt(): the answer was 2xx.  The transaction counts as delivered only if
\* its row could be deleted; if not it takes the retry path.
AttemptSucceeded(t) ==
    /\ pc[t] = "succeeded"
    /\ mutex = Free
    /\ remember_destination_locked(t)
    /\ \/ /\ delete_federation_transaction(job[t])
          /\ release_destination_slot_locked(job[t].dst)
          /\ delivered' = delivered \cup {job[t].id}
          /\ Goto(t, "release")
          /\ UNCHANGED faults
       \/ /\ Fault
          /\ Goto(t, "retry")
          /\ UNCHANGED <<rows, slots, delivered>>
    /\ UNCHANGED <<control, queue, parked, inFlight, job, seen, at, calls,
                   nextTxn, accepted, dropped, mutex, now>>

AttemptFailed(t) ==
    /\ pc[t] = "failed"
    /\ mutex = Free
    /\ remember_destination_locked(t)
    /\ Goto(t, "retry")
    /\ UNCHANGED <<control, queue, parked, slots, inFlight, job, seen, at, calls,
                   rows, ledger, mutex, now, faults>>

\* re_enqueue_with_backoff once the retries are used up.
DropExhausted(t) ==
    /\ release_destination_slot_locked(job[t].dst)
    /\ \/ /\ delete_federation_transaction(job[t])
          /\ dropped' = dropped \cup {job[t].id}
          /\ UNCHANGED faults
       \/ /\ Fault
          /\ UNCHANGED <<rows, dropped>>
    /\ Goto(t, "release")
    /\ UNCHANGED <<control, queue, parked, inFlight, dest, job, seen, at, calls,
                   destRows, nextTxn, accepted, delivered, mutex, now>>

re_enqueue_with_backoff(t) ==
    /\ pc[t] = "retry"
    /\ mutex = Free
    /\ LET retries == job[t].retries + 1
       IN  IF retries >= MaxRetries
           THEN DropExhausted(t)
           ELSE PersistAndRequeue(t,
                  [job[t] EXCEPT !.retries = retries,
                                 !.due = at[t] + compute_backoff(retries)])

\* ~InFlightSlot, after attempt() returned.
ReleaseInFlight(t) ==
    /\ pc[t] = "release"
    /\ mutex = Free
    /\ inFlight' = inFlight \ {job[t].dst}
    /\ job' = [job EXCEPT ![t] = NoTransaction]
    /\ seen' = [seen EXCEPT ![t] = FreshDestination]
    /\ at' = [at EXCEPT ![t] = 0]
    /\ Goto(t, "loop")
    /\ UNCHANGED <<control, queue, parked, slots, dest, calls, disk, ledger,
                   mutex, now, faults>>

\* The first thread to get here fixes what the drain covers and when it ends;
\* the others, and the same one after an attempt, read what it fixed.
DrainBegin(t) ==
    /\ pc[t] = "loop"
    /\ shutdown
    /\ mutex = Free
    /\ drainDueBy' = IF drainDueBy = NoDrain THEN now ELSE drainDueBy
    /\ Goto(t, "drain")
    /\ UNCHANGED <<worker, life, refused, shutdown, drainCut, born, boots, job,
                   seen, at, calls, disk, ledger, mutex, now, faults>>

DrainDeadlinePassed == now >= drainDueBy + DrainBudget

\* The deadline is looked at without mutex_, before the drain takes its next.
DrainCheck(t) ==
    /\ pc[t] = "drain"
    /\ IF DrainDeadlinePassed
       THEN Goto(t, "done") /\ drainCut' = TRUE
       ELSE Goto(t, "drainTake") /\ UNCHANGED drainCut
    /\ UNCHANGED <<worker, life, refused, shutdown, drainDueBy, born, boots, job,
                   seen, at, calls, disk, ledger, mutex, now, faults>>

\* Mutant: the drain also takes what it has itself scheduled for later.
MutantDrainRetries(t) ==
    /\ pc[t] = "drainTake"
    /\ take_next(t, now + MaxRetryInterval)

DrainTake(t) ==
    /\ pc[t] = "drainTake"
    /\ take_next(t, drainDueBy)

DrainEnd(t) ==
    /\ pc[t] = "drainTake"
    /\ mutex = Free
    /\ Ready(drainDueBy) = {}
    /\ Goto(t, "done")
    /\ UNCHANGED <<worker, control, job, seen, at, calls, disk, ledger, mutex,
                   now, faults>>

ThreadStep(t) ==
    \/ LoopCheck(t)
    \/ Poll(t)
    \/ PollIdle(t)
    \/ TopUp(t)
    \/ AttemptBegin(t)
    \/ wait_out_open_circuit(t)
    \/ Discover(t)
    \/ Perform(t)
    \/ AttemptSucceeded(t)
    \/ AttemptFailed(t)
    \/ re_enqueue_with_backoff(t)
    \/ ReleaseInFlight(t)
    \/ DrainBegin(t)
    \/ DrainCheck(t)
    \/ DrainTake(t)
    \/ DrainEnd(t)

(***************************************************************************)
(* The life of the process: construction, replay_pending, start, shutdown,  *)
(* and a crash, which loses everything that is not durable.                 *)
(***************************************************************************)
\* Construction and the destinations half of replay_pending.
Boot ==
    /\ life = "down"
    /\ boots < MaxBoots
    /\ boots' = boots + 1
    /\ life' = "replaying"
    /\ mutex' = Caller
    /\ refused' \in Policies
    /\ dest' = destRows
    /\ toReplay' = rows
    /\ born' = nextTxn
    /\ UNCHANGED <<queue, parked, slots, inFlight, shutdown, drainDueBy, drainCut,
                   threads, toLook, batch, taken, takenPer, excluded, disk, ledger,
                   now, faults>>

\* Mutant: a row that does not fit is left to the next start.
MutantSkipOverflow ==
    /\ life = "replaying"
    /\ \E row \in toReplay :
        /\ toReplay' = toReplay \ {row}
        /\ \/ /\ row.dst \in refused
              /\ excluded' = excluded \cup {row}
              /\ UNCHANGED <<queue, slots>>
           \/ /\ row.dst \notin refused
              /\ QueueFull \/ destination_at_share_locked(row.dst)
              /\ UNCHANGED <<queue, slots, excluded>>
           \/ /\ row.dst \notin refused
              /\ ~QueueFull
              /\ ~destination_at_share_locked(row.dst)
              /\ push_queue_locked(row)
              /\ UNCHANGED excluded
    /\ UNCHANGED <<control, parked, inFlight, dest, threads, toLook, batch, taken,
                   takenPer, disk, ledger, mutex, now, faults>>

\* One row of replay_pending.  The store hands them out in an order that is
\* not the order of enqueueing: ORDER BY transaction_id, a random name.
ReplayRow ==
    /\ life = "replaying"
    /\ \E row \in toReplay :
        /\ toReplay' = toReplay \ {row}
        /\ \/ /\ row.dst \in refused
              /\ excluded' = excluded \cup {row}
              /\ UNCHANGED <<queue, slots, parked>>
           \/ /\ row.dst \notin refused
              /\ QueueFull \/ destination_at_share_locked(row.dst)
              /\ parked' = Append(parked, row)
              /\ UNCHANGED <<queue, slots, excluded>>
           \/ /\ row.dst \notin refused
              /\ ~QueueFull
              /\ ~destination_at_share_locked(row.dst)
              /\ push_queue_locked(row)
              /\ UNCHANGED <<parked, excluded>>
    /\ UNCHANGED <<control, inFlight, dest, threads, toLook, batch, taken,
                   takenPer, disk, ledger, mutex, now, faults>>

\* The end of replay_pending: each excluded row is deleted, if it can be.
DeleteExcluded ==
    \E gone \in SUBSET excluded :
        /\ rows' = rows \ gone
        /\ dropped' = dropped \cup {row.id : row \in gone}
        /\ \/ gone = excluded /\ UNCHANGED faults
           \/ gone # excluded /\ Fault

\* start() follows; some of the threads may not be created.
Start ==
    /\ life = "replaying"
    /\ toReplay = {}
    /\ DeleteExcluded
    /\ excluded' = {}
    /\ \E started \in SUBSET Threads :
        /\ started # {}
        /\ pc' = [t \in Threads |-> IF t \in started THEN "loop" ELSE "done"]
    /\ life' = "running"
    /\ mutex' = Free
    /\ UNCHANGED <<worker, refused, shutdown, drainDueBy, drainCut, born, boots,
                   job, seen, at, toLook, batch, taken, takenPer, toReplay,
                   destRows, nextTxn, accepted, delivered, now>>

request_shutdown ==
    /\ life = "running"
    /\ mutex = Free
    /\ ~shutdown
    /\ shutdown' = TRUE
    /\ UNCHANGED <<worker, life, refused, drainDueBy, drainCut, born, boots,
                   threads, calls, disk, ledger, mutex, now, faults>>

\* The worker object, or the whole process, is gone.
LoseMemory ==
    /\ life' = "down"
    /\ refused' = {}
    /\ mutex' = Free
    /\ queue' = <<>>
    /\ parked' = <<>>
    /\ slots' = [d \in Destinations |-> 0]
    /\ inFlight' = {}
    /\ dest' = [d \in Destinations |-> FreshDestination]
    /\ shutdown' = FALSE
    /\ drainDueBy' = NoDrain
    /\ drainCut' = FALSE
    /\ pc' = [t \in Threads |-> "done"]
    /\ job' = [t \in Threads |-> NoTransaction]
    /\ seen' = [t \in Threads |-> FreshDestination]
    /\ at' = [t \in Threads |-> 0]
    /\ toLook' = 0
    /\ batch' = <<>>
    /\ taken' = <<>>
    /\ takenPer' = [d \in Destinations |-> 0]
    /\ toReplay' = {}
    /\ excluded' = {}
    /\ UNCHANGED <<disk, ledger, born, boots, now, faults>>

\* request_shutdown was called and join() returned.
Exit ==
    /\ life = "running"
    /\ mutex = Free
    /\ shutdown
    /\ \A t \in Threads : pc[t] = "done"
    /\ LoseMemory

Crash ==
    /\ life # "down"
    /\ LoseMemory

Tick ==
    /\ now < MaxTime
    /\ now' = now + 1
    /\ UNCHANGED <<worker, control, threads, calls, disk, ledger, mutex, faults>>

Enqueue == EnqueueBegin \/ EnqueueConsider \/ EnqueueCommit

Next ==
    \/ Enqueue
    \/ \E t \in Threads : ThreadStep(t)
    \/ Boot
    \/ ReplayRow
    \/ Start
    \/ request_shutdown
    \/ Exit
    \/ Crash
    \/ Tick

Spec == Init /\ [][Next]_vars

\* The operating system runs every thread that can run, the caller finishes
\* the call it began, and every network call ends (attempt_timeout_seconds,
\* dispatch_discovery_timeout_seconds).  Nothing forces time, calls, restarts,
\* shutdowns or crashes.
Fairness ==
    /\ \A t \in Threads : WF_vars(ThreadStep(t))
    /\ WF_vars(EnqueueConsider \/ EnqueueCommit)
    /\ WF_vars(ReplayRow \/ Start)
    /\ WF_vars(Exit)

FairSpec == Spec /\ Fairness

-----------------------------------------------------------------------------
(***************************************************************************)
(* Properties.                                                              *)
(***************************************************************************)
\* Labels at which a thread attempts a transaction that holds a slot, and at
\* which its destination is in flight.
Holding == {"topup", "begin", "circuit", "resolve", "send", "succeeded",
            "failed", "retry"}
Flying  == Holding \cup {"release"}

Ids(entries) == {entry.id : entry \in entries}
QueuedIds == Ids(Range(queue))
ParkedIds == Ids(Range(parked))
Held      == {job[t] : t \in {u \in Threads : pc[u] \in Holding}}
HeldIds   == Ids(Held)
RowIds    == Ids(rows)

\* The transactions of destination d that hold one of its slots.
SlotHolders(d) == Ids({entry \in Range(queue) \cup Held : entry.dst = d})

Flags == shutdown \in BOOLEAN /\ drainCut \in BOOLEAN

Shapes ==
    /\ life \in {"down", "replaying", "running"}
    /\ refused \subseteq Destinations
    /\ mutex \in Threads \cup {Caller, Free}
    /\ queue \in Seq(Transactions)
    /\ parked \in Seq(Transactions)
    /\ slots \in [Destinations -> Nat]
    /\ inFlight \subseteq Destinations
    /\ dest \in [Destinations -> DestinationStates]
    /\ drainDueBy \in Nat \cup {NoDrain}
    /\ pc \in [Threads -> Flying \cup {"loop", "poll", "drain", "drainTake", "done"}]
    /\ job \in [Threads -> Transactions \cup {NoTransaction}]
    /\ \A t \in Threads : pc[t] \in Flying => job[t] \in Transactions
    /\ seen \in [Threads -> DestinationStates]
    /\ at \in [Threads -> Nat]
    /\ toLook \in Nat
    /\ batch \in Seq(Transactions)
    /\ taken \in Seq(Transactions)
    /\ takenPer \in [Destinations -> Nat]
    /\ toReplay \subseteq Transactions
    /\ excluded \subseteq Transactions
    /\ rows \subseteq Transactions
    /\ destRows \in [Destinations -> DestinationStates]
    /\ now \in Nat /\ boots \in Nat /\ faults \in Nat
    /\ nextTxn \in Nat /\ born \in Nat
    /\ accepted \subseteq Nat /\ delivered \subseteq Nat /\ dropped \subseteq Nat

\* Every variable has the shape the code gives it.
TypeOK == Shapes /\ Flags

\* A destination's slots count exactly its queued and in-flight transactions,
\* on every path out of an attempt, and never pass its share
\* (push_queue_locked, requeue_locked, release_destination_slot_locked).
SlotsAreHeld ==
    \A d \in Destinations :
        /\ slots[d] = Cardinality(SlotHolders(d))
        /\ slots[d] <= MaxPending

\* A retry goes back to a queue that may have been refilled meanwhile, so the
\* depth can be passed, but only by what the threads hold (requeue_locked).
QueueIsBounded ==
    MaxQueueDepth # 0 =>
        Len(queue) + Cardinality({t \in Threads : pc[t] \in Holding})
            <= MaxQueueDepth + Cardinality(Threads)

\* A destination is marked in flight exactly while one thread attempts one of
\* its transactions, and never two threads at a time (take_next, InFlightSlot).
OneAttemptPerDestination ==
    /\ inFlight = {job[t].dst : t \in {u \in Threads : pc[u] \in Flying}}
    /\ \A t, u \in Threads :
        t # u /\ pc[t] \in Flying /\ pc[u] \in Flying => job[t].dst # job[u].dst

\* Of the transactions accepted in this life of the process, an attempt never
\* overtakes an earlier one to the same destination that is still to be sent
\* (next_ready_locked, requeue_locked).
AttemptsKeepOrder ==
    \A i \in 1..Len(queue) : queue[i].id >= born =>
        /\ \A j \in 1..(i - 1) :
            queue[j].dst = queue[i].dst => queue[j].id < queue[i].id
        /\ \A t \in Threads :
            pc[t] \in Holding /\ job[t].dst = queue[i].dst => job[t].id < queue[i].id

\* An accepted transaction has its durable row until it was delivered or
\* deliberately dropped, over retries, failed writes, crashes and restarts.
AcceptedIsDurable == accepted \subseteq delivered \cup dropped \cup RowIds

\* A transaction counted as delivered or dropped is never sent again, not even
\* by a later life of the process: nothing of it is left to send.
SettledIsFinal ==
    (delivered \cup dropped) \cap (RowIds \cup QueuedIds \cup ParkedIds \cup HeldIds) = {}

\* While no database write failed, every durable row is known to the running
\* worker: queued, parked, or being attempted.
NothingIsForgotten ==
    life = "running" /\ mutex = Free /\ faults = 0 =>
        RowIds \subseteq QueuedIds \cup ParkedIds \cup HeldIds

\* A parked backlog is never all that is left: some queued transaction will be
\* taken and will top the queue up again (top_up_replay_locked).
BacklogIsNotStranded ==
    life = "running" /\ mutex = Free /\ parked # <<>> => queue # <<>>

\* The copy of a destination an attempt works on is still what destinations_
\* holds when the attempt puts its own result back, so no result is lost.
CopyIsCurrent ==
    \A t \in Threads : pc[t] \in {"circuit", "resolve", "send"} =>
        seen[t] = dest[job[t].dst]

\* When every thread has left the drain and none of them for lack of time,
\* nothing that was due when it began is left to attempt (loop).
DrainIsComplete ==
    /\ life = "running"
    /\ drainDueBy # NoDrain
    /\ ~drainCut
    /\ mutex = Free
    /\ \A t \in Threads : pc[t] = "done"
    => Ready(drainDueBy) = {}

\* request_shutdown is answered: every thread ends, also when all peers fail.
ShutdownEnds == shutdown ~> life = "down"

\* A transaction that may go is taken by some thread.
IsReady(id) == \E i \in Ready(now) : queue[i].id = id
ReadyIsTaken ==
    \A id \in 1..MaxTxn : life = "running" /\ IsReady(id) ~> id \notin QueuedIds

\* "its transactions keep their order" (DispatchWorker.hpp): an attempt never
\* overtakes any earlier transaction to the destination that is still to be sent.
TransactionsKeepTheirOrder ==
    \A t \in Threads : pc[t] = "send" =>
        \A row \in rows : row.dst = job[t].dst => row.id >= job[t].id

=============================================================================
