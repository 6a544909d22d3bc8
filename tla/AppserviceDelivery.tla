------------------------- MODULE AppserviceDelivery -------------------------
(***************************************************************************)
(* Delivery of events and ephemeral data to application services: requests  *)
(* queue events in the durable outbox and ephemeral items in memory, and    *)
(* one drainer thread sends them, one transaction at a time, with ids from  *)
(* a durable cursor (homeserver/appservice_delivery.cpp,                    *)
(* appservice_ephemeral.cpp, PeriodicJob.cpp, database/PersistentStore.cpp).*)
(*                                                                          *)
(* An event is its stream ordering.  An action is one hold of               *)
(* runtime.mutex, which the drainer releases only around the network call.  *)
(* A write of the database that fails changes nothing.  A crash keeps       *)
(* outbox and cursor and forgets the rest; stop() is a crash the drainer    *)
(* has seen coming.  A back-off is over when time says so: its length is    *)
(* left out, and so is wake(), which only shortens the wait.  Stored events *)
(* stay readable.                                                           *)
(***************************************************************************)
EXTENDS Naturals, Sequences, FiniteSets

CONSTANTS
    NumServices,           \* registrations, in the order the drainer takes them
    Dead,                  \* services that never answer 200
    MaxEvents,             \* bound on events
    MaxItems,              \* bound on ephemeral items
    Keys,                  \* what an ephemeral item is about
    MaxQueued,             \* max_queued_events
    MaxEphemeral,          \* max_appservice_ephemeral_queue
    PerTransaction,        \* max_appservice_ephemeral_per_transaction
    PerDrain,              \* max_transactions_per_appservice_per_drain
    MaxCrashes, MaxFaults  \* bounds on crashes and on writes that fail

Services == 1..NumServices
Events   == 1..MaxEvents
NoEvent  == 0
NoTxn    == 0

ASSUME DeliveryAssumption ==
    /\ NumServices \in Nat \ {0} /\ Dead \subseteq Services
    /\ MaxEvents \in Nat /\ MaxItems \in Nat /\ MaxQueued \in Nat
    /\ MaxEphemeral \in Nat \ {0} /\ PerTransaction \in Nat \ {0} /\ PerDrain \in Nat \ {0}
    /\ MaxCrashes \in Nat /\ MaxFaults \in Nat

VARIABLES
    outbox,                \* appservice_outbox: the orderings queued
    cursor,                \* appservice_txn_cursor
    ephemeral,             \* appservice_ephemeral
    parked,                \* appservice_pending_ephemeral
    waiting,               \* appservice_delivery_backoff with retry_at ahead
    at,                    \* the service being drained, 0 for none
    sent,                  \* transactions sent to it by this drain
    call,                  \* the transaction on the network
    made,                  \* events that have been enqueued
    items,                 \* ephemeral items made
    log,                   \* transactions each service was sent
    accepted,              \* events each service has answered with 200
    life, faults           \* crashes and failed writes so far

diskVars    == <<outbox, cursor>>
memoryVars  == <<ephemeral, parked, waiting>>
drainVars   == <<at, sent, call>>
historyVars == <<made, items, log, accepted>>
vars == <<diskVars, memoryVars, drainVars, historyVars, life, faults>>

NoCall   == [txn |-> NoTxn, event |-> NoEvent, items |-> <<>>]
Unparked == [txn |-> NoTxn, free |-> FALSE, items |-> <<>>]

Init ==
    /\ outbox = [s \in Services |-> {}]
    /\ cursor = [s \in Services |-> [next |-> 1, txn |-> NoTxn, event |-> NoEvent]]
    /\ ephemeral = [s \in Services |-> <<>>]
    /\ parked = [s \in Services |-> Unparked]
    /\ waiting = [s \in Services |-> FALSE]
    /\ at = 0 /\ sent = 0 /\ call = NoCall
    /\ made = {} /\ items = 0
    /\ log = [s \in Services |-> {}]
    /\ accepted = [s \in Services |-> {}]
    /\ life = 0 /\ faults = 0

-----------------------------------------------------------------------------
(* Requests.                                                                *)

\* enqueue_appservice_delivery: a row for each service the event interests whose
\* outbox is not full.  A service whose row cannot be written counts as one the
\* event does not interest.
Enqueue(e, interested) ==
    /\ e \notin made
    /\ made' = made \cup {e}
    /\ outbox' = [s \in Services |->
           IF s \in interested /\ Cardinality(outbox[s]) < MaxQueued
           THEN outbox[s] \cup {e} ELSE outbox[s]]
    /\ UNCHANGED <<cursor, memoryVars, drainVars, items, log, accepted, life, faults>>

\* queue_appservice_typing, _receipt and _presence, for one of the services they
\* queue for: the newer item of a key replaces the older, and a full queue loses
\* its oldest (push_appservice_ephemeral).
LastOf(seq, n) == IF Len(seq) <= n THEN seq ELSE SubSeq(seq, Len(seq) - n + 1, Len(seq))

PushEphemeral(s, key) ==
    /\ items < MaxItems
    /\ items' = items + 1
    /\ LET others == SelectSeq(ephemeral[s], LAMBDA item : item.key # key) IN
       ephemeral' = [ephemeral EXCEPT ![s] =
           Append(LastOf(others, MaxEphemeral - 1), [key |-> key, n |-> items + 1])]
    /\ UNCHANGED <<diskVars, parked, waiting, drainVars, made, log, accepted, life, faults>>

-----------------------------------------------------------------------------
(* drain_one_appservice.                                                    *)

\* PeriodicJob::run: the wait is over, by wake() or by its delay.
DrainStarts ==
    /\ at = 0
    /\ at' = 1 /\ sent' = 0
    /\ UNCHANGED <<diskVars, memoryVars, call, historyVars, life, faults>>

NextService ==
    /\ at' = IF at = NumServices THEN 0 ELSE at + 1
    /\ sent' = 0

\* record_failure, and on to the next service.
GiveUp(s) ==
    /\ waiting' = [waiting EXCEPT ![s] = TRUE]
    /\ NextService

Turn(s) == at = s /\ call = NoCall
Ready(s) == Turn(s) /\ sent < PerDrain /\ ~waiting[s]

Nothing(s) == cursor[s].txn = NoTxn /\ outbox[s] = {} /\ ephemeral[s] = <<>>

Done(s) ==
    /\ Turn(s)
    /\ sent = PerDrain \/ waiting[s] \/ (~parked[s].free /\ Nothing(s))
    /\ NextService
    /\ UNCHANGED <<diskVars, memoryVars, call, historyVars, life, faults>>

\* send_over_network, as far as the unlock.
Send(s, txn, event, carried) ==
    /\ call' = [txn |-> txn, event |-> event, items |-> carried]
    /\ log' = [log EXCEPT ![s] =
           @ \cup {[txn |-> txn, event |-> event, items |-> carried, life |-> life]}]
    /\ UNCHANGED <<at, sent, waiting, made, items, accepted, life, faults>>

\* An events-free transaction that failed goes first, under its own id.
ResendEphemeral(s) ==
    /\ Ready(s) /\ parked[s].free
    /\ Send(s, parked[s].txn, NoEvent, parked[s].items)
    /\ UNCHANGED <<diskVars, ephemeral, parked>>

\* What a retry of the pending transaction may carry.
ParkedItems(s) ==
    IF ~parked[s].free /\ parked[s].txn = cursor[s].txn THEN parked[s].items ELSE <<>>

MutantRefill(s) ==
    /\ Ready(s) /\ ~parked[s].free /\ cursor[s].txn # NoTxn
    /\ Send(s, cursor[s].txn, cursor[s].event,
            IF ParkedItems(s) = <<>> THEN ephemeral[s] ELSE ParkedItems(s))
    /\ ephemeral' = [ephemeral EXCEPT ![s] = IF ParkedItems(s) = <<>> THEN <<>> ELSE @]
    /\ UNCHANGED <<diskVars, parked>>

Retry(s) ==
    /\ Ready(s) /\ ~parked[s].free /\ cursor[s].txn # NoTxn
    /\ Send(s, cursor[s].txn, cursor[s].event, ParkedItems(s))
    /\ UNCHANGED <<diskVars, ephemeral, parked>>

\* take_appservice_ephemeral.
Count(s) == IF Len(ephemeral[s]) < PerTransaction THEN Len(ephemeral[s]) ELSE PerTransaction
Taken(s) == SubSeq(ephemeral[s], 1, Count(s))

TakeEphemeral(s) ==
    ephemeral' = [ephemeral EXCEPT ![s] = SubSeq(@, Count(s) + 1, Len(@))]

\* send_ephemeral_only with a fresh id: only next_txn_id is stored.
SendEphemeral(s) ==
    /\ Ready(s) /\ ~parked[s].free /\ cursor[s].txn = NoTxn
    /\ outbox[s] = {} /\ ephemeral[s] # <<>>
    /\ cursor' = [cursor EXCEPT ![s].next = @ + 1]
    /\ TakeEphemeral(s)
    /\ parked' = [parked EXCEPT ![s] = [txn |-> cursor[s].next, free |-> TRUE, items |-> Taken(s)]]
    /\ Send(s, cursor[s].next, NoEvent, Taken(s))
    /\ UNCHANGED outbox

\* The first event of the outbox: its id and ordering are stored before it is
\* sent, with the ephemeral items that are queued now.
IsFirst(s, e) == e \in outbox[s] /\ \A f \in outbox[s] : e <= f

SendEvent(s, e) ==
    /\ Ready(s) /\ ~parked[s].free /\ cursor[s].txn = NoTxn /\ IsFirst(s, e)
    /\ cursor' = [cursor EXCEPT ![s] =
           [next |-> @.next + 1, txn |-> @.next, event |-> e]]
    /\ TakeEphemeral(s)
    /\ parked' = [parked EXCEPT ![s] =
           IF Taken(s) = <<>> THEN Unparked
           ELSE [txn |-> cursor[s].next, free |-> FALSE, items |-> Taken(s)]]
    /\ Send(s, cursor[s].next, e, Taken(s))
    /\ UNCHANGED outbox

\* The cursor of a new transaction cannot be stored: nothing is sent.
CursorFails(s) ==
    /\ Ready(s) /\ ~parked[s].free /\ cursor[s].txn = NoTxn
    /\ outbox[s] # {} \/ ephemeral[s] # <<>>
    /\ faults < MaxFaults /\ faults' = faults + 1
    /\ GiveUp(s)
    /\ UNCHANGED <<diskVars, ephemeral, parked, call, historyVars, life>>

-----------------------------------------------------------------------------
(* The answer, with the lock held again.                                    *)

Calling(s) == at = s /\ call # NoCall

\* The service takes the transaction (one without a url takes it unsent), and
\* complete_appservice_delivery clears the cursor and deletes the row in one
\* database transaction.
Accept(s) ==
    /\ Calling(s)
    /\ accepted' = [accepted EXCEPT ![s] = @ \cup ({call.event} \ {NoEvent})]
    /\ IF call.event = NoEvent
       THEN UNCHANGED diskVars
       ELSE /\ cursor' = [cursor EXCEPT ![s].txn = NoTxn, ![s].event = NoEvent]
            /\ outbox' = [outbox EXCEPT ![s] = @ \ {call.event}]
    /\ parked' = [parked EXCEPT ![s] = Unparked]
    /\ waiting' = [waiting EXCEPT ![s] = FALSE]
    /\ sent' = sent + 1 /\ call' = NoCall
    /\ UNCHANGED <<ephemeral, at, made, items, log, life, faults>>

\* It takes the transaction but the write of the acknowledgement fails: what is
\* parked stays for the resend.
AcceptUnrecorded(s) ==
    /\ Calling(s) /\ call.event # NoEvent
    /\ faults < MaxFaults /\ faults' = faults + 1
    /\ accepted' = [accepted EXCEPT ![s] = @ \cup {call.event}]
    /\ GiveUp(s)
    /\ call' = NoCall
    /\ UNCHANGED <<diskVars, ephemeral, parked, made, items, log, life>>

\* No answer, or one that is not 200; the service may have taken it all the same.
MutantStopAtFailure(s) ==
    /\ Calling(s)
    /\ waiting' = [waiting EXCEPT ![s] = TRUE]
    /\ at' = 0 /\ sent' = 0
    /\ call' = NoCall
    /\ UNCHANGED <<diskVars, ephemeral, parked, historyVars, life, faults>>

SendFails(s) ==
    /\ Calling(s)
    /\ GiveUp(s)
    /\ call' = NoCall
    /\ UNCHANGED <<diskVars, ephemeral, parked, historyVars, life, faults>>

BackoffEnds(s) ==
    /\ waiting[s]
    /\ waiting' = [waiting EXCEPT ![s] = FALSE]
    /\ UNCHANGED <<diskVars, ephemeral, parked, drainVars, historyVars, life, faults>>

Crash ==
    /\ life < MaxCrashes /\ life' = life + 1
    /\ ephemeral' = [s \in Services |-> <<>>]
    /\ parked' = [s \in Services |-> Unparked]
    /\ waiting' = [s \in Services |-> FALSE]
    /\ at' = 0 /\ sent' = 0 /\ call' = NoCall
    /\ UNCHANGED <<diskVars, historyVars, faults>>

-----------------------------------------------------------------------------
Request ==
    \/ \E e \in Events, interested \in SUBSET Services : Enqueue(e, interested)
    \/ \E s \in Services, key \in Keys : PushEphemeral(s, key)

Drain ==
    \/ DrainStarts
    \/ \E s \in Services :
           \/ Done(s) \/ ResendEphemeral(s) \/ Retry(s) \/ SendEphemeral(s)
           \/ (\E e \in outbox[s] : SendEvent(s, e)) \/ CursorFails(s)

Answer ==
    \/ \E s \in Services : SendFails(s)
    \/ \E s \in Services \ Dead : Accept(s) \/ AcceptUnrecorded(s)

Next == Request \/ Drain \/ Answer \/ (\E s \in Services : BackoffEnds(s)) \/ Crash

Spec == Init /\ [][Next]_vars

\* The drainer thread runs, a call ends by its timeout, a back-off runs out, and
\* a service that is not dead answers now and then.
FairSpec ==
    /\ Spec
    /\ WF_vars(Drain) /\ WF_vars(Answer)
    /\ \A s \in Services : WF_vars(BackoffEnds(s))
    /\ \A s \in Services \ Dead : SF_vars(Accept(s))

-----------------------------------------------------------------------------
\* A transaction id stands for one content, so that the service may drop a
\* repeat: two transactions with one id carry the same event and, in one life
\* of the server, the same ephemeral items; only an event outlives a restart,
\* and then alone.  And an event is never sent under two ids.  This holds over
\* failed writes, lost answers, items queued during a call and restarts
\* (drain_one_appservice, send_ephemeral_only).
TransactionsAreFixed ==
    \A s \in Services : \A x \in log[s], y \in log[s] :
        /\ x.txn = y.txn =>
               /\ x.event = y.event
               /\ x.life = y.life => x.items = y.items
               /\ x.life < y.life => y.event # NoEvent /\ y.items = <<>>
        /\ x.event = y.event /\ x.event # NoEvent => x.txn = y.txn

\* An event in the outbox of a service that answers is taken by it at last,
\* over restarts and failed writes, and whatever becomes of the services that
\* are drained before it (drain_appservice_queues).
QueuedIsDelivered ==
    \A s \in Services \ Dead, e \in Events : (e \in outbox[s]) ~> (e \in accepted[s])
=============================================================================
