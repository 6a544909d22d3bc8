-------------------- MODULE DispatchWorkerPlacementProofs --------------------
(***************************************************************************)
(* A transaction is in one place at a time: queued, parked, held by one     *)
(* thread, or waiting to be replayed; and once it counts as settled it is   *)
(* nowhere any more.                                                        *)
(*                                                                          *)
(* Also: no row is in none of these places, and the transactions of one     *)
(* destination that this life accepted are attempted in the order of their  *)
(* ids.                                                                     *)
(*                                                                          *)
(* Every step of a thread is one of six moves between those places (Move).  *)
(* The invariant has three layers: who holds mutex_ (Lock), that the ids of *)
(* a batch are newer than every known id (Fresh), and the places themselves *)
(* (Placement).  Known and Order are invariants on top of them.             *)
(***************************************************************************)
EXTENDS DispatchWorkerProofs

(***************************************************************************)
(* Who holds mutex_, and what exists only while it is held.                 *)
(***************************************************************************)
NoneTaken == [d \in Destinations |-> 0]

Owned == \A t \in Threads : pc[t] = "topup" <=> mutex = t

Lock ==
    /\ Owned
    /\ life = "replaying" => mutex = Caller
    /\ life = "down" => mutex = Free
    /\ life # "replaying" => toReplay = {} /\ excluded = {}
    /\ ~(life = "running" /\ mutex = Caller)
        => batch = <<>> /\ taken = <<>> /\ takenPer = NoneTaken
    /\ life = "down" => queue = <<>> /\ parked = <<>> /\ slots = NoneTaken

\* Only a top-up leaves mutex_ held, by its own thread, and what a thread does
\* while a caller has it moves no transaction.
LEMMA ThreadLock ==
    ASSUME Shapes, Attempts, Lock, NEW t \in Threads, ThreadStep(t)
    PROVE  /\ life = "running" /\ Owned'
           /\ mutex' = Caller <=> mutex = Caller
           /\ mutex = Caller => Keep
<1> USE DEF control
<1>0. /\ pc \in [Threads -> Flying \cup {"loop", "poll", "drain", "drainTake", "done"}]
      /\ Caller \notin Threads /\ Free \notin Threads /\ Caller # Free
      /\ \A u \in Threads : pc[u] = "topup" <=> mutex = u
  BY ConfigAssumption DEF Shapes, Lock, Owned
<1> DEFINE Goal == /\ life = "running" /\ Owned'
                   /\ mutex' = Caller <=> mutex = Caller
                   /\ mutex = Caller => Keep
<1>1. ASSUME mutex = Free, UNCHANGED mutex, NEW label, label # "topup", Goto(t, label),
             pc[t] # "done"
      PROVE  Goal
  BY <1>0, <1>1 DEF Goto, Attempts, Owned
<1>2. CASE LoopCheck(t) \/ DrainCheck(t) \/ Discover(t) \/ Perform(t)
  <2>1. /\ UNCHANGED <<mutex, job, queue, parked, slots, rows, delivered, dropped>>
        /\ pc[t] \in {"loop", "drain", "resolve", "send"}
    BY <1>2, Zenon DEF LoopCheck, DrainCheck, Discover, Perform, worker, disk, ledger
  <2>2. PICK label \in {"poll", "drainTake", "done", "send", "failed", "succeeded"} :
          Goto(t, label) /\ (label \in Holding <=> pc[t] \in Holding)
    BY <1>2, Zenon DEF LoopCheck, DrainCheck, Discover, Perform, Holding
  <2>3. pc'[t] = label /\ \A u \in Threads \ {t} : pc'[u] = pc[u]
    BY <1>0, <2>2 DEF Goto
  <2>4. SameHolding
    BY <2>1, <2>2, <2>3, Zenon DEF SameHolding
  <2>5. QED
    BY <1>0, <2>1, <2>3, <2>4 DEF Keep, Attempts, Owned
<1>3. CASE PollIdle(t) \/ DrainBegin(t) \/ DrainEnd(t)
  <2>1. /\ mutex = Free /\ UNCHANGED mutex /\ pc[t] \in {"loop", "poll", "drain", "drainTake"}
        /\ \E label \in {"loop", "drain", "done"} : Goto(t, label)
    BY <1>3 DEF PollIdle, DrainBegin, DrainEnd
  <2>2. QED
    BY <2>1, <1>1
<1>4. ASSUME NEW dueBy, pc[t] \in {"poll", "drainTake"}, take_next(t, dueBy)
      PROVE  Goal
  <2>1. mutex = Free /\ mutex' = t /\ Goto(t, "topup")
    BY <1>4 DEF take_next
  <2>2. QED
    BY <1>0, <1>4, <2>1 DEF Goto, Attempts, Owned
<1>5. CASE TopUp(t)
  <2>1. pc[t] = "topup" /\ mutex = t
    BY <1>5 DEF TopUp
  <2>2. \/ mutex' = Free /\ Goto(t, "begin")
        \/ UNCHANGED <<mutex, pc>>
    BY <1>5 DEF TopUp
  <2>3. /\ \A u \in Threads \ {t} : pc'[u] = pc[u]
        /\ (mutex' = Free /\ pc'[t] = "begin") \/ (mutex' = t /\ pc'[t] = "topup")
    BY ONLY <1>0, <2>1, <2>2, t \in Threads DEF Goto
  <2>4. Owned'
    <3>1. \A u \in Threads : pc'[u] = "topup" <=> mutex' = u
      BY ONLY <1>0, <2>1, <2>3, t \in Threads
    <3>2. QED
      BY ONLY <3>1 DEF Owned
  <2>5. life = "running"
    BY <2>1 DEF Attempts
  <2>6. QED
    BY ONLY <1>0, <2>1, <2>3, <2>4, <2>5, t \in Threads
<1>6. CASE AttemptBegin(t) \/ ReleaseInFlight(t) \/ AttemptFailed(t) \/ AttemptSucceeded(t)
  <2>1. /\ mutex = Free /\ UNCHANGED mutex /\ pc[t] # "done"
        /\ \E label \in {"resolve", "circuit", "loop", "retry", "release"} : Goto(t, label)
    BY <1>6, Zenon DEF AttemptBegin, ReleaseInFlight, AttemptFailed, AttemptSucceeded
  <2>2. QED
    BY <2>1, <1>1
<1>7. CASE wait_out_open_circuit(t) \/ re_enqueue_with_backoff(t)
  <2>1. mutex = Free /\ UNCHANGED mutex /\ pc[t] # "done" /\ Goto(t, "release")
    BY <1>7 DEF wait_out_open_circuit, re_enqueue_with_backoff, PersistAndRequeue, DropExhausted
  <2>2. QED
    BY <2>1, <1>1
<1>8. QED
  BY <1>2, <1>3, <1>4, <1>5, <1>6, <1>7 DEF ThreadStep, Poll, DrainTake

LEMMA LockNext == Shapes /\ Attempts /\ Lock /\ [Next]_vars => Lock'
<1> SUFFICES ASSUME Shapes, Attempts, Lock, [Next]_vars PROVE Lock'
  OBVIOUS
<1> USE DEF worker, control, threads, calls, NoneTaken, Owned
<1>0. Caller \notin Threads /\ Free \notin Threads /\ Caller # Free
  BY ConfigAssumption
<1>1. CASE EnqueueBegin
  BY <1>0, <1>1 DEF EnqueueBegin, Lock
<1>2. CASE EnqueueConsider
  BY <1>2, Zenon DEF EnqueueConsider, Lock
<1>3. CASE EnqueueCommit
  <2>1. /\ life = "running" /\ mutex = Caller /\ batch = <<>>
        /\ taken' = <<>> /\ takenPer' = NoneTaken /\ mutex' = Free
        /\ UNCHANGED <<life, pc, toReplay, excluded, batch>>
    BY <1>3 DEF EnqueueCommit
  <2>2. QED
    BY <1>0, <2>1 DEF Lock
<1>4. CASE Boot
  <2>1. \A t \in Threads : pc[t] = "done"
    BY <1>4, Zenon DEF Boot, Attempts
  <2>2. QED
    BY <1>0, <1>4, <2>1 DEF Boot, Lock
<1>5. CASE ReplayRow
  BY <1>5 DEF ReplayRow, Lock
<1>6. CASE Start
  <2>1. /\ toReplay = {} /\ life = "replaying" /\ excluded' = {} /\ life' = "running" /\ mutex' = Free
        /\ UNCHANGED <<batch, taken, takenPer, toReplay>>
    BY <1>6, Zenon DEF Start, DeleteExcluded
  <2>2. \A t \in Threads : pc'[t] \in {"loop", "done"}
    BY <1>6 DEF Start, DeleteExcluded
  <2>3. QED
    BY <1>0, <2>1, <2>2 DEF Lock
<1>7. CASE request_shutdown
  BY <1>7 DEF request_shutdown, Lock
<1>8. CASE Exit \/ Crash
  BY <1>0, <1>8 DEF Exit, Crash, LoseMemory, Lock
<1>9. CASE Tick
  BY <1>9 DEF Tick, Lock
<1>10. ASSUME NEW t \in Threads, ThreadStep(t) PROVE Lock'
  <2>1. /\ life = "running" /\ Owned'
        /\ mutex' = Caller <=> mutex = Caller
    BY <1>10, ThreadLock
  <2>2. UNCHANGED <<life, toReplay, excluded, batch, taken, takenPer>>
    BY <1>10, ThreadMoves DEF Apart
  <2>3. QED
    BY <2>1, <2>2, Zenon DEF Lock, Owned
<1>11. CASE UNCHANGED vars
  BY <1>11 DEF vars, Lock
<1>12. QED
  BY <1>1, <1>2, <1>3, <1>4, <1>5, <1>6, <1>7, <1>8, <1>9, <1>10, <1>11 DEF Next, Enqueue

(***************************************************************************)
(* A transaction is in one place at a time.                                 *)
(***************************************************************************)
\* Sets of transactions and their ids.
LEMMA IdsFacts ==
    ASSUME NEW A, NEW x
    PROVE  /\ Ids(A \cup {x}) = Ids(A) \cup {x.id}
           /\ (\A y \in A \ {x} : y.id # x.id) => Ids(A \ {x}) = Ids(A) \ {x.id}
           /\ x \in A => x.id \in Ids(A)
<1>1. Ids(A \cup {x}) = Ids(A) \cup {x.id}
  BY DEF Ids
<1>2. ASSUME \A y \in A \ {x} : y.id # x.id PROVE Ids(A \ {x}) = Ids(A) \ {x.id}
  BY <1>2 DEF Ids
<1>3. x \in A => x.id \in Ids(A)
  BY DEF Ids
<1>4. QED
  BY <1>1, <1>2, <1>3, Zenon

OneJobEach ==
    \A t, u \in Threads :
        t # u /\ pc[t] \in Holding /\ pc[u] \in Holding => job[t].id # job[u].id

Settled == delivered \cup dropped
Waiting == toReplay \cup excluded

Placement ==
    /\ Distinct(queue) /\ Distinct(parked) /\ OneJobEach
    /\ \A r, s \in rows : r.id = s.id => r = s
    /\ QueuedIds \cap ParkedIds = {}
    /\ HeldIds \cap QueuedIds = {}
    /\ HeldIds \cap ParkedIds = {}
    /\ Waiting \subseteq rows
    /\ toReplay \cap excluded = {}
    /\ Ids(Waiting) \cap (QueuedIds \cup ParkedIds) = {}
    /\ Settled \cap (RowIds \cup QueuedIds \cup ParkedIds \cup HeldIds) = {}

\* What the moves do to the held transactions.
LEMMA HeldKeeps ==
    ASSUME SameHolding
    PROVE  Held' = Held /\ (OneJobEach => OneJobEach')
<1>1. Held' \subseteq Held
  BY DEF SameHolding, Held
<1>2. Held \subseteq Held'
  BY DEF SameHolding, Held
<1>3. QED
  BY <1>1, <1>2 DEF SameHolding, OneJobEach

LEMMA HeldGains ==
    ASSUME NEW t \in Threads, NEW x, OneJobEach, x.id \notin HeldIds,
           pc[t] \notin Holding, pc'[t] \in Holding, job'[t] = x, Others(t)
    PROVE  Held' = Held \cup {x} /\ OneJobEach'
<1>1. Held' \subseteq Held \cup {x}
  BY DEF Others, Held
<1>2. Held \subseteq Held'
  BY DEF Others, Held
<1>3. x \in Held'
  BY DEF Held
<1>4. \A u \in Threads : pc[u] \in Holding => job[u].id # x.id
  BY DEF Held, HeldIds, Ids
<1>5. OneJobEach'
  BY <1>4 DEF OneJobEach, Others
<1>6. QED
  BY <1>1, <1>2, <1>3, <1>5

LEMMA HeldLoses ==
    ASSUME NEW t \in Threads, OneJobEach,
           pc[t] \in Holding, pc'[t] \notin Holding, job' = job, Others(t)
    PROVE  /\ Held' = Held \ {job[t]} /\ OneJobEach'
           /\ job[t] \in Held
           /\ HeldIds' = HeldIds \ {job[t].id}
<1>1. \A u \in Threads \ {t} : pc[u] \in Holding => job[u].id # job[t].id
  BY DEF OneJobEach
<1>2. job[t] \in Held
  BY DEF Held
<1>3. Held' \subseteq Held \ {job[t]}
  BY <1>1 DEF Others, Held
<1>4. Held \ {job[t]} \subseteq Held'
  BY DEF Others, Held
<1>5. OneJobEach'
  BY DEF OneJobEach, Others
<1>6. \A y \in Held \ {job[t]} : y.id # job[t].id
  BY <1>1 DEF Held
<1>7. Held' = Held \ {job[t]}
  BY <1>3, <1>4
<1>8. HeldIds' = HeldIds \ {job[t].id}
  BY <1>6, <1>7 DEF HeldIds, Ids
<1>9. QED
  BY <1>2, <1>5, <1>7, <1>8

\* What each move does to the queue, the parked rows and the held ones.
LEMMA KeepEffect ==
    ASSUME Placement, Keep
    PROVE  /\ UNCHANGED <<QueuedIds, ParkedIds, HeldIds, RowIds, Held, queue, parked>>
           /\ OneJobEach'
<1>1. Held' = Held /\ OneJobEach'
  BY HeldKeeps DEF Keep, Placement
<1>2. QED
  BY <1>1 DEF Keep, QueuedIds, ParkedIds, HeldIds, RowIds

LEMMA TakeEffect ==
    ASSUME Shapes, Placement, NEW t \in Threads, Take(t)
    PROVE  \E x \in Range(queue) :
             /\ x.dst \notin inFlight
             /\ job'[t] = x
             /\ Range(queue)' = Range(queue) \ {x} /\ Distinct(queue')
             /\ Held' = Held \cup {x} /\ OneJobEach'
             /\ x.id \in QueuedIds
             /\ QueuedIds' = QueuedIds \ {x.id}
             /\ HeldIds' = HeldIds \cup {x.id}
             /\ UNCHANGED <<ParkedIds, RowIds>>
<1>1. PICK i \in 1..Len(queue) :
        /\ queue' = Erase(queue, i) /\ queue[i].dst \notin inFlight
        /\ pc[t] \notin Holding /\ pc'[t] = "topup" /\ job'[t] = queue[i] /\ Others(t)
        /\ UNCHANGED <<parked, rows>>
  BY Zenon DEF Take
<1>2. queue \in Seq(Transactions) /\ Distinct(queue)
  BY DEF Shapes, Placement
<1> DEFINE x == queue[i]
<1>3. /\ Range(queue)' = Range(queue) \ {x} /\ Distinct(queue')
      /\ x \in Range(queue)
      /\ \A y \in Range(queue) \ {x} : y.id # x.id
  <2>1. /\ Range(Erase(queue, i)) = Range(queue) \ {x} /\ Distinct(Erase(queue, i))
        /\ x \in Range(queue)
        /\ \A y \in Range(Erase(queue, i)) : y.id # x.id
    BY <1>2, RemoveFacts
  <2>2. QED
    BY <1>1, <2>1
<1>4. x.id \in QueuedIds /\ QueuedIds' = QueuedIds \ {x.id}
  BY <1>3 DEF QueuedIds, Ids
<1>5. x.id \notin HeldIds
  BY <1>4 DEF Placement
<1>6. Held' = Held \cup {x} /\ OneJobEach'
  <2>1. pc'[t] \in Holding
    BY <1>1 DEF Holding
  <2>2. QED
    BY <1>1, <1>5, <2>1, HeldGains DEF Placement
<1>7. HeldIds' = HeldIds \cup {x.id}
  BY <1>6 DEF HeldIds, Ids
<1>8. UNCHANGED <<ParkedIds, RowIds>>
  BY <1>1 DEF ParkedIds, RowIds
<1>9. QED
  BY <1>1, <1>3, <1>4, <1>6, <1>7, <1>8, Zenon

LEMMA PushEffect ==
    ASSUME queue \in Seq(Transactions), Distinct(queue), NEW x \in Transactions,
           x.id \notin QueuedIds, push_queue_locked(x)
    PROVE  /\ Range(queue)' = Range(queue) \cup {x} /\ Distinct(queue')
           /\ QueuedIds' = QueuedIds \cup {x.id}
<1>1. Range(queue)' = Range(queue) \cup {x} /\ Distinct(queue')
  BY AppendFacts DEF push_queue_locked, QueuedIds
<1>2. QED
  BY <1>1 DEF QueuedIds, Ids

LEMMA PromoteEffect ==
    ASSUME Shapes, Placement, Promote
    PROVE  LET x == Head(parked)
           IN  /\ x \in Transactions /\ x.id \notin QueuedIds /\ x.id \in ParkedIds
               /\ Range(queue)' = Range(queue) \cup {x} /\ Distinct(queue')
               /\ Distinct(parked')
               /\ QueuedIds' = QueuedIds \cup {x.id}
               /\ ParkedIds' = ParkedIds \ {x.id}
               /\ UNCHANGED <<Held, HeldIds, RowIds>> /\ OneJobEach'
<1> DEFINE x == Head(parked)
<1>1. /\ parked \in Seq(Transactions) /\ parked # <<>> /\ Distinct(parked)
      /\ queue \in Seq(Transactions) /\ Distinct(queue)
      /\ parked' = Tail(parked)
  BY DEF Shapes, Placement, Promote
<1>2. /\ x \in Transactions
      /\ Range(parked) = Range(Tail(parked)) \cup {x}
      /\ Distinct(Tail(parked)) /\ x.id \notin Ids(Range(Tail(parked)))
  BY <1>1, HeadTailFacts
<1>3. x.id \in ParkedIds /\ ParkedIds' = ParkedIds \ {x.id} /\ Distinct(parked')
  BY <1>1, <1>2 DEF ParkedIds, Ids
<1>4. x.id \notin QueuedIds
  BY <1>3 DEF Placement
<1>5. /\ Range(queue)' = Range(queue) \cup {x} /\ Distinct(queue')
      /\ QueuedIds' = QueuedIds \cup {x.id}
  BY <1>1, <1>2, <1>4, PushEffect DEF Promote
<1>6. UNCHANGED <<Held, HeldIds, RowIds>> /\ OneJobEach'
  BY Zenon DEF Promote, Held, HeldIds, RowIds, OneJobEach, Placement
<1>7. QED
  BY <1>2, <1>3, <1>4, <1>5, <1>6, Zenon

LEMMA RotateEffect ==
    ASSUME Shapes, Placement, Rotate
    PROVE  /\ UNCHANGED <<QueuedIds, ParkedIds, HeldIds, RowIds, Held, queue>>
           /\ OneJobEach' /\ Distinct(parked')
<1> DEFINE x == Head(parked)
<1>1. /\ parked \in Seq(Transactions) /\ parked # <<>> /\ Distinct(parked)
      /\ parked' = Append(Tail(parked), x)
  BY DEF Shapes, Placement, Rotate
<1>2. /\ x \in Transactions /\ Tail(parked) \in Seq(Transactions)
      /\ Range(parked) = Range(Tail(parked)) \cup {x}
      /\ Distinct(Tail(parked)) /\ x.id \notin Ids(Range(Tail(parked)))
  BY <1>1, HeadTailFacts
<1>3. Range(Append(Tail(parked), x)) = Range(parked) /\ Distinct(Append(Tail(parked), x))
  BY <1>2, AppendFacts, Zenon
<1>4. ParkedIds' = ParkedIds
  BY <1>1, <1>3 DEF ParkedIds
<1>5. UNCHANGED <<QueuedIds, HeldIds, RowIds, Held, queue>> /\ OneJobEach'
  BY Zenon DEF Rotate, Held, HeldIds, RowIds, QueuedIds, OneJobEach, Placement
<1>6. QED
  BY <1>1, <1>3, <1>4, <1>5

LEMMA ReturnEffect ==
    ASSUME Shapes, Placement, NEW t \in Threads, Return(t)
    PROVE  \E row \in Transactions :
             /\ row.id = job[t].id /\ row.dst = job[t].dst
             /\ Range(queue)' = Range(queue) \cup {row} /\ Distinct(queue')
             /\ queue' = <<row>> \o queue
             /\ Held' = Held \ {job[t]} /\ OneJobEach' /\ job[t] \in Held
             /\ QueuedIds' = QueuedIds \cup {job[t].id}
             /\ HeldIds' = HeldIds \ {job[t].id} /\ job[t].id \in HeldIds
             /\ RowIds' = RowIds \cup {job[t].id}
             /\ \A r, s \in rows' : r.id = s.id => r = s
             /\ UNCHANGED ParkedIds
<1>1. PICK row \in Transactions :
        /\ row.id = job[t].id /\ row.dst = job[t].dst
        /\ store_federation_transaction(row) /\ requeue_locked(row)
        /\ pc[t] \in Holding /\ pc'[t] = "release" /\ job' = job /\ Others(t)
        /\ UNCHANGED parked
  BY Zenon DEF Return
<1>2. queue \in Seq(Transactions) /\ Distinct(queue)
  BY DEF Shapes, Placement
<1>3. /\ Held' = Held \ {job[t]} /\ OneJobEach' /\ job[t] \in Held
      /\ HeldIds' = HeldIds \ {job[t].id}
  BY <1>1, HeldLoses, Zenon DEF Holding, Placement
<1>4. job[t].id \in HeldIds
  BY <1>3 DEF HeldIds, Ids
<1>5. row.id \notin Ids(Range(queue))
  BY <1>1, <1>4, Zenon DEF Placement, QueuedIds
<1>6. Range(queue)' = Range(queue) \cup {row} /\ Distinct(queue') /\ queue' = <<row>> \o queue
  <2>1. Range(<<row>> \o queue) = Range(queue) \cup {row} /\ Distinct(<<row>> \o queue)
    BY <1>2, <1>5, PrependFacts
  <2>2. queue' = <<row>> \o queue
    BY <1>1 DEF requeue_locked
  <2>3. QED
    BY <2>1, <2>2
<1>7. QueuedIds' = QueuedIds \cup {job[t].id}
  BY <1>1, <1>6 DEF QueuedIds, Ids
<1>8. /\ RowIds' = RowIds \cup {job[t].id}
      /\ \A r, s \in rows' : r.id = s.id => r = s
  <2>1. rows' = {r \in rows : r.id # row.id} \cup {row}
    BY <1>1 DEF store_federation_transaction
  <2>2. QED
    BY <1>1, <2>1, Zenon DEF RowIds, Ids, Placement
<1>9. UNCHANGED ParkedIds
  BY <1>1, Zenon DEF ParkedIds
<1>10. QED
  BY <1>1, <1>3, <1>4, <1>6, <1>7, <1>8, <1>9, Zenon

LEMMA LetGoEffect ==
    ASSUME Shapes, Placement, NEW t \in Threads, LetGo(t)
    PROVE  /\ Held' = Held \ {job[t]} /\ OneJobEach' /\ job[t] \in Held
           /\ HeldIds' = HeldIds \ {job[t].id} /\ job[t].id \in HeldIds
           /\ \/ UNCHANGED <<rows, RowIds, Settled>>
              \/ /\ RowIds' = RowIds \ {job[t].id}
                 /\ rows' \subseteq rows
                 /\ Settled' = Settled \cup {job[t].id}
           /\ UNCHANGED <<QueuedIds, ParkedIds, queue, parked>>
<1>1. /\ Held' = Held \ {job[t]} /\ OneJobEach' /\ job[t] \in Held
      /\ HeldIds' = HeldIds \ {job[t].id}
  BY HeldLoses, Zenon DEF LetGo, Holding, Placement
<1>2. job[t].id \in HeldIds
  BY <1>1 DEF HeldIds, Ids
<1>3. UNCHANGED <<QueuedIds, ParkedIds, queue, parked>>
  BY Zenon DEF LetGo, QueuedIds, ParkedIds
<1>4. CASE UNCHANGED <<rows, delivered, dropped>>
  BY <1>1, <1>2, <1>3, <1>4 DEF RowIds, Settled
<1>5. CASE /\ delete_federation_transaction(job[t])
           /\ \/ delivered' = delivered \cup {job[t].id} /\ UNCHANGED dropped
              \/ dropped' = dropped \cup {job[t].id} /\ UNCHANGED delivered
  <2>1. rows' = {r \in rows : r.id # job[t].id}
    BY <1>5 DEF delete_federation_transaction
  <2>2. RowIds' = RowIds \ {job[t].id} /\ rows' \subseteq rows
    BY <2>1 DEF RowIds, Ids
  <2>3. Settled' = Settled \cup {job[t].id}
    BY <1>5 DEF Settled
  <2>4. QED
    BY <1>1, <1>2, <1>3, <2>2, <2>3
<1>6. QED
  BY <1>4, <1>5, Zenon DEF LetGo

(***************************************************************************)
(* The ids of a batch are newer than every id the worker already knows.     *)
(***************************************************************************)
BatchIds == Ids(Range(batch))
TakenIds == Ids(Range(taken))
Old == QueuedIds \cup ParkedIds \cup HeldIds \cup RowIds \cup Settled

Fresh ==
    /\ \A n \in Old \cup BatchIds \cup TakenIds : n < nextTxn
    /\ \A m \in Old, n \in BatchIds \cup TakenIds : m < n
    /\ \A m \in TakenIds, n \in BatchIds : m < n
    /\ Sorted(batch) /\ Sorted(taken)

\* Ids are numbers.
LEMMA IdsAreNumbers ==
    ASSUME Shapes
    PROVE  Old \subseteq Nat /\ BatchIds \subseteq Nat /\ TakenIds \subseteq Nat
<1>1. \A s \in Seq(Transactions) : Ids(Range(s)) \subseteq Nat
  <2>1. \A s \in Seq(Transactions) : Range(s) \subseteq Transactions
    BY DEF Range
  <2>2. \A x \in Transactions : x.id \in Nat
    BY DEF Transactions
  <2>3. QED
    BY <2>1, <2>2 DEF Ids
<1>2. QueuedIds \subseteq Nat /\ ParkedIds \subseteq Nat /\ BatchIds \subseteq Nat /\ TakenIds \subseteq Nat
  BY <1>1 DEF Shapes, QueuedIds, ParkedIds, BatchIds, TakenIds
<1>3. HeldIds \subseteq Nat
  <2>1. Held \subseteq Transactions
    BY DEF Held, Shapes, Flying
  <2>2. QED
    BY <2>1 DEF HeldIds, Ids, Transactions
<1>4. RowIds \subseteq Nat
  <2>1. rows \subseteq Transactions
    BY DEF Shapes
  <2>2. QED
    BY <2>1, Zenon DEF RowIds, Ids, Transactions
<1>5. Settled \subseteq Nat
  BY DEF Shapes, Settled
<1>6. QED
  BY <1>2, <1>3, <1>4, <1>5 DEF Old

\* No step of a thread makes an id known that was not.
LEMMA MoveKnows ==
    ASSUME Shapes, Placement, NEW t \in Threads, Move(t)
    PROVE  Old' \subseteq Old
<1>1. CASE Keep
  BY <1>1, KeepEffect DEF Old, Settled, Keep
<1>2. CASE Take(t)
  <2>1. PICK x \in Range(queue) :
          /\ x.id \in QueuedIds
          /\ QueuedIds' = QueuedIds \ {x.id} /\ HeldIds' = HeldIds \cup {x.id}
          /\ UNCHANGED <<ParkedIds, RowIds>>
    BY <1>2, TakeEffect
  <2>2. UNCHANGED Settled
    BY <1>2 DEF Take, Settled
  <2>3. QED
    BY ONLY <2>1, <2>2 DEF Old
<1>3. CASE Promote
  BY <1>3, PromoteEffect, Zenon DEF Old, Settled, Promote
<1>4. CASE Rotate
  BY <1>4, RotateEffect DEF Old, Settled, Rotate
<1>5. CASE Return(t)
  <2>1. /\ QueuedIds' = QueuedIds \cup {job[t].id} /\ job[t].id \in HeldIds
        /\ HeldIds' = HeldIds \ {job[t].id}
        /\ RowIds' = RowIds \cup {job[t].id}
        /\ UNCHANGED ParkedIds
    BY <1>5, ReturnEffect, Zenon
  <2>2. UNCHANGED Settled
    BY <1>5, Zenon DEF Return, Settled
  <2>3. QED
    BY <2>1, <2>2 DEF Old
<1>6. CASE LetGo(t)
  BY <1>6, LetGoEffect DEF Old
<1>7. QED
  BY <1>1, <1>2, <1>3, <1>4, <1>5, <1>6 DEF Move

\* While the known ids do not grow and no batch is touched, nothing changes.
LEMMA FreshKeeps ==
    ASSUME Fresh, Old' \subseteq Old, UNCHANGED <<batch, taken, nextTxn>>
    PROVE  Fresh'
BY DEF Fresh, BatchIds, TakenIds

LEMMA FreshNext ==
    Shapes /\ Attempts /\ Lock /\ Placement /\ Fresh /\ [Next]_vars => Fresh'
<1> SUFFICES ASSUME Shapes, Attempts, Lock, Placement, Fresh, [Next]_vars PROVE Fresh'
  OBVIOUS
<1> USE DEF worker, control, threads, calls, disk, ledger
<1>a. ASSUME UNCHANGED <<queue, parked, pc, job, rows, delivered, dropped>> PROVE Old' = Old
  BY ONLY <1>a DEF Old, QueuedIds, ParkedIds, HeldIds, Held, RowIds, Settled
<1>1. CASE EnqueueBegin
  <2>0. PICK n \in 1..MaxBatch :
          /\ \E to \in [1..n -> Destinations] :
               batch' = [k \in 1..n |-> [id |-> nextTxn + k - 1, dst |-> to[k],
                                         retries |-> 0, due |-> 0]]
          /\ nextTxn' = nextTxn + n
    BY <1>1 DEF EnqueueBegin
  <2>1. PICK to \in [1..n -> Destinations] :
          /\ batch' = [k \in 1..n |-> [id |-> nextTxn + k - 1, dst |-> to[k],
                                       retries |-> 0, due |-> 0]]
          /\ nextTxn' = nextTxn + n
    BY <2>0
  <2>2. n \in Nat \ {0} /\ nextTxn \in Nat
    <3>1. MaxBatch \in Nat
      BY ConfigAssumption
    <3>2. nextTxn \in Nat
      BY DEF Shapes
    <3>3. n \in 1..MaxBatch
      BY <2>0
    <3>4. QED
      BY ONLY <3>1, <3>2, <3>3
  <2>3. /\ Len(batch') = n /\ DOMAIN batch' = 1..n
        /\ \A k \in 1..n : batch'[k].id = nextTxn + k - 1
    BY ONLY <2>1, <2>2
  <2>4. Sorted(batch')
    <3>1. \A i, j \in 1..n : i < j => batch'[i].id < batch'[j].id
      BY ONLY <2>2, <2>3
    <3>2. QED
      BY ONLY <2>3, <3>1 DEF Sorted
  <2>5. \A m \in BatchIds' : nextTxn <= m /\ m < nextTxn'
    <3>1. BatchIds' = {batch'[k].id : k \in 1..n}
      BY <2>3, Zenon DEF BatchIds, Ids, Range
    <3>2. nextTxn' = nextTxn + n
      BY <2>1
    <3>3. QED
      BY ONLY <2>2, <2>3, <3>1, <3>2
  <2>6. taken' = <<>> /\ TakenIds' = {} /\ Sorted(taken')
    <3>1. taken' = <<>>
      BY <1>1, ConfigAssumption, Zenon DEF EnqueueBegin, Lock
    <3>2. QED
      BY <3>1, EmptyFacts DEF TakenIds, Sorted
  <2>7. Old' = Old
    BY <1>1, <1>a, Zenon DEF EnqueueBegin
  <2>8. \A m \in Old : m \in Nat /\ m < nextTxn
    BY IdsAreNumbers DEF Fresh
  <2>9. \A m \in BatchIds' : m \in Nat
    <3>1. BatchIds' = {batch'[k].id : k \in 1..n}
      BY <2>3, Zenon DEF BatchIds, Ids, Range
    <3>2. QED
      BY ONLY <2>2, <2>3, <3>1
  <2>10. nextTxn' \in Nat
    BY ONLY <2>1, <2>2
  <2>11. /\ \A m \in Old, k \in BatchIds' : m < k
         /\ \A m \in Old : m < nextTxn'
    BY ONLY <2>1, <2>2, <2>5, <2>8, <2>9, <2>10
  <2>12. QED
    BY <2>4, <2>5, <2>6, <2>7, <2>11 DEF Fresh
<1>2. CASE EnqueueConsider
  <2> DEFINE h == Head(batch)
  <2>1. /\ batch \in Seq(Transactions) /\ batch # <<>> /\ taken \in Seq(Transactions)
        /\ batch' = Tail(batch) /\ nextTxn' = nextTxn
        /\ taken' = taken \/ taken' = Append(taken, h)
    BY <1>2, Zenon DEF EnqueueConsider, Shapes
  <2>2. /\ h \in Transactions /\ Tail(batch) \in Seq(Transactions)
        /\ Range(batch) = Range(Tail(batch)) \cup {h}
    BY <2>1, HeadTailFacts
  <2>3. Old' = Old
    BY <1>2, <1>a, Zenon DEF EnqueueConsider
  <2>4. BatchIds = BatchIds' \cup {h.id}
    BY <2>1, <2>2, Zenon DEF BatchIds, Ids
  <2>5. TakenIds' \subseteq TakenIds \cup {h.id}
    <3>1. Range(Append(taken, h)) = Range(taken) \cup {h}
      BY <2>1, <2>2, AppendFacts
    <3>2. TakenIds' = Ids(Range(taken'))
      BY DEF TakenIds
    <3>3. Ids(Range(taken) \cup {h}) = TakenIds \cup {h.id}
      BY IdsFacts, Zenon DEF TakenIds
    <3>4. QED
      BY <2>1, <3>1, <3>2, <3>3, Zenon DEF TakenIds
  <2>6. \A m \in BatchIds' : h.id < m
    <3>1. \A i \in 1..(Len(batch) - 1) : Tail(batch)[i] = batch[i + 1] /\ Len(Tail(batch)) = Len(batch) - 1
      BY ONLY <2>1
    <3>2. h = batch[1] /\ Len(batch) \in Nat \ {0}
      BY ONLY <2>1
    <3>3. Sorted(batch)
      BY DEF Fresh
    <3>4. \A i \in 1..(Len(batch) - 1) : h.id < Tail(batch)[i].id
      <4>1. \A j \in 2..Len(batch) : batch[1].id < batch[j].id
        BY ONLY <3>2, <3>3 DEF Sorted
      <4>2. QED
        BY ONLY <3>1, <3>2, <4>1
    <3>5. DOMAIN Tail(batch) = 1..(Len(batch) - 1)
      BY ONLY <2>1
    <3>6. QED
      BY <2>1, <3>4, <3>5 DEF BatchIds, Ids, Range
  <2>7. Sorted(batch')
    <3>1. Sorted(batch)
      BY DEF Fresh
    <3>2. Len(batch) \in Nat \ {0} /\ Len(Tail(batch)) = Len(batch) - 1
          /\ \A i \in 1..(Len(batch) - 1) : Tail(batch)[i] = batch[i + 1]
      BY ONLY <2>1
    <3>3. QED
      BY ONLY <2>1, <3>1, <3>2 DEF Sorted
  <2>8. Sorted(taken')
    <3>1. Sorted(taken) /\ \A m \in TakenIds : m < h.id
      BY <2>4 DEF Fresh
    <3>2. \A i \in 1..Len(taken) : taken[i].id < h.id
      BY <2>1, <3>1 DEF TakenIds, Ids, Range
    <3>3. /\ Len(Append(taken, h)) = Len(taken) + 1 /\ Len(taken) \in Nat
          /\ \A i \in 1..Len(taken) : Append(taken, h)[i] = taken[i]
          /\ Append(taken, h)[Len(taken) + 1] = h
      BY ONLY <2>1, <2>2
    <3>4. Sorted(Append(taken, h))
      BY ONLY <3>1, <3>2, <3>3 DEF Sorted
    <3>5. QED
      BY ONLY <2>1, <3>1, <3>4, Zenon
  <2>9. QED
    BY <2>1, <2>3, <2>4, <2>5, <2>6, <2>7, <2>8, Zenon DEF Fresh
<1>3. CASE EnqueueCommit
  <2>1. /\ taken' = <<>> /\ batch' = <<>> /\ nextTxn' = nextTxn
    BY <1>3 DEF EnqueueCommit
  <2>2. BatchIds' = {} /\ TakenIds' = {} /\ Sorted(batch') /\ Sorted(taken')
    <3>1. BatchIds' = {} /\ TakenIds' = {}
      BY <2>1, EmptyFacts, Zenon DEF BatchIds, TakenIds
    <3>2. QED
      BY <2>1, <3>1 DEF Sorted
  <2>3. Old' \subseteq Old \cup TakenIds
    <3>1. CASE UNCHANGED <<rows, queue>>
      BY <1>3, <3>1, <1>a DEF EnqueueCommit
    <3>2. CASE rows' = rows \cup {taken[k] : k \in 1..Len(taken)} /\ queue' = queue \o taken
      <4>1. queue \in Seq(Transactions) /\ taken \in Seq(Transactions)
        BY DEF Shapes
      <4>2. Range(queue \o taken) = Range(queue) \cup Range(taken)
        BY <4>1, ConcatFacts
      <4>3. QueuedIds' = QueuedIds \cup TakenIds
        BY <3>2, <4>2 DEF QueuedIds, TakenIds, Ids
      <4>4. RowIds' = RowIds \cup TakenIds
        BY <3>2, <4>1 DEF RowIds, TakenIds, Ids, Range
      <4>5. UNCHANGED <<ParkedIds, HeldIds, Settled>>
        BY <1>3 DEF EnqueueCommit, ParkedIds, HeldIds, Held, Settled
      <4>6. QED
        BY <4>3, <4>4, <4>5 DEF Old
    <3>3. QED
      BY <1>3, <3>1, <3>2 DEF EnqueueCommit
  <2>4. QED
    BY <2>1, <2>2, <2>3 DEF Fresh
<1>4. CASE Boot \/ request_shutdown \/ Tick
  <2>1. UNCHANGED <<queue, parked, pc, job, rows, delivered, dropped, batch, taken, nextTxn>>
    BY <1>4, Zenon DEF Boot, request_shutdown, Tick
  <2>2. QED
    BY <2>1, <1>a, FreshKeeps
<1>5. CASE ReplayRow
  <2>1. PICK row \in toReplay : \/ UNCHANGED <<queue, parked>>
                                \/ parked' = Append(parked, row) /\ UNCHANGED queue
                                \/ queue' = Append(queue, row) /\ UNCHANGED parked
    BY <1>5 DEF ReplayRow, push_queue_locked
  <2>2. row \in Transactions /\ row.id \in RowIds
    BY Zenon DEF Placement, Waiting, RowIds, Ids, Shapes
  <2>3. queue \in Seq(Transactions) /\ parked \in Seq(Transactions)
    BY DEF Shapes
  <2>4. Range(Append(queue, row)) = Range(queue) \cup {row} /\ Range(Append(parked, row)) = Range(parked) \cup {row}
    BY <2>2, <2>3, AppendFacts
  <2>5. QueuedIds' \subseteq QueuedIds \cup {row.id} /\ ParkedIds' \subseteq ParkedIds \cup {row.id}
    BY <2>1, <2>4, Zenon DEF QueuedIds, ParkedIds, Ids
  <2>6. UNCHANGED <<pc, job, rows, delivered, dropped, batch, taken, nextTxn>>
    BY <1>5 DEF ReplayRow
  <2>7. UNCHANGED <<HeldIds, RowIds, Settled>>
    BY <2>6, Zenon DEF HeldIds, Held, RowIds, Settled
  <2>8. QED
    BY <2>2, <2>5, <2>6, <2>7, FreshKeeps, Zenon DEF Old
<1>6. CASE Start
  <2>1. PICK gone \in SUBSET excluded : /\ rows' = rows \ gone
                                        /\ dropped' = dropped \cup {row.id : row \in gone}
    BY <1>6, Zenon DEF Start, DeleteExcluded
  <2>2. /\ life = "replaying" /\ UNCHANGED <<queue, parked, job, delivered, batch, taken, nextTxn>>
        /\ \A t \in Threads : pc'[t] \in {"loop", "done"}
    BY <1>6, Zenon DEF Start, DeleteExcluded
  <2>3. RowIds' \subseteq RowIds /\ Settled' \subseteq Settled \cup RowIds
    BY <2>1, <2>2, Zenon DEF RowIds, Ids, Settled, Placement, Waiting
  <2>4. HeldIds' = {}
    BY <2>2, Zenon DEF HeldIds, Held, Ids, Holding
  <2>5. UNCHANGED <<QueuedIds, ParkedIds>>
    BY <2>2 DEF QueuedIds, ParkedIds
  <2>6. Old' \subseteq Old
    BY <2>3, <2>4, <2>5 DEF Old
  <2>7. QED
    BY <2>2, <2>6, FreshKeeps
<1>7. CASE Exit \/ Crash
  <2>1. /\ queue' = <<>> /\ parked' = <<>> /\ pc' = [t \in Threads |-> "done"]
        /\ batch' = <<>> /\ taken' = <<>>
        /\ UNCHANGED <<rows, delivered, dropped, nextTxn>>
    BY <1>7, Zenon DEF Exit, Crash, LoseMemory
  <2>2. QueuedIds' = {} /\ ParkedIds' = {} /\ BatchIds' = {} /\ TakenIds' = {}
    BY <2>1, EmptyFacts DEF QueuedIds, ParkedIds, BatchIds, TakenIds
  <2>3. HeldIds' = {}
    BY <2>1, Zenon DEF HeldIds, Held, Ids, Holding
  <2>4. UNCHANGED <<RowIds, Settled>>
    BY <2>1 DEF RowIds, Settled
  <2>5. Sorted(batch') /\ Sorted(taken')
    BY <2>1 DEF Sorted
  <2>6. QED
    BY <2>1, <2>2, <2>3, <2>4, <2>5 DEF Fresh, Old
<1>8. ASSUME NEW t \in Threads, ThreadStep(t) PROVE Fresh'
  BY <1>8, ThreadMoves, MoveKnows, FreshKeeps, Zenon DEF Apart
<1>9. CASE UNCHANGED vars
  BY <1>9, <1>a, FreshKeeps DEF vars
<1>10. QED
  BY <1>1, <1>2, <1>3, <1>4, <1>5, <1>6, <1>7, <1>8, <1>9 DEF Next, Enqueue

\* The ids queued, parked, held, with a row, and settled: each in one place.
Separate(Q, P, H, R, S) ==
    /\ Q \cap P = {} /\ H \cap Q = {} /\ H \cap P = {}
    /\ S \cap (R \cup Q \cup P \cup H) = {}

\* Taken from the queue by a thread.
LEMMA TakeSeparates ==
    ASSUME NEW Q, NEW P, NEW H, NEW R, NEW S, NEW x, Separate(Q, P, H, R, S), x \in Q
    PROVE  Separate(Q \ {x}, P, H \cup {x}, R, S)
BY DEF Separate

\* From the backlog to the queue.
LEMMA PromoteSeparates ==
    ASSUME NEW Q, NEW P, NEW H, NEW R, NEW S, NEW x, Separate(Q, P, H, R, S), x \in P
    PROVE  Separate(Q \cup {x}, P \ {x}, H, R, S)
BY DEF Separate

\* Put back by a thread, its row rewritten.
LEMMA ReturnSeparates ==
    ASSUME NEW Q, NEW P, NEW H, NEW R, NEW S, NEW x, Separate(Q, P, H, R, S), x \in H
    PROVE  Separate(Q \cup {x}, P, H \ {x}, R \cup {x}, S)
BY DEF Separate

\* Let go by a thread, with or without its row.
LEMMA SettleSeparates ==
    ASSUME NEW Q, NEW P, NEW H, NEW R, NEW S, NEW x, Separate(Q, P, H, R, S), x \in H
    PROVE  /\ Separate(Q, P, H \ {x}, R, S)
           /\ Separate(Q, P, H \ {x}, R \ {x}, S \cup {x})
BY DEF Separate

\* Replayed: a row that is in no place yet goes to the queue or to the backlog.
LEMMA ReplaySeparates ==
    ASSUME NEW Q, NEW P, NEW H, NEW R, NEW S, NEW x, Separate(Q, P, H, R, S),
           x \in R, x \notin Q, x \notin P, x \notin H
    PROVE  /\ Separate(Q \cup {x}, P, H, R, S)
           /\ Separate(Q, P \cup {x}, H, R, S)
BY DEF Separate

\* Every move leaves each transaction in one place.
LEMMA MovePlaces ==
    ASSUME Shapes, Placement, Waiting = {}, NEW t \in Threads, Move(t), Apart
    PROVE  Placement'
<1>1. Waiting' = {} /\ toReplay' = {} /\ excluded' = {} /\ Ids(Waiting') = {}
  BY EmptyFacts, Zenon DEF Apart, Waiting
<1>2. ASSUME /\ Distinct(queue') /\ Distinct(parked') /\ OneJobEach'
             /\ \A r, s \in rows' : r.id = s.id => r = s,
             Separate(QueuedIds', ParkedIds', HeldIds', RowIds', Settled')
      PROVE  Placement'
  <2>1. Ids(Waiting)' = {}
    BY <1>1 DEF Ids
  <2>2. QED
    BY <1>1, <1>2, <2>1 DEF Placement, Separate
<1>a. /\ Separate(QueuedIds, ParkedIds, HeldIds, RowIds, Settled)
      /\ Distinct(queue) /\ Distinct(parked)
      /\ \A r, s \in rows : r.id = s.id => r = s
  BY DEF Placement, Separate
<1>3. CASE Keep
  <2>1. UNCHANGED Settled /\ UNCHANGED <<rows, QueuedIds, ParkedIds, HeldIds, RowIds, queue, parked>> /\ OneJobEach'
    BY <1>3, KeepEffect DEF Keep, Settled
  <2>2. QED
    BY ONLY <1>2, <1>a, <2>1
<1>4. CASE Take(t)
  <2>1. PICK x \in Range(queue) :
          /\ Distinct(queue') /\ OneJobEach' /\ x.id \in QueuedIds
          /\ QueuedIds' = QueuedIds \ {x.id} /\ HeldIds' = HeldIds \cup {x.id}
          /\ UNCHANGED <<ParkedIds, RowIds>>
    BY <1>4, TakeEffect, Zenon
  <2>2. UNCHANGED <<Settled, rows, parked>>
    BY <1>4 DEF Take, Settled
  <2>3. Separate(QueuedIds', ParkedIds', HeldIds', RowIds', Settled')
    BY ONLY <1>a, <2>1, <2>2, TakeSeparates, Zenon
  <2>4. QED
    BY ONLY <1>2, <1>a, <2>1, <2>2, <2>3
<1>5. CASE Promote
  <2>1. LET x == Head(parked)
        IN  /\ x.id \notin QueuedIds /\ x.id \in ParkedIds
            /\ Distinct(queue') /\ Distinct(parked') /\ OneJobEach'
            /\ QueuedIds' = QueuedIds \cup {x.id} /\ ParkedIds' = ParkedIds \ {x.id}
            /\ UNCHANGED <<HeldIds, RowIds>>
    BY <1>5, PromoteEffect, Zenon
  <2>2. UNCHANGED <<Settled, rows>>
    BY <1>5 DEF Promote, Settled
  <2>3. Separate(QueuedIds', ParkedIds', HeldIds', RowIds', Settled')
    BY ONLY <1>a, <2>1, <2>2, PromoteSeparates, Zenon
  <2>4. QED
    BY ONLY <1>2, <1>a, <2>1, <2>2, <2>3, Zenon
<1>6. CASE Rotate
  <2>1. UNCHANGED <<QueuedIds, ParkedIds, HeldIds, RowIds, queue>> /\ OneJobEach' /\ Distinct(parked')
    BY <1>6, RotateEffect
  <2>2. UNCHANGED <<Settled, rows>>
    BY <1>6, Zenon DEF Rotate, Settled
  <2>3. QED
    BY ONLY <1>2, <1>a, <2>1, <2>2
<1>7. CASE Return(t)
  <2>1. /\ Distinct(queue') /\ OneJobEach'
        /\ QueuedIds' = QueuedIds \cup {job[t].id}
        /\ HeldIds' = HeldIds \ {job[t].id} /\ job[t].id \in HeldIds
        /\ RowIds' = RowIds \cup {job[t].id}
        /\ \A r, s \in rows' : r.id = s.id => r = s
        /\ UNCHANGED ParkedIds
    BY <1>7, ReturnEffect, Zenon
  <2>2. UNCHANGED <<Settled, parked>>
    BY <1>7, Zenon DEF Return, Settled
  <2>3. Separate(QueuedIds', ParkedIds', HeldIds', RowIds', Settled')
    BY ONLY <1>a, <2>1, <2>2, ReturnSeparates, Zenon
  <2>4. QED
    BY ONLY <1>2, <1>a, <2>1, <2>2, <2>3
<1>8. CASE LetGo(t)
  <2>1. /\ OneJobEach'
        /\ HeldIds' = HeldIds \ {job[t].id} /\ job[t].id \in HeldIds
        /\ \/ UNCHANGED <<rows, RowIds, Settled>>
           \/ /\ RowIds' = RowIds \ {job[t].id}
              /\ rows' \subseteq rows
              /\ Settled' = Settled \cup {job[t].id}
        /\ UNCHANGED <<QueuedIds, ParkedIds, queue, parked>>
    BY <1>8, LetGoEffect
  <2>2. \A r, s \in rows' : r.id = s.id => r = s
    BY <2>1 DEF Placement
  <2>3. \/ RowIds' = RowIds /\ Settled' = Settled
        \/ RowIds' = RowIds \ {job[t].id} /\ Settled' = Settled \cup {job[t].id}
    BY ONLY <2>1
  <2>4. Separate(QueuedIds', ParkedIds', HeldIds', RowIds', Settled')
    <3>1. /\ Separate(QueuedIds, ParkedIds, HeldIds \ {job[t].id}, RowIds, Settled)
          /\ Separate(QueuedIds, ParkedIds, HeldIds \ {job[t].id},
                      RowIds \ {job[t].id}, Settled \cup {job[t].id})
      <4>1. Separate(QueuedIds, ParkedIds, HeldIds, RowIds, Settled) /\ job[t].id \in HeldIds
        BY ONLY <1>a, <2>1
      <4>2. QED
        BY ONLY <4>1, SettleSeparates, Zenon
    <3>2. QueuedIds' = QueuedIds /\ ParkedIds' = ParkedIds /\ HeldIds' = HeldIds \ {job[t].id}
      BY ONLY <2>1, Zenon
    <3>3. QED
      BY ONLY <2>3, <3>1, <3>2
  <2>5. QED
    BY ONLY <1>2, <1>a, <2>1, <2>2, <2>4, Zenon
<1>9. QED
  BY <1>3, <1>4, <1>5, <1>6, <1>7, <1>8 DEF Move

\* A batch goes to the queue and to the rows with ids nobody has.
LEMMA CommitPlaces ==
    ASSUME Shapes, Lock, Placement, Fresh, EnqueueCommit
    PROVE  Placement'
<1> USE DEF threads, control
<1>1. /\ life = "running" /\ Waiting = {} /\ toReplay = {} /\ excluded = {}
      /\ UNCHANGED <<toReplay, excluded, parked, pc, job, delivered, dropped>>
  BY Zenon DEF EnqueueCommit, Lock, Waiting
<1>2. Waiting' = {} /\ Ids(Waiting)' = {} /\ toReplay' = {} /\ excluded' = {}
  BY <1>1 DEF Waiting, Ids
<1>3. UNCHANGED <<ParkedIds, HeldIds, Settled>> /\ OneJobEach'
  BY <1>1, Zenon DEF ParkedIds, HeldIds, Held, Settled, OneJobEach, Placement
<1>4. CASE UNCHANGED <<rows, queue>>
  <2>1. UNCHANGED <<RowIds, QueuedIds>>
    BY <1>4 DEF RowIds, QueuedIds
  <2>2. QED
    BY <1>1, <1>2, <1>3, <1>4, <2>1 DEF Placement
<1>5. CASE rows' = rows \cup {taken[k] : k \in 1..Len(taken)} /\ queue' = queue \o taken
  <2>1. queue \in Seq(Transactions) /\ taken \in Seq(Transactions) /\ Distinct(queue)
    BY Zenon DEF Shapes, Placement
  <2>2. Old \subseteq Nat /\ TakenIds \subseteq Nat /\ \A m \in Old, n \in TakenIds : m < n
    BY IdsAreNumbers DEF Fresh
  <2>3. Old \cap TakenIds = {}
    BY ONLY <2>2
  <2>4. Distinct(taken)
    <3>1. Sorted(taken)
      BY DEF Fresh
    <3>2. \A k \in 1..Len(taken) : taken[k].id \in Nat
      <4>1. \A k \in 1..Len(taken) : taken[k] \in Transactions
        BY ONLY <2>1
      <4>2. QED
        BY ONLY <4>1 DEF Transactions
    <3>3. \A i, j \in 1..Len(taken) : i < j => taken[i].id # taken[j].id
      BY ONLY <3>1, <3>2 DEF Sorted
    <3>4. Len(taken) \in Nat
      BY ONLY <2>1
    <3>5. \A i, j \in 1..Len(taken) : i # j => taken[i].id # taken[j].id
      BY ONLY <3>3, <3>4
    <3>6. QED
      BY ONLY <3>5 DEF Distinct
  <2>5. Range(queue \o taken) = Range(queue) \cup Range(taken) /\ Distinct(queue \o taken)
    BY <2>1, <2>3, <2>4, ConcatFacts DEF Old, QueuedIds, TakenIds
  <2>6. QueuedIds' = QueuedIds \cup TakenIds
    BY <1>5, <2>5, Zenon DEF QueuedIds, TakenIds, Ids
  <2>7. Range(taken) = {taken[k] : k \in 1..Len(taken)}
    <3>1. DOMAIN taken = 1..Len(taken)
      BY ONLY <2>1
    <3>2. QED
      BY ONLY <3>1 DEF Range
  <2>8. RowIds' = RowIds \cup TakenIds
    BY <1>5, <2>7 DEF RowIds, TakenIds, Ids
  <2>9. \A r, s \in rows' : r.id = s.id => r = s
    <3>1. \A r \in rows, s \in Range(taken) : r.id # s.id
      BY <2>3 DEF Old, RowIds, TakenIds, Ids
    <3>2. \A r, s \in Range(taken) : r.id = s.id => r = s
      BY <2>4, <2>7 DEF Distinct
    <3>3. rows' = rows \cup Range(taken)
      BY <1>5, <2>7
    <3>4. QED
      BY <3>1, <3>2, <3>3 DEF Placement
  <2>10. /\ TakenIds \cap ParkedIds = {} /\ TakenIds \cap HeldIds = {}
         /\ TakenIds \cap Settled = {}
    BY <2>3 DEF Old
  <2>11. (QueuedIds \cap ParkedIds = {} /\ HeldIds \cap QueuedIds = {} /\ HeldIds \cap ParkedIds = {})'
    BY <1>3, <2>6, <2>10 DEF Placement
  <2>12. (Settled \cap (RowIds \cup QueuedIds \cup ParkedIds \cup HeldIds) = {})'
    BY <1>3, <2>6, <2>8, <2>10 DEF Placement
  <2>13. Distinct(queue') /\ Distinct(parked')
    BY <1>1, <1>5, <2>5, Zenon DEF Placement
  <2>14. QED
    BY <1>2, <1>3, <2>9, <2>11, <2>12, <2>13, Zenon DEF Placement
<1>6. QED
  BY <1>4, <1>5, Zenon DEF EnqueueCommit

\* A replayed row goes to one place.
LEMMA ReplayPlaces ==
    ASSUME Shapes, Attempts, Placement, ReplayRow
    PROVE  Placement'
<1> USE DEF threads, disk, ledger
<1>1. PICK row \in toReplay :
        /\ toReplay' = toReplay \ {row}
        /\ \/ excluded' = excluded \cup {row} /\ UNCHANGED <<queue, parked>>
           \/ parked' = Append(parked, row) /\ UNCHANGED <<queue, excluded>>
           \/ push_queue_locked(row) /\ UNCHANGED <<parked, excluded>>
  BY DEF ReplayRow
<1>2. UNCHANGED <<pc, job, rows, delivered, dropped>>
  BY DEF ReplayRow
<1>3. UNCHANGED <<HeldIds, RowIds, Settled>> /\ OneJobEach'
  BY <1>2, Zenon DEF HeldIds, Held, RowIds, Settled, OneJobEach, Placement
<1>4. HeldIds = {}
  <2>1. \A t \in Threads : pc[t] = "done"
    BY Zenon DEF ReplayRow, Attempts
  <2>2. QED
    BY <2>1 DEF HeldIds, Held, Ids, Holding
<1>5. row \in Transactions /\ row \in rows /\ row \in Waiting /\ row \notin excluded
  BY DEF Placement, Waiting, Shapes
<1>6. row.id \notin QueuedIds \cup ParkedIds /\ row.id \in RowIds
  BY <1>5, Zenon DEF Placement, Ids, RowIds
<1>7. \A r \in Waiting \ {row} : r.id # row.id
  BY <1>5, Zenon DEF Placement
<1>8. queue \in Seq(Transactions) /\ parked \in Seq(Transactions) /\ Distinct(queue) /\ Distinct(parked)
  BY DEF Shapes, Placement
<1>9. /\ Separate(QueuedIds \cup {row.id}, ParkedIds, HeldIds, RowIds, Settled)
      /\ Separate(QueuedIds, ParkedIds \cup {row.id}, HeldIds, RowIds, Settled)
  <2>1. Separate(QueuedIds, ParkedIds, HeldIds, RowIds, Settled)
    BY DEF Placement, Separate
  <2>2. row.id \notin QueuedIds /\ row.id \notin ParkedIds /\ row.id \notin HeldIds
    BY ONLY <1>4, <1>6, Zenon
  <2>3. QED
    BY ONLY <1>6, <2>1, <2>2, ReplaySeparates, Zenon
<1>10. CASE excluded' = excluded \cup {row} /\ UNCHANGED <<queue, parked>>
  <2>1. Waiting' = Waiting /\ toReplay' \cap excluded' = {}
    BY <1>1, <1>10 DEF Waiting, Placement
  <2>2. UNCHANGED <<QueuedIds, ParkedIds>> /\ Ids(Waiting)' = Ids(Waiting)
    BY <1>10, <2>1 DEF QueuedIds, ParkedIds
  <2>3. QED
    BY <1>2, <1>3, <1>10, <2>1, <2>2, Zenon DEF Placement
<1>11. ASSUME UNCHANGED excluded
       PROVE  /\ Waiting' = Waiting \ {row} /\ toReplay' \cap excluded' = {}
              /\ Ids(Waiting)' = Ids(Waiting) \ {row.id}
  <2>1. Waiting' = Waiting \ {row} /\ toReplay' \cap excluded' = {}
    BY <1>1, <1>5, <1>11 DEF Waiting, Placement
  <2>2. QED
    BY <1>7, <2>1, Zenon DEF Ids
<1>12. CASE parked' = Append(parked, row) /\ UNCHANGED <<queue, excluded>>
  <2>1. Range(Append(parked, row)) = Range(parked) \cup {row} /\ Distinct(Append(parked, row))
    BY <1>5, <1>6, <1>8, AppendFacts DEF ParkedIds
  <2>2. ParkedIds' = ParkedIds \cup {row.id} /\ UNCHANGED QueuedIds
    BY <1>12, <2>1, Zenon DEF ParkedIds, QueuedIds, Ids
  <2>3. Separate(QueuedIds', ParkedIds', HeldIds', RowIds', Settled')
    BY ONLY <1>3, <1>9, <2>2
  <2>4. /\ (QueuedIds \cap ParkedIds = {} /\ HeldIds \cap QueuedIds = {} /\ HeldIds \cap ParkedIds = {})'
        /\ (Settled \cap (RowIds \cup QueuedIds \cup ParkedIds \cup HeldIds) = {})'
    BY ONLY <2>3 DEF Separate
  <2>5. (Ids(Waiting) \cap (QueuedIds \cup ParkedIds) = {})'
    BY <1>11, <1>12, <2>2, Zenon DEF Placement
  <2>6. QED
    BY <1>2, <1>3, <1>11, <1>12, <2>1, <2>4, <2>5, Zenon DEF Placement
<1>13. CASE push_queue_locked(row) /\ UNCHANGED <<parked, excluded>>
  <2>1. Distinct(queue') /\ QueuedIds' = QueuedIds \cup {row.id}
    BY <1>5, <1>6, <1>8, <1>13, PushEffect
  <2>2. UNCHANGED ParkedIds
    BY <1>13 DEF ParkedIds
  <2>3. Separate(QueuedIds', ParkedIds', HeldIds', RowIds', Settled')
    BY ONLY <1>3, <1>9, <2>1, <2>2, Zenon
  <2>4. /\ (QueuedIds \cap ParkedIds = {} /\ HeldIds \cap QueuedIds = {} /\ HeldIds \cap ParkedIds = {})'
        /\ (Settled \cap (RowIds \cup QueuedIds \cup ParkedIds \cup HeldIds) = {})'
    BY ONLY <2>3 DEF Separate
  <2>5. (Ids(Waiting) \cap (QueuedIds \cup ParkedIds) = {})'
    BY <1>11, <1>13, <2>1, <2>2 DEF Placement
  <2>6. QED
    BY <1>2, <1>3, <1>11, <1>13, <2>1, <2>4, <2>5, Zenon DEF Placement
<1>14. QED
  BY <1>1, <1>10, <1>12, <1>13

LEMMA PlacementNext ==
    Shapes /\ Attempts /\ Lock /\ Placement /\ Fresh /\ [Next]_vars => Placement'
<1> SUFFICES ASSUME Shapes, Attempts, Lock, Placement, Fresh, [Next]_vars PROVE Placement'
  BY Zenon
<1> USE DEF worker, control, threads, calls, disk, ledger
<1>a. ASSUME UNCHANGED <<queue, parked, pc, job, rows, delivered, dropped, toReplay, excluded>>
      PROVE  Placement'
  <2>1. UNCHANGED <<QueuedIds, ParkedIds, HeldIds, RowIds, Settled, Waiting>> /\ OneJobEach'
    BY <1>a, Zenon DEF QueuedIds, ParkedIds, HeldIds, Held, RowIds, Settled, Waiting, OneJobEach, Placement
  <2>2. QED
    BY <1>a, <2>1 DEF Placement
<1>1. CASE EnqueueBegin \/ EnqueueConsider
  BY <1>1, <1>a, Zenon DEF EnqueueBegin, EnqueueConsider
<1>2. CASE EnqueueCommit
  BY <1>2, CommitPlaces, Zenon
<1>3. CASE request_shutdown \/ Tick
  BY <1>3, <1>a, Zenon DEF request_shutdown, Tick
<1>4. CASE Boot
  <2>1. /\ life = "down" /\ toReplay' = rows /\ UNCHANGED <<queue, parked, pc, job, rows, delivered, dropped, excluded>>
    BY <1>4 DEF Boot
  <2>2. queue = <<>> /\ parked = <<>> /\ excluded = {}
    BY <2>1 DEF Lock
  <2>3. UNCHANGED <<QueuedIds, ParkedIds, HeldIds, RowIds, Settled>> /\ OneJobEach'
    BY <2>1, Zenon DEF QueuedIds, ParkedIds, HeldIds, Held, RowIds, Settled, OneJobEach, Placement
  <2>4. QueuedIds' = {} /\ ParkedIds' = {}
    BY <2>2, <2>3, EmptyFacts, Zenon DEF QueuedIds, ParkedIds
  <2>5. Waiting' = rows /\ toReplay' \cap excluded' = {}
    BY <2>1, <2>2 DEF Waiting
  <2>6. QED
    BY <2>1, <2>3, <2>4, <2>5, Zenon DEF Placement
<1>5. CASE ReplayRow
  BY <1>5, ReplayPlaces
<1>6. CASE Start
  <2>1. PICK gone \in SUBSET excluded : /\ rows' = rows \ gone
                                        /\ dropped' = dropped \cup {row.id : row \in gone}
    BY <1>6, Zenon DEF Start, DeleteExcluded
  <2>2. /\ toReplay' = {} /\ excluded' = {} /\ UNCHANGED <<queue, parked, job, delivered>>
        /\ \A t \in Threads : pc'[t] \in {"loop", "done"}
    BY <1>6, Zenon DEF Start, DeleteExcluded
  <2>3. HeldIds' = {} /\ OneJobEach'
    BY <2>2, Zenon DEF HeldIds, Held, Ids, Holding, OneJobEach
  <2>4. Waiting' = {} /\ Ids(Waiting)' = {}
    BY <2>2 DEF Waiting, Ids
  <2>5. UNCHANGED <<QueuedIds, ParkedIds>>
    BY <2>2 DEF QueuedIds, ParkedIds
  <2>6. Settled' = Settled \cup Ids(gone)
    BY <2>1, <2>2 DEF Settled, Ids
  <2>7. RowIds' \subseteq RowIds /\ RowIds' \cap Ids(gone) = {}
    <3>1. gone \subseteq rows /\ \A r, s \in rows : r.id = s.id => r = s
      BY <2>1 DEF Placement, Waiting
    <3>2. RowIds' = {r.id : r \in rows \ gone} /\ RowIds = {r.id : r \in rows}
      BY <2>1 DEF RowIds, Ids
    <3>3. Ids(gone) = {r.id : r \in gone}
      BY Zenon DEF Ids
    <3>4. QED
      BY ONLY <3>1, <3>2, <3>3, Zenon
  <2>8. Ids(gone) \cap (QueuedIds \cup ParkedIds) = {}
    BY <2>1, Zenon DEF Placement, Waiting, Ids
  <2>9. (Settled \cap (RowIds \cup QueuedIds \cup ParkedIds \cup HeldIds) = {})'
    BY <2>3, <2>5, <2>6, <2>7, <2>8 DEF Placement
  <2>10. \A r, s \in rows' : r.id = s.id => r = s
    BY <2>1, Zenon DEF Placement
  <2>11. QED
    BY <2>2, <2>3, <2>4, <2>5, <2>9, <2>10, Zenon DEF Placement
<1>7. CASE Exit \/ Crash
  <2>1. /\ queue' = <<>> /\ parked' = <<>> /\ pc' = [t \in Threads |-> "done"]
        /\ toReplay' = {} /\ excluded' = {}
        /\ UNCHANGED <<rows, delivered, dropped>>
    BY <1>7, Zenon DEF Exit, Crash, LoseMemory
  <2>2. QueuedIds' = {} /\ ParkedIds' = {} /\ Distinct(queue') /\ Distinct(parked')
    BY <2>1, EmptyFacts DEF QueuedIds, ParkedIds
  <2>3. HeldIds' = {} /\ OneJobEach'
    BY <2>1, Zenon DEF HeldIds, Held, Ids, Holding, OneJobEach
  <2>4. Waiting' = {} /\ Ids(Waiting)' = {}
    BY <2>1 DEF Waiting, Ids
  <2>5. UNCHANGED <<RowIds, Settled>>
    BY <2>1 DEF RowIds, Settled
  <2>6. QED
    BY <2>1, <2>2, <2>3, <2>4, <2>5 DEF Placement
<1>8. ASSUME NEW t \in Threads, ThreadStep(t) PROVE Placement'
  <2>1. Waiting = {}
    BY <1>8, ThreadLock, Zenon DEF Lock, Waiting
  <2>2. QED
    BY <1>8, <2>1, ThreadMoves, MovePlaces
<1>9. CASE UNCHANGED vars
  BY <1>9, <1>a DEF vars
<1>10. QED
  BY <1>1, <1>2, <1>3, <1>4, <1>5, <1>6, <1>7, <1>8, <1>9 DEF Next, Enqueue

\* The invariant the other theorems build on.
Placed == Shapes /\ Attempts /\ Lock /\ Placement /\ Fresh

LEMMA PlacedAlways == Spec => []Placed
<1>1. Init => Placed
  <2> SUFFICES ASSUME Init PROVE Placed
    OBVIOUS
  <2>1. Shapes
    BY ShapesInit, Zenon
  <2>2. Attempts
    BY Zenon DEF Init, Attempts, Flying, Holding, Copying
  <2>3. Lock
    BY ConfigAssumption DEF Init, Lock, Owned, NoneTaken
  <2>4. /\ QueuedIds = {} /\ ParkedIds = {} /\ BatchIds = {} /\ TakenIds = {}
        /\ Distinct(queue) /\ Distinct(parked) /\ Sorted(batch) /\ Sorted(taken)
    <3>1. queue = <<>> /\ parked = <<>> /\ batch = <<>> /\ taken = <<>>
      BY DEF Init
    <3>2. QueuedIds = {} /\ ParkedIds = {} /\ BatchIds = {} /\ TakenIds = {}
      BY <3>1, EmptyFacts DEF QueuedIds, ParkedIds, BatchIds, TakenIds
    <3>3. QED
      BY <3>1, <3>2, EmptyFacts DEF Sorted
  <2>5. HeldIds = {} /\ RowIds = {} /\ Settled = {} /\ Waiting = {} /\ OneJobEach
    BY Zenon DEF Init, HeldIds, Held, RowIds, Ids, Settled, Waiting, OneJobEach, Holding
  <2>6. Placement /\ Fresh
    BY <2>4, <2>5, Zenon DEF Init, Placement, Fresh, Old
  <2>7. QED
    BY <2>1, <2>2, <2>3, <2>6 DEF Placed
<1>2. Placed /\ [Next]_vars => Placed'
  BY ShapesNext, AttemptsNext, LockNext, PlacementNext, FreshNext DEF Placed
<1>3. QED
  BY <1>1, <1>2, PTL DEF Spec

\* What was counted as delivered or dropped is never sent again, in this life
\* of the process or a later one.
THEOREM SettledStaysSettled == Spec => []SettledIsFinal
<1>1. Placed => SettledIsFinal
  BY DEF Placed, Placement, SettledIsFinal, Settled
<1>2. QED
  BY <1>1, PlacedAlways, PTL

(***************************************************************************)
(* No row is forgotten.                                                     *)
(***************************************************************************)
\* Failed writes are counted and never forgiven.
LEMMA FaultsGrow ==
    ASSUME [Next]_vars
    PROVE  faults' = faults \/ faults' = faults + 1
<1>1. CASE EnqueueBegin \/ EnqueueConsider \/ EnqueueCommit \/ Boot \/ ReplayRow
  BY <1>1, Zenon DEF EnqueueBegin, EnqueueConsider, EnqueueCommit, Boot, ReplayRow, Fault
<1>2. CASE Start \/ request_shutdown \/ Exit \/ Crash \/ Tick
  BY <1>2, Zenon DEF Start, DeleteExcluded, request_shutdown, Exit, Crash, LoseMemory, Tick, Fault
<1>3. ASSUME NEW t \in Threads, ThreadStep(t) PROVE faults' = faults \/ faults' = faults + 1
  <2>1. CASE LoopCheck(t) \/ PollIdle(t) \/ TopUp(t) \/ AttemptBegin(t) \/ Discover(t) \/ Perform(t)
    BY <2>1, Zenon DEF LoopCheck, PollIdle, TopUp, AttemptBegin, Discover, Perform
  <2>2. CASE AttemptFailed(t) \/ AttemptSucceeded(t) \/ ReleaseInFlight(t)
    BY <2>2, Zenon DEF AttemptFailed, AttemptSucceeded, ReleaseInFlight, Fault
  <2>3. CASE wait_out_open_circuit(t) \/ re_enqueue_with_backoff(t)
    <3>1. DropExhausted(t) \/ \E row : PersistAndRequeue(t, row)
      BY <2>3 DEF wait_out_open_circuit, re_enqueue_with_backoff
    <3>2. QED
      BY <3>1, Zenon DEF PersistAndRequeue, DropExhausted, Fault
  <2>4. CASE DrainBegin(t) \/ DrainCheck(t) \/ DrainEnd(t) \/ \E dueBy : take_next(t, dueBy)
    BY <2>4, Zenon DEF DrainBegin, DrainCheck, DrainEnd, take_next
  <2>5. QED
    BY <1>3, <2>1, <2>2, <2>3, <2>4 DEF ThreadStep, Poll, DrainTake
<1>4. CASE UNCHANGED vars
  BY <1>4 DEF vars
<1>5. QED
  BY <1>1, <1>2, <1>3, <1>4 DEF Next, Enqueue

\* The inductive invariant: from the start of the replay on a row is in a place
\* of the worker or still to be replayed.
Places == QueuedIds \cup ParkedIds \cup HeldIds \cup Ids(Waiting)
Known  == life # "down" /\ faults = 0 => RowIds \subseteq Places

\* A move takes a row out of the worker's places only with the row itself, or
\* after a failed write.
LEMMA MoveKeepsKnown ==
    ASSUME Shapes, Placement, Waiting = {}, RowIds \subseteq Places, NEW t \in Threads, Move(t), Apart
    PROVE  RowIds' \subseteq Places' \/ faults' = faults + 1
<1>0. Ids(Waiting) = {} /\ Ids(Waiting)' = {}
  BY DEF Apart, Waiting, Ids
<1>1. RowIds \subseteq QueuedIds \cup ParkedIds \cup HeldIds
  BY <1>0 DEF Places
<1>a. ASSUME RowIds' \subseteq QueuedIds' \cup ParkedIds' \cup HeldIds' PROVE RowIds' \subseteq Places'
  BY ONLY <1>a DEF Places
<1>2. CASE Keep
  <2>1. UNCHANGED <<QueuedIds, ParkedIds, HeldIds, RowIds>>
    BY <1>2, KeepEffect, Zenon
  <2>2. QED
    BY ONLY <1>1, <1>a, <2>1
<1>3. CASE Take(t)
  <2>1. PICK x \in Range(queue) :
          /\ QueuedIds' = QueuedIds \ {x.id} /\ HeldIds' = HeldIds \cup {x.id}
          /\ UNCHANGED <<ParkedIds, RowIds>>
    BY <1>3, TakeEffect, Zenon
  <2>2. QED
    BY ONLY <1>1, <1>a, <2>1
<1>4. CASE Promote
  <2>1. LET x == Head(parked)
        IN  /\ QueuedIds' = QueuedIds \cup {x.id} /\ ParkedIds' = ParkedIds \ {x.id}
            /\ UNCHANGED <<HeldIds, RowIds>>
    BY <1>4, PromoteEffect, Zenon
  <2>2. QED
    BY ONLY <1>1, <1>a, <2>1
<1>5. CASE Rotate
  <2>1. UNCHANGED <<QueuedIds, ParkedIds, HeldIds, RowIds>>
    BY <1>5, RotateEffect, Zenon
  <2>2. QED
    BY ONLY <1>1, <1>a, <2>1
<1>6. CASE Return(t)
  <2>1. /\ QueuedIds' = QueuedIds \cup {job[t].id} /\ HeldIds' = HeldIds \ {job[t].id}
        /\ RowIds' = RowIds \cup {job[t].id} /\ UNCHANGED ParkedIds
    BY <1>6, ReturnEffect, Zenon
  <2>2. QED
    BY ONLY <1>1, <1>a, <2>1
<1>7. CASE LetGo(t)
  <2>1. HeldIds' = HeldIds \ {job[t].id} /\ UNCHANGED <<QueuedIds, ParkedIds>>
    BY <1>7, LetGoEffect, Zenon
  <2>2. CASE delete_federation_transaction(job[t])
    <3>1. RowIds' = RowIds \ {job[t].id}
      BY <2>2 DEF delete_federation_transaction, RowIds, Ids
    <3>2. QED
      BY ONLY <1>1, <1>a, <2>1, <3>1, Zenon
  <2>3. QED
    BY <1>7, <2>2, Zenon DEF LetGo
<1>8. QED
  BY <1>2, <1>3, <1>4, <1>5, <1>6, <1>7, Zenon DEF Move

\* A replayed row goes from the rows to be replayed to another place.
LEMMA ReplayKeepsPlaces ==
    ASSUME Shapes, ReplayRow
    PROVE  Places \subseteq Places' /\ RowIds' = RowIds
<1>1. PICK row \in toReplay :
        /\ toReplay' = toReplay \ {row}
        /\ \/ excluded' = excluded \cup {row} /\ UNCHANGED <<queue, parked>>
           \/ parked' = Append(parked, row) /\ UNCHANGED <<queue, excluded>>
           \/ queue' = Append(queue, row) /\ UNCHANGED <<parked, excluded>>
  BY DEF ReplayRow, push_queue_locked
<1>2. UNCHANGED <<HeldIds, RowIds>>
  BY Zenon DEF ReplayRow, HeldIds, Held, RowIds, threads, disk
<1>3. /\ row \in Transactions /\ queue \in Seq(Transactions) /\ parked \in Seq(Transactions)
  BY <1>1 DEF Shapes
<1>4. /\ Range(Append(queue, row)) = Range(queue) \cup {row}
      /\ Range(Append(parked, row)) = Range(parked) \cup {row}
  BY <1>3, AppendFacts
<1> DEFINE All == Range(queue) \cup Range(parked) \cup Waiting
<1>5. All \subseteq All'
  <2>1. Range(queue)' = Range(queue) \/ Range(queue)' = Range(queue) \cup {row}
    BY <1>1, <1>4, Zenon
  <2>2. Range(parked)' = Range(parked) \/ Range(parked)' = Range(parked) \cup {row}
    BY <1>1, <1>4, Zenon
  <2>3. row \in Range(queue)' \/ row \in Range(parked)' \/ row \in excluded'
    <3>1. row \in Range(Append(queue, row)) /\ row \in Range(Append(parked, row))
      BY ONLY <1>4
    <3>2. QED
      BY <1>1, <3>1, Zenon
  <2>4. excluded \subseteq excluded' /\ toReplay \subseteq toReplay' \cup {row}
    BY <1>1, Zenon
  <2>5. QED
    BY ONLY <2>1, <2>2, <2>3, <2>4 DEF Waiting
<1>6. Ids(All) \subseteq Ids(All')
  BY <1>5, Zenon DEF Ids
<1>7. /\ Ids(All) = QueuedIds \cup ParkedIds \cup Ids(Waiting)
      /\ Ids(All') = QueuedIds' \cup ParkedIds' \cup Ids(Waiting')
  BY Zenon DEF QueuedIds, ParkedIds, Ids
<1>8. Ids(Waiting)' = Ids(Waiting')
  BY DEF Ids
<1>9. QED
  BY ONLY <1>2, <1>6, <1>7, <1>8, Zenon DEF Places

LEMMA KnownNext == Placed /\ Known /\ [Next]_vars => Known'
<1> SUFFICES ASSUME Placed, Known, [Next]_vars, life' # "down", faults' = 0 PROVE RowIds' \subseteq Places'
  BY DEF Known
<1> USE DEF worker, control, threads, calls, disk, ledger
<1>0. /\ Shapes /\ Attempts /\ Lock /\ Placement /\ Fresh
      /\ queue \in Seq(Transactions) /\ taken \in Seq(Transactions)
  BY Zenon DEF Placed, Shapes
<1>1. faults = 0 /\ faults' # faults + 1
  <2>1. faults \in Nat
    BY <1>0 DEF Shapes
  <2>2. QED
    BY <2>1, FaultsGrow, SMTT(20)
<1>a. ASSUME life # "down", UNCHANGED <<queue, parked, pc, job, rows, toReplay, excluded>>
      PROVE  RowIds' \subseteq Places'
  <2>1. Places' = Places /\ RowIds' = RowIds
    BY <1>a, Zenon DEF Places, QueuedIds, ParkedIds, HeldIds, Held, Waiting, RowIds
  <2>2. QED
    BY <1>1, <1>a, <2>1 DEF Known
<1>2. CASE EnqueueBegin \/ EnqueueConsider
  BY <1>2, <1>a, Zenon DEF EnqueueBegin, EnqueueConsider
<1>3. CASE EnqueueCommit
  <2>1. life = "running" /\ UNCHANGED <<parked, pc, job, toReplay, excluded>>
    BY <1>3, Zenon DEF EnqueueCommit
  <2>2. rows' = rows \cup {taken[k] : k \in 1..Len(taken)} /\ queue' = queue \o taken
    BY <1>1, <1>3 DEF EnqueueCommit, Fault
  <2>3. Range(queue \o taken) = Range(queue) \cup Range(taken)
    BY <1>0, ConcatFacts
  <2>4. QueuedIds' = QueuedIds \cup TakenIds
    BY <2>2, <2>3, Zenon DEF QueuedIds, TakenIds, Ids
  <2>5. Range(taken) = {taken[k] : k \in 1..Len(taken)}
    BY <1>0, SMTT(20) DEF Range
  <2>6. RowIds' = RowIds \cup TakenIds
    BY <2>2, <2>5 DEF RowIds, TakenIds, Ids
  <2>7. UNCHANGED <<ParkedIds, HeldIds, Waiting>>
    BY <2>1, Zenon DEF ParkedIds, HeldIds, Held, Waiting
  <2>8. RowIds \subseteq Places
    BY <1>1, <2>1 DEF Known
  <2>9. QED
    BY ONLY <2>4, <2>6, <2>7, <2>8, Zenon DEF Places
<1>4. CASE Boot
  <2>1. rows \subseteq Waiting' /\ rows' = rows
    BY <1>4 DEF Boot, Waiting
  <2>2. QED
    BY <2>1, Zenon DEF RowIds, Places, Ids
<1>5. CASE ReplayRow
  <2>1. life # "down"
    BY <1>5 DEF ReplayRow
  <2>2. QED
    BY <1>0, <1>1, <1>5, <2>1, ReplayKeepsPlaces, Zenon DEF Known
<1>6. CASE Start
  <2>1. /\ rows' = rows \ excluded /\ toReplay = {} /\ life = "replaying"
        /\ UNCHANGED <<queue, parked>>
    BY <1>1, <1>6, Zenon DEF Start, DeleteExcluded, Fault
  <2>2. HeldIds = {}
    <3>1. \A t \in Threads : pc[t] = "done"
      BY <1>0, <2>1 DEF Attempts
    <3>2. QED
      BY <3>1, Zenon DEF HeldIds, Held, Ids, Holding
  <2>3. RowIds \subseteq QueuedIds \cup ParkedIds \cup Ids(excluded)
    <3>1. Waiting = excluded /\ RowIds \subseteq Places
      BY <1>1, <2>1 DEF Known, Waiting
    <3>2. QED
      BY <2>2, <3>1 DEF Places
  <2>4. ASSUME NEW r \in rows, r \notin excluded PROVE r.id \in RowIds /\ r.id \notin Ids(excluded)
    <3>1. \A s \in excluded : s.id = r.id => s = r
      BY <1>0, Zenon DEF Placement, Waiting
    <3>2. QED
      BY <2>4, <3>1, Zenon DEF RowIds, Ids
  <2>5. RowIds' \subseteq QueuedIds \cup ParkedIds
    BY <2>1, <2>3, <2>4 DEF RowIds, Ids
  <2>6. UNCHANGED <<QueuedIds, ParkedIds>>
    BY <2>1, Zenon DEF QueuedIds, ParkedIds
  <2>7. QED
    BY ONLY <2>5, <2>6, Zenon DEF Places
<1>7. CASE request_shutdown
  BY <1>7, <1>a, Zenon DEF request_shutdown
<1>8. CASE Exit \/ Crash
  BY <1>8, Zenon DEF Exit, Crash, LoseMemory
<1>9. CASE Tick \/ UNCHANGED vars
  BY <1>9, <1>a, Zenon DEF Tick, vars
<1>10. ASSUME NEW t \in Threads, ThreadStep(t) PROVE RowIds' \subseteq Places'
  <2>1. life = "running" /\ Move(t) /\ Apart
    BY <1>0, <1>10, ThreadLock, ThreadMoves
  <2>2. Waiting = {} /\ RowIds \subseteq Places
    BY <1>0, <1>1, <2>1 DEF Lock, Waiting, Known
  <2>3. QED
    BY <1>0, <1>1, <2>1, <2>2, MoveKeepsKnown
<1>11. QED
  BY <1>2, <1>3, <1>4, <1>5, <1>6, <1>7, <1>8, <1>9, <1>10 DEF Next, Enqueue

\* While no write failed the running worker knows every durable row, whatever
\* was replayed, parked, retried or excluded, in any life of the process.
THEOREM NothingGetsForgotten == Spec => []NothingIsForgotten
<1>1. Init => Known
  BY DEF Init, Known
<1>2. Placed /\ Known => NothingIsForgotten
  <2> SUFFICES ASSUME Placed, Known, life = "running", faults = 0
               PROVE  RowIds \subseteq QueuedIds \cup ParkedIds \cup HeldIds
    BY DEF NothingIsForgotten
  <2>1. Waiting = {} /\ RowIds \subseteq Places
    BY DEF Placed, Lock, Waiting, Known
  <2>2. Ids(Waiting) = {}
    BY <2>1 DEF Ids
  <2>3. QED
    BY <2>1, <2>2 DEF Places
<1>3. QED
  BY <1>1, <1>2, PlacedAlways, KnownNext, PTL DEF Spec

(***************************************************************************)
(* The order of attempts.                                                   *)
(***************************************************************************)
\* The inductive invariant: the order, and everything replayed is of an
\* earlier life.
Replayed == \A n \in ParkedIds \cup Ids(Waiting) : n < born
HeldLead == \A x \in Held : Leads(x, Range(queue), born)
Order    == InOrder(queue, born) /\ HeldLead /\ Replayed

\* Every move keeps the order: a transaction is taken from before the others of
\* its destination and put back before them.
LEMMA MoveKeepsOrder ==
    ASSUME Shapes, Attempts, Placement, Waiting = {}, Order, NEW t \in Threads, Move(t), Apart
    PROVE  Order'
<1>0. /\ queue \in Seq(Transactions) /\ parked \in Seq(Transactions) /\ born \in Nat /\ born' = born
      /\ Waiting' = {}
  BY DEF Shapes, Apart, Waiting
<1>a. ASSUME ParkedIds' \subseteq ParkedIds PROVE Replayed'
  <2>1. Ids(Waiting)' = {}
    BY <1>0 DEF Ids
  <2>2. QED
    BY <1>0, <1>a, <2>1 DEF Order, Replayed
<1>b. ASSUME queue' = queue, Held' \subseteq Held, ParkedIds' \subseteq ParkedIds PROVE Order'
  <2>1. Range(queue)' = Range(queue)
    BY <1>b
  <2>2. HeldLead' /\ InOrder(queue, born)'
    BY <1>0, <1>b, <2>1, Zenon DEF Order, HeldLead, Leads, InOrder
  <2>3. QED
    BY <1>a, <1>b, <2>2 DEF Order
<1>1. CASE Keep
  BY <1>1, <1>b, KeepEffect
<1>2. CASE Take(t)
  <2>1. PICK i \in 1..Len(queue) :
          /\ queue' = Erase(queue, i)
          /\ \A j \in 1..(i - 1) : queue[j].dst # queue[i].dst
          /\ job'[t] = queue[i]
    BY <1>2, Zenon DEF Take
  <2>2. InOrder(Erase(queue, i), born) /\ Leads(queue[i], Range(Erase(queue, i)), born)
    BY <1>0, <2>1, OrderErase, Zenon DEF Order
  <2>3. PICK x \in Range(queue) :
          /\ job'[t] = x /\ Range(queue)' = Range(queue) \ {x} /\ Held' = Held \cup {x}
          /\ UNCHANGED ParkedIds
    BY <1>2, TakeEffect, Zenon
  <2>4. \A y \in Held' : Leads(y, Range(queue)', born)
    <3>1. Leads(x, Range(queue)', born)
      BY <2>1, <2>2, <2>3, Zenon
    <3>2. \A y \in Held : Leads(y, Range(queue)', born)
      BY <2>3, Zenon DEF Order, HeldLead, Leads
    <3>3. QED
      BY <2>3, <3>1, <3>2, Zenon
  <2>5. HeldLead' /\ InOrder(queue, born)'
    BY <1>0, <2>1, <2>2, <2>4, Zenon DEF HeldLead, Leads, InOrder
  <2>6. QED
    BY <1>a, <2>3, <2>5 DEF Order
<1>3. CASE Promote
  <2> DEFINE x == Head(parked)
  <2>1. /\ x \in Transactions /\ x.id \in ParkedIds
        /\ Range(queue)' = Range(queue) \cup {x} /\ ParkedIds' = ParkedIds \ {x.id} /\ Held' = Held
    BY <1>3, PromoteEffect, Zenon
  <2>2. queue' = Append(queue, x)
    BY <1>3, Zenon DEF Promote, push_queue_locked
  <2>3. x.id < born /\ ~(x.id >= born)
    <3>1. x.id < born /\ x.id \in Nat /\ born \in Nat
      BY <1>0, <2>1, Zenon DEF Order, Replayed, Transactions
    <3>2. QED
      BY ONLY <3>1
  <2> HIDE DEF x
  <2>4. InOrder(queue', born')
    BY <1>0, <2>1, <2>2, <2>3, OrderAppend DEF Order
  <2>5. HeldLead'
    <3>1. ASSUME NEW y \in Held, NEW z \in Range(queue)', z.id >= born, y.dst = z.dst PROVE y.id < z.id
      <4>1. CASE z \in Range(queue)
        BY <3>1, <4>1, Zenon DEF Order, HeldLead, Leads
      <4>2. CASE z = x
        BY ONLY <2>3, <3>1, <4>2, Zenon
      <4>3. QED
        BY <2>1, <4>1, <4>2, Zenon
    <3>2. QED
      BY <1>0, <2>1, <3>1, Zenon DEF HeldLead, Leads
  <2>6. ParkedIds' \subseteq ParkedIds
    BY <2>1
  <2>7. QED
    BY <1>a, <2>4, <2>5, <2>6, Zenon DEF Order, InOrder
<1>4. CASE Rotate
  BY <1>4, <1>b, RotateEffect
<1>5. CASE Return(t)
  <2>1. PICK row \in Transactions :
          /\ row.id = job[t].id /\ row.dst = job[t].dst
          /\ Range(queue)' = Range(queue) \cup {row} /\ queue' = <<row>> \o queue
          /\ Held' = Held \ {job[t]} /\ job[t] \in Held
          /\ UNCHANGED ParkedIds
    BY <1>5, ReturnEffect, Zenon
  <2>2. Leads(row, Range(queue), born)
    BY <2>1, Zenon DEF Order, HeldLead, Leads
  <2>3. InOrder(queue', born')
    BY <1>0, <2>1, <2>2, OrderPrepend, Zenon DEF Order
  <2>4. \A y \in Held \ {job[t]} : y.dst # row.dst
    <3>1. pc[t] \in Holding
      BY <1>5, Zenon DEF Return
    <3>2. \A u \in Threads \ {t} : pc[u] \in Holding => job[u].dst # job[t].dst
      BY <3>1, Zenon DEF Attempts, Flying
    <3>3. QED
      BY <2>1, <3>2, Zenon DEF Held
  <2>5. HeldLead'
    <3>1. \A y \in Held' : Leads(y, Range(queue)', born')
      BY <1>0, <2>1, <2>4, Zenon DEF Order, HeldLead, Leads
    <3>2. QED
      BY <3>1 DEF HeldLead, Leads
  <2>6. QED
    BY <1>a, <2>1, <2>3, <2>5, Zenon DEF Order, InOrder
<1>6. CASE LetGo(t)
  BY <1>6, <1>b, LetGoEffect, Zenon
<1>7. QED
  BY <1>1, <1>2, <1>3, <1>4, <1>5, <1>6, Zenon DEF Move

\* The members of a batch are newer than what is queued or attempted, and in
\* order among themselves.
LEMMA CommitKeepsOrder ==
    ASSUME Shapes, Fresh, Order, EnqueueCommit
    PROVE  Order'
<1>1. /\ queue \in Seq(Transactions) /\ taken \in Seq(Transactions)
      /\ UNCHANGED <<pc, job, parked, toReplay, excluded, born>>
  BY Zenon DEF Shapes, EnqueueCommit, threads, control
<1>2. UNCHANGED <<Held, Replayed>>
  BY <1>1, Zenon DEF Held, Replayed, ParkedIds, Waiting
<1>3. CASE queue' = queue
  BY <1>1, <1>2, <1>3 DEF Order, HeldLead, Leads, InOrder
<1>4. CASE queue' = queue \o taken
  <2>1. \A m \in Old, n \in TakenIds : m < n
    BY DEF Fresh
  <2>2. \A m \in Ids(Range(queue)), n \in Ids(Range(taken)) : m < n
    BY <2>1, Zenon DEF Old, QueuedIds, TakenIds
  <2>3. InOrder(queue \o taken, born)
    BY <1>1, <2>2, OrderConcat, Zenon DEF Order, Fresh
  <2>4. Range(queue \o taken) = Range(queue) \cup Range(taken)
    BY <1>1, ConcatFacts
  <2>5. ASSUME NEW x \in Held, NEW y \in Range(taken) PROVE x.id < y.id
    <3>1. x.id \in Old /\ y.id \in TakenIds
      BY <2>5, Zenon DEF Old, HeldIds, TakenIds, Ids
    <3>2. QED
      BY <2>1, <3>1
  <2>6. \A x \in Held : Leads(x, Range(queue \o taken), born)
    BY <2>4, <2>5, Zenon DEF Order, HeldLead, Leads
  <2>7. HeldLead' /\ InOrder(queue, born)'
    BY <1>1, <1>2, <1>4, <2>3, <2>6, Zenon DEF HeldLead, Leads, InOrder
  <2>8. QED
    BY <1>2, <2>7 DEF Order
<1>5. QED
  BY <1>3, <1>4 DEF EnqueueCommit

LEMMA OrderNext == Placed /\ Order /\ [Next]_vars => Order'
<1> SUFFICES ASSUME Placed, Order, [Next]_vars PROVE Order'
  OBVIOUS
<1> USE DEF worker, control, threads, calls, disk, ledger
<1>0. /\ Shapes /\ Attempts /\ Lock /\ Placement /\ Fresh
      /\ queue \in Seq(Transactions) /\ parked \in Seq(Transactions) /\ born \in Nat
  BY Zenon DEF Placed, Shapes
<1>a. ASSUME UNCHANGED <<queue, parked, pc, job, toReplay, excluded, born>> PROVE Order'
  <2>1. UNCHANGED <<Held, ParkedIds, Waiting>>
    BY <1>a, Zenon DEF Held, ParkedIds, Waiting
  <2>2. QED
    BY <1>a, <2>1, Zenon DEF Order, HeldLead, Leads, InOrder, Replayed
<1>1. CASE EnqueueBegin \/ EnqueueConsider
  BY <1>1, <1>a, Zenon DEF EnqueueBegin, EnqueueConsider
<1>2. CASE EnqueueCommit
  BY <1>0, <1>2, CommitKeepsOrder
<1>3. CASE request_shutdown \/ Tick \/ UNCHANGED vars
  BY <1>3, <1>a, Zenon DEF request_shutdown, Tick, vars
<1>4. CASE Boot
  <2>1. /\ life = "down" /\ born' = nextTxn /\ toReplay' = rows
        /\ UNCHANGED <<queue, parked, pc, job, excluded>>
    BY <1>4 DEF Boot
  <2>2. queue' = <<>> /\ parked' = <<>> /\ excluded' = {} /\ Range(queue') = {} /\ Range(parked') = {}
    BY <1>0, <2>1, EmptyFacts DEF Lock
  <2>3. InOrder(queue, born)' /\ HeldLead'
    BY <2>2 DEF InOrder, HeldLead, Leads
  <2>4. ParkedIds' = {} /\ Ids(Waiting)' = RowIds
    BY <2>1, <2>2 DEF ParkedIds, Waiting, RowIds, Ids
  <2>5. \A n \in RowIds : n < nextTxn
    BY <1>0, Zenon DEF Fresh, Old
  <2>6. QED
    BY <2>1, <2>3, <2>4, <2>5, Zenon DEF Order, Replayed
<1>5. CASE ReplayRow
  <2>1. PICK row \in toReplay :
          /\ toReplay' = toReplay \ {row}
          /\ \/ excluded' = excluded \cup {row} /\ UNCHANGED <<queue, parked>>
             \/ parked' = Append(parked, row) /\ UNCHANGED <<queue, excluded>>
             \/ queue' = Append(queue, row) /\ UNCHANGED <<parked, excluded>>
    BY <1>5, Zenon DEF ReplayRow, push_queue_locked
  <2>2. UNCHANGED <<pc, job, born>>
    BY <1>5 DEF ReplayRow
  <2>3. row \in Transactions /\ row \in Waiting
    BY <1>0, <2>1, Zenon DEF Shapes, Waiting
  <2>4. row.id < born /\ row.id \in Nat
    BY <2>3 DEF Order, Replayed, Ids, Transactions
  <2>5. /\ Range(Append(queue, row)) = Range(queue) \cup {row}
        /\ Range(Append(parked, row)) = Range(parked) \cup {row}
    BY <1>0, <2>3, AppendFacts, Zenon
  <2>6. InOrder(queue, born)'
    <3>1. InOrder(Append(queue, row), born)
      BY <1>0, <2>3, <2>4, OrderAppend DEF Order
    <3>2. QED
      BY <2>1, <2>2, <3>1, Zenon DEF Order, InOrder
  <2>7. HeldLead'
    <3>1. Held' = Held
      BY <2>2 DEF Held
    <3>2. Range(queue') \subseteq Range(queue) \cup {row}
      BY <2>1, <2>5, Zenon
    <3>3. ~ (row.id >= born)
      BY <1>0, <2>4
    <3>4. \A x \in Held : Leads(x, Range(queue'), born)
      BY <3>2, <3>3, Zenon DEF Order, HeldLead, Leads
    <3>5. QED
      BY <2>2, <3>1, <3>4, Zenon DEF HeldLead, Leads
  <2>8. Replayed'
    <3>1. Range(parked') \subseteq Range(parked) \cup {row}
      BY <2>1, <2>5, Zenon
    <3>2. Waiting' \subseteq Waiting
      BY <2>1 DEF Waiting
    <3>3. ParkedIds' \cup Ids(Waiting)' \subseteq ParkedIds \cup Ids(Waiting)
      BY <2>3, <3>1, <3>2 DEF ParkedIds, Ids
    <3>4. QED
      BY <2>2, <3>3 DEF Order, Replayed
  <2>9. QED
    BY <2>6, <2>7, <2>8 DEF Order
<1>6. CASE Start
  <2>1. /\ UNCHANGED <<queue, parked, born>> /\ toReplay' = {} /\ excluded' = {}
        /\ \A t \in Threads : pc'[t] \in {"loop", "done"}
    BY <1>6, Zenon DEF Start, DeleteExcluded
  <2>2. Held' = {}
    BY <2>1 DEF Held, Holding
  <2>3. ParkedIds' = ParkedIds /\ Ids(Waiting)' = {}
    BY <2>1, Zenon DEF ParkedIds, Waiting, Ids
  <2>4. QED
    BY <2>1, <2>2, <2>3, Zenon DEF Order, HeldLead, Replayed, InOrder
<1>7. CASE Exit \/ Crash
  <2>1. /\ queue' = <<>> /\ parked' = <<>> /\ toReplay' = {} /\ excluded' = {}
        /\ Range(queue') = {} /\ Range(parked') = {}
    BY <1>7, EmptyFacts, Zenon DEF Exit, Crash, LoseMemory
  <2>2. ParkedIds' = {} /\ Ids(Waiting)' = {}
    BY <2>1 DEF ParkedIds, Waiting, Ids
  <2>3. InOrder(queue, born)'
    <3>1. \A i \in 1..Len(queue') : FALSE
      BY ONLY <2>1
    <3>2. QED
      BY ONLY <3>1, Zenon DEF InOrder
  <2>4. QED
    BY <2>1, <2>2, <2>3, Zenon DEF Order, HeldLead, Leads, Replayed
<1>8. ASSUME NEW t \in Threads, ThreadStep(t) PROVE Order'
  <2>1. life = "running" /\ Move(t) /\ Apart
    BY <1>0, <1>8, ThreadLock, ThreadMoves
  <2>2. Waiting = {}
    BY <1>0, <2>1 DEF Lock, Waiting
  <2>3. QED
    BY <1>0, <2>1, <2>2, MoveKeepsOrder
<1>9. QED
  BY <1>1, <1>2, <1>3, <1>4, <1>5, <1>6, <1>7, <1>8 DEF Next, Enqueue

\* Of the transactions of this life no attempt overtakes an earlier one of its
\* destination, through retries, top-ups and batches, for any number of threads.
THEOREM AttemptsStayInOrder == Spec => []AttemptsKeepOrder
<1>1. Init => Order
  <2> SUFFICES ASSUME Init PROVE Order
    OBVIOUS
  <2>1. queue = <<>> /\ parked = <<>> /\ Waiting = {} /\ Range(queue) = {} /\ Range(parked) = {}
    BY EmptyFacts DEF Init, Waiting
  <2>2. ParkedIds = {} /\ Ids(Waiting) = {}
    BY <2>1 DEF ParkedIds, Ids
  <2>3. InOrder(queue, born)
    <3>1. \A i \in 1..Len(queue) : FALSE
      BY ONLY <2>1
    <3>2. QED
      BY ONLY <3>1, Zenon DEF InOrder
  <2>4. QED
    BY <2>1, <2>2, <2>3, Zenon DEF Order, HeldLead, Leads, Replayed
<1>2. Placed /\ Order => AttemptsKeepOrder
  <2> SUFFICES ASSUME Placed, Order, NEW i \in 1..Len(queue), queue[i].id >= born
               PROVE  /\ \A j \in 1..(i - 1) : queue[j].dst = queue[i].dst => queue[j].id < queue[i].id
                      /\ \A t \in Threads :
                          pc[t] \in Holding /\ job[t].dst = queue[i].dst => job[t].id < queue[i].id
    BY Zenon DEF AttemptsKeepOrder
  <2>1. queue \in Seq(Transactions)
    BY Zenon DEF Placed, Shapes
  <2>2. \A j \in 1..(i - 1) : j \in 1..Len(queue) /\ j < i
    BY ONLY <2>1, i \in 1..Len(queue), SMTT(20)
  <2>3. queue[i] \in Range(queue)
    BY <2>1, SMTT(20) DEF Range
  <2>4. \A t \in Threads : pc[t] \in Holding => job[t] \in Held
    BY Zenon DEF Held
  <2>5. \A j \in 1..(i - 1) : queue[j].dst = queue[i].dst => queue[j].id < queue[i].id
    BY <2>2, Zenon DEF Order, InOrder
  <2>6. \A t \in Threads : pc[t] \in Holding /\ job[t].dst = queue[i].dst => job[t].id < queue[i].id
    BY <2>3, <2>4, Zenon DEF Order, HeldLead, Leads
  <2>7. QED
    BY <2>5, <2>6, Zenon
<1>3. QED
  BY <1>1, <1>2, PlacedAlways, OrderNext, PTL DEF Spec
=============================================================================
