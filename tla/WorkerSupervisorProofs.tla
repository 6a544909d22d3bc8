----------------------- MODULE WorkerSupervisorProofs -----------------------
(***************************************************************************)
(* Proofs about WorkerSupervisor, for any number of threads, commits and    *)
(* workers: no worker process is lost track of, and a room main takes for   *)
(* synchronised is current in the worker.                                   *)
(***************************************************************************)
EXTENDS WorkerSupervisor, FiniteSetTheorems, TLAPS

Reloads == [gen : Nat, version : Nat]
Results == [gen : Nat, state : {"ok", "failed"}]

\* What the proofs need of the processes' kinds.
Kinds ==
    /\ pid \in Workers \cup {NoWorker} /\ channel \in Workers \cup {NoWorker}
    /\ proc \in [Workers -> Alive \cup {"unborn", "exited", "reaped"}]

\* worker_pid_ is the only process there is, it is cleared before a spawn and
\* the supervisor is gone before stop() clears it.
Owned ==
    /\ Kinds
    /\ \A w \in Workers : proc[w] \in Alive \cup {"exited"} => pid = w
    /\ supervisor \in {"tearing", "waiting", "spawning"} => pid = NoWorker
    /\ supervisor \in {"reaped", "connecting", "publishing"} => pid # NoWorker
    /\ supervisor = "reaped" => proc[pid] = "reaped"
    /\ stopper = "returned" => supervisor = "done" /\ pid = NoWorker

LEMMA WorkersAreNotNone == \A w \in Workers : w # NoWorker
BY SupervisorAssumption DEF Workers, NoWorker

LEMMA OwnedInit == Init => Owned
BY SupervisorAssumption DEF Init, Owned, Kinds, Workers, NoWorker, Alive

\* A step that spawns nothing, reaps nothing and leaves the threads where they are.
LEMMA OwnedQuiet ==
    ASSUME Owned, UNCHANGED <<channel, pid, proc, supervisor, stopper>>
    PROVE  Owned'
BY DEF Owned, Kinds

LEMMA OwnedWorker ==
    ASSUME Owned, NEW w \in Workers, Worker(w) \/ Channel(w)
    PROVE  Owned'
<1>1. ASSUME Load(w) PROVE Owned'
    BY <1>1 DEF Load, Owned, Kinds, Alive, superVars
<1>2. ASSUME Exit(w) PROVE Owned'
    BY <1>2 DEF Exit, Ends, Owned, Kinds, Alive, superVars
<1>3. ASSUME NEW gen \in frames[w], ReadRoom(w, gen) \/ ReadRoomFails(w, gen) PROVE Owned'
    BY <1>3, OwnedQuiet DEF ReadRoom, ReadRoomFails, superVars
<1>4. ASSUME NEW r \in reloads[w], SwapRoom(w, r) PROVE Owned'
    BY <1>4, OwnedQuiet DEF SwapRoom, superVars
<1>5. ASSUME ChannelFails(w) PROVE Owned'
    BY <1>5, OwnedQuiet DEF ChannelFails, superVars
<1>6. ASSUME NEW r \in results[w], Record(w, r) PROVE Owned'
    BY <1>6, OwnedQuiet DEF Record, superVars
<1> QED
    BY <1>1, <1>2, <1>3, <1>4, <1>5, <1>6 DEF Worker, Channel

LEMMA OwnedNotifier ==
    ASSUME Owned, NEW t \in Threads, Notifier(t)
    PROVE  Owned'
BY OwnedQuiet DEF Notifier, Commit, Look, Number, SendSync, superVars

LEMMA OwnedSupervisor ==
    ASSUME Owned, Supervise \/ Connect \/ ConnectFails
    PROVE  Owned'
<1>1. ASSUME LoopEnds PROVE Owned'
    BY <1>1 DEF LoopEnds, Owned, Kinds
<1>2. ASSUME NothingToWatch PROVE Owned'
    BY <1>2 DEF NothingToWatch, Owned, Kinds
<1>3. ASSUME Reap PROVE Owned'
    BY <1>3 DEF Reap, Ends, Owned, Kinds, Alive
<1>4. ASSUME Kill PROVE Owned'
    BY <1>4 DEF Kill, Ends, Owned, Kinds, Alive
<1>5. ASSUME Forget PROVE Owned'
    BY <1>5, WorkersAreNotNone DEF Forget, Owned, Kinds, Alive
<1>6. ASSUME TearDown PROVE Owned'
    BY <1>6 DEF TearDown, TakeChannel, Owned, Kinds
<1>7. ASSUME BackoffEnds PROVE Owned'
    BY <1>7 DEF BackoffEnds, Owned, Kinds
<1>8. ASSUME NEW w \in Workers, Spawn(w) PROVE Owned'
    BY <1>8, WorkersAreNotNone DEF Spawn, Owned, Kinds, Alive
<1>9. ASSUME SpawnFails PROVE Owned'
    BY <1>9 DEF SpawnFails, Owned, Kinds
<1>10. ASSUME Publish PROVE Owned'
    BY <1>10 DEF Publish, Owned, Kinds
<1>11. ASSUME Restore PROVE Owned'
    BY <1>11 DEF Restore, Owned, Kinds
<1>12. ASSUME Connect PROVE Owned'
    BY <1>12 DEF Connect, Owned, Kinds, Alive
<1>13. ASSUME ConnectFails PROVE Owned'
    BY <1>13 DEF ConnectFails, Owned, Kinds
<1> QED
    BY <1>1, <1>2, <1>3, <1>4, <1>5, <1>6, <1>7, <1>8, <1>9, <1>10, <1>11, <1>12, <1>13 DEF Supervise

LEMMA OwnedStopper ==
    ASSUME Owned, Stopper
    PROVE  Owned'
<1>1. ASSUME StopFlags PROVE Owned'
    BY <1>1 DEF StopFlags, Owned, Kinds
<1>2. ASSUME StopTakes PROVE Owned'
    BY <1>2 DEF StopTakes, TakeChannel, Owned, Kinds
<1>3. ASSUME StopReaps PROVE Owned'
    BY <1>3, WorkersAreNotNone DEF StopReaps, ReapLast, Ends, Owned, Kinds, Alive
<1> QED
    BY <1>1, <1>2, <1>3 DEF Stopper

LEMMA OwnedNext ==
    ASSUME Owned, [Next]_vars
    PROVE  Owned'
<1>1. ASSUME Next PROVE Owned'
    BY <1>1, OwnedNotifier, OwnedWorker, OwnedSupervisor, OwnedStopper DEF Next
<1>2. ASSUME UNCHANGED vars PROVE Owned'
    BY <1>2, OwnedQuiet DEF vars, superVars
<1> QED
    BY <1>1, <1>2

\* A worker that has not been reaped is the one in worker_pid_, and when stop()
\* has returned there is none, whatever restart it raced with
\* (supervisor_loop, spawn_and_connect, stop).
THEOREM KeepsItsWorker == Spec => []OwnsItsWorker
<1>1. Owned => OwnsItsWorker
    BY WorkersAreNotNone DEF Owned, Kinds, OwnsItsWorker
<1> QED
    BY <1>1, OwnedInit, OwnedNext, PTL DEF Spec

-----------------------------------------------------------------------------
(* A room that is marked synchronised is current.                           *)

Notice == [at : {"idle", "committed", "holding", "numbered"}, version : Nat,
           on : Workers \cup {NoWorker}, gen : Nat]

SyncKinds ==
    /\ db \in Nat /\ generation \in Nat /\ announced \in Nat /\ announced <= db
    /\ thread \in [Threads -> Notice]
    /\ \A t \in Threads : thread[t].version <= db /\ thread[t].gen <= generation
    /\ store \in [Workers -> Nat]
    /\ frames \in [Workers -> SUBSET Nat] /\ \A w \in Workers : \A g \in frames[w] : g <= generation
    /\ reloads \in [Workers -> SUBSET Reloads]
    /\ results \in [Workers -> SUBSET Results]

\* A worker reloads one room at a time, from a database no older than its
\* store, and a reload for the latest generation has read all that is announced.
Reloading ==
    \A w \in Workers :
        /\ \A r \in reloads[w] : /\ proc[w] = "serving"
                                 /\ r.gen <= generation
                                 /\ store[w] <= r.version /\ r.version <= db
                                 /\ r.gen = generation => r.version >= announced
        /\ \A r \in reloads[w], q \in reloads[w] : r = q
        /\ store[w] <= db

Current == \A w \in Workers : proc[w] = "serving" => store[w] >= announced

\* What main will read of the latest generation is true already.
Reported ==
    \A w \in Workers : \A r \in results[w] :
        /\ r.gen <= generation
        /\ r.gen = generation /\ r.state = "ok" => Current

Synced == Owned /\ SyncKinds /\ Reloading /\ Reported /\ (status = "ok" => Current)

LEMMA IdleNotice == Idle \in Notice /\ Idle.version = 0 /\ Idle.gen = 0
BY DEF Idle, Notice, NoWorker

LEMMA SyncedInit == Init => Synced
<1> SUFFICES ASSUME Init PROVE Synced
    OBVIOUS
<1>1. SyncKinds
    BY IdleNotice DEF Init, SyncKinds
<1>2. Reloading /\ Reported /\ Current
    BY DEF Init, Reloading, Reported, Current
<1> QED
    BY <1>1, <1>2, OwnedInit DEF Synced

\* Nothing the room depends on is changed.
LEMMA SyncedQuiet ==
    ASSUME Synced, Owned', UNCHANGED <<mainVars, status, workerVars>>,
           \A w \in Workers : proc[w] = "serving" <=> proc'[w] = "serving"
    PROVE  Synced'
<1>1. SyncKinds' /\ Reloading'
    BY DEF Synced, SyncKinds, Reloading, mainVars, workerVars
<1>2. Current' <=> Current
    BY DEF Current, mainVars, workerVars
<1> QED
    BY <1>1, <1>2 DEF Synced, Reported, mainVars, workerVars

\* Results are dropped.
LEMMA SyncedDrop ==
    ASSUME Synced, Owned', UNCHANGED <<mainVars, status, store, frames, reloads, proc>>,
           results' \in [Workers -> SUBSET Results],
           \A w \in Workers : results'[w] \subseteq results[w]
    PROVE  Synced'
<1>1. SyncKinds' /\ Reloading'
    BY DEF Synced, SyncKinds, Reloading, mainVars
<1>2. Current' <=> Current
    BY DEF Current, mainVars
<1> QED
    BY <1>1, <1>2 DEF Synced, Reported, mainVars

\* A process ends.
LEMMA SyncedEnds ==
    ASSUME Synced, Owned', NEW w \in Workers, NEW how \in {"exited", "reaped"}, Ends(w, how),
           UNCHANGED <<mainVars, status, results>>
    PROVE  Synced'
<1>1. SyncKinds'
    BY DEF Synced, SyncKinds, Ends, mainVars
<1>2. Reloading'
    BY DEF Synced, SyncKinds, Reloading, Ends, mainVars, Owned, Kinds
<1>3. Current => Current'
    BY DEF Current, Ends, mainVars, Synced, SyncKinds, Owned, Kinds
<1> QED
    BY <1>1, <1>2, <1>3 DEF Synced, Reported, mainVars

LEMMA SyncedNotifier ==
    ASSUME Synced, NEW t \in Threads, Notifier(t)
    PROVE  Synced'
<1>1. Owned'
    BY OwnedNotifier DEF Synced
<1>2. UNCHANGED <<proc, store, reloads, results>>
    BY DEF Notifier, Commit, Look, Number, SendSync, workerVars
<1>3. ASSUME Commit(t) PROVE Synced'
    <2>1. SyncKinds'
        <3>1. thread' \in [Threads -> Notice]
            <4>1. [at |-> "committed", version |-> db + 1, on |-> NoWorker, gen |-> 0] \in Notice
                BY DEF Synced, SyncKinds, Notice
            <4> QED
                BY <1>3, <4>1 DEF Commit, Synced, SyncKinds
        <3>2. \A u \in Threads : thread'[u].version <= db' /\ thread'[u].gen <= generation
            <4> SUFFICES ASSUME NEW u \in Threads
                         PROVE  thread'[u].version <= db' /\ thread'[u].gen <= generation
                OBVIOUS
            <4>1. thread[u] \in Notice /\ thread[u].version <= db /\ thread[u].gen <= generation
                BY DEF Synced, SyncKinds
            <4>2. thread[u].version \in Nat /\ db \in Nat /\ generation \in Nat /\ db' = db + 1
                BY <1>3, <4>1 DEF Commit, Synced, SyncKinds, Notice
            <4>3. CASE u = t
                <5>1. thread'[u] = [at |-> "committed", version |-> db + 1, on |-> NoWorker, gen |-> 0]
                    BY <1>3, <4>3 DEF Commit, Synced, SyncKinds
                <5>2. thread'[u].version = db + 1 /\ thread'[u].gen = 0
                    BY <5>1, <4>2
                <5> QED
                    BY <5>2, <4>2
            <4>4. CASE u # t
                BY <1>3, <4>1, <4>2, <4>4 DEF Commit, Synced, SyncKinds
            <4> QED
                BY <4>3, <4>4
        <3> QED
            BY <1>3, <3>1, <3>2 DEF Commit, Synced, SyncKinds, workerVars
    <2>2. Current' <=> Current
        BY <1>2, <1>3 DEF Commit, Current
    <2>3. \A w \in Workers : store[w] \in Nat /\ \A r \in reloads[w] : r.version \in Nat
        BY DEF Synced, SyncKinds, Reloads
    <2>4. Reloading'
        BY <1>2, <1>3, <2>3 DEF Commit, Synced, SyncKinds, Reloading
    <2> QED
        BY <1>1, <1>2, <1>3, <2>1, <2>2, <2>4 DEF Commit, Synced, Reported
<1>4. ASSUME Look(t) PROVE Synced'
    <2>1. SyncKinds'
        <3>1. ASSUME NEW u \in Threads
              PROVE  /\ thread'[u] \in Notice
                     /\ thread'[u].version <= db /\ thread'[u].gen <= generation
            <4>1. /\ thread[u] \in Notice /\ thread[u].version <= db /\ thread[u].gen <= generation
                  /\ db \in Nat /\ generation \in Nat
                BY DEF Synced, SyncKinds
            <4>2. \/ thread'[u] = thread[u] \/ thread'[u] = Idle
                  \/ channel \in Workers /\ thread'[u] = [thread[u] EXCEPT !.at = "holding", !.on = channel]
                BY <1>4, Zenon DEF Look, Synced, SyncKinds, Owned, Kinds, NoWorker
            <4>3. CASE thread'[u] = thread[u] \/ thread'[u] = Idle
                BY <4>1, <4>3, IdleNotice
            <4> DEFINE n == thread[u]
                       f == thread'[u]
            <4>4. CASE channel \in Workers /\ f = [n EXCEPT !.at = "holding", !.on = channel]
                <5>1. n \in Notice
                    BY <4>1
                <5> HIDE DEF n, f
                <5>2. f \in Notice /\ f.version = n.version /\ f.gen = n.gen
                    BY <4>4, <5>1, Zenon DEF Notice
                <5> QED
                    BY <4>1, <5>2 DEF n, f
            <4> QED
                BY <4>2, <4>3, <4>4
        <3>2. thread' \in [Threads -> Notice]
            BY <1>4, <3>1 DEF Look, Synced, SyncKinds
        <3> QED
            BY <1>4, <3>1, <3>2 DEF Look, Synced, SyncKinds, workerVars
    <2>2. Reloading' /\ (Current' <=> Current)
        BY <1>2, <1>4 DEF Look, Synced, Reloading, Current
    <2> QED
        BY <1>1, <1>2, <1>4, <2>1, <2>2 DEF Look, Synced, Reported
<1>5. ASSUME Number(t) PROVE Synced'
    <2>1. SyncKinds'
        <3>1. ASSUME NEW u \in Threads
              PROVE  /\ thread'[u] \in Notice
                     /\ thread'[u].version <= db /\ thread'[u].gen <= generation'
            <4>1. /\ thread[u] \in Notice /\ thread[u].version <= db /\ thread[u].gen <= generation
                  /\ db \in Nat /\ generation \in Nat /\ generation' = generation + 1
                BY <1>5 DEF Number, Synced, SyncKinds
            <4>2. \/ thread'[u] = thread[u]
                  \/ thread'[u] = [thread[u] EXCEPT !.at = "numbered", !.gen = generation + 1]
                BY <1>5, Zenon DEF Number, Synced, SyncKinds
            <4> DEFINE n == thread[u]
                       f == thread'[u]
            <4>3. CASE f = [n EXCEPT !.at = "numbered", !.gen = generation + 1]
                <5> DEFINE g == generation + 1
                <5>1. n \in Notice /\ g \in Nat
                    BY <4>1
                <5>2. f = [n EXCEPT !.at = "numbered", !.gen = g]
                    BY <4>3
                <5> HIDE DEF n, f, g
                <5>3. f \in Notice /\ f.version = n.version /\ f.gen = g
                    BY <5>1, <5>2, Zenon DEF Notice
                <5> QED
                    BY <4>1, <5>3 DEF n, f, g
            <4>4. CASE f = n
                BY <4>1, <4>4 DEF Notice
            <4> QED
                BY <4>2, <4>3, <4>4
        <3>2. thread' \in [Threads -> Notice]
            BY <1>5, <3>1 DEF Number, Synced, SyncKinds
        <3>3. announced' \in Nat /\ announced' <= db
            BY <1>5 DEF Number, Synced, SyncKinds, Notice
        <3> QED
            BY <1>5, <3>1, <3>2, <3>3 DEF Number, Synced, SyncKinds, workerVars
    <2>2. \A w \in Workers : \A r \in reloads[w] : r.gen \in Nat /\ r.gen <= generation
        BY DEF Synced, SyncKinds, Reloading, Reloads
    <2>3. Reloading'
        BY <1>2, <1>5, <2>2 DEF Number, Synced, SyncKinds, Reloading
    <2>4. \A w \in Workers : \A r \in results[w] : r.gen \in Nat /\ r.gen <= generation
        BY DEF Synced, SyncKinds, Reported, Results
    <2>5. Reported'
        BY <1>2, <1>5, <2>4 DEF Number, Synced, SyncKinds, Reported
    <2> QED
        BY <1>1, <1>5, <2>1, <2>3, <2>5 DEF Number, Synced
<1>6. ASSUME SendSync(t) PROVE Synced'
    <2>1. thread[t].gen \in Nat /\ thread[t].gen <= generation
        BY DEF Synced, SyncKinds, Notice
    <2>2. /\ frames' \in [Workers -> SUBSET Nat]
          /\ \A w \in Workers : \A g \in frames'[w] : g <= generation
        BY <1>6, <2>1 DEF SendSync, Synced, SyncKinds
    <2>3. SyncKinds'
        BY <1>6, <2>2, IdleNotice DEF SendSync, Synced, SyncKinds
    <2>4. Reloading' /\ (Current' <=> Current)
        BY <1>2, <1>6 DEF SendSync, Synced, Reloading, Current
    <2> QED
        BY <1>1, <1>2, <1>6, <2>3, <2>4 DEF SendSync, Synced, Reported
<1> QED
    BY <1>3, <1>4, <1>5, <1>6 DEF Notifier

LEMMA SyncedWorker ==
    ASSUME Synced, NEW w \in Workers, Worker(w)
    PROVE  Synced'
<1>1. Owned'
    BY OwnedWorker DEF Synced
<1>2. ASSUME Load(w) PROVE Synced'
    <2>1. SyncKinds'
        BY <1>2 DEF Load, Synced, SyncKinds, mainVars
    <2>2. reloads[w] = {}
        BY <1>2 DEF Load, Synced, Reloading
    <2>3. Reloading'
        BY <1>2, <2>2 DEF Load, Synced, SyncKinds, Reloading, mainVars, Owned, Kinds
    <2>4. Current => Current'
        BY <1>2 DEF Load, Current, Synced, SyncKinds, mainVars, Owned, Kinds
    <2> QED
        BY <1>1, <1>2, <2>1, <2>3, <2>4 DEF Load, Synced, Reported, mainVars
<1>3. ASSUME Exit(w) PROVE Synced'
    BY <1>1, <1>3, SyncedEnds DEF Exit
<1>4. ASSUME NEW gen \in frames[w], ReadRoom(w, gen) PROVE Synced'
    <2>1. gen \in Nat /\ gen <= generation /\ db \in Nat /\ announced <= db /\ store[w] <= db
        BY DEF Synced, SyncKinds, Reloading
    <2> DEFINE new == [gen |-> gen, version |-> db]
    <2>2. new \in Reloads /\ new.gen = gen /\ new.version = db
        BY <2>1 DEF Reloads
    <2> HIDE DEF new
    <2>3. /\ reloads[w] = {} /\ proc[w] = "serving"
          /\ reloads' = [reloads EXCEPT ![w] = @ \cup {new}]
          /\ frames' = [frames EXCEPT ![w] = @ \ {gen}]
          /\ UNCHANGED <<db, thread, generation, announced, store, results, proc, status>>
        BY <1>4 DEF ReadRoom, new, mainVars
    <2>4. SyncKinds'
        BY <2>2, <2>3 DEF Synced, SyncKinds
    <2>5. reloads'[w] = {new} /\ \A v \in Workers \ {w} : reloads'[v] = reloads[v]
        BY <2>3 DEF Synced, SyncKinds
    <2>6. Reloading'
        BY <2>1, <2>2, <2>3, <2>5 DEF Synced, Reloading
    <2> QED
        BY <1>1, <2>3, <2>4, <2>6 DEF Synced, Reported, Current
<1>5. ASSUME NEW gen \in frames[w], ReadRoomFails(w, gen) PROVE Synced'
    <2>1. gen \in Nat /\ gen <= generation
        BY DEF Synced, SyncKinds
    <2> DEFINE new == [gen |-> gen, state |-> "failed"]
    <2>2. new \in Results /\ new.gen = gen /\ new.state = "failed"
        BY <2>1 DEF Results
    <2> HIDE DEF new
    <2>3. /\ results' = results \/ results' = [results EXCEPT ![w] = @ \cup {new}]
          /\ frames' = [frames EXCEPT ![w] = @ \ {gen}]
          /\ UNCHANGED <<db, thread, generation, announced, store, reloads, proc, status>>
        BY <1>5 DEF ReadRoomFails, Answered, new, mainVars
    <2>4. SyncKinds'
        BY <2>2, <2>3, Zenon DEF Synced, SyncKinds
    <2>5. Reloading' /\ (Current' <=> Current)
        BY <2>3 DEF Synced, Reloading, Current
    <2>6. \A v \in Workers : \A r \in results'[v] : r \in results[v] \/ r = new
        BY <2>3 DEF Synced, SyncKinds
    <2>7. Reported'
        BY <2>1, <2>2, <2>3, <2>5, <2>6 DEF Synced, Reported
    <2> QED
        BY <1>1, <2>3, <2>4, <2>5, <2>7 DEF Synced
<1>6. ASSUME NEW r \in reloads[w], SwapRoom(w, r) PROVE Synced'
    <2>1. /\ r \in Reloads /\ proc[w] = "serving" /\ r.gen <= generation /\ store[w] <= r.version
          /\ r.gen = generation => r.version >= announced
          /\ reloads[w] = {r}
        BY DEF Synced, SyncKinds, Reloading
    <2> DEFINE new == [gen |-> r.gen, state |-> "ok"]
    <2>2. new \in Results /\ new.gen = r.gen /\ r.version \in Nat /\ r.gen \in Nat
        BY <2>1 DEF Results, Reloads
    <2> HIDE DEF new
    <2>3. /\ results' = results \/ results' = [results EXCEPT ![w] = @ \cup {new}]
          /\ reloads' = [reloads EXCEPT ![w] = @ \ {r}]
          /\ store' = [store EXCEPT ![w] = r.version]
          /\ UNCHANGED <<db, thread, generation, announced, frames, proc, status>>
        BY <1>6 DEF SwapRoom, Answered, new, mainVars
    <2>4. SyncKinds'
        BY <2>2, <2>3 DEF Synced, SyncKinds
    <2>5. /\ store'[w] = r.version /\ reloads'[w] = {}
          /\ \A v \in Workers \ {w} : store'[v] = store[v] /\ reloads'[v] = reloads[v]
        BY <2>1, <2>3, Zenon DEF Synced, SyncKinds
    <2>6. r.version <= db
        BY DEF Synced, Reloading
    <2>7. Reloading'
        BY <2>3, <2>5, <2>6 DEF Synced, Reloading
    <2>8. Current => Current'
        BY <2>1, <2>2, <2>3, <2>5 DEF Current, Synced, SyncKinds
    <2>9. r.gen = generation => Current'
        BY <2>1, <2>3, <2>5 DEF Current, Synced, Owned, Kinds, Alive
    <2>10. \A v \in Workers : \A q \in results'[v] : q \in results[v] \/ q = new
        BY <2>3 DEF Synced, SyncKinds
    <2>11. Reported'
        BY <2>1, <2>2, <2>3, <2>8, <2>9, <2>10 DEF Synced, Reported
    <2> QED
        BY <1>1, <2>3, <2>4, <2>7, <2>8, <2>11 DEF Synced
<1> QED
    BY <1>2, <1>3, <1>4, <1>5, <1>6 DEF Worker

LEMMA SyncedChannel ==
    ASSUME Synced, NEW w \in Workers, Channel(w)
    PROVE  Synced'
<1>1. Owned'
    BY OwnedWorker DEF Synced
<1>2. ASSUME ChannelFails(w) PROVE Synced'
    BY <1>1, <1>2, SyncedQuiet DEF ChannelFails
<1>3. ASSUME NEW r \in results[w], Record(w, r) PROVE Synced'
    <2>1. /\ results' = [results EXCEPT ![w] = @ \ {r}]
          /\ UNCHANGED <<db, thread, generation, announced, store, frames, reloads, proc>>
          /\ status' = status \/ (r.gen = generation /\ status' = r.state)
        BY <1>3 DEF Record, mainVars
    <2>2. SyncKinds'
        BY <2>1 DEF Synced, SyncKinds
    <2>3. Reloading' /\ (Current' <=> Current)
        BY <2>1 DEF Synced, Reloading, Current
    <2>4. \A v \in Workers : results'[v] \subseteq results[v]
        BY <2>1 DEF Synced, SyncKinds
    <2>5. Reported'
        BY <2>1, <2>3, <2>4 DEF Synced, Reported
    <2>6. status' = "ok" => Current'
        BY <2>1, <2>3 DEF Synced, Reported
    <2> QED
        BY <1>1, <2>2, <2>3, <2>5, <2>6 DEF Synced
<1> QED
    BY <1>2, <1>3 DEF Channel

LEMMA SyncedSupervisor ==
    ASSUME Synced, Supervise \/ Connect \/ ConnectFails
    PROVE  Synced'
<1>1. Owned'
    BY OwnedSupervisor DEF Synced
<1>2. ASSUME LoopEnds \/ NothingToWatch \/ Forget \/ BackoffEnds \/ SpawnFails \/ Publish \/ Restore
             \/ ConnectFails
      PROVE  Synced'
    BY <1>1, <1>2, SyncedQuiet DEF LoopEnds, NothingToWatch, Forget, BackoffEnds, SpawnFails, Publish,
       Restore, ConnectFails
<1>3. ASSUME Reap \/ Kill PROVE Synced'
    <2>1. pid \in Workers /\ Ends(pid, "reaped") /\ UNCHANGED <<mainVars, status, results>>
        BY <1>3 DEF Reap, Kill, Synced, Owned, Kinds
    <2> QED
        BY <1>1, <2>1, SyncedEnds
<1>4. ASSUME TearDown PROVE Synced'
    BY <1>1, <1>4, SyncedDrop, Zenon DEF TearDown, TakeChannel, Synced, SyncKinds
<1>5. ASSUME NEW w \in Workers, Spawn(w) PROVE Synced'
    BY <1>1, <1>5, SyncedQuiet, Zenon DEF Spawn, Synced, Owned, Kinds
<1>6. ASSUME Connect PROVE Synced'
    BY <1>1, <1>6, SyncedQuiet DEF Connect, Synced, Owned, Kinds
<1> QED
    BY <1>2, <1>3, <1>4, <1>5, <1>6 DEF Supervise

LEMMA SyncedStopper ==
    ASSUME Synced, Stopper
    PROVE  Synced'
<1>1. Owned'
    BY OwnedStopper DEF Synced
<1>2. ASSUME StopFlags PROVE Synced'
    BY <1>1, <1>2, SyncedQuiet, Zenon DEF StopFlags
<1>3. ASSUME StopTakes PROVE Synced'
    BY <1>1, <1>3, SyncedDrop DEF StopTakes, TakeChannel, Synced, SyncKinds
<1>4. ASSUME StopReaps PROVE Synced'
    <2>1. CASE pid = NoWorker
        BY <1>1, <1>4, <2>1, SyncedQuiet DEF StopReaps, ReapLast, workerVars
    <2>2. CASE pid # NoWorker
        <3>1. pid \in Workers /\ Ends(pid, "reaped") /\ UNCHANGED <<mainVars, status, results>>
            BY <1>4, <2>2 DEF StopReaps, ReapLast, Synced, Owned, Kinds
        <3> QED
            BY <1>1, <3>1, SyncedEnds
    <2> QED
        BY <2>1, <2>2
<1> QED
    BY <1>2, <1>3, <1>4 DEF Stopper

LEMMA SyncedNext ==
    ASSUME Synced, [Next]_vars
    PROVE  Synced'
<1>1. ASSUME Next PROVE Synced'
    BY <1>1, SyncedNotifier, SyncedWorker, SyncedChannel, SyncedSupervisor, SyncedStopper DEF Next
<1>2. ASSUME UNCHANGED vars PROVE Synced'
    <2>1. Owned'
        BY <1>2, OwnedNext DEF Synced
    <2> QED
        BY <1>2, <2>1, SyncedQuiet DEF vars
<1> QED
    BY <1>1, <1>2

\* A room main takes for synchronised is current in the worker it would ask,
\* after any restarts, lost notifications, late results and concurrent reloads
\* (notify_room_changed, record_room_sync_result, StoreReadGuard::reload_room).
THEOREM SyncedIsFresh == Spec => []OkIsFresh
<1>1. Synced => OkIsFresh
    BY DEF Synced, Current, OkIsFresh, Owned, Kinds
<1> QED
    BY <1>1, SyncedInit, SyncedNext, PTL DEF Spec

-----------------------------------------------------------------------------
(* Types.  A generation is given to a commit once, so the generations never *)
(* outnumber the commits.                                                   *)

\* Threads whose commit has no generation yet.
Unnumbered == {t \in Threads : thread[t].at \in {"committed", "holding"}}

Counted ==
    /\ db <= MaxCommits
    /\ IsFiniteSet(Unnumbered) /\ generation + Cardinality(Unnumbered) <= db

\* Every generation in flight is a real one.
Numbered ==
    /\ \A t \in Threads : thread[t].at = "numbered" => thread[t].gen > 0
    /\ \A w \in Workers : /\ \A g \in frames[w] : g > 0
                          /\ \A r \in reloads[w] : r.gen > 0
                          /\ \A r \in results[w] : r.gen > 0

Places ==
    /\ running \in BOOLEAN /\ healthy \in BOOLEAN
    /\ supervisor \in {"watching", "reaped", "tearing", "waiting", "spawning", "connecting",
                       "publishing", "restoring", "done"}
    /\ stopper \in {"no", "flagged", "joining", "returned"}
    /\ status \in {"ok", "pending", "failed"} /\ last_reload \in {"ok", "failed"}
    /\ link \in [Workers -> {"none", "up", "down", "stopped"}]

\* A channel a thread holds was published, and no channel is unpublished.
Published == \A t \in Threads : thread[t].at \in {"holding", "numbered"} =>
                                    thread[t].on \in Workers /\ link[thread[t].on] # "none"

\* What each step does to main's own threads.
LEMMA ThreadSteps ==
    ASSUME Synced, Next
    PROVE  \/ UNCHANGED <<db, generation, thread>>
           \/ \E t \in Threads : Commit(t) \/ Look(t) \/ Number(t) \/ SendSync(t)
<1>1. ASSUME NEW w \in Workers, Worker(w) \/ Channel(w) PROVE UNCHANGED <<db, generation, thread>>
    BY <1>1, Zenon DEF Worker, Channel, Load, Exit, ReadRoom, ReadRoomFails, SwapRoom, ChannelFails, Record,
       mainVars
<1>2. ASSUME Supervise \/ Connect \/ ConnectFails PROVE UNCHANGED <<db, generation, thread>>
    BY <1>2, Zenon DEF Supervise, Connect, ConnectFails, LoopEnds, NothingToWatch, Reap, Kill, Forget,
       TearDown, BackoffEnds, Spawn, SpawnFails, Publish, Restore, mainVars
<1>3. ASSUME Stopper PROVE UNCHANGED <<db, generation, thread>>
    BY <1>3, Zenon DEF Stopper, StopFlags, StopTakes, StopReaps, ReapLast, mainVars
<1> QED
    BY <1>1, <1>2, <1>3, Zenon DEF Next, Notifier

LEMMA CountedNext ==
    ASSUME Synced, Counted, [Next]_vars
    PROVE  Counted'
<1>1. /\ db \in Nat /\ generation \in Nat /\ thread \in [Threads -> Notice]
      /\ Cardinality(Unnumbered) \in Nat /\ MaxCommits \in Nat
    BY FS_CardinalityType, SupervisorAssumption DEF Synced, SyncKinds, Counted
<1>2. CASE UNCHANGED <<db, generation, thread>>
    BY <1>2 DEF Counted, Unnumbered
<1>3. ASSUME NEW t \in Threads, Commit(t) PROVE Counted'
    <2>1. /\ t \notin Unnumbered /\ Unnumbered' = Unnumbered \cup {t}
          /\ db < MaxCommits /\ db' = db + 1 /\ generation' = generation
        BY <1>1, <1>3 DEF Commit, Unnumbered, Notice
    <2>2. IsFiniteSet(Unnumbered') /\ Cardinality(Unnumbered') = Cardinality(Unnumbered) + 1
        BY <2>1, FS_AddElement DEF Counted
    <2> QED
        BY <1>1, <2>1, <2>2 DEF Counted
<1>4. ASSUME NEW t \in Threads, Number(t) PROVE Counted'
    <2>1. /\ t \in Unnumbered /\ Unnumbered' = Unnumbered \ {t}
          /\ db' = db /\ generation' = generation + 1
        BY <1>1, <1>4 DEF Number, Unnumbered, Notice
    <2>2. IsFiniteSet(Unnumbered') /\ Cardinality(Unnumbered') = Cardinality(Unnumbered) - 1
        BY <2>1, FS_RemoveElement DEF Counted
    <2> QED
        BY <1>1, <2>1, <2>2 DEF Counted
<1>5. ASSUME NEW t \in Threads, Look(t) \/ SendSync(t) PROVE Counted'
    <2>1. Unnumbered' \subseteq Unnumbered /\ UNCHANGED <<db, generation>>
        BY <1>1, <1>5 DEF Look, SendSync, Unnumbered, Notice, Idle
    <2>2. /\ IsFiniteSet(Unnumbered') /\ Cardinality(Unnumbered') <= Cardinality(Unnumbered)
          /\ Cardinality(Unnumbered') \in Nat
        BY <2>1, FS_Subset, FS_CardinalityType DEF Counted
    <2> QED
        BY <1>1, <2>1, <2>2 DEF Counted
<1>6. CASE UNCHANGED vars
    BY <1>2, <1>6, Zenon DEF vars, mainVars
<1> QED
    BY <1>2, <1>3, <1>4, <1>5, <1>6, ThreadSteps

LEMMA NumberedNext ==
    ASSUME Synced, Numbered, [Next]_vars
    PROVE  Numbered'
<1>1. /\ generation \in Nat /\ thread \in [Threads -> Notice]
      /\ frames \in [Workers -> SUBSET Nat] /\ reloads \in [Workers -> SUBSET Reloads]
      /\ results \in [Workers -> SUBSET Results]
    BY DEF Synced, SyncKinds
\* Frames, reloads and results that are dropped, or stay.
<1>a. ASSUME UNCHANGED thread,
             \A w \in Workers : /\ frames'[w] \subseteq frames[w] /\ reloads'[w] \subseteq reloads[w]
                                /\ results'[w] \subseteq results[w]
      PROVE  Numbered'
    BY <1>a DEF Numbered
<1>2. ASSUME NEW t \in Threads, Notifier(t) PROVE Numbered'
    <2>1. UNCHANGED <<reloads, results>>
        BY <1>2, Zenon DEF Notifier, Commit, Look, Number, SendSync, workerVars
    <2>2. ASSUME NEW u \in Threads, thread'[u].at = "numbered" PROVE thread'[u].gen > 0
        <3>1. \/ thread'[u] = thread[u]
              \/ thread'[u].at # "numbered"
              \/ thread'[u] = [thread[u] EXCEPT !.at = "numbered", !.gen = generation + 1]
            <4>1. CASE u # t
                BY <1>1, <1>2, <4>1 DEF Notifier, Commit, Look, Number, SendSync
            <4>2. CASE u = t /\ (Commit(t) \/ SendSync(t))
                BY <1>1, <4>2 DEF Commit, SendSync, Idle
            <4>3. CASE u = t /\ Look(t)
                BY <1>1, <4>3 DEF Look, Notice, Idle
            <4>4. CASE u = t /\ Number(t)
                BY <1>1, <4>4 DEF Number, Notice
            <4> QED
                BY <1>2, <4>1, <4>2, <4>3, <4>4 DEF Notifier
        <3>2. thread[u] \in Notice
            BY <1>1
        <3>3. CASE thread'[u] = [thread[u] EXCEPT !.at = "numbered", !.gen = generation + 1]
            BY <1>1, <3>2, <3>3 DEF Notice
        <3> QED
            BY <2>2, <3>1, <3>3 DEF Numbered
    <2>3. ASSUME NEW w \in Workers, NEW g \in frames'[w] PROVE g > 0
        <3>1. g \in frames[w] \/ (thread[t].at = "numbered" /\ g = thread[t].gen)
            BY <1>1, <1>2, <2>3 DEF Notifier, Commit, Look, Number, SendSync, workerVars
        <3> QED
            BY <3>1 DEF Numbered
    <2> QED
        BY <2>1, <2>2, <2>3 DEF Numbered
<1>3. ASSUME NEW w \in Workers, Load(w) \/ Exit(w) \/ ChannelFails(w) PROVE Numbered'
    BY <1>1, <1>3, <1>a DEF Load, Exit, Ends, ChannelFails, workerVars, mainVars
<1>4. ASSUME NEW w \in Workers, NEW gen \in frames[w], ReadRoom(w, gen) PROVE Numbered'
    <2>1. /\ UNCHANGED <<thread, results>> /\ frames' = [frames EXCEPT ![w] = @ \ {gen}]
          /\ reloads' = [reloads EXCEPT ![w] = @ \cup {[gen |-> gen, version |-> db]}]
        BY <1>4, Zenon DEF ReadRoom, mainVars
    <2>2. \A v \in Workers : frames'[v] \subseteq frames[v]
        BY <1>1, <2>1
    <2>3. \A v \in Workers : \A r \in reloads'[v] : r \in reloads[v] \/ r.gen = gen
        BY <1>1, <2>1, SMTT(20)
    <2> QED
        BY <2>1, <2>2, <2>3 DEF Numbered
<1>5. ASSUME NEW w \in Workers, NEW gen, NEW state, Answered(w, gen, state), gen > 0,
             UNCHANGED thread,
             \A v \in Workers : frames'[v] \subseteq frames[v] /\ reloads'[v] \subseteq reloads[v]
      PROVE  Numbered'
    <2>1. \A v \in Workers : \A r \in results'[v] : r \in results[v] \/ r.gen = gen
        BY <1>1, <1>5, SMTT(20) DEF Answered
    <2> QED
        BY <1>5, <2>1 DEF Numbered
<1>6. ASSUME NEW w \in Workers, NEW gen \in frames[w], ReadRoomFails(w, gen) PROVE Numbered'
    <2>1. gen > 0 /\ \A v \in Workers : frames'[v] \subseteq frames[v]
        BY <1>1, <1>6 DEF ReadRoomFails, Numbered
    <2> QED
        BY <1>5, <1>6, <2>1, Zenon DEF ReadRoomFails, mainVars
<1>7. ASSUME NEW w \in Workers, NEW r \in reloads[w], SwapRoom(w, r) PROVE Numbered'
    <2>1. r.gen > 0 /\ \A v \in Workers : reloads'[v] \subseteq reloads[v]
        BY <1>1, <1>7 DEF SwapRoom, Numbered
    <2> QED
        BY <1>5, <1>7, <2>1 DEF SwapRoom, mainVars
<1>8. ASSUME NEW w \in Workers, NEW r \in results[w], Record(w, r) PROVE Numbered'
    BY <1>1, <1>8, <1>a, Zenon DEF Record, mainVars
<1>9. ASSUME Reap \/ Kill \/ TearDown \/ StopTakes \/ StopReaps PROVE Numbered'
    BY <1>1, <1>9, <1>a DEF Reap, Kill, TearDown, StopTakes, TakeChannel, StopReaps, ReapLast, Ends, mainVars
<1>10. ASSUME \/ LoopEnds \/ NothingToWatch \/ Forget \/ BackoffEnds \/ SpawnFails \/ Publish \/ Restore
              \/ Connect \/ ConnectFails \/ StopFlags \/ \E w \in Workers : Spawn(w)
       PROVE  Numbered'
    <2>1. UNCHANGED <<thread, frames, reloads, results>>
        BY <1>10, Zenon DEF LoopEnds, NothingToWatch, Forget, BackoffEnds, SpawnFails, Publish, Restore, Connect,
           ConnectFails, StopFlags, Spawn, mainVars, workerVars
    <2> QED
        BY <1>a, <2>1
<1>11. CASE UNCHANGED vars
    BY <1>a, <1>11, Zenon DEF vars, mainVars, workerVars
<1> QED
    BY <1>2, <1>3, <1>4, <1>6, <1>7, <1>8, <1>9, <1>10, <1>11
       DEF Next, Worker, Channel, Supervise, Stopper

LEMMA PlacesNext ==
    ASSUME Synced, Places, [Next]_vars
    PROVE  Places' /\ \A w \in Workers : link[w] # "none" => link'[w] # "none"
<1> DEFINE Goal == Places' /\ \A w \in Workers : link[w] # "none" => link'[w] # "none"
<1>a. ASSUME UNCHANGED <<link, running, healthy, supervisor, stopper, status, last_reload>> PROVE Goal
    BY <1>a DEF Places
<1>1. ASSUME NEW t \in Threads, Notifier(t) PROVE Goal
    BY <1>1 DEF Notifier, Commit, Look, Number, SendSync, superVars, Places
<1>2. ASSUME NEW w \in Workers, Worker(w) PROVE Goal
    <2>1. /\ UNCHANGED <<link, running, healthy, supervisor, stopper, status>>
          /\ last_reload' = last_reload \/ last_reload' = "ok"
        BY <1>2, Zenon DEF Worker, Load, Exit, ReadRoom, ReadRoomFails, SwapRoom, superVars
    <2> QED
        BY <2>1 DEF Places
<1>3. ASSUME NEW w \in Workers, Channel(w) PROVE Goal
    <2>1. CASE ChannelFails(w)
        BY <2>1 DEF ChannelFails, superVars, Places
    <2>2. ASSUME NEW r \in results[w], Record(w, r) PROVE Goal
        <3>1. r.state \in {"ok", "failed"}
            BY DEF Synced, SyncKinds, Results
        <3> QED
            BY <2>2, <3>1 DEF Record, superVars, Places
    <2> QED
        BY <1>3, <2>1, <2>2 DEF Channel
<1>4. ASSUME \/ LoopEnds \/ NothingToWatch \/ Reap \/ Kill \/ Forget \/ BackoffEnds \/ SpawnFails
             \/ Publish \/ Restore \/ StopFlags \/ StopReaps \/ \E w \in Workers : Spawn(w)
      PROVE  Goal
    <2>1. UNCHANGED <<link, status, last_reload>>
        BY <1>4, Zenon DEF LoopEnds, NothingToWatch, Reap, Kill, Forget, BackoffEnds, SpawnFails, Publish, Restore,
           StopFlags, StopReaps, ReapLast, Spawn
    <2>2. /\ running' \in BOOLEAN /\ healthy' \in BOOLEAN
          /\ stopper' \in {"no", "flagged", "joining", "returned"}
        BY <1>4, Zenon DEF LoopEnds, NothingToWatch, Reap, Kill, Forget, BackoffEnds, SpawnFails, Publish, Restore,
           StopFlags, StopReaps, ReapLast, Spawn, Places
    <2>3. supervisor' \in {"watching", "reaped", "tearing", "waiting", "spawning", "connecting",
                           "publishing", "restoring", "done"}
        BY <1>4 DEF LoopEnds, NothingToWatch, Reap, Kill, Forget, BackoffEnds, SpawnFails, Publish, Restore,
           StopFlags, StopReaps, ReapLast, Spawn, Places
    <2> QED
        BY <2>1, <2>2, <2>3 DEF Places
<1>5. ASSUME TearDown \/ StopTakes PROVE Goal
    BY <1>5, Zenon DEF TearDown, StopTakes, TakeChannel, Places
<1>b. ASSUME Connect \/ ConnectFails PROVE Goal
    BY <1>b DEF Connect, ConnectFails, Places
<1>6. CASE UNCHANGED vars
    BY <1>6, <1>a DEF vars, superVars
<1> QED
    BY <1>1, <1>2, <1>3, <1>4, <1>5, <1>b, <1>6, Zenon DEF Next, Supervise, Stopper

LEMMA PublishedNext ==
    ASSUME Synced, Places, Published, [Next]_vars
    PROVE  Published'
<1>1. thread \in [Threads -> Notice] /\ \A w \in Workers : link[w] # "none" => link'[w] # "none"
    BY PlacesNext DEF Synced, SyncKinds
<1>2. CASE UNCHANGED <<db, generation, thread>>
    BY <1>1, <1>2, Zenon DEF Published
<1>3. ASSUME NEW t \in Threads, Commit(t) \/ Look(t) \/ Number(t) \/ SendSync(t) PROVE Published'
    <2>1. ASSUME NEW u \in Threads, thread'[u].at \in {"holding", "numbered"}
          PROVE  thread'[u].on \in Workers /\ link[thread'[u].on] # "none"
        <3>1. \/ thread[u].at \in {"holding", "numbered"} /\ thread'[u].on = thread[u].on
              \/ channel # NoWorker /\ link[channel] = "up" /\ thread'[u].on = channel
            <4>1. CASE u # t
                BY <1>1, <1>3, <2>1, <4>1, Zenon DEF Commit, Look, Number, SendSync
            <4>2. CASE u = t /\ (Commit(t) \/ SendSync(t))
                BY <1>1, <2>1, <4>2 DEF Commit, SendSync, Idle
            <4>3. CASE u = t /\ Look(t)
                BY <1>1, <2>1, <4>3 DEF Look, Notice, Idle
            <4>4. CASE u = t /\ Number(t)
                BY <1>1, <4>4 DEF Number, Notice
            <4> QED
                BY <1>3, <4>1, <4>2, <4>3, <4>4
        <3> QED
            BY <3>1, Zenon DEF Published, Synced, Owned, Kinds
    <2> QED
        BY <1>1, <2>1 DEF Published
<1>4. CASE UNCHANGED vars
    BY <1>2, <1>4 DEF vars, mainVars
<1> QED
    BY <1>2, <1>3, <1>4, ThreadSteps

\* Type correctness for any number of threads and spawns; in particular a room
\* never has more generations than commits, and a thread of main that holds a
\* channel holds one that was published (notify_room_changed,
\* record_room_sync_result).
THEOREM TypeCorrect == Spec => []TypeOK
<1> DEFINE J == Synced /\ Counted /\ Numbered /\ Places /\ Published
<1>1. Init => J
    <2> SUFFICES ASSUME Init PROVE J
        OBVIOUS
    <2>1. \A t \in Threads : thread[t].at = "idle"
        BY Zenon DEF Init, Idle
    <2>2. Counted
        <3>1. Unnumbered = {}
            BY <2>1 DEF Unnumbered
        <3> QED
            BY <3>1, FS_EmptySet, SupervisorAssumption DEF Counted, Init
    <2>3. Numbered /\ Published
        BY <2>1 DEF Init, Numbered, Published
    <2>4. Places
        BY DEF Init, Places
    <2> QED
        BY <2>2, <2>3, <2>4, SyncedInit
<1>2. J /\ [Next]_vars => J'
    BY SyncedNext, CountedNext, NumberedNext, PlacesNext, PublishedNext, Zenon
<1>3. J => TypeOK
    <2> SUFFICES ASSUME J PROVE TypeOK
        OBVIOUS
    <2>1. /\ db \in Versions /\ generation \in Versions /\ announced \in 0..db
          /\ generation <= db /\ db <= MaxCommits /\ MaxCommits \in Nat /\ db \in Nat /\ generation \in Nat
        BY FS_CardinalityType, SupervisorAssumption DEF Synced, SyncKinds, Counted, Versions
    <2>2. store \in [Workers -> Versions]
        BY <2>1 DEF Synced, SyncKinds, Reloading, Versions
    <2>3. frames \in [Workers -> SUBSET Generations]
        BY <2>1 DEF Synced, SyncKinds, Numbered, Generations
    <2>4. \A w \in Workers : \A r \in reloads[w] : r.gen \in Generations /\ r.version \in Versions
        BY <2>1 DEF Synced, SyncKinds, Reloading, Numbered, Generations, Versions, Reloads
    <2>5. \A w \in Workers : \A r \in results[w] : r.gen \in 1..generation
        BY <2>1 DEF Synced, SyncKinds, Reported, Numbered, Results
    <2> QED
        BY <2>1, <2>2, <2>3, <2>4, <2>5 DEF TypeOK, Synced, Owned, Kinds, Places, Published
<1> QED
    BY <1>1, <1>2, <1>3, PTL DEF Spec
=============================================================================
