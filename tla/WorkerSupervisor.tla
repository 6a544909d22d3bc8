-------------------------- MODULE WorkerSupervisor --------------------------
(***************************************************************************)
(* One shard's worker processes and one room it serves: the supervisor      *)
(* thread that watches, kills and restarts the worker, a thread in stop(),  *)
(* the worker's own snapshot of the database, and the room_sync             *)
(* notifications that keep one room of it current                           *)
(* (homeserver/WorkerSupervisor.cpp, WorkerPool.cpp, FederationProxy.cpp,   *)
(* federation_worker/WorkerEventLoop.cpp, StoreReadGuard.cpp).              *)
(*                                                                          *)
(* Workers are numbered in the order they are spawned, and so are the       *)
(* channels to them.  The room is the number of commits to it.  Taking      *)
(* channel_ and stopping the channel is one step: nobody else can take it   *)
(* in between, and what its threads do meanwhile they could do before.      *)
(***************************************************************************)
EXTENDS Naturals

CONSTANTS
    Threads,               \* threads of main that change the room
    MaxCommits,            \* bound on the changes
    MaxWorkers             \* bound on the spawns that succeed

ASSUME SupervisorAssumption ==
    MaxCommits \in Nat /\ MaxWorkers \in Nat \ {0}

Workers     == 1..MaxWorkers
Versions    == 0..MaxCommits
Generations == 1..MaxCommits
NoWorker    == 0

VARIABLES
    running, healthy,      \* running_ and healthy_
    channel, pid,          \* channel_ and worker_pid_: a worker, or NoWorker
    supervisor, stopper,   \* where supervisor_loop and stop() are
    proc,                  \* the state of each process
    link,                  \* main's end of each channel
    db,                    \* commits to the room
    thread,                \* the notify_room_changed of each thread
    generation, status,    \* room_sync_generations_ and room_sync_status_
    announced,             \* the latest commit that has a generation
    last_reload,           \* the last reload result main took
    store,                 \* the room in each worker's store
    frames,                \* room_sync notifications a worker has not run
    reloads,               \* reloads that have read the database
    results                \* room_sync_result notifications main has not run

superVars  == <<running, healthy, channel, pid, supervisor, stopper>>
mainVars   == <<db, thread, generation, announced>>
workerVars == <<store, frames, reloads, results>>
vars == <<superVars, proc, link, mainVars, status, last_reload, workerVars>>

Idle  == [at |-> "idle", version |-> 0, on |-> NoWorker, gen |-> 0]
Alive == {"starting", "loading", "serving"}

\* start(): the first worker is spawned and connected before the thread runs.
Init ==
    /\ running = TRUE /\ healthy = TRUE
    /\ channel = 1 /\ pid = 1
    /\ supervisor = "watching" /\ stopper = "no"
    /\ proc = [w \in Workers |-> IF w = 1 THEN "loading" ELSE "unborn"]
    /\ link = [w \in Workers |-> IF w = 1 THEN "up" ELSE "none"]
    /\ db = 0 /\ thread = [t \in Threads |-> Idle]
    /\ generation = 0 /\ announced = 0 /\ status = "ok" /\ last_reload = "ok"
    /\ store = [w \in Workers |-> 0]
    /\ frames = [w \in Workers |-> {}]
    /\ reloads = [w \in Workers |-> {}]
    /\ results = [w \in Workers |-> {}]

-----------------------------------------------------------------------------
(* A thread of main commits a change and calls notify_room_changed.         *)

MutantAnnounceFailed(t) ==
    /\ thread[t].at = "idle" /\ db < MaxCommits
    /\ db' \in {db, db + 1}
    /\ thread' = [thread EXCEPT ![t] = 
           [at |-> "committed", version |-> db + 1, on |-> NoWorker, gen |-> 0]]
    /\ UNCHANGED <<superVars, proc, link, generation, announced, status, last_reload, workerVars>>

Commit(t) ==
    /\ thread[t].at = "idle" /\ db < MaxCommits
    /\ db' = db + 1
    /\ thread' = [thread EXCEPT ![t] = 
           [at |-> "committed", version |-> db + 1, on |-> NoWorker, gen |-> 0]]
    /\ UNCHANGED <<superVars, proc, link, generation, announced, status, last_reload, workerVars>>

\* The channel_snapshot: without a healthy channel nothing is announced.
Look(t) ==
    /\ thread[t].at = "committed"
    /\ thread' = [thread EXCEPT ![t] =
           IF channel # NoWorker /\ link[channel] = "up"
           THEN [@ EXCEPT !.at = "holding", !.on = channel] ELSE Idle]
    /\ UNCHANGED <<superVars, proc, link, db, generation, announced, status, last_reload, workerVars>>

Number(t) ==
    /\ thread[t].at = "holding"
    /\ generation' = generation + 1
    /\ status' = "pending"
    /\ announced' = IF thread[t].version > announced THEN thread[t].version ELSE announced
    /\ thread' = [thread EXCEPT ![t].at = "numbered", ![t].gen = generation + 1]
    /\ UNCHANGED <<superVars, proc, link, db, last_reload, workerVars>>

\* The frame reaches a worker that lives, or the write fails.
SendSync(t) ==
    /\ thread[t].at = "numbered"
    /\ LET w == thread[t].on IN
       \/ /\ link[w] # "stopped" /\ proc[w] \in Alive
          /\ frames' = [frames EXCEPT ![w] = @ \cup {thread[t].gen}]
       \/ frames' = frames
    /\ thread' = [thread EXCEPT ![t] = Idle]
    /\ UNCHANGED <<superVars, proc, link, db, generation, announced, status, last_reload, store,
                   reloads, results>>

\* The dispatch thread of the channel runs record_room_sync_result: only the
\* result of the latest generation counts.
Record(w, r) ==
    /\ link[w] \in {"up", "down"}
    /\ results' = [results EXCEPT ![w] = @ \ {r}]
    /\ IF r.gen = generation
       THEN status' = r.state /\ last_reload' = r.state
       ELSE UNCHANGED <<status, last_reload>>
    /\ UNCHANGED <<superVars, proc, link, mainVars, store, frames, reloads>>

-----------------------------------------------------------------------------
(* The worker process.                                                      *)

\* start_runtime, after the handshake: the snapshot is what is committed now.
Load(w) ==
    /\ proc[w] = "loading"
    /\ proc' = [proc EXCEPT ![w] = "serving"]
    /\ store' = [store EXCEPT ![w] = db]
    /\ last_reload' = "ok"
    /\ UNCHANGED <<superVars, link, mainVars, status, frames, reloads, results>>

Answered(w, gen, state) ==
    results' = IF link[w] = "stopped" THEN results
               ELSE [results EXCEPT ![w] = @ \cup {[gen |-> gen, state |-> state]}]

\* reload_mutex_ is held from the read of the database to the swap.
MutantReadUnlocked(w, gen) ==
    /\ proc[w] = "serving"
    /\ frames' = [frames EXCEPT ![w] = @ \ {gen}]
    /\ reloads' = [reloads EXCEPT ![w] = @ \cup {[gen |-> gen, version |-> db]}]
    /\ UNCHANGED <<superVars, proc, link, mainVars, status, last_reload, store, results>>

ReadRoom(w, gen) ==
    /\ proc[w] = "serving" /\ reloads[w] = {}
    /\ frames' = [frames EXCEPT ![w] = @ \ {gen}]
    /\ reloads' = [reloads EXCEPT ![w] = @ \cup {[gen |-> gen, version |-> db]}]
    /\ UNCHANGED <<superVars, proc, link, mainVars, status, last_reload, store, results>>

ReadRoomFails(w, gen) ==
    /\ proc[w] = "serving" /\ reloads[w] = {}
    /\ frames' = [frames EXCEPT ![w] = @ \ {gen}]
    /\ Answered(w, gen, "failed")
    /\ UNCHANGED <<superVars, proc, link, mainVars, status, last_reload, store, reloads>>

SwapRoom(w, r) ==
    /\ reloads' = [reloads EXCEPT ![w] = @ \ {r}]
    /\ store' = [store EXCEPT ![w] = r.version]
    /\ Answered(w, r.gen, "ok")
    /\ UNCHANGED <<superVars, proc, link, mainVars, status, last_reload, frames>>

\* What a process that ends takes with it.
Ends(w, how) ==
    /\ proc' = [proc EXCEPT ![w] = how]
    /\ frames' = [frames EXCEPT ![w] = {}]
    /\ reloads' = [reloads EXCEPT ![w] = {}]
    /\ store' = [store EXCEPT ![w] = 0]

\* It crashes, fails to start, or ends because it was told to or lost main.
Exit(w) ==
    /\ proc[w] \in Alive
    /\ Ends(w, "exited")
    /\ UNCHANGED <<superVars, link, mainVars, status, last_reload, results>>

\* Main's end fails: a read, a flooded dispatch queue, a handler that throws.
ChannelFails(w) ==
    /\ link[w] = "up"
    /\ link' = [link EXCEPT ![w] = "down"]
    /\ UNCHANGED <<superVars, proc, mainVars, status, last_reload, workerVars>>

-----------------------------------------------------------------------------
(* supervisor_loop.                                                         *)

LoopEnds ==
    /\ supervisor = "watching" /\ ~running
    /\ supervisor' = "done"
    /\ UNCHANGED <<running, healthy, channel, pid, stopper, proc, link, mainVars, status, last_reload,
                   workerVars>>

NothingToWatch ==
    /\ supervisor = "watching" /\ running /\ pid = NoWorker
    /\ supervisor' = "tearing"
    /\ UNCHANGED <<running, healthy, channel, pid, stopper, proc, link, mainVars, status, last_reload,
                   workerVars>>

\* waitpid(WNOHANG) returns the worker.
Reap ==
    /\ supervisor = "watching" /\ running
    /\ pid # NoWorker /\ proc[pid] = "exited"
    /\ Ends(pid, "reaped")
    /\ supervisor' = "reaped"
    /\ UNCHANGED <<running, healthy, channel, pid, stopper, link, mainVars, status, last_reload, results>>

\* A worker that lives behind a channel that has failed serves nothing.
MutantNeverKill ==
    /\ FALSE
    /\ UNCHANGED vars

Kill ==
    /\ supervisor = "watching" /\ running
    /\ pid # NoWorker /\ proc[pid] \in Alive
    /\ channel # NoWorker /\ link[channel] # "up"
    /\ Ends(pid, "reaped")
    /\ supervisor' = "reaped"
    /\ UNCHANGED <<running, healthy, channel, pid, stopper, link, mainVars, status, last_reload, results>>

\* A stop that came meanwhile leaves worker_pid_ to stop().
Forget ==
    /\ supervisor = "reaped"
    /\ IF running THEN pid' = NoWorker /\ supervisor' = "tearing"
                  ELSE pid' = pid /\ supervisor' = "done"
    /\ UNCHANGED <<running, healthy, channel, stopper, proc, link, mainVars, status, last_reload,
                   workerVars>>

\* channel_ is taken and stopped, which joins its threads.
TakeChannel ==
    /\ channel' = NoWorker
    /\ link' = [w \in Workers |-> IF w = channel THEN "stopped" ELSE link[w]]
    /\ results' = [w \in Workers |-> IF w = channel THEN {} ELSE results[w]]

TearDown ==
    /\ supervisor = "tearing"
    /\ healthy' = FALSE
    /\ TakeChannel
    /\ supervisor' = "waiting"
    /\ UNCHANGED <<running, pid, stopper, proc, mainVars, status, last_reload, store, frames, reloads>>

BackoffEnds ==
    /\ supervisor = "waiting"
    /\ supervisor' = IF running THEN "spawning" ELSE "done"
    /\ UNCHANGED <<running, healthy, channel, pid, stopper, proc, link, mainVars, status, last_reload,
                   workerVars>>

\* spawn_and_connect: the process first, then the handshake, which waits for
\* it, then channel_; the loop sets healthy_ last.
Spawn(w) ==
    /\ supervisor = "spawning"
    /\ proc[w] = "unborn" /\ \A v \in 1..w - 1 : proc[v] # "unborn"
    /\ proc' = [proc EXCEPT ![w] = "starting"]
    /\ pid' = w
    /\ supervisor' = "connecting"
    /\ UNCHANGED <<running, healthy, channel, stopper, link, mainVars, status, last_reload, workerVars>>

SpawnFails ==
    /\ supervisor = "spawning"
    /\ supervisor' = "watching"
    /\ UNCHANGED <<running, healthy, channel, pid, stopper, proc, link, mainVars, status, last_reload,
                   workerVars>>

Connect ==
    /\ supervisor = "connecting" /\ proc[pid] = "starting"
    /\ proc' = [proc EXCEPT ![pid] = "loading"]
    /\ link' = [link EXCEPT ![pid] = "up"]
    /\ supervisor' = "publishing"
    /\ UNCHANGED <<running, healthy, channel, pid, stopper, mainVars, status, last_reload, workerVars>>

\* The descriptor is closed and the loop goes round with worker_pid_ set.
ConnectFails ==
    /\ supervisor = "connecting"
    /\ link' = [link EXCEPT ![pid] = "stopped"]
    /\ supervisor' = "watching"
    /\ UNCHANGED <<running, healthy, channel, pid, stopper, proc, mainVars, status, last_reload,
                   workerVars>>

Publish ==
    /\ supervisor = "publishing"
    /\ channel' = pid
    /\ supervisor' = "restoring"
    /\ UNCHANGED <<running, healthy, pid, stopper, proc, link, mainVars, status, last_reload, workerVars>>

Restore ==
    /\ supervisor = "restoring"
    /\ healthy' = TRUE
    /\ supervisor' = "watching"
    /\ UNCHANGED <<running, channel, pid, stopper, proc, link, mainVars, status, last_reload, workerVars>>

-----------------------------------------------------------------------------
(* stop().                                                                  *)

StopFlags ==
    /\ stopper = "no"
    /\ running' = FALSE /\ healthy' = FALSE
    /\ stopper' = "flagged"
    /\ UNCHANGED <<channel, pid, supervisor, proc, link, mainVars, status, last_reload, workerVars>>

StopTakes ==
    /\ stopper = "flagged"
    /\ TakeChannel
    /\ stopper' = "joining"
    /\ UNCHANGED <<running, healthy, pid, supervisor, proc, mainVars, status, last_reload, store, frames,
                   reloads>>

\* supervisor_thread_ is joined; then the worker it left has its grace, and
\* SIGTERM and SIGKILL after it.
ReapLast ==
    /\ IF pid = NoWorker THEN UNCHANGED <<proc, frames, reloads, store>> ELSE Ends(pid, "reaped")
    /\ pid' = NoWorker
    /\ stopper' = "returned"
    /\ UNCHANGED <<running, healthy, channel, supervisor, link, mainVars, status, last_reload, results>>

MutantStopUnjoined == stopper = "joining" /\ ReapLast

StopReaps == stopper = "joining" /\ supervisor = "done" /\ ReapLast

-----------------------------------------------------------------------------
Notifier(t) == Commit(t) \/ Look(t) \/ Number(t) \/ SendSync(t)

Worker(w) ==
    \/ Load(w) \/ Exit(w)
    \/ \E gen \in frames[w] : ReadRoom(w, gen) \/ ReadRoomFails(w, gen)
    \/ \E r \in reloads[w] : SwapRoom(w, r)

Channel(w) == ChannelFails(w) \/ \E r \in results[w] : Record(w, r)

\* The steps the supervisor thread takes by itself; Connect is the worker's too.
Supervise ==
    \/ LoopEnds \/ NothingToWatch \/ Reap \/ Kill \/ Forget \/ TearDown \/ BackoffEnds
    \/ \E w \in Workers : Spawn(w)
    \/ SpawnFails \/ Publish \/ Restore

Stopper == StopFlags \/ StopTakes \/ StopReaps

Next ==
    \/ \E t \in Threads : Notifier(t)
    \/ \E w \in Workers : Worker(w) \/ Channel(w)
    \/ Supervise \/ Connect \/ ConnectFails \/ Stopper

Spec == Init /\ [][Next]_vars

\* The supervisor thread runs, and its handshake ends when the worker does.
\* Nothing makes a worker live, start or exit.
FairSpec ==
    /\ Spec
    /\ WF_vars(Supervise)
    /\ WF_vars(pid # NoWorker /\ proc[pid] = "exited" /\ ConnectFails)

-----------------------------------------------------------------------------
\* Every variable holds a value of its kind, the numbers stay in their bounds,
\* and a thread that holds a channel holds one that was published.
TypeOK ==
    /\ running \in BOOLEAN /\ healthy \in BOOLEAN
    /\ channel \in Workers \cup {NoWorker} /\ pid \in Workers \cup {NoWorker}
    /\ supervisor \in {"watching", "reaped", "tearing", "waiting", "spawning", "connecting",
                       "publishing", "restoring", "done"}
    /\ stopper \in {"no", "flagged", "joining", "returned"}
    /\ proc \in [Workers -> Alive \cup {"unborn", "exited", "reaped"}]
    /\ link \in [Workers -> {"none", "up", "down", "stopped"}]
    /\ db \in Versions /\ generation \in Versions /\ announced \in 0..db
    /\ \A t \in Threads : thread[t].at \in {"holding", "numbered"} => link[thread[t].on] # "none"
    /\ status \in {"ok", "pending", "failed"} /\ last_reload \in {"ok", "failed"}
    /\ store \in [Workers -> Versions]
    /\ frames \in [Workers -> SUBSET Generations]
    /\ \A w \in Workers : /\ \A r \in reloads[w] : r.gen \in Generations /\ r.version \in Versions
                          /\ \A r \in results[w] : r.gen \in 1..generation

\* A room main takes for synchronised is: whatever restarts, lost frames, late
\* results and concurrent reloads came before, the worker main would ask holds
\* every change that was given a generation (record_room_sync_result,
\* StoreReadGuard::reload_room, the order of teardown and spawn).
OkIsFresh ==
    status = "ok" /\ channel # NoWorker /\ proc[channel] = "serving" => store[channel] >= announced

\* No worker is lost track of: one that has not been reaped is the one in
\* worker_pid_, so there is never a second, and when stop() has returned there
\* is none, also when it raced with a restart (supervisor_loop, stop).
OwnsItsWorker ==
    /\ \A w \in Workers : proc[w] \in Alive \cup {"exited"} => pid = w
    /\ stopper = "returned" => pid = NoWorker /\ \A w \in Workers : proc[w] \in {"unborn", "reaped"}

\* A worker that has exited, or whose channel has failed while it lives, is
\* reaped and another spawn is tried, unless stop() comes first
\* (supervisor_loop).
WorkerIsReplaced ==
    \A w \in Workers :
        (running /\ pid = w /\ (proc[w] = "exited" \/ (channel = w /\ link[w] = "down")))
            ~> (~running \/ (proc[w] = "reaped" /\ supervisor = "spawning"))

\* FederationProxy sends a room's requests to the worker unless its status is
\* "failed".
ServedByMain == status = "failed"

\* A room whose last room_sync reload failed is served by main until a reload
\* succeeds (docs/architecture.md:498, FederationProxy::handle).
ServedByMainUntilReloaded == last_reload = "failed" => ServedByMain
=============================================================================
