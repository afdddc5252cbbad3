---------------------------- MODULE MapUpdater -----------------------------
(***************************************************************************)
(* The parallel update of maps: MapManager::Update schedules one request   *)
(* for every base map, the threads of DelayExecutor execute them, the      *)
(* update of a base map schedules the requests of its instances from       *)
(* inside a worker, and the world thread waits until pending_requests is   *)
(* zero before it touches the maps again (DelayedUpdate, the sessions).    *)
(*                                                                         *)
(* Everything done under m_mutex is one step; the wait on m_condition is   *)
(* two: the world thread sleeps and is woken by a broadcast, or for no     *)
(* reason.                                                                 *)
(***************************************************************************)
EXTENDS Naturals, Sequences, FiniteSets

CONSTANTS
    BaseMap,        \* the keys of MapManager::i_maps
    Instance,       \* the maps that can be in an m_InstancedMaps
    parent,         \* the MapInstanced an instance belongs to
    Worker,         \* the threads of the DelayExecutor
    QueueBound,     \* requests the activation queue holds (its high water mark)
    NoMap           \* a worker without a request

ASSUME MapAssumption ==
    /\ BaseMap \cap Instance = {}
    /\ NoMap \notin BaseMap \cup Instance
    /\ parent \in [Instance -> BaseMap]

ASSUME WorkerAssumption == IsFiniteSet(Worker) /\ QueueBound \in Nat

VARIABLES
    pending_requests,
    queue,          \* DelayExecutor::queue_
    wpc,            \* what a worker is doing
    wmap,           \* the map of its request
    wleft,          \* instances its MapInstanced::Update has still to visit
    mpc,            \* what the world thread is doing
    mleft,          \* base maps it has still to schedule
    maps,           \* the Map objects that exist
    done,           \* maps updated in this call of MapManager::Update
    skipped,        \* maps left out of it: the queue was full or an unload failed
    activated_      \* DelayExecutor::activated_

workerVars == <<wpc, wmap, wleft>>
mainVars == <<mpc, mleft>>
vars == <<pending_requests, queue, workerVars, mainVars, maps, done, skipped, activated_>>

Map == BaseMap \cup Instance
InstancesOf(m) == {i \in Instance : i \in maps /\ parent[i] = m}

\* The workers that hold a request: they will call update_finished.
Busy == {w \in Worker : wpc[w] \in {"update", "finish"}}

Init ==
    /\ pending_requests = 0
    /\ queue = <<>>
    /\ wpc = [w \in Worker |-> "idle"]
    /\ wmap = [w \in Worker |-> NoMap]
    /\ wleft = [w \in Worker |-> {}]
    /\ mpc = "sessions"
    /\ mleft = {}
    /\ maps = BaseMap
    /\ done = {}
    /\ skipped = {}
    /\ activated_ = TRUE

-----------------------------------------------------------------------------
\* Mutant: a request that could not be queued stays counted.
LeakSchedule(m) ==
    \/ /\ Len(queue) < QueueBound
       /\ pending_requests' = pending_requests + 1
       /\ queue' = Append(queue, m)
       /\ UNCHANGED skipped
    \/ /\ Len(queue) >= QueueBound
       /\ skipped' = skipped \cup {m}
       /\ pending_requests' = pending_requests + 1
       /\ UNCHANGED queue

\* MapUpdater::schedule_update with DelayExecutor::execute: the enqueue does not wait.
schedule_update(m) ==
    \/ /\ Len(queue) < QueueBound
       /\ pending_requests' = pending_requests + 1
       /\ queue' = Append(queue, m)
       /\ UNCHANGED skipped
    \/ /\ Len(queue) >= QueueBound
       /\ skipped' = skipped \cup {m}
       /\ UNCHANGED <<pending_requests, queue>>

-----------------------------------------------------------------------------
(* The threads of DelayExecutor::svc.                                      *)

Dequeue(w) ==
    /\ wpc[w] = "idle"
    /\ activated_
    /\ queue # <<>>
    /\ queue' = Tail(queue)
    /\ wpc' = [wpc EXCEPT ![w] = "update"]
    /\ wmap' = [wmap EXCEPT ![w] = Head(queue)]
    /\ wleft' = [wleft EXCEPT ![w] = InstancesOf(Head(queue))]
    /\ UNCHANGED <<pending_requests, mainVars, maps, done, skipped, activated_>>

\* Mutant: the iterator is not incremented.
SameInstance(w, i) == wleft[w]

\* ++i, or the iterator DestroyInstance has advanced.
AfterVisit(w, i) == wleft[w] \ {i}

\* MapInstanced::Update, for an instance that cannot be unloaded.
ScheduleInstance(w, i) ==
    /\ wpc[w] = "update"
    /\ i \in wleft[w]
    /\ wleft' = [wleft EXCEPT ![w] = AfterVisit(w, i)]
    /\ schedule_update(i)
    /\ UNCHANGED <<wpc, wmap, mainVars, maps, done, activated_>>

\* MapInstanced::Update, for one that can: DestroyInstance deletes the map,
\* or gives up when players are left in it, and the map is not updated.
DestroyInstance(w, i) ==
    /\ wpc[w] = "update"
    /\ i \in wleft[w]
    /\ wleft' = [wleft EXCEPT ![w] = AfterVisit(w, i)]
    /\ \/ /\ maps' = maps \ {i}
          /\ UNCHANGED skipped
       \/ /\ skipped' = skipped \cup {i}
          /\ UNCHANGED maps
    /\ UNCHANGED <<pending_requests, queue, wpc, wmap, mainVars, done, activated_>>

\* The end of Map::Update.
UpdateDone(w) ==
    /\ wpc[w] = "update"
    /\ wleft[w] = {}
    /\ wpc' = [wpc EXCEPT ![w] = "finish"]
    /\ done' = done \cup {wmap[w]}
    /\ UNCHANGED <<pending_requests, queue, wmap, wleft, mainVars, maps, skipped,
                   activated_>>

\* Mutant: update_finished does not wake the world thread.
NoBroadcast == mpc

\* m_condition.broadcast()
Broadcast == IF mpc = "asleep" THEN "wait" ELSE mpc

update_finished(w) ==
    /\ wpc[w] = "finish"
    /\ IF pending_requests = 0
         THEN UNCHANGED <<pending_requests, mpc>>
         ELSE /\ pending_requests' = pending_requests - 1
              /\ mpc' = Broadcast
    /\ wpc' = [wpc EXCEPT ![w] = "idle"]
    /\ wmap' = [wmap EXCEPT ![w] = NoMap]
    /\ UNCHANGED <<queue, wleft, mleft, maps, done, skipped, activated_>>

\* dequeue returns nothing once the queue is deactivated.
Exit(w) ==
    /\ wpc[w] = "idle"
    /\ ~activated_
    /\ wpc' = [wpc EXCEPT ![w] = "exited"]
    /\ UNCHANGED <<pending_requests, queue, wmap, wleft, mainVars, maps, done,
                   skipped, activated_>>

-----------------------------------------------------------------------------
(* The world thread: MapManager::Update and MapManager::UnloadAll.         *)

\* A player enters a new instance while the sessions are updated.
CreateInstance(i) ==
    /\ mpc = "sessions"
    /\ i \notin maps
    /\ maps' = maps \cup {i}
    /\ UNCHANGED <<pending_requests, queue, workerVars, mainVars, done, skipped,
                   activated_>>

StartUpdate ==
    /\ mpc = "sessions"
    /\ mpc' = "schedule"
    /\ mleft' = BaseMap
    /\ done' = {}
    /\ skipped' = {}
    /\ UNCHANGED <<pending_requests, queue, workerVars, maps, activated_>>

ScheduleBase(m) ==
    /\ mpc = "schedule"
    /\ m \in mleft
    /\ mleft' = mleft \ {m}
    /\ schedule_update(m)
    /\ UNCHANGED <<workerVars, mpc, maps, done, activated_>>

AllScheduled ==
    /\ mpc = "schedule"
    /\ mleft = {}
    /\ mpc' = "wait"
    /\ UNCHANGED <<pending_requests, queue, workerVars, mleft, maps, done, skipped,
                   activated_>>

\* Mutant: the world thread waits only until the queue is empty.
WaitForQueue == queue # <<>>

MustWait == pending_requests > 0

\* MapUpdater::wait, once under the mutex.
wait ==
    /\ mpc = "wait"
    /\ mpc' = IF MustWait THEN "asleep" ELSE "delayed"
    /\ UNCHANGED <<pending_requests, queue, workerVars, mleft, maps, done, skipped,
                   activated_>>

SpuriousWakeup ==
    /\ mpc = "asleep"
    /\ mpc' = "wait"
    /\ UNCHANGED <<pending_requests, queue, workerVars, mleft, maps, done, skipped,
                   activated_>>

DelayedUpdate ==
    /\ mpc = "delayed"
    /\ mpc' = "sessions"
    /\ UNCHANGED <<pending_requests, queue, workerVars, mleft, maps, done, skipped,
                   activated_>>

\* MapManager::UnloadAll deletes every map before it deactivates the updater.
UnloadAll ==
    /\ mpc = "sessions"
    /\ maps' = {}
    /\ mpc' = "deactivate"
    /\ UNCHANGED <<pending_requests, queue, workerVars, mleft, done, skipped,
                   activated_>>

\* Mutant: the queue stays active.
DeactivateKeepsQueue ==
    /\ mpc = "deactivate"
    /\ pending_requests = 0
    /\ mpc' = "join"
    /\ UNCHANGED <<pending_requests, queue, workerVars, mleft, maps, done, skipped,
                   activated_>>

\* MapUpdater::deactivate: wait() returns at once, then the queue is deactivated.
deactivate ==
    /\ mpc = "deactivate"
    /\ pending_requests = 0
    /\ activated_' = FALSE
    /\ mpc' = "join"
    /\ UNCHANGED <<pending_requests, queue, workerVars, mleft, maps, done, skipped>>

Join ==
    /\ mpc = "join"
    /\ \A w \in Worker : wpc[w] = "exited"
    /\ mpc' = "stopped"
    /\ UNCHANGED <<pending_requests, queue, workerVars, mleft, maps, done, skipped,
                   activated_>>

-----------------------------------------------------------------------------
WorkerStep(w) ==
    \/ Dequeue(w)
    \/ \E i \in Instance : ScheduleInstance(w, i) \/ DestroyInstance(w, i)
    \/ UpdateDone(w)
    \/ update_finished(w)
    \/ Exit(w)

\* The steps of MapManager::Update and, once started, of UnloadAll.
MainStep ==
    \/ \E m \in BaseMap : ScheduleBase(m)
    \/ AllScheduled
    \/ wait
    \/ DelayedUpdate
    \/ deactivate
    \/ Join

Next ==
    \/ \E w \in Worker : WorkerStep(w)
    \/ MainStep
    \/ \E i \in Instance : CreateInstance(i)
    \/ StartUpdate
    \/ SpuriousWakeup
    \/ UnloadAll

Spec == Init /\ [][Next]_vars

(***************************************************************************)
(* Threads are scheduled fairly by the operating system; nothing forces a  *)
(* spurious wakeup, a new instance or a new tick.                          *)
(***************************************************************************)
FairSpec == Spec /\ WF_vars(MainStep) /\ \A w \in Worker : WF_vars(WorkerStep(w))

-----------------------------------------------------------------------------
SeqRange(q) == {q[i] : i \in DOMAIN q}

\* The type of the state: a worker that is busy has a map, and the request
\* count never falls below zero.
TypeOK ==
    /\ pending_requests \in Nat
    /\ queue \in Seq(Map)
    /\ wpc \in [Worker -> {"idle", "update", "finish", "exited"}]
    /\ wmap \in [Worker -> Map \cup {NoMap}]
    /\ \A w \in Busy : wmap[w] \in Map
    /\ wleft \in [Worker -> SUBSET Instance]
    /\ mpc \in {"sessions", "schedule", "wait", "asleep", "delayed", "deactivate",
                "join", "stopped"}
    /\ mleft \subseteq BaseMap
    /\ maps \subseteq Map
    /\ done \subseteq Map
    /\ skipped \subseteq Map
    /\ activated_ \in BOOLEAN

(***************************************************************************)
(* pending_requests counts the requests in the queue and in the hands of   *)
(* the workers, those scheduled from inside a worker and those that could  *)
(* not be queued included: update_finished never finds it at zero (its     *)
(* "BUG, report to devs" branch) and wait never returns early.             *)
(***************************************************************************)
PendingCount == pending_requests = Len(queue) + Cardinality(Busy)

(***************************************************************************)
(* The barrier: when the world thread goes on after wait, or updates       *)
(* sessions, or unloads, no request is queued and no worker runs one.      *)
(***************************************************************************)
Barrier ==
    mpc \in {"delayed", "sessions", "deactivate", "join", "stopped"} =>
        queue = <<>> /\ Busy = {}

\* The maps with a request, queued or in the hands of a worker.
Requested == SeqRange(queue) \cup {wmap[w] : w \in Busy}

\* What the world thread's place means to the rest of the server.
TickPhase ==
    CASE mpc \in {"schedule", "wait", "asleep"} -> "parallel"
      [] mpc \in {"delayed", "sessions"} -> "serial"
      [] OTHER -> "stopped"

Tick == INSTANCE MapTick WITH
    phase <- TickPhase,
    open <- Requested,
    updated <- done \ Requested

(***************************************************************************)
(* The threads, the queue and pending_requests implement the simple tick   *)
(* of MapTick: a map is requested at most once in a tick, also by the      *)
(* worker of its parent map; no request refers to a map that               *)
(* DestroyInstance or UnloadAll has deleted; the world thread goes on only *)
(* when every request is finished, and always does.                        *)
(***************************************************************************)
ImplementsTick == Tick!TickSpec

(***************************************************************************)
(* Every map that exists when the tick ends was updated in it, or was left *)
(* out because the queue was full or because its unload failed, or is an   *)
(* instance of a base map that was left out.                               *)
(***************************************************************************)
EveryMapUpdated ==
    mpc = "delayed" =>
        \A m \in maps : \/ m \in done \cup skipped
                        \/ m \in Instance /\ parent[m] \in skipped

(***************************************************************************)
(* The world thread always gets out of MapUpdater::wait: no wakeup is lost *)
(* between the check of pending_requests and the sleep.                    *)
(***************************************************************************)
WaitReturns == mpc \in {"wait", "asleep"} ~> mpc = "delayed"

(***************************************************************************)
(* A shutdown ends: all workers leave svc and are joined.                  *)
(***************************************************************************)
UnloadEnds == mpc = "deactivate" ~> mpc = "stopped"
=============================================================================
