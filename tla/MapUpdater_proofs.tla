------------------------- MODULE MapUpdater_proofs -------------------------
(***************************************************************************)
(* The barrier of MapUpdater, the bookkeeping of one tick and the          *)
(* refinement of MapTick, for any number of maps and threads and any       *)
(* capacity of the queue.                                                  *)
(***************************************************************************)
EXTENDS MapUpdater, FiniteSetTheorems, TLAPS

\* The places of the world thread at which no request may exist.
Quiet == {"delayed", "sessions", "deactivate", "join", "stopped"}

\* Barrier is not inductive: it needs the meaning of pending_requests.
IInv == TypeOK /\ PendingCount /\ (mpc \in Quiet => pending_requests = 0)

(***************************************************************************)
(* A worker that takes or gives up a request changes the number of busy    *)
(* workers by one.                                                         *)
(***************************************************************************)
LEMMA BusyFinite == TypeOK => /\ IsFiniteSet(Busy)
                              /\ Cardinality(Busy) \in Nat
  <1> SUFFICES ASSUME TypeOK PROVE IsFiniteSet(Busy) /\ Cardinality(Busy) \in Nat
    OBVIOUS
  <1>1. Busy \subseteq Worker
    BY DEF Busy
  <1>2. IsFiniteSet(Busy)
    BY <1>1, FS_Subset, WorkerAssumption
  <1> QED
    BY <1>2, FS_CardinalityType

\* A worker that takes a request off the queue is one more at work.
LEMMA BusyAdd ==
  ASSUME TypeOK, NEW w \in Worker, w \notin Busy, Busy' = Busy \cup {w}
  PROVE  Cardinality(Busy)' = Cardinality(Busy) + 1
  BY BusyFinite, FS_AddElement

\* A worker that has called update_finished is one less.
LEMMA BusyRemove ==
  ASSUME TypeOK, NEW w \in Worker, w \in Busy, Busy' = Busy \ {w}
  PROVE  Cardinality(Busy)' = Cardinality(Busy) - 1
  BY BusyFinite, FS_RemoveElement

(***************************************************************************)
(* While no request is pending, none is queued and no worker is busy.      *)
(***************************************************************************)
LEMMA NothingPending ==
  ASSUME TypeOK, PendingCount, pending_requests = 0
  PROVE  queue = <<>> /\ Busy = {}
  <1>1. Len(queue) = 0 /\ Cardinality(Busy) = 0
    BY BusyFinite DEF TypeOK, PendingCount
  <1>2. queue = <<>>
    BY <1>1 DEF TypeOK
  <1>3. Busy = {}
    BY <1>1, BusyFinite, FS_EmptySet
  <1> QED
    BY <1>2, <1>3

-----------------------------------------------------------------------------
(***************************************************************************)
(* What schedule_update leaves well typed, queued or refused.              *)
(***************************************************************************)
LEMMA ScheduleType ==
  ASSUME TypeOK, NEW m \in Map, schedule_update(m)
  PROVE  /\ pending_requests' \in Nat
         /\ queue' \in Seq(Map)
         /\ skipped' \subseteq Map
  <1>1. Append(queue, m) \in Seq(Map)
    BY DEF TypeOK
  <1>2. pending_requests + 1 \in Nat /\ skipped \cup {m} \subseteq Map
    BY DEF TypeOK
  <1>3. pending_requests \in Nat /\ queue \in Seq(Map) /\ skipped \subseteq Map
    BY DEF TypeOK
  <1> QED
    BY <1>1, <1>2, <1>3 DEF schedule_update

(***************************************************************************)
(* Every state of MapUpdater is well typed.                                *)
(***************************************************************************)
LEMMA TypeStep == TypeOK /\ [Next]_vars => TypeOK'
  <1> SUFFICES ASSUME TypeOK, [Next]_vars PROVE TypeOK'
    OBVIOUS
  <1> USE DEF TypeOK, Map, Busy, mainVars, workerVars
  <1>1. ASSUME NEW w \in Worker, Dequeue(w) PROVE TypeOK'
    <2>1. Head(queue) \in Map /\ Tail(queue) \in Seq(Map)
      BY <1>1 DEF Dequeue
    <2>2. InstancesOf(Head(queue)) \in SUBSET Instance
      BY DEF InstancesOf
    <2> QED
      BY <1>1, <2>1, <2>2 DEF Dequeue
  <1>2. ASSUME NEW w \in Worker, NEW i \in Instance, ScheduleInstance(w, i) PROVE TypeOK'
    <2>1. AfterVisit(w, i) \in SUBSET Instance
      BY DEF AfterVisit
    <2>2. /\ pending_requests' \in Nat
          /\ queue' \in Seq(Map)
          /\ skipped' \subseteq Map
      BY <1>2, ScheduleType DEF ScheduleInstance
    <2> QED
      BY <1>2, <2>1, <2>2 DEF ScheduleInstance
  <1>3. ASSUME NEW w \in Worker, NEW i \in Instance, DestroyInstance(w, i) PROVE TypeOK'
    <2>1. AfterVisit(w, i) \in SUBSET Instance
      BY DEF AfterVisit
    <2> QED
      BY <1>3, <2>1 DEF DestroyInstance
  <1>4. ASSUME NEW w \in Worker, UpdateDone(w) PROVE TypeOK'
    BY <1>4 DEF UpdateDone
  <1>5. ASSUME NEW w \in Worker, update_finished(w) PROVE TypeOK'
    BY <1>5 DEF update_finished, Broadcast
  <1>6. ASSUME NEW w \in Worker, Exit(w) PROVE TypeOK'
    BY <1>6 DEF Exit
  <1>7. ASSUME NEW m \in BaseMap, ScheduleBase(m) PROVE TypeOK'
    <2>1. /\ pending_requests' \in Nat
          /\ queue' \in Seq(Map)
          /\ skipped' \subseteq Map
      BY <1>7, ScheduleType DEF ScheduleBase
    <2> QED
      BY <1>7, <2>1 DEF ScheduleBase
  <1>8. CASE AllScheduled
    BY <1>8 DEF AllScheduled
  <1>9. CASE wait
    BY <1>9 DEF wait
  <1>10. CASE DelayedUpdate
    BY <1>10 DEF DelayedUpdate
  <1>11. CASE deactivate
    BY <1>11 DEF deactivate
  <1>12. CASE Join
    BY <1>12 DEF Join
  <1>13. ASSUME NEW i \in Instance, CreateInstance(i) PROVE TypeOK'
    BY <1>13 DEF CreateInstance
  <1>14. CASE StartUpdate
    BY <1>14 DEF StartUpdate
  <1>15. CASE SpuriousWakeup
    BY <1>15 DEF SpuriousWakeup
  <1>16. CASE UnloadAll
    BY <1>16 DEF UnloadAll
  <1>17. CASE UNCHANGED vars
    BY <1>17 DEF vars
  <1> QED
    BY <1>1, <1>2, <1>3, <1>4, <1>5, <1>6, <1>7, <1>8, <1>9, <1>10, <1>11, <1>12,
       <1>13, <1>14, <1>15, <1>16, <1>17 DEF Next, WorkerStep, MainStep

(***************************************************************************)
(* The inductive invariant: a request enters pending_requests together     *)
(* with the queue, and leaves it when its worker stops being busy.         *)
(***************************************************************************)
LEMMA InvStep == IInv /\ [Next]_vars => IInv'
  <1> SUFFICES ASSUME IInv, [Next]_vars PROVE IInv'
    OBVIOUS
  <1>0. TypeOK'
    BY TypeStep DEF IInv
  <1> USE <1>0 DEF IInv
  <1>a. ASSUME UNCHANGED <<pending_requests, queue, wpc>>,
               mpc' \in Quiet => mpc \in Quiet \/ pending_requests = 0
        PROVE  IInv'
    <2>1. Busy' = Busy
      BY <1>a DEF Busy
    <2> QED
      BY <1>a, <2>1 DEF PendingCount
  <1>b. ASSUME NEW m \in Map, schedule_update(m), UNCHANGED wpc, mpc' \notin Quiet
        PROVE  IInv'
    <2>1. Busy' = Busy
      BY <1>b DEF Busy
    <2>2. Cardinality(Busy) \in Nat
      BY BusyFinite
    <2>3. CASE Len(queue) < QueueBound /\ pending_requests' = pending_requests + 1
               /\ queue' = Append(queue, m)
      <3>1. Len(queue)' = Len(queue) + 1
        BY <2>3 DEF TypeOK
      <3> QED
        BY <1>b, <2>1, <2>2, <2>3, <3>1 DEF PendingCount, TypeOK
    <2>4. CASE UNCHANGED <<pending_requests, queue>>
      BY <1>b, <2>1, <2>4 DEF PendingCount
    <2> QED
      BY <1>b, <2>3, <2>4 DEF schedule_update
  <1>1. ASSUME NEW w \in Worker, Dequeue(w) PROVE IInv'
    <2>1. w \notin Busy /\ Busy' = Busy \cup {w}
      BY <1>1 DEF Dequeue, Busy, TypeOK
    <2>2. Cardinality(Busy)' = Cardinality(Busy) + 1
      BY <2>1, BusyAdd
    <2>3. Len(queue)' = Len(queue) - 1 /\ Len(queue) \in Nat /\ queue # <<>>
      BY <1>1 DEF Dequeue, TypeOK
    <2>4. mpc \notin Quiet
      BY <2>3, NothingPending
    <2> QED
      BY <1>1, <2>2, <2>3, <2>4, BusyFinite DEF Dequeue, PendingCount, mainVars
  <1>2. ASSUME NEW w \in Worker, NEW i \in Instance, ScheduleInstance(w, i) PROVE IInv'
    <2>1. w \in Busy
      BY <1>2 DEF ScheduleInstance, Busy
    <2>2. mpc \notin Quiet
      BY <2>1, NothingPending
    <2> QED
      BY <1>2, <1>b, <2>2 DEF ScheduleInstance, mainVars, Map
  <1>3. ASSUME NEW w \in Worker, NEW i \in Instance, DestroyInstance(w, i) PROVE IInv'
    BY <1>3, <1>a DEF DestroyInstance, mainVars
  <1>4. ASSUME NEW w \in Worker, UpdateDone(w) PROVE IInv'
    <2>1. Busy' = Busy
      BY <1>4 DEF UpdateDone, Busy, TypeOK
    <2> QED
      BY <1>4, <2>1 DEF UpdateDone, PendingCount, mainVars
  <1>5. ASSUME NEW w \in Worker, update_finished(w) PROVE IInv'
    <2>1. w \in Busy /\ Busy' = Busy \ {w}
      BY <1>5 DEF update_finished, Busy, TypeOK
    <2>2. Cardinality(Busy)' = Cardinality(Busy) - 1
      BY <2>1, BusyRemove
    <2>3. pending_requests # 0
      BY <2>1, NothingPending
    <2>4. mpc' \notin Quiet
      BY <1>5, <2>3 DEF update_finished, Broadcast, Quiet, TypeOK
    <2>5. pending_requests' = pending_requests - 1 /\ Len(queue)' = Len(queue)
      BY <1>5, <2>3 DEF update_finished
    <2>6. Len(queue) \in Nat /\ Cardinality(Busy) \in Nat
      BY BusyFinite DEF TypeOK
    <2>7. PendingCount'
      BY <2>2, <2>5, <2>6 DEF PendingCount
    <2> QED
      BY <2>4, <2>7
  <1>6. ASSUME NEW w \in Worker, Exit(w) PROVE IInv'
    <2>1. Busy' = Busy
      BY <1>6 DEF Exit, Busy, TypeOK
    <2> QED
      BY <1>6, <2>1 DEF Exit, PendingCount, mainVars
  <1>7. ASSUME NEW m \in BaseMap, ScheduleBase(m) PROVE IInv'
    BY <1>7, <1>b DEF ScheduleBase, workerVars, Map, Quiet
  <1>8. CASE AllScheduled
    BY <1>8, <1>a DEF AllScheduled, Quiet, workerVars
  <1>9. CASE wait
    BY <1>9, <1>a DEF wait, MustWait, Quiet, workerVars, TypeOK
  <1>10. CASE DelayedUpdate
    BY <1>10, <1>a DEF DelayedUpdate, Quiet, workerVars
  <1>11. CASE deactivate
    BY <1>11, <1>a DEF deactivate, Quiet, workerVars
  <1>12. CASE Join
    BY <1>12, <1>a DEF Join, Quiet, workerVars
  <1>13. ASSUME NEW i \in Instance, CreateInstance(i) PROVE IInv'
    BY <1>13, <1>a DEF CreateInstance, workerVars, mainVars
  <1>14. CASE StartUpdate
    BY <1>14, <1>a DEF StartUpdate, Quiet, workerVars
  <1>15. CASE SpuriousWakeup
    BY <1>15, <1>a DEF SpuriousWakeup, Quiet, workerVars
  <1>16. CASE UnloadAll
    BY <1>16, <1>a DEF UnloadAll, Quiet, workerVars
  <1>17. CASE UNCHANGED vars
    BY <1>17, <1>a DEF vars, workerVars, mainVars
  <1> QED
    BY <1>1, <1>2, <1>3, <1>4, <1>5, <1>6, <1>7, <1>8, <1>9, <1>10, <1>11, <1>12,
       <1>13, <1>14, <1>15, <1>16, <1>17 DEF Next, WorkerStep, MainStep

\* Before the first tick nothing is requested and nobody works.
LEMMA InvInit == Init => IInv
  <1> SUFFICES ASSUME Init PROVE IInv
    OBVIOUS
  <1>1. Busy = {}
    BY DEF Init, Busy
  <1>2. Cardinality(Busy) = 0
    BY <1>1, FS_EmptySet
  <1>3. TypeOK
    BY <1>1 DEF Init, TypeOK, Map
  <1> QED
    BY <1>2, <1>3 DEF Init, IInv, PendingCount

\* The invariant holds in every reachable state.
THEOREM Invariance == Spec => []IInv
  BY InvInit, InvStep, PTL DEF Spec

(***************************************************************************)
(* pending_requests is exact in every state: the error branch of           *)
(* update_finished is dead and wait returns only when nothing is left.     *)
(***************************************************************************)
THEOREM PendingCountHolds == Spec => [](TypeOK /\ PendingCount)
  <1>1. IInv => TypeOK /\ PendingCount
    BY DEF IInv
  <1> QED
    BY <1>1, Invariance, PTL

(***************************************************************************)
(* The barrier of MapUpdater::wait: outside of the scheduling and the      *)
(* waiting no request is queued and no worker runs one.                    *)
(***************************************************************************)
THEOREM BarrierHolds == Spec => []Barrier
  <1>1. IInv => Barrier
    <2> SUFFICES ASSUME IInv, mpc \in Quiet PROVE queue = <<>> /\ Busy = {}
      BY DEF Barrier, Quiet
    <2> QED
      BY NothingPending DEF IInv
  <1> QED
    BY <1>1, Invariance, PTL
-----------------------------------------------------------------------------
(* The bookkeeping of one tick: who has which map.                         *)

\* The maps in the queue.
Queued == SeqRange(queue)

\* No map has two requests.
RequestedOnce ==
    /\ \A k, l \in DOMAIN queue : queue[k] = queue[l] => k = l
    /\ \A w \in Busy : wmap[w] \notin Queued
    /\ \A v, w \in Busy : wmap[v] = wmap[w] => v = w

\* A request refers to a map that exists, and base maps are only unloaded at the end.
RequestedExist ==
    /\ Requested \subseteq maps
    /\ mpc \notin {"deactivate", "join", "stopped"} => BaseMap \subseteq maps

\* An instance that a worker has still to visit exists, belongs to the map the
\* worker updates, and was neither requested nor updated in this tick.
LeftToVisit ==
    \A w \in Worker : \A i \in wleft[w] :
        /\ wpc[w] = "update"
        /\ i \in maps
        /\ parent[i] = wmap[w]
        /\ i \notin Requested \cup done

\* A map is updated once: a queued one is not updated yet, one in the hands of
\* a worker exactly when the worker has only update_finished left.
UpdatedOnce ==
    /\ done \cap Queued = {}
    /\ \A w \in Busy : wmap[w] \in done <=> wpc[w] = "finish"

\* What the world thread has still to schedule is untouched.
LeftToSchedule ==
    /\ mpc # "schedule" => mleft = {}
    /\ mleft \cap (Requested \cup done) = {}

\* No instance is touched before a worker has taken the request of its parent.
ParentFirst ==
    \A i \in Instance :
        i \in Requested \cup done => parent[i] \notin mleft \cup Queued

\* Where every existing map is, from the start of the tick to DelayedUpdate.
Accounted(m) ==
    \/ m \in mleft \cup Requested \cup done \cup skipped
    \/ /\ m \in Instance
       /\ \/ parent[m] \in mleft \cup Queued \cup skipped
          \/ \E w \in Worker : m \in wleft[w]

EveryMapAccounted ==
    mpc \in {"schedule", "wait", "asleep", "delayed"} =>
        \A m \in maps : Accounted(m)

\* The inductive invariant of a tick, on top of IInv.
TInv ==
    /\ RequestedOnce
    /\ RequestedExist
    /\ LeftToVisit
    /\ UpdatedOnce
    /\ LeftToSchedule
    /\ ParentFirst
    /\ EveryMapAccounted

(***************************************************************************)
(* What is in the activation queue after an enqueue and after a dequeue.   *)
(***************************************************************************)
LEMMA RangeAppend ==
  ASSUME NEW S, NEW q \in Seq(S), NEW m \in S
  PROVE  /\ SeqRange(Append(q, m)) = SeqRange(q) \cup {m}
         /\ (\A k, l \in DOMAIN q : q[k] = q[l] => k = l) /\ m \notin SeqRange(q) =>
              \A k, l \in DOMAIN Append(q, m) :
                  Append(q, m)[k] = Append(q, m)[l] => k = l
  <1> DEFINE r == Append(q, m)
  <1>1. /\ Len(q) \in Nat
        /\ DOMAIN q = 1..Len(q)
        /\ DOMAIN r = 1..(Len(q) + 1)
        /\ \A k \in DOMAIN q : r[k] = q[k]
        /\ r[Len(q) + 1] = m
    OBVIOUS
  <1> HIDE DEF r
  <1>2. \A k \in DOMAIN r : k \in DOMAIN q \/ k = Len(q) + 1
    BY <1>1
  <1>3. \A k \in DOMAIN q : k \in DOMAIN r
    BY <1>1
  <1>4. Len(q) + 1 \in DOMAIN r
    BY <1>1
  <1>5. SeqRange(r) = SeqRange(q) \cup {m}
    BY <1>1, <1>2, <1>3, <1>4, ZenonT(30) DEF SeqRange
  <1>6. ASSUME \A k, l \in DOMAIN q : q[k] = q[l] => k = l, m \notin SeqRange(q)
        PROVE  \A k, l \in DOMAIN r : r[k] = r[l] => k = l
    <2>1. \A k \in DOMAIN q : q[k] # m
      BY <1>6 DEF SeqRange
    <2> QED
      BY <1>1, <1>2, <1>6, <2>1, ZenonT(30)
  <1> QED
    BY <1>5, <1>6 DEF r

\* DelayExecutor::svc takes the request at the head: the rest stays.
LEMMA RangeTail ==
  ASSUME NEW S, NEW q \in Seq(S), q # <<>>
  PROVE  /\ SeqRange(q) = SeqRange(Tail(q)) \cup {Head(q)}
         /\ (\A k, l \in DOMAIN q : q[k] = q[l] => k = l) =>
              /\ Head(q) \notin SeqRange(Tail(q))
              /\ \A k, l \in DOMAIN Tail(q) : Tail(q)[k] = Tail(q)[l] => k = l
  <1> DEFINE r == Tail(q)
             h == Head(q)
  <1>1. /\ Len(q) \in Nat /\ Len(q) > 0
        /\ DOMAIN q = 1..Len(q)
        /\ DOMAIN r = 1..(Len(q) - 1)
        /\ \A k \in DOMAIN r : r[k] = q[k + 1]
        /\ q[1] = h
    OBVIOUS
  <1> HIDE DEF r, h
  <1>2. \A k \in DOMAIN q : k = 1 \/ (k - 1 \in DOMAIN r /\ r[k - 1] = q[k])
    BY <1>1
  <1>3. \A k \in DOMAIN r : k + 1 \in DOMAIN q /\ k + 1 # 1 /\ r[k] = q[k + 1]
    BY <1>1
  <1>4. 1 \in DOMAIN q
    BY <1>1
  <1>5. SeqRange(q) = SeqRange(r) \cup {h}
    <2>1. ASSUME NEW x \in SeqRange(q) PROVE x \in SeqRange(r) \cup {h}
      BY <1>1, <1>2 DEF SeqRange
    <2>2. ASSUME NEW x \in SeqRange(r) \cup {h} PROVE x \in SeqRange(q)
      BY <1>1, <1>3, <1>4 DEF SeqRange
    <2> QED
      BY <2>1, <2>2
  <1>6. ASSUME \A k, l \in DOMAIN q : q[k] = q[l] => k = l
        PROVE  /\ h \notin SeqRange(r)
               /\ \A k, l \in DOMAIN r : r[k] = r[l] => k = l
    <2>1. h \notin SeqRange(r)
      BY <1>1, <1>3, <1>4, <1>6 DEF SeqRange
    <2>2. ASSUME NEW k \in DOMAIN r, NEW l \in DOMAIN r, r[k] = r[l] PROVE k = l
      <3>1. q[k + 1] = q[l + 1] /\ k + 1 \in DOMAIN q /\ l + 1 \in DOMAIN q
        BY <1>3, <2>2
      <3>2. k + 1 = l + 1
        BY <1>6, <3>1
      <3>3. k \in Int /\ l \in Int
        BY <1>1
      <3> QED
        BY <3>2, <3>3
    <2> QED
      BY <2>1, <2>2
  <1> QED
    BY <1>5, <1>6 DEF r, h

-----------------------------------------------------------------------------
(***************************************************************************)
(* What schedule_update does to the requests: the map has a request more,  *)
(* or the queue was full and it is noted as left out.                      *)
(***************************************************************************)
LEMMA ScheduleEffect ==
  ASSUME TypeOK, RequestedOnce, NEW m \in Map, m \notin Requested,
         schedule_update(m), UNCHANGED <<wpc, wmap>>
  PROVE  /\ RequestedOnce'
         /\ Busy' = Busy
         /\ \/ /\ Queued' = Queued \cup {m}
               /\ Requested' = Requested \cup {m}
               /\ skipped' = skipped
            \/ /\ Queued' = Queued
               /\ Requested' = Requested
               /\ skipped' = skipped \cup {m}
  <1>1. Busy' = Busy
    BY DEF Busy
  <1>2. \A w \in Busy : wmap[w] # m
    BY DEF Requested
  <1>3. m \notin Queued
    BY DEF Requested, Queued
  <1>4. CASE queue' = Append(queue, m) /\ skipped' = skipped
    <2>1. Queued' = Queued \cup {m}
      BY <1>4, RangeAppend DEF Queued, TypeOK
    <2>2. Requested' = Requested \cup {m}
      BY <1>1, <2>1 DEF Requested, Queued
    <2>3. (\A k, l \in DOMAIN queue : queue[k] = queue[l] => k = l)'
      <3>1. queue \in Seq(Map)
        BY DEF TypeOK
      <3>2. \A k, l \in DOMAIN queue : queue[k] = queue[l] => k = l
        BY DEF RequestedOnce
      <3>3. m \notin SeqRange(queue)
        BY <1>3 DEF Queued
      <3>4. \A k, l \in DOMAIN Append(queue, m) :
                Append(queue, m)[k] = Append(queue, m)[l] => k = l
        BY <3>1, <3>2, <3>3, RangeAppend
      <3> QED
        BY <1>4, <3>4
    <2>4. RequestedOnce'
      BY <1>1, <1>2, <2>1, <2>3 DEF RequestedOnce
    <2> QED
      BY <1>1, <1>4, <2>1, <2>2, <2>4
  <1>5. CASE queue' = queue /\ skipped' = skipped \cup {m}
    <2>1. Queued' = Queued /\ Requested' = Requested
      BY <1>1, <1>5 DEF Queued, Requested
    <2>2. RequestedOnce'
      BY <1>1, <1>5, <2>1 DEF RequestedOnce
    <2> QED
      BY <1>1, <1>5, <2>1, <2>2
  <1> QED
    BY <1>4, <1>5 DEF schedule_update

(***************************************************************************)
(* A step that leaves the queue and the workers' requests alone keeps the  *)
(* set of requests.                                                        *)
(***************************************************************************)
LEMMA RequestsKept ==
  ASSUME UNCHANGED <<queue, wmap>>, Busy' = Busy
  PROVE  /\ Queued' = Queued
         /\ Requested' = Requested
         /\ RequestedOnce => RequestedOnce'
  <1>1. Queued' = Queued /\ Requested' = Requested
    BY DEF Queued, Requested
  <1> QED
    BY <1>1 DEF RequestedOnce

(***************************************************************************)
(* While a request exists the world thread schedules or waits.             *)
(***************************************************************************)
LEMMA RequestsOnlyInTick ==
  ASSUME IInv, Requested # {}
  PROVE  mpc \in {"schedule", "wait", "asleep"}
  <1>1. pending_requests # 0
    <2> SUFFICES ASSUME pending_requests = 0 PROVE FALSE
      OBVIOUS
    <2>1. queue = <<>> /\ Busy = {}
      BY NothingPending DEF IInv
    <2> QED
      BY <2>1 DEF Requested, SeqRange
  <1> QED
    BY <1>1 DEF IInv, Quiet, TypeOK

-----------------------------------------------------------------------------
(***************************************************************************)
(* A dequeue passes a request from the queue to the worker, with the       *)
(* instances that the update of a base map has to visit.                   *)
(***************************************************************************)
LEMMA DequeueEffect ==
  ASSUME TypeOK, RequestedOnce, NEW w \in Worker, Dequeue(w)
  PROVE  /\ Head(queue) \in Map
         /\ w \notin Busy
         /\ Busy' = Busy \cup {w}
         /\ Head(queue) \in Queued
         /\ Head(queue) \notin Queued'
         /\ Queued = Queued' \cup {Head(queue)}
         /\ Requested' = Requested
         /\ wmap'[w] = Head(queue)
         /\ \A v \in Worker \ {w} : wmap'[v] = wmap[v]
         /\ RequestedOnce'
  <1> DEFINE h == Head(queue)
  <1>1. /\ h \in Map
        /\ SeqRange(queue) = SeqRange(Tail(queue)) \cup {h}
        /\ h \notin SeqRange(Tail(queue))
        /\ \A k, l \in DOMAIN Tail(queue) : Tail(queue)[k] = Tail(queue)[l] => k = l
    <2>1. queue \in Seq(Map) /\ queue # <<>>
      BY DEF TypeOK, Dequeue
    <2>2. h \in Map
      BY <2>1
    <2>3. \A k, l \in DOMAIN queue : queue[k] = queue[l] => k = l
      BY DEF RequestedOnce
    <2> QED
      BY <2>1, <2>2, <2>3, RangeTail
  <1>2. queue' = Tail(queue)
    BY DEF Dequeue
  <1>3. w \notin Busy /\ Busy' = Busy \cup {w}
    BY DEF Dequeue, Busy, TypeOK
  <1>4. wmap'[w] = h /\ \A v \in Worker \ {w} : wmap'[v] = wmap[v]
    BY DEF Dequeue, TypeOK
  <1> HIDE DEF h
  <1>5. Queued = Queued' \cup {h} /\ h \notin Queued'
    BY <1>1, <1>2 DEF Queued
  <1>6. Busy \subseteq Worker
    BY DEF Busy
  <1>7. Requested' = Requested
    <2>1. ASSUME NEW x \in Requested PROVE x \in Requested'
      <3>1. CASE x \in Queued
        BY <1>3, <1>4, <1>5, <3>1 DEF Requested, Queued
      <3>2. CASE \E v \in Busy : x = wmap[v]
        BY <1>3, <1>4, <1>6, <3>2 DEF Requested
      <3> QED
        BY <3>1, <3>2 DEF Requested, Queued
    <2>2. ASSUME NEW x \in Requested' PROVE x \in Requested
      <3>1. CASE x \in Queued'
        BY <1>5, <3>1 DEF Requested, Queued
      <3>2. CASE \E v \in Busy' : x = wmap'[v]
        BY <1>3, <1>4, <1>5, <1>6, <3>2 DEF Requested, Queued
      <3> QED
        BY <3>1, <3>2 DEF Requested, Queued
    <2> QED
      BY <2>1, <2>2
  <1>8. (\A k, l \in DOMAIN queue : queue[k] = queue[l] => k = l)'
    BY <1>1, <1>2
  <1>9. (\A v \in Busy : wmap[v] \notin Queued)'
    BY <1>3, <1>4, <1>5, <1>6 DEF RequestedOnce
  <1>10. (\A u, v \in Busy : wmap[u] = wmap[v] => u = v)'
    BY <1>3, <1>4, <1>5, <1>6 DEF RequestedOnce
  <1>11. RequestedOnce'
    BY <1>8, <1>9, <1>10 DEF RequestedOnce
  <1> QED
    BY <1>1, <1>3, <1>4, <1>5, <1>7, <1>11 DEF h

(***************************************************************************)
(* After the dequeue the instances of the map are left to visit, and none  *)
(* of them has a request or an update yet: only the worker of the parent   *)
(* schedules them.                                                         *)
(***************************************************************************)
LEMMA DequeueKeeps ==
  ASSUME IInv, TInv, NEW w \in Worker, Dequeue(w)
  PROVE  TInv'
  <1> DEFINE h == Head(queue)
  <1>1. TypeOK /\ RequestedOnce
    BY DEF IInv, TInv
  <1>2. /\ h \in Map
        /\ w \notin Busy
        /\ Busy' = Busy \cup {w}
        /\ h \in Queued
        /\ h \notin Queued'
        /\ Queued = Queued' \cup {h}
        /\ Requested' = Requested
        /\ wmap'[w] = h
        /\ \A v \in Worker \ {w} : wmap'[v] = wmap[v]
        /\ RequestedOnce'
    BY <1>1, DequeueEffect
  <1>3. /\ wpc[w] = "idle" /\ wpc'[w] = "update"
        /\ \A v \in Worker \ {w} : wpc'[v] = wpc[v]
        /\ wleft'[w] = InstancesOf(h)
        /\ \A v \in Worker \ {w} : wleft'[v] = wleft[v]
        /\ UNCHANGED <<mpc, mleft, maps, done, skipped>>
    BY <1>1 DEF Dequeue, TypeOK, mainVars
  <1> HIDE DEF h
  <1>4. wleft[w] = {}
    BY <1>1, <1>3 DEF TInv, LeftToVisit, TypeOK
  <1>5. RequestedExist'
    BY <1>2, <1>3 DEF RequestedExist, TInv
  <1>6. LeftToVisit'
    <2> SUFFICES ASSUME NEW v \in Worker, NEW i \in wleft'[v]
                 PROVE  /\ wpc'[v] = "update"
                        /\ i \in maps
                        /\ parent[i] = wmap'[v]
                        /\ i \notin Requested \cup done
      BY <1>2, <1>3 DEF LeftToVisit
    <2>1. CASE v = w
      <3>1. i \in Instance /\ i \in maps /\ parent[i] = h
        BY <1>3, <2>1 DEF InstancesOf
      <3>2. i \notin Requested \cup done
        BY <1>2, <3>1 DEF TInv, ParentFirst
      <3> QED
        BY <1>2, <1>3, <2>1, <3>1, <3>2
    <2>2. CASE v # w
      BY <1>2, <1>3, <2>2 DEF TInv, LeftToVisit
    <2> QED
      BY <2>1, <2>2
  <1>7. UpdatedOnce'
    <2>1. h \notin done
      BY <1>2 DEF TInv, UpdatedOnce
    <2>2. (done \cap Queued = {})'
      BY <1>2, <1>3 DEF TInv, UpdatedOnce
    <2>3. (\A v \in Busy : wmap[v] \in done <=> wpc[v] = "finish")'
      BY <1>2, <1>3, <2>1 DEF TInv, UpdatedOnce, Busy
    <2> QED
      BY <2>2, <2>3 DEF UpdatedOnce
  <1>8. LeftToSchedule'
    BY <1>2, <1>3 DEF TInv, LeftToSchedule
  <1>9. ParentFirst'
    BY <1>2, <1>3 DEF TInv, ParentFirst
  <1>10. EveryMapAccounted'
    <2> SUFFICES ASSUME mpc \in {"schedule", "wait", "asleep", "delayed"}, NEW m \in maps
                 PROVE  Accounted(m)'
      BY <1>3 DEF EveryMapAccounted
    <2>1. Accounted(m)
      BY DEF TInv, EveryMapAccounted
    <2>2. CASE m \in Instance /\ parent[m] = h
      <3>1. m \in wleft'[w]
        BY <1>3, <2>2 DEF InstancesOf
      <3> QED
        BY <2>2, <3>1 DEF Accounted
    <2>3. CASE m \in mleft \cup Requested \cup done \cup skipped
      BY <1>2, <1>3, <2>3 DEF Accounted
    <2>4. CASE m \in Instance /\ parent[m] # h
               /\ parent[m] \in mleft \cup Queued \cup skipped
      BY <1>2, <1>3, <2>4 DEF Accounted
    <2>5. CASE m \in Instance /\ \E v \in Worker : m \in wleft[v]
      BY <1>3, <1>4, <2>5 DEF Accounted
    <2> QED
      BY <2>1, <2>2, <2>3, <2>4, <2>5 DEF Accounted
  <1> QED
    BY <1>2, <1>5, <1>6, <1>7, <1>8, <1>9, <1>10 DEF TInv

(***************************************************************************)
(* MapInstanced::Update schedules an instance: it had no request, was not  *)
(* updated, and its parent is in the hands of the worker.                  *)
(***************************************************************************)
LEMMA ScheduleInstanceKeeps ==
  ASSUME IInv, TInv, NEW w \in Worker, NEW i \in Instance, ScheduleInstance(w, i)
  PROVE  TInv' /\ i \in maps /\ i \notin Requested \cup done
  <1>1. TypeOK /\ RequestedOnce
    BY DEF IInv, TInv
  <1>2. /\ wpc[w] = "update" /\ i \in wleft[w]
        /\ wleft'[w] = wleft[w] \ {i}
        /\ \A v \in Worker \ {w} : wleft'[v] = wleft[v]
        /\ UNCHANGED <<wpc, wmap, mpc, mleft, maps, done>>
        /\ schedule_update(i)
    BY <1>1 DEF ScheduleInstance, AfterVisit, TypeOK, mainVars
  <1>3. i \in maps /\ parent[i] = wmap[w] /\ i \notin Requested \cup done
    BY <1>2 DEF TInv, LeftToVisit
  <1>4. w \in Busy /\ Busy \subseteq Worker
    BY <1>2 DEF Busy
  <1>5. i \in Map /\ i \notin BaseMap
    BY MapAssumption DEF Map
  <1>6. /\ RequestedOnce'
        /\ Busy' = Busy
        /\ \/ /\ Queued' = Queued \cup {i}
              /\ Requested' = Requested \cup {i}
              /\ skipped' = skipped
           \/ /\ Queued' = Queued
              /\ Requested' = Requested
              /\ skipped' = skipped \cup {i}
    BY <1>1, <1>2, <1>3, <1>5, ScheduleEffect
  <1>7. Queued \subseteq Requested /\ Requested \subseteq Requested'
        /\ Requested' \subseteq Requested \cup {i} /\ Queued \subseteq Queued'
        /\ Queued' \subseteq Queued \cup {i}
        /\ skipped \subseteq skipped' /\ i \in Requested' \cup skipped'
    BY <1>6 DEF Requested, Queued
  <1>8. wmap[w] \in Requested
    BY <1>4 DEF Requested
  <1>9. RequestedExist'
    BY <1>2, <1>3, <1>7 DEF TInv, RequestedExist
  <1>10. LeftToVisit'
    <2> SUFFICES ASSUME NEW v \in Worker, NEW k \in wleft'[v]
                 PROVE  /\ wpc[v] = "update"
                        /\ k \in maps
                        /\ parent[k] = wmap[v]
                        /\ k \notin Requested' \cup done
      BY <1>2 DEF LeftToVisit
    <2>1. k \in wleft[v]
      BY <1>2
    <2>2. /\ wpc[v] = "update" /\ k \in maps /\ parent[k] = wmap[v]
          /\ k \notin Requested \cup done
      BY <2>1 DEF TInv, LeftToVisit
    <2>3. k # i
      <3> SUFFICES ASSUME k = i PROVE FALSE
        OBVIOUS
      <3>1. wmap[v] = wmap[w] /\ v \in Busy
        BY <1>3, <2>2 DEF Busy
      <3>2. v = w
        BY <1>1, <1>4, <3>1 DEF RequestedOnce
      <3> QED
        BY <1>2, <3>2
    <2> QED
      BY <1>7, <2>2, <2>3
  <1>11. UpdatedOnce'
    BY <1>2, <1>3, <1>6 DEF TInv, UpdatedOnce
  <1>12. mleft \subseteq BaseMap
    BY <1>1 DEF TypeOK
  <1>13. LeftToSchedule'
    BY <1>2, <1>5, <1>7, <1>12 DEF TInv, LeftToSchedule
  <1>14. ParentFirst'
    <2> SUFFICES ASSUME NEW k \in Instance, k \in Requested' \cup done
                 PROVE  parent[k] \notin mleft \cup Queued'
      BY <1>2 DEF ParentFirst
    <2>1. parent[k] \in BaseMap
      BY MapAssumption
    <2>2. parent[k] # i
      BY <1>5, <2>1
    <2>3. CASE k = i
      <3>1. parent[i] \notin Queued
        BY <1>1, <1>3, <1>4 DEF RequestedOnce
      <3>2. parent[i] \notin mleft
        BY <1>3, <1>8 DEF TInv, LeftToSchedule
      <3> QED
        BY <1>7, <2>2, <2>3, <3>1, <3>2
    <2>4. CASE k # i
      BY <1>7, <2>2, <2>4 DEF TInv, ParentFirst
    <2> QED
      BY <2>3, <2>4
  <1>15. EveryMapAccounted'
    <2> SUFFICES ASSUME mpc \in {"schedule", "wait", "asleep", "delayed"}, NEW m \in maps
                 PROVE  Accounted(m)'
      BY <1>2 DEF EveryMapAccounted
    <2>1. Accounted(m)
      BY DEF TInv, EveryMapAccounted
    <2>2. CASE m = i
      BY <1>7, <2>2 DEF Accounted
    <2>3. CASE m # i
      <3>1. \A v \in Worker : m \in wleft[v] => m \in wleft'[v]
        BY <1>2, <2>3
      <3> QED
        BY <1>2, <1>7, <2>1, <3>1 DEF Accounted
    <2> QED
      BY <2>2, <2>3
  <1> QED
    BY <1>3, <1>6, <1>9, <1>10, <1>11, <1>13, <1>14, <1>15 DEF TInv

(***************************************************************************)
(* MapInstanced::Update finds an instance that can be unloaded: no request *)
(* refers to it, so that the delete leaves none behind; if it stays it is  *)
(* left out of this tick.                                                  *)
(***************************************************************************)
LEMMA DestroyInstanceKeeps ==
  ASSUME IInv, TInv, NEW w \in Worker, NEW i \in Instance, DestroyInstance(w, i)
  PROVE  TInv' /\ i \in maps /\ i \notin Requested
  <1>1. TypeOK /\ RequestedOnce
    BY DEF IInv, TInv
  <1>2. /\ wpc[w] = "update" /\ i \in wleft[w]
        /\ wleft'[w] = wleft[w] \ {i}
        /\ \A v \in Worker \ {w} : wleft'[v] = wleft[v]
        /\ UNCHANGED <<queue, wpc, wmap, mpc, mleft, done>>
        /\ \/ maps' = maps \ {i} /\ skipped' = skipped
           \/ maps' = maps /\ skipped' = skipped \cup {i}
    BY <1>1 DEF DestroyInstance, AfterVisit, TypeOK, mainVars
  <1>3. i \in maps /\ parent[i] = wmap[w] /\ i \notin Requested \cup done
    BY <1>2 DEF TInv, LeftToVisit
  <1>4. w \in Busy /\ Busy' = Busy
    BY <1>2 DEF Busy
  <1>5. Queued' = Queued /\ Requested' = Requested /\ RequestedOnce'
    BY <1>1, <1>2, <1>4, RequestsKept
  <1>6. i \notin BaseMap
    BY MapAssumption
  <1>7. RequestedExist'
    BY <1>2, <1>3, <1>5, <1>6 DEF TInv, RequestedExist
  <1>8. LeftToVisit'
    <2> SUFFICES ASSUME NEW v \in Worker, NEW k \in wleft'[v]
                 PROVE  /\ wpc[v] = "update"
                        /\ k \in maps'
                        /\ parent[k] = wmap[v]
                        /\ k \notin Requested \cup done
      BY <1>2, <1>5 DEF LeftToVisit
    <2>1. /\ wpc[v] = "update" /\ k \in maps /\ parent[k] = wmap[v]
          /\ k \notin Requested \cup done
      BY <1>2 DEF TInv, LeftToVisit
    <2>2. k # i
      <3> SUFFICES ASSUME k = i PROVE FALSE
        OBVIOUS
      <3>1. wmap[v] = wmap[w] /\ v \in Busy
        BY <1>3, <2>1 DEF Busy
      <3>2. v = w
        BY <1>1, <1>4, <3>1 DEF RequestedOnce
      <3> QED
        BY <1>2, <3>2
    <2> QED
      BY <1>2, <2>1, <2>2
  <1>9. UpdatedOnce'
    BY <1>2, <1>4, <1>5 DEF TInv, UpdatedOnce
  <1>10. LeftToSchedule'
    BY <1>2, <1>5 DEF TInv, LeftToSchedule
  <1>11. ParentFirst'
    BY <1>2, <1>5 DEF TInv, ParentFirst
  <1>12. EveryMapAccounted'
    <2> SUFFICES ASSUME mpc \in {"schedule", "wait", "asleep", "delayed"}, NEW m \in maps'
                 PROVE  Accounted(m)'
      BY <1>2 DEF EveryMapAccounted
    <2>1. Accounted(m)
      BY <1>2 DEF TInv, EveryMapAccounted
    <2>2. CASE m = i
      BY <1>2, <2>2 DEF Accounted
    <2>3. CASE m # i
      <3>1. \A v \in Worker : m \in wleft[v] => m \in wleft'[v]
        BY <1>2, <2>3
      <3> QED
        BY <1>2, <1>5, <2>1, <3>1 DEF Accounted
    <2> QED
      BY <2>2, <2>3
  <1> QED
    BY <1>3, <1>5, <1>7, <1>8, <1>9, <1>10, <1>11, <1>12 DEF TInv

(***************************************************************************)
(* Map::Update ends: the map counts as updated from here on, while its     *)
(* request stays open until update_finished.                               *)
(***************************************************************************)
LEMMA UpdateDoneKeeps ==
  ASSUME IInv, TInv, NEW w \in Worker, UpdateDone(w)
  PROVE  /\ TInv'
         /\ Requested' = Requested
         /\ wmap[w] \in Requested
         /\ done' = done \cup {wmap[w]}
  <1>1. TypeOK /\ RequestedOnce
    BY DEF IInv, TInv
  <1>2. /\ wpc[w] = "update" /\ wleft[w] = {}
        /\ wpc'[w] = "finish"
        /\ \A v \in Worker \ {w} : wpc'[v] = wpc[v]
        /\ done' = done \cup {wmap[w]}
        /\ UNCHANGED <<queue, wmap, wleft, mpc, mleft, maps, skipped>>
    BY <1>1 DEF UpdateDone, TypeOK, mainVars
  <1>3. w \in Busy /\ Busy' = Busy /\ Busy \subseteq Worker
    BY <1>2 DEF Busy
  <1>4. Queued' = Queued /\ Requested' = Requested /\ RequestedOnce'
    BY <1>1, <1>2, <1>3, RequestsKept
  <1>5. wmap[w] \in Requested /\ wmap[w] \notin Queued
    BY <1>1, <1>3 DEF Requested, RequestedOnce
  <1>6. RequestedExist'
    BY <1>2, <1>4 DEF TInv, RequestedExist
  <1>7. LeftToVisit'
    BY <1>2, <1>4, <1>5 DEF TInv, LeftToVisit
  <1>8. UpdatedOnce'
    <2>1. (done \cap Queued = {})'
      BY <1>2, <1>4, <1>5 DEF TInv, UpdatedOnce
    <2>2. ASSUME NEW v \in Busy PROVE wmap[v] \in done' <=> wpc'[v] = "finish"
      <3>1. CASE v = w
        BY <1>2, <3>1
      <3>2. CASE v # w
        <4>1. wmap[v] # wmap[w]
          BY <1>1, <1>3, <3>2 DEF RequestedOnce
        <4> QED
          BY <1>2, <1>3, <3>2, <4>1 DEF TInv, UpdatedOnce
      <3> QED
        BY <3>1, <3>2
    <2> QED
      BY <1>2, <1>3, <2>1, <2>2 DEF UpdatedOnce
  <1>9. LeftToSchedule'
    BY <1>2, <1>4, <1>5 DEF TInv, LeftToSchedule
  <1>10. ParentFirst'
    BY <1>2, <1>4, <1>5 DEF TInv, ParentFirst
  <1>11. EveryMapAccounted'
    BY <1>2, <1>4 DEF TInv, EveryMapAccounted, Accounted
  <1> QED
    BY <1>2, <1>4, <1>5, <1>6, <1>7, <1>8, <1>9, <1>10, <1>11 DEF TInv

(***************************************************************************)
(* update_finished closes the one request of a map that has been updated.  *)
(***************************************************************************)
LEMMA FinishedKeeps ==
  ASSUME IInv, TInv, NEW w \in Worker, update_finished(w)
  PROVE  /\ TInv'
         /\ wmap[w] \in Requested
         /\ wmap[w] \in done
         /\ Requested' = Requested \ {wmap[w]}
  <1>1. TypeOK /\ RequestedOnce
    BY DEF IInv, TInv
  <1>2. /\ wpc[w] = "finish" /\ wpc'[w] = "idle"
        /\ \A v \in Worker \ {w} : wpc'[v] = wpc[v] /\ wmap'[v] = wmap[v]
        /\ UNCHANGED <<queue, wleft, mleft, maps, done, skipped>>
        /\ mpc' = mpc \/ (mpc = "asleep" /\ mpc' = "wait")
    BY <1>1 DEF update_finished, Broadcast, TypeOK
  <1>3. w \in Busy /\ Busy' = Busy \ {w} /\ Busy \subseteq Worker
    BY <1>2 DEF Busy
  <1>4. wmap[w] \in done /\ wmap[w] \in Requested
    BY <1>2, <1>3 DEF TInv, UpdatedOnce, Requested
  <1>5. Queued' = Queued
    BY <1>2 DEF Queued
  <1>6. Requested' = Requested \ {wmap[w]}
    <2>1. Queued \cap {wmap[w]} = {}
      BY <1>1, <1>3 DEF RequestedOnce
    <2>2. \A v \in Busy' : wmap'[v] = wmap[v] /\ wmap[v] # wmap[w]
      BY <1>1, <1>2, <1>3 DEF RequestedOnce
    <2>3. Requested' = Queued' \cup {wmap'[v] : v \in Busy'}
      BY DEF Requested, Queued
    <2>4. Requested = Queued \cup {wmap[v] : v \in Busy}
      BY DEF Requested, Queued
    <2>5. {wmap'[v] : v \in Busy'} = {wmap[v] : v \in Busy} \ {wmap[w]}
      BY <1>3, <2>2
    <2> QED
      BY <1>5, <2>1, <2>3, <2>4, <2>5
  <1>7. RequestedOnce'
    BY <1>1, <1>2, <1>3, <1>5 DEF RequestedOnce
  <1>8. RequestedExist'
    BY <1>2, <1>6 DEF TInv, RequestedExist
  <1>9. LeftToVisit'
    BY <1>2, <1>6 DEF TInv, LeftToVisit
  <1>10. UpdatedOnce'
    BY <1>2, <1>3, <1>5 DEF TInv, UpdatedOnce
  <1>11. LeftToSchedule'
    BY <1>2, <1>6 DEF TInv, LeftToSchedule
  <1>12. ParentFirst'
    BY <1>2, <1>5, <1>6 DEF TInv, ParentFirst
  <1>13. EveryMapAccounted'
    <2> SUFFICES ASSUME mpc \in {"schedule", "wait", "asleep", "delayed"}, NEW m \in maps
                 PROVE  Accounted(m)'
      BY <1>2 DEF EveryMapAccounted
    <2>1. Accounted(m)
      BY DEF TInv, EveryMapAccounted
    <2> QED
      BY <1>2, <1>4, <1>5, <1>6, <2>1 DEF Accounted
  <1> QED
    BY <1>4, <1>6, <1>7, <1>8, <1>9, <1>10, <1>11, <1>12, <1>13 DEF TInv

(***************************************************************************)
(* MapManager::Update schedules a base map that has no request yet.        *)
(***************************************************************************)
LEMMA ScheduleBaseKeeps ==
  ASSUME IInv, TInv, NEW m \in BaseMap, ScheduleBase(m)
  PROVE  TInv' /\ m \in maps /\ m \notin Requested \cup done
  <1>1. TypeOK /\ RequestedOnce
    BY DEF IInv, TInv
  <1>2. /\ mpc = "schedule" /\ m \in mleft
        /\ mleft' = mleft \ {m}
        /\ schedule_update(m)
        /\ UNCHANGED <<wpc, wmap, wleft, mpc, maps, done>>
    BY DEF ScheduleBase, workerVars
  <1>3. m \in maps /\ m \notin Requested \cup done
    BY <1>2 DEF TInv, LeftToSchedule, RequestedExist
  <1>4. m \in Map /\ m \notin Instance
    BY MapAssumption DEF Map
  <1>5. /\ RequestedOnce'
        /\ Busy' = Busy
        /\ \/ /\ Queued' = Queued \cup {m}
              /\ Requested' = Requested \cup {m}
              /\ skipped' = skipped
           \/ /\ Queued' = Queued
              /\ Requested' = Requested
              /\ skipped' = skipped \cup {m}
    BY <1>1, <1>2, <1>3, <1>4, ScheduleEffect
  <1>6. /\ Requested \subseteq Requested' /\ Requested' \subseteq Requested \cup {m}
        /\ Queued \subseteq Queued' /\ Queued' \subseteq Queued \cup {m}
        /\ skipped \subseteq skipped' /\ m \in Queued' \cup skipped'
        /\ m \in Requested' \cup skipped'
    BY <1>5
  <1>7. RequestedExist'
    BY <1>2, <1>3, <1>6 DEF TInv, RequestedExist
  <1>8. wleft \in [Worker -> SUBSET Instance]
    BY <1>1 DEF TypeOK
  <1>9. LeftToVisit'
    <2> SUFFICES ASSUME NEW v \in Worker, NEW k \in wleft[v]
                 PROVE  /\ wpc[v] = "update"
                        /\ k \in maps
                        /\ parent[k] = wmap[v]
                        /\ k \notin Requested' \cup done
      BY <1>2 DEF LeftToVisit
    <2>1. k # m
      BY <1>4, <1>8
    <2> QED
      BY <1>6, <2>1 DEF TInv, LeftToVisit
  <1>10. UpdatedOnce'
    BY <1>2, <1>3, <1>5 DEF TInv, UpdatedOnce
  <1>11. LeftToSchedule'
    BY <1>2, <1>6 DEF TInv, LeftToSchedule
  <1>12. ParentFirst'
    BY <1>2, <1>4, <1>6 DEF TInv, ParentFirst
  <1>13. EveryMapAccounted'
    <2> SUFFICES ASSUME NEW k \in maps PROVE Accounted(k)'
      BY <1>2 DEF EveryMapAccounted
    <2>1. Accounted(k)
      BY <1>2 DEF TInv, EveryMapAccounted
    <2> QED
      BY <1>2, <1>6, <2>1 DEF Accounted
  <1> QED
    BY <1>3, <1>5, <1>7, <1>9, <1>10, <1>11, <1>12, <1>13 DEF TInv

(***************************************************************************)
(* The steps of the world thread that touch neither a map nor a request.   *)
(***************************************************************************)
LEMMA WorldStepKeeps ==
  ASSUME TInv,
         UNCHANGED <<queue, wpc, wmap, wleft, mleft, maps, done, skipped>>,
         mpc' # "schedule" => mleft = {},
         mpc' \notin {"deactivate", "join", "stopped"} =>
             mpc \notin {"deactivate", "join", "stopped"},
         mpc' \in {"schedule", "wait", "asleep", "delayed"} =>
             mpc \in {"schedule", "wait", "asleep", "delayed"}
  PROVE  TInv'
  <1>1. Busy' = Busy
    BY DEF Busy
  <1>2. Queued' = Queued /\ Requested' = Requested /\ RequestedOnce'
    BY <1>1, RequestsKept DEF TInv
  <1>3. RequestedExist'
    BY <1>2 DEF TInv, RequestedExist
  <1>4. LeftToVisit'
    BY <1>2 DEF TInv, LeftToVisit
  <1>5. UpdatedOnce'
    BY <1>1, <1>2 DEF TInv, UpdatedOnce
  <1>6. LeftToSchedule'
    BY <1>2 DEF TInv, LeftToSchedule
  <1>7. ParentFirst'
    BY <1>2 DEF TInv, ParentFirst
  <1>8. EveryMapAccounted'
    BY <1>2 DEF TInv, EveryMapAccounted, Accounted
  <1> QED
    BY <1>2, <1>3, <1>4, <1>5, <1>6, <1>7, <1>8 DEF TInv

(***************************************************************************)
(* Outside of the scheduling and the waiting the world thread owns all     *)
(* maps: no request, no worker on the way through an m_InstancedMaps.      *)
(***************************************************************************)
LEMMA Alone ==
  ASSUME IInv, TInv, mpc \in Quiet
  PROVE  /\ queue = <<>> /\ Busy = {}
         /\ Queued = {} /\ Requested = {}
         /\ \A w \in Worker : wleft[w] = {}
         /\ mleft = {}
  <1>1. queue = <<>> /\ Busy = {}
    BY NothingPending DEF IInv
  <1>2. Queued = {} /\ Requested = {}
    BY <1>1 DEF Queued, Requested, SeqRange
  <1>3. \A w \in Worker : wleft[w] = {}
    BY <1>1 DEF Busy, TInv, LeftToVisit
  <1>4. mleft = {}
    BY DEF TInv, LeftToSchedule, Quiet
  <1> QED
    BY <1>1, <1>2, <1>3, <1>4

(***************************************************************************)
(* The steps with which the world thread creates instances, starts a tick  *)
(* or unloads everything, when no worker holds a map.                      *)
(***************************************************************************)
LEMMA SerialStepKeeps ==
  ASSUME IInv, TInv, mpc = "sessions", UNCHANGED <<queue, wpc, wmap, wleft>>,
         \/ \E i \in Instance : CreateInstance(i)
         \/ StartUpdate
         \/ UnloadAll
  PROVE  TInv'
  <1>1. /\ queue = <<>> /\ Busy = {}
        /\ Queued = {} /\ Requested = {}
        /\ \A w \in Worker : wleft[w] = {}
        /\ mleft = {}
    BY Alone DEF Quiet
  <1>2. Busy' = Busy
    BY DEF Busy
  <1>3. Queued' = {} /\ Requested' = {} /\ RequestedOnce'
    BY <1>1, <1>2, RequestsKept DEF TInv
  <1>4. BaseMap \subseteq maps
    BY DEF TInv, RequestedExist
  <1>5. RequestedExist'
    BY <1>3, <1>4 DEF RequestedExist, CreateInstance, StartUpdate, UnloadAll
  <1>6. LeftToVisit'
    BY <1>1 DEF LeftToVisit
  <1>7. UpdatedOnce'
    BY <1>1, <1>2, <1>3 DEF UpdatedOnce
  <1>8. LeftToSchedule'
    BY <1>1, <1>3 DEF LeftToSchedule, CreateInstance, StartUpdate, UnloadAll, mainVars
  <1>9. ParentFirst'
    BY <1>1, <1>3 DEF ParentFirst, CreateInstance, StartUpdate, UnloadAll, mainVars
  <1>10. EveryMapAccounted'
    <2>1. CASE StartUpdate
      <3>1. maps \subseteq BaseMap \cup Instance
        BY DEF IInv, TypeOK, Map
      <3>2. \A i \in Instance : parent[i] \in BaseMap
        BY MapAssumption
      <3> QED
        BY <2>1, <3>1, <3>2 DEF StartUpdate, EveryMapAccounted, Accounted
    <2>2. CASE mpc' \in {"sessions", "deactivate"}
      BY <2>2 DEF EveryMapAccounted
    <2> QED
      BY <2>1, <2>2 DEF CreateInstance, UnloadAll, mainVars
  <1> QED
    BY <1>3, <1>5, <1>6, <1>7, <1>8, <1>9, <1>10 DEF TInv

(***************************************************************************)
(* A worker leaves svc: it had no request.                                 *)
(***************************************************************************)
LEMMA ExitKeeps ==
  ASSUME IInv, TInv, NEW w \in Worker, Exit(w)
  PROVE  TInv' /\ Requested' = Requested
  <1>1. /\ wpc[w] = "idle" /\ wpc'[w] = "exited"
        /\ \A v \in Worker \ {w} : wpc'[v] = wpc[v]
        /\ UNCHANGED <<queue, wmap, wleft, mpc, mleft, maps, done, skipped>>
    BY DEF Exit, mainVars, IInv, TypeOK
  <1>2. Busy' = Busy /\ w \notin Busy
    BY <1>1 DEF Busy
  <1>3. Queued' = Queued /\ Requested' = Requested /\ RequestedOnce'
    BY <1>1, <1>2, RequestsKept DEF TInv
  <1>4. RequestedExist'
    BY <1>1, <1>3 DEF TInv, RequestedExist
  <1>5. LeftToVisit'
    BY <1>1, <1>3 DEF TInv, LeftToVisit
  <1>6. UpdatedOnce'
    BY <1>1, <1>2, <1>3 DEF TInv, UpdatedOnce, Busy
  <1>7. LeftToSchedule'
    BY <1>1, <1>3 DEF TInv, LeftToSchedule
  <1>8. ParentFirst'
    BY <1>1, <1>3 DEF TInv, ParentFirst
  <1>9. EveryMapAccounted'
    BY <1>1, <1>3 DEF TInv, EveryMapAccounted, Accounted
  <1> QED
    BY <1>3, <1>4, <1>5, <1>6, <1>7, <1>8, <1>9 DEF TInv

(***************************************************************************)
(* TInv is inductive, given IInv.                                          *)
(***************************************************************************)
LEMMA TInvInit == Init => TInv
  <1> SUFFICES ASSUME Init PROVE TInv
    OBVIOUS
  <1>1. Busy = {} /\ queue = <<>>
    BY DEF Init, Busy
  <1>2. Queued = {} /\ Requested = {}
    BY <1>1 DEF Queued, Requested, SeqRange
  <1> QED
    BY <1>1, <1>2 DEF Init, TInv, RequestedOnce, RequestedExist, LeftToVisit,
       UpdatedOnce, LeftToSchedule, ParentFirst, EveryMapAccounted

\* Every step keeps what a tick has done and has left to do.
LEMMA TInvStep == IInv /\ TInv /\ [Next]_vars => TInv'
  <1> SUFFICES ASSUME IInv, TInv, [Next]_vars PROVE TInv'
    OBVIOUS
  <1>1. ASSUME NEW w \in Worker, WorkerStep(w) PROVE TInv'
    BY <1>1, DequeueKeeps, ScheduleInstanceKeeps, DestroyInstanceKeeps,
       UpdateDoneKeeps, FinishedKeeps, ExitKeeps DEF WorkerStep
  <1>2. ASSUME NEW m \in BaseMap, ScheduleBase(m) PROVE TInv'
    BY <1>2, ScheduleBaseKeeps
  <1>3. mpc # "schedule" => mleft = {}
    BY DEF TInv, LeftToSchedule
  <1>4. CASE AllScheduled
    BY <1>4, WorldStepKeeps DEF AllScheduled, workerVars
  <1>5. CASE wait
    BY <1>3, <1>5, WorldStepKeeps DEF wait, workerVars
  <1>6. CASE DelayedUpdate
    BY <1>3, <1>6, WorldStepKeeps DEF DelayedUpdate, workerVars
  <1>7. CASE deactivate
    BY <1>3, <1>7, WorldStepKeeps DEF deactivate, workerVars
  <1>8. CASE Join
    BY <1>3, <1>8, WorldStepKeeps DEF Join, workerVars
  <1>9. CASE SpuriousWakeup
    BY <1>3, <1>9, WorldStepKeeps DEF SpuriousWakeup, workerVars
  <1>10. ASSUME NEW i \in Instance, CreateInstance(i) PROVE TInv'
    BY <1>10, SerialStepKeeps DEF CreateInstance, workerVars
  <1>11. CASE StartUpdate
    BY <1>11, SerialStepKeeps DEF StartUpdate, workerVars
  <1>12. CASE UnloadAll
    BY <1>12, SerialStepKeeps DEF UnloadAll, workerVars
  <1>13. CASE UNCHANGED vars
    BY <1>3, <1>13, WorldStepKeeps DEF vars, workerVars, mainVars
  <1> QED
    BY <1>1, <1>2, <1>4, <1>5, <1>6, <1>7, <1>8, <1>9, <1>10, <1>11, <1>12, <1>13
       DEF Next, MainStep

(***************************************************************************)
(* In every state of the tick each map is at one place: still to be        *)
(* scheduled, requested once, or updated; the instances of a base map wait *)
(* for the worker that takes the request of the base map.                  *)
(***************************************************************************)
THEOREM TickInvariance == Spec => [](IInv /\ TInv)
  BY InvInit, InvStep, TInvInit, TInvStep, PTL DEF Spec

(***************************************************************************)
(* When MapManager::Update goes on to DelayedUpdate, every map that exists *)
(* was updated, or was left out together with its parent or on its own     *)
(* because the queue was full or an unload failed.                         *)
(***************************************************************************)
THEOREM EveryMapIsUpdated == Spec => []EveryMapUpdated
  <1>1. IInv /\ TInv => EveryMapUpdated
    <2> SUFFICES ASSUME IInv, TInv, mpc = "delayed", NEW m \in maps
                 PROVE  \/ m \in done \cup skipped
                        \/ m \in Instance /\ parent[m] \in skipped
      BY DEF EveryMapUpdated
    <2>1. /\ Queued = {} /\ Requested = {} /\ mleft = {}
          /\ \A w \in Worker : wleft[w] = {}
      BY Alone DEF Quiet
    <2>2. Accounted(m)
      BY DEF TInv, EveryMapAccounted
    <2> QED
      BY <2>1, <2>2 DEF Accounted
  <1> QED
    BY <1>1, TickInvariance, PTL

-----------------------------------------------------------------------------
(* The refinement of MapTick.                                              *)

(***************************************************************************)
(* A step that keeps the phase, the maps, the requests and the finished    *)
(* updates is a stutter of MapTick.                                        *)
(***************************************************************************)
LEMMA Stutter ==
  ASSUME Requested' = Requested, UNCHANGED <<maps, done>>, TickPhase' = TickPhase
  PROVE  [Tick!TickNext]_(Tick!tick)
  BY DEF Tick!tick

(***************************************************************************)
(* schedule_update is Ask, or nothing when the queue is full: a map is     *)
(* asked for once, and only while it exists.                               *)
(***************************************************************************)
LEMMA ScheduleImplements ==
  ASSUME TypeOK, RequestedOnce, NEW m \in Map, m \in maps, m \notin Requested \cup done,
         schedule_update(m), UNCHANGED <<wpc, wmap, mpc, maps, done>>,
         mpc \in {"schedule", "wait", "asleep"}
  PROVE  [Tick!TickNext]_(Tick!tick)
  <1>1. \/ Requested' = Requested \cup {m}
        \/ Requested' = Requested
    BY ScheduleEffect
  <1>2. TickPhase = "parallel" /\ TickPhase' = TickPhase
    BY DEF TickPhase
  <1>3. CASE Requested' = Requested
    BY <1>2, <1>3, Stutter
  <1>4. CASE Requested' = Requested \cup {m}
    <2>1. done' \ Requested' = done \ Requested
      BY <1>4
    <2>2. Tick!Ask(m)
      BY <1>2, <1>4, <2>1 DEF Tick!Ask
    <2> QED
      BY <2>2 DEF Tick!TickNext, Map
  <1> QED
    BY <1>1, <1>3, <1>4

(***************************************************************************)
(* The steps of a worker: an update is finished once, after it was made;   *)
(* the delete of an instance finds no request for it.                      *)
(***************************************************************************)
LEMMA WorkerImplements ==
  ASSUME IInv, TInv, NEW w \in Worker, WorkerStep(w)
  PROVE  [Tick!TickNext]_(Tick!tick)
  <1>1. TypeOK /\ RequestedOnce
    BY DEF IInv, TInv
  <1>2. w \in Busy => mpc \in {"schedule", "wait", "asleep"}
    BY RequestsOnlyInTick DEF Requested
  <1>3. CASE Dequeue(w)
    <2>1. Requested' = Requested
      BY <1>1, <1>3, DequeueEffect
    <2> QED
      BY <1>3, <2>1, Stutter DEF Dequeue, mainVars, TickPhase
  <1>4. ASSUME NEW i \in Instance, ScheduleInstance(w, i)
        PROVE  [Tick!TickNext]_(Tick!tick)
    <2>1. i \in maps /\ i \notin Requested \cup done /\ i \in Map
      BY <1>4, ScheduleInstanceKeeps DEF Map
    <2>2. mpc \in {"schedule", "wait", "asleep"}
      BY <1>2, <1>4 DEF ScheduleInstance, Busy
    <2> QED
      BY <1>1, <1>4, <2>1, <2>2, ScheduleImplements DEF ScheduleInstance, mainVars
  <1>5. ASSUME NEW i \in Instance, DestroyInstance(w, i)
        PROVE  [Tick!TickNext]_(Tick!tick)
    <2>1. i \in maps /\ i \notin Requested
      BY <1>5, DestroyInstanceKeeps
    <2>2. mpc \in {"schedule", "wait", "asleep"} /\ mpc' = mpc
      BY <1>2, <1>5 DEF DestroyInstance, Busy, mainVars
    <2>3. TickPhase = "parallel" /\ TickPhase' = TickPhase
      BY <2>2 DEF TickPhase
    <2>4. Busy' = Busy
      BY <1>5 DEF DestroyInstance, Busy
    <2>5. Requested' = Requested
      BY <1>5, <2>4, RequestsKept DEF DestroyInstance
    <2>6. CASE maps' = maps
      BY <1>5, <2>3, <2>5, <2>6, Stutter DEF DestroyInstance
    <2>7. CASE maps' = maps \ {i}
      <3>1. Tick!Destroy(i)
        BY <1>5, <2>1, <2>3, <2>5, <2>7 DEF Tick!Destroy, DestroyInstance
      <3> QED
        BY <3>1 DEF Tick!TickNext
    <2> QED
      BY <1>5, <2>6, <2>7 DEF DestroyInstance
  <1>6. CASE UpdateDone(w)
    <2>1. Requested' = Requested /\ wmap[w] \in Requested /\ done' = done \cup {wmap[w]}
      BY <1>6, UpdateDoneKeeps
    <2>2. done' \ Requested' = done \ Requested
      BY <2>1
    <2>3. TickPhase' = TickPhase /\ maps' = maps
      BY <1>6 DEF UpdateDone, mainVars, TickPhase
    <2> QED
      BY <2>1, <2>2, <2>3 DEF Tick!tick
  <1>7. CASE update_finished(w)
    <2>1. /\ wmap[w] \in Requested
          /\ wmap[w] \in done
          /\ Requested' = Requested \ {wmap[w]}
      BY <1>7, FinishedKeeps
    <2>2. mpc \in {"schedule", "wait", "asleep"}
      BY <1>2, <1>7 DEF update_finished, Busy
    <2>3. TickPhase' = TickPhase
      BY <1>7, <2>2 DEF update_finished, Broadcast, TickPhase
    <2>4. done' = done /\ maps' = maps
      BY <1>7 DEF update_finished
    <2>5. done' \ Requested' = (done \ Requested) \cup {wmap[w]}
      BY <2>1, <2>4
    <2>6. Tick!Complete(wmap[w])
      BY <2>1, <2>3, <2>4, <2>5 DEF Tick!Complete
    <2>7. wmap[w] \in Map
      BY <1>1, <1>7 DEF TypeOK, update_finished, Busy
    <2> QED
      BY <2>6, <2>7 DEF Tick!TickNext, Map
  <1>8. CASE Exit(w)
    BY <1>8, ExitKeeps, Stutter DEF Exit, mainVars, TickPhase
  <1> QED
    BY <1>3, <1>4, <1>5, <1>6, <1>7, <1>8 DEF WorkerStep

(***************************************************************************)
(* The steps of the world thread: the parallel part ends in                *)
(* MapUpdater::wait with no request open, and begins with none.            *)
(***************************************************************************)
LEMMA WorldImplements ==
  ASSUME IInv, TInv,
         \/ MainStep
         \/ \E i \in Instance : CreateInstance(i)
         \/ StartUpdate
         \/ SpuriousWakeup
         \/ UnloadAll
  PROVE  [Tick!TickNext]_(Tick!tick)
  <1>1. TypeOK /\ RequestedOnce
    BY DEF IInv, TInv
  <1>2. ASSUME UNCHANGED <<queue, wpc, wmap>> PROVE Requested' = Requested
    <2>1. Busy' = Busy
      BY <1>2 DEF Busy
    <2> QED
      BY <1>2, <2>1, RequestsKept
  <1>3. ASSUME NEW m \in BaseMap, ScheduleBase(m) PROVE [Tick!TickNext]_(Tick!tick)
    <2>1. m \in maps /\ m \notin Requested \cup done /\ m \in Map
      BY <1>3, ScheduleBaseKeeps DEF Map
    <2> QED
      BY <1>1, <1>3, <2>1, ScheduleImplements DEF ScheduleBase, workerVars
  <1>4. ASSUME UNCHANGED <<queue, wpc, wmap, maps, done>>, TickPhase' = TickPhase
        PROVE  [Tick!TickNext]_(Tick!tick)
    BY <1>2, <1>4, Stutter
  <1>5. CASE AllScheduled
    BY <1>4, <1>5 DEF AllScheduled, workerVars, TickPhase
  <1>6. CASE wait
    <2>1. CASE MustWait
      BY <1>4, <1>6, <2>1 DEF wait, workerVars, TickPhase
    <2>2. CASE ~MustWait
      <3>1. pending_requests = 0
        BY <1>1, <2>2 DEF MustWait, TypeOK
      <3>2. queue = <<>> /\ Busy = {}
        BY <1>1, <3>1, NothingPending DEF IInv
      <3>3. Requested = {}
        BY <3>2 DEF Requested, SeqRange
      <3>4. Requested' = Requested
        BY <1>2, <1>6 DEF wait, workerVars
      <3>5. TickPhase = "parallel" /\ TickPhase' = "serial"
        BY <1>6, <2>2 DEF wait, TickPhase
      <3>6. UNCHANGED <<maps, done>>
        BY <1>6 DEF wait
      <3>7. Tick!End
        BY <3>3, <3>4, <3>5, <3>6 DEF Tick!End
      <3> QED
        BY <3>7 DEF Tick!TickNext
    <2> QED
      BY <2>1, <2>2
  <1>7. CASE DelayedUpdate
    BY <1>4, <1>7 DEF DelayedUpdate, workerVars, TickPhase
  <1>8. CASE deactivate
    BY <1>4, <1>8 DEF deactivate, workerVars, TickPhase
  <1>9. CASE Join
    BY <1>4, <1>9 DEF Join, workerVars, TickPhase
  <1>10. CASE SpuriousWakeup
    BY <1>4, <1>10 DEF SpuriousWakeup, workerVars, TickPhase
  <1>11. ASSUME NEW i \in Instance, CreateInstance(i) PROVE [Tick!TickNext]_(Tick!tick)
    <2>1. Requested' = Requested
      BY <1>2, <1>11 DEF CreateInstance, workerVars
    <2>2. TickPhase = "serial" /\ TickPhase' = "serial"
      BY <1>11 DEF CreateInstance, mainVars, TickPhase
    <2>3. Tick!Create(i)
      BY <1>11, <2>1, <2>2 DEF CreateInstance, Tick!Create
    <2> QED
      BY <2>3 DEF Tick!TickNext
  <1>12. CASE StartUpdate
    <2>1. Requested' = Requested
      BY <1>2, <1>12 DEF StartUpdate, workerVars
    <2>2. TickPhase = "serial" /\ TickPhase' = "parallel"
      BY <1>12 DEF StartUpdate, TickPhase
    <2>3. Tick!Begin
      BY <1>12, <2>1, <2>2 DEF StartUpdate, Tick!Begin
    <2> QED
      BY <2>3 DEF Tick!TickNext
  <1>13. CASE UnloadAll
    <2>1. Requested' = Requested
      BY <1>2, <1>13 DEF UnloadAll, workerVars
    <2>2. TickPhase = "serial" /\ TickPhase' = "stopped"
      BY <1>13 DEF UnloadAll, TickPhase
    <2>3. Tick!Stop
      BY <1>13, <2>1, <2>2 DEF UnloadAll, Tick!Stop
    <2> QED
      BY <2>3 DEF Tick!TickNext
  <1> QED
    BY <1>3, <1>5, <1>6, <1>7, <1>8, <1>9, <1>10, <1>11, <1>12, <1>13 DEF MainStep

(***************************************************************************)
(* The safety part of ImplementsTick: every step of the threads is a step  *)
(* of MapTick or none.  A map is updated at most once in a tick, no        *)
(* request outlives the map it refers to, and the world thread goes on     *)
(* only when every request is finished.                                    *)
(***************************************************************************)
THEOREM RefinesTick == Spec => Tick!TickSteps
  <1>1. Init => Tick!TickInit
    <2> SUFFICES ASSUME Init PROVE Tick!TickInit
      OBVIOUS
    <2>1. Requested = {}
      BY DEF Init, Requested, SeqRange, Busy
    <2>2. TickPhase = "serial"
      BY DEF Init, TickPhase
    <2> QED
      BY <2>1, <2>2 DEF Init, Tick!TickInit
  <1>2. IInv /\ TInv /\ [Next]_vars => [Tick!TickNext]_(Tick!tick)
    <2> SUFFICES ASSUME IInv, TInv, [Next]_vars PROVE [Tick!TickNext]_(Tick!tick)
      OBVIOUS
    <2>1. CASE UNCHANGED vars
      <3>1. Requested' = Requested
        BY <2>1 DEF vars, workerVars, Requested, Busy
      <3> QED
        BY <2>1, <3>1, Stutter DEF vars, mainVars, TickPhase
    <2> QED
      BY <2>1, WorkerImplements, WorldImplements DEF Next
  <1> QED
    BY <1>1, <1>2, TickInvariance, PTL DEF Spec, Tick!TickSteps
=============================================================================
