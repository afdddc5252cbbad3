------------------------ MODULE DatabasePool_proofs ------------------------
(***************************************************************************)
(* Proofs about the database worker pool, for any connections, operations  *)
(* and faults.                                                             *)
(***************************************************************************)
EXTENDS DatabasePool, TLAPS

-----------------------------------------------------------------------------
(* The inductive invariant.                                                *)

\* The transaction of a connection: the server has no transaction open between
\* operations nor without a handle, and what it has not committed is of the
\* operation being executed.
Between(c) ==
    /\ pc[c] \in {"idle", "begin", "plain", "failed", "exited"} => ~inTx[c]
    /\ ~inTx[c] => pending[c] = <<>>
    /\ ~handle[c] => ~inTx[c]
    /\ \A i \in DOMAIN pending[c] : pending[c][i][1] = task[c]

Connections == \A c \in Conn : Between(c)

\* An operation whose connection stayed has sent the statements before the next one.
Sent(c) ==
    task[c] # NoTask /\ StayedConnected(task[c]) =>
        /\ pc[c] = "exec" /\ handle[c] => inTx[c] /\ stmt[c] <= size[task[c]]
        /\ pc[c] = "exec" /\ handle[c] => Len(pending[c]) = stmt[c] - 1
        /\ pc[c] = "commit" => handle[c] /\ inTx[c] /\ Len(pending[c]) = size[task[c]]
        /\ pc[c] \in {"exec", "commit"} =>
              \A i \in 1..Len(pending[c]) : pending[c][i] = <<task[c], i>>

Progress == \A c \in Conn : Sent(c)

\* Who executes an operation, and a plain one.
Running ==
    /\ \A c \in Conn : task[c] # NoTask => outcome[task[c]] = "running"
    /\ \A c \in Conn : pc[c] = "plain" => task[c] \in Plain
    /\ \A t \in Task : outcome[t] = "running" => \E c \in Conn : task[c] = t
    /\ \A i \in DOMAIN accepted :
          outcome[accepted[i]] = "running" => \E c \in Worker : task[c] = accepted[i]
    /\ \A c, d \in Conn : task[c] = task[d] /\ task[c] # NoTask => c = d

\* The queue holds the operations accepted last, the only ones that wait.
Waiting ==
    /\ pool # "open" => queue = <<>> /\ (\A t \in Task : outcome[t] # "queued")
    /\ pool = "open" => \A t \in Task : outcome[t] # "flushed"
    /\ Len(queue) <= Len(accepted)
    /\ pool = "open" =>
          \A i \in 1..Len(queue) : queue[i] = accepted[Len(accepted) - Len(queue) + i]
    /\ pool = "open" =>
          \A i \in 1..Len(accepted) :
             outcome[accepted[i]] = "queued" <=> i > Len(accepted) - Len(queue)
    /\ \A i \in 1..Len(accepted) : outcome[accepted[i]] # "new"
    /\ \A t \in Task : outcome[t] = "queued" => \E i \in 1..Len(accepted) : accepted[i] = t
    /\ \A i, j \in 1..Len(accepted) : accepted[i] = accepted[j] => i = j

\* Close waits for the workers, and is called when no caller holds a connection.
Closing ==
    /\ pool # "open" => \A c \in Synch : pc[c] = "idle"
    /\ pool = "closed" => \A c \in Worker : pc[c] = "exited"

IInv == TypeOK /\ Connections /\ Progress /\ Running /\ Waiting /\ Closing /\ OutcomeIsStored

\* An opened pool with idle workers and empty connections.
LEMMA InitIInv == Init => IInv
  <1> SUFFICES ASSUME Init PROVE IInv
    OBVIOUS
  <1> USE PoolAssumption, FaultAssumption DEF Init
  <1>1. TypeOK
    BY DEF TypeOK
  <1>2. Connections /\ Progress /\ Running /\ Closing
    BY DEF Connections, Between, Progress, Sent, Running, Closing, Conn
  <1>3. Waiting
    BY DEF Waiting
  <1>4. OutcomeIsStored
    BY DEF OutcomeIsStored, NoneStored
  <1> QED
    BY <1>1, <1>2, <1>3, <1>4 DEF IInv

-----------------------------------------------------------------------------
(* What a step of ExecuteTransaction changes.                              *)

\* The connection that executes an operation has one.
LEMMA ExecutedTask ==
    ASSUME TypeOK, NEW c \in Conn, Execute(c)
    PROVE  task[c] \in Task /\ pc[c] \notin {"idle", "exited"}
  BY DEF Execute, BeginTransaction, ExecuteStatement, RollbackTransaction, AfterFailure,
         CommitTransaction, ExecutePlain, TypeOK

\* A fault is noted for the operation of the connection.
LEMMA HitFault ==
    ASSUME TypeOK, NEW c \in Conn, task[c] \in Task, NEW f, Hit(c, f)
    PROVE  /\ faults' \in Nat /\ met' \in [Task -> SUBSET FaultKinds]
           /\ \A t \in Task \ {task[c]} : met'[t] = met[t]
           /\ met'[task[c]] = met[task[c]] \cup {f}
           /\ f \in FaultKinds
  BY FaultAssumption DEF Hit, TypeOK

\* _HandleMySQLErrno, whether it reopens the connection or gives up.
LEMMA Reconnected ==
    ASSUME TypeOK, NEW c \in Conn, task[c] \in Task, Reconnect(c)
    PROVE  /\ faults' \in Nat /\ met' \in [Task -> SUBSET FaultKinds]
           /\ \A t \in Task \ {task[c]} : met'[t] = met[t]
           /\ met[task[c]] \subseteq met'[task[c]]
           /\ met'[task[c]] \cap {"lost", "refused"} # {}
           /\ handle' \in [Conn -> BOOLEAN] /\ (\A d \in Conn \ {c} : handle'[d] = handle[d])
           /\ handle[c]
           /\ lastError' \in [Conn -> {"none", "dup", "deadlock"}]
  <1>1. PICK f \in {"lost", "refused"} : Hit(c, f)
    BY DEF Reconnect
  <1>2. /\ faults' \in Nat /\ met' \in [Task -> SUBSET FaultKinds]
        /\ \A t \in Task \ {task[c]} : met'[t] = met[t]
        /\ met'[task[c]] = met[task[c]] \cup {f}
    BY <1>1, HitFault
  <1>3. /\ handle' \in [Conn -> BOOLEAN] /\ (\A d \in Conn \ {c} : handle'[d] = handle[d])
        /\ handle[c] /\ lastError' \in [Conn -> {"none", "dup", "deadlock"}]
    BY DEF Reconnect, NoError, TypeOK
  <1> QED
    BY <1>2, <1>3

\* What every step of an operation has in common: it concerns its connection and
\* its operation only, and goes on or ends the operation.
Effect(c) ==
    /\ UNCHANGED <<queue, pool, accepted>>
    /\ \A d \in Conn \ {c} :
          /\ pc'[d] = pc[d] /\ task'[d] = task[d] /\ stmt'[d] = stmt[d]
          /\ handle'[d] = handle[d] /\ inTx'[d] = inTx[d] /\ pending'[d] = pending[d]
    /\ \A t \in Task \ {task[c]} : outcome'[t] = outcome[t] /\ met'[t] = met[t]
    /\ met[task[c]] \subseteq met'[task[c]]
    /\ \/ /\ outcome' = outcome /\ task'[c] = task[c]
          /\ pc'[c] \in {"begin", "exec", "rollback", "failed", "commit", "plain"}
          /\ pc'[c] = "plain" => pc[c] = "plain"
       \/ /\ outcome'[task[c]] \in {"done", "dropped"}
          /\ task'[c] = NoTask /\ pc'[c] = "idle"

\* The thread's part of a step, and the server's.
ThreadEffect(c) ==
    /\ UNCHANGED <<queue, pool, accepted>>
    /\ stmt' \in [Conn -> Nat \ {0}] /\ (\A d \in Conn \ {c} : stmt'[d] = stmt[d])
    /\ tries' \in [Conn -> Nat]
    /\ \/ /\ outcome' = outcome /\ task' = task
          /\ \E l \in {"begin", "exec", "rollback", "failed", "commit", "plain"} :
                /\ pc' = [pc EXCEPT ![c] = l]
                /\ l = "plain" => pc[c] = "plain"
       \/ \E o \in {"done", "dropped"} : Finish(c, o)

ServerEffect(c) ==
    /\ handle' \in [Conn -> BOOLEAN] /\ (\A d \in Conn \ {c} : handle'[d] = handle[d])
    /\ lastError' \in [Conn -> {"none", "dup", "deadlock"}]
    /\ inTx' \in [Conn -> BOOLEAN] /\ (\A d \in Conn \ {c} : inTx'[d] = inTx[d])
    /\ pending' \in [Conn -> Seq(Task \X Nat)] /\ (\A d \in Conn \ {c} : pending'[d] = pending[d])
    /\ stored' \in Seq(Task \X Nat)
    /\ faults' \in Nat
    /\ met' \in [Task -> SUBSET FaultKinds]
    /\ \A t \in Task \ {task[c]} : met'[t] = met[t]
    /\ met[task[c]] \subseteq met'[task[c]]

\* What the thread and the server do in a step, put together.
LEMMA EffectOfParts ==
    ASSUME TypeOK, NEW c \in Conn, task[c] \in Task, pc[c] \notin {"idle", "exited"},
           ThreadEffect(c), ServerEffect(c)
    PROVE  TypeOK' /\ Effect(c)
  <1> USE PoolAssumption DEF ServerEffect, TypeOK
  <1>1. ASSUME outcome' = outcome, task' = task,
               NEW l \in {"begin", "exec", "rollback", "failed", "commit", "plain"},
               pc' = [pc EXCEPT ![c] = l], l = "plain" => pc[c] = "plain"
        PROVE  TypeOK' /\ Effect(c)
    <2>1. \A d \in Conn : task'[d] = NoTask <=> pc'[d] \in {"idle", "exited"}
      BY <1>1
    <2>2. TypeOK'
      BY <1>1, <2>1 DEF ThreadEffect
    <2>3. Effect(c)
      BY <1>1 DEF ThreadEffect, Effect
    <2> QED
      BY <2>2, <2>3
  <1>2. ASSUME NEW o \in {"done", "dropped"}, Finish(c, o) PROVE TypeOK' /\ Effect(c)
    <2>1. /\ outcome' = [outcome EXCEPT ![task[c]] = o]
          /\ task' = [task EXCEPT ![c] = NoTask]
          /\ pc' = [pc EXCEPT ![c] = "idle"]
          /\ UNCHANGED <<queue, pool, accepted>>
          /\ stmt' \in [Conn -> Nat \ {0}] /\ (\A d \in Conn \ {c} : stmt'[d] = stmt[d])
          /\ tries' \in [Conn -> Nat]
      BY <1>2 DEF ThreadEffect, Finish, Goto, AfterOperation
    <2>2. \A d \in Conn : task'[d] = NoTask <=> pc'[d] \in {"idle", "exited"}
      BY <2>1
    <2>3. TypeOK'
      BY <2>1, <2>2
    <2>4. Effect(c)
      BY <2>1 DEF Effect
    <2> QED
      BY <2>3, <2>4
  <1> QED
    BY <1>1, <1>2, ZenonT(30) DEF ThreadEffect

\* Execute returns at once when there is no handle.
LEMMA NoHandleEffect ==
    ASSUME TypeOK, NEW c \in Conn, task[c] \in Task, NoHandle(c)
    PROVE  ServerEffect(c)
  BY DEF NoHandle, serverVars, faultVars, ServerEffect, TypeOK

\* The connection is lost before the statement was carried out.
LEMMA LostBeforeEffect ==
    ASSUME TypeOK, NEW c \in Conn, task[c] \in Task, LostBefore(c)
    PROVE  ServerEffect(c)
  <1>1. Reconnect(c) /\ Discard(c) /\ UNCHANGED stored
    BY DEF LostBefore
  <1> QED
    BY <1>1, Reconnected, SMTT(20) DEF Discard, ServerEffect, TypeOK

\* A statement is carried out, the connection lost afterwards or not.
LEMMA CarryEffect ==
    ASSUME TypeOK, NEW c \in Conn, task[c] \in Task, NEW e \in Task \X Nat, Carry(c, e),
           UNCHANGED inTx,
           Reconnect(c) \/ (NoError(c) /\ UNCHANGED <<handle, faultVars>>)
    PROVE  ServerEffect(c)
  <1>1. /\ pending' \in [Conn -> Seq(Task \X Nat)] /\ (\A d \in Conn \ {c} : pending'[d] = pending[d])
        /\ stored' \in Seq(Task \X Nat)
    <2> DEFINE E == Task \X Nat
    <2>1. pending \in [Conn -> Seq(E)] /\ stored \in Seq(E) /\ e \in E
      BY DEF TypeOK
    <2> HIDE DEF E
    <2>2. Append(pending[c], e) \in Seq(E) /\ Append(stored, e) \in Seq(E)
      BY <2>1
    <2>3. /\ pending' \in [Conn -> Seq(E)] /\ (\A d \in Conn \ {c} : pending'[d] = pending[d])
          /\ stored' \in Seq(E)
      BY <2>1, <2>2 DEF Carry
    <2> QED
      BY <2>3 DEF E
  <1>2. CASE Reconnect(c)
    BY <1>1, <1>2, Reconnected DEF ServerEffect, TypeOK
  <1>3. CASE NoError(c) /\ UNCHANGED <<handle, faultVars>>
    BY <1>1, <1>3 DEF ServerEffect, TypeOK, NoError, faultVars
  <1> QED
    BY <1>2, <1>3

\* The transaction is committed, the connection lost afterwards or not.
LEMMA CommitEffect ==
    ASSUME TypeOK, NEW c \in Conn, task[c] \in Task, CommitPending(c),
           Reconnect(c) \/ (NoError(c) /\ UNCHANGED <<handle, faultVars>>)
    PROVE  ServerEffect(c)
  <1>1. /\ inTx' \in [Conn -> BOOLEAN] /\ (\A d \in Conn \ {c} : inTx'[d] = inTx[d])
        /\ pending' \in [Conn -> Seq(Task \X Nat)] /\ (\A d \in Conn \ {c} : pending'[d] = pending[d])
        /\ stored' \in Seq(Task \X Nat)
    <2> DEFINE E == Task \X Nat
    <2>1. pending \in [Conn -> Seq(E)] /\ stored \in Seq(E) /\ inTx \in [Conn -> BOOLEAN]
      BY DEF TypeOK
    <2> HIDE DEF E
    <2>2. /\ inTx' \in [Conn -> BOOLEAN] /\ (\A d \in Conn \ {c} : inTx'[d] = inTx[d])
          /\ pending' \in [Conn -> Seq(E)] /\ (\A d \in Conn \ {c} : pending'[d] = pending[d])
          /\ stored' \in Seq(E)
      BY <2>1 DEF CommitPending, Discard
    <2> QED
      BY <2>2 DEF E
  <1>2. CASE Reconnect(c)
    BY <1>1, <1>2, Reconnected DEF ServerEffect
  <1>3. CASE NoError(c) /\ UNCHANGED <<handle, faultVars>>
    BY <1>1, <1>3 DEF ServerEffect, TypeOK, NoError, faultVars
  <1> QED
    BY <1>2, <1>3

\* A fault that leaves the connection.
LEMMA FaultEffect ==
    ASSUME TypeOK, NEW c \in Conn, task[c] \in Task, NEW f \in {"dup", "deadlock"}, Hit(c, f),
           lastError' = [lastError EXCEPT ![c] = f],
           UNCHANGED <<handle, stored>>,
           Discard(c) \/ UNCHANGED <<inTx, pending>>
    PROVE  ServerEffect(c)
  <1>1. /\ inTx' \in [Conn -> BOOLEAN] /\ (\A d \in Conn \ {c} : inTx'[d] = inTx[d])
        /\ pending' \in [Conn -> Seq(Task \X Nat)] /\ (\A d \in Conn \ {c} : pending'[d] = pending[d])
    <2> DEFINE E == Task \X Nat
    <2>1. pending \in [Conn -> Seq(E)] /\ inTx \in [Conn -> BOOLEAN]
      BY DEF TypeOK
    <2> HIDE DEF E
    <2>2. \/ inTx' = [inTx EXCEPT ![c] = FALSE] /\ pending' = [pending EXCEPT ![c] = <<>>]
          \/ inTx' = inTx /\ pending' = pending
      BY DEF Discard
    <2>3. inTx' \in [Conn -> BOOLEAN] /\ (\A d \in Conn \ {c} : inTx'[d] = inTx[d])
      BY <2>1, <2>2
    <2>5. <<>> \in Seq(E)
      OBVIOUS
    <2>4. pending' \in [Conn -> Seq(E)] /\ (\A d \in Conn \ {c} : pending'[d] = pending[d])
      <3>1. CASE pending' = [pending EXCEPT ![c] = <<>>]
        BY <3>1, <2>1, <2>5
      <3>2. CASE pending' = pending
        BY <3>2, <2>1
      <3> QED
        BY <2>2, <3>1, <3>2
    <2> QED
      BY <2>3, <2>4 DEF E
  <1> QED
    BY <1>1, HitFault, ZenonT(30) DEF ServerEffect, TypeOK

\* A step of an operation has that effect, and keeps the types.
LEMMA ExecuteEffect ==
    ASSUME TypeOK, NEW c \in Conn, Execute(c)
    PROVE  TypeOK' /\ Effect(c)
  <1>1. task[c] \in Task /\ pc[c] \notin {"idle", "exited"}
    BY ExecutedTask
  <1> SUFFICES ThreadEffect(c) /\ ServerEffect(c)
    BY <1>1, EffectOfParts
  <1>a. ASSUME UNCHANGED serverVars PROVE ServerEffect(c)
    BY <1>a DEF serverVars, faultVars, ServerEffect, TypeOK
  <1>b. ASSUME Discard(c), NoError(c), UNCHANGED <<handle, stored, faultVars>>
        PROVE  ServerEffect(c)
    <2> DEFINE E == Task \X Nat
    <2>1. pending \in [Conn -> Seq(E)] /\ inTx \in [Conn -> BOOLEAN]
      BY DEF TypeOK
    <2> HIDE DEF E
    <2>2. inTx' = [inTx EXCEPT ![c] = FALSE] /\ pending' = [pending EXCEPT ![c] = <<>>]
      BY <1>b DEF Discard
    <2>4. inTx' \in [Conn -> BOOLEAN] /\ (\A d \in Conn \ {c} : inTx'[d] = inTx[d])
      BY <2>1, <2>2
    <2>5. pending' \in [Conn -> Seq(E)] /\ (\A d \in Conn \ {c} : pending'[d] = pending[d])
      BY <2>1, <2>2
    <2>3. lastError' \in [Conn -> {"none", "dup", "deadlock"}] /\ UNCHANGED <<handle, stored, faults, met>>
      BY <1>b DEF NoError, TypeOK, faultVars
    <2> QED
      BY <2>3, <2>4, <2>5 DEF ServerEffect, TypeOK, E
  <1>c. ASSUME UNCHANGED <<queue, pool, accepted, stmt, tries>>, pc[c] # "idle", pc[c] # "exited",
               \/ UNCHANGED <<outcome, task, pc>>
               \/ Finish(c, "done") \/ Finish(c, "dropped")
        PROVE  ThreadEffect(c)
    <2>1. pc = [pc EXCEPT ![c] = pc[c]] /\ pc[c] \in {"begin", "exec", "rollback", "failed", "commit", "plain"}
      BY <1>1 DEF TypeOK
    <2> QED
      BY <1>c, <2>1 DEF ThreadEffect, TypeOK
  <1>d. ASSUME UNCHANGED <<queue, pool, accepted, outcome, task>>, pc[c] # "plain",
               stmt' \in [Conn -> Nat \ {0}], \A d \in Conn \ {c} : stmt'[d] = stmt[d],
               tries' \in [Conn -> Nat],
               \/ UNCHANGED pc
               \/ \E l \in {"begin", "exec", "rollback", "failed", "commit"} : pc' = [pc EXCEPT ![c] = l]
        PROVE  ThreadEffect(c)
    <2>1. pc = [pc EXCEPT ![c] = pc[c]] /\ pc[c] \in {"begin", "exec", "rollback", "failed", "commit"}
      BY <1>1, <1>d DEF TypeOK
    <2> QED
      BY <1>d, <2>1 DEF ThreadEffect
  <1>2. CASE BeginTransaction(c)
    <2>1. ThreadEffect(c)
      <3>1. UNCHANGED <<queue, pool, accepted, outcome, task, tries>> /\ pc[c] # "plain"
        BY <1>2 DEF BeginTransaction, poolVars
      <3>2. stmt' = [stmt EXCEPT ![c] = 1]
        BY <1>2 DEF BeginTransaction
      <3>3. UNCHANGED pc \/ Goto(c, "failed") \/ Goto(c, "exec")
        BY <1>2 DEF BeginTransaction
      <3>4. stmt' \in [Conn -> Nat \ {0}] /\ (\A d \in Conn \ {c} : stmt'[d] = stmt[d])
        BY <3>2 DEF TypeOK
      <3>5. tries' \in [Conn -> Nat]
        BY <3>1 DEF TypeOK
      <3> QED
        BY <3>1, <3>3, <3>4, <3>5, <1>d DEF Goto
    <2>3. ASSUME handle[c], inTx' = [inTx EXCEPT ![c] = TRUE], NoError(c),
                 stored' = stored \o pending[c],
                 pending' = [pending EXCEPT ![c] = <<>>],
                 UNCHANGED <<handle, faultVars>>
          PROVE  ServerEffect(c)
      <3> DEFINE E == Task \X Nat
      <3>1. pending \in [Conn -> Seq(E)] /\ stored \in Seq(E) /\ inTx \in [Conn -> BOOLEAN]
        BY DEF TypeOK
      <3> HIDE DEF E
      <3>2. inTx' \in [Conn -> BOOLEAN] /\ (\A d \in Conn \ {c} : inTx'[d] = inTx[d])
        BY <2>3, <3>1
      <3>3. pending' \in [Conn -> Seq(E)] /\ (\A d \in Conn \ {c} : pending'[d] = pending[d])
        BY <2>3, <3>1
      <3>4. pending[c] \in Seq(E) /\ stored' \in Seq(E)
        BY <2>3, <3>1
      <3>5. lastError' \in [Conn -> {"none", "dup", "deadlock"}] /\ UNCHANGED <<handle, faults, met>>
        BY <2>3 DEF NoError, TypeOK, faultVars
      <3> QED
        BY <3>2, <3>3, <3>4, <3>5 DEF ServerEffect, TypeOK, E
    <2>4. \/ UNCHANGED serverVars
          \/ /\ handle[c] /\ inTx' = [inTx EXCEPT ![c] = TRUE] /\ NoError(c)
             /\ stored' = stored \o pending[c]
             /\ pending' = [pending EXCEPT ![c] = <<>>]
             /\ UNCHANGED <<handle, faultVars>>
          \/ LostBefore(c)
      BY <1>2 DEF BeginTransaction, NoHandle
    <2>5. ServerEffect(c)
      BY <1>1, <2>3, <2>4, <1>a, LostBeforeEffect
    <2> QED
      BY <2>1, <2>5
  <1>3. CASE ExecuteStatement(c)
    <2>1. StatementAt(task[c], stmt[c]) \in Task \X Nat
      BY <1>1 DEF StatementAt, TypeOK
    <2>2. ThreadEffect(c)
      <3>1. UNCHANGED <<queue, pool, accepted, outcome, task, tries>> /\ pc[c] # "plain"
        BY <1>3 DEF ExecuteStatement, poolVars
      <3>2. stmt' = stmt \/ stmt' = [stmt EXCEPT ![c] = @ + 1]
        BY <1>3 DEF ExecuteStatement
      <3>3. UNCHANGED pc \/ Goto(c, "commit") \/ Goto(c, "exec") \/ Goto(c, "rollback")
        BY <1>3 DEF ExecuteStatement
      <3>6. stmt \in [Conn -> Nat \ {0}] /\ stmt[c] + 1 \in Nat \ {0}
        BY DEF TypeOK
      <3>4. stmt' \in [Conn -> Nat \ {0}] /\ (\A d \in Conn \ {c} : stmt'[d] = stmt[d])
        BY <3>2, <3>6
      <3>5. tries' \in [Conn -> Nat]
        BY <3>1 DEF TypeOK
      <3> QED
        BY <3>1, <3>3, <3>4, <3>5, <1>d DEF Goto
    <2>3. \/ /\ Carry(c, StatementAt(task[c], stmt[c])) /\ UNCHANGED inTx
             /\ (Reconnect(c) \/ (NoError(c) /\ UNCHANGED <<handle, faultVars>>))
          \/ /\ \E f \in {"dup", "deadlock"} : Hit(c, f) /\ lastError' = [lastError EXCEPT ![c] = f]
             /\ UNCHANGED <<handle, stored>> /\ (Discard(c) \/ UNCHANGED <<inTx, pending>>)
          \/ LostBefore(c)
          \/ NoHandle(c)
      BY <1>3 DEF ExecuteStatement
    <2>4. ServerEffect(c)
      <3>1. CASE /\ Carry(c, StatementAt(task[c], stmt[c])) /\ UNCHANGED inTx
                 /\ (Reconnect(c) \/ (NoError(c) /\ UNCHANGED <<handle, faultVars>>))
        BY <1>1, <2>1, <3>1, CarryEffect
      <3>2. CASE /\ \E f \in {"dup", "deadlock"} : Hit(c, f) /\ lastError' = [lastError EXCEPT ![c] = f]
                 /\ UNCHANGED <<handle, stored>> /\ (Discard(c) \/ UNCHANGED <<inTx, pending>>)
        BY <1>1, <3>2, FaultEffect
      <3>3. CASE LostBefore(c)
        BY <1>1, <3>3, LostBeforeEffect
      <3>4. CASE NoHandle(c)
        BY <1>1, <3>4, NoHandleEffect
      <3> QED
        BY <2>3, <3>1, <3>2, <3>3, <3>4
    <2> QED
      BY <2>2, <2>4
  <1>4. CASE RollbackTransaction(c)
    <2>1. ThreadEffect(c)
      <3>1. UNCHANGED <<queue, pool, accepted, outcome, task, stmt, tries>> /\ pc[c] # "plain"
        BY <1>4 DEF RollbackTransaction, poolVars
      <3>2. UNCHANGED pc \/ Goto(c, "failed")
        BY <1>4 DEF RollbackTransaction
      <3>3. stmt' \in [Conn -> Nat \ {0}] /\ (\A d \in Conn \ {c} : stmt'[d] = stmt[d]) /\ tries' \in [Conn -> Nat]
        BY <3>1 DEF TypeOK
      <3> QED
        BY <3>1, <3>2, <3>3, <1>d DEF Goto
    <2>2. \/ Discard(c) /\ NoError(c) /\ UNCHANGED <<handle, stored, faultVars>>
          \/ LostBefore(c) \/ NoHandle(c)
      BY <1>4 DEF RollbackTransaction
    <2>3. ServerEffect(c)
      BY <1>1, <1>b, <2>2, LostBeforeEffect, NoHandleEffect
    <2> QED
      BY <2>1, <2>3
  <1>5. CASE AfterFailure(c)
    <2>1. UNCHANGED <<queue, pool, accepted, stmt>> /\ UNCHANGED serverVars
      BY <1>5 DEF AfterFailure
    <2>2. CASE MayRetry(c)
      <3>1. /\ tries' = [tries EXCEPT ![c] = @ + 1] /\ UNCHANGED <<outcome, task>>
            /\ pc' = [pc EXCEPT ![c] = "begin"] /\ pc[c] # "plain"
        BY <1>5, <2>2 DEF AfterFailure, Goto
      <3>2. tries' \in [Conn -> Nat] /\ stmt' \in [Conn -> Nat \ {0}] /\ (\A d \in Conn \ {c} : stmt'[d] = stmt[d])
        BY <3>1, <2>1 DEF TypeOK
      <3>3. ThreadEffect(c)
        BY <2>1, <3>1, <3>2, <1>d
      <3> QED
        BY <3>3, <2>1, <1>a
    <2>3. CASE ~MayRetry(c)
      <3>1. Finish(c, "dropped") /\ UNCHANGED tries
        BY <1>5, <2>3 DEF AfterFailure
      <3>2. ThreadEffect(c)
        BY <1>1, <1>c, <2>1, <3>1
      <3> QED
        BY <3>2, <2>1, <1>a
    <2> QED
      BY <2>2, <2>3
  <1>6. CASE CommitTransaction(c)
    <2>1. UNCHANGED <<queue, pool, accepted, stmt, tries>>
      BY <1>6 DEF CommitTransaction
    <2>2. Finish(c, "done") \/ UNCHANGED <<pc, task, outcome>>
      BY <1>6 DEF CommitTransaction
    <2>3. ThreadEffect(c)
      BY <1>1, <1>c, <2>1, <2>2
    <2>4. \/ /\ CommitPending(c)
             /\ Reconnect(c) \/ (NoError(c) /\ UNCHANGED <<handle, faultVars>>)
          \/ LostBefore(c) \/ NoHandle(c)
      BY <1>6 DEF CommitTransaction
    <2>5. ServerEffect(c)
      BY <1>1, <2>4, CommitEffect, LostBeforeEffect, NoHandleEffect
    <2> QED
      BY <2>3, <2>5
  <1>7. CASE ExecutePlain(c)
    <2>1. <<task[c], 1>> \in Task \X Nat
      BY <1>1
    <2>2. UNCHANGED <<queue, pool, accepted, stmt, tries>>
      BY <1>7 DEF ExecutePlain
    <2>3. Finish(c, "done") \/ Finish(c, "dropped") \/ UNCHANGED <<pc, task, outcome>>
      BY <1>7 DEF ExecutePlain
    <2>4. ThreadEffect(c)
      BY <1>1, <1>c, <2>2, <2>3
    <2>5. \/ /\ Carry(c, <<task[c], 1>>) /\ UNCHANGED inTx
             /\ (Reconnect(c) \/ (NoError(c) /\ UNCHANGED <<handle, faultVars>>))
          \/ /\ \E f \in {"dup", "deadlock"} : Hit(c, f) /\ lastError' = [lastError EXCEPT ![c] = f]
             /\ UNCHANGED <<handle, stored, inTx, pending>>
          \/ LostBefore(c)
          \/ NoHandle(c)
      BY <1>7 DEF ExecutePlain
    <2>6. ServerEffect(c)
      <3>1. CASE /\ Carry(c, <<task[c], 1>>) /\ UNCHANGED inTx
                 /\ (Reconnect(c) \/ (NoError(c) /\ UNCHANGED <<handle, faultVars>>))
        BY <1>1, <2>1, <3>1, CarryEffect
      <3>2. CASE /\ \E f \in {"dup", "deadlock"} : Hit(c, f) /\ lastError' = [lastError EXCEPT ![c] = f]
                 /\ UNCHANGED <<handle, stored, inTx, pending>>
        BY <1>1, <3>2, FaultEffect
      <3>3. CASE LostBefore(c)
        BY <1>1, <3>3, LostBeforeEffect
      <3>4. CASE NoHandle(c)
        BY <1>1, <3>4, NoHandleEffect
      <3> QED
        BY <2>5, <3>1, <3>2, <3>3, <3>4
    <2> QED
      BY <2>4, <2>6
  <1> QED
    BY <1>2, <1>3, <1>4, <1>5, <1>6, <1>7 DEF Execute

-----------------------------------------------------------------------------
(* What a step of ExecuteTransaction leaves in the database.               *)

Others(t) ==
    \A u \in Task \ {t} :
        (NoneStored(u) => NoneStored(u)') /\ (WholeStored(u) => WholeStored(u)')

\* OutcomeIsStored for one operation.
Right(t) == StayedConnected(t) => IF outcome[t] = "done" THEN WholeStored(t) ELSE NoneStored(t)

\* Statements of one operation in the database leave the others as they are.
LEMMA StoredOthers ==
    ASSUME NEW t \in Task, stored \in Seq(Task \X Nat), NEW w \in Seq(Task \X Nat),
           \A i \in DOMAIN w : w[i][1] = t,
           stored' = stored \o w
    PROVE  Others(t)
  <1> DEFINE n == Len(stored)
  <1>1. /\ \A i \in DOMAIN stored : i \in DOMAIN stored' /\ stored'[i] = stored[i]
        /\ \A i \in DOMAIN stored' : \/ i \in DOMAIN stored
                                     \/ i - n \in DOMAIN w /\ stored'[i] = w[i - n]
    <2> DEFINE E == Task \X Nat
    <2>1. stored \in Seq(E) /\ w \in Seq(E)
      OBVIOUS
    <2> HIDE DEF E
    <2> QED
      BY <2>1
  <1>2. \A i \in DOMAIN stored' : i \in DOMAIN stored \/ stored'[i][1] = t
    BY <1>1
  <1>3. ASSUME NEW u \in Task \ {t}, NoneStored(u) PROVE NoneStored(u)'
    BY <1>1, <1>2, <1>3 DEF NoneStored
  <1>4. ASSUME NEW u \in Task \ {t}, WholeStored(u) PROVE WholeStored(u)'
    <2>1. \A k \in 1..size[u] : \E i \in DOMAIN stored' : stored'[i] = <<u, k>>
      BY <1>1, <1>4 DEF WholeStored
    <2>2. \A i \in DOMAIN stored' : stored'[i][1] = u => i \in DOMAIN stored
      BY <1>2, <1>3
    <2>3. \A i \in DOMAIN stored' : stored'[i][1] = u => stored'[i][2] \in 1..size[u]
      BY <1>1, <2>2, <1>4 DEF WholeStored
    <2>4. \A i, j \in DOMAIN stored' :
            i < j /\ stored'[i][1] = u /\ stored'[j][1] = u => stored'[i][2] < stored'[j][2]
      BY <1>1, <2>2, <1>4 DEF WholeStored
    <2> QED
      BY <2>1, <2>3, <2>4 DEF WholeStored
  <1> QED
    BY <1>3, <1>4 DEF Others

\* The statements of an operation that had none in the database, in their order.
LEMMA StoredWhole ==
    ASSUME NEW t \in Task, stored \in Seq(Task \X Nat), NEW w \in Seq(Task \X Nat),
           size[t] \in Nat, Len(w) = size[t],
           \A i \in 1..size[t] : w[i] = <<t, i>>,
           stored' = stored \o w, NoneStored(t)
    PROVE  WholeStored(t)'
  <1> DEFINE n == Len(stored)
  <1>1. /\ n \in Nat
        /\ \A i \in DOMAIN stored' : i \in Nat
        /\ \A i \in DOMAIN stored' : \/ i \in DOMAIN stored /\ stored'[i] = stored[i]
                                     \/ i - n \in 1..size[t] /\ stored'[i] = w[i - n]
        /\ \A k \in 1..size[t] : n + k \in DOMAIN stored' /\ stored'[n + k] = w[k]
    <2> DEFINE E == Task \X Nat
    <2>1. stored \in Seq(E) /\ w \in Seq(E)
      OBVIOUS
    <2> HIDE DEF E
    <2>2. n \in Nat /\ DOMAIN stored' = 1..(n + size[t]) /\ DOMAIN stored = 1..n
      BY <2>1
    <2>3. \A i \in 1..n : stored'[i] = stored[i]
      BY <2>1
    <2>4. \A k \in 1..size[t] : stored'[n + k] = w[k]
      BY <2>1
    <2> HIDE DEF n
    <2>5. n \in Nat /\ size[t] \in Nat
      BY <2>2
    <2>6. ASSUME NEW i \in DOMAIN stored', i > n PROVE i - n \in 1..size[t] /\ stored'[i] = w[i - n]
      <3>1. i \in 1..(n + size[t])
        BY ONLY <2>2, <2>6
      <3>2. i - n \in 1..size[t] /\ i = n + (i - n)
        BY ONLY <2>5, <2>6, <3>1
      <3>3. stored'[n + (i - n)] = w[i - n]
        BY ONLY <2>4, <3>2
      <3> QED
        BY ONLY <3>2, <3>3
    <2>7. \A i \in DOMAIN stored' : i \in Nat /\ (i <= n \/ i > n)
      BY ONLY <2>2, <2>5
    <2>8. \A i \in DOMAIN stored' : i <= n => i \in DOMAIN stored /\ stored'[i] = stored[i]
      BY ONLY <2>2, <2>3, <2>5
    <2>9. \A k \in 1..size[t] : n + k \in DOMAIN stored'
      BY ONLY <2>2, <2>5
    <2> QED
      BY ONLY <2>4, <2>5, <2>6, <2>7, <2>8, <2>9
  <1>2. \A i \in DOMAIN stored' : stored'[i][1] = t => i - n \in 1..size[t] /\ stored'[i] = <<t, i - n>>
    BY <1>1 DEF NoneStored
  <1> HIDE DEF n
  <1>3. \A k \in 1..size[t] : \E i \in DOMAIN stored' : stored'[i] = <<t, k>>
    BY <1>1, ZenonT(30)
  <1>4. \A i \in DOMAIN stored' : stored'[i][1] = t => stored'[i][2] \in 1..size[t]
    BY <1>2, SMTT(20)
  <1>5. \A i, j \in DOMAIN stored' :
          i < j /\ stored'[i][1] = t /\ stored'[j][1] = t => stored'[i][2] < stored'[j][2]
    <2> TAKE i, j \in DOMAIN stored'
    <2> HAVE i < j /\ stored'[i][1] = t /\ stored'[j][1] = t
    <2>1. i \in Nat /\ j \in Nat /\ n \in Nat /\ i - n < j - n
      BY <1>1
    <2>2. stored'[i] = <<t, i - n>> /\ stored'[j] = <<t, j - n>>
      BY <1>2
    <2> QED
      BY <2>1, <2>2
  <1> QED
    BY <1>3, <1>4, <1>5 DEF WholeStored

\* Nothing is stored.
LEMMA StoredSame ==
    ASSUME NEW t \in Task, UNCHANGED stored
    PROVE  Others(t) /\ (NoneStored(t) => NoneStored(t)')
  BY DEF Others, NoneStored, WholeStored

-----------------------------------------------------------------------------
(* Every answer of the server keeps the state of the transaction.          *)

Executing(c, t) ==
    /\ TypeOK /\ Between(c) /\ Sent(c) /\ Right(t)
    /\ task[c] = t /\ outcome[t] = "running" /\ pc[c] \notin {"idle", "exited"}
    /\ pc[c] = "plain" => t \in Plain

Kept(c, t) == Between(c)' /\ Sent(c)' /\ Right(t)' /\ Others(t)

\* Append as a concatenation.
LEMMA AppendOne ==
    ASSUME NEW E, NEW s \in Seq(E), NEW e \in E
    PROVE  Append(s, e) = s \o <<e>> /\ <<e>> \in Seq(E) /\ DOMAIN <<e>> = {1} /\ <<e>>[1] = e
  OBVIOUS

\* Nothing appended.
LEMMA AppendNone ==
    ASSUME NEW E, NEW s \in Seq(E)
    PROVE  s \o <<>> = s
  OBVIOUS

\* The connection is lost: whatever the server had done, no transaction is left,
\* and the operation is no longer one whose connection stayed.
LEMMA CutKept ==
    ASSUME NEW c \in Conn, NEW t \in Task, Executing(c, t), Reconnect(c), UNCHANGED <<pc, task>>,
           ~inTx'[c], pending'[c] = <<>>, Others(t)
    PROVE  Kept(c, t)
  <1>1. met'[t] \cap {"lost", "refused"} # {}
    BY Reconnected DEF Executing
  <1>2. ~StayedConnected(t)'
    BY <1>1 DEF StayedConnected
  <1>3. Sent(c)'
    BY <1>2 DEF Sent, Executing
  <1>4. Right(t)'
    BY <1>2 DEF Right
  <1>5. Between(c)'
    BY DEF Between
  <1> QED
    BY <1>3, <1>4, <1>5 DEF Kept

\* Nothing was done before the connection was lost.
LEMMA LostBeforeKept ==
    ASSUME NEW c \in Conn, NEW t \in Task, Executing(c, t), LostBefore(c), UNCHANGED <<pc, task>>
    PROVE  Kept(c, t)
  <1>1. Reconnect(c) /\ Others(t)
    BY StoredSame DEF LostBefore
  <1>2. ~inTx'[c] /\ pending'[c] = <<>>
    BY DEF LostBefore, Discard, Executing, TypeOK
  <1> QED
    BY <1>1, <1>2, CutKept

\* The statement outside of a transaction was carried out before.
LEMMA LostAfterCarryKept ==
    ASSUME NEW c \in Conn, NEW t \in Task, Executing(c, t), NEW e \in Task \X Nat, e[1] = t,
           ~inTx[c], Reconnect(c), Carry(c, e), UNCHANGED <<pc, task, inTx>>
    PROVE  Kept(c, t)
  <1>1. stored' = Append(stored, e) /\ pending' = pending
    BY DEF Carry
  <1>2. ~inTx'[c] /\ pending'[c] = <<>>
    BY <1>1 DEF Executing, Between
  <1>3. stored \in Seq(Task \X Nat)
    BY DEF Executing, TypeOK
  <1>4. Others(t)
    <2>1. /\ stored' = stored \o <<e>> /\ <<e>> \in Seq(Task \X Nat)
          /\ \A i \in DOMAIN <<e>> : <<e>>[i][1] = t
      BY <1>1, <1>3, AppendOne
    <2> QED
      BY <1>3, <2>1, StoredOthers
  <1> QED
    BY <1>2, <1>4, CutKept

\* The transaction was committed before.
LEMMA LostAfterCommitKept ==
    ASSUME NEW c \in Conn, NEW t \in Task, Executing(c, t),
           Reconnect(c), CommitPending(c), UNCHANGED <<pc, task>>
    PROVE  Kept(c, t)
  <1>1. ~inTx'[c] /\ pending'[c] = <<>>
    BY DEF CommitPending, Discard, Executing, TypeOK
  <1>2. stored' = stored \o pending[c]
    BY DEF CommitPending
  <1>3. stored \in Seq(Task \X Nat) /\ pending[c] \in Seq(Task \X Nat)
    BY DEF Executing, TypeOK
  <1>4. \A i \in DOMAIN pending[c] : pending[c][i][1] = t
    BY DEF Executing, Between
  <1>5. Others(t)
    BY <1>2, <1>3, <1>4, StoredOthers
  <1> QED
    BY <1>1, <1>5, CutKept

\* Without a handle no transaction is open, and an operation that stayed connected
\* has not reached its COMMIT.
LEMMA NoHandleKept ==
    ASSUME NEW c \in Conn, NEW t \in Task, Executing(c, t), NoHandle(c),
           \/ task' = task /\ outcome' = outcome /\ pc'[c] # "commit"
           \/ task'[c] = NoTask /\ outcome'[t] # "done"
           \/ task'[c] = NoTask /\ pc[c] = "commit"
    PROVE  Kept(c, t)
  <1>1. ~handle[c] /\ UNCHANGED <<handle, inTx, pending, stored, met>>
    BY DEF NoHandle, serverVars, faultVars
  <1>2. ~inTx[c] /\ pending[c] = <<>>
    BY <1>1 DEF Executing, Between
  <1>3. Between(c)'
    BY <1>1, <1>2 DEF Between
  <1>4. Others(t) /\ (NoneStored(t) => NoneStored(t)')
    BY <1>1, StoredSame
  <1>5. StayedConnected(t)' => StayedConnected(t)
    BY <1>1 DEF StayedConnected
  <1>6. Sent(c)'
    BY <1>1, <1>2 DEF Sent
  <1>7. StayedConnected(t) => NoneStored(t) /\ pc[c] # "commit"
    BY <1>1, PoolAssumption DEF Executing, Right, Sent
  <1>8. Right(t)'
    BY <1>4, <1>5, <1>7 DEF Right, Executing
  <1> QED
    BY <1>3, <1>4, <1>6, <1>8 DEF Kept

\* The server has nothing of the operation, or gives it up: the transaction goes
\* on elsewhere, or ends without success.
LEMMA NothingSentKept ==
    ASSUME NEW c \in Conn, NEW t \in Task, Executing(c, t),
           UNCHANGED <<handle, stored>>, met[t] \subseteq met'[t],
           pc'[c] \notin {"exec", "commit"},
           UNCHANGED <<inTx, pending>> \/ Discard(c),
           pc'[c] \in {"idle", "begin", "plain", "failed", "exited"} => ~inTx'[c],
           \/ task' = task /\ outcome' = outcome
           \/ task'[c] = NoTask /\ ~inTx'[c] /\ outcome'[t] # "done"
    PROVE  Kept(c, t)
  <1>1. \/ inTx'[c] = inTx[c] /\ pending'[c] = pending[c]
        \/ ~inTx'[c] /\ pending'[c] = <<>>
    BY DEF Discard, Executing, TypeOK
  <1>2. Between(c)'
    BY <1>1 DEF Between, Executing
  <1>3. Sent(c)'
    BY DEF Sent
  <1>4. Others(t) /\ (NoneStored(t) => NoneStored(t)')
    BY StoredSame
  <1>5. StayedConnected(t)' => StayedConnected(t)
    BY DEF StayedConnected
  <1>6. Right(t)'
    BY <1>4, <1>5 DEF Right, Executing
  <1> QED
    BY <1>2, <1>3, <1>4, <1>6 DEF Kept

\* START TRANSACTION: a transaction is open, with nothing in it.
LEMMA BeginTransactionKept ==
    ASSUME NEW c \in Conn, NEW t \in Task, Executing(c, t), BeginTransaction(c)
    PROVE  Kept(c, t)
  <1>1. task' = task /\ outcome' = outcome /\ pc[c] = "begin" /\ ~inTx[c] /\ pending[c] = <<>>
    BY DEF BeginTransaction, poolVars, Executing, Between
  <1>2. CASE size[task[c]] = 0
    <2>1. UNCHANGED serverVars /\ pc'[c] = "failed"
      BY <1>2 DEF BeginTransaction, Goto, Executing, TypeOK
    <2> QED
      BY <1>1, <2>1, NothingSentKept DEF serverVars, faultVars
  <1>3. CASE /\ handle[c] /\ Goto(c, "exec") /\ inTx' = [inTx EXCEPT ![c] = TRUE]
             /\ stored' = stored \o pending[c]
             /\ pending' = [pending EXCEPT ![c] = <<>>]
             /\ UNCHANGED <<handle, faultVars>> /\ stmt' = [stmt EXCEPT ![c] = 1]
             /\ size[task[c]] # 0
    <2>1. stored' = stored
      <3>1. stored \in Seq(Task \X Nat)
        BY DEF Executing, TypeOK
      <3> QED
        BY <1>1, <1>3, <3>1, AppendNone
    <2>2. /\ handle'[c] = handle[c] /\ inTx'[c] /\ pending'[c] = <<>> /\ stmt'[c] = 1
          /\ pc'[c] = "exec" /\ met' = met
      BY <1>3 DEF Executing, TypeOK, Goto, faultVars
    <2>3. Between(c)'
      BY <1>1, <1>3, <2>2 DEF Between
    <2>4. 1 <= size[t]
      BY <1>3, PoolAssumption DEF Executing
    <2>5. Sent(c)'
      BY <1>1, <2>2, <2>4 DEF Sent, Executing
    <2>6. Others(t) /\ (NoneStored(t) => NoneStored(t)')
      BY <2>1, StoredSame
    <2>7. Right(t)'
      BY <1>1, <2>2, <2>6 DEF Right, Executing, StayedConnected
    <2> QED
      BY <2>3, <2>5, <2>6, <2>7 DEF Kept
  <1>4. CASE LostBefore(c) /\ UNCHANGED pc
    BY <1>1, <1>4, LostBeforeKept
  <1>5. CASE NoHandle(c) /\ Goto(c, "exec")
    <2>1. pc'[c] # "commit"
      BY <1>5 DEF Goto, Executing, TypeOK
    <2> QED
      BY <1>1, <1>5, <2>1, NoHandleKept
  <1> QED
    BY <1>2, <1>3, <1>4, <1>5 DEF BeginTransaction

\* ROLLBACK: nothing of the transaction is left.
LEMMA RollbackTransactionKept ==
    ASSUME NEW c \in Conn, NEW t \in Task, Executing(c, t), RollbackTransaction(c)
    PROVE  Kept(c, t)
  <1>1. task' = task /\ outcome' = outcome /\ pc[c] = "rollback"
    BY DEF RollbackTransaction, poolVars
  <1>2. CASE /\ Goto(c, "failed") /\ Discard(c) /\ UNCHANGED <<handle, stored, faultVars>>
    <2>1. pc'[c] = "failed" /\ ~inTx'[c] /\ met' = met
      BY <1>2 DEF Goto, Discard, Executing, TypeOK, faultVars
    <2> QED
      BY <1>1, <1>2, <2>1, NothingSentKept
  <1>3. CASE LostBefore(c) /\ UNCHANGED pc
    BY <1>1, <1>3, LostBeforeKept
  <1>4. CASE NoHandle(c) /\ Goto(c, "failed")
    <2>1. pc'[c] # "commit"
      BY <1>4 DEF Goto, Executing, TypeOK
    <2> QED
      BY <1>1, <1>4, <2>1, NoHandleKept
  <1> QED
    BY <1>2, <1>3, <1>4 DEF RollbackTransaction

\* TransactionTask::Execute after a failure: retry, or give up.
LEMMA AfterFailureKept ==
    ASSUME NEW c \in Conn, NEW t \in Task, Executing(c, t), AfterFailure(c)
    PROVE  Kept(c, t)
  <1>1. pc[c] = "failed" /\ UNCHANGED <<handle, stored, inTx, pending, met>> /\ ~inTx[c]
    BY DEF AfterFailure, serverVars, faultVars, Executing, Between
  <1>2. \/ task' = task /\ outcome' = outcome /\ pc'[c] = "begin"
        \/ task'[c] = NoTask /\ outcome'[t] = "dropped" /\ pc'[c] = "idle"
    BY DEF AfterFailure, Finish, Goto, AfterOperation, Executing, TypeOK
  <1> QED
    BY <1>1, <1>2, NothingSentKept

\* A statement of the transaction is carried out: it is the next one.
LEMMA StatementCarried ==
    ASSUME NEW c \in Conn, NEW t \in Task, Executing(c, t), pc[c] = "exec", handle[c],
           Carry(c, <<t, stmt[c]>>),
           UNCHANGED <<task, outcome, handle, inTx, met>>,
           stmt'[c] = stmt[c] + 1,
           pc'[c] = IF stmt[c] = size[t] THEN "commit" ELSE "exec"
    PROVE  Kept(c, t)
  <1> DEFINE e == <<t, stmt[c]>>
             E == Task \X Nat
  <1>1. stored \in Seq(E) /\ pending \in [Conn -> Seq(E)] /\ e \in E /\ e[1] = t
    BY DEF Executing, TypeOK
  <1>2. stmt[c] \in Nat \ {0} /\ size[t] \in Nat
    BY PoolAssumption DEF Executing, TypeOK
  <1>3. StayedConnected(t)' => StayedConnected(t)
    BY DEF StayedConnected
  <1>4. CASE inTx[c]
    <2> HIDE DEF e, E
    <2>1. stored' = stored /\ pending'[c] = Append(pending[c], e) /\ pending[c] \in Seq(E)
      BY <1>1, <1>4 DEF Carry, e
    <2>2. /\ DOMAIN pending'[c] = 1..(Len(pending[c]) + 1) /\ Len(pending[c]) \in Nat
          /\ Len(pending'[c]) = Len(pending[c]) + 1
          /\ DOMAIN pending[c] = 1..Len(pending[c])
          /\ \A i \in 1..Len(pending[c]) : pending'[c][i] = pending[c][i]
          /\ pending'[c][Len(pending[c]) + 1] = e
      BY <1>1, <2>1
    <2>3. Others(t) /\ (NoneStored(t) => NoneStored(t)')
      BY <2>1, StoredSame
    <2>4. Right(t)'
      BY <1>3, <2>3 DEF Right, Executing
    <2>5. \A i \in DOMAIN pending'[c] : pending'[c][i][1] = t
      <3>1. \A i \in 1..Len(pending[c]) : pending[c][i][1] = t
        BY <2>2 DEF Executing, Between
      <3>2. \A i \in 1..(Len(pending[c]) + 1) : i \in 1..Len(pending[c]) \/ i = Len(pending[c]) + 1
        BY <2>2
      <3> QED
        BY <1>1, <2>2, <3>1, <3>2
    <2>6. Between(c)'
      BY <1>4, <2>5 DEF Between, Executing
    <2>7. ASSUME StayedConnected(t)' PROVE Sent(c)'
      <3>1. /\ stmt[c] <= size[t] /\ Len(pending[c]) = stmt[c] - 1
            /\ \A i \in 1..Len(pending[c]) : pending[c][i] = <<t, i>>
        BY <1>3, <2>7, PoolAssumption DEF Sent, Executing
      <3>2. Len(pending'[c]) = stmt[c]
        BY <1>2, <2>2, <3>1
      <3>3. \A i \in 1..Len(pending'[c]) : pending'[c][i] = <<t, i>>
        <4>1. \A i \in 1..stmt[c] : i \in 1..Len(pending[c]) \/ i = stmt[c]
          BY <1>2, <3>1
        <4>4. Len(pending[c]) + 1 = stmt[c]
          BY <1>2, <3>1
        <4>2. pending'[c][stmt[c]] = <<t, stmt[c]>>
          BY <2>2, <4>4 DEF e
        <4>3. \A i \in 1..Len(pending[c]) : pending'[c][i] = <<t, i>>
          BY <2>2, <3>1
        <4> QED
          BY <3>2, <4>1, <4>2, <4>3
      <3>4. CASE stmt[c] = size[t]
        BY <1>4, <3>2, <3>3, <3>4 DEF Sent, Executing
      <3>5. CASE stmt[c] # size[t]
        <4>1. stmt'[c] <= size[t] /\ stmt'[c] - 1 = stmt[c]
          BY <1>2, <3>1, <3>5
        <4> QED
          BY <1>4, <3>2, <3>3, <3>5, <4>1 DEF Sent, Executing
      <3> QED
        BY <3>4, <3>5
    <2>8. Sent(c)'
      BY <2>7 DEF Sent, Executing
    <2> QED
      BY <2>3, <2>4, <2>6, <2>8 DEF Kept
  <1>5. CASE ~inTx[c]
    <2> HIDE DEF e, E
    <2>1. ~StayedConnected(t)
      BY <1>5, PoolAssumption DEF Executing, Sent
    <2>2. stored' = Append(stored, e) /\ pending' = pending /\ pending[c] = <<>>
      BY <1>5 DEF Carry, Executing, Between, e
    <2>3. Others(t)
      <3>1. /\ stored' = stored \o <<e>> /\ <<e>> \in Seq(E) /\ \A i \in DOMAIN <<e>> : <<e>>[i][1] = t
        BY <1>1, <2>2, AppendOne
      <3> QED
        BY <1>1, <3>1, StoredOthers DEF E
    <2>4. Right(t)' /\ Sent(c)'
      BY <1>3, <2>1 DEF Right, Sent, Executing
    <2>5. Between(c)'
      BY <1>5, <2>2 DEF Between
    <2> QED
      BY <2>3, <2>4, <2>5 DEF Kept
  <1> QED
    BY <1>4, <1>5

\* A statement of a transaction, in all its outcomes.
LEMMA ExecuteStatementKept ==
    ASSUME NEW c \in Conn, NEW t \in Task, Executing(c, t), ExecuteStatement(c)
    PROVE  Kept(c, t)
  <1>1. task' = task /\ outcome' = outcome /\ pc[c] = "exec" /\ task[c] = t
    BY DEF ExecuteStatement, poolVars, Executing
  <1>2. CASE /\ handle[c] /\ Carry(c, StatementAt(task[c], stmt[c]))
             /\ stmt' = [stmt EXCEPT ![c] = @ + 1]
             /\ Goto(c, IF stmt[c] = size[task[c]] THEN "commit" ELSE "exec")
             /\ UNCHANGED <<handle, inTx, faultVars>>
    <2>1. /\ stmt'[c] = stmt[c] + 1
          /\ pc'[c] = IF stmt[c] = size[t] THEN "commit" ELSE "exec"
      BY <1>1, <1>2 DEF Goto, Executing, TypeOK
    <2>2. Carry(c, <<t, stmt[c]>>) /\ UNCHANGED <<handle, inTx, met>>
      BY <1>1, <1>2 DEF StatementAt, faultVars
    <2> QED
      BY <1>1, <1>2, <2>1, <2>2, StatementCarried
  <1>3. CASE /\ Hit(c, "dup") \/ Hit(c, "deadlock")
             /\ UNCHANGED <<inTx, pending>> \/ Discard(c)
             /\ Goto(c, "rollback")
             /\ UNCHANGED <<handle, stored>>
    <2>1. met[t] \subseteq met'[t]
      BY <1>1, <1>3, HitFault DEF Executing
    <2>2. pc'[c] = "rollback"
      BY <1>3 DEF Goto, Executing, TypeOK
    <2> QED
      BY <1>1, <1>3, <2>1, <2>2, NothingSentKept
  <1>4. CASE LostBefore(c) /\ UNCHANGED pc
    BY <1>1, <1>4, LostBeforeKept
  <1>5. CASE ~inTx[c] /\ Reconnect(c) /\ Carry(c, StatementAt(task[c], stmt[c])) /\ UNCHANGED <<pc, inTx>>
    <2>1. StatementAt(task[c], stmt[c]) \in Task \X Nat /\ StatementAt(task[c], stmt[c])[1] = t
      BY <1>1 DEF StatementAt, Executing, TypeOK
    <2> QED
      BY <1>1, <1>5, <2>1, LostAfterCarryKept
  <1>6. CASE NoHandle(c) /\ Goto(c, "rollback")
    <2>1. pc'[c] # "commit"
      BY <1>6 DEF Goto, Executing, TypeOK
    <2> QED
      BY <1>1, <1>6, <2>1, NoHandleKept
  <1> QED
    BY <1>2, <1>3, <1>4, <1>5, <1>6 DEF ExecuteStatement

\* COMMIT, in all its outcomes.
LEMMA CommitTransactionKept ==
    ASSUME NEW c \in Conn, NEW t \in Task, Executing(c, t), CommitTransaction(c)
    PROVE  Kept(c, t)
  <1>1. pc[c] = "commit" /\ task[c] = t
    BY DEF CommitTransaction, Executing
  <1>2. CASE /\ handle[c] /\ CommitPending(c) /\ Finish(c, "done")
             /\ UNCHANGED <<handle, faultVars>>
    <2>1. /\ ~inTx'[c] /\ pending'[c] = <<>> /\ stored' = stored \o pending[c] /\ met' = met
          /\ task'[c] = NoTask /\ outcome'[t] = "done" /\ pc'[c] = "idle"
      BY <1>1, <1>2 DEF CommitPending, Discard, Finish, Goto, AfterOperation, Executing, TypeOK, faultVars
    <2>2. Between(c)' /\ Sent(c)'
      BY <2>1 DEF Between, Sent
    <2>3. /\ stored \in Seq(Task \X Nat) /\ pending[c] \in Seq(Task \X Nat) /\ size[t] \in Nat
          /\ \A i \in DOMAIN pending[c] : pending[c][i][1] = t
      BY <1>1, PoolAssumption DEF Executing, TypeOK, Between
    <2>4. Others(t)
      BY <2>1, <2>3, StoredOthers
    <2>5. ASSUME StayedConnected(t)' PROVE WholeStored(t)'
      <3>1. StayedConnected(t)
        BY <2>1, <2>5 DEF StayedConnected
      <3>2. Len(pending[c]) = size[t] /\ (\A i \in 1..size[t] : pending[c][i] = <<t, i>>) /\ NoneStored(t)
        BY <1>1, <3>1, PoolAssumption DEF Executing, Sent, Right
      <3> QED
        BY <2>1, <2>3, <3>2, StoredWhole
    <2>6. Right(t)'
      BY <2>1, <2>5 DEF Right
    <2> QED
      BY <2>2, <2>4, <2>6 DEF Kept
  <1>3. CASE LostBefore(c) /\ UNCHANGED <<pc, task>>
    BY <1>3, LostBeforeKept
  <1>4. CASE Reconnect(c) /\ CommitPending(c) /\ UNCHANGED <<pc, task>>
    BY <1>4, LostAfterCommitKept
  <1>5. CASE NoHandle(c) /\ Finish(c, "done")
    <2>1. task'[c] = NoTask
      BY <1>5 DEF Finish, Executing, TypeOK
    <2> QED
      BY <1>1, <1>5, <2>1, NoHandleKept
  <1> QED
    BY <1>2, <1>3, <1>4, <1>5 DEF CommitTransaction

\* A statement outside of a transaction, in all its outcomes.
LEMMA ExecutePlainKept ==
    ASSUME NEW c \in Conn, NEW t \in Task, Executing(c, t), ExecutePlain(c)
    PROVE  Kept(c, t)
  <1>1. pc[c] = "plain" /\ task[c] = t /\ t \in Plain /\ size[t] = 1 /\ ~inTx[c] /\ pending[c] = <<>>
    BY PoolAssumption DEF ExecutePlain, Executing, Between
  <1>2. CASE /\ handle[c] /\ Carry(c, <<task[c], 1>>) /\ Finish(c, "done")
             /\ UNCHANGED <<handle, inTx, faultVars>>
    <2>1. /\ ~inTx'[c] /\ pending'[c] = <<>> /\ stored' = Append(stored, <<t, 1>>) /\ met' = met
          /\ task'[c] = NoTask /\ outcome'[t] = "done" /\ pc'[c] = "idle"
      BY <1>1, <1>2 DEF Carry, Finish, Goto, AfterOperation, Executing, TypeOK, faultVars
    <2>2. Between(c)' /\ Sent(c)'
      BY <2>1 DEF Between, Sent
    <2>3. stored \in Seq(Task \X Nat) /\ <<t, 1>> \in Task \X Nat
      BY DEF Executing, TypeOK
    <2>4. /\ stored' = stored \o << <<t, 1>> >> /\ << <<t, 1>> >> \in Seq(Task \X Nat)
          /\ \A i \in DOMAIN << <<t, 1>> >> : << <<t, 1>> >>[i][1] = t
      <3>1. << <<t, 1>> >> \in Seq(Task \X Nat) /\ Append(stored, <<t, 1>>) = stored \o << <<t, 1>> >>
        <4> DEFINE e == <<t, 1>>
                   E == Task \X Nat
        <4>1. stored \in Seq(E) /\ e \in E
          BY <2>3
        <4> HIDE DEF e, E
        <4>2. Append(stored, e) = stored \o <<e>> /\ <<e>> \in Seq(E)
          BY <4>1, AppendOne
        <4> QED
          BY <4>2 DEF e, E
      <3>2. \A i \in DOMAIN << <<t, 1>> >> : << <<t, 1>> >>[i][1] = t
        OBVIOUS
      <3> QED
        BY <2>1, <3>1, <3>2
    <2>5. Others(t)
      BY <2>3, <2>4, StoredOthers
    <2>6. ASSUME StayedConnected(t)' PROVE WholeStored(t)'
      <3>1. NoneStored(t)
        BY <2>1, <2>6 DEF StayedConnected, Executing, Right
      <3>2. Len(<< <<t, 1>> >>) = size[t] /\ \A i \in 1..size[t] : << <<t, 1>> >>[i] = <<t, i>>
        BY <1>1
      <3> QED
        BY <1>1, <2>3, <2>4, <3>1, <3>2, StoredWhole
    <2>7. Right(t)'
      BY <2>1, <2>6 DEF Right
    <2> QED
      BY <2>2, <2>5, <2>7 DEF Kept
  <1>3. CASE /\ \E f \in {"dup", "deadlock"} : Hit(c, f)
             /\ Finish(c, "dropped") /\ UNCHANGED <<handle, inTx, pending, stored>>
    <2>1. met[t] \subseteq met'[t]
      BY <1>1, <1>3, HitFault DEF Executing
    <2>2. task'[c] = NoTask /\ outcome'[t] # "done" /\ pc'[c] = "idle"
      BY <1>1, <1>3 DEF Finish, Goto, AfterOperation, Executing, TypeOK
    <2> QED
      BY <1>1, <1>3, <2>1, <2>2, NothingSentKept
  <1>4. CASE LostBefore(c) /\ UNCHANGED <<pc, task>>
    BY <1>4, LostBeforeKept
  <1>5. CASE Reconnect(c) /\ Carry(c, <<task[c], 1>>) /\ UNCHANGED <<pc, task, inTx>>
    <2>1. <<task[c], 1>> \in Task \X Nat /\ <<task[c], 1>>[1] = t
      BY <1>1
    <2> QED
      BY <1>1, <1>5, <2>1, LostAfterCarryKept
  <1>6. CASE NoHandle(c) /\ Finish(c, "dropped")
    <2>1. task'[c] = NoTask /\ outcome'[t] # "done"
      BY <1>1, <1>6 DEF Finish, Executing, TypeOK
    <2> QED
      BY <1>6, <2>1, NoHandleKept
  <1> QED
    BY <1>2, <1>3, <1>4, <1>5, <1>6 DEF ExecutePlain

-----------------------------------------------------------------------------
(* Every step keeps the invariant.                                         *)

\* A step of the thread that executes an operation.
LEMMA ExecuteKeepsIInv ==
    ASSUME IInv, NEW c \in Conn, Execute(c)
    PROVE  IInv'
  <1> USE DEF IInv
  <1>1. PICK t \in Task : task[c] = t
    BY ExecutedTask
  <1>2. pc[c] \notin {"idle", "exited"} /\ outcome[t] = "running"
    BY <1>1, ExecutedTask, PoolAssumption DEF Running
  <1>3. Executing(c, t)
    BY <1>1, <1>2 DEF Executing, Connections, Progress, Running, OutcomeIsStored, Right
  <1>4. Kept(c, t)
    BY <1>3, BeginTransactionKept, ExecuteStatementKept, RollbackTransactionKept, AfterFailureKept,
       CommitTransactionKept, ExecutePlainKept DEF Execute
  <1>5. TypeOK' /\ Effect(c)
    BY ExecuteEffect
  <1>6. \A d \in Conn \ {c} : task[d] # t
    BY <1>1, PoolAssumption DEF Running
  <1>7. Connections'
    <2>1. ASSUME NEW d \in Conn \ {c} PROVE Between(d)'
      BY <1>5 DEF Connections, Between, Effect
    <2> QED
      BY <1>4, <2>1 DEF Connections, Kept
  <1>8. Progress'
    <2>1. ASSUME NEW d \in Conn \ {c} PROVE Sent(d)'
      <3>1. task'[d] = task[d] /\ (task[d] # NoTask => met'[task[d]] = met[task[d]])
        BY <1>1, <1>5, <1>6 DEF Effect, TypeOK
      <3> QED
        BY <1>5, <3>1 DEF Progress, Sent, Effect, StayedConnected
    <2> QED
      BY <1>4, <2>1 DEF Progress, Kept
  <1>9. /\ \A d \in Conn \ {c} : task'[d] = task[d] /\ pc'[d] = pc[d]
        /\ \A u \in Task \ {t} : outcome'[u] = outcome[u] /\ met'[u] = met[u]
        /\ \/ outcome' = outcome /\ task'[c] = t /\ (pc'[c] = "plain" => pc[c] = "plain")
           \/ outcome'[t] \in {"done", "dropped"} /\ task'[c] = NoTask /\ pc'[c] = "idle"
        /\ UNCHANGED <<queue, pool, accepted>>
    BY <1>1, <1>5 DEF Effect
  <1>10. Running'
    <2>1. ASSUME NEW d \in Conn, task'[d] # NoTask PROVE outcome'[task'[d]] = "running"
      <3>1. CASE d = c
        BY <1>2, <1>9, <2>1, <3>1
      <3>2. CASE d # c
        <4>1. task'[d] = task[d] /\ task[d] \in Task \ {t}
          BY <1>6, <1>9, <2>1, <3>2 DEF TypeOK
        <4> QED
          BY <1>9, <2>1, <4>1 DEF Running
      <3> QED
        BY <3>1, <3>2
    <2>2. \A d \in Conn : pc'[d] = "plain" => task'[d] \in Plain
      BY <1>1, <1>9 DEF Running
    <2>3. \A u \in Task : outcome'[u] = "running" => \E d \in Conn : task'[d] = u
      BY <1>1, <1>9 DEF Running
    <2>4. \A i \in DOMAIN accepted' :
             outcome'[accepted'[i]] = "running" => \E d \in Worker : task'[d] = accepted'[i]
      <3> TAKE i \in DOMAIN accepted'
      <3> HAVE outcome'[accepted'[i]] = "running"
      <3>1. accepted'[i] = accepted[i] /\ accepted[i] \in Task /\ i \in DOMAIN accepted
        BY <1>9 DEF TypeOK
      <3>2. outcome[accepted[i]] = "running"
        BY <1>2, <1>9, <3>1
      <3>3. PICK d \in Worker : task[d] = accepted[i]
        BY <3>1, <3>2 DEF Running
      <3>4. task'[d] = task[d]
        BY <1>1, <1>9, <3>1, <3>3 DEF Conn
      <3> QED
        BY <3>1, <3>3, <3>4
    <2>5. \A d, b \in Conn : task'[d] = task'[b] /\ task'[d] # NoTask => d = b
      BY <1>1, <1>6, <1>9 DEF Running
    <2> QED
      BY <2>1, <2>2, <2>3, <2>4, <2>5 DEF Running
  <1>11. Waiting'
    <2>1. \A u \in Task : \A o \in {"new", "queued", "flushed"} : outcome'[u] = o <=> outcome[u] = o
      BY <1>2, <1>9
    <2>2. \A i \in 1..Len(accepted) : accepted[i] \in Task
      BY DEF TypeOK
    <2> QED
      BY <1>9, <2>1, <2>2 DEF Waiting
  <1>12. Closing'
    BY <1>2, <1>9 DEF Closing, Conn
  <1>13. OutcomeIsStored'
    <2>1. ASSUME NEW u \in Task \ {t} PROVE Right(u)'
      <3>1. Right(u)
        BY DEF OutcomeIsStored, Right
      <3> QED
        BY <1>4, <1>9, <3>1 DEF Kept, Others, Right, StayedConnected
    <2>2. \A u \in Task : Right(u)'
      BY <1>4, <2>1 DEF Kept
    <2> QED
      BY <2>2 DEF OutcomeIsStored, Right
  <1> QED
    BY <1>5, <1>7, <1>8, <1>10, <1>11, <1>12, <1>13

\* A step that stores nothing and starts or refuses operations that are not done.
LEMMA OutcomeKept ==
    ASSUME IInv, UNCHANGED <<met, stored>>,
           \A t \in Task : outcome'[t] = "done" <=> outcome[t] = "done"
    PROVE  OutcomeIsStored'
  BY DEF IInv, OutcomeIsStored, StayedConnected, NoneStored, WholeStored

\* An idle connection starts an operation that no connection executes: no
\* transaction is open on it.
LEMMA StartKept ==
    ASSUME IInv, NEW c \in Conn, NEW t \in Task, pc[c] = "idle", Start(c, t),
           outcome[t] \in {"new", "queued"},
           outcome' = [outcome EXCEPT ![t] = "running"],
           UNCHANGED <<accepted, serverVars>>,
           outcome[t] = "new" \/ c \in Worker
    PROVE  Connections' /\ Progress' /\ Running' /\ OutcomeIsStored'
  <1> USE DEF IInv
  <1>1. /\ task[c] = NoTask /\ task'[c] = t /\ pc'[c] = FirstStep(t)
        /\ \A d \in Conn \ {c} : task'[d] = task[d] /\ pc'[d] = pc[d] /\ stmt'[d] = stmt[d]
        /\ \A u \in Task \ {t} : outcome'[u] = outcome[u]
        /\ outcome'[t] = "running" /\ t # NoTask
    BY PoolAssumption DEF Start, Goto, TypeOK
  <1>2. UNCHANGED <<handle, inTx, pending, stored, met>>
    BY DEF serverVars, faultVars
  <1>3. \A d \in Conn : task[d] # t
    BY PoolAssumption DEF Running
  <1>4. FirstStep(t) \in {"begin", "plain"} /\ (FirstStep(t) = "plain" => t \in Plain)
    BY DEF FirstStep
  <1>5. Connections'
    <2>1. ~inTx[c] /\ pending[c] = <<>>
      BY DEF Connections, Between
    <2>2. Between(c)'
      BY <1>1, <1>2, <2>1 DEF Between
    <2>3. ASSUME NEW d \in Conn \ {c} PROVE Between(d)'
      BY <1>1, <1>2 DEF Between, Connections
    <2> QED
      BY <2>2, <2>3 DEF Connections
  <1>6. Progress'
    <2>1. Sent(c)'
      BY <1>1, <1>4 DEF Sent
    <2>2. ASSUME NEW d \in Conn \ {c} PROVE Sent(d)'
      BY <1>1, <1>2 DEF Sent, Progress, StayedConnected
    <2> QED
      BY <2>1, <2>2 DEF Progress
  <1>7. Running'
    <2>1. ASSUME NEW d \in Conn, task'[d] # NoTask PROVE outcome'[task'[d]] = "running"
      <3>1. CASE d = c
        BY <1>1, <3>1
      <3>2. CASE d # c
        <4>1. task'[d] = task[d] /\ task[d] \in Task \ {t}
          BY <1>1, <1>3, <2>1, <3>2 DEF TypeOK
        <4> QED
          BY <1>1, <2>1, <4>1 DEF Running
      <3> QED
        BY <3>1, <3>2
    <2>2. \A d \in Conn : pc'[d] = "plain" => task'[d] \in Plain
      BY <1>1, <1>4 DEF Running
    <2>3. \A u \in Task : outcome'[u] = "running" => \E d \in Conn : task'[d] = u
      <3> TAKE u \in Task
      <3>1. CASE u = t
        BY <1>1, <3>1
      <3>2. CASE u # t
        BY <1>1, <3>2, PoolAssumption DEF Running
      <3> QED
        BY <3>1, <3>2
    <2>4. \A i \in DOMAIN accepted' :
             outcome'[accepted'[i]] = "running" => \E d \in Worker : task'[d] = accepted'[i]
      <3> TAKE i \in DOMAIN accepted'
      <3> HAVE outcome'[accepted'[i]] = "running"
      <3>1. accepted'[i] = accepted[i] /\ accepted[i] \in Task /\ i \in DOMAIN accepted
        BY DEF TypeOK
      <3>2. CASE accepted[i] = t
        <4>1. i \in 1..Len(accepted)
          BY <3>1 DEF TypeOK
        <4>2. c \in Worker
          BY <3>2, <4>1 DEF Waiting
        <4> QED
          BY <1>1, <3>1, <3>2, <4>2
      <3>3. CASE accepted[i] # t
        <4>1. outcome[accepted[i]] = "running"
          BY <1>1, <3>1, <3>3
        <4>2. PICK d \in Worker : task[d] = accepted[i]
          BY <3>1, <4>1 DEF Running
        <4>3. task'[d] = task[d]
          BY <1>1, <3>1, <4>2, PoolAssumption DEF Conn
        <4> QED
          BY <3>1, <4>2, <4>3
      <3> QED
        BY <3>2, <3>3
    <2>5. \A d, b \in Conn : task'[d] = task'[b] /\ task'[d] # NoTask => d = b
      BY <1>1, <1>3 DEF Running
    <2> QED
      BY <2>1, <2>2, <2>3, <2>4, <2>5 DEF Running
  <1>8. OutcomeIsStored'
    BY <1>1, <1>2, OutcomeKept
  <1> QED
    BY <1>5, <1>6, <1>7, <1>8

\* The caller executes the operation itself.
LEMMA DirectKeepsIInv ==
    ASSUME IInv, NEW t \in Task, NEW c \in Conn, Direct(c, t)
    PROVE  IInv'
  <1> USE DEF IInv
  <1>1. /\ Start(c, t) /\ pc[c] = "idle" /\ outcome[t] = "new" /\ pool = "open"
        /\ outcome' = [outcome EXCEPT ![t] = "running"]
        /\ UNCHANGED <<queue, pool, accepted, serverVars>>
    BY DEF Direct
  <1>2. Connections' /\ Progress' /\ Running' /\ OutcomeIsStored'
    BY <1>1, StartKept
  <1>3. TypeOK'
    BY <1>1, PoolAssumption DEF TypeOK, Start, Goto, FirstStep, serverVars, faultVars
  <1>4. Waiting'
    <2>1. \A u \in Task : \A o \in {"queued", "flushed"} : outcome'[u] = o <=> outcome[u] = o
      BY <1>1 DEF TypeOK
    <2>2. \A u \in Task : outcome'[u] = "new" => outcome[u] = "new"
      BY <1>1 DEF TypeOK
    <2>3. \A i \in 1..Len(accepted) : accepted[i] \in Task
      BY DEF TypeOK
    <2>4. \A i \in 1..Len(accepted) : outcome'[accepted[i]] = "queued" <=> outcome[accepted[i]] = "queued"
      BY <2>1, <2>3
    <2>5. \A i \in 1..Len(accepted) : outcome'[accepted[i]] # "new"
      BY <2>2, <2>3 DEF Waiting
    <2>6. \A u \in Task : outcome'[u] # "flushed"
      BY <1>1, <2>1 DEF Waiting
    <2>7. \A u \in Task : outcome'[u] = "queued" => \E i \in 1..Len(accepted) : accepted[i] = u
      BY <2>1 DEF Waiting
    <2>8. queue' = queue /\ pool' = "open" /\ accepted' = accepted
      BY <1>1
    <2>9. /\ Len(queue) <= Len(accepted)
          /\ \A i \in 1..Len(queue) : queue[i] = accepted[Len(accepted) - Len(queue) + i]
          /\ \A i \in 1..Len(accepted) : outcome[accepted[i]] = "queued" <=> i > Len(accepted) - Len(queue)
          /\ \A i, j \in 1..Len(accepted) : accepted[i] = accepted[j] => i = j
      BY <1>1 DEF Waiting
    <2> QED
      BY <2>4, <2>5, <2>6, <2>7, <2>8, <2>9 DEF Waiting
  <1>5. Closing'
    BY <1>1 DEF Closing
  <1> QED
    BY <1>2, <1>3, <1>4, <1>5

\* A worker takes the operation accepted first of those that wait.
LEMMA DequeueKeepsIInv ==
    ASSUME IInv, NEW c \in Conn, Dequeue(c)
    PROVE  IInv'
  <1> USE DEF IInv
  <1>1. PICK t \in Task : /\ t = Head(queue) /\ Start(c, t) /\ queue' = Tail(queue)
                          /\ outcome' = [outcome EXCEPT ![t] = "running"]
    <2>1. queue # <<>> /\ queue \in Seq(Task)
      BY DEF Dequeue, TypeOK
    <2>2. Head(queue) \in Task
      BY <2>1
    <2> QED
      BY <2>2 DEF Dequeue, Take
  <1>2. /\ pc[c] = "idle" /\ pool = "open" /\ c \in Worker /\ queue # <<>>
        /\ UNCHANGED <<pool, accepted, serverVars>>
    BY DEF Dequeue
  <1> DEFINE n == Len(accepted)
             m == Len(queue)
  <1>3. /\ n \in Nat /\ m \in Nat /\ 1 <= m /\ m <= n
        /\ queue' \in Seq(Task) /\ Len(queue') = m - 1
        /\ \A i \in 1..(m - 1) : queue'[i] = queue[i + 1]
        /\ t = queue[1]
        /\ \A i \in 1..n : accepted[i] \in Task
    BY <1>1, <1>2 DEF TypeOK, Waiting
  <1> HIDE DEF n, m
  <1>4. t = accepted[n - m + 1] /\ n - m + 1 \in 1..n /\ outcome[t] = "queued"
    <2>1. n - m + 1 \in 1..n /\ n - m + 1 > n - m
      BY <1>3
    <2>2. queue[1] = accepted[n - m + 1]
      BY <1>2, <1>3 DEF Waiting, n, m
    <2>3. outcome[accepted[n - m + 1]] = "queued"
      BY <1>2, <2>1 DEF Waiting, n, m
    <2> QED
      BY <1>3, <2>1, <2>2, <2>3
  <1>5. Connections' /\ Progress' /\ Running' /\ OutcomeIsStored'
    BY <1>1, <1>2, <1>4, StartKept
  <1>6. TypeOK'
    BY <1>1, <1>2, <1>3, PoolAssumption DEF TypeOK, Start, Goto, FirstStep, serverVars, faultVars
  <1>7. Waiting'
    <2>1. /\ \A u \in Task \ {t} : outcome'[u] = outcome[u]
          /\ outcome'[t] = "running"
      BY <1>1 DEF TypeOK
    <2>2. pool' = "open" /\ accepted' = accepted /\ Len(accepted') = n /\ Len(queue') = m - 1
      BY <1>2, <1>3 DEF n
    <2>3. \A i \in 1..Len(queue') : queue'[i] = accepted'[Len(accepted') - Len(queue') + i]
      <3> TAKE i \in 1..Len(queue')
      <3>1. i \in 1..(m - 1) /\ i + 1 \in 1..m /\ n - m + (i + 1) = n - (m - 1) + i
        BY <1>3, <2>2
      <3>2. queue[i + 1] = accepted[n - m + (i + 1)]
        BY <1>2, <3>1 DEF Waiting, n, m
      <3>3. queue'[i] = accepted[n - (m - 1) + i]
        BY <1>3, <3>1, <3>2
      <3> QED
        BY <2>2, <3>3
    <2>4. \A i \in 1..n : outcome'[accepted[i]] = "queued" <=> i > n - (m - 1)
      <3> TAKE i \in 1..n
      <3>1. outcome[accepted[i]] = "queued" <=> i > n - m
        BY <1>2 DEF Waiting, n, m
      <3>2. CASE i = n - m + 1
        BY <1>3, <1>4, <2>1, <3>2
      <3>3. CASE i # n - m + 1
        <4>1. accepted[i] # t
          BY <1>4, <3>3 DEF Waiting, n
        <4>2. outcome'[accepted[i]] = outcome[accepted[i]]
          BY <1>3, <2>1, <4>1
        <4>3. i > n - m <=> i > n - (m - 1)
          BY <1>3, <3>3
        <4> QED
          BY <3>1, <4>2, <4>3
      <3> QED
        BY <3>2, <3>3
    <2>5. \A i \in 1..n : outcome'[accepted[i]] # "new"
      BY <1>3, <2>1, ZenonT(30) DEF Waiting, n
    <2>6. \A u \in Task : outcome'[u] = "queued" => \E i \in 1..n : accepted[i] = u
      BY <2>1 DEF Waiting, n
    <2>7. \A i, j \in 1..n : accepted[i] = accepted[j] => i = j
      BY DEF Waiting, n
    <2>8. \A u \in Task : outcome'[u] # "flushed"
      BY <1>2, <2>1 DEF Waiting
    <2>9. Len(queue') <= n
      BY <1>3
    <2> QED
      BY <2>2, <2>3, <2>4, <2>5, <2>6, <2>7, <2>8, <2>9 DEF Waiting
  <1>8. Closing'
    BY <1>2 DEF Closing
  <1> QED
    BY <1>5, <1>6, <1>7, <1>8

\* An operation put in the queue is the one accepted last.
LEMMA EnqueueKeepsIInv ==
    ASSUME IInv, NEW t \in Task, Enqueue(t)
    PROVE  IInv'
  <1> USE DEF IInv
  <1> DEFINE n == Len(accepted)
             m == Len(queue)
  <1>1. /\ pool = "open" /\ outcome[t] = "new"
        /\ queue' = Append(queue, t) /\ accepted' = Append(accepted, t)
        /\ outcome' = [outcome EXCEPT ![t] = "queued"]
        /\ UNCHANGED <<pool, pc, task, stmt, tries, handle, lastError, inTx, pending, stored, faults, met>>
    BY DEF Enqueue, execVars, serverVars, faultVars
  <1>2. /\ \A u \in Task \ {t} : outcome'[u] = outcome[u]
        /\ outcome'[t] = "queued"
    BY <1>1 DEF TypeOK
  <1>3. TypeOK'
    BY <1>1 DEF TypeOK
  <1>4. /\ n \in Nat /\ m \in Nat /\ m <= n
        /\ Len(queue') = m + 1 /\ Len(accepted') = n + 1
        /\ DOMAIN accepted' = 1..(n + 1) /\ DOMAIN accepted = 1..n
        /\ (\A i \in 1..m : queue'[i] = queue[i]) /\ queue'[m + 1] = t
        /\ (\A i \in 1..n : accepted'[i] = accepted[i]) /\ accepted'[n + 1] = t
        /\ \A i \in 1..n : accepted[i] \in Task
    BY <1>1 DEF TypeOK, Waiting
  <1> HIDE DEF n, m
  <1>5. \A i \in 1..n : accepted[i] \in Task \ {t}
    BY <1>1, <1>4 DEF Waiting, n
  <1>6. \A i \in 1..(n + 1) : i \in 1..n \/ i = n + 1
    BY <1>4
  <1>7. Connections'
    BY <1>1 DEF Connections, Between
  <1>8. Progress'
    BY <1>1 DEF Progress, Sent, StayedConnected
  <1>9. Running'
    <2>1. \A d \in Conn : task'[d] # NoTask => outcome'[task'[d]] = "running"
      BY <1>1, <1>2 DEF Running, TypeOK
    <2>2. \A u \in Task : outcome'[u] = "running" => \E d \in Conn : task'[d] = u
      BY <1>1, <1>2 DEF Running
    <2>3. \A i \in DOMAIN accepted' :
             outcome'[accepted'[i]] = "running" => \E d \in Worker : task'[d] = accepted'[i]
      <3> TAKE i \in DOMAIN accepted'
      <3>1. CASE i = n + 1
        BY <1>2, <1>4, <3>1
      <3>2. CASE i \in 1..n
        <4>1. accepted'[i] = accepted[i] /\ outcome'[accepted[i]] = outcome[accepted[i]]
          BY <1>2, <1>4, <1>5, <3>2
        <4> QED
          BY <1>1, <1>4, <3>2, <4>1 DEF Running
      <3> QED
        BY <1>4, <1>6, <3>1, <3>2
    <2> QED
      BY <1>1, <2>1, <2>2, <2>3 DEF Running
  <1>10. Waiting'
    <2>1. \A i \in 1..Len(queue') : queue'[i] = accepted'[Len(accepted') - Len(queue') + i]
      <3> TAKE i \in 1..Len(queue')
      <3>1. (n + 1) - (m + 1) + i = n - m + i /\ n - m + (m + 1) = n + 1 /\ (i \in 1..m \/ i = m + 1)
        BY <1>4
      <3>2. CASE i \in 1..m
        <4>1. n - m + i \in 1..n /\ queue[i] = accepted[n - m + i]
          BY <1>1, <1>4, <3>2 DEF Waiting, n, m
        <4> QED
          BY <1>4, <3>1, <3>2, <4>1
      <3>3. CASE i = m + 1
        BY <1>4, <3>1, <3>3
      <3> QED
        BY <3>1, <3>2, <3>3
    <2>2. \A i \in 1..(n + 1) : outcome'[accepted'[i]] = "queued" <=> i > (n + 1) - (m + 1)
      <3> TAKE i \in 1..(n + 1)
      <3>1. CASE i \in 1..n
        <4>1. outcome[accepted[i]] = "queued" <=> i > n - m
          BY <1>1, <3>1 DEF Waiting, n, m
        <4>2. outcome'[accepted'[i]] = outcome[accepted[i]]
          BY <1>2, <1>4, <1>5, <3>1
        <4> QED
          BY <1>4, <4>1, <4>2
      <3>2. CASE i = n + 1
        BY <1>2, <1>4, <3>2
      <3> QED
        BY <1>6, <3>1, <3>2
    <2>3. \A i \in 1..(n + 1) : outcome'[accepted'[i]] # "new"
      <3> TAKE i \in 1..(n + 1)
      <3>1. CASE i \in 1..n
        <4>1. outcome'[accepted'[i]] = outcome[accepted[i]]
          BY <1>2, <1>4, <1>5, <3>1
        <4> QED
          BY <3>1, <4>1 DEF Waiting, n
      <3>2. CASE i = n + 1
        BY <1>2, <1>4, <3>2
      <3> QED
        BY <1>6, <3>1, <3>2
    <2>4. \A u \in Task : outcome'[u] = "queued" => \E i \in 1..(n + 1) : accepted'[i] = u
      <3> TAKE u \in Task
      <3> HAVE outcome'[u] = "queued"
      <3>1. CASE u = t
        <4>1. n + 1 \in 1..(n + 1)
          BY <1>4
        <4> QED
          BY <1>4, <3>1, <4>1
      <3>2. CASE u # t
        <4>1. PICK i \in 1..n : accepted[i] = u
          BY <1>2, <3>2 DEF Waiting, n
        <4>2. i \in 1..(n + 1)
          BY <1>4
        <4> QED
          BY <1>4, <4>1, <4>2
      <3> QED
        BY <3>1, <3>2
    <2>5. \A i, j \in 1..(n + 1) : accepted'[i] = accepted'[j] => i = j
      <3>1. \A i, j \in 1..n : accepted[i] = accepted[j] => i = j
        BY DEF Waiting, n
      <3> QED
        BY <1>4, <1>5, <1>6, <3>1
    <2>6. \A u \in Task : outcome'[u] # "flushed"
      BY <1>1, <1>2 DEF Waiting
    <2>7. Len(queue') <= Len(accepted') /\ pool' = "open"
      BY <1>1, <1>4
    <2> QED
      BY <1>4, <2>1, <2>2, <2>3, <2>4, <2>5, <2>6, <2>7 DEF Waiting
  <1>11. Closing'
    BY <1>1 DEF Closing
  <1>12. OutcomeIsStored'
    <2>1. \A u \in Task : outcome'[u] = "done" <=> outcome[u] = "done"
      BY <1>1, <1>2
    <2> QED
      BY <1>1, <2>1, OutcomeKept
  <1> QED
    BY <1>3, <1>7, <1>8, <1>9, <1>10, <1>11, <1>12

\* The operations that still wait are dropped with the queue.
LEMMA CloseQueueKeepsIInv ==
    ASSUME IInv, CloseQueue
    PROVE  IInv'
  <1> USE DEF IInv
  <1>1. /\ pool' = "closing" /\ queue' = <<>> /\ \A c \in Synch : pc[c] = "idle"
        /\ outcome' = [t \in Task |-> IF outcome[t] = "queued" THEN "flushed" ELSE outcome[t]]
        /\ UNCHANGED <<accepted, pc, task, stmt, tries, handle, lastError, inTx, pending, stored, faults, met>>
    BY DEF CloseQueue, execVars, serverVars, faultVars
  <1>2. /\ \A t \in Task : \A o \in {"new", "running", "done"} : outcome'[t] = o <=> outcome[t] = o
        /\ \A t \in Task : outcome'[t] # "queued"
    BY <1>1 DEF TypeOK
  <1>3. TypeOK'
    BY <1>1 DEF TypeOK
  <1>4. Connections' /\ Progress'
    BY <1>1 DEF Connections, Between, Progress, Sent, StayedConnected
  <1>5. \A i \in DOMAIN accepted : accepted[i] \in Task
    BY DEF TypeOK
  <1>6. Running'
    <2>1. \A d \in Conn : task'[d] # NoTask => outcome'[task'[d]] = "running"
      BY <1>1, <1>2 DEF Running, TypeOK
    <2> QED
      BY <1>1, <1>2, <1>5, <2>1 DEF Running
  <1>7. Waiting'
    <2>1. Len(queue') <= Len(accepted')
      BY <1>1 DEF TypeOK
    <2>2. \A i \in 1..Len(accepted) : outcome'[accepted[i]] # "new"
      <3>1. \A i \in 1..Len(accepted) : accepted[i] \in Task /\ outcome[accepted[i]] # "new"
        BY DEF TypeOK, Waiting
      <3> QED
        BY <1>2, <3>1
    <2>3. \A i, j \in 1..Len(accepted) : accepted[i] = accepted[j] => i = j
      BY DEF Waiting
    <2> QED
      BY <1>1, <1>2, <2>1, <2>2, <2>3 DEF Waiting
  <1>8. Closing'
    BY <1>1 DEF Closing
  <1>9. OutcomeIsStored'
    BY <1>1, <1>2, OutcomeKept
  <1> QED
    BY <1>3, <1>4, <1>6, <1>7, <1>8, <1>9

\* A worker that finds the queue deactivated leaves svc.
LEMMA WorkerExitKeepsIInv ==
    ASSUME IInv, NEW c \in Conn, WorkerExit(c)
    PROVE  IInv'
  <1> USE DEF IInv
  <1>1. /\ pool = "closing" /\ c \in Worker /\ pc[c] = "idle" /\ pc' = [pc EXCEPT ![c] = "exited"]
        /\ UNCHANGED <<queue, pool, outcome, accepted, task, stmt, tries, handle, lastError, inTx,
                       pending, stored, faults, met>>
    BY DEF WorkerExit, Deactivated, Goto, poolVars, serverVars, faultVars
  <1>2. pc'[c] = "exited" /\ (\A d \in Conn \ {c} : pc'[d] = pc[d]) /\ task[c] = NoTask /\ c \notin Synch
    BY <1>1, PoolAssumption DEF TypeOK
  <1>3. TypeOK'
    BY <1>1, <1>2 DEF TypeOK
  <1>4. Connections'
    BY <1>1, <1>2 DEF Connections, Between
  <1>5. Progress'
    BY <1>1, <1>2 DEF Progress, Sent, StayedConnected
  <1>6. Running'
    BY <1>1, <1>2 DEF Running
  <1>7. Waiting'
    BY <1>1 DEF Waiting
  <1>8. Closing'
    BY <1>1, <1>2 DEF Closing, Conn
  <1>9. OutcomeIsStored'
    BY <1>1, OutcomeKept
  <1> QED
    BY <1>3, <1>4, <1>5, <1>6, <1>7, <1>8, <1>9

\* Close closes the connections when the workers have left, or the process ends.
LEMMA CloseKeepsIInv ==
    ASSUME IInv, Close
    PROVE  IInv'
  <1> USE DEF IInv
  <1>1. /\ pool = "closing" /\ pool' \in {"closed", "aborted"}
        /\ pool' = "closed" => \A c \in Worker : pc[c] = "exited"
        /\ UNCHANGED <<queue, outcome, accepted, pc, task, stmt, tries, handle, lastError, inTx,
                       pending, stored, faults, met>>
    BY DEF Close, CloseConnections, DeleteFails, WorkersJoined, execVars, serverVars, faultVars
  <1>2. TypeOK' /\ Connections' /\ Running'
    BY <1>1 DEF TypeOK, Connections, Between, Running
  <1>3. Progress'
    BY <1>1 DEF Progress, Sent, StayedConnected
  <1>4. Waiting' /\ Closing'
    BY <1>1 DEF Waiting, Closing
  <1>5. OutcomeIsStored'
    BY <1>1, OutcomeKept
  <1> QED
    BY <1>2, <1>3, <1>4, <1>5

\* Nothing happens.
LEMMA StutterKeepsIInv ==
    ASSUME IInv, UNCHANGED vars
    PROVE  IInv'
  <1> USE DEF IInv
  <1>1. UNCHANGED <<queue, pool, outcome, accepted, pc, task, stmt, tries, handle, lastError, inTx,
                    pending, stored, faults, met>>
    BY DEF vars, poolVars, execVars, serverVars, faultVars
  <1>2. TypeOK' /\ Connections' /\ Running'
    BY <1>1 DEF TypeOK, Connections, Between, Running
  <1>3. Progress'
    BY <1>1 DEF Progress, Sent, StayedConnected
  <1>4. Waiting' /\ Closing'
    BY <1>1 DEF Waiting, Closing
  <1>5. OutcomeIsStored'
    BY <1>1, OutcomeKept
  <1> QED
    BY <1>2, <1>3, <1>4, <1>5

\* Every step of the pool keeps the invariant.
LEMMA NextKeepsIInv ==
    ASSUME IInv, [Next]_vars
    PROVE  IInv'
  BY EnqueueKeepsIInv, DirectKeepsIInv, DequeueKeepsIInv, ExecuteKeepsIInv, WorkerExitKeepsIInv,
     CloseQueueKeepsIInv, CloseKeepsIInv, StutterKeepsIInv DEF Next, ThreadStep

-----------------------------------------------------------------------------
(* The theorems.                                                           *)

(***************************************************************************)
(* DatabaseWorkerPool, for any number of connections, operations and       *)
(* faults: the inductive invariant holds in every state of Enqueue,        *)
(* DatabaseWorker::svc, ExecuteTransaction, the direct calls and Close.    *)
(***************************************************************************)
THEOREM PoolInvariant == Spec => []IInv
  <1>1. Init => IInv
    BY InitIInv
  <1>2. IInv /\ [Next]_vars => IInv'
    BY NextKeepsIInv
  <1> QED
    BY <1>1, <1>2, PTL DEF Spec

(***************************************************************************)
(* Whatever errors, deadlocks and lost connections ExecuteTransaction and  *)
(* _HandleMySQLErrno met, no transaction is open on the server between two *)
(* operations of a connection, nor when START TRANSACTION is sent.         *)
(***************************************************************************)
THEOREM NoTransactionLeaks == Spec => []NoOpenTransaction
  <1>1. IInv => NoOpenTransaction
    BY DEF IInv, Connections, Between, NoOpenTransaction
  <1> QED
    BY <1>1, PoolInvariant, PTL

(***************************************************************************)
(* An operation whose connection was not lost while it was executed has    *)
(* the right result: executed by MySQLConnection::ExecuteTransaction or    *)
(* as a plain statement it is in the database whole and in order when it   *)
(* is done, and not at all otherwise.                                      *)
(***************************************************************************)
THEOREM ResultsAreStored == Spec => []OutcomeIsStored
  <1>1. IInv => OutcomeIsStored
    BY DEF IInv
  <1> QED
    BY <1>1, PoolInvariant, PTL

(***************************************************************************)
(* When DatabaseWorkerPool::Close returns nothing waits or runs and no     *)
(* transaction is open: the safety part of CloseEnds.                      *)
(***************************************************************************)
THEOREM CloseIsClean == Spec => [](pool = "closed" => NothingRuns)
  <1>1. ASSUME IInv, pool = "closed" PROVE NothingRuns
    <2>1. \A c \in Conn : pc[c] \in {"idle", "exited"}
      BY <1>1 DEF IInv, Closing, Conn
    <2>2. \A c \in Conn : task[c] = NoTask /\ ~inTx[c]
      BY <1>1, <2>1 DEF IInv, TypeOK, Connections, Between
    <2>3. \A t \in Task : outcome[t] # "running"
      BY <1>1, <2>2, PoolAssumption DEF IInv, Running
    <2>4. \A t \in Task : outcome[t] # "queued"
      BY <1>1 DEF IInv, Waiting
    <2> QED
      BY <2>2, <2>3, <2>4 DEF NothingRuns
  <1>2. IInv => (pool = "closed" => NothingRuns)
    BY <1>1
  <1> QED
    BY <1>2, PoolInvariant, PTL

-----------------------------------------------------------------------------
(* The order of execution with one asynchronous worker.                    *)

OneWorker == \A c, d \in Worker : c = d

\* An operation that is being executed or was executed.
Taken(t) == outcome[t] \in {"running", "done", "dropped"}

\* A step that takes no operation and undoes none keeps the order.
LEMMA OrderKept ==
    ASSUME TypeOK, ExecutedInOrder, UNCHANGED accepted,
           \A t \in Task : Taken(t)' => Taken(t),
           \A t \in Task : Finished(t) => Finished(t)'
    PROVE  ExecutedInOrder'
  <1>1. \A i \in DOMAIN accepted : accepted[i] \in Task
    BY DEF TypeOK
  <1> QED
    BY <1>1 DEF ExecutedInOrder, Taken, Finished

\* A thread that ends the operation it executes.
LEMMA ExecuteKeepsOrder ==
    ASSUME IInv, ExecutedInOrder, NEW c \in Conn, Execute(c)
    PROVE  ExecutedInOrder'
  <1>1. TypeOK /\ Effect(c) /\ task[c] \in Task /\ outcome[task[c]] = "running"
    BY ExecuteEffect, ExecutedTask, PoolAssumption DEF IInv, Running
  <1>2. \A t \in Task \ {task[c]} : outcome'[t] = outcome[t]
    BY <1>1 DEF Effect
  <1>3. UNCHANGED accepted
    BY <1>1 DEF Effect
  <1> QED
    BY <1>1, <1>2, <1>3, OrderKept DEF Taken, Finished

\* The worker takes the oldest operation that waits, when it executes none itself.
LEMMA DequeueKeepsOrder ==
    ASSUME OneWorker, IInv, ExecutedInOrder, NEW c \in Conn, Dequeue(c)
    PROVE  ExecutedInOrder'
  <1> DEFINE n == Len(accepted)
             m == Len(queue)
  <1>1. /\ n \in Nat /\ m \in Nat /\ 1 <= m /\ m <= n /\ DOMAIN accepted = 1..n
        /\ \A i \in 1..n : accepted[i] \in Task
        /\ Head(queue) = queue[1] /\ Head(queue) \in Task
    BY DEF Dequeue, IInv, TypeOK, Waiting
  <1>2. /\ pool = "open" /\ c \in Worker /\ pc[c] = "idle" /\ accepted' = accepted
        /\ outcome' = [outcome EXCEPT ![Head(queue)] = "running"]
    BY DEF Dequeue, Take
  <1> HIDE DEF n, m
  <1>3. \A i \in 1..n : outcome[accepted[i]] = "queued" <=> i > n - m
    BY <1>2 DEF IInv, Waiting, n, m
  <1>4. Head(queue) = accepted[n - m + 1] /\ n - m + 1 \in 1..n
    <2>1. 1 \in 1..m /\ n - m + 1 \in 1..n
      BY <1>1
    <2> QED
      BY <1>1, <1>2, <2>1 DEF IInv, Waiting, n, m
  <1>5. \A i \in 1..n : i # n - m + 1 => outcome'[accepted[i]] = outcome[accepted[i]]
    <2>1. \A i \in 1..n : i # n - m + 1 => accepted[i] # Head(queue)
      BY <1>4 DEF IInv, Waiting, n
    <2> QED
      BY <1>1, <1>2, <2>1 DEF IInv, TypeOK
  <1>6. \A i \in 1..n : outcome[accepted[i]] # "running"
    <2>1. task[c] = NoTask
      BY <1>2 DEF IInv, TypeOK
    <2>2. \A i \in DOMAIN accepted : outcome[accepted[i]] = "running" => task[c] = accepted[i]
      BY <1>2 DEF OneWorker, IInv, Running
    <2> QED
      BY <1>1, <2>1, <2>2, PoolAssumption
  <1>7. \A i \in 1..n : outcome[accepted[i]] \in {"queued", "done", "dropped"}
    BY <1>1, <1>2, <1>6 DEF IInv, TypeOK, Waiting, n
  <1>8. ASSUME NEW i \in 1..n, NEW j \in 1..n, i < j,
               outcome'[accepted[j]] \in {"running", "done", "dropped"}
        PROVE  outcome'[accepted[i]] \in {"done", "dropped"}
    <2>1. j <= n - m + 1
      <3>1. CASE j # n - m + 1
        BY <1>1, <1>3, <1>5, <1>8, <3>1
      <3> QED
        BY <1>1, <3>1
    <2>2. ~(i > n - m) /\ i # n - m + 1
      BY <1>1, <1>8, <2>1
    <2> QED
      BY <1>3, <1>5, <1>7, <2>2
  <1> QED
    BY <1>1, <1>2, <1>8 DEF ExecutedInOrder, Finished

\* An operation that is only accepted disturbs no order.
LEMMA EnqueueKeepsOrder ==
    ASSUME IInv, ExecutedInOrder, NEW t \in Task, Enqueue(t)
    PROVE  ExecutedInOrder'
  <1>1. /\ accepted' = Append(accepted, t) /\ outcome[t] = "new"
        /\ outcome' = [outcome EXCEPT ![t] = "queued"]
    BY DEF Enqueue
  <1>2. /\ Len(accepted) \in Nat /\ DOMAIN accepted = 1..Len(accepted)
        /\ DOMAIN accepted' = 1..(Len(accepted) + 1)
        /\ \A i \in 1..Len(accepted) : accepted'[i] = accepted[i] /\ accepted[i] \in Task
        /\ accepted'[Len(accepted) + 1] = t
    BY <1>1 DEF IInv, TypeOK
  <1>3. \A i \in 1..Len(accepted) : outcome'[accepted'[i]] = outcome[accepted[i]]
    <2>1. \A i \in 1..Len(accepted) : accepted[i] # t
      BY <1>1 DEF IInv, Waiting
    <2> QED
      BY <1>1, <1>2, <2>1 DEF IInv, TypeOK
  <1>4. outcome'[accepted'[Len(accepted) + 1]] = "queued"
    BY <1>1, <1>2 DEF IInv, TypeOK
  <1>5. ASSUME NEW i \in 1..(Len(accepted) + 1), NEW j \in 1..(Len(accepted) + 1), i < j,
               outcome'[accepted'[j]] \in {"running", "done", "dropped"}
        PROVE  outcome'[accepted'[i]] \in {"done", "dropped"}
    <2>1. j # Len(accepted) + 1
      BY <1>4, <1>5
    <2>2. j \in 1..Len(accepted) /\ i \in 1..Len(accepted)
      BY <1>2, <1>5, <2>1
    <2> QED
      BY <1>2, <1>3, <1>5, <2>2 DEF ExecutedInOrder, Finished
  <1> QED
    BY <1>2, <1>5 DEF ExecutedInOrder, Finished

\* The caller's own operation was never accepted.
LEMMA DirectKeepsOrder ==
    ASSUME IInv, ExecutedInOrder, NEW t \in Task, NEW c \in Conn, Direct(c, t)
    PROVE  ExecutedInOrder'
  <1>1. /\ accepted' = accepted /\ outcome[t] = "new"
        /\ outcome' = [outcome EXCEPT ![t] = "running"]
    BY DEF Direct
  <1>2. \A i \in DOMAIN accepted : accepted[i] \in Task /\ accepted[i] # t
    <2>1. DOMAIN accepted = 1..Len(accepted) /\ \A i \in DOMAIN accepted : accepted[i] \in Task
      BY DEF IInv, TypeOK
    <2>2. \A i \in 1..Len(accepted) : outcome[accepted[i]] # "new"
      BY DEF IInv, Waiting
    <2> QED
      BY <1>1, <2>1, <2>2
  <1>3. \A i \in DOMAIN accepted : outcome'[accepted[i]] = outcome[accepted[i]]
    BY <1>1, <1>2 DEF IInv, TypeOK
  <1> QED
    BY <1>1, <1>3 DEF ExecutedInOrder, Finished

\* Every step of the pool keeps the order.
LEMMA NextKeepsOrder ==
    ASSUME OneWorker, IInv, ExecutedInOrder, [Next]_vars
    PROVE  ExecutedInOrder'
  <1>1. CASE UNCHANGED <<accepted, outcome>>
    BY <1>1 DEF ExecutedInOrder, Finished
  <1>2. CASE CloseQueue
    <2>1. /\ accepted' = accepted
          /\ outcome' = [t \in Task |-> IF outcome[t] = "queued" THEN "flushed" ELSE outcome[t]]
      BY <1>2 DEF CloseQueue
    <2>2. TypeOK
      BY DEF IInv
    <2> QED
      BY <2>1, <2>2, OrderKept DEF Taken, Finished
  <1>3. CASE UNCHANGED vars \/ Close \/ \E c \in Conn : WorkerExit(c)
    BY <1>1, <1>3 DEF vars, poolVars, Close, CloseConnections, DeleteFails, WorkerExit
  <1> QED
    BY <1>2, <1>3, EnqueueKeepsOrder, DirectKeepsOrder, DequeueKeepsOrder, ExecuteKeepsOrder
    DEF Next, ThreadStep

(***************************************************************************)
(* With one DatabaseWorker (WorkerThreads = 1, the default) an operation   *)
(* given to Enqueue starts only when every operation enqueued before it    *)
(* has been executed.                                                      *)
(***************************************************************************)
THEOREM OrderOfExecution ==
    ASSUME OneWorker
    PROVE  Spec => []ExecutedInOrder
  <1>1. Init => ExecutedInOrder
    BY DEF Init, ExecutedInOrder
  <1>2. IInv /\ ExecutedInOrder /\ [Next]_vars => ExecutedInOrder'
    BY NextKeepsOrder
  <1> QED
    BY <1>1, <1>2, PoolInvariant, PTL DEF Spec

=============================================================================
