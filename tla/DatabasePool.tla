---------------------------- MODULE DatabasePool ---------------------------
(***************************************************************************)
(* DatabaseWorkerPool: operations are put in a queue and executed by the   *)
(* asynchronous workers, each on its own MySQL connection, or executed by  *)
(* the caller on a locked synchronous connection (DirectExecute,           *)
(* DirectCommitTransaction).                                               *)
(*                                                                         *)
(* The MySQL server and client library are external.  A statement can      *)
(* succeed, fail (a duplicate key), be chosen as the victim of a deadlock  *)
(* (the server rolls the whole transaction back), or find the connection   *)
(* lost (the server rolls back what was not committed; the statement may   *)
(* have been carried out or not), in which case the connection is opened   *)
(* again and the same statement is sent once more.  When the server cannot *)
(* be reached m_Mysql stays null and every later Execute returns false.    *)
(***************************************************************************)
EXTENDS Naturals, Sequences, FiniteSets

CONSTANTS
    Worker,         \* asynchronous connections, each with its DatabaseWorker
    Synch,          \* synchronous connections
    Task,           \* operations given to the pool
    size,           \* statements of an operation
    Plain,          \* the operations that are one statement outside of a transaction
    NoTask,
    QueueBound,     \* operations the activation queue holds (its high water mark)
    Faults,         \* what can happen to a statement
    MaxFaults       \* bound on the number of faults

Conn == Worker \cup Synch
FaultKinds == {"dup", "deadlock", "lost", "refused"}
loopBreaker == 5    \* retries of a transaction after errno 1213

ASSUME PoolAssumption ==
    /\ Worker \cap Synch = {}
    /\ NoTask \notin Task
    /\ size \in [Task -> Nat]
    /\ Plain \subseteq {t \in Task : size[t] = 1}
    /\ QueueBound \in Nat \ {0}

ASSUME FaultAssumption == Faults \subseteq FaultKinds /\ MaxFaults \in Nat

VARIABLES
    queue,          \* _queue
    pool,           \* "open", "closing" after _queue is closed, "closed"; or
                    \* "aborted" when an assertion has ended the process
    outcome,        \* what became of each operation
    accepted,       \* operations in the order of their Enqueue
    pc,             \* what the thread of a connection is doing
    task,           \* its operation
    stmt,           \* the next statement of its transaction
    tries,          \* retries of its transaction
    handle,         \* is m_Mysql not null
    lastError,      \* mysql_errno of the connection
    inTx,           \* is a transaction open on the server's side
    pending,        \* statements of that transaction that are not committed
    stored,         \* statements committed, in order
    faults,         \* faults that happened
    met             \* the faults each operation has met

poolVars == <<queue, pool, outcome, accepted>>
execVars == <<pc, task, stmt, tries>>
faultVars == <<faults, met>>
serverVars == <<handle, lastError, inTx, pending, stored, faultVars>>
vars == <<poolVars, execVars, serverVars>>

Init ==
    /\ queue = <<>>
    /\ pool = "open"
    /\ outcome = [t \in Task |-> "new"]
    /\ accepted = <<>>
    /\ pc = [c \in Conn |-> "idle"]
    /\ task = [c \in Conn |-> NoTask]
    /\ stmt = [c \in Conn |-> 1]
    /\ tries = [c \in Conn |-> 0]
    /\ handle = [c \in Conn |-> TRUE]
    /\ lastError = [c \in Conn |-> "none"]
    /\ inTx = [c \in Conn |-> FALSE]
    /\ pending = [c \in Conn |-> <<>>]
    /\ stored = <<>>
    /\ faults = 0
    /\ met = [t \in Task |-> {}]

-----------------------------------------------------------------------------
(* The server.  Each answer says what becomes of the server's state.       *)

Goto(c, l) == pc' = [pc EXCEPT ![c] = l]

\* The command that connection c has sent meets fault f.
Hit(c, f) ==
    /\ f \in Faults
    /\ faults < MaxFaults
    /\ faults' = faults + 1
    /\ met' = [met EXCEPT ![task[c]] = @ \cup {f}]

\* The library clears mysql_errno when it sends a command.
NoError(c) == lastError' = [lastError EXCEPT ![c] = "none"]

\* Statement e is carried out: it waits for the COMMIT, or is final at once.
Carry(c, e) ==
    IF inTx[c] THEN /\ pending' = [pending EXCEPT ![c] = Append(@, e)]
                    /\ UNCHANGED stored
               ELSE /\ stored' = Append(stored, e)
                    /\ UNCHANGED pending

Discard(c) ==
    /\ inTx' = [inTx EXCEPT ![c] = FALSE]
    /\ pending' = [pending EXCEPT ![c] = <<>>]

CommitPending(c) ==
    /\ stored' = stored \o pending[c]
    /\ Discard(c)

\* _HandleMySQLErrno for a lost connection: Open succeeds, or leaves m_Mysql null.
\* A refused Open is one step: the errno that is handled next, the library's
\* without a connection, ends the recursion.  An Open that connects and then fails
\* to prepare the statements is not modelled.
Reconnect(c) ==
    /\ handle[c]
    /\ NoError(c)
    /\ \/ Hit(c, "lost") /\ UNCHANGED handle
       \/ Hit(c, "refused") /\ handle' = [handle EXCEPT ![c] = FALSE]

\* The connection is lost before anything was done.
LostBefore(c) ==
    /\ Reconnect(c)
    /\ Discard(c)
    /\ UNCHANGED stored

\* Without a handle Execute returns false and does nothing.
NoHandle(c) == ~handle[c] /\ UNCHANGED serverVars

-----------------------------------------------------------------------------
(* Callers of the pool.                                                    *)

\* Enqueue blocks while the queue is full.
Enqueue(t) ==
    /\ pool = "open"
    /\ outcome[t] = "new"
    /\ Len(queue) < QueueBound
    /\ queue' = Append(queue, t)
    /\ accepted' = Append(accepted, t)
    /\ outcome' = [outcome EXCEPT ![t] = "queued"]
    /\ UNCHANGED <<pool, execVars, serverVars>>

FirstStep(t) == IF t \in Plain THEN "plain" ELSE "begin"

\* A connection starts to execute an operation.
Start(c, t) ==
    /\ task' = [task EXCEPT ![c] = t]
    /\ stmt' = [stmt EXCEPT ![c] = 1]
    /\ tries' = [tries EXCEPT ![c] = 0]
    /\ Goto(c, FirstStep(t))

\* DirectExecute, DirectCommitTransaction: the caller locks a free connection.
Direct(c, t) ==
    /\ pool = "open"
    /\ outcome[t] = "new"
    /\ c \in Synch
    /\ pc[c] = "idle"
    /\ outcome' = [outcome EXCEPT ![t] = "running"]
    /\ Start(c, t)
    /\ UNCHANGED <<queue, pool, accepted, serverVars>>

\* Mutant: the newest operation is taken first.
TakeLast(q) == [op |-> q[Len(q)], rest |-> SubSeq(q, 1, Len(q) - 1)]

Take(q) == [op |-> Head(q), rest |-> Tail(q)]

\* DatabaseWorker::svc
Dequeue(c) ==
    /\ pool = "open"
    /\ c \in Worker
    /\ pc[c] = "idle"
    /\ queue # <<>>
    /\ queue' = Take(queue).rest
    /\ outcome' = [outcome EXCEPT ![Take(queue).op] = "running"]
    /\ Start(c, Take(queue).op)
    /\ UNCHANGED <<pool, accepted, serverVars>>

-----------------------------------------------------------------------------
(* MySQLConnection::ExecuteTransaction and TransactionTask::Execute.       *)

\* Mutant: a worker ends when an operation fails.
ExitOnFailure(o) == IF o = "dropped" THEN "exited" ELSE "idle"

\* SQLOperation::call ignores what Execute returns.
AfterOperation(o) == "idle"

Finish(c, o) ==
    /\ outcome' = [outcome EXCEPT ![task[c]] = o]
    /\ task' = [task EXCEPT ![c] = NoTask]
    /\ Goto(c, AfterOperation(o))

\* An empty transaction is not sent: ExecuteTransaction returns false.
BeginTransaction(c) ==
    /\ pc[c] = "begin"
    /\ stmt' = [stmt EXCEPT ![c] = 1]
    /\ IF size[task[c]] = 0
         THEN Goto(c, "failed") /\ UNCHANGED serverVars
         ELSE \/ /\ handle[c]
                 /\ Goto(c, "exec")
                 /\ inTx' = [inTx EXCEPT ![c] = TRUE]
                 /\ NoError(c)
                 /\ stored' = stored \o pending[c]
                 /\ pending' = [pending EXCEPT ![c] = <<>>]
                 /\ UNCHANGED <<handle, faultVars>>
              \/ LostBefore(c) /\ UNCHANGED pc
              \/ NoHandle(c) /\ Goto(c, "exec")
    /\ UNCHANGED <<poolVars, task, tries>>

\* Mutant: m_queries is filled from the front.
StatementFromBack(t, k) == <<t, size[t] + 1 - k>>

StatementAt(t, k) == <<t, k>>

\* Execute(sql) or Execute(stmt) of one statement of the transaction.
ExecuteStatement(c) ==
    /\ pc[c] = "exec"
    /\ LET e == StatementAt(task[c], stmt[c])
       IN  \/ /\ handle[c]
              /\ Carry(c, e)
              /\ NoError(c)
              /\ stmt' = [stmt EXCEPT ![c] = @ + 1]
              /\ Goto(c, IF stmt[c] = size[task[c]] THEN "commit" ELSE "exec")
              /\ UNCHANGED <<handle, inTx, faultVars>>
           \/ /\ handle[c]
              /\ Hit(c, "dup")
              /\ lastError' = [lastError EXCEPT ![c] = "dup"]
              /\ Goto(c, "rollback")
              /\ UNCHANGED <<stmt, handle, inTx, pending, stored>>
           \/ /\ handle[c]
              /\ Hit(c, "deadlock")
              /\ Discard(c)
              /\ lastError' = [lastError EXCEPT ![c] = "deadlock"]
              /\ Goto(c, "rollback")
              /\ UNCHANGED <<stmt, handle, stored>>
           \/ /\ LostBefore(c)
              /\ UNCHANGED <<stmt, pc>>
           \/ /\ ~inTx[c]
              /\ Reconnect(c)
              /\ Carry(c, e)
              /\ UNCHANGED <<stmt, pc, inTx>>
           \/ /\ NoHandle(c)
              /\ Goto(c, "rollback")
              /\ UNCHANGED <<stmt>>
    /\ UNCHANGED <<poolVars, task, tries>>

\* Mutant: a transaction that fails is not rolled back.
NoRollback(c) ==
    /\ pc[c] = "rollback"
    /\ Goto(c, "failed")
    /\ UNCHANGED <<poolVars, task, stmt, tries, serverVars>>

\* The ROLLBACK is a command of its own: it clears mysql_errno.
RollbackTransaction(c) ==
    /\ pc[c] = "rollback"
    /\ \/ /\ handle[c]
          /\ Goto(c, "failed")
          /\ Discard(c)
          /\ NoError(c)
          /\ UNCHANGED <<handle, stored, faultVars>>
       \/ LostBefore(c) /\ UNCHANGED pc
       \/ NoHandle(c) /\ Goto(c, "failed")
    /\ UNCHANGED <<poolVars, task, stmt, tries>>

MayRetry(c) == IF tries[c] = 0 THEN lastError[c] = "deadlock" ELSE tries[c] < loopBreaker

\* ExecuteTransaction returned false.
AfterFailure(c) ==
    /\ pc[c] = "failed"
    /\ IF MayRetry(c)
         THEN /\ tries' = [tries EXCEPT ![c] = @ + 1]
              /\ Goto(c, "begin")
              /\ UNCHANGED <<outcome, task>>
         ELSE /\ Finish(c, "dropped")
              /\ UNCHANGED tries
    /\ UNCHANGED <<queue, pool, accepted, stmt, serverVars>>

\* The result of the COMMIT is not looked at.
CommitTransaction(c) ==
    /\ pc[c] = "commit"
    /\ \/ /\ handle[c]
          /\ CommitPending(c)
          /\ NoError(c)
          /\ Finish(c, "done")
          /\ UNCHANGED <<handle, faultVars>>
       \/ /\ LostBefore(c)
          /\ UNCHANGED <<pc, task, outcome>>
       \/ /\ Reconnect(c)
          /\ CommitPending(c)
          /\ UNCHANGED <<pc, task, outcome>>
       \/ NoHandle(c) /\ Finish(c, "done")
    /\ UNCHANGED <<queue, pool, accepted, stmt, tries>>

\* BasicStatementTask, PreparedStatementTask, DirectExecute.
ExecutePlain(c) ==
    /\ pc[c] = "plain"
    /\ LET e == <<task[c], 1>>
       IN  \/ /\ handle[c]
              /\ Carry(c, e)
              /\ NoError(c)
              /\ Finish(c, "done")
              /\ UNCHANGED <<handle, inTx, faultVars>>
           \/ /\ handle[c]
              /\ \E f \in {"dup", "deadlock"} :
                    /\ Hit(c, f)
                    /\ lastError' = [lastError EXCEPT ![c] = f]
              /\ Finish(c, "dropped")
              /\ UNCHANGED <<handle, inTx, pending, stored>>
           \/ /\ LostBefore(c)
              /\ UNCHANGED <<pc, task, outcome>>
           \/ /\ Reconnect(c)
              /\ Carry(c, e)
              /\ UNCHANGED <<pc, task, outcome, inTx>>
           \/ NoHandle(c) /\ Finish(c, "dropped")
    /\ UNCHANGED <<queue, pool, accepted, stmt, tries>>

-----------------------------------------------------------------------------
(* DatabaseWorkerPool::Close, called when no other thread uses the pool.   *)

\* ACE_Message_Queue::close deactivates the queue and frees what is in it.
CloseQueue ==
    /\ pool = "open"
    /\ \A c \in Synch : pc[c] = "idle"
    /\ pool' = "closing"
    /\ queue' = <<>>
    /\ outcome' = [t \in Task |-> IF outcome[t] = "queued" THEN "flushed" ELSE outcome[t]]
    /\ UNCHANGED <<accepted, execVars, serverVars>>

Deactivated == pool = "closing"

WorkerExit(c) ==
    /\ Deactivated
    /\ c \in Worker
    /\ pc[c] = "idle"
    /\ Goto(c, "exited")
    /\ UNCHANGED <<poolVars, task, stmt, tries, serverVars>>

\* Mutant: Close does not wait for the worker threads.
NoWait == TRUE

\* worker->wait()
WorkersJoined == \A c \in Worker : pc[c] = "exited"

\* The turn of connection c: an asynchronous one is deleted when its worker has
\* ended, a synchronous one after all of those.
Deletable(c) == IF c \in Worker THEN pc[c] = "exited" ELSE WorkersJoined

\* ~MySQLConnection asserts m_Mysql: the process ends, also while other workers run.
DeleteFails(c) ==
    /\ pool = "closing"
    /\ Deletable(c)
    /\ ~handle[c]
    /\ pool' = "aborted"
    /\ UNCHANGED <<queue, outcome, accepted, execVars, serverVars>>

CloseConnections ==
    /\ pool = "closing"
    /\ WorkersJoined
    /\ \A c \in Conn : handle[c]
    /\ pool' = "closed"
    /\ UNCHANGED <<queue, outcome, accepted, execVars, serverVars>>

Close == CloseConnections \/ \E c \in Conn : DeleteFails(c)

-----------------------------------------------------------------------------
Execute(c) ==
    \/ BeginTransaction(c)
    \/ ExecuteStatement(c)
    \/ RollbackTransaction(c)
    \/ AfterFailure(c)
    \/ CommitTransaction(c)
    \/ ExecutePlain(c)

ThreadStep(c) ==
    /\ pool # "aborted"
    /\ Dequeue(c) \/ Execute(c) \/ WorkerExit(c)

Next ==
    \/ \E t \in Task : Enqueue(t) \/ \E c \in Conn : Direct(c, t)
    \/ \E c \in Conn : ThreadStep(c)
    \/ CloseQueue
    \/ Close

Spec == Init /\ [][Next]_vars

(***************************************************************************)
(* A worker, or a caller that holds a connection, keeps taking steps and   *)
(* the server answers; a Close that was started goes on.                   *)
(***************************************************************************)
FairSpec ==
    /\ Spec
    /\ \A c \in Conn : WF_vars(ThreadStep(c))
    /\ WF_vars(Close)

-----------------------------------------------------------------------------
SeqRange(q) == {q[i] : i \in DOMAIN q}
Finished(t) == outcome[t] \in {"done", "dropped"}
StayedConnected(t) == met[t] \cap {"lost", "refused"} = {}
NoneStored(t) == \A i \in DOMAIN stored : stored[i][1] # t

\* Every statement of t is in the database, in order and once, and nothing else of t.
WholeStored(t) ==
    /\ \A k \in 1..size[t] : \E i \in DOMAIN stored : stored[i] = <<t, k>>
    /\ \A i \in DOMAIN stored : stored[i][1] = t => stored[i][2] \in 1..size[t]
    /\ \A i, j \in DOMAIN stored :
          i < j /\ stored[i][1] = t /\ stored[j][1] = t => stored[i][2] < stored[j][2]

\* The type of the state: a connection holds an operation exactly while its
\* thread executes one.
TypeOK ==
    /\ queue \in Seq(Task)
    /\ pool \in {"open", "closing", "closed", "aborted"}
    /\ outcome \in [Task -> {"new", "queued", "running", "done", "dropped", "flushed"}]
    /\ accepted \in Seq(Task)
    /\ pc \in [Conn -> {"idle", "begin", "exec", "rollback", "failed", "commit",
                        "plain", "exited"}]
    /\ task \in [Conn -> Task \cup {NoTask}]
    /\ \A c \in Conn : task[c] = NoTask <=> pc[c] \in {"idle", "exited"}
    /\ stmt \in [Conn -> Nat \ {0}]
    /\ tries \in [Conn -> Nat]
    /\ handle \in [Conn -> BOOLEAN]
    /\ lastError \in [Conn -> {"none", "dup", "deadlock"}]
    /\ inTx \in [Conn -> BOOLEAN]
    /\ pending \in [Conn -> Seq(Task \X Nat)]
    /\ stored \in Seq(Task \X Nat)
    /\ faults \in Nat
    /\ met \in [Task -> SUBSET FaultKinds]

(***************************************************************************)
(* A transaction never leaks into the next operation of its connection:    *)
(* between operations, and when START TRANSACTION is sent, no transaction  *)
(* is open on the server, whatever errors and reconnects there were.       *)
(***************************************************************************)
NoOpenTransaction ==
    \A c \in Conn :
        /\ pc[c] \in {"idle", "begin", "plain", "failed", "exited"} => ~inTx[c]
        /\ ~inTx[c] => pending[c] = <<>>

(***************************************************************************)
(* "Begins an automanaged transaction pointer that will automatically      *)
(* rollback if not commited": once ExecuteTransaction is through with a    *)
(* transaction, all of its statements are in the database, in their order  *)
(* and once, or none is.                                                   *)
(***************************************************************************)
AtomicTransactions ==
    \A t \in Task \ Plain : Finished(t) => NoneStored(t) \/ WholeStored(t)

(***************************************************************************)
(* An operation that was never sent on a connection that was then lost has *)
(* the right result, whatever happened before on its connection and at the *)
(* same time on the others: if it is done it is in the database, whole and *)
(* in order; if it was given up, or is not finished, nothing of it is.     *)
(***************************************************************************)
OutcomeIsStored ==
    \A t \in Task :
        StayedConnected(t) =>
            IF outcome[t] = "done" THEN WholeStored(t) ELSE NoneStored(t)

(***************************************************************************)
(* With one asynchronous worker (the default WorkerThreads) an operation   *)
(* starts only when every operation enqueued before it has been executed:  *)
(* the query that loads a character sees the save that was enqueued        *)
(* earlier.                                                                *)
(***************************************************************************)
ExecutedInOrder ==
    \A i, j \in DOMAIN accepted :
        i < j /\ outcome[accepted[j]] \in {"running", "done", "dropped"}
            => Finished(accepted[i])

(***************************************************************************)
(* While the pool is open every operation that was enqueued is executed.   *)
(***************************************************************************)
EveryOperationEnds ==
    \A t \in Task : outcome[t] \in {"queued", "running"} ~> (Finished(t) \/ pool # "open")

\* No operation is being executed and nothing is half done on the server.
NothingRuns ==
    /\ \A t \in Task : outcome[t] \notin {"queued", "running"}
    /\ \A c \in Conn : ~inTx[c]

(***************************************************************************)
(* Close ends: every worker leaves svc after its current operation, and    *)
(* the connections are closed only when nothing runs any more.  When some  *)
(* connection could not be opened again the process ends instead, in the   *)
(* assertion of ~MySQLConnection; without such a connection it never does. *)
(***************************************************************************)
CloseEnds ==
    /\ pool = "closing" ~> pool \in {"closed", "aborted"}
    /\ [](pool = "closed" => NothingRuns)
    /\ (pool = "closing" /\ \A c \in Conn : handle[c])
          ~> (pool = "closed" \/ \E t \in Task : "refused" \in met[t])

(***************************************************************************)
(* "MySQL context must be present at this point": ~MySQLConnection, which  *)
(* Close reaches for every connection, finds m_Mysql set.                  *)
(***************************************************************************)
ContextPresent == pool # "aborted"

(***************************************************************************)
(* "Implemented in TransactionTask::Execute and DirectCommitTransaction":  *)
(* a transaction chosen as the victim of a deadlock is given up only after *)
(* it was tried again.                                                     *)
(***************************************************************************)
DeadlockIsRetried ==
    \A c \in Conn : pc[c] = "failed" /\ "deadlock" \in met[task[c]] /\ tries[c] = 0 => MayRetry(c)

=============================================================================
