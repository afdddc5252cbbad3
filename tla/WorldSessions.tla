--------------------------- MODULE WorldSessions ---------------------------
(***************************************************************************)
(* Admission of client sessions to the world: the table m_sessions, the    *)
(* login queue m_QueuedPlayer, the player limit, the login of a character  *)
(* and the last session update of a shutdown.                              *)
(*                                                                         *)
(* Four kinds of threads take steps.  A network thread creates sessions    *)
(* and may close a socket at any moment; a database worker completes the   *)
(* asynchronous queries of a login; the world thread runs UpdateSessions   *)
(* once a tick (it drains addSessQueue, then updates the sessions one by   *)
(* one) and the operator's commands; any thread may set m_stopEvent.       *)
(***************************************************************************)
EXTENDS Naturals, Sequences, FiniteSets

CONSTANTS
    Session,        \* WorldSession objects, one for each authenticated connection
    Account,        \* account ids
    NoSession,      \* a null WorldSession pointer, or an account with no entry
    NoAccount,      \* no session is being updated
    accountOf,      \* WorldSession::GetAccountId
    Sender,         \* the sessions whose clients send packets
    SkipQueue,      \* the accounts with RBAC_PERM_SKIP_QUEUE
    PlayerLimit,    \* m_playerLimit as the configuration sets it, 0 for no limit
    PLimits,        \* the values the command ".server plimit" may set
    Tolerance,      \* DisconnectToleranceInterval, 0 switches it off
    MaxTime         \* bound on the clock

ASSUME SessionAssumption ==
    /\ NoSession \notin Session
    /\ NoAccount \notin Account
    /\ accountOf \in [Session -> Account]
    /\ Sender \subseteq Session
    /\ SkipQueue \subseteq Account

ASSUME LimitAssumption ==
    /\ PlayerLimit \in Nat
    /\ PLimits \subseteq Nat
    /\ Tolerance \in Nat
    /\ MaxTime \in Nat

ASSUME FiniteAssumption == IsFiniteSet(Session) /\ IsFiniteSet(Account)

VARIABLES
    stage,          \* where the object is: not yet created, in addSessQueue, in m_sessions, deleted
    sockClosed,     \* WorldSocket::closing_ of the session's socket
    addSessQueue,   \* sessions handed over by the network threads
    m_sessions,     \* the session of each account
    m_QueuedPlayer, \* the login queue
    m_inQueue,      \* WorldSession::m_inQueue
    told,           \* the last queue position sent to the client, 0 for "admitted"
    m_disconnects,  \* when an account lost its admitted session, for those that did
    m_playerLimit,
    char,           \* the session's character: m_playerLoading, _player and the login query
    charEnum,       \* _charEnumCallback: no query, one on its way or its result
    legit,          \* has _legitCharacters the character of the session
    now,            \* time(NULL)
    pc,             \* what the world thread is doing
    todo,           \* accounts the current UpdateSessions has still to visit
    cur,            \* the account whose session is in WorldSession::Update
    stopEvent       \* World::m_stopEvent

queueVars == <<m_QueuedPlayer, m_inQueue, told>>
charVars == <<char, charEnum, legit>>
worldVars == <<pc, todo, cur>>
configVars == <<m_playerLimit, now, stopEvent>>
vars == <<stage, sockClosed, addSessQueue, m_sessions, queueVars, m_disconnects,
          charVars, worldVars, configVars>>

(***************************************************************************)
(* A character is "out", "loading" (m_playerLoading with the query on its  *)
(* way), "loaded" (its result is ready), "stuck" (m_playerLoading with no  *)
(* query, after a refused or malformed login packet), "in" the world or    *)
(* "leaving" it (a logout was requested).                                  *)
(***************************************************************************)
Stages == {"new", "added", "live", "deleted"}
CharStates == {"out", "loading", "loaded", "stuck", "in", "leaving"}
EnumStates == {"none", "waiting", "ready"}

PlayerLoading(s) == char[s] \in {"loading", "loaded", "stuck"}
HasPlayer(s) == char[s] \in {"in", "leaving"}

InMap == {s \in Session : m_sessions[accountOf[s]] = s}
SeqRange(q) == {q[i] : i \in DOMAIN q}

GetActiveAndQueuedSessionCount == Cardinality({a \in Account : m_sessions[a] # NoSession})

(***************************************************************************)
(* The queue state a call of RemoveQueuedPlayer works on.  total is the    *)
(* size of m_sessions at the call, the session to be removed included.     *)
(***************************************************************************)
QueueState == [queue |-> m_QueuedPlayer, inQueue |-> m_inQueue, told |-> told]

Position(q, s) == CHOOSE i \in DOMAIN q : q[i] = s
Without(q, p) == [i \in 1..(Len(q) - 1) |-> IF i < p THEN q[i] ELSE q[i + 1]]

\* SendAuthWaitQue(position) to the sessions of q from index p on.
SendPositions(t, q, p) ==
    [s \in Session |-> IF \E i \in p..Len(q) : q[i] = s THEN Position(q, s) ELSE t[s]]

IsQueued(st, sess) == sess \in SeqRange(st.queue)

Dequeue(st, sess) ==
    IF IsQueued(st, sess)
      THEN [st EXCEPT !.queue = Without(st.queue, Position(st.queue, sess)),
                      !.inQueue = [st.inQueue EXCEPT ![sess] = FALSE]]
      ELSE st

\* Mutant: the leaving session is counted as one that stays.
CountLeaving(st, total, sess) == total - Len(st.queue)

\* The number of sessions compared with the limit.
CountedSessions(st, total, sess) ==
    LET active == total - Len(st.queue)
    IN  IF ~IsQueued(st, sess) /\ active > 0 THEN active - 1 ELSE active

\* Mutant: one session too many.
AcceptsOneMore(st, total, sess) ==
    /\ m_playerLimit = 0 \/ CountedSessions(st, total, sess) <= m_playerLimit
    /\ Dequeue(st, sess).queue # <<>>

AcceptsFirst(st, total, sess) ==
    /\ m_playerLimit = 0 \/ CountedSessions(st, total, sess) < m_playerLimit
    /\ Dequeue(st, sess).queue # <<>>

\* Mutant: the last of the queue is admitted.
PopBack(q) == [first |-> q[Len(q)], rest |-> SubSeq(q, 1, Len(q) - 1)]

PopFront(q) == [first |-> Head(q), rest |-> Tail(q)]

\* Mutant: the positions are not sent again from the first one on.
TellAfterRemoved(st, total, sess) ==
    IF IsQueued(st, sess) THEN Position(st.queue, sess) ELSE Len(st.queue) + 1

\* The position from which clients are told their new place.
TellFrom(st, total, sess) ==
    IF AcceptsFirst(st, total, sess) THEN 1
      ELSE IF IsQueued(st, sess) THEN Position(st.queue, sess)
      ELSE Len(st.queue) + 1

\* Mutant: the session is not taken out of the queue.
KeepQueued(st, total, sess) == st

RemoveQueuedPlayer(st, total, sess) ==
    LET st1 == Dequeue(st, sess)
        pop == PopFront(st1.queue)
        from == TellFrom(st, total, sess)
    IN  IF AcceptsFirst(st, total, sess)
          THEN [queue |-> pop.rest,
                inQueue |-> [st1.inQueue EXCEPT ![pop.first] = FALSE],
                told |-> SendPositions([st1.told EXCEPT ![pop.first] = 0], pop.rest, from)]
          ELSE [st1 EXCEPT !.told = SendPositions(st1.told, st1.queue, from)]

AddQueuedPlayer(st, sess) ==
    LET q == Append(st.queue, sess)
    IN  [queue |-> q,
         inQueue |-> [st.inQueue EXCEPT ![sess] = TRUE],
         told |-> [st.told EXCEPT ![sess] = Position(q, sess)]]

SetQueueState(st) ==
    /\ m_QueuedPlayer' = st.queue
    /\ m_inQueue' = st.inQueue
    /\ told' = st.told

(***************************************************************************)
(* difftime(entry, now) < Tolerance: the entry is the first argument, so   *)
(* every entry of the past passes the test and the erasing branch is dead. *)
(***************************************************************************)
RecentEnough(a) == a \in DOMAIN m_disconnects /\ m_disconnects[a] < now + Tolerance

HasRecentlyDisconnected(s) == Tolerance > 0 /\ RecentEnough(accountOf[s])

-----------------------------------------------------------------------------
Init ==
    /\ stage = [s \in Session |-> "new"]
    /\ sockClosed = [s \in Session |-> FALSE]
    /\ addSessQueue = <<>>
    /\ m_sessions = [a \in Account |-> NoSession]
    /\ m_QueuedPlayer = <<>>
    /\ m_inQueue = [s \in Session |-> FALSE]
    /\ told = [s \in Session |-> 0]
    /\ m_disconnects = [a \in {} |-> 0]
    /\ m_playerLimit = PlayerLimit
    /\ char = [s \in Session |-> "out"]
    /\ charEnum = [s \in Session |-> "none"]
    /\ legit = [s \in Session |-> FALSE]
    /\ now = 0
    /\ pc = "loop"
    /\ todo = {}
    /\ cur = NoAccount
    /\ stopEvent = FALSE

-----------------------------------------------------------------------------
(* The network threads, the database workers, the clock and StopNow.       *)

\* The end of WorldSocket::HandleAuthSession: a session is created and AddSession called.
AddSession(s) ==
    /\ pc # "stopped"
    /\ stage[s] = "new"
    /\ stage' = [stage EXCEPT ![s] = "added"]
    /\ addSessQueue' = Append(addSessQueue, s)
    /\ UNCHANGED <<sockClosed, m_sessions, queueVars, m_disconnects, charVars,
                   worldVars, configVars>>

\* WorldSocket::CloseSocket, by the peer or by KickPlayer from a command.
CloseSocket(s) ==
    /\ stage[s] \in {"added", "live"}
    /\ ~sockClosed[s]
    /\ sockClosed' = [sockClosed EXCEPT ![s] = TRUE]
    /\ UNCHANGED <<stage, addSessQueue, m_sessions, queueVars, m_disconnects,
                   charVars, worldVars, configVars>>

\* A database worker sets the future of the character list or of the login.
QueryDone(s) ==
    /\ \/ /\ charEnum[s] = "waiting"
          /\ charEnum' = [charEnum EXCEPT ![s] = "ready"]
          /\ UNCHANGED <<char, legit>>
       \/ /\ char[s] = "loading"
          /\ char' = [char EXCEPT ![s] = "loaded"]
          /\ UNCHANGED <<charEnum, legit>>
    /\ UNCHANGED <<stage, sockClosed, addSessQueue, m_sessions, queueVars,
                   m_disconnects, worldVars, configVars>>

Tick ==
    /\ now < MaxTime
    /\ now' = now + 1
    /\ UNCHANGED <<stage, sockClosed, addSessQueue, m_sessions, queueVars,
                   m_disconnects, charVars, worldVars, m_playerLimit, stopEvent>>

StopNow ==
    /\ ~stopEvent
    /\ stopEvent' = TRUE
    /\ UNCHANGED <<stage, sockClosed, addSessQueue, m_sessions, queueVars,
                   m_disconnects, charVars, worldVars, m_playerLimit, now>>

-----------------------------------------------------------------------------
(* The world thread: the loop, the operator's commands, the last update.   *)

SetPlayerAmountLimit(l) ==
    /\ pc = "loop"
    /\ ~stopEvent
    /\ m_playerLimit' = l
    /\ UNCHANGED <<stage, sockClosed, addSessQueue, m_sessions, queueVars,
                   m_disconnects, charVars, worldVars, now, stopEvent>>

StartUpdateSessions ==
    /\ pc = "loop"
    /\ ~stopEvent
    /\ pc' = "add"
    /\ UNCHANGED <<stage, sockClosed, addSessQueue, m_sessions, queueVars,
                   m_disconnects, charVars, todo, cur, configVars>>

KickAll ==
    /\ pc = "loop"
    /\ stopEvent
    /\ m_QueuedPlayer' = <<>>
    /\ sockClosed' = [s \in Session |-> sockClosed[s] \/ s \in InMap]
    /\ pc' = "lastAdd"
    /\ UNCHANGED <<stage, addSessQueue, m_sessions, m_inQueue, told,
                   m_disconnects, charVars, todo, cur, configVars>>

-----------------------------------------------------------------------------
(* UpdateSessions, first loop: AddSession_ for every session handed over.  *)

Adding == pc \in {"add", "lastAdd"} /\ addSessQueue # <<>>

\* The account's session is loading a character: the new session is deleted.
RefuseSession(s) ==
    LET old == m_sessions[accountOf[s]]
    IN  /\ Adding
        /\ s = Head(addSessQueue)
        /\ old # NoSession
        /\ PlayerLoading(old)
        /\ addSessQueue' = Tail(addSessQueue)
        /\ sockClosed' = [sockClosed EXCEPT ![s] = TRUE]
        /\ stage' = [stage EXCEPT ![s] = "deleted"]
        /\ UNCHANGED <<m_sessions, queueVars, m_disconnects, charVars, worldVars,
                       configVars>>

MustQueue(s, sessions) ==
    /\ m_playerLimit > 0
    /\ sessions >= m_playerLimit
    /\ accountOf[s] \notin SkipQueue
    /\ ~HasRecentlyDisconnected(s)

\* A destroyed session has logged its character out; its fields are reset.
CharAfterDelete(s) ==
    /\ char' = [char EXCEPT ![s] = "out"]
    /\ charEnum' = [charEnum EXCEPT ![s] = "none"]
    /\ legit' = [legit EXCEPT ![s] = FALSE]

\* The account had no session.
EnterFirst(s) ==
    LET a == accountOf[s]
        sessions == GetActiveAndQueuedSessionCount
    IN  /\ Adding
        /\ s = Head(addSessQueue)
        /\ m_sessions[a] = NoSession
        /\ addSessQueue' = Tail(addSessQueue)
        /\ m_sessions' = [m_sessions EXCEPT ![a] = s]
        /\ stage' = [stage EXCEPT ![s] = "live"]
        /\ IF MustQueue(s, sessions)
             THEN SetQueueState(AddQueuedPlayer(QueueState, s))
             ELSE UNCHANGED queueVars
        /\ UNCHANGED <<sockClosed, m_disconnects, charVars, worldVars, configVars>>

\* The account's session is kicked, taken out of the queue, deleted and replaced.
EnterReplacing(s) ==
    LET a == accountOf[s]
        old == m_sessions[a]
        total == GetActiveAndQueuedSessionCount
        st == RemoveQueuedPlayer(QueueState, total, old)
        sessions == IF IsQueued(QueueState, old) THEN total ELSE total - 1
    IN  /\ Adding
        /\ s = Head(addSessQueue)
        /\ old # NoSession
        /\ ~PlayerLoading(old)
        /\ addSessQueue' = Tail(addSessQueue)
        /\ m_sessions' = [m_sessions EXCEPT ![a] = s]
        /\ stage' = [stage EXCEPT ![old] = "deleted", ![s] = "live"]
        /\ sockClosed' = [sockClosed EXCEPT ![old] = TRUE]
        /\ CharAfterDelete(old)
        /\ IF MustQueue(s, sessions)
             THEN SetQueueState(AddQueuedPlayer(st, s))
             ELSE SetQueueState(st)
        /\ UNCHANGED <<m_disconnects, worldVars, configVars>>

AddSession_ == \E s \in Session : RefuseSession(s) \/ EnterFirst(s) \/ EnterReplacing(s)

\* Mutant: sessions that wait in the queue are not updated.
UpdateAdmittedOnly == {a \in Account : m_sessions[a] # NoSession /\ ~m_inQueue[m_sessions[a]]}

SessionsToUpdate == {a \in Account : m_sessions[a] # NoSession}

\* addSessQueue is empty: the second loop starts.
StartSecondLoop ==
    /\ pc \in {"add", "lastAdd"}
    /\ addSessQueue = <<>>
    /\ pc' = IF pc = "add" THEN "update" ELSE "lastUpdate"
    /\ todo' = SessionsToUpdate
    /\ UNCHANGED <<stage, sockClosed, addSessQueue, m_sessions, queueVars,
                   m_disconnects, charVars, cur, configVars>>

-----------------------------------------------------------------------------
(* UpdateSessions, second loop: WorldSession::Update of every session.     *)

\* An idle connection that does not wait in the queue is closed first.
BeginUpdate(a) ==
    /\ pc \in {"update", "lastUpdate"}
    /\ cur = NoAccount
    /\ a \in todo
    /\ cur' = a
    /\ todo' = todo \ {a}
    /\ LET s == m_sessions[a]
       IN  \/ UNCHANGED sockClosed
           \/ /\ ~m_inQueue[s]
              /\ ~sockClosed[s]
              /\ sockClosed' = [sockClosed EXCEPT ![s] = TRUE]
    /\ UNCHANGED <<stage, addSessQueue, m_sessions, queueVars, m_disconnects,
                   charVars, pc, configVars>>

\* A packet of the session being updated may be handled; AUTHED ones not in the queue.
Handles(s) == cur # NoAccount /\ s = m_sessions[cur] /\ ~sockClosed[s]

\* Mutant: the check of m_inQueue is missing.
HandlesQueued(s) == Handles(s)

HandlesAuthed(s) == Handles(s) /\ ~m_inQueue[s]

\* A second request replaces the query of the first.
HandleCharEnumOpcode(s) ==
    /\ HandlesAuthed(s)
    /\ charEnum' = [charEnum EXCEPT ![s] = "waiting"]
    /\ UNCHANGED <<stage, sockClosed, addSessQueue, m_sessions, queueVars,
                   m_disconnects, char, legit, worldVars, configVars>>

\* Mutant: any character may log in.
AnyCharacter(s) == TRUE

IsLegitCharacterForAccount(s) == legit[s]

\* m_playerLoading is set first: a packet that does not parse, or that names
\* a character that is not in _legitCharacters, leaves it set.
HandlePlayerLoginOpcode(s) ==
    /\ HandlesAuthed(s)
    /\ char[s] = "out"
    /\ \/ /\ char' = [char EXCEPT ![s] = "stuck"]
          /\ sockClosed' \in {sockClosed, [sockClosed EXCEPT ![s] = TRUE]}
       \/ /\ IsLegitCharacterForAccount(s)
          /\ char' = [char EXCEPT ![s] = "loading"]
          /\ UNCHANGED sockClosed
    /\ UNCHANGED <<stage, addSessQueue, m_sessions, queueVars, m_disconnects,
                   charEnum, legit, worldVars, configVars>>

LogoutOutcomes == {"in", "out", "leaving"}

\* Refused in combat, immediate in a city, or after a delay that can be cancelled.
HandleLogoutRequestOpcode(s) ==
    /\ Handles(s)
    /\ HasPlayer(s)
    /\ \E c \in LogoutOutcomes : char' = [char EXCEPT ![s] = c]
    /\ UNCHANGED <<stage, sockClosed, addSessQueue, m_sessions, queueVars,
                   m_disconnects, charEnum, legit, worldVars, configVars>>

HandleLogoutCancelOpcode(s) ==
    /\ Handles(s)
    /\ char[s] = "leaving"
    /\ char' = [char EXCEPT ![s] = "in"]
    /\ UNCHANGED <<stage, sockClosed, addSessQueue, m_sessions, queueVars,
                   m_disconnects, charEnum, legit, worldVars, configVars>>

\* ProcessQueryCallbacks and the delayed logout.
AfterCallbacks(s) ==
    [legits |-> IF charEnum[s] = "ready" THEN BOOLEAN ELSE {legit[s]},
     chars |-> CASE char[s] = "loaded" -> {"in", "out"}
               [] char[s] = "leaving" -> {"leaving", "out"}
               [] OTHER -> {char[s]}]

\* HandlePlayerLogin closes the socket when LoadFromDB fails.
LoadFailed(s, c) == char[s] = "loaded" /\ c = "out"

\* Update returns true: the session stays.
EndUpdate ==
    LET s == m_sessions[cur]
    IN  /\ cur # NoAccount
        /\ \E l \in AfterCallbacks(s).legits, c \in AfterCallbacks(s).chars :
             /\ ~sockClosed[s] /\ ~LoadFailed(s, c)
             /\ char' = [char EXCEPT ![s] = c]
             /\ legit' = [legit EXCEPT ![s] = l]
        /\ charEnum' = [charEnum EXCEPT ![s] = IF @ = "ready" THEN "none" ELSE @]
        /\ cur' = NoAccount
        /\ UNCHANGED <<stage, sockClosed, addSessQueue, m_sessions, queueVars,
                       m_disconnects, pc, todo, configVars>>

NoteDisconnect(a, found) ==
    m_disconnects' = IF ~found /\ Tolerance > 0
                       THEN [b \in DOMAIN m_disconnects \cup {a} |->
                               IF b = a THEN now ELSE m_disconnects[b]]
                       ELSE m_disconnects

\* Update returns false: RemoveQueuedPlayer is called twice, then the session is erased.
EndUpdateClosed ==
    LET s == m_sessions[cur]
        total == GetActiveAndQueuedSessionCount
    IN  /\ cur # NoAccount
        /\ sockClosed[s] \/ \E c \in AfterCallbacks(s).chars : LoadFailed(s, c)
        /\ NoteDisconnect(cur, IsQueued(QueueState, s))
        /\ \E once \in {RemoveQueuedPlayer(QueueState, total, s)} :
             \E twice \in {RemoveQueuedPlayer(once, total, s)} :
               SetQueueState([twice EXCEPT !.inQueue = [@ EXCEPT ![s] = FALSE]])
        /\ m_sessions' = [m_sessions EXCEPT ![cur] = NoSession]
        /\ stage' = [stage EXCEPT ![s] = "deleted"]
        /\ sockClosed' = [sockClosed EXCEPT ![s] = TRUE]
        /\ CharAfterDelete(s)
        /\ cur' = NoAccount
        /\ UNCHANGED <<addSessQueue, pc, todo, configVars>>

EndUpdateSessions ==
    /\ pc \in {"update", "lastUpdate"}
    /\ cur = NoAccount
    /\ todo = {}
    /\ pc' = IF pc = "update" THEN "loop" ELSE "stopped"
    /\ UNCHANGED <<stage, sockClosed, addSessQueue, m_sessions, queueVars,
                   m_disconnects, charVars, todo, cur, configVars>>

-----------------------------------------------------------------------------
Packet(s) ==
    \/ HandleCharEnumOpcode(s)
    \/ HandlePlayerLoginOpcode(s)
    \/ HandleLogoutRequestOpcode(s)
    \/ HandleLogoutCancelOpcode(s)

\* What the world thread does whatever the clients send it.
WorldStep ==
    \/ StartUpdateSessions
    \/ KickAll
    \/ AddSession_
    \/ StartSecondLoop
    \/ \E a \in Account : BeginUpdate(a)
    \/ EndUpdate
    \/ EndUpdateClosed
    \/ EndUpdateSessions

Next ==
    \/ \E s \in Session : AddSession(s) \/ CloseSocket(s) \/ QueryDone(s)
    \/ \E s \in Sender : Packet(s)
    \/ Tick
    \/ StopNow
    \/ \E l \in PLimits : SetPlayerAmountLimit(l)
    \/ WorldStep

Spec == Init /\ [][Next]_vars

(***************************************************************************)
(* The world thread is never stopped by the others and each of its loops   *)
(* is over a finite list, an Update processing at most a fixed number of   *)
(* packets: weak fairness of its steps.                                    *)
(***************************************************************************)
FairSpec == Spec /\ WF_vars(WorldStep)

-----------------------------------------------------------------------------
\* The type of the state: among it, the stages of a session's life and what is
\* known of its character.
TypeOK ==
    /\ stage \in [Session -> Stages]
    /\ sockClosed \in [Session -> BOOLEAN]
    /\ addSessQueue \in Seq(Session)
    /\ m_sessions \in [Account -> Session \cup {NoSession}]
    /\ m_QueuedPlayer \in Seq(Session)
    /\ m_inQueue \in [Session -> BOOLEAN]
    /\ told \in [Session -> Nat]
    /\ DOMAIN m_disconnects \subseteq Account
    /\ \A a \in DOMAIN m_disconnects : m_disconnects[a] \in Nat
    /\ m_playerLimit \in Nat
    /\ char \in [Session -> CharStates]
    /\ charEnum \in [Session -> EnumStates]
    /\ legit \in [Session -> BOOLEAN]
    /\ now \in Nat
    /\ pc \in {"loop", "add", "update", "lastAdd", "lastUpdate", "stopped"}
    /\ todo \subseteq Account
    /\ cur \in Account \cup {NoAccount}
    /\ stopEvent \in BOOLEAN

-----------------------------------------------------------------------------
Queued(s) == s \in SeqRange(m_QueuedPlayer)
Admitted(s) == s \in InMap /\ ~m_inQueue[s]
ShuttingDown == pc \in {"lastAdd", "lastUpdate", "stopped"}
NoDuplicates(q) == \A i, j \in DOMAIN q : q[i] = q[j] => i = j

(***************************************************************************)
(* No deleted session can be reached: m_sessions and addSessQueue hold     *)
(* exactly the sessions that exist, once each and under their own account, *)
(* every entry of the login queue is a session of m_sessions that knows it *)
(* is queued, and outside of a shutdown no other session believes it is.   *)
(* RemoveSession, AddSession_, RemoveQueuedPlayer and the erasing loop of  *)
(* UpdateSessions have to agree for this to hold.                          *)
(***************************************************************************)
NoDanglingSession ==
    /\ \A a \in Account : m_sessions[a] # NoSession => accountOf[m_sessions[a]] = a
    /\ \A s \in Session : stage[s] = "live" <=> s \in InMap
    /\ \A s \in Session : stage[s] = "added" <=> s \in SeqRange(addSessQueue)
    /\ NoDuplicates(addSessQueue)
    /\ NoDuplicates(m_QueuedPlayer)
    /\ \A s \in Session : Queued(s) => s \in InMap /\ m_inQueue[s]
    /\ \A s \in Session : m_inQueue[s] /\ ~ShuttingDown => Queued(s)

(***************************************************************************)
(* While the limit is not changed by a command, and up to the KickAll of a *)
(* shutdown, nobody waits in the login                                     *)
(* queue when there is room: RemoveQueuedPlayer, called before the leaving *)
(* session is erased and called twice by UpdateSessions, never leaves a    *)
(* free place unused.                                                      *)
(***************************************************************************)
QueueOnlyWhenFull ==
    m_QueuedPlayer # <<>> /\ ~ShuttingDown =>
        /\ m_playerLimit > 0
        /\ Cardinality({s \in Session : Admitted(s)}) >= m_playerLimit

(***************************************************************************)
(* PlayerLimit: the admitted sessions of accounts that may not skip the    *)
(* queue are never more than the limit, whatever order sessions arrive,    *)
(* are replaced by a reconnect and leave in (AddSession_ counts all        *)
(* sessions and subtracts one, RemoveQueuedPlayer counts the active ones   *)
(* and subtracts the leaving one).                                         *)
(***************************************************************************)
LimitRespected ==
    m_playerLimit > 0 =>
        Cardinality({s \in Session : Admitted(s) /\ accountOf[s] \notin SkipQueue})
            <= m_playerLimit

(***************************************************************************)
(* "Maximum number of players in the world": when the world is full, a     *)
(* session has to wait unless its account may skip the queue or lost its   *)
(* session less than DisconnectToleranceInterval ago, which is what        *)
(* HasRecentlyDisconnected is there to tell.                               *)
(***************************************************************************)
LimitBinds ==
    \A s \in Session :
        LET a == accountOf[s]
            all == GetActiveAndQueuedSessionCount
        IN  /\ a \notin SkipQueue
            /\ m_playerLimit > 0 /\ all >= m_playerLimit
            /\ a \in DOMAIN m_disconnects => m_disconnects[a] + Tolerance <= now
            => MustQueue(s, all)

(***************************************************************************)
(* The last position sent to a waiting client is its position: when        *)
(* RemoveQueuedPlayer takes a session out of the middle, or admits the     *)
(* first, it resends the positions of exactly the sessions that moved.  A  *)
(* session that is admitted has been told so.                              *)
(***************************************************************************)
PositionsTold ==
    /\ \A i \in DOMAIN m_QueuedPlayer : told[m_QueuedPlayer[i]] = i
    /\ \A s \in Session : Admitted(s) => told[s] = 0

(***************************************************************************)
(* A character is loaded or in the world only for the session that         *)
(* m_sessions holds for its account, and that session has passed the login *)
(* queue: a reconnect cannot leave two sessions of an account with a       *)
(* character, nor a queued session reach the world.                        *)
(***************************************************************************)
CharacterOfAdmittedSession ==
    \A s \in Session : char[s] # "out" => s \in InMap /\ ~m_inQueue[s]

(***************************************************************************)
(* WorldRunnable::run kicks every session, then calls UpdateSessions once, *)
(* to save and unload all players.  A session handed over in between is    *)
(* added and not kicked; still no character is in the world afterwards,    *)
(* since a login takes two updates (_legitCharacters is filled after the   *)
(* packets of an update were handled).                                     *)
(***************************************************************************)
ShutdownUnloadsPlayers == pc = "stopped" => \A s \in Session : ~HasPlayer(s)

(***************************************************************************)
(* The login queue is first in, first out: when a step of AddSession_ or   *)
(* UpdateSessions admits a waiting session, every session before it has    *)
(* left the queue too, and the relative order of the others is kept.       *)
(***************************************************************************)
Before(q, s, t) == \E i, j \in DOMAIN q : i < j /\ q[i] = s /\ q[j] = t

NoOvertaking ==
    [][\A s, t \in Session :
          /\ Before(m_QueuedPlayer, s, t)
          /\ s \in SeqRange(m_QueuedPlayer')
          => \/ Before(m_QueuedPlayer', s, t)
             \/ m_sessions'[accountOf[t]] # t]_vars

(***************************************************************************)
(* A session whose socket is closed by the peer, a kick or the KickAll of  *)
(* a shutdown is eventually deleted, and so its character saved: an        *)
(* UpdateSessions that visits it always follows, unless the last one has   *)
(* started.                                                                *)
(***************************************************************************)
ClosedSessionsLeave ==
    \A s \in Session :
        (stage[s] = "live" /\ sockClosed[s] /\ pc \notin {"lastUpdate", "stopped"})
            ~> stage[s] = "deleted"

(***************************************************************************)
(* If no admitted session stays for ever, every session that waits in the  *)
(* login queue is eventually admitted or gone, or the server stops.        *)
(***************************************************************************)
QueueDrains ==
    (\A t \in Session : []<>~Admitted(t)) =>
        \A s \in Session : Queued(s) ~> (~Queued(s) \/ pc = "stopped")
=============================================================================
