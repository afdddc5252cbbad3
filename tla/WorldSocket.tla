---------------------------- MODULE WorldSocket ----------------------------
(***************************************************************************)
(* The life of one WorldSocket and of the sessions that use it.            *)
(*                                                                         *)
(* The acceptor's thread opens the socket and hands it to a network        *)
(* thread, which receives packets, creates the WorldSession and keeps the  *)
(* pointer m_Session.  The world thread and, while it updates the maps,    *)
(* the map threads close the socket; the world thread deletes the session  *)
(* when it sees the socket closed.  The socket is reference counted.       *)
(*                                                                         *)
(* Closing takes two critical sections: closing_ is set under              *)
(* m_OutBufferLock, then m_Session is set to NULL under m_SessionLock.     *)
(* A thread between the two is in a state of its own here.                 *)
(***************************************************************************)
EXTENDS Naturals, FiniteSets

CONSTANTS
    Session,        \* WorldSession objects
    MapThread,      \* the threads of MapUpdater
    NoSession       \* NULL

ASSUME SocketAssumption == NoSession \notin Session /\ IsFiniteSet(Session)

VARIABLES
    openPc,         \* the acceptor's progress in WorldSocket::open
    closing_,
    m_Session,
    sess,           \* the life of each session
    refs,           \* the reference count of the socket
    registered,     \* is the socket registered with the reactor
    listed,         \* is it in m_NewSockets or m_Sockets of its ReactorRunnable
    m_Connections,
    netPc,          \* what the network thread does
    worldPc,        \* what the world thread does
    mapPc,          \* the map threads: are they between the sections of CloseSocket
    peerGone        \* has the connection ended on the client's side

threadVars == <<worldPc, mapPc>>
ownVars == <<refs, registered, listed, m_Connections>>
vars == <<openPc, closing_, m_Session, sess, ownVars, netPc, threadVars, peerGone>>

\* The network thread is in handle_input, called by the reactor.
Upcall == {"input", "packet", "data", "ping", "pong", "auth", "adding",
           "fail", "closeNull", "remove", "return"}
NetStates == Upcall \cup {"reactor", "addNew", "update", "svcClose", "svcNull", "svcDrop"}

Using == {s \in Session : sess[s] \in {"made", "world"}}

-----------------------------------------------------------------------------
\* A new event handler has one reference, the acceptor's.
Init ==
    /\ openPc = "new"
    /\ closing_ = FALSE
    /\ m_Session = NoSession
    /\ sess = [s \in Session |-> "none"]
    /\ refs = 1
    /\ registered = FALSE
    /\ listed = "no"
    /\ m_Connections = 0
    /\ netPc = "reactor"
    /\ worldPc = "sessions"
    /\ mapPc = [t \in MapThread |-> "idle"]
    /\ peerGone = FALSE

-----------------------------------------------------------------------------
(* WorldSocket::open, by the acceptor's thread.                            *)

\* OnSocketOpen and ReactorRunnable::AddSocket.
AddSocket ==
    /\ openPc = "new"
    /\ openPc' = "added"
    /\ listed' = "new"
    /\ m_Connections' = m_Connections + 1
    /\ refs' = refs + 1
    /\ UNCHANGED <<closing_, m_Session, sess, registered, netPc, threadVars, peerGone>>

RegisterHandler ==
    /\ openPc = "added"
    /\ openPc' = "registered"
    /\ registered' = TRUE
    /\ refs' = refs + 1
    /\ UNCHANGED <<closing_, m_Session, sess, listed, m_Connections, netPc, threadVars,
                   peerGone>>

\* open returned -1: the acceptor calls WorldSocket::close.
OpenFails ==
    /\ openPc \in {"new", "added"}
    /\ openPc' = "failed"
    /\ closing_' = TRUE
    /\ UNCHANGED <<m_Session, sess, ownVars, netPc, threadVars, peerGone>>

\* "reactor takes care of the socket from now on", or the end of close.
ReleaseSocket ==
    /\ openPc \in {"registered", "failed"}
    /\ openPc' = "done"
    /\ refs' = refs - 1
    /\ UNCHANGED <<closing_, m_Session, sess, registered, listed, m_Connections, netPc,
                   threadVars, peerGone>>

-----------------------------------------------------------------------------
(* The network thread: the reactor and handle_input.                       *)

NetTo(next) ==
    /\ netPc' = next
    /\ UNCHANGED <<openPc, closing_, m_Session, sess, ownVars, threadVars, peerGone>>

\* The reactor holds a reference during the call.
InputEvent ==
    /\ netPc = "reactor"
    /\ registered
    /\ netPc' = "input"
    /\ refs' = refs + 1
    /\ UNCHANGED <<openPc, closing_, m_Session, sess, registered, listed, m_Connections,
                   threadVars, peerGone>>

\* Closed already, the peer is gone, or the Update at its end failed: -1.
\* Otherwise a packet, or no more data.
handle_input ==
    /\ netPc = "input"
    /\ \/ NetTo("fail")
       \/ ~peerGone /\ NetTo("packet")
       \/ ~peerGone /\ ~closing_ /\ NetTo("return")

MayProcess == ~closing_

ProcessIncoming ==
    /\ netPc = "packet"
    /\ \/ ~MayProcess /\ NetTo("fail")
       \/ /\ MayProcess
          /\ \/ NetTo("data")
             \/ NetTo("ping")
             \/ NetTo("pong")       \* MSG_VERIFY_CONNECTIVITY
             \/ NetTo("auth")
             \/ NetTo("fail")       \* a malformed packet
             \/ NetTo("input")      \* CMSG_LOG_DISCONNECT

\* The default branch, under m_SessionLock: QueuePacket, or -1 without a session.
QueuePacket ==
    /\ netPc = "data"
    /\ NetTo(IF m_Session = NoSession THEN "fail" ELSE "input")

\* Under m_SessionLock too; too many pings close the connection.
HandlePing ==
    /\ netPc = "ping"
    /\ \/ m_Session # NoSession /\ NetTo("pong")
       \/ NetTo("fail")

\* The answer to a ping or to MSG_VERIFY_CONNECTIVITY.  SendPacket looks at
\* closing_ and m_Session under m_OutBufferLock.
SendPong ==
    /\ netPc = "pong"
    /\ NetTo(IF closing_ THEN "fail" ELSE "input")

\* A second CMSG_AUTH_SESSION, or one that is refused.
AuthFails ==
    /\ netPc = "auth"
    /\ NetTo("fail")

\* The constructor of WorldSession adds a reference to the socket.
HandleAuthSession(s) ==
    /\ netPc = "auth"
    /\ m_Session = NoSession
    /\ sess[s] = "none"
    /\ m_Session' = s
    /\ sess' = [sess EXCEPT ![s] = "made"]
    /\ refs' = refs + 1
    /\ netPc' = "adding"
    /\ UNCHANGED <<openPc, closing_, registered, listed, m_Connections, threadVars, peerGone>>

\* sWorld->AddSession(m_Session)
AddSession ==
    /\ netPc = "adding"
    /\ sess' = [sess EXCEPT ![m_Session] = "world"]
    /\ netPc' = "input"
    /\ UNCHANGED <<openPc, closing_, m_Session, ownVars, threadVars, peerGone>>

\* handle_close: the two sections, then remove_handler drops the reactor's reference.
HandleClose ==
    /\ netPc = "fail"
    /\ closing_' = TRUE
    /\ netPc' = "closeNull"
    /\ UNCHANGED <<openPc, m_Session, sess, ownVars, threadVars, peerGone>>

HandleCloseNull ==
    /\ netPc = "closeNull"
    /\ m_Session' = NoSession
    /\ netPc' = "remove"
    /\ UNCHANGED <<openPc, closing_, sess, ownVars, threadVars, peerGone>>

RemoveHandler ==
    /\ netPc = "remove"
    /\ registered' = FALSE
    /\ refs' = refs - 1
    /\ netPc' = "return"
    /\ UNCHANGED <<openPc, closing_, m_Session, sess, listed, m_Connections, threadVars,
                   peerGone>>

EndUpcall ==
    /\ netPc = "return"
    /\ refs' = refs - 1
    /\ netPc' = "reactor"
    /\ UNCHANGED <<openPc, closing_, m_Session, sess, registered, listed, m_Connections,
                   threadVars, peerGone>>

-----------------------------------------------------------------------------
(* The network thread: the loop of ReactorRunnable::svc.                   *)

\* The 10 ms are over; a connection that has ended is an event.
ReactorTimeout ==
    /\ netPc = "reactor"
    /\ ~(registered /\ peerGone)
    /\ NetTo("addNew")

\* Mutant: a socket that is closed already keeps the reference of the list.
DropListedNoRelease ==
    /\ listed' = "dropped"
    /\ m_Connections' = m_Connections - 1
    /\ UNCHANGED <<openPc, closing_, m_Session, sess, refs, registered, threadVars, peerGone>>

\* RemoveReference, --m_Connections and the erasure from the set.
DropListed ==
    /\ listed' = "dropped"
    /\ m_Connections' = m_Connections - 1
    /\ refs' = refs - 1
    /\ UNCHANGED <<openPc, closing_, m_Session, sess, registered, threadVars, peerGone>>

AddNewSockets ==
    /\ netPc = "addNew"
    /\ \/ listed = "new" /\ closing_ /\ DropListed
       \/ /\ listed = "new"
          /\ ~closing_
          /\ listed' = "in"
          /\ UNCHANGED <<openPc, closing_, m_Session, sess, refs, registered, m_Connections,
                         threadVars, peerGone>>
       \/ /\ listed # "new"
          /\ UNCHANGED <<openPc, closing_, m_Session, sess, ownVars, threadVars, peerGone>>
    /\ netPc' = "update"

\* Update returns -1 for a closed socket or when its output fails.
Update ==
    /\ netPc = "update"
    /\ \/ listed = "in" /\ NetTo("svcClose")
       \/ ~(listed = "in" /\ closing_) /\ NetTo("reactor")

\* CloseSocket: nothing is done by a thread that finds closing_ set.
SvcClose ==
    /\ netPc = "svcClose"
    /\ closing_' = TRUE
    /\ netPc' = IF closing_ THEN "svcDrop" ELSE "svcNull"
    /\ UNCHANGED <<openPc, m_Session, sess, ownVars, threadVars, peerGone>>

SvcNull ==
    /\ netPc = "svcNull"
    /\ m_Session' = NoSession
    /\ netPc' = "svcDrop"
    /\ UNCHANGED <<openPc, closing_, sess, ownVars, threadVars, peerGone>>

SvcDrop ==
    /\ netPc = "svcDrop"
    /\ DropListed
    /\ netPc' = "reactor"

-----------------------------------------------------------------------------
(* The world thread and the map threads.                                   *)

\* KickPlayer, the idle timer or a refused packet, in World::UpdateSessions.
WorldClose ==
    /\ worldPc = "sessions"
    /\ \E s \in Session : sess[s] = "world"
    /\ ~closing_
    /\ closing_' = TRUE
    /\ worldPc' = "closeNull"
    /\ UNCHANGED <<openPc, m_Session, sess, ownVars, netPc, mapPc, peerGone>>

WorldNull ==
    /\ worldPc = "closeNull"
    /\ m_Session' = NoSession
    /\ worldPc' = "sessions"
    /\ UNCHANGED <<openPc, closing_, sess, ownVars, netPc, mapPc, peerGone>>

\* Mutant: only the session that the socket still points to.
FinishedIfKnown ==
    IF closing_ THEN {s \in Session : sess[s] = "world" /\ s = m_Session} ELSE {}

\* The sessions that WorldSession::Update gives up, or that a reconnect has deleted.
Finished == IF closing_ THEN {s \in Session : sess[s] = "world"} ELSE {}

\* Mutant: the session does not release the socket.
KeepReference == refs

ReleaseOfFinished == refs - Cardinality(Finished)

\* The end of UpdateSessions, then MapManager::Update starts.
EndSessions ==
    /\ worldPc = "sessions"
    /\ sess' = [s \in Session |-> IF s \in Finished THEN "deleted" ELSE sess[s]]
    /\ refs' = ReleaseOfFinished
    /\ worldPc' = "maps"
    /\ UNCHANGED <<openPc, closing_, m_Session, registered, listed, m_Connections, netPc,
                   mapPc, peerGone>>

\* A packet handler on a map thread closes the socket of its session.
MapClose(t) ==
    /\ worldPc = "maps"
    /\ mapPc[t] = "idle"
    /\ \E s \in Session : sess[s] = "world"
    /\ ~closing_
    /\ closing_' = TRUE
    /\ mapPc' = [mapPc EXCEPT ![t] = "closeNull"]
    /\ UNCHANGED <<openPc, m_Session, sess, ownVars, netPc, worldPc, peerGone>>

MapNull(t) ==
    /\ mapPc[t] = "closeNull"
    /\ m_Session' = NoSession
    /\ mapPc' = [mapPc EXCEPT ![t] = "idle"]
    /\ UNCHANGED <<openPc, closing_, sess, ownVars, netPc, worldPc, peerGone>>

\* Mutant: the world thread does not wait for the maps.
DoesNotWait == TRUE

\* MapUpdater::wait
MapsDone == \A t \in MapThread : mapPc[t] = "idle"

EndMaps ==
    /\ worldPc = "maps"
    /\ MapsDone
    /\ worldPc' = "sessions"
    /\ UNCHANGED <<openPc, closing_, m_Session, sess, ownVars, netPc, mapPc, peerGone>>

PeerCloses ==
    /\ ~peerGone
    /\ peerGone' = TRUE
    /\ UNCHANGED <<openPc, closing_, m_Session, sess, ownVars, netPc, threadVars>>

-----------------------------------------------------------------------------
OpenStep == AddSocket \/ RegisterHandler \/ OpenFails \/ ReleaseSocket

NetStep ==
    \/ InputEvent \/ handle_input \/ ProcessIncoming
    \/ QueuePacket \/ HandlePing \/ SendPong \/ AuthFails
    \/ \E s \in Session : HandleAuthSession(s)
    \/ AddSession
    \/ HandleClose \/ HandleCloseNull \/ RemoveHandler \/ EndUpcall
    \/ ReactorTimeout \/ AddNewSockets \/ Update
    \/ SvcClose \/ SvcNull \/ SvcDrop

WorldStep == WorldClose \/ WorldNull \/ EndSessions \/ EndMaps
MapStep(t) == MapClose(t) \/ MapNull(t)

Next ==
    \/ OpenStep
    \/ NetStep
    \/ WorldStep
    \/ \E t \in MapThread : MapStep(t)
    \/ PeerCloses

Spec == Init /\ [][Next]_vars

(***************************************************************************)
(* Every thread keeps running: the network thread's loop never blocks for  *)
(* longer than the reactor's 10 ms, the world thread waits for nothing but *)
(* the maps, and a thread inside CloseSocket or open finishes it.          *)
(***************************************************************************)
FairSpec ==
    /\ Spec
    /\ WF_vars(OpenStep)
    /\ WF_vars(NetStep)
    /\ WF_vars(WorldStep)
    /\ \A t \in MapThread : WF_vars(MapNull(t))

-----------------------------------------------------------------------------
\* The type of the state: the counts of references and of connections are never
\* negative.
TypeOK ==
    /\ openPc \in {"new", "added", "registered", "failed", "done"}
    /\ closing_ \in BOOLEAN
    /\ m_Session \in Session \cup {NoSession}
    /\ sess \in [Session -> {"none", "made", "world", "deleted"}]
    /\ refs \in Nat
    /\ registered \in BOOLEAN
    /\ listed \in {"no", "new", "in", "dropped"}
    /\ m_Connections \in Nat
    /\ netPc \in NetStates
    /\ worldPc \in {"sessions", "closeNull", "maps"}
    /\ mapPc \in [MapThread -> {"idle", "closeNull"}]
    /\ peerGone \in BOOLEAN

Count(b) == IF b THEN 1 ELSE 0

(***************************************************************************)
(* The reference count is the number of those who may still use the        *)
(* socket: the acceptor until it is done with open, the list of the        *)
(* network thread, the reactor, the upcall in progress and every session   *)
(* with a pointer to it.  So the socket is deleted when the last one       *)
(* leaves, in whatever order they leave, and not before; and m_Connections *)
(* counts it exactly as long as it is listed.                              *)
(***************************************************************************)
ReferencesMatch ==
    /\ refs = Count(openPc # "done") + Count(listed \in {"new", "in"})
              + Count(registered) + Count(netPc \in Upcall) + Cardinality(Using)
    /\ m_Connections = Count(listed \in {"new", "in"})

Alive(s) == s # NoSession => sess[s] # "deleted"

(***************************************************************************)
(* m_Session is never used after the session was deleted: not by the       *)
(* default branch of ProcessIncoming and by HandlePing, which find out     *)
(* under m_SessionLock; not by SendPacket, which uses it while it has      *)
(* found closing_ false under m_OutBufferLock; not by HandleAuthSession    *)
(* between the creation of the session and AddSession.  This holds         *)
(* although closing_ and m_Session change in two sections and the world    *)
(* thread only looks at closing_, because a map thread in between delays   *)
(* the world thread at MapUpdater::wait.                                   *)
(***************************************************************************)
NoDeletedSessionUsed ==
    /\ netPc \in {"data", "ping"} => Alive(m_Session)
    /\ ~closing_ => Alive(m_Session)
    /\ netPc = "adding" => m_Session # NoSession /\ Alive(m_Session)

(***************************************************************************)
(* When the connection has ended, the socket is deleted: each of the       *)
(* reactor, the network thread's list, the acceptor and the sessions       *)
(* notices, and none waits for another.                                    *)
(***************************************************************************)
SocketFreed == peerGone ~> refs = 0

(***************************************************************************)
(* A session whose socket is closed is deleted by the world thread,        *)
(* also one that was created on a socket that a kick had closed already.   *)
(***************************************************************************)
SessionDeleted ==
    \A s \in Session : (closing_ /\ sess[s] = "world") ~> sess[s] = "deleted"
=============================================================================
