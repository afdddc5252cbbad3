------------------------- MODULE WorldSocket_proofs -------------------------
(***************************************************************************)
(* Proof that m_Session is never used after the session was deleted, for   *)
(* any number of map threads and of sessions.                              *)
(*                                                                         *)
(* NoDeletedSessionUsed is not inductive.  The invariant says in addition  *)
(* who can be between the two sections of CloseSocket (at most one thread, *)
(* and a map thread only while the world thread waits for the maps), and   *)
(* that m_Session is still set while that thread is there.                 *)
(***************************************************************************)
EXTENDS WorldSocket, FiniteSetTheorems, TLAPS

\* The part of the state the argument is about; the counters play no part.
ControlType ==
    /\ openPc \in {"new", "added", "registered", "failed", "done"}
    /\ closing_ \in BOOLEAN
    /\ m_Session \in Session \cup {NoSession}
    /\ sess \in [Session -> {"none", "made", "world", "deleted"}]
    /\ registered \in BOOLEAN
    /\ netPc \in NetStates
    /\ worldPc \in {"sessions", "closeNull", "maps"}
    /\ mapPc \in [MapThread -> {"idle", "closeNull"}]

\* Some thread other than the network thread is about to set m_Session to NULL.
Pending == worldPc = "closeNull" \/ \E t \in MapThread : mapPc[t] = "closeNull"

\* Before the socket is registered, nothing has been received on it.
Opening ==
    openPc \in {"new", "added"} =>
        /\ ~registered
        /\ netPc \notin Upcall
        /\ \A s \in Session : sess[s] = "none"
        /\ ~Pending

\* One thread at a time is inside CloseSocket, and the barrier covers the map threads.
OneCloser ==
    /\ \A t \in MapThread : mapPc[t] = "closeNull" => worldPc = "maps"
    /\ \A t, u \in MapThread : mapPc[t] = "closeNull" /\ mapPc[u] = "closeNull" => t = u
    /\ Pending => closing_
    /\ netPc \in {"svcNull", "closeNull", "remove"} => closing_
    /\ netPc = "svcNull" => ~Pending

\* What m_Session points to.
Pointer ==
    /\ netPc \in Upcall \ {"return"} => registered
    /\ \A s \in Session : ~closing_ /\ sess[s] = "world" => m_Session = s
    /\ Pending => m_Session # NoSession \/ ~registered \/ netPc = "remove"
    /\ netPc \in {"data", "ping", "auth"} /\ closing_ => m_Session = NoSession \/ Pending
    /\ netPc \in {"data", "ping", "auth"} => Alive(m_Session)
    /\ ~closing_ => Alive(m_Session)
    /\ netPc = "adding" => m_Session # NoSession /\ sess[m_Session] = "made" /\ ~Pending

IInv == ControlType /\ Opening /\ OneCloser /\ Pointer

-----------------------------------------------------------------------------
\* A new socket satisfies the invariant: nobody but the acceptor knows it.
LEMMA InitIInv == Init => IInv
  BY SocketAssumption
     DEF Init, IInv, ControlType, Opening, OneCloser, Pointer, Pending, Alive, NetStates, Upcall

\* The steps of WorldSocket::open keep the invariant.
LEMMA OpenKeepsIInv == IInv /\ OpenStep => IInv'
  <1> SUFFICES ASSUME IInv, OpenStep PROVE IInv'
    OBVIOUS
  <1> USE SocketAssumption DEF IInv, ControlType, Opening, OneCloser, Pointer, Pending, Alive,
          NetStates, Upcall, threadVars, ownVars
  <1>1. CASE AddSocket
    BY <1>1 DEF AddSocket
  <1>2. CASE RegisterHandler
    BY <1>2 DEF RegisterHandler
  <1>3. CASE OpenFails
    BY <1>3 DEF OpenFails
  <1>4. CASE ReleaseSocket
    BY <1>4 DEF ReleaseSocket
  <1> QED
    BY <1>1, <1>2, <1>3, <1>4 DEF OpenStep

\* The steps of handle_input and of the packets it handles keep the invariant.
LEMMA UpcallKeepsIInv ==
    ASSUME IInv,
           \/ InputEvent \/ handle_input \/ ProcessIncoming \/ QueuePacket \/ HandlePing
           \/ SendPong \/ AuthFails \/ (\E s \in Session : HandleAuthSession(s)) \/ AddSession
    PROVE  IInv'
  <1> USE SocketAssumption DEF IInv, ControlType, Opening, OneCloser, Pointer, Pending, Alive,
          NetStates, Upcall, threadVars, ownVars
  <1>1. CASE InputEvent
    BY <1>1 DEF InputEvent
  <1>2. CASE handle_input
    BY <1>2 DEF handle_input, NetTo
  <1>3. CASE ProcessIncoming
    <2>1. /\ netPc = "packet"
          /\ netPc' \in {"fail", "data", "ping", "pong", "auth", "input"}
          /\ netPc' \in {"data", "ping", "auth"} => ~closing_
          /\ UNCHANGED <<openPc, closing_, m_Session, sess, ownVars, threadVars, peerGone>>
      BY <1>3 DEF ProcessIncoming, MayProcess, NetTo
    <2> QED
      BY <2>1
  <1>4. CASE QueuePacket
    BY <1>4 DEF QueuePacket, NetTo
  <1>5. CASE HandlePing
    BY <1>5 DEF HandlePing, NetTo
  <1>6. CASE SendPong
    BY <1>6 DEF SendPong, NetTo
  <1>7. CASE AuthFails
    BY <1>7 DEF AuthFails, NetTo
  <1>8. ASSUME NEW s \in Session, HandleAuthSession(s) PROVE IInv'
    BY <1>8 DEF HandleAuthSession
  <1>9. CASE AddSession
    BY <1>9 DEF AddSession
  <1> QED
    BY <1>1, <1>2, <1>3, <1>4, <1>5, <1>6, <1>7, <1>8, <1>9

\* handle_close and the loop of ReactorRunnable::svc keep the invariant.
LEMMA LoopKeepsIInv ==
    ASSUME IInv,
           \/ HandleClose \/ HandleCloseNull \/ RemoveHandler \/ EndUpcall
           \/ ReactorTimeout \/ AddNewSockets \/ Update \/ SvcClose \/ SvcNull \/ SvcDrop
    PROVE  IInv'
  <1> USE SocketAssumption DEF IInv, ControlType, Opening, OneCloser, Pointer, Pending, Alive,
          NetStates, Upcall, threadVars, ownVars
  <1>1. CASE HandleClose
    BY <1>1 DEF HandleClose
  <1>2. CASE HandleCloseNull
    BY <1>2 DEF HandleCloseNull
  <1>3. CASE RemoveHandler
    BY <1>3 DEF RemoveHandler
  <1>4. CASE EndUpcall
    BY <1>4 DEF EndUpcall
  <1>5. CASE ReactorTimeout
    BY <1>5 DEF ReactorTimeout, NetTo
  <1>6. CASE AddNewSockets
    BY <1>6 DEF AddNewSockets, DropListed
  <1>7. CASE Update
    BY <1>7 DEF Update, NetTo
  <1>8. CASE SvcClose
    BY <1>8 DEF SvcClose
  <1>9. CASE SvcNull
    BY <1>9 DEF SvcNull
  <1>10. CASE SvcDrop
    BY <1>10 DEF SvcDrop, DropListed
  <1> QED
    BY <1>1, <1>2, <1>3, <1>4, <1>5, <1>6, <1>7, <1>8, <1>9, <1>10

\* The steps of the world thread keep the invariant; the barrier is used by EndMaps.
LEMMA WorldKeepsIInv == IInv /\ WorldStep => IInv'
  <1> SUFFICES ASSUME IInv, WorldStep PROVE IInv'
    OBVIOUS
  <1> USE SocketAssumption DEF IInv, ControlType, Opening, OneCloser, Pointer, Pending, Alive,
          NetStates, Upcall, threadVars, ownVars
  <1>1. CASE WorldClose
    BY <1>1 DEF WorldClose
  <1>2. CASE WorldNull
    BY <1>2 DEF WorldNull
  <1>3. CASE EndSessions
    BY <1>3 DEF EndSessions, Finished
  <1>4. CASE EndMaps
    BY <1>4 DEF EndMaps, MapsDone
  <1> QED
    BY <1>1, <1>2, <1>3, <1>4 DEF WorldStep

\* The steps of a map thread keep the invariant.
LEMMA MapKeepsIInv == ASSUME IInv, NEW t \in MapThread, MapStep(t) PROVE IInv'
  <1> USE SocketAssumption DEF IInv, ControlType, Opening, OneCloser, Pointer, Pending, Alive,
          NetStates, Upcall, threadVars, ownVars
  <1>1. CASE MapClose(t)
    BY <1>1 DEF MapClose
  <1>2. CASE MapNull(t)
    BY <1>2 DEF MapNull
  <1> QED
    BY <1>1, <1>2 DEF MapStep

\* Every step of the system, and a step that changes nothing, keeps the invariant.
LEMMA NextIInv == IInv /\ [Next]_vars => IInv'
  <1> SUFFICES ASSUME IInv, [Next]_vars PROVE IInv'
    OBVIOUS
  <1>1. CASE OpenStep
    BY <1>1, OpenKeepsIInv
  <1>2. CASE NetStep
    BY <1>2, UpcallKeepsIInv, LoopKeepsIInv DEF NetStep
  <1>3. CASE WorldStep
    BY <1>3, WorldKeepsIInv
  <1>4. ASSUME NEW t \in MapThread, MapStep(t) PROVE IInv'
    BY <1>4, MapKeepsIInv
  <1>5. CASE PeerCloses
    BY <1>5 DEF PeerCloses, IInv, ControlType, Opening, OneCloser, Pointer, Pending, Alive,
                threadVars, ownVars
  <1>6. CASE UNCHANGED vars
    BY <1>6 DEF vars, IInv, ControlType, Opening, OneCloser, Pointer, Pending, Alive,
                threadVars, ownVars
  <1> QED
    BY <1>1, <1>2, <1>3, <1>4, <1>5, <1>6 DEF Next

\* The invariant holds in every reachable state.
THEOREM Invariance == Spec => []IInv
  BY InitIInv, NextIInv, PTL DEF Spec

(***************************************************************************)
(* Whatever the number of sessions and of map threads, ProcessIncoming,    *)
(* HandlePing, SendPacket and HandleAuthSession never use a deleted        *)
(* session.                                                                *)
(***************************************************************************)
THEOREM DeletedSessionNeverUsed == Spec => []NoDeletedSessionUsed
  <1>1. IInv => NoDeletedSessionUsed
    BY SocketAssumption DEF IInv, Pointer, NoDeletedSessionUsed, Alive
  <1> QED
    BY <1>1, Invariance, PTL

-----------------------------------------------------------------------------
\* What the reference count needs besides: the socket is listed when it is dropped.
Listing ==
    /\ listed \in {"no", "new", "in", "dropped"}
    /\ openPc = "new" => listed = "no"
    /\ netPc \in {"svcClose", "svcNull", "svcDrop"} => listed = "in"

RInv == Listing /\ ReferencesMatch

\* A new socket has the acceptor's reference and no other.
LEMMA InitRInv == Init => RInv
  <1> SUFFICES ASSUME Init PROVE RInv
    OBVIOUS
  <1>1. Using = {}
    BY DEF Init, Using
  <1>2. Cardinality(Using) = 0
    BY <1>1, FS_EmptySet
  <1> QED
    BY <1>2 DEF Init, RInv, Listing, ReferencesMatch, Count, Upcall

\* The sessions that use the socket are finitely many.
LEMMA UsingFinite == IsFiniteSet(Using) /\ Cardinality(Using) \in Nat
  <1>1. Using \in SUBSET Session
    BY DEF Using
  <1>2. IsFiniteSet(Using)
    BY <1>1, FS_Subset, SocketAssumption
  <1> QED
    BY <1>2, FS_CardinalityType

\* A new session is one more user.
LEMMA UsingAdd ==
    ASSUME NEW s \in Session, IInv, HandleAuthSession(s)
    PROVE  Cardinality(Using') = Cardinality(Using) + 1
  <1>1. Using' = Using \cup {s} /\ s \notin Using
    BY DEF HandleAuthSession, Using, IInv, ControlType
  <1> QED
    BY <1>1, UsingFinite, FS_AddElement

\* The sessions that UpdateSessions deletes are users that leave.
LEMMA UsingRemove ==
    ASSUME IInv, EndSessions
    PROVE  /\ Cardinality(Finished) \in Nat
           /\ Cardinality(Using) = Cardinality(Using') + Cardinality(Finished)
           /\ Cardinality(Using') \in Nat
  <1>1. /\ Using = Using' \cup Finished
        /\ Using' \cap Finished = {}
    BY DEF EndSessions, Finished, Using, IInv, ControlType
  <1>2. Finished \in SUBSET Using /\ Using' \in SUBSET Using
    BY <1>1
  <1>3. IsFiniteSet(Finished) /\ IsFiniteSet(Using')
    BY <1>2, UsingFinite, FS_Subset
  <1>4. Cardinality(Finished) \in Nat /\ Cardinality(Using') \in Nat
    BY <1>3, FS_CardinalityType
  <1>5. Cardinality(Using' \cap Finished) = 0
    BY <1>1, FS_EmptySet
  <1>6. Cardinality(Using' \cup Finished)
          = Cardinality(Using') + Cardinality(Finished) - Cardinality(Using' \cap Finished)
    BY <1>3, FS_Union
  <1> QED
    BY <1>1, <1>4, <1>5, <1>6

\* The steps that create or delete a session keep the count.
LEMMA SessionsKeepRInv ==
    ASSUME IInv, RInv,
           (\E s \in Session : HandleAuthSession(s)) \/ AddSession \/ EndSessions
    PROVE  RInv'
  <1> USE UsingFinite DEF RInv, Listing, ReferencesMatch, Count
  <1>1. ASSUME NEW s \in Session, HandleAuthSession(s) PROVE RInv'
    <2>1. Cardinality(Using') = Cardinality(Using) + 1
      BY <1>1, UsingAdd
    <2> QED
      BY <1>1, <2>1 DEF HandleAuthSession, Upcall
  <1>2. CASE AddSession
    <2>1. Using' = Using
      BY <1>2 DEF AddSession, Using, IInv, ControlType, Pointer
    <2> QED
      BY <1>2, <2>1 DEF AddSession, ownVars, Upcall
  <1>3. CASE EndSessions
    <2>1. /\ Cardinality(Finished) \in Nat
          /\ Cardinality(Using) = Cardinality(Using') + Cardinality(Finished)
          /\ Cardinality(Using') \in Nat
      BY <1>3, UsingRemove
    <2> QED
      BY <1>3, <2>1 DEF EndSessions, ReleaseOfFinished
  <1> QED
    BY <1>1, <1>2, <1>3

\* The steps of the network thread that leave the sessions alone keep the count.
LEMMA NetKeepsRInv ==
    ASSUME IInv, RInv, UNCHANGED sess,
           \/ InputEvent \/ handle_input \/ ProcessIncoming \/ QueuePacket \/ HandlePing
           \/ SendPong \/ AuthFails
           \/ HandleClose \/ HandleCloseNull \/ RemoveHandler \/ EndUpcall
           \/ ReactorTimeout \/ AddNewSockets \/ Update \/ SvcClose \/ SvcNull \/ SvcDrop
    PROVE  RInv'
  <1>0. Using' = Using
    BY DEF Using
  <1> USE <1>0, UsingFinite DEF RInv, Listing, ReferencesMatch, Count, Upcall, ownVars
  <1>1. CASE InputEvent
    BY <1>1 DEF InputEvent
  <1>2. CASE handle_input \/ ProcessIncoming \/ QueuePacket \/ HandlePing \/ SendPong
             \/ AuthFails
    <2>1. /\ netPc \in {"input", "packet", "data", "ping", "pong", "auth"}
          /\ netPc' \in {"fail", "packet", "return", "data", "ping", "pong", "auth", "input"}
          /\ UNCHANGED <<openPc, ownVars>>
      BY <1>2 DEF handle_input, ProcessIncoming, QueuePacket, HandlePing, SendPong, AuthFails,
                  NetTo
    <2> QED
      BY <2>1
  <1>3. CASE HandleClose \/ HandleCloseNull
    BY <1>3 DEF HandleClose, HandleCloseNull
  <1>4. CASE RemoveHandler
    BY <1>4 DEF RemoveHandler, IInv, Pointer
  <1>5. CASE EndUpcall
    BY <1>5 DEF EndUpcall
  <1>6. CASE ReactorTimeout
    BY <1>6 DEF ReactorTimeout, NetTo
  <1>7. CASE AddNewSockets
    BY <1>7 DEF AddNewSockets, DropListed
  <1>8. CASE Update
    BY <1>8 DEF Update, NetTo
  <1>9. CASE SvcClose \/ SvcNull
    BY <1>9 DEF SvcClose, SvcNull
  <1>10. CASE SvcDrop
    BY <1>10 DEF SvcDrop, DropListed
  <1> QED
    BY <1>1, <1>2, <1>3, <1>4, <1>5, <1>6, <1>7, <1>8, <1>9, <1>10

\* The steps of the other threads that leave the sessions alone keep the count.
LEMMA OthersKeepRInv ==
    ASSUME IInv, RInv,
           \/ OpenStep \/ WorldClose \/ WorldNull \/ EndMaps
           \/ (\E t \in MapThread : MapStep(t)) \/ PeerCloses \/ UNCHANGED vars
    PROVE  RInv'
  <1>0. Using' = Using
    BY DEF Using, OpenStep, AddSocket, RegisterHandler, OpenFails, ReleaseSocket, WorldClose,
           WorldNull, EndMaps, MapStep, MapClose, MapNull, PeerCloses, vars
  <1> USE <1>0, UsingFinite DEF RInv, Listing, ReferencesMatch, Count, ownVars
  <1>1. CASE AddSocket
    BY <1>1 DEF AddSocket
  <1>2. CASE RegisterHandler
    BY <1>2 DEF RegisterHandler, IInv, Opening
  <1>3. CASE OpenFails
    BY <1>3 DEF OpenFails
  <1>4. CASE ReleaseSocket
    BY <1>4 DEF ReleaseSocket
  <1>5. CASE UNCHANGED <<openPc, ownVars, netPc>>
    BY <1>5
  <1> QED
    BY <1>1, <1>2, <1>3, <1>4, <1>5
       DEF OpenStep, WorldClose, WorldNull, EndMaps, MapStep, MapClose, MapNull, PeerCloses, vars

\* Every step keeps the count.
LEMMA NextRInv == IInv /\ RInv /\ [Next]_vars => RInv'
  <1> SUFFICES ASSUME IInv, RInv, [Next]_vars PROVE RInv'
    OBVIOUS
  <1>1. CASE \/ InputEvent \/ handle_input \/ ProcessIncoming \/ QueuePacket \/ HandlePing
             \/ SendPong \/ AuthFails
             \/ HandleClose \/ HandleCloseNull \/ RemoveHandler \/ EndUpcall
             \/ ReactorTimeout \/ AddNewSockets \/ Update \/ SvcClose \/ SvcNull \/ SvcDrop
    <2>1. UNCHANGED sess
      BY <1>1 DEF InputEvent, handle_input, ProcessIncoming, QueuePacket, HandlePing, SendPong,
             AuthFails, HandleClose, HandleCloseNull, RemoveHandler, EndUpcall, ReactorTimeout,
             AddNewSockets, DropListed, Update, SvcClose, SvcNull, SvcDrop, NetTo
    <2> QED
      BY <1>1, <2>1, NetKeepsRInv
  <1>2. CASE (\E s \in Session : HandleAuthSession(s)) \/ AddSession \/ EndSessions
    BY <1>2, SessionsKeepRInv
  <1>3. CASE \/ OpenStep \/ WorldClose \/ WorldNull \/ EndMaps
             \/ (\E t \in MapThread : MapStep(t)) \/ PeerCloses \/ UNCHANGED vars
    BY <1>3, OthersKeepRInv
  <1> QED
    BY <1>1, <1>2, <1>3 DEF Next, NetStep, WorldStep

(***************************************************************************)
(* Whatever the number of sessions and of map threads, the reference count *)
(* of the socket is the number of its users, so that RemoveReference       *)
(* deletes it with the last of them and m_Connections is exact.            *)
(***************************************************************************)
THEOREM ReferencesExact == Spec => []ReferencesMatch
  <1>1. RInv => ReferencesMatch
    BY DEF RInv
  <1> QED
    BY <1>1, InitRInv, NextRInv, Invariance, PTL DEF Spec
=============================================================================
