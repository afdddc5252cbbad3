------------------------ MODULE WorldSessions_proofs ------------------------
(***************************************************************************)
(* Proofs about the admission of sessions, for any number of sessions and  *)
(* accounts and any player limit.                                          *)
(***************************************************************************)
EXTENDS WorldSessions, FiniteSetTheorems, TLAPS

-----------------------------------------------------------------------------
(* Sequences without duplicates: the operations of the login queue.        *)

\* What is in a queue, and in which order, in terms of positions.
LEMMA AtPosition ==
    ASSUME NEW q \in Seq(Session), NEW i \in 1..Len(q)
    PROVE  q[i] \in SeqRange(q)
  BY DEF SeqRange

\* A session in the queue is at some place of it.
LEMMA HasPosition ==
    ASSUME NEW q \in Seq(Session), NEW s \in SeqRange(q)
    PROVE  \E i \in 1..Len(q) : q[i] = s
  BY DEF SeqRange

\* Sessions at a smaller place are before those at a greater.
LEMMA BeforePositions ==
    ASSUME NEW q \in Seq(Session), NEW i \in 1..Len(q), NEW j \in 1..Len(q), i < j
    PROVE  Before(q, q[i], q[j])
  BY DEF Before

\* A session of the queue has one position.
LEMMA PositionIs ==
    ASSUME NEW q \in Seq(Session), NoDuplicates(q), NEW i \in 1..Len(q)
    PROVE  Position(q, q[i]) = i
  BY DEF Position, NoDuplicates

\* GetQueuePos finds the place of a session that waits.
LEMMA PositionOf ==
    ASSUME NEW q \in Seq(Session), NoDuplicates(q), NEW s \in SeqRange(q)
    PROVE  Position(q, s) \in 1..Len(q) /\ q[Position(q, s)] = s
  <1>1. PICK i \in 1..Len(q) : q[i] = s
    BY DEF SeqRange
  <1> QED
    BY <1>1, PositionIs

\* Without takes one entry out and keeps the order of the others.
LEMMA WithoutElement ==
    ASSUME NEW q \in Seq(Session), NoDuplicates(q), NEW p \in 1..Len(q)
    PROVE  /\ Without(q, p) \in Seq(Session)
           /\ Len(Without(q, p)) = Len(q) - 1
           /\ NoDuplicates(Without(q, p))
           /\ SeqRange(Without(q, p)) = SeqRange(q) \ {q[p]}
           /\ \A s, t : Before(q, s, t) /\ s # q[p] /\ t # q[p] => Before(Without(q, p), s, t)
  <1> DEFINE w == Without(q, p)
  <1>1. w \in Seq(Session) /\ Len(w) = Len(q) - 1
    BY DEF Without
  <1>2. \A i \in 1..Len(w) : w[i] = IF i < p THEN q[i] ELSE q[i + 1]
    BY DEF Without
  <1>3. \A i \in 1..Len(q) : i < p => i \in 1..Len(w) /\ w[i] = q[i]
    BY <1>1, <1>2
  <1>4. \A i \in 1..Len(q) : i > p => i - 1 \in 1..Len(w) /\ w[i - 1] = q[i]
    BY <1>1, <1>2
  <1>5. NoDuplicates(w)
    <2>1. SUFFICES ASSUME NEW i \in 1..Len(w), NEW j \in 1..Len(w), w[i] = w[j] PROVE i = j
      BY <1>1 DEF NoDuplicates
    <2> DEFINE Place(k) == IF k < p THEN k ELSE k + 1
    <2>2. Place(i) \in 1..Len(q) /\ Place(j) \in 1..Len(q)
      BY <1>1
    <2>3. q[Place(i)] = q[Place(j)]
      BY <1>2, <2>1
    <2>4. Place(i) = Place(j)
      BY <2>2, <2>3 DEF NoDuplicates
    <2> QED
      BY <1>1, <2>4
  <1>6. SeqRange(w) \subseteq SeqRange(q) \ {q[p]}
    BY <1>1, <1>2 DEF SeqRange, NoDuplicates
  <1>7. SeqRange(q) \ {q[p]} \subseteq SeqRange(w)
    <2>1. SUFFICES ASSUME NEW s \in SeqRange(q), s # q[p] PROVE s \in SeqRange(w)
      OBVIOUS
    <2>2. PICK i \in 1..Len(q) : q[i] = s
      BY HasPosition
    <2>3. \E k \in 1..Len(w) : w[k] = s
      BY <1>3, <1>4, <2>1, <2>2
    <2> HIDE DEF w
    <2> QED
      BY <1>1, <2>3, AtPosition
  <1>8. ASSUME NEW s, NEW t, Before(q, s, t), s # q[p], t # q[p] PROVE Before(w, s, t)
    <2>1. PICK i, j \in 1..Len(q) : i < j /\ q[i] = s /\ q[j] = t
      BY <1>8 DEF Before
    <2>2. i # p /\ j # p
      BY <1>8, <2>1
    <2>3. \E k, l \in 1..Len(w) : k < l /\ w[k] = s /\ w[l] = t
      <3>1. CASE j < p
        BY <1>3, <2>1, <3>1
      <3>2. CASE i < p /\ p < j
        BY <1>3, <1>4, <2>1, <3>2
      <3>3. CASE p < i
        BY <1>4, <2>1, <3>3, SMTT(20)
      <3> QED
        BY <2>1, <2>2, <3>1, <3>2, <3>3
    <2> HIDE DEF w
    <2> QED
      BY <1>1, <2>3, BeforePositions
  <1> QED
    BY <1>1, <1>5, <1>6, <1>7, <1>8

\* The first entry leaves the queue.
LEMMA TailElement ==
    ASSUME NEW q \in Seq(Session), NoDuplicates(q), q # <<>>
    PROVE  /\ Head(q) \in SeqRange(q)
           /\ Tail(q) \in Seq(Session)
           /\ Len(Tail(q)) = Len(q) - 1
           /\ NoDuplicates(Tail(q))
           /\ SeqRange(Tail(q)) = SeqRange(q) \ {Head(q)}
           /\ \A s, t : Before(q, s, t) /\ s # Head(q) => Before(Tail(q), s, t)
  <1> DEFINE w == Tail(q)
  <1>1. w \in Seq(Session) /\ Len(w) = Len(q) - 1 /\ Head(q) = q[1] /\ 1 \in 1..Len(q)
    OBVIOUS
  <1>2. \A i \in 1..Len(w) : w[i] = q[i + 1]
    OBVIOUS
  <1>3. \A i \in 1..Len(q) : i > 1 => i - 1 \in 1..Len(w) /\ w[i - 1] = q[i]
    BY <1>1, <1>2
  <1>4. NoDuplicates(w)
    BY <1>1, <1>2 DEF NoDuplicates
  <1>5. SeqRange(w) = SeqRange(q) \ {Head(q)}
    <2>1. ASSUME NEW s \in SeqRange(q), s # Head(q) PROVE s \in SeqRange(w)
      <3>1. PICK i \in 1..Len(q) : q[i] = s
        BY HasPosition
      <3>2. i - 1 \in 1..Len(w) /\ w[i - 1] = s
        BY <1>1, <1>3, <2>1, <3>1
      <3> HIDE DEF w
      <3> QED
        BY <1>1, <3>2, AtPosition
    <2>2. ASSUME NEW i \in 1..Len(w) PROVE w[i] \in SeqRange(q) /\ w[i] # Head(q)
      <3>1. i + 1 \in 1..Len(q) /\ w[i] = q[i + 1] /\ i + 1 # 1
        BY <1>1, <1>2
      <3> QED
        BY <1>1, <3>1, AtPosition DEF NoDuplicates
    <2> HIDE DEF w
    <2>3. SeqRange(w) \subseteq SeqRange(q) \ {Head(q)}
      BY <1>1, <2>2, HasPosition
    <2> QED
      BY <2>1, <2>3
  <1>6. ASSUME NEW s, NEW t, Before(q, s, t), s # Head(q) PROVE Before(w, s, t)
    <2>1. PICK i, j \in 1..Len(q) : i < j /\ q[i] = s /\ q[j] = t
      BY <1>6 DEF Before
    <2>2. i > 1 /\ j > 1
      BY <1>1, <1>6, <2>1
    <2>3. i - 1 \in 1..Len(w) /\ j - 1 \in 1..Len(w) /\ w[i - 1] = s /\ w[j - 1] = t
      BY <1>1, <1>3, <2>1, <2>2
    <2> HIDE DEF w
    <2> QED
      BY <1>1, <2>1, <2>3, BeforePositions, SMTT(20)
  <1>7. Head(q) \in SeqRange(q)
    BY <1>1, AtPosition
  <1> HIDE DEF w
  <1>8. \A s, t : Before(q, s, t) /\ s # Head(q) => Before(w, s, t)
    BY <1>6
  <1> QED
    BY <1>1, <1>4, <1>5, <1>7, <1>8 DEF w

\* A session that is not in the queue is appended.
LEMMA AppendElement ==
    ASSUME NEW q \in Seq(Session), NoDuplicates(q), NEW e \in Session, e \notin SeqRange(q)
    PROVE  /\ Append(q, e) \in Seq(Session)
           /\ Len(Append(q, e)) = Len(q) + 1
           /\ NoDuplicates(Append(q, e))
           /\ SeqRange(Append(q, e)) = SeqRange(q) \cup {e}
           /\ Position(Append(q, e), e) = Len(q) + 1
           /\ \A s, t : Before(q, s, t) => Before(Append(q, e), s, t)
  <1> DEFINE w == Append(q, e)
  <1>1. w \in Seq(Session) /\ Len(w) = Len(q) + 1 /\ w[Len(q) + 1] = e
    OBVIOUS
  <1>2. \A i \in 1..Len(q) : w[i] = q[i] /\ q[i] # e
    BY DEF SeqRange
  <1>3. NoDuplicates(w)
    BY <1>1, <1>2 DEF NoDuplicates
  <1>4. SeqRange(w) = SeqRange(q) \cup {e}
    BY <1>1, <1>2 DEF SeqRange
  <1>5. Position(w, e) = Len(q) + 1
    <2>1. Len(q) + 1 \in 1..Len(w)
      BY <1>1
    <2> HIDE DEF w
    <2> QED
      BY <1>1, <1>3, <2>1, PositionIs
  <1>6. \A s, t : Before(q, s, t) => Before(w, s, t)
    BY <1>1, <1>2 DEF Before
  <1> QED
    BY <1>1, <1>3, <1>4, <1>5, <1>6
-----------------------------------------------------------------------------
(* RemoveQueuedPlayer and AddQueuedPlayer.                                 *)

QueueStates == [queue : Seq(Session), inQueue : [Session -> BOOLEAN], told : [Session -> Nat]]

\* The queue, m_inQueue and what the clients were told fit together.
QueueFits(st) ==
    /\ st \in QueueStates
    /\ NoDuplicates(st.queue)
    /\ \A s \in SeqRange(st.queue) : st.inQueue[s]
    /\ \A i \in 1..Len(st.queue) : st.told[st.queue[i]] = i

\* SendPositions tells the sessions from p on their positions, and nobody else.
LEMMA SentPositions ==
    ASSUME NEW q \in Seq(Session), NoDuplicates(q), NEW t \in [Session -> Nat], NEW p \in Nat \ {0}
    PROVE  /\ SendPositions(t, q, p) \in [Session -> Nat]
           /\ \A i \in 1..Len(q) :
                 SendPositions(t, q, p)[q[i]] = IF i >= p THEN i ELSE t[q[i]]
           /\ \A s \in Session \ SeqRange(q) : SendPositions(t, q, p)[s] = t[s]
  <1> DEFINE sent == SendPositions(t, q, p)
  <1>1. ASSUME NEW s \in Session PROVE sent[s] \in Nat
    <2>1. CASE \E i \in p..Len(q) : q[i] = s
      <3>1. PICK i \in 1..Len(q) : q[i] = s
        BY <2>1
      <3> QED
        BY <2>1, <3>1, PositionIs DEF SendPositions
    <2> QED
      BY <2>1 DEF SendPositions
  <1>2. ASSUME NEW i \in 1..Len(q) PROVE sent[q[i]] = IF i >= p THEN i ELSE t[q[i]]
    <2>1. \A j \in p..Len(q) : q[j] = q[i] => j = i
      BY DEF NoDuplicates
    <2>2. (\E j \in p..Len(q) : q[j] = q[i]) <=> i >= p
      BY <2>1
    <2> QED
      BY <2>2, PositionIs DEF SendPositions
  <1>3. ASSUME NEW s \in Session \ SeqRange(q) PROVE sent[s] = t[s]
    BY <1>3, AtPosition DEF SendPositions
  <1>4. sent = [s \in Session |-> sent[s]]
    BY DEF SendPositions
  <1> HIDE DEF sent
  <1>5. sent \in [Session -> Nat]
    BY <1>1, <1>4
  <1> QED
    BY <1>2, <1>3, <1>5 DEF sent

\* A session that leaves the queue: the positions after its own are stale.
LEMMA Dequeued ==
    ASSUME NEW st, QueueFits(st), NEW sess \in Session
    PROVE  LET d == Dequeue(st, sess)
               from == IF IsQueued(st, sess) THEN Position(st.queue, sess) ELSE Len(st.queue) + 1
           IN  /\ d \in QueueStates
               /\ NoDuplicates(d.queue)
               /\ SeqRange(d.queue) = SeqRange(st.queue) \ {sess}
               /\ Len(d.queue) = IF IsQueued(st, sess) THEN Len(st.queue) - 1 ELSE Len(st.queue)
               /\ d.inQueue = IF IsQueued(st, sess) THEN [st.inQueue EXCEPT ![sess] = FALSE]
                                                    ELSE st.inQueue
               /\ d.told = st.told
               /\ from \in Nat \ {0}
               /\ \A i \in 1..Len(d.queue) : i < from => d.told[d.queue[i]] = i
               /\ \A s, t : Before(st.queue, s, t) /\ s # sess /\ t # sess => Before(d.queue, s, t)
  <1> DEFINE q == st.queue
             p == Position(q, sess)
             d == Dequeue(st, sess)
  <1>1. q \in Seq(Session) /\ NoDuplicates(q) /\ st \in QueueStates
    BY DEF QueueFits, QueueStates
  <1>2. CASE IsQueued(st, sess)
    <2>1. p \in 1..Len(q) /\ q[p] = sess
      BY <1>1, <1>2, PositionOf DEF IsQueued
    <2>2. /\ d.queue = Without(q, p)
          /\ d.inQueue = [st.inQueue EXCEPT ![sess] = FALSE]
          /\ d.told = st.told
          /\ d = [queue |-> Without(q, p), inQueue |-> [st.inQueue EXCEPT ![sess] = FALSE],
                  told |-> st.told]
      BY <1>1, <1>2 DEF Dequeue, QueueStates
    <2>3. d \in QueueStates
      BY <1>1, <2>1, <2>2, WithoutElement, SMTT(20) DEF QueueStates
    <2>4. \A i \in 1..Len(d.queue) : i < p => d.told[d.queue[i]] = i
      BY <2>1, <2>2 DEF Without, QueueFits, QueueStates
    <2> QED
      BY <1>1, <1>2, <2>1, <2>2, <2>3, <2>4, WithoutElement
  <1>3. CASE ~IsQueued(st, sess)
    <2>1. d = st
      BY <1>3 DEF Dequeue
    <2>2. SeqRange(q) = SeqRange(q) \ {sess}
      BY <1>3 DEF IsQueued
    <2> QED
      BY <1>1, <1>3, <2>1, <2>2 DEF QueueFits
  <1> QED
    BY <1>2, <1>3

\* The whole of RemoveQueuedPlayer: who leaves the queue is marked and told,
\* the others keep their order and know their positions.
Removal(st, r, sess) ==
    /\ QueueFits(r)
    /\ SeqRange(r.queue) \subseteq SeqRange(st.queue) \ {sess}
    /\ \A s \in Session \ SeqRange(st.queue) : r.inQueue[s] = st.inQueue[s] /\ r.told[s] = st.told[s]
    /\ \A s \in SeqRange(st.queue) \ SeqRange(r.queue) :
          ~r.inQueue[s] /\ (s # sess => r.told[s] = 0)
    /\ \A s, t : Before(st.queue, s, t) /\ s \in SeqRange(r.queue) /\ t # sess => Before(r.queue, s, t)

\* RemoveQueuedPlayer for a session that waits, or does not.
LEMMA Removed ==
    ASSUME NEW st, QueueFits(st), NEW sess \in Session, NEW total
    PROVE  Removal(st, RemoveQueuedPlayer(st, total, sess), sess)
  <1> DEFINE d == Dequeue(st, sess)
             r == RemoveQueuedPlayer(st, total, sess)
             from == IF IsQueued(st, sess) THEN Position(st.queue, sess) ELSE Len(st.queue) + 1
             tell == TellFrom(st, total, sess)
  <1>1. /\ d \in QueueStates
        /\ NoDuplicates(d.queue)
        /\ SeqRange(d.queue) = SeqRange(st.queue) \ {sess}
        /\ d.inQueue = IF IsQueued(st, sess) THEN [st.inQueue EXCEPT ![sess] = FALSE] ELSE st.inQueue
        /\ d.told = st.told
        /\ from \in Nat \ {0}
        /\ \A i \in 1..Len(d.queue) : i < from => d.told[d.queue[i]] = i
        /\ \A s, t : Before(st.queue, s, t) /\ s # sess /\ t # sess => Before(d.queue, s, t)
    BY Dequeued
  <1>2. /\ d.queue \in Seq(Session) /\ d.inQueue \in [Session -> BOOLEAN] /\ d.told \in [Session -> Nat]
        /\ st.inQueue \in [Session -> BOOLEAN] /\ st.queue \in Seq(Session)
        /\ \A s \in SeqRange(st.queue) : s \in Session /\ st.inQueue[s]
    BY <1>1 DEF QueueStates, QueueFits, SeqRange
  <1>3. \A s \in SeqRange(d.queue) : d.inQueue[s]
    BY <1>1, <1>2
  <1>4. IsQueued(st, sess) => ~d.inQueue[sess]
    BY <1>1, <1>2
  <1>5. \A s \in Session \ SeqRange(st.queue) : d.inQueue[s] = st.inQueue[s]
    BY <1>1, <1>2 DEF IsQueued
  <1> HIDE DEF d, r, from, tell
  <1>6. CASE AcceptsFirst(st, total, sess)
    <2> DEFINE first == Head(d.queue)
               t1 == [d.told EXCEPT ![first] = 0]
    <2>1. d.queue # <<>> /\ tell = 1
      BY <1>6 DEF AcceptsFirst, TellFrom, d, tell
    <2>2. /\ first \in SeqRange(d.queue)
          /\ Tail(d.queue) \in Seq(Session)
          /\ NoDuplicates(Tail(d.queue))
          /\ SeqRange(Tail(d.queue)) = SeqRange(d.queue) \ {first}
          /\ \A s, t : Before(d.queue, s, t) /\ s # first => Before(Tail(d.queue), s, t)
      BY <1>1, <1>2, <2>1, TailElement
    <2>3. /\ r.queue = Tail(d.queue)
          /\ r.inQueue = [d.inQueue EXCEPT ![first] = FALSE]
          /\ r.told = SendPositions(t1, Tail(d.queue), 1)
          /\ r = [queue |-> Tail(d.queue), inQueue |-> [d.inQueue EXCEPT ![first] = FALSE],
                  told |-> SendPositions(t1, Tail(d.queue), 1)]
      BY <1>6, <2>1 DEF RemoveQueuedPlayer, PopFront, d, r, tell
    <2>4. t1 \in [Session -> Nat] /\ first \in Session /\ t1[first] = 0
      BY <1>1, <1>2, <2>2
    <2> HIDE DEF first, t1
    <2>5. /\ r.told \in [Session -> Nat]
          /\ \A i \in 1..Len(r.queue) : r.told[r.queue[i]] = IF i >= 1 THEN i ELSE t1[r.queue[i]]
          /\ \A s \in Session \ SeqRange(r.queue) : r.told[s] = t1[s]
      <3> DEFINE q == Tail(d.queue)
      <3>1. q \in Seq(Session) /\ NoDuplicates(q) /\ t1 \in [Session -> Nat] /\ 1 \in Nat \ {0}
        BY <2>2, <2>4
      <3>2. r.queue = q /\ r.told = SendPositions(t1, q, 1)
        BY <2>3
      <3> HIDE DEF q
      <3>3. /\ SendPositions(t1, q, 1) \in [Session -> Nat]
            /\ \A i \in 1..Len(q) :
                 SendPositions(t1, q, 1)[q[i]] = IF i >= 1 THEN i ELSE t1[q[i]]
            /\ \A s \in Session \ SeqRange(q) : SendPositions(t1, q, 1)[s] = t1[s]
        BY <3>1, SentPositions
      <3> QED
        BY <3>2, <3>3
    <2>6. \A i \in 1..Len(r.queue) : r.told[r.queue[i]] = i
      BY <2>5
    <2>7. r \in QueueStates
      BY <1>2, <2>2, <2>3, <2>5 DEF QueueStates
    <2>8. \A s \in SeqRange(r.queue) : r.inQueue[s]
      BY <1>1, <1>2, <1>3, <2>2, <2>3
    <2>9. ASSUME NEW s \in Session \ SeqRange(st.queue)
          PROVE  r.inQueue[s] = st.inQueue[s] /\ r.told[s] = st.told[s]
      <3>1. s # first /\ s \notin SeqRange(r.queue)
        BY <1>1, <2>2, <2>3
      <3>2. t1[s] = d.told[s] /\ r.inQueue[s] = d.inQueue[s]
        BY <1>2, <2>3, <3>1 DEF t1
      <3> QED
        BY <1>1, <1>5, <2>5, <3>1, <3>2
    <2>10. \A s \in SeqRange(st.queue) \ SeqRange(r.queue) :
              ~r.inQueue[s] /\ (s # sess => r.told[s] = 0)
      BY <1>1, <1>2, <1>4, <2>2, <2>3, <2>4, <2>5 DEF IsQueued
    <2>11. ASSUME NEW s, NEW t, Before(st.queue, s, t), s \in SeqRange(r.queue), t # sess
           PROVE  Before(r.queue, s, t)
      <3>1. s # sess /\ s # first
        BY <1>1, <2>2, <2>3, <2>11
      <3> QED
        BY <1>1, <2>2, <2>3, <2>11, <3>1
    <2>12. SeqRange(r.queue) \subseteq SeqRange(st.queue) \ {sess}
      BY <1>1, <2>2, <2>3
    <2>13. QueueFits(r)
      BY <2>2, <2>3, <2>6, <2>7, <2>8 DEF QueueFits
    <2> QED
      BY <2>9, <2>10, <2>11, <2>12, <2>13 DEF Removal, r
  <1>7. CASE ~AcceptsFirst(st, total, sess)
    <2>1. tell = from
      BY <1>7 DEF TellFrom, tell, from
    <2>2. /\ r.queue = d.queue
          /\ r.inQueue = d.inQueue
          /\ r.told = SendPositions(d.told, d.queue, from)
          /\ r = [queue |-> d.queue, inQueue |-> d.inQueue,
                  told |-> SendPositions(d.told, d.queue, from)]
      BY <1>1, <1>7, <2>1 DEF RemoveQueuedPlayer, QueueStates, d, r, tell
    <2>3. /\ r.told \in [Session -> Nat]
          /\ \A i \in 1..Len(r.queue) : r.told[r.queue[i]] = IF i >= from THEN i ELSE d.told[r.queue[i]]
          /\ \A s \in Session \ SeqRange(r.queue) : r.told[s] = d.told[s]
      <3> DEFINE q == d.queue
                 t == d.told
      <3>1. q \in Seq(Session) /\ NoDuplicates(q) /\ t \in [Session -> Nat] /\ from \in Nat \ {0}
        BY <1>1, <1>2
      <3>2. r.queue = q /\ r.told = SendPositions(t, q, from)
        BY <2>2
      <3> HIDE DEF q, t
      <3>3. /\ SendPositions(t, q, from) \in [Session -> Nat]
            /\ \A i \in 1..Len(q) :
                 SendPositions(t, q, from)[q[i]] = IF i >= from THEN i ELSE t[q[i]]
            /\ \A s \in Session \ SeqRange(q) : SendPositions(t, q, from)[s] = t[s]
        BY <3>1, SentPositions
      <3> QED
        BY <3>2, <3>3 DEF q, t
    <2>4. r \in QueueStates
      BY <1>2, <2>2, <2>3 DEF QueueStates
    <2>5. \A i \in 1..Len(r.queue) : r.told[r.queue[i]] = i
      <3>1. \A i \in 1..Len(r.queue) : ~(i >= from) => i < from
        BY <1>1, <1>2, <2>2
      <3> QED
        BY <1>1, <2>2, <2>3, <3>1
    <2>6. \A s \in Session \ SeqRange(st.queue) : r.inQueue[s] = st.inQueue[s] /\ r.told[s] = st.told[s]
      BY <1>1, <1>5, <2>2, <2>3
    <2>7. \A s \in SeqRange(st.queue) \ SeqRange(r.queue) : ~r.inQueue[s] /\ s = sess
      BY <1>1, <1>4, <2>2 DEF IsQueued
    <2> QED
      BY <1>1, <1>3, <2>2, <2>4, <2>5, <2>6, <2>7 DEF Removal, QueueFits, r
  <1> QED
    BY <1>6, <1>7

\* A session that joins the queue is its last and knows it.
LEMMA Added ==
    ASSUME NEW st, QueueFits(st), NEW sess \in Session, sess \notin SeqRange(st.queue)
    PROVE  LET r == AddQueuedPlayer(st, sess)
           IN  /\ QueueFits(r)
               /\ SeqRange(r.queue) = SeqRange(st.queue) \cup {sess}
               /\ Len(r.queue) = Len(st.queue) + 1
               /\ \A s \in Session \ {sess} : r.inQueue[s] = st.inQueue[s] /\ r.told[s] = st.told[s]
               /\ \A s, t : Before(st.queue, s, t) => Before(r.queue, s, t)
  <1> DEFINE q == Append(st.queue, sess)
             r == AddQueuedPlayer(st, sess)
  <1>1. /\ st.queue \in Seq(Session) /\ NoDuplicates(st.queue)
        /\ st.inQueue \in [Session -> BOOLEAN] /\ st.told \in [Session -> Nat]
    BY DEF QueueFits, QueueStates
  <1>2. /\ q \in Seq(Session)
        /\ Len(q) = Len(st.queue) + 1
        /\ NoDuplicates(q)
        /\ SeqRange(q) = SeqRange(st.queue) \cup {sess}
        /\ Position(q, sess) = Len(st.queue) + 1
        /\ \A s, t : Before(st.queue, s, t) => Before(q, s, t)
    BY <1>1, AppendElement
  <1>3. /\ r.queue = q
        /\ r.inQueue = [st.inQueue EXCEPT ![sess] = TRUE]
        /\ r.told = [st.told EXCEPT ![sess] = Len(st.queue) + 1]
        /\ r \in QueueStates
    BY <1>1, <1>2 DEF AddQueuedPlayer, QueueStates
  <1>4. \A s \in SeqRange(q) : r.inQueue[s]
    BY <1>1, <1>2, <1>3 DEF QueueFits, SeqRange
  <1>5. \A i \in 1..Len(q) : r.told[q[i]] = i
    <2>1. SUFFICES ASSUME NEW i \in 1..Len(q) PROVE r.told[q[i]] = i
      OBVIOUS
    <2>2. CASE i = Len(q)
      BY <1>1, <1>2, <1>3, <2>2
    <2>3. CASE i # Len(q)
      <3>1. i \in 1..Len(st.queue) /\ q[i] = st.queue[i] /\ q[i] # sess
        BY <1>1, <1>2, <2>3, AtPosition
      <3>2. st.told[q[i]] = i
        BY <3>1 DEF QueueFits
      <3> QED
        BY <1>1, <1>3, <3>1, <3>2
    <2> QED
      BY <2>2, <2>3
  <1> HIDE DEF r, q
  <1>6. \A s \in Session \ {sess} : r.inQueue[s] = st.inQueue[s] /\ r.told[s] = st.told[s]
    BY <1>1, <1>3
  <1> QED
    BY <1>2, <1>3, <1>4, <1>5, <1>6 DEF QueueFits, r

-----------------------------------------------------------------------------
(* The inductive invariant.                                                *)

\* Only the second loop of UpdateSessions has accounts left to visit, and the
\* sessions it has to visit exist.
Visiting ==
    /\ pc \notin {"update", "lastUpdate"} => todo = {} /\ cur = NoAccount
    /\ \A a \in todo : m_sessions[a] # NoSession
    /\ cur # NoAccount => m_sessions[cur] # NoSession /\ cur \notin todo

\* A session that is not in m_sessions has no query and no list of characters;
\* before it is, it was never queued nor told anything.
Outside ==
    /\ \A s \in Session : s \notin InMap => charEnum[s] = "none" /\ ~legit[s]
    /\ \A s \in Session : stage[s] \in {"new", "added"} => ~m_inQueue[s] /\ told[s] = 0

\* The last UpdateSessions has not finished with the session.
ToVisit(s) == pc = "lastAdd" \/ (pc = "lastUpdate" /\ accountOf[s] \in todo \cup {cur})

\* A session the last UpdateSessions still finds open was added after KickAll and
\* cannot log a character in; one it has visited and kept has none.
Unloading ==
    \A s \in InMap :
        /\ ToVisit(s) => sockClosed[s] \/ (~legit[s] /\ char[s] \in {"out", "stuck"})
        /\ pc \in {"lastUpdate", "stopped"} /\ ~ToVisit(s) => char[s] \in {"out", "stuck"}

IInv ==
    /\ TypeOK
    /\ NoDanglingSession
    /\ PositionsTold
    /\ CharacterOfAdmittedSession
    /\ Visiting
    /\ Outside
    /\ Unloading

\* A world without sessions.
LEMMA InitIInv == Init => IInv
  <1> SUFFICES ASSUME Init PROVE IInv
    OBVIOUS
  <1> USE SessionAssumption, LimitAssumption DEF Init
  <1>1. TypeOK
    <2>1. DOMAIN m_disconnects = {}
      OBVIOUS
    <2>2. addSessQueue \in Seq(Session) /\ m_QueuedPlayer \in Seq(Session)
      OBVIOUS
    <2>3. /\ stage \in [Session -> Stages] /\ char \in [Session -> CharStates]
          /\ charEnum \in [Session -> EnumStates] /\ told \in [Session -> Nat]
          /\ m_sessions \in [Account -> Session \cup {NoSession}]
          /\ sockClosed \in [Session -> BOOLEAN] /\ legit \in [Session -> BOOLEAN]
          /\ m_inQueue \in [Session -> BOOLEAN]
      BY DEF Stages, CharStates, EnumStates
    <2> QED
      BY <2>1, <2>2, <2>3 DEF TypeOK
  <1>2. InMap = {}
    BY DEF InMap
  <1>3. SeqRange(addSessQueue) = {} /\ SeqRange(m_QueuedPlayer) = {}
    BY DEF SeqRange
  <1>4. NoDanglingSession
    BY <1>2, <1>3 DEF NoDanglingSession, NoDuplicates, Queued
  <1>5. PositionsTold /\ CharacterOfAdmittedSession /\ Visiting /\ Outside /\ Unloading
    BY <1>2 DEF PositionsTold, CharacterOfAdmittedSession, Visiting, Outside, Unloading, Admitted
  <1> QED
    BY <1>1, <1>4, <1>5 DEF IInv

(***************************************************************************)
(* The steps of the other threads and of the operator.                     *)
(***************************************************************************)
LEMMA OthersKeepIInv ==
    ASSUME IInv,
           \/ \E s \in Session : AddSession(s) \/ CloseSocket(s) \/ QueryDone(s)
           \/ Tick \/ StopNow
           \/ \E l \in PLimits : SetPlayerAmountLimit(l)
    PROVE  IInv'
  <1> USE SessionAssumption, LimitAssumption DEF IInv, queueVars, charVars, worldVars, configVars
  <1>1. ASSUME NEW s \in Session, AddSession(s) PROVE IInv'
    <2> USE <1>1 DEF AddSession
    <2>1. s \notin SeqRange(addSessQueue) /\ s \notin InMap
      BY DEF NoDanglingSession
    <2>2. /\ addSessQueue' \in Seq(Session)
          /\ NoDuplicates(addSessQueue')
          /\ SeqRange(addSessQueue') = SeqRange(addSessQueue) \cup {s}
      BY <2>1, AppendElement DEF TypeOK, NoDanglingSession
    <2>3. InMap' = InMap /\ (\A t \in Session : Queued(t)' = Queued(t))
      BY DEF InMap, Queued, SeqRange
    <2>4. TypeOK'
      BY <2>2 DEF TypeOK, Stages
    <2>5. \A t \in Session : stage'[t] = IF t = s THEN "added" ELSE stage[t]
      BY DEF TypeOK
    <2>6. NoDanglingSession'
      BY <2>1, <2>2, <2>3, <2>5 DEF NoDanglingSession, ShuttingDown
    <2>7. Outside'
      BY <2>3, <2>5 DEF Outside
    <2>8. PositionsTold' /\ CharacterOfAdmittedSession' /\ Visiting' /\ Unloading'
      BY <2>3 DEF PositionsTold, CharacterOfAdmittedSession, Visiting, Unloading, ToVisit, Admitted
    <2> QED
      BY <2>4, <2>6, <2>7, <2>8
  <1>2. ASSUME NEW s \in Session, CloseSocket(s) PROVE IInv'
    <2> USE <1>2 DEF CloseSocket
    <2>1. TypeOK'
      BY DEF TypeOK
    <2>2. \A t \in Session : sockClosed[t] => sockClosed'[t]
      BY DEF TypeOK
    <2>3. InMap' = InMap /\ (\A t \in Session : Queued(t)' = Queued(t))
      BY DEF InMap, Queued, SeqRange
    <2>4. NoDanglingSession' /\ PositionsTold' /\ CharacterOfAdmittedSession' /\ Visiting' /\ Outside'
      BY <2>3 DEF NoDanglingSession, PositionsTold, CharacterOfAdmittedSession, Visiting, Outside,
                  ShuttingDown, Admitted, SeqRange
    <2>5. Unloading'
      BY <2>2, <2>3 DEF Unloading, ToVisit, InMap
    <2> QED
      BY <2>1, <2>4, <2>5
  <1>3. ASSUME NEW s \in Session, QueryDone(s) PROVE IInv'
    <2> USE <1>3 DEF QueryDone
    <2>1. TypeOK'
      BY DEF TypeOK, CharStates, EnumStates
    <2>2. InMap' = InMap /\ (\A t \in Session : Queued(t)' = Queued(t))
      BY DEF InMap, Queued, SeqRange
    <2>3. \A t \in Session : /\ charEnum[t] = "none" => charEnum'[t] = "none"
                             /\ char[t] \in {"out", "stuck"} <=> char'[t] \in {"out", "stuck"}
                             /\ char[t] = "out" <=> char'[t] = "out"
                             /\ legit'[t] = legit[t]
      BY DEF TypeOK
    <2>4. NoDanglingSession' /\ PositionsTold' /\ Visiting'
      BY <2>2 DEF NoDanglingSession, PositionsTold, Visiting, ShuttingDown, Admitted, SeqRange
    <2>5. CharacterOfAdmittedSession'
      BY <2>2, <2>3 DEF CharacterOfAdmittedSession
    <2>6. Outside'
      BY <2>2, <2>3 DEF Outside
    <2>7. Unloading'
      BY <2>2, <2>3 DEF Unloading, ToVisit, InMap
    <2> QED
      BY <2>1, <2>4, <2>5, <2>6, <2>7
  <1>4. ASSUME Tick \/ StopNow \/ (\E l \in PLimits : SetPlayerAmountLimit(l)) PROVE IInv'
    <2>1. TypeOK'
      <3>1. now' \in Nat /\ stopEvent' \in BOOLEAN /\ m_playerLimit' \in Nat
        <4>1. CASE Tick
          BY <4>1 DEF Tick, TypeOK
        <4>2. CASE StopNow
          BY <4>2 DEF StopNow, TypeOK
        <4>3. ASSUME NEW l \in PLimits, SetPlayerAmountLimit(l)
              PROVE  now' \in Nat /\ stopEvent' \in BOOLEAN /\ m_playerLimit' \in Nat
          BY <4>3 DEF SetPlayerAmountLimit, TypeOK
        <4> QED
          BY <1>4, <4>1, <4>2, <4>3
      <3>2. UNCHANGED <<stage, sockClosed, addSessQueue, m_sessions, queueVars, m_disconnects,
                        charVars, worldVars>>
        BY <1>4 DEF Tick, StopNow, SetPlayerAmountLimit
      <3> QED
        BY <3>1, <3>2 DEF TypeOK
    <2> USE <1>4 DEF Tick, StopNow, SetPlayerAmountLimit
    <2>2. InMap' = InMap /\ (\A t \in Session : Queued(t)' = Queued(t))
      BY DEF InMap, Queued, SeqRange
    <2>3. NoDanglingSession' /\ PositionsTold' /\ CharacterOfAdmittedSession' /\ Visiting' /\ Outside'
      BY <2>2 DEF NoDanglingSession, PositionsTold, CharacterOfAdmittedSession, Visiting, Outside,
                  ShuttingDown, Admitted, SeqRange
    <2>4. Unloading'
      BY <2>2 DEF Unloading, ToVisit
    <2> QED
      BY <2>1, <2>3, <2>4
  <1> QED
    BY <1>1, <1>2, <1>3, <1>4

(***************************************************************************)
(* The packets of the session that is being updated.  It is in m_sessions, *)
(* and the last UpdateSessions has not finished with it.                   *)
(***************************************************************************)
LEMMA UpdatedSession ==
    ASSUME IInv, cur # NoAccount
    PROVE  /\ cur \in Account
           /\ m_sessions[cur] \in Session
           /\ m_sessions[cur] \in InMap
           /\ accountOf[m_sessions[cur]] = cur
           /\ pc \in {"update", "lastUpdate"}
  BY SessionAssumption DEF IInv, TypeOK, Visiting, NoDanglingSession, InMap

\* The packets that WorldSession::Update handles for a session.
LEMMA PacketKeepsIInv ==
    ASSUME IInv, NEW s \in Session, Packet(s)
    PROVE  IInv'
  <1> USE SessionAssumption DEF IInv, queueVars, charVars, worldVars, configVars, Handles, HandlesAuthed
  <1>1. /\ cur # NoAccount /\ s = m_sessions[cur] /\ s \in InMap /\ accountOf[s] = cur
        /\ ~sockClosed[s]
        /\ pc \in {"update", "lastUpdate"}
        /\ UNCHANGED <<stage, addSessQueue, m_sessions, queueVars, m_disconnects, legit, worldVars, configVars>>
    BY UpdatedSession DEF Packet, HandleCharEnumOpcode, HandlePlayerLoginOpcode,
                          HandleLogoutRequestOpcode, HandleLogoutCancelOpcode
  <1>2. InMap' = InMap /\ (\A t \in Session : Queued(t)' = Queued(t))
    BY <1>1 DEF InMap, Queued, SeqRange
  <1>3. NoDanglingSession' /\ PositionsTold' /\ Visiting'
    BY <1>1, <1>2 DEF NoDanglingSession, PositionsTold, Visiting, ShuttingDown, Admitted, SeqRange
  <1>4. /\ char' \in [Session -> CharStates] /\ charEnum' \in [Session -> EnumStates]
        /\ sockClosed' \in [Session -> BOOLEAN]
        /\ \A t \in Session : t # s => char'[t] = char[t] /\ charEnum'[t] = charEnum[t]
        /\ \A t \in Session : sockClosed[t] => sockClosed'[t]
    <2>1. CASE HandleCharEnumOpcode(s)
      BY <2>1 DEF HandleCharEnumOpcode, TypeOK, EnumStates
    <2>2. CASE HandlePlayerLoginOpcode(s)
      <3>1. PICK c \in {"stuck", "loading"} : char' = [char EXCEPT ![s] = c]
        BY <2>2 DEF HandlePlayerLoginOpcode
      <3>2. sockClosed' \in {sockClosed, [sockClosed EXCEPT ![s] = TRUE]} /\ UNCHANGED charEnum
        BY <2>2 DEF HandlePlayerLoginOpcode
      <3> QED
        BY <3>1, <3>2 DEF TypeOK, CharStates
    <2>3. CASE HandleLogoutRequestOpcode(s)
      <3>1. PICK c \in LogoutOutcomes : char' = [char EXCEPT ![s] = c]
        BY <2>3 DEF HandleLogoutRequestOpcode
      <3>2. UNCHANGED <<sockClosed, charEnum>>
        BY <2>3 DEF HandleLogoutRequestOpcode
      <3> QED
        BY <3>1, <3>2 DEF TypeOK, CharStates, LogoutOutcomes
    <2>4. CASE HandleLogoutCancelOpcode(s)
      BY <2>4 DEF HandleLogoutCancelOpcode, TypeOK, CharStates
    <2> QED
      BY <2>1, <2>2, <2>3, <2>4 DEF Packet
  <1>5. TypeOK'
    BY <1>1, <1>4 DEF TypeOK
  <1>6. char'[s] = char[s] \/ ~m_inQueue[s] \/ HasPlayer(s)
    BY DEF Packet, HandleCharEnumOpcode, HandlePlayerLoginOpcode, HandleLogoutRequestOpcode,
           HandleLogoutCancelOpcode, HasPlayer
  <1>7. CharacterOfAdmittedSession'
    BY <1>1, <1>2, <1>4, <1>6 DEF CharacterOfAdmittedSession, HasPlayer
  <1>8. Outside'
    BY <1>1, <1>2, <1>4 DEF Outside
  <1>9. ~legit[s] /\ char[s] \in {"out", "stuck"} => char'[s] \in {"out", "stuck"}
    <2>1. CASE HandleCharEnumOpcode(s)
      BY <2>1 DEF HandleCharEnumOpcode
    <2>2. CASE HandlePlayerLoginOpcode(s)
      BY <2>2 DEF HandlePlayerLoginOpcode, IsLegitCharacterForAccount, TypeOK
    <2>3. CASE HandleLogoutRequestOpcode(s)
      BY <2>3 DEF HandleLogoutRequestOpcode, HasPlayer
    <2>4. CASE HandleLogoutCancelOpcode(s)
      BY <2>4 DEF HandleLogoutCancelOpcode
    <2> QED
      BY <2>1, <2>2, <2>3, <2>4 DEF Packet
  <1>10. Unloading'
    BY <1>1, <1>2, <1>4, <1>9 DEF Unloading, ToVisit, InMap
  <1> QED
    BY <1>3, <1>5, <1>7, <1>8, <1>10

(***************************************************************************)
(* The steps of the loop of the world thread.                              *)
(***************************************************************************)
LEMMA LoopKeepsIInv ==
    ASSUME IInv,
           \/ StartUpdateSessions \/ KickAll \/ StartSecondLoop
           \/ (\E a \in Account : BeginUpdate(a)) \/ EndUpdateSessions
    PROVE  IInv'
  <1> USE SessionAssumption DEF IInv, queueVars, charVars, worldVars, configVars
  <1>1. CASE StartUpdateSessions
    <2> USE <1>1 DEF StartUpdateSessions
    <2>1. TypeOK'
      BY DEF TypeOK
    <2>2. InMap' = InMap /\ (\A t \in Session : Queued(t)' = Queued(t))
      BY DEF InMap, Queued, SeqRange
    <2>3. NoDanglingSession' /\ PositionsTold' /\ CharacterOfAdmittedSession' /\ Visiting' /\ Outside'
      BY <2>2 DEF NoDanglingSession, PositionsTold, CharacterOfAdmittedSession, Visiting, Outside,
                  ShuttingDown, Admitted, SeqRange
    <2>4. Unloading'
      BY <2>2 DEF Unloading, ToVisit
    <2> QED
      BY <2>1, <2>3, <2>4
  <1>2. CASE KickAll
    <2> USE <1>2 DEF KickAll
    <2>1. TypeOK'
      BY DEF TypeOK
    <2>2. InMap' = InMap /\ SeqRange(m_QueuedPlayer') = {} /\ NoDuplicates(m_QueuedPlayer')
      BY DEF InMap, SeqRange, NoDuplicates
    <2>3. NoDanglingSession'
      BY <2>2 DEF NoDanglingSession, ShuttingDown, SeqRange, Queued
    <2>4. PositionsTold' /\ CharacterOfAdmittedSession' /\ Visiting' /\ Outside'
      BY <2>2 DEF PositionsTold, CharacterOfAdmittedSession, Visiting, Outside, Admitted
    <2>5. Unloading'
      BY <2>2 DEF Unloading, ToVisit, InMap
    <2> QED
      BY <2>1, <2>3, <2>4, <2>5
  <1>3. CASE StartSecondLoop
    <2> USE <1>3 DEF StartSecondLoop
    <2>1. TypeOK'
      BY DEF TypeOK, SessionsToUpdate
    <2>2. InMap' = InMap /\ (\A t \in Session : Queued(t)' = Queued(t))
      BY DEF InMap, Queued, SeqRange
    <2>3. cur' = NoAccount /\ (\A a \in todo' : a \in Account /\ m_sessions[a] # NoSession)
      BY DEF Visiting, SessionsToUpdate
    <2>4. Visiting'
      BY <2>3 DEF Visiting
    <2>5. NoDanglingSession' /\ PositionsTold' /\ CharacterOfAdmittedSession' /\ Outside'
      BY <2>2 DEF NoDanglingSession, PositionsTold, CharacterOfAdmittedSession, Outside,
                  ShuttingDown, Admitted, SeqRange
    <2>6. \A s \in InMap : accountOf[s] \in todo'
      BY DEF SessionsToUpdate, InMap
    <2>7. Unloading'
      BY <2>2, <2>6 DEF Unloading, ToVisit
    <2> QED
      BY <2>1, <2>4, <2>5, <2>7
  <1>4. ASSUME NEW a \in Account, BeginUpdate(a) PROVE IInv'
    <2> USE <1>4 DEF BeginUpdate
    <2>1. m_sessions[a] \in Session
      BY DEF Visiting, TypeOK
    <2>2. sockClosed' \in [Session -> BOOLEAN] /\ (\A t \in Session : sockClosed[t] => sockClosed'[t])
      BY <2>1 DEF TypeOK
    <2>3. /\ cur' = a /\ todo' = todo \ {a} /\ a \in todo /\ cur = NoAccount
          /\ pc \in {"update", "lastUpdate"}
          /\ UNCHANGED <<stage, addSessQueue, m_sessions, queueVars, m_disconnects, charVars, pc, configVars>>
      OBVIOUS
    <2>4. TypeOK'
      BY <2>2, <2>3 DEF TypeOK
    <2>5. InMap' = InMap /\ (\A t \in Session : Queued(t)' = Queued(t))
      BY <2>3 DEF InMap, Queued, SeqRange
    <2>6. NoDanglingSession' /\ PositionsTold' /\ CharacterOfAdmittedSession' /\ Visiting' /\ Outside'
      BY <2>3, <2>5 DEF NoDanglingSession, PositionsTold, CharacterOfAdmittedSession, Visiting, Outside,
                  ShuttingDown, Admitted, SeqRange
    <2>7. \A t \in Session : accountOf[t] \in todo' \cup {cur'} <=> accountOf[t] \in todo \cup {cur}
      BY <2>3
    <2>8. Unloading'
      BY <2>2, <2>3, <2>5, <2>7 DEF Unloading, ToVisit, InMap
    <2> QED
      BY <2>4, <2>6, <2>8
  <1>5. CASE EndUpdateSessions
    <2> USE <1>5 DEF EndUpdateSessions
    <2>1. TypeOK'
      BY DEF TypeOK
    <2>2. InMap' = InMap /\ (\A t \in Session : Queued(t)' = Queued(t))
      BY DEF InMap, Queued, SeqRange
    <2>3. NoDanglingSession' /\ PositionsTold' /\ CharacterOfAdmittedSession' /\ Visiting' /\ Outside'
      BY <2>2 DEF NoDanglingSession, PositionsTold, CharacterOfAdmittedSession, Visiting, Outside,
                  ShuttingDown, Admitted, SeqRange
    <2>4. \A t \in InMap : accountOf[t] \notin todo \cup {cur}
      BY DEF InMap
    <2>5. pc' = "stopped" => pc = "lastUpdate"
      OBVIOUS
    <2>6. pc' \in {"loop", "stopped"}
      OBVIOUS
    <2>7. Unloading'
      BY <2>2, <2>4, <2>5, <2>6 DEF Unloading, ToVisit
    <2> QED
      BY <2>1, <2>3, <2>7
  <1> HIDE DEF IInv
  <1> QED
    BY <1>1, <1>2, <1>3, <1>4, <1>5

(***************************************************************************)
(* The end of an Update after which the session stays.                     *)
(***************************************************************************)
LEMMA EndUpdateKeepsIInv ==
    ASSUME IInv, EndUpdate
    PROVE  IInv'
  <1> USE SessionAssumption DEF IInv, queueVars, charVars, worldVars, configVars
  <1>0. PICK s \in Session : s = m_sessions[cur]
    BY UpdatedSession DEF EndUpdate
  <1>1. /\ cur # NoAccount /\ cur \in Account /\ s \in Session /\ s \in InMap /\ accountOf[s] = cur
        /\ pc \in {"update", "lastUpdate"} /\ cur' = NoAccount /\ cur \notin todo
        /\ UNCHANGED <<stage, sockClosed, addSessQueue, m_sessions, queueVars, m_disconnects, pc, todo,
                       configVars>>
    BY <1>0, UpdatedSession DEF EndUpdate, Visiting
  <1>2. /\ charEnum' = [charEnum EXCEPT ![s] = IF @ = "ready" THEN "none" ELSE @]
        /\ ~sockClosed[s]
        /\ \E l \in AfterCallbacks(s).legits, c \in AfterCallbacks(s).chars :
              char' = [char EXCEPT ![s] = c] /\ legit' = [legit EXCEPT ![s] = l]
    BY <1>0 DEF EndUpdate
  <1>3. PICK l \in AfterCallbacks(s).legits, c \in AfterCallbacks(s).chars :
              char' = [char EXCEPT ![s] = c] /\ legit' = [legit EXCEPT ![s] = l]
    BY <1>2
  <1>4. /\ l \in BOOLEAN /\ c \in CharStates
        /\ char[s] \in {"out", "stuck"} => c = char[s]
        /\ char[s] = "out" => c = "out"
    BY <1>1 DEF AfterCallbacks, TypeOK, CharStates
  <1>5. TypeOK'
    BY <1>1, <1>2, <1>3, <1>4 DEF TypeOK, EnumStates
  <1>6. InMap' = InMap /\ (\A t \in Session : Queued(t)' = Queued(t))
    BY <1>1 DEF InMap, Queued, SeqRange
  <1>7. NoDanglingSession' /\ PositionsTold' /\ Visiting'
    BY <1>1, <1>6 DEF NoDanglingSession, PositionsTold, Visiting, ShuttingDown, Admitted, SeqRange
  <1>8. \A t \in Session : t # s => char'[t] = char[t] /\ charEnum'[t] = charEnum[t] /\ legit'[t] = legit[t]
    BY <1>2, <1>3 DEF TypeOK
  <1>9. char'[s] = c
    BY <1>1, <1>3 DEF TypeOK
  <1>10. CharacterOfAdmittedSession'
    BY <1>1, <1>4, <1>6, <1>8, <1>9 DEF CharacterOfAdmittedSession
  <1>11. Outside'
    BY <1>1, <1>6, <1>8 DEF Outside
  <1>12. \A t \in InMap : t # s => accountOf[t] # cur
    BY <1>0, <1>1 DEF InMap
  <1>13. \A t \in InMap : t # s => (ToVisit(t)' <=> ToVisit(t))
    BY <1>1, <1>12 DEF ToVisit, InMap
  <1>14. pc = "lastUpdate" => char[s] \in {"out", "stuck"}
    BY <1>0, <1>1, <1>2 DEF Unloading, ToVisit
  <1>15. ~ToVisit(s)'
    BY <1>1 DEF ToVisit
  <1>16. Unloading'
    BY <1>1, <1>4, <1>6, <1>8, <1>9, <1>13, <1>14, <1>15 DEF Unloading, InMap
  <1> QED
    BY <1>5, <1>7, <1>10, <1>11, <1>16

(***************************************************************************)
(* What a step that takes the sessions of gone out of m_sessions and puts  *)
(* those of new into it does with the login queue, whether it calls        *)
(* RemoveQueuedPlayer, AddQueuedPlayer, both or neither.                   *)
(***************************************************************************)
Requeued(st, r, gone, new) ==
    /\ QueueFits(r)
    /\ SeqRange(r.queue) \subseteq (SeqRange(st.queue) \ gone) \cup new
    /\ \A t \in Session \ (SeqRange(st.queue) \cup new) : r.inQueue[t] => st.inQueue[t]
    /\ \A t \in Session \ (SeqRange(st.queue) \cup new \cup gone) :
          r.inQueue[t] = st.inQueue[t] /\ r.told[t] = st.told[t]
    /\ \A t \in SeqRange(st.queue) \ (SeqRange(r.queue) \cup new) :
          ~r.inQueue[t] /\ (t \notin gone => r.told[t] = 0)
    /\ \A t \in new \ SeqRange(r.queue) : ~r.inQueue[t] /\ r.told[t] = 0
    /\ \A s, t : Before(st.queue, s, t) /\ s \in SeqRange(r.queue) \ new /\ t \notin gone
                   => Before(r.queue, s, t)

\* The invariant gives what the lemmas about the queue need.
LEMMA QueueStateFits ==
    ASSUME IInv
    PROVE  QueueFits(QueueState)
  BY DEF IInv, TypeOK, NoDanglingSession, PositionsTold, QueueFits, QueueStates, QueueState, Queued, SeqRange

\* RemoveQueuedPlayer for a session that goes.
LEMMA RequeuedByRemove ==
    ASSUME NEW st, QueueFits(st), NEW sess \in Session, NEW total
    PROVE  Requeued(st, RemoveQueuedPlayer(st, total, sess), {sess}, {})
  <1> DEFINE r == RemoveQueuedPlayer(st, total, sess)
  <1>1. Removal(st, r, sess)
    BY Removed
  <1> HIDE DEF r
  <1>2. Requeued(st, r, {sess}, {})
    BY <1>1 DEF Removal, Requeued
  <1> QED
    BY <1>2 DEF r

\* A session that does not wait and was never queued comes after the others.
LEMMA RequeuedThenIn ==
    ASSUME NEW st, NEW r, NEW gone, Requeued(st, r, gone, {}), NEW s \in Session,
           s \notin SeqRange(st.queue), s \notin gone, ~st.inQueue[s], st.told[s] = 0
    PROVE  Requeued(st, r, gone, {s})
  BY DEF Requeued

\* A session that has to wait comes after the others.
LEMMA RequeuedThenAdded ==
    ASSUME NEW st, QueueFits(st), NEW r, NEW gone, Requeued(st, r, gone, {}), NEW s \in Session,
           s \notin SeqRange(st.queue), s \notin gone
    PROVE  Requeued(st, AddQueuedPlayer(r, s), gone, {s})
  <1> DEFINE q == AddQueuedPlayer(r, s)
  <1>1. QueueFits(r) /\ s \notin SeqRange(r.queue)
    BY DEF Requeued
  <1>2. /\ QueueFits(q)
        /\ SeqRange(q.queue) = SeqRange(r.queue) \cup {s}
        /\ \A t \in Session \ {s} : q.inQueue[t] = r.inQueue[t] /\ q.told[t] = r.told[t]
        /\ \A u, t : Before(r.queue, u, t) => Before(q.queue, u, t)
    BY <1>1, Added
  <1>3. SeqRange(st.queue) \subseteq Session
    BY DEF QueueFits, QueueStates, SeqRange
  <1> HIDE DEF q
  <1>4. Requeued(st, q, gone, {s})
    <2>1. SeqRange(q.queue) \subseteq (SeqRange(st.queue) \ gone) \cup {s}
      BY <1>2 DEF Requeued
    <2>2. \A t \in Session \ (SeqRange(st.queue) \cup {s}) : q.inQueue[t] => st.inQueue[t]
      BY <1>2 DEF Requeued
    <2>3. \A t \in Session \ (SeqRange(st.queue) \cup {s} \cup gone) :
             q.inQueue[t] = st.inQueue[t] /\ q.told[t] = st.told[t]
      BY <1>2 DEF Requeued
    <2>4. \A t \in SeqRange(st.queue) \ (SeqRange(q.queue) \cup {s}) :
             ~q.inQueue[t] /\ (t \notin gone => q.told[t] = 0)
      BY <1>2, <1>3 DEF Requeued
    <2>5. \A u, t : Before(st.queue, u, t) /\ u \in SeqRange(q.queue) \ {s} /\ t \notin gone
                     => Before(q.queue, u, t)
      BY <1>2 DEF Requeued
    <2> QED
      BY <1>2, <2>1, <2>2, <2>3, <2>4, <2>5 DEF Requeued
  <1> QED
    BY <1>4 DEF q

\* What such a step does to the invariant.
LEMMA RequeuedKeeps ==
    ASSUME IInv, NEW r, NEW gone \in SUBSET InMap, NEW new \in SUBSET (Session \ InMap),
           Requeued(QueueState, r, gone, new),
           SetQueueState(r),
           InMap' = (InMap \ gone) \cup new,
           \A t \in Session \ (gone \cup new) : char'[t] = char[t],
           \A t \in gone \cup new : char'[t] = "out",
           ShuttingDown' = ShuttingDown
    PROVE  /\ m_QueuedPlayer' \in Seq(Session)
           /\ m_inQueue' \in [Session -> BOOLEAN]
           /\ told' \in [Session -> Nat]
           /\ NoDuplicates(m_QueuedPlayer')
           /\ \A s \in Session : Queued(s)' => s \in InMap' /\ m_inQueue'[s]
           /\ \A s \in Session : m_inQueue'[s] /\ ~ShuttingDown' => Queued(s)'
           /\ PositionsTold'
           /\ CharacterOfAdmittedSession'
           /\ \A s \in Session \ (InMap \cup new) :
                 m_inQueue'[s] = m_inQueue[s] /\ told'[s] = told[s]
  <1> DEFINE Q == SeqRange(m_QueuedPlayer)
             R == SeqRange(m_QueuedPlayer')
  <1>1. /\ m_QueuedPlayer' = r.queue /\ m_inQueue' = r.inQueue /\ told' = r.told
        /\ QueueState.queue = m_QueuedPlayer /\ QueueState.inQueue = m_inQueue /\ QueueState.told = told
    BY DEF SetQueueState, QueueState
  <1>2. /\ QueueFits(r)
        /\ R \subseteq (Q \ gone) \cup new
        /\ \A t \in Session \ (Q \cup new) : m_inQueue'[t] => m_inQueue[t]
        /\ \A t \in Session \ (Q \cup new \cup gone) : m_inQueue'[t] = m_inQueue[t] /\ told'[t] = told[t]
        /\ \A t \in Q \ (R \cup new) : ~m_inQueue'[t] /\ (t \notin gone => told'[t] = 0)
        /\ \A t \in new \ R : ~m_inQueue'[t] /\ told'[t] = 0
    BY <1>1 DEF Requeued
  <1>3. /\ m_QueuedPlayer' \in Seq(Session)
        /\ m_inQueue' \in [Session -> BOOLEAN]
        /\ told' \in [Session -> Nat]
        /\ NoDuplicates(m_QueuedPlayer')
        /\ \A s \in R : m_inQueue'[s]
        /\ \A i \in 1..Len(m_QueuedPlayer') : told'[m_QueuedPlayer'[i]] = i
    BY <1>1, <1>2 DEF QueueFits, QueueStates
  <1>4. /\ Q \subseteq InMap /\ (\A s \in Q : m_inQueue[s])
        /\ InMap \subseteq Session
        /\ \A s \in Session : m_inQueue[s] /\ ~ShuttingDown => s \in Q
        /\ \A s \in InMap : ~m_inQueue[s] => told[s] = 0
        /\ \A s \in Session : char[s] # "out" => s \in InMap /\ ~m_inQueue[s]
    <2>1. Q \subseteq Session
      BY DEF IInv, TypeOK, SeqRange
    <2> QED
      BY <2>1 DEF IInv, NoDanglingSession, Queued, PositionsTold, CharacterOfAdmittedSession, Admitted, InMap
  <1> HIDE DEF Q, R
  <1>5. \A s \in R : s \in InMap'
    BY <1>2, <1>4
  <1>6. ASSUME NEW s \in Session, m_inQueue'[s], ~ShuttingDown' PROVE s \in R
    <2>1. CASE s \in new
      BY <1>2, <1>6, <2>1
    <2>2. CASE s \in Q \ new
      BY <1>2, <1>6, <2>2
    <2>3. CASE s \notin Q \cup new
      BY <1>2, <1>4, <1>6, <2>3
    <2> QED
      BY <2>1, <2>2, <2>3
  <1>7. ASSUME NEW s \in InMap', ~m_inQueue'[s] PROVE told'[s] = 0
    <2>1. s \notin R /\ s \in Session /\ s \notin gone
      BY <1>3, <1>4, <1>7
    <2>2. CASE s \in new
      BY <1>2, <2>1, <2>2
    <2>3. CASE s \in Q \ new
      BY <1>2, <2>1, <2>3
    <2>4. CASE s \notin Q \cup new
      BY <1>2, <1>4, <1>7, <2>1, <2>4
    <2> QED
      BY <2>2, <2>3, <2>4
  <1>8. ASSUME NEW s \in Session, char'[s] # "out" PROVE s \in InMap' /\ ~m_inQueue'[s]
    <2>1. s \notin gone \cup new /\ char[s] # "out"
      BY <1>8
    <2>2. s \in InMap /\ s \notin Q
      BY <1>4, <2>1
    <2> QED
      BY <1>2, <1>4, <2>1, <2>2
  <1>9. ASSUME NEW s \in Session \ (InMap \cup new)
        PROVE  m_inQueue'[s] = m_inQueue[s] /\ told'[s] = told[s]
    BY <1>2, <1>4
  <1>10. DOMAIN m_QueuedPlayer' = 1..Len(m_QueuedPlayer')
    BY <1>3
  <1>11. PositionsTold'
    BY <1>3, <1>7, <1>10 DEF PositionsTold, Admitted
  <1>12. CharacterOfAdmittedSession'
    BY <1>8 DEF CharacterOfAdmittedSession
  <1> QED
    BY <1>3, <1>5, <1>6, <1>9, <1>11, <1>12 DEF Queued, R

\* The session at the head of addSessQueue has never been in m_sessions.
LEMMA NewSession ==
    ASSUME IInv, Adding, NEW s \in Session, s = Head(addSessQueue)
    PROVE  /\ stage[s] = "added" /\ s \notin InMap
           /\ s \notin SeqRange(m_QueuedPlayer) /\ ~m_inQueue[s] /\ told[s] = 0
           /\ char[s] = "out" /\ charEnum[s] = "none" /\ ~legit[s]
           /\ todo = {} /\ cur = NoAccount /\ pc \in {"add", "lastAdd"}
           /\ Tail(addSessQueue) \in Seq(Session)
           /\ NoDuplicates(Tail(addSessQueue))
           /\ SeqRange(Tail(addSessQueue)) = SeqRange(addSessQueue) \ {s}
  <1>1. addSessQueue \in Seq(Session) /\ NoDuplicates(addSessQueue) /\ addSessQueue # <<>>
    BY DEF IInv, TypeOK, NoDanglingSession, Adding
  <1>2. /\ s \in SeqRange(addSessQueue)
        /\ Tail(addSessQueue) \in Seq(Session)
        /\ NoDuplicates(Tail(addSessQueue))
        /\ SeqRange(Tail(addSessQueue)) = SeqRange(addSessQueue) \ {s}
    BY <1>1, TailElement
  <1>3. stage[s] = "added" /\ s \notin InMap /\ s \notin SeqRange(m_QueuedPlayer)
    BY <1>2 DEF IInv, NoDanglingSession, Queued
  <1>4. ~m_inQueue[s] /\ told[s] = 0 /\ charEnum[s] = "none" /\ ~legit[s] /\ char[s] = "out"
    BY <1>3 DEF IInv, Outside, CharacterOfAdmittedSession
  <1>5. todo = {} /\ cur = NoAccount /\ pc \in {"add", "lastAdd"}
    BY DEF IInv, Visiting, Adding
  <1> QED
    BY <1>2, <1>3, <1>4, <1>5

\* No call at all leaves the queue as it is.
LEMMA NotRequeued ==
    ASSUME NEW st, QueueFits(st)
    PROVE  Requeued(st, st, {}, {})
  BY DEF Requeued

\* UpdateSessions calls RemoveQueuedPlayer twice and the destructor resets m_inQueue.
LEMMA RequeuedTwice ==
    ASSUME NEW st, QueueFits(st), NEW s \in Session, NEW total,
           NEW once, once = RemoveQueuedPlayer(st, total, s),
           NEW twice, twice = RemoveQueuedPlayer(once, total, s)
    PROVE  Requeued(st, [twice EXCEPT !.inQueue = [@ EXCEPT ![s] = FALSE]], {s}, {})
  <1> DEFINE r == [twice EXCEPT !.inQueue = [@ EXCEPT ![s] = FALSE]]
  <1>1. Removal(st, once, s)
    BY Removed
  <1>2. QueueFits(once)
    BY <1>1 DEF Removal
  <1>3. Removal(once, twice, s)
    BY <1>2, Removed
  <1>4. QueueFits(twice) /\ s \notin SeqRange(twice.queue) /\ twice \in QueueStates
    BY <1>3 DEF Removal, QueueFits
  <1>5. /\ r.queue = twice.queue /\ r.told = twice.told /\ r \in QueueStates
        /\ ~r.inQueue[s]
        /\ \A t \in Session \ {s} : r.inQueue[t] = twice.inQueue[t]
    BY <1>4 DEF QueueStates
  <1>6. SeqRange(st.queue) \subseteq Session /\ SeqRange(once.queue) \subseteq Session
        /\ SeqRange(twice.queue) \subseteq Session
    BY <1>2, <1>4 DEF QueueFits, QueueStates, SeqRange
  <1> HIDE DEF r
  <1>7. QueueFits(r)
    BY <1>4, <1>5, <1>6 DEF QueueFits
  <1>8. SeqRange(r.queue) \subseteq (SeqRange(st.queue) \ {s}) \cup {}
    BY <1>1, <1>3, <1>5 DEF Removal
  <1>9. \A t \in Session \ SeqRange(st.queue) :
           once.inQueue[t] = st.inQueue[t] /\ once.told[t] = st.told[t] /\ t \notin SeqRange(once.queue)
    BY <1>1 DEF Removal
  <1>10. \A t \in Session \ SeqRange(once.queue) :
           twice.inQueue[t] = once.inQueue[t] /\ twice.told[t] = once.told[t]
    BY <1>3 DEF Removal
  <1>11. \A t \in Session \ SeqRange(st.queue) : r.inQueue[t] => st.inQueue[t]
    BY <1>5, <1>9, <1>10
  <1>12. \A t \in Session \ (SeqRange(st.queue) \cup {s}) :
           r.inQueue[t] = st.inQueue[t] /\ r.told[t] = st.told[t]
    BY <1>5, <1>9, <1>10
  <1>13. ASSUME NEW t \in SeqRange(st.queue) \ SeqRange(r.queue)
         PROVE  ~r.inQueue[t] /\ (t # s => r.told[t] = 0)
    <2>1. CASE t = s
      BY <1>5, <2>1
    <2>2. CASE t # s /\ t \in SeqRange(once.queue)
      BY <1>3, <1>5, <1>6, <1>13, <2>2 DEF Removal
    <2>3. CASE t # s /\ t \notin SeqRange(once.queue)
      BY <1>1, <1>5, <1>6, <1>10, <1>13, <2>3 DEF Removal
    <2> QED
      BY <2>1, <2>2, <2>3
  <1>14. ASSUME NEW u, NEW t, Before(st.queue, u, t), u \in SeqRange(r.queue), t # s
         PROVE  Before(r.queue, u, t)
    <2>1. u \in SeqRange(once.queue)
      BY <1>3, <1>5, <1>14 DEF Removal
    <2>2. Before(once.queue, u, t)
      BY <1>1, <1>14, <2>1 DEF Removal
    <2> QED
      BY <1>3, <1>5, <1>14, <2>2 DEF Removal
  <1>15. Requeued(st, r, {s}, {})
    BY <1>7, <1>8, <1>11, <1>12, <1>13, <1>14 DEF Requeued
  <1> QED
    BY <1>15 DEF r

(***************************************************************************)
(* AddSession_ and the erasing loop of UpdateSessions: who enters          *)
(* m_sessions, who leaves it, and what that does to the queue.             *)
(***************************************************************************)
LEMMA EnterFirstQueue ==
    ASSUME IInv, NEW s \in Session, EnterFirst(s)
    PROVE  /\ InMap' = InMap \cup {s}
           /\ \E r : Requeued(QueueState, r, {}, {s}) /\ SetQueueState(r)
  <1> DEFINE st == QueueState
  <1> USE SessionAssumption
  <1>1. /\ m_sessions[accountOf[s]] = NoSession
        /\ m_sessions' = [m_sessions EXCEPT ![accountOf[s]] = s]
        /\ IF MustQueue(s, GetActiveAndQueuedSessionCount)
             THEN SetQueueState(AddQueuedPlayer(QueueState, s))
             ELSE UNCHANGED queueVars
        /\ Adding /\ s = Head(addSessQueue)
    BY DEF EnterFirst
  <1>2. /\ s \notin InMap /\ s \notin SeqRange(m_QueuedPlayer)
        /\ ~m_inQueue[s] /\ told[s] = 0
    BY <1>1, NewSession
  <1>3. InMap' = InMap \cup {s}
    BY <1>1, <1>2 DEF InMap, IInv, TypeOK
  <1>4. QueueFits(st) /\ Requeued(st, st, {}, {})
    BY QueueStateFits, NotRequeued
  <1>5. s \notin SeqRange(st.queue) /\ ~st.inQueue[s] /\ st.told[s] = 0
    BY <1>2 DEF QueueState
  <1> HIDE DEF st
  <1>6. Requeued(st, AddQueuedPlayer(st, s), {}, {s})
    BY <1>4, <1>5, RequeuedThenAdded
  <1>7. Requeued(st, st, {}, {s})
    BY <1>4, <1>5, RequeuedThenIn
  <1>8. SetQueueState(AddQueuedPlayer(st, s)) \/ SetQueueState(st)
    BY <1>1 DEF SetQueueState, QueueState, queueVars, st
  <1> QED
    BY <1>3, <1>6, <1>7, <1>8 DEF st

\* The queue after AddSession_ has replaced a session of the account.
LEMMA EnterReplacingQueue ==
    ASSUME IInv, NEW s \in Session, NEW old \in Session, EnterReplacing(s),
           old = m_sessions[accountOf[s]]
    PROVE  /\ old \in InMap
           /\ InMap' = (InMap \ {old}) \cup {s}
           /\ \E r : Requeued(QueueState, r, {old}, {s}) /\ SetQueueState(r)
  <1> DEFINE st == QueueState
             total == GetActiveAndQueuedSessionCount
             r == RemoveQueuedPlayer(st, total, old)
             sessions == IF IsQueued(QueueState, old) THEN total ELSE total - 1
  <1> USE SessionAssumption
  <1>1. /\ m_sessions' = [m_sessions EXCEPT ![accountOf[s]] = s]
        /\ IF MustQueue(s, sessions) THEN SetQueueState(AddQueuedPlayer(r, s)) ELSE SetQueueState(r)
        /\ Adding /\ s = Head(addSessQueue)
    BY DEF EnterReplacing
  <1>2. /\ s \notin InMap /\ s \notin SeqRange(m_QueuedPlayer)
        /\ ~m_inQueue[s] /\ told[s] = 0
    BY <1>1, NewSession
  <1>3. old \in InMap /\ accountOf[old] = accountOf[s]
    BY DEF IInv, NoDanglingSession, InMap
  <1>4. InMap' = (InMap \ {old}) \cup {s}
    BY <1>1, <1>2, <1>3 DEF InMap, IInv, TypeOK
  <1>5. s \notin SeqRange(st.queue) /\ ~st.inQueue[s] /\ st.told[s] = 0
    BY <1>2 DEF QueueState
  <1>6. QueueFits(st)
    BY QueueStateFits
  <1> HIDE DEF st, total, sessions
  <1>7. Requeued(st, r, {old}, {})
    BY <1>6, RequeuedByRemove
  <1> HIDE DEF r
  <1>8. s \notin {old}
    BY <1>2, <1>3
  <1>9. Requeued(st, AddQueuedPlayer(r, s), {old}, {s})
    BY <1>5, <1>6, <1>7, <1>8, RequeuedThenAdded
  <1>10. Requeued(st, r, {old}, {s})
    BY <1>5, <1>7, <1>8, RequeuedThenIn
  <1> QED
    BY <1>1, <1>3, <1>4, <1>9, <1>10 DEF st

\* The queue after UpdateSessions has dropped a closed session.
LEMMA EndUpdateClosedQueue ==
    ASSUME IInv, NEW s \in Session, EndUpdateClosed, s = m_sessions[cur]
    PROVE  /\ cur # NoAccount /\ s \in InMap /\ accountOf[s] = cur
           /\ InMap' = InMap \ {s}
           /\ \E r : Requeued(QueueState, r, {s}, {}) /\ SetQueueState(r)
  <1> DEFINE st == QueueState
             total == GetActiveAndQueuedSessionCount
  <1> USE SessionAssumption
  <1>1. /\ m_sessions' = [m_sessions EXCEPT ![cur] = NoSession] /\ cur # NoAccount
        /\ \E once \in {RemoveQueuedPlayer(st, total, s)} :
             \E twice \in {RemoveQueuedPlayer(once, total, s)} :
               SetQueueState([twice EXCEPT !.inQueue = [@ EXCEPT ![s] = FALSE]])
    BY DEF EndUpdateClosed
  <1>2. s \in InMap /\ accountOf[s] = cur
    BY <1>1, UpdatedSession
  <1>3. InMap' = InMap \ {s}
    BY <1>1, <1>2 DEF InMap, IInv, TypeOK
  <1>4. QueueFits(st)
    BY QueueStateFits
  <1> HIDE DEF st, total
  <1>5. PICK once, twice :
           /\ once = RemoveQueuedPlayer(st, total, s)
           /\ twice = RemoveQueuedPlayer(once, total, s)
           /\ SetQueueState([twice EXCEPT !.inQueue = [@ EXCEPT ![s] = FALSE]])
    BY <1>1
  <1>6. Requeued(st, [twice EXCEPT !.inQueue = [@ EXCEPT ![s] = FALSE]], {s}, {})
    BY <1>4, <1>5, RequeuedTwice
  <1> QED
    BY <1>1, <1>2, <1>3, <1>5, <1>6 DEF st

\* The parts of the invariant that concern one session or one account.
LEMMA IInvFacts ==
    ASSUME IInv
    PROVE  /\ InMap \subseteq Session
           /\ \A t \in Session : stage[t] \in {"new", "added"}
                                  => t \notin InMap /\ ~m_inQueue[t] /\ told[t] = 0
           /\ \A t \in Session : t \notin InMap => charEnum[t] = "none" /\ ~legit[t]
           /\ \A t \in Session : stage[t] = "live" <=> t \in InMap
           /\ \A t \in Session : stage[t] = "added" <=> t \in SeqRange(addSessQueue)
           /\ \A t \in Session : t \in InMap => m_sessions[accountOf[t]] = t
           /\ \A a \in Account : m_sessions[a] # NoSession => accountOf[m_sessions[a]] = a
           /\ NoDuplicates(addSessQueue)
           /\ \A t \in InMap :
                 /\ ToVisit(t) => sockClosed[t] \/ (~legit[t] /\ char[t] \in {"out", "stuck"})
                 /\ pc \in {"lastUpdate", "stopped"} /\ ~ToVisit(t) => char[t] \in {"out", "stuck"}
  BY DEF IInv, NoDanglingSession, Outside, Unloading, InMap

\* AddSession_ deletes a session whose predecessor it may not remove.
LEMMA RefuseSessionKeepsIInv ==
    ASSUME IInv, NEW s \in Session, RefuseSession(s)
    PROVE  IInv'
  <1> USE SessionAssumption DEF IInv
  <1>1. /\ Adding /\ s = Head(addSessQueue)
        /\ addSessQueue' = Tail(addSessQueue)
        /\ sockClosed' = [sockClosed EXCEPT ![s] = TRUE]
        /\ stage' = [stage EXCEPT ![s] = "deleted"]
        /\ UNCHANGED <<m_sessions, m_QueuedPlayer, m_inQueue, told, m_disconnects, char, charEnum, legit,
                       pc, todo, cur, m_playerLimit, now, stopEvent>>
    BY DEF RefuseSession, queueVars, charVars, worldVars, configVars
  <1>2. /\ stage[s] = "added" /\ s \notin InMap
        /\ Tail(addSessQueue) \in Seq(Session)
        /\ NoDuplicates(Tail(addSessQueue))
        /\ SeqRange(Tail(addSessQueue)) = SeqRange(addSessQueue) \ {s}
    BY <1>1, NewSession
  <1>3. TypeOK'
    BY <1>1, <1>2 DEF TypeOK, Stages
  <1>4. InMap' = InMap /\ (\A t \in Session : Queued(t)' = Queued(t))
    BY <1>1 DEF InMap, Queued, SeqRange
  <1>5. \A t \in Session : stage'[t] = IF t = s THEN "deleted" ELSE stage[t]
    BY <1>1 DEF TypeOK
  <1>6. NoDanglingSession'
    BY <1>1, <1>2, <1>4, <1>5 DEF NoDanglingSession, ShuttingDown
  <1>7. PositionsTold' /\ CharacterOfAdmittedSession' /\ Visiting' /\ Outside'
    BY <1>1, <1>4, <1>5 DEF PositionsTold, CharacterOfAdmittedSession, Visiting, Outside, Admitted
  <1>8. \A t \in Session : sockClosed[t] => sockClosed'[t]
    BY <1>1 DEF TypeOK
  <1>9. Unloading'
    BY <1>1, <1>4, <1>8 DEF Unloading, ToVisit, InMap
  <1> QED
    BY <1>3, <1>6, <1>7, <1>9

\* AddSession_ for an account that has no session.
LEMMA EnterFirstKeepsIInv ==
    ASSUME IInv, NEW s \in Session, EnterFirst(s)
    PROVE  IInv'
  <1> USE SessionAssumption
  <1>1. /\ Adding /\ s = Head(addSessQueue)
        /\ addSessQueue' = Tail(addSessQueue)
        /\ m_sessions' = [m_sessions EXCEPT ![accountOf[s]] = s]
        /\ stage' = [stage EXCEPT ![s] = "live"]
        /\ UNCHANGED <<sockClosed, m_disconnects, char, charEnum, legit,
                       pc, todo, cur, m_playerLimit, now, stopEvent>>
    BY DEF EnterFirst, charVars, worldVars, configVars
  <1>2. /\ stage[s] = "added" /\ s \notin InMap
        /\ char[s] = "out" /\ charEnum[s] = "none" /\ ~legit[s]
        /\ todo = {} /\ cur = NoAccount /\ pc \in {"add", "lastAdd"}
        /\ Tail(addSessQueue) \in Seq(Session)
        /\ NoDuplicates(Tail(addSessQueue))
        /\ SeqRange(Tail(addSessQueue)) = SeqRange(addSessQueue) \ {s}
    BY <1>1, NewSession
  <1>3. InMap' = InMap \cup {s}
    BY EnterFirstQueue
  <1>4. PICK r : Requeued(QueueState, r, {}, {s}) /\ SetQueueState(r)
    BY EnterFirstQueue
  <1>5. /\ m_QueuedPlayer' \in Seq(Session)
        /\ m_inQueue' \in [Session -> BOOLEAN]
        /\ told' \in [Session -> Nat]
        /\ NoDuplicates(m_QueuedPlayer')
        /\ \A t \in Session : Queued(t)' => t \in InMap' /\ m_inQueue'[t]
        /\ \A t \in Session : m_inQueue'[t] /\ ~ShuttingDown' => Queued(t)'
        /\ PositionsTold'
        /\ CharacterOfAdmittedSession'
        /\ \A t \in Session \ (InMap \cup {s}) : m_inQueue'[t] = m_inQueue[t] /\ told'[t] = told[t]
    <2>1. {} \in SUBSET InMap /\ {s} \in SUBSET (Session \ InMap)
      BY <1>2
    <2>2. InMap' = (InMap \ {}) \cup {s}
      BY <1>3
    <2>3. /\ \A t \in Session \ ({} \cup {s}) : char'[t] = char[t]
          /\ \A t \in {} \cup {s} : char'[t] = "out"
      BY <1>1, <1>2
    <2>4. ShuttingDown' = ShuttingDown
      BY <1>1 DEF ShuttingDown
    <2> QED
      BY <1>4, <2>1, <2>2, <2>3, <2>4, RequeuedKeeps, ZenonT(30)
  <1>6. TypeOK'
    BY <1>1, <1>2, <1>5 DEF IInv, TypeOK, Stages
  <1>7. /\ \A t \in Session : stage'[t] = IF t = s THEN "live" ELSE stage[t]
        /\ \A a \in Account : m_sessions'[a] = IF a = accountOf[s] THEN s ELSE m_sessions[a]
    BY <1>1 DEF IInv, TypeOK
  <1>8. NoDanglingSession'
    BY <1>1, <1>2, <1>3, <1>5, <1>7, IInvFacts DEF NoDanglingSession
  <1>9. Visiting'
    BY <1>1, <1>2 DEF IInv, Visiting
  <1>10. Outside'
    <2>1. ASSUME NEW t \in Session, t \notin InMap' PROVE charEnum'[t] = "none" /\ ~legit'[t]
      BY <1>1, <1>3, <1>5, <1>7, <2>1, IInvFacts
    <2>2. ASSUME NEW t \in Session, stage'[t] \in {"new", "added"}
          PROVE  ~m_inQueue'[t] /\ told'[t] = 0
      <3>1. stage[t] \in {"new", "added"} /\ stage'[t] # "live"
        BY <1>1, <1>3, <1>5, <1>7, <2>2
      <3>2. t \notin InMap /\ ~m_inQueue[t] /\ told[t] = 0
        BY <3>1, IInvFacts
      <3> QED
        BY <1>1, <1>3, <1>5, <1>7, <3>1, <3>2
    <2> QED
      BY <2>1, <2>2 DEF Outside
  <1>11. Unloading'
    BY <1>1, <1>2, <1>3, IInvFacts DEF Unloading, ToVisit
  <1> QED
    BY <1>5, <1>6, <1>8, <1>9, <1>10, <1>11 DEF IInv

\* AddSession_ for an account that connects again.
LEMMA EnterReplacingKeepsIInv ==
    ASSUME IInv, NEW s \in Session, EnterReplacing(s)
    PROVE  IInv'
  <1> USE SessionAssumption
  <1>0. PICK old \in Session : old = m_sessions[accountOf[s]]
    BY DEF EnterReplacing, IInv, TypeOK
  <1>1. /\ Adding /\ s = Head(addSessQueue)
        /\ addSessQueue' = Tail(addSessQueue)
        /\ m_sessions' = [m_sessions EXCEPT ![accountOf[s]] = s]
        /\ stage' = [stage EXCEPT ![old] = "deleted", ![s] = "live"]
        /\ sockClosed' = [sockClosed EXCEPT ![old] = TRUE]
        /\ CharAfterDelete(old)
        /\ UNCHANGED <<m_disconnects, pc, todo, cur, m_playerLimit, now, stopEvent>>
    BY <1>0 DEF EnterReplacing, worldVars, configVars
  <1>2. /\ stage[s] = "added" /\ s \notin InMap
        /\ char[s] = "out" /\ charEnum[s] = "none" /\ ~legit[s]
        /\ todo = {} /\ cur = NoAccount /\ pc \in {"add", "lastAdd"}
        /\ Tail(addSessQueue) \in Seq(Session)
        /\ NoDuplicates(Tail(addSessQueue))
        /\ SeqRange(Tail(addSessQueue)) = SeqRange(addSessQueue) \ {s}
    BY <1>1, NewSession
  <1>3. old \in InMap /\ InMap' = (InMap \ {old}) \cup {s} /\ old # s
    BY <1>0, <1>2, EnterReplacingQueue
  <1>4. PICK r : Requeued(QueueState, r, {old}, {s}) /\ SetQueueState(r)
    BY <1>0, EnterReplacingQueue
  <1>5. /\ char' \in [Session -> CharStates] /\ charEnum' \in [Session -> EnumStates]
        /\ legit' \in [Session -> BOOLEAN] /\ sockClosed' \in [Session -> BOOLEAN]
        /\ \A t \in Session \ {old} : char'[t] = char[t] /\ charEnum'[t] = charEnum[t] /\ legit'[t] = legit[t]
        /\ char'[old] = "out" /\ charEnum'[old] = "none" /\ ~legit'[old]
        /\ \A t \in Session \ {s, old} : stage'[t] = stage[t]
        /\ stage'[s] = "live" /\ stage'[old] = "deleted"
        /\ \A t \in Session : sockClosed[t] => sockClosed'[t]
        /\ \A a \in Account : m_sessions'[a] = IF a = accountOf[s] THEN s ELSE m_sessions[a]
    BY <1>1, <1>3 DEF IInv, TypeOK, CharAfterDelete, CharStates, EnumStates
  <1>6. /\ m_QueuedPlayer' \in Seq(Session)
        /\ m_inQueue' \in [Session -> BOOLEAN]
        /\ told' \in [Session -> Nat]
        /\ NoDuplicates(m_QueuedPlayer')
        /\ \A t \in Session : Queued(t)' => t \in InMap' /\ m_inQueue'[t]
        /\ \A t \in Session : m_inQueue'[t] /\ ~ShuttingDown' => Queued(t)'
        /\ PositionsTold'
        /\ CharacterOfAdmittedSession'
        /\ \A t \in Session \ (InMap \cup {s}) : m_inQueue'[t] = m_inQueue[t] /\ told'[t] = told[t]
    <2>1. {old} \in SUBSET InMap /\ {s} \in SUBSET (Session \ InMap)
      BY <1>2, <1>3
    <2>2. /\ \A t \in Session \ ({old} \cup {s}) : char'[t] = char[t]
          /\ \A t \in {old} \cup {s} : char'[t] = "out"
      BY <1>2, <1>5
    <2>3. ShuttingDown' = ShuttingDown
      BY <1>1 DEF ShuttingDown
    <2> QED
      BY <1>3, <1>4, <2>1, <2>2, <2>3, RequeuedKeeps, ZenonT(30)
  <1>7. TypeOK'
    BY <1>1, <1>2, <1>5, <1>6 DEF IInv, TypeOK, Stages
  <1>8. NoDanglingSession'
    <2>1. \A a \in Account : m_sessions'[a] # NoSession => accountOf[m_sessions'[a]] = a
      BY <1>2, <1>5, IInvFacts
    <2>2. \A t \in Session : stage'[t] = "live" <=> t \in InMap'
      BY <1>2, <1>3, <1>5, IInvFacts
    <2>3. \A t \in Session : stage'[t] = "added" <=> t \in SeqRange(addSessQueue')
      <3>1. SeqRange(addSessQueue') = SeqRange(addSessQueue) \ {s}
        BY <1>1, <1>2
      <3>2. old \notin SeqRange(addSessQueue) /\ s \in SeqRange(addSessQueue)
        BY <1>2, <1>3, IInvFacts
      <3> QED
        BY <1>5, <3>1, <3>2, IInvFacts
    <2>4. NoDuplicates(addSessQueue')
      BY <1>1, <1>2, <1>3, <1>5, <1>6, IInvFacts
    <2> QED
      BY <1>1, <1>2, <1>3, <1>5, <1>6, <2>1, <2>2, <2>3, <2>4 DEF NoDanglingSession
  <1>9. Visiting'
    BY <1>1, <1>2 DEF IInv, Visiting
  <1>10. Outside'
    <2>1. ASSUME NEW t \in Session, t \notin InMap' PROVE charEnum'[t] = "none" /\ ~legit'[t]
      <3>1. t = old \/ t \notin InMap
        BY <1>3, <2>1
      <3> QED
        BY <1>5, <3>1, IInvFacts
    <2>2. ASSUME NEW t \in Session, stage'[t] \in {"new", "added"}
          PROVE  ~m_inQueue'[t] /\ told'[t] = 0
      <3>1. stage[t] \in {"new", "added"} /\ stage'[t] # "live"
        BY <1>5, <2>2
      <3>2. t \notin InMap /\ ~m_inQueue[t] /\ told[t] = 0
        BY <3>1, IInvFacts
      <3> QED
        BY <1>5, <1>6, <2>2, <3>1, <3>2
    <2> QED
      BY <2>1, <2>2 DEF Outside
  <1>11. Unloading'
    <2>1. ASSUME NEW t \in InMap'
          PROVE  ToVisit(t)' => sockClosed'[t] \/ (~legit'[t] /\ char'[t] \in {"out", "stuck"})
      <3>1. CASE t = s
        BY <1>2, <1>3, <1>5, <3>1
      <3>2. CASE t # s
        <4>1. t \in InMap /\ t \in Session /\ t # old
          BY <1>3, <2>1, <3>2, IInvFacts
        <4>2. ToVisit(t)' = ToVisit(t)
          BY <1>1 DEF ToVisit
        <4>3. sockClosed[t] => sockClosed'[t]
          BY <1>5, <4>1
        <4>4. legit'[t] = legit[t] /\ char'[t] = char[t]
          BY <1>5, <4>1
        <4> QED
          BY <4>1, <4>2, <4>3, <4>4, IInvFacts
      <3> QED
        BY <3>1, <3>2
    <2>2. pc' \notin {"lastUpdate", "stopped"}
      BY <1>1, <1>2
    <2> QED
      BY <2>1, <2>2 DEF Unloading
  <1> QED
    BY <1>6, <1>7, <1>8, <1>9, <1>10, <1>11 DEF IInv

\* UpdateSessions drops a closed session and deletes it.
LEMMA EndUpdateClosedKeepsIInv ==
    ASSUME IInv, EndUpdateClosed
    PROVE  IInv'
  <1> USE SessionAssumption
  <1>0. PICK s \in Session : s = m_sessions[cur]
    BY UpdatedSession DEF EndUpdateClosed
  <1>1. /\ m_sessions' = [m_sessions EXCEPT ![cur] = NoSession]
        /\ NoteDisconnect(cur, IsQueued(QueueState, s))
        /\ stage' = [stage EXCEPT ![s] = "deleted"]
        /\ sockClosed' = [sockClosed EXCEPT ![s] = TRUE]
        /\ CharAfterDelete(s)
        /\ cur' = NoAccount
        /\ UNCHANGED <<addSessQueue, pc, todo, m_playerLimit, now, stopEvent>>
    BY <1>0 DEF EndUpdateClosed, configVars
  <1>2. /\ cur \in Account /\ s \in InMap /\ accountOf[s] = cur
        /\ pc \in {"update", "lastUpdate"} /\ InMap' = InMap \ {s}
    BY <1>0, EndUpdateClosedQueue, UpdatedSession
  <1>3. PICK r : Requeued(QueueState, r, {s}, {}) /\ SetQueueState(r)
    BY <1>0, EndUpdateClosedQueue
  <1>4. /\ char' \in [Session -> CharStates] /\ charEnum' \in [Session -> EnumStates]
        /\ legit' \in [Session -> BOOLEAN] /\ sockClosed' \in [Session -> BOOLEAN]
        /\ \A t \in Session \ {s} : char'[t] = char[t] /\ charEnum'[t] = charEnum[t] /\ legit'[t] = legit[t]
        /\ char'[s] = "out" /\ charEnum'[s] = "none" /\ ~legit'[s]
        /\ \A t \in Session \ {s} : stage'[t] = stage[t]
        /\ stage'[s] = "deleted"
        /\ \A t \in Session : sockClosed[t] => sockClosed'[t]
        /\ \A a \in Account : m_sessions'[a] = IF a = cur THEN NoSession ELSE m_sessions[a]
    BY <1>1, <1>2 DEF IInv, TypeOK, CharAfterDelete, CharStates, EnumStates
  <1>5. /\ m_QueuedPlayer' \in Seq(Session)
        /\ m_inQueue' \in [Session -> BOOLEAN]
        /\ told' \in [Session -> Nat]
        /\ NoDuplicates(m_QueuedPlayer')
        /\ \A t \in Session : Queued(t)' => t \in InMap' /\ m_inQueue'[t]
        /\ \A t \in Session : m_inQueue'[t] /\ ~ShuttingDown' => Queued(t)'
        /\ PositionsTold'
        /\ CharacterOfAdmittedSession'
        /\ \A t \in Session \ (InMap \cup {}) : m_inQueue'[t] = m_inQueue[t] /\ told'[t] = told[t]
    <2>1. {s} \in SUBSET InMap /\ {} \in SUBSET (Session \ InMap)
      BY <1>2
    <2>2. /\ \A t \in Session \ ({s} \cup {}) : char'[t] = char[t]
          /\ \A t \in {s} \cup {} : char'[t] = "out"
          /\ InMap' = (InMap \ {s}) \cup {}
      BY <1>2, <1>4
    <2>3. ShuttingDown' = ShuttingDown
      BY <1>1 DEF ShuttingDown
    <2> QED
      BY <1>3, <2>1, <2>2, <2>3, RequeuedKeeps, ZenonT(30)
  <1>6. DOMAIN m_disconnects' \subseteq Account /\ (\A a \in DOMAIN m_disconnects' : m_disconnects'[a] \in Nat)
    BY <1>1, <1>2 DEF IInv, TypeOK, NoteDisconnect
  <1>7. TypeOK'
    BY <1>1, <1>4, <1>5, <1>6 DEF IInv, TypeOK, Stages
  <1>8. NoDanglingSession'
    <2>1. \A a \in Account : m_sessions'[a] # NoSession => accountOf[m_sessions'[a]] = a
      BY <1>1, <1>2, <1>4, <1>5, IInvFacts
    <2>2. \A t \in Session : stage'[t] = "live" <=> t \in InMap'
      BY <1>2, <1>4, IInvFacts
    <2>3. \A t \in Session : stage'[t] = "added" <=> t \in SeqRange(addSessQueue')
      BY <1>1, <1>2, <1>4, <1>5, IInvFacts
    <2>4. NoDuplicates(addSessQueue')
      BY <1>1, <1>2, <1>4, <1>5, IInvFacts
    <2> QED
      BY <1>1, <1>2, <1>4, <1>5, <2>1, <2>2, <2>3, <2>4 DEF NoDanglingSession
  <1>9. Visiting'
    BY <1>1, <1>2, <1>4 DEF IInv, Visiting, TypeOK
  <1>10. Outside'
    <2>1. ASSUME NEW t \in Session, t \notin InMap' PROVE charEnum'[t] = "none" /\ ~legit'[t]
      <3>1. t = s \/ t \notin InMap
        BY <1>2, <2>1
      <3> QED
        BY <1>4, <3>1, IInvFacts
    <2>2. ASSUME NEW t \in Session, stage'[t] \in {"new", "added"}
          PROVE  ~m_inQueue'[t] /\ told'[t] = 0
      <3>1. stage[t] \in {"new", "added"} /\ stage'[t] # "live"
        BY <1>1, <1>2, <1>4, <1>5, <2>2
      <3>2. t \notin InMap /\ ~m_inQueue[t] /\ told[t] = 0
        BY <3>1, IInvFacts
      <3> QED
        BY <1>1, <1>2, <1>4, <1>5, <3>1, <3>2
    <2> QED
      BY <2>1, <2>2 DEF Outside
  <1>11. \A t \in InMap : t # s => accountOf[t] # cur
    BY <1>0 DEF InMap
  <1>12. \A t \in InMap \ {s} : ToVisit(t)' <=> ToVisit(t)
    BY <1>1, <1>2, <1>11 DEF ToVisit, InMap
  <1>13. Unloading'
    BY <1>1, <1>2, <1>4, <1>12, IInvFacts DEF Unloading
  <1> QED
    BY <1>5, <1>7, <1>8, <1>9, <1>10, <1>13 DEF IInv

(***************************************************************************)
(* Every step keeps the invariant.                                         *)
(***************************************************************************)
LEMMA StutterKeepsIInv ==
    ASSUME IInv, UNCHANGED vars
    PROVE  IInv'
  BY DEF IInv, TypeOK, NoDanglingSession, PositionsTold, CharacterOfAdmittedSession, Visiting, Outside,
         Unloading, vars, queueVars, charVars, worldVars, configVars, InMap, Queued, Admitted,
         SeqRange, ShuttingDown, ToVisit, NoDuplicates

\* Every step of the server keeps the invariant.
LEMMA NextKeepsIInv == IInv /\ [Next]_vars => IInv'
  <1> SUFFICES ASSUME IInv, [Next]_vars PROVE IInv'
    OBVIOUS
  <1> USE SessionAssumption
  <1>1. ASSUME \/ \E s \in Session : AddSession(s) \/ CloseSocket(s) \/ QueryDone(s)
               \/ Tick \/ StopNow
               \/ \E l \in PLimits : SetPlayerAmountLimit(l)
        PROVE  IInv'
    BY <1>1, OthersKeepIInv
  <1>2. ASSUME NEW s \in Sender, Packet(s) PROVE IInv'
    BY <1>2, PacketKeepsIInv
  <1>3. CASE WorldStep
    <2>1. ASSUME \/ StartUpdateSessions \/ KickAll \/ StartSecondLoop
                 \/ (\E a \in Account : BeginUpdate(a)) \/ EndUpdateSessions
          PROVE  IInv'
      BY <2>1, LoopKeepsIInv
    <2>2. ASSUME NEW s \in Session, RefuseSession(s) \/ EnterFirst(s) \/ EnterReplacing(s)
          PROVE  IInv'
      BY <2>2, RefuseSessionKeepsIInv, EnterFirstKeepsIInv, EnterReplacingKeepsIInv
    <2> QED
      BY <1>3, <2>1, <2>2, EndUpdateKeepsIInv, EndUpdateClosedKeepsIInv DEF WorldStep, AddSession_
  <1> QED
    BY <1>1, <1>2, <1>3, StutterKeepsIInv DEF Next

(***************************************************************************)
(* m_sessions, addSessQueue, the login queue and what the clients were     *)
(* told agree in every reachable state.                                    *)
(***************************************************************************)
THEOREM SessionsInvariant == Spec => []IInv
  <1>1. Init => IInv
    BY InitIInv
  <1>2. IInv /\ [Next]_vars => IInv'
    BY NextKeepsIInv
  <1> QED
    BY <1>1, <1>2, PTL DEF Spec

\* No deleted session can be reached through m_sessions, addSessQueue or the queue.
THEOREM SessionsDoNotDangle == Spec => []NoDanglingSession
  <1>1. IInv => NoDanglingSession
    BY DEF IInv
  <1> QED
    BY <1>1, SessionsInvariant, PTL

\* The position a waiting client was told last is its position.
THEOREM PositionsAreTold == Spec => []PositionsTold
  <1>1. IInv => PositionsTold
    BY DEF IInv
  <1> QED
    BY <1>1, SessionsInvariant, PTL

\* Only an admitted session of m_sessions has a character, loading or in the world.
THEOREM CharactersAreAdmitted == Spec => []CharacterOfAdmittedSession
  <1>1. IInv => CharacterOfAdmittedSession
    BY DEF IInv
  <1> QED
    BY <1>1, SessionsInvariant, PTL

\* The single UpdateSessions after KickAll leaves no character in the world.
THEOREM PlayersAreUnloaded == Spec => []ShutdownUnloadsPlayers
  <1>1. IInv => ShutdownUnloadsPlayers
    <2>1. SUFFICES ASSUME IInv, pc = "stopped", NEW s \in Session PROVE ~HasPlayer(s)
      BY DEF ShutdownUnloadsPlayers
    <2>2. CASE s \in InMap
      BY <2>1, <2>2, IInvFacts DEF ToVisit, HasPlayer
    <2>3. CASE s \notin InMap
      BY <2>1, <2>3 DEF IInv, CharacterOfAdmittedSession, HasPlayer
    <2> QED
      BY <2>2, <2>3
  <1> QED
    BY <1>1, SessionsInvariant, PTL

-----------------------------------------------------------------------------
(* The order of the login queue.                                           *)

\* A step leaves the queue alone, empties it (KickAll), or takes the sessions that
\* leave m_sessions out of it and lets those that enter it in.
LEMMA QueueSteps ==
    ASSUME IInv, Next
    PROVE  \/ UNCHANGED m_QueuedPlayer
           \/ m_QueuedPlayer' = <<>>
           \/ \E r, gone, new :
                 /\ Requeued(QueueState, r, gone, new) /\ SetQueueState(r)
                 /\ gone \in SUBSET Session /\ new \in SUBSET (Session \ InMap)
                 /\ InMap' = (InMap \ gone) \cup new
  <1>1. ASSUME \/ \E s \in Session : AddSession(s) \/ CloseSocket(s) \/ QueryDone(s)
               \/ Tick \/ StopNow
               \/ \E l \in PLimits : SetPlayerAmountLimit(l)
        PROVE  UNCHANGED m_QueuedPlayer
    BY <1>1 DEF AddSession, CloseSocket, QueryDone, Tick, StopNow, SetPlayerAmountLimit, queueVars
  <1>2. ASSUME NEW s \in Sender, Packet(s) PROVE UNCHANGED m_QueuedPlayer
    BY <1>2 DEF Packet, HandleCharEnumOpcode, HandlePlayerLoginOpcode, HandleLogoutRequestOpcode,
                HandleLogoutCancelOpcode, queueVars
  <1>3. ASSUME \/ StartUpdateSessions \/ StartSecondLoop \/ EndUpdate \/ EndUpdateSessions
               \/ \E a \in Account : BeginUpdate(a)
               \/ \E s \in Session : RefuseSession(s)
        PROVE  UNCHANGED m_QueuedPlayer
    BY <1>3 DEF StartUpdateSessions, StartSecondLoop, EndUpdate, EndUpdateSessions, BeginUpdate,
                RefuseSession, queueVars
  <1>4. CASE KickAll
    BY <1>4 DEF KickAll
  <1>5. ASSUME NEW s \in Session, EnterFirst(s)
        PROVE  \E r, gone, new :
                 /\ Requeued(QueueState, r, gone, new) /\ SetQueueState(r)
                 /\ gone \in SUBSET Session /\ new \in SUBSET (Session \ InMap)
                 /\ InMap' = (InMap \ gone) \cup new
    <2>1. PICK r : Requeued(QueueState, r, {}, {s}) /\ SetQueueState(r)
      BY <1>5, EnterFirstQueue
    <2>2. InMap' = (InMap \ {}) \cup {s}
      BY <1>5, EnterFirstQueue
    <2>3. s \notin InMap
      BY <1>5, NewSession DEF EnterFirst
    <2> QED
      BY <2>1, <2>2, <2>3
  <1>6. ASSUME NEW s \in Session, EnterReplacing(s)
        PROVE  \E r, gone, new :
                 /\ Requeued(QueueState, r, gone, new) /\ SetQueueState(r)
                 /\ gone \in SUBSET Session /\ new \in SUBSET (Session \ InMap)
                 /\ InMap' = (InMap \ gone) \cup new
    <2>1. PICK old \in Session : old = m_sessions[accountOf[s]]
      BY <1>6, SessionAssumption DEF EnterReplacing, IInv, TypeOK
    <2>2. PICK r : Requeued(QueueState, r, {old}, {s}) /\ SetQueueState(r)
      BY <1>6, <2>1, EnterReplacingQueue
    <2>3. InMap' = (InMap \ {old}) \cup {s}
      BY <1>6, <2>1, EnterReplacingQueue
    <2>4. s \notin InMap
      BY <1>6, NewSession DEF EnterReplacing
    <2> QED
      BY <2>2, <2>3, <2>4
  <1>7. ASSUME EndUpdateClosed
        PROVE  \E r, gone, new :
                 /\ Requeued(QueueState, r, gone, new) /\ SetQueueState(r)
                 /\ gone \in SUBSET Session /\ new \in SUBSET (Session \ InMap)
                 /\ InMap' = (InMap \ gone) \cup new
    <2>1. PICK s \in Session : s = m_sessions[cur]
      BY <1>7, UpdatedSession DEF EndUpdateClosed
    <2>2. PICK r : Requeued(QueueState, r, {s}, {}) /\ SetQueueState(r)
      BY <1>7, <2>1, EndUpdateClosedQueue
    <2>3. InMap' = (InMap \ {s}) \cup {}
      BY <1>7, <2>1, EndUpdateClosedQueue
    <2> QED
      BY <2>2, <2>3
  <1> QED
    BY <1>1, <1>2, <1>3, <1>4, <1>5, <1>6, <1>7 DEF Next, WorldStep, AddSession_

\* The login queue is first in, first out: nobody is admitted before those in front.
THEOREM QueueIsFifo == Spec => NoOvertaking
  <1>1. ASSUME IInv, Next, NEW s \in Session, NEW t \in Session,
               Before(m_QueuedPlayer, s, t), s \in SeqRange(m_QueuedPlayer')
        PROVE  Before(m_QueuedPlayer', s, t) \/ m_sessions'[accountOf[t]] # t
    <2>1. s \in SeqRange(m_QueuedPlayer)
      BY <1>1 DEF Before, SeqRange
    <2>2. s \in InMap
      BY <1>1, <2>1 DEF IInv, NoDanglingSession, Queued
    <2>3. CASE UNCHANGED m_QueuedPlayer
      BY <1>1, <2>3 DEF Before
    <2>4. CASE m_QueuedPlayer' = <<>>
      BY <1>1, <2>4 DEF SeqRange
    <2>5. ASSUME NEW r, NEW gone \in SUBSET Session, NEW new \in SUBSET (Session \ InMap),
                 Requeued(QueueState, r, gone, new), SetQueueState(r),
                 InMap' = (InMap \ gone) \cup new
          PROVE  Before(m_QueuedPlayer', s, t) \/ m_sessions'[accountOf[t]] # t
      <3>1. m_QueuedPlayer' = r.queue /\ QueueState.queue = m_QueuedPlayer
        BY <2>5 DEF SetQueueState, QueueState
      <3>2. CASE t \notin gone
        <4>1. s \in SeqRange(r.queue) \ new
          BY <1>1, <2>2, <3>1
        <4>2. Before(r.queue, s, t)
          BY <1>1, <2>5, <3>1, <3>2, <4>1 DEF Requeued
        <4> QED
          BY <3>1, <4>2
      <3>3. CASE t \in gone
        <4>1. t \in SeqRange(m_QueuedPlayer)
          BY <1>1 DEF Before, SeqRange
        <4>2. t \in InMap
          BY <1>1, <4>1 DEF IInv, NoDanglingSession, Queued
        <4>3. t \notin InMap'
          BY <2>5, <3>3, <4>2
        <4> QED
          BY <4>3 DEF InMap
      <3> QED
        BY <3>2, <3>3
    <2> QED
      BY <1>1, <2>3, <2>4, <2>5, QueueSteps
  <1>2. IInv /\ [Next]_vars =>
           [\A s, t \in Session :
              /\ Before(m_QueuedPlayer, s, t)
              /\ s \in SeqRange(m_QueuedPlayer')
              => \/ Before(m_QueuedPlayer', s, t)
                 \/ m_sessions'[accountOf[t]] # t]_vars
    BY <1>1
  <1> QED
    BY <1>2, SessionsInvariant, PTL DEF Spec, NoOvertaking

-----------------------------------------------------------------------------
(* The player limit: the counts of AddSession_ and RemoveQueuedPlayer.     *)

\* GetActiveAndQueuedSessionCount counts the sessions of m_sessions.
LEMMA SessionCount ==
    ASSUME IInv
    PROVE  IsFiniteSet(InMap) /\ GetActiveAndQueuedSessionCount = Cardinality(InMap)
  <1> DEFINE accounts == {a \in Account : m_sessions[a] # NoSession}
             f == [s \in InMap |-> accountOf[s]]
  <1>1. IsFiniteSet(InMap)
    BY FiniteAssumption, FS_Subset, IInvFacts
  <1>2. \A a \in accounts : m_sessions[a] \in InMap /\ accountOf[m_sessions[a]] = a
    BY DEF IInv, NoDanglingSession, TypeOK, InMap
  <1>3. \A s \in InMap : accountOf[s] \in accounts /\ m_sessions[accountOf[s]] = s
    BY SessionAssumption DEF InMap
  <1> HIDE DEF accounts
  <1>4. f \in Bijection(InMap, accounts)
    BY <1>2, <1>3 DEF Bijection, Injection, Surjection, IsInjective
  <1>5. ExistsBijection(InMap, accounts)
    BY <1>4 DEF ExistsBijection
  <1>6. Cardinality(accounts) = Cardinality(InMap)
    BY <1>1, <1>5, FS_Bijection
  <1> QED
    BY <1>1, <1>6 DEF GetActiveAndQueuedSessionCount, accounts

\* The length of a queue is the number of sessions in it.
LEMMA QueueLength ==
    ASSUME NEW q \in Seq(Session), NoDuplicates(q)
    PROVE  IsFiniteSet(SeqRange(q)) /\ Cardinality(SeqRange(q)) = Len(q)
  <1> DEFINE f == [i \in 1..Len(q) |-> q[i]]
  <1>1. f \in Bijection(1..Len(q), SeqRange(q))
    BY DEF Bijection, Injection, Surjection, IsInjective, SeqRange, NoDuplicates
  <1>2. ExistsBijection(1..Len(q), SeqRange(q))
    BY <1>1 DEF ExistsBijection
  <1>3. IsFiniteSet(1..Len(q)) /\ Cardinality(1..Len(q)) = Len(q)
    <2>1. PICK n \in Nat : n = Len(q)
      OBVIOUS
    <2>2. IsFiniteSet(1..n) /\ Cardinality(1..n) = IF 1 > n THEN 0 ELSE n - 1 + 1
      BY FS_Interval
    <2> QED
      BY <2>1, <2>2
  <1> QED
    BY <1>2, <1>3, FS_Bijection

\* The sessions of m_sessions that do not wait, the leaving one left out.
Staying(st, sess) == (InMap \ SeqRange(st.queue)) \ {sess}

\* What RemoveQueuedPlayer compares with the limit is their number.
LEMMA Counted ==
    ASSUME IInv, NEW st, QueueFits(st), SeqRange(st.queue) \subseteq InMap, NEW sess \in InMap
    PROVE  /\ IsFiniteSet(Staying(st, sess))
           /\ Cardinality(Staying(st, sess)) \in Nat
           /\ CountedSessions(st, GetActiveAndQueuedSessionCount, sess) = Cardinality(Staying(st, sess))
  <1> DEFINE total == GetActiveAndQueuedSessionCount
             Q == SeqRange(st.queue)
             active == InMap \ Q
  <1>1. IsFiniteSet(InMap) /\ total = Cardinality(InMap)
    BY SessionCount
  <1>2. IsFiniteSet(Q) /\ Cardinality(Q) = Len(st.queue)
    BY QueueLength DEF QueueFits, QueueStates
  <1> HIDE DEF total, Q
  <1>3. IsFiniteSet(active)
    BY <1>1, FS_Subset
  <1>4. Cardinality(active) + Cardinality(Q) = Cardinality(InMap)
    <2>1. active \cup Q = InMap /\ active \cap Q = {}
      BY DEF Q
    <2>2. Cardinality(active \cup Q) = Cardinality(active) + Cardinality(Q) - Cardinality(active \cap Q)
      BY <1>2, <1>3, FS_Union
    <2> HIDE DEF active
    <2>3. Cardinality(active \cap Q) = 0
      BY <2>1, FS_EmptySet
    <2>4. Cardinality(active) \in Nat /\ Cardinality(Q) \in Nat
      BY <1>2, <1>3, FS_CardinalityType
    <2>5. Cardinality(active \cup Q) = Cardinality(InMap)
      BY <2>1, Zenon
    <2> QED
      BY <2>2, <2>3, <2>4, <2>5
  <1>5. Cardinality(active) \in Nat /\ Cardinality(Q) \in Nat
    BY <1>2, <1>3, FS_CardinalityType
  <1>6. total - Len(st.queue) = Cardinality(active)
    BY <1>1, <1>2, <1>4, <1>5
  <1>7. /\ IsFiniteSet(active \ {sess})
        /\ Cardinality(active \ {sess}) = IF sess \in active THEN Cardinality(active) - 1
                                                             ELSE Cardinality(active)
    BY <1>3, FS_RemoveElement
  <1>8. Cardinality(active \ {sess}) \in Nat
    BY <1>7, FS_CardinalityType
  <1>9. sess \in active <=> ~IsQueued(st, sess)
    BY DEF IsQueued, Q
  <1>10. Staying(st, sess) = active \ {sess}
    BY DEF Staying, Q
  <1> HIDE DEF active
  <1>11. sess \in active => Cardinality(active) > 0
    BY <1>5, <1>7, <1>8
  <1> QED
    BY <1>5, <1>6, <1>7, <1>8, <1>9, <1>10, <1>11 DEF CountedSessions, total

\* Whether RemoveQueuedPlayer admits the first of the queue, and whom it leaves.
LEMMA RemovedOne ==
    ASSUME IInv, NEW st, QueueFits(st), SeqRange(st.queue) \subseteq InMap, NEW sess \in InMap,
           NEW r, r = RemoveQueuedPlayer(st, GetActiveAndQueuedSessionCount, sess)
    PROVE  LET n == Cardinality(Staying(st, sess))
           IN  \/ /\ m_playerLimit = 0 \/ n < m_playerLimit
                  /\ st.queue # <<>>
                  /\ Cardinality(Staying(r, sess)) = n + 1
               \/ /\ Staying(r, sess) = Staying(st, sess)
                  /\ SeqRange(r.queue) = SeqRange(st.queue) \ {sess}
                  /\ r.queue = <<>> \/ (m_playerLimit # 0 /\ n >= m_playerLimit)
  <1> DEFINE total == GetActiveAndQueuedSessionCount
             n == Cardinality(Staying(st, sess))
             d == Dequeue(st, sess)
  <1>0. sess \in Session /\ InMap \subseteq Session /\ m_playerLimit \in Nat
    BY IInvFacts DEF IInv, TypeOK
  <1>1. IsFiniteSet(Staying(st, sess)) /\ n \in Nat /\ CountedSessions(st, total, sess) = n
    BY Counted
  <1>2. /\ d \in QueueStates
        /\ NoDuplicates(d.queue)
        /\ SeqRange(d.queue) = SeqRange(st.queue) \ {sess}
    BY <1>0, Dequeued
  <1>3. d.queue \in Seq(Session)
    BY <1>2 DEF QueueStates
  <1> HIDE DEF d, total
  <1>4. CASE AcceptsFirst(st, total, sess)
    <2>1. r.queue = Tail(d.queue)
      BY <1>4 DEF RemoveQueuedPlayer, PopFront, d, total
    <2>2. d.queue # <<>> /\ (m_playerLimit = 0 \/ n < m_playerLimit)
      BY <1>1, <1>4 DEF AcceptsFirst, d
    <2>3. /\ Head(d.queue) \in SeqRange(d.queue)
          /\ SeqRange(Tail(d.queue)) = SeqRange(d.queue) \ {Head(d.queue)}
      BY <1>2, <1>3, <2>2, TailElement
    <2>4. PICK first : /\ first \in SeqRange(st.queue) \ {sess}
                       /\ SeqRange(r.queue) = SeqRange(st.queue) \ {sess, first}
      BY <1>2, <2>1, <2>3
    <2>5. Staying(r, sess) = Staying(st, sess) \cup {first} /\ first \notin Staying(st, sess)
      BY <2>4 DEF Staying
    <2>6. Cardinality(Staying(r, sess)) = n + 1
      BY <1>1, <2>5, FS_AddElement, ZenonT(30)
    <2>7. st.queue # <<>>
      BY <2>4 DEF SeqRange
    <2> QED
      BY <2>2, <2>6, <2>7
  <1>5. CASE ~AcceptsFirst(st, total, sess)
    <2>1. r.queue = d.queue
      BY <1>2, <1>5 DEF RemoveQueuedPlayer, d, total, QueueStates
    <2>2. Staying(r, sess) = Staying(st, sess)
      BY <1>2, <2>1 DEF Staying
    <2>3. d.queue = <<>> \/ (m_playerLimit # 0 /\ n >= m_playerLimit)
      BY <1>0, <1>1, <1>5 DEF AcceptsFirst, d
    <2> QED
      BY <1>2, <2>1, <2>2, <2>3
  <1> QED
    BY <1>4, <1>5

\* Sessions wait only while the others fill the limit.
FullWithout(st, active) ==
    st.queue # <<>> => m_playerLimit > 0 /\ Cardinality(active) >= m_playerLimit

\* After RemoveQueuedPlayer no free place is left unused, and none was invented.
LEMMA RemoveCounts ==
    ASSUME IInv, NEW st, QueueFits(st), SeqRange(st.queue) \subseteq InMap, NEW sess \in InMap,
           NEW r, r = RemoveQueuedPlayer(st, GetActiveAndQueuedSessionCount, sess)
    PROVE  /\ QueueFits(r)
           /\ SeqRange(r.queue) \subseteq SeqRange(st.queue) \ {sess}
           /\ FullWithout(st, InMap \ SeqRange(st.queue)) => FullWithout(r, Staying(r, sess))
           /\ m_playerLimit > 0 => \/ Staying(r, sess) = Staying(st, sess)
                                   \/ Cardinality(Staying(r, sess)) <= m_playerLimit
  <1> DEFINE n == Cardinality(Staying(st, sess))
  <1>1. sess \in Session /\ m_playerLimit \in Nat
    BY IInvFacts DEF IInv, TypeOK
  <1>2. QueueFits(r) /\ SeqRange(r.queue) \subseteq SeqRange(st.queue) \ {sess}
    BY <1>1, Removed DEF Removal
  <1>3. n \in Nat
    BY Counted
  <1>4. /\ Cardinality(InMap \ SeqRange(st.queue)) \in Nat
        /\ n >= Cardinality(InMap \ SeqRange(st.queue)) - 1
    <2> DEFINE active == InMap \ SeqRange(st.queue)
    <2>1. IsFiniteSet(active)
      BY SessionCount, FS_Subset
    <2>2. Staying(st, sess) = active \ {sess}
      BY DEF Staying
    <2> HIDE DEF active
    <2>3. Cardinality(active) \in Nat
      BY <2>1, FS_CardinalityType
    <2>4. Cardinality(active \ {sess}) = IF sess \in active THEN Cardinality(active) - 1
                                                             ELSE Cardinality(active)
      BY <2>1, FS_RemoveElement
    <2>5. n >= Cardinality(active) - 1
      BY <2>2, <2>3, <2>4
    <2> QED
      BY <2>3, <2>5 DEF active
  <1>5. \/ /\ m_playerLimit = 0 \/ n < m_playerLimit
           /\ st.queue # <<>>
           /\ Cardinality(Staying(r, sess)) = n + 1
        \/ /\ Staying(r, sess) = Staying(st, sess)
           /\ r.queue = <<>> \/ (m_playerLimit # 0 /\ n >= m_playerLimit)
    BY RemovedOne
  <1> HIDE DEF n
  <1>6. FullWithout(st, InMap \ SeqRange(st.queue)) => FullWithout(r, Staying(r, sess))
    <2>1. SUFFICES ASSUME FullWithout(st, InMap \ SeqRange(st.queue)), r.queue # <<>>
                   PROVE  m_playerLimit > 0 /\ Cardinality(Staying(r, sess)) >= m_playerLimit
      BY DEF FullWithout
    <2>2. st.queue # <<>>
      <3>1. r.queue[1] \in SeqRange(r.queue)
        BY <1>2, <2>1 DEF SeqRange, QueueFits, QueueStates
      <3>2. SeqRange(st.queue) # {}
        BY <1>2, <3>1
      <3> QED
        BY <3>2 DEF SeqRange
    <2>3. m_playerLimit > 0 /\ Cardinality(InMap \ SeqRange(st.queue)) >= m_playerLimit
      BY <2>1, <2>2 DEF FullWithout
    <2> QED
      BY <1>1, <1>3, <1>4, <1>5, <2>1, <2>3 DEF n
  <1>7. m_playerLimit > 0 => \/ Staying(r, sess) = Staying(st, sess)
                             \/ Cardinality(Staying(r, sess)) <= m_playerLimit
    BY <1>1, <1>3, <1>5
  <1> QED
    BY <1>2, <1>6, <1>7

\* The sessions of m_sessions that do not wait.
Active == InMap \ SeqRange(m_QueuedPlayer)

\* The admitted sessions are those, but for the shutdown, when the queue is emptied
\* and m_inQueue stays.
LEMMA AdmittedActive ==
    ASSUME IInv
    PROVE  /\ {s \in Session : Admitted(s)} \subseteq Active
           /\ ~ShuttingDown => {s \in Session : Admitted(s)} = Active
  BY IInvFacts DEF IInv, NoDanglingSession, Admitted, Active, Queued

\* The same in the state after a step.
LEMMA AdmittedActiveNext ==
    ASSUME IInv'
    PROVE  /\ {s \in Session : Admitted(s)}' \subseteq Active'
           /\ ~ShuttingDown' => {s \in Session : Admitted(s)}' = Active'
  <1>1. /\ \A s \in Session : Queued(s)' => s \in InMap' /\ m_inQueue'[s]
        /\ \A s \in Session : m_inQueue'[s] /\ ~ShuttingDown' => Queued(s)'
        /\ InMap' \subseteq Session
    BY DEF IInv, NoDanglingSession, InMap
  <1> QED
    BY <1>1 DEF Admitted, Active, Queued

\* AddSession_ for a first connection: it may enter, or it has to wait.
LEMMA EnterFirstCounts ==
    ASSUME IInv, NEW s \in Session, EnterFirst(s)
    PROVE  /\ InMap' = InMap \cup {s} /\ s \notin InMap
           /\ \/ /\ m_QueuedPlayer' = m_QueuedPlayer
                 /\ Active' = Active \cup {s}
                 /\ ~MustQueue(s, Cardinality(InMap))
              \/ /\ Active' = Active
                 /\ MustQueue(s, Cardinality(InMap))
  <1>1. InMap' = InMap \cup {s}
    BY EnterFirstQueue
  <1>2. s \notin InMap /\ s \notin SeqRange(m_QueuedPlayer)
    BY NewSession DEF EnterFirst
  <1>3. IF MustQueue(s, Cardinality(InMap))
          THEN SetQueueState(AddQueuedPlayer(QueueState, s))
          ELSE UNCHANGED queueVars
    BY SessionCount DEF EnterFirst
  <1>4. CASE ~MustQueue(s, Cardinality(InMap))
    <2>1. m_QueuedPlayer' = m_QueuedPlayer
      BY <1>3, <1>4 DEF queueVars
    <2>2. SeqRange(m_QueuedPlayer') = SeqRange(m_QueuedPlayer)
      BY <2>1
    <2> QED
      BY <1>1, <1>2, <1>4, <2>1, <2>2 DEF Active
  <1>5. CASE MustQueue(s, Cardinality(InMap))
    <2>1. m_QueuedPlayer' = AddQueuedPlayer(QueueState, s).queue /\ QueueState.queue = m_QueuedPlayer
      BY <1>3, <1>5 DEF SetQueueState, QueueState
    <2>2. QueueFits(QueueState)
      BY QueueStateFits
    <2>3. SeqRange(m_QueuedPlayer') = SeqRange(m_QueuedPlayer) \cup {s}
      BY <1>2, <2>1, <2>2, Added
    <2> QED
      BY <1>1, <1>2, <1>5, <2>3 DEF Active
  <1> QED
    BY <1>4, <1>5

\* AddSession_ for a reconnect, after RemoveQueuedPlayer for the session it replaces.
LEMMA EnterReplacingCounts ==
    ASSUME IInv, NEW s \in Session, NEW old \in Session, EnterReplacing(s),
           old = m_sessions[accountOf[s]]
    PROVE  LET r == RemoveQueuedPlayer(QueueState, GetActiveAndQueuedSessionCount, old)
               sessions == IF old \in SeqRange(m_QueuedPlayer) THEN Cardinality(InMap)
                                                               ELSE Cardinality(InMap) - 1
           IN  /\ InMap' = (InMap \ {old}) \cup {s} /\ s \notin InMap /\ old \in InMap
               /\ \/ /\ m_QueuedPlayer' = r.queue
                     /\ Active' = Staying(r, old) \cup {s}
                     /\ ~MustQueue(s, sessions)
                  \/ /\ Active' = Staying(r, old)
                     /\ MustQueue(s, sessions)
  <1> DEFINE r == RemoveQueuedPlayer(QueueState, GetActiveAndQueuedSessionCount, old)
             sessions == IF old \in SeqRange(m_QueuedPlayer) THEN Cardinality(InMap)
                                                             ELSE Cardinality(InMap) - 1
  <1>1. InMap' = (InMap \ {old}) \cup {s} /\ old \in InMap
    BY EnterReplacingQueue
  <1>2. s \notin InMap /\ s \notin SeqRange(m_QueuedPlayer)
    BY NewSession DEF EnterReplacing
  <1>3. IF MustQueue(s, sessions)
          THEN SetQueueState(AddQueuedPlayer(r, s))
          ELSE SetQueueState(r)
    <2>1. IsQueued(QueueState, old) <=> old \in SeqRange(m_QueuedPlayer)
      BY DEF IsQueued, QueueState
    <2> QED
      BY <2>1, SessionCount DEF EnterReplacing
  <1>4. QueueFits(r) /\ SeqRange(r.queue) \subseteq SeqRange(m_QueuedPlayer) \ {old}
    <2>1. QueueFits(QueueState) /\ QueueState.queue = m_QueuedPlayer
      BY QueueStateFits DEF QueueState
    <2>2. Removal(QueueState, r, old)
      BY <2>1, Removed
    <2> HIDE DEF r
    <2> QED
      BY <2>1, <2>2 DEF Removal
  <1> HIDE DEF r, sessions
  <1>5. CASE ~MustQueue(s, sessions)
    <2>1. m_QueuedPlayer' = r.queue
      BY <1>3, <1>5 DEF SetQueueState
    <2>2. Active' = Staying(r, old) \cup {s}
      BY <1>1, <1>2, <1>4, <2>1 DEF Active, Staying
    <2> QED
      BY <1>1, <1>2, <1>5, <2>1, <2>2 DEF r, sessions
  <1>6. CASE MustQueue(s, sessions)
    <2>1. m_QueuedPlayer' = AddQueuedPlayer(r, s).queue
      BY <1>3, <1>6 DEF SetQueueState
    <2>2. s \notin SeqRange(r.queue)
      BY <1>2, <1>4
    <2>3. SeqRange(m_QueuedPlayer') = SeqRange(r.queue) \cup {s}
      BY <1>4, <2>1, <2>2, Added
    <2>4. Active' = Staying(r, old)
      BY <1>1, <1>2, <2>3 DEF Active, Staying
    <2> QED
      BY <1>1, <1>2, <1>6, <2>4 DEF r, sessions
  <1> QED
    BY <1>5, <1>6

\* The two calls of UpdateSessions for a session that has closed.
LEMMA EndUpdateClosedCounts ==
    ASSUME IInv, NEW s \in Session, EndUpdateClosed, s = m_sessions[cur]
    PROVE  \E once, twice :
              /\ once = RemoveQueuedPlayer(QueueState, GetActiveAndQueuedSessionCount, s)
              /\ twice = RemoveQueuedPlayer(once, GetActiveAndQueuedSessionCount, s)
              /\ m_QueuedPlayer' = twice.queue
              /\ Active' = Staying(twice, s)
  <1>1. PICK once, twice :
           /\ once = RemoveQueuedPlayer(QueueState, GetActiveAndQueuedSessionCount, s)
           /\ twice = RemoveQueuedPlayer(once, GetActiveAndQueuedSessionCount, s)
           /\ SetQueueState([twice EXCEPT !.inQueue = [@ EXCEPT ![s] = FALSE]])
    BY DEF EndUpdateClosed
  <1>2. QueueFits(once)
    BY <1>1, QueueStateFits, Removed DEF Removal
  <1>3. QueueFits(twice)
    BY <1>1, <1>2, Removed DEF Removal
  <1>4. m_QueuedPlayer' = twice.queue
    BY <1>1, <1>3 DEF SetQueueState, QueueFits, QueueStates
  <1>5. InMap' = InMap \ {s}
    BY EndUpdateClosedQueue
  <1>6. Active' = Staying(twice, s)
    BY <1>4, <1>5 DEF Active, Staying
  <1> QED
    BY <1>1, <1>4, <1>6

\* The steps that leave the admission of sessions alone.
LEMMA NoAdmission ==
    ASSUME IInv, Next, m_playerLimit' = m_playerLimit,
           ~(\E s \in Session : EnterFirst(s) \/ EnterReplacing(s)),
           ~EndUpdateClosed
    PROVE  /\ UNCHANGED <<m_sessions, m_inQueue>>
           /\ UNCHANGED m_QueuedPlayer \/ ShuttingDown'
           /\ ShuttingDown => ShuttingDown'
  <1>1. ASSUME \/ \E s \in Session : AddSession(s) \/ CloseSocket(s) \/ QueryDone(s)
               \/ Tick \/ StopNow
               \/ \E l \in PLimits : SetPlayerAmountLimit(l)
        PROVE  UNCHANGED <<m_sessions, m_inQueue, m_QueuedPlayer>> /\ (ShuttingDown => ShuttingDown')
    BY <1>1 DEF AddSession, CloseSocket, QueryDone, Tick, StopNow, SetPlayerAmountLimit, queueVars,
                worldVars, ShuttingDown
  <1>2. ASSUME NEW s \in Sender, Packet(s)
        PROVE  UNCHANGED <<m_sessions, m_inQueue, m_QueuedPlayer>> /\ (ShuttingDown => ShuttingDown')
    BY <1>2 DEF Packet, HandleCharEnumOpcode, HandlePlayerLoginOpcode, HandleLogoutRequestOpcode,
                HandleLogoutCancelOpcode, queueVars, worldVars, ShuttingDown
  <1>3. ASSUME \/ StartUpdateSessions \/ StartSecondLoop \/ EndUpdate \/ EndUpdateSessions
               \/ \E a \in Account : BeginUpdate(a)
               \/ \E s \in Session : RefuseSession(s)
        PROVE  UNCHANGED <<m_sessions, m_inQueue, m_QueuedPlayer>> /\ (ShuttingDown => ShuttingDown')
    BY <1>3 DEF StartUpdateSessions, StartSecondLoop, EndUpdate, EndUpdateSessions, BeginUpdate,
                RefuseSession, queueVars, worldVars, ShuttingDown
  <1>4. KickAll => UNCHANGED <<m_sessions, m_inQueue>> /\ ShuttingDown'
    BY DEF KickAll, ShuttingDown
  <1> QED
    BY <1>1, <1>2, <1>3, <1>4 DEF Next, WorldStep, AddSession_

\* The sets that are counted are finite.
LEMMA ActiveIsFinite ==
    ASSUME IInv
    PROVE  /\ IsFiniteSet(Active) /\ Cardinality(Active) \in Nat
           /\ Cardinality(InMap) \in Nat
           /\ m_QueuedPlayer = <<>> => Active = InMap
  <1>1. IsFiniteSet(InMap)
    BY SessionCount
  <1>2. IsFiniteSet(Active)
    BY <1>1, FS_Subset DEF Active
  <1>3. m_QueuedPlayer = <<>> => Active = InMap
    BY DEF Active, SeqRange
  <1> QED
    BY <1>1, <1>2, <1>3, FS_CardinalityType

\* Nobody waits while there is room: every step keeps it, the limit given.
LEMMA FullKept ==
    ASSUME IInv, IInv', Next, m_playerLimit' = m_playerLimit, QueueOnlyWhenFull
    PROVE  QueueOnlyWhenFull'
  <1>1. SUFFICES ASSUME m_QueuedPlayer' # <<>>, ~ShuttingDown'
                 PROVE  m_playerLimit > 0 /\ Cardinality(Active') >= m_playerLimit
    BY AdmittedActiveNext DEF QueueOnlyWhenFull
  <1>2. m_playerLimit \in Nat
    BY DEF IInv, TypeOK
  <1>3. /\ IsFiniteSet(Active) /\ Cardinality(Active) \in Nat
        /\ Cardinality(InMap) \in Nat
        /\ m_QueuedPlayer = <<>> => Active = InMap
    BY ActiveIsFinite
  <1>4. QueueFits(QueueState) /\ QueueState.queue = m_QueuedPlayer
    BY QueueStateFits DEF QueueState
  <1>5. SeqRange(QueueState.queue) \subseteq InMap
    BY <1>4 DEF IInv, NoDanglingSession, TypeOK, Queued, SeqRange
  <1>6. ~ShuttingDown /\ m_QueuedPlayer # <<>>
           => m_playerLimit > 0 /\ Cardinality(Active) >= m_playerLimit
    BY AdmittedActive DEF QueueOnlyWhenFull
  <1>7. ~ShuttingDown => FullWithout(QueueState, InMap \ SeqRange(QueueState.queue))
    BY <1>4, <1>6 DEF FullWithout, Active
  <1>8. ASSUME NEW s \in Session, EnterFirst(s)
        PROVE  m_playerLimit > 0 /\ Cardinality(Active') >= m_playerLimit
    <2>1. ~ShuttingDown
      BY <1>1, <1>8 DEF EnterFirst, worldVars, ShuttingDown
    <2>2. CASE m_QueuedPlayer' = m_QueuedPlayer /\ Active' = Active \cup {s}
      <3>1. Cardinality(Active \cup {s}) \in {Cardinality(Active), Cardinality(Active) + 1}
        BY <1>3, FS_AddElement
      <3>2. /\ Cardinality(Active \cup {s}) \in Nat
            /\ Cardinality(Active \cup {s}) >= Cardinality(Active)
        BY <1>3, <3>1
      <3> QED
        BY <1>1, <1>2, <1>3, <1>6, <2>1, <2>2, <3>1, <3>2
    <2>3. CASE Active' = Active /\ MustQueue(s, Cardinality(InMap))
      BY <1>2, <1>3, <1>6, <2>1, <2>3 DEF MustQueue
    <2> QED
      BY <1>8, <2>2, <2>3, EnterFirstCounts
  <1>9. ASSUME NEW s \in Session, EnterReplacing(s)
        PROVE  m_playerLimit > 0 /\ Cardinality(Active') >= m_playerLimit
    <2>1. ~ShuttingDown
      BY <1>1, <1>9 DEF EnterReplacing, worldVars, ShuttingDown
    <2>2. PICK old \in Session : old = m_sessions[accountOf[s]]
      BY <1>9, SessionAssumption DEF EnterReplacing, IInv, TypeOK
    <2>3. PICK r : r = RemoveQueuedPlayer(QueueState, GetActiveAndQueuedSessionCount, old)
      OBVIOUS
    <2>4. PICK sessions : sessions = IF old \in SeqRange(m_QueuedPlayer) THEN Cardinality(InMap)
                                                                         ELSE Cardinality(InMap) - 1
      OBVIOUS
    <2>5. /\ old \in InMap
          /\ \/ /\ m_QueuedPlayer' = r.queue
                /\ Active' = Staying(r, old) \cup {s}
             \/ /\ Active' = Staying(r, old)
                /\ MustQueue(s, sessions)
      BY <1>9, <2>2, <2>3, <2>4, EnterReplacingCounts
    <2>6. FullWithout(r, Staying(r, old))
      BY <1>4, <1>5, <1>7, <2>1, <2>3, <2>5, RemoveCounts
    <2>7. IsFiniteSet(Staying(r, old)) /\ Cardinality(Staying(r, old)) \in Nat
      <3>1. IsFiniteSet(InMap) /\ Staying(r, old) \subseteq InMap
        BY SessionCount DEF Staying
      <3> QED
        BY <3>1, FS_Subset, FS_CardinalityType
    <2>8. CASE m_QueuedPlayer' = r.queue /\ Active' = Staying(r, old) \cup {s}
      <3>1. /\ Cardinality(Staying(r, old) \cup {s}) \in Nat
            /\ Cardinality(Staying(r, old) \cup {s}) >= Cardinality(Staying(r, old))
        BY <2>7, FS_AddElement
      <3> QED
        BY <1>1, <1>2, <2>6, <2>7, <2>8, <3>1 DEF FullWithout
    <2>9. CASE Active' = Staying(r, old) /\ MustQueue(s, sessions)
      <3>1. m_playerLimit > 0 /\ sessions >= m_playerLimit
        BY <1>2, <2>9 DEF MustQueue
      <3>2. CASE r.queue # <<>>
        BY <2>6, <2>9, <3>2 DEF FullWithout
      <3>3. CASE r.queue = <<>> /\ m_QueuedPlayer # <<>>
        <4>1. Cardinality(Active) >= m_playerLimit
          BY <1>6, <2>1, <3>3
        <4>2. Staying(QueueState, old) = Active \ {old}
          BY <1>4 DEF Staying, Active
        <4>3. Cardinality(Active \ {old}) = IF old \in Active THEN Cardinality(Active) - 1
                                                               ELSE Cardinality(Active)
          BY <1>3, FS_RemoveElement
        <4>4. \/ Cardinality(Staying(r, old)) = Cardinality(Staying(QueueState, old)) + 1
              \/ /\ Staying(r, old) = Staying(QueueState, old)
                 /\ SeqRange(r.queue) = SeqRange(m_QueuedPlayer) \ {old}
          BY <1>4, <1>5, <2>3, <2>5, RemovedOne
        <4>5. CASE Cardinality(Staying(r, old)) = Cardinality(Staying(QueueState, old)) + 1
          BY <1>2, <1>3, <2>9, <3>1, <4>1, <4>2, <4>3, <4>5
        <4>6. CASE /\ Staying(r, old) = Staying(QueueState, old)
                   /\ SeqRange(r.queue) = SeqRange(m_QueuedPlayer) \ {old}
          <5>1. SeqRange(r.queue) = {}
            BY <3>3 DEF SeqRange
          <5>2. m_QueuedPlayer[1] \in SeqRange(m_QueuedPlayer)
            BY <3>3 DEF SeqRange, IInv, TypeOK
          <5>3. old \in SeqRange(m_QueuedPlayer)
            BY <4>6, <5>1, <5>2
          <5>4. old \notin Active
            BY <5>3 DEF Active
          <5> QED
            BY <2>9, <3>1, <4>1, <4>2, <4>3, <4>6, <5>4
        <4> QED
          BY <4>4, <4>5, <4>6
      <3>4. CASE m_QueuedPlayer = <<>>
        <4>1. Active = InMap /\ SeqRange(m_QueuedPlayer) = {}
          BY <1>3, <3>4 DEF SeqRange
        <4>2. sessions = Cardinality(InMap) - 1
          BY <2>4, <4>1
        <4>3. Cardinality(InMap \ {old}) = Cardinality(InMap) - 1
          BY <2>5, SessionCount, FS_RemoveElement
        <4>4. Staying(r, old) = Staying(QueueState, old)
          BY <1>4, <1>5, <2>3, <2>5, <3>4, RemovedOne
        <4>5. Staying(QueueState, old) = InMap \ {old}
          BY <1>4, <4>1 DEF Staying
        <4> QED
          BY <2>9, <3>1, <4>2, <4>3, <4>4, <4>5
      <3> QED
        BY <3>2, <3>3, <3>4
    <2> QED
      BY <2>5, <2>8, <2>9
  <1>10. ASSUME EndUpdateClosed
         PROVE  m_playerLimit > 0 /\ Cardinality(Active') >= m_playerLimit
    <2>1. ~ShuttingDown
      BY <1>1, <1>10 DEF EndUpdateClosed, ShuttingDown
    <2>2. PICK s \in Session : s = m_sessions[cur]
      BY <1>10, UpdatedSession DEF EndUpdateClosed
    <2>3. s \in InMap
      BY <1>10, <2>2, UpdatedSession DEF EndUpdateClosed
    <2>4. PICK once, twice :
             /\ once = RemoveQueuedPlayer(QueueState, GetActiveAndQueuedSessionCount, s)
             /\ twice = RemoveQueuedPlayer(once, GetActiveAndQueuedSessionCount, s)
             /\ m_QueuedPlayer' = twice.queue
             /\ Active' = Staying(twice, s)
      BY <1>10, <2>2, EndUpdateClosedCounts
    <2>5. /\ QueueFits(once) /\ SeqRange(once.queue) \subseteq SeqRange(QueueState.queue) \ {s}
          /\ FullWithout(once, Staying(once, s))
      BY <1>4, <1>5, <1>7, <2>1, <2>3, <2>4, RemoveCounts
    <2>6. FullWithout(once, InMap \ SeqRange(once.queue))
      <3>1. IsFiniteSet(InMap \ SeqRange(once.queue))
        BY SessionCount, FS_Subset
      <3>2. /\ Cardinality(Staying(once, s)) <= Cardinality(InMap \ SeqRange(once.queue))
            /\ Cardinality(Staying(once, s)) \in Nat
            /\ Cardinality(InMap \ SeqRange(once.queue)) \in Nat
        BY <3>1, FS_Subset, FS_CardinalityType DEF Staying
      <3> QED
        BY <1>2, <2>5, <3>2 DEF FullWithout
    <2>7. SeqRange(once.queue) \subseteq InMap
      BY <1>5, <2>5
    <2>8. FullWithout(twice, Staying(twice, s))
      BY <2>3, <2>4, <2>5, <2>6, <2>7, RemoveCounts
    <2> QED
      BY <1>1, <2>4, <2>8 DEF FullWithout
  <1>11. ASSUME ~(\E s \in Session : EnterFirst(s) \/ EnterReplacing(s)), ~EndUpdateClosed
         PROVE  m_playerLimit > 0 /\ Cardinality(Active') >= m_playerLimit
    <2>1. UNCHANGED <<m_sessions, m_inQueue>> /\ UNCHANGED m_QueuedPlayer /\ ~ShuttingDown
      BY <1>1, <1>11, NoAdmission
    <2>2. Active' = Active
      BY <2>1 DEF Active, InMap, SeqRange
    <2> QED
      BY <1>1, <1>6, <2>1, <2>2
  <1> QED
    BY <1>8, <1>9, <1>10, <1>11

\* The admitted sessions whose account may not skip the queue.
MayNotSkip(S) == {s \in S : accountOf[s] \notin SkipQueue}

\* No more admitted sessions than the limit: every step keeps it, the limit given
\* and nobody let in for having disconnected lately.
LEMMA LimitKept ==
    ASSUME IInv, IInv', Next, m_playerLimit' = m_playerLimit, Tolerance = 0, LimitRespected
    PROVE  LimitRespected'
  <1> DEFINE A == {s \in Session : Admitted(s)}
             B == {s \in Session : Admitted(s)}'
             NS == {s \in Session : Admitted(s) /\ accountOf[s] \notin SkipQueue}
             NSB == {s \in Session : Admitted(s) /\ accountOf[s] \notin SkipQueue}'
  <1>1. SUFFICES ASSUME m_playerLimit > 0
                 PROVE  Cardinality(NSB) <= m_playerLimit
    BY DEF LimitRespected
  <1>2. m_playerLimit \in Nat
    BY DEF IInv, TypeOK
  <1>3. NS = MayNotSkip(A) /\ NSB = MayNotSkip(B) /\ B \subseteq Active'
    BY AdmittedActiveNext DEF MayNotSkip
  <1>4. Cardinality(NS) <= m_playerLimit
    BY <1>1 DEF LimitRespected
  <1>5. A = {s \in InMap : ~m_inQueue[s]} /\ B = {s \in InMap' : ~m_inQueue'[s]}
    BY DEF Admitted, InMap
  <1>6. IsFiniteSet(A) /\ IsFiniteSet(NS)
    BY FiniteAssumption, FS_Subset
  <1> HIDE DEF A, B, NS, NSB
  <1>7. ASSUME NEW X, IsFiniteSet(X), Cardinality(X) <= m_playerLimit, NSB \subseteq X
        PROVE  Cardinality(NSB) <= m_playerLimit
    BY <1>2, <1>7, FS_Subset, FS_CardinalityType
  <1>8. NSB \subseteq NS => Cardinality(NSB) <= m_playerLimit
    BY <1>4, <1>6, <1>7
  <1>9. \A s, n : ~MustQueue(s, n) => ~(n >= m_playerLimit) \/ accountOf[s] \in SkipQueue
    BY <1>1 DEF MustQueue, HasRecentlyDisconnected
  <1>10. QueueFits(QueueState) /\ QueueState.queue = m_QueuedPlayer
    BY QueueStateFits DEF QueueState
  <1>11. SeqRange(QueueState.queue) \subseteq InMap
    BY <1>10 DEF IInv, NoDanglingSession, TypeOK, Queued, SeqRange
  <1>12. IsFiniteSet(InMap) /\ Cardinality(InMap) \in Nat
    BY SessionCount, FS_CardinalityType
  <1>13. ASSUME NEW r, NEW gone, NEW new, Requeued(QueueState, r, gone, new), SetQueueState(r),
                NEW t \in B, t \in Active, t \notin gone \cup new
         PROVE  t \in A
    BY <1>5, <1>10, <1>13 DEF Requeued, SetQueueState, QueueState, Active, InMap
  <1>14. ASSUME NEW s \in Session, EnterFirst(s)
         PROVE  Cardinality(NSB) <= m_playerLimit
    <2>1. PICK r : Requeued(QueueState, r, {}, {s}) /\ SetQueueState(r)
      BY <1>14, EnterFirstQueue
    <2>2. /\ InMap' = InMap \cup {s} /\ s \notin InMap
          /\ \/ Active' = Active \cup {s} /\ ~MustQueue(s, Cardinality(InMap))
             \/ Active' = Active
      BY <1>14, EnterFirstCounts
    <2>3. \A t \in B : t \in Active /\ t # s => t \in A
      BY <1>13, <2>1
    <2>4. CASE Active' = Active
      <3>1. B \subseteq A
        BY <1>3, <2>2, <2>3, <2>4 DEF Active
      <3> QED
        BY <1>3, <1>8, <3>1 DEF MayNotSkip
    <2>5. CASE Active' = Active \cup {s} /\ accountOf[s] \in SkipQueue
      <3>1. B \subseteq A \cup {s}
        BY <1>3, <2>3, <2>5
      <3> QED
        BY <1>3, <1>8, <2>5, <3>1 DEF MayNotSkip
    <2>6. CASE ~(Cardinality(InMap) >= m_playerLimit)
      <3>1. IsFiniteSet(InMap \cup {s}) /\ Cardinality(InMap \cup {s}) = Cardinality(InMap) + 1
        BY <1>12, <2>2, FS_AddElement
      <3>2. Cardinality(InMap \cup {s}) <= m_playerLimit
        BY <1>2, <1>12, <2>6, <3>1
      <3>3. NSB \subseteq InMap \cup {s}
        BY <1>3, <1>5, <2>2 DEF MayNotSkip
      <3> QED
        BY <1>7, <3>1, <3>2, <3>3
    <2> QED
      BY <1>9, <2>2, <2>4, <2>5, <2>6
  <1>15. ASSUME NEW s \in Session, EnterReplacing(s)
         PROVE  Cardinality(NSB) <= m_playerLimit
    <2>1. PICK old \in Session : old = m_sessions[accountOf[s]]
      BY <1>15, SessionAssumption DEF EnterReplacing, IInv, TypeOK
    <2>2. PICK r : r = RemoveQueuedPlayer(QueueState, GetActiveAndQueuedSessionCount, old)
      OBVIOUS
    <2>3. PICK sessions : sessions = IF old \in SeqRange(m_QueuedPlayer) THEN Cardinality(InMap)
                                                                         ELSE Cardinality(InMap) - 1
      OBVIOUS
    <2>4. /\ InMap' = (InMap \ {old}) \cup {s} /\ s \notin InMap /\ old \in InMap
          /\ \/ Active' = Staying(r, old) \cup {s} /\ ~MustQueue(s, sessions)
             \/ Active' = Staying(r, old)
      BY <1>15, <2>1, <2>2, <2>3, EnterReplacingCounts
    <2>5. \/ Staying(r, old) = Staying(QueueState, old)
          \/ Cardinality(Staying(r, old)) <= m_playerLimit
      BY <1>1, <1>10, <1>11, <2>2, <2>4, RemoveCounts
    <2>6. PICK q : Requeued(QueueState, q, {old}, {s}) /\ SetQueueState(q)
      BY <1>15, <2>1, EnterReplacingQueue
    <2>7. \A t \in B : t \in Active /\ t \notin {old, s} => t \in A
      BY <1>13, <2>6
    <2>8. Staying(QueueState, old) = Active \ {old}
      BY <1>10 DEF Staying, Active
    <2>9. IsFiniteSet(Staying(r, old)) /\ s \notin Staying(r, old)
      <3>1. Staying(r, old) \subseteq InMap
        BY DEF Staying
      <3> QED
        BY <1>12, <2>4, <3>1, FS_Subset
    <2>10. CASE NSB \subseteq Staying(r, old)
      <3>1. CASE Staying(r, old) = Staying(QueueState, old)
        <4>1. NSB \subseteq NS
          BY <1>3, <2>7, <2>8, <2>9, <2>10, <3>1 DEF MayNotSkip
        <4> QED
          BY <1>8, <4>1
      <3>2. CASE Cardinality(Staying(r, old)) <= m_playerLimit
        BY <1>7, <2>9, <2>10, <3>2
      <3> QED
        BY <2>5, <3>1, <3>2
    <2>11. CASE Active' = Staying(r, old) \/ accountOf[s] \in SkipQueue
      <3>1. NSB \subseteq Staying(r, old)
        BY <1>3, <2>4, <2>11 DEF MayNotSkip
      <3> QED
        BY <2>10, <3>1
    <2>12. CASE ~(sessions >= m_playerLimit)
      <3>1. IsFiniteSet(InMap \ {old}) /\ Cardinality(InMap \ {old}) = Cardinality(InMap) - 1
        BY <1>12, <2>4, FS_RemoveElement
      <3>2. /\ IsFiniteSet((InMap \ {old}) \cup {s})
            /\ Cardinality((InMap \ {old}) \cup {s}) = Cardinality(InMap)
        BY <1>12, <2>4, <3>1, FS_AddElement
      <3>3. Cardinality(InMap) <= m_playerLimit
        BY <1>2, <1>12, <2>3, <2>12
      <3>4. NSB \subseteq (InMap \ {old}) \cup {s}
        BY <1>3, <1>5, <2>4 DEF MayNotSkip
      <3> QED
        BY <1>7, <3>2, <3>3, <3>4
    <2> QED
      BY <1>9, <2>4, <2>11, <2>12
  <1>16. ASSUME EndUpdateClosed
         PROVE  Cardinality(NSB) <= m_playerLimit
    <2>1. PICK s \in Session : s = m_sessions[cur]
      BY <1>16, UpdatedSession DEF EndUpdateClosed
    <2>2. s \in InMap
      BY <1>16, <2>1, UpdatedSession DEF EndUpdateClosed
    <2>3. PICK once, twice :
             /\ once = RemoveQueuedPlayer(QueueState, GetActiveAndQueuedSessionCount, s)
             /\ twice = RemoveQueuedPlayer(once, GetActiveAndQueuedSessionCount, s)
             /\ m_QueuedPlayer' = twice.queue
             /\ Active' = Staying(twice, s)
      BY <1>16, <2>1, EndUpdateClosedCounts
    <2>4. /\ QueueFits(once) /\ SeqRange(once.queue) \subseteq SeqRange(QueueState.queue) \ {s}
          /\ \/ Staying(once, s) = Staying(QueueState, s)
             \/ Cardinality(Staying(once, s)) <= m_playerLimit
      BY <1>1, <1>10, <1>11, <2>2, <2>3, RemoveCounts
    <2>5. SeqRange(once.queue) \subseteq InMap
      BY <1>11, <2>4
    <2>6. \/ Staying(twice, s) = Staying(once, s)
          \/ Cardinality(Staying(twice, s)) <= m_playerLimit
      BY <1>1, <2>2, <2>3, <2>4, <2>5, RemoveCounts
    <2>7. PICK q : Requeued(QueueState, q, {s}, {}) /\ SetQueueState(q)
      BY <1>16, <2>1, EndUpdateClosedQueue
    <2>8. \A t \in B : t \in Active /\ t # s => t \in A
      BY <1>13, <2>7
    <2>9. Staying(QueueState, s) = Active \ {s} /\ Staying(twice, s) \subseteq InMap
      BY <1>10 DEF Staying, Active
    <2>10. NSB \subseteq Staying(twice, s)
      BY <1>3, <2>3 DEF MayNotSkip
    <2>11. CASE Staying(twice, s) = Staying(QueueState, s)
      <3>1. NSB \subseteq NS
        BY <1>3, <2>8, <2>9, <2>10, <2>11 DEF MayNotSkip
      <3> QED
        BY <1>8, <3>1
    <2>12. CASE Cardinality(Staying(twice, s)) <= m_playerLimit
      <3>1. IsFiniteSet(Staying(twice, s))
        BY <1>12, <2>9, FS_Subset
      <3> QED
        BY <1>7, <2>10, <2>12, <3>1
    <2> QED
      BY <2>4, <2>6, <2>11, <2>12
  <1>17. ASSUME ~(\E s \in Session : EnterFirst(s) \/ EnterReplacing(s)), ~EndUpdateClosed
         PROVE  Cardinality(NSB) <= m_playerLimit
    <2>1. UNCHANGED <<m_sessions, m_inQueue>>
      BY <1>17, NoAdmission
    <2>2. NSB = NS
      BY <1>3, <1>5, <2>1 DEF MayNotSkip, InMap
    <2> QED
      BY <1>4, <2>2
  <1> QED
    BY <1>14, <1>15, <1>16, <1>17

-----------------------------------------------------------------------------
\* No command changes the player limit.
LimitKeeps == [][m_playerLimit' = m_playerLimit]_vars

FullInv == IInv /\ QueueOnlyWhenFull

(***************************************************************************)
(* As long as no command changes the player limit, nobody waits in the     *)
(* login queue when there is room: the count of RemoveQueuedPlayer, the    *)
(* leaving session left out, is right in both calls of UpdateSessions and  *)
(* in AddSession_.                                                         *)
(***************************************************************************)
THEOREM NobodyWaitsForRoom == Spec /\ LimitKeeps => []QueueOnlyWhenFull
  <1>1. Init => FullInv
    <2>1. SUFFICES ASSUME Init PROVE FullInv
      OBVIOUS
    <2>2. IInv
      BY <2>1, InitIInv
    <2>3. m_QueuedPlayer = <<>>
      BY <2>1 DEF Init
    <2> QED
      BY <2>2, <2>3 DEF FullInv, QueueOnlyWhenFull
  <1>2. FullInv /\ [Next]_vars /\ [m_playerLimit' = m_playerLimit]_vars => FullInv'
    <2>1. SUFFICES ASSUME FullInv, [Next]_vars, [m_playerLimit' = m_playerLimit]_vars PROVE FullInv'
      OBVIOUS
    <2>2. IInv /\ IInv' /\ m_playerLimit' = m_playerLimit
      BY <2>1, NextKeepsIInv DEF FullInv, vars, configVars
    <2>3. CASE Next
      BY <2>1, <2>2, <2>3, FullKept DEF FullInv
    <2>4. CASE UNCHANGED vars
      <3>1. UNCHANGED <<m_sessions, m_inQueue, m_QueuedPlayer, pc, m_playerLimit>>
        BY <2>4 DEF vars, queueVars, worldVars, configVars
      <3>2. {s \in Session : Admitted(s)}' = {s \in Session : Admitted(s)}
        BY <3>1 DEF Admitted, InMap
      <3> QED
        BY <2>1, <2>2, <3>1, <3>2 DEF FullInv, QueueOnlyWhenFull, ShuttingDown
    <2> QED
      BY <2>1, <2>3, <2>4
  <1>3. FullInv => QueueOnlyWhenFull
    BY DEF FullInv
  <1> QED
    BY <1>1, <1>2, <1>3, PTL DEF Spec, LimitKeeps

LimitInv == IInv /\ LimitRespected

(***************************************************************************)
(* As long as no command changes the limit, and DisconnectToleranceInterval*)
(* is off, the admitted sessions that may not skip the queue are never     *)
(* more than the limit, reconnects and departures in any order.            *)
(***************************************************************************)
THEOREM LimitIsRespected ==
    ASSUME Tolerance = 0
    PROVE  Spec /\ LimitKeeps => []LimitRespected
  <1>1. Init => LimitInv
    <2>1. SUFFICES ASSUME Init PROVE LimitInv
      OBVIOUS
    <2>2. IInv /\ m_playerLimit = PlayerLimit
      BY <2>1, InitIInv DEF Init
    <2>3. {s \in Session : Admitted(s) /\ accountOf[s] \notin SkipQueue} = {}
      BY <2>1, SessionAssumption DEF Init, Admitted, InMap
    <2> QED
      BY <2>2, <2>3, FS_EmptySet, LimitAssumption DEF LimitInv, LimitRespected
  <1>2. LimitInv /\ [Next]_vars /\ [m_playerLimit' = m_playerLimit]_vars => LimitInv'
    <2>1. SUFFICES ASSUME LimitInv, [Next]_vars, [m_playerLimit' = m_playerLimit]_vars PROVE LimitInv'
      OBVIOUS
    <2>2. IInv /\ IInv' /\ m_playerLimit' = m_playerLimit
      BY <2>1, NextKeepsIInv DEF LimitInv, vars, configVars
    <2>3. CASE Next
      BY <2>1, <2>2, <2>3, LimitKept DEF LimitInv
    <2>4. CASE UNCHANGED vars
      <3>1. UNCHANGED <<m_sessions, m_inQueue, m_playerLimit>>
        BY <2>4 DEF vars, queueVars, configVars
      <3>2. {s \in Session : Admitted(s) /\ accountOf[s] \notin SkipQueue}'
               = {s \in Session : Admitted(s) /\ accountOf[s] \notin SkipQueue}
        BY <3>1 DEF Admitted, InMap
      <3> QED
        BY <2>1, <2>2, <3>1, <3>2 DEF LimitInv, LimitRespected
    <2> QED
      BY <2>1, <2>3, <2>4
  <1>3. LimitInv => LimitRespected
    BY DEF LimitInv
  <1> QED
    BY <1>1, <1>2, <1>3, PTL DEF Spec, LimitKeeps
=============================================================================
