------------------------ MODULE SocketOutput_proofs ------------------------
(***************************************************************************)
(* Proofs about the output of a WorldSocket, for any sizes of packets, of  *)
(* the buffer, the queue and the kernel's buffer.                          *)
(***************************************************************************)
EXTENDS SocketOutput, TLAPS

-----------------------------------------------------------------------------
(* The inductive invariant.                                                *)

\* The registration of the socket with the reactor follows m_OutActive, except
\* between the release of the lock and the call of the reactor; the network
\* thread keeps off a socket that is being opened.
Registration ==
    /\ netPc = "closed" => closing_
    /\ openPc = "failed" => closing_ /\ ~writeMask /\ netPc \in {"idle", "closed"}
    /\ openPc = "new" => netPc = "idle" /\ ~m_OutActive /\ ~writeMask
    /\ openPc \in {"added", "allocated"} =>
          netPc \in {"idle", "closed"} /\ m_OutActive /\ ~writeMask
    /\ openPc = "open" =>
          /\ netPc \in {"idle", "peek", "out", "queue"} => m_OutActive = writeMask
          /\ netPc = "schedule" => m_OutActive /\ ~writeMask
          /\ netPc = "cancel" => ~m_OutActive /\ writeMask

\* The queue is sent from when the buffer is empty.
BufferFirst == netPc = "queue" => m_OutBuffer = <<>>

\* The blocks of the stream in their order.
Ordered ==
    /\ InOrder(wire) /\ InOrder(m_OutBuffer)
    /\ Before(wire, m_OutBuffer)
    /\ \A k \in DOMAIN msg_queue :
          /\ InOrder(msg_queue[k])
          /\ Before(wire, msg_queue[k]) /\ Before(m_OutBuffer, msg_queue[k])
    /\ \A k, l \in DOMAIN msg_queue : k < l => Before(msg_queue[k], msg_queue[l])

\* Byte n is on the wire, in the buffer or in the queue.
Kept(n) ==
    \/ n \in Range(wire) \/ n \in Range(m_OutBuffer)
    \/ \E k \in DOMAIN msg_queue : n \in Range(msg_queue[k])

\* No byte is made up, and none is lost unless somebody was told or a block dropped.
Complete ==
    /\ \A n : Kept(n) => n \in 1..encrypted
    /\ Healthy /\ ~dropped => \A n \in 1..encrypted : Kept(n)

IInv == TypeOK /\ Registration /\ BufferFirst /\ Ordered /\ Complete

-----------------------------------------------------------------------------
(* Blocks of bytes.                                                        *)

\* The bytes of two blocks put together.
LEMMA JoinedBlocks ==
    ASSUME NEW S \in SUBSET Nat, NEW s \in Seq(S), NEW t \in Seq(S)
    PROVE  /\ s \o t \in Seq(S) /\ Len(s \o t) = Len(s) + Len(t)
           /\ Range(s \o t) = Range(s) \cup Range(t)
           /\ InOrder(s) /\ InOrder(t) /\ Before(s, t) => InOrder(s \o t)
  <1> DEFINE u == s \o t
  <1>1. /\ u \in Seq(S) /\ Len(u) = Len(s) + Len(t) /\ Len(s) \in Nat /\ Len(t) \in Nat
        /\ DOMAIN u = 1..(Len(s) + Len(t)) /\ DOMAIN s = 1..Len(s) /\ DOMAIN t = 1..Len(t)
        /\ \A i \in 1..Len(s) : u[i] = s[i]
        /\ \A i \in 1..Len(t) : u[Len(s) + i] = t[i]
    OBVIOUS
  <1> HIDE DEF u
  <1>2. ASSUME NEW i \in DOMAIN u
        PROVE  \/ i \in DOMAIN s /\ u[i] = s[i] /\ i <= Len(s)
               \/ i - Len(s) \in DOMAIN t /\ u[i] = t[i - Len(s)] /\ i > Len(s)
    <2>1. CASE i <= Len(s)
      BY <1>1, <2>1
    <2>2. CASE i > Len(s)
      <3>1. i - Len(s) \in 1..Len(t) /\ Len(s) + (i - Len(s)) = i
        BY <1>1, <2>2
      <3> QED
        BY <1>1, <2>2, <3>1
    <2> QED
      BY <1>1, <2>1, <2>2
  <1>3. Range(u) = Range(s) \cup Range(t)
    <2>1. \A x \in Range(u) : x \in Range(s) \cup Range(t)
      BY <1>2 DEF Range
    <2>2. \A x \in Range(s) : x \in Range(u)
      BY <1>1 DEF Range
    <2>3. \A i \in 1..Len(t) : Len(s) + i \in DOMAIN u
      BY <1>1
    <2>4. \A x \in Range(t) : x \in Range(u)
      BY <1>1, <2>3 DEF Range
    <2> QED
      BY <2>1, <2>2, <2>4
  <1>4. ASSUME InOrder(s), InOrder(t), Before(s, t) PROVE InOrder(u)
    <2> SUFFICES ASSUME NEW i \in DOMAIN u, NEW j \in DOMAIN u, i < j PROVE u[i] < u[j]
      BY DEF InOrder
    <2>1. CASE j <= Len(s)
      BY <1>1, <1>4, <2>1 DEF InOrder
    <2>2. CASE i <= Len(s) /\ j > Len(s)
      <3>1. i \in DOMAIN s /\ u[i] = s[i] /\ j - Len(s) \in DOMAIN t /\ u[j] = t[j - Len(s)]
        BY <1>1, <1>2, <2>2
      <3>2. u[i] \in Range(s) /\ u[j] \in Range(t)
        BY <3>1 DEF Range
      <3> QED
        BY <1>4, <3>2 DEF Before
    <2>3. CASE i > Len(s)
      <3>1. /\ i - Len(s) \in DOMAIN t /\ u[i] = t[i - Len(s)]
            /\ j - Len(s) \in DOMAIN t /\ u[j] = t[j - Len(s)] /\ i - Len(s) < j - Len(s)
        BY <1>1, <1>2, <2>3
      <3> QED
        BY <1>4, <3>1 DEF InOrder
    <2> QED
      BY <1>1, <2>1, <2>2, <2>3
  <1> QED
    BY <1>1, <1>3, <1>4 DEF u

\* A block of which a part is sent.
LEMMA SplitBlock ==
    ASSUME NEW S \in SUBSET Nat, NEW b \in Seq(S), NEW m \in 0..Len(b)
    PROVE  /\ SubSeq(b, 1, m) \in Seq(S) /\ SubSeq(b, m + 1, Len(b)) \in Seq(S)
           /\ Len(SubSeq(b, m + 1, Len(b))) = Len(b) - m
           /\ Range(b) = Range(SubSeq(b, 1, m)) \cup Range(SubSeq(b, m + 1, Len(b)))
           /\ InOrder(b) => /\ InOrder(SubSeq(b, 1, m)) /\ InOrder(SubSeq(b, m + 1, Len(b)))
                            /\ Before(SubSeq(b, 1, m), SubSeq(b, m + 1, Len(b)))
  <1> DEFINE s == SubSeq(b, 1, m)
             t == SubSeq(b, m + 1, Len(b))
  <1>1. /\ Len(b) \in Nat /\ DOMAIN b = 1..Len(b) /\ m \in Nat /\ m <= Len(b)
        /\ s \in Seq(S) /\ Len(s) = m /\ DOMAIN s = 1..m /\ \A i \in 1..m : s[i] = b[i]
    OBVIOUS
  <1>2. /\ t \in Seq(S) /\ Len(t) = Len(b) - m /\ DOMAIN t = 1..(Len(b) - m)
        /\ \A i \in 1..(Len(b) - m) : t[i] = b[m + i]
    OBVIOUS
  <1> HIDE DEF s, t
  <1>3. \A i \in 1..(Len(b) - m) : m + i \in 1..Len(b) /\ m + i > m
    BY <1>1
  <1>4. \A i \in 1..Len(b) : i \in 1..m \/ (i - m \in 1..(Len(b) - m) /\ m + (i - m) = i)
    BY <1>1
  <1>5. Range(b) = Range(s) \cup Range(t)
    <2>1. \A x \in Range(s) : x \in Range(b)
      BY <1>1 DEF Range
    <2>4. \A i \in 1..(Len(b) - m) : t[i] \in Range(b)
      BY <1>1, <1>2, <1>3 DEF Range
    <2>2. \A x \in Range(t) : x \in Range(b)
      BY <1>2, <2>4 DEF Range
    <2>3. \A i \in DOMAIN b : b[i] \in Range(s) \cup Range(t)
      <3> TAKE i \in DOMAIN b
      <3>1. CASE i \in 1..m
        BY <1>1, <3>1 DEF Range
      <3>2. CASE i - m \in 1..(Len(b) - m) /\ m + (i - m) = i
        BY <1>2, <3>2 DEF Range
      <3> QED
        BY <1>1, <1>4, <3>1, <3>2
    <2> QED
      BY <2>1, <2>2, <2>3 DEF Range
  <1>6. ASSUME InOrder(b) PROVE InOrder(s) /\ InOrder(t) /\ Before(s, t)
    <2>1. InOrder(s)
      BY <1>1, <1>6 DEF InOrder
    <2>2. InOrder(t)
      <3> SUFFICES ASSUME NEW i \in 1..(Len(b) - m), NEW j \in 1..(Len(b) - m), i < j PROVE t[i] < t[j]
        BY <1>2 DEF InOrder
      <3>1. m + i < m + j
        BY <1>1
      <3> QED
        BY <1>1, <1>2, <1>3, <1>6, <3>1 DEF InOrder
    <2>3. Before(s, t)
      <3> SUFFICES ASSUME NEW i \in 1..m, NEW j \in 1..(Len(b) - m) PROVE s[i] < t[j]
        BY <1>1, <1>2 DEF Before, Range
      <3>1. i \in 1..Len(b) /\ i < m + j
        BY <1>1, <1>3
      <3> QED
        BY <1>1, <1>2, <1>3, <1>6, <3>1 DEF InOrder
    <2> QED
      BY <2>1, <2>2, <2>3
  <1> QED
    BY <1>1, <1>2, <1>5, <1>6 DEF s, t

\* What send() takes is a prefix of the block, and the rest is kept.
LEMMA SentAndRest ==
    ASSUME TypeOK, NEW b \in Seq(1..MaxBytes)
    PROVE  /\ Sendable(b) \in 0..Len(b) /\ unread + Sendable(b) \in 0..KernelSize
           /\ Sent(b) \in Seq(1..MaxBytes) /\ Rest(b) \in Seq(1..MaxBytes)
           /\ Len(Rest(b)) = Len(b) - Sendable(b)
           /\ Range(b) = Range(Sent(b)) \cup Range(Rest(b))
           /\ InOrder(b) => InOrder(Sent(b)) /\ InOrder(Rest(b)) /\ Before(Sent(b), Rest(b))
  <1>1. Sendable(b) \in 0..Len(b) /\ unread + Sendable(b) \in 0..KernelSize
    BY OutputAssumption, SMTT(20) DEF Sendable, TypeOK
  <1>2. 1..MaxBytes \in SUBSET Nat
    OBVIOUS
  <1> QED
    BY <1>1, <1>2, SplitBlock DEF Sent, Rest

\* A new packet: the bytes after those encrypted so far.
LEMMA NewPacket ==
    ASSUME NEW n \in Nat, NEW size \in Nat \ {0}, n + size <= MaxBytes
    PROVE  /\ [i \in 1..size |-> n + i] \in Seq(1..MaxBytes)
           /\ Len([i \in 1..size |-> n + i]) = size
           /\ InOrder([i \in 1..size |-> n + i])
           /\ Range([i \in 1..size |-> n + i]) = (n + 1)..(n + size)
  <1> DEFINE p == [i \in 1..size |-> n + i]
  <1> USE OutputAssumption
  <1>1. \A i \in 1..size : p[i] = n + i /\ p[i] \in (n + 1)..(n + size) /\ p[i] \in 1..MaxBytes
    OBVIOUS
  <1>2. DOMAIN p = 1..size
    OBVIOUS
  <1>3. p \in Seq(1..MaxBytes) /\ Len(p) = size
    BY <1>1
  <1> HIDE DEF p
  <1>4. InOrder(p)
    BY <1>1, <1>2 DEF InOrder
  <1>5. Range(p) = (n + 1)..(n + size)
    <2>1. \A x \in (n + 1)..(n + size) : x - n \in 1..size /\ n + (x - n) = x
      OBVIOUS
    <2>2. \A x \in (n + 1)..(n + size) : p[x - n] = x
      BY <1>1, <2>1
    <2>3. \A x \in (n + 1)..(n + size) : x \in Range(p)
      BY <1>2, <2>1, <2>2 DEF Range
    <2>4. \A x \in Range(p) : x \in (n + 1)..(n + size)
      BY <1>1, <1>2 DEF Range
    <2> QED
      BY <2>3, <2>4
  <1> QED
    BY <1>3, <1>4, <1>5 DEF p

\* Blocks with fewer bytes keep their order.
LEMMA BeforeParts ==
    ASSUME NEW s, NEW t, NEW u, NEW v, Before(s, t), Range(u) \subseteq Range(s), Range(v) \subseteq Range(t)
    PROVE  Before(u, v)
  BY DEF Before

-----------------------------------------------------------------------------
(* The steps that put bytes into the buffer or the queue, or take them out.*)

\* A queue with one more block.
LEMMA AppendedBlock ==
    ASSUME TypeOK, NEW b \in Seq(1..MaxBytes), b # <<>>, msg_queue' = Append(msg_queue, b)
    PROVE  /\ Len(msg_queue) \in Nat /\ DOMAIN msg_queue = 1..Len(msg_queue)
           /\ DOMAIN msg_queue' = 1..(Len(msg_queue) + 1)
           /\ \A k \in 1..Len(msg_queue) : msg_queue'[k] = msg_queue[k]
           /\ msg_queue'[Len(msg_queue) + 1] = b
           /\ msg_queue' \in Seq(Seq(1..MaxBytes) \ {<<>>})
  <1> DEFINE E == Seq(1..MaxBytes) \ {<<>>}
  <1>1. msg_queue \in Seq(E) /\ b \in E
    BY DEF TypeOK
  <1> HIDE DEF E
  <1>2. msg_queue' \in Seq(E)
    BY <1>1
  <1>3. /\ Len(msg_queue) \in Nat /\ DOMAIN msg_queue = 1..Len(msg_queue)
        /\ DOMAIN msg_queue' = 1..(Len(msg_queue) + 1)
        /\ \A k \in 1..Len(msg_queue) : msg_queue'[k] = msg_queue[k]
        /\ msg_queue'[Len(msg_queue) + 1] = b
    BY <1>1
  <1> QED
    BY <1>2, <1>3 DEF E

\* The queue without its head, and with another head.
LEMMA ShortQueue ==
    ASSUME TypeOK, msg_queue # <<>>
    PROVE  /\ Head(msg_queue) = msg_queue[1] /\ Head(msg_queue) \in Seq(1..MaxBytes)
           /\ Head(msg_queue) # <<>> /\ 1 \in DOMAIN msg_queue
           /\ Len(msg_queue) \in Nat \ {0} /\ DOMAIN msg_queue = 1..Len(msg_queue)
           /\ Tail(msg_queue) \in Seq(Seq(1..MaxBytes) \ {<<>>})
           /\ DOMAIN Tail(msg_queue) = 1..(Len(msg_queue) - 1)
           /\ \A k \in 1..(Len(msg_queue) - 1) : Tail(msg_queue)[k] = msg_queue[k + 1]
  <1> DEFINE E == Seq(1..MaxBytes) \ {<<>>}
  <1>1. msg_queue \in Seq(E)
    BY DEF TypeOK
  <1>2. \A b \in E : b \in Seq(1..MaxBytes) /\ b # <<>>
    OBVIOUS
  <1> HIDE DEF E
  <1>3. /\ Len(msg_queue) \in Nat \ {0} /\ DOMAIN msg_queue = 1..Len(msg_queue)
        /\ Head(msg_queue) = msg_queue[1] /\ Head(msg_queue) \in E
        /\ Tail(msg_queue) \in Seq(E)
        /\ DOMAIN Tail(msg_queue) = 1..(Len(msg_queue) - 1)
        /\ \A k \in 1..(Len(msg_queue) - 1) : Tail(msg_queue)[k] = msg_queue[k + 1]
    BY <1>1
  <1> QED
    BY <1>2, <1>3 DEF E

\* handle_output_queue puts the head back, with what was not sent of it.
LEMMA ReplacedHead ==
    ASSUME TypeOK, msg_queue # <<>>, NEW b \in Seq(1..MaxBytes), b # <<>>,
           msg_queue' = PutBack(b, Tail(msg_queue))
    PROVE  /\ msg_queue' \in Seq(Seq(1..MaxBytes) \ {<<>>})
           /\ DOMAIN msg_queue' = DOMAIN msg_queue
           /\ msg_queue'[1] = b
           /\ \A k \in DOMAIN msg_queue \ {1} : msg_queue'[k] = msg_queue[k]
  <1> DEFINE E == Seq(1..MaxBytes) \ {<<>>}
  <1>1. msg_queue \in Seq(E) /\ b \in E
    BY DEF TypeOK
  <1> HIDE DEF E
  <1>2. Tail(msg_queue) \in Seq(E) /\ <<b>> \in Seq(E) /\ Len(Tail(msg_queue)) = Len(msg_queue) - 1
    BY <1>1
  <1>3. msg_queue' = <<b>> \o Tail(msg_queue)
    BY DEF PutBack
  <1>4. msg_queue' \in Seq(E) /\ Len(msg_queue') = 1 + (Len(msg_queue) - 1)
    BY <1>2, <1>3, SMTT(20)
  <1>5. DOMAIN msg_queue' = DOMAIN msg_queue
    BY <1>1, <1>4
  <1>6. msg_queue'[1] = b
    BY <1>2, <1>3
  <1>7. \A k \in DOMAIN msg_queue \ {1} : msg_queue'[k] = msg_queue[k]
    BY <1>1, <1>2, <1>3
  <1> QED
    BY <1>4, <1>5, <1>6, <1>7 DEF E

\* The type of what the stream is made of.
StreamType ==
    /\ m_OutBuffer \in Seq(1..MaxBytes) /\ Len(m_OutBuffer) <= OutBufferSize
    /\ msg_queue \in Seq(Seq(1..MaxBytes) \ {<<>>})
    /\ wire \in Seq(1..MaxBytes) /\ unread \in 0..KernelSize
    /\ headSent \in Nat
    /\ encrypted \in 0..MaxBytes /\ {failed, dropped} \subseteq BOOLEAN

StreamKept == StreamType' /\ BufferFirst' /\ Ordered' /\ Complete'

\* SendPacket puts the packet behind everything else, or tells the caller.
LEMMA SendPacketKept ==
    ASSUME IInv, NEW size \in PacketSizes, SendPacket(size), UNCHANGED <<peerVars, closing_, netPc>>
    PROVE  StreamKept
  <1> DEFINE p == [i \in 1..size |-> encrypted + i]
             S == 1..MaxBytes
  <1>1. /\ ~Locked /\ ~closing_ /\ UNCHANGED <<headSent, dropped>> /\ encrypted + size <= MaxBytes
        /\ encrypted' = encrypted + size
        /\ \/ FitsBuffer(size) /\ m_OutBuffer' = m_OutBuffer \o p /\ UNCHANGED <<msg_queue, failed>>
           \/ msg_queue' = Append(msg_queue, p) /\ UNCHANGED <<m_OutBuffer, failed>>
           \/ failed' = TRUE /\ UNCHANGED <<m_OutBuffer, msg_queue>>
    BY DEF SendPacket
  <1>2. TypeOK /\ BufferFirst /\ Ordered /\ Complete
    BY DEF IInv
  <1>3. size \in Nat \ {0} /\ encrypted \in Nat
    BY <1>2, OutputAssumption DEF TypeOK
  <1>4. /\ p \in Seq(S) /\ Len(p) = size /\ InOrder(p)
        /\ Range(p) = (encrypted + 1)..(encrypted + size)
    BY <1>1, <1>3, NewPacket
  <1>5. wire' = wire /\ unread' = unread /\ closing_' = closing_ /\ netPc' = netPc
    BY DEF peerVars
  <1>6. encrypted' \in 0..MaxBytes /\ encrypted' \in Nat
    BY <1>1, <1>3, OutputAssumption
  <1> HIDE DEF p
  <1>7. p # <<>>
    BY <1>3, <1>4
  <1>8. BufferFirst'
    BY <1>1, <1>5 DEF BufferFirst, Locked
  <1>9. \A n : n \in 1..encrypted' <=> n \in 1..encrypted \/ n \in Range(p)
    BY <1>1, <1>3, <1>4
  <1>10. \A n : Kept(n) => \A x \in Range(p) : n < x
    BY <1>2, <1>3, <1>4 DEF Complete
  <1>11. Before(wire, p) /\ Before(m_OutBuffer, p) /\ \A k \in DOMAIN msg_queue : Before(msg_queue[k], p)
    BY <1>10 DEF Kept, Before
  <1>12. CASE FitsBuffer(size) /\ m_OutBuffer' = m_OutBuffer \o p /\ UNCHANGED <<msg_queue, failed>>
    <2>1. msg_queue = <<>> /\ OutBufferSize - Len(m_OutBuffer) >= size
      BY <1>12 DEF FitsBuffer
    <2>2. m_OutBuffer \in Seq(S) /\ S \in SUBSET Nat /\ InOrder(m_OutBuffer) /\ Before(wire, m_OutBuffer)
      BY <1>2 DEF TypeOK, Ordered
    <2>3. /\ m_OutBuffer' \in Seq(S) /\ Len(m_OutBuffer') = Len(m_OutBuffer) + size
          /\ Range(m_OutBuffer') = Range(m_OutBuffer) \cup Range(p) /\ InOrder(m_OutBuffer')
      BY <1>4, <1>11, <1>12, <2>2, JoinedBlocks
    <2>4. Before(wire, m_OutBuffer')
      BY <1>11, <2>2, <2>3 DEF Before
    <2>5. Ordered'
      BY <1>2, <1>5, <1>12, <2>1, <2>3, <2>4 DEF Ordered
    <2>6. \A n : Kept(n)' <=> Kept(n) \/ n \in Range(p)
      BY <1>5, <1>12, <2>3 DEF Kept
    <2>7. Complete'
      BY <1>1, <1>2, <1>5, <1>9, <1>12, <2>6 DEF Complete, Healthy
    <2>8. Len(m_OutBuffer') <= OutBufferSize
      BY <1>3, <2>1, <2>2, <2>3, OutputAssumption
    <2>9. StreamType'
      BY <1>1, <1>2, <1>5, <1>6, <1>12, <2>3, <2>8 DEF StreamType, TypeOK
    <2> QED
      BY <1>8, <2>5, <2>7, <2>9 DEF StreamKept
  <1>13. CASE msg_queue' = Append(msg_queue, p) /\ UNCHANGED <<m_OutBuffer, failed>>
    <2> DEFINE q == Len(msg_queue)
    <2>1. /\ q \in Nat /\ DOMAIN msg_queue = 1..q /\ DOMAIN msg_queue' = 1..(q + 1)
          /\ \A k \in 1..q : msg_queue'[k] = msg_queue[k]
          /\ msg_queue'[q + 1] = p
          /\ msg_queue' \in Seq(Seq(1..MaxBytes) \ {<<>>})
      BY <1>2, <1>4, <1>7, <1>13, AppendedBlock
    <2> HIDE DEF q
    <2>2. \A k \in 1..(q + 1) : (k \in 1..q /\ k # q + 1) \/ k = q + 1
      BY <2>1
    <2>3. Ordered'
      <3>1. ASSUME NEW k \in 1..(q + 1)
            PROVE  /\ InOrder(msg_queue'[k]) /\ Before(wire, msg_queue'[k])
                   /\ Before(m_OutBuffer, msg_queue'[k])
        <4>1. CASE k \in 1..q
          BY <1>2, <2>1, <4>1 DEF Ordered
        <4>2. CASE k = q + 1
          BY <1>4, <1>11, <2>1, <4>2
        <4> QED
          BY <2>2, <4>1, <4>2
      <3>2. ASSUME NEW k \in 1..(q + 1), NEW l \in 1..(q + 1), k < l
            PROVE  Before(msg_queue'[k], msg_queue'[l])
        <4>1. k \in 1..q
          BY <2>1, <3>2
        <4>2. CASE l \in 1..q
          BY <1>2, <2>1, <3>2, <4>1, <4>2 DEF Ordered
        <4>3. CASE l = q + 1
          BY <1>11, <2>1, <4>1, <4>3
        <4> QED
          BY <2>2, <4>2, <4>3
      <3> QED
        BY <1>2, <1>5, <1>13, <2>1, <3>1, <3>2 DEF Ordered
    <2>4. \A n : Kept(n)' <=> Kept(n) \/ n \in Range(p)
      <3>1. ASSUME NEW n PROVE (\E k \in 1..(q + 1) : n \in Range(msg_queue'[k]))
                                <=> (\E k \in 1..q : n \in Range(msg_queue[k])) \/ n \in Range(p)
        <4>1. (\E k \in 1..(q + 1) : n \in Range(msg_queue'[k]))
                 => (\E k \in 1..q : n \in Range(msg_queue[k])) \/ n \in Range(p)
          BY <2>1, <2>2
        <4>2. q + 1 \in 1..(q + 1) /\ \A k \in 1..q : k \in 1..(q + 1)
          BY <2>1
        <4> QED
          BY <2>1, <4>1, <4>2
      <3> QED
        BY <1>5, <1>13, <2>1, <3>1 DEF Kept
    <2>5. Complete'
      BY <1>1, <1>2, <1>5, <1>9, <1>13, <2>4 DEF Complete, Healthy
    <2>6. StreamType'
      BY <1>1, <1>2, <1>5, <1>6, <1>13, <2>1 DEF StreamType, TypeOK
    <2> QED
      BY <1>8, <2>3, <2>5, <2>6 DEF StreamKept
  <1>14. CASE failed' = TRUE /\ UNCHANGED <<m_OutBuffer, msg_queue>>
    <2>1. Ordered'
      BY <1>2, <1>5, <1>14 DEF Ordered
    <2>2. \A n : Kept(n)' <=> Kept(n)
      BY <1>5, <1>14 DEF Kept
    <2>3. Complete'
      BY <1>2, <1>9, <1>14, <2>2 DEF Complete, Healthy
    <2>4. StreamType'
      BY <1>1, <1>2, <1>5, <1>6, <1>14 DEF StreamType, TypeOK
    <2> QED
      BY <1>8, <2>1, <2>3, <2>4 DEF StreamKept
  <1> QED
    BY <1>1, <1>12, <1>13, <1>14

\* The buffer is sent from its front.
LEMMA BufferSentKept ==
    ASSUME IInv, ~Locked, m_OutBuffer' = Rest(m_OutBuffer), ToKernel(m_OutBuffer),
           UNCHANGED <<closing_, msg_queue, headSent, encrypted, failed, dropped>>,
           netPc = "out", netPc' # "queue" \/ m_OutBuffer' = <<>>
    PROVE  StreamKept
  <1> DEFINE b == m_OutBuffer
             S == 1..MaxBytes
  <1>1. TypeOK /\ Ordered /\ Complete /\ b \in Seq(S) /\ wire \in Seq(S) /\ S \in SUBSET Nat
    BY DEF IInv, TypeOK
  <1>2. InOrder(b) /\ InOrder(wire) /\ Before(wire, b)
    BY <1>1 DEF Ordered
  <1>3. /\ Sendable(b) \in 0..Len(b) /\ unread + Sendable(b) \in 0..KernelSize
        /\ Sent(b) \in Seq(S) /\ Rest(b) \in Seq(S) /\ Len(Rest(b)) = Len(b) - Sendable(b)
        /\ Range(b) = Range(Sent(b)) \cup Range(Rest(b))
        /\ InOrder(Sent(b)) /\ InOrder(Rest(b)) /\ Before(Sent(b), Rest(b))
    BY <1>1, <1>2, SentAndRest
  <1>4. wire' = wire \o Sent(b) /\ unread' = unread + Sendable(b)
    BY DEF ToKernel
  <1>5. Before(wire, Sent(b)) /\ Before(wire, Rest(b))
    BY <1>2, <1>3, BeforeParts
  <1>6. wire' \in Seq(S) /\ Range(wire') = Range(wire) \cup Range(Sent(b)) /\ InOrder(wire')
    BY <1>1, <1>2, <1>3, <1>4, <1>5, JoinedBlocks
  <1> HIDE DEF b, S
  <1>7. Before(wire', Rest(b))
    BY <1>3, <1>5, <1>6 DEF Before
  <1>8. \A k \in DOMAIN msg_queue : Before(wire', msg_queue[k]) /\ Before(Rest(b), msg_queue[k])
    BY <1>1, <1>3, <1>6 DEF Ordered, Before, b
  <1>9. Ordered'
    BY <1>1, <1>3, <1>6, <1>7, <1>8 DEF Ordered, b
  <1>10. \A n : Kept(n)' <=> Kept(n)
    BY <1>3, <1>6 DEF Kept, b
  <1>11. Complete'
    BY <1>1, <1>10 DEF Complete, Healthy
  <1>12. Len(Rest(b)) <= OutBufferSize
    BY <1>1, <1>3, OutputAssumption, SMTT(20) DEF TypeOK, b
  <1>13. StreamType'
    BY <1>1, <1>3, <1>4, <1>6, <1>12 DEF StreamType, TypeOK, b, S
  <1>14. BufferFirst'
    BY DEF BufferFirst
  <1> QED
    BY <1>9, <1>11, <1>13, <1>14 DEF StreamKept

\* Bytes of the head of the queue go to the wire; what comes after the head stays.
LEMMA HeadLeaves ==
    ASSUME IInv, msg_queue # <<>>, m_OutBuffer = <<>>, UNCHANGED m_OutBuffer,
           InOrder(wire'), Range(wire) \subseteq Range(wire'),
           Range(wire') \subseteq Range(wire) \cup Range(Head(msg_queue)),
           msg_queue' = Tail(msg_queue)
    PROVE  /\ Ordered'
           /\ \A n : Kept(n)' => Kept(n)
           /\ \A n : Kept(n) => Kept(n)' \/ n \in Range(Head(msg_queue))
  <1> DEFINE h == Head(msg_queue)
             q == Len(msg_queue)
  <1>1. TypeOK /\ Ordered /\ Complete
    BY DEF IInv
  <1>2. /\ h = msg_queue[1] /\ 1 \in DOMAIN msg_queue
        /\ q \in Nat \ {0} /\ DOMAIN msg_queue = 1..q
        /\ DOMAIN msg_queue' = 1..(q - 1)
        /\ \A k \in 1..(q - 1) : msg_queue'[k] = msg_queue[k + 1]
    BY <1>1, ShortQueue
  <1> HIDE DEF h, q
  <1>3. \A k \in 1..(q - 1) : k + 1 \in 1..q /\ 1 < k + 1
    BY <1>2
  <1>4. ASSUME NEW k \in 1..(q - 1)
        PROVE  InOrder(msg_queue'[k]) /\ Before(wire', msg_queue'[k])
    <2>1. /\ InOrder(msg_queue[k + 1]) /\ Before(wire, msg_queue[k + 1])
          /\ Before(h, msg_queue[k + 1])
      BY <1>1, <1>2, <1>3 DEF Ordered
    <2> QED
      BY <1>2, <2>1 DEF Before, h
  <1>5. ASSUME NEW k \in 1..(q - 1), NEW l \in 1..(q - 1), k < l
        PROVE  Before(msg_queue'[k], msg_queue'[l])
    <2>1. k + 1 < l + 1
      BY <1>2, <1>5
    <2> QED
      BY <1>1, <1>2, <1>3, <2>1 DEF Ordered
  <1>6. Range(m_OutBuffer) = {}
    BY DEF Range
  <1>7. Ordered'
    BY <1>1, <1>2, <1>4, <1>5, <1>6 DEF Ordered, Before
  <1>8. \A n : Kept(n)' => Kept(n)
    <2>1. ASSUME NEW n, NEW k \in 1..(q - 1), n \in Range(msg_queue'[k])
          PROVE  \E l \in 1..q : n \in Range(msg_queue[l])
      BY <1>2, <1>3, <2>1
    <2>2. \A n : n \in Range(wire') => Kept(n)
      BY <1>2 DEF Kept, h
    <2> QED
      BY <1>2, <2>1, <2>2 DEF Kept
  <1>9. ASSUME NEW n, Kept(n), n \notin Range(h) PROVE Kept(n)'
    <2>1. ASSUME NEW l \in 1..q, n \in Range(msg_queue[l])
          PROVE  \E k \in 1..(q - 1) : n \in Range(msg_queue'[k])
      <3>1. l # 1
        BY <1>2, <1>9, <2>1
      <3>2. l - 1 \in 1..(q - 1) /\ (l - 1) + 1 = l
        BY <1>2, <3>1
      <3> QED
        BY <1>2, <2>1, <3>2
    <2> QED
      BY <1>2, <1>9, <2>1 DEF Kept
  <1> QED
    BY <1>7, <1>8, <1>9 DEF h

\* The head is put back, with what was not sent of it.
LEMMA HeadShrinks ==
    ASSUME IInv, msg_queue # <<>>, m_OutBuffer = <<>>, UNCHANGED m_OutBuffer,
           InOrder(wire'), Range(wire) \subseteq Range(wire'),
           Range(wire') \subseteq Range(wire) \cup Range(Head(msg_queue)),
           NEW b \in Seq(1..MaxBytes), b # <<>>, msg_queue' = PutBack(b, Tail(msg_queue)),
           InOrder(b), Before(wire', b), Range(b) \subseteq Range(Head(msg_queue))
    PROVE  /\ Ordered'
           /\ \A n : Kept(n)' => Kept(n)
           /\ \A n : Kept(n) => Kept(n)' \/ n \in Range(Head(msg_queue)) \ Range(b)
  <1> DEFINE h == Head(msg_queue)
             q == Len(msg_queue)
  <1>1. TypeOK /\ Ordered /\ Complete
    BY DEF IInv
  <1>2. h = msg_queue[1] /\ 1 \in 1..q /\ q \in Nat \ {0} /\ DOMAIN msg_queue = 1..q
    BY <1>1, ShortQueue
  <1> HIDE DEF h, q
  <1>3. /\ DOMAIN msg_queue' = 1..q /\ msg_queue'[1] = b
        /\ \A k \in 1..q \ {1} : msg_queue'[k] = msg_queue[k] /\ 1 < k
    <2>1. /\ DOMAIN msg_queue' = DOMAIN msg_queue /\ msg_queue'[1] = b
          /\ \A k \in DOMAIN msg_queue \ {1} : msg_queue'[k] = msg_queue[k]
      BY <1>1, ReplacedHead
    <2>2. \A k \in 1..q \ {1} : 1 < k
      BY <1>2
    <2> QED
      BY <1>2, <2>1, <2>2
  <1>4. \A k \in 1..q : Range(msg_queue'[k]) \subseteq Range(msg_queue[k]) /\ InOrder(msg_queue'[k])
    BY <1>1, <1>2, <1>3 DEF Ordered, h
  <1>5. \A k \in 1..q : Before(wire', msg_queue'[k])
    <2>1. ASSUME NEW k \in 1..q \ {1} PROVE Before(wire', msg_queue'[k])
      <3>1. Before(wire, msg_queue[k]) /\ Before(h, msg_queue[k])
        BY <1>1, <1>2, <1>3 DEF Ordered
      <3> QED
        BY <1>3, <3>1 DEF Before, h
    <2> QED
      BY <1>3, <2>1
  <1>6. \A k, l \in 1..q : k < l => Before(msg_queue'[k], msg_queue'[l])
    BY <1>1, <1>2, <1>4, BeforeParts DEF Ordered
  <1>7. Range(m_OutBuffer) = {}
    BY DEF Range
  <1>8. Ordered'
    <2>1. InOrder(m_OutBuffer)'
      BY <1>1 DEF Ordered
    <2>2. Before(wire, m_OutBuffer)' /\ (\A k \in DOMAIN msg_queue : Before(m_OutBuffer, msg_queue[k]))'
      BY <1>7 DEF Before
    <2>3. \A k \in DOMAIN msg_queue' :
             /\ InOrder(msg_queue'[k])
             /\ Before(wire', msg_queue'[k]) /\ Before(m_OutBuffer', msg_queue'[k])
      BY <1>3, <1>4, <1>5, <2>2
    <2>4. \A k, l \in DOMAIN msg_queue' : k < l => Before(msg_queue'[k], msg_queue'[l])
      BY <1>3, <1>6
    <2> QED
      BY <2>1, <2>2, <2>3, <2>4 DEF Ordered
  <1>9. \A n : Kept(n)' => Kept(n)
    <2>1. \A n : n \in Range(wire') => Kept(n)
      BY <1>2 DEF Kept, h
    <2> QED
      BY <1>2, <1>3, <1>4, <2>1 DEF Kept
  <1>10. ASSUME NEW n, Kept(n), n \notin Range(h) \ Range(b) PROVE Kept(n)'
    <2>1. ASSUME NEW l \in 1..q, n \in Range(msg_queue[l])
          PROVE  \E k \in 1..q : n \in Range(msg_queue'[k])
      <3>1. CASE l = 1
        BY <1>2, <1>3, <1>10, <2>1, <3>1
      <3>2. CASE l # 1
        BY <1>3, <2>1, <3>2
      <3> QED
        BY <3>1, <3>2
    <2> QED
      BY <1>2, <1>3, <1>10, <2>1 DEF Kept
  <1> QED
    BY <1>8, <1>9, <1>10 DEF h

\* Nothing of the stream is touched.
LEMMA StreamUntouched ==
    ASSUME IInv, UNCHANGED <<outVars, wire>>, unread' \in 0..KernelSize,
           netPc' = "queue" => netPc = "queue",
           Healthy' => Healthy
    PROVE  StreamKept
  <1>1. TypeOK /\ BufferFirst /\ Ordered /\ Complete
    BY DEF IInv
  <1>2. UNCHANGED <<m_OutBuffer, msg_queue, headSent, encrypted, failed, dropped, wire>>
    BY DEF outVars
  <1>3. Ordered'
    BY <1>1, <1>2 DEF Ordered
  <1>4. \A n : Kept(n)' <=> Kept(n)
    BY <1>2 DEF Kept
  <1>5. Complete'
    BY <1>1, <1>2, <1>4 DEF Complete
  <1>6. StreamType' /\ BufferFirst'
    BY <1>1, <1>2 DEF StreamType, TypeOK, BufferFirst
  <1> QED
    BY <1>3, <1>5, <1>6 DEF StreamKept

\* handle_output_queue sends the head of the queue, as far as the kernel takes it.
LEMMA QueueSentKept ==
    ASSUME IInv, handle_output_queue
    PROVE  StreamKept
  <1> DEFINE h == Head(msg_queue)
             S == 1..MaxBytes
  <1>1. TypeOK /\ Ordered /\ Complete /\ netPc = "queue" /\ m_OutBuffer = <<>>
    BY DEF IInv, BufferFirst, handle_output_queue
  <1>2. UNCHANGED <<closing_, m_OutBuffer, encrypted, failed>>
    BY DEF handle_output_queue
  <1>3. CASE msg_queue = <<>>
    <2>1. UNCHANGED <<msg_queue, headSent, wire, unread, dropped>> /\ netPc' \in {"cancel", "idle"}
      BY <1>3 DEF handle_output_queue, cancel_wakeup_output
    <2>2. unread' \in 0..KernelSize
      BY <1>1, <2>1 DEF TypeOK
    <2> QED
      BY <1>1, <1>2, <2>1, <2>2, StreamUntouched DEF outVars, Healthy
  <1>4. CASE msg_queue # <<>>
    <2>1. h = msg_queue[1] /\ h \in Seq(S) /\ h # <<>> /\ 1 \in DOMAIN msg_queue
          /\ Tail(msg_queue) \in Seq(Seq(S) \ {<<>>})
      BY <1>1, <1>4, ShortQueue
    <2>2. InOrder(h) /\ Before(wire, h) /\ InOrder(wire)
      BY <1>1, <2>1 DEF Ordered
    <2>3. wire \in Seq(S) /\ S \in SUBSET Nat
      BY <1>1 DEF TypeOK
    <2>4. /\ Sendable(h) \in 0..Len(h) /\ unread + Sendable(h) \in 0..KernelSize
          /\ Sent(h) \in Seq(S) /\ Rest(h) \in Seq(S)
          /\ Len(Rest(h)) = Len(h) - Sendable(h)
          /\ Range(h) = Range(Sent(h)) \cup Range(Rest(h))
          /\ InOrder(Sent(h)) /\ InOrder(Rest(h)) /\ Before(Sent(h), Rest(h))
      BY <1>1, <2>1, <2>2, SentAndRest
    <2>5. /\ wire' = wire \o Sent(h) /\ unread' = unread + Sendable(h) /\ netPc' # "queue"
          /\ \/ /\ Sendable(h) = 0 /\ msg_queue' = PutBack(h, Tail(msg_queue))
                /\ dropped' = dropped
             \/ /\ Sendable(h) = 0 /\ msg_queue' = Tail(msg_queue) /\ dropped' = TRUE
             \/ /\ Sendable(h) < Len(h) /\ msg_queue' = PutBack(Rest(h), Tail(msg_queue))
                /\ dropped' = dropped
             \/ /\ msg_queue' = Tail(msg_queue) /\ netPc' = "fail" /\ dropped' = dropped
             \/ /\ Sendable(h) = Len(h) /\ msg_queue' = Tail(msg_queue) /\ dropped' = dropped
      BY <1>4 DEF handle_output_queue, ToKernel, schedule_wakeup_output, cancel_wakeup_output
    <2>6. Before(wire, Sent(h)) /\ Before(wire, Rest(h))
      BY <2>2, <2>4, BeforeParts
    <2>7. wire' \in Seq(S) /\ Range(wire') = Range(wire) \cup Range(Sent(h)) /\ InOrder(wire')
      BY <2>2, <2>3, <2>4, <2>5, <2>6, JoinedBlocks
    <2>8. Range(wire) \subseteq Range(wire') /\ Range(wire') \subseteq Range(wire) \cup Range(h)
      BY <2>4, <2>7
    <2>9. Sendable(h) = 0 => Range(Sent(h)) = {}
      BY <2>1 DEF Sent, Range
    <2>10. Sendable(h) = Len(h) => Range(Rest(h)) = {}
      <3>1. Len(Rest(h)) = 0 => Rest(h) = <<>>
        BY <2>4
      <3>2. Range(<<>>) = {}
        BY DEF Range
      <3> QED
        BY <2>1, <2>4, <3>1, <3>2
    <2>11. Sendable(h) < Len(h) => Rest(h) # <<>>
      BY <2>1, <2>4
    <2>12. Healthy' => Healthy
      BY <1>1, <1>2 DEF Healthy
    <2>13. BufferFirst'
      BY <2>5 DEF BufferFirst
    <2>14. {failed', dropped'} \subseteq BOOLEAN /\ headSent' \in Nat
      <3>1. headSent' \in {headSent, 0, headSent + Sendable(h)}
        BY <1>4 DEF handle_output_queue
      <3>2. headSent \in Nat /\ Sendable(h) \in Nat
        BY <1>1, <2>1, <2>4 DEF TypeOK
      <3>3. {failed', dropped'} \subseteq BOOLEAN
        BY <1>1, <1>2, <2>5 DEF TypeOK
      <3> QED
        BY <3>1, <3>2, <3>3
    <2>15. ASSUME msg_queue' \in Seq(Seq(S) \ {<<>>}) PROVE StreamType'
      BY <1>1, <1>2, <2>4, <2>5, <2>7, <2>14, <2>15 DEF StreamType, TypeOK
    <2>16. ASSUME \A n : Kept(n)' => Kept(n),
                  Healthy' /\ ~dropped' => ~dropped /\ \A n : Kept(n) => Kept(n)'
           PROVE  Complete'
      BY <1>1, <1>2, <2>12, <2>16 DEF Complete
    <2>17. \A n : n \in Range(wire') => Kept(n)'
      BY DEF Kept
    <2>18. CASE Sendable(h) = 0 /\ msg_queue' = PutBack(h, Tail(msg_queue)) /\ dropped' = dropped
      <3>1. Before(wire', h)
        BY <2>2, <2>7, <2>9, <2>18 DEF Before
      <3>2. /\ Ordered' /\ \A n : Kept(n)' => Kept(n)
            /\ \A n : Kept(n) => Kept(n)' \/ n \in Range(h) \ Range(h)
        BY <1>1, <1>2, <1>4, <2>1, <2>2, <2>7, <2>8, <2>18, <3>1, HeadShrinks
      <3>3. msg_queue' \in Seq(Seq(S) \ {<<>>})
        BY <1>1, <1>4, <2>1, <2>18, ReplacedHead
      <3>4. Complete'
        BY <2>16, <2>18, <3>2
      <3> QED
        BY <2>13, <2>15, <3>2, <3>3, <3>4 DEF StreamKept
    <2>19. CASE Sendable(h) < Len(h) /\ msg_queue' = PutBack(Rest(h), Tail(msg_queue)) /\ dropped' = dropped
      <3>1. Before(wire', Rest(h))
        BY <2>4, <2>6, <2>7 DEF Before
      <3>2. /\ Ordered' /\ \A n : Kept(n)' => Kept(n)
            /\ \A n : Kept(n) => Kept(n)' \/ n \in Range(h) \ Range(Rest(h))
        BY <1>1, <1>2, <1>4, <2>4, <2>7, <2>8, <2>11, <2>19, <3>1, HeadShrinks
      <3>3. msg_queue' \in Seq(Seq(S) \ {<<>>})
        BY <1>1, <1>4, <2>4, <2>11, <2>19, ReplacedHead
      <3>4. \A n : Kept(n) => Kept(n)'
        BY <2>4, <2>7, <2>17, <3>2
      <3>5. Complete'
        BY <2>16, <2>19, <3>2, <3>4
      <3> QED
        BY <2>13, <2>15, <3>2, <3>3, <3>5 DEF StreamKept
    <2>20. CASE /\ msg_queue' = Tail(msg_queue)
                /\ \/ dropped' = TRUE
                   \/ netPc' = "fail" /\ dropped' = dropped
                   \/ Sendable(h) = Len(h) /\ dropped' = dropped
      <3>1. /\ Ordered' /\ \A n : Kept(n)' => Kept(n)
            /\ \A n : Kept(n) => Kept(n)' \/ n \in Range(h)
        BY <1>1, <1>2, <1>4, <2>7, <2>8, <2>20, HeadLeaves
      <3>2. Sendable(h) = Len(h) => \A n : Kept(n) => Kept(n)'
        BY <2>4, <2>7, <2>10, <2>17, <3>1
      <3>3. Complete'
        BY <2>16, <2>20, <3>1, <3>2 DEF Healthy
      <3> QED
        BY <2>1, <2>13, <2>15, <2>20, <3>1, <3>3 DEF StreamKept
    <2> QED
      BY <2>5, <2>18, <2>19, <2>20
  <1> QED
    BY <1>3, <1>4

\* After an error of send() the block that was being sent is gone, and the socket
\* is about to be closed.
LEMMA NetErrorKept ==
    ASSUME IInv, NetError
    PROVE  StreamKept
  <1>1. /\ netPc' = "fail" /\ UNCHANGED <<closing_, m_OutBuffer, encrypted, failed, dropped, wire, unread>>
        /\ netPc = "queue" => msg_queue' = Tail(msg_queue) /\ headSent' = 0 /\ msg_queue # <<>>
        /\ netPc # "queue" => UNCHANGED <<msg_queue, headSent>>
    BY DEF NetError, peerVars
  <1>2. TypeOK /\ Ordered /\ Complete /\ BufferFirst
    BY DEF IInv
  <1>3. CASE netPc = "queue"
    <2>1. /\ Ordered' /\ \A n : Kept(n)' => Kept(n)
      BY <1>1, <1>2, <1>3, HeadLeaves DEF Ordered, BufferFirst
    <2>2. Complete'
      BY <1>1, <1>2, <2>1 DEF Complete, Healthy
    <2>3. Tail(msg_queue) \in Seq(Seq(1..MaxBytes) \ {<<>>})
      BY <1>1, <1>2, <1>3, ShortQueue
    <2>4. UNCHANGED <<m_OutBuffer, encrypted, failed, dropped, wire, unread>>
      BY <1>1
    <2>5. msg_queue' \in Seq(Seq(1..MaxBytes) \ {<<>>}) /\ headSent' \in Nat
      <3>1. msg_queue' = Tail(msg_queue) /\ headSent' = 0
        BY <1>1, <1>3
      <3>2. msg_queue' \in Seq(Seq(1..MaxBytes) \ {<<>>})
        BY <2>3, <3>1, Zenon
      <3> QED
        BY <3>1, <3>2
    <2>6. StreamType'
      BY <1>2, <2>4, <2>5 DEF StreamType, TypeOK
    <2>7. BufferFirst'
      BY <1>1 DEF BufferFirst
    <2> QED
      BY <2>1, <2>2, <2>6, <2>7 DEF StreamKept
  <1>4. CASE netPc # "queue"
    <2>1. unread' \in 0..KernelSize
      BY <1>1, <1>2 DEF TypeOK
    <2> QED
      BY <1>1, <1>4, <2>1, StreamUntouched DEF outVars, Healthy
  <1> QED
    BY <1>3, <1>4

-----------------------------------------------------------------------------
(* Every step keeps the invariant.                                         *)

\* The type of the rest of the state.
ControlType ==
    /\ openPc \in {"new", "added", "allocated", "open", "failed"}
    /\ {closing_, m_OutActive, writeMask} \subseteq BOOLEAN
    /\ netPc \in NetStates

ControlKept == ControlType' /\ Registration'

\* The steps of the acceptor, in WorldSocket::open.
LEMMA OpenKeepsControl ==
    ASSUME IInv, OnSocketOpen \/ SendVerify \/ RegisterHandler \/ OpenFails
    PROVE  ControlKept
  <1>1. ControlType /\ Registration
    BY DEF IInv, TypeOK, ControlType
  <1>2. CASE OnSocketOpen
    BY <1>1, <1>2 DEF OnSocketOpen, ActiveWhileOpening, ControlKept, ControlType, Registration
  <1>3. CASE SendVerify
    <2>1. openPc = "added" /\ openPc' = "allocated" /\ UNCHANGED <<closing_, m_OutActive, writeMask, netPc>>
      BY <1>3 DEF SendVerify, regVars
    <2> QED
      BY <1>1, <2>1 DEF ControlKept, ControlType, Registration
  <1>4. CASE RegisterHandler
    <2>1. /\ openPc = "allocated" /\ openPc' = "open" /\ writeMask' = TRUE
          /\ UNCHANGED <<closing_, m_OutActive, netPc>>
      BY <1>4 DEF RegisterHandler
    <2> QED
      BY <1>1, <2>1 DEF ControlKept, ControlType, Registration
  <1>5. CASE OpenFails
    <2>1. /\ openPc \in {"new", "added", "allocated"} /\ openPc' = "failed" /\ closing_' = TRUE
          /\ UNCHANGED <<m_OutActive, writeMask, netPc>>
      BY <1>5 DEF OpenFails, regVars
    <2> QED
      BY <1>1, <2>1 DEF ControlKept, ControlType, Registration
  <1> QED
    BY <1>2, <1>3, <1>4, <1>5

\* The steps of the network thread that send nothing.
LEMMA NetKeepsControl ==
    ASSUME IInv, Update \/ Peek \/ WriteEvent \/ WakeupCall \/ NetClose \/ NetError
    PROVE  ControlKept
  <1>1. ControlType /\ Registration
    BY DEF IInv, TypeOK, ControlType
  <1> USE DEF ControlKept, ControlType, Registration, NetStates, regVars
  <1>2. CASE Update
    BY <1>1, <1>2 DEF Update
  <1>3. CASE Peek
    BY <1>1, <1>3 DEF Peek
  <1>4. CASE WriteEvent
    BY <1>1, <1>4 DEF WriteEvent
  <1>5. CASE WakeupCall
    BY <1>1, <1>5 DEF WakeupCall
  <1>6. CASE NetClose
    BY <1>1, <1>6 DEF NetClose
  <1>7. CASE NetError
    BY <1>1, <1>7 DEF NetError
  <1> QED
    BY <1>2, <1>3, <1>4, <1>5, <1>6, <1>7

\* The steps of the network thread that send.
LEMMA OutputKeepsControl ==
    ASSUME IInv, handle_output \/ handle_output_queue
    PROVE  ControlKept
  <1>1. ControlType /\ Registration
    BY DEF IInv, TypeOK, ControlType
  <1>2. /\ netPc \in {"out", "queue"} /\ UNCHANGED <<openPc, closing_, writeMask>>
        /\ \/ netPc' \in {"fail", "queue", "out"} /\ UNCHANGED m_OutActive
           \/ schedule_wakeup_output
           \/ cancel_wakeup_output
    BY DEF handle_output, handle_output_queue
  <1> USE DEF ControlKept, ControlType, Registration, NetStates
  <1>6. openPc = "open" /\ m_OutActive = writeMask /\ m_OutActive \in BOOLEAN
    BY <1>1, <1>2
  <1>3. CASE netPc' \in {"fail", "queue", "out"} /\ UNCHANGED m_OutActive
    BY <1>1, <1>2, <1>3
  <1>4. CASE schedule_wakeup_output
    <2>1. m_OutActive' = TRUE /\ \/ m_OutActive /\ netPc' = "idle"
                                 \/ ~m_OutActive /\ netPc' = "schedule"
      BY <1>4, <1>6 DEF schedule_wakeup_output
    <2> QED
      BY <1>1, <1>2, <1>6, <2>1
  <1>5. CASE cancel_wakeup_output
    <2>1. m_OutActive' = FALSE /\ \/ m_OutActive /\ netPc' = "cancel"
                                  \/ ~m_OutActive /\ netPc' = "idle"
      BY <1>5, <1>6 DEF cancel_wakeup_output
    <2> QED
      BY <1>1, <1>2, <1>6, <2>1
  <1> QED
    BY <1>2, <1>3, <1>4, <1>5

\* The steps of the other threads and of the peer.
LEMMA OthersKeepControl ==
    ASSUME IInv, UNCHANGED <<openPc, m_OutActive, writeMask, netPc>>,
           closing_' = closing_ \/ closing_' = TRUE
    PROVE  ControlKept
  <1>1. ControlType /\ Registration
    BY DEF IInv, TypeOK, ControlType
  <1> QED
    BY <1>1 DEF ControlKept, ControlType, Registration

\* Every step of the socket keeps the invariant.
LEMMA NextKeepsIInv ==
    ASSUME IInv, [Next]_vars
    PROVE  IInv'
  <1>1. SUFFICES StreamKept /\ ControlKept
    BY <1>1 DEF StreamKept, ControlKept, StreamType, ControlType, IInv, TypeOK
  <1>2. TypeOK /\ unread \in 0..KernelSize
    BY DEF IInv, TypeOK
  <1>3. CASE OnSocketOpen \/ RegisterHandler \/ OpenFails
    <2>1. UNCHANGED <<outVars, peerVars, netPc>> /\ (closing_' = closing_ \/ closing_' = TRUE)
      BY <1>3 DEF OnSocketOpen, RegisterHandler, OpenFails
    <2>2. StreamKept
      BY <1>2, <2>1, StreamUntouched DEF outVars, peerVars, Healthy
    <2> QED
      BY <1>3, <2>2, OpenKeepsControl
  <1>4. CASE SendVerify
    <2>1. PICK size \in PacketSizes : SendPacket(size)
      BY <1>4 DEF SendVerify
    <2>2. UNCHANGED <<peerVars, closing_, netPc>>
      BY <1>4 DEF SendVerify
    <2>3. StreamKept
      BY <2>1, <2>2, SendPacketKept
    <2> QED
      BY <1>4, <2>3, OpenKeepsControl
  <1>5. ASSUME NEW size \in PacketSizes, SessionSendPacket(size) PROVE StreamKept /\ ControlKept
    <2>1. SendPacket(size) /\ UNCHANGED <<peerVars, closing_, netPc, openPc, m_OutActive, writeMask>>
      BY <1>5 DEF SessionSendPacket, regVars
    <2>2. StreamKept
      BY <2>1, SendPacketKept
    <2> QED
      BY <2>1, <2>2, OthersKeepControl
  <1>6. CASE Update \/ Peek \/ WriteEvent \/ WakeupCall \/ NetClose
    <2>1. UNCHANGED <<outVars, peerVars>> /\ (closing_' = closing_ \/ closing_' = TRUE) /\ netPc' # "queue"
      BY <1>6 DEF Update, Peek, WriteEvent, WakeupCall, NetClose
    <2>2. Healthy' => Healthy
      BY <1>6, <2>1 DEF Healthy, outVars, Update, Peek, WriteEvent, WakeupCall, NetClose
    <2>3. StreamKept
      BY <1>2, <2>1, <2>2, StreamUntouched DEF outVars, peerVars
    <2> QED
      BY <1>6, <2>3, NetKeepsControl
  <1>7. CASE handle_output
    <2>1. /\ netPc = "out" /\ UNCHANGED <<closing_, msg_queue, headSent, encrypted, failed, dropped>>
          /\ \/ netPc' = "fail" /\ UNCHANGED <<m_OutBuffer, wire, unread>>
             \/ /\ m_OutBuffer' = Rest(m_OutBuffer) /\ ToKernel(m_OutBuffer)
                /\ netPc' # "queue" \/ m_OutBuffer' = <<>>
      BY <1>7 DEF handle_output, schedule_wakeup_output
    <2>2. ASSUME netPc' = "fail", UNCHANGED <<m_OutBuffer, wire, unread>> PROVE StreamKept
      BY <1>2, <2>1, <2>2, StreamUntouched DEF outVars, Healthy
    <2>3. ASSUME m_OutBuffer' = Rest(m_OutBuffer), ToKernel(m_OutBuffer),
                 netPc' # "queue" \/ m_OutBuffer' = <<>>
          PROVE  StreamKept
      BY <2>1, <2>3, BufferSentKept DEF Locked
    <2>4. StreamKept
      BY <2>1, <2>2, <2>3
    <2> QED
      BY <1>7, <2>4, OutputKeepsControl
  <1>8. CASE handle_output_queue
    BY <1>8, QueueSentKept, OutputKeepsControl
  <1>9. CASE NetError
    BY <1>9, NetErrorKept, NetKeepsControl
  <1>10. CASE Kick \/ CloseAfterFailure
    <2>1. closing_' = TRUE /\ UNCHANGED <<openPc, m_OutActive, writeMask, outVars, wire, unread, netPc>>
      BY <1>10 DEF Kick, CloseAfterFailure, Close, regVars, peerVars
    <2>2. StreamKept
      BY <1>2, <2>1, StreamUntouched DEF Healthy
    <2> QED
      BY <2>1, <2>2, OthersKeepControl
  <1>11. CASE PeerRead
    <2>1. PICK n \in 1..unread : unread' = unread - n
      BY <1>11 DEF PeerRead
    <2>2. unread' \in 0..KernelSize
      BY <1>2, <2>1, OutputAssumption
    <2>3. UNCHANGED <<openPc, closing_, m_OutActive, writeMask, outVars, wire, netPc>>
      BY <1>11 DEF PeerRead, regVars
    <2>4. StreamKept
      BY <2>2, <2>3, StreamUntouched DEF outVars, Healthy
    <2> QED
      BY <2>3, <2>4, OthersKeepControl
  <1>12. CASE UNCHANGED vars
    <2>1. UNCHANGED <<openPc, closing_, m_OutActive, writeMask, outVars, wire, unread, netPc>>
      BY <1>12 DEF vars, regVars, peerVars
    <2>2. StreamKept
      BY <1>2, <2>1, StreamUntouched DEF outVars, Healthy
    <2> QED
      BY <2>1, <2>2, OthersKeepControl
  <1> QED
    BY <1>3, <1>4, <1>5, <1>6, <1>7, <1>8, <1>9, <1>10, <1>11, <1>12 DEF Next, NetStep, OpenStep

\* A socket that was just accepted has sent nothing.
LEMMA InitIInv == Init => IInv
  <1> SUFFICES ASSUME Init PROVE IInv
    OBVIOUS
  <1> USE OutputAssumption DEF Init
  <1>1. TypeOK
    <2>1. msg_queue \in Seq(Seq(1..MaxBytes) \ {<<>>})
      <3> DEFINE E == Seq(1..MaxBytes) \ {<<>>}
      <3> HIDE DEF E
      <3> QED
        BY DEF E
    <2>2. m_OutBuffer \in Seq(1..MaxBytes) /\ Len(m_OutBuffer) <= OutBufferSize /\ wire \in Seq(1..MaxBytes)
      OBVIOUS
    <2>3. unread \in 0..KernelSize /\ headSent \in Nat /\ encrypted \in 0..MaxBytes
      OBVIOUS
    <2>4. /\ openPc \in {"new", "added", "allocated", "open", "failed"}
          /\ {closing_, m_OutActive, writeMask, failed, dropped} \subseteq BOOLEAN
          /\ netPc \in NetStates
      BY DEF NetStates
    <2> QED
      BY ONLY <2>1, <2>2, <2>3, <2>4 DEF TypeOK
  <1>2. Registration /\ BufferFirst
    BY DEF Registration, BufferFirst
  <1>3. Ordered
    BY DEF Ordered, InOrder, Before, Range
  <1>4. Complete
    BY DEF Complete, Kept, Range
  <1> QED
    BY <1>1, <1>2, <1>3, <1>4 DEF IInv

-----------------------------------------------------------------------------
(* The theorems.                                                           *)

(***************************************************************************)
(* SendPacket, handle_output, handle_output_queue and the reactor's calls, *)
(* for any sizes of the packets and of the buffers: the inductive          *)
(* invariant holds in every state, a queue that is full included.          *)
(***************************************************************************)
THEOREM OutputInvariant == Spec => []IInv
  <1>1. IInv /\ [Next]_vars => IInv'
    BY NextKeepsIInv
  <1> QED
    BY <1>1, InitIInv, PTL DEF Spec

\* The blocks of the stream by their position.
LEMMA BlocksByPosition ==
    ASSUME TypeOK
    PROVE  /\ Len(msg_queue) \in Nat /\ DOMAIN msg_queue = 1..Len(msg_queue)
           /\ DOMAIN Blocks = 1..(2 + Len(msg_queue))
           /\ Blocks[1] = wire /\ Blocks[2] = m_OutBuffer
           /\ \A k \in 1..Len(msg_queue) : Blocks[2 + k] = msg_queue[k]
  <1> DEFINE E == Seq(1..MaxBytes)
  <1>1. <<wire, m_OutBuffer>> \in Seq(E) /\ msg_queue \in Seq(E \ {<<>>})
    BY DEF TypeOK
  <1> HIDE DEF E
  <1>2. Len(<<wire, m_OutBuffer>>) = 2
    OBVIOUS
  <1> QED
    BY <1>1, <1>2 DEF Blocks

(***************************************************************************)
(* The bytes reach the kernel in the order in which SendPacket encrypted   *)
(* them, and none is missing from wire, m_OutBuffer and msg_queue unless a *)
(* caller was told or handle_output_queue dropped a block.                 *)
(***************************************************************************)
THEOREM StreamStaysIntact == Spec => []StreamIntact
  <1>1. ASSUME IInv PROVE StreamIntact
    <2> DEFINE q == Len(msg_queue)
    <2>1. TypeOK /\ Ordered /\ Complete
      BY <1>1 DEF IInv
    <2>2. /\ q \in Nat /\ DOMAIN msg_queue = 1..q /\ DOMAIN Blocks = 1..(2 + q)
          /\ Blocks[1] = wire /\ Blocks[2] = m_OutBuffer
          /\ \A k \in 1..q : Blocks[2 + k] = msg_queue[k]
      BY <2>1, BlocksByPosition
    <2> HIDE DEF q
    <2>3. ASSUME NEW i \in 1..(2 + q), i # 1, i # 2
          PROVE  i - 2 \in 1..q /\ Blocks[i] = msg_queue[i - 2] /\ 2 + (i - 2) = i
      <3>1. i - 2 \in 1..q /\ 2 + (i - 2) = i
        BY <2>2, <2>3
      <3> QED
        BY <2>2, <3>1
    <2>4. \A i \in DOMAIN Blocks : InOrder(Blocks[i])
      BY <2>1, <2>2, <2>3 DEF Ordered
    <2>5. ASSUME NEW i \in 1..(2 + q), NEW j \in 1..(2 + q), i < j
          PROVE  Before(Blocks[i], Blocks[j])
      <3>1. CASE i = 1 /\ j = 2
        BY <2>1, <2>2, <3>1 DEF Ordered
      <3>2. CASE (i = 1 \/ i = 2) /\ j # 1 /\ j # 2
        BY <2>1, <2>2, <2>3, <3>2 DEF Ordered
      <3>3. CASE i # 1 /\ i # 2
        <4>1. j # 1 /\ j # 2 /\ i - 2 < j - 2
          BY <2>2, <2>5, <3>3
        <4>2. /\ i - 2 \in DOMAIN msg_queue /\ Blocks[i] = msg_queue[i - 2]
              /\ j - 2 \in DOMAIN msg_queue /\ Blocks[j] = msg_queue[j - 2]
          BY <2>2, <2>3, <3>3, <4>1
        <4> QED
          BY <2>1, <4>1, <4>2 DEF Ordered
      <3>4. j # 1 /\ (i = 2 => j # 2)
        BY <2>2, <2>5
      <3> QED
        BY <3>1, <3>2, <3>3, <3>4
    <2>6. \A n : n \in Held <=> Kept(n)
      <3>1. ASSUME NEW n, n \in Held PROVE Kept(n)
        <4>1. PICK i \in 1..(2 + q) : n \in Range(Blocks[i])
          BY <2>2, <3>1 DEF Held
        <4> QED
          BY <2>2, <2>3, <4>1 DEF Kept
      <3>2. ASSUME NEW n, Kept(n) PROVE n \in Held
        <4>1. 1 \in 1..(2 + q) /\ 2 \in 1..(2 + q) /\ \A k \in 1..q : 2 + k \in 1..(2 + q)
          BY <2>2
        <4>2. \E i \in DOMAIN Blocks : n \in Range(Blocks[i])
          BY <2>2, <3>2, <4>1 DEF Kept
        <4> QED
          BY <4>2 DEF Held
      <3> QED
        BY <3>1, <3>2
    <2>7. Healthy /\ ~dropped => Held = 1..encrypted
      BY <2>1, <2>6 DEF Complete
    <2> QED
      BY <2>2, <2>4, <2>5, <2>7 DEF StreamIntact
  <1> QED
    BY <1>1, OutputInvariant, PTL

(***************************************************************************)
(* m_OutActive tells whether the socket is registered for output, whenever *)
(* the network thread is done with schedule_wakeup_output and              *)
(* cancel_wakeup_output and nobody closed the socket.                      *)
(***************************************************************************)
THEOREM ActiveStaysRegistered == Spec => []ActiveIsRegistered
  <1>1. IInv => ActiveIsRegistered
    BY DEF IInv, Registration, ActiveIsRegistered
  <1> QED
    BY <1>1, OutputInvariant, PTL

(***************************************************************************)
(* The network thread does not use m_OutBuffer before WorldSocket::open    *)
(* has allocated it.                                                       *)
(***************************************************************************)
THEOREM BufferStaysPresent == Spec => []BufferPresent
  <1>1. IInv => BufferPresent
    BY DEF IInv, Registration, BufferPresent
  <1> QED
    BY <1>1, OutputInvariant, PTL

=============================================================================
