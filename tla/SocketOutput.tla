---------------------------- MODULE SocketOutput ----------------------------
(***************************************************************************)
(* The output side of one WorldSocket: SendPacket copies an encrypted      *)
(* packet to m_OutBuffer or appends it to msg_queue, and the network       *)
(* thread that owns the socket drains both, from Update or when the        *)
(* reactor reports that the peer can be written to.                        *)
(*                                                                         *)
(* Headers are encrypted with a stream cipher in the order of the calls of *)
(* SendPacket, so the client can read the stream only if it gets the       *)
(* packets in that order and without a gap.  A packet is the sequence of   *)
(* its bytes, and a byte is its number in the encrypted stream.            *)
(*                                                                         *)
(* m_OutBufferLock makes SendPacket, CloseSocket and handle_output atomic; *)
(* the network thread holds it in the state "queue" of netPc.              *)
(***************************************************************************)
EXTENDS Naturals, Sequences, SequencesExt

CONSTANTS
    PacketSizes,    \* the sizes of the packets that are sent
    OutBufferSize,  \* m_OutBufferSize
    HighWater,      \* high_water_mark of msg_queue
    KernelSize,     \* the send buffer of the connection
    MaxBytes        \* bound on the bytes encrypted

ASSUME OutputAssumption ==
    /\ PacketSizes \subseteq Nat \ {0}
    /\ {OutBufferSize, HighWater, KernelSize, MaxBytes} \subseteq Nat \ {0}

VARIABLES
    openPc,         \* the acceptor's progress in WorldSocket::open
    closing_,
    m_OutActive,
    writeMask,      \* is the socket registered with the reactor for output
    m_OutBuffer,
    msg_queue,
    headSent,       \* the bytes already sent of the block at its head
    wire,           \* the bytes given to the kernel
    unread,         \* how many of them the peer has not read
    encrypted,      \* the number of bytes the cipher has produced
    netPc,          \* what the network thread does with the socket
    failed,         \* a sender was refused and is about to call CloseSocket
    dropped         \* a block was lost and the caller told that all is well

outVars == <<m_OutBuffer, msg_queue, headSent, encrypted, failed, dropped>>
peerVars == <<wire, unread>>
regVars == <<m_OutActive, writeMask>>
vars == <<openPc, closing_, regVars, outVars, peerVars, netPc>>

NetStates == {"idle", "peek", "out", "queue", "schedule", "cancel", "fail", "closed"}

Locked == netPc = "queue"

-----------------------------------------------------------------------------
Init ==
    /\ openPc = "new"
    /\ closing_ = FALSE
    /\ m_OutActive = FALSE
    /\ writeMask = FALSE
    /\ m_OutBuffer = <<>>
    /\ msg_queue = <<>>
    /\ headSent = 0
    /\ wire = <<>>
    /\ unread = 0
    /\ encrypted = 0
    /\ netPc = "idle"
    /\ failed = FALSE
    /\ dropped = FALSE

-----------------------------------------------------------------------------
(* SendPacket and CloseSocket, by the world thread and the map threads.    *)

\* Mutant: a small packet overtakes the queue.
HasSpace(size) == OutBufferSize - Len(m_OutBuffer) >= size

FitsBuffer(size) == OutBufferSize - Len(m_OutBuffer) >= size /\ msg_queue = <<>>

\* message_bytes: a block counts with its whole size, also when it is partly sent.
QueuedBytes(q, sent) == Len(FlattenSeq(q)) + sent

\* is_full_i: the mark is compared before the new block is counted.
IsFull(q, sent) == QueuedBytes(q, sent) >= HighWater

\* The header is encrypted first: a packet that is then refused leaves a gap.
SendPacket(size) ==
    LET packet == [i \in 1..size |-> encrypted + i]
    IN  /\ ~Locked
        /\ ~closing_
        /\ UNCHANGED <<headSent, dropped>>
        /\ encrypted + size <= MaxBytes
        /\ encrypted' = encrypted + size
        /\ \/ /\ FitsBuffer(size)
              /\ m_OutBuffer' = m_OutBuffer \o packet
              /\ UNCHANGED <<msg_queue, failed>>
           \/ /\ ~FitsBuffer(size)
              /\ ~IsFull(msg_queue, headSent)
              /\ msg_queue' = Append(msg_queue, packet)
              /\ UNCHANGED <<m_OutBuffer, failed>>
           \/ /\ ~FitsBuffer(size)
              /\ IsFull(msg_queue, headSent)
              /\ failed' = TRUE
              /\ UNCHANGED <<m_OutBuffer, msg_queue>>

\* Packets of a session, which exists only after the socket is registered.
SessionSendPacket(size) ==
    /\ openPc = "open"
    /\ SendPacket(size)
    /\ UNCHANGED <<openPc, closing_, regVars, peerVars, netPc>>

Close ==
    /\ ~Locked
    /\ ~closing_
    /\ closing_' = TRUE
    /\ UNCHANGED <<openPc, regVars, outVars, peerVars, netPc>>

\* KickPlayer, or the idle timer of the session.
Kick == openPc = "open" /\ Close

\* WorldSession::SendPacket closes the socket when it is refused.
CloseAfterFailure == failed /\ Close

-----------------------------------------------------------------------------
(* WorldSocket::open, by the acceptor's thread.                            *)

\* Mutant: the socket may be updated while it is being opened.
NotActive == FALSE

ActiveWhileOpening == TRUE

\* OnSocketOpen hands the socket over to a network thread.
OnSocketOpen ==
    /\ openPc = "new"
    /\ m_OutActive' = ActiveWhileOpening
    /\ openPc' = "added"
    /\ UNCHANGED <<closing_, writeMask, outVars, peerVars, netPc>>

\* The buffer is allocated and the first packet sent.
SendVerify ==
    /\ openPc = "added"
    /\ \E size \in PacketSizes : SendPacket(size)
    /\ openPc' = "allocated"
    /\ UNCHANGED <<closing_, regVars, peerVars, netPc>>

RegisterHandler ==
    /\ openPc = "allocated"
    /\ ~failed
    /\ writeMask' = TRUE
    /\ openPc' = "open"
    /\ UNCHANGED <<closing_, m_OutActive, outVars, peerVars, netPc>>

\* WorldSocket::close, called when open returned -1; it takes no lock.
OpenFails ==
    /\ openPc \in {"new", "added", "allocated"}
    /\ openPc' = "failed"
    /\ closing_' = TRUE
    /\ UNCHANGED <<regVars, outVars, peerVars, netPc>>

-----------------------------------------------------------------------------
(* The network thread.                                                     *)

\* Update reads closing_ and m_OutActive without a lock.
Update ==
    /\ openPc # "new"
    /\ netPc = "idle"
    /\ \/ closing_ /\ netPc' = "closed"
       \/ ~closing_ /\ ~m_OutActive /\ netPc' = "peek"
    /\ UNCHANGED <<openPc, closing_, regVars, outVars, peerVars>>

Peek ==
    /\ netPc = "peek"
    /\ netPc' = IF m_OutBuffer = <<>> /\ msg_queue = <<>> THEN "idle" ELSE "out"
    /\ UNCHANGED <<openPc, closing_, regVars, outVars, peerVars>>

\* The reactor calls handle_output of a registered socket that can be written.
WriteEvent ==
    /\ netPc = "idle"
    /\ writeMask
    /\ unread < KernelSize
    /\ netPc' = "out"
    /\ UNCHANGED <<openPc, closing_, regVars, outVars, peerVars>>

\* What send() takes of a block; nothing means EWOULDBLOCK.
Sendable(block) == LET room == KernelSize - unread
                   IN  IF Len(block) < room THEN Len(block) ELSE room

Sent(block) == SubSeq(block, 1, Sendable(block))

Rest(block) == SubSeq(block, Sendable(block) + 1, Len(block))

ToKernel(block) ==
    /\ wire' = wire \o Sent(block)
    /\ unread' = unread + Sendable(block)

\* Mutant: the reactor is not asked to call again.
ForgetsWakeup ==
    /\ netPc' = "idle"
    /\ m_OutActive' = TRUE

schedule_wakeup_output ==
    /\ netPc' = IF m_OutActive THEN "idle" ELSE "schedule"
    /\ m_OutActive' = TRUE

\* Mutant: the socket stays registered for output.
StaysRegistered ==
    /\ netPc' = "idle"
    /\ m_OutActive' = FALSE

cancel_wakeup_output ==
    /\ netPc' = IF m_OutActive THEN "cancel" ELSE "idle"
    /\ m_OutActive' = FALSE

\* handle_output up to the end of its first send.
handle_output ==
    /\ netPc = "out"
    /\ \/ /\ closing_
          /\ netPc' = "fail"
          /\ UNCHANGED <<m_OutBuffer, wire, unread, m_OutActive>>
       \/ /\ ~closing_
          /\ m_OutBuffer' = Rest(m_OutBuffer)
          /\ ToKernel(m_OutBuffer)
          /\ IF Rest(m_OutBuffer) = <<>>
               THEN netPc' = "queue" /\ UNCHANGED m_OutActive
               ELSE schedule_wakeup_output
    /\ UNCHANGED <<openPc, closing_, writeMask, msg_queue, headSent, encrypted, failed, dropped>>

PutBack(block, q) == <<block>> \o q

\* The head of the queue is sent.  enqueue_head also fails when the queue is
\* full, and its result is ignored after an EWOULDBLOCK.
handle_output_queue ==
    /\ netPc = "queue"
    /\ \/ /\ msg_queue = <<>>
          /\ cancel_wakeup_output
          /\ UNCHANGED <<msg_queue, headSent, wire, unread, dropped>>
       \/ LET mblk == Head(msg_queue)
              others == Tail(msg_queue)
          IN  /\ msg_queue # <<>>
              /\ ToKernel(mblk)
              /\ \/ /\ Sendable(mblk) = 0
                    /\ ~IsFull(others, 0)
                    /\ msg_queue' = PutBack(mblk, others)
                    /\ schedule_wakeup_output
                    /\ UNCHANGED <<headSent, dropped>>
                 \/ /\ Sendable(mblk) = 0
                    /\ IsFull(others, 0)
                    /\ msg_queue' = others
                    /\ headSent' = 0
                    /\ schedule_wakeup_output
                    /\ dropped' = TRUE
                 \/ /\ 0 < Sendable(mblk) /\ Sendable(mblk) < Len(mblk)
                    /\ ~IsFull(others, 0)
                    /\ msg_queue' = PutBack(Rest(mblk), others)
                    /\ headSent' = headSent + Sendable(mblk)
                    /\ schedule_wakeup_output
                    /\ UNCHANGED dropped
                 \/ /\ 0 < Sendable(mblk) /\ Sendable(mblk) < Len(mblk)
                    /\ IsFull(others, 0)
                    /\ msg_queue' = others
                    /\ headSent' = 0
                    /\ netPc' = "fail"
                    /\ UNCHANGED <<m_OutActive, dropped>>
                 \/ /\ Sendable(mblk) = Len(mblk)
                    /\ msg_queue' = others
                    /\ headSent' = 0
                    /\ IF others = <<>>
                         THEN cancel_wakeup_output
                         ELSE netPc' = "out" /\ UNCHANGED m_OutActive
                    /\ UNCHANGED dropped
    /\ UNCHANGED <<openPc, closing_, writeMask, m_OutBuffer, encrypted, failed>>

\* The calls of the reactor, made after the lock was released.
WakeupCall ==
    /\ \/ netPc = "schedule" /\ writeMask' = TRUE
       \/ netPc = "cancel" /\ writeMask' = FALSE
    /\ netPc' = "idle"
    /\ UNCHANGED <<openPc, closing_, m_OutActive, outVars, peerVars>>

\* send() or the reactor returns an error, or handle_input finds the peer gone.
NetError ==
    /\ \/ netPc = "idle" /\ openPc = "open"
       \/ netPc = "out" /\ m_OutBuffer # <<>>
       \/ netPc = "queue" /\ msg_queue # <<>>
       \/ netPc \in {"schedule", "cancel"}
    /\ netPc' = "fail"
    /\ IF netPc = "queue"
         THEN msg_queue' = Tail(msg_queue) /\ headSent' = 0
         ELSE UNCHANGED <<msg_queue, headSent>>
    /\ UNCHANGED <<openPc, closing_, regVars, m_OutBuffer, encrypted, failed, dropped, peerVars>>

\* A handler returned -1: handle_close, or CloseSocket by the loop of svc.
NetClose ==
    /\ netPc = "fail"
    /\ closing_' = TRUE
    /\ writeMask' = FALSE
    /\ netPc' = "closed"
    /\ UNCHANGED <<openPc, m_OutActive, outVars, peerVars>>

\* The client reads.
PeerRead ==
    /\ unread > 0
    /\ \E n \in 1..unread : unread' = unread - n
    /\ UNCHANGED <<openPc, closing_, regVars, outVars, wire, netPc>>

-----------------------------------------------------------------------------
NetStep ==
    \/ Update
    \/ Peek
    \/ WriteEvent
    \/ handle_output
    \/ handle_output_queue
    \/ WakeupCall
    \/ NetClose

OpenStep == OnSocketOpen \/ SendVerify \/ RegisterHandler

Next ==
    \/ NetStep
    \/ OpenStep
    \/ OpenFails
    \/ NetError
    \/ \E size \in PacketSizes : SessionSendPacket(size)
    \/ Kick
    \/ CloseAfterFailure
    \/ PeerRead

Spec == Init /\ [][Next]_vars

(***************************************************************************)
(* ReactorRunnable::svc runs the reactor for 10 ms and then updates every  *)
(* socket, for ever: weak fairness of its steps.  The acceptor finishes    *)
(* open, and a refused sender calls CloseSocket.  Nothing is assumed of    *)
(* the peer.                                                               *)
(***************************************************************************)
FairSpec ==
    /\ Spec
    /\ WF_vars(NetStep)
    /\ WF_vars(OpenStep \/ OpenFails)
    /\ WF_vars(CloseAfterFailure)

-----------------------------------------------------------------------------
\* The type of the state: m_OutBuffer within m_OutBufferSize, no empty block in
\* the queue, and no more bytes in the kernel than it takes.
TypeOK ==
    /\ openPc \in {"new", "added", "allocated", "open", "failed"}
    /\ {closing_, m_OutActive, writeMask, failed, dropped} \subseteq BOOLEAN
    /\ m_OutBuffer \in Seq(1..MaxBytes)
    /\ Len(m_OutBuffer) <= OutBufferSize
    /\ msg_queue \in Seq(Seq(1..MaxBytes) \ {<<>>})
    /\ headSent \in Nat
    /\ wire \in Seq(1..MaxBytes)
    /\ unread \in 0..KernelSize
    /\ encrypted \in 0..MaxBytes
    /\ netPc \in NetStates

\* Where the bytes are, the oldest first.
Blocks == <<wire, m_OutBuffer>> \o msg_queue
Held == UNION {Range(Blocks[i]) : i \in DOMAIN Blocks}

InOrder(block) == \A i, j \in DOMAIN block : i < j => block[i] < block[j]
Before(block, later) == \A x \in Range(block), y \in Range(later) : x < y

Healthy == ~closing_ /\ ~failed /\ netPc # "fail"

(***************************************************************************)
(* The bytes reach the kernel in the order in which they were encrypted,   *)
(* also when the queue is full: a partly sent buffer, a partly sent block  *)
(* that is put back, and packets sent meanwhile never overtake.  As long   *)
(* as no failure was reported and no block was dropped, the wire, the      *)
(* buffer and the queue together hold the whole stream: every packet that  *)
(* SendPacket took is in one of them.                                      *)
(***************************************************************************)
StreamIntact ==
    /\ \A i \in DOMAIN Blocks : InOrder(Blocks[i])
    /\ \A i, j \in DOMAIN Blocks : i < j => Before(Blocks[i], Blocks[j])
    /\ Healthy /\ ~dropped => Held = 1..encrypted

(***************************************************************************)
(* m_OutActive is "True if the socket is registered with the reactor for   *)
(* output".  The registration follows m_OutActive outside of the lock; the *)
(* two agree whenever the network thread is done with the socket, so no    *)
(* wakeup is lost and none is left over.                                   *)
(***************************************************************************)
ActiveIsRegistered ==
    openPc = "open" /\ netPc = "idle" /\ ~closing_ => m_OutActive = writeMask

(***************************************************************************)
(* "This will also prevent the socket from being Updated while we are      *)
(* initializing it": the network thread, which may find the socket before  *)
(* open has allocated m_OutBuffer, does not use the buffer before.         *)
(***************************************************************************)
BufferPresent == netPc \in {"peek", "out", "queue"} => openPc \notin {"new", "added"}

(***************************************************************************)
(* A packet that was taken is sent, or the socket is closed, if the peer   *)
(* reads what it gets and no block was dropped: Update and the wakeups of  *)
(* the reactor together miss nothing, although SendPacket wakes nobody.    *)
(***************************************************************************)
EverythingSent ==
    ([]<>(unread = 0)) =>
        \A n \in 1..MaxBytes : (encrypted >= n) ~> (n \in Range(wire) \/ closing_ \/ dropped)
=============================================================================
