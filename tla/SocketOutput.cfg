\* The queue is full after one or two packets.
CONSTANTS
    PacketSizes <- MCPacketSizes
    OutBufferSize = 2
    HighWater = 2
    KernelSize = 2
    MaxBytes = 8
SPECIFICATION FairSpec
CHECK_DEADLOCK FALSE
INVARIANTS StreamIntact ActiveIsRegistered BufferPresent
PROPERTY EverythingSent
