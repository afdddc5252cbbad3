--------------------------- MODULE MCSocketOutput --------------------------
EXTENDS SocketOutput

\* A packet that fits into the buffer next to another one, and one that does
\* not (OutBufferSize is the larger of the two).
MCPacketSizes == {1, OutBufferSize}
=============================================================================
