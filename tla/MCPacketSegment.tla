--------------------------- MODULE MCPacketSegment ---------------------------
\* PacketSegment with a few packets and the sizes at which a segment is closed.
EXTENDS PacketSegment
=============================================================================
