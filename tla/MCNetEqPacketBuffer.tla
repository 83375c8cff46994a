------------------------- MODULE MCNetEqPacketBuffer -------------------------
(* Packets of one payload each, in any order and as often as the network     *)
(* brings them, of lengths that leave gaps at the end of a memory that holds *)
(* two or three of them.                                                     *)
EXTENDS NetEqPacketBuffer

Packet(n, words) ==
  [timeStamp |-> (TimeWrap - FrameSamples + FrameSamples * n) % TimeWrap, seqNumber |-> n,
   chunks |-> <<words>>, rcuPlCntr |-> 0]

Arrivals == {<<Packet(0, 4)>>, <<Packet(1, 4)>>, <<Packet(2, 3)>>, <<Packet(3, 4)>>,
             <<Packet(4, 3)>>, <<Packet(5, 4)>>, <<Packet(6, 1)>>}
=============================================================================
