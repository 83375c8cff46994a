--------------------------- MODULE PacketSegment ---------------------------
(***************************************************************************)
(* Sending several audio packets in one datagram.  A Channel whose packet  *)
(* combining is on gives the packets of its RTPSender to an                *)
(* AudioDataCombiner instead of the transport; the combiner writes them    *)
(* into a segment under one RTP header and sends the segment when it is    *)
(* full, long enough, or when the next packet does not continue it.  A     *)
(* Channel whose separating is on cuts a segment back into packets with an *)
(* AudioDataSeparator and gives each to IncomingRTPPacket.  A segment      *)
(* holds one payload type and one sequence number for all its packets, and *)
(* a 16-bit timestamp offset for each.                                     *)
(*                                                                         *)
(* A packet is known by its place in sent.  The wire keeps datagrams in no *)
(* order and may lose them; sequence numbers and segment counters have the *)
(* width they have in the code.  Timestamps stay below 2^31.               *)
(***************************************************************************)
EXTENDS Integers, Sequences, FiniteSets

CONSTANTS PayloadTypes,  \* payload types of the encoder, 7 bits
          Sizes,         \* payload sizes in bytes
          Steps,         \* timestamp advances between packets
          FirstSeqs,     \* first sequence numbers of the RTPSender
          MaxPackets,    \* max_packet arguments of EnablePacketCombine
          MaxSent,       \* bound: packets sent
          MaxEmpty       \* bound: empty frames between two packets

VARIABLES sequenceNumber,  \* of the next packet of RTPSender
          timestamp,       \* of the last packet
          sent,            \* packets given to Channel::SendPacket
          enable,          \* Channel::_enablePacketCombine
          combiner,        \* *Channel::_dataCombinePtr
          wire,            \* datagrams on their way
          separate,        \* Channel::_enablePacketSeparate of the receiver
          delivered,       \* packets given to IncomingRTPPacket
          lost,            \* packets lost on the wire, refused or misread
          empties          \* empty frames since the last packet

segmentVars == <<sequenceNumber, timestamp, sent, enable, combiner, wire,
          separate, delivered, lost, empties>>

Bits16 == 65536
Bits8 == 256
IP_PACKET_SIZE == 1500
BufferSize == IP_PACKET_SIZE - 28
MaxDataSize == IP_PACKET_SIZE - 28 - 12
RtpHeader == 12
SegmentHdr == 4
MinLength == 12
MaxLength == 807

\* What RTPSenderAudio lets through fits a datagram.
ASSUME SegmentAssumption ==
  /\ PayloadTypes \subseteq 0 .. 127 /\ Sizes \subseteq 0 .. MaxDataSize
  /\ Steps \subseteq Nat /\ FirstSeqs \subseteq 0 .. Bits16 - 1
  /\ MaxPackets \subseteq Int

NULL == [kind |-> "null"]

SegmentInit == /\ sequenceNumber \in FirstSeqs
        /\ timestamp = 1
        /\ sent = <<>>
        /\ enable = FALSE
        /\ combiner = NULL
        /\ wire = {}
        /\ separate = FALSE
        /\ delivered = {}
        /\ lost = {}
        /\ empties = 0

-----------------------------------------------------------------------------
(* Variants of definitions below, each with one mistake, that the properties
   reject. *)

SeqJumps_Never(c, p) == FALSE
TooLong_PacketOnly(c, p) == p.len > MaxDataSize

-----------------------------------------------------------------------------
(* The combiner *)

NewCombiner(max) ==
  [kind |-> "combiner", latest_pt |-> 0, latest_seq |-> 0, begin_seq |-> 0,
   begin_ts |-> 0, parts |-> <<>>, wr_pos |-> 0, buffered |-> 0,
   max |-> IF max > 0 THEN max ELSE 5, new_segment |-> TRUE, seq |-> 0,
   wrapped |-> FALSE]  \* whether buffered has, since it was zero

MarkerBit(c, pt) == c.latest_pt # pt

Segment(c) ==
  [kind |-> "segment", pt |-> c.latest_pt, marker |-> MarkerBit(c, c.latest_pt),
   seq |-> c.seq, ts |-> c.begin_ts, begin_seq |-> c.begin_seq,
   parts |-> c.parts, size |-> c.wr_pos]

\* A combiner and the segments it has sent.
SendPacketToTransport(s) ==
  IF s.c.wr_pos = 0 THEN s
  ELSE [c |-> [s.c EXCEPT !.buffered = 0, !.wr_pos = 0, !.parts = <<>>,
                          !.new_segment = TRUE, !.seq = (@ + 1) % Bits16,
                          !.wrapped = FALSE],
        out |-> s.out \cup {Segment(s.c)}]

FlushIf(cond, s) == IF cond THEN SendPacketToTransport(s) ELSE s

Begun(c, p) == IF c.new_segment
               THEN [c EXCEPT !.begin_ts = p.ts, !.begin_seq = p.seq,
                              !.new_segment = FALSE]
               ELSE c

\* _buffered_packet is incremented: it has 8 bits.
CountBuffered(c) == [c EXCEPT !.buffered = (@ + 1) % Bits8,
                              !.wrapped = @ \/ c.buffered = Bits8 - 1]

PutData(c, p) ==
  LET b == CountBuffered(Begun(c, p))
  IN [b EXCEPT !.parts = Append(@, [delta |-> (p.ts - b.begin_ts) % Bits16,
                                    len |-> p.len, id |-> p.id]),
               !.wr_pos = @ + p.len + SegmentHdr,
               !.latest_pt = p.pt, !.latest_seq = p.seq]

TypeChanges(c, p) == c.latest_pt # 0 /\ c.latest_pt # p.pt
SeqJumps(c, p) == c.latest_seq # 0 /\ c.latest_seq # p.seq - 1
TooLong(c, p) == c.wr_pos + p.len > MaxDataSize
Full(c) == c.buffered >= c.max

SendPacket(c, p) ==
  LET s1 == FlushIf(TypeChanges(c, p), [c |-> c, out |-> {}])
      s2 == FlushIf(SeqJumps(s1.c, p), s1)
      s3 == FlushIf(TooLong(s2.c, p), s2)
      s4 == [s3 EXCEPT !.c = PutData(s3.c, p)]
  IN FlushIf(Full(s4.c), s4)

-----------------------------------------------------------------------------
(* The sending channel *)

Combining == enable /\ combiner # NULL

Packet(pt, len, step) ==
  [kind |-> "rtp", pt |-> pt, seq |-> sequenceNumber, ts |-> timestamp + step,
   len |-> len, id |-> Len(sent) + 1]

\* Channel::SendData, with the RTPSender's packetisation and
\* Channel::SendPacket inside.  SendPacket returns 0 when it combines, which
\* the RTPSender takes for an error, so that SendData fails and does not count
\* the packet a second time.
SendData(pt, len, step) ==
  /\ Len(sent) < MaxSent
  /\ LET p == Packet(pt, len, step)
         s == SendPacket(combiner, p)
     IN /\ sent' = Append(sent, p)
        /\ sequenceNumber' = (sequenceNumber + 1) % Bits16
        /\ timestamp' = p.ts
        /\ IF Combining
           THEN combiner' = s.c /\ wire' = wire \cup s.out
           ELSE wire' = wire \cup {p} /\ UNCHANGED combiner
  /\ empties' = 0
  /\ UNCHANGED <<enable, separate, delivered, lost>>

\* A frame the encoder left empty sends nothing and succeeds, and the channel
\* counts it in the combiner.
SendEmptyFrame ==
  /\ empties < MaxEmpty
  /\ empties' = empties + 1
  /\ combiner' = IF Combining THEN CountBuffered(combiner) ELSE combiner
  /\ UNCHANGED <<sequenceNumber, timestamp, sent, enable, wire, separate,
                 delivered, lost>>

EnablePacketCombine(on, max) ==
  /\ enable' = on
  /\ combiner' = IF combiner = NULL THEN NewCombiner(max) ELSE combiner
  /\ UNCHANGED <<sequenceNumber, timestamp, sent, wire, separate,
                 delivered, lost, empties>>

EnablePacketSeparate(on) ==
  /\ separate' = on
  /\ UNCHANGED <<sequenceNumber, timestamp, sent, enable, combiner, wire,
                 delivered, lost, empties>>

-----------------------------------------------------------------------------
(* The receiving channel *)

Ids(d) == IF d.kind = "rtp" THEN {d.id}
          ELSE {d.parts[i].id : i \in DOMAIN d.parts}

Length(d) == IF d.kind = "rtp" THEN RtpHeader + d.len
             ELSE RtpHeader + 2 + d.size

Arrived(id, pt, seq, ts) == [id |-> id, pt |-> pt, seq |-> seq, ts |-> ts]

SegmentSeq(d, n) == (d.begin_seq + n - 1) % Bits16

\* The packets of a segment.
Separated(d) == {Arrived(d.parts[i].id, d.pt, SegmentSeq(d, i),
                         d.ts + d.parts[i].delta) : i \in DOMAIN d.parts}

\* ReceivedRTPPacket passes the length of the datagram for that of its payload,
\* so that the separator reads on behind the segment and may make packets of what
\* it finds there, or in a datagram that holds no segment; packets nobody sent are
\* not followed here.
ParseSegmentPacket(d) ==
  IF d.kind = "segment"
  THEN delivered' = delivered \cup Separated(d) /\ UNCHANGED lost
  ELSE lost' = lost \cup Ids(d) /\ UNCHANGED delivered

\* A segment that is not separated is taken for one packet.
IncomingRTPPacket(d) ==
  IF d.kind = "rtp"
  THEN /\ delivered' = delivered \cup {Arrived(d.id, d.pt, d.seq, d.ts)}
       /\ UNCHANGED lost
  ELSE /\ lost' = lost \cup Ids(d)
       /\ UNCHANGED delivered

ReceivedRTPPacket(d) ==
  /\ Length(d) \in MinLength .. MaxLength
  /\ wire' = wire \ {d}
  /\ IF separate THEN ParseSegmentPacket(d) ELSE IncomingRTPPacket(d)
  /\ UNCHANGED <<sequenceNumber, timestamp, sent, enable, combiner,
                 separate, empties>>

\* The network loses a datagram or the length check refuses it.
Lose(d) ==
  /\ wire' = wire \ {d}
  /\ lost' = lost \cup Ids(d)
  /\ UNCHANGED <<sequenceNumber, timestamp, sent, enable, combiner,
                 separate, delivered, empties>>

SegmentNext ==
  \/ \E pt \in PayloadTypes, len \in Sizes, step \in Steps : SendData(pt, len, step)
  \/ SendEmptyFrame
  \/ \E on \in BOOLEAN, max \in MaxPackets : EnablePacketCombine(on, max)
  \/ \E on \in BOOLEAN : EnablePacketSeparate(on)
  \/ \E d \in wire : ReceivedRTPPacket(d) \/ Lose(d)

SegmentSpec == SegmentInit /\ [][SegmentNext]_segmentVars

-----------------------------------------------------------------------------
(* Properties *)

Held == IF combiner = NULL THEN {} ELSE {combiner.parts[i].id : i \in DOMAIN combiner.parts}

\* A packet that went through a segment comes out with the payload type and the
\* sequence number it was sent with, and with its timestamp up to the 16 bits of
\* the offset: SendPacket closes a segment before a packet of another type or out
\* of sequence.
HeadersKept ==
  \A a \in delivered :
    /\ a.pt = sent[a.id].pt
    /\ a.seq = sent[a.id].seq
    /\ (a.ts - sent[a.id].ts) % Bits16 = 0

Places(id) ==
  (IF id \in Held THEN {<<"held">>} ELSE {})
  \cup (IF id \in lost THEN {<<"lost">>} ELSE {})
  \cup {<<"wire", d>> : d \in {e \in wire : id \in Ids(e)}}
  \cup {<<"delivered", a>> : a \in {b \in delivered : b.id = id}}

\* Whatever is switched on and off, a packet is in one place: in the combiner's
\* buffer, in one datagram, delivered, or lost.  Flushing a segment neither drops
\* nor repeats a packet.
InOnePlace == \A id \in 1 .. Len(sent) : Cardinality(Places(id)) = 1

\* A segment fits its buffer, although the size check of SendPacket leaves out
\* the segment headers; and between calls the combiner keeps fewer packets than
\* the application allowed, the empty frames counted, as long as these do not
\* carry the 8-bit counter over.
FitsBuffer ==
  /\ combiner # NULL => combiner.wr_pos <= BufferSize
  /\ \A d \in wire : d.kind = "segment" => d.size <= BufferSize
  /\ combiner # NULL /\ ~combiner.wrapped => Len(combiner.parts) < combiner.max

\* Flushing, switching and sending keep each packet once, in a buffer it fits.
KeptOnceAndFits == InOnePlace /\ FitsBuffer
==============================================================================
