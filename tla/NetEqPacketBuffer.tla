-------------------------- MODULE NetEqPacketBuffer --------------------------
(***************************************************************************)
(* The packet buffer of NetEQ (packet_buffer.c), filled by RecIn() with    *)
(* what the network brings and emptied by SignalMcu() for the decoder.     *)
(* Payloads lie one behind the other in one memory, used as a ring whose   *)
(* payloads are never cut; slots are given in turn, payloads are taken by  *)
(* their timestamp.  When either runs out the whole buffer is flushed.     *)
(*                                                                         *)
(* The audio coding module keeps its lock during a call of either: while   *)
(* one is under way the other does not begin.  The loops of both are a     *)
(* step for each piece of a payload.  Locations and sizes are in words of  *)
(* 16 bits.  Which of the ways to fill a gap BufstatsDecision() takes is   *)
(* left open, as are codecs, telephone events, comfort noise and the       *)
(* second descriptor of a codec that has one.                              *)
(***************************************************************************)
EXTENDS Integers, FiniteSets, SequencesExt

CONSTANTS maxInsertPositions, memorySizeW16,
          TimeWrap,      \* 2^32
          OldPacket,     \* 30000
          FrameSamples,  \* timestamps of a decoded payload
          WantedTimes,   \* wantedNoOfTimeStamps
          MediaPackets,  \* what arrives: sequences of one payload, or of two for RED
          MaxInserts,    \* bound: packets received
          MaxConcealed   \* bound: how far concealed audio runs ahead

Payloads == [timeStamp : Nat, seqNumber : Nat, rcuPlCntr : Nat, chunks : Seq(Nat) \ {<<>>}]

ASSUME BufferAssumption ==
  /\ maxInsertPositions \in Nat \ {0, 1} /\ memorySizeW16 \in Nat \ {0}
  /\ TimeWrap \in Nat /\ TimeWrap % 2 = 0 /\ OldPacket \in 1 .. TimeWrap \div 2
  /\ FrameSamples \in Nat \ {0} /\ WantedTimes \subseteq Nat
  /\ MediaPackets \subseteq Seq(Payloads) \ {<<>>}

VARIABLES packetBuffer, new_codec,
          receiving,     \* what RecIn() has yet to insert, Done outside it
          overtaken,     \* the memory was begun again past a payload that waited
          playedOutTS,   \* where the DSP's data ends
          decoding,      \* what the decoder's loop has taken, Idle outside it
          decodedTS,     \* the timestamp it took last
          received       \* packets received

bufferVars == <<packetBuffer, new_codec, receiving, overtaken, playedOutTS, decoding,
                decodedTS, received>>

Slots == 0 .. maxInsertPositions - 1
Free == [words |-> 0]
Idle == [frames |-> 0]
Done == [payloads |-> <<>>, chunk |-> 1, flushed |-> FALSE]

NoPackets == [slot |-> [i \in Slots |-> Free], numPacketsInBuffer |-> 0,
              currentMemoryPos |-> 0, insertPosition |-> 0]

BufferInit == /\ packetBuffer = NoPackets
              /\ receiving = Done /\ overtaken = FALSE
              /\ new_codec = TRUE /\ playedOutTS = 0
              /\ decoding = Idle /\ decodedTS = 0 /\ received = 0

-----------------------------------------------------------------------------
Taken(b) == {i \in Slots : b.slot[i].words > 0}
LowestLocation(b) ==
  CHOOSE i \in Taken(b) : \A j \in Taken(b) : b.slot[i].location <= b.slot[j].location

(* Variants with a mistake, see README.md. *)

NextTaken_Lowest(b, position) == LowestLocation(b)
TooOld_Unsigned(b, now) == {i \in Taken(b) : b.slot[i].timeStamp < now}

-----------------------------------------------------------------------------
(* WebRtcNetEQ_PacketBufferInsert() *)

(* The first slot behind a position that is taken, around the end.           *)
Distance(position, i) ==
  IF i > position THEN i - position - 1 ELSE i - position - 1 + maxInsertPositions

NextTaken(b, position) ==
  CHOOSE i \in Taken(b) : \A j \in Taken(b) : Distance(position, i) <= Distance(position, j)

NextPosition(b) ==
  IF b.insertPosition + 1 = maxInsertPositions THEN 0 ELSE b.insertPosition + 1

(* Where the next payload goes when nothing is in its way, and the payload   *)
(* that may be: the lowest one if there is no room up to the end of memory.  *)
FitsAtEnd(b, words) == b.currentMemoryPos + words < memorySizeW16

NextLocation(b, words) == IF FitsAtEnd(b, words) THEN b.currentMemoryPos ELSE 0

Neighbour(b, words) ==
  IF FitsAtEnd(b, words) THEN NextTaken(b, NextPosition(b)) ELSE LowestLocation(b)

InTheWay(b, words) ==
  LET location == NextLocation(b, words)
      waiting == b.slot[Neighbour(b, words)].location
  IN  \/ location <= waiting /\ location + words > waiting
      \/ NextPosition(b) \in Taken(b)

StoreAt(b, position, location, payload) ==
  [slot |-> [b.slot EXCEPT ![position] =
               [location |-> location, words |-> payload.words,
                timeStamp |-> payload.timeStamp, seqNumber |-> payload.seqNumber,
                rcuPlCntr |-> payload.rcuPlCntr]],
   numPacketsInBuffer |-> b.numPacketsInBuffer + 1,
   currentMemoryPos |-> location + payload.words, insertPosition |-> position]

Insert(b, payload) ==
  IF b.numPacketsInBuffer = 0 THEN StoreAt(b, 0, 0, payload)
  ELSE IF InTheWay(b, payload.words) THEN StoreAt(NoPackets, 0, 0, payload)
  ELSE StoreAt(b, NextPosition(b), NextLocation(b, payload.words), payload)

FlushesFor(b, payload) == b.numPacketsInBuffer # 0 /\ InTheWay(b, payload.words)

(* Beginning the memory again passes the payloads that lie behind the last   *)
(* one inserted: those of the lap before that are still waiting.             *)
Overtakes(b, payload) == /\ ~FitsAtEnd(b, payload.words)
                         /\ \E i \in Taken(b) : b.slot[i].location >= b.currentMemoryPos

OvertakenBy(b, payload) == /\ b.numPacketsInBuffer # 0 /\ ~InTheWay(b, payload.words)
                           /\ overtaken \/ Overtakes(b, payload)

-----------------------------------------------------------------------------
(* WebRtcNetEQ_RecInInternal() *)

NobodyInside == receiving = Done /\ decoding = Idle

(* A new source or another codec flushes the buffer first. *)
RecIn(packet, fresh) ==
  /\ NobodyInside /\ received < MaxInserts /\ received' = received + 1
  /\ receiving' = [Done EXCEPT !.payloads = packet]
  /\ packetBuffer' = IF fresh THEN NoPackets ELSE packetBuffer
  /\ overtaken' = (overtaken /\ ~fresh)
  /\ new_codec' = (new_codec \/ fresh)
  /\ UNCHANGED <<playedOutTS, decoding, decodedTS>>

(* The payloads of a packet are cut into chunks, each inserted on its own; a *)
(* chunk that is too long ends the call, before the flush of an earlier one  *)
(* of the same payload is noted.                                             *)
Fits(payload) == payload.words > 0 /\ payload.words <= memorySizeW16

Chunk(payload, k) ==
  [words |-> payload.chunks[k],
   timeStamp |-> (payload.timeStamp + ((k - 1) * FrameSamples)) % TimeWrap,
   seqNumber |-> payload.seqNumber, rcuPlCntr |-> payload.rcuPlCntr]

SplitAndInsertPayload ==
  LET payload == Head(receiving.payloads)
      chunk == Chunk(payload, receiving.chunk)
      flushed == receiving.flushed \/ FlushesFor(packetBuffer, chunk)
      goesOn == receiving.chunk < Len(payload.chunks)
  IN  /\ receiving.payloads # <<>>
      /\ \/ /\ ~Fits(chunk)
            /\ receiving' = Done
            /\ UNCHANGED <<packetBuffer, new_codec, overtaken>>
         \/ /\ Fits(chunk)
            /\ packetBuffer' = Insert(packetBuffer, chunk)
            /\ overtaken' = OvertakenBy(packetBuffer, chunk)
            /\ \/ /\ goesOn
                  /\ receiving' = [receiving EXCEPT !.chunk = @ + 1, !.flushed = flushed]
                  /\ UNCHANGED new_codec
               \/ /\ ~goesOn
                  /\ receiving' = [Done EXCEPT !.payloads = Tail(receiving.payloads)]
                  /\ new_codec' = (new_codec \/ flushed)
      /\ UNCHANGED <<playedOutTS, decoding, decodedTS, received>>

-----------------------------------------------------------------------------
(* WebRtcNetEQ_PacketBufferFindLowestTimestamp() *)

(* Timestamps are compared around their wrap. *)
TimeDiff(a, b) == LET d == (a - b) % TimeWrap
                  IN  IF d >= TimeWrap \div 2 THEN d - TimeWrap ELSE d

TooOld(b, now) == {i \in Taken(b) : TimeDiff(b.slot[i].timeStamp, now) \in 1 - OldPacket .. -1}

Without(b, gone) == [b EXCEPT !.slot = [i \in Slots |-> IF i \in gone THEN Free ELSE @[i]],
                              !.numPacketsInBuffer = @ - Cardinality(gone)]

(* The earliest payload; of several the least redundant, and the first.      *)
Sooner(b, now, i, j) ==
  LET di == TimeDiff(b.slot[i].timeStamp, now)
      dj == TimeDiff(b.slot[j].timeStamp, now)
      ri == b.slot[i].rcuPlCntr
      rj == b.slot[j].rcuPlCntr
  IN  \/ di < dj
      \/ di = dj /\ ri < rj
      \/ di = dj /\ ri = rj /\ i <= j

LowestTimestamp(b, now) ==
  CHOOSE i \in Taken(b) : \A j \in Taken(b) : Sooner(b, now, i, j)

(* WebRtcNetEQ_SignalMcu(): what is too old is thrown away, unless the codec *)
(* is new.  Then the decoder waits, begins anew without a payload, or takes  *)
(* the earliest one; its audio follows at that payload's timestamp.          *)
SignalMcu ==
  LET b == IF new_codec THEN packetBuffer
           ELSE Without(packetBuffer, TooOld(packetBuffer, playedOutTS))
      none == b.numPacketsInBuffer = 0
      position == LowestTimestamp(b, playedOutTS)
  IN  /\ NobodyInside /\ packetBuffer' = b
      /\ \/ UNCHANGED <<new_codec, playedOutTS, decoding>>
         \/ /\ none /\ new_codec
            /\ new_codec' = FALSE /\ playedOutTS' = 0 /\ UNCHANGED decoding
         \/ /\ ~none
            /\ new_codec' = FALSE
            /\ \E wanted \in WantedTimes :
                 decoding' = [frames |-> 0, position |-> position, wanted |-> wanted,
                              first |-> b.slot[position].timeStamp, anew |-> new_codec]
            /\ UNCHANGED playedOutTS
      /\ UNCHANGED <<receiving, overtaken, decodedTS, received>>

(* The loop of SignalMcu(): payloads are extracted as long as they follow    *)
(* each other and more is wanted.                                            *)
Follows(slot, last, first) ==
  LET seqStep == slot.seqNumber - last.seqNumber
  IN  \/ seqStep = 1
      \/ seqStep = 0 /\ (slot.timeStamp - first) % TimeWrap = FrameSamples

Extract ==
  LET taken == packetBuffer.slot[decoding.position]
      b == Without(packetBuffer, {decoding.position})
      next == LowestTimestamp(b, taken.timeStamp)
      total == ((taken.timeStamp - decoding.first) % TimeWrap) + FrameSamples
      goesOn == /\ total < decoding.wanted /\ b.numPacketsInBuffer > 0
                /\ Follows(b.slot[next], taken, decoding.first)
  IN  /\ decoding # Idle
      /\ packetBuffer' = b /\ decodedTS' = taken.timeStamp
      /\ IF goesOn
         THEN /\ decoding' = [decoding EXCEPT !.frames = @ + 1, !.position = next,
                                              !.anew = FALSE]
              /\ UNCHANGED playedOutTS
         ELSE /\ decoding' = Idle
              /\ playedOutTS' = (decoding.first + (decoding.frames + 1) * FrameSamples)
                                  % TimeWrap
      /\ UNCHANGED <<new_codec, receiving, overtaken, received>>

(* The DSP fills a gap with audio of its own, and may count its time.        *)
Conceal == /\ NobodyInside
           /\ TimeDiff(playedOutTS, decodedTS) < MaxConcealed
           /\ playedOutTS' = (playedOutTS + FrameSamples) % TimeWrap
           /\ UNCHANGED <<packetBuffer, new_codec, receiving, overtaken, decoding,
                          decodedTS, received>>

BufferNext == \/ \E packet \in MediaPackets, fresh \in BOOLEAN : RecIn(packet, fresh)
              \/ SplitAndInsertPayload
              \/ SignalMcu
              \/ Extract
              \/ Conceal

BufferSpec == BufferInit /\ [][BufferNext]_bufferVars
-----------------------------------------------------------------------------
BufferTypeOK ==
  /\ packetBuffer.numPacketsInBuffer \in 0 .. maxInsertPositions
  /\ packetBuffer.insertPosition \in Slots
  /\ packetBuffer.currentMemoryPos \in 0 .. memorySizeW16
  /\ {decodedTS, playedOutTS} \subseteq 0 .. TimeWrap - 1 /\ new_codec \in BOOLEAN

Ends(slot) == slot.location + slot.words

Apart(b) == \A i, j \in Taken(b) : \/ i = j
                                    \/ Ends(b.slot[i]) <= b.slot[j].location
                                    \/ Ends(b.slot[j]) <= b.slot[i].location

(* The buffer knows how many payloads it has, each lies in the memory, and   *)
(* as long as the memory was never begun again past one that waited, nothing *)
(* is written over a payload until it is taken: in whatever order payloads   *)
(* come and are taken, and although only one of those that wait is looked at *)
(* when a new one is inserted.                                               *)
PayloadsIntact ==
  LET b == packetBuffer
  IN  /\ b.numPacketsInBuffer = Cardinality(Taken(b))
      /\ \A i \in Taken(b) : Ends(b.slot[i]) <= memorySizeW16
      /\ overtaken \/ Apart(b)

(* "Check if the new payload will extend into a payload later in memory. If  *)
(* so, the buffer is full" (packet_buffer.c): no payload that waits is       *)
(* written over.                                                             *)
NothingOverwritten == Apart(packetBuffer)

(* Payloads reach the decoder in the order of their timestamps, around the   *)
(* wrap and whatever order the network brings them in; one that comes after  *)
(* its turn is thrown away, unless the decoder begins anew or the payload is *)
(* so late that it seems to be far ahead.                                    *)
PlayedInOrder ==
  [][decoding # Idle /\ ~decoding.anew =>
       \/ TimeDiff(decodedTS', decodedTS) >= 0
       \/ TimeDiff(decodedTS', playedOutTS) <= -OldPacket]_bufferVars
=============================================================================
