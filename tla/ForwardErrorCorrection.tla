----------------------- MODULE ForwardErrorCorrection -----------------------
(***************************************************************************)
(* FEC over RTP packets.  ProducerFec collects the media packets of one or *)
(* more frames and GenerateFEC makes packets that are the XOR of some of   *)
(* them, told by a bit mask over the numbers that follow the first one's.  *)
(* ReceiverFEC hands on each media packet, and recovers a missing one when *)
(* a FEC packet has come and all but that one of those it covers.          *)
(*                                                                         *)
(* The network loses, repeats and reorders packets.  A packet is known by  *)
(* its place in the stream; the code sees 16 bits of that.  The XOR of     *)
(* packets is what an odd number of them contribute: a set of places.      *)
(***************************************************************************)
EXTENDS Integers, Sequences, FiniteSets, FiniteSetsExt

CONSTANTS FirstPlace,        \* place of the first packet sent
          kMaxMediaPackets, kMaxFecPackets,
          FecRates,          \* fec_rate, in Q8
          MaxFecFrames,      \* max_fec_frames
          Skips,             \* unprotected packets before a protected one
          MaxMedia,          \* bound: media packets sent
          MaxReceived,       \* bound: packets received
          MaxRateChanges     \* bound: calls of SetFecParameters

ASSUME FecAssumption ==
  /\ FirstPlace \in Nat
  /\ kMaxMediaPackets \in Nat \ {0} /\ kMaxFecPackets \in Nat \ {0}
  /\ FecRates \subseteq 0 .. 255  \* asserted by SetFecParameters
  /\ Skips \subseteq Nat

VARIABLES nextPlace,       \* place of the next packet
          protectedMedia,  \* media_packets_fec_: their places
          fecFrames,       \* num_frames_
          incompleteFrame, \* incomplete_frame_
          fecRate, newRate,  \* params_, new_params_
          toSend,          \* fec_packets_, without their numbers
          fecNetwork,      \* packets sent
          sentMedia, rateChanges, receivedCount,
          receiver,        \* the receiver, see NewReceiver
          came,            \* packets received
          handOnFailed,    \* the callback has failed
          dropped          \* the receiver has discarded something of use

producerVars == <<nextPlace, protectedMedia, fecFrames, incompleteFrame, fecRate,
                  newRate, toSend, fecNetwork, sentMedia, rateChanges>>
receiverVars == <<receivedCount, receiver, came, handOnFailed, dropped>>
fecVars == <<producerVars, receiverVars>>

SeqNum(place) == place % 65536

kMaxExcessOverhead == 50
kMinimumMediaPackets == 4
kHighProtectionThreshold == 80

\* pending: _receivedPacketList; recovered: _recoveredPacketList, a set, ordered
\* by LessThan; fec: _fecPacketList, likewise; vcm: what was handed on.
NewReceiver == [pending |-> <<>>, recovered |-> {}, fec |-> {}, vcm |-> {}]

FecInit ==
  /\ nextPlace = FirstPlace
  /\ protectedMedia = <<>>
  /\ fecFrames = 0
  /\ incompleteFrame = FALSE
  /\ fecRate = 0
  /\ newRate = 0
  /\ toSend = <<>>
  /\ fecNetwork = {}
  /\ sentMedia = 0
  /\ rateChanges = 0
  /\ receivedCount = 0
  /\ receiver = NewReceiver
  /\ came = {}
  /\ handOnFailed = FALSE
  /\ dropped = FALSE

-----------------------------------------------------------------------------
(* The sender. *)

GetNumberOfFecPackets(n, rate) ==
  IF rate > 0 THEN Max({1, (n * rate + 128) \div 256}) ELSE 0

\* The tables of the masks, for at most four media packets: the packets that each
\* FEC packet protects, where all are protected alike.
kPacketMaskRandomTbl ==
  << << <<{1}>> >>,
     << <<{1, 2}>>, <<{1, 2}, {1}>> >>,
     << <<{1, 2, 3}>>, <<{1, 2}, {1, 3}>>, <<{1, 2}, {1, 3}, {2, 3}>> >>,
     << <<{1, 2, 3, 4}>>, <<{1, 2}, {1, 3, 4}>>, <<{1, 2}, {1, 3, 4}, {2, 3}>>,
        <<{1, 2}, {1, 3}, {3, 4}, {2, 4}>> >> >>

kPacketMaskBurstyTbl ==
  << << <<{1}>> >>,
     << <<{1, 2}>>, <<{1}, {1, 2}>> >>,
     << <<{1, 2, 3}>>, <<{1, 2}, {1, 3}>>, <<{1}, {1, 2}, {2, 3}>> >>,
     << <<{1, 2, 3, 4}>>, <<{1, 3}, {1, 2, 4}>>, <<{1, 2}, {2, 3}, {1, 4}>>,
        <<{1}, {1, 2}, {2, 3}, {3, 4}>> >> >>

GeneratePacketMasks(n, rate) ==
  LET number == GetNumberOfFecPackets(n, rate)
  IN  IF number = 0 THEN {<<>>}
      ELSE {kPacketMaskRandomTbl[n][number], kPacketMaskBurstyTbl[n][number]}

InsertZerosInBitMasks_Off(list, mask) == {k - 1 : k \in mask}

\* The mask has a zero for each number that is not in the list.
InsertZerosInBitMasks(list, mask) == {list[k] - list[1] : k \in mask}

\* GenerateFecBitStrings walks over the mask with an index into its current byte,
\* which goes on to the next byte where the index becomes 8 exactly.
BitOf(list) ==
  LET At[k \in 1 .. Len(list)] ==
        IF k = 1 THEN [byte |-> 0, index |-> 0]
        ELSE LET to == At[k - 1].index + list[k] - list[k - 1]
             IN  IF to = 8 THEN [byte |-> At[k - 1].byte + 1, index |-> 0]
                 ELSE [byte |-> At[k - 1].byte, index |-> to]
  IN  At

Protects(list, mask) ==
  {list[k] : k \in {k \in 1 .. Len(list) :
                      LET at == BitOf(list)[k]
                      IN  at.index < 8 /\ 8 * at.byte + at.index \in mask}}

FecPacket(list, mask) ==
  LET zeroed == InsertZerosInBitMasks(list, mask)
  IN  [fec |-> TRUE,
       covers |-> {SeqNum(list[1] + bit) : bit \in zeroed},
       content |-> Protects(list, zeroed)]

Overhead(n, rate) == (256 * GetNumberOfFecPackets(n, rate)) \div n

ExcessOverheadBelowMax(n, rate) == Overhead(n, rate) - rate < kMaxExcessOverhead

MinimumMediaPackets == IF newRate > kHighProtectionThreshold
                       THEN kMinimumMediaPackets ELSE 1

MinimumMediaPacketsReached(n, frames) ==
  n >= MinimumMediaPackets + (IF n < 2 * frames THEN 0 ELSE 1)

\* At the beginning of a frame.
SetFecParameters(rate) ==
  /\ rateChanges < MaxRateChanges /\ rate # newRate
  /\ ~incompleteFrame
  /\ newRate' = rate
  /\ rateChanges' = rateChanges + 1
  /\ UNCHANGED <<nextPlace, protectedMedia, fecFrames, incompleteFrame, fecRate,
                 toSend, fecNetwork, sentMedia, receiverVars>>

\* A packet of a frame, the last of it with the marker; frames of upper layers,
\* which are not protected, may have come before it.  FEC follows the last packet when there are frames enough, or
\* packets enough for the rate.  (GenerateFecBitStrings asserts that each FEC
\* packet has content.)
SendVideoPacket(skip, marker) ==
  LET place == nextPlace + skip
      list == IF Len(protectedMedia) < kMaxMediaPackets
              THEN Append(protectedMedia, place) ELSE protectedMedia
      rate == IF protectedMedia = <<>> THEN newRate ELSE fecRate
      frames == fecFrames + (IF marker THEN 1 ELSE 0)
      n == Len(list)
  IN  /\ sentMedia < MaxMedia /\ toSend = <<>>
      /\ skip > 0 => ~incompleteFrame
      /\ sentMedia' = sentMedia + 1
      /\ fecNetwork' = fecNetwork \cup
                        {[place |-> p, fec |-> FALSE, covers |-> {},
                          content |-> {p}] : p \in nextPlace .. place}
      /\ nextPlace' = place + 1
      /\ fecRate' = rate
      /\ incompleteFrame' = ~marker
      /\ IF /\ marker
            /\ \/ frames = MaxFecFrames
               \/ /\ ExcessOverheadBelowMax(n, rate)
                  /\ MinimumMediaPacketsReached(n, frames)
         THEN \E masks \in GeneratePacketMasks(n, rate) :
                /\ toSend' = [i \in DOMAIN masks |-> FecPacket(list, masks[i])]
                /\ \A i \in DOMAIN toSend' : toSend'[i].content # {}
                /\ protectedMedia' = IF toSend' = <<>> THEN <<>> ELSE list
                /\ fecFrames' = IF toSend' = <<>> THEN 0 ELSE frames
         ELSE protectedMedia' = list /\ fecFrames' = frames /\ UNCHANGED toSend
      /\ UNCHANGED <<newRate, rateChanges, receiverVars>>

GetFecPacket ==
  /\ toSend # <<>>
  /\ fecNetwork' = fecNetwork \cup
                     {[place |-> nextPlace, fec |-> TRUE,
                       covers |-> Head(toSend).covers,
                       content |-> Head(toSend).content]}
  /\ nextPlace' = nextPlace + 1
  /\ toSend' = Tail(toSend)
  /\ IF toSend' = <<>> THEN protectedMedia' = <<>> /\ fecFrames' = 0
                       ELSE UNCHANGED <<protectedMedia, fecFrames>>
  /\ UNCHANGED <<incompleteFrame, fecRate, newRate, sentMedia, rateChanges,
                 receiverVars>>

-----------------------------------------------------------------------------
(* The receiver. *)

LatestSequenceNumber(first, second) ==
  LET wrap == \/ first < 255 /\ second > 65280
              \/ first > 65280 /\ second < 255
  IN  IF (second > first) # wrap THEN second ELSE first

LessThan(a, b) == a.seq # b.seq /\ LatestSequenceNumber(a.seq, b.seq) = b.seq

\* The first of a sorted list.  Numbers spread over more than half of their range
\* may have no oldest: then some packet comes first.
IsOldest(a, list) == \A b \in list \ {a} : LessThan(a, b)
Oldest(list) == CHOOSE a \in list : IsOldest(a, list) \/ \A b \in list : ~IsOldest(b, list)
NewestPacket(list) == CHOOSE a \in list : \A b \in list \ {a} : LessThan(b, a)

\* The XOR of a FEC packet and packets it covers: what is in an odd number of them.
XOR(f, packets) ==
  {x \in f.content \cup UNION {h.content : h \in packets} :
     x \in f.content <=> Cardinality({h \in packets : x \in h.content}) % 2 = 0}

UpdateCoveringFECPackets_Not(fec, packet) == fec

UpdateCoveringFECPackets(fec, packet) ==
  {IF packet.seq \in f.covers
   THEN [f EXCEPT !.have = {h \in @ : h.seq # packet.seq}
                             \cup {[seq |-> packet.seq,
                                    content |-> packet.content]}]
   ELSE f : f \in fec}

InsertMediaPacket(r, p) ==
  LET packet == [seq |-> SeqNum(p.place), content |-> p.content,
                 returned |-> TRUE]
  IN  IF \E q \in r.recovered : q.seq = packet.seq THEN r
      ELSE [r EXCEPT !.recovered = @ \cup {packet},
                     !.fec = UpdateCoveringFECPackets(@, packet)]

\* With what has come or been recovered of the packets it covers.
AssignRecoveredPackets(r, p) ==
  {[seq |-> q.seq, content |-> q.content] :
     q \in {q \in r.recovered : q.seq \in p.covers}}

InsertFECPacket(r, p) ==
  LET f == [seq |-> SeqNum(p.place), covers |-> p.covers,
            content |-> p.content, have |-> AssignRecoveredPackets(r, p)]
      list == r.fec \cup {f}
  IN  IF p.covers = {} \/ \E g \in r.fec : g.seq = f.seq THEN r
      ELSE IF Cardinality(list) > kMaxFecPackets
      THEN [r EXCEPT !.fec = list \ {Oldest(list)}]
      ELSE [r EXCEPT !.fec = list]

DiscardOldPackets(r) ==
  [r EXCEPT !.recovered = {q \in @ : Cardinality({p \in @ : LessThan(q, p)})
                                       < kMaxMediaPackets}]

InsertPackets(r) ==
  LET Inserted[n \in 0 .. Len(r.pending)] ==
        IF n = 0 THEN [r EXCEPT !.pending = <<>>]
        ELSE IF r.pending[n].fec
        THEN InsertFECPacket(Inserted[n - 1], r.pending[n])
        ELSE InsertMediaPacket(Inserted[n - 1], r.pending[n])
  IN  DiscardOldPackets(Inserted[Len(r.pending)])

\* The numbers covered that have no packet.
CoveredMissing(f) == {s \in f.covers : \A h \in f.have : h.seq # s}

RecoverPacket(f) ==
  [seq |-> CHOOSE s \in CoveredMissing(f) : TRUE,
   content |-> XOR(f, f.have),
   returned |-> FALSE]

\* One turn of the loop of AttemptRecover, which begins anew after each.
AttemptOnce(r) ==
  LET ready == {f \in r.fec : Cardinality(CoveredMissing(f)) <= 1}
      f == Oldest(ready)
      rest == r.fec \ {f}
  IN  IF ready = {} THEN r
      ELSE IF CoveredMissing(f) = {} THEN [r EXCEPT !.fec = rest]
      ELSE LET packet == RecoverPacket(f)
           IN  DiscardOldPackets(
                 [r EXCEPT !.recovered = @ \cup {packet},
                           !.fec = UpdateCoveringFECPackets(rest, packet)])

AttemptRecover(r) ==
  LET After[n \in 0 .. Cardinality(r.fec)] ==
        IF n = 0 THEN r ELSE AttemptOnce(After[n - 1])
  IN  After[Cardinality(r.fec)]

\* A gap in the numbers, as it looks when they wrap too: all is forgotten.
FarApart(r) ==
  /\ Cardinality(r.recovered) = kMaxMediaPackets
  /\ LET d == SeqNum(Head(r.pending).place) - NewestPacket(r.recovered).seq
     IN  d > kMaxMediaPackets \/ -d > kMaxMediaPackets

DecodeFEC(r) ==
  AttemptRecover(InsertPackets(
    IF FarApart(r) THEN [r EXCEPT !.recovered = {}, !.fec = {}] ELSE r))

\* The recovered packets that have not been handed on, and those that are before
\* one of them.
NotReturned(r) == {p \in r.recovered : ~p.returned}

Before(r, bad) == {p \in NotReturned(r) : LessThan(p, bad)}

\* The packets of new, which are handed on until the callback fails.
ReturnRecovered(r, new) ==
  [r EXCEPT !.vcm = @ \cup {p.content : p \in new},
            !.recovered = (@ \ new) \cup {[p EXCEPT !.returned = TRUE] : p \in new}]

\* Only the first of the packets received is handed on before they are decoded.
WithPending(p) == [receiver EXCEPT !.pending = Append(@, p)]

HandOnFirst(r) == IF Head(r.pending).fec THEN r
                  ELSE [r EXCEPT !.vcm = @ \cup {Head(r.pending).content}]

\* What follows from packets that have come, in any number of steps.
Recoverable(packets) ==
  LET fecs == {p \in packets : p.fec}
      Known[n \in 0 .. Cardinality(fecs)] ==
        IF n = 0 THEN {p.content : p \in packets \ fecs}
        ELSE LET known == UNION Known[n - 1]
                 news == {f.content \ known : f \in fecs}
             IN  Known[n - 1] \cup {x \in news : Cardinality(x) = 1}
  IN  Known[Cardinality(fecs)]

ProcessReceivedFEC(p) ==
  LET decoded == DecodeFEC(HandOnFirst(WithPending(p)))
  IN  /\ receivedCount < MaxReceived
      /\ receivedCount' = receivedCount + 1
      /\ came' = came \cup {p}
      /\ \/ /\ receiver' = ReturnRecovered(decoded, NotReturned(decoded))
            /\ UNCHANGED handOnFailed
         \/ /\ ~Head(WithPending(p).pending).fec
            /\ receiver' = WithPending(p)
            /\ handOnFailed' = TRUE
         \/ /\ \E bad \in NotReturned(decoded) :
                 receiver' = ReturnRecovered(decoded, Before(decoded, bad))
            /\ handOnFailed' = TRUE
      /\ dropped' =
           (dropped \/ FarApart(WithPending(p))
                    \/ Cardinality(Recoverable(came')) > kMaxMediaPackets
                    \/ Cardinality({q \in came' : q.fec}) > kMaxFecPackets)
      /\ UNCHANGED producerVars

FecNext ==
  \/ \E rate \in FecRates : SetFecParameters(rate)
  \/ \E skip \in Skips, marker \in BOOLEAN : SendVideoPacket(skip, marker)
  \/ GetFecPacket
  \/ \E p \in fecNetwork : ProcessReceivedFEC(p)

-----------------------------------------------------------------------------

\* A packet recovered is the one that was sent with its number: the mask in the
\* FEC packet names exactly the packets that were XORed into it, whatever gaps
\* their numbers have, and nothing is XORed out of it twice or with the wrong
\* packet (GenerateFecBitStrings, InsertZerosInBitMasks, RecoverPacket).
RecoveredIsOriginal ==
  \A q \in receiver.recovered :
    \E place \in FirstPlace .. nextPlace :
      q.content = {place} /\ SeqNum(place) = q.seq

\* Whatever the order in which packets come, each packet that can be recovered
\* from them, through packets recovered before too, has been handed on as soon as
\* the last one needed is there (AttemptRecover begins anew after each packet
\* recovered; a FEC packet that comes first waits, one that comes last looks at
\* what is there).  Packets that had to be discarded, and calls of the callback
\* that failed, are left out.
AllThatCanBeIsRecovered ==
  ~handOnFailed /\ ~dropped => receiver.vcm = Recoverable(came)

FecSpec == FecInit /\ [][FecNext]_fecVars
=============================================================================
