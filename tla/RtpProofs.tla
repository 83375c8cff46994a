----------------------------- MODULE RtpProofs -----------------------------
(***************************************************************************)
(* Proofs about the way of RTP packets: RtpReceiveStatistics reports what  *)
(* arrived, for packets as late and as far ahead as the code allows for;   *)
(* through the PacedSender packets leave once, in the order of their       *)
(* priority and within the rate; what a PacketSegment combines comes apart *)
(* as it was; TelephoneEvents plays tones in turn and marks speech;        *)
(* RtpRetransmission sends again what was asked for, and not too often;    *)
(* and ForwardErrorCorrection recovers what was sent.                      *)
(***************************************************************************)
EXTENDS RtpReceiveStatistics, PacketSegment, PacedSender, TelephoneEvents,
        RtpRetransmission, ForwardErrorCorrection, FiniteSetTheorems, SequenceTheorems,
        WellFoundedInduction, TLAPS

-----------------------------------------------------------------------------
(* RtpReceiveStatistics: what a report says. *)

\* A place in the stream, and the sequence number and the wraps it stands for.
LEMMA Digits ==
  ASSUME NEW n \in Nat
  PROVE  /\ n \div Wrap \in Nat /\ Number(n) \in Nat /\ Number(n) < 65536
         /\ n = 65536 * (n \div Wrap) + Number(n)
BY SMT DEF Wrap, Number

\* For packets within the assumed distance InOrderPacket() tells which is the later
\* one, and a sequence number that falls means one wrap more.
LEMMA InOrderRight ==
  ASSUME NEW h \in Nat, NEW p \in Nat, p \in h - MaxLate .. h + MaxAhead
  PROVE  /\ InOrderPacket(Number(h), Number(p)) <=> p > h
         /\ p > h => p \div Wrap = (h \div Wrap)
                                     + (IF Number(p) < Number(h) THEN 1 ELSE 0)
<1> DEFINE a == h \div Wrap
           b == p \div Wrap
           x == Number(h)
           y == Number(p)
<1>1. /\ a \in Nat /\ b \in Nat /\ x \in Nat /\ y \in Nat /\ x < 65536 /\ y < 65536
      /\ h = 65536 * a + x /\ p = 65536 * b + y
  BY Digits
<1>2. p - h <= 65026 /\ h - p <= 255
  BY ReceiveAssumption, SMT
<1> HIDE DEF a, b, x, y
<1>3. b = a \/ b = a + 1 \/ b = a - 1
  BY <1>1, <1>2, SMT
<1>4. /\ InOrderPacket(x, y) <=> p > h
      /\ p > h => b = a + (IF y < x THEN 1 ELSE 0)
  <2> USE <1>1, <1>2, SMT DEF InOrderPacket, TooFarBack, NACK_PACKETS_MAX_SIZE
  <2>1. CASE b = a
    BY <2>1
  <2>2. CASE b = a + 1
    BY <2>2
  <2>3. CASE b = a - 1
    BY <2>3
  <2> QED BY <1>3, <2>1, <2>2, <2>3
<1> QED BY <1>4 DEF a, b, x, y

-----------------------------------------------------------------------------
(* What the counters say of the packets that arrived. *)

Receiveds == [seqFirst : Nat, seqMax : Nat, seqWraps : Nat, inorder : Nat, old : Nat,
              bytes : BOOLEAN]

NewPlaces == {p \in arrived : p > covered}

\* The counters have their types, and there is a furthest packet.
Counts ==
  /\ arrived \subseteq StreamPlaces /\ IsFiniteSet(arrived)
  /\ arrived # {} => \E p \in arrived : \A q \in arrived : q <= p
  /\ received \in Receiveds
  /\ reported \in [inorder : Nat, old : Nat, seqMax : Nat]
  /\ sinceLast \in [old : Int, late : BOOLEAN, wrapped : BOOLEAN]
  /\ first \in Nat /\ nackOn \in BOOLEAN

\* Without a packet nothing is counted, and no report is made.
Unbegun ==
  arrived = {} => /\ received = NothingReceived /\ reported = NothingReported
                  /\ sinceLast = NothingNew /\ report = NoReport

\* The highest number and the wraps are those of the furthest packet.
Extended ==
  /\ first \in arrived /\ received.seqFirst = Number(first)
  /\ received.seqMax = Number(Highest)
  /\ received.seqWraps = Highest \div Wrap - first \div Wrap

\* What the last report covered.
Covered ==
  /\ covered \in Nat /\ covered <= Highest
  /\ IF reported.inorder = 0 THEN covered = first - 1
                             ELSE reported.seqMax = Number(covered)

\* Every packet is counted, once if none is late.
Counted ==
  /\ received.inorder > 0
  /\ received.inorder >= reported.inorder /\ received.old >= reported.old
  /\ sinceLast.old = received.old - reported.old
  /\ Cardinality(NewPlaces) <= received.inorder - reported.inorder + sinceLast.old
  /\ ~sinceLast.late => /\ sinceLast.old = 0
                        /\ Cardinality(NewPlaces) = received.inorder - reported.inorder
  /\ ~sinceLast.wrapped => Highest \div Wrap = covered \div Wrap

ReceiveInv == Counts /\ Unbegun /\ (HasBegun => Extended /\ Covered /\ Counted)

\* What UpdateStatistics() does to the counters.
LEMMA Updates ==
  ASSUME Counts, NEW seq \in Nat, NEW old \in BOOLEAN,
         received' = UpdateStatistics(seq, old)
  PROVE  /\ received' \in Receiveds
         /\ Untouched => /\ received'.seqFirst = seq /\ received'.seqMax = seq
                         /\ received'.inorder = 1
                         /\ received'.seqWraps = received.seqWraps
                         /\ received'.old = received.old
         /\ ~Untouched =>
              /\ received'.seqFirst = received.seqFirst
              /\ IF InOrderPacket(received.seqMax, seq)
                 THEN /\ received'.seqMax = seq
                      /\ received'.inorder = received.inorder + 1
                      /\ received'.old = received.old
                      /\ received'.seqWraps = IF seq < received.seqMax
                                              THEN (received.seqWraps + 1) % Wrap
                                              ELSE received.seqWraps
                 ELSE /\ received'.seqMax = received.seqMax
                      /\ received'.seqWraps = received.seqWraps
                      /\ \/ /\ received'.inorder = received.inorder + 1
                            /\ received'.old = received.old
                         \/ /\ received'.inorder = received.inorder
                            /\ received'.old = received.old + 1
<1> DEFINE inorder == received.inorder + 1
           more == received.old + 1
           wraps == IF seq < received.seqMax THEN (received.seqWraps + 1) % Wrap
                                             ELSE received.seqWraps
<1>1. received \in Receiveds
  BY DEF Counts
<1>2. inorder \in Nat /\ more \in Nat
  BY <1>1 DEF Receiveds
<1>3. wraps \in Nat
  <2>1. received.seqWraps \in Nat
    BY <1>1 DEF Receiveds
  <2> QED BY <2>1, SMT DEF Wrap
<1>4. received' =
        IF Untouched
        THEN [received EXCEPT !.seqFirst = seq, !.seqMax = seq, !.inorder = 1, !.bytes = TRUE]
        ELSE IF InOrderPacket(received.seqMax, seq)
        THEN [received EXCEPT !.seqMax = seq, !.inorder = inorder, !.bytes = TRUE,
                              !.seqWraps = wraps]
        ELSE IF old THEN [received EXCEPT !.old = more, !.bytes = TRUE]
        ELSE [received EXCEPT !.inorder = inorder, !.bytes = TRUE]
  BY DEF UpdateStatistics
<1>5. inorder = received.inorder + 1 /\ more = received.old + 1
      /\ wraps = IF seq < received.seqMax THEN (received.seqWraps + 1) % Wrap
                                          ELSE received.seqWraps
  OBVIOUS
<1> HIDE DEF inorder, more, wraps
<1>6. CASE Untouched
  <2> DEFINE one == 1
  <2>1. received' = [received EXCEPT !.seqFirst = seq, !.seqMax = seq, !.inorder = one,
                                     !.bytes = TRUE]
    BY <1>4, <1>6
  <2>2. one = 1 /\ one \in Nat
    OBVIOUS
  <2> HIDE DEF one
  <2>3. received' \in Receiveds
    BY <1>1, <2>1, <2>2 DEF Receiveds
  <2>4. /\ received'.seqFirst = seq /\ received'.seqMax = seq /\ received'.inorder = 1
        /\ received'.seqWraps = received.seqWraps /\ received'.old = received.old
    BY <1>1, <2>1, <2>2 DEF Receiveds
  <2> QED BY <1>6, <2>3, <2>4
<1>7. CASE ~Untouched /\ InOrderPacket(received.seqMax, seq)
  BY <1>1, <1>2, <1>3, <1>4, <1>5, <1>7 DEF Receiveds
<1>8. CASE ~Untouched /\ ~InOrderPacket(received.seqMax, seq)
  BY <1>1, <1>2, <1>4, <1>5, <1>8 DEF Receiveds
<1> QED BY <1>6, <1>7, <1>8

\* The places of the stream are within 2^32.
LEMMA PlacesAreNumbers ==
  \A p \in StreamPlaces : p \in Nat /\ p \div Wrap \in Nat /\ p \div Wrap < 65536
<1> TAKE p \in StreamPlaces
<1>1. p \in Nat /\ p \div Wrap < 65536
  BY ReceiveAssumption DEF Wrap
<1> QED BY <1>1, Digits

\* The furthest packet that arrived is the one no other is beyond.
LEMMA HighestIs ==
  ASSUME NEW p \in arrived, \A q \in arrived : q <= p, arrived \subseteq StreamPlaces
  PROVE  Highest = p
<1>1. arrived \subseteq Nat
  BY PlacesAreNumbers
<1>2. \A x \in arrived : (\A q \in arrived : q <= x) => x = p
  BY <1>1, SMT
<1> QED BY <1>2 DEF Highest

\* There is a furthest packet once any has arrived.
LEMMA HighestArrived ==
  ASSUME Counts, arrived # {}
  PROVE  Highest \in arrived /\ Highest \in Nat /\ \A q \in arrived : q <= Highest
BY HighestIs, PlacesAreNumbers DEF Counts

\* The furthest packet after one more has come.
LEMMA HighestNext ==
  ASSUME Counts, NEW p \in StreamPlaces, arrived' = arrived \cup {p}
  PROVE  /\ Counts => \E x \in arrived' : \A q \in arrived' : q <= x
         /\ Highest' = IF arrived = {} \/ p > Highest THEN p ELSE Highest
<1> DEFINE x == IF arrived = {} \/ p > Highest THEN p ELSE Highest
<1>1. x \in arrived' /\ \A q \in arrived' : q <= x
  BY HighestArrived, PlacesAreNumbers DEF Counts
<1>2. arrived' \subseteq StreamPlaces
  BY DEF Counts
<1>3. Highest' = x
  <2>1. \A y \in arrived' : (\A q \in arrived' : q <= y) => y = x
    BY <1>1, <1>2, PlacesAreNumbers, SMT
  <2> QED BY <1>1, <2>1 DEF Highest
<1> QED BY <1>1, <1>3

\* The counters keep their types.
LEMMA CountsStep == Counts /\ [ReceiveNext]_receiveVars => Counts'
<1> SUFFICES ASSUME Counts, [ReceiveNext]_receiveVars PROVE Counts'
  OBVIOUS
<1>1. ASSUME NEW p \in StreamPlaces, NEW old \in BOOLEAN, IncomingRtp(p, old) PROVE Counts'
  <2>1. Number(p) \in Nat /\ p \in Nat
    BY PlacesAreNumbers, Digits
  <2>2. received' \in Receiveds
    BY <1>1, <2>1, Updates DEF IncomingRtp
  <2>2a. received.old \in Int /\ received'.old \in Int
    BY <2>2 DEF Counts, Receiveds
  <2>3. sinceLast' \in [old : Int, late : BOOLEAN, wrapped : BOOLEAN]
    <3>1. CASE arrived = {}
      BY <1>1, <3>1 DEF IncomingRtp, Counts
    <3>2. CASE arrived # {}
      BY <1>1, <2>1, <2>2a, <3>2, HighestArrived DEF IncomingRtp, Counts
    <3> QED BY <3>1, <3>2
  <2>4. arrived' = arrived \cup {p} /\ IsFiniteSet(arrived')
    BY <1>1, FS_AddElement DEF IncomingRtp, Counts
  <2>5. arrived' # {} => \E q \in arrived' : \A r \in arrived' : r <= q
    BY <2>4, HighestNext
  <2> QED BY <1>1, <2>1, <2>2, <2>3, <2>4, <2>5 DEF IncomingRtp, Counts
<1>2. CASE Statistics
  BY <1>2 DEF Statistics, Counts, NothingNew, Receiveds
<1>3. CASE ResetStatistics
  BY <1>3, FS_EmptySet
  DEF ResetStatistics, Counts, NothingNew, NothingReceived, NothingReported, Receiveds
<1>4. CASE UNCHANGED receiveVars
  BY <1>4 DEF receiveVars, Counts
<1> QED BY <1>1, <1>2, <1>3, <1>4 DEF ReceiveNext

\* The number before one that is not 0 is in the same round.
LEMMA BeforeWrap ==
  ASSUME NEW n \in Nat, Number(n) # 0
  PROVE  n > 0 /\ (n - 1) \div Wrap = n \div Wrap /\ (n - 1) \in Nat
         /\ Number(n - 1) = Number(n) - 1
<1>1. n # 0
  BY SMT DEF Number, Wrap
<1>2. n - 1 \in Nat
  BY <1>1
<1> QED BY <1>1, <1>2, SMT DEF Number, Wrap

\* The first packet starts the counters.
LEMMA FirstArrival ==
  ASSUME Counts, Unbegun, NEW p \in StreamPlaces, NEW old \in BOOLEAN, IncomingRtp(p, old),
         arrived = {}, HasBegun'
  PROVE  Extended' /\ Covered' /\ Counted' /\ LossAsItIs'
<1>1. /\ received = NothingReceived /\ reported = NothingReported
      /\ sinceLast = NothingNew /\ report = NoReport
  BY DEF Unbegun
<1>2. p \in Nat /\ Number(p) \in Nat /\ p \div Wrap \in Nat
  BY PlacesAreNumbers, Digits
<1>3. /\ received' = UpdateStatistics(Number(p), old) /\ arrived' = {p} /\ first' = p
      /\ sinceLast' = sinceLast /\ covered' = p - 1 /\ report' = report
      /\ reported' = reported
  BY DEF IncomingRtp
<1>4. Untouched
  BY <1>1 DEF Untouched, NothingReceived
<1>5. /\ received'.seqFirst = Number(p) /\ received'.seqMax = Number(p)
      /\ received'.inorder = 1 /\ received'.seqWraps = 0 /\ received'.old = 0
  BY <1>1, <1>2, <1>3, <1>4, Updates DEF NothingReceived
<1>6. Highest' = p
  BY <1>3, HighestNext
<1>7. Number(p) # 0
  BY <1>3 DEF HasBegun, Number
<1>8. p > 0 /\ (p - 1) \div Wrap = p \div Wrap /\ p - 1 \in Nat
  BY <1>2, <1>7, BeforeWrap
<1>9. Cardinality(NewPlaces') = 1
  <2>1. NewPlaces' = {p}
    BY <1>2, <1>3 DEF NewPlaces
  <2> QED BY <2>1, FS_Singleton
<1>10. Extended'
  BY <1>2, <1>3, <1>5, <1>6 DEF Extended, Number
<1>11. Covered'
  BY <1>1, <1>2, <1>3, <1>6, <1>8 DEF Covered, NothingReported
<1>12. Counted'
  BY <1>1, <1>2, <1>3, <1>5, <1>6, <1>8, <1>9 DEF Counted, NothingNew, NothingReported
<1>13. LossAsItIs'
  BY <1>1, <1>3 DEF LossAsItIs, NoReport
<1> QED BY <1>10, <1>11, <1>12, <1>13

\* A later packet is counted once, as in order or as old.
LEMMA LaterArrival ==
  ASSUME Counts, HasBegun, Extended, Covered, Counted, LossAsItIs,
         NEW p \in StreamPlaces, NEW old \in BOOLEAN, IncomingRtp(p, old)
  PROVE  Extended' /\ Covered' /\ Counted' /\ LossAsItIs'
<1> DEFINE h == Highest
<1>1. /\ p \in Nat /\ Number(p) \in Nat /\ p \div Wrap \in Nat /\ p \div Wrap < 65536
      /\ h \in Nat /\ h \div Wrap \in Nat /\ Number(h) \in Nat
      /\ first \in Nat /\ first \div Wrap \in Nat /\ first <= h /\ Number(first) # 0
      /\ h \in arrived
  <2>1. h \in arrived /\ first \in arrived /\ first <= h /\ Number(first) # 0
    BY HighestArrived DEF HasBegun, Extended
  <2>2. h \in StreamPlaces /\ first \in StreamPlaces
    BY <2>1 DEF Counts
  <2> HIDE DEF h
  <2> QED BY <2>1, <2>2, PlacesAreNumbers, Digits
<1>2. /\ received' = UpdateStatistics(Number(p), old) /\ arrived' = arrived \cup {p}
      /\ first' = first /\ covered' = covered /\ report' = report /\ reported' = reported
      /\ p \in h - MaxLate .. h + MaxAhead
      /\ sinceLast' = [old |-> sinceLast.old + received'.old - received.old,
                       late |-> sinceLast.late \/ p <= h,
                       wrapped |-> sinceLast.wrapped \/ p \div Wrap > covered \div Wrap]
  BY DEF IncomingRtp, HasBegun
<1>3. Highest' = IF p > h THEN p ELSE h
  BY <1>2, HighestNext DEF HasBegun
<1>4. first \div Wrap <= h \div Wrap
  BY <1>1, SMT DEF Wrap
<1>5. ~Untouched
  <2>1. SUFFICES ASSUME Number(h) = 0, h \div Wrap = first \div Wrap PROVE FALSE
    BY <1>1 DEF Untouched, Extended
  <2>2. first = h
    BY <1>1, <2>1, SMT DEF Number, Wrap
  <2> QED BY <1>1, <2>1, <2>2
<1>6. /\ InOrderPacket(Number(h), Number(p)) <=> p > h
      /\ p > h => p \div Wrap = (h \div Wrap) + (IF Number(p) < Number(h) THEN 1 ELSE 0)
  BY <1>1, <1>2, InOrderRight
<1>7. /\ received \in Receiveds /\ received' \in Receiveds
      /\ received'.seqFirst = received.seqFirst
      /\ IF p > h
         THEN /\ received'.seqMax = Number(p)
              /\ received'.inorder = received.inorder + 1 /\ received'.old = received.old
              /\ received'.seqWraps = IF Number(p) < Number(h)
                                      THEN (received.seqWraps + 1) % Wrap
                                      ELSE received.seqWraps
         ELSE /\ received'.seqMax = Number(h) /\ received'.seqWraps = received.seqWraps
              /\ \/ received'.inorder = received.inorder + 1 /\ received'.old = received.old
                 \/ received'.inorder = received.inorder /\ received'.old = received.old + 1
  <2>1. received.seqMax = Number(h)
    BY DEF Extended
  <2> HIDE DEF h
  <2> QED BY <1>1, <1>2, <1>5, <1>6, <2>1, Updates DEF Counts
<1> HIDE DEF h
<1>8. Extended'
  <2>1. /\ received.seqWraps = h \div Wrap - first \div Wrap /\ first \in arrived
        /\ received.seqFirst = Number(first)
    BY DEF Extended, h
  <2>2. received'.seqWraps = Highest' \div Wrap - first \div Wrap
    <3>1. CASE p > h /\ Number(p) < Number(h)
      <4>1. received.seqWraps + 1 = p \div Wrap - first \div Wrap
        BY <1>1, <1>6, <2>1, <3>1
      <4>2. received.seqWraps + 1 >= 0 /\ received.seqWraps + 1 < 65536
        BY <1>1, <1>4, <1>6, <2>1, <3>1, SMT
      <4>3. (received.seqWraps + 1) % Wrap = received.seqWraps + 1
        BY <1>1, <2>1, <4>2, SMT DEF Wrap
      <4> QED BY <1>3, <1>7, <3>1, <4>1, <4>3
    <3>2. CASE p > h /\ ~(Number(p) < Number(h))
      BY <1>1, <1>3, <1>6, <1>7, <2>1, <3>2
    <3>3. CASE ~(p > h)
      BY <1>3, <1>7, <2>1, <3>3
    <3> QED BY <3>1, <3>2, <3>3
  <2>3. received'.seqMax = Number(Highest')
    BY <1>3, <1>7
  <2> QED BY <1>2, <1>7, <2>1, <2>2, <2>3 DEF Extended, Number
<1>9. Covered'
  BY <1>1, <1>2, <1>3 DEF Covered, Number, h
<1>10. Counted'
  <2> DEFINE n == Cardinality(NewPlaces)
             m == Cardinality(NewPlaces')
  <2>1. /\ IsFiniteSet(NewPlaces) /\ covered \in Nat /\ covered <= h
        /\ \A q \in arrived : q <= h
        /\ \A q \in arrived : q \in Nat
    BY FS_Subset, HighestArrived, PlacesAreNumbers DEF NewPlaces, Counts, Covered, HasBegun, h
  <2>2. NewPlaces' = IF p > covered THEN NewPlaces \cup {p} ELSE NewPlaces
    BY <1>2 DEF NewPlaces
  <2>3. /\ n \in Nat /\ m \in Nat
        /\ m = n \/ m = n + 1
        /\ p > h => m = n + 1
    <3>1. p > h => p \notin NewPlaces /\ p > covered
      BY <1>1, <2>1 DEF NewPlaces
    <3> QED BY <2>1, <2>2, <3>1, FS_AddElement, FS_CardinalityType
  <2>4. /\ received.inorder \in Nat /\ received.old \in Nat
        /\ received'.inorder \in Nat /\ received'.old \in Nat
        /\ reported.inorder \in Nat /\ reported.old \in Nat
    BY <1>7 DEF Counts, Receiveds
  <2>4a. sinceLast'.old = sinceLast.old + received'.old - received.old
    BY <1>2
  <2>5. /\ sinceLast'.late <=> (sinceLast.late \/ p <= h)
        /\ sinceLast'.wrapped <=> (sinceLast.wrapped \/ p \div Wrap > covered \div Wrap)
    BY <1>2
  <2>6. /\ received.inorder > 0
        /\ received.inorder >= reported.inorder /\ received.old >= reported.old
        /\ sinceLast.old = received.old - reported.old
        /\ n <= received.inorder - reported.inorder + sinceLast.old
    BY DEF Counted, h
  <2>6a. /\ ~sinceLast.late => sinceLast.old = 0 /\ n = received.inorder - reported.inorder
         /\ ~sinceLast.wrapped => h \div Wrap = covered \div Wrap
    BY DEF Counted, h
  <2> HIDE DEF n, m
  <2>7. /\ received'.inorder > 0
        /\ received'.inorder >= reported.inorder /\ received'.old >= reported.old
        /\ sinceLast'.old = received'.old - reported.old
        /\ m <= received'.inorder - reported.inorder + sinceLast'.old
    <3>1. CASE p > h
      <4>1. received'.inorder = received.inorder + 1 /\ received'.old = received.old
        BY <1>7, <3>1
      <4> QED BY <2>3, <2>4, <2>4a, <2>6, <4>1
    <3>2. CASE ~(p > h)
      <4>1. \/ received'.inorder = received.inorder + 1 /\ received'.old = received.old
            \/ received'.inorder = received.inorder /\ received'.old = received.old + 1
        BY <1>7, <3>2
      <4> QED BY <2>3, <2>4, <2>4a, <2>6, <4>1
    <3> QED BY <3>1, <3>2
  <2>8. ~sinceLast'.late => sinceLast'.old = 0 /\ m = received'.inorder - reported.inorder
    <3>1. ~sinceLast'.late => ~sinceLast.late /\ p > h
      BY <1>1, <2>5
    <3>2. p > h => received'.inorder = received.inorder + 1 /\ received'.old = received.old
      BY <1>7
    <3> SUFFICES ASSUME ~sinceLast'.late
                 PROVE  sinceLast'.old = 0 /\ m = received'.inorder - reported.inorder
      OBVIOUS
    <3>3. /\ sinceLast.old = 0 /\ n = received.inorder - reported.inorder /\ m = n + 1
          /\ received'.inorder = received.inorder + 1 /\ received'.old = received.old
      BY <2>3, <2>6a, <3>1, <3>2
    <3> QED BY <2>3, <2>4, <2>4a, <3>3
  <2>9. ~sinceLast'.wrapped => Highest' \div Wrap = covered \div Wrap
    <3>1. covered \div Wrap \in Nat
      BY <2>1, Digits
    <3>2. p > h => p \div Wrap >= h \div Wrap
      BY <1>1, <1>6
    <3>3. ~sinceLast'.wrapped => /\ h \div Wrap = covered \div Wrap
                                 /\ ~(p \div Wrap > covered \div Wrap)
      BY <2>5, <2>6a
    <3> QED BY <1>1, <1>3, <3>1, <3>2, <3>3
  <2> QED BY <1>2, <2>7, <2>8, <2>9 DEF Counted, m
<1>11. LossAsItIs'
  BY <1>2 DEF LossAsItIs, HasBegun, Number
<1> QED BY <1>8, <1>9, <1>10, <1>11

\* A difference of sequence numbers is that of the places, or less.
LEMMA SameWithin ==
  ASSUME NEW a \in Nat, NEW b \in Nat, a <= b
  PROVE  /\ Number(b) >= Number(a) => Number(b) - Number(a) <= b - a
         /\ a \div Wrap = b \div Wrap => Number(b) - Number(a) = b - a
<1> DEFINE qa == a \div Wrap
           qb == b \div Wrap
           ra == Number(a)
           rb == Number(b)
<1>1. /\ qa \in Nat /\ ra \in Nat /\ ra < 65536 /\ a = 65536 * qa + ra
      /\ qb \in Nat /\ rb \in Nat /\ rb < 65536 /\ b = 65536 * qb + rb
  BY Digits
<1> HIDE DEF qa, qb, ra, rb
<1>2. /\ rb >= ra => rb - ra <= b - a
      /\ qa = qb => rb - ra = b - a
  BY <1>1, SMT
<1> QED BY <1>2 DEF qa, qb, ra, rb

\* A report covers the packets since the report before, and starts anew.
LEMMA Reported ==
  ASSUME Counts, HasBegun, Extended, Covered, Counted, Statistics
  PROVE  Extended' /\ Covered' /\ Counted' /\ LossAsItIs'
<1> DEFINE h == Highest
           n == Cardinality(NewPlaces)
<1>1. /\ h \in Nat /\ covered \in Nat /\ covered <= h /\ h \in arrived
      /\ \A q \in arrived : q <= h /\ q \in Nat
      /\ first \in Nat /\ Number(first) # 0 /\ first <= h
  BY HighestArrived, PlacesAreNumbers DEF Counts, Covered, Extended, HasBegun
<1>2. /\ UNCHANGED <<nackOn, received, arrived, first>> /\ covered' = h
      /\ reported' = [inorder |-> received.inorder, old |-> received.old,
                      seqMax |-> received.seqMax]
      /\ report' = [missing |-> Missing, gaps |-> (h - covered) - n,
                    resent |-> IF nackOn THEN sinceLast.old ELSE 0,
                    exact |-> ~sinceLast.late /\ ~sinceLast.wrapped]
      /\ sinceLast' = NothingNew
  BY DEF Statistics, NewPlaces
<1>3. Highest' = h
  BY <1>2 DEF Highest
<1>4. /\ received.inorder \in Nat /\ received.old \in Nat /\ received.seqMax = Number(h)
      /\ reported.inorder \in Nat /\ reported.old \in Nat /\ received.seqFirst = Number(first)
      /\ nackOn \in BOOLEAN
  BY DEF Counts, Receiveds, Extended
<1>5. IsFiniteSet(NewPlaces) /\ n \in Nat /\ n <= h - covered
  <2> HIDE DEF h
  <2>0. /\ h \in Int /\ covered + 1 \in Int /\ covered + 1 <= h + 1
        /\ h - (covered + 1) + 1 = h - covered
    BY <1>1
  <2>1. NewPlaces \subseteq (covered + 1) .. h
    <3>1. \A q \in arrived : q > covered => q \in (covered + 1) .. h
      BY <1>1, SMT
    <3> QED BY <3>1 DEF NewPlaces
  <2>2. /\ IsFiniteSet((covered + 1) .. h)
        /\ Cardinality((covered + 1) .. h) = h - covered
    <3> DEFINE under == covered + 1
    <3>1. under \in Int /\ h \in Int /\ under <= h + 1 /\ h - under + 1 = h - covered
      BY <2>0
    <3> HIDE DEF under
    <3>2. IsFiniteSet(under .. h) /\ Cardinality(under .. h) = IF under > h THEN 0 ELSE h - under + 1
      BY <3>1, FS_Interval
    <3>3. Cardinality(under .. h) = h - covered
      BY <3>1, <3>2, <1>1
    <3> QED BY <3>2, <3>3 DEF under
  <2> QED BY <2>1, <2>2, FS_Subset, FS_CardinalityType
<1>6. LastReportSeqMax = Number(covered) /\ Number(covered) \in Nat
  <2>1. CASE reported.inorder = 0
    <3>1. covered = first - 1 /\ Number(first - 1) = Number(first) - 1
      BY <1>1, <2>1, BeforeWrap DEF Covered
    <3>2. Number(first) \in Nat /\ Number(first) < 65536
      BY <1>1, Digits
    <3>3. (Number(first) - 1) % Wrap = Number(first) - 1
      <4> DEFINE x == Number(first)
      <4>1. x \in Nat /\ x < 65536 /\ x # 0
        BY <1>1, <3>2
      <4> HIDE DEF x
      <4>2. (x - 1) % Wrap = x - 1
        BY <4>1, SMT DEF Wrap
      <4> QED BY <4>2 DEF x
    <3> QED BY <1>1, <1>4, <2>1, <3>1, <3>2, <3>3 DEF LastReportSeqMax
  <2>2. CASE reported.inorder # 0
    <3>1. reported.seqMax = Number(covered)
      BY <2>2 DEF Covered
    <3>2. Number(covered) \in Nat
      <4>1. covered \in Nat
        BY <1>1
      <4> QED BY <4>1, Digits
    <3> QED BY <2>2, <3>1, <3>2 DEF LastReportSeqMax
  <2> QED BY <2>1, <2>2
<1>7. /\ ExpectedSinceLast \in Nat /\ ExpectedSinceLast <= h - covered
      /\ ~sinceLast.wrapped => ExpectedSinceLast = h - covered
  <2>1. /\ Number(h) \in Nat /\ Number(h) < 65536
        /\ Number(h) >= Number(covered) => Number(h) - Number(covered) <= h - covered
        /\ h \div Wrap = covered \div Wrap => Number(h) - Number(covered) = h - covered
    <3> HIDE DEF h
    <3>1. Number(h) \in Nat /\ Number(h) < 65536
      BY <1>1, Digits
    <3> QED BY <1>1, <3>1, SameWithin
  <2>2. ~sinceLast.wrapped => h \div Wrap = covered \div Wrap
    BY DEF Counted
  <2> DEFINE d == Number(h) - Number(covered)
  <2>3. ExpectedSinceLast = IF Number(covered) > Number(h) THEN 0 ELSE d % Wrap
    BY <1>4, <1>6 DEF ExpectedSinceLast
  <2>4. Number(covered) <= Number(h) => d \in Nat /\ d % Wrap = d
    BY <1>6, <2>1, SMT DEF Wrap
  <2> HIDE DEF h
  <2> QED BY <1>1, <1>6, <2>1, <2>2, <2>3, <2>4
<1>8. /\ sinceLast.old = received.old - reported.old /\ sinceLast.old >= 0
      /\ sinceLast.old \in Int
      /\ received.inorder - reported.inorder >= 0
      /\ n <= received.inorder - reported.inorder + sinceLast.old
      /\ ~sinceLast.late => sinceLast.old = 0 /\ n = received.inorder - reported.inorder
  BY <1>4 DEF Counted
<1>9. ReceivedSinceLast = received.inorder - reported.inorder
                            + IF nackOn THEN 0 ELSE sinceLast.old
  BY <1>4, <1>8 DEF ReceivedSinceLast
<1> HIDE DEF h, n
<1> DEFINE resent == IF nackOn THEN sinceLast.old ELSE 0
<1>10. /\ Missing \in Int /\ Missing <= (h - covered) - n + resent
       /\ ~sinceLast.late /\ ~sinceLast.wrapped => Missing = (h - covered) - n
  <2>1. ReceivedSinceLast \in Int /\ ReceivedSinceLast >= n - resent
    BY <1>4, <1>5, <1>8, <1>9
  <2>2. ~sinceLast.late => ReceivedSinceLast = n
    BY <1>4, <1>5, <1>8, <1>9
  <2>3. resent \in Nat
    BY <1>8
  <2> HIDE DEF resent
  <2> QED BY <1>1, <1>5, <1>7, <2>1, <2>2, <2>3 DEF Missing
<1>11. LossAsItIs'
  <2>1. /\ report'.missing = Missing /\ report'.gaps = (h - covered) - n
        /\ report'.resent = resent
        /\ report'.exact <=> ~sinceLast.late /\ ~sinceLast.wrapped
    BY <1>2
  <2> HIDE DEF resent
  <2> QED BY <1>10, <2>1 DEF LossAsItIs
<1>12. Extended'
  BY <1>2, <1>3 DEF Extended, Number, h
<1>13. Covered'
  BY <1>1, <1>2, <1>3, <1>4 DEF Covered, Number, Counted
<1>14. Counted'
  <2>1. NewPlaces' = {}
    <3> HIDE DEF h
    <3>1. \A q \in arrived : ~(q > h)
      BY <1>1
    <3> QED BY <1>2, <3>1 DEF NewPlaces
  <2>2. Cardinality(NewPlaces') = 0
    BY <2>1, FS_EmptySet
  <2>3. received.inorder > 0
    BY DEF Counted
  <2> QED BY <1>1, <1>2, <1>3, <1>4, <2>2, <2>3 DEF Counted, NothingNew
<1> QED BY <1>11, <1>12, <1>13, <1>14

StatisticsInv == ReceiveInv /\ LossAsItIs

\* The invariant holds at first ...
LEMMA ReceiveStart == ReceiveInit => StatisticsInv
  BY FS_EmptySet
  DEF ReceiveInit, StatisticsInv, ReceiveInv, Counts, Unbegun, HasBegun, LossAsItIs, Receiveds,
      NothingReceived, NothingReported, NothingNew, NoReport

\* ... and is kept by each step.
LEMMA ReceiveStep == StatisticsInv /\ [ReceiveNext]_receiveVars => StatisticsInv'
<1> SUFFICES ASSUME StatisticsInv, [ReceiveNext]_receiveVars PROVE StatisticsInv'
  OBVIOUS
<1>1. Counts'
  BY CountsStep DEF StatisticsInv, ReceiveInv
<1>2. Unbegun'
  <2>1. CASE \E p \in StreamPlaces, old \in BOOLEAN : IncomingRtp(p, old)
    BY <2>1 DEF Unbegun, IncomingRtp
  <2>2. CASE Statistics
    BY <2>2 DEF Unbegun, Statistics, StatisticsInv, ReceiveInv, NothingReceived
  <2>3. CASE ResetStatistics
    BY <2>3 DEF Unbegun, ResetStatistics
  <2>4. CASE UNCHANGED receiveVars
    BY <2>4 DEF Unbegun, receiveVars, StatisticsInv, ReceiveInv
  <2> QED BY <2>1, <2>2, <2>3, <2>4 DEF ReceiveNext
<1>3. SUFFICES ASSUME HasBegun' PROVE Extended' /\ Covered' /\ Counted' /\ LossAsItIs'
  BY <1>1, <1>2 DEF StatisticsInv, ReceiveInv, LossAsItIs
<1>4. CASE \E p \in StreamPlaces, old \in BOOLEAN : IncomingRtp(p, old)
  <2>1. CASE arrived = {}
    BY <1>3, <1>4, <2>1, FirstArrival DEF StatisticsInv, ReceiveInv
  <2>2. CASE arrived # {}
    <3>1. HasBegun
      BY <1>3, <1>4, <2>2 DEF HasBegun, IncomingRtp, Number
    <3> QED BY <1>4, <3>1, LaterArrival DEF StatisticsInv, ReceiveInv
  <2> QED BY <2>1, <2>2
<1>5. CASE Statistics
  <2>1. HasBegun
    BY <1>3, <1>5 DEF HasBegun, Statistics, Number
  <2> QED BY <1>5, <2>1, Reported DEF StatisticsInv, ReceiveInv
<1>6. CASE ResetStatistics
  BY <1>3, <1>6 DEF HasBegun, ResetStatistics
<1>7. CASE UNCHANGED receiveVars
  <2>1. HasBegun
    BY <1>3, <1>7 DEF HasBegun, receiveVars, Number
  <2> QED BY <1>7, <2>1
      DEF StatisticsInv, ReceiveInv, receiveVars, Extended, Covered, Counted, LossAsItIs,
          HasBegun, Highest, NewPlaces, Number
<1> QED BY <1>4, <1>5, <1>6, <1>7 DEF ReceiveNext

\* The extended highest sequence number that is reported is that of the furthest
\* packet, and the loss reported is the packets that are missing, or fewer by those
\* that came late or twice (IncomingPacket(), Statistics()).
THEOREM ReportsCorrect == ReceiveSpec => []ReportsTrue
<1>1. StatisticsInv => ReportsTrue
  <2> SUFFICES ASSUME StatisticsInv, HasBegun PROVE ExtendedNumberRight
    BY DEF ReportsTrue, StatisticsInv, ExtendedNumberRight
  <2>1. /\ Highest \in Nat /\ first \in Nat
        /\ received.seqMax = Number(Highest)
        /\ received.seqWraps = Highest \div Wrap - first \div Wrap
    BY HighestArrived DEF StatisticsInv, ReceiveInv, Counts, Extended, HasBegun
  <2> DEFINE a == Highest \div Wrap
             b == first \div Wrap
             x == Number(Highest)
  <2>2. a \in Nat /\ b \in Nat /\ Highest = 65536 * a + x /\ x \in Nat
    BY <2>1, Digits
  <2>3. /\ received.seqMax = x /\ received.seqWraps = a - b
    BY <2>1
  <2>4. ExtendedNumberRight <=> (received.seqWraps * 65536 + received.seqMax = Highest - 65536 * b)
    BY DEF ExtendedNumberRight, HasBegun, StatisticsInv, Wrap
  <2> HIDE DEF a, b, x
  <2> QED BY <2>2, <2>3, <2>4, SMT
<1> QED BY <1>1, ReceiveStart, ReceiveStep, PTL DEF ReceiveSpec

-----------------------------------------------------------------------------
(* PacedSender: what leaves, and in which order. *)

\* Sequence t is s with x behind its first k members.
Inserts(s, t, k, x) ==
  /\ k \in 0 .. Len(s) /\ Len(t) = Len(s) + 1
  /\ \A i \in 1 .. k : t[i] = s[i]
  /\ t[k + 1] = x
  /\ \A i \in k + 1 .. Len(s) : t[i + 1] = s[i]

LEMMA AppendInserts ==
  ASSUME NEW s \in Seq(Nat), NEW x \in Nat
  PROVE  Inserts(s, Append(s, x), Len(s), x)
BY DEF Inserts

LEMMA Concatenated ==
  ASSUME NEW s \in Seq(Nat), NEW u \in Seq(Nat)
  PROVE  /\ s \o u \in Seq(Nat) /\ Len(s \o u) = Len(s) + Len(u)
         /\ \A i \in 1 .. Len(s) : (s \o u)[i] = s[i]
         /\ \A i \in 1 .. Len(u) : (s \o u)[Len(s) + i] = u[i]
         /\ \A j \in Len(s) + 1 .. Len(s) + Len(u) : (s \o u)[j] = u[j - Len(s)]
OBVIOUS

LEMMA InsertsBefore ==
  ASSUME NEW s \in Seq(Nat), NEW t \in Seq(Nat), NEW u \in Seq(Nat), NEW k, NEW x,
         Inserts(s, t, k, x)
  PROVE  Inserts(s \o u, t \o u, k, x)
<1> DEFINE a == s \o u
           b == t \o u
           n == Len(s)
           m == Len(u)
<1>1. /\ n \in Nat /\ m \in Nat /\ Len(t) = n + 1 /\ k \in 0 .. n
      /\ Len(a) = n + m /\ Len(b) = n + 1 + m
  <2>1. Len(a) = n + m /\ Len(b) = Len(t) + m
    BY Concatenated
  <2>2. n \in Nat /\ m \in Nat /\ Len(t) = n + 1 /\ k \in 0 .. n
    BY DEF Inserts
  <2> QED BY <2>1, <2>2
<1>2. /\ \A i \in 1 .. n : a[i] = s[i]
      /\ \A j \in n + 1 .. n + m : a[j] = u[j - n]
  BY Concatenated
<1>3. /\ \A i \in 1 .. n + 1 : b[i] = t[i]
      /\ \A j \in n + 2 .. n + 1 + m : b[j] = u[j - n - 1]
  <2>1. /\ \A i \in 1 .. Len(t) : b[i] = t[i]
        /\ \A j \in Len(t) + 1 .. Len(t) + m : b[j] = u[j - Len(t)]
    BY Concatenated
  <2> QED BY <1>1, <2>1, SMTT(30)
<1>4. /\ \A i \in 1 .. k : t[i] = s[i]
      /\ t[k + 1] = x
      /\ \A i \in k + 1 .. n : t[i + 1] = s[i]
  BY DEF Inserts
<1> HIDE DEF a, b, n, m
<1>5. \A i \in 1 .. k : b[i] = a[i]
  BY <1>1, <1>2, <1>3, <1>4
<1>6. b[k + 1] = x
  BY <1>1, <1>3, <1>4, SMTT(30)
<1>7. ASSUME NEW i \in k + 1 .. Len(a) PROVE b[i + 1] = a[i]
  <2>1. CASE i <= n
    BY <2>1, <1>1, <1>2, <1>3, <1>4
  <2>2. CASE i > n
    <3>1. i \in n + 1 .. n + m /\ i + 1 \in n + 2 .. n + 1 + m /\ i + 1 - n - 1 = i - n
      BY <2>2, <1>1
    <3>2. a[i] = u[i - n]
      BY <3>1, <1>2
    <3> DEFINE y == i + 1
    <3>3. y \in n + 2 .. n + 1 + m /\ y - n - 1 = i - n
      BY <3>1, <1>1, SMT
    <3> HIDE DEF y
    <3>4. b[y] = u[i - n]
      BY <3>3, <1>3
    <3> QED BY <3>2, <3>4 DEF y
  <2> QED BY <2>1, <2>2, <1>1
<1>8. k \in 0 .. Len(a) /\ Len(b) = Len(a) + 1
  BY <1>1
<1>9. Inserts(a, b, k, x)
  BY <1>5, <1>6, <1>7, <1>8 DEF Inserts
<1> QED BY <1>9 DEF a, b

-----------------------------------------------------------------------------
(* The line of packets. *)

Priorities == {"kHighPriority", "kNormalPriority", "kLowPriority"}
Handed == IF process.at = "send" THEN <<process.packet>> ELSE <<>>

PaceTypes ==
  /\ out \in Seq(Nat) /\ normal \in Seq(Nat) /\ low \in Seq(Nat)
  /\ given \in Seq(Priorities)
  /\ process \in [at : {"idle", "next", "send", "padding"}, packet : Nat]
  /\ \A i \in 1 .. Len(normal) : given[normal[i]] = "kNormalPriority"
  /\ \A i \in 1 .. Len(low) : given[low[i]] = "kLowPriority"

\* Every member of line s is one of the packets given as g says.
LineOf(s, g) ==
  /\ s \in Seq(Nat) /\ Len(s) = Len(g)
  /\ \A j \in 1 .. Len(s) : s[j] \in 1 .. Len(g)
  /\ \A p \in 1 .. Len(g) : \E i \in 1 .. Len(s) : s[i] = p

\* Packets of one priority keep their order, those in w apart.
Ordered(s, g, w) ==
  \A j \in 1 .. Len(s) : \A i \in 1 .. j - 1 :
    g[s[i]] = g[s[j]] /\ {s[i], s[j]} \cap w = {} => s[i] < s[j]

LineInv == PaceTypes /\ LineOf(Line, given) /\ Ordered(Line, given, passed)

\* Packet x was given after those of g, with priority q.
Gives(g, h, q, x) == h = Append(g, q) /\ x = Len(g) + 1

\* What is behind the first k members of s lets x, of priority q, in there.
LetIn(s, g, k, q, x, v) ==
  \A i \in k + 1 .. Len(s) : g[s[i]] # q \/ s[i] \in v \/ x \in v

\* A new packet may come in where those behind it are of another priority, or are
\* said to have lost their place.
LEMMA InsertedInLine ==
  ASSUME NEW s, NEW t \in Seq(Nat), NEW k, NEW g \in Seq(Priorities), NEW h, NEW w, NEW v,
         NEW q \in Priorities, NEW x, Gives(g, h, q, x),
         LineOf(s, g), Ordered(s, g, w), Inserts(s, t, k, x),
         w \subseteq v, LetIn(s, g, k, q, x, v)
  PROVE  LineOf(t, h) /\ Ordered(t, h, v)
<1> DEFINE n == Len(g)
<1>1. /\ n \in Nat /\ Len(h) = n + 1 /\ h[n + 1] = q
      /\ \A i \in 1 .. n : h[i] = g[i]
  BY DEF Gives
<1>2. /\ Len(s) = n /\ \A j \in 1 .. n : s[j] \in 1 .. n
      /\ \A p \in 1 .. n : \E i \in 1 .. n : s[i] = p
  BY DEF LineOf
<1>3. /\ k \in 0 .. n /\ Len(t) = n + 1
      /\ \A i \in 1 .. k : t[i] = s[i]
      /\ t[k + 1] = x
      /\ \A i \in k + 1 .. n : t[i + 1] = s[i]
  BY <1>2 DEF Inserts
<1>4. x = n + 1
  BY DEF Gives
<1>5. \A i \in k + 1 .. n : g[s[i]] # q \/ s[i] \in v \/ x \in v
  BY <1>2 DEF LetIn
<1>6. \A j \in 1 .. n : \A i \in 1 .. j - 1 :
        g[s[i]] = g[s[j]] /\ {s[i], s[j]} \cap w = {} => s[i] < s[j]
  BY <1>2 DEF Ordered
<1> HIDE DEF n
<1>7. \A j \in 1 .. n + 1 : \/ j \in 1 .. k /\ t[j] = s[j] /\ j \in 1 .. n
                            \/ j = k + 1 /\ t[j] = x
                            \/ j - 1 \in k + 1 .. n /\ t[j] = s[j - 1] /\ j - 1 \in 1 .. n
  <2> TAKE j \in 1 .. n + 1
  <2>1. CASE j <= k
    BY <2>1, <1>1, <1>3
  <2>2. CASE j = k + 1
    BY <2>2, <1>3
  <2>3. CASE j > k + 1
    <3>1. j - 1 \in k + 1 .. n /\ j - 1 \in 1 .. n /\ (j - 1) + 1 = j
      BY <2>3, <1>1, <1>3
    <3>2. t[(j - 1) + 1] = s[j - 1]
      BY <3>1, <1>3
    <3> QED BY <3>1, <3>2
  <2> QED BY <2>1, <2>2, <2>3, <1>1, <1>3
<1>8. \A j \in 1 .. Len(t) : t[j] \in 1 .. Len(h)
  <2> SUFFICES ASSUME NEW j \in 1 .. n + 1 PROVE t[j] \in 1 .. n + 1
    BY <1>1, <1>3
  <2>1. t[j] \in 1 .. n \/ t[j] = n + 1
    BY <1>2, <1>4, <1>7
  <2> QED BY <2>1, <1>1
<1>9. \A p \in 1 .. Len(h) : \E i \in 1 .. Len(t) : t[i] = p
  <2> SUFFICES ASSUME NEW p \in 1 .. n + 1 PROVE \E i \in 1 .. n + 1 : t[i] = p
    BY <1>1, <1>3
  <2>1. CASE p = n + 1
    <3>1. k + 1 \in 1 .. n + 1
      BY <1>1, <1>3
    <3> QED BY <2>1, <3>1, <1>3, <1>4
  <2>2. CASE p \in 1 .. n
    <3>1. PICK i \in 1 .. n : s[i] = p
      BY <2>2, <1>2
    <3>2. CASE i <= k
      <4>1. i \in 1 .. k /\ i \in 1 .. n + 1
        BY <3>2, <1>1, <1>3
      <4> QED BY <4>1, <3>1, <1>3
    <3>3. CASE i > k
      <4>1. i \in k + 1 .. n /\ i + 1 \in 1 .. n + 1
        BY <3>3, <1>1, <1>3
      <4>2. t[i + 1] = p
        BY <4>1, <3>1, <1>3
      <4> QED BY <4>1, <4>2
    <3> QED BY <3>2, <3>3, <1>1, <1>3
  <2> QED BY <2>1, <2>2, <1>1
<1>10. Ordered(t, h, v)
  <2> SUFFICES ASSUME NEW j \in 1 .. n + 1, NEW i \in 1 .. j - 1,
                      h[t[i]] = h[t[j]], {t[i], t[j]} \cap v = {}
               PROVE  t[i] < t[j]
    BY <1>3 DEF Ordered
  <2>1. i \in 1 .. n + 1 /\ i < j
    BY <1>1
  <2>2. /\ \/ i \in 1 .. k /\ t[i] = s[i] /\ i \in 1 .. n
           \/ i = k + 1 /\ t[i] = x
           \/ i - 1 \in k + 1 .. n /\ t[i] = s[i - 1] /\ i - 1 \in 1 .. n
        /\ \/ j \in 1 .. k /\ t[j] = s[j] /\ j \in 1 .. n
           \/ j = k + 1 /\ t[j] = x
           \/ j - 1 \in k + 1 .. n /\ t[j] = s[j - 1] /\ j - 1 \in 1 .. n
    BY <2>1, <1>7
  <2>3. t[i] \notin v /\ t[j] \notin v
    OBVIOUS
  <2>4. ASSUME NEW a \in 1 .. n, NEW b \in 1 .. n, a < b, t[i] = s[a], t[j] = s[b]
        PROVE  t[i] < t[j]
    <3>1. s[a] \in 1 .. n /\ s[b] \in 1 .. n
      BY <1>2
    <3>2. g[s[a]] = g[s[b]]
      BY <3>1, <2>4, <1>1
    <3>3. {s[a], s[b]} \cap w = {}
      BY <2>3, <2>4
    <3>4. a \in 1 .. b - 1
      BY <2>4, <1>1
    <3> QED BY <3>2, <3>3, <3>4, <2>4, <1>6
  <2>5. CASE t[j] = x /\ j = k + 1
    <3>1. i \in 1 .. k /\ t[i] = s[i] /\ i \in 1 .. n
      BY <2>1, <2>2, <2>5, <1>3, <1>1
    <3>2. s[i] \in 1 .. n
      BY <3>1, <1>2
    <3> QED BY <3>1, <3>2, <2>5, <1>1, <1>4
  <2>6. ~(i = k + 1 /\ t[i] = x)
    <3> SUFFICES ASSUME i = k + 1, t[i] = x PROVE FALSE
      OBVIOUS
    <3>1. j - 1 \in k + 1 .. n /\ t[j] = s[j - 1] /\ j - 1 \in 1 .. n
      BY <2>1, <2>2, <1>1, <1>3
    <3>2. g[s[j - 1]] # q
      BY <3>1, <2>3, <1>5
    <3>3. h[t[j]] = g[s[j - 1]]
      BY <3>1, <1>1, <1>2, ZenonT(40)
    <3>4. h[t[i]] = q
      BY <1>1, <1>4
    <3> QED BY <3>2, <3>3, <3>4
  <2>7. \A a, b : a < b /\ a \in 1 .. n /\ b \in 1 .. n /\ t[i] = s[a] /\ t[j] = s[b]
                    => t[i] < t[j]
    BY <2>4
  <2>8. i \in Int /\ j \in Int /\ k \in Int
    BY <1>3
  <2>9. CASE i \in 1 .. k /\ t[i] = s[i] /\ i \in 1 .. n
    <3>1. CASE j \in 1 .. k /\ t[j] = s[j] /\ j \in 1 .. n
      BY <2>1, <2>7, <2>9, <3>1
    <3>2. CASE j - 1 \in k + 1 .. n /\ t[j] = s[j - 1] /\ j - 1 \in 1 .. n
      <4>1. i < j - 1
        BY <2>8, <2>9, <3>2
      <4> QED BY <4>1, <2>7, <2>9, <3>2
    <3> QED BY <2>2, <2>5, <3>1, <3>2
  <2>10. CASE i - 1 \in k + 1 .. n /\ t[i] = s[i - 1] /\ i - 1 \in 1 .. n
    <3>1. j - 1 \in k + 1 .. n /\ t[j] = s[j - 1] /\ j - 1 \in 1 .. n
      BY <2>1, <2>2, <2>8, <2>10
    <3>2. i - 1 < j - 1
      BY <2>1, <2>8
    <3> QED BY <3>1, <3>2, <2>7, <2>10
  <2> QED BY <2>2, <2>6, <2>9, <2>10
<1> QED BY <1>1, <1>3, <1>8, <1>9, <1>10 DEF LineOf

LEMMA LineParts ==
  ASSUME PaceTypes
  PROVE  /\ Handed \in Seq(Nat) /\ Len(Handed) <= 1
         /\ \A i \in 1 .. Len(Handed) : Handed[i] \in InHand
         /\ out \o Handed \in Seq(Nat) /\ out \o Handed \o normal \in Seq(Nat)
         /\ Line = ((out \o Handed) \o normal) \o low /\ Line \in Seq(Nat)
<1>1. process.packet \in Nat
  BY DEF PaceTypes
<1>2. Handed \in Seq(Nat) /\ Len(Handed) <= 1
  BY <1>1 DEF Handed
<1>3. \A i \in 1 .. Len(Handed) : Handed[i] \in InHand
  BY <1>1 DEF Handed, InHand
<1>4. out \o Handed \in Seq(Nat) /\ out \o Handed \o normal \in Seq(Nat)
  BY <1>2 DEF PaceTypes
<1>5. Line = ((out \o Handed) \o normal) \o low
  BY DEF Line, Handed
<1>6. Line \in Seq(Nat)
  BY <1>4, <1>5 DEF PaceTypes
<1> QED BY <1>2, <1>3, <1>4, <1>5, <1>6

\* What is behind the packets that are out.
LEMMA BehindOut ==
  ASSUME PaceTypes, NEW i \in Len(out) + 1 .. Len(Line)
  PROVE  \/ Line[i] \in InHand
         \/ normal # <<>> /\ given[Line[i]] = "kNormalPriority"
         \/ low # <<>> /\ given[Line[i]] = "kLowPriority"
<1> DEFINE a == out \o Handed
           b == a \o normal
<1>1. /\ out \in Seq(Nat) /\ normal \in Seq(Nat) /\ low \in Seq(Nat) /\ Handed \in Seq(Nat)
      /\ a \in Seq(Nat) /\ b \in Seq(Nat) /\ Line = b \o low
  BY LineParts DEF PaceTypes
<1>2. Len(a) = Len(out) + Len(Handed) /\ Len(b) = Len(a) + Len(normal)
      /\ Len(Line) = Len(b) + Len(low)
      /\ Len(out) \in Nat /\ Len(Handed) \in Nat /\ Len(normal) \in Nat /\ Len(low) \in Nat
  BY <1>1, Concatenated
<1>3. /\ \A j \in Len(out) + 1 .. Len(out) + Len(Handed) : a[j] = Handed[j - Len(out)]
      /\ \A j \in 1 .. Len(a) : b[j] = a[j]
      /\ \A j \in Len(a) + 1 .. Len(a) + Len(normal) : b[j] = normal[j - Len(a)]
      /\ \A j \in 1 .. Len(b) : Line[j] = b[j]
      /\ \A j \in Len(b) + 1 .. Len(b) + Len(low) : Line[j] = low[j - Len(b)]
  BY <1>1, Concatenated, SMTT(30)
<1> HIDE DEF a, b
<1>4. CASE i <= Len(a)
  <2>1. /\ i \in Len(out) + 1 .. Len(out) + Len(Handed) /\ i \in 1 .. Len(a)
        /\ i \in 1 .. Len(b) /\ i - Len(out) \in 1 .. Len(Handed)
    BY <1>2, <1>4
  <2>2. Line[i] = Handed[i - Len(out)]
    BY <2>1, <1>3
  <2> QED BY <2>1, <2>2, LineParts
<1>5. CASE i > Len(a) /\ i <= Len(b)
  <2>1. /\ i \in Len(a) + 1 .. Len(a) + Len(normal) /\ i \in 1 .. Len(b)
        /\ i - Len(a) \in 1 .. Len(normal)
    BY <1>2, <1>5
  <2>2. Line[i] = normal[i - Len(a)]
    BY <2>1, <1>3
  <2>3. normal # <<>>
    BY <2>1
  <2> QED BY <2>1, <2>2, <2>3 DEF PaceTypes
<1>6. CASE i > Len(b)
  <2>1. /\ i \in Len(b) + 1 .. Len(b) + Len(low)
        /\ i - Len(b) \in 1 .. Len(low)
    BY <1>2, <1>6
  <2>2. Line[i] = low[i - Len(b)]
    BY <2>1, <1>3
  <2>3. low # <<>>
    BY <2>1
  <2> QED BY <2>1, <2>2, <2>3 DEF PaceTypes
<1> QED BY <1>2, <1>4, <1>5, <1>6

LEMMA PaceStart == PaceInit => LineInv
<1> SUFFICES ASSUME PaceInit PROVE LineInv
  OBVIOUS
<1>1. PaceTypes
  <2>1. process = [at |-> "idle", packet |-> 0] /\ out = <<>> /\ normal = <<>> /\ low = <<>>
        /\ given = <<>>
    BY DEF PaceInit, AtRest
  <2> QED BY <2>1 DEF PaceTypes
<1>2. Line = <<>>
  BY DEF Line, PaceInit, AtRest
<1>3. given = <<>>
  BY DEF PaceInit
<1> QED BY <1>1, <1>2, <1>3 DEF LineInv, LineOf, Ordered

\* What waits was given.
LEMMA QueuedGiven ==
  ASSUME LineInv
  PROVE  /\ \A i \in 1 .. Len(normal) : normal[i] \in 1 .. Len(given)
         /\ \A i \in 1 .. Len(low) : low[i] \in 1 .. Len(given)
<1> DEFINE a == out \o Handed
           b == a \o normal
<1>1. /\ normal \in Seq(Nat) /\ low \in Seq(Nat)
      /\ a \in Seq(Nat) /\ b \in Seq(Nat) /\ Line = b \o low
  BY LineParts DEF PaceTypes, LineInv
<1>2. /\ Len(b) = Len(a) + Len(normal) /\ Len(Line) = Len(b) + Len(low)
      /\ Len(a) \in Nat /\ Len(b) \in Nat /\ Len(normal) \in Nat /\ Len(low) \in Nat
  BY <1>1, Concatenated
<1>3. /\ \A j \in 1 .. Len(normal) : b[Len(a) + j] = normal[j]
      /\ \A j \in 1 .. Len(b) : Line[j] = b[j]
      /\ \A j \in 1 .. Len(low) : Line[Len(b) + j] = low[j]
  BY <1>1, Concatenated
<1>4. \A j \in 1 .. Len(Line) : Line[j] \in 1 .. Len(given)
  BY DEF LineInv, LineOf
<1> HIDE DEF a, b
<1>5. ASSUME NEW i \in 1 .. Len(normal) PROVE normal[i] \in 1 .. Len(given)
  <2> DEFINE y == Len(a) + i
  <2>1. y \in 1 .. Len(b) /\ y \in 1 .. Len(Line)
    BY <1>2
  <2>2. b[y] = normal[i]
    BY <1>3
  <2> HIDE DEF y
  <2> QED BY <2>1, <2>2, <1>3, <1>4
<1>6. ASSUME NEW i \in 1 .. Len(low) PROVE low[i] \in 1 .. Len(given)
  <2> DEFINE y == Len(b) + i
  <2>1. y \in 1 .. Len(Line)
    BY <1>2
  <2>2. Line[y] = low[i]
    BY <1>3
  <2> HIDE DEF y
  <2> QED BY <2>1, <2>2, <1>4
<1> QED BY <1>5, <1>6

LEMMA LinePartsNext ==
  PaceTypes' => (Line = ((out \o Handed) \o normal) \o low /\ Line \in Seq(Nat))'
<1>1. PaceTypes => Line = ((out \o Handed) \o normal) \o low /\ Line \in Seq(Nat)
  BY LineParts
<1> QED BY <1>1, PTL

LEMMA AppendedBehind ==
  ASSUME NEW s \in Seq(Nat), NEW u \in Seq(Nat), NEW x \in Nat
  PROVE  s \o Append(u, x) = Append(s \o u, x)
OBVIOUS

\* A packet comes in where those behind it let it.
LEMMA ComesIn ==
  ASSUME LineInv, PaceTypes', NEW q \in Priorities, given' = Append(given, q), NEW k,
         Inserts(Line, Line', k, Len(given) + 1), passed \subseteq passed',
         LetIn(Line, given, k, q, Len(given) + 1, passed')
  PROVE  LineInv'
<1>1. given \in Seq(Priorities) /\ LineOf(Line, given) /\ Ordered(Line, given, passed)
  BY DEF LineInv, PaceTypes
<1>2. Line' \in Seq(Nat)
  BY LinePartsNext
<1>3. LineOf(Line', given') /\ Ordered(Line', given', passed')
  <2> DEFINE s == Line
             t == Line'
             h == given'
             v == passed'
             x == Len(given) + 1
             g == given
             w == passed
  <2>1. /\ LineOf(s, g) /\ Ordered(s, g, w) /\ Inserts(s, t, k, x)
        /\ t \in Seq(Nat) /\ Gives(g, h, q, x) /\ w \subseteq v
        /\ LetIn(s, g, k, q, x, v) /\ g \in Seq(Priorities)
    BY <1>1, <1>2 DEF Gives
  <2> HIDE DEF s, t, h, v, x, g, w
  <2>2. LineOf(t, h) /\ Ordered(t, h, v)
    BY <2>1, InsertedInLine
  <2> QED BY <2>2 DEF s, t, h, v
<1> QED BY <1>3 DEF LineInv, LineOf, Ordered

\* The types, when a packet is given.
LEMMA GivenTypes ==
  ASSUME LineInv, NEW q \in Priorities, PacedSendPacket(q)
  PROVE  PaceTypes'
<1> DEFINE x == Len(given')
<1>1. /\ out \in Seq(Nat) /\ normal \in Seq(Nat) /\ low \in Seq(Nat)
      /\ given \in Seq(Priorities) /\ given' = Append(given, q) /\ process' = process
  BY DEF LineInv, PaceTypes, PacedSendPacket
<1>2. /\ given' \in Seq(Priorities) /\ x = Len(given) + 1 /\ x \in Nat
      /\ given'[x] = q /\ \A i \in 1 .. Len(given) : given'[i] = given[i]
  BY <1>1
<1>3. /\ \A i \in 1 .. Len(normal) : given'[normal[i]] = "kNormalPriority"
      /\ \A i \in 1 .. Len(low) : given'[low[i]] = "kLowPriority"
  BY <1>2, QueuedGiven DEF LineInv, PaceTypes
<1>4. \/ out' = Append(out, x) /\ normal' = normal /\ low' = low
      \/ out' = out /\ normal' = Append(normal, x) /\ low' = low /\ q = "kNormalPriority"
      \/ out' = out /\ normal' = normal /\ low' = Append(low, x) /\ q = "kLowPriority"
  BY DEF PacedSendPacket, LetThrough, Priorities
<1> HIDE DEF x
<1>5. \A s \in Seq(Nat) : /\ Append(s, x) \in Seq(Nat)
                          /\ \A i \in 1 .. Len(Append(s, x)) :
                               Append(s, x)[i] = x \/ (i \in 1 .. Len(s) /\ Append(s, x)[i] = s[i])
  BY <1>2
<1>6. out' \in Seq(Nat) /\ normal' \in Seq(Nat) /\ low' \in Seq(Nat)
  BY <1>1, <1>4, <1>5
<1>7. /\ \A i \in 1 .. Len(normal') : given'[normal'[i]] = "kNormalPriority"
      /\ \A i \in 1 .. Len(low') : given'[low'[i]] = "kLowPriority"
  <2>1. CASE normal' = normal /\ low' = low
    BY <2>1, <1>3
  <2>2. CASE normal' = Append(normal, x) /\ low' = low /\ q = "kNormalPriority"
    <3>1. \A i \in 1 .. Len(normal') : normal'[i] = x \/ (i \in 1 .. Len(normal) /\ normal'[i] = normal[i])
      BY <2>2, <1>1, <1>5
    <3> QED BY <2>2, <3>1, <1>2, <1>3
  <2>3. CASE normal' = normal /\ low' = Append(low, x) /\ q = "kLowPriority"
    <3>1. \A i \in 1 .. Len(low') : low'[i] = x \/ (i \in 1 .. Len(low) /\ low'[i] = low[i])
      BY <2>3, <1>1, <1>5
    <3> QED BY <2>3, <3>1, <1>2, <1>3
  <2> QED BY <2>1, <2>2, <2>3, <1>4
<1>8. process' \in [at : {"idle", "next", "send", "padding"}, packet : Nat]
  BY <1>1 DEF LineInv, PaceTypes
<1> QED BY <1>2, <1>6, <1>7, <1>8 DEF PaceTypes

LEMMA SendInLine ==
  ASSUME LineInv, NEW q \in Priorities, PacedSendPacket(q)
  PROVE  LineInv'
<1> DEFINE x == Len(given) + 1
<1>1. PaceTypes /\ PaceTypes'
  BY GivenTypes DEF LineInv
<1>2. /\ out \in Seq(Nat) /\ normal \in Seq(Nat) /\ low \in Seq(Nat) /\ Handed \in Seq(Nat)
      /\ out \o Handed \in Seq(Nat) /\ (out \o Handed) \o normal \in Seq(Nat)
      /\ Line = ((out \o Handed) \o normal) \o low
      /\ given' = Append(given, q) /\ x \in Nat /\ Len(given') = x /\ process' = process
  <2>1. /\ given' = Append(given, q) /\ process' = process
        /\ given \in Seq(Priorities)
    BY <1>1 DEF PaceTypes, PacedSendPacket
  <2>2. x \in Nat /\ Len(given') = x
    BY <2>1
  <2>3. out \in Seq(Nat) /\ normal \in Seq(Nat) /\ low \in Seq(Nat)
    BY <1>1 DEF PaceTypes
  <2> QED BY <1>1, <2>1, <2>2, <2>3, LineParts
<1>3. Handed' = Handed
  BY <1>2 DEF Handed
<1>4. Line' = ((out' \o Handed) \o normal') \o low'
  BY <1>1, <1>3, LinePartsNext
<1> HIDE DEF x
<1>5. ASSUME NEW inLine \in BOOLEAN, LetThrough(x, inLine),
             inLine => MayGo(q) /\ q # "kHighPriority"
      PROVE  LineInv'
  <2>1. /\ out' = Append(out, x) /\ normal' = normal /\ low' = low
        /\ passed' = passed \cup InHand \cup (IF inLine THEN {} ELSE {x})
    BY <1>5 DEF LetThrough
  <2>2. Inserts(Line, Line', Len(out), x)
    <3> DEFINE o == Append(out, x)
    <3>1. o \in Seq(Nat) /\ Inserts(out, o, Len(out), x)
      BY <1>2, AppendInserts
    <3>2. Line' = ((o \o Handed) \o normal) \o low /\ o \o Handed \in Seq(Nat)
          /\ (o \o Handed) \o normal \in Seq(Nat)
      BY <1>2, <1>4, <2>1, <3>1
    <3> HIDE DEF o
    <3>3. Inserts(out \o Handed, o \o Handed, Len(out), x)
      BY ONLY <1>2, <3>1, InsertsBefore
    <3>4. Inserts((out \o Handed) \o normal, (o \o Handed) \o normal, Len(out), x)
      BY ONLY <1>2, <3>2, <3>3, InsertsBefore
    <3>5. Inserts(((out \o Handed) \o normal) \o low, ((o \o Handed) \o normal) \o low,
                  Len(out), x)
      BY ONLY <1>2, <3>2, <3>4, InsertsBefore
    <3> QED BY <3>2, <3>5, <1>2
  <2>3. ASSUME NEW i \in Len(out) + 1 .. Len(Line)
        PROVE  given[Line[i]] # q \/ Line[i] \in passed' \/ x \in passed'
    <3>1. CASE ~inLine
      BY <3>1, <2>1
    <3>2. CASE inLine
      <4>1. normal = <<>> /\ (q = "kLowPriority" => low = <<>>)
        BY <3>2, <1>5 DEF MayGo
      <4>2. \/ Line[i] \in InHand
            \/ low # <<>> /\ given[Line[i]] = "kLowPriority"
        BY <1>1, <4>1, BehindOut
      <4> QED BY <4>1, <4>2, <2>1
    <3> QED BY <3>1, <3>2
  <2>4. passed \subseteq passed'
    BY <2>1
  <2>5. LetIn(Line, given, Len(out), q, x, passed')
    BY <2>3 DEF LetIn
  <2> QED BY <1>1, <1>2, <2>2, <2>4, <2>5, ComesIn DEF x
<1>6. ASSUME normal' = Append(normal, x), low' = low, out' = out, passed' = passed,
             q = "kNormalPriority"
      PROVE  LineInv'
  <2> DEFINE a == out \o Handed
             b == a \o normal
             k == Len(b)
  <2>1. a \in Seq(Nat) /\ b \in Seq(Nat) /\ Line = b \o low /\ k \in Nat
    BY <1>2
  <2>2. a \o Append(normal, x) = Append(b, x)
    BY <1>2, <2>1, AppendedBehind
  <2>3. Line' = Append(b, x) \o low
    BY <1>4, <1>6, <2>2
  <2>4. /\ \A j \in k + 1 .. k + Len(low) : Line[j] = low[j - k]
        /\ Len(Line) = k + Len(low) /\ Len(low) \in Nat
    BY <1>2, <2>1, Concatenated
  <2> HIDE DEF a, b, k
  <2>5. Inserts(b, Append(b, x), k, x)
    BY <1>2, <2>1, AppendInserts DEF k
  <2>6. Append(b, x) \in Seq(Nat)
    BY <1>2, <2>1
  <2>7. Inserts(b \o low, Append(b, x) \o low, k, x)
    BY ONLY <1>2, <2>1, <2>5, <2>6, InsertsBefore
  <2>8. Inserts(Line, Line', k, x)
    BY <2>1, <2>3, <2>7
  <2>9. ASSUME NEW i \in k + 1 .. Len(Line) PROVE given[Line[i]] # q
    <3>1. i - k \in 1 .. Len(low) /\ Line[i] = low[i - k]
      BY <2>1, <2>4
    <3>2. given[low[i - k]] = "kLowPriority"
      BY <1>1, <3>1 DEF PaceTypes
    <3> QED BY <3>1, <3>2, <1>6
  <2>10. LetIn(Line, given, k, q, x, passed')
    BY <2>9 DEF LetIn
  <2> QED BY <1>1, <1>2, <1>6, <2>8, <2>10, ComesIn DEF x
<1>7. ASSUME low' = Append(low, x), normal' = normal, out' = out, passed' = passed
      PROVE  LineInv'
  <2> DEFINE b == (out \o Handed) \o normal
  <2>1. Line' = b \o Append(low, x) /\ b \in Seq(Nat) /\ Line = b \o low
    BY <1>2, <1>4, <1>7
  <2>2. b \o Append(low, x) = Append(b \o low, x) /\ Line \in Seq(Nat)
    <3>1. b \o Append(low, x) = Append(b \o low, x)
      BY <1>2, <2>1, AppendedBehind
    <3>2. b \o low \in Seq(Nat)
      BY <1>2, <2>1
    <3> QED BY <2>1, <3>1, <3>2
  <2>3. Line' = Append(Line, x)
    BY <2>1, <2>2
  <2>4. Inserts(Line, Line', Len(Line), x)
    BY <1>2, <2>2, <2>3, AppendInserts
  <2>5. LetIn(Line, given, Len(Line), q, x, passed')
    <3>1. Len(Line) \in Nat
      BY <2>2
    <3> HIDE DEF Line
    <3> QED BY <3>1 DEF LetIn
  <2> QED BY <1>1, <1>2, <1>7, <2>4, <2>5, ComesIn DEF x
<1> QED
  <2>1. \/ \E l \in BOOLEAN : LetThrough(x, l) /\ (l => MayGo(q) /\ q # "kHighPriority")
        \/ /\ normal' = Append(normal, x) /\ low' = low /\ out' = out /\ passed' = passed
           /\ q = "kNormalPriority"
        \/ low' = Append(low, x) /\ normal' = normal /\ out' = out /\ passed' = passed
    BY <1>2 DEF PacedSendPacket
  <2> QED BY <2>1, <1>5, <1>6, <1>7

\* The process thread takes a packet from a queue, and keeps its place.
LEMMA TakenInLine ==
  ASSUME LineInv, GetNextPacket
  PROVE  LineInv'
<1>1. /\ PaceTypes /\ process.at = "next" /\ given' = given /\ passed' = passed /\ out' = out
      /\ out \in Seq(Nat) /\ normal \in Seq(Nat) /\ low \in Seq(Nat)
  BY DEF LineInv, PaceTypes, GetNextPacket
<1>2. Handed = <<>>
  BY <1>1 DEF Handed
<1>3. Line = (out \o normal) \o low
  <2>1. out \o <<>> = out
    BY <1>1
  <2> QED BY <1>1, <1>2, <2>1, LineParts
<1>4. CASE normal # <<>> /\ process' = [at |-> "send", packet |-> Head(normal)]
           /\ normal' = Tail(normal) /\ low' = low
  <2>1. /\ Head(normal) \in Nat /\ Tail(normal) \in Seq(Nat)
        /\ normal = <<Head(normal)>> \o Tail(normal)
        /\ \A i \in 1 .. Len(Tail(normal)) : Tail(normal)[i] = normal[i + 1]
        /\ Len(Tail(normal)) = Len(normal) - 1 /\ Len(normal) \in Nat
    BY <1>1, <1>4
  <2>2. \A i \in 1 .. Len(normal') : given'[normal'[i]] = "kNormalPriority"
    BY <1>1, <1>4, <2>1 DEF PaceTypes
  <2>3. process' \in [at : {"idle", "next", "send", "padding"}, packet : Nat]
    BY <1>4, <2>1
  <2>4. PaceTypes'
    BY <1>1, <1>4, <2>1, <2>2, <2>3 DEF PaceTypes
  <2>5. process'.at = "send" /\ process'.packet = Head(normal)
    BY <1>4
  <2>6. Line' = ((out \o <<Head(normal)>>) \o Tail(normal)) \o low
    BY <2>5, <1>1, <1>4 DEF Line
  <2>7. (out \o <<Head(normal)>>) \o Tail(normal) = out \o normal
    BY <1>1, <2>1, SMTT(30)
  <2>8. Line' = Line
    BY <1>3, <2>6, <2>7
  <2> QED BY <1>1, <2>4, <2>8 DEF LineInv, LineOf, Ordered
<1>5. CASE normal = <<>> /\ low # <<>> /\ process' = [at |-> "send", packet |-> Head(low)]
           /\ low' = Tail(low) /\ normal' = normal
  <2>1. /\ Head(low) \in Nat /\ Tail(low) \in Seq(Nat)
        /\ low = <<Head(low)>> \o Tail(low)
        /\ \A i \in 1 .. Len(Tail(low)) : Tail(low)[i] = low[i + 1]
        /\ Len(Tail(low)) = Len(low) - 1 /\ Len(low) \in Nat
    BY <1>1, <1>5
  <2>2. \A i \in 1 .. Len(low') : given'[low'[i]] = "kLowPriority"
    BY <1>1, <1>5, <2>1 DEF PaceTypes
  <2>3. process' \in [at : {"idle", "next", "send", "padding"}, packet : Nat]
    BY <1>5, <2>1
  <2>4. PaceTypes'
    BY <1>1, <1>5, <2>1, <2>2, <2>3 DEF PaceTypes
  <2>5. process'.at = "send" /\ process'.packet = Head(low)
    BY <1>5
  <2>6. Line' = ((out \o <<Head(low)>>) \o <<>>) \o Tail(low)
    BY <2>5, <1>1, <1>5 DEF Line
  <2>7. ((out \o <<Head(low)>>) \o <<>>) \o Tail(low) = (out \o <<>>) \o low
    BY <1>1, <2>1, SMTT(30)
  <2>8. Line' = Line
    BY <1>3, <1>5, <2>6, <2>7
  <2> QED BY <1>1, <2>4, <2>8 DEF LineInv, LineOf, Ordered
<1> QED BY <1>4, <1>5 DEF GetNextPacket

LEMMA SentInLine ==
  ASSUME LineInv, TimeToSendPacket
  PROVE  LineInv'
<1>1. /\ PaceTypes /\ process.at = "send" /\ process.packet \in Nat
      /\ given' = given /\ passed' = passed /\ normal' = normal /\ low' = low
      /\ out' = Append(out, process.packet) /\ process' = [AtRest EXCEPT !.at = "next"]
      /\ out \in Seq(Nat) /\ normal \in Seq(Nat) /\ low \in Seq(Nat)
  BY DEF LineInv, PaceTypes, TimeToSendPacket
<1>2. process' = [at |-> "next", packet |-> 0]
  BY <1>1 DEF AtRest
<1>3. out' \in Seq(Nat)
  BY <1>1
<1>4. PaceTypes'
  <2>1. process' \in [at : {"idle", "next", "send", "padding"}, packet : Nat]
    BY <1>2
  <2>2. /\ \A i \in 1 .. Len(normal) : given[normal[i]] = "kNormalPriority"
        /\ \A i \in 1 .. Len(low) : given[low[i]] = "kLowPriority"
        /\ given \in Seq(Priorities)
    BY <1>1 DEF PaceTypes
  <2> QED BY <1>1, <1>3, <2>1, <2>2 DEF PaceTypes
<1>5. out \o <<process.packet>> = Append(out, process.packet)
  BY <1>1
<1>6. out' \o <<>> = out'
  BY <1>3
<1>7. Line' = (out' \o <<>>) \o normal \o low
  BY <1>1, <1>2 DEF Line
<1>8. Line = out' \o normal \o low
  BY <1>1, <1>5 DEF Line
<1>9. Line' = Line
  BY <1>6, <1>7, <1>8
<1> QED BY <1>1, <1>4, <1>9 DEF LineInv, LineOf, Ordered

\* Every other step leaves the line as it is.
LEMMA RestOfLine ==
  ASSUME LineInv, UNCHANGED <<given, out, normal, low, passed>>,
         \/ UNCHANGED process
         \/ process.at # "send" /\ process' \in [at : {"idle", "next", "padding"}, packet : {0}]
  PROVE  LineInv'
<1>1. PaceTypes'
  <2>1. PaceTypes
    BY DEF LineInv
  <2>2. process' \in [at : {"idle", "next", "send", "padding"}, packet : Nat]
    BY <2>1 DEF PaceTypes
  <2> QED BY <2>1, <2>2 DEF PaceTypes
<1>2. Line' = Line
  <2>1. CASE UNCHANGED process
    BY <2>1 DEF Line
  <2>2. CASE process.at # "send" /\ process'.at # "send"
    BY <2>2 DEF Line
  <2> QED BY <2>1, <2>2
<1> QED BY <1>1, <1>2 DEF LineInv, LineOf, Ordered

LEMMA PaceStep ==
  ASSUME LineInv, [PaceNext]_paceVars
  PROVE  LineInv'
<1>1. CASE \E p \in Priorities : PacedSendPacket(p)
  BY <1>1, SendInLine
<1>2. CASE GetNextPacket
  BY <1>2, TakenInLine
<1>3. CASE TimeToSendPacket
  BY <1>3, SentInLine
<1>4. CASE SetStatus \/ (\E r \in Rates : UpdateBitrate(r)) \/ PaceClock
  BY <1>4, RestOfLine DEF SetStatus, UpdateBitrate, PaceClock
<1>5. CASE Process
  <2>1. process' = [at |-> "next", packet |-> 0] /\ process.at # "send"
    BY <1>5 DEF Process, AtRest
  <2>2. UNCHANGED <<given, out, normal, low, passed>>
    BY <1>5 DEF Process
  <2> QED BY <2>1, <2>2, RestOfLine
<1>6. CASE LoopEnds
  <2>1. /\ process.at # "send"
        /\ process' \in {[at |-> "padding", packet |-> 0], [at |-> "idle", packet |-> 0]}
    BY <1>6 DEF LoopEnds, AtRest
  <2> QED BY <1>6, <2>1, RestOfLine DEF LoopEnds
<1>7. CASE PaddingSent
  <2>1. process' = [at |-> "idle", packet |-> 0] /\ process.at # "send"
    BY <1>7 DEF PaddingSent, AtRest
  <2> QED BY <1>7, <2>1, RestOfLine DEF PaddingSent
<1>8. CASE UNCHANGED paceVars
  BY <1>8, RestOfLine DEF paceVars
<1> QED BY <1>1, <1>2, <1>3, <1>4, <1>5, <1>6, <1>7, <1>8 DEF PaceNext, Priorities

LEMMA LineMeans == LineInv => LeavesOnceInLine
<1> SUFFICES ASSUME LineInv PROVE LeavesOnceInLine
  OBVIOUS
<1>1. /\ given \in Seq(Priorities) /\ Line \in Seq(Nat) /\ Len(Line) = Len(given)
      /\ \A p \in 1 .. Len(given) : \E i \in 1 .. Len(Line) : Line[i] = p
      /\ \A j \in 1 .. Len(Line) : \A i \in 1 .. j - 1 :
           given[Line[i]] = given[Line[j]] /\ {Line[i], Line[j]} \cap passed = {}
             => Line[i] < Line[j]
  BY DEF LineInv, PaceTypes, LineOf, Ordered
<1>2. DOMAIN given = 1 .. Len(given) /\ DOMAIN Line = 1 .. Len(Line)
  BY <1>1
<1> HIDE DEF Line
<1> QED BY <1>1, <1>2 DEF LeavesOnceInLine

\* Whatever the priorities, the rates and the number of packets, each packet leaves
\* once, and behind the earlier ones of its priority, but for the exceptions that
\* LeavesOnceInLine names.
THEOREM PacketsLeaveInLine == PaceSpec => []LeavesOnceInLine
<1>1. PaceInit => LineInv
  BY PaceStart
<1>2. LineInv /\ [PaceNext]_paceVars => LineInv'
  BY PaceStep
<1>3. LineInv => LeavesOnceInLine
  BY LineMeans
<1> QED BY <1>1, <1>2, <1>3, PTL DEF PaceSpec

-----------------------------------------------------------------------------
(* PacedSender: how much leaves. *)

LEMMA LargestRate ==
  /\ MaxRate \in Nat
  /\ \A r \in Rates \cup {Rate0} : r \in Nat /\ r <= MaxRate
<1>1. \E most \in Rates \cup {Rate0} : \A r \in Rates \cup {Rate0} : most >= r
  BY PaceAssumption
<1>2. MaxRate \in Rates \cup {Rate0} /\ \A r \in Rates \cup {Rate0} : MaxRate >= r
  BY <1>1 DEF MaxRate, Max
<1> QED BY <1>2, PaceAssumption

LEMMA LeastOfTwo ==
  ASSUME NEW a \in Int, NEW b \in Int
  PROVE  Min({a, b}) = IF a <= b THEN a ELSE b
<1>1. \E x \in {a, b} : \A y \in {a, b} : x <= y
  OBVIOUS
<1>2. Min({a, b}) \in {a, b} /\ \A y \in {a, b} : Min({a, b}) <= y
  BY <1>1 DEF Min
<1> QED BY <1>2

\* A product grows with its factors.
LEMMA Grows ==
  ASSUME NEW r \in Nat, NEW s \in Nat, NEW e \in Nat, NEW f \in Nat, r <= s, e <= f
  PROVE  r * e \in Nat /\ s * f \in Nat /\ r * e <= s * f
<1>1. r * e <= s * e
  BY SMT
<1>2. s * e <= s * f
  BY SMT
<1>3. r * e \in Nat /\ s * f \in Nat /\ s * e \in Nat
  BY SMT
<1> QED BY <1>1, <1>2, <1>3

LEMMA HalvedTwice ==
  ASSUME NEW n \in Int
  PROVE  /\ Halved(n) \in Int
         /\ n >= 0 => 2 * Halved(n) <= n
         /\ 2 * Halved(n) <= n + 1
BY SMT DEF Halved

\* What twice the budget grows by in a millisecond, the rounding included.
PacedPer == 3 * MaxRate + 1

\* The time for which a budget was filled up since time t, that left then included,
\* when the last time was l.
FilledUp(t, l) == 30 + (IF l >= t THEN 30 + l - t ELSE 0)

\* Of a budget b what was spent since time t, and what is left of it, are within what
\* it grows by.
Within(spent, left, per, t, l) == spent + left <= per * FilledUp(t, l)

LEMMA PacedPerNat == PacedPer \in Nat /\ PacedPer >= 1
BY LargestRate, SMT DEF PacedPer

LEMMA WithinLater ==
  ASSUME NEW spent \in Int, NEW b \in Int, NEW c \in Int, NEW per \in Nat,
         NEW t \in Nat, NEW l \in Nat, NEW n \in Nat, NEW e \in Nat,
         Within(spent, b, per, t, l), l <= n, t <= n, e <= 30, e <= n - l,
         c <= b + per * e
  PROVE  Within(spent, c, per, t, n)
<1> DEFINE f == FilledUp(t, l)
           g == FilledUp(t, n)
<1>1. f \in Nat /\ g \in Nat /\ f + e <= g
  BY DEF FilledUp
<1>2. spent + b <= per * f
  BY DEF Within
<1> HIDE DEF f, g
<1>3. per * (f + e) <= per * g /\ per * (f + e) = per * f + per * e
  <2> DEFINE d == g - (f + e)
  <2>1. d \in Nat /\ g = f + e + d
    BY <1>1
  <2> HIDE DEF d
  <2>2. per * d >= 0 /\ per * (f + e + d) = per * (f + e) + per * d
    BY <1>1, <2>1, SMT
  <2>3. per * (f + e) = per * f + per * e
    BY <1>1, SMT
  <2> QED BY <1>1, <2>1, <2>2, <2>3, SMT
<1>4. per * f \in Int /\ per * e \in Int /\ per * g \in Int
  BY <1>1, SMT
<1>5. spent + c <= per * g
  BY <1>2, <1>3, <1>4
<1> QED BY <1>5 DEF Within, g

\* What is within the budget is within the rate.
LEMMA WithinSpan ==
  ASSUME NEW spent \in Int, NEW b \in Int, NEW per \in Nat, NEW t \in Nat, NEW l \in Nat,
         NEW n \in Nat, Within(spent, b, per, t, l), b >= 0, l <= n, t <= n
  PROVE  spent <= per * Span(t, n)
<1>1. Within(spent, b, per, t, n)
  <2>1. b <= b + per * 0 /\ 0 <= n - l /\ 0 <= 30 /\ 0 \in Nat
    BY SMT
  <2> QED BY <2>1, WithinLater
<1>2. FilledUp(t, n) = Span(t, n) /\ Span(t, n) \in Nat
  BY DEF FilledUp, Span, kMaxIntervalTimeMs
<1>3. per * Span(t, n) \in Int
  BY <1>2, SMT
<1> QED BY <1>1, <1>2, <1>3 DEF Within

\* One that leaves now.
LEMMA WithinAtOnce ==
  ASSUME NEW b \in Int, NEW per \in Nat, NEW t \in Nat, NEW l \in Nat, b <= per * 30
  PROVE  b <= per * FilledUp(t, l) /\ per * FilledUp(t, l) \in Nat
<1> DEFINE f == FilledUp(t, l)
<1>1. f \in Nat /\ 30 <= f
  BY DEF FilledUp
<1> HIDE DEF f
<1>2. per * 30 <= per * f /\ per * f \in Nat /\ per * 30 \in Nat
  BY <1>1, Grows
<1> QED BY <1>2 DEF f

\* What k packets cost, in doubled bytes.
Cost(k) == 2 * PacedBytes * k

LEMMA CostOfMore ==
  ASSUME NEW k \in Nat
  PROVE  Cost(k) \in Nat /\ Cost(k + 1) = Cost(k) + 2 * PacedBytes /\ Cost(0) = 0
<1>1. PacedBytes \in Nat
  BY PaceAssumption
<1> QED BY <1>1, SMT DEF Cost

-----------------------------------------------------------------------------
(* Of packets let through at times s, up to now n, what they cost and what is left
   of the budget b, in doubled bytes, are within the rate; l is when the budget was
   filled up. *)

PacedWell(s, b, l, n) ==
  /\ s \in Seq(Nat)
  /\ \A i \in 1 .. Len(s) : s[i] <= n
  /\ b <= PacedPer * 30
  /\ \A i \in 1 .. Len(s) : Within(Cost(Len(s) - i + 1), b, PacedPer, s[i], l)
  /\ \A i \in 1 .. Len(s) : \A j \in i .. Len(s) : Cost(j - i) <= PacedPer * Span(s[i], s[j])

\* A packet leaves within the budget.
LEMMA PacedOne ==
  ASSUME NEW s, NEW b \in Int, NEW l \in Nat, NEW n \in Nat, l <= n,
         PacedWell(s, b, l, n), b > 0
  PROVE  PacedWell(Append(s, n), b - 2 * PacedBytes, l, n)
<1> DEFINE m == Len(s)
           c == b - 2 * PacedBytes
           a == Append(s, n)
<1>1. s \in Seq(Nat) /\ PacedBytes \in Nat /\ \A i \in 1 .. m : s[i] <= n
  BY PaceAssumption DEF PacedWell
<1>2. /\ a \in Seq(Nat) /\ Len(a) = m + 1 /\ m \in Nat
      /\ a[m + 1] = n /\ \A i \in 1 .. m : a[i] = s[i] /\ s[i] \in Nat
  BY <1>1
<1>3. c \in Int /\ c = b - 2 * PacedBytes /\ c <= b
  BY <1>1
<1>4. PacedPer * 30 \in Int
  BY PacedPerNat, SMT
<1>5. /\ b <= PacedPer * 30
      /\ \A i \in 1 .. m : Within(Cost(m - i + 1), b, PacedPer, s[i], l)
      /\ \A i \in 1 .. m : \A j \in i .. m : Cost(j - i) <= PacedPer * Span(s[i], s[j])
  BY DEF PacedWell
<1> HIDE DEF m, a, c
<1>6. \A i \in 1 .. m + 1 : a[i] <= n
  BY <1>1, <1>2, SMTT(30)
<1>7. c <= PacedPer * 30
  BY <1>3, <1>4, <1>5
<1>8. ASSUME NEW i \in 1 .. m + 1
      PROVE  Within(Cost(m + 1 - i + 1), c, PacedPer, a[i], l)
  <2>1. CASE i = m + 1
    <3>1. m + 1 - i + 1 = 0 + 1
      BY <2>1, <1>2
    <3>2. Cost(0 + 1) = Cost(0) + 2 * PacedBytes /\ Cost(0) = 0
      BY CostOfMore
    <3>3. b <= PacedPer * FilledUp(n, l) /\ PacedPer * FilledUp(n, l) \in Nat
      BY <1>5, PacedPerNat, WithinAtOnce
    <3>4. Cost(m + 1 - i + 1) + c = b
      BY <3>1, <3>2, <1>1, <1>3
    <3> QED BY <3>3, <3>4, <2>1, <1>2 DEF Within
  <2>2. CASE i \in 1 .. m
    <3> DEFINE k == m - i + 1
    <3>1. k \in Nat /\ m + 1 - i + 1 = k + 1
      BY <2>2, <1>2
    <3>2. Within(Cost(k), b, PacedPer, s[i], l)
      BY <2>2, <1>5
    <3> HIDE DEF k
    <3>3. Cost(k + 1) = Cost(k) + 2 * PacedBytes /\ Cost(k) \in Nat
      BY <3>1, CostOfMore
    <3>4. Cost(k + 1) + c = Cost(k) + b
      BY <3>3, <1>1, <1>3
    <3> QED BY <3>1, <3>2, <3>4, <2>2, <1>2 DEF Within
  <2> QED BY <2>1, <2>2, <1>2
<1>9. ASSUME NEW i \in 1 .. m + 1, NEW j \in i .. m + 1
      PROVE  Cost(j - i) <= PacedPer * Span(a[i], a[j])
  <2>1. CASE j \in 1 .. m
    <3>1. i \in 1 .. m /\ j \in i .. m
      BY <2>1, <1>2
    <3>2. Cost(j - i) <= PacedPer * Span(s[i], s[j])
      BY <3>1, <1>5
    <3> QED BY <3>1, <3>2, <2>1, <1>2
  <2>2. CASE j = m + 1 /\ i \in 1 .. m
    <3> DEFINE k == m - i + 1
    <3>1. k \in Nat /\ j - i = k
      BY <2>2, <1>2
    <3>2. Within(Cost(k), b, PacedPer, s[i], l)
      BY <2>2, <1>5
    <3>3. s[i] \in Nat /\ s[i] <= n
      BY <2>2, <1>1, <1>2
    <3> HIDE DEF k
    <3>4. Cost(k) \in Int
      BY <3>1, CostOfMore
    <3>5. b >= 0
      OBVIOUS
    <3>6. Cost(k) <= PacedPer * Span(s[i], n)
      BY <3>2, <3>3, <3>4, <3>5, PacedPerNat, WithinSpan
    <3> QED BY <3>1, <3>6, <2>2, <1>2
  <2>3. CASE j = m + 1 /\ i = m + 1
    <3>1. j - i = 0
      BY <2>3, <1>2
    <3>2. Cost(0) = 0
      BY CostOfMore
    <3>3. Span(n, n) = 60
      BY DEF Span, kMaxIntervalTimeMs
    <3>4. 0 <= PacedPer * 60
      BY PacedPerNat, SMT
    <3> QED BY <3>1, <3>2, <3>3, <3>4, <2>3, <1>2
  <2> QED BY <2>1, <2>2, <2>3, <1>2
<1>10. PacedWell(a, c, l, n)
  BY <1>2, <1>6, <1>7, <1>8, <1>9 DEF PacedWell
<1> QED BY <1>10 DEF a, c

\* The budget becomes less, or is filled up for e milliseconds.
LEMMA PacedNone ==
  ASSUME NEW s, NEW b \in Int, NEW l \in Nat, NEW n \in Nat, l <= n,
         PacedWell(s, b, l, n), NEW c \in Int, c <= PacedPer * 30, NEW e \in Nat,
         e <= 30, e <= n - l, c <= b + PacedPer * e
  PROVE  PacedWell(s, c, n, n)
<1>1. s \in Seq(Nat) /\ Len(s) \in Nat /\ \A i \in 1 .. Len(s) : s[i] <= n /\ s[i] \in Nat
  BY DEF PacedWell
<1>2. ASSUME NEW i \in 1 .. Len(s)
      PROVE  Within(Cost(Len(s) - i + 1), c, PacedPer, s[i], n)
  <2> DEFINE k == Len(s) - i + 1
  <2>1. k \in Nat
    BY <1>1
  <2>2. Within(Cost(k), b, PacedPer, s[i], l)
    BY DEF PacedWell
  <2> HIDE DEF k
  <2>3. Cost(k) \in Int
    BY <2>1, CostOfMore
  <2>4. s[i] \in Nat /\ s[i] <= n
    BY <1>1
  <2>5. Within(Cost(k), c, PacedPer, s[i], n)
    BY <2>2, <2>3, <2>4, PacedPerNat, WithinLater
  <2> QED BY <2>5 DEF k
<1> QED BY <1>2 DEF PacedWell

LEMMA PacedWait ==
  ASSUME NEW s, NEW b \in Int, NEW l \in Nat, NEW n \in Nat, PacedWell(s, b, l, n),
         NEW c \in Int, c <= b, NEW k \in Nat, n <= k
  PROVE  PacedWell(s, c, l, k)
<1>1. s \in Seq(Nat) /\ \A i \in 1 .. Len(s) : s[i] <= n /\ s[i] \in Nat
  BY SMTT(30) DEF PacedWell
<1>2. \A i \in 1 .. Len(s) : s[i] <= k
  BY <1>1
<1>3. ASSUME NEW i \in 1 .. Len(s)
      PROVE  Within(Cost(Len(s) - i + 1), c, PacedPer, s[i], l)
  <2> DEFINE x == Len(s) - i + 1
  <2>1. x \in Nat
    BY <1>1
  <2>2. Within(Cost(x), b, PacedPer, s[i], l)
    BY DEF PacedWell
  <2> HIDE DEF x
  <2>3. Cost(x) \in Int
    BY <2>1, CostOfMore
  <2> DEFINE f == PacedPer * FilledUp(s[i], l)
  <2>4. f \in Int
    <3>1. FilledUp(s[i], l) \in Nat
      BY <1>1, SMTT(30) DEF FilledUp
    <3> QED BY <3>1, PacedPerNat, SMT
  <2>5. Cost(x) + b <= f
    BY <2>2 DEF Within
  <2> HIDE DEF f
  <2>6. Cost(x) + c <= f
    BY <2>3, <2>4, <2>5
  <2> QED BY <2>6 DEF x, f, Within
<1>4. c <= PacedPer * 30
  <2>1. b <= PacedPer * 30 /\ PacedPer * 30 \in Int
    BY PacedPerNat DEF PacedWell
  <2> QED BY <2>1
<1> QED BY <1>2, <1>3, <1>4 DEF PacedWell

-----------------------------------------------------------------------------
(* Of padding p, sent up to now n, the bytes and what is left of its budget b are
   within the rate. *)

UpTo(p, k) == IF k = 0 THEN 0 ELSE p[k].upTo

SentSince(p, i) == UpTo(p, Len(p)) - UpTo(p, i - 1)

PaddingWell(p, b, l, n) ==
  /\ p \in Seq([time : Nat, upTo : Int])
  /\ \A i \in 1 .. Len(p) : p[i].time <= n
  /\ b <= MaxRate * 30
  /\ \A i \in 1 .. Len(p) : Within(SentSince(p, i), b, MaxRate, p[i].time, l)
  /\ \A i \in 1 .. Len(p) : \A j \in i .. Len(p) :
       p[j].upTo - UpTo(p, i - 1) <= MaxRate * Span(p[i].time, p[j].time)

LEMMA UpToTyped ==
  ASSUME NEW p \in Seq([time : Nat, upTo : Int])
  PROVE  /\ \A k \in 0 .. Len(p) : UpTo(p, k) \in Int
         /\ \A i \in 1 .. Len(p) : SentSince(p, i) \in Int /\ p[i].time \in Nat
<1>1. \A k \in 1 .. Len(p) : p[k].upTo \in Int /\ p[k].time \in Nat
  <2> TAKE k \in 1 .. Len(p)
  <2>1. p[k] \in [time : Nat, upTo : Int]
    BY ElementOfSeq
  <2> QED BY <2>1
<1>2. Len(p) \in Nat
  OBVIOUS
<1>3. \A k \in 0 .. Len(p) : UpTo(p, k) \in Int
  BY <1>1, <1>2 DEF UpTo
<1>4. ASSUME NEW i \in 1 .. Len(p) PROVE SentSince(p, i) \in Int
  <2>1. i - 1 \in 0 .. Len(p) /\ Len(p) \in 0 .. Len(p)
    BY <1>2
  <2>2. UpTo(p, i - 1) \in Int /\ UpTo(p, Len(p)) \in Int
    BY <2>1, <1>3
  <2> QED BY <2>2 DEF SentSince
<1> QED BY <1>1, <1>3, <1>4

LEMMA PaddingOne ==
  ASSUME NEW p, NEW b \in Int, NEW l \in Nat, NEW n \in Nat, l <= n,
         PaddingWell(p, b, l, n), b > 0, NEW x, x = [time |-> n, upTo |-> UpTo(p, Len(p)) + b]
  PROVE  PaddingWell(Append(p, x), 0, l, n)
<1> DEFINE m == Len(p)
           a == Append(p, x)
           u == UpTo(p, m)
<1>1. p \in Seq([time : Nat, upTo : Int]) /\ m \in Nat
  BY DEF PaddingWell
<1>2. /\ \A k \in 0 .. m : UpTo(p, k) \in Int
      /\ \A i \in 1 .. m : SentSince(p, i) \in Int /\ p[i].time \in Nat
  BY <1>1, UpToTyped
<1>3. u \in Int
  BY <1>1, <1>2
<1>4. x = [time |-> n, upTo |-> u + b] /\ u + b \in Int
  BY <1>3
<1>5. x \in [time : Nat, upTo : Int] /\ x.time = n /\ x.upTo = u + b
  <2> HIDE DEF u
  <2> QED BY <1>4
<1>6. /\ a \in Seq([time : Nat, upTo : Int]) /\ Len(a) = m + 1
      /\ a[m + 1] = x /\ \A i \in 1 .. m : a[i] = p[i]
  BY <1>1, <1>5
<1>7. /\ b <= MaxRate * 30 /\ MaxRate * 30 \in Int /\ MaxRate \in Nat
      /\ \A i \in 1 .. m : p[i].time <= n
      /\ \A i \in 1 .. m : Within(SentSince(p, i), b, MaxRate, p[i].time, l)
      /\ \A i \in 1 .. m : \A j \in i .. m :
           p[j].upTo - UpTo(p, i - 1) <= MaxRate * Span(p[i].time, p[j].time)
  <2>1. MaxRate \in Nat
    BY LargestRate
  <2>2. MaxRate * 30 \in Int
    BY <2>1, SMT
  <2> QED BY <2>1, <2>2 DEF PaddingWell
<1>8. \A i \in 1 .. m : SentSince(p, i) = u - UpTo(p, i - 1)
  BY DEF SentSince
<1> HIDE DEF m, a, u
<1>9. /\ \A k \in 0 .. m : UpTo(a, k) = UpTo(p, k)
      /\ UpTo(a, m + 1) = u + b
  BY <1>1, <1>5, <1>6, SMTT(30) DEF UpTo
<1>10. UpTo(p, m) = u
  BY DEF u
<1>11. \A i \in 1 .. m + 1 : a[i].time <= n /\ a[i].time \in Nat
  <2> TAKE i \in 1 .. m + 1
  <2>1. CASE i \in 1 .. m
    BY <2>1, <1>2, <1>6, <1>7
  <2>2. CASE i = m + 1
    BY <2>2, <1>5, <1>6
  <2> QED BY <2>1, <2>2, <1>1
<1>12. 0 <= MaxRate * 30
  BY <1>7, SMT
<1>13. ASSUME NEW i \in 1 .. m
       PROVE  /\ SentSince(a, i) = SentSince(p, i) + b /\ SentSince(p, i) \in Int
              /\ p[i].time \in Nat /\ p[i].time <= n /\ a[i] = p[i]
              /\ Within(SentSince(a, i), 0, MaxRate, a[i].time, l)
  <2>1. i - 1 \in 0 .. m
    BY <1>1
  <2>2. UpTo(a, i - 1) = UpTo(p, i - 1) /\ UpTo(p, i - 1) \in Int
    BY <2>1, <1>2, <1>9
  <2>3. SentSince(a, i) = u + b - UpTo(p, i - 1)
    <3>1. SentSince(a, i) = (u + b) - UpTo(p, i - 1)
      BY <2>2, <1>6, <1>9 DEF SentSince
    <3> QED BY <3>1, <2>2, <1>3
  <2>4. SentSince(a, i) = SentSince(p, i) + b /\ SentSince(p, i) \in Int
    BY <2>2, <2>3, <1>2, <1>3, <1>8
  <2>5. a[i] = p[i] /\ p[i].time \in Nat /\ p[i].time <= n
    BY <1>2, <1>6, <1>7
  <2>6. Within(SentSince(p, i), b, MaxRate, p[i].time, l)
    BY <1>7
  <2>7. SentSince(a, i) + 0 = SentSince(p, i) + b
    BY <2>4
  <2> QED BY <2>4, <2>5, <2>6, <2>7 DEF Within
<1>14. SentSince(a, m + 1) = b /\ (m + 1) - 1 = m
  <2>1. (m + 1) - 1 = m
    BY <1>1
  <2>2. SentSince(a, m + 1) = UpTo(a, m + 1) - UpTo(a, m)
    BY <2>1, <1>6 DEF SentSince
  <2>3. UpTo(a, m) = u
    BY <1>1, <1>9, <1>10
  <2> QED BY <2>1, <2>2, <2>3, <1>3, <1>9
<1>15. ASSUME NEW i \in 1 .. m + 1
       PROVE  Within(SentSince(a, i), 0, MaxRate, a[i].time, l)
  <2>1. CASE i \in 1 .. m
    BY <2>1, <1>13
  <2>2. CASE i = m + 1
    <3>1. b <= MaxRate * FilledUp(n, l)
      BY <1>7, WithinAtOnce
    <3>2. SentSince(a, i) + 0 = b /\ a[i].time = n
      BY <2>2, <1>5, <1>6, <1>14
    <3> QED BY <3>1, <3>2 DEF Within
  <2> QED BY <2>1, <2>2, <1>1
<1>16. ASSUME NEW i \in 1 .. m + 1, NEW j \in i .. m + 1
       PROVE  a[j].upTo - UpTo(a, i - 1) <= MaxRate * Span(a[i].time, a[j].time)
  <2>1. CASE j \in 1 .. m
    <3>1. i \in 1 .. m /\ j \in i .. m /\ i - 1 \in 0 .. m
      BY <2>1, <1>1
    <3>2. p[j].upTo - UpTo(p, i - 1) <= MaxRate * Span(p[i].time, p[j].time)
      BY <3>1, <1>7
    <3> QED BY <3>1, <3>2, <2>1, <1>6, <1>9
  <2>2. CASE j = m + 1
    <3>1. a[j].upTo - UpTo(a, i - 1) = SentSince(a, i) /\ a[j].time = n
      BY <2>2, <1>5, <1>6, <1>9 DEF SentSince
    <3>2. SentSince(a, i) \in Int /\ a[i].time \in Nat /\ a[i].time <= n
      <4>1. a[i].time \in Nat /\ a[i].time <= n
        BY <1>11
      <4>2. CASE i \in 1 .. m
        <5>1. SentSince(a, i) = SentSince(p, i) + b /\ SentSince(p, i) \in Int
          BY <4>2, <1>13
        <5> QED BY <4>1, <5>1
      <4>3. CASE i = m + 1
        BY <4>1, <4>3, <1>14
      <4> QED BY <4>2, <4>3, <1>1
    <3>3. Within(SentSince(a, i), 0, MaxRate, a[i].time, l) /\ 0 \in Int /\ 0 >= 0
      BY <1>15
    <3>4. SentSince(a, i) <= MaxRate * Span(a[i].time, n)
      BY <3>2, <3>3, <1>7, WithinSpan
    <3> QED BY <3>1, <3>4
  <2> QED BY <2>1, <2>2, <1>1
<1>17. PaddingWell(a, 0, l, n)
  BY <1>6, <1>11, <1>12, <1>15, <1>16 DEF PaddingWell
<1> QED BY <1>17 DEF a

LEMMA PaddingNone ==
  ASSUME NEW p, NEW b \in Int, NEW l \in Nat, NEW n \in Nat, l <= n,
         PaddingWell(p, b, l, n), NEW c \in Int, c <= MaxRate * 30, NEW e \in Nat,
         e <= 30, e <= n - l, c <= b + MaxRate * e
  PROVE  PaddingWell(p, c, n, n)
<1>1. p \in Seq([time : Nat, upTo : Int]) /\ MaxRate \in Nat
  BY LargestRate DEF PaddingWell
<1>2. ASSUME NEW i \in 1 .. Len(p)
      PROVE  Within(SentSince(p, i), c, MaxRate, p[i].time, n)
  <2>1. SentSince(p, i) \in Int /\ p[i].time \in Nat
    BY <1>1, UpToTyped
  <2>2. Within(SentSince(p, i), b, MaxRate, p[i].time, l) /\ p[i].time <= n
    BY DEF PaddingWell
  <2> QED BY <1>1, <2>1, <2>2, WithinLater
<1> QED BY <1>2 DEF PaddingWell

LEMMA PaddingWait ==
  ASSUME NEW p, NEW b \in Int, NEW l \in Nat, NEW n \in Nat, PaddingWell(p, b, l, n),
         NEW c \in Int, c <= b, NEW k \in Nat, n <= k
  PROVE  PaddingWell(p, c, l, k)
<1>1. p \in Seq([time : Nat, upTo : Int]) /\ MaxRate \in Nat
  BY LargestRate DEF PaddingWell
<1>2. ASSUME NEW i \in 1 .. Len(p)
      PROVE  Within(SentSince(p, i), c, MaxRate, p[i].time, l) /\ p[i].time <= k
  <2>1. SentSince(p, i) \in Int /\ p[i].time \in Nat
    BY <1>1, UpToTyped
  <2>2. Within(SentSince(p, i), b, MaxRate, p[i].time, l) /\ p[i].time <= n
    BY DEF PaddingWell
  <2> DEFINE f == MaxRate * FilledUp(p[i].time, l)
             d == SentSince(p, i)
  <2>3. f \in Int
    <3>1. FilledUp(p[i].time, l) \in Nat
      BY <2>1, SMTT(30) DEF FilledUp
    <3> QED BY <3>1, <1>1, SMT
  <2>4. d + b <= f /\ d \in Int
    BY <2>1, <2>2 DEF Within
  <2> HIDE DEF f, d
  <2>5. d + c <= f
    BY <2>3, <2>4
  <2> QED BY <2>1, <2>2, <2>5 DEF d, f, Within
<1>3. c <= MaxRate * 30
  <2>1. b <= MaxRate * 30 /\ MaxRate * 30 \in Int
    BY LargestRate DEF PaddingWell
  <2> QED BY <2>1
<1> QED BY <1>2, <1>3 DEF PaddingWell

-----------------------------------------------------------------------------
(* The pacer. *)

PaddingLeft == IF process.at = "padding" THEN 0 ELSE paddingRemaining

PaceNumbers ==
  /\ now \in Nat /\ lastUpdate \in Nat /\ lastUpdate <= now
  /\ rate \in Rates \cup {Rate0}
  /\ bytesRemaining \in Int /\ paddingRemaining \in Int

BudgetInv ==
  /\ PaceNumbers
  /\ PacedWell(paced, 2 * bytesRemaining, lastUpdate, now)
  /\ PaddingWell(padding, PaddingLeft, lastUpdate, now)

LEMMA BudgetsMean == BudgetInv => PacedToRate
<1> SUFFICES ASSUME BudgetInv PROVE PacedToRate
  OBVIOUS
<1>1. /\ paced \in Seq(Nat)
      /\ \A i \in 1 .. Len(paced) : \A j \in i .. Len(paced) :
           Cost(j - i) <= PacedPer * Span(paced[i], paced[j])
  BY DEF BudgetInv, PacedWell
<1>2. /\ padding \in Seq([time : Nat, upTo : Int])
      /\ \A i \in 1 .. Len(padding) : \A j \in i .. Len(padding) :
           padding[j].upTo - UpTo(padding, i - 1)
             <= MaxRate * Span(padding[i].time, padding[j].time)
  BY DEF BudgetInv, PaddingWell
<1>3. DOMAIN paced = 1 .. Len(paced) /\ DOMAIN padding = 1 .. Len(padding)
  BY <1>1, <1>2
<1>4. \A k : PaddingUpTo(k) = UpTo(padding, k)
  BY DEF PaddingUpTo, UpTo
<1> QED BY <1>1, <1>2, <1>3, <1>4, Zenon DEF PacedToRate, Cost, PacedPer

\* What UpdateState() takes off both budgets.
LEMMA TakenOff ==
  ASSUME BudgetInv, UpdateState, UNCHANGED <<now, rate, lastUpdate, padding>>,
         process.at = "padding" <=> process'.at = "padding",
         \/ paced' = paced
         \/ paced' = Append(paced, now) /\ bytesRemaining > 0
  PROVE  BudgetInv'
<1>1. /\ PaceNumbers /\ PacedWell(paced, 2 * bytesRemaining, lastUpdate, now)
      /\ PaddingWell(padding, PaddingLeft, lastUpdate, now)
  BY DEF BudgetInv
<1>2. /\ now \in Nat /\ lastUpdate \in Nat /\ lastUpdate <= now
      /\ bytesRemaining \in Int /\ paddingRemaining \in Int /\ PacedBytes \in Nat
  BY <1>1, PaceAssumption DEF PaceNumbers
<1>3. /\ bytesRemaining' = bytesRemaining - PacedBytes
      /\ paddingRemaining' = paddingRemaining - PacedBytes
      /\ bytesRemaining' \in Int /\ paddingRemaining' \in Int
      /\ 2 * bytesRemaining' = 2 * bytesRemaining - 2 * PacedBytes
      /\ 2 * bytesRemaining \in Int /\ 2 * bytesRemaining' \in Int
      /\ 2 * bytesRemaining' <= 2 * bytesRemaining
  BY <1>2 DEF UpdateState
<1>4. PaceNumbers'
  BY <1>1, <1>3 DEF PaceNumbers
<1>5. PacedWell(paced', 2 * bytesRemaining', lastUpdate, now)
  <2>1. CASE paced' = paced
    <3> DEFINE b == 2 * bytesRemaining
               c == 2 * bytesRemaining'
    <3>1. PacedWell(paced, b, lastUpdate, now) /\ b \in Int /\ c \in Int /\ c <= b
          /\ now <= now
      BY <1>1, <1>2, <1>3
    <3> HIDE DEF b, c
    <3>2. PacedWell(paced, c, lastUpdate, now)
      BY <3>1, <1>2, PacedWait
    <3> QED BY <3>2, <2>1 DEF c
  <2>2. CASE paced' = Append(paced, now) /\ bytesRemaining > 0
    <3> DEFINE b == 2 * bytesRemaining
    <3>1. PacedWell(paced, b, lastUpdate, now) /\ b \in Int /\ b > 0
      BY <1>1, <1>2, <2>2
    <3> HIDE DEF b
    <3>2. PacedWell(Append(paced, now), b - 2 * PacedBytes, lastUpdate, now)
      BY <3>1, <1>2, PacedOne
    <3> QED BY <3>2, <2>2, <1>3 DEF b
  <2> QED BY <2>1, <2>2
<1>6. PaddingWell(padding, PaddingLeft', lastUpdate, now)
  <2>1. \/ PaddingLeft' = paddingRemaining' /\ PaddingLeft = paddingRemaining
        \/ PaddingLeft' = 0 /\ PaddingLeft = 0
    BY DEF PaddingLeft
  <2>2. PaddingLeft' \in Int /\ PaddingLeft \in Int /\ PaddingLeft' <= PaddingLeft /\ now <= now
    BY <2>1, <1>2, <1>3
  <2> QED BY <2>2, <1>1, <1>2, PaddingWait
<1>7. now' = now /\ lastUpdate' = lastUpdate /\ padding' = padding
  OBVIOUS
<1> QED BY <1>4, <1>5, <1>6, <1>7 DEF BudgetInv

LEMMA BudgetStart == PaceInit => BudgetInv
<1> SUFFICES ASSUME PaceInit PROVE BudgetInv
  OBVIOUS
<1>1. Rate0 \in Nat /\ Rate0 <= MaxRate /\ MaxRate \in Nat
  BY LargestRate
<1>2. /\ now = 30 /\ lastUpdate = 30 /\ rate = Rate0 /\ process.at = "idle"
      /\ bytesRemaining = Halved(3 * Rate0 * 5) /\ paddingRemaining = Rate0 * 5
      /\ paced = <<>> /\ padding = <<>>
  BY DEF PaceInit, AtRest, kMaxQueueTimeWithoutSendingMs, kMinPacketLimitMs
<1>3. 3 * Rate0 * 5 \in Nat /\ Rate0 * 5 \in Nat /\ Rate0 * 5 <= MaxRate * 30
  BY <1>1, SMT
<1>4. 3 * Rate0 * 5 <= PacedPer * 30
  BY <1>1, SMT DEF PacedPer
<1>5. /\ bytesRemaining \in Int /\ 2 * bytesRemaining <= 3 * Rate0 * 5
      /\ paddingRemaining \in Int
  <2> DEFINE n == 3 * Rate0 * 5
  <2>1. n \in Int /\ n >= 0 /\ bytesRemaining = Halved(n)
    BY <1>2, <1>3
  <2> HIDE DEF n
  <2>2. Halved(n) \in Int /\ 2 * Halved(n) <= n
    BY <2>1, HalvedTwice
  <2> QED BY <2>1, <2>2, <1>2, <1>3 DEF n
<1>6. PaceNumbers
  BY <1>2, <1>5 DEF PaceNumbers
<1>7. 2 * bytesRemaining <= PacedPer * 30
  <2>1. 2 * bytesRemaining \in Int /\ PacedPer * 30 \in Int
    BY <1>5, PacedPerNat, SMT
  <2> QED BY <2>1, <1>3, <1>4, <1>5
<1>8. PacedWell(paced, 2 * bytesRemaining, lastUpdate, now)
  BY <1>2, <1>7 DEF PacedWell
<1>9. PaddingWell(padding, PaddingLeft, lastUpdate, now)
  <2>1. PaddingLeft = paddingRemaining
    BY <1>2 DEF PaddingLeft
  <2>2. <<>> \in Seq([time : Nat, upTo : Int]) /\ Len(<<>>) = 0
    BY EmptySeq
  <2>3. PaddingLeft <= MaxRate * 30
    BY <2>1, <1>2, <1>3
  <2>4. padding = <<>>
    BY <1>2
  <2> QED BY <2>2, <2>3, <2>4 DEF PaddingWell
<1> QED BY <1>6, <1>8, <1>9 DEF BudgetInv

\* The budgets are filled up.
LEMMA FilledUpNow ==
  ASSUME BudgetInv, Process
  PROVE  BudgetInv'
<1> DEFINE e == Elapsed
           k == rate * e
           b == 2 * bytesRemaining
           c == 2 * bytesRemaining'
<1>1. /\ PaceNumbers /\ PacedWell(paced, b, lastUpdate, now)
      /\ PaddingWell(padding, PaddingLeft, lastUpdate, now)
  BY DEF BudgetInv
<1>2. /\ now \in Nat /\ lastUpdate \in Nat /\ lastUpdate < now /\ now' = now
      /\ lastUpdate' = now /\ rate' = rate /\ paced' = paced /\ padding' = padding
      /\ bytesRemaining \in Int /\ paddingRemaining \in Int
      /\ rate \in Rates \cup {Rate0} /\ process.at = "idle" /\ process'.at = "next"
      /\ UpdateBytesPerInterval
  BY <1>1 DEF PaceNumbers, Process, AtRest
<1>3. MaxRate \in Nat /\ rate \in Nat /\ rate <= MaxRate
  BY <1>2, LargestRate
<1>4. e \in Nat /\ e <= 30 /\ e <= now - lastUpdate /\ e >= 1
  <2>1. Min({30, now - lastUpdate}) = IF 30 <= now - lastUpdate THEN 30 ELSE now - lastUpdate
    BY <1>2, LeastOfTwo
  <2> QED BY <2>1, <1>2 DEF Elapsed, kMaxIntervalTimeMs
<1> HIDE DEF e
<1>5. k \in Nat /\ k <= MaxRate * e /\ MaxRate * e \in Nat
  BY <1>3, <1>4, Grows
<1>6. k <= MaxRate * 30 /\ MaxRate * 30 \in Nat
  BY <1>3, <1>4, Grows
<1>7. 3 * rate * e = 3 * k
  BY <1>3, <1>4, SMT
<1> HIDE DEF k
<1>8. /\ 3 * k + 1 <= PacedPer * e /\ PacedPer * e \in Nat
      /\ 3 * k <= PacedPer * 30 /\ PacedPer * 30 \in Nat
  <2>1. PacedPer * e = 3 * (MaxRate * e) + e /\ PacedPer * 30 = 3 * (MaxRate * 30) + 30
    BY <1>3, <1>4, SMT DEF PacedPer
  <2> QED BY <2>1, <1>4, <1>5, <1>6
<1>9. b \in Int /\ bytesRemaining' = Halved(IF b < 0 THEN b + 3 * k ELSE 3 * k)
  BY <1>2, <1>7 DEF UpdateBytesPerInterval, Refilled, e
<1> HIDE DEF b
<1>10. /\ bytesRemaining' \in Int /\ c \in Int
       /\ c <= PacedPer * 30 /\ c <= b + PacedPer * e
  <2> DEFINE n == IF b < 0 THEN b + 3 * k ELSE 3 * k
  <2>1. n \in Int /\ bytesRemaining' = Halved(n)
    BY <1>5, <1>9
  <2>2. /\ b < 0 => n <= b + 3 * k
        /\ b >= 0 => n = 3 * k /\ n >= 0
    BY <1>5, <1>9
  <2> HIDE DEF n
  <2>3. Halved(n) \in Int /\ (n >= 0 => 2 * Halved(n) <= n) /\ 2 * Halved(n) <= n + 1
    BY <2>1, HalvedTwice
  <2>4. c \in Int /\ (n >= 0 => c <= n) /\ c <= n + 1
    BY <2>1, <2>3
  <2> HIDE DEF c
  <2> QED BY <2>1, <2>2, <2>3, <2>4, <1>5, <1>8, <1>9
<1> HIDE DEF c
<1>11. PacedWell(paced, c, now, now)
  BY <1>1, <1>2, <1>4, <1>9, <1>10, PacedNone
<1>12. /\ paddingRemaining' \in Int /\ paddingRemaining' <= MaxRate * 30
       /\ paddingRemaining' <= paddingRemaining + MaxRate * e
  <2>1. paddingRemaining' = IF paddingRemaining < 0 THEN paddingRemaining + k ELSE k
    BY <1>2 DEF UpdateBytesPerInterval, Refilled, e, k
  <2> QED BY <2>1, <1>2, <1>5, <1>6
<1>13. PaddingLeft = paddingRemaining /\ PaddingLeft' = paddingRemaining'
  BY <1>2 DEF PaddingLeft
<1>14. PaddingWell(padding, PaddingLeft', now, now)
  <2> DEFINE d == paddingRemaining'
  <2>1. /\ PaddingWell(padding, paddingRemaining, lastUpdate, now) /\ lastUpdate <= now
        /\ d \in Int /\ d <= MaxRate * 30 /\ d <= paddingRemaining + MaxRate * e
    BY <1>1, <1>2, <1>12, <1>13
  <2> HIDE DEF d
  <2>2. PaddingWell(padding, d, now, now)
    BY <2>1, <1>2, <1>4, PaddingNone
  <2> QED BY <2>2, <1>13 DEF d
<1>15. PaceNumbers'
  BY <1>2, <1>10, <1>12 DEF PaceNumbers
<1> QED BY <1>2, <1>11, <1>14, <1>15 DEF BudgetInv, c

\* The rest of the budget goes out as padding.
LEMMA PaddingSentNow ==
  ASSUME BudgetInv, LoopEnds
  PROVE  BudgetInv'
<1>1. /\ PaceNumbers /\ PacedWell(paced, 2 * bytesRemaining, lastUpdate, now)
      /\ PaddingWell(padding, PaddingLeft, lastUpdate, now)
      /\ now \in Nat /\ lastUpdate \in Nat /\ lastUpdate <= now /\ paddingRemaining \in Int
  BY DEF BudgetInv, PaceNumbers
<1>2. /\ UNCHANGED <<now, rate, bytesRemaining, paddingRemaining, lastUpdate, paced>>
      /\ process.at = "next"
  BY DEF LoopEnds
<1>3. \/ /\ process'.at = "padding" /\ paddingRemaining > 0
         /\ padding' = Append(padding, [time |-> now,
                                        upTo |-> PaddingUpTo(Len(padding)) + paddingRemaining])
      \/ process'.at = "idle" /\ padding' = padding
  BY DEF LoopEnds, AtRest
<1>4. PaddingLeft = paddingRemaining
  BY <1>2 DEF PaddingLeft
<1>5. PaddingWell(padding', PaddingLeft', lastUpdate, now)
  <2>1. CASE process'.at = "idle" /\ padding' = padding
    <3>1. PaddingLeft' = PaddingLeft
      BY <2>1, <1>2, <1>4 DEF PaddingLeft
    <3> QED BY <3>1, <2>1, <1>1
  <2>2. CASE /\ process'.at = "padding" /\ paddingRemaining > 0
             /\ padding' = Append(padding, [time |-> now,
                                        upTo |-> PaddingUpTo(Len(padding)) + paddingRemaining])
    <3> DEFINE x == [time |-> now, upTo |-> UpTo(padding, Len(padding)) + paddingRemaining]
    <3>1. padding' = Append(padding, x)
      BY <2>2 DEF PaddingUpTo, UpTo
    <3>2. PaddingWell(padding, paddingRemaining, lastUpdate, now) /\ paddingRemaining > 0
      BY <1>1, <1>4, <2>2
    <3>3. PaddingWell(Append(padding, x), 0, lastUpdate, now)
      BY <3>2, <1>1, PaddingOne
    <3>4. PaddingLeft' = 0
      BY <2>2 DEF PaddingLeft
    <3> QED BY <3>1, <3>3, <3>4
  <2> QED BY <2>1, <2>2, <1>3
<1>6. PaceNumbers'
  BY <1>1, <1>2 DEF PaceNumbers
<1> QED BY <1>1, <1>2, <1>5, <1>6 DEF BudgetInv

\* Steps that leave the budgets, or make less of the padding's.
LEMMA BudgetsKept ==
  ASSUME BudgetInv, UNCHANGED <<lastUpdate, paced, padding, bytesRemaining>>,
         rate' \in Rates \cup {Rate0}, now' \in Nat, now <= now', paddingRemaining' \in Int,
         PaddingLeft' = PaddingLeft
  PROVE  BudgetInv'
<1> DEFINE b == 2 * bytesRemaining
           f == PaddingLeft
           n == now'
<1>1. /\ PaceNumbers /\ PacedWell(paced, b, lastUpdate, now)
      /\ PaddingWell(padding, f, lastUpdate, now)
      /\ now \in Nat /\ n \in Nat /\ now <= n /\ lastUpdate \in Nat /\ lastUpdate <= now
      /\ b \in Int /\ f \in Int /\ b <= b /\ f <= f
  BY DEF BudgetInv, PaceNumbers, PaddingLeft
<1>2. PaceNumbers'
  BY <1>1 DEF PaceNumbers
<1> HIDE DEF b, f, n
<1>3. PacedWell(paced, b, lastUpdate, n)
  BY <1>1, PacedWait
<1>4. PaddingWell(padding, f, lastUpdate, n)
  BY <1>1, PaddingWait
<1>5. paced' = paced /\ padding' = padding /\ lastUpdate' = lastUpdate
      /\ bytesRemaining' = bytesRemaining
  OBVIOUS
<1> QED BY <1>2, <1>3, <1>4, <1>5 DEF BudgetInv, b, f, n

LEMMA BudgetStep == BudgetInv /\ [PaceNext]_paceVars => BudgetInv'
<1> SUFFICES ASSUME BudgetInv, [PaceNext]_paceVars PROVE BudgetInv'
  OBVIOUS
<1>1. /\ now \in Nat /\ rate \in Rates \cup {Rate0} /\ paddingRemaining \in Int
      /\ bytesRemaining \in Int
  BY DEF BudgetInv, PaceNumbers
<1>2. ASSUME NEW p, PacedSendPacket(p) PROVE BudgetInv'
  <2>1. UNCHANGED <<now, rate, lastUpdate, process, padding>>
    BY <1>2 DEF PacedSendPacket
  <2>2. CASE \E l \in BOOLEAN : LetThrough(Len(given'), l) /\ (l => MayGo(p))
    <3>1. /\ UpdateState
          /\ paced' = paced \/ (paced' = Append(paced, now) /\ bytesRemaining > 0)
      BY <2>2 DEF LetThrough, MayGo
    <3> QED BY <3>1, <2>1, TakenOff
  <2>3. CASE UNCHANGED <<bytesRemaining, paddingRemaining, paced>>
    <3>1. PaddingLeft' = PaddingLeft
      BY <2>1, <2>3 DEF PaddingLeft
    <3>2. now <= now' /\ now' \in Nat /\ rate' \in Rates \cup {Rate0} /\ paddingRemaining' \in Int
      BY <1>1, <2>1, <2>3
    <3> QED BY <3>1, <3>2, <2>1, <2>3, BudgetsKept
  <2> QED BY <1>2, <2>2, <2>3 DEF PacedSendPacket
<1>3. CASE SetStatus \/ \E r \in Rates : UpdateBitrate(r)
  <2>1. /\ UNCHANGED <<now, lastUpdate, process, padding, paced, bytesRemaining, paddingRemaining>>
        /\ rate' \in Rates \cup {Rate0}
    BY <1>3, <1>1 DEF SetStatus, UpdateBitrate
  <2>2. PaddingLeft' = PaddingLeft
    BY <2>1 DEF PaddingLeft
  <2>3. now <= now' /\ now' \in Nat /\ paddingRemaining' \in Int
    BY <1>1, <2>1
  <2> QED BY <2>1, <2>2, <2>3, BudgetsKept
<1>4. CASE Process
  BY <1>4, FilledUpNow
<1>5. CASE GetNextPacket
  <2>1. /\ UNCHANGED <<now, rate, lastUpdate, padding>> /\ UpdateState
        /\ paced' = paced \/ (paced' = Append(paced, now) /\ bytesRemaining > 0)
        /\ process.at = "next" /\ process'.at = "send"
    BY <1>5 DEF GetNextPacket
  <2>2. process.at = "padding" <=> process'.at = "padding"
    BY <2>1
  <2> QED BY <2>1, <2>2, TakenOff
<1>6. CASE TimeToSendPacket
  <2>1. /\ UNCHANGED <<now, rate, lastUpdate, padding, paced, bytesRemaining, paddingRemaining>>
        /\ process.at = "send" /\ process'.at = "next"
    BY <1>6 DEF TimeToSendPacket, AtRest
  <2>2. PaddingLeft' = PaddingLeft
    BY <2>1 DEF PaddingLeft
  <2>3. now <= now' /\ now' \in Nat /\ rate' \in Rates \cup {Rate0} /\ paddingRemaining' \in Int
    BY <1>1, <2>1
  <2> QED BY <2>1, <2>2, <2>3, BudgetsKept
<1>7. CASE LoopEnds
  BY <1>7, PaddingSentNow
<1>8. CASE PaddingSent
  <2>1. /\ UNCHANGED <<now, rate, lastUpdate, padding, paced>>
        /\ process.at = "padding" /\ process'.at = "idle" /\ paddingRemaining' = 0
        /\ bytesRemaining' = bytesRemaining - 0
    BY <1>8 DEF PaddingSent, AtRest
  <2>2. PaddingLeft' = PaddingLeft
    BY <2>1 DEF PaddingLeft
  <2>3. now <= now' /\ now' \in Nat /\ rate' \in Rates \cup {Rate0} /\ paddingRemaining' \in Int
        /\ bytesRemaining' = bytesRemaining
    BY <1>1, <2>1
  <2> QED BY <2>1, <2>2, <2>3, BudgetsKept
<1>9. CASE PaceClock
  <2>1. /\ UNCHANGED <<rate, lastUpdate, padding, paced, bytesRemaining, paddingRemaining, process>>
        /\ now' = now + PaceTick
    BY <1>9 DEF PaceClock
  <2>2. PaddingLeft' = PaddingLeft
    BY <2>1 DEF PaddingLeft
  <2>3. now <= now' /\ now' \in Nat /\ rate' \in Rates \cup {Rate0} /\ paddingRemaining' \in Int
    BY <1>1, <2>1, PaceAssumption
  <2> QED BY <2>1, <2>2, <2>3, BudgetsKept
<1>10. CASE UNCHANGED paceVars
  <2>1. UNCHANGED <<now, rate, lastUpdate, padding, paced, bytesRemaining, paddingRemaining, process>>
    BY <1>10 DEF paceVars
  <2>2. PaddingLeft' = PaddingLeft
    BY <2>1 DEF PaddingLeft
  <2>3. now <= now' /\ now' \in Nat /\ rate' \in Rates \cup {Rate0} /\ paddingRemaining' \in Int
    BY <1>1, <2>1
  <2> QED BY <2>1, <2>2, <2>3, BudgetsKept
<1> QED BY <1>2, <1>3, <1>4, <1>5, <1>6, <1>7, <1>8, <1>9, <1>10 DEF PaceNext

\* For every rate, size of packets and step of the clock, the pacer keeps to the rate,
\* in packets and in padding, as PacedToRate says.
THEOREM RateIsKept == PaceSpec => []PacedToRate
BY BudgetStart, BudgetStep, BudgetsMean, PTL DEF PaceSpec

-----------------------------------------------------------------------------
(* PacketSegment: packets and segments. *)

Packets == [kind : {"rtp"}, pt : Int, seq : Nat, ts : Nat, len : Nat, id : Nat]
Parts == [delta : Nat, len : Nat, id : Nat]
Segments == [kind : {"segment"}, pt : Int, marker : BOOLEAN, seq : Nat, ts : Nat,
             begin_seq : Nat, parts : Seq(Parts), size : Nat]
Combiners == [kind : {"combiner"}, latest_pt : Int, latest_seq : Nat, begin_seq : Nat,
              begin_ts : Nat, parts : Seq(Parts), wr_pos : Nat, buffered : 0 .. Bits8 - 1,
              max : Int, new_segment : BOOLEAN, seq : Nat, wrapped : BOOLEAN]

\* No packet is in the parts of a segment twice.
Distinct(parts) ==
  \A i, j \in 1 .. Len(parts) : parts[i].id = parts[j].id => i = j

IdsOf(parts) == {parts[i].id : i \in 1 .. Len(parts)}

\* A combiner between two calls.
Shape(c) ==
  /\ c \in Combiners
  /\ c.parts = <<>> <=> c.wr_pos = 0
  /\ c.parts = <<>> <=> c.new_segment
  /\ c.wr_pos <= BufferSize
  /\ c.max > 0
  /\ ~c.wrapped => Len(c.parts) <= c.buffered /\ Len(c.parts) < c.max
  /\ Distinct(c.parts)

SegmentNumber(q, i) == (q + i - 1) % Bits16

\* The part is a packet of s, of type pt and with number q, and as much later than t
\* as its offset says.
TellsOne(s, part, pt, q, t) ==
  /\ part.id \in 1 .. Len(s)
  /\ s[part.id].pt = pt
  /\ s[part.id].seq = q
  /\ ((t + part.delta - s[part.id].ts) % Bits16) = 0

\* The parts are packets that follow each other from number q on.
Tells(s, parts, pt, q, t) ==
  \A i \in 1 .. Len(parts) : TellsOne(s, parts[i], pt, SegmentNumber(q, i), t)

\* What the combiner will write over its segment is true of the packets in it.
Continues(s, c) ==
  c.parts # <<>> => /\ Tells(s, c.parts, c.latest_pt, c.begin_seq, c.begin_ts)
                    /\ c.latest_seq = s[c.parts[Len(c.parts)].id].seq

LEMMA ModuloBits16 == \A x \in Int : (x % Bits16) \in Nat /\ (x % Bits16) < 65536
BY SMT DEF Bits16

LEMMA OffsetTells ==
  ASSUME NEW x \in Int, NEW y \in Int, NEW z, z = (x - y) % Bits16
  PROVE  ((y + z - x) % Bits16) = 0
BY SMT DEF Bits16

LEMMA NumberAfter ==
  ASSUME NEW x \in Nat, NEW q \in Nat, q > 0, q < 65536, (x % Bits16) = q - 1
  PROVE  ((x + 1) % Bits16) = q
BY SMT DEF Bits16

LEMMA ModuloBits8 ==
  \A x \in Nat : /\ (x + 1) % Bits8 \in Nat
                 /\ (x + 1) % Bits8 = x + 1 \/ x >= Bits8 - 1
BY SMT DEF Bits8

\* What SendPacketToTransport() leaves.
Emptied(c) == [c EXCEPT !.buffered = 0, !.wr_pos = 0, !.parts = <<>>,
                        !.new_segment = TRUE, !.seq = (@ + 1) % Bits16,
                        !.wrapped = FALSE]

LEMMA EmptiedShape ==
  ASSUME NEW c, c \in Combiners, c.max > 0
  PROVE  Shape(Emptied(c)) /\ Emptied(c).parts = <<>>
<1> DEFINE q == (c.seq + 1) % Bits16
<1>1. c \in Combiners
  OBVIOUS
<1>2. q \in Nat
  <2>1. c.seq \in Nat
    BY <1>1 DEF Combiners
  <2> DEFINE x == c.seq + 1
  <2>2. x \in Int
    BY <2>1
  <2> HIDE DEF x
  <2>3. (x % Bits16) \in Nat
    BY <2>2, ModuloBits16
  <2> QED BY <2>3 DEF x
<1> HIDE DEF q
<1> DEFINE b == [c EXCEPT !.buffered = 0, !.wr_pos = 0, !.parts = <<>>,
                          !.new_segment = TRUE, !.seq = q, !.wrapped = FALSE]
<1>3. b \in Combiners /\ b.parts = <<>> /\ b.wr_pos = 0 /\ b.new_segment /\ b.max = c.max
      /\ b.buffered = 0
  <2>1. <<>> \in Seq(Parts)
    OBVIOUS
  <2>2. 0 \in Nat /\ 0 \in 0 .. Bits8 - 1 /\ TRUE \in BOOLEAN /\ FALSE \in BOOLEAN
    BY SMT DEF Bits8
  <2>3. b \in Combiners
    BY <1>1, <1>2, <2>1, <2>2, Zenon DEF Combiners
  <2> QED BY <1>1, <2>3 DEF Combiners
<1>4. Shape(b)
  <2> HIDE DEF b
  <2>1. c.max > 0 /\ c.max \in Int
    BY DEF Combiners
  <2> QED BY <1>3, <2>1, SMT DEF Shape, Distinct, BufferSize, IP_PACKET_SIZE
<1>5. Emptied(c) = b
  BY DEF Emptied, q
<1> QED BY <1>3, <1>4, <1>5

LEMMA SegmentTyped ==
  ASSUME NEW c, c \in Combiners
  PROVE  /\ Segment(c) \in Segments /\ Segment(c).kind = "segment"
         /\ Segment(c).parts = c.parts /\ Segment(c).size = c.wr_pos
         /\ Segment(c).pt = c.latest_pt /\ Segment(c).ts = c.begin_ts
         /\ Segment(c).begin_seq = c.begin_seq
BY DEF Segment, MarkerBit, Combiners, Segments

LEMMA FlushedOr ==
  ASSUME NEW cond, NEW c, NEW o, c \in Combiners
  PROVE  \/ /\ FlushIf(cond, [c |-> c, out |-> o]) = [c |-> c, out |-> o]
            /\ c.wr_pos = 0 \/ ~cond
         \/ /\ FlushIf(cond, [c |-> c, out |-> o])
                 = [c |-> Emptied(c), out |-> o \cup {Segment(c)}]
            /\ c.wr_pos # 0 /\ cond
BY DEF FlushIf, SendPacketToTransport, Emptied

\* Before packet p is written into combiner c, the segment was sent, or p continues
\* it: b is the combiner then, o what was sent.
PutInto(b, o, c, p) ==
  /\ \/ /\ b = c /\ o = {}
        /\ c.parts = <<>> \/ (~TypeChanges(c, p) /\ ~SeqJumps(c, p) /\ ~TooLong(c, p))
     \/ b = Emptied(c) /\ o = {Segment(c)} /\ c.parts # <<>>
  /\ SendPacket(c, p) = FlushIf(Full(PutData(b, p)), [c |-> PutData(b, p), out |-> o])

LEMMA FlushedBefore ==
  ASSUME NEW c, Shape(c), NEW p
  PROVE  \E b, o : PutInto(b, o, c, p)
<1> DEFINE s0 == [c |-> c, out |-> {}]
           s1 == FlushIf(TypeChanges(c, p), s0)
           s2 == FlushIf(SeqJumps(s1.c, p), s1)
           s3 == FlushIf(TooLong(s2.c, p), s2)
           e == [c |-> Emptied(c), out |-> {Segment(c)}]
<1>1. c \in Combiners /\ c.max > 0 /\ (c.parts = <<>> <=> c.wr_pos = 0)
  BY DEF Shape
<1>2. Emptied(c) \in Combiners /\ Emptied(c).wr_pos = 0
  BY <1>1, EmptiedShape DEF Shape
<1>3. \A cond : FlushIf(cond, e) = e
  BY <1>2 DEF FlushIf, SendPacketToTransport
<1>4. \A cond : \/ FlushIf(cond, s0) = s0 /\ (c.wr_pos = 0 \/ ~cond)
                \/ FlushIf(cond, s0) = e /\ c.wr_pos # 0
  <2> TAKE cond
  <2>1. {Segment(c)} = {} \cup {Segment(c)}
    OBVIOUS
  <2> QED BY <1>1, FlushedOr, <2>1
<1>5. \/ s1 = s0 /\ (c.wr_pos = 0 \/ ~TypeChanges(c, p))
      \/ s1 = e /\ c.wr_pos # 0
  BY <1>4
<1>6. s0.c = c
  OBVIOUS
<1> HIDE DEF s0, e
<1>7. \/ s2 = s0 /\ (c.wr_pos = 0 \/ (~TypeChanges(c, p) /\ ~SeqJumps(c, p)))
      \/ s2 = e /\ c.wr_pos # 0
  <2>1. CASE s1 = e
    BY <2>1, <1>3, <1>5, <1>6
  <2>2. CASE s1 = s0
    BY <2>2, <1>4, <1>5, <1>6
  <2> QED BY <2>1, <2>2, <1>5
<1> HIDE DEF s1
<1>8. \/ s3 = s0 /\ (c.wr_pos = 0 \/ (~TypeChanges(c, p) /\ ~SeqJumps(c, p) /\ ~TooLong(c, p)))
      \/ s3 = e /\ c.wr_pos # 0
  <2>1. CASE s2 = e
    BY <2>1, <1>3, <1>7, <1>6
  <2>2. CASE s2 = s0
    BY <2>2, <1>4, <1>7, <1>6
  <2> QED BY <2>1, <2>2, <1>7
<1>9. \A b, o : s3 = [c |-> b, out |-> o] =>
        SendPacket(c, p) = FlushIf(Full(PutData(b, p)), [c |-> PutData(b, p), out |-> o])
  BY DEF SendPacket, s1, s0
<1> HIDE DEF s2, s3
<1>10. ASSUME s3 = s0, c.wr_pos = 0 \/ (~TypeChanges(c, p) /\ ~SeqJumps(c, p) /\ ~TooLong(c, p))
       PROVE  PutInto(c, {}, c, p)
  BY <1>10, <1>1, <1>9 DEF s0, PutInto
<1>11. ASSUME s3 = e, c.wr_pos # 0 PROVE PutInto(Emptied(c), {Segment(c)}, c, p)
  BY <1>11, <1>1, <1>9 DEF e, PutInto
<1> QED BY <1>8, <1>10, <1>11

\* A packet that is written into the segment.
WrittenAt(p, t) == [delta |-> (p.ts - t) % Bits16, len |-> p.len, id |-> p.id]

LEMMA CountedRight ==
  ASSUME NEW c, c \in Combiners, NEW b, b = CountBuffered(c)
  PROVE  /\ b = [c EXCEPT !.buffered = b.buffered, !.wrapped = b.wrapped]
         /\ b \in Combiners
         /\ ~b.wrapped => ~c.wrapped /\ b.buffered = c.buffered + 1
<1> DEFINE k == c.buffered
           n == (k + 1) % Bits8
           w == c.wrapped \/ k = Bits8 - 1
           g == c.wrapped \/ c.buffered = Bits8 - 1
<1>1. k \in Nat /\ k < Bits8
  <2>1. k \in 0 .. Bits8 - 1
    BY DEF Combiners
  <2> QED BY <2>1 DEF Bits8
<1>2. n \in Nat /\ n < Bits8 /\ (k # Bits8 - 1 => n = k + 1)
  <2> HIDE DEF k
  <2> QED BY <1>1, SMT DEF Bits8
<1>3. b = [c EXCEPT !.buffered = n, !.wrapped = w]
  BY DEF CountBuffered
<1> HIDE DEF n
<1>4. w \in BOOLEAN /\ (~w => ~c.wrapped /\ k # Bits8 - 1)
  OBVIOUS
<1> HIDE DEF w
<1>5. b \in Combiners
  <2>1. n \in 0 .. Bits8 - 1
    BY <1>2 DEF Bits8
  <2> QED BY <2>1, <1>3, <1>4, Zenon DEF Combiners
<1>6. b.buffered = n /\ (b.wrapped <=> w) /\ b.wrapped = w
  BY <1>3 DEF Combiners
<1>7. ~b.wrapped => ~c.wrapped /\ b.buffered = k + 1
  BY <1>2, <1>4, <1>6
<1> QED BY <1>3, <1>5, <1>6, <1>7

LEMMA PutRight ==
  ASSUME NEW c, Shape(c), NEW p \in Packets, NEW b, b = PutData(c, p)
  PROVE  /\ b \in Combiners /\ b.max = c.max
         /\ b.parts = Append(c.parts, WrittenAt(p, b.begin_ts))
         /\ WrittenAt(p, b.begin_ts) \in Parts
         /\ b.wr_pos = c.wr_pos + p.len + SegmentHdr
         /\ ~b.new_segment /\ b.latest_pt = p.pt /\ b.latest_seq = p.seq
         /\ IF c.parts = <<>> THEN b.begin_ts = p.ts /\ b.begin_seq = p.seq
            ELSE b.begin_ts = c.begin_ts /\ b.begin_seq = c.begin_seq
         /\ ~b.wrapped => ~c.wrapped /\ b.buffered = c.buffered + 1
<1> DEFINE e == Begun(c, p)
           f == CountBuffered(e)
<1>1. c \in Combiners /\ p.ts \in Nat /\ p.seq \in Nat /\ p.pt \in Int /\ p.len \in Nat
      /\ p.id \in Nat
  BY DEF Shape, Packets
<1>2. /\ e \in Combiners /\ e.max = c.max /\ e.parts = c.parts /\ e.wr_pos = c.wr_pos
      /\ e.buffered = c.buffered /\ e.wrapped = c.wrapped
      /\ ~e.new_segment
      /\ IF c.parts = <<>> THEN e.begin_ts = p.ts /\ e.begin_seq = p.seq
         ELSE e.begin_ts = c.begin_ts /\ e.begin_seq = c.begin_seq
  <2>1. CASE c.new_segment
    <3>1. e = [c EXCEPT !.begin_ts = p.ts, !.begin_seq = p.seq, !.new_segment = FALSE]
      BY <2>1 DEF Begun
    <3>2. FALSE \in BOOLEAN
      OBVIOUS
    <3>3. e \in Combiners
      BY <1>1, <3>1, <3>2, Zenon DEF Combiners
    <3>4. c.parts = <<>>
      BY <2>1 DEF Shape
    <3> QED BY <1>1, <3>1, <3>3, <3>4 DEF Combiners
  <2>2. CASE ~c.new_segment
    <3>1. e = c
      BY <2>2 DEF Begun
    <3>2. c.parts # <<>>
      BY <2>2 DEF Shape
    <3> QED BY <1>1, <2>2, <3>1, <3>2
  <2> QED BY <2>1, <2>2
<1> HIDE DEF e
<1>3. /\ f = [e EXCEPT !.buffered = f.buffered, !.wrapped = f.wrapped]
      /\ f \in Combiners
      /\ ~f.wrapped => ~e.wrapped /\ f.buffered = e.buffered + 1
  BY <1>2, CountedRight
<1>4. /\ f.max = e.max /\ f.parts = e.parts /\ f.wr_pos = e.wr_pos
      /\ f.new_segment = e.new_segment /\ f.begin_ts = e.begin_ts
      /\ f.begin_seq = e.begin_seq
  <2> DEFINE m == f.buffered
             w == f.wrapped
  <2>1. f = [e EXCEPT !.buffered = m, !.wrapped = w]
    BY <1>3
  <2> HIDE DEF f, m, w
  <2> QED BY <2>1, <1>2 DEF Combiners
<1>5. b = [f EXCEPT !.parts = Append(@, [delta |-> (p.ts - f.begin_ts) % Bits16,
                                         len |-> p.len, id |-> p.id]),
                    !.wr_pos = @ + p.len + SegmentHdr,
                    !.latest_pt = p.pt, !.latest_seq = p.seq]
  BY DEF PutData, f, e
<1> HIDE DEF f
<1> DEFINE x == WrittenAt(p, f.begin_ts)
           ps == Append(f.parts, x)
           pos == f.wr_pos + p.len + SegmentHdr
<1>6. x \in Parts
  <2> DEFINE z == p.ts - f.begin_ts
  <2>0. f.begin_ts \in Nat
    BY <1>3 DEF Combiners
  <2>1. z \in Int
    BY <1>1, <2>0
  <2> HIDE DEF z
  <2>2. (z % Bits16) \in Nat
    BY <2>1, ModuloBits16
  <2> DEFINE y == z % Bits16
  <2>3. x = [delta |-> y, len |-> p.len, id |-> p.id]
    BY DEF WrittenAt, z
  <2>4. y \in Nat
    BY <2>2
  <2> HIDE DEF y
  <2> QED BY <1>1, <2>3, <2>4 DEF Parts
<1>7. b = [f EXCEPT !.parts = ps, !.wr_pos = pos, !.latest_pt = p.pt, !.latest_seq = p.seq]
  BY <1>5 DEF WrittenAt
<1> HIDE DEF x
<1>8. ps \in Seq(Parts) /\ pos \in Nat
  <2>1. f.parts \in Seq(Parts) /\ f.wr_pos \in Nat
    BY <1>3 DEF Combiners
  <2>2. SegmentHdr \in Nat
    BY DEF SegmentHdr
  <2> QED BY <2>1, <2>2, <1>1, <1>6
<1> HIDE DEF ps, pos
<1>9. b \in Combiners
  BY <1>1, <1>3, <1>7, <1>8, Zenon DEF Combiners
<1>10. /\ b.max = f.max /\ b.parts = ps /\ b.wr_pos = pos
       /\ b.new_segment = f.new_segment /\ b.begin_ts = f.begin_ts
       /\ b.begin_seq = f.begin_seq /\ b.latest_pt = p.pt /\ b.latest_seq = p.seq
       /\ b.buffered = f.buffered /\ b.wrapped = f.wrapped
  BY <1>3, <1>7 DEF Combiners
<1>11. x = WrittenAt(p, b.begin_ts)
  BY <1>10 DEF x
<1>12. ~b.wrapped => ~c.wrapped /\ b.buffered = c.buffered + 1
  BY <1>10, <1>3, <1>2
<1>13. ~b.new_segment
  BY <1>10, <1>4, <1>2
<1>14. b.parts = Append(c.parts, x) /\ b.wr_pos = c.wr_pos + p.len + SegmentHdr
  BY <1>10, <1>4, <1>2 DEF ps, pos
<1>15. IF c.parts = <<>> THEN b.begin_ts = p.ts /\ b.begin_seq = p.seq
       ELSE b.begin_ts = c.begin_ts /\ b.begin_seq = c.begin_seq
  BY <1>10, <1>4, <1>2
<1> QED BY <1>2, <1>4, <1>6, <1>9, <1>10, <1>11, <1>12, <1>13, <1>14, <1>15

LEMMA PutShape ==
  ASSUME NEW c, Shape(c), NEW p \in Packets, NEW b, b = PutData(c, p),
         p.len <= MaxDataSize, c.parts = <<>> \/ ~TooLong(c, p),
         p.id \notin IdsOf(c.parts)
  PROVE  /\ b \in Combiners /\ b.max > 0 /\ b.wr_pos # 0 /\ b.wr_pos <= BufferSize
         /\ Distinct(b.parts) /\ IdsOf(b.parts) = IdsOf(c.parts) \cup {p.id}
         /\ ~Full(b) => Shape(b)
<1> DEFINE x == WrittenAt(p, b.begin_ts)
<1>1. /\ b \in Combiners /\ b.max = c.max /\ b.parts = Append(c.parts, x) /\ x \in Parts
      /\ b.wr_pos = c.wr_pos + p.len + SegmentHdr /\ ~b.new_segment
      /\ ~b.wrapped => ~c.wrapped /\ b.buffered = c.buffered + 1
  BY PutRight
<1>2. x.id = p.id
  BY DEF WrittenAt
<1> HIDE DEF x
<1>3. /\ c.parts \in Seq(Parts) /\ c.wr_pos \in Nat /\ p.len \in Nat /\ c.max \in Int
      /\ c.max > 0 /\ Distinct(c.parts) /\ (c.parts = <<>> => c.wr_pos = 0)
      /\ b.max \in Int
  BY <1>1 DEF Shape, Combiners, Packets
<1>4. b.wr_pos # 0 /\ b.wr_pos <= BufferSize
  BY <1>1, <1>3, SMT DEF TooLong, SegmentHdr, BufferSize, MaxDataSize, IP_PACKET_SIZE
<1>5. /\ Len(b.parts) = Len(c.parts) + 1
      /\ \A i \in 1 .. Len(c.parts) : b.parts[i] = c.parts[i]
      /\ b.parts[Len(c.parts) + 1] = x
  BY <1>1, <1>3
<1>6. Len(c.parts) \in Nat
  BY <1>3
<1>7. IdsOf(b.parts) = IdsOf(c.parts) \cup {p.id}
  <2>1. ASSUME NEW k \in IdsOf(b.parts) PROVE k \in IdsOf(c.parts) \cup {p.id}
    <3>1. PICK i \in 1 .. Len(b.parts) : k = b.parts[i].id
      BY <2>1 DEF IdsOf
    <3>2. i \in 1 .. Len(c.parts) \/ i = Len(c.parts) + 1
      BY <3>1, <1>5, <1>6
    <3> QED BY <3>1, <3>2, <1>2, <1>5 DEF IdsOf
  <2>2. ASSUME NEW k \in IdsOf(c.parts) \cup {p.id} PROVE k \in IdsOf(b.parts)
    <3>1. CASE k = p.id
      <4>1. Len(c.parts) + 1 \in 1 .. Len(b.parts)
        BY <1>5, <1>6
      <4> QED BY <3>1, <4>1, <1>2, <1>5 DEF IdsOf
    <3>2. CASE k \in IdsOf(c.parts)
      <4>1. PICK i \in 1 .. Len(c.parts) : k = c.parts[i].id
        BY <3>2 DEF IdsOf
      <4>2. i \in 1 .. Len(b.parts)
        BY <4>1, <1>5, <1>6
      <4> QED BY <4>1, <4>2, <1>5 DEF IdsOf
    <3> QED BY <2>2, <3>1, <3>2
  <2> QED BY <2>1, <2>2
<1>8. Distinct(b.parts)
  <2> SUFFICES ASSUME NEW i \in 1 .. Len(b.parts), NEW j \in 1 .. Len(b.parts),
                      b.parts[i].id = b.parts[j].id
               PROVE  i = j
    BY DEF Distinct
  <2>1. /\ i \in 1 .. Len(c.parts) \/ i = Len(c.parts) + 1
        /\ j \in 1 .. Len(c.parts) \/ j = Len(c.parts) + 1
    BY <1>5, <1>6
  <2>2. \A k \in 1 .. Len(c.parts) : c.parts[k].id # p.id
    BY DEF IdsOf
  <2>3. CASE i \in 1 .. Len(c.parts) /\ j \in 1 .. Len(c.parts)
    BY <2>3, <1>3, <1>5 DEF Distinct
  <2>4. ~(i \in 1 .. Len(c.parts) /\ j = Len(c.parts) + 1)
    BY <2>2, <1>2, <1>5
  <2>5. ~(j \in 1 .. Len(c.parts) /\ i = Len(c.parts) + 1)
    BY <2>2, <1>2, <1>5
  <2> QED BY <2>1, <2>3, <2>4, <2>5
<1>9. ASSUME ~Full(b) PROVE Shape(b)
  <2>1. b.parts # <<>>
    BY <1>1, <1>3
  <2>2. b.buffered < b.max
    <3>1. b.buffered \in 0 .. Bits8 - 1
      BY <1>1 DEF Combiners
    <3>2. b.buffered \in Int
      BY <3>1
    <3> QED BY <1>9, <3>2, <1>3 DEF Full
  <2>3. ~b.wrapped => Len(b.parts) <= b.buffered
    <3>1. ~c.wrapped => Len(c.parts) <= c.buffered
      BY DEF Shape
    <3>2. c.buffered \in 0 .. Bits8 - 1
      BY DEF Shape, Combiners
    <3>3. c.buffered \in Int
      BY <3>2
    <3> QED BY <3>1, <3>3, <1>1, <1>5, <1>6
  <2>4. ~b.wrapped => Len(b.parts) < b.max
    <3>1. b.buffered \in 0 .. Bits8 - 1
      BY <1>1 DEF Combiners
    <3>2. b.buffered \in Int
      BY <3>1
    <3> QED BY <2>2, <2>3, <3>2, <1>3, <1>5, <1>6
  <2> QED BY <1>1, <1>3, <1>4, <1>8, <2>1, <2>3, <2>4 DEF Shape
<1> QED BY <1>1, <1>3, <1>4, <1>7, <1>8, <1>9

LEMMA TellsLonger ==
  ASSUME NEW s \in Seq(Packets), NEW p \in Packets, NEW parts, NEW pt, NEW q, NEW t,
         Tells(s, parts, pt, q, t)
  PROVE  Tells(Append(s, p), parts, pt, q, t)
<1>1. /\ Len(Append(s, p)) = Len(s) + 1 /\ Len(s) \in Nat
      /\ \A i \in 1 .. Len(s) : Append(s, p)[i] = s[i] /\ i \in 1 .. Len(s) + 1
  OBVIOUS
<1>2. \A part, r : TellsOne(s, part, pt, r, t) => TellsOne(Append(s, p), part, pt, r, t)
  BY <1>1, Zenon DEF TellsOne
<1> QED BY <1>2 DEF Tells

\* No packet uses the numbers that the combiner takes for "none".
NoneIsZero(s) == \A i \in 1 .. Len(s) : s[i].pt # 0 /\ s[i].seq # 0

LEMMA PutContinues ==
  ASSUME NEW c, Shape(c), NEW s \in Seq(Packets), NEW p \in Packets,
         NEW b, b = PutData(c, p),
         p.id = Len(s) + 1, p.seq < 65536, Continues(s, c), NoneIsZero(s), p.seq # 0,
         c.parts = <<>> \/ (~TypeChanges(c, p) /\ ~SeqJumps(c, p))
  PROVE  Continues(Append(s, p), b)
<1> DEFINE x == WrittenAt(p, b.begin_ts)
           n == Len(c.parts)
           st == Append(s, p)
<1>1. /\ b \in Combiners /\ b.parts = Append(c.parts, x) /\ x \in Parts
      /\ b.latest_pt = p.pt /\ b.latest_seq = p.seq
      /\ IF c.parts = <<>> THEN b.begin_ts = p.ts /\ b.begin_seq = p.seq
         ELSE b.begin_ts = c.begin_ts /\ b.begin_seq = c.begin_seq
  BY PutRight
<1>2. x.id = Len(s) + 1 /\ x.delta = (p.ts - b.begin_ts) % Bits16
  BY DEF WrittenAt
<1> HIDE DEF x
<1>3. c.parts \in Seq(Parts) /\ c \in Combiners
  BY DEF Shape, Combiners
<1>4. /\ n \in Nat /\ Len(b.parts) = n + 1
      /\ \A i \in 1 .. n : b.parts[i] = c.parts[i]
      /\ b.parts[n + 1] = x
  BY <1>1, <1>3
<1>5. st[Len(s) + 1] = p /\ Len(s) + 1 \in 1 .. Len(st)
  OBVIOUS
<1>6. (b.begin_ts + x.delta - p.ts) % Bits16 = 0
  <2> DEFINE y == p.ts
             z == b.begin_ts
             d == x.delta
  <2>1. y \in Int /\ z \in Int
    BY <1>1 DEF Packets, Combiners
  <2>2. d = (y - z) % Bits16
    BY <1>2
  <2> HIDE DEF y, z, d
  <2>3. ((z + d - y) % Bits16) = 0
    BY <2>1, <2>2, OffsetTells
  <2> QED BY <2>3 DEF y, z, d
<1>7. p.seq \in Nat
  BY DEF Packets
<1>8. ASSUME c.parts # <<>>
      PROVE  /\ c.latest_pt = p.pt /\ Tells(st, c.parts, p.pt, c.begin_seq, c.begin_ts)
             /\ (c.begin_seq + n) % Bits16 = p.seq
  <2>1. /\ Tells(s, c.parts, c.latest_pt, c.begin_seq, c.begin_ts)
        /\ c.latest_seq = s[c.parts[n].id].seq
    BY <1>8 DEF Continues
  <2>2. n \in 1 .. n
    BY <1>8, <1>3
  <2>3. /\ c.parts[n].id \in 1 .. Len(s) /\ s[c.parts[n].id].pt = c.latest_pt
        /\ c.latest_seq = (c.begin_seq + n - 1) % Bits16
    BY <2>1, <2>2 DEF Tells, TellsOne, SegmentNumber
  <2>4. c.latest_pt # 0 /\ c.latest_seq # 0
    <3> DEFINE k == c.parts[n].id
    <3>1. k \in 1 .. Len(s) /\ s[k].pt = c.latest_pt /\ c.latest_seq = s[k].seq
      BY <2>1, <2>3
    <3> HIDE DEF k
    <3> QED BY <3>1 DEF NoneIsZero
  <2>5. c.latest_pt = p.pt /\ c.latest_seq = p.seq - 1
    BY <1>8, <2>4 DEF TypeChanges, SeqJumps
  <2>6. c.begin_seq \in Nat
    BY <1>3 DEF Combiners
  <2>7. (c.begin_seq + n) % Bits16 = p.seq
    <3> DEFINE y == c.begin_seq + n - 1
    <3>1. y \in Nat /\ y + 1 = c.begin_seq + n
      BY <2>2, <2>6, <1>4, SMTT(30)
    <3>2. y % Bits16 = p.seq - 1
      BY <2>3, <2>5
    <3> HIDE DEF y
    <3>3. p.seq > 0
      BY <1>7
    <3>4. (y + 1) % Bits16 = p.seq
      BY <3>1, <3>2, <3>3, <1>7, NumberAfter
    <3> QED BY <3>1, <3>4
  <2> QED BY <2>1, <2>5, <2>7, TellsLonger
<1>9. Tells(st, b.parts, p.pt, b.begin_seq, b.begin_ts)
  <2> DEFINE ps == b.parts
             q == b.begin_seq
             t == b.begin_ts
             y == p.pt
             Told(i) == TellsOne(st, ps[i], y, SegmentNumber(q, i), t)
  <2>0. ASSUME \A i \in 1 .. Len(ps) : Told(i) PROVE Tells(st, ps, y, q, t)
    <3> HIDE DEF ps, q, t, y, st
    <3> QED BY <2>0 DEF Tells
  <2> SUFFICES ASSUME NEW i \in 1 .. Len(ps) PROVE Told(i)
    BY <2>0
  <2>1. i \in 1 .. n \/ i = n + 1
    BY <1>4
  <2>2. CASE i \in 1 .. n
    <3>1. c.parts # <<>> /\ b.parts[i] = c.parts[i]
      BY <2>2, <1>4, <1>3
    <3> QED BY <3>1, <2>2, <1>8, <1>1 DEF Tells
  <2>3. CASE i = n + 1
    <3>1. b.parts[i] = x /\ st[x.id] = p /\ x.id \in 1 .. Len(st)
      BY <2>3, <1>2, <1>4, <1>5
    <3>2. SegmentNumber(b.begin_seq, i) = p.seq
      <4>1. CASE c.parts = <<>>
        <5>1. n = 0 /\ b.begin_seq = p.seq
          BY <4>1, <1>1
        <5>2. b.begin_seq + i - 1 = p.seq
          BY <5>1, <2>3, <1>7
        <5>3. p.seq % Bits16 = p.seq
          BY <1>7, SMT DEF Bits16
        <5> QED BY <5>2, <5>3 DEF SegmentNumber
      <4>2. CASE c.parts # <<>>
        <5>1. b.begin_seq = c.begin_seq /\ c.begin_seq \in Nat
          BY <4>2, <1>1, <1>3 DEF Combiners
        <5>2. b.begin_seq + i - 1 = c.begin_seq + n
          BY <5>1, <2>3, <1>4
        <5> QED BY <5>2, <1>8, <4>2 DEF SegmentNumber
      <4> QED BY <4>1, <4>2
    <3> QED BY <3>1, <3>2, <1>6 DEF TellsOne
  <2> QED BY <2>1, <2>2, <2>3
<1>10. b.latest_seq = st[b.parts[Len(b.parts)].id].seq
  BY <1>1, <1>2, <1>4, <1>5
<1> QED BY <1>1, <1>9, <1>10 DEF Continues

\* A segment that may be on its way.
Sendable(d) == /\ d \in Segments /\ d.kind = "segment"
               /\ Distinct(d.parts) /\ d.size <= BufferSize

\* Its header tells what is in it.
SegmentTrue(s, d) == Tells(s, d.parts, d.pt, d.begin_seq, d.ts)

\* The packets of "from" and the next one are in the combiner or in one segment.
Shared(from, held, onTheWay) ==
  /\ \A k : k \in from <=> (k \in held \/ \E d \in onTheWay : k \in IdsOf(d.parts))
  /\ \A d \in onTheWay : IdsOf(d.parts) \cap held = {}
  /\ \A d, e \in onTheWay : d # e => IdsOf(d.parts) \cap IdsOf(e.parts) = {}

LEMMA SharedMore ==
  ASSUME NEW from, NEW held, NEW onTheWay, NEW x, NEW more, Shared(from, held, onTheWay),
         x \notin from, more = held \cup {x}
  PROVE  Shared(from \cup {x}, more, onTheWay)
BY DEF Shared

LEMMA SharedSent ==
  ASSUME NEW from, NEW onTheWay, NEW d, NEW more, NEW ids,
         Shared(from, ids, onTheWay), ids = IdsOf(d.parts), more = onTheWay \cup {d}
  PROVE  Shared(from, {}, more)
BY DEF Shared

LEMMA NoIds == IdsOf(<<>>) = {}
BY DEF IdsOf

LEMMA SegmentOf ==
  ASSUME NEW c \in Combiners, Distinct(c.parts), c.wr_pos <= BufferSize
  PROVE  /\ Sendable(Segment(c)) /\ Segment(c).parts = c.parts
         /\ \A s : Continues(s, c) => c.parts = <<>> \/ SegmentTrue(s, Segment(c))
<1> DEFINE d == Segment(c)
<1>1. /\ d \in Segments /\ d.kind = "segment" /\ d.parts = c.parts /\ d.size = c.wr_pos
      /\ d.pt = c.latest_pt /\ d.ts = c.begin_ts /\ d.begin_seq = c.begin_seq
  BY SegmentTyped
<1> HIDE DEF d
<1>2. Sendable(d)
  BY <1>1 DEF Sendable
<1>3. \A s : Continues(s, c) => c.parts = <<>> \/ SegmentTrue(s, d)
  BY <1>1 DEF Continues, SegmentTrue
<1> QED BY <1>1, <1>2, <1>3 DEF d

\* What becomes of combiner c and packet p, sent behind those of s.
SentWell(s, c, p, r) ==
  /\ Shape(r.c)
  /\ \A d \in r.out : Sendable(d)
  /\ Shared(IdsOf(c.parts) \cup {p.id}, IdsOf(r.c.parts), r.out)
  /\ NoneIsZero(s) /\ p.seq # 0 /\ Continues(s, c) =>
       /\ Continues(Append(s, p), r.c)
       /\ \A d \in r.out : SegmentTrue(Append(s, p), d)

\* SendPacket() keeps every packet once, in segments that fit and whose headers are
\* true, unless a packet has one of the numbers that stand for "none".
LEMMA SendPacketRight ==
  ASSUME NEW s \in Seq(Packets), NEW c, Shape(c), NEW p \in Packets,
         IdsOf(c.parts) \subseteq 1 .. Len(s), p.id = Len(s) + 1,
         p.len <= MaxDataSize, p.seq < 65536, NEW r, r = SendPacket(c, p)
  PROVE  SentWell(s, c, p, r)
<1> USE DEF SentWell
<1>0. PICK b, o : PutInto(b, o, c, p)
  BY FlushedBefore, SMTT(30)
<1>1. /\ \/ /\ b = c /\ o = {}
            /\ c.parts = <<>> \/ (~TypeChanges(c, p) /\ ~SeqJumps(c, p) /\ ~TooLong(c, p))
         \/ b = Emptied(c) /\ o = {Segment(c)} /\ c.parts # <<>>
      /\ r = FlushIf(Full(PutData(b, p)), [c |-> PutData(b, p), out |-> o])
  BY <1>0 DEF PutInto
<1> DEFINE st == Append(s, p)
           d1 == PutData(b, p)
           ids == IdsOf(c.parts)
           Good == NoneIsZero(s) /\ p.seq # 0 /\ Continues(s, c)
<1>2. /\ c \in Combiners /\ c.max > 0 /\ c.wr_pos <= BufferSize /\ Distinct(c.parts)
  BY DEF Shape
<1>3. p.id \notin ids
  <2>1. Len(s) \in Nat
    OBVIOUS
  <2> QED BY <2>1
<1>4. /\ Shape(b) /\ \A d \in o : Sendable(d)
      /\ Shared(ids, IdsOf(b.parts), o)
      /\ Good => Continues(s, b) /\ \A d \in o : SegmentTrue(s, d)
      /\ b.parts = <<>> \/ (~TypeChanges(b, p) /\ ~SeqJumps(b, p) /\ ~TooLong(b, p))
  <2>1. CASE b = c /\ o = {}
    BY <2>1, <1>1 DEF Shared
  <2>2. CASE b = Emptied(c) /\ o = {Segment(c)} /\ c.parts # <<>>
    <3>1. Shape(b) /\ b.parts = <<>>
      BY <2>2, <1>2, EmptiedShape
    <3>2. /\ Sendable(Segment(c)) /\ Segment(c).parts = c.parts
          /\ \A t : Continues(t, c) => c.parts = <<>> \/ SegmentTrue(t, Segment(c))
      BY <1>2, SegmentOf
    <3>3. Shared(ids, {}, {Segment(c)})
      BY <3>2 DEF Shared
    <3>4. Continues(s, b)
      BY <3>1 DEF Continues
    <3>5. Shared(ids, IdsOf(b.parts), o)
      <4>1. IdsOf(b.parts) = {}
        BY <3>1, NoIds
      <4> QED BY <4>1, <2>2, <3>3
    <3>6. ASSUME Good PROVE \A d \in o : SegmentTrue(s, d)
      BY <2>2, <3>2, <3>6
    <3> HIDE DEF Good, ids
    <3> QED BY <2>2, <3>1, <3>2, <3>4, <3>5, <3>6
  <2> QED BY <1>1, <2>1, <2>2
<1>5. p.id \notin IdsOf(b.parts) /\ \A d \in o : p.id \notin IdsOf(d.parts)
  BY <1>3, <1>4 DEF Shared
<1>6. /\ d1 \in Combiners /\ d1.max > 0 /\ d1.wr_pos # 0 /\ d1.wr_pos <= BufferSize
      /\ Distinct(d1.parts) /\ IdsOf(d1.parts) = IdsOf(b.parts) \cup {p.id}
      /\ ~Full(d1) => Shape(d1)
  BY <1>4, <1>5, PutShape
<1>7. Shared(ids \cup {p.id}, IdsOf(d1.parts), o)
  BY <1>3, <1>4, <1>6, SharedMore
<1>8. ASSUME Good PROVE Continues(st, d1) /\ \A d \in o : SegmentTrue(st, d)
  <2>1. Continues(st, d1)
    BY <1>4, <1>8, PutContinues
  <2> QED BY <2>1, <1>4, <1>8, TellsLonger DEF SegmentTrue
<1> HIDE DEF d1, Good, st, ids
<1>9. CASE r = [c |-> d1, out |-> o] /\ (d1.wr_pos = 0 \/ ~Full(d1))
  <2>1. r.c = d1 /\ r.out = o
    BY <1>9
  <2> QED BY <2>1, <1>9, <1>4, <1>6, <1>7, <1>8 DEF st, ids, Good
<1>10. CASE r = [c |-> Emptied(d1), out |-> o \cup {Segment(d1)}]
  <2>1. r.c = Emptied(d1) /\ r.out = o \cup {Segment(d1)}
    BY <1>10
  <2>2. Shape(r.c) /\ r.c.parts = <<>>
    BY <2>1, <1>6, EmptiedShape
  <2>3. /\ Sendable(Segment(d1)) /\ Segment(d1).parts = d1.parts
        /\ \A t : Continues(t, d1) => d1.parts = <<>> \/ SegmentTrue(t, Segment(d1))
    BY <1>6, SegmentOf
  <2>4. d1.parts # <<>>
    <3> SUFFICES ASSUME d1.parts = <<>> PROVE FALSE
      OBVIOUS
    <3>1. IdsOf(d1.parts) = {}
      BY NoIds
    <3>2. p.id \in IdsOf(d1.parts)
      BY <1>6
    <3> QED BY <3>1, <3>2
  <2>5. Shared(ids \cup {p.id}, {}, r.out)
    <3>1. IdsOf(Segment(d1).parts) = IdsOf(d1.parts)
      BY <2>3
    <3> DEFINE g == Segment(d1)
               from == ids \cup {p.id}
               h == IdsOf(d1.parts)
               more == r.out
    <3>2. Shared(from, h, o) /\ h = IdsOf(g.parts) /\ more = o \cup {g}
      BY <3>1, <1>7, <2>1
    <3> HIDE DEF g, from, h, more
    <3>3. Shared(from, {}, more)
      BY ONLY <3>2, SharedSent
    <3> USE DEF more, from
    <3> QED BY <3>3
  <2>6. ASSUME Good PROVE Continues(st, r.c) /\ \A d \in r.out : SegmentTrue(st, d)
    BY <2>6, <2>1, <2>2, <2>3, <2>4, <1>8 DEF Continues
  <2>7. \A d \in r.out : Sendable(d)
    BY <2>1, <2>3, <1>4
  <2>8. Shared(ids \cup {p.id}, IdsOf(r.c.parts), r.out)
    <3>1. IdsOf(r.c.parts) = {}
      BY <2>2, NoIds
    <3> QED BY <3>1, <2>5
  <2>9. /\ Shape(r.c) /\ \A d \in r.out : Sendable(d)
        /\ Shared(ids \cup {p.id}, IdsOf(r.c.parts), r.out)
        /\ Good => Continues(st, r.c) /\ \A d \in r.out : SegmentTrue(st, d)
    BY <2>2, <2>6, <2>7, <2>8
  <2> QED BY <2>9 DEF st, ids, Good
<1>11. \/ r = [c |-> d1, out |-> o] /\ (d1.wr_pos = 0 \/ ~Full(d1))
       \/ r = [c |-> Emptied(d1), out |-> o \cup {Segment(d1)}]
  BY <1>1, <1>6, FlushedOr DEF d1
<1> QED BY <1>9, <1>10, <1>11

-----------------------------------------------------------------------------
(* Where a packet can be. *)

OnWire(k, onTheWay) == \E d \in onTheWay : k \in Ids(d)
Came(k, there) == \E a \in there : a.id = k

\* Each of the packets 1 .. n is held, gone, in one datagram on the way, or has come.
Once(n, held, gone, onTheWay, there) ==
  /\ \A k : k \in 1 .. n <=> k \in held \/ k \in gone \/ OnWire(k, onTheWay)
                               \/ Came(k, there)
  /\ \A k \in held : k \notin gone /\ ~OnWire(k, onTheWay) /\ ~Came(k, there)
  /\ \A k \in gone : ~OnWire(k, onTheWay) /\ ~Came(k, there)
  /\ \A k : OnWire(k, onTheWay) => ~Came(k, there)
  /\ \A d, e \in onTheWay : d # e => Ids(d) \cap Ids(e) = {}
  /\ \A a, b \in there : a.id = b.id => a = b

\* A datagram leaves the wire, and its packets are lost or come, each once.
LEMMA OnceLost ==
  ASSUME NEW n \in Nat, NEW held, NEW gone, NEW onTheWay, NEW there, NEW d \in onTheWay,
         NEW more, NEW rest, Once(n, held, gone, onTheWay, there),
         more = gone \cup Ids(d), rest = onTheWay \ {d}
  PROVE  Once(n, held, more, rest, there)
<1>1. \A k : OnWire(k, onTheWay) <=> OnWire(k, rest) \/ k \in Ids(d)
  BY DEF OnWire
<1>2. \A k : k \in Ids(d) => ~OnWire(k, rest)
  BY DEF OnWire, Once
<1> QED BY <1>1, <1>2 DEF Once

\* The packets of d come as the members of "new".
Brings(d, new) == /\ \A k : k \in Ids(d) <=> Came(k, new)
                  /\ \A a, b \in new : a.id = b.id => a = b

LEMMA OnceCame ==
  ASSUME NEW n \in Nat, NEW held, NEW gone, NEW onTheWay, NEW there, NEW d \in onTheWay,
         NEW more, NEW rest, NEW new, Once(n, held, gone, onTheWay, there),
         more = there \cup new, rest = onTheWay \ {d}, Brings(d, new)
  PROVE  Once(n, held, gone, rest, more)
<1>0. /\ \A k : k \in Ids(d) <=> Came(k, new)
      /\ \A a, b \in new : a.id = b.id => a = b
  BY DEF Brings
<1>1. \A k : OnWire(k, onTheWay) <=> OnWire(k, rest) \/ k \in Ids(d)
  BY DEF OnWire
<1>2. \A k : k \in Ids(d) => ~OnWire(k, rest)
  BY DEF OnWire, Once
<1>3. \A k : Came(k, more) <=> Came(k, there) \/ k \in Ids(d)
  BY <1>0 DEF Came
<1>4. \A a, b \in more : a.id = b.id => a = b
  <2> SUFFICES ASSUME NEW a \in more, NEW b \in more, a.id = b.id PROVE a = b
    OBVIOUS
  <2>1. CASE a \in there /\ b \in there
    BY <2>1 DEF Once
  <2>2. CASE a \in new /\ b \in new
    BY <1>0, <2>2
  <2>3. \A x \in new : ~Came(x.id, there)
    <3> TAKE x \in new
    <3>1. x.id \in Ids(d)
      BY <1>0 DEF Came
    <3> QED BY <3>1, <1>1 DEF Once
  <2>4. ~(a \in there /\ b \in new) /\ ~(b \in there /\ a \in new)
    BY <2>3 DEF Came
  <2> QED BY <2>1, <2>2, <2>4
<1> QED BY <1>1, <1>2, <1>3, <1>4 DEF Once

\* The packets of "from" stay or are in one of the datagrams that are sent.
Dealt(from, stays, new) ==
  /\ \A k : k \in from <=> k \in stays \/ OnWire(k, new)
  /\ \A d \in new : Ids(d) \cap stays = {}
  /\ \A d, e \in new : d # e => Ids(d) \cap Ids(e) = {}

\* The next packet goes to the combiner or into one of the datagrams sent.
LEMMA OnceSent ==
  ASSUME NEW n \in Nat, NEW held, NEW gone, NEW onTheWay, NEW there, NEW stays, NEW new,
         NEW more, NEW m, Once(n, held, gone, onTheWay, there), more = onTheWay \cup new,
         m = n + 1, Dealt(held \cup {m}, stays, new)
  PROVE  Once(m, stays, gone, more, there)
<1>0. /\ \A k : k \in held \cup {m} <=> k \in stays \/ OnWire(k, new)
      /\ \A d \in new : Ids(d) \cap stays = {}
      /\ \A d, e \in new : d # e => Ids(d) \cap Ids(e) = {}
  BY DEF Dealt
<1>1. \A k : k \in 1 .. m <=> k \in 1 .. n \/ k = m
  OBVIOUS
<1>2. m \notin 1 .. n
  OBVIOUS
<1>3. \A k : OnWire(k, more) <=> OnWire(k, onTheWay) \/ OnWire(k, new)
  BY DEF OnWire
<1>4. ~OnWire(m, onTheWay) /\ ~Came(m, there) /\ m \notin gone /\ m \notin held
  BY <1>2 DEF Once
<1>5. \A k : OnWire(k, new) => ~OnWire(k, onTheWay) /\ ~Came(k, there) /\ k \notin gone
  BY <1>0, <1>4 DEF Once
<1>6. \A k : OnWire(k, new) => k \notin stays
  BY <1>0 DEF OnWire
<1>7. \A d, e \in more : d # e => Ids(d) \cap Ids(e) = {}
  <2> SUFFICES ASSUME NEW d \in more, NEW e \in more, d # e, NEW k \in Ids(d) \cap Ids(e)
               PROVE  FALSE
    OBVIOUS
  <2>1. CASE d \in onTheWay /\ e \in onTheWay
    BY <2>1 DEF Once
  <2>2. CASE d \in new /\ e \in new
    BY <1>0, <2>2
  <2>3. ~(OnWire(k, new) /\ OnWire(k, onTheWay))
    BY <1>5
  <2> QED BY <2>1, <2>2, <2>3 DEF OnWire
<1>8. \A k \in stays : k \notin gone /\ ~OnWire(k, more) /\ ~Came(k, there)
  <2> TAKE k \in stays
  <2>1. k \in held \/ k = m
    BY <1>0
  <2> QED BY <2>1, <1>3, <1>4, <1>6 DEF Once
<1>9. \A k : OnWire(k, more) => ~Came(k, there)
  BY <1>3, <1>5 DEF Once
<1>10. \A k \in gone : ~OnWire(k, more) /\ ~Came(k, there)
  BY <1>3, <1>5 DEF Once
<1>11. \A k : k \in 1 .. m <=> k \in stays \/ k \in gone \/ OnWire(k, more) \/ Came(k, there)
  BY <1>0, <1>1, <1>3 DEF Once
<1>12. \A a, b \in there : a.id = b.id => a = b
  BY DEF Once
<1> QED BY <1>7, <1>8, <1>9, <1>10, <1>11, <1>12 DEF Once

-----------------------------------------------------------------------------
(* The channels. *)

SegmentTypes ==
  /\ sequenceNumber \in Nat /\ sequenceNumber < 65536 /\ timestamp \in Nat
  /\ sent \in Seq(Packets)
  /\ combiner # NULL => Shape(combiner)
  /\ \A d \in wire : d \in Packets \/ Sendable(d)

Kept == Once(Len(sent), Held, lost, wire, delivered)

DatagramTrue(d) == IF d.kind = "rtp" THEN sent[d.id] = d ELSE SegmentTrue(sent, d)

HeadersTrue ==
  NoneIsZero(sent) => /\ combiner # NULL => Continues(sent, combiner)
                      /\ \A d \in wire : DatagramTrue(d)
                      /\ HeadersKept

SegmentInv == SegmentTypes /\ Kept /\ HeadersTrue

LEMMA IdsAre ==
  /\ \A d \in Packets : d.kind = "rtp" /\ Ids(d) = {d.id}
  /\ \A d : Sendable(d) => d.kind # "rtp" /\ Ids(d) = IdsOf(d.parts)
<1>1. ASSUME NEW d \in Packets PROVE d.kind = "rtp" /\ Ids(d) = {d.id}
  BY DEF Packets, Ids
<1>2. ASSUME NEW d, Sendable(d) PROVE d.kind # "rtp" /\ Ids(d) = IdsOf(d.parts)
  <2>1. d.kind = "segment" /\ d.parts \in Seq(Parts)
    BY <1>2 DEF Sendable, Segments
  <2>2. DOMAIN d.parts = 1 .. Len(d.parts)
    BY <2>1
  <2> QED BY <2>1, <2>2 DEF Ids, IdsOf
<1> QED BY <1>1, <1>2

LEMMA HeldIs ==
  ASSUME NEW c, Shape(c)
  PROVE  {c.parts[i].id : i \in DOMAIN c.parts} = IdsOf(c.parts)
<1>1. c.parts \in Seq(Parts)
  BY DEF Shape, Combiners
<1>2. DOMAIN c.parts = 1 .. Len(c.parts)
  BY <1>1
<1> QED BY <1>2 DEF IdsOf

LEMMA SegmentStart == SegmentInit => SegmentInv
<1> SUFFICES ASSUME SegmentInit PROVE SegmentInv
  OBVIOUS
<1>1. sequenceNumber \in Nat /\ sequenceNumber < 65536
  <2>1. sequenceNumber \in 0 .. Bits16 - 1
    BY SegmentAssumption DEF SegmentInit
  <2> QED BY <2>1, SMTT(30) DEF Bits16
<1>2. SegmentTypes
  BY <1>1 DEF SegmentInit, SegmentTypes
<1>3. Held = {}
  BY DEF Held, SegmentInit
<1>4. Kept
  BY <1>3 DEF Kept, Once, SegmentInit, OnWire, Came
<1>5. HeadersTrue
  BY DEF HeadersTrue, HeadersKept, SegmentInit
<1> QED BY <1>2, <1>4, <1>5, SMTT(30) DEF SegmentInv

LEMMA NotNull == /\ \A c : Shape(c) => c # NULL
                 /\ \A max \in MaxPackets : /\ Shape(NewCombiner(max))
                                            /\ NewCombiner(max).parts = <<>>
<1>1. ASSUME NEW c, Shape(c) PROVE c # NULL
  <2>1. c.kind = "combiner"
    BY <1>1 DEF Shape, Combiners
  <2> QED BY <2>1 DEF NULL
<1>2. ASSUME NEW max \in MaxPackets
      PROVE  Shape(NewCombiner(max)) /\ NewCombiner(max).parts = <<>>
  <2> DEFINE m == IF max > 0 THEN max ELSE 5
             c == NewCombiner(max)
  <2>1. m \in Int /\ m > 0
    BY SegmentAssumption
  <2> HIDE DEF m
  <2>2. c = [kind |-> "combiner", latest_pt |-> 0, latest_seq |-> 0, begin_seq |-> 0,
             begin_ts |-> 0, parts |-> <<>>, wr_pos |-> 0, buffered |-> 0,
             max |-> m, new_segment |-> TRUE, seq |-> 0, wrapped |-> FALSE]
    BY DEF NewCombiner, m
  <2> HIDE DEF c
  <2>3. 0 \in 0 .. Bits8 - 1 /\ <<>> \in Seq(Parts) /\ Len(<<>>) = 0
    BY SMT DEF Bits8
  <2>4. c \in Combiners
    BY <2>1, <2>2, <2>3 DEF Combiners
  <2>5. c.parts = <<>> /\ c.wr_pos = 0 /\ c.new_segment /\ c.max = m /\ c.buffered = 0
    BY <2>2
  <2>6. Shape(c)
    BY <2>1, <2>3, <2>4, <2>5, SMT DEF Shape, Distinct, BufferSize, IP_PACKET_SIZE
  <2> QED BY <2>5, <2>6 DEF c
<1> QED BY <1>1, <1>2

\* What is true of a datagram stays true when another packet is sent.
LEMMA StaysTrue ==
  ASSUME SegmentTypes, NEW p \in Packets, sent' = Append(sent, p), NEW d,
         d \in Packets \/ Sendable(d), \A k \in Ids(d) : k \in 1 .. Len(sent),
         DatagramTrue(d)
  PROVE  DatagramTrue(d)'
<1>1. sent \in Seq(Packets)
  BY DEF SegmentTypes
<1>2. CASE d \in Packets
  <2>1. d.kind = "rtp" /\ d.id \in 1 .. Len(sent)
    BY <1>2, IdsAre
  <2>2. sent'[d.id] = sent[d.id]
    BY <1>1, <2>1
  <2> QED BY <2>1, <2>2 DEF DatagramTrue
<1>3. CASE Sendable(d)
  <2>1. d.kind # "rtp"
    BY <1>3, IdsAre
  <2>2. SegmentTrue(sent, d)
    BY <2>1 DEF DatagramTrue
  <2>3. SegmentTrue(Append(sent, p), d)
    BY <1>1, <2>2, TellsLonger DEF SegmentTrue
  <2> QED BY <2>1, <2>3 DEF DatagramTrue
<1> QED BY <1>2, <1>3

LEMMA SendDataInv ==
  ASSUME SegmentInv, NEW pt \in PayloadTypes, NEW len \in Sizes, NEW step \in Steps,
         SendData(pt, len, step)
  PROVE  SegmentInv'
<1> DEFINE p == Packet(pt, len, step)
           s == SendPacket(combiner, p)
           n == Len(sent)
<1>1. SegmentTypes /\ Kept /\ HeadersTrue
  BY DEF SegmentInv
<1>2. /\ sequenceNumber \in Nat /\ sequenceNumber < 65536 /\ timestamp \in Nat
      /\ sent \in Seq(Packets) /\ n \in Nat
  BY <1>1 DEF SegmentTypes
<1>3. pt \in Int /\ len \in Nat /\ len <= MaxDataSize /\ step \in Nat
  BY SegmentAssumption DEF MaxDataSize, IP_PACKET_SIZE
<1>4. /\ p.kind = "rtp" /\ p.pt = pt /\ p.seq = sequenceNumber /\ p.ts = timestamp + step
      /\ p.len = len /\ p.id = n + 1
  BY DEF Packet
<1>5. p \in Packets
  BY <1>2, <1>3 DEF Packet, Packets
<1>6. /\ sent' = Append(sent, p) /\ timestamp' = p.ts
      /\ sequenceNumber' = (sequenceNumber + 1) % Bits16
      /\ IF Combining THEN combiner' = s.c /\ wire' = wire \cup s.out
         ELSE wire' = wire \cup {p} /\ combiner' = combiner
      /\ lost' = lost /\ delivered' = delivered
  BY DEF SendData
<1> HIDE DEF p
<1>7. sent' \in Seq(Packets) /\ Len(sent') = n + 1 /\ sent'[n + 1] = p
      /\ \A i \in 1 .. n : sent'[i] = sent[i]
  BY <1>2, <1>5, <1>6
<1>8. sequenceNumber' \in Nat /\ sequenceNumber' < 65536 /\ timestamp' \in Nat
  <2> DEFINE x == sequenceNumber + 1
  <2>1. x \in Int
    BY <1>2
  <2> HIDE DEF x
  <2>2. (x % Bits16) \in Nat /\ (x % Bits16) < 65536
    BY <2>1, ModuloBits16
  <2> QED BY <2>2, <1>2, <1>3, <1>4, <1>6 DEF x
<1>9. \A d \in wire : /\ d \in Packets \/ Sendable(d)
                      /\ \A k \in Ids(d) : k \in 1 .. n
  BY <1>1 DEF SegmentTypes, Kept, Once, OnWire
<1>10. NoneIsZero(sent') => NoneIsZero(sent) /\ p.seq # 0
  <2> SUFFICES ASSUME NoneIsZero(sent') PROVE NoneIsZero(sent) /\ p.seq # 0
    OBVIOUS
  <2>1. \A i \in 1 .. n + 1 : sent'[i].pt # 0 /\ sent'[i].seq # 0
    BY <1>7 DEF NoneIsZero
  <2>2. n + 1 \in 1 .. n + 1 /\ \A i \in 1 .. n : i \in 1 .. n + 1
    BY <1>2
  <2> QED BY <2>1, <2>2, <1>7 DEF NoneIsZero
<1>11. ASSUME NoneIsZero(sent') PROVE HeadersKept'
  <2>1. HeadersKept
    BY <1>1, <1>10, <1>11 DEF HeadersTrue
  <2>2. \A a \in delivered : a.id \in 1 .. n
    BY <1>1 DEF Kept, Once, Came
  <2> QED BY <2>1, <2>2, <1>6, <1>7, Zenon DEF HeadersKept
<1>12. ASSUME NoneIsZero(sent') PROVE \A d \in wire : DatagramTrue(d)'
  <2> TAKE d \in wire
  <2>1. DatagramTrue(d)
    BY <1>1, <1>10, <1>12 DEF HeadersTrue
  <2> QED BY <2>1, <1>1, <1>5, <1>6, <1>9, StaysTrue
<1>13. CASE Combining
  <2>1. Shape(combiner) /\ Held = IdsOf(combiner.parts) /\ combiner # NULL
    <3>1. Shape(combiner) /\ combiner # NULL
      BY <1>1, <1>13 DEF Combining, SegmentTypes
    <3>2. {combiner.parts[i].id : i \in DOMAIN combiner.parts} = IdsOf(combiner.parts)
      BY <3>1, HeldIs
    <3> QED BY <3>1, <3>2 DEF Held
  <2>2. IdsOf(combiner.parts) \subseteq 1 .. n
    BY <1>1, <2>1 DEF Kept, Once
  <2>3. /\ Shape(s.c)
        /\ \A d \in s.out : Sendable(d)
        /\ Shared(IdsOf(combiner.parts) \cup {p.id}, IdsOf(s.c.parts), s.out)
        /\ NoneIsZero(sent) /\ p.seq # 0 /\ Continues(sent, combiner) =>
             /\ Continues(Append(sent, p), s.c)
             /\ \A d \in s.out : SegmentTrue(Append(sent, p), d)
    <3>1. s = SendPacket(combiner, p)
      OBVIOUS
    <3>2. p.id = n + 1 /\ p.len <= MaxDataSize /\ p.seq < 65536
      BY <1>2, <1>3, <1>4
    <3> HIDE DEF s
    <3>3. SentWell(sent, combiner, p, s)
      BY ONLY <1>2, <1>5, <2>1, <2>2, <3>1, <3>2, SendPacketRight
    <3> QED BY <3>3 DEF SentWell
  <2> HIDE DEF s
  <2>4. combiner' = s.c /\ wire' = wire \cup s.out
    BY <1>6, <1>13
  <2>5. SegmentTypes'
    BY <1>7, <1>8, <1>9, <2>3, <2>4 DEF SegmentTypes
  <2>6. combiner' # NULL /\ Held' = IdsOf(s.c.parts)
    <3>1. combiner' # NULL
      BY <2>3, <2>4, NotNull
    <3>2. {s.c.parts[i].id : i \in DOMAIN s.c.parts} = IdsOf(s.c.parts)
      BY <2>3, HeldIs
    <3> QED BY <3>1, <3>2, <2>4 DEF Held
  <2>7. Kept'
    <3> DEFINE ids == IdsOf(s.c.parts)
               new == s.out
               held == IdsOf(combiner.parts)
               m == Len(sent')
               more == wire'
    <3>1. Once(n, held, lost, wire, delivered)
      BY <1>1, <2>1 DEF Kept
    <3>2. \A d \in new : Ids(d) = IdsOf(d.parts)
      BY <2>3, IdsAre
    <3>3. m = n + 1 /\ more = wire \cup new /\ p.id = m
      BY <1>4, <1>7, <2>4
    <3>4. Dealt(held \cup {m}, ids, new)
      <4>1. Shared(held \cup {m}, ids, new)
        BY <2>3, <3>3
      <4> HIDE DEF held, m, ids, new
      <4> QED BY ONLY <4>1, <3>2 DEF Shared, OnWire, Dealt
    <3> HIDE DEF ids, new, held, m, more, n
    <3>7. Once(m, ids, lost, more, delivered)
      BY ONLY <1>2, <3>1, <3>3, <3>4, OnceSent
    <3> QED BY <3>7, <1>6, <2>6 DEF Kept, m, ids, more
  <2>8. HeadersTrue'
    <3> SUFFICES ASSUME NoneIsZero(sent')
                 PROVE  /\ Continues(sent, combiner)'
                        /\ \A d \in wire' : DatagramTrue(d)'
                        /\ HeadersKept'
      BY DEF HeadersTrue
    <3>1. Continues(sent, combiner)
      BY <1>1, <1>10, <2>1 DEF HeadersTrue
    <3>2. Continues(sent', s.c) /\ \A d \in s.out : SegmentTrue(sent', d)
      BY <1>6, <1>10, <2>3, <3>1
    <3>3. \A d \in s.out : DatagramTrue(d)'
      BY <2>3, <3>2, IdsAre DEF DatagramTrue
    <3> QED BY <3>2, <3>3, <2>4, <1>11, <1>12
  <2> QED BY <2>5, <2>7, <2>8 DEF SegmentInv
<1>14. CASE ~Combining
  <2>1. combiner' = combiner /\ wire' = wire \cup {p}
    BY <1>6, <1>14
  <2>2. SegmentTypes'
    BY <1>1, <1>5, <1>7, <1>8, <2>1 DEF SegmentTypes
  <2>3. Held' = Held
    BY <2>1 DEF Held
  <2>4. Kept'
    <3> DEFINE m == Len(sent')
               new == {p}
               more == wire'
               held == Held
    <3>1. Once(n, held, lost, wire, delivered)
      BY <1>1 DEF Kept
    <3>2. Ids(p) = {m} /\ m = n + 1
      BY <1>4, <1>5, <1>7, IdsAre
    <3>3. m \notin held
      <4>1. m \notin 1 .. n
        BY <3>2, <1>2
      <4> QED BY <4>1, <3>1 DEF Once
    <3>4. Dealt(held \cup {m}, held, new) /\ more = wire \cup new
      BY <2>1, <3>2, <3>3 DEF OnWire, Dealt
    <3> HIDE DEF m, new, more, held, n
    <3>5. Once(m, held, lost, more, delivered)
      BY ONLY <1>2, <3>1, <3>2, <3>4, OnceSent
    <3> QED BY <3>5, <1>6, <2>3 DEF Kept, m, more, held
  <2>5. HeadersTrue'
    <3> SUFFICES ASSUME NoneIsZero(sent')
                 PROVE  /\ combiner' # NULL => Continues(sent, combiner)'
                        /\ \A d \in wire' : DatagramTrue(d)'
                        /\ HeadersKept'
      BY DEF HeadersTrue
    <3>1. ASSUME combiner # NULL PROVE Continues(sent', combiner)
      <4>1. Continues(sent, combiner)
        BY <1>1, <1>10, <3>1 DEF HeadersTrue
      <4>2. combiner.parts \in Seq(Parts)
        BY <1>1, <3>1 DEF SegmentTypes, Shape, Combiners
      <4>3. ASSUME combiner.parts # <<>>
            PROVE  /\ Tells(sent', combiner.parts, combiner.latest_pt, combiner.begin_seq,
                            combiner.begin_ts)
                   /\ combiner.latest_seq
                        = sent'[combiner.parts[Len(combiner.parts)].id].seq
        <5> DEFINE k == combiner.parts[Len(combiner.parts)].id
        <5>1. /\ Tells(sent, combiner.parts, combiner.latest_pt, combiner.begin_seq,
                       combiner.begin_ts)
              /\ combiner.latest_seq = sent[k].seq
          BY <4>1, <4>3 DEF Continues
        <5>2. Len(combiner.parts) \in 1 .. Len(combiner.parts)
          BY <4>2, <4>3
        <5>3. k \in 1 .. n
          BY <5>1, <5>2 DEF Tells, TellsOne
        <5> QED BY <5>1, <5>3, <1>2, <1>5, <1>6, <1>7, TellsLonger
      <4> QED BY <4>3 DEF Continues
    <3>2. \A d \in {p} : DatagramTrue(d)'
      BY <1>4, <1>7 DEF DatagramTrue
    <3> QED BY <3>1, <3>2, <2>1, <1>11, <1>12
  <2> QED BY <2>2, <2>4, <2>5 DEF SegmentInv
<1> QED BY <1>13, <1>14

LEMMA CountedShape ==
  ASSUME NEW c, Shape(c)
  PROVE  /\ Shape(CountBuffered(c)) /\ CountBuffered(c).parts = c.parts
         /\ \A s : Continues(s, c) => Continues(s, CountBuffered(c))
<1> DEFINE b == CountBuffered(c)
           m == b.buffered
           w == b.wrapped
<1>1. c \in Combiners
  BY DEF Shape
<1>2. /\ b = [c EXCEPT !.buffered = m, !.wrapped = w] /\ b \in Combiners
      /\ ~w => ~c.wrapped /\ m = c.buffered + 1
  BY <1>1, CountedRight
<1> HIDE DEF b, m, w
<1>3. /\ b.parts = c.parts /\ b.wr_pos = c.wr_pos /\ b.max = c.max
      /\ b.new_segment = c.new_segment /\ b.latest_pt = c.latest_pt
      /\ b.latest_seq = c.latest_seq /\ b.begin_seq = c.begin_seq
      /\ b.begin_ts = c.begin_ts /\ b.buffered = m /\ b.wrapped = w
  BY <1>1, <1>2 DEF Combiners
<1>4. Len(c.parts) \in Nat /\ c.buffered \in Nat
  <2>1. c.buffered \in 0 .. Bits8 - 1 /\ c.parts \in Seq(Parts)
    BY <1>1 DEF Combiners
  <2>2. Len(c.parts) \in Nat
    BY <2>1
  <2>3. c.buffered \in Nat
    BY <2>1
  <2> QED BY <2>2, <2>3
<1>5. Shape(b)
  <2>1. ~w => Len(c.parts) <= m /\ Len(c.parts) < c.max
    BY <1>2, <1>4 DEF Shape
  <2> QED BY <1>2, <1>3, <2>1 DEF Shape
<1>6. \A s : Continues(s, c) => Continues(s, b)
  BY <1>3 DEF Continues
<1> QED BY <1>3, <1>5, <1>6 DEF b

LEMMA CombinerOnlyInv ==
  ASSUME SegmentInv,
         UNCHANGED <<sequenceNumber, timestamp, sent, wire, delivered, lost>>,
         combiner' # NULL => Shape(combiner'),
         Held' = Held,
         (combiner # NULL => Continues(sent, combiner)) =>
           (combiner' # NULL => Continues(sent, combiner'))
  PROVE  SegmentInv'
<1>1. SegmentTypes'
  BY DEF SegmentInv, SegmentTypes
<1>2. Kept'
  BY DEF SegmentInv, Kept
<1>3. HeadersTrue'
  BY DEF SegmentInv, HeadersTrue, DatagramTrue, HeadersKept
<1> QED BY <1>1, <1>2, <1>3 DEF SegmentInv

LEMMA EmptyFrameInv == SegmentInv /\ SendEmptyFrame => SegmentInv'
<1> SUFFICES ASSUME SegmentInv, SendEmptyFrame PROVE SegmentInv'
  OBVIOUS
<1>1. UNCHANGED <<sequenceNumber, timestamp, sent, wire, delivered, lost>>
  BY DEF SendEmptyFrame
<1>2. CASE Combining
  <2>1. combiner' = CountBuffered(combiner) /\ combiner # NULL /\ Shape(combiner)
    BY <1>2 DEF SendEmptyFrame, Combining, SegmentInv, SegmentTypes
  <2>2. /\ Shape(combiner') /\ combiner'.parts = combiner.parts
        /\ \A s : Continues(s, combiner) => Continues(s, combiner')
    BY <2>1, CountedShape
  <2>3. combiner' # NULL
    BY <2>2, NotNull
  <2>4. Held' = Held
    BY <2>1, <2>2, <2>3 DEF Held
  <2> QED BY <1>1, <2>1, <2>2, <2>4, CombinerOnlyInv
<1>3. CASE ~Combining
  <2>1. combiner' = combiner
    BY <1>3 DEF SendEmptyFrame
  <2>2. Held' = Held /\ (combiner' # NULL => Shape(combiner'))
    BY <2>1 DEF Held, SegmentInv, SegmentTypes
  <2> QED BY <1>1, <2>1, <2>2, CombinerOnlyInv
<1> QED BY <1>2, <1>3

LEMMA EnableInv ==
  ASSUME SegmentInv, NEW on, NEW max \in MaxPackets, EnablePacketCombine(on, max)
  PROVE  SegmentInv'
<1>1. UNCHANGED <<sequenceNumber, timestamp, sent, wire, delivered, lost>>
  BY DEF EnablePacketCombine
<1>2. CASE combiner = NULL
  <2>1. combiner' = NewCombiner(max)
    BY <1>2 DEF EnablePacketCombine
  <2>2. Shape(combiner') /\ combiner'.parts = <<>> /\ combiner' # NULL
    BY <2>1, NotNull
  <2>3. Held' = IdsOf(combiner'.parts)
    <3>1. {combiner'.parts[i].id : i \in DOMAIN combiner'.parts} = IdsOf(combiner'.parts)
      BY <2>2, HeldIs
    <3> QED BY <3>1, <2>2 DEF Held
  <2>4. Held' = {} /\ Held = {}
    <3>1. IdsOf(combiner'.parts) = {}
      BY <2>2, NoIds
    <3> QED BY <3>1, <2>3, <1>2 DEF Held
  <2>5. Continues(sent, combiner')
    BY <2>2 DEF Continues
  <2> QED BY <1>1, <2>2, <2>4, <2>5, CombinerOnlyInv
<1>3. CASE combiner # NULL
  <2>1. combiner' = combiner
    BY <1>3 DEF EnablePacketCombine
  <2>2. Held' = Held /\ (combiner' # NULL => Shape(combiner'))
    BY <2>1 DEF Held, SegmentInv, SegmentTypes
  <2> QED BY <1>1, <2>1, <2>2, CombinerOnlyInv
<1> QED BY <1>2, <1>3

\* A datagram goes: to nowhere, or its packets come with the headers they were sent
\* with.
LEMMA LoseInv ==
  ASSUME SegmentInv, NEW d \in wire, wire' = wire \ {d}, lost' = lost \cup Ids(d),
         UNCHANGED <<sequenceNumber, timestamp, sent, combiner, delivered>>
  PROVE  SegmentInv'
<1>1. SegmentTypes'
  BY DEF SegmentInv, SegmentTypes
<1>2. Kept'
  <2>1. Held' = Held
    BY DEF Held
  <2>2. Len(sent) \in Nat
    BY DEF SegmentInv, SegmentTypes
  <2>3. Once(Len(sent), Held, lost', wire', delivered)
    BY <2>2, OnceLost DEF SegmentInv, Kept
  <2> QED BY <2>1, <2>3 DEF Kept
<1>3. HeadersTrue'
  BY DEF SegmentInv, HeadersTrue, DatagramTrue, HeadersKept
<1> QED BY <1>1, <1>2, <1>3 DEF SegmentInv

ArrivedTrue(a) == /\ a.pt = sent[a.id].pt /\ a.seq = sent[a.id].seq
                  /\ ((a.ts - sent[a.id].ts) % Bits16) = 0

LEMMA CameInv ==
  ASSUME SegmentInv, NEW d \in wire, NEW new, wire' = wire \ {d},
         delivered' = delivered \cup new, Brings(d, new),
         DatagramTrue(d) => \A a \in new : ArrivedTrue(a),
         UNCHANGED <<sequenceNumber, timestamp, sent, combiner, lost>>
  PROVE  SegmentInv'
<1>1. SegmentTypes'
  BY DEF SegmentInv, SegmentTypes
<1>2. Kept'
  <2>1. Held' = Held
    BY DEF Held
  <2>2. Len(sent) \in Nat
    BY DEF SegmentInv, SegmentTypes
  <2>3. Once(Len(sent), Held, lost, wire', delivered')
    <3>1. Once(Len(sent), Held, lost, wire, delivered)
      BY DEF SegmentInv, Kept
    <3> QED BY <2>2, <3>1, OnceCame
  <2> QED BY <2>1, <2>3 DEF Kept
<1>3. HeadersTrue'
  <2> SUFFICES ASSUME NoneIsZero(sent')
               PROVE  /\ combiner' # NULL => Continues(sent, combiner)'
                      /\ \A e \in wire' : DatagramTrue(e)'
                      /\ HeadersKept'
    BY DEF HeadersTrue
  <2>1. /\ combiner # NULL => Continues(sent, combiner)
        /\ \A e \in wire : DatagramTrue(e)
        /\ HeadersKept
    BY DEF SegmentInv, HeadersTrue
  <2>2. \A e : DatagramTrue(e)' <=> DatagramTrue(e)
    BY DEF DatagramTrue
  <2>3. \A a \in new : ArrivedTrue(a)
    BY <2>1
  <2>4. \A a \in delivered' : ArrivedTrue(a)
    BY <2>1, <2>3 DEF HeadersKept, ArrivedTrue
  <2>5. HeadersKept'
    BY <2>4 DEF HeadersKept, ArrivedTrue
  <2> QED BY <2>1, <2>2, <2>5
<1> QED BY <1>1, <1>2, <1>3 DEF SegmentInv

LEMMA SeparatedRight ==
  ASSUME SegmentTypes, NEW d, Sendable(d)
  PROVE  /\ Brings(d, Separated(d))
         /\ DatagramTrue(d) => \A a \in Separated(d) : ArrivedTrue(a)
<1>1. d.kind # "rtp" /\ Ids(d) = IdsOf(d.parts) /\ d.parts \in Seq(Parts)
      /\ Distinct(d.parts) /\ d.ts \in Nat
  BY IdsAre DEF Sendable, Segments
<1>2. DOMAIN d.parts = 1 .. Len(d.parts)
  BY <1>1
<1> DEFINE Of(i) == Arrived(d.parts[i].id, d.pt, SegmentSeq(d, i), d.ts + d.parts[i].delta)
<1>3. Separated(d) = {Of(i) : i \in 1 .. Len(d.parts)}
  BY <1>2 DEF Separated
<1>4. \A i : /\ Of(i).id = d.parts[i].id /\ Of(i).pt = d.pt /\ Of(i).seq = SegmentSeq(d, i)
             /\ Of(i).ts = d.ts + d.parts[i].delta
  BY DEF Arrived
<1> HIDE DEF Of
<1>5. \A k : k \in Ids(d) <=> Came(k, Separated(d))
  BY <1>1, <1>3, <1>4 DEF IdsOf, Came
<1>6. ASSUME NEW a \in Separated(d), NEW b \in Separated(d), a.id = b.id PROVE a = b
  <2>1. PICK i \in 1 .. Len(d.parts) : a = Of(i)
    BY <1>3
  <2>2. PICK j \in 1 .. Len(d.parts) : b = Of(j)
    BY <1>3
  <2>3. i = j
    BY <2>1, <2>2, <1>1, <1>4, <1>6 DEF Distinct
  <2> QED BY <2>1, <2>2, <2>3
<1>7. ASSUME DatagramTrue(d), NEW a \in Separated(d) PROVE ArrivedTrue(a)
  <2>1. PICK i \in 1 .. Len(d.parts) : a = Of(i)
    BY <1>3
  <2>2. TellsOne(sent, d.parts[i], d.pt, SegmentNumber(d.begin_seq, i), d.ts)
    BY <1>1, <1>7 DEF DatagramTrue, SegmentTrue, Tells
  <2>3. SegmentNumber(d.begin_seq, i) = SegmentSeq(d, i)
    BY DEF SegmentNumber, SegmentSeq
  <2>4. /\ a.id = d.parts[i].id /\ a.pt = d.pt /\ a.seq = SegmentSeq(d, i)
        /\ a.ts = d.ts + d.parts[i].delta
    BY <2>1, <1>4
  <2> DEFINE x == d.ts
             y == d.parts[i].delta
             z == sent[a.id].ts
  <2>5. x \in Int /\ y \in Int /\ z \in Int
    <3>1. a.id \in 1 .. Len(sent) /\ sent \in Seq(Packets)
      BY <2>2, <2>4 DEF TellsOne, SegmentTypes
    <3>2. sent[a.id] \in Packets /\ d.parts[i] \in Parts
      BY <3>1, <1>1
    <3>3. y \in Nat
      BY <3>2 DEF Parts
    <3>4. z \in Nat
      BY <3>2 DEF Packets
    <3> QED BY <3>3, <3>4, <1>1
  <2>6. ((x + y - z) % Bits16) = 0 /\ a.ts = x + y
    BY <2>2, <2>4 DEF TellsOne
  <2> HIDE DEF x, y, z
  <2>7. a.ts - z = x + y - z
    BY <2>5, <2>6
  <2>8. ((a.ts - z) % Bits16) = 0
    BY <2>6, <2>7
  <2> QED BY <2>2, <2>3, <2>4, <2>8 DEF TellsOne, ArrivedTrue, z
<1> QED BY <1>5, <1>6, <1>7 DEF Brings

LEMMA ReceivedInv ==
  ASSUME SegmentInv, NEW d \in wire, ReceivedRTPPacket(d) PROVE SegmentInv'
<1>1. /\ wire' = wire \ {d} /\ UNCHANGED <<sequenceNumber, timestamp, sent, combiner>>
      /\ IF separate THEN ParseSegmentPacket(d) ELSE IncomingRTPPacket(d)
  BY DEF ReceivedRTPPacket
<1>2. d \in Packets \/ Sendable(d)
  BY DEF SegmentInv, SegmentTypes
<1>3. CASE lost' = lost \cup Ids(d) /\ delivered' = delivered
  BY <1>1, <1>3, LoseInv
<1>4. CASE d \in Packets /\ lost' = lost
           /\ delivered' = delivered \cup {Arrived(d.id, d.pt, d.seq, d.ts)}
  <2> DEFINE a == Arrived(d.id, d.pt, d.seq, d.ts)
             new == {a}
  <2>1. Ids(d) = {d.id} /\ d.kind = "rtp" /\ d.ts \in Nat
    BY <1>4, IdsAre DEF Packets
  <2>2. a.id = d.id /\ a.pt = d.pt /\ a.seq = d.seq /\ a.ts = d.ts
    BY DEF Arrived
  <2> HIDE DEF a
  <2>3. \A k : k \in Ids(d) <=> Came(k, new)
    BY <2>1, <2>2 DEF Came
  <2>4. DatagramTrue(d) => \A b \in new : ArrivedTrue(b)
    <3> SUFFICES ASSUME DatagramTrue(d) PROVE ArrivedTrue(a)
      OBVIOUS
    <3>1. sent[a.id] = d
      BY <2>1, <2>2 DEF DatagramTrue
    <3>2. a.ts - sent[a.id].ts = 0
      BY <3>1, <2>1, <2>2
    <3>3. 0 % Bits16 = 0
      BY SMT DEF Bits16
    <3> QED BY <3>1, <3>2, <3>3, <2>2 DEF ArrivedTrue
  <2>5. \A b, e \in new : b.id = e.id => b = e
    OBVIOUS
  <2>6. delivered' = delivered \cup new
    BY <1>4 DEF a
  <2> HIDE DEF new
  <2>7. Brings(d, new)
    BY <2>3, <2>5 DEF Brings
  <2> QED BY <1>1, <1>4, <2>4, <2>6, <2>7, CameInv
<1>5. CASE Sendable(d) /\ lost' = lost /\ delivered' = delivered \cup Separated(d)
  <2>1. /\ Brings(d, Separated(d))
        /\ DatagramTrue(d) => \A a \in Separated(d) : ArrivedTrue(a)
    BY <1>5, SeparatedRight DEF SegmentInv
  <2> QED BY <1>1, <1>5, <2>1, CameInv
<1>6. d \in Packets => d.kind = "rtp"
  BY IdsAre
<1>7. Sendable(d) => d.kind = "segment"
  BY DEF Sendable
<1> QED BY <1>1, <1>2, <1>3, <1>4, <1>5, <1>6, <1>7 DEF ParseSegmentPacket, IncomingRTPPacket

LEMMA SegmentStep == SegmentInv /\ [SegmentNext]_segmentVars => SegmentInv'
<1> SUFFICES ASSUME SegmentInv, [SegmentNext]_segmentVars PROVE SegmentInv'
  OBVIOUS
<1>1. ASSUME NEW pt \in PayloadTypes, NEW len \in Sizes, NEW step \in Steps,
             SendData(pt, len, step)
      PROVE  SegmentInv'
  BY <1>1, SendDataInv
<1>2. CASE SendEmptyFrame
  BY <1>2, EmptyFrameInv
<1>3. ASSUME NEW on \in BOOLEAN, NEW max \in MaxPackets, EnablePacketCombine(on, max)
      PROVE  SegmentInv'
  BY <1>3, EnableInv
<1>4. ASSUME NEW on \in BOOLEAN, EnablePacketSeparate(on) PROVE SegmentInv'
  BY <1>4 DEF EnablePacketSeparate, SegmentInv, SegmentTypes, Kept, HeadersTrue,
              DatagramTrue, HeadersKept, Held
<1>5. ASSUME NEW d \in wire, ReceivedRTPPacket(d) PROVE SegmentInv'
  BY <1>5, ReceivedInv
<1>6. ASSUME NEW d \in wire, Lose(d) PROVE SegmentInv'
  <2>1. /\ wire' = wire \ {d} /\ lost' = lost \cup Ids(d)
        /\ UNCHANGED <<sequenceNumber, timestamp, sent, combiner, delivered>>
    BY <1>6 DEF Lose
  <2> QED BY <2>1, LoseInv
<1>7. CASE UNCHANGED segmentVars
  BY <1>7 DEF segmentVars, SegmentInv, SegmentTypes, Kept, HeadersTrue,
              DatagramTrue, HeadersKept, Held
<1> QED BY <1>1, <1>2, <1>3, <1>4, <1>5, <1>6, <1>7 DEF SegmentNext

\* The headers that come back from a segment are those of the packets that were put
\* into it, however many there are, whatever their types and timestamps and wherever
\* the numbers wrap, as long as no packet's type or number is zero, which is what the
\* combiner takes for "none yet".
THEOREM HeadersAreKept ==
  SegmentSpec => [](NoneIsZero(sent) => HeadersKept)
<1>1. SegmentInv => (NoneIsZero(sent) => HeadersKept)
  BY DEF SegmentInv, HeadersTrue
<1> QED BY <1>1, SegmentStart, SegmentStep, PTL DEF SegmentSpec

LEMMA OnePlace ==
  ASSUME SegmentInv, NEW k \in 1 .. Len(sent) PROVE Cardinality(Places(k)) = 1
<1> DEFINE h == IF k \in Held THEN {<<"held">>} ELSE {}
           l == IF k \in lost THEN {<<"lost">>} ELSE {}
           w == {<<"wire", d>> : d \in {e \in wire : k \in Ids(e)}}
           c == {<<"delivered", a>> : a \in {b \in delivered : b.id = k}}
<1>1. Places(k) = h \cup l \cup w \cup c
  BY DEF Places
<1>2. Once(Len(sent), Held, lost, wire, delivered)
  BY DEF SegmentInv, Kept
<1>3. /\ k \in Held \/ k \in lost \/ OnWire(k, wire) \/ Came(k, delivered)
      /\ k \in Held => k \notin lost
      /\ k \in Held \/ k \in lost => ~OnWire(k, wire) /\ ~Came(k, delivered)
      /\ OnWire(k, wire) => ~Came(k, delivered)
  BY <1>2 DEF Once
<1>4. ~OnWire(k, wire) => w = {}
  BY DEF OnWire
<1>5. ~Came(k, delivered) => c = {}
  BY DEF Came
<1>6. OnWire(k, wire) => \E x : w = {x}
  <2> SUFFICES ASSUME OnWire(k, wire) PROVE \E x : w = {x}
    OBVIOUS
  <2>1. PICK d \in wire : k \in Ids(d)
    BY DEF OnWire
  <2>2. \A e \in wire : k \in Ids(e) => e = d
    BY <2>1, <1>2 DEF Once
  <2>3. w = {<<"wire", d>>}
    BY <2>1, <2>2
  <2> QED BY <2>3
<1>7. Came(k, delivered) => \E x : c = {x}
  <2> SUFFICES ASSUME Came(k, delivered) PROVE \E x : c = {x}
    OBVIOUS
  <2>1. PICK a \in delivered : a.id = k
    BY DEF Came
  <2>2. \A b \in delivered : b.id = k => b = a
    BY <2>1, <1>2 DEF Once
  <2>3. c = {<<"delivered", a>>}
    BY <2>1, <2>2
  <2> QED BY <2>3
<1>8. (k \notin Held => h = {}) /\ (k \in Held => \E x : h = {x})
  OBVIOUS
<1>9. (k \notin lost => l = {}) /\ (k \in lost => \E x : l = {x})
  OBVIOUS
<1> HIDE DEF h, l, w, c
<1>10. \E x : Places(k) = {x}
  <2>1. CASE k \in Held
    BY <2>1, <1>1, <1>3, <1>4, <1>5, <1>8, <1>9
  <2>2. CASE k \in lost
    BY <2>2, <1>1, <1>3, <1>4, <1>5, <1>8, <1>9
  <2>3. CASE OnWire(k, wire)
    BY <2>3, <1>1, <1>3, <1>5, <1>6, <1>8, <1>9
  <2>4. CASE Came(k, delivered)
    BY <2>4, <1>1, <1>3, <1>4, <1>7, <1>8, <1>9
  <2> QED BY <1>3, <2>1, <2>2, <2>3, <2>4
<1> QED BY <1>10, FS_Singleton

\* Every packet given to the channel is in one place, once; no segment outgrows the
\* buffer, and none holds as many packets as the application allowed.
THEOREM PacketsKeptOnce == SegmentSpec => []KeptOnceAndFits
<1>1. SegmentInv => KeptOnceAndFits
  <2> SUFFICES ASSUME SegmentInv PROVE KeptOnceAndFits
    OBVIOUS
  <2>1. InOnePlace
    BY OnePlace DEF InOnePlace
  <2>2. FitsBuffer
    BY NotNull, IdsAre DEF FitsBuffer, SegmentInv, SegmentTypes, Shape, Sendable
  <2> QED BY <2>1, <2>2 DEF KeptOnceAndFits
<1> QED BY <1>1, SegmentStart, SegmentStep, PTL DEF SegmentSpec

-----------------------------------------------------------------------------
(* TelephoneEvents: tones. *)

Keys == {t[1] : t \in Tones} \cup {0}
Asked == [key : Keys, length : Nat \ {0}]
ToneRecords == [on : BOOLEAN, key : Keys, start : Nat, length : Int, ended : Nat, sent : Nat]

ToneTypes ==
  /\ frames \in Nat /\ told \in Nat
  /\ toneKeys \in [1 .. DTMF_OUTBAND_MAX -> Keys]
  /\ toneLens \in [1 .. DTMF_OUTBAND_MAX -> Nat]
  /\ nextEmpty \in Nat /\ nextEmpty <= DTMF_OUTBAND_MAX
  /\ tone \in ToneRecords
  /\ accepted \in Seq(Asked)
  /\ ended \in [count : Nat, time : Nat]

\* The tones that have left the queue.
TonesBegun == ended.count + (IF tone.on THEN 1 ELSE 0)

\* The queue holds the tones accepted that have not begun.
QueueTrue ==
  /\ Len(accepted) = TonesBegun + nextEmpty
  /\ \A i \in 1 .. nextEmpty : /\ toneKeys[i] = accepted[TonesBegun + i].key
                               /\ toneLens[i] = accepted[TonesBegun + i].length

\* What is known of the tone t that is on, with a length k of it told before this
\* segment, when the frame of time c is the next.
Playing(t, k, c) ==
  /\ t.key = This.key /\ k + t.length = SamplesPerMs * This.length
  /\ ended.count < Len(accepted)
  /\ IF t.start <= t.sent
     THEN /\ t.sent - t.start <= MaxDuration /\ t.sent - t.start < t.length
          /\ c - t.sent <= PacketSamples + Frame
     ELSE t.length > 0 /\ c - t.start <= PacketSamples + Frame

ToneTrue ==
  /\ tone.sent + Frame <= Capture
  /\ ended.count > 0 => tone.ended = ended.time
  /\ tone.on => /\ Playing(tone, told, Capture)
                /\ tone.start + Frame <= Capture
                /\ ended.count > 0 => Clock - FrameMs - ended.time > MaxPause

ToneInv == ToneTypes /\ QueueTrue /\ ToneTrue

LEMMA Times ==
  ASSUME frames \in Nat
  PROVE  /\ Clock \in Nat /\ Capture \in Nat /\ Frame \in Nat /\ Frame > 0
         /\ Frame <= Capture
         /\ frames' = frames + 1 => Clock' = Clock + FrameMs /\ Capture' = Capture + Frame
<1>1. SamplesPerMs \in Nat /\ SamplesPerMs > 0 /\ FrameMs \in Nat /\ FrameMs > 0
  BY ToneAssumption
<1>2. Clock \in Nat /\ Clock >= FrameMs
  <2>1. frames * FrameMs \in Nat /\ (frames + 1) * FrameMs = frames * FrameMs + FrameMs
    BY <1>1, SMT
  <2> QED BY <1>1, <2>1, SMT DEF Clock, MaxPause
<1>3. Capture \in Nat /\ Frame \in Nat /\ Frame > 0 /\ Frame <= Capture
  <2> DEFINE d == Clock - FrameMs
  <2>1. d \in Nat /\ Clock = FrameMs + d
    BY <1>1, <1>2
  <2> HIDE DEF d
  <2>2. Capture = FrameMs * SamplesPerMs + d * SamplesPerMs
    BY <1>1, <2>1, SMT DEF Capture
  <2>3. d * SamplesPerMs \in Nat /\ FrameMs * SamplesPerMs \in Nat /\ FrameMs * SamplesPerMs > 0
    BY <1>1, <2>1, SMT
  <2> QED BY <2>2, <2>3 DEF Frame
<1>4. ASSUME frames' = frames + 1 PROVE Clock' = Clock + FrameMs /\ Capture' = Capture + Frame
  <2>1. Clock' = Clock + FrameMs
    <3>1. Clock' = (frames + 1 + 1) * FrameMs + MaxPause
      BY <1>4 DEF Clock
    <3>2. (frames + 1 + 1) * FrameMs = (frames + 1) * FrameMs + FrameMs /\ (frames + 1) * FrameMs \in Nat
      BY <1>1, SMT
    <3> QED BY <1>1, <3>1, <3>2 DEF Clock, MaxPause
  <2>2. Capture' = Clock' * SamplesPerMs
    BY DEF Capture
  <2>3. (Clock + FrameMs) * SamplesPerMs = Clock * SamplesPerMs + FrameMs * SamplesPerMs
    BY <1>1, <1>2, SMT
  <2> QED BY <2>1, <2>2, <2>3 DEF Capture, Frame
<1> QED BY <1>2, <1>3, <1>4

LEMMA NoToneIs == NoTone \in ToneRecords
BY DEF NoTone, ToneRecords, Keys

LEMMA TonesStart == ToneInit => ToneInv
<1> SUFFICES ASSUME ToneInit PROVE ToneInv
  OBVIOUS
<1>1. ToneTypes
  BY NoToneIs, EmptySeq, ToneAssumption DEF ToneInit, ToneTypes, Keys
<1>2. tone.on = FALSE /\ tone.sent = 0 /\ ended.count = 0 /\ nextEmpty = 0 /\ accepted = <<>>
  BY DEF ToneInit, NoTone
<1>3. QueueTrue
  BY <1>2 DEF QueueTrue, TonesBegun
<1>4. ToneTrue
  BY <1>1, <1>2, Times DEF ToneTrue, ToneTypes
<1> QED BY <1>1, <1>3, <1>4 DEF ToneInv

\* What is told of the tone before this frame, once a new one has begun.
ToldBefore == IF Begins THEN 0 ELSE told

\* The tone that the queue gives next.
LEMMA NextIs ==
  ASSUME ToneInv, ~tone.on, nextEmpty > 0
  PROVE  /\ ended.count \in Nat /\ ended.count < Len(accepted)
         /\ This \in Asked
         /\ toneKeys[1] = This.key /\ toneLens[1] = This.length
<1>1. ended.count \in Nat /\ nextEmpty \in Nat /\ accepted \in Seq(Asked) /\ TonesBegun = ended.count
  BY DEF ToneInv, ToneTypes, TonesBegun
<1>2. Len(accepted) = ended.count + nextEmpty /\ 1 \in 1 .. nextEmpty
  BY <1>1, SMT DEF ToneInv, QueueTrue
<1>3. ended.count + 1 \in 1 .. Len(accepted)
  BY <1>1, <1>2, SMT
<1>4. This \in Asked
  BY <1>1, <1>3, ElementOfSeq DEF This
<1>5. toneKeys[1] = This.key /\ toneLens[1] = This.length
  <2>1. toneKeys[1] = accepted[TonesBegun + 1].key /\ toneLens[1] = accepted[TonesBegun + 1].length
    BY <1>2 DEF ToneInv, QueueTrue
  <2> QED BY <1>1, <2>1 DEF This
<1> QED BY <1>1, <1>2, <1>4, <1>5, SMT

\* The tone that a frame is for is known as well, at the frame's own time.
LEMMA CurrentRight ==
  ASSUME ToneInv, Current.on
  PROVE  /\ Current \in ToneRecords /\ ToldBefore \in Nat
         /\ Playing(Current, ToldBefore, Capture)
         /\ Current.sent = tone.sent /\ Current.ended = tone.ended
         /\ Current.start <= Capture
         /\ Begins => Duration = 0
         /\ ended.count > 0 => Clock - ended.time > MaxPause
<1>1. /\ frames \in Nat /\ told \in Nat /\ tone \in ToneRecords /\ ended.count \in Nat
      /\ ended.time \in Nat /\ accepted \in Seq(Asked)
  BY DEF ToneInv, ToneTypes
<1>2. Clock \in Nat /\ Capture \in Nat /\ Frame \in Nat /\ Frame > 0
  BY <1>1, Times
<1>3. CASE Begins
  <2>1. ~tone.on /\ nextEmpty > 0 /\ Clock - tone.ended > MaxPause
    BY <1>3 DEF Begins
  <2>2. /\ ended.count < Len(accepted) /\ This \in Asked
        /\ toneKeys[1] = This.key /\ toneLens[1] = This.length
    BY <2>1, NextIs
  <2> DEFINE start == Capture
             key == toneKeys[1]
             length == SamplesPerMs * toneLens[1]
  <2>3. Current = [tone EXCEPT !.on = TRUE, !.start = start, !.key = key, !.length = length]
    BY <1>3 DEF Current
  <2>4. start \in Nat /\ key \in Keys /\ length \in Int /\ length > 0
    <3>1. This.key \in Keys /\ This.length \in Nat /\ This.length > 0
      BY <2>2 DEF Asked
    <3>2. SamplesPerMs \in Nat /\ SamplesPerMs > 0
      BY ToneAssumption
    <3>3. SamplesPerMs * This.length \in Int /\ SamplesPerMs * This.length > 0
      BY <3>1, <3>2, SMT
    <3> QED BY <1>2, <2>2, <3>1, <3>3
  <2>5. start = Capture /\ key = This.key /\ length = SamplesPerMs * This.length
    BY <2>2
  <2> HIDE DEF start, key, length
  <2>6. /\ Current \in ToneRecords
        /\ Current.start = start /\ Current.key = key /\ Current.length = length
        /\ Current.sent = tone.sent /\ Current.ended = tone.ended
    BY <1>1, <2>3, <2>4 DEF ToneRecords
  <2>7. tone.sent \in Nat /\ tone.sent + Frame <= Capture
    BY <1>1 DEF ToneInv, ToneTrue, ToneRecords
  <2>8. ToldBefore = 0 /\ Duration = 0
    BY <1>2, <1>3, <2>5, <2>6 DEF ToldBefore, Duration
  <2>9. PacketSamples \in Nat /\ tone.sent < start
    BY <1>2, <2>5, <2>7, ToneAssumption, SMT
  <2>10. Playing(Current, ToldBefore, Capture)
    <3>1. 0 + length = SamplesPerMs * This.length
      BY <2>4, <2>5
    <3>2. Capture - start <= PacketSamples + Frame
      BY <1>2, <2>5, <2>9
    <3>3. ~(start <= tone.sent)
      BY <1>2, <2>5, <2>7, <2>9
    <3> QED BY <2>2, <2>4, <2>5, <2>6, <2>8, <3>1, <3>2, <3>3 DEF Playing
  <2>11. Clock - ended.time > MaxPause \/ ended.count = 0
    BY <1>1, <2>1 DEF ToneInv, ToneTrue
  <2> QED BY <1>1, <1>2, <2>5, <2>6, <2>8, <2>10, <2>11
<1>4. CASE ~Begins
  <2>1. Current = tone /\ tone.on /\ ToldBefore = told
    BY <1>4 DEF Current, ToldBefore
  <2>2. /\ Playing(tone, told, Capture) /\ tone.start + Frame <= Capture
        /\ ended.count > 0 => Clock - FrameMs - ended.time > MaxPause
    BY <2>1 DEF ToneInv, ToneTrue
  <2>3. tone.start \in Nat /\ FrameMs \in Nat
    BY <1>1, ToneAssumption DEF ToneRecords
  <2>4. tone.start <= Capture
    BY <1>2, <2>2, <2>3
  <2>5. ended.count > 0 => Clock - ended.time > MaxPause
    BY <1>1, <1>2, <2>2, <2>3 DEF MaxPause
  <2> QED BY <1>1, <1>4, <2>1, <2>2, <2>4, <2>5
<1> QED BY <1>3, <1>4

\* How long the tone has lasted at a frame, and what that means for its end.
LEMMA DurationRight ==
  ASSUME NEW t \in ToneRecords, NEW k \in Nat, NEW c \in Nat, t.start <= c,
         Playing(t, k, c), t.sent + Frame <= c, frames \in Nat
  PROVE  /\ c - t.start \in Nat
         /\ c - t.start <= 2 * MaxDuration
         /\ c - t.start < t.length + Frame + PacketSamples
         /\ t.length > 0
<1>1. t.start \in Nat /\ t.sent \in Nat /\ t.length \in Int
  BY DEF ToneRecords
<1>2. Frame \in Nat /\ Frame > 0 /\ PacketSamples \in Nat /\ Frame + PacketSamples <= MaxDuration
  BY Times, ToneAssumption
<1>3. CASE t.start <= t.sent
  <2>1. t.sent - t.start <= MaxDuration /\ t.sent - t.start < t.length /\ c - t.sent <= PacketSamples + Frame
    BY <1>3 DEF Playing
  <2> QED BY <1>1, <1>2, <1>3, <2>1, SMT DEF MaxDuration
<1>4. CASE ~(t.start <= t.sent)
  <2>1. t.length > 0 /\ c - t.start <= PacketSamples + Frame
    BY <1>4 DEF Playing
  <2> QED BY <1>1, <1>2, <1>4, <2>1, SMT DEF MaxDuration
<1> QED BY <1>3, <1>4

\* The tone after a frame for which events are sent.
LEMMA AfterFrame ==
  ASSUME NEW c \in ToneRecords, c = Current, Capture \in Nat, Clock \in Nat,
         c.start <= Capture
  PROVE  /\ ToneAfterFrame \in ToneRecords
         /\ ToneAfterFrame.on = ~Ends /\ ToneAfterFrame.sent = Capture
         /\ ToneAfterFrame.key = c.key
         /\ ToneAfterFrame.ended = IF Ends THEN Clock ELSE c.ended
         /\ IF IsLong
            THEN ToneAfterFrame.start = Capture /\ ToneAfterFrame.length = c.length - MaxDuration
            ELSE ToneAfterFrame.start = c.start /\ ToneAfterFrame.length = c.length
<1> DEFINE e == IF Ends THEN Clock ELSE c.ended
           l == c.length - MaxDuration
           on == ~Ends
<1>1. e \in Nat /\ l \in Int /\ on \in BOOLEAN /\ c.length \in Int
  BY DEF ToneRecords, MaxDuration
<1>2. CASE IsLong
  <2>1. ToneAfterFrame =
          [[c EXCEPT !.start = Capture, !.length = l, !.on = on, !.sent = Capture] EXCEPT !.ended = e]
    BY <1>2 DEF ToneAfterFrame, SplitTone, ToneRecords
  <2> HIDE DEF e, l, on
  <2>2. /\ ToneAfterFrame \in ToneRecords
        /\ ToneAfterFrame.on = on /\ ToneAfterFrame.sent = Capture
        /\ ToneAfterFrame.key = c.key /\ ToneAfterFrame.ended = e
        /\ ToneAfterFrame.start = Capture /\ ToneAfterFrame.length = l
    BY <1>1, <2>1 DEF ToneRecords
  <2> QED BY <1>2, <2>2 DEF e, l, on
<1>3. CASE ~IsLong
  <2>1. ToneAfterFrame = [[c EXCEPT !.on = on, !.sent = Capture] EXCEPT !.ended = e]
    BY <1>3 DEF ToneAfterFrame, ToneRecords
  <2> HIDE DEF e, on
  <2>2. /\ ToneAfterFrame \in ToneRecords
        /\ ToneAfterFrame.on = on /\ ToneAfterFrame.sent = Capture
        /\ ToneAfterFrame.key = c.key /\ ToneAfterFrame.ended = e
        /\ ToneAfterFrame.start = c.start /\ ToneAfterFrame.length = c.length
    BY <1>1, <2>1 DEF ToneRecords
  <2> QED BY <1>3, <2>2 DEF e, on
<1> QED BY <1>2, <1>3

\* The queue moves up by the tone that begins.
LEMMA QueueMoves ==
  ASSUME ToneInv, Current.on, accepted' = accepted,
         IF Begins THEN NextDTMF ELSE UNCHANGED <<toneKeys, toneLens, nextEmpty>>,
         TonesBegun' = ended.count + 1
  PROVE  /\ QueueTrue'
         /\ toneKeys' \in [1 .. DTMF_OUTBAND_MAX -> Keys]
         /\ toneLens' \in [1 .. DTMF_OUTBAND_MAX -> Nat]
         /\ nextEmpty' \in Nat /\ nextEmpty' <= DTMF_OUTBAND_MAX
<1>1. /\ toneKeys \in [1 .. DTMF_OUTBAND_MAX -> Keys] /\ toneLens \in [1 .. DTMF_OUTBAND_MAX -> Nat]
      /\ nextEmpty \in Nat /\ nextEmpty <= DTMF_OUTBAND_MAX /\ ended.count \in Nat
      /\ DTMF_OUTBAND_MAX \in Nat
  BY ToneAssumption DEF ToneInv, ToneTypes
<1>2. /\ Len(accepted) = TonesBegun + nextEmpty
      /\ \A i \in 1 .. nextEmpty : /\ toneKeys[i] = accepted[TonesBegun + i].key
                                   /\ toneLens[i] = accepted[TonesBegun + i].length
  BY DEF ToneInv, QueueTrue
<1>3. CASE Begins
  <2>1. TonesBegun = ended.count /\ nextEmpty > 0
    BY <1>1, <1>3 DEF Begins, TonesBegun
  <2>2. /\ toneKeys' = MovedUp(toneKeys) /\ toneLens' = MovedUp(toneLens)
        /\ nextEmpty' = nextEmpty - 1
    BY <1>3 DEF NextDTMF
  <2>3. ASSUME NEW S, NEW a \in [1 .. DTMF_OUTBAND_MAX -> S]
        PROVE  /\ MovedUp(a) \in [1 .. DTMF_OUTBAND_MAX -> S]
               /\ \A i \in 1 .. nextEmpty - 1 : MovedUp(a)[i] = a[i + 1]
    BY <1>1 DEF MovedUp
  <2>4. /\ toneKeys' \in [1 .. DTMF_OUTBAND_MAX -> Keys]
        /\ toneLens' \in [1 .. DTMF_OUTBAND_MAX -> Nat]
    BY <1>1, <2>2, <2>3
  <2>5. nextEmpty' \in Nat /\ nextEmpty' <= DTMF_OUTBAND_MAX
    BY <1>1, <2>1, <2>2
  <2>6. ASSUME NEW i \in 1 .. nextEmpty'
        PROVE  /\ toneKeys'[i] = accepted'[TonesBegun' + i].key
               /\ toneLens'[i] = accepted'[TonesBegun' + i].length
    <3> DEFINE n == ended.count
    <3>0. n \in Nat /\ TonesBegun = n /\ TonesBegun' = n + 1 /\ nextEmpty' = nextEmpty - 1
      BY <1>1, <2>1, <2>2
    <3> HIDE DEF n
    <3>1. i + 1 \in 1 .. nextEmpty /\ TonesBegun' + i = TonesBegun + (i + 1) /\ i \in 1 .. nextEmpty - 1
      BY <1>1, <3>0, SMT
    <3>2. toneKeys'[i] = toneKeys[i + 1] /\ toneLens'[i] = toneLens[i + 1]
      BY <1>1, <2>2, <2>3, <3>1
    <3>3. /\ toneKeys[i + 1] = accepted[TonesBegun + (i + 1)].key
          /\ toneLens[i + 1] = accepted[TonesBegun + (i + 1)].length
      BY <1>2, <3>1
    <3> QED BY <3>1, <3>2, <3>3
  <2>7. Len(accepted') = TonesBegun' + nextEmpty'
    BY <1>1, <1>2, <2>1, <2>2
  <2> QED BY <2>4, <2>5, <2>6, <2>7 DEF QueueTrue
<1>4. CASE ~Begins
  <2>1. tone.on /\ TonesBegun = ended.count + 1
    BY <1>4 DEF Current, TonesBegun
  <2>2. UNCHANGED <<toneKeys, toneLens, nextEmpty>> /\ TonesBegun' = TonesBegun
    BY <1>4, <2>1
  <2> QED BY <1>1, <1>2, <2>2 DEF QueueTrue
<1> QED BY <1>3, <1>4

LEMMA NotYetInv ==
  ASSUME ToneInv, Current.on, NEW type, NotTimeYet(type), frames' = frames + 1,
         IF Begins THEN NextDTMF ELSE UNCHANGED <<toneKeys, toneLens, nextEmpty>>,
         tone' = Current, told' = ToldBefore, UNCHANGED <<accepted, ended>>
  PROVE  ToneInv'
<1> DEFINE c == Current
<1>1. /\ frames \in Nat /\ ended \in [count : Nat, time : Nat] /\ accepted \in Seq(Asked)
      /\ ended.count \in Nat /\ ended.time \in Nat
  BY DEF ToneInv, ToneTypes
<1>2. /\ Clock \in Nat /\ Capture \in Nat /\ Frame \in Nat /\ Frame > 0 /\ FrameMs \in Nat
      /\ Clock' = Clock + FrameMs /\ Capture' = Capture + Frame /\ PacketSamples \in Nat
  BY <1>1, Times, ToneAssumption
<1>3. /\ c \in ToneRecords /\ ToldBefore \in Nat /\ Playing(c, ToldBefore, Capture)
      /\ c.sent = tone.sent /\ c.ended = tone.ended /\ c.start <= Capture
      /\ ended.count > 0 => Clock - ended.time > MaxPause
  BY CurrentRight
<1>4. c.start \in Nat /\ c.sent \in Nat /\ c.on
  BY <1>3 DEF ToneRecords
<1>5. c.sent + Frame <= Capture /\ PacketSamples > Capture - c.sent
      /\ (ended.count > 0 => tone.ended = ended.time)
  BY <1>3 DEF ToneInv, ToneTrue, NotTimeYet
<1>6. tone' = c /\ told' = ToldBefore /\ accepted' = accepted /\ ended' = ended
  OBVIOUS
<1>7. Playing(c, ToldBefore, Capture')
  <2>1. CASE c.start <= c.sent
    <3>1. Capture + Frame - c.sent <= PacketSamples + Frame
      BY <1>2, <1>4, <1>5
    <3> QED BY <1>2, <1>3, <1>4, <2>1, <3>1 DEF Playing
  <2>2. CASE ~(c.start <= c.sent)
    <3>1. Capture + Frame - c.start <= PacketSamples + Frame
      BY <1>2, <1>4, <1>5, <2>2
    <3> QED BY <1>2, <1>3, <1>4, <2>2, <3>1 DEF Playing
  <2> QED BY <2>1, <2>2
<1> HIDE DEF c
<1>8. TonesBegun' = ended.count + 1
  BY <1>4, <1>6 DEF TonesBegun
<1>9. ToneTrue'
  <2>1. Playing(tone, told, Capture)'
    BY <1>6, <1>7 DEF Playing, This
  <2>2. tone'.sent + Frame <= Capture' /\ tone'.start + Frame <= Capture'
    BY <1>2, <1>3, <1>4, <1>5, <1>6
  <2>3. ended'.count > 0 => tone'.ended = ended'.time
    BY <1>3, <1>5, <1>6
  <2>4. ended'.count > 0 => Clock' - FrameMs - ended'.time > MaxPause
    BY <1>1, <1>2, <1>3, <1>6 DEF MaxPause
  <2> QED BY <2>1, <2>2, <2>3, <2>4 DEF ToneTrue, Frame
<1>10. QueueTrue' /\ ToneTypes'
  <2>1. frames' \in Nat /\ told' \in Nat /\ tone' \in ToneRecords
    BY <1>1, <1>3, <1>6
  <2> QED BY <1>1, <1>6, <1>8, <2>1, QueueMoves DEF ToneTypes
<1> QED BY <1>9, <1>10 DEF ToneInv

LEMMA EventInv ==
  ASSUME ToneInv, Current.on, frames' = frames + 1,
         IF Begins THEN NextDTMF ELSE UNCHANGED <<toneKeys, toneLens, nextEmpty>>,
         tone' = ToneAfterFrame,
         told' = ToldBefore + (IF IsLong THEN MaxDuration ELSE 0),
         accepted' = accepted,
         ended' = IF tone'.on THEN ended ELSE [count |-> ended.count + 1, time |-> Clock]
  PROVE  ToneInv'
<1> DEFINE c == Current
           t == ToneAfterFrame
           k == ToldBefore + (IF IsLong THEN MaxDuration ELSE 0)
<1>1. /\ frames \in Nat /\ ended \in [count : Nat, time : Nat] /\ accepted \in Seq(Asked)
      /\ ended.count \in Nat /\ ended.time \in Nat
  BY DEF ToneInv, ToneTypes
<1>2. /\ Clock \in Nat /\ Capture \in Nat /\ Frame \in Nat /\ Frame > 0 /\ FrameMs \in Nat
      /\ Clock' = Clock + FrameMs /\ Capture' = Capture + Frame /\ PacketSamples \in Nat
  BY <1>1, Times, ToneAssumption
<1>3. /\ c \in ToneRecords /\ ToldBefore \in Nat /\ Playing(c, ToldBefore, Capture)
      /\ c.sent = tone.sent /\ c.ended = tone.ended /\ c.start <= Capture
      /\ ended.count > 0 => Clock - ended.time > MaxPause
  BY CurrentRight
<1>4. c.start \in Nat /\ c.length \in Int
  BY <1>3 DEF ToneRecords
<1>5. ended.count > 0 => tone.ended = ended.time
  BY DEF ToneInv, ToneTrue
<1>6. /\ t \in ToneRecords /\ t.on = ~Ends /\ t.sent = Capture /\ t.key = c.key
      /\ t.ended = IF Ends THEN Clock ELSE c.ended
      /\ IF IsLong THEN t.start = Capture /\ t.length = c.length - MaxDuration
                   ELSE t.start = c.start /\ t.length = c.length
  BY <1>2, <1>3, AfterFrame
<1>7. Ends <=> c.length <= Capture - c.start
  BY DEF Ends, Duration
<1>8. IsLong <=> Capture - c.start > MaxDuration
  BY DEF IsLong, Duration
<1>9. tone' = t /\ told' = k /\ k \in Nat
  BY <1>3 DEF MaxDuration
<1>10. ~Ends => Playing(t, k, Capture')
  <2> SUFFICES ASSUME ~Ends PROVE Playing(t, k, Capture')
    OBVIOUS
  <2>1. Capture - t.sent <= PacketSamples /\ Capture' - t.sent <= PacketSamples + Frame
    BY <1>2, <1>6
  <2>2. /\ c.key = This.key /\ ToldBefore + c.length = SamplesPerMs * This.length
        /\ ended.count < Len(accepted)
    BY <1>3 DEF Playing
  <2> HIDE DEF c, t
  <2>3. /\ t.start <= t.sent /\ t.sent - t.start <= MaxDuration /\ t.sent - t.start < t.length
        /\ k + t.length = ToldBefore + c.length
    <3>1. CASE IsLong
      BY <1>2, <1>3, <1>4, <1>6, <1>7, <1>8, <3>1 DEF MaxDuration
    <3>2. CASE ~IsLong
      BY <1>2, <1>3, <1>4, <1>6, <1>7, <1>8, <3>2 DEF MaxDuration
    <3> QED BY <3>1, <3>2
  <2> QED BY <1>6, <2>1, <2>2, <2>3 DEF Playing
<1>11. t.start <= Capture
  BY <1>2, <1>3, <1>6
<1> HIDE DEF c, t, k
<1>12. /\ accepted' = accepted /\ (~Ends => ended' = ended)
       /\ Ends => ended'.count = ended.count + 1 /\ ended'.time = Clock
       /\ ended' \in [count : Nat, time : Nat]
  <2>1. ended' = IF ~Ends THEN ended ELSE [count |-> ended.count + 1, time |-> Clock]
    BY <1>6, <1>9
  <2>2. [count |-> ended.count + 1, time |-> Clock] \in [count : Nat, time : Nat]
    BY <1>1, <1>2
  <2> QED BY <1>1, <2>1, <2>2
<1>13. TonesBegun' = ended.count + 1
  BY <1>1, <1>6, <1>9, <1>12 DEF TonesBegun
<1>14. ToneTrue'
  <2>1. ~Ends => Playing(tone, told, Capture)'
    BY <1>9, <1>10, <1>12 DEF Playing, This
  <2>2. tone'.sent + Frame <= Capture' /\ tone'.start + Frame <= Capture'
    <3>1. t.start \in Nat
      BY <1>6 DEF ToneRecords
    <3> QED BY <1>2, <1>6, <1>9, <1>11, <3>1
  <2>3. ended'.count > 0 => tone'.ended = ended'.time
    BY <1>3, <1>5, <1>6, <1>9, <1>12
  <2>4. ~Ends /\ ended'.count > 0 => Clock' - FrameMs - ended'.time > MaxPause
    BY <1>1, <1>2, <1>3, <1>12 DEF MaxPause
  <2>5. tone'.on = ~Ends
    BY <1>6, <1>9
  <2> QED BY <2>1, <2>2, <2>3, <2>4, <2>5 DEF ToneTrue, Frame
<1>15. QueueTrue' /\ ToneTypes'
  <2>1. frames' \in Nat /\ told' \in Nat /\ tone' \in ToneRecords
    BY <1>1, <1>6, <1>9
  <2> QED BY <1>1, <1>12, <1>13, <2>1, QueueMoves DEF ToneTypes
<1> QED BY <1>14, <1>15 DEF ToneInv

\* What the event of a frame does: the tone goes on, or there was nothing to send.
LEMMA EventCases ==
  ASSUME ToneInv, NEW type \in FrameTypes, SendEvent(type)
  PROVE  \/ /\ NotTimeYet(type) /\ tone' = Current /\ frameWire' = <<>>
            /\ told' = ToldBefore /\ ended' = ended
         \/ /\ tone' = ToneAfterFrame /\ tone'.sent = Capture
            /\ told' = ToldBefore + (IF IsLong THEN MaxDuration ELSE 0)
<1>1. frames \in Nat /\ Current.on
  BY DEF ToneInv, ToneTypes, SendEvent
<1>2. Clock \in Nat /\ Capture \in Nat /\ Frame \in Nat /\ Frame > 0
  BY <1>1, Times
<1>3. Current \in ToneRecords /\ Current.sent = tone.sent /\ Current.start <= Capture /\ ToldBefore \in Nat
  BY <1>1, CurrentRight
<1>4. told' = ToldBefore + (IF IsLong /\ tone'.sent = Capture THEN MaxDuration ELSE 0)
  BY DEF SendEvent, ToldBefore
<1>5. CASE NotTimeYet(type)
  <2>1. tone' = Current /\ frameWire' = <<>> /\ ended' = IF tone'.on THEN ended
                             ELSE [count |-> ended.count + 1, time |-> Clock]
    BY <1>5 DEF SendEvent
  <2>2. tone.sent + Frame <= Capture /\ tone.sent \in Nat
    BY DEF ToneInv, ToneTrue, ToneTypes, ToneRecords
  <2>3. tone'.sent # Capture
    BY <1>2, <1>3, <2>1, <2>2
  <2>4. told' = ToldBefore
    BY <1>3, <1>4, <2>3
  <2>5. ended' = ended
    BY <1>1, <2>1
  <2> QED BY <1>5, <2>1, <2>4, <2>5
<1>6. CASE ~NotTimeYet(type)
  <2>1. tone' = ToneAfterFrame
    BY <1>6 DEF SendEvent
  <2>2. tone'.sent = Capture
    BY <1>2, <1>3, <2>1, AfterFrame
  <2> QED BY <1>4, <2>1, <2>2
<1> QED BY <1>5, <1>6

LEMMA SendEventInv ==
  ASSUME ToneInv, NEW type \in FrameTypes, SendEvent(type)
  PROVE  ToneInv'
<1>1. /\ Current.on /\ frames' = frames + 1 /\ accepted' = accepted
      /\ IF Begins THEN NextDTMF ELSE UNCHANGED <<toneKeys, toneLens, nextEmpty>>
      /\ ended' = IF tone'.on THEN ended ELSE [count |-> ended.count + 1, time |-> Clock]
  BY DEF SendEvent, NextFrame
<1>2. CASE /\ NotTimeYet(type) /\ tone' = Current /\ frameWire' = <<>>
           /\ told' = ToldBefore /\ ended' = ended
  BY <1>1, <1>2, NotYetInv
<1>3. CASE /\ tone' = ToneAfterFrame /\ tone'.sent = Capture
           /\ told' = ToldBefore + (IF IsLong THEN MaxDuration ELSE 0)
  BY <1>1, <1>3, EventInv
<1> QED BY <1>2, <1>3, EventCases

\* A frame of audio leaves the tones as they are.
LEMMA NoToneInv ==
  ASSUME ToneInv, frames' = frames + 1, ~Current.on,
         UNCHANGED <<toneKeys, toneLens, nextEmpty, tone, accepted, ended, told>>
  PROVE  ToneInv'
<1>1. frames \in Nat /\ tone \in ToneRecords
  BY DEF ToneInv, ToneTypes
<1>2. Capture' = Capture + Frame /\ Frame \in Nat /\ Capture \in Nat
  BY <1>1, Times
<1>3. tone.on = FALSE
  <2>1. ~Begins => Current = tone
    BY DEF Current
  <2>2. Begins => ~tone.on
    BY DEF Begins
  <2> QED BY <1>1, <2>1, <2>2 DEF ToneRecords
<1>4. ToneTypes' /\ QueueTrue'
  BY <1>1 DEF ToneInv, ToneTypes, QueueTrue, TonesBegun
<1>5. tone.sent \in Nat /\ tone.sent + Frame <= Capture /\ (ended.count > 0 => tone.ended = ended.time)
  BY <1>1 DEF ToneInv, ToneTrue, ToneRecords
<1>6. ToneTrue'
  <2>1. tone'.sent + Frame <= Capture'
    BY <1>2, <1>5
  <2> QED BY <1>3, <1>5, <2>1 DEF ToneTrue, Frame
<1> QED BY <1>4, <1>6 DEF ToneInv

LEMMA AddInv ==
  ASSUME ToneInv, NEW t \in Tones, AddDTMF(t[1], t[2])
  PROVE  ToneInv'
<1> DEFINE a == [key |-> t[1], length |-> t[2]]
<1>1. a \in Asked /\ t[1] \in Keys /\ t[2] \in Nat /\ a.key = t[1] /\ a.length = t[2]
  BY ToneAssumption DEF Asked, Keys
<1>2. /\ nextEmpty < DTMF_OUTBAND_MAX
      /\ toneKeys' = [toneKeys EXCEPT ![nextEmpty + 1] = t[1]]
      /\ toneLens' = [toneLens EXCEPT ![nextEmpty + 1] = t[2]]
      /\ nextEmpty' = nextEmpty + 1
      /\ accepted' = Append(accepted, a)
      /\ UNCHANGED <<frames, tone, ended, told>>
  BY DEF AddDTMF
<1> HIDE DEF a
<1>3. /\ toneKeys \in [1 .. DTMF_OUTBAND_MAX -> Keys] /\ toneLens \in [1 .. DTMF_OUTBAND_MAX -> Nat]
      /\ nextEmpty \in Nat /\ DTMF_OUTBAND_MAX \in Nat /\ TonesBegun \in Nat /\ TonesBegun' = TonesBegun
      /\ accepted \in Seq(Asked) /\ ended.count \in Nat /\ ended.count <= TonesBegun
      /\ tone \in ToneRecords /\ (tone.on => TonesBegun = ended.count + 1)
  <2>1. /\ toneKeys \in [1 .. DTMF_OUTBAND_MAX -> Keys]
        /\ toneLens \in [1 .. DTMF_OUTBAND_MAX -> Nat]
        /\ nextEmpty \in Nat /\ accepted \in Seq(Asked) /\ ended.count \in Nat
        /\ tone \in ToneRecords
    BY DEF ToneInv, ToneTypes
  <2>2. DTMF_OUTBAND_MAX \in Nat
    BY ToneAssumption
  <2> DEFINE n == ended.count
             on == tone.on
  <2>3. TonesBegun = n + (IF on THEN 1 ELSE 0) /\ TonesBegun' = n + (IF on THEN 1 ELSE 0)
    BY <1>2 DEF TonesBegun
  <2>4. n \in Nat
    BY <2>1
  <2> HIDE DEF n, on
  <2>5. TonesBegun \in Nat /\ TonesBegun' = TonesBegun /\ n <= TonesBegun /\ (on => TonesBegun = n + 1)
    BY <2>3, <2>4
  <2> QED BY <2>1, <2>2, <2>5 DEF n, on
<1>4. /\ accepted' \in Seq(Asked) /\ Len(accepted') = Len(accepted) + 1
      /\ Len(accepted) \in Nat
      /\ \A i \in 1 .. Len(accepted) : accepted'[i] = accepted[i]
      /\ accepted'[Len(accepted) + 1] = a
  BY <1>1, <1>2, <1>3
<1>5. Len(accepted) = TonesBegun + nextEmpty
  BY DEF ToneInv, QueueTrue
<1>6. QueueTrue'
  <2>1. ASSUME NEW i \in 1 .. nextEmpty'
        PROVE  /\ toneKeys'[i] = accepted'[TonesBegun' + i].key
               /\ toneLens'[i] = accepted'[TonesBegun' + i].length
    <3>1. CASE i = nextEmpty + 1
      <4>1. TonesBegun' + i = Len(accepted) + 1
        BY <1>3, <1>5, <3>1
      <4>2. i \in 1 .. DTMF_OUTBAND_MAX
        BY <1>2, <1>3, <3>1
      <4> QED BY <1>1, <1>2, <1>3, <1>4, <3>1, <4>1, <4>2
    <3>2. CASE i # nextEmpty + 1
      <4>1. i \in 1 .. nextEmpty /\ TonesBegun + i \in 1 .. Len(accepted)
        BY <1>2, <1>3, <1>5, <3>2
      <4>2. toneKeys'[i] = toneKeys[i] /\ toneLens'[i] = toneLens[i]
        BY <1>2, <1>3, <3>2, <4>1
      <4>3. toneKeys[i] = accepted[TonesBegun + i].key /\ toneLens[i] = accepted[TonesBegun + i].length
        BY <4>1 DEF ToneInv, QueueTrue
      <4> QED BY <1>3, <1>4, <4>1, <4>2, <4>3
    <3> QED BY <3>1, <3>2
  <2>2. Len(accepted') = TonesBegun' + nextEmpty'
    BY <1>2, <1>3, <1>4, <1>5
  <2> QED BY <2>1, <2>2 DEF QueueTrue
<1>7. ToneTypes'
  <2>1. toneKeys' \in [1 .. DTMF_OUTBAND_MAX -> Keys] /\ toneLens' \in [1 .. DTMF_OUTBAND_MAX -> Nat]
    BY <1>1, <1>2, <1>3
  <2>2. nextEmpty' \in Nat /\ nextEmpty' <= DTMF_OUTBAND_MAX
    BY <1>2, <1>3
  <2> QED BY <1>2, <1>4, <2>1, <2>2 DEF ToneInv, ToneTypes
<1>8. ToneTrue'
  <2>1. Clock' = Clock /\ Capture' = Capture
    BY <1>2 DEF Clock, Capture
  <2>2. CASE tone.on
    <3>1. ended.count + 1 \in 1 .. Len(accepted)
      BY <1>3, <1>5, <2>2
    <3>2. This' = This /\ (ended.count < Len(accepted) => ended.count < Len(accepted'))
      BY <1>2, <1>3, <1>4, <3>1 DEF This
    <3> QED BY <1>2, <2>1, <2>2, <3>2 DEF ToneInv, ToneTrue, Playing, Frame
  <2>3. CASE ~tone.on
    BY <1>2, <2>1, <2>3 DEF ToneInv, ToneTrue, Frame
  <2> QED BY <2>2, <2>3
<1> QED BY <1>6, <1>7, <1>8 DEF ToneInv

LEMMA TonesStep == ToneInv /\ [ToneNext]_toneVars => ToneInv'
<1> SUFFICES ASSUME ToneInv, [ToneNext]_toneVars PROVE ToneInv'
  OBVIOUS
<1>1. ASSUME NEW t \in Tones, AddDTMF(t[1], t[2]) PROVE ToneInv'
  BY <1>1, AddInv
<1>2. ASSUME NEW type \in FrameTypes, SendEvent(type) PROVE ToneInv'
  BY <1>2, SendEventInv
<1>3. ASSUME NEW type \in FrameTypes, NEW payloadType \in FramePayloadTypes,
             NEW outcome \in Outcomes, SendSpeech(type, payloadType, outcome)
      PROVE  ToneInv'
  BY <1>3, NoToneInv DEF SendSpeech, NextFrame
<1>4. CASE UNCHANGED toneVars
  BY <1>4 DEF toneVars, ToneInv, ToneTypes, QueueTrue, ToneTrue, TonesBegun, Playing, This,
              Clock, Capture, Frame
<1> QED BY <1>1, <1>2, <1>3, <1>4 DEF ToneNext

-----------------------------------------------------------------------------
(* What the receiver gets of a tone. *)

LEMMA CopiesAre ==
  ASSUME NEW e
  PROVE  Copies(e) \in Seq({e})
<1> DEFINE n == IF e.end THEN Redundant ELSE 1
<1>1. n \in Nat
  BY DEF Redundant
<1>2. Copies(e) = [i \in 1 .. n |-> e]
  BY DEF Copies
<1> HIDE DEF n
<1> QED BY <1>1, <1>2

\* The events of a short or of a long segment.
ShortEvent == Event(Ends, Current.start, Duration)
LongEvent == Event(Ends, Current.start, MaxDuration)
NextEvent == Event(Ends, Capture, Duration - MaxDuration)

LEMMA EventsAre ==
  EventPackets[1] \in Seq(IF IsLong THEN {LongEvent} ELSE {})
  /\ EventPackets[2] \in Seq(IF IsLong THEN {NextEvent}
                             ELSE IF Duration > 0 \/ Ends THEN {ShortEvent} ELSE {})
<1>1. CASE IsLong
  BY <1>1, CopiesAre DEF EventPackets, LongEvent, NextEvent
<1>2. CASE ~IsLong
  BY <1>2, CopiesAre, EmptySeq DEF EventPackets, ShortEvent
<1> QED BY <1>1, <1>2

LEMMA MembersAre ==
  ASSUME NEW S, NEW a \in Seq(S), NEW b \in Seq(S), NEW w \in {<<>>, a, b, a \o b}
  PROVE  \A i \in DOMAIN w : w[i] \in S
<1>1. w \in Seq(S)
  <2>1. a \o b \in Seq(S)
    BY ConcatProperties
  <2> QED BY <2>1, EmptySeq
<1> QED BY <1>1, ElementOfSeq

LEMMA FrameEvents ==
  ASSUME ToneInv, NEW type \in FrameTypes, SendEvent(type), NEW p \in FramePackets'
  PROVE  /\ tone' = ToneAfterFrame
         /\ told' = ToldBefore + (IF IsLong THEN MaxDuration ELSE 0)
         /\ IF IsLong THEN p \in {LongEvent, NextEvent}
                      ELSE p = ShortEvent /\ (Duration > 0 \/ Ends)
<1>1. PICK i \in DOMAIN frameWire' : p = frameWire'[i]
  BY DEF FramePackets
<1>2. frameWire' # <<>>
  BY <1>1
<1>3. ~NotTimeYet(type) \/ frameWire' = <<>>
  BY DEF SendEvent
<1>4. frameWire' \in {<<>>, EventPackets[1], EventPackets[2], EventPackets[1] \o EventPackets[2]}
  BY <1>2, <1>3 DEF SendEvent
<1>5. CASE IsLong
  <2>1. EventPackets[1] \in Seq({LongEvent, NextEvent}) /\ EventPackets[2] \in Seq({LongEvent, NextEvent})
    <3>1. EventPackets[1] \in Seq({LongEvent}) /\ EventPackets[2] \in Seq({NextEvent})
      BY <1>5, EventsAre
    <3> QED BY <3>1
  <2>2. p \in {LongEvent, NextEvent}
    BY <1>1, <1>4, <2>1, MembersAre
  <2> QED BY <1>2, <1>5, <2>2, EventCases
<1>6. CASE ~IsLong
  <2> DEFINE S == IF Duration > 0 \/ Ends THEN {ShortEvent} ELSE {}
  <2>1. EventPackets[1] \in Seq(S) /\ EventPackets[2] \in Seq(S)
    <3>1. EventPackets[1] \in Seq({}) /\ EventPackets[2] \in Seq(S)
      BY <1>6, EventsAre
    <3>2. Seq({}) \subseteq Seq(S)
      OBVIOUS
    <3> QED BY <3>1, <3>2
  <2>2. p \in S
    <3> HIDE DEF S
    <3> QED BY <1>1, <1>4, <2>1, MembersAre
  <2> QED BY <1>2, <1>6, <2>2, EventCases
<1> QED BY <1>5, <1>6

\* What a packet of a tone says, and what the tone is then.
LEMMA EventSays ==
  ASSUME ToneInv, NEW type \in FrameTypes, SendEvent(type), NEW p \in FramePackets'
  PROVE  /\ ended.count < Len(accepted)
         /\ p.key = This.key
         /\ p.end <=> ended'.count = ended.count + 1
         /\ ended.count > 0 => Clock - ended.time > MaxPause
         /\ p.duration \in 1 .. MaxDuration
         /\ p.start = tone'.start =>
              IF p.end
              THEN told' + p.duration \in SamplesPerMs * This.length
                                           .. SamplesPerMs * This.length + Frame + PacketSamples
              ELSE told' + p.duration < SamplesPerMs * This.length
<1> DEFINE c == Current
           length == SamplesPerMs * This.length
           n == ended.count
           total == told' + p.duration
<1>1. /\ frames \in Nat /\ n \in Nat /\ Current.on
  BY DEF ToneInv, ToneTypes, SendEvent
<1>2. /\ Clock \in Nat /\ Capture \in Nat /\ Frame \in Nat /\ Frame > 0 /\ PacketSamples \in Nat
  BY <1>1, Times, ToneAssumption
<1>3. /\ c \in ToneRecords /\ ToldBefore \in Nat /\ Playing(c, ToldBefore, Capture)
      /\ c.sent = tone.sent /\ c.start <= Capture
      /\ ended.count > 0 => Clock - ended.time > MaxPause
  BY <1>1, CurrentRight
<1>4. tone.sent + Frame <= Capture
  BY DEF ToneInv, ToneTrue
<1>5. /\ Duration \in Nat /\ Duration <= 2 * MaxDuration
      /\ Duration < c.length + Frame + PacketSamples /\ c.length > 0
  BY <1>1, <1>2, <1>3, <1>4, DurationRight DEF Duration
<1>6. c.start \in Nat /\ c.length \in Int
  BY <1>3 DEF ToneRecords
<1>7. n < Len(accepted) /\ c.key = This.key /\ ToldBefore + c.length = length
  BY <1>3 DEF Playing
<1>8. /\ tone' = ToneAfterFrame /\ told' = ToldBefore + (IF IsLong THEN MaxDuration ELSE 0)
      /\ IF IsLong THEN p \in {LongEvent, NextEvent}
                   ELSE p = ShortEvent /\ (Duration > 0 \/ Ends)
  BY FrameEvents
<1>9. /\ tone'.on = ~Ends
      /\ tone'.start = IF IsLong THEN Capture ELSE c.start
  BY <1>2, <1>3, <1>8, AfterFrame
<1>10. (Ends <=> c.length <= Duration) /\ (IsLong <=> Duration > MaxDuration) /\ Ends \in BOOLEAN
  BY DEF Ends, IsLong
<1>11. p.end = Ends /\ p.key = c.key
  BY <1>8 DEF LongEvent, NextEvent, ShortEvent, Event
<1>12. p.end <=> ended'.count = n + 1
  <2>1. ended' = IF tone'.on THEN ended ELSE [count |-> n + 1, time |-> Clock]
    BY DEF SendEvent
  <2>2. n # n + 1
    BY <1>1
  <2> QED BY <1>9, <1>10, <1>11, <2>1, <2>2
<1>13. p.duration \in 1 .. MaxDuration /\ (p.start = tone'.start => total = ToldBefore + Duration)
  <2>1. CASE ~IsLong
    <3>1. p.duration = Duration /\ (Duration > 0 \/ Ends)
      BY <1>8, <2>1 DEF ShortEvent, Event
    <3>2. Duration > 0 /\ Duration <= MaxDuration
      BY <1>5, <1>6, <1>10, <2>1, <3>1 DEF MaxDuration
    <3>3. told' = ToldBefore /\ total = told' + p.duration
      BY <1>3, <1>8, <2>1
    <3>4. p.duration \in 1 .. MaxDuration
      <4>1. Duration \in Nat /\ Duration > 0 /\ Duration <= MaxDuration /\ MaxDuration \in Nat
        BY <1>5, <3>2 DEF MaxDuration
      <4>2. Duration \in 1 .. MaxDuration
        BY <4>1
      <4> QED BY <3>1, <4>2
    <3> QED BY <3>1, <3>3, <3>4
  <2>2. CASE IsLong /\ p = NextEvent
    <3>1. p.duration = Duration - MaxDuration
      BY <2>2 DEF NextEvent, Event
    <3>2. told' = ToldBefore + MaxDuration /\ Duration > MaxDuration
      BY <1>8, <1>10, <2>2
    <3>3. MaxDuration \in Nat
      BY DEF MaxDuration
    <3>4. Duration - MaxDuration \in 1 .. MaxDuration
      BY <1>5, <3>2, <3>3
    <3>5. told' + p.duration = ToldBefore + Duration
      BY <1>3, <1>5, <3>1, <3>2, <3>3
    <3>6. total = ToldBefore + Duration
      BY <3>5 DEF total
    <3> QED BY <3>1, <3>4, <3>6
  <2>3. CASE IsLong /\ p = LongEvent
    <3>1. p.duration = MaxDuration /\ p.start = c.start
      BY <2>3 DEF LongEvent, Event
    <3>2. Capture # c.start
      BY <1>2, <1>6, <1>10, <2>3 DEF Duration, MaxDuration
    <3> QED BY <1>9, <2>3, <3>1, <3>2 DEF MaxDuration
  <2> QED BY <1>8, <2>1, <2>2, <2>3
<1>14. length \in Int
  BY <1>3, <1>6, <1>7
<1> HIDE DEF c, length, total, n
<1>15. p.start = tone'.start =>
          IF p.end THEN total \in length .. length + Frame + PacketSamples ELSE total < length
  <2> SUFFICES ASSUME p.start = tone'.start
               PROVE  IF p.end THEN total \in length .. length + Frame + PacketSamples
                               ELSE total < length
    OBVIOUS
  <2> DEFINE l == c.length
             end == p.end
  <2>1. /\ total = ToldBefore + Duration /\ length = ToldBefore + l /\ l \in Int /\ length \in Int
        /\ ToldBefore \in Nat /\ Duration \in Nat /\ Duration < l + Frame + PacketSamples
        /\ end <=> l <= Duration
    BY <1>3, <1>5, <1>6, <1>7, <1>10, <1>11, <1>13, <1>14
  <2> HIDE DEF l, end
  <2>2. IF end THEN total \in length .. length + Frame + PacketSamples ELSE total < length
    BY <1>2, <2>1, SMT
  <2> QED BY <2>2 DEF end
<1>16. p.key = This.key /\ n < Len(accepted)
  BY <1>7, <1>11
<1> QED BY <1>3, <1>12, <1>13, <1>15, <1>16 DEF c, length, total, n

-----------------------------------------------------------------------------
(* Bursts of speech. *)

\* A failure may leave lastType and inbandVAD ahead of the last packet that was sent;
\* then a packet with the mark was lost, or the next one has it.
BurstInv ==
  /\ lastType = -1 => burst.type = -1
  /\ ~frameFailed => burst.type = lastType
  /\ (burst.quiet \/ burst.type # lastType) /\ lastType \notin CngTypes /\ lastType # -1
       => inbandVAD \/ markLost
  /\ inbandVAD => burst.quiet \/ frameFailed
  /\ lastType = -1 /\ inbandVAD => frameFailed
  /\ {inbandVAD, markLost, frameFailed} \subseteq BOOLEAN

LEMMA BurstsStart == ToneInit => BurstInv
<1> SUFFICES ASSUME ToneInit PROVE BurstInv
  OBVIOUS
<1>1. inbandVAD = FALSE /\ markLost = FALSE /\ frameFailed = FALSE
  BY DEF ToneInit
<1>2. burst.type = -1 /\ lastType = -1
  BY DEF ToneInit
<1> QED BY <1>1, <1>2 DEF BurstInv

LEMMA SpeechInv ==
  ASSUME BurstInv, NEW type \in FrameTypes, NEW payloadType \in FramePayloadTypes,
         NEW outcome \in Outcomes, SendSpeech(type, payloadType, outcome)
  PROVE  /\ BurstInv'
         /\ \A p \in FramePackets' : ~burst'.quiet =>
              LET begins == burst.quiet \/ burst.type # p.type
              IN  /\ begins => p.marker \/ markLost
                  /\ p.marker => begins \/ frameFailed
<1> DEFINE m == AudioMarkerBit(type, payloadType)
           w == <<[type |-> payloadType, marker |-> m.marker]>>
           quiet == type = "kAudioFrameCN"
           new == payloadType # lastType
           cng == payloadType \in CngTypes
<1>1. payloadType # -1
  BY ToneAssumption
<1>2. CASE type = "kFrameEmpty"
  <2>1. frameWire' = <<>> /\ UNCHANGED <<lastType, inbandVAD, burst, frameFailed, markLost>>
    BY <1>2 DEF SendSpeech
  <2>2. FramePackets' = {}
    BY <2>1 DEF FramePackets
  <2> QED BY <2>1, <2>2 DEF BurstInv
<1>3. /\ m.marker = (IF new /\ cng THEN FALSE
                     ELSE IF new /\ lastType = -1 THEN ~quiet ELSE new \/ (~quiet /\ inbandVAD))
      /\ m.vad = (IF new /\ cng THEN inbandVAD
                  ELSE IF new /\ lastType = -1 THEN quiet \/ inbandVAD ELSE quiet)
  BY DEF AudioMarkerBit
<1>4. m.marker \in BOOLEAN /\ m.vad \in BOOLEAN
  BY <1>3 DEF BurstInv, quiet, new
<1>5. CASE type # "kFrameEmpty"
  <2>1. /\ inbandVAD' = m.vad
        /\ lastType' = (IF outcome = "tooLarge" THEN lastType ELSE payloadType)
        /\ frameWire' = (IF outcome = "sent" THEN w ELSE <<>>)
        /\ burst' = IF outcome = "sent" THEN [type |-> payloadType, quiet |-> quiet \/ cng]
                    ELSE burst
        /\ frameFailed' = (outcome = "sent" => frameFailed /\ burst.type = -1)
        /\ markLost' = (outcome # "sent" /\ (markLost \/ m.marker))
    BY <1>5 DEF SendSpeech, LastType
  <2>2. \A i \in DOMAIN w : w[i].type = payloadType /\ w[i].marker = m.marker
    OBVIOUS
  <2>3. /\ lastType = -1 => new
        /\ ~new => payloadType = lastType
        /\ cng <=> payloadType \in CngTypes
    BY <1>1
  <2> HIDE DEF quiet, new, cng, m, w
  <2>4. CASE outcome # "sent"
    <3>1. FramePackets' = {}
      BY <2>1, <2>4 DEF FramePackets
    <3>2. burst' = burst /\ frameFailed' = TRUE /\ markLost' = (markLost \/ m.marker)
      BY <2>1, <2>4
    <3>3. lastType' = lastType \/ (lastType' = payloadType /\ outcome # "tooLarge")
      BY <2>1
    <3>4. lastType' = -1 => burst'.type = -1
      BY <1>1, <3>2, <3>3 DEF BurstInv
    <3>5. (burst'.quiet \/ burst'.type # lastType') /\ lastType' \notin CngTypes
            /\ lastType' # -1 => inbandVAD' \/ markLost'
      <4> SUFFICES ASSUME burst.quiet \/ burst.type # lastType', lastType' \notin CngTypes,
                          lastType' # -1, ~m.vad
                   PROVE  markLost \/ m.marker
        BY <2>1, <3>2
      <4>1. CASE lastType' = lastType
        <5>1. inbandVAD \/ markLost
          BY <4>1 DEF BurstInv
        <5>2. inbandVAD => m.marker
          BY <1>3, <4>1
        <5> QED BY <5>1, <5>2
      <4>2. CASE lastType' = payloadType /\ new
        <5>1. ~cng
          BY <2>3, <4>2
        <5>2. ~quiet
          BY <1>3, <5>1, <4>2
        <5> QED BY <1>3, <4>2, <5>1, <5>2
      <4> QED BY <2>3, <3>3, <4>1, <4>2
    <3>6. {inbandVAD', markLost', frameFailed'} \subseteq BOOLEAN
      BY <1>4, <2>1, <3>2 DEF BurstInv
    <3> QED BY <3>1, <3>2, <3>4, <3>5, <3>6 DEF BurstInv
  <2>5. CASE outcome = "sent"
    <3>1. /\ lastType' = payloadType /\ burst'.type = payloadType /\ frameWire' = w
          /\ burst'.quiet = (quiet \/ cng)
          /\ frameFailed' = (frameFailed /\ burst.type = -1) /\ markLost' = FALSE
      BY <2>1, <2>5
    <3>2. burst'.quiet /\ ~cng => m.vad
      BY <1>3, <3>1 DEF quiet
    <3>3. m.vad => burst'.quiet \/ frameFailed'
      <4>1. CASE new /\ cng
        BY <3>1, <4>1 DEF cng, quiet
      <4>2. CASE ~(new /\ cng) /\ new /\ lastType = -1
        <5>1. inbandVAD => frameFailed /\ burst.type = -1
          BY <4>2 DEF BurstInv
        <5>2. m.vad => quiet \/ inbandVAD
          BY <1>3, <4>2
        <5> QED BY <3>1, <5>1, <5>2
      <4>3. CASE ~(new /\ cng) /\ ~(new /\ lastType = -1)
        BY <1>3, <3>1, <4>3
      <4> QED BY <4>1, <4>2, <4>3
    <3>4. BurstInv'
      BY <1>1, <1>4, <2>1, <2>3, <3>1, <3>2, <3>3 DEF BurstInv
    <3>5. ASSUME NEW p \in FramePackets', ~burst'.quiet
          PROVE  /\ p.type = payloadType /\ p.marker = m.marker /\ ~cng
                 /\ m.marker = (new \/ inbandVAD)
      <4>1. p.type = payloadType /\ p.marker = m.marker
        BY <2>2, <3>1 DEF FramePackets
      <4>2. ~quiet /\ ~cng
        BY <3>1, <3>5
      <4> QED BY <1>3, <2>3, <4>1, <4>2 DEF BurstInv
    <3>6. ASSUME NEW p \in FramePackets', ~burst'.quiet
          PROVE  /\ burst.quiet \/ burst.type # p.type => p.marker \/ markLost
                 /\ p.marker => burst.quiet \/ burst.type # p.type \/ frameFailed
      <4>1. CASE new
        <5>1. ~frameFailed => burst.type # payloadType
          BY <4>1 DEF BurstInv, new
        <5> QED BY <3>5, <3>6, <4>1, <5>1
      <4>2. CASE ~new
        <5>1. payloadType = lastType
          BY <2>3, <4>2
        <5>2. burst.quiet \/ burst.type # payloadType => inbandVAD \/ markLost
          BY <1>1, <2>3, <3>5, <3>6, <5>1 DEF BurstInv
        <5>3. inbandVAD => burst.quiet \/ frameFailed
          BY DEF BurstInv
        <5> QED BY <3>5, <3>6, <4>2, <5>2, <5>3
      <4> QED BY <4>1, <4>2
    <3> QED BY <3>4, <3>6
  <2> QED BY <2>4, <2>5
<1> QED BY <1>2, <1>5

-----------------------------------------------------------------------------
LEMMA SpeechPackets ==
  ASSUME NEW type \in FrameTypes, NEW payloadType \in FramePayloadTypes,
         NEW outcome \in Outcomes, SendSpeech(type, payloadType, outcome), NEW p \in FramePackets'
  PROVE  ~IsEvent(p)
<1> DEFINE a == [type |-> payloadType, marker |-> AudioMarkerBit(type, payloadType).marker]
<1>1. frameWire' = <<>> \/ frameWire' = <<a>>
  BY DEF SendSpeech
<1>2. p = a
  <2> HIDE DEF a
  <2> QED BY <1>1 DEF FramePackets
<1> QED BY <1>2 DEF IsEvent

LEMMA EventPacketsAre ==
  ASSUME ToneInv, NEW type \in FrameTypes, SendEvent(type), NEW p \in FramePackets'
  PROVE  IsEvent(p)
BY FrameEvents DEF IsEvent, LongEvent, NextEvent, ShortEvent, Event

LEMMA TonesInLineStep ==
  ToneInv /\ [ToneNext]_toneVars =>
    [\A p \in FramePackets' : frames' # frames /\ IsEvent(p) =>
       /\ ended.count < Len(accepted)
       /\ p.key = This.key
       /\ p.end <=> ended'.count = ended.count + 1
       /\ ended.count > 0 => Clock - ended.time > MaxPause]_toneVars
<1> SUFFICES ASSUME ToneInv, ToneNext, NEW p \in FramePackets', frames' # frames, IsEvent(p)
             PROVE  /\ ended.count < Len(accepted)
                    /\ p.key = This.key
                    /\ p.end <=> ended'.count = ended.count + 1
                    /\ ended.count > 0 => Clock - ended.time > MaxPause
  OBVIOUS
<1>1. PICK type \in FrameTypes : SendEvent(type)
  BY SpeechPackets DEF ToneNext, AddDTMF
<1> QED BY <1>1, EventSays

LEMMA TonesLastStep ==
  ToneInv /\ [ToneNext]_toneVars =>
    [\A p \in FramePackets' : frames' # frames /\ IsEvent(p) =>
       /\ p.duration \in 1 .. MaxDuration
       /\ p.start = tone'.start =>
            LET length == SamplesPerMs * This.length
                total == told' + p.duration
            IN  IF p.end THEN total \in length .. length + Frame + PacketSamples
                ELSE total < length]_toneVars
<1> SUFFICES ASSUME ToneInv, ToneNext, NEW p \in FramePackets', frames' # frames, IsEvent(p)
             PROVE  /\ p.duration \in 1 .. MaxDuration
                    /\ p.start = tone'.start =>
                         IF p.end
                         THEN told' + p.duration \in SamplesPerMs * This.length
                                           .. SamplesPerMs * This.length + Frame + PacketSamples
                         ELSE told' + p.duration < SamplesPerMs * This.length
  OBVIOUS
<1>1. PICK type \in FrameTypes : SendEvent(type)
  BY SpeechPackets DEF ToneNext, AddDTMF
<1> QED BY <1>1, EventSays

LEMMA BurstsMarkedStep ==
  ToneInv /\ BurstInv /\ [ToneNext]_toneVars =>
    /\ BurstInv'
    /\ [\A p \in FramePackets' : frames' # frames /\ ~IsEvent(p) /\ ~burst'.quiet =>
       LET begins == burst.quiet \/ burst.type # p.type
       IN  /\ begins => p.marker \/ markLost
           /\ p.marker => begins \/ frameFailed]_toneVars
<1> SUFFICES ASSUME ToneInv, BurstInv, [ToneNext]_toneVars
             PROVE  /\ BurstInv'
                    /\ \/ \A p \in FramePackets' : frames' # frames /\ ~IsEvent(p) /\ ~burst'.quiet =>
                            LET begins == burst.quiet \/ burst.type # p.type
                            IN  /\ begins => p.marker \/ markLost
                                /\ p.marker => begins \/ frameFailed
                       \/ UNCHANGED toneVars
  OBVIOUS
<1>1. ASSUME NEW t \in Tones, AddDTMF(t[1], t[2]) PROVE BurstInv' /\ frames' = frames
  BY <1>1 DEF AddDTMF, BurstInv
<1>2. ASSUME NEW type \in FrameTypes, SendEvent(type)
      PROVE  BurstInv' /\ \A p \in FramePackets' : IsEvent(p)
  BY <1>2, EventPacketsAre DEF SendEvent, BurstInv
<1>3. ASSUME NEW type \in FrameTypes, NEW payloadType \in FramePayloadTypes,
             NEW outcome \in Outcomes, SendSpeech(type, payloadType, outcome)
      PROVE  /\ BurstInv'
             /\ \A p \in FramePackets' : ~burst'.quiet =>
                  LET begins == burst.quiet \/ burst.type # p.type
                  IN  /\ begins => p.marker \/ markLost
                      /\ p.marker => begins \/ frameFailed
  BY <1>3, SpeechInv
<1>4. CASE UNCHANGED toneVars
  BY <1>4 DEF toneVars, BurstInv
<1> QED BY <1>1, <1>2, <1>3, <1>4 DEF ToneNext

\* For every list of tones, capacity of the queue, length of frames and sequence of
\* payload types, tones come in turn, each to its end and with its length however many
\* segments it takes, and the bursts of speech between them are marked.
THEOREM TonesAndBurstsRight == ToneSpec => TonesAndBursts
<1>1. ToneSpec => []ToneInv
  BY TonesStart, TonesStep, PTL DEF ToneSpec
<1>2. ToneSpec => TonesInLine
  BY <1>1, TonesInLineStep, PTL DEF ToneSpec, TonesInLine
<1>3. ToneSpec => TonesLast
  BY <1>1, TonesLastStep, PTL DEF ToneSpec, TonesLast
<1>4. ToneSpec => []BurstInv
  BY <1>1, BurstsStart, BurstsMarkedStep, PTL DEF ToneSpec
<1>5. ToneSpec => BurstsMarked
  BY <1>1, <1>4, BurstsMarkedStep, PTL DEF ToneSpec, BurstsMarked
<1> QED BY <1>2, <1>3, <1>5 DEF TonesAndBursts, TonesAsAsked

-----------------------------------------------------------------------------
(* RtpRetransmission: the least and the greatest, and induction. *)

\* Every nonempty set of naturals has a least element.
LEMMA LeastNat ==
  ASSUME NEW T, T \subseteq Nat, T # {}
  PROVE  \E x \in T : \A y \in T : x <= y
<1>1. \E x \in T : \A y \in T : ~(<<y, x>> \in OpToRel(<, Nat))
  BY WFMin, NatLessThanWellFounded
<1>2. \A x, y \in Nat : y < x => <<y, x>> \in OpToRel(<, Nat)
  BY DEF OpToRel
<1>3. PICK x \in T : \A y \in T : ~(<<y, x>> \in OpToRel(<, Nat))
  BY <1>1
<1>4. ASSUME NEW y \in T PROVE x <= y
  <2>1. ~(y < x)
    BY <1>2, <1>3
  <2>2. x \in Nat /\ y \in Nat
    OBVIOUS
  <2> QED BY <2>1, <2>2
<1> QED BY <1>3, <1>4

LEMMA MinIs ==
  ASSUME NEW T, T \subseteq Nat, T # {}
  PROVE  Min(T) \in T /\ \A y \in T : Min(T) <= y
<1>1. \E x \in T : \A y \in T : x <= y
  BY LeastNat
<1> QED BY <1>1 DEF Min

\* What holds for a place whenever it holds for all behind it holds for each.
LEMMA Downwards ==
  ASSUME NEW n \in Nat, NEW S,
         \A i \in 0 .. n : (\A j \in i + 1 .. n : j \in S) => i \in S
  PROVE  0 .. n \subseteq S
<1> SUFFICES ASSUME NEW b \in 0 .. n, b \notin S PROVE FALSE
  OBVIOUS
<1> DEFINE Bad == {d \in Nat : d <= n /\ n - d \notin S}
<1>1. n - b \in Bad
  <2>1. n - b \in Nat /\ n - b <= n /\ n - (n - b) = b
    OBVIOUS
  <2> QED BY <2>1
<1>2. PICK d \in Bad : \A e \in Bad : d <= e
  <2>1. Bad \subseteq Nat /\ Bad # {}
    BY <1>1
  <2> HIDE DEF Bad
  <2> QED BY <2>1, LeastNat
<1>3. \A j \in (n - d) + 1 .. n : j \in S
  <2> SUFFICES ASSUME NEW j \in (n - d) + 1 .. n, j \notin S PROVE FALSE
    OBVIOUS
  <2>1. n - j \in Nat /\ n - j <= n /\ n - (n - j) = j /\ n - j < d
    BY <1>2
  <2>2. n - j \in Bad
    BY <2>1
  <2> QED BY <1>2, <2>1, <2>2
<1>4. n - d \in 0 .. n /\ n - d \notin S
  BY <1>2
<1> QED BY <1>3, <1>4

LEMMA MaxIs ==
  ASSUME NEW a \in Nat, NEW b \in Nat, NEW T, T \subseteq a .. b, T # {}
  PROVE  Max(T) \in T /\ \A y \in T : y <= Max(T)
<1> DEFINE D == {b - y : y \in T}
<1>0. \A y \in T : y \in Int /\ y <= b /\ b - y \in Nat
  OBVIOUS
<1>1. D \subseteq Nat /\ D # {}
  <2>1. D \subseteq Nat
    BY ONLY <1>0 DEF D
  <2>2. D # {}
    BY Zenon
  <2> QED BY <2>1, <2>2
<1>2. \E x \in D : \A y \in D : x <= y
  <2> HIDE DEF D
  <2> QED BY <1>1, LeastNat
<1>3. PICK m \in T : \A y \in T : b - m <= b - y
  BY <1>2
<1>4. \A y \in T : m >= y
  BY <1>0, <1>3
<1>5. Max(T) \in T /\ \A y \in T : Max(T) >= y
  BY <1>4 DEF Max
<1>6. Max(T) \in Int
  BY <1>0, <1>5
<1> QED BY <1>0, <1>5, <1>6

-----------------------------------------------------------------------------
(* The items of a NACK. *)

LEMMA OffsetsAdd ==
  ASSUME NEW f \in Nat, NEW x \in Nat, NEW y \in Nat,
         f < NumberSpace, x < NumberSpace, y < NumberSpace,
         Offset(f, x) < Offset(f, y), Offset(f, y) <= MaxSpan
  PROVE  /\ Offset(x, y) = Offset(f, y) - Offset(f, x)
         /\ (x + Offset(x, y)) % NumberSpace = y
         /\ Within16Away(x, y) => Offset(x, y) <= MaskBits
<1>1. Offset(f, x) \in Nat /\ Offset(f, y) \in Nat
  BY DEF Offset, NumberSpace
<1>2. Offset(x, y) = Offset(f, y) - Offset(f, x)
  BY DEF Offset, NumberSpace, MaxSpan
<1>3. (x + Offset(x, y)) % NumberSpace = y
  BY DEF Offset, NumberSpace
<1>4. ASSUME Within16Away(x, y) PROVE Offset(x, y) <= MaskBits
  <2>1. Offset(x, y) <= 271
    BY <1>1, <1>2 DEF MaxSpan
  <2> QED BY <2>1, <1>4 DEF Offset, NumberSpace, Within16Away, MaskBits
<1> QED BY <1>2, <1>3, <1>4

\* What the offsets of a rising list say.
LEMMA RisingIs ==
  ASSUME NEW l, Rising(l)
  PROVE  /\ Len(l) \in Nat \ {0} /\ l \in [1 .. Len(l) -> Nat]
         /\ \A i, j \in 1 .. Len(l) : i < j =>
              /\ Offset(l[i], l[j]) \in Nat \ {0}
              /\ (l[i] + Offset(l[i], l[j])) % NumberSpace = l[j]
              /\ Within16Away(l[i], l[j]) => Offset(l[i], l[j]) <= MaskBits
         /\ \A i, j, k \in 1 .. Len(l) : i < j /\ j < k =>
              Offset(l[i], l[j]) < Offset(l[i], l[k])
<1>1. Len(l) \in Nat \ {0} /\ l \in [1 .. Len(l) -> Nat] /\ DOMAIN l = 1 .. Len(l)
  BY DEF Rising
<1>2. \A i \in 1 .. Len(l) : /\ l[i] \in Nat /\ l[i] < NumberSpace
                             /\ Offset(l[1], l[i]) <= MaxSpan
                             /\ Offset(l[1], l[i]) \in Nat
  <2>1. \A i \in 1 .. Len(l) : /\ l[i] \in Nat /\ l[1] \in Nat /\ l[i] < NumberSpace
                               /\ Offset(l[1], l[i]) <= MaxSpan
    BY <1>1 DEF Rising
  <2> QED BY <2>1 DEF Offset, NumberSpace
<1>3. \A i, j \in 1 .. Len(l) : i < j => Offset(l[1], l[i]) < Offset(l[1], l[j])
  BY <1>1 DEF Rising
<1>4. l[1] \in Nat /\ l[1] < NumberSpace
  BY <1>1, <1>2
<1>5. ASSUME NEW i \in 1 .. Len(l), NEW j \in 1 .. Len(l), i < j
      PROVE  /\ Offset(l[i], l[j]) = Offset(l[1], l[j]) - Offset(l[1], l[i])
             /\ (l[i] + Offset(l[i], l[j])) % NumberSpace = l[j]
             /\ Within16Away(l[i], l[j]) => Offset(l[i], l[j]) <= MaskBits
  <2>1. Offset(l[1], l[i]) < Offset(l[1], l[j])
    BY <1>3, <1>5
  <2> QED BY <1>2, <1>4, <2>1, OffsetsAdd
<1>6. ASSUME NEW i \in 1 .. Len(l), NEW j \in 1 .. Len(l), i < j
      PROVE  Offset(l[i], l[j]) \in Nat \ {0}
  <2> DEFINE a == Offset(l[1], l[i])
             b == Offset(l[1], l[j])
  <2>1. a \in Nat /\ b \in Nat /\ a < b /\ Offset(l[i], l[j]) = b - a
    BY <1>2, <1>3, <1>5, <1>6
  <2> HIDE DEF a, b
  <2> QED BY <2>1
<1>7. ASSUME NEW i \in 1 .. Len(l), NEW j \in 1 .. Len(l), NEW k \in 1 .. Len(l),
             i < j, j < k
      PROVE  Offset(l[i], l[j]) < Offset(l[i], l[k])
  <2> DEFINE a == Offset(l[1], l[i])
             b == Offset(l[1], l[j])
             c == Offset(l[1], l[k])
  <2>1. /\ a \in Nat /\ b \in Nat /\ c \in Nat /\ b < c
        /\ Offset(l[i], l[j]) = b - a /\ Offset(l[i], l[k]) = c - a
    <3>1. i < k
      BY <1>7
    <3> QED BY <1>2, <1>3, <1>5, <1>7, <3>1
  <2> HIDE DEF a, b, c
  <2> QED BY <2>1
<1> QED BY <1>1, <1>5, <1>6, <1>7

\* An item ends in the list, and all between its first number and its end are
\* within reach.
LEMMA ItemEnds ==
  ASSUME NEW l, Rising(l), NEW i \in 1 .. Len(l)
  PROVE  /\ ItemEnd(l, i) \in i .. Len(l)
         /\ \A k \in i + 1 .. ItemEnd(l, i) : Within16Away(l[i], l[k])
<1> DEFINE T == {j \in i .. Len(l) : \A k \in i + 1 .. j : Within16Away(l[i], l[k])}
<1>1. Len(l) \in Nat /\ i \in Nat
  BY RisingIs
<1>2. i \in T /\ T \subseteq i .. Len(l)
  <2>1. i \in i .. Len(l) /\ \A k \in i + 1 .. i : FALSE
    BY <1>1
  <2> QED BY <2>1
<1>3. Max(T) \in T
  <2> HIDE DEF T
  <2> QED BY <1>1, <1>2, MaxIs
<1> QED BY <1>3 DEF ItemEnd

\* The item of BuildNACK that begins at i.
ItemAt(l, i) ==
  [id |-> l[i],
   mask |-> {Offset(l[i], l[k]) : k \in i + 1 .. ItemEnd(l, i)} \cap 1 .. MaskBits]

\* Its recursive function, and what that says at i.
ItemsOf(l) ==
  CHOOSE g : g = [i \in 1 .. Len(l) + 1 |->
                    IF i > Len(l) THEN <<>>
                    ELSE LET last == ItemEnd(l, i)
                         IN  <<[id |-> l[i],
                                mask |-> {Offset(l[i], l[k]) : k \in i + 1 .. last}
                                           \cap 1 .. MaskBits]>> \o g[last + 1]]

ItemsFrom(l, g, i) ==
  IF i > Len(l) THEN <<>> ELSE <<ItemAt(l, i)>> \o g[ItemEnd(l, i) + 1]

LEMMA ItemsStep ==
  ASSUME NEW l, Rising(l), NEW b \in 1 .. Len(l) + 1, NEW g,
         \A i \in b + 1 .. Len(l) + 1 : g[i] = ItemsFrom(l, g, i)
  PROVE  \E h : \A i \in b .. Len(l) + 1 : h[i] = ItemsFrom(l, h, i)
<1> DEFINE h == [i \in b .. Len(l) + 1 |-> ItemsFrom(l, g, i)]
<1>1. Len(l) \in Nat
  BY RisingIs
<1>2. ASSUME NEW i \in b + 1 .. Len(l) + 1 PROVE h[i] = g[i]
  BY <1>1
<1>3. ASSUME NEW i \in b .. Len(l) + 1 PROVE h[i] = ItemsFrom(l, h, i)
  <2>1. CASE i > Len(l)
    BY <2>1 DEF ItemsFrom
  <2>2. CASE ~(i > Len(l))
    <3>1. i \in 1 .. Len(l)
      BY <1>1, <2>2
    <3>2. ItemEnd(l, i) + 1 \in b + 1 .. Len(l) + 1
      BY <1>1, <3>1, ItemEnds
    <3>3. h[ItemEnd(l, i) + 1] = g[ItemEnd(l, i) + 1]
      BY <1>2, <3>2
    <3> QED BY <3>3 DEF ItemsFrom
  <2> QED BY <2>1, <2>2
<1> HIDE DEF h
<1> QED BY <1>3

LEMMA ItemsExist ==
  ASSUME NEW l, Rising(l)
  PROVE  \E h : \A i \in 1 .. Len(l) + 1 : h[i] = ItemsFrom(l, h, i)
<1> DEFINE n == Len(l) + 1
           S == {b \in 0 .. n : \E h : \A i \in b + 1 .. n : h[i] = ItemsFrom(l, h, i)}
<1>1. Len(l) \in Nat /\ n \in Nat
  BY RisingIs
<1>2. ASSUME NEW b \in 0 .. n, \A j \in b + 1 .. n : j \in S PROVE b \in S
  <2>1. CASE b = n
    <3>1. \A i \in b + 1 .. n : FALSE
      BY <1>1, <2>1
    <3> QED BY <3>1
  <2>2. CASE b # n
    <3>1. b + 1 \in b + 1 .. n /\ b + 1 \in 1 .. Len(l) + 1
      BY <1>1, <2>2
    <3>2. b + 1 \in S
      BY <1>2, <3>1
    <3>3. PICK g : \A i \in (b + 1) + 1 .. n : g[i] = ItemsFrom(l, g, i)
      BY <3>2
    <3>4. \E h : \A i \in b + 1 .. n : h[i] = ItemsFrom(l, h, i)
      BY <3>1, <3>3, ItemsStep
    <3> QED BY <3>4
  <2> QED BY <2>1, <2>2
<1>3. 0 .. n \subseteq S
  <2> HIDE DEF n, S
  <2> QED BY <1>1, <1>2, Downwards
<1>4. 0 \in S
  BY <1>1, <1>3
<1>5. 0 + 1 = 1
  OBVIOUS
<1> QED BY <1>4, <1>5

LEMMA ItemsAre ==
  ASSUME NEW l, Rising(l)
  PROVE  /\ BuildNACK(l) = ItemsOf(l)[1]
         /\ \A i \in 1 .. Len(l) + 1 : ItemsOf(l)[i] = ItemsFrom(l, ItemsOf(l), i)
<1>1. BuildNACK(l) = ItemsOf(l)[1]
  BY DEF BuildNACK, ItemsOf
<1> DEFINE Says(g) == [i \in 1 .. Len(l) + 1 |-> ItemsFrom(l, g, i)]
<1>2. PICK h : \A i \in 1 .. Len(l) + 1 : h[i] = ItemsFrom(l, h, i)
  BY ItemsExist
<1>3. Len(l) \in Nat
  BY RisingIs
<1> DEFINE f == [i \in 1 .. Len(l) + 1 |-> h[i]]
<1>4. f = Says(f)
  <2>1. ASSUME NEW i \in 1 .. Len(l) + 1 PROVE h[i] = ItemsFrom(l, f, i)
    <3>1. CASE i > Len(l)
      BY <1>2, <3>1 DEF ItemsFrom
    <3>2. CASE ~(i > Len(l))
      <4>1. i \in 1 .. Len(l)
        BY <1>3, <3>2
      <4>2. ItemEnd(l, i) + 1 \in 1 .. Len(l) + 1
        BY <1>3, <4>1, ItemEnds
      <4>3. h[i] = ItemsFrom(l, h, i)
        BY <1>2
      <4>4. f[ItemEnd(l, i) + 1] = h[ItemEnd(l, i) + 1]
        BY <4>2
      <4> HIDE DEF f
      <4> QED BY <4>3, <4>4 DEF ItemsFrom
    <3> QED BY <3>1, <3>2
  <2> QED BY <2>1
<1>5. ItemsOf(l) = CHOOSE g : g = Says(g)
  BY DEF ItemsOf, ItemsFrom, ItemAt
<1>6. ItemsOf(l) = Says(ItemsOf(l))
  <2> HIDE DEF f, Says
  <2> QED BY <1>4, <1>5
<1> QED BY <1>1, <1>6

-----------------------------------------------------------------------------
(* What is taken out of the items. *)

\* HandleNACKItem's recursive function for an item with this first number, and
\* what it says of a mask.
OffsetsOf(id) ==
  CHOOSE g : g = [m \in SUBSET (1 .. MaskBits) |->
                    IF m = {} THEN <<>>
                    ELSE <<(id + Min(m)) % NumberSpace>> \o g[m \ {Min(m)}]]

OffsetsFrom(id, g, m) ==
  IF m = {} THEN <<>> ELSE <<(id + Min(m)) % NumberSpace>> \o g[m \ {Min(m)}]

NumbersOf(item) == <<item.id>> \o OffsetsOf(item.id)[item.mask]

\* And HandleNACK's own.
NumbersUpTo(items) ==
  CHOOSE g : g = [i \in 0 .. Len(items) |->
                    IF i = 0 THEN <<>> ELSE g[i - 1] \o NumbersOf(items[i])]

NumbersFrom(items, g, i) == IF i = 0 THEN <<>> ELSE g[i - 1] \o NumbersOf(items[i])

LEMMA OffsetsStep ==
  ASSUME NEW id, NEW b \in 1 .. MaskBits, NEW g,
         \A m \in SUBSET (b + 1 .. MaskBits) : g[m] = OffsetsFrom(id, g, m)
  PROVE  \E h : \A m \in SUBSET (b .. MaskBits) : h[m] = OffsetsFrom(id, h, m)
<1> DEFINE h == [m \in SUBSET (b .. MaskBits) |-> OffsetsFrom(id, g, m)]
<1>1. ASSUME NEW m \in SUBSET (b + 1 .. MaskBits) PROVE h[m] = g[m]
  <2>1. m \in SUBSET (b .. MaskBits)
    BY DEF MaskBits
  <2> QED BY <2>1
<1>2. ASSUME NEW m \in SUBSET (b .. MaskBits) PROVE h[m] = OffsetsFrom(id, h, m)
  <2>1. CASE m = {}
    BY <2>1 DEF OffsetsFrom
  <2>2. CASE m # {}
    <3>1. m \subseteq Nat
      BY DEF MaskBits
    <3>2. Min(m) \in m /\ \A y \in m : Min(m) <= y
      BY <2>2, <3>1, MinIs
    <3>3. m \ {Min(m)} \in SUBSET (b + 1 .. MaskBits)
      <4> SUFFICES ASSUME NEW y \in m \ {Min(m)} PROVE y \in b + 1 .. MaskBits
        OBVIOUS
      <4>1. /\ y \in b .. MaskBits /\ Min(m) \in b .. MaskBits /\ Min(m) <= y
            /\ y # Min(m)
        BY <3>2
      <4> QED BY <4>1 DEF MaskBits
    <3>4. h[m \ {Min(m)}] = g[m \ {Min(m)}]
      BY <1>1, <3>3
    <3>5. h[m] = OffsetsFrom(id, g, m)
      OBVIOUS
    <3> HIDE DEF h
    <3> QED BY <3>4, <3>5 DEF OffsetsFrom
  <2> QED BY <2>1, <2>2
<1> HIDE DEF h
<1> QED BY <1>2

LEMMA OffsetsAre ==
  ASSUME NEW id
  PROVE  \A m \in SUBSET (1 .. MaskBits) :
           OffsetsOf(id)[m] = OffsetsFrom(id, OffsetsOf(id), m)
<1> DEFINE n == MaskBits
           S == {b \in 0 .. n :
                   \E h : \A m \in SUBSET (b + 1 .. n) : h[m] = OffsetsFrom(id, h, m)}
<1>1. n \in Nat
  BY DEF MaskBits
<1>2. ASSUME NEW b \in 0 .. n, \A j \in b + 1 .. n : j \in S PROVE b \in S
  <2>1. CASE b = n
    <3>1. \A m \in SUBSET (b + 1 .. n) : m = {}
      BY <1>1, <2>1
    <3>2. \A m \in SUBSET (b + 1 .. n) :
            [x \in {{}} |-> <<>>][m] = OffsetsFrom(id, [x \in {{}} |-> <<>>], m)
      BY <3>1 DEF OffsetsFrom
    <3> QED BY <3>2
  <2>2. CASE b # n
    <3>1. b + 1 \in b + 1 .. n /\ b + 1 \in 1 .. n
      BY <1>1, <2>2
    <3>2. b + 1 \in S
      BY <1>2, <3>1
    <3>3. PICK g : \A m \in SUBSET ((b + 1) + 1 .. n) : g[m] = OffsetsFrom(id, g, m)
      BY <3>2
    <3>4. \E h : \A m \in SUBSET (b + 1 .. n) : h[m] = OffsetsFrom(id, h, m)
      BY <3>1, <3>3, OffsetsStep
    <3> QED BY <3>4
  <2> QED BY <2>1, <2>2
<1>3. 0 .. n \subseteq S
  <2> HIDE DEF n, S
  <2> QED BY <1>1, <1>2, Downwards
<1>4. 0 \in S /\ 0 + 1 = 1
  <2>1. 0 \in 0 .. n
    BY <1>1
  <2> HIDE DEF S
  <2> QED BY <1>3, <2>1
<1>5. PICK h : \A m \in SUBSET (1 .. n) : h[m] = OffsetsFrom(id, h, m)
  BY <1>4
<1> DEFINE Says(g) == [m \in SUBSET (1 .. MaskBits) |-> OffsetsFrom(id, g, m)]
           f == [m \in SUBSET (1 .. MaskBits) |-> h[m]]
<1>6. f = Says(f)
  <2>1. ASSUME NEW m \in SUBSET (1 .. MaskBits) PROVE h[m] = OffsetsFrom(id, f, m)
    <3>1. m \ {Min(m)} \in SUBSET (1 .. MaskBits)
      OBVIOUS
    <3>2. f[m \ {Min(m)}] = h[m \ {Min(m)}]
      BY <3>1
    <3>3. h[m] = OffsetsFrom(id, h, m)
      BY <1>5
    <3> HIDE DEF f
    <3> QED BY <3>2, <3>3 DEF OffsetsFrom
  <2> QED BY <2>1
<1>7. OffsetsOf(id) = CHOOSE g : g = Says(g)
  BY DEF OffsetsOf, OffsetsFrom
<1>8. OffsetsOf(id) = Says(OffsetsOf(id))
  <2> HIDE DEF f, Says
  <2> QED BY <1>6, <1>7
<1> QED BY <1>8

LEMMA NumbersStep ==
  ASSUME NEW items, NEW b \in Nat, NEW g,
         \A i \in 0 .. b : g[i] = NumbersFrom(items, g, i)
  PROVE  \E h : \A i \in 0 .. b + 1 : h[i] = NumbersFrom(items, h, i)
<1> DEFINE h == [i \in 0 .. b + 1 |-> NumbersFrom(items, g, i)]
<1>1. ASSUME NEW i \in 0 .. b PROVE h[i] = g[i]
  <2>1. i \in 0 .. b + 1
    OBVIOUS
  <2> QED BY <2>1
<1>2. ASSUME NEW i \in 0 .. b + 1 PROVE h[i] = NumbersFrom(items, h, i)
  <2>1. CASE i = 0
    BY <2>1 DEF NumbersFrom
  <2>2. CASE i # 0
    <3>1. i - 1 \in 0 .. b
      BY <2>2
    <3>2. h[i - 1] = g[i - 1] /\ h[i] = NumbersFrom(items, g, i)
      BY <1>1, <3>1
    <3> HIDE DEF h
    <3> QED BY <3>2 DEF NumbersFrom
  <2> QED BY <2>1, <2>2
<1> HIDE DEF h
<1> QED BY <1>2

LEMMA NumbersAre ==
  ASSUME NEW items, Len(items) \in Nat
  PROVE  /\ HandleNACK(items) = NumbersUpTo(items)[Len(items)]
         /\ \A i \in 0 .. Len(items) :
              NumbersUpTo(items)[i] = NumbersFrom(items, NumbersUpTo(items), i)
<1>1. HandleNACK(items) = NumbersUpTo(items)[Len(items)]
  BY DEF HandleNACK, NumbersUpTo, NumbersOf, OffsetsOf
<1> DEFINE n == Len(items)
           S == {d \in 0 .. n :
                   \E h : \A i \in 0 .. n - d : h[i] = NumbersFrom(items, h, i)}
<1>2. ASSUME NEW d \in 0 .. n, \A j \in d + 1 .. n : j \in S PROVE d \in S
  <2>1. CASE d = n
    <3>1. \A i \in 0 .. n - d : i = 0
      BY <2>1
    <3>2. [x \in {0} |-> <<>>][0] = NumbersFrom(items, [x \in {0} |-> <<>>], 0)
      BY DEF NumbersFrom
    <3>3. \A i \in 0 .. n - d :
            [x \in {0} |-> <<>>][i] = NumbersFrom(items, [x \in {0} |-> <<>>], i)
      BY <3>1, <3>2
    <3> QED BY <3>3
  <2>2. CASE d # n
    <3>1. d + 1 \in d + 1 .. n /\ n - (d + 1) \in Nat /\ (n - (d + 1)) + 1 = n - d
      BY <2>2
    <3>2. d + 1 \in S
      BY <1>2, <3>1
    <3>3. PICK g : \A i \in 0 .. n - (d + 1) : g[i] = NumbersFrom(items, g, i)
      BY <3>2
    <3>4. \E h : \A i \in 0 .. (n - (d + 1)) + 1 : h[i] = NumbersFrom(items, h, i)
      BY <3>1, <3>3, NumbersStep
    <3> QED BY <3>1, <3>4
  <2> QED BY <2>1, <2>2
<1>3. 0 .. n \subseteq S
  <2> HIDE DEF S
  <2> QED BY <1>2, Downwards
<1>4. 0 \in S /\ n - 0 = n
  BY <1>3
<1>5. PICK h : \A i \in 0 .. n : h[i] = NumbersFrom(items, h, i)
  BY <1>4
<1> DEFINE Says(g) == [i \in 0 .. Len(items) |-> NumbersFrom(items, g, i)]
           f == [i \in 0 .. Len(items) |-> h[i]]
<1>6. f = Says(f)
  <2>1. ASSUME NEW i \in 0 .. Len(items) PROVE h[i] = NumbersFrom(items, f, i)
    <3>1. h[i] = NumbersFrom(items, h, i)
      BY <1>5
    <3>2. CASE i = 0
      BY <3>1, <3>2 DEF NumbersFrom
    <3>3. CASE i # 0
      <4>1. i - 1 \in 0 .. Len(items)
        BY <3>3
      <4>2. f[i - 1] = h[i - 1]
        BY <4>1
      <4> HIDE DEF f
      <4> QED BY <3>1, <4>2 DEF NumbersFrom
    <3> QED BY <3>2, <3>3
  <2> QED BY <2>1
<1>7. NumbersUpTo(items) = CHOOSE g : g = Says(g)
  BY DEF NumbersUpTo, NumbersFrom
<1>8. NumbersUpTo(items) = Says(NumbersUpTo(items))
  <2> HIDE DEF f, Says
  <2> QED BY <1>6, <1>7
<1> QED BY <1>1, <1>8

-----------------------------------------------------------------------------
\* What an item says is the part of the list that it was made of.
LEMMA ItemSays ==
  ASSUME NEW l, Rising(l), NEW i \in 1 .. Len(l)
  PROVE  NumbersOf(ItemAt(l, i)) = SubSeq(l, i, ItemEnd(l, i))
<1> DEFINE e == ItemEnd(l, i)
           Mask(a) == {Offset(l[i], l[k]) : k \in a .. e}
           At == OffsetsOf(l[i])
           n == e - i
           S == {d \in 0 .. n : At[Mask(i + 1 + d)] = SubSeq(l, i + 1 + d, e)}
<1>1. Len(l) \in Nat /\ i \in Nat /\ e \in Nat /\ i <= e /\ e <= Len(l) /\ n \in Nat
  <2>1. Len(l) \in Nat /\ e \in i .. Len(l)
    BY RisingIs, ItemEnds
  <2> HIDE DEF e
  <2> QED BY <2>1
<1>2. l \in Seq(Nat) /\ l \in [1 .. Len(l) -> Nat]
  BY RisingIs DEF Rising
<1>3. \A k \in i + 1 .. e : /\ Offset(l[i], l[k]) \in 1 .. MaskBits
                            /\ (l[i] + Offset(l[i], l[k])) % NumberSpace = l[k]
  <2> SUFFICES ASSUME NEW k \in i + 1 .. e
               PROVE  /\ Offset(l[i], l[k]) \in 1 .. MaskBits
                      /\ (l[i] + Offset(l[i], l[k])) % NumberSpace = l[k]
    OBVIOUS
  <2>1. k \in 1 .. Len(l) /\ i < k
    BY <1>1
  <2>2. Within16Away(l[i], l[k])
    BY ItemEnds
  <2>3. /\ Offset(l[i], l[k]) \in Nat \ {0} /\ Offset(l[i], l[k]) <= MaskBits
        /\ (l[i] + Offset(l[i], l[k])) % NumberSpace = l[k]
    BY <2>1, <2>2, RisingIs
  <2>4. \A o \in Nat \ {0} : o <= MaskBits => o \in 1 .. MaskBits
    BY DEF MaskBits
  <2> QED BY <2>3, <2>4
<1>4. \A j, k \in i + 1 .. e : j < k => Offset(l[i], l[j]) < Offset(l[i], l[k])
  <2> SUFFICES ASSUME NEW j \in i + 1 .. e, NEW k \in i + 1 .. e, j < k
               PROVE  Offset(l[i], l[j]) < Offset(l[i], l[k])
    OBVIOUS
  <2>1. j \in 1 .. Len(l) /\ k \in 1 .. Len(l) /\ i < j
    BY <1>1
  <2> QED BY <2>1, RisingIs
<1>5. \A a \in i + 1 .. e + 1 : Mask(a) \in SUBSET (1 .. MaskBits)
  <2> SUFFICES ASSUME NEW a \in i + 1 .. e + 1, NEW k \in a .. e
               PROVE  Offset(l[i], l[k]) \in 1 .. MaskBits
    OBVIOUS
  <2>1. k \in i + 1 .. e
    BY <1>1
  <2> QED BY <1>3, <2>1
<1>6. ASSUME NEW a \in i + 1 .. e
      PROVE  Min(Mask(a)) = Offset(l[i], l[a]) /\ Mask(a) \ {Min(Mask(a))} = Mask(a + 1)
  <2> DEFINE o == Offset(l[i], l[a])
  <2>1. a \in a .. e /\ a \in i + 1 .. e + 1
    BY <1>1
  <2>2. o \in Mask(a) /\ Mask(a) \subseteq Nat
    <3>1. o \in Mask(a)
      BY ONLY <2>1 DEF Mask, o
    <3>2. Mask(a) \in SUBSET (1 .. MaskBits)
      BY <1>5, <2>1
    <3>3. 1 .. MaskBits \subseteq Nat
      BY DEF MaskBits
    <3> HIDE DEF Mask
    <3> QED BY <3>1, <3>2, <3>3
  <2>3. \A k \in a + 1 .. e : k \in i + 1 .. e /\ a < k /\ k \in a .. e
    BY <1>1
  <2>4. \A k \in a + 1 .. e : o < Offset(l[i], l[k])
    BY <1>4, <2>3
  <2>5. \A k \in a .. e : k = a \/ k \in a + 1 .. e
    BY <1>1
  <2>6. Mask(a) = {o} \cup Mask(a + 1)
    BY <2>1, <2>3, <2>5
  <2>7. Mask(a + 1) \subseteq Nat /\ \A y \in Mask(a + 1) : o < y
    BY <2>2, <2>4, <2>6
  <2>8. Min(Mask(a)) \in Mask(a) /\ \A y \in Mask(a) : Min(Mask(a)) <= y
    <3> HIDE DEF Mask
    <3> QED BY <2>2, MinIs
  <2> HIDE DEF o, Mask
  <2>9. Min(Mask(a)) = o
    <3>1. Min(Mask(a)) <= o /\ o \in Nat
      BY <2>2, <2>8
    <3>2. ASSUME Min(Mask(a)) \in Mask(a + 1) PROVE FALSE
      BY <2>7, <3>1, <3>2
    <3> QED BY <2>6, <2>8, <3>2
  <2>10. o \notin Mask(a + 1)
    BY <2>2, <2>7
  <2> QED BY <2>6, <2>9, <2>10 DEF o
<1>7. ASSUME NEW d \in 0 .. n, \A j \in d + 1 .. n : j \in S PROVE d \in S
  <2>1. CASE d = n
    <3>1. i + 1 + d = e + 1 /\ e < i + 1 + d /\ i + 1 + d \in Int
      BY <1>1, <2>1
    <3>2. SubSeq(l, i + 1 + d, e) = <<>>
      BY <1>1, <3>1, SubSeqEmpty
    <3>3. Mask(i + 1 + d) = {}
      <4>1. \A k \in (i + 1 + d) .. e : FALSE
        BY <1>1, <3>1
      <4> QED BY <4>1
    <3>4. At[{}] = <<>>
      BY OffsetsAre DEF OffsetsFrom
    <3> QED BY <3>2, <3>3, <3>4
  <2>2. CASE d # n
    <3> DEFINE a == i + 1 + d
    <3>1. /\ d + 1 \in d + 1 .. n /\ a \in i + 1 .. e /\ i + 1 + (d + 1) = a + 1
          /\ a \in 1 .. Len(l) /\ e \in a .. Len(l) /\ a \in i + 1 .. e + 1 /\ a \in a .. e
      BY <1>1, <2>2
    <3>2. d + 1 \in S
      BY <1>7, <3>1
    <3>3. At[Mask(a + 1)] = SubSeq(l, a + 1, e)
      BY <3>1, <3>2
    <3>4. SubSeq(l, a, e) = <<l[a]>> \o SubSeq(l, a + 1, e)
      <4> HIDE DEF a, e
      <4> QED BY <1>2, <3>1, SubSeqRecursiveFirst
    <3>5. At[Mask(a)] = <<(l[i] + Min(Mask(a))) % NumberSpace>> \o At[Mask(a) \ {Min(Mask(a))}]
      <4>1. Mask(a) \in SUBSET (1 .. MaskBits) /\ Mask(a) # {}
        BY <1>5, <3>1
      <4> HIDE DEF Mask, a
      <4> QED BY <4>1, OffsetsAre DEF OffsetsFrom
    <3>6. (l[i] + Min(Mask(a))) % NumberSpace = l[a]
      BY <1>3, <1>6, <3>1
    <3>7. At[Mask(a)] = <<l[a]>> \o SubSeq(l, a + 1, e)
      BY <1>6, <3>1, <3>3, <3>5, <3>6
    <3> QED BY <3>4, <3>7
  <2> QED BY <2>1, <2>2
<1>8. 0 .. n \subseteq S
  <2> HIDE DEF n, S
  <2> QED BY <1>1, <1>7, Downwards
<1>9. At[Mask(i + 1)] = SubSeq(l, i + 1, e)
  <2>1. 0 \in 0 .. n /\ i + 1 + 0 = i + 1
    BY <1>1
  <2>2. 0 \in S
    BY <1>8, <2>1
  <2> QED BY <2>1, <2>2
<1>10. Mask(i + 1) \cap 1 .. MaskBits = Mask(i + 1)
  BY <1>1, <1>5
<1>11. NumbersOf(ItemAt(l, i)) = <<l[i]>> \o At[Mask(i + 1) \cap 1 .. MaskBits]
  BY DEF NumbersOf, ItemAt
<1>12. SubSeq(l, i, e) = <<l[i]>> \o SubSeq(l, i + 1, e)
  <2>1. i \in 1 .. Len(l) /\ e \in i .. Len(l)
    BY <1>1
  <2> HIDE DEF e
  <2> QED BY <1>2, <2>1, SubSeqRecursiveFirst
<1> QED BY <1>9, <1>10, <1>11, <1>12

ItemRecords == [id : Nat, mask : SUBSET (1 .. MaskBits)]

\* The items of the rest of a list are a list of items.
LEMMA ItemsAreItems ==
  ASSUME NEW l, Rising(l)
  PROVE  \A i \in 1 .. Len(l) + 1 : ItemsOf(l)[i] \in Seq(ItemRecords)
<1> DEFINE n == Len(l)
           S == {d \in 0 .. n : ItemsOf(l)[d + 1] \in Seq(ItemRecords)}
<1>1. n \in Nat /\ l \in [1 .. n -> Nat]
  BY RisingIs
<1>2. ASSUME NEW d \in 0 .. n, \A j \in d + 1 .. n : j \in S PROVE d \in S
  <2>1. d + 1 \in 1 .. n + 1
    BY <1>1
  <2>2. ItemsOf(l)[d + 1] = ItemsFrom(l, ItemsOf(l), d + 1)
    BY <2>1, ItemsAre
  <2>3. CASE d = n
    <3>1. d + 1 > Len(l)
      BY <1>1, <2>3
    <3>2. ItemsOf(l)[d + 1] = <<>>
      BY <2>2, <3>1 DEF ItemsFrom
    <3>3. <<>> \in Seq(ItemRecords)
      OBVIOUS
    <3> QED BY <3>2, <3>3
  <2>4. CASE d # n
    <3> DEFINE i == d + 1
               e == ItemEnd(l, i)
    <3>1. i \in 1 .. n /\ ~(i > Len(l))
      <4>1. \A k \in Nat : \A b \in 0 .. k : b # k => b + 1 \in 1 .. k /\ ~(b + 1 > k)
        OBVIOUS
      <4> HIDE DEF S
      <4> QED BY <1>1, <2>4, <4>1
    <3>2. e \in i .. n
      BY <3>1, ItemEnds
    <3>3. e \in d + 1 .. n
      BY <3>2
    <3>4. ItemsOf(l)[e + 1] \in Seq(ItemRecords)
      BY <1>2, <3>3
    <3>5. ItemAt(l, i) \in ItemRecords
      BY <1>1, <3>1 DEF ItemAt, ItemRecords
    <3>6. ItemsOf(l)[i] = <<ItemAt(l, i)>> \o ItemsOf(l)[e + 1]
      BY <2>2, <3>1 DEF ItemsFrom
    <3>7. <<ItemAt(l, i)>> \in Seq(ItemRecords)
      BY <3>5
    <3>8. ItemsOf(l)[i] \in Seq(ItemRecords)
      <4> HIDE DEF i, e
      <4> QED BY <3>4, <3>6, <3>7, ConcatProperties
    <3> QED BY <3>8, SMTT(40)
  <2> QED BY <2>3, <2>4
<1>3. 0 .. n \subseteq S
  <2> HIDE DEF n, S
  <2> QED BY <1>1, <1>2, Downwards
<1> SUFFICES ASSUME NEW i \in 1 .. n + 1 PROVE ItemsOf(l)[i] \in Seq(ItemRecords)
  OBVIOUS
<1>4. i - 1 \in 0 .. n /\ (i - 1) + 1 = i
  BY <1>1
<1>5. i - 1 \in S
  BY <1>3, <1>4
<1> QED BY <1>4, <1>5

\* What BuildNACK puts into the items of a NACK, HandleNACK takes out again.
LEMMA RoundTrip ==
  ASSUME NEW l, Rising(l)
  PROVE  HandleNACK(BuildNACK(l)) = l
<1> DEFINE n == Len(l)
           I == ItemsOf(l)
           items == I[1]
           m == Len(items)
           A == NumbersUpTo(items)
           Rest(t, s) == /\ m - t = Len(s)
                         /\ \A j \in 1 .. Len(s) : items[t + j] = s[j]
           S == {d \in 0 .. n : \A t \in 0 .. m :
                   Rest(t, I[d + 1]) /\ A[t] = SubSeq(l, 1, d) => A[m] = l}
<1>1. n \in Nat \ {0} /\ l \in Seq(Nat)
  BY RisingIs DEF Rising
<1>2. \A i \in 1 .. n + 1 : I[i] \in Seq(ItemRecords)
  BY ItemsAreItems
<1>3. m \in Nat
  <2>1. 1 \in 1 .. n + 1
    BY <1>1
  <2> HIDE DEF I, n
  <2> QED BY <1>2, <2>1
<1>4. BuildNACK(l) = items
  BY ItemsAre
<1>5. HandleNACK(items) = A[m] /\ \A i \in 0 .. m : A[i] = NumbersFrom(items, A, i)
  <2> HIDE DEF items
  <2> QED BY <1>3, NumbersAre
<1>6. ASSUME NEW d \in 0 .. n, \A j \in d + 1 .. n : j \in S PROVE d \in S
  <2> SUFFICES ASSUME NEW t \in 0 .. m, Rest(t, I[d + 1]), A[t] = SubSeq(l, 1, d)
               PROVE  A[m] = l
    OBVIOUS
  <2>1. d + 1 \in 1 .. n + 1
    BY <1>1
  <2>2. I[d + 1] = ItemsFrom(l, I, d + 1)
    BY <2>1, ItemsAre
  <2>3. CASE d = n
    <3>1. d + 1 > Len(l)
      BY <1>1, <2>3
    <3>2. I[d + 1] = <<>>
      BY <2>2, <3>1 DEF ItemsFrom
    <3>3. m - t = 0
      BY <3>2
    <3>4. t = m
      <4> HIDE DEF m
      <4> QED BY <1>3, <3>3
    <3>5. SubSeq(l, 1, n) = l
      BY <1>1, SubSeqFull
    <3> QED BY <2>3, <3>4, <3>5
  <2>4. CASE d # n
    <3> DEFINE i == d + 1
               e == ItemEnd(l, i)
               s == I[e + 1]
    <3>1. i \in 1 .. n /\ ~(i > Len(l))
      <4>1. \A k \in Nat : \A b \in 0 .. k : b # k => b + 1 \in 1 .. k /\ ~(b + 1 > k)
        OBVIOUS
      <4> HIDE DEF S
      <4> QED BY <1>1, <2>4, <4>1
    <3>2. e \in d + 1 .. n
      BY <3>1, ItemEnds
    <3>3. I[i] = <<ItemAt(l, i)>> \o s
      BY <2>2, <3>1 DEF ItemsFrom
    <3>4. s \in Seq(ItemRecords) /\ I[i] \in Seq(ItemRecords)
      <4>1. \A b \in d + 1 .. n : b + 1 \in 1 .. n + 1
        BY <1>1
      <4>2. e + 1 \in 1 .. n + 1
        BY <3>2, <4>1
      <4> HIDE DEF I, e, n
      <4> QED BY <1>2, <2>1, <4>2
    <3>5. ItemAt(l, i) \in ItemRecords
      <4>1. l[i] \in Nat
        BY <3>1, RisingIs
      <4> QED BY <4>1 DEF ItemAt, ItemRecords
    <3>6. /\ Len(I[i]) = Len(s) + 1 /\ Len(s) \in Nat
          /\ I[i][1] = ItemAt(l, i)
          /\ \A j \in 1 .. Len(s) : I[i][j + 1] = s[j]
      <4> DEFINE u == I[i]
                 x == ItemAt(l, i)
      <4>1. s \in Seq(ItemRecords) /\ x \in ItemRecords /\ u = <<x>> \o s
        BY <3>3, <3>4, <3>5
      <4> SUFFICES /\ Len(u) = Len(s) + 1 /\ Len(s) \in Nat
                   /\ u[1] = x
                   /\ \A j \in 1 .. Len(s) : u[j + 1] = s[j]
        OBVIOUS
      <4> HIDE DEF u, x, s
      <4>2. <<x>> \in Seq(ItemRecords) /\ Len(<<x>>) = 1 /\ <<x>>[1] = x
        BY <4>1
      <4>3. /\ Len(u) = Len(<<x>>) + Len(s)
            /\ \A j \in 1 .. Len(<<x>>) + Len(s) : u[j] =
                  IF j <= Len(<<x>>) THEN <<x>>[j] ELSE s[j - Len(<<x>>)]
        BY <4>1, <4>2, ConcatProperties
      <4>4. Len(s) \in Nat
        BY <4>1
      <4> QED BY <4>2, <4>3, <4>4
    <3>7. /\ m - t = Len(s) + 1 /\ t + 1 \in 0 .. m /\ m - (t + 1) = Len(s)
      <4>1. m - t = Len(s) + 1 /\ Len(s) \in Nat
        BY <3>6
      <4> HIDE DEF m, s
      <4> QED BY <1>3, <4>1
    <3>8. items[t + 1] = ItemAt(l, i) /\ \A j \in 1 .. Len(s) : items[(t + 1) + j] = s[j]
      <4>1. \A j \in 1 .. Len(I[i]) : items[t + j] = I[i][j]
        OBVIOUS
      <4>2. 1 \in 1 .. Len(I[i]) /\ \A j \in 1 .. Len(s) : j + 1 \in 1 .. Len(I[i])
        <5> DEFINE k == Len(s)
        <5>1. Len(I[i]) = k + 1 /\ k \in Nat
          BY <3>6
        <5> HIDE DEF k
        <5> QED BY <5>1 DEF k
      <4>3. \A j \in 1 .. Len(s) : t + (j + 1) = (t + 1) + j
        <5> DEFINE k == Len(s)
        <5>1. k \in Nat /\ t \in Nat
          BY <1>3, <3>6
        <5> HIDE DEF k
        <5> QED BY <5>1 DEF k
      <4> HIDE DEF s, items, I
      <4> QED BY <3>6, <4>1, <4>2, <4>3
    <3>9. A[t + 1] = SubSeq(l, 1, e)
      <4>1. A[t + 1] = A[t] \o NumbersOf(items[t + 1])
        <5>1. A[t + 1] = NumbersFrom(items, A, t + 1) /\ t + 1 # 0 /\ (t + 1) - 1 = t
          <6> HIDE DEF A, items, m
          <6> QED BY <1>3, <1>5, <3>7
        <5> HIDE DEF A
        <5> QED BY <5>1 DEF NumbersFrom
      <4>2. NumbersOf(items[t + 1]) = SubSeq(l, d + 1, e)
        BY <3>1, <3>8, ItemSays
      <4>3. SubSeq(l, 1, d) \o SubSeq(l, d + 1, e) = SubSeq(l, 1, e)
        <5>1. /\ 1 \in 1 .. Len(l) + 1 /\ d \in 1 - 1 .. Len(l) /\ e \in d .. Len(l)
          <6> HIDE DEF e
          <6> QED BY <1>1, <3>2
        <5> HIDE DEF e
        <5> QED BY <1>1, <5>1, ConcatAdjacentSubSeq
      <4> QED BY <4>1, <4>2, <4>3
    <3>10. Rest(t + 1, s)
      BY <3>7, <3>8
    <3>11. e \in S
      BY <1>6, <3>2
    <3> HIDE DEF e, m, A, Rest
    <3> QED BY <3>7, <3>9, <3>10, <3>11
  <2> QED BY <2>3, <2>4
<1>7. 0 .. n \subseteq S
  <2> HIDE DEF n, S
  <2> QED BY <1>1, <1>6, Downwards
<1>8. Rest(0, I[0 + 1]) /\ A[0] = SubSeq(l, 1, 0)
  <2>1. A[0] = <<>>
    <3> HIDE DEF A, m
    <3> QED BY <1>3, <1>5 DEF NumbersFrom
  <2>2. SubSeq(l, 1, 0) = <<>>
    BY SubSeqEmpty
  <2>3. m - 0 = m /\ I[0 + 1] = items
    BY <1>3
  <2>4. \A j \in 1 .. m : 0 + j = j
    BY <1>3
  <2> HIDE DEF A, I
  <2> QED BY <2>1, <2>2, <2>3, <2>4
<1>9. 0 \in S /\ 0 \in 0 .. m
  <2>1. 0 \in 0 .. n /\ 0 \in 0 .. m
    BY <1>1, <1>3
  <2> HIDE DEF S
  <2> QED BY <1>7, <2>1
<1> HIDE DEF A, I, items, m, Rest
<1>10. A[m] = l
  BY <1>8, <1>9
<1> QED BY <1>4, <1>5, <1>10

-----------------------------------------------------------------------------
(* The ring. *)

RingRecords == [seq : Nat, packet : Nat, type : Kinds, resent : Nat]

Holds(e, p) == e.packet = p /\ e.seq = NumberOf(p)

\* The ring r, to be written next at x, holds the list k: behind x what was written
\* last, and from x on what was written in the lap before, if anything was.
RingHolds(r, x, k) ==
  /\ Len(k) <= Capacity /\ (Len(k) < Capacity => x = Len(k))
  /\ \A i \in Slots :
       /\ i < x => Holds(r[i], k[Len(k) - x + i + 1])
       /\ i >= x => IF Len(k) = Capacity THEN Holds(r[i], k[i - x + 1])
                    ELSE r[i].packet = 0 /\ r[i].seq = 0

LEMMA NextSlot ==
  ASSUME NEW x \in Slots
  PROVE  /\ (x + 1) % Capacity = IF x + 1 = Capacity THEN 0 ELSE x + 1
         /\ (x + 1) % Capacity \in Slots
<1>1. Capacity \in Nat \ {0} /\ x \in 0 .. Capacity - 1
  BY ResendAssumption DEF Slots
<1>2. CASE x + 1 = Capacity
  <2>1. Capacity % Capacity = 0
    BY <1>1
  <2> QED BY <1>1, <1>2, <2>1 DEF Slots
<1>3. CASE x + 1 # Capacity
  <2>1. x + 1 \in Nat /\ x + 1 < Capacity
    BY <1>1, <1>3
  <2>2. (x + 1) % Capacity = x + 1
    BY <1>1, <2>1
  <2> QED BY <1>1, <1>3, <2>1, <2>2 DEF Slots
<1> QED BY <1>2, <1>3

LEMMA NumbersOfPackets == \A p \in Nat \ {0} : NumberOf(p) \in Nat
BY ResendAssumption DEF NumberOf, NumberSpace

\* What the list of the last packets is once p was given.
Last(k, p) == LET a == Append(k, p) IN IF Len(a) > Capacity THEN Tail(a) ELSE a

LEMMA LastIs ==
  ASSUME NEW k \in Seq(Nat \ {0}), NEW p \in Nat \ {0}, Len(k) <= Capacity
  PROVE  /\ Last(k, p) \in Seq(Nat \ {0})
         /\ Len(k) < Capacity =>
              /\ Len(Last(k, p)) = Len(k) + 1 /\ Last(k, p)[Len(k) + 1] = p
              /\ \A j \in 1 .. Len(k) : Last(k, p)[j] = k[j]
         /\ Len(k) = Capacity =>
              /\ Len(Last(k, p)) = Len(k) /\ Last(k, p)[Len(k)] = p
              /\ \A j \in 1 .. Len(k) - 1 : Last(k, p)[j] = k[j + 1]
<1> DEFINE a == Append(k, p)
           n == Len(k)
<1>1. /\ a \in Seq(Nat \ {0}) /\ a # <<>> /\ Len(a) = n + 1
      /\ \A i \in 1 .. n : a[i] = k[i]
      /\ a[n + 1] = p
  BY AppendProperties
<1>2. n \in Nat /\ Capacity \in Nat \ {0} /\ n <= Capacity
  BY ResendAssumption
<1>3. Last(k, p) = IF Len(a) > Capacity THEN Tail(a) ELSE a
  BY DEF Last
<1>4. /\ Tail(a) \in Seq(Nat \ {0}) /\ Len(Tail(a)) = Len(a) - 1
      /\ \A i \in 1 .. Len(Tail(a)) : Tail(a)[i] = a[i + 1]
  <2> HIDE DEF a
  <2> QED BY <1>1, HeadTailProperties
<1> HIDE DEF a, n
<1>5. CASE n < Capacity
  <2>1. Last(k, p) = a
    BY <1>1, <1>2, <1>3, <1>5
  <2> QED BY <1>1, <1>2, <1>5, <2>1 DEF n
<1>6. CASE n = Capacity
  <2>1. Last(k, p) = Tail(a)
    BY <1>1, <1>2, <1>3, <1>6
  <2>2. Len(Tail(a)) = n
    BY <1>1, <1>2, <1>4
  <2>3. Tail(a)[n] = p
    BY <1>1, <1>2, <1>4, <1>6, <2>2
  <2>4. \A j \in 1 .. n - 1 : Tail(a)[j] = k[j + 1]
    <3> SUFFICES ASSUME NEW j \in 1 .. n - 1 PROVE Tail(a)[j] = k[j + 1]
      OBVIOUS
    <3>1. j \in 1 .. n /\ j + 1 \in 1 .. n
      BY <1>2
    <3> QED BY <1>1, <1>4, <2>2, <3>1
  <2>5. ~(n < Capacity)
    BY <1>2, <1>6
  <2> QED BY <1>4, <1>6, <2>1, <2>2, <2>3, <2>4, <2>5 DEF n
<1> QED BY <1>2, <1>5, <1>6 DEF n

\* A packet that is put into the ring takes the place of the oldest.
LEMMA PutHolds ==
  ASSUME NEW r \in [Slots -> RingRecords], NEW x \in Slots, NEW k \in Seq(Nat \ {0}),
         RingHolds(r, x, k),
         NEW p \in Nat \ {0}, NEW e, Holds(e, p)
  PROVE  RingHolds([r EXCEPT ![x] = e], (x + 1) % Capacity, Last(k, p))
<1> DEFINE h == [r EXCEPT ![x] = e]
           y == (x + 1) % Capacity
           m == Last(k, p)
           n == Len(k)
           c == Capacity
<1>1. n \in Nat /\ c \in Nat \ {0} /\ n <= c /\ (n < c => x = n)
  BY ResendAssumption DEF RingHolds
<1>2. x \in 0 .. c - 1 /\ y = IF x + 1 = c THEN 0 ELSE x + 1
  BY NextSlot DEF Slots
<1>3. h[x] = e /\ \A i \in Slots : i # x => h[i] = r[i]
  OBVIOUS
<1>4. \A i \in 0 .. c - 1 :
        /\ i < x => Holds(r[i], k[n - x + i + 1])
        /\ i >= x => IF n = c THEN Holds(r[i], k[i - x + 1])
                     ELSE r[i].packet = 0 /\ r[i].seq = 0
  BY DEF RingHolds, Slots
<1>5. Slots = 0 .. c - 1
  BY DEF Slots
<1> HIDE DEF h, y, m, n, c
<1>6. CASE n < c
  <2>1. Len(m) = n + 1 /\ m[n + 1] = p /\ \A j \in 1 .. n : m[j] = k[j]
    BY <1>1, <1>6, LastIs DEF m, n, c
  <2>2. \A i \in 0 .. c - 1 : i < x => Holds(h[i], m[i + 1])
    <3> SUFFICES ASSUME NEW i \in 0 .. c - 1, i < x PROVE Holds(h[i], m[i + 1])
      OBVIOUS
    <3>1. i + 1 \in 1 .. n /\ n - x + i + 1 = i + 1 /\ i # x /\ i \in Slots
      BY <1>1, <1>2, <1>5, <1>6
    <3> QED BY <1>3, <1>4, <2>1, <3>1
  <2>3. Holds(h[x], m[x + 1])
    BY <1>1, <1>3, <1>6, <2>1
  <2>4. \A i \in 0 .. c - 1 : i > x => h[i].packet = 0 /\ h[i].seq = 0
    <3> SUFFICES ASSUME NEW i \in 0 .. c - 1, i > x PROVE h[i].packet = 0 /\ h[i].seq = 0
      OBVIOUS
    <3>1. i # x /\ i >= x /\ i \in Slots /\ n # c
      BY <1>1, <1>2, <1>5, <1>6
    <3> QED BY <1>3, <1>4, <3>1
  <2>5. CASE x + 1 = c
    <3>1. y = 0 /\ Len(m) = c
      BY <1>1, <1>2, <1>6, <2>1, <2>5
    <3>2. \A i \in 0 .. c - 1 : /\ ~(i < y) /\ i - y + 1 = i + 1
                               /\ Holds(h[i], m[i + 1])
      <4> SUFFICES ASSUME NEW i \in 0 .. c - 1
                   PROVE  ~(i < y) /\ i - y + 1 = i + 1 /\ Holds(h[i], m[i + 1])
        OBVIOUS
      <4>1. (i < x \/ i = x) /\ ~(i < y) /\ i - y + 1 = i + 1
        BY <1>1, <1>2, <2>5, <3>1
      <4> QED BY <2>2, <2>3, <4>1
    <3>3. Len(m) <= c /\ ~(Len(m) < c)
      BY <1>1, <3>1
    <3> QED BY <1>5, <3>1, <3>2, <3>3 DEF RingHolds, h, y, m, c
  <2>6. CASE x + 1 # c
    <3>1. y = x + 1 /\ Len(m) = y /\ Len(m) < c /\ Len(m) # c /\ Len(m) <= c
      BY <1>1, <1>2, <1>6, <2>1, <2>6
    <3>2. \A i \in 0 .. c - 1 : i < y => Holds(h[i], m[Len(m) - y + i + 1])
      <4> SUFFICES ASSUME NEW i \in 0 .. c - 1, i < y
                   PROVE  Holds(h[i], m[Len(m) - y + i + 1])
        OBVIOUS
      <4>1. (i < x \/ i = x) /\ Len(m) - y + i + 1 = i + 1
        BY <1>1, <1>2, <3>1
      <4> QED BY <2>2, <2>3, <4>1
    <3>3. \A i \in 0 .. c - 1 : i >= y => h[i].packet = 0 /\ h[i].seq = 0
      BY <1>1, <1>2, <2>4, <3>1
    <3> QED BY <1>5, <3>1, <3>2, <3>3 DEF RingHolds, h, y, m, c
  <2> QED BY <2>5, <2>6
<1>7. CASE n = c
  <2>1. Len(m) = n /\ m[n] = p /\ \A j \in 1 .. n - 1 : m[j] = k[j + 1]
    BY <1>1, <1>7, LastIs DEF m, n, c
  <2>2. \A i \in 0 .. c - 1 : i < x => Holds(h[i], m[c - x + i])
    <3> SUFFICES ASSUME NEW i \in 0 .. c - 1, i < x PROVE Holds(h[i], m[c - x + i])
      OBVIOUS
    <3>1. /\ c - x + i \in 1 .. n - 1 /\ n - x + i + 1 = (c - x + i) + 1
          /\ i # x /\ i \in Slots
      BY <1>1, <1>2, <1>5, <1>7
    <3> QED BY <1>3, <1>4, <2>1, <3>1
  <2>3. Holds(h[x], m[n])
    BY <1>3, <2>1
  <2>4. \A i \in 0 .. c - 1 : i > x => Holds(h[i], m[i - x])
    <3> SUFFICES ASSUME NEW i \in 0 .. c - 1, i > x PROVE Holds(h[i], m[i - x])
      OBVIOUS
    <3>1. i - x \in 1 .. n - 1 /\ i - x + 1 = (i - x) + 1 /\ i # x /\ i >= x /\ i \in Slots
      BY <1>1, <1>2, <1>5, <1>7
    <3> QED BY <1>3, <1>4, <1>7, <2>1, <3>1
  <2>5. CASE x + 1 = c
    <3>1. y = 0 /\ Len(m) = c /\ Len(m) <= c /\ ~(Len(m) < c)
      BY <1>1, <1>2, <1>7, <2>1, <2>5
    <3>2. \A i \in 0 .. c - 1 : ~(i < y) /\ Holds(h[i], m[i - y + 1])
      <4> SUFFICES ASSUME NEW i \in 0 .. c - 1
                   PROVE  ~(i < y) /\ Holds(h[i], m[i - y + 1])
        OBVIOUS
      <4>1. /\ ~(i < y)
            /\ \/ i < x /\ i - y + 1 = c - x + i
               \/ i = x /\ i - y + 1 = n
        BY <1>1, <1>2, <1>7, <2>5, <3>1
      <4> QED BY <2>2, <2>3, <4>1
    <3> QED BY <1>5, <3>1, <3>2 DEF RingHolds, h, y, m, c
  <2>6. CASE x + 1 # c
    <3>1. y = x + 1 /\ Len(m) = c /\ ~(Len(m) < c) /\ Len(m) <= c
      BY <1>1, <1>2, <1>7, <2>1, <2>6
    <3>2. \A i \in 0 .. c - 1 : i < y => Holds(h[i], m[Len(m) - y + i + 1])
      <4> SUFFICES ASSUME NEW i \in 0 .. c - 1, i < y
                   PROVE  Holds(h[i], m[Len(m) - y + i + 1])
        OBVIOUS
      <4>1. \/ i < x /\ Len(m) - y + i + 1 = c - x + i
            \/ i = x /\ Len(m) - y + i + 1 = n
        BY <1>1, <1>2, <1>7, <3>1
      <4> QED BY <2>2, <2>3, <4>1
    <3>3. \A i \in 0 .. c - 1 : i >= y => Holds(h[i], m[i - y + 1])
      <4> SUFFICES ASSUME NEW i \in 0 .. c - 1, i >= y
                   PROVE  Holds(h[i], m[i - y + 1])
        OBVIOUS
      <4>1. i > x /\ i - y + 1 = i - x
        BY <1>1, <1>2, <3>1
      <4> QED BY <2>4, <4>1
    <3> QED BY <1>5, <3>1, <3>2, <3>3 DEF RingHolds, h, y, m, c
  <2> QED BY <2>5, <2>6
<1> QED BY <1>1, <1>6, <1>7

HistoryTypes ==
  /\ store \in BOOLEAN /\ prevIndex \in Slots
  /\ ring \in [Slots -> RingRecords]
  /\ kept \in Seq(Nat \ {0})

HistoryInv ==
  /\ HistoryTypes
  /\ RingHolds(ring, prevIndex, kept)
  /\ ~store => kept = <<>>

\* The slots written are those of the packets kept.
LEMMA Written ==
  ASSUME HistoryInv
  PROVE  /\ \A i \in Slots : ring[i].packet # 0 =>
              /\ Holds(ring[i], ring[i].packet)
              /\ \E j \in DOMAIN kept : kept[j] = ring[i].packet
         /\ \A j \in DOMAIN kept : \E i \in Slots : Holds(ring[i], kept[j])
<1> DEFINE n == Len(kept)
           x == prevIndex
           c == Capacity
<1>1. /\ n \in Nat /\ c \in Nat \ {0} /\ n <= c /\ (n < c => x = n) /\ x \in 0 .. c - 1
      /\ DOMAIN kept = 1 .. n /\ Slots = 0 .. c - 1
  BY ResendAssumption DEF HistoryInv, HistoryTypes, RingHolds, Slots
<1>2. \A i \in 0 .. c - 1 :
        /\ i < x => Holds(ring[i], kept[n - x + i + 1])
        /\ i >= x => IF n = c THEN Holds(ring[i], kept[i - x + 1])
                     ELSE ring[i].packet = 0 /\ ring[i].seq = 0
  BY DEF HistoryInv, RingHolds, Slots
<1> HIDE DEF n, x, c
<1>3. ASSUME NEW i \in 0 .. c - 1, ring[i].packet # 0
      PROVE  \E j \in 1 .. n : Holds(ring[i], kept[j])
  <2>1. CASE i < x
    <3>1. n - x + i + 1 \in 1 .. n
      BY <1>1, <2>1
    <3> QED BY <1>2, <2>1, <3>1
  <2>2. CASE ~(i < x)
    <3>1. i >= x /\ i - x + 1 \in 1 .. c
      BY <1>1, <2>2
    <3> QED BY <1>2, <1>3, <3>1
  <2> QED BY <2>1, <2>2
<1>4. ASSUME NEW j \in 1 .. n PROVE \E i \in 0 .. c - 1 : Holds(ring[i], kept[j])
  <2>1. CASE n < c
    <3>1. j - 1 \in 0 .. c - 1 /\ j - 1 < x /\ n - x + (j - 1) + 1 = j
      BY <1>1, <2>1
    <3> QED BY <1>2, <3>1
  <2>2. CASE n = c /\ j > n - x
    <3> DEFINE i == j - 1 - (n - x)
    <3>1. i \in 0 .. c - 1 /\ i < x /\ n - x + i + 1 = j
      BY <1>1, <2>2
    <3> HIDE DEF i
    <3> QED BY <1>2, <3>1
  <2>3. CASE n = c /\ ~(j > n - x)
    <3> DEFINE i == j - 1 + x
    <3>1. i \in 0 .. c - 1 /\ i >= x /\ i - x + 1 = j
      BY <1>1, <2>3
    <3> HIDE DEF i
    <3> QED BY <1>2, <2>3, <3>1
  <2> QED BY <1>1, <2>1, <2>2, <2>3
<1> QED BY <1>1, <1>3, <1>4, SMTT(30) DEF Holds

\* The guess never meets a slot that was not written, and the search from the first
\* slot on meets none before a slot that was.
LEMMA FoundIsWritten ==
  ASSUME HistoryInv, NEW s \in Nat, NEW q \in Slots,
         ring[q].packet # 0, ring[q].seq = s
  PROVE  \E i \in FindSeqNum(s) : ring[i].packet # 0
<1> DEFINE n == Len(kept)
           x == prevIndex
           c == Capacity
<1>1. /\ n \in Nat /\ c \in Nat \ {0} /\ n <= c /\ (n < c => x = n) /\ x \in 0 .. c - 1
      /\ Slots = 0 .. c - 1 /\ q \in 0 .. c - 1
  BY ResendAssumption DEF HistoryInv, HistoryTypes, RingHolds, Slots
<1>2. \A i \in 0 .. c - 1 :
        /\ i < x => Holds(ring[i], kept[n - x + i + 1])
        /\ i >= x => IF n = c THEN Holds(ring[i], kept[i - x + 1])
                     ELSE ring[i].packet = 0 /\ ring[i].seq = 0
  BY DEF HistoryInv, RingHolds, Slots
<1>3. \A j \in 1 .. n : kept[j] # 0
  BY DEF HistoryInv, HistoryTypes
<1>4. \A i \in 0 .. c - 1 : ring[i].seq \in Nat
  BY <1>1 DEF HistoryInv, HistoryTypes, RingRecords
<1>5. q \in Matches(s) /\ Matches(s) \subseteq Slots
  BY DEF Matches
<1> HIDE DEF n, x, c
<1>6. \A i \in 0 .. c - 1 : i < x \/ n = c => ring[i].packet # 0
  <2> SUFFICES ASSUME NEW i \in 0 .. c - 1, i < x \/ n = c PROVE ring[i].packet # 0
    OBVIOUS
  <2>1. CASE i < x
    <3>1. n - x + i + 1 \in 1 .. n
      BY <1>1, <2>1
    <3> QED BY <1>2, <1>3, <2>1, <3>1 DEF Holds
  <2>2. CASE ~(i < x)
    <3>1. n = c /\ i >= x /\ i - x + 1 \in 1 .. n
      BY <1>1, <2>2
    <3> QED BY <1>2, <1>3, <3>1 DEF Holds
  <2> QED BY <2>1, <2>2
<1>7. n = c \/ q < x
  BY <1>1, <1>2
<1>8. CASE Guess(s) \in Matches(s)
  <2>1. FindSeqNum(s) = {Guess(s)}
    BY <1>8 DEF FindSeqNum
  <2>2. Guess(s) \in 0 .. c - 1 /\ ring[Guess(s)].seq = s
    BY <1>1, <1>8 DEF Matches
  <2>3. CASE n = c
    BY <1>6, <2>1, <2>2, <2>3
  <2>4. CASE n # c
    <3>1. x > 0 /\ Newest = x - 1 /\ x - 1 \in 0 .. c - 1 /\ x - 1 < x
      BY <1>1, <1>7, <2>4 DEF Newest, x
    <3> DEFINE g == (x - 1) - (ring[x - 1].seq - s)
    <3>2. Guess(s) = IF g \in Slots THEN g ELSE x - 1
      BY <3>1 DEF Guess, x
    <3>3. CASE Guess(s) = x - 1
      BY <1>6, <2>1, <3>1, <3>3
    <3>4. CASE Guess(s) = g /\ g \in Slots
      <4>1. ring[x - 1].seq \in Nat
        BY <1>4, <3>1
      <4>2. ASSUME g >= x PROVE FALSE
        <5>1. ring[g].seq = 0
          BY <1>1, <1>2, <2>4, <3>4, <4>2
        <5>2. s = 0
          BY <2>2, <3>4, <5>1
        <5>3. g = (x - 1) - ring[x - 1].seq
          BY <1>1, <4>1, <5>2
        <5> HIDE DEF g
        <5> QED BY <1>1, <4>1, <4>2, <5>3
      <4>3. g \in 0 .. c - 1 /\ g < x
        <5>1. g \in 0 .. c - 1
          BY <1>1, <3>4
        <5> HIDE DEF g
        <5> QED BY <1>1, <4>2, <5>1
      <4> QED BY <1>6, <2>1, <3>4, <4>3
    <3> QED BY <3>2, <3>3, <3>4
  <2> QED BY <2>3, <2>4
<1>9. CASE Guess(s) \notin Matches(s)
  <2> DEFINE m == Min(Matches(s))
  <2>1. Matches(s) \subseteq Nat /\ Matches(s) # {}
    BY <1>1, <1>5
  <2>2. m \in Matches(s) /\ m <= q
    BY <1>5, <2>1, MinIs
  <2>3. FindSeqNum(s) = {m}
    BY <1>5, <1>9 DEF FindSeqNum
  <2>4. m \in 0 .. c - 1
    BY <1>1, <1>5, <2>2
  <2> HIDE DEF m
  <2>5. n = c \/ m < x
    BY <1>1, <1>7, <2>2, <2>4
  <2> QED BY <1>6, <2>3, <2>4, <2>5
<1> QED BY <1>8, <1>9

LEMMA FindIsMatch ==
  ASSUME HistoryInv, NEW s, NEW i \in FindSeqNum(s)
  PROVE  i \in Slots /\ ring[i].seq = s
<1>1. Matches(s) \subseteq Slots /\ Slots \subseteq Nat
  BY ResendAssumption DEF Matches, Slots
<1>2. Matches(s) # {} => Min(Matches(s)) \in Matches(s)
  BY <1>1, MinIs
<1>3. i \in Matches(s)
  BY <1>2 DEF FindSeqNum
<1> QED BY <1>1, <1>3 DEF Matches

LEMMA HistoryRight == HistoryInv => HistoryKeepsLast
<1> SUFFICES ASSUME HistoryInv, NEW p \in Built
             PROVE  LET found == {ring[i].packet : i \in Found(NumberOf(p))}
                        same == {k \in DOMAIN kept : NumberOf(kept[k]) = NumberOf(p)}
                    IN  found \subseteq {kept[k] : k \in same} /\ (found = {} => same = {})
  BY DEF HistoryKeepsLast
<1> DEFINE s == NumberOf(p)
<1>1. s \in Nat
  BY NumbersOfPackets DEF Built
<1>2. \A j \in DOMAIN kept : kept[j] \in Nat \ {0}
  BY DEF HistoryInv, HistoryTypes
<1> HIDE DEF s
<1>3. ASSUME NEW i \in Found(s)
      PROVE  \E k \in DOMAIN kept : NumberOf(kept[k]) = s /\ ring[i].packet = kept[k]
  <2>1. i \in FindSeqNum(s) /\ ring[i].packet # 0
    BY DEF Found
  <2>2. i \in Slots /\ ring[i].seq = s
    BY <2>1, FindIsMatch
  <2> QED BY <2>1, <2>2, Written DEF Holds
<1>4. ASSUME NEW k \in DOMAIN kept, NumberOf(kept[k]) = s PROVE Found(s) # {}
  <2>1. PICK q \in Slots : Holds(ring[q], kept[k])
    BY Written
  <2>2. ring[q].packet # 0 /\ ring[q].seq = s
    BY <1>2, <1>4, <2>1 DEF Holds
  <2>3. PICK i \in FindSeqNum(s) : ring[i].packet # 0
    BY <1>1, <2>2, FoundIsWritten
  <2>4. store
    BY DEF HistoryInv
  <2> QED BY <2>3, <2>4 DEF Found
<1> QED BY <1>3, <1>4 DEF s

-----------------------------------------------------------------------------
(* The steps. *)

Clocked == clock \in Nat /\ built \in Nat

NacksTrue == \A n \in nacks : n.list \in NackLists /\ n.items = BuildNACK(n.list)

Outs == [rtx : BOOLEAN, seq : Nat, osn : Nat]
Answers == [at : {"get", "send", "note", "end"}, list : Seq(Nat), asked : Seq(Nat),
            pos : Nat, bytes : Nat, now : Nat, packet : Nat, out : Outs]

\* What is known of an answer under way.
AnswerTrue(r) ==
  /\ r.list = r.asked
  /\ r.at \in {"send", "note"} => r.packet # 0 /\ NumberOf(r.packet) = r.list[r.pos]
  /\ r.at = "note" => r.out = Resent(r.packet)

RxTrue == \/ rx = IdleRx
          \/ rx \in Answers /\ AnswerTrue(rx)

ResendInv == Clocked /\ HistoryInv /\ NacksTrue /\ RxTrue

LEMMA ResendStart == ResendInit => ResendInv
<1> SUFFICES ASSUME ResendInit PROVE ResendInv
  OBVIOUS
<1>1. Clocked /\ NacksTrue /\ RxTrue
  BY ResendAssumption DEF ResendInit, Clocked, NacksTrue, RxTrue
<1>2. EmptySlot \in RingRecords
  BY DEF EmptySlot, RingRecords, Kinds
<1>3. 0 \in Slots
  BY ResendAssumption DEF Slots
<1>4. HistoryTypes
  BY <1>2, <1>3 DEF ResendInit, HistoryTypes
<1>5. RingHolds(ring, prevIndex, kept)
  <2>1. Len(kept) = 0 /\ prevIndex = 0 /\ Capacity \in Nat \ {0}
    BY ResendAssumption DEF ResendInit
  <2>2. \A i \in Slots : ring[i].packet = 0 /\ ring[i].seq = 0
    BY DEF ResendInit, EmptySlot
  <2>3. \A i \in Slots : ~(i < 0)
    BY <2>1 DEF Slots
  <2> QED BY <2>1, <2>2, <2>3 DEF RingHolds
<1> QED BY <1>1, <1>4, <1>5 DEF ResendInv, HistoryInv, ResendInit

LEMMA SameHolds ==
  ASSUME NEW r, NEW h, NEW x, NEW k, RingHolds(r, x, k),
         \A i \in Slots : h[i].packet = r[i].packet /\ h[i].seq = r[i].seq
  PROVE  RingHolds(h, x, k)
BY DEF RingHolds, Holds

LEMMA PutKeepsHistory ==
  ASSUME Clocked, HistoryInv, NEW type \in Kinds, SendNewPacket(type)
  PROVE  HistoryInv'
<1>1. store' = store /\ PutRTPPacket(type)
  BY DEF SendNewPacket
<1>2. CASE store /\ type # "kDontStore"
  <2> DEFINE p == built + 1
             e == [seq |-> NumberOf(p), packet |-> p, type |-> type, resent |-> 0]
  <2>1. /\ ring' = [ring EXCEPT ![prevIndex] = e]
        /\ prevIndex' = (prevIndex + 1) % Capacity
        /\ kept' = Last(kept, p)
    BY <1>1, <1>2 DEF PutRTPPacket, Last
  <2>2. p \in Nat \ {0}
    BY DEF Clocked
  <2>3. e \in RingRecords /\ Holds(e, p)
    BY <2>2, NumbersOfPackets DEF RingRecords, Holds
  <2> HIDE DEF e, p
  <2>4. /\ ring \in [Slots -> RingRecords] /\ prevIndex \in Slots
        /\ kept \in Seq(Nat \ {0}) /\ RingHolds(ring, prevIndex, kept)
        /\ Len(kept) <= Capacity /\ store \in BOOLEAN
    BY DEF HistoryInv, HistoryTypes, RingHolds
  <2>5. RingHolds(ring', prevIndex', kept')
    BY <2>1, <2>2, <2>3, <2>4, PutHolds
  <2>6. kept' \in Seq(Nat \ {0}) /\ prevIndex' \in Slots
    BY <2>1, <2>2, <2>4, LastIs, NextSlot
  <2>7. ring' \in [Slots -> RingRecords]
    BY <2>1, <2>3, <2>4
  <2> QED BY <1>1, <1>2, <2>4, <2>5, <2>6, <2>7 DEF HistoryInv, HistoryTypes
<1>3. CASE ~(store /\ type # "kDontStore")
  <2>1. UNCHANGED <<ring, prevIndex, kept, store>>
    BY <1>1, <1>3 DEF PutRTPPacket
  <2> QED BY <2>1 DEF HistoryInv, HistoryTypes
<1> QED BY <1>2, <1>3

LEMMA FreeKeepsHistory ==
  ASSUME HistoryInv, Free
  PROVE  HistoryInv'
<1>1. /\ store' = FALSE /\ kept' = <<>> /\ prevIndex' = 0
      /\ ring' = [i \in Slots |-> EmptySlot]
  BY DEF Free
<1>2. EmptySlot \in RingRecords /\ EmptySlot.packet = 0 /\ EmptySlot.seq = 0
  BY DEF EmptySlot, RingRecords, Kinds
<1>3. 0 \in Slots /\ (\A i \in Slots : ~(i < 0)) /\ Capacity \in Nat \ {0}
  BY ResendAssumption DEF Slots
<1>4. RingHolds(ring', 0, <<>>)
  <2>1. \A i \in Slots : ring'[i].packet = 0 /\ ring'[i].seq = 0
    BY <1>1, <1>2
  <2>2. Len(<<>>) = 0
    OBVIOUS
  <2> HIDE DEF Slots
  <2> QED BY <1>3, <2>1, <2>2 DEF RingHolds
<1>5. HistoryTypes'
  BY <1>1, <1>2, <1>3 DEF HistoryTypes
<1> QED BY <1>1, <1>4, <1>5 DEF HistoryInv

LEMMA NoteKeepsHistory ==
  ASSUME Clocked, HistoryInv, UpdateResendTime
  PROVE  HistoryInv'
<1>1. UNCHANGED <<store, prevIndex, kept>>
  BY DEF UpdateResendTime
<1>2. CASE ~store
  BY <1>1, <1>2 DEF UpdateResendTime, HistoryInv, HistoryTypes
<1>3. CASE store
  <2>1. ring' = [i \in Slots |-> IF i \in FindSeqNum(Wanted)
                                 THEN [ring[i] EXCEPT !.resent = clock] ELSE ring[i]]
    BY <1>3 DEF UpdateResendTime
  <2>2. \A i \in Slots : ring[i] \in RingRecords
    BY DEF HistoryInv, HistoryTypes
  <2>3. \A e \in RingRecords : /\ [e EXCEPT !.resent = clock] \in RingRecords
                               /\ [e EXCEPT !.resent = clock].packet = e.packet
                               /\ [e EXCEPT !.resent = clock].seq = e.seq
    BY DEF RingRecords, Clocked
  <2>4. \A i \in Slots : /\ ring'[i] \in RingRecords
                         /\ ring'[i].packet = ring[i].packet /\ ring'[i].seq = ring[i].seq
    BY <2>1, <2>2, <2>3
  <2>5. ring' \in [Slots -> RingRecords]
    BY <2>1, <2>4
  <2>6. RingHolds(ring, prevIndex, kept)
    BY DEF HistoryInv
  <2>7. RingHolds(ring', prevIndex, kept)
    BY <2>4, <2>6, SameHolds
  <2> QED BY <1>1, <2>5, <2>7 DEF HistoryInv, HistoryTypes
<1> QED BY <1>2, <1>3

LEMMA HistoryStep == ResendInv /\ [ResendNext]_resendVars => HistoryInv'
<1> SUFFICES ASSUME ResendInv, [ResendNext]_resendVars PROVE HistoryInv'
  OBVIOUS
<1> USE DEF ResendInv
<1>1. CASE \E type \in Kinds : SendNewPacket(type)
  BY <1>1, PutKeepsHistory
<1>2. CASE Allocate
  BY <1>2 DEF Allocate, HistoryInv, HistoryTypes
<1>3. CASE Free
  BY <1>3, FreeKeepsHistory
<1>4. CASE UpdateResendTime
  BY <1>4, NoteKeepsHistory
<1>5. CASE UNCHANGED <<store, ring, prevIndex, kept>>
  BY <1>5 DEF HistoryInv, HistoryTypes
<1>6. \/ \E list \in NackLists : SendNACK(list)
      \/ \E n \in nacks : OnReceivedNACK(n)
      \/ GetRTPPacket \/ ReSendToNetwork \/ UpdateNACKBitRate \/ Tick
      \/ UNCHANGED resendVars
      => UNCHANGED <<store, ring, prevIndex, kept>>
  BY DEF SendNACK, OnReceivedNACK, GetRTPPacket, ReSendToNetwork, UpdateNACKBitRate, Tick,
         resendVars
<1> QED BY <1>1, <1>2, <1>3, <1>4, <1>5, <1>6 DEF ResendNext

LEMMA NextIsTrue ==
  ASSUME NEW r \in Answers, r.list = r.asked
  PROVE  NextNumber(r) \in Answers /\ AnswerTrue(NextNumber(r))
<1>1. Nothing \in Outs
  BY DEF Nothing, Outs
<1> DEFINE h == NextNumber(r)
<1>2. CASE r.pos = Len(r.list)
  <2>1. h = [r EXCEPT !.at = "end", !.packet = 0, !.out = Nothing]
    BY <1>2 DEF NextNumber
  <2> HIDE DEF h
  <2>2. h \in Answers
    BY <1>1, <2>1 DEF Answers
  <2>3. h.at = "end" /\ h.list = r.list /\ h.asked = r.asked
    BY <2>1 DEF Answers
  <2>4. AnswerTrue(h)
    BY <2>3 DEF AnswerTrue
  <2> QED BY <2>2, <2>4 DEF h
<1>3. CASE r.pos # Len(r.list)
  <2> DEFINE q == r.pos + 1
  <2>1. h = [r EXCEPT !.at = "get", !.pos = q, !.packet = 0, !.out = Nothing]
    BY <1>3 DEF NextNumber
  <2>2. q \in Nat
    BY DEF Answers
  <2> HIDE DEF h, q
  <2>3. h \in Answers
    BY <1>1, <2>1, <2>2 DEF Answers
  <2>4. h.at = "get" /\ h.list = r.list /\ h.asked = r.asked
    BY <2>1 DEF Answers
  <2>5. AnswerTrue(h)
    BY <2>4 DEF AnswerTrue
  <2> QED BY <2>3, <2>5 DEF h
<1> QED BY <1>2, <1>3

LEMMA ResentIs ==
  ASSUME NEW p \in Nat \ {0}
  PROVE  Resent(p) \in Outs /\ Restored(Resent(p)) = NumberOf(p)
<1>1. NumberOf(p) \in Nat
  BY NumbersOfPackets
<1>2. CASE RTX
  BY <1>1, <1>2 DEF Resent, Restored, Outs, RtxNumber
<1>3. CASE ~RTX
  BY <1>1, <1>3 DEF Resent, Restored, Outs, RtxNumber
<1> QED BY <1>2, <1>3

LEMMA AnswerStep == ResendInv /\ [ResendNext]_resendVars => RxTrue'
<1> SUFFICES ASSUME ResendInv, [ResendNext]_resendVars PROVE RxTrue'
  OBVIOUS
<1> USE DEF ResendInv
<1>1. ASSUME NEW n \in nacks, OnReceivedNACK(n) PROVE RxTrue'
  <2>1. Rising(n.list) /\ n.items = BuildNACK(n.list)
    BY ResendAssumption DEF NacksTrue
  <2>2. HandleNACK(n.items) = n.list /\ n.list \in Seq(Nat)
    BY <2>1, RoundTrip DEF Rising
  <2>3. rx' = [at |-> "get", list |-> n.list, asked |-> n.list, pos |-> 1, bytes |-> 0,
               now |-> clock, packet |-> 0, out |-> Nothing]
    BY <1>1, <2>2 DEF OnReceivedNACK
  <2>4. Nothing \in Outs
    BY DEF Nothing, Outs
  <2>5. rx' \in Answers
    BY <2>2, <2>3, <2>4 DEF Answers, Clocked
  <2>6. AnswerTrue(rx')
    BY <2>3 DEF AnswerTrue
  <2> QED BY <2>5, <2>6 DEF RxTrue
<1>2. ASSUME rx.at # "idle" PROVE rx \in Answers /\ AnswerTrue(rx)
  BY <1>2 DEF RxTrue, IdleRx
<1>3. CASE GetRTPPacket
  <2>1. rx \in Answers /\ rx.list = rx.asked /\ rx.at = "get"
    BY <1>2, <1>3 DEF GetRTPPacket, AnswerTrue
  <2>2. CASE \E i \in Found(Wanted) : ~Skipped(i)
    <3> DEFINE i == CHOOSE j \in Found(Wanted) : TRUE
               p == ring[i].packet
    <3>1. i \in Found(Wanted)
      BY <2>2
    <3>2. rx' = [rx EXCEPT !.at = "send", !.packet = p]
      BY <1>3, <2>2 DEF GetRTPPacket
    <3> HIDE DEF i
    <3>3. i \in FindSeqNum(Wanted) /\ p # 0
      BY <3>1 DEF Found
    <3>4. i \in Slots /\ ring[i].seq = Wanted
      BY <3>3, FindIsMatch
    <3>5. p \in Nat /\ NumberOf(p) = Wanted
      BY <3>3, <3>4, Written DEF Holds, HistoryInv, HistoryTypes, RingRecords
    <3> HIDE DEF p
    <3>6. rx' \in Answers
      BY <2>1, <3>2, <3>5 DEF Answers
    <3>7. /\ rx'.list = rx.list /\ rx'.asked = rx.asked /\ rx'.pos = rx.pos
          /\ rx'.at = "send" /\ rx'.packet = p
      BY <2>1, <3>2 DEF Answers
    <3>8. AnswerTrue(rx')
      BY <2>1, <3>3, <3>5, <3>7 DEF AnswerTrue, Wanted
    <3> QED BY <3>6, <3>8 DEF RxTrue
  <2>3. CASE ~(\E i \in Found(Wanted) : ~Skipped(i))
    <3>1. rx' = NextNumber(rx)
      BY <1>3, <2>3 DEF GetRTPPacket
    <3> QED BY <2>1, <3>1, NextIsTrue DEF RxTrue
  <2> QED BY <2>2, <2>3
<1>4. CASE ReSendToNetwork
  <2>1. rx \in Answers /\ rx.list = rx.asked /\ rx.at = "send" /\ rx.packet # 0
        /\ NumberOf(rx.packet) = rx.list[rx.pos]
    BY <1>2, <1>4 DEF ReSendToNetwork, AnswerTrue
  <2>2. Resent(rx.packet) \in Outs
    BY <2>1, ResentIs DEF Answers
  <2>3. CASE rx' = [rx EXCEPT !.at = "note", !.out = Resent(rx.packet)]
    <3> DEFINE o == Resent(rx.packet)
    <3>1. o \in Outs /\ rx' = [rx EXCEPT !.at = "note", !.out = o]
      BY <2>2, <2>3
    <3> HIDE DEF o
    <3>2. rx' \in Answers
      BY <2>1, <3>1 DEF Answers
    <3>3. /\ rx'.list = rx.list /\ rx'.asked = rx.asked /\ rx'.pos = rx.pos
          /\ rx'.at = "note" /\ rx'.packet = rx.packet /\ rx'.out = o
      BY <2>1, <3>1 DEF Answers
    <3>4. AnswerTrue(rx')
      BY <2>1, <3>3 DEF AnswerTrue, o
    <3> QED BY <3>2, <3>4 DEF RxTrue
  <2>4. CASE rx' = [rx EXCEPT !.at = "end", !.packet = 0]
    <3>1. rx' \in Answers
      BY <2>1, <2>4 DEF Answers
    <3>2. AnswerTrue(rx')
      BY <2>1, <2>4 DEF Answers, AnswerTrue
    <3> QED BY <3>1, <3>2 DEF RxTrue
  <2> QED BY <1>4, <2>3, <2>4 DEF ReSendToNetwork
<1>5. CASE UpdateResendTime
  <2>1. rx \in Answers /\ rx.list = rx.asked
    BY <1>2, <1>5 DEF UpdateResendTime, AnswerTrue
  <2> DEFINE b == rx.bytes + PacketBytes
  <2>2. b \in Nat
    BY <2>1, ResendAssumption DEF Answers
  <2>3. \/ rx' = [rx EXCEPT !.at = "end", !.bytes = b, !.packet = 0, !.out = Nothing]
        \/ rx' = NextNumber([rx EXCEPT !.bytes = b])
    BY <1>5 DEF UpdateResendTime
  <2>4. Nothing \in Outs
    BY DEF Nothing, Outs
  <2> HIDE DEF b
  <2>5. CASE rx' = [rx EXCEPT !.at = "end", !.bytes = b, !.packet = 0, !.out = Nothing]
    <3>1. rx' \in Answers
      BY <2>1, <2>2, <2>4, <2>5 DEF Answers
    <3>2. AnswerTrue(rx')
      BY <2>1, <2>5 DEF Answers, AnswerTrue
    <3> QED BY <3>1, <3>2 DEF RxTrue
  <2>6. CASE rx' = NextNumber([rx EXCEPT !.bytes = b])
    <3> DEFINE r == [rx EXCEPT !.bytes = b]
    <3>1. r \in Answers /\ r.list = r.asked
      BY <2>1, <2>2 DEF Answers
    <3> HIDE DEF r
    <3>2. NextNumber(r) \in Answers /\ AnswerTrue(NextNumber(r))
      BY <3>1, NextIsTrue
    <3> QED BY <2>6, <3>2 DEF RxTrue, r
  <2> QED BY <2>3, <2>5, <2>6
<1>6. CASE UpdateNACKBitRate
  BY <1>6 DEF UpdateNACKBitRate, RxTrue
<1>7. CASE rx' = rx
  <2> QED BY <1>7 DEF RxTrue
<1>8. \/ \E type \in Kinds : SendNewPacket(type)
      \/ Allocate \/ Free
      \/ \E list \in NackLists : SendNACK(list)
      \/ Tick
      \/ UNCHANGED resendVars
      => rx' = rx
  BY DEF SendNACK, SendNewPacket, Allocate, Free, Tick, resendVars
<1> QED BY <1>1, <1>3, <1>4, <1>5, <1>6, <1>7, <1>8 DEF ResendNext

LEMMA NacksStep == ResendInv /\ [ResendNext]_resendVars => Clocked' /\ NacksTrue'
<1> SUFFICES ASSUME ResendInv, [ResendNext]_resendVars PROVE Clocked' /\ NacksTrue'
  OBVIOUS
<1> USE DEF ResendInv
<1>1. Clocked'
  <2>1. clock' = clock \/ clock' = clock + Step
    BY DEF ResendNext, SendNewPacket, Allocate, Free, SendNACK, OnReceivedNACK, GetRTPPacket,
           ReSendToNetwork, UpdateResendTime, UpdateNACKBitRate, Tick, resendVars
  <2>2. built' = built \/ built' = built + 1
    BY DEF ResendNext, SendNewPacket, Allocate, Free, SendNACK, OnReceivedNACK, GetRTPPacket,
           ReSendToNetwork, UpdateResendTime, UpdateNACKBitRate, Tick, resendVars
  <2> QED BY <2>1, <2>2, ResendAssumption DEF Clocked
<1>2. CASE \E list \in NackLists : SendNACK(list)
  <2>1. PICK list \in NackLists : SendNACK(list)
    BY <1>2
  <2> DEFINE n == [list |-> list, items |-> BuildNACK(list), id |-> Cardinality(nacks)]
  <2>2. nacks' = nacks \cup {n}
    BY <2>1 DEF SendNACK
  <2>3. n.list \in NackLists /\ n.items = BuildNACK(n.list)
    OBVIOUS
  <2> HIDE DEF n
  <2> QED BY <1>1, <2>2, <2>3 DEF NacksTrue
<1>3. CASE nacks' = nacks
  BY <1>1, <1>3 DEF NacksTrue
<1>4. (\E list \in NackLists : SendNACK(list)) \/ nacks' = nacks
  BY DEF ResendNext, SendNewPacket, Allocate, Free, OnReceivedNACK, GetRTPPacket,
         ReSendToNetwork, UpdateResendTime, UpdateNACKBitRate, Tick, resendVars
<1> QED BY <1>2, <1>3, <1>4

LEMMA AnswersAre == ResendInv => ResentIsAsked
<1> SUFFICES ASSUME ResendInv PROVE ResentIsAsked
  OBVIOUS
<1>1. CASE rx = IdleRx
  BY <1>1 DEF ResentIsAsked, IdleRx
<1>2. CASE rx \in Answers /\ AnswerTrue(rx)
  <2>1. rx.packet \in Nat
    BY <1>2 DEF Answers
  <2>2. rx.at = "note" => Restored(rx.out) = NumberOf(rx.packet)
    BY <1>2, <2>1, ResentIs DEF AnswerTrue
  <2> QED BY <1>2, <2>2 DEF ResentIsAsked, AnswerTrue, Wanted
<1> QED BY <1>1, <1>2 DEF ResendInv, RxTrue

\* For every size of the ring, first number, round trip, and lists of missing numbers
\* that rise within the span that the comparison can tell: a look-up finds what was
\* sent under a number while the ring holds it and nothing else, a NACK's items give
\* back the list they were made of, and what is sent again has the number asked for.
THEOREM AnswersAreRight == ResendSpec => []AnswersRight
<1>1. ResendSpec => []ResendInv
  <2>1. ResendInv /\ [ResendNext]_resendVars => ResendInv'
    BY HistoryStep, AnswerStep, NacksStep DEF ResendInv
  <2> QED BY <2>1, ResendStart, PTL DEF ResendSpec
<1>2. ResendInv => AnswersRight
  BY HistoryRight, AnswersAre DEF ResendInv, AnswersRight
<1> QED BY <1>1, <1>2, PTL

-----------------------------------------------------------------------------
(* How often a packet is sent again. *)

\* No two packets that the ring holds have the same number.  The packets that are not
\* stored have numbers too, so that the size of the ring alone does not say this.
NumbersDiffer ==
  \A i, j \in DOMAIN kept : NumberOf(kept[i]) = NumberOf(kept[j]) => i = j

LogTrue ==
  /\ \A a \in log : a.packet \in Nat \ {0} /\ a.packet <= built
                    /\ a.time \in Nat /\ a.time <= clock
  /\ \A j \in DOMAIN kept : kept[j] <= built
  /\ rx.at \in {"send", "note"} => rx.packet <= built

\* The ring knows when a packet was sent last, but between the sending and the note.
NotedInRing ==
  \A a \in log : \A i \in Slots :
    ring[i].packet = a.packet => \/ a.time <= ring[i].resent
                                 \/ rx.at = "note" /\ rx.packet = a.packet

SendIsDue ==
  rx.at = "send" =>
    \A a \in log : a.packet = rx.packet => clock - a.time >= MinResend

SpacedInv == ResendInv /\ LogTrue /\ NotedInRing /\ SendIsDue /\ SpacedByRtt

LEMMA SlotsDiffer ==
  ASSUME HistoryInv, NumbersDiffer, NEW i \in Slots, NEW j \in Slots,
         ring[i].packet # 0, ring[j].packet # 0, ring[i].seq = ring[j].seq
  PROVE  i = j
<1> DEFINE n == Len(kept)
           x == prevIndex
           c == Capacity
           Place(k) == IF k < x THEN n - x + k + 1 ELSE k - x + 1
<1>1. /\ n \in Nat /\ c \in Nat \ {0} /\ n <= c /\ (n < c => x = n) /\ x \in 0 .. c - 1
      /\ Slots = 0 .. c - 1 /\ DOMAIN kept = 1 .. n
  BY ResendAssumption DEF HistoryInv, HistoryTypes, RingHolds, Slots
<1>2. \A k \in 0 .. c - 1 :
        /\ k < x => Holds(ring[k], kept[n - x + k + 1])
        /\ k >= x => IF n = c THEN Holds(ring[k], kept[k - x + 1])
                     ELSE ring[k].packet = 0 /\ ring[k].seq = 0
  BY DEF HistoryInv, RingHolds, Slots
<1> HIDE DEF n, x, c
<1>3. ASSUME NEW k \in 0 .. c - 1, ring[k].packet # 0
      PROVE  /\ Place(k) \in 1 .. n /\ Holds(ring[k], kept[Place(k)])
             /\ k < x \/ n = c
  <2>1. CASE k < x
    <3>1. n - x + k + 1 \in 1 .. n
      BY <1>1, <2>1
    <3> QED BY <1>2, <2>1, <3>1
  <2>2. CASE ~(k < x)
    <3>1. k >= x /\ k - x + 1 \in 1 .. c
      BY <1>1, <2>2
    <3>2. n = c
      BY <1>2, <1>3, <3>1
    <3> QED BY <1>2, <2>2, <3>1, <3>2
  <2> QED BY <2>1, <2>2
<1>4. i \in 0 .. c - 1 /\ j \in 0 .. c - 1
  BY <1>1
<1>5. NumberOf(kept[Place(i)]) = NumberOf(kept[Place(j)])
  BY <1>3, <1>4 DEF Holds
<1>6. Place(i) = Place(j)
  <2>1. Place(i) \in DOMAIN kept /\ Place(j) \in DOMAIN kept
    BY <1>1, <1>3, <1>4
  <2> HIDE DEF Place
  <2> QED BY <1>5, <2>1 DEF NumbersDiffer
<1>7. (i < x \/ n = c) /\ (j < x \/ n = c)
  BY <1>3, <1>4
<1> QED BY <1>1, <1>4, <1>6, <1>7

LEMMA SpacedStart == ResendInit => SpacedInv
<1> SUFFICES ASSUME ResendInit PROVE SpacedInv
  OBVIOUS
<1>1. log = {} /\ kept = <<>> /\ rx.at = "idle"
  BY DEF ResendInit, IdleRx
<1> QED BY <1>1, ResendStart DEF SpacedInv, LogTrue, NotedInRing, SendIsDue, SpacedByRtt

\* Where the log stays, so do the times in it.
LEMMA ClockGoesOn == ResendInv /\ [ResendNext]_resendVars =>
                       /\ clock \in Nat /\ clock' \in Nat /\ clock <= clock'
                       /\ built \in Nat /\ built' \in Nat /\ built <= built'
<1> SUFFICES ASSUME ResendInv, [ResendNext]_resendVars
             PROVE  /\ clock \in Nat /\ clock' \in Nat /\ clock <= clock'
                    /\ built \in Nat /\ built' \in Nat /\ built <= built'
  OBVIOUS
<1>1. clock \in Nat /\ built \in Nat
  BY DEF ResendInv, Clocked
<1>2. clock' = clock \/ clock' = clock + Step
  BY DEF ResendNext, SendNewPacket, Allocate, Free, SendNACK, OnReceivedNACK, GetRTPPacket,
         ReSendToNetwork, UpdateResendTime, UpdateNACKBitRate, Tick, resendVars
<1>3. built' = built \/ built' = built + 1
  BY DEF ResendNext, SendNewPacket, Allocate, Free, SendNACK, OnReceivedNACK, GetRTPPacket,
         ReSendToNetwork, UpdateResendTime, UpdateNACKBitRate, Tick, resendVars
<1> QED BY <1>1, <1>2, <1>3, ResendAssumption

LEMMA MinResendIsNat == MinResend \in Nat
BY ResendAssumption DEF MinResend

\* A packet given to the ring has not been sent again yet.
LEMMA SpacedPut ==
  ASSUME SpacedInv, NEW type \in Kinds, SendNewPacket(type)
  PROVE  LogTrue' /\ NotedInRing'
<1>1. /\ built' = built + 1 /\ PutRTPPacket(type)
      /\ UNCHANGED <<clock, rx, log>> /\ built \in Nat
  BY DEF SendNewPacket, SpacedInv, ResendInv, Clocked
<1>2. \A a \in log : a.packet \in Nat /\ a.packet <= built
  BY DEF SpacedInv, LogTrue
<1>3. CASE store /\ type # "kDontStore"
  <2> DEFINE p == built + 1
             e == [seq |-> NumberOf(p), packet |-> p, type |-> type, resent |-> 0]
  <2>1. ring' = [ring EXCEPT ![prevIndex] = e] /\ kept' = Last(kept, p)
    BY <1>1, <1>3 DEF PutRTPPacket, Last
  <2>2. p \in Nat \ {0} /\ e.packet = p /\ built' = p
    BY <1>1
  <2> HIDE DEF e
  <2>3. /\ ring \in [Slots -> RingRecords] /\ kept \in Seq(Nat \ {0})
        /\ Len(kept) <= Capacity
    BY DEF SpacedInv, ResendInv, HistoryInv, HistoryTypes, RingHolds
  <2>4. \A j \in DOMAIN kept' : kept'[j] <= p
    <3> DEFINE k == kept
               m == Last(kept, p)
    <3>1. Len(k) \in Nat /\ Capacity \in Nat
      BY <2>3, ResendAssumption
    <3>2. \A j \in 1 .. Len(k) : k[j] \in Nat /\ k[j] <= p
      <4>1. \A j \in 1 .. Len(k) : k[j] \in Nat /\ k[j] <= built
        BY <2>3 DEF SpacedInv, LogTrue
      <4> QED BY <1>1, <4>1
    <3>3. m \in Seq(Nat \ {0})
      BY <2>2, <2>3, LastIs
    <3>4. CASE Len(k) < Capacity
      <4>1. /\ Len(m) = Len(k) + 1 /\ m[Len(k) + 1] = p
            /\ \A j \in 1 .. Len(k) : m[j] = k[j]
        BY <2>2, <2>3, <3>4, LastIs
      <4>2. DOMAIN m = 1 .. Len(k) + 1
        BY <3>3, <4>1
      <4> HIDE DEF m, k
      <4>3. ASSUME NEW j \in 1 .. Len(k) + 1 PROVE m[j] <= p
        <5>1. j \in 1 .. Len(k) \/ j = Len(k) + 1
          BY <3>1
        <5> QED BY <2>2, <3>2, <4>1, <5>1
      <4> QED BY <2>1, <4>2, <4>3 DEF m, k
    <3>5. CASE Len(k) = Capacity
      <4>1. /\ Len(m) = Len(k) /\ m[Len(k)] = p
            /\ \A j \in 1 .. Len(k) - 1 : m[j] = k[j + 1]
        BY <2>2, <2>3, <3>5, LastIs
      <4>2. DOMAIN m = 1 .. Len(k)
        BY <3>3, <4>1
      <4> HIDE DEF m, k
      <4>3. ASSUME NEW j \in 1 .. Len(k) PROVE m[j] <= p
        <5>1. \/ j \in 1 .. Len(k) - 1 /\ j + 1 \in 1 .. Len(k)
              \/ j = Len(k)
          BY <3>1
        <5> QED BY <2>2, <3>2, <4>1, <5>1
      <4> QED BY <2>1, <4>2, <4>3 DEF m, k
    <3> QED BY <2>3, <3>1, <3>4, <3>5
  <2>5. LogTrue'
    <3>1. \A a \in log : a.packet <= p
      BY <1>1, <1>2
    <3>2. rx.at \in {"send", "note"} => rx.packet \in Nat /\ rx.packet <= built
      BY DEF SpacedInv, LogTrue, ResendInv, RxTrue, IdleRx, Answers
    <3>3. rx.at \in {"send", "note"} => rx.packet <= p
      BY <1>1, <3>2
    <3> HIDE DEF p
    <3> QED BY <1>1, <2>2, <2>4, <3>1, <3>3 DEF SpacedInv, LogTrue
  <2>6. ASSUME NEW a \in log, NEW i \in Slots, ring'[i].packet = a.packet
        PROVE  ring'[i] = ring[i]
    <3>1. a.packet # p
      BY <1>1, <1>2
    <3> QED BY <2>1, <2>2, <2>3, <2>6, <3>1
  <2>7. NotedInRing'
    BY <1>1, <2>6 DEF SpacedInv, NotedInRing
  <2> QED BY <2>5, <2>7
<1>4. CASE ~(store /\ type # "kDontStore")
  <2>1. UNCHANGED <<ring, kept>>
    BY <1>1, <1>4 DEF PutRTPPacket
  <2>2. NotedInRing'
    BY <1>1, <2>1 DEF SpacedInv, NotedInRing
  <2>3. \A a \in log : a.packet <= built + 1
    BY <1>1, <1>2
  <2>4. \A j \in DOMAIN kept : kept[j] <= built + 1
    <3>1. \A j \in DOMAIN kept : kept[j] \in Nat /\ kept[j] <= built
      BY DEF SpacedInv, LogTrue, ResendInv, HistoryInv, HistoryTypes
    <3> QED BY <1>1, <3>1
  <2>5. rx.at \in {"send", "note"} => rx.packet <= built + 1
    <3>1. rx.at \in {"send", "note"} => rx.packet \in Nat /\ rx.packet <= built
      BY DEF SpacedInv, LogTrue, ResendInv, RxTrue, IdleRx, Answers
    <3> QED BY <1>1, <3>1
  <2>6. LogTrue'
    BY <1>1, <2>1, <2>3, <2>4, <2>5 DEF SpacedInv, LogTrue
  <2> QED BY <2>2, <2>6
<1> QED BY <1>3, <1>4

\* What is found is due, and goes by the same number into the log.
LEMMA SpacedGet ==
  ASSUME SpacedInv, GetRTPPacket
  PROVE  LogTrue' /\ NotedInRing' /\ SendIsDue'
<1>1. rx.at = "get" /\ UNCHANGED <<clock, built, ring, kept, log>>
  BY DEF GetRTPPacket
<1>2. rx \in Answers
  BY <1>1 DEF SpacedInv, ResendInv, RxTrue, IdleRx
<1>3. NotedInRing'
  BY <1>1 DEF SpacedInv, NotedInRing
<1>4. CASE \E i \in Found(Wanted) : ~Skipped(i)
  <2> DEFINE i == CHOOSE j \in Found(Wanted) : TRUE
             p == ring[i].packet
  <2>1. i \in Found(Wanted)
    BY <1>4
  <2>2. rx' = [rx EXCEPT !.at = "send", !.packet = p]
    BY <1>4 DEF GetRTPPacket
  <2>3. ~Skipped(i)
    <3>1. \A j \in Found(Wanted) : j = i
      <4>1. \A j, k \in FindSeqNum(Wanted) : j = k
        BY DEF FindSeqNum
      <4> QED BY <2>1, <4>1 DEF Found
    <3> QED BY <1>4, <3>1
  <2> HIDE DEF i
  <2>4. i \in Slots /\ p # 0
    BY <2>1, FindIsMatch DEF Found, SpacedInv, ResendInv
  <2>5. ring[i] \in RingRecords
    BY <2>4 DEF SpacedInv, ResendInv, HistoryInv, HistoryTypes
  <2>6. p <= built
    BY <2>4, Written DEF SpacedInv, ResendInv, LogTrue
  <2>7. \A a \in log : a.packet = p => clock - a.time >= MinResend
    <3> SUFFICES ASSUME NEW a \in log, a.packet = p PROVE clock - a.time >= MinResend
      OBVIOUS
    <3>1. a.time <= ring[i].resent
      BY <1>1, <2>4 DEF SpacedInv, NotedInRing
    <3>2. ~(clock - ring[i].resent < MinResend)
      BY <2>3 DEF Skipped
    <3>3. a.time \in Nat /\ clock \in Nat /\ ring[i].resent \in Nat
      BY <2>5 DEF SpacedInv, LogTrue, ResendInv, Clocked, RingRecords
    <3> QED BY <3>1, <3>2, <3>3, MinResendIsNat
  <2> HIDE DEF p
  <2>8. rx'.at = "send" /\ rx'.packet = p
    BY <1>2, <2>2 DEF Answers
  <2>9. LogTrue'
    BY <1>1, <2>6, <2>8 DEF SpacedInv, LogTrue
  <2>10. SendIsDue'
    BY <1>1, <2>7, <2>8 DEF SendIsDue, MinResend
  <2> QED BY <1>3, <2>9, <2>10
<1>5. CASE ~(\E i \in Found(Wanted) : ~Skipped(i))
  <2>1. rx' = NextNumber(rx)
    BY <1>5 DEF GetRTPPacket
  <2>2. rx'.at \in {"get", "end"}
    BY <1>2, <2>1 DEF NextNumber, Answers
  <2> QED BY <1>1, <1>3, <2>2 DEF SpacedInv, LogTrue, SendIsDue
<1> QED BY <1>4, <1>5

LEMMA SpacedSend ==
  ASSUME SpacedInv, ReSendToNetwork
  PROVE  LogTrue' /\ NotedInRing' /\ SendIsDue' /\ SpacedByRtt'
<1>1. rx.at = "send" /\ UNCHANGED <<clock, built, ring, kept>>
  BY DEF ReSendToNetwork
<1>2. rx \in Answers /\ rx.packet \in Nat \ {0} /\ rx.packet <= built /\ clock \in Nat
  BY <1>1 DEF SpacedInv, ResendInv, RxTrue, IdleRx, Answers, AnswerTrue, LogTrue, Clocked
<1>3. \A a \in log : a.packet = rx.packet => clock - a.time >= MinResend
  BY <1>1 DEF SpacedInv, SendIsDue
<1>4. CASE /\ log' = log \cup {[time |-> clock, packet |-> rx.packet]}
           /\ rx' = [rx EXCEPT !.at = "note", !.out = Resent(rx.packet)]
  <2> DEFINE b == [time |-> clock, packet |-> rx.packet]
  <2>1. log' = log \cup {b} /\ b.time = clock /\ b.packet = rx.packet
    BY <1>4
  <2>2. rx'.at = "note" /\ rx'.packet = rx.packet
    BY <1>2, <1>4 DEF Answers
  <2> HIDE DEF b
  <2>3. LogTrue'
    <3>1. \A a \in log' : a.packet \in Nat \ {0} /\ a.packet <= built
                          /\ a.time \in Nat /\ a.time <= clock
      BY <1>2, <2>1 DEF SpacedInv, LogTrue
    <3> QED BY <1>1, <1>2, <2>2, <3>1 DEF SpacedInv, LogTrue
  <2>4. NotedInRing'
    <3> SUFFICES ASSUME NEW a \in log', NEW i \in Slots, ring[i].packet = a.packet
                 PROVE  \/ a.time <= ring[i].resent
                        \/ rx'.at = "note" /\ rx'.packet = a.packet
      BY <1>1 DEF NotedInRing
    <3>1. CASE a = b
      BY <2>1, <2>2, <3>1
    <3>2. CASE a \in log
      BY <1>1, <3>2 DEF SpacedInv, NotedInRing
    <3> QED BY <2>1, <3>1, <3>2
  <2>5. SpacedByRtt'
    <3> SUFFICES ASSUME NEW a \in log', NEW d \in log', a.packet = d.packet, a.time < d.time
                 PROVE  d.time - a.time >= MinResend
      BY DEF SpacedByRtt, MinResend
    <3>1. CASE a \in log /\ d \in log
      BY <3>1 DEF SpacedInv, SpacedByRtt
    <3>2. CASE a \in log /\ d = b
      BY <1>3, <2>1, <3>2
    <3>3. CASE a = b /\ d \in log
      <4>1. d.time <= clock /\ d.time \in Nat
        BY <3>3 DEF SpacedInv, LogTrue
      <4> QED BY <1>2, <2>1, <3>3, <4>1
    <3>4. CASE a = b /\ d = b
      BY <1>2, <2>1, <3>4
    <3> QED BY <2>1, <3>1, <3>2, <3>3, <3>4
  <2> QED BY <2>2, <2>3, <2>4, <2>5 DEF SendIsDue
<1>5. CASE log' = log /\ rx' = [rx EXCEPT !.at = "end", !.packet = 0]
  <2>1. rx'.at = "end"
    BY <1>2, <1>5 DEF Answers
  <2> QED BY <1>1, <1>5, <2>1 DEF SpacedInv, LogTrue, NotedInRing, SendIsDue, SpacedByRtt,
                                  MinResend
<1> QED BY <1>4, <1>5 DEF ReSendToNetwork

\* The note is made in the slot of the packet that was sent, if it is still there.
LEMMA SpacedNote ==
  ASSUME SpacedInv, NumbersDiffer, UpdateResendTime
  PROVE  LogTrue' /\ NotedInRing' /\ SendIsDue'
<1>1. rx.at = "note" /\ UNCHANGED <<clock, built, kept, log, store>>
  BY DEF UpdateResendTime
<1>2. rx \in Answers /\ rx.packet # 0 /\ NumberOf(rx.packet) = Wanted /\ HistoryInv
  BY <1>1 DEF SpacedInv, ResendInv, RxTrue, IdleRx, Answers, AnswerTrue, Wanted
<1>3. rx'.at \in {"get", "end"}
  <2> DEFINE b == rx.bytes + PacketBytes
             r == [rx EXCEPT !.bytes = b]
  <2>1. r \in Answers
    <3>1. b \in Nat
      BY <1>2, ResendAssumption DEF Answers
    <3> HIDE DEF b
    <3> QED BY <1>2, <3>1 DEF Answers
  <2>2. \/ rx' = [rx EXCEPT !.at = "end", !.bytes = b, !.packet = 0, !.out = Nothing]
        \/ rx' = NextNumber(r)
    BY DEF UpdateResendTime
  <2> HIDE DEF b, r
  <2>3. NextNumber(r).at \in {"get", "end"}
    BY <2>1 DEF NextNumber, Answers
  <2>4. [rx EXCEPT !.at = "end", !.bytes = b, !.packet = 0, !.out = Nothing].at = "end"
    BY <1>2 DEF Answers
  <2> QED BY <2>2, <2>3, <2>4
<1>4. LogTrue' /\ SendIsDue'
  BY <1>1, <1>3 DEF SpacedInv, LogTrue, SendIsDue
<1>5. ASSUME NEW a \in log, NEW i \in Slots, ring'[i].packet = a.packet
      PROVE  a.time <= ring'[i].resent
  <2>1. ring[i] \in RingRecords /\ clock \in Nat /\ a.packet # 0 /\ a.time <= clock
    BY <1>2 DEF HistoryInv, HistoryTypes, SpacedInv, LogTrue, ResendInv, Clocked
  <2>2. CASE store /\ i \in FindSeqNum(Wanted)
    <3>1. ring'[i] = [ring[i] EXCEPT !.resent = clock]
      BY <2>2 DEF UpdateResendTime
    <3>2. ring'[i].resent = clock
      BY <2>1, <3>1 DEF RingRecords
    <3> QED BY <2>1, <3>2
  <2>3. CASE ~(store /\ i \in FindSeqNum(Wanted))
    <3>1. ring'[i] = ring[i]
      BY <2>3 DEF UpdateResendTime
    <3>2. a.packet # rx.packet
      <4> SUFFICES ASSUME a.packet = rx.packet PROVE FALSE
        OBVIOUS
      <4>1. ring[i].packet = rx.packet /\ ring[i].seq = Wanted
        BY <1>2, <1>5, <2>1, <3>1, Written DEF Holds
      <4>2. store
        <5>1. \E j \in DOMAIN kept : kept[j] = ring[i].packet
          BY <1>2, <4>1, Written
        <5> QED BY <1>2, <5>1 DEF HistoryInv
      <4>3. Wanted \in Nat
        BY <2>1, <4>1 DEF RingRecords
      <4>4. PICK j \in FindSeqNum(Wanted) : ring[j].packet # 0
        BY <1>2, <4>1, <4>3, FoundIsWritten
      <4>5. j \in Slots /\ ring[j].seq = Wanted
        BY <1>2, <4>4, FindIsMatch
      <4>6. i = j
        BY <1>2, <4>1, <4>4, <4>5, SlotsDiffer
      <4> QED BY <2>3, <4>2, <4>4, <4>6
    <3> QED BY <1>5, <3>1, <3>2 DEF SpacedInv, NotedInRing
  <2> QED BY <2>2, <2>3
<1> QED BY <1>1, <1>4, <1>5 DEF NotedInRing

LEMMA SpacedStep ==
  SpacedInv /\ NumbersDiffer /\ [ResendNext]_resendVars => SpacedInv'
<1> SUFFICES ASSUME SpacedInv, NumbersDiffer, [ResendNext]_resendVars PROVE SpacedInv'
  OBVIOUS
<1>1. ResendInv'
  BY HistoryStep, AnswerStep, NacksStep DEF ResendInv, SpacedInv
<1>2. ~ReSendToNetwork => log' = log
  BY DEF ResendNext, SendNewPacket, Allocate, Free, SendNACK, OnReceivedNACK, GetRTPPacket,
         UpdateResendTime, UpdateNACKBitRate, Tick, resendVars
<1>3. ~ReSendToNetwork => SpacedByRtt'
  BY <1>2 DEF SpacedInv, SpacedByRtt, MinResend
<1>4. SpacedByRtt'
  BY <1>3, SpacedSend
<1>5. /\ clock \in Nat /\ clock' \in Nat /\ clock <= clock'
      /\ built \in Nat /\ built' \in Nat /\ built <= built'
  BY ClockGoesOn DEF SpacedInv
<1>6. \A a \in log : a.time \in Nat /\ a.packet \in Nat
  BY DEF SpacedInv, LogTrue
<1>7. ASSUME log' = log, UNCHANGED <<rx, clock>> PROVE SendIsDue'
  BY <1>7 DEF SpacedInv, SendIsDue, MinResend
<1>8. CASE \E type \in Kinds : SendNewPacket(type)
  <2>1. PICK type \in Kinds : SendNewPacket(type)
    BY <1>8
  <2>2. LogTrue' /\ NotedInRing'
    BY <2>1, SpacedPut
  <2>3. SendIsDue'
    BY <2>1, <1>7 DEF SendNewPacket
  <2> QED BY <1>1, <1>4, <2>2, <2>3 DEF SpacedInv
<1>9. CASE Free
  <2>1. \A i \in Slots : ring'[i].packet = 0
    BY <1>9 DEF Free, EmptySlot
  <2>2. NotedInRing'
    BY <1>9, <2>1 DEF Free, SpacedInv, LogTrue, NotedInRing
  <2>3. LogTrue'
    BY <1>9 DEF Free, SpacedInv, LogTrue
  <2>4. SendIsDue'
    BY <1>7, <1>9 DEF Free
  <2> QED BY <1>1, <1>4, <2>2, <2>3, <2>4 DEF SpacedInv
<1>10. CASE GetRTPPacket
  BY <1>1, <1>4, <1>10, SpacedGet DEF SpacedInv
<1>11. CASE ReSendToNetwork
  BY <1>1, <1>11, SpacedSend DEF SpacedInv
<1>12. CASE UpdateResendTime
  BY <1>1, <1>4, <1>12, SpacedNote DEF SpacedInv
<1>13. CASE Tick
  <2>1. UNCHANGED <<built, ring, kept, log, rx>>
    BY <1>13 DEF Tick
  <2>2. LogTrue'
    <3>1. \A a \in log : a.time <= clock'
      BY <1>5, <1>6 DEF SpacedInv, LogTrue
    <3> QED BY <2>1, <3>1 DEF SpacedInv, LogTrue
  <2>3. NotedInRing'
    BY <2>1 DEF SpacedInv, NotedInRing
  <2>4. SendIsDue'
    <3> SUFFICES ASSUME rx.at = "send", NEW a \in log, a.packet = rx.packet
                 PROVE  clock' - a.time >= MinResend
      BY <2>1 DEF SendIsDue, MinResend
    <3>1. clock - a.time >= MinResend
      BY DEF SpacedInv, SendIsDue
    <3> QED BY <1>5, <1>6, <3>1, MinResendIsNat
  <2> QED BY <1>1, <1>4, <2>2, <2>3, <2>4 DEF SpacedInv
<1>14. CASE \/ Allocate
            \/ \E list \in NackLists : SendNACK(list)
            \/ UNCHANGED resendVars
  <2>1. UNCHANGED <<clock, built, ring, kept, log, rx>>
    BY <1>14 DEF Allocate, SendNACK, resendVars
  <2> QED BY <1>1, <1>4, <1>7, <2>1 DEF SpacedInv, LogTrue, NotedInRing
<1>15. CASE (\E n \in nacks : OnReceivedNACK(n)) \/ UpdateNACKBitRate
  <2>1. UNCHANGED <<clock, built, ring, kept, log>>
    BY <1>15 DEF OnReceivedNACK, UpdateNACKBitRate
  <2>2. rx.at \in {"idle", "end"}
    BY <1>15 DEF OnReceivedNACK, UpdateNACKBitRate, IdleRx
  <2>3. rx'.at \in {"get", "idle"}
    BY <1>15 DEF OnReceivedNACK, UpdateNACKBitRate, IdleRx
  <2> QED BY <1>1, <1>4, <2>1, <2>2, <2>3 DEF SpacedInv, LogTrue, NotedInRing, SendIsDue
<1> QED BY <1>8, <1>9, <1>10, <1>11, <1>12, <1>13, <1>14, <1>15 DEF ResendNext

\* As long as no two packets in the ring have the same number, a packet is sent again at
\* most once in 5 ms and a round trip, whatever is asked for and however often, although
\* the time is noted under a later lock than the one under which it was looked up.
THEOREM ResendsAreSpaced == ResendSpec /\ []NumbersDiffer => []SpacedByRtt
<1>1. SpacedInv => SpacedByRtt
  BY DEF SpacedInv
<1> QED BY <1>1, SpacedStart, SpacedStep, PTL DEF ResendSpec

-----------------------------------------------------------------------------
(* ForwardErrorCorrection: what is recovered is what was sent.  A FEC packet  *)
(* covers the numbers of exactly the places it is made of, on its way and in  *)
(* the receiver, and what the receiver holds under a number has come from     *)
(* the place of that number.                                                  *)

\* The walk over a mask stays in its first byte, and the tables in the model go up
\* to four packets.  (Finding 5 is what happens with a wider gap.)
MasksFit == /\ kMaxMediaPackets <= 4
            /\ \A skip \in Skips : (kMaxMediaPackets - 1) * (skip + 1) < 8

\* No two packets sent have the same number.
SeqNumSpace == 65536
NumbersAreUnique == nextPlace - FirstPlace <= SeqNumSpace

Sent == FirstPlace .. nextPlace - 1

Numbers(P) == {SeqNum(x) : x \in P}

FecOf(P) == {g \in [fec : {TRUE}, covers : SUBSET Nat, content : SUBSET P] :
               g.covers = Numbers(g.content)}

OnNetwork(P) ==
  {p \in [place : P, fec : BOOLEAN, covers : SUBSET Nat, content : SUBSET P] :
     IF p.fec THEN p.covers = Numbers(p.content) ELSE p.content = {p.place}}

RecoveredFrom(P) ==
  {q \in [seq : Nat, content : SUBSET P, returned : BOOLEAN] :
     \E x \in P : q.seq = SeqNum(x) /\ q.content = {x}}

HaveFrom(P) == {h \in [seq : Nat, content : SUBSET P] :
                  \E x \in P : h.seq = SeqNum(x) /\ h.content = {x}}

FecOver(P) ==
  {f \in [seq : Nat, covers : SUBSET Nat, content : SUBSET P,
          have : SUBSET HaveFrom(P)] :
     f.covers = Numbers(f.content) /\ f.have \subseteq HaveFrom(f.content)}

Receivers(P) ==
  {r \in [pending : Seq(OnNetwork(P)), recovered : SUBSET RecoveredFrom(P),
          fec : SUBSET FecOver(P), vcm : SUBSET SUBSET P] : IsFiniteSet(r.fec)}

\* How far apart two packets are at most that follow each other on a list.
MaxGap == IF kMaxMediaPackets <= 2 THEN 7 ELSE IF kMaxMediaPackets = 3 THEN 3 ELSE 2

\* The places of a list, in order and within a byte of the mask.
ListFits(list) ==
  /\ Len(list) <= kMaxMediaPackets
  /\ \A k \in 1 .. Len(list) : list[k] - list[1] \in 0 .. (k - 1) * MaxGap

ProducerInv ==
  /\ nextPlace \in Nat /\ FirstPlace <= nextPlace
  /\ protectedMedia \in Seq(Sent) /\ ListFits(protectedMedia)
  /\ toSend = <<>> /\ Len(protectedMedia) \in 1 .. kMaxMediaPackets - 1
       => protectedMedia[Len(protectedMedia)] = nextPlace - 1
  /\ fecRate \in 0 .. 255 /\ newRate \in 0 .. 255
  /\ toSend \in Seq(FecOf(Sent))
  /\ fecNetwork \subseteq OnNetwork(Sent)

FecInv == ProducerInv /\ (NumbersAreUnique => receiver \in Receivers(Sent))

Unique(P) == P \subseteq Int /\ \A x, y \in P : SeqNum(x) = SeqNum(y) => x = y

LEMMA SeqNumIs == \A x \in Int : SeqNum(x) \in Nat /\ SeqNum(x) < 65536
  BY DEF SeqNum

LEMMA FewAreUnique ==
  ASSUME NEW a \in Int, NEW b \in Int, b - a <= 65536
  PROVE  Unique(a .. b - 1)
<1>1. ASSUME NEW x \in a .. b - 1, NEW y \in a .. b - 1, x % 65536 = y % 65536
      PROVE  x = y
  <2>1. x - y < 65536 /\ y - x < 65536 /\ x \in Int /\ y \in Int
    OBVIOUS
  <2>2. /\ x = 65536 * (x \div 65536) + (x % 65536) /\ x \div 65536 \in Int
        /\ y = 65536 * (y \div 65536) + (y % 65536) /\ y \div 65536 \in Int
    BY <2>1
  <2> QED BY <1>1, <2>1, <2>2
<1> QED BY <1>1 DEF Unique, SeqNum

\* A number stands for one place.
LEMMA NumberIn ==
  ASSUME NEW P, Unique(P), NEW c \in SUBSET P, NEW x \in P, SeqNum(x) \in Numbers(c)
  PROVE  x \in c
  BY DEF Unique, Numbers

LEMMA BelowFinite ==
  ASSUME NEW n \in Nat, NEW S, \A s \in S : s \in Nat /\ s < n
  PROVE  IsFiniteSet(S)
<1>1. IsFiniteSet(0 .. n - 1)
  <2>1. 0 \in Int /\ n - 1 \in Int
    OBVIOUS
  <2> QED BY <2>1, FS_Interval
<1>2. S \in SUBSET (0 .. n - 1)
  OBVIOUS
<1> QED BY <1>1, <1>2, FS_Subset

LEMMA NumbersFinite ==
  ASSUME NEW c \in SUBSET Int
  PROVE  Numbers(c) \in SUBSET Nat /\ IsFiniteSet(Numbers(c))
<1>1. \A s \in Numbers(c) : s \in Nat /\ s < 65536
  <2> SUFFICES ASSUME NEW x \in c PROVE SeqNum(x) \in Nat /\ SeqNum(x) < 65536
    BY DEF Numbers
  <2> QED BY SeqNumIs
<1>2. 65536 \in Nat
  OBVIOUS
<1>3. IsFiniteSet(Numbers(c))
  BY <1>1, <1>2, BelowFinite
<1> QED BY <1>1, <1>3

\* The fields of a receiver, and a receiver from its fields.
LEMMA ReceiverIs ==
  ASSUME NEW P, NEW r \in Receivers(P)
  PROVE  /\ r.pending \in Seq(OnNetwork(P)) /\ r.recovered \in SUBSET RecoveredFrom(P)
         /\ r.fec \in SUBSET FecOver(P) /\ IsFiniteSet(r.fec)
         /\ r.vcm \in SUBSET SUBSET P
  BY DEF Receivers

LEMMA WithRecovered ==
  ASSUME NEW P, NEW r \in Receivers(P), NEW S \in SUBSET RecoveredFrom(P)
  PROVE  [r EXCEPT !.recovered = S] \in Receivers(P)
  BY DEF Receivers

LEMMA WithFec ==
  ASSUME NEW P, NEW r \in Receivers(P), NEW F \in SUBSET FecOver(P), IsFiniteSet(F)
  PROVE  [r EXCEPT !.fec = F] \in Receivers(P)
  BY DEF Receivers

LEMMA WithBoth ==
  ASSUME NEW P, NEW r \in Receivers(P), NEW S \in SUBSET RecoveredFrom(P),
         NEW F \in SUBSET FecOver(P), IsFiniteSet(F)
  PROVE  [r EXCEPT !.recovered = S, !.fec = F] \in Receivers(P)
  BY DEF Receivers

LEMMA WithVcm ==
  ASSUME NEW P, NEW r \in Receivers(P), NEW V \in SUBSET SUBSET P
  PROVE  [r EXCEPT !.vcm = V] \in Receivers(P)
  BY DEF Receivers

LEMMA WithQueue ==
  ASSUME NEW P, NEW r \in Receivers(P), NEW s \in Seq(OnNetwork(P))
  PROVE  [r EXCEPT !.pending = s] \in Receivers(P)
  BY DEF Receivers

\* UpdateCoveringFECPackets() gives a packet to those whose mask names it.
LEMMA CoveringKept ==
  ASSUME NEW P, Unique(P), NEW F \in SUBSET FecOver(P), IsFiniteSet(F),
         NEW q \in RecoveredFrom(P)
  PROVE  /\ UpdateCoveringFECPackets(F, q) \in SUBSET FecOver(P)
         /\ IsFiniteSet(UpdateCoveringFECPackets(F, q))
<1> DEFINE h == [seq |-> q.seq, content |-> q.content]
           New(f) == IF q.seq \in f.covers
                     THEN [f EXCEPT !.have = {g \in @ : g.seq # q.seq} \cup {h}] ELSE f
           Update == [f \in F |-> New(f)]
           G == UpdateCoveringFECPackets(F, q)
<1>1. h \in HaveFrom(P)
  BY DEF HaveFrom, RecoveredFrom
<1>2. ASSUME NEW f \in F PROVE New(f) \in FecOver(P)
  <2>1. CASE q.seq \notin f.covers
    BY <2>1
  <2>2. CASE q.seq \in f.covers
    <3>1. PICK x \in P : q.seq = SeqNum(x) /\ q.content = {x}
      BY DEF RecoveredFrom
    <3>2. f.content \in SUBSET P /\ f.covers = Numbers(f.content)
          /\ f.have \in SUBSET HaveFrom(P) /\ f.have \subseteq HaveFrom(f.content)
      BY DEF FecOver
    <3>3. x \in f.content
      BY <2>2, <3>1, <3>2, NumberIn
    <3>4. h \in HaveFrom(f.content)
      BY <1>1, <3>1, <3>2, <3>3 DEF HaveFrom
    <3> DEFINE H == {g \in f.have : g.seq # q.seq} \cup {h}
    <3>5. H \in SUBSET HaveFrom(P) /\ H \subseteq HaveFrom(f.content)
      BY <1>1, <3>2, <3>4
    <3>6. New(f) = [f EXCEPT !.have = H]
      BY <2>2
    <3>7. [f EXCEPT !.have = H] \in FecOver(P)
      <4> HIDE DEF H
      <4> QED BY <3>5 DEF FecOver
    <3> QED BY <3>6, <3>7
  <2> HIDE DEF New
  <2> QED BY <2>1, <2>2
<1>3. G = {New(f) : f \in F}
  BY DEF UpdateCoveringFECPackets
<1> HIDE DEF New, G
<1>4. G \in SUBSET FecOver(P)
  BY <1>2, <1>3
<1>5. Update \in Surjection(F, G)
  BY <1>3 DEF Surjection
<1>6. IsFiniteSet(G)
  BY <1>5, FS_Surjection
<1> QED BY <1>4, <1>6 DEF G

\* InsertMediaPacket() and InsertFECPacket()
LEMMA MediaKept ==
  ASSUME NEW P, Unique(P), NEW r \in Receivers(P), NEW p \in OnNetwork(P), ~p.fec
  PROVE  InsertMediaPacket(r, p) \in Receivers(P)
<1> DEFINE q == [seq |-> SeqNum(p.place), content |-> p.content, returned |-> TRUE]
<1>1. p.place \in P /\ p.content = {p.place} /\ SeqNum(p.place) \in Nat
  <2>1. p.place \in P /\ p.content = {p.place}
    BY DEF OnNetwork
  <2>2. p.place \in Int
    BY <2>1 DEF Unique
  <2> QED BY <2>1, <2>2, SeqNumIs
<1>2. q \in RecoveredFrom(P)
  BY <1>1 DEF RecoveredFrom
<1> DEFINE S == r.recovered \cup {q}
           F == UpdateCoveringFECPackets(r.fec, q)
<1>3. InsertMediaPacket(r, p) = r
      \/ InsertMediaPacket(r, p) = [r EXCEPT !.recovered = S, !.fec = F]
  BY DEF InsertMediaPacket
<1> HIDE DEF q
<1>4. S \in SUBSET RecoveredFrom(P)
  BY <1>2, ReceiverIs
<1>5. F \in SUBSET FecOver(P) /\ IsFiniteSet(F)
  <2>1. r.fec \in SUBSET FecOver(P) /\ IsFiniteSet(r.fec)
    BY ReceiverIs
  <2> QED BY <1>2, <2>1, CoveringKept
<1> HIDE DEF S, F
<1>6. [r EXCEPT !.recovered = S, !.fec = F] \in Receivers(P)
  BY <1>4, <1>5, WithBoth
<1> QED BY <1>3, <1>6, Zenon

LEMMA AssignedRight ==
  ASSUME NEW P, Unique(P), NEW r \in Receivers(P), NEW p \in OnNetwork(P), p.fec
  PROVE  /\ AssignRecoveredPackets(r, p) \in SUBSET HaveFrom(P)
         /\ AssignRecoveredPackets(r, p) \subseteq HaveFrom(p.content)
<1>1. p.covers = Numbers(p.content) /\ p.content \in SUBSET P
  BY DEF OnNetwork
<1> SUFFICES ASSUME NEW q \in r.recovered, q.seq \in p.covers
             PROVE  /\ [seq |-> q.seq, content |-> q.content] \in HaveFrom(P)
                    /\ [seq |-> q.seq, content |-> q.content] \in HaveFrom(p.content)
  BY DEF AssignRecoveredPackets
<1>2. q \in RecoveredFrom(P)
  BY ReceiverIs
<1>3. PICK x \in P : q.seq = SeqNum(x) /\ q.content = {x}
  BY <1>2 DEF RecoveredFrom
<1>4. x \in p.content
  BY <1>1, <1>3, NumberIn
<1>5. q.seq \in Nat
  BY <1>2 DEF RecoveredFrom
<1> QED BY <1>3, <1>4, <1>5 DEF HaveFrom

LEMMA FecKept ==
  ASSUME NEW P, Unique(P), NEW r \in Receivers(P), NEW p \in OnNetwork(P), p.fec
  PROVE  InsertFECPacket(r, p) \in Receivers(P)
<1> DEFINE f == [seq |-> SeqNum(p.place), covers |-> p.covers,
                 content |-> p.content, have |-> AssignRecoveredPackets(r, p)]
           list == r.fec \cup {f}
           less == list \ {Oldest(list)}
<1>1. /\ SeqNum(p.place) \in Nat /\ p.covers \in SUBSET Nat /\ p.content \in SUBSET P
      /\ p.covers = Numbers(p.content)
  <2>1. /\ p.place \in P /\ p.covers \in SUBSET Nat /\ p.content \in SUBSET P
        /\ p.covers = Numbers(p.content)
    BY DEF OnNetwork
  <2>2. p.place \in Int
    BY <2>1 DEF Unique
  <2> QED BY <2>1, <2>2, SeqNumIs
<1>2. f \in FecOver(P)
  BY <1>1, AssignedRight DEF FecOver
<1>3. \/ InsertFECPacket(r, p) = r
      \/ InsertFECPacket(r, p) = [r EXCEPT !.fec = less]
      \/ InsertFECPacket(r, p) = [r EXCEPT !.fec = list]
  BY DEF InsertFECPacket
<1> HIDE DEF f
<1>4. r.fec \in SUBSET FecOver(P) /\ IsFiniteSet(r.fec)
  BY ReceiverIs
<1>5. list \in SUBSET FecOver(P) /\ IsFiniteSet(list)
  BY <1>2, <1>4, FS_AddElement
<1> HIDE DEF list
<1>6. less \in SUBSET FecOver(P) /\ IsFiniteSet(less)
  BY <1>5, FS_RemoveElement
<1> HIDE DEF less
<1> QED BY <1>3, <1>5, <1>6, WithFec

LEMMA DiscardKept ==
  ASSUME NEW P, NEW r \in Receivers(P)
  PROVE  DiscardOldPackets(r) \in Receivers(P)
<1> DEFINE S == {q \in r.recovered : Cardinality({p \in r.recovered : LessThan(q, p)})
                                       < kMaxMediaPackets}
<1>1. DiscardOldPackets(r) = [r EXCEPT !.recovered = S]
  BY DEF DiscardOldPackets
<1>2. S \in SUBSET RecoveredFrom(P)
  BY ReceiverIs
<1> HIDE DEF S
<1> QED BY <1>1, <1>2, WithRecovered

\* What holds of 0 and of each number whose predecessor it holds of.
LEMMA Upwards ==
  ASSUME NEW n \in Nat, NEW T, 0 \in T, \A i \in 1 .. n : i - 1 \in T => i \in T
  PROVE  0 .. n \subseteq T
<1> SUFFICES ASSUME NEW b \in 0 .. n, b \notin T PROVE FALSE
  OBVIOUS
<1> DEFINE Bad == {i \in Nat : i <= n /\ i \notin T}
<1>1. Bad \subseteq Nat /\ b \in Bad
  OBVIOUS
<1>2. PICK i \in Bad : \A j \in Bad : i <= j
  <2> HIDE DEF Bad
  <2> QED BY <1>1, LeastNat
<1>3. i \in 1 .. n /\ i \notin T
  BY <1>2
<1>4. i - 1 \in T
  <2> SUFFICES ASSUME i - 1 \notin T PROVE FALSE
    OBVIOUS
  <2>1. i - 1 \in Nat /\ i - 1 <= n
    BY <1>3
  <2>2. i - 1 \in Bad
    BY <2>1
  <2> HIDE DEF Bad
  <2>3. i <= i - 1
    BY <1>2, <2>2
  <2> QED BY <1>3, <2>3
<1> QED BY <1>3, <1>4

\* Steps can be taken one after the other.
Repeats(g, n, s, F) == \A i \in 0 .. n : g[i] = IF i = 0 THEN s ELSE F[i][g[i - 1]]

LEMMA Iterates ==
  ASSUME NEW n \in Nat, NEW S, NEW s \in S, NEW F \in [1 .. n -> [S -> S]]
  PROVE  \E g \in [0 .. n -> S] : Repeats(g, n, s, F)
<1> DEFINE T == {m \in Nat : \E g \in [0 .. m -> S] :
                   \A i \in 0 .. m : g[i] = IF i = 0 THEN s ELSE F[i][g[i - 1]]}
<1>1. 0 \in T
  <2> DEFINE g == [i \in 0 .. 0 |-> s]
  <2>1. g \in [0 .. 0 -> S] /\ \A i \in 0 .. 0 : i = 0 /\ g[i] = s
    OBVIOUS
  <2>2. \A i \in 0 .. 0 : g[i] = IF i = 0 THEN s ELSE F[i][g[i - 1]]
    BY <2>1
  <2> HIDE DEF g
  <2> QED BY <2>1, <2>2
<1>2. ASSUME NEW m \in 1 .. n, m - 1 \in T PROVE m \in T
  <2>1. PICK g \in [0 .. m - 1 -> S] :
          \A i \in 0 .. m - 1 : g[i] = IF i = 0 THEN s ELSE F[i][g[i - 1]]
    BY <1>2
  <2> DEFINE h == [i \in 0 .. m |-> IF i = m THEN F[m][g[m - 1]] ELSE g[i]]
  <2>2. g[m - 1] \in S /\ F[m] \in [S -> S]
    OBVIOUS
  <2>3. h \in [0 .. m -> S]
    <3>1. \A i \in 0 .. m : i = m \/ i \in 0 .. m - 1
      OBVIOUS
    <3> QED BY <2>2, <3>1
  <2>4. ASSUME NEW i \in 0 .. m
        PROVE  h[i] = IF i = 0 THEN s ELSE F[i][h[i - 1]]
    <3>1. CASE i = m
      <4>1. m # 0 /\ m - 1 # m /\ m - 1 \in 0 .. m
        OBVIOUS
      <4>2. h[m - 1] = g[m - 1] /\ h[m] = F[m][g[m - 1]]
        BY <4>1
      <4> HIDE DEF h
      <4> QED BY <3>1, <4>1, <4>2
    <3>2. CASE i # m
      <4>1. i \in 0 .. m - 1 /\ (i # 0 => i - 1 \in 0 .. m /\ i - 1 # m)
        BY <3>2
      <4>2. h[i] = g[i] /\ (i # 0 => h[i - 1] = g[i - 1])
        BY <3>2, <4>1
      <4>3. g[i] = IF i = 0 THEN s ELSE F[i][g[i - 1]]
        BY <2>1, <4>1
      <4> HIDE DEF h
      <4> QED BY <4>2, <4>3
    <3> QED BY <3>1, <3>2
  <2>5. m \in Nat
    OBVIOUS
  <2> HIDE DEF h
  <2> QED BY <2>3, <2>4, <2>5
<1>3. n \in T
  <2> HIDE DEF T
  <2>1. 0 .. n \subseteq T
    BY <1>1, <1>2, Upwards
  <2> QED BY <2>1
<1> QED BY <1>3 DEF Repeats

\* InsertPackets() takes the packets one by one; this is its function.
InsertOne(s, p) == IF p.fec THEN InsertFECPacket(s, p) ELSE InsertMediaPacket(s, p)

InsertedOf(r) ==
  CHOOSE g : g = [n \in 0 .. Len(r.pending) |->
                    IF n = 0 THEN [r EXCEPT !.pending = <<>>]
                    ELSE IF r.pending[n].fec
                    THEN InsertFECPacket(g[n - 1], r.pending[n])
                    ELSE InsertMediaPacket(g[n - 1], r.pending[n])]

LEMMA InsertOneKept ==
  ASSUME NEW P, Unique(P), NEW r \in Receivers(P), NEW p \in OnNetwork(P)
  PROVE  InsertOne(r, p) \in Receivers(P)
<1>1. CASE p.fec
  BY <1>1, FecKept DEF InsertOne
<1>2. CASE ~p.fec
  BY <1>2, MediaKept DEF InsertOne
<1> QED BY <1>1, <1>2

LEMMA InsertedKept ==
  ASSUME NEW P, Unique(P), NEW r \in Receivers(P)
  PROVE  InsertPackets(r) \in Receivers(P)
<1> DEFINE last == Len(r.pending)
           R == Receivers(P)
           empty == [r EXCEPT !.pending = <<>>]
           Says(h) == [i \in 0 .. last |->
                         IF i = 0 THEN empty ELSE InsertOne(h[i - 1], r.pending[i])]
           Turn == [i \in 1 .. last |-> [s \in R |-> InsertOne(s, r.pending[i])]]
           G == InsertedOf(r)
<1>1. last \in Nat /\ \A i \in 1 .. last : r.pending[i] \in OnNetwork(P)
  <2>1. r.pending \in Seq(OnNetwork(P))
    BY ReceiverIs
  <2> QED BY <2>1
<1>2. empty \in R
  <2>1. <<>> \in Seq(OnNetwork(P))
    OBVIOUS
  <2> QED BY <2>1, WithQueue
<1>3. \A i \in 1 .. last : \A s \in R : InsertOne(s, r.pending[i]) \in R
  BY <1>1, InsertOneKept
<1>4. InsertPackets(r) = DiscardOldPackets(G[last])
  BY DEF InsertPackets, InsertedOf
<1>5. G = CHOOSE h : h = Says(h)
  BY DEF InsertedOf, InsertOne
<1> HIDE DEF last, R, empty, G
<1>6. Turn \in [1 .. last -> [R -> R]]
  BY <1>3
<1>7. PICK h \in [0 .. last -> R] : Repeats(h, last, empty, Turn)
  <2> HIDE DEF Turn
  <2>1. last \in Nat
    BY <1>1
  <2> QED BY <1>2, <1>6, <2>1, Iterates, Zenon
<1>8. h = Says(h)
  <2>1. ASSUME NEW i \in 0 .. last, i # 0 PROVE Turn[i][h[i - 1]] = InsertOne(h[i - 1], r.pending[i])
    <3>1. i \in 1 .. last /\ i - 1 \in 0 .. last
      BY <1>1, <2>1
    <3>2. h[i - 1] \in R
      BY <3>1
    <3> QED BY <3>1, <3>2
  <2> HIDE DEF Turn
  <2> QED BY <1>7, <2>1 DEF Repeats
<1>9. G = Says(G)
  <2> HIDE DEF Says
  <2> QED BY <1>5, <1>8
<1>10. \A i \in 0 .. last : G[i] = IF i = 0 THEN empty ELSE InsertOne(G[i - 1], r.pending[i])
  BY <1>9
<1>11. 0 .. last \subseteq {i \in 0 .. last : G[i] \in R}
  <2> DEFINE T == {i \in 0 .. last : G[i] \in R}
  <2>1. 0 \in T
    BY <1>1, <1>2, <1>10
  <2>2. ASSUME NEW i \in 1 .. last, i - 1 \in T PROVE i \in T
    <3>1. i \in 0 .. last /\ i # 0
      BY <1>1
    <3> QED BY <1>3, <1>10, <2>2, <3>1
  <2> HIDE DEF T
  <2>3. 0 .. last \subseteq T
    BY <1>1, <2>1, <2>2, Upwards
  <2> QED BY <2>3 DEF T
<1>12. G[last] \in Receivers(P)
  BY <1>1, <1>11 DEF R
<1> QED BY <1>4, <1>12, DiscardKept

\* What is held under a number of a place is that place's packet.
LEMMA HaveIs ==
  ASSUME NEW P, Unique(P), NEW c \in SUBSET P, NEW h \in HaveFrom(c), NEW y \in c
  PROVE  /\ h.content \subseteq c
         /\ y \in h.content => h = [seq |-> SeqNum(y), content |-> {y}]
         /\ h.seq = SeqNum(y) => y \in h.content
<1>1. PICK z \in c : h.seq = SeqNum(z) /\ h.content = {z}
  BY DEF HaveFrom
<1>2. h = [seq |-> h.seq, content |-> h.content]
  BY DEF HaveFrom
<1>3. y \in h.content => y = z
  BY <1>1
<1>4. h.seq = SeqNum(y) => y = z
  BY <1>1 DEF Unique
<1> QED BY <1>1, <1>2, <1>3, <1>4

\* All but one of the packets XORed into f are there: taken out again, they leave
\* that one.
LEMMA RecoverRight ==
  ASSUME NEW P, Unique(P), NEW f \in FecOver(P), CoveredMissing(f) # {},
         Cardinality(CoveredMissing(f)) <= 1
  PROVE  RecoverPacket(f) \in RecoveredFrom(P)
<1> DEFINE c == f.content
           M == CoveredMissing(f)
           number == CHOOSE s \in M : TRUE
           With(y) == {h \in f.have : y \in h.content}
<1>1. c \in SUBSET P /\ f.covers = Numbers(c) /\ f.have \subseteq HaveFrom(c)
  BY DEF FecOver
<1>2. M \subseteq f.covers /\ \A s \in f.covers : s \in M <=> \A h \in f.have : h.seq # s
  BY DEF CoveredMissing
<1>3. number \in M
  OBVIOUS
<1>4. IsFiniteSet(M)
  <2>1. c \in SUBSET Int
    BY <1>1 DEF Unique
  <2>2. IsFiniteSet(f.covers) /\ M \in SUBSET f.covers
    BY <1>1, <1>2, <2>1, NumbersFinite
  <2> QED BY <2>2, FS_Subset
<1>5. ASSUME NEW s \in M PROVE s = number
  <2> HIDE DEF M, number
  <2>1. Cardinality(M) \in Nat /\ Cardinality(M) # 0
    BY <1>3, <1>4, FS_CardinalityType, FS_EmptySet
  <2>2. Cardinality(M) <= 1
    BY DEF M
  <2>3. Cardinality(M) = 1
    BY <2>1, <2>2
  <2>4. \E t : M = {t}
    BY <1>4, <2>3, FS_Singleton
  <2> QED BY <1>3, <2>4
<1> HIDE DEF M, number
<1>6. PICK x \in c : number = SeqNum(x)
  BY <1>1, <1>2, <1>3 DEF Numbers
<1>7. With(x) = {}
  <2> SUFFICES ASSUME NEW h \in f.have, x \in h.content PROVE FALSE
    OBVIOUS
  <2>1. h = [seq |-> SeqNum(x), content |-> {x}]
    BY <1>1, <1>6, HaveIs
  <2>2. h.seq = number
    BY <1>6, <2>1
  <2> QED BY <1>2, <1>3, <2>2
<1>8. ASSUME NEW y \in c, y # x PROVE With(y) = {[seq |-> SeqNum(y), content |-> {y}]}
  <2>1. SeqNum(y) \in f.covers
    BY <1>1 DEF Numbers
  <2>2. SeqNum(y) # number
    BY <1>1, <1>6, <1>8 DEF Unique
  <2>3. PICK h \in f.have : h.seq = SeqNum(y)
    BY <1>2, <1>5, <2>1, <2>2
  <2>4. y \in h.content
    BY <1>1, <2>3, HaveIs
  <2>5. \A g \in With(y) : g = [seq |-> SeqNum(y), content |-> {y}]
    BY <1>1, HaveIs
  <2>6. h \in With(y)
    BY <2>4
  <2> HIDE DEF With
  <2> QED BY <2>5, <2>6
<1>9. XOR(f, f.have) = {x}
  <2>1. c \cup UNION {h.content : h \in f.have} = c
    <3>1. \A h \in f.have : h.content \subseteq c
      BY <1>1, <1>6, HaveIs
    <3> QED BY <3>1
  <2>2. XOR(f, f.have) = {y \in c : y \in c <=> Cardinality(With(y)) % 2 = 0}
    BY <2>1 DEF XOR
  <2>3. Cardinality(With(x)) % 2 = 0
    <3>1. Cardinality(With(x)) = 0
      BY <1>7, FS_EmptySet
    <3> QED BY <3>1
  <2>4. ASSUME NEW y \in c, y # x PROVE Cardinality(With(y)) % 2 # 0
    <3> DEFINE e == [seq |-> SeqNum(y), content |-> {y}]
    <3>1. Cardinality(With(y)) = 1
      <4>1. With(y) = {e}
        BY <1>8, <2>4
      <4>2. \A z : Cardinality({z}) = 1
        BY FS_Singleton
      <4> HIDE DEF With, e
      <4> QED BY <4>1, <4>2
    <3> QED BY <3>1
  <2>5. \A y \in c : (y \in c <=> Cardinality(With(y)) % 2 = 0) <=> y = x
    <3> SUFFICES ASSUME NEW y \in c
                 PROVE  Cardinality(With(y)) % 2 = 0 <=> y = x
      OBVIOUS
    <3>1. CASE y = x
      BY <2>3, <3>1
    <3>2. CASE y # x
      BY <2>4, <3>2
    <3> HIDE DEF c, With
    <3> QED BY <3>1, <3>2
  <2> HIDE DEF c, With
  <2> QED BY <2>2, <2>5
<1>10. RecoverPacket(f) = [seq |-> number, content |-> {x}, returned |-> FALSE]
  BY <1>9 DEF RecoverPacket, number, M
<1>11. number \in Nat /\ x \in P
  <2>1. x \in P /\ x \in Int
    BY <1>1, <1>6 DEF Unique
  <2> QED BY <1>6, <2>1, SeqNumIs
<1> QED BY <1>6, <1>10, <1>11 DEF RecoveredFrom

LEMMA AttemptOnceKept ==
  ASSUME NEW P, Unique(P), NEW r \in Receivers(P)
  PROVE  AttemptOnce(r) \in Receivers(P)
<1> DEFINE ready == {f \in r.fec : Cardinality(CoveredMissing(f)) <= 1}
           f == Oldest(ready)
           rest == r.fec \ {f}
           packet == RecoverPacket(f)
           S == r.recovered \cup {packet}
           G == UpdateCoveringFECPackets(rest, packet)
<1>1. AttemptOnce(r) = IF ready = {} THEN r
                       ELSE IF CoveredMissing(f) = {} THEN [r EXCEPT !.fec = rest]
                       ELSE DiscardOldPackets([r EXCEPT !.recovered = S, !.fec = G])
  BY DEF AttemptOnce
<1>2. r.fec \in SUBSET FecOver(P) /\ IsFiniteSet(r.fec)
  BY ReceiverIs
<1>3. rest \in SUBSET FecOver(P) /\ IsFiniteSet(rest)
  <2> HIDE DEF f
  <2> QED BY <1>2, FS_RemoveElement
<1>4. CASE ready = {}
  BY <1>1, <1>4
<1>5. CASE ready # {} /\ CoveredMissing(f) = {}
  <2> HIDE DEF ready, f, rest
  <2>1. [r EXCEPT !.fec = rest] \in Receivers(P)
    BY <1>3, WithFec
  <2> QED BY <1>1, <1>5, <2>1
<1>6. CASE ready # {} /\ CoveredMissing(f) # {}
  <2>1. f \in ready
    <3> HIDE DEF ready
    <3>1. \E a \in ready : IsOldest(a, ready) \/ \A b \in ready : ~IsOldest(b, ready)
      BY <1>6
    <3> QED BY <3>1 DEF Oldest
  <2> HIDE DEF f
  <2>2. f \in FecOver(P) /\ Cardinality(CoveredMissing(f)) <= 1
    BY <1>2, <2>1
  <2>3. packet \in RecoveredFrom(P)
    BY <1>6, <2>2, RecoverRight
  <2> HIDE DEF packet, rest, ready
  <2>4. S \in SUBSET RecoveredFrom(P)
    BY <2>3, ReceiverIs
  <2>5. G \in SUBSET FecOver(P) /\ IsFiniteSet(G)
    BY <1>3, <2>3, CoveringKept
  <2> HIDE DEF S, G
  <2>6. [r EXCEPT !.recovered = S, !.fec = G] \in Receivers(P)
    BY <2>4, <2>5, WithBoth
  <2>7. DiscardOldPackets([r EXCEPT !.recovered = S, !.fec = G]) \in Receivers(P)
    BY <2>6, DiscardKept
  <2> QED BY <1>1, <1>6, <2>7
<1> QED BY <1>4, <1>5, <1>6

\* AttemptRecover()'s function
AttemptsOf(r) ==
  CHOOSE g : g = [n \in 0 .. Cardinality(r.fec) |->
                    IF n = 0 THEN r ELSE AttemptOnce(g[n - 1])]

LEMMA AttemptKept ==
  ASSUME NEW P, Unique(P), NEW r \in Receivers(P)
  PROVE  AttemptRecover(r) \in Receivers(P)
<1> DEFINE last == Cardinality(r.fec)
           R == Receivers(P)
           Says(h) == [i \in 0 .. last |-> IF i = 0 THEN r ELSE AttemptOnce(h[i - 1])]
           Turn == [i \in 1 .. last |-> [s \in R |-> AttemptOnce(s)]]
           G == AttemptsOf(r)
<1>1. last \in Nat
  BY ReceiverIs, FS_CardinalityType
<1>2. r \in R /\ \A s \in R : AttemptOnce(s) \in R
  BY AttemptOnceKept
<1>3. AttemptRecover(r) = G[last]
  BY DEF AttemptRecover, AttemptsOf
<1>4. G = CHOOSE h : h = Says(h)
  BY DEF AttemptsOf
<1> HIDE DEF last, R, G
<1>5. Turn \in [1 .. last -> [R -> R]]
  BY <1>2
<1>6. PICK h \in [0 .. last -> R] : Repeats(h, last, r, Turn)
  <2> HIDE DEF Turn
  <2> QED BY <1>1, <1>2, <1>5, Iterates, Zenon
<1>7. h = Says(h)
  <2>1. ASSUME NEW i \in 0 .. last, i # 0 PROVE Turn[i][h[i - 1]] = AttemptOnce(h[i - 1])
    <3>1. i \in 1 .. last /\ i - 1 \in 0 .. last
      BY <1>1, <2>1
    <3>2. h[i - 1] \in R
      BY <3>1
    <3> QED BY <3>1, <3>2
  <2> HIDE DEF Turn
  <2> QED BY <1>6, <2>1 DEF Repeats
<1>8. G = Says(G)
  <2> HIDE DEF Says
  <2> QED BY <1>4, <1>7
<1>9. \A i \in 0 .. last : G[i] = IF i = 0 THEN r ELSE AttemptOnce(G[i - 1])
  BY <1>8
<1> DEFINE T == {i \in 0 .. last : G[i] \in R}
<1>10. 0 \in T
  BY <1>1, <1>2, <1>9
<1>11. ASSUME NEW i \in 1 .. last, i - 1 \in T PROVE i \in T
  <2>1. i \in 0 .. last /\ i # 0
    BY <1>1
  <2> QED BY <1>2, <1>9, <1>11, <2>1
<1>12. 0 .. last \subseteq T
  <2> HIDE DEF T
  <2> QED BY <1>1, <1>10, <1>11, Upwards
<1> QED BY <1>1, <1>3, <1>12 DEF R

LEMMA DecodeKept ==
  ASSUME NEW P, Unique(P), NEW r \in Receivers(P)
  PROVE  DecodeFEC(r) \in Receivers(P)
<1> DEFINE a == [r EXCEPT !.recovered = {}, !.fec = {}]
           b == IF FarApart(r) THEN a ELSE r
<1>1. a \in Receivers(P)
  BY FS_EmptySet, WithBoth
<1>2. b \in Receivers(P)
  <2> HIDE DEF a
  <2> QED BY <1>1
<1>3. DecodeFEC(r) = AttemptRecover(InsertPackets(b))
  BY DEF DecodeFEC
<1> HIDE DEF b
<1> QED BY <1>2, <1>3, InsertedKept, AttemptKept

LEMMA ReturnKept ==
  ASSUME NEW P, NEW r \in Receivers(P), NEW new \in SUBSET r.recovered
  PROVE  ReturnRecovered(r, new) \in Receivers(P)
<1> DEFINE V == r.vcm \cup {p.content : p \in new}
           S == (r.recovered \ new) \cup {[p EXCEPT !.returned = TRUE] : p \in new}
<1>1. ReturnRecovered(r, new) = [r EXCEPT !.vcm = V, !.recovered = S]
  BY DEF ReturnRecovered
<1>2. r.recovered \in SUBSET RecoveredFrom(P) /\ r.vcm \in SUBSET SUBSET P
  BY ReceiverIs
<1>3. \A p \in new : p.content \in SUBSET P /\ [p EXCEPT !.returned = TRUE] \in RecoveredFrom(P)
  BY <1>2 DEF RecoveredFrom
<1>4. V \in SUBSET SUBSET P /\ S \in SUBSET RecoveredFrom(P)
  <2>1. \A v \in V : v \in SUBSET P
    <3>1. \A v \in V : v \in r.vcm \/ \E p \in new : v = p.content
      OBVIOUS
    <3>2. \A p \in new : p.content \in SUBSET P
      BY <1>3
    <3> HIDE DEF V
    <3> QED BY <1>2, <3>1, <3>2
  <2>2. \A q \in S : q \in RecoveredFrom(P)
    <3>1. \A q \in S : q \in r.recovered
                        \/ \E p \in new : q = [p EXCEPT !.returned = TRUE]
      OBVIOUS
    <3> HIDE DEF S
    <3> QED BY <1>2, <1>3, <3>1, Zenon
  <2> HIDE DEF V, S
  <2> QED BY <2>1, <2>2
<1> HIDE DEF V, S
<1>5. [r EXCEPT !.vcm = V, !.recovered = S] = [[r EXCEPT !.vcm = V] EXCEPT !.recovered = S]
  OBVIOUS
<1>6. [r EXCEPT !.vcm = V] \in Receivers(P)
  BY <1>4, WithVcm
<1>7. [[r EXCEPT !.vcm = V] EXCEPT !.recovered = S] \in Receivers(P)
  BY <1>4, <1>6, WithRecovered
<1> QED BY <1>1, <1>5, <1>7

LEMMA HandOnKept ==
  ASSUME NEW P, NEW r \in Receivers(P), r.pending # <<>>
  PROVE  HandOnFirst(r) \in Receivers(P)
<1> DEFINE V == r.vcm \cup {Head(r.pending).content}
<1>1. Head(r.pending) \in OnNetwork(P)
  BY ReceiverIs
<1>2. V \in SUBSET SUBSET P
  <2>1. Head(r.pending).content \in SUBSET P
    BY <1>1 DEF OnNetwork
  <2> QED BY <2>1, ReceiverIs
<1>3. HandOnFirst(r) = r \/ HandOnFirst(r) = [r EXCEPT !.vcm = V]
  BY DEF HandOnFirst
<1> HIDE DEF V
<1>4. [r EXCEPT !.vcm = V] \in Receivers(P)
  BY <1>2, WithVcm
<1> QED BY <1>3, <1>4, Zenon

\* Whatever comes from the network, what ProcessReceivedFEC() makes of it is right.
LEMMA ReceiveKept ==
  ASSUME NEW P, Unique(P), receiver \in Receivers(P), NEW p \in OnNetwork(P),
         ProcessReceivedFEC(p)
  PROVE  receiver' \in Receivers(P)
<1> DEFINE w == WithPending(p)
           d == DecodeFEC(HandOnFirst(w))
<1>1. w \in Receivers(P) /\ w.pending # <<>>
  <2> DEFINE q == Append(receiver.pending, p)
  <2>1. q \in Seq(OnNetwork(P)) /\ q # <<>>
    BY ReceiverIs
  <2>2. w = [receiver EXCEPT !.pending = q]
    BY DEF WithPending
  <2>3. [receiver EXCEPT !.pending = q].pending = q
    BY DEF Receivers
  <2> HIDE DEF q, w
  <2> QED BY <2>1, <2>2, <2>3, WithQueue
<1>2. d \in Receivers(P)
  <2> HIDE DEF w
  <2>1. HandOnFirst(w) \in Receivers(P)
    BY <1>1, HandOnKept
  <2> QED BY <2>1, DecodeKept
<1>3. \/ receiver' = ReturnRecovered(d, NotReturned(d))
      \/ receiver' = w
      \/ \E bad \in NotReturned(d) : receiver' = ReturnRecovered(d, Before(d, bad))
  BY DEF ProcessReceivedFEC
<1> HIDE DEF w, d
<1>4. NotReturned(d) \in SUBSET d.recovered
  BY DEF NotReturned
<1>5. \A bad : Before(d, bad) \in SUBSET d.recovered
  BY <1>4 DEF Before
<1>6. CASE receiver' = ReturnRecovered(d, NotReturned(d))
  BY <1>2, <1>4, <1>6, ReturnKept
<1>7. CASE receiver' = w
  BY <1>1, <1>7
<1>8. ASSUME NEW bad \in NotReturned(d), receiver' = ReturnRecovered(d, Before(d, bad))
      PROVE  receiver' \in Receivers(P)
  BY <1>2, <1>5, <1>8, ReturnKept
<1> QED BY <1>3, <1>6, <1>7, <1>8

\* More packets may be sent meanwhile.
LEMMA MoreNetwork ==
  ASSUME NEW P, NEW Q, P \subseteq Q
  PROVE  OnNetwork(P) \subseteq OnNetwork(Q)
  BY DEF OnNetwork

LEMMA MoreReceivers ==
  ASSUME NEW P, NEW Q, P \subseteq Q
  PROVE  Receivers(P) \subseteq Receivers(Q)
<1>1. OnNetwork(P) \subseteq OnNetwork(Q)
  BY MoreNetwork
<1>2. RecoveredFrom(P) \subseteq RecoveredFrom(Q)
  BY DEF RecoveredFrom
<1>3. HaveFrom(P) \subseteq HaveFrom(Q)
  BY DEF HaveFrom
<1>4. FecOver(P) \subseteq FecOver(Q)
  BY <1>3 DEF FecOver
<1> SUFFICES ASSUME NEW r \in Receivers(P) PROVE r \in Receivers(Q)
  OBVIOUS
<1>5. /\ r.pending \in Seq(OnNetwork(P)) /\ r.recovered \in SUBSET RecoveredFrom(P)
      /\ r.fec \in SUBSET FecOver(P) /\ IsFiniteSet(r.fec)
      /\ r.vcm \in SUBSET SUBSET P
  BY ReceiverIs
<1>6. r.pending \in Seq(OnNetwork(Q))
  BY <1>1, <1>5
<1>7. r.recovered \in SUBSET RecoveredFrom(Q) /\ r.fec \in SUBSET FecOver(Q)
      /\ r.vcm \in SUBSET SUBSET Q
  BY <1>2, <1>4, <1>5
<1>8. r = [pending |-> r.pending, recovered |-> r.recovered, fec |-> r.fec, vcm |-> r.vcm]
  BY DEF Receivers
<1> QED BY <1>5, <1>6, <1>7, <1>8 DEF Receivers

-----------------------------------------------------------------------------
(* The sender makes FEC packets that are what their mask says. *)

\* The walk of GenerateFecBitStrings over a mask, where it stays in one byte.
BitsFrom(list, g, k) ==
  IF k = 1 THEN [byte |-> 0, index |-> 0]
  ELSE LET to == g[k - 1].index + list[k] - list[k - 1]
       IN  IF to = 8 THEN [byte |-> g[k - 1].byte + 1, index |-> 0]
           ELSE [byte |-> g[k - 1].byte, index |-> to]

LEMMA GapIs ==
  ASSUME MasksFit
  PROVE  /\ kMaxMediaPackets \in 1 .. 4 /\ MaxGap \in 1 .. 7
         /\ \A k \in 1 .. kMaxMediaPackets : (k - 1) * MaxGap \in 0 .. 7
         /\ kMaxMediaPackets > 1 => \A skip \in Skips : skip + 1 \in 1 .. MaxGap
<1>1. kMaxMediaPackets \in 1 .. 4
  BY FecAssumption DEF MasksFit
<1>2. \A skip \in Skips : skip \in Nat /\ (kMaxMediaPackets - 1) * (skip + 1) < 8
  BY FecAssumption DEF MasksFit
<1>3. CASE kMaxMediaPackets \in {1, 2}
  <2>1. MaxGap = 7
    BY <1>3 DEF MaxGap
  <2>2. \A k \in 1 .. kMaxMediaPackets : k = 1 \/ k = 2
    BY <1>3
  <2> QED BY <1>1, <1>2, <1>3, <2>1, <2>2
<1>4. CASE kMaxMediaPackets = 3
  <2>1. MaxGap = 3
    BY <1>4 DEF MaxGap
  <2>2. \A k \in 1 .. kMaxMediaPackets : k = 1 \/ k = 2 \/ k = 3
    BY <1>4
  <2> QED BY <1>1, <1>2, <1>4, <2>1, <2>2
<1>5. CASE kMaxMediaPackets = 4
  <2>1. MaxGap = 2
    BY <1>5 DEF MaxGap
  <2>2. \A k \in 1 .. kMaxMediaPackets : k = 1 \/ k = 2 \/ k = 3 \/ k = 4
    BY <1>5
  <2> QED BY <1>1, <1>2, <1>5, <2>1, <2>2
<1> QED BY <1>1, <1>3, <1>4, <1>5

LEMMA SpanIs ==
  ASSUME MasksFit, NEW list \in Seq(Int), ListFits(list), NEW k \in 1 .. Len(list)
  PROVE  list[k] - list[1] \in 0 .. 7
<1> DEFINE m == (k - 1) * MaxGap
           d == list[k] - list[1]
<1>1. Len(list) \in Nat /\ Len(list) <= kMaxMediaPackets /\ d \in 0 .. m
  BY DEF ListFits
<1>2. k \in 1 .. kMaxMediaPackets
  BY <1>1, GapIs
<1>3. m \in 0 .. 7
  BY <1>2, GapIs
<1> HIDE DEF m, d
<1>4. d \in 0 .. 7
  BY <1>1, <1>3
<1> QED BY <1>4 DEF d

LEMMA BitsAre ==
  ASSUME MasksFit, NEW list \in Seq(Int), ListFits(list), NEW k \in 1 .. Len(list)
  PROVE  BitOf(list)[k] = [byte |-> 0, index |-> list[k] - list[1]]
<1> DEFINE n == Len(list)
           h == [j \in 1 .. n |-> [byte |-> 0, index |-> list[j] - list[1]]]
           Says(g) == [j \in 1 .. n |-> BitsFrom(list, g, j)]
           G == BitOf(list)
<1>1. n \in Nat /\ \A j \in 1 .. n : list[j] \in Int
  OBVIOUS
<1>2. \A j \in 1 .. n : list[j] - list[1] \in 0 .. 7
  BY SpanIs
<1> HIDE DEF n
<1>3. ASSUME NEW g, NEW j \in 1 .. n, j # 1,
             g[j - 1] = [byte |-> 0, index |-> list[j - 1] - list[1]]
      PROVE  BitsFrom(list, g, j) = [byte |-> 0, index |-> list[j] - list[1]]
  <2>1. j - 1 \in 1 .. n /\ list[j - 1] \in Int /\ list[j] \in Int /\ list[1] \in Int
    BY <1>1, <1>3, SMTT(30)
  <2>2. g[j - 1].index + list[j] - list[j - 1] = list[j] - list[1]
    BY <1>3, <2>1
  <2>3. list[j] - list[1] # 8
    <3>1. \A x \in 0 .. 7 : x # 8
      OBVIOUS
    <3>2. list[j] - list[1] \in 0 .. 7
      BY <1>2
    <3> QED BY <3>1, <3>2, Zenon
  <2>4. g[j - 1].byte = 0
    BY <1>3
  <2> QED BY <1>3, <2>2, <2>3, <2>4 DEF BitsFrom
<1>4. h = Says(h)
  <2> SUFFICES ASSUME NEW j \in 1 .. n PROVE h[j] = BitsFrom(list, h, j)
    OBVIOUS
  <2>1. CASE j = 1
    BY <1>1, <2>1 DEF BitsFrom
  <2>2. CASE j # 1
    <3>1. j - 1 \in 1 .. n
      BY <1>1, <2>2
    <3>2. h[j - 1] = [byte |-> 0, index |-> list[j - 1] - list[1]]
      BY <3>1
    <3>3. h[j] = [byte |-> 0, index |-> list[j] - list[1]]
      OBVIOUS
    <3> HIDE DEF h
    <3> QED BY <1>3, <2>2, <3>2, <3>3
  <2> QED BY <2>1, <2>2
<1>5. G = CHOOSE g : g = Says(g)
  BY DEF BitOf, BitsFrom, n
<1>6. G = Says(G)
  <2> HIDE DEF h, Says, G
  <2> QED BY <1>4, <1>5
<1> HIDE DEF h, G
<1>7. \A j \in 1 .. n : G[j] = BitsFrom(list, G, j)
  BY <1>6
<1> DEFINE Right(j) == G[j] = [byte |-> 0, index |-> list[j] - list[1]]
           T == {i \in 0 .. n : i = 0 \/ Right(i)}
<1>8. ASSUME NEW i \in 1 .. n, i - 1 \in T PROVE i \in T
  <2>1. CASE i = 1
    <3>1. G[1] = [byte |-> 0, index |-> 0]
      BY <1>7, <2>1 DEF BitsFrom
    <3>2. list[1] - list[1] = 0
      BY <1>1, <2>1
    <3> QED BY <2>1, <3>1, <3>2
  <2>2. CASE i # 1
    <3>1. Right(i - 1)
      BY <1>8, <2>2
    <3>2. BitsFrom(list, G, i) = [byte |-> 0, index |-> list[i] - list[1]]
      BY <1>3, <2>2, <3>1
    <3>3. Right(i)
      BY <1>7, <3>2
    <3>4. i \in 0 .. n
      BY <1>1
    <3> QED BY <3>3, <3>4
  <2> QED BY <2>1, <2>2
<1>9. 0 .. n \subseteq T
  <2>1. 0 \in T
    BY <1>1
  <2> HIDE DEF T
  <2> QED BY <1>1, <1>8, <2>1, Upwards
<1>10. Right(k)
  BY <1>1, <1>9 DEF n
<1> QED BY <1>10 DEF G

LEMMA FecPacketRight ==
  ASSUME MasksFit, NEW P \in SUBSET Int, NEW list \in Seq(P), ListFits(list),
         NEW mask \in SUBSET (1 .. Len(list))
  PROVE  FecPacket(list, mask) \in FecOf(P)
<1> DEFINE zeroed == InsertZerosInBitMasks(list, mask)
           c == {list[k] : k \in mask}
<1>1. /\ \A k \in 1 .. Len(list) : list[k] \in P /\ list[k] \in Int
      /\ Len(list) \in Nat /\ list \in Seq(Int)
  <2>1. \A k \in 1 .. Len(list) : list[k] \in P
    OBVIOUS
  <2>2. P \subseteq Int
    OBVIOUS
  <2>3. Len(list) \in Nat
    OBVIOUS
  <2>4. list \in Seq(Int)
    BY <2>2, SeqMonotonic
  <2> QED BY <2>1, <2>2, <2>3, <2>4
<1>2. zeroed = {list[k] - list[1] : k \in mask}
  BY DEF InsertZerosInBitMasks
<1>3. \A k \in 1 .. Len(list) : list[k] - list[1] \in 0 .. 7
  BY <1>1, SpanIs
<1>4. c \in SUBSET P
  BY <1>1
<1>5. Protects(list, zeroed) = c
  <2>1. ASSUME NEW k \in 1 .. Len(list)
        PROVE  LET at == BitOf(list)[k]
               IN  (at.index < 8 /\ 8 * at.byte + at.index \in zeroed) <=> list[k] \in c
    <3>1. BitOf(list)[k] = [byte |-> 0, index |-> list[k] - list[1]]
      BY <1>1, BitsAre
    <3>2. list[k] - list[1] \in zeroed <=> list[k] \in c
      <4>1. list[k] - list[1] \in zeroed <=> \E j \in mask : list[k] - list[1] = list[j] - list[1]
        BY <1>2
      <4>2. \A j \in mask : list[k] - list[1] = list[j] - list[1] <=> list[k] = list[j]
        <5>1. list[1] \in Int /\ list[k] \in Int /\ \A j \in mask : list[j] \in Int
          BY <1>1
        <5> QED BY <5>1
      <4> QED BY <4>1, <4>2
    <3>3. list[k] - list[1] < 8 /\ 8 * 0 + (list[k] - list[1]) = list[k] - list[1]
      BY <1>3
    <3> QED BY <3>1, <3>2, <3>3
  <2>2. Protects(list, zeroed) = {list[k] : k \in {k \in 1 .. Len(list) : list[k] \in c}}
    BY <2>1 DEF Protects
  <2> QED BY <1>1, <2>2
<1>6. {SeqNum(list[1] + bit) : bit \in zeroed} = Numbers(c)
  <2>1. \A k \in mask : list[1] + (list[k] - list[1]) = list[k]
    <3>1. \A k \in mask : list[1] \in Int /\ list[k] \in Int
      BY <1>1
    <3> QED BY <3>1
  <2>2. {SeqNum(list[1] + bit) : bit \in zeroed}
          = {SeqNum(list[1] + (list[k] - list[1])) : k \in mask}
    BY <1>2
  <2>3. {SeqNum(list[1] + (list[k] - list[1])) : k \in mask} = {SeqNum(list[k]) : k \in mask}
    BY <2>1
  <2>4. Numbers(c) = {SeqNum(list[k]) : k \in mask}
    BY DEF Numbers
  <2> QED BY <2>2, <2>3, <2>4
<1>7. FecPacket(list, mask) = [fec |-> TRUE, covers |-> Numbers(c), content |-> c]
  BY <1>5, <1>6 DEF FecPacket
<1>8. Numbers(c) \in SUBSET Nat
  <2>1. c \in SUBSET Int
    BY <1>4
  <2> QED BY <2>1, NumbersFinite
<1> HIDE DEF c
<1> QED BY <1>4, <1>7, <1>8 DEF FecOf

\* The masks of the tables are of the packets there are.
LEMMA Lists ==
  ASSUME NEW S, NEW a \in S, NEW b \in S, NEW c \in S, NEW d \in S
  PROVE  /\ <<a>> \in Seq(S) /\ <<a, b>> \in Seq(S)
         /\ <<a, b, c>> \in Seq(S) /\ <<a, b, c, d>> \in Seq(S)
  OBVIOUS

LEMMA RandomMasks ==
  ASSUME NEW n \in 1 .. 4, NEW k \in 1 .. n
  PROVE  kPacketMaskRandomTbl[n][k] \in Seq(SUBSET (1 .. n))
<1> DEFINE t == kPacketMaskRandomTbl
<1>1. CASE n = 1
  <2> DEFINE S == SUBSET (1 .. 1)
  <2>1. {{1}} \subseteq S
    OBVIOUS
  <2>2. t[1] = << <<{1}>> >>
    BY DEF kPacketMaskRandomTbl
  <2>3. CASE k = 1
    <3>1. t[1][1] = <<{1}>>
      BY <2>2
    <3>2. <<{1}>> \in Seq(S)
      <4> HIDE DEF S
      <4> QED BY <2>1, Lists
    <3> QED BY <1>1, <2>3, <3>1, <3>2
  <2> QED BY <1>1, <2>3
<1>2. CASE n = 2
  <2> DEFINE S == SUBSET (1 .. 2)
  <2>1. {{1, 2}, {1}} \subseteq S
    OBVIOUS
  <2>2. t[2] = << <<{1, 2}>>, <<{1, 2}, {1}>> >>
    BY DEF kPacketMaskRandomTbl
  <2>3. CASE k = 1
    <3>1. t[2][1] = <<{1, 2}>>
      BY <2>2
    <3>2. <<{1, 2}>> \in Seq(S)
      <4> HIDE DEF S
      <4> QED BY <2>1, Lists
    <3> QED BY <1>2, <2>3, <3>1, <3>2
  <2>4. CASE k = 2
    <3>1. t[2][2] = <<{1, 2}, {1}>>
      BY <2>2
    <3>2. <<{1, 2}, {1}>> \in Seq(S)
      <4> HIDE DEF S
      <4> QED BY <2>1, Lists
    <3> QED BY <1>2, <2>4, <3>1, <3>2
  <2> QED BY <1>2, <2>3, <2>4
<1>3. CASE n = 3
  <2> DEFINE S == SUBSET (1 .. 3)
  <2>1. {{1, 2, 3}, {1, 2}, {1, 3}, {2, 3}} \subseteq S
    OBVIOUS
  <2>2. t[3] = << <<{1, 2, 3}>>, <<{1, 2}, {1, 3}>>, <<{1, 2}, {1, 3}, {2, 3}>> >>
    BY DEF kPacketMaskRandomTbl
  <2>3. CASE k = 1
    <3>1. t[3][1] = <<{1, 2, 3}>>
      BY <2>2
    <3>2. <<{1, 2, 3}>> \in Seq(S)
      <4> HIDE DEF S
      <4> QED BY <2>1, Lists
    <3> QED BY <1>3, <2>3, <3>1, <3>2
  <2>4. CASE k = 2
    <3>1. t[3][2] = <<{1, 2}, {1, 3}>>
      BY <2>2
    <3>2. <<{1, 2}, {1, 3}>> \in Seq(S)
      <4> HIDE DEF S
      <4> QED BY <2>1, Lists
    <3> QED BY <1>3, <2>4, <3>1, <3>2
  <2>5. CASE k = 3
    <3>1. t[3][3] = <<{1, 2}, {1, 3}, {2, 3}>>
      BY <2>2
    <3>2. <<{1, 2}, {1, 3}, {2, 3}>> \in Seq(S)
      <4> HIDE DEF S
      <4> QED BY <2>1, Lists
    <3> QED BY <1>3, <2>5, <3>1, <3>2
  <2> QED BY <1>3, <2>3, <2>4, <2>5
<1>4. CASE n = 4
  <2> DEFINE S == SUBSET (1 .. 4)
  <2>1. {{1, 2, 3, 4}, {1, 2}, {1, 3, 4}, {1, 3}, {2, 3}, {2, 4}, {3, 4}} \subseteq S
    OBVIOUS
  <2>2. t[4] = << <<{1, 2, 3, 4}>>, <<{1, 2}, {1, 3, 4}>>, <<{1, 2}, {1, 3, 4}, {2, 3}>>,
                  <<{1, 2}, {1, 3}, {3, 4}, {2, 4}>> >>
    BY DEF kPacketMaskRandomTbl
  <2>3. CASE k = 1
    <3>1. t[4][1] = <<{1, 2, 3, 4}>>
      BY <2>2
    <3>2. <<{1, 2, 3, 4}>> \in Seq(S)
      <4> HIDE DEF S
      <4> QED BY <2>1, Lists
    <3> QED BY <1>4, <2>3, <3>1, <3>2
  <2>4. CASE k = 2
    <3>1. t[4][2] = <<{1, 2}, {1, 3, 4}>>
      BY <2>2
    <3>2. <<{1, 2}, {1, 3, 4}>> \in Seq(S)
      <4> HIDE DEF S
      <4> QED BY <2>1, Lists
    <3> QED BY <1>4, <2>4, <3>1, <3>2
  <2>5. CASE k = 3
    <3>1. t[4][3] = <<{1, 2}, {1, 3, 4}, {2, 3}>>
      BY <2>2
    <3>2. <<{1, 2}, {1, 3, 4}, {2, 3}>> \in Seq(S)
      <4> HIDE DEF S
      <4> QED BY <2>1, Lists
    <3> QED BY <1>4, <2>5, <3>1, <3>2
  <2>6. CASE k = 4
    <3>1. t[4][4] = <<{1, 2}, {1, 3}, {3, 4}, {2, 4}>>
      BY <2>2
    <3>2. <<{1, 2}, {1, 3}, {3, 4}, {2, 4}>> \in Seq(S)
      <4> HIDE DEF S
      <4> QED BY <2>1, Lists
    <3> QED BY <1>4, <2>6, <3>1, <3>2
  <2> QED BY <1>4, <2>3, <2>4, <2>5, <2>6
<1> QED BY <1>1, <1>2, <1>3, <1>4

LEMMA BurstyMasks ==
  ASSUME NEW n \in 1 .. 4, NEW k \in 1 .. n
  PROVE  kPacketMaskBurstyTbl[n][k] \in Seq(SUBSET (1 .. n))
<1> DEFINE t == kPacketMaskBurstyTbl
<1>1. CASE n = 1
  <2> DEFINE S == SUBSET (1 .. 1)
  <2>1. {{1}} \subseteq S
    OBVIOUS
  <2>2. t[1] = << <<{1}>> >>
    BY DEF kPacketMaskBurstyTbl
  <2>3. CASE k = 1
    <3>1. t[1][1] = <<{1}>>
      BY <2>2
    <3>2. <<{1}>> \in Seq(S)
      <4> HIDE DEF S
      <4> QED BY <2>1, Lists
    <3> QED BY <1>1, <2>3, <3>1, <3>2
  <2> QED BY <1>1, <2>3
<1>2. CASE n = 2
  <2> DEFINE S == SUBSET (1 .. 2)
  <2>1. {{1, 2}, {1}} \subseteq S
    OBVIOUS
  <2>2. t[2] = << <<{1, 2}>>, <<{1}, {1, 2}>> >>
    BY DEF kPacketMaskBurstyTbl
  <2>3. CASE k = 1
    <3>1. t[2][1] = <<{1, 2}>>
      BY <2>2
    <3>2. <<{1, 2}>> \in Seq(S)
      <4> HIDE DEF S
      <4> QED BY <2>1, Lists
    <3> QED BY <1>2, <2>3, <3>1, <3>2
  <2>4. CASE k = 2
    <3>1. t[2][2] = <<{1}, {1, 2}>>
      BY <2>2
    <3>2. <<{1}, {1, 2}>> \in Seq(S)
      <4> HIDE DEF S
      <4> QED BY <2>1, Lists
    <3> QED BY <1>2, <2>4, <3>1, <3>2
  <2> QED BY <1>2, <2>3, <2>4
<1>3. CASE n = 3
  <2> DEFINE S == SUBSET (1 .. 3)
  <2>1. {{1, 2, 3}, {1, 2}, {1, 3}, {1}, {2, 3}} \subseteq S
    OBVIOUS
  <2>2. t[3] = << <<{1, 2, 3}>>, <<{1, 2}, {1, 3}>>, <<{1}, {1, 2}, {2, 3}>> >>
    BY DEF kPacketMaskBurstyTbl
  <2>3. CASE k = 1
    <3>1. t[3][1] = <<{1, 2, 3}>>
      BY <2>2
    <3>2. <<{1, 2, 3}>> \in Seq(S)
      <4> HIDE DEF S
      <4> QED BY <2>1, Lists
    <3> QED BY <1>3, <2>3, <3>1, <3>2
  <2>4. CASE k = 2
    <3>1. t[3][2] = <<{1, 2}, {1, 3}>>
      BY <2>2
    <3>2. <<{1, 2}, {1, 3}>> \in Seq(S)
      <4> HIDE DEF S
      <4> QED BY <2>1, Lists
    <3> QED BY <1>3, <2>4, <3>1, <3>2
  <2>5. CASE k = 3
    <3>1. t[3][3] = <<{1}, {1, 2}, {2, 3}>>
      BY <2>2
    <3>2. <<{1}, {1, 2}, {2, 3}>> \in Seq(S)
      <4> HIDE DEF S
      <4> QED BY <2>1, Lists
    <3> QED BY <1>3, <2>5, <3>1, <3>2
  <2> QED BY <1>3, <2>3, <2>4, <2>5
<1>4. CASE n = 4
  <2> DEFINE S == SUBSET (1 .. 4)
  <2>1. {{1, 2, 3, 4}, {1, 2, 4}, {1, 2}, {1, 3}, {1, 4}, {1}, {2, 3}, {3, 4}} \subseteq S
    OBVIOUS
  <2>2. t[4] = << <<{1, 2, 3, 4}>>, <<{1, 3}, {1, 2, 4}>>, <<{1, 2}, {2, 3}, {1, 4}>>,
                  <<{1}, {1, 2}, {2, 3}, {3, 4}>> >>
    BY DEF kPacketMaskBurstyTbl
  <2>3. CASE k = 1
    <3>1. t[4][1] = <<{1, 2, 3, 4}>>
      BY <2>2
    <3>2. <<{1, 2, 3, 4}>> \in Seq(S)
      <4> HIDE DEF S
      <4> QED BY <2>1, Lists
    <3> QED BY <1>4, <2>3, <3>1, <3>2
  <2>4. CASE k = 2
    <3>1. t[4][2] = <<{1, 3}, {1, 2, 4}>>
      BY <2>2
    <3>2. <<{1, 3}, {1, 2, 4}>> \in Seq(S)
      <4> HIDE DEF S
      <4> QED BY <2>1, Lists
    <3> QED BY <1>4, <2>4, <3>1, <3>2
  <2>5. CASE k = 3
    <3>1. t[4][3] = <<{1, 2}, {2, 3}, {1, 4}>>
      BY <2>2
    <3>2. <<{1, 2}, {2, 3}, {1, 4}>> \in Seq(S)
      <4> HIDE DEF S
      <4> QED BY <2>1, Lists
    <3> QED BY <1>4, <2>5, <3>1, <3>2
  <2>6. CASE k = 4
    <3>1. t[4][4] = <<{1}, {1, 2}, {2, 3}, {3, 4}>>
      BY <2>2
    <3>2. <<{1}, {1, 2}, {2, 3}, {3, 4}>> \in Seq(S)
      <4> HIDE DEF S
      <4> QED BY <2>1, Lists
    <3> QED BY <1>4, <2>6, <3>1, <3>2
  <2> QED BY <1>4, <2>3, <2>4, <2>5, <2>6
<1> QED BY <1>1, <1>2, <1>3, <1>4

\* No more FEC packets are made than there are packets.
LEMMA NumberOfFecs ==
  ASSUME NEW n \in 1 .. 4, NEW level \in 0 .. 255
  PROVE  GetNumberOfFecPackets(n, level) \in 0 .. n
<1> DEFINE x == (n * level + 128) \div 256
<1>1. x \in 0 .. n
  <2>1. CASE n = 1
    BY <2>1
  <2>2. CASE n = 2
    BY <2>2
  <2>3. CASE n = 3
    BY <2>3
  <2>4. CASE n = 4
    BY <2>4
  <2> QED BY <2>1, <2>2, <2>3, <2>4
<1> HIDE DEF x
<1>2. Max({1, x}) \in {1, x}
  <2>1. \E m \in {1, x} : \A y \in {1, x} : m >= y
    BY <1>1
  <2> QED BY <2>1 DEF Max
<1>3. GetNumberOfFecPackets(n, level) = IF level > 0 THEN Max({1, x}) ELSE 0
  BY DEF GetNumberOfFecPackets, x
<1> QED BY <1>1, <1>2, <1>3

LEMMA MasksRight ==
  ASSUME NEW n \in 1 .. 4, NEW level \in 0 .. 255,
         NEW masks \in GeneratePacketMasks(n, level)
  PROVE  masks \in Seq(SUBSET (1 .. n))
<1> DEFINE number == GetNumberOfFecPackets(n, level)
<1>1. number \in 0 .. n
  BY NumberOfFecs
<1>2. \/ number = 0 /\ masks = <<>>
      \/ number # 0 /\ masks = kPacketMaskRandomTbl[n][number]
      \/ number # 0 /\ masks = kPacketMaskBurstyTbl[n][number]
  BY DEF GeneratePacketMasks
<1> HIDE DEF number
<1>3. number # 0 => number \in 1 .. n
  BY <1>1
<1>4. CASE masks = <<>>
  BY <1>4
<1>5. CASE number # 0 /\ masks = kPacketMaskRandomTbl[n][number]
  BY <1>3, <1>5, RandomMasks
<1>6. CASE number # 0 /\ masks = kPacketMaskBurstyTbl[n][number]
  BY <1>3, <1>6, BurstyMasks
<1> QED BY <1>2, <1>4, <1>5, <1>6

-----------------------------------------------------------------------------
(* The actions keep the invariant. *)

LEMMA FecStarts == FecInit => FecInv
<1> SUFFICES ASSUME FecInit PROVE FecInv
  OBVIOUS
<1>1. ProducerInv
  <2>1. FirstPlace \in Nat /\ kMaxMediaPackets \in Nat
    BY FecAssumption
  <2>2. /\ nextPlace = FirstPlace /\ protectedMedia = <<>> /\ toSend = <<>>
        /\ fecRate = 0 /\ newRate = 0 /\ fecNetwork = {}
    BY DEF FecInit
  <2>3. ListFits(<<>>)
    BY <2>1 DEF ListFits
  <2> QED BY <2>1, <2>2, <2>3 DEF ProducerInv
<1>2. NewReceiver \in Receivers(Sent)
  <2>1. <<>> \in Seq(OnNetwork(Sent)) /\ IsFiniteSet({})
    BY FS_EmptySet
  <2> QED BY <2>1 DEF NewReceiver, Receivers
<1>3. receiver = NewReceiver
  BY DEF FecInit
<1> QED BY <1>1, <1>2, <1>3 DEF FecInv

LEMMA ProducerIs ==
  ASSUME ProducerInv
  PROVE  /\ nextPlace \in Nat /\ FirstPlace \in Nat /\ FirstPlace <= nextPlace
         /\ protectedMedia \in Seq(Sent) /\ ListFits(protectedMedia)
         /\ toSend \in Seq(FecOf(Sent)) /\ fecNetwork \subseteq OnNetwork(Sent)
         /\ fecRate \in 0 .. 255 /\ newRate \in 0 .. 255
         /\ Sent \in SUBSET Int
  BY FecAssumption DEF ProducerInv, Sent

LEMMA MoreFec ==
  ASSUME NEW P, NEW Q, P \subseteq Q
  PROVE  FecOf(P) \subseteq FecOf(Q)
  BY DEF FecOf

\* A packet put at the end of the list is near the one before it.
LEMMA AppendFits ==
  ASSUME MasksFit, ProducerInv, toSend = <<>>, Len(protectedMedia) < kMaxMediaPackets,
         NEW skip \in Skips
  PROVE  ListFits(Append(protectedMedia, nextPlace + skip))
<1> DEFINE l == protectedMedia
           n == Len(l)
           place == nextPlace + skip
           list == Append(l, place)
<1>1. /\ n \in Nat /\ n + 1 <= kMaxMediaPackets /\ kMaxMediaPackets \in 1 .. 4
      /\ nextPlace \in Nat /\ skip \in Nat /\ place \in Int
  BY ProducerIs, GapIs, FecAssumption
<1>2. /\ \A k \in 1 .. n : l[k] \in Int /\ l[k] - l[1] \in 0 .. (k - 1) * MaxGap
      /\ n \in 1 .. kMaxMediaPackets - 1 => l[n] = nextPlace - 1
  <2>1. \A k \in 1 .. n : l[k] \in Int
    BY ProducerIs
  <2> QED BY <2>1 DEF ProducerInv, ListFits
<1>3. /\ Len(list) = n + 1 /\ list[n + 1] = place
      /\ \A k \in 1 .. n : list[k] = l[k]
  BY ProducerIs
<1> HIDE DEF l, n, place, list
<1>4. MaxGap \in 1 .. 7
  BY GapIs
<1>5. ASSUME NEW k \in 1 .. n + 1 PROVE list[k] - list[1] \in 0 .. (k - 1) * MaxGap
  <2>1. CASE k \in 1 .. n
    <3>1. 1 \in 1 .. n
      BY <1>1, <2>1
    <3> QED BY <1>2, <1>3, <2>1, <3>1
  <2>2. CASE k = n + 1 /\ n = 0
    <3>1. list[k] - list[1] = 0 /\ (k - 1) * MaxGap = 0
      BY <1>1, <1>3, <1>4, <2>2
    <3> QED BY <3>1
  <2>3. CASE k = n + 1 /\ n # 0
    <3> DEFINE m == (n - 1) * MaxGap
               d == l[n] - l[1]
    <3>1. n \in 1 .. n /\ 1 \in 1 .. n /\ n \in 1 .. kMaxMediaPackets - 1
      BY <1>1, <2>3
    <3>2. /\ d \in 0 .. m /\ l[n] \in Int /\ l[1] \in Int
          /\ list[1] = l[1] /\ list[k] = place /\ l[n] = nextPlace - 1
      BY <1>2, <1>3, <2>3, <3>1
    <3>3. skip + 1 \in 1 .. MaxGap
      <4>1. kMaxMediaPackets > 1
        BY <1>1, <3>1
      <4> QED BY <4>1, GapIs
    <3>4. (k - 1) * MaxGap = m + MaxGap
      <4>1. n * MaxGap = (n - 1) * MaxGap + MaxGap
        BY <1>1, <1>4
      <4>2. k - 1 = n
        BY <1>1, <2>3
      <4> QED BY <4>1, <4>2
    <3>5. m \in Int
      BY <1>1, <1>4
    <3>6. list[k] - list[1] = d + (skip + 1)
      <4>1. place - l[1] = (l[n] - l[1]) + (skip + 1)
        <5>1. place = l[n] + (skip + 1)
          BY <1>1, <3>2 DEF place
        <5>2. place \in Int /\ skip + 1 \in Int
          BY <1>1
        <5> HIDE DEF m, d
        <5> QED BY <3>2, <5>1, <5>2
      <4> QED BY <3>2, <4>1
    <3>7. d \in 0 .. m
      BY <3>2
    <3> HIDE DEF m, d
    <3> QED BY <1>4, <3>3, <3>4, <3>5, <3>6, <3>7
  <2> QED BY <1>1, <2>1, <2>2, <2>3
<1> QED BY <1>1, <1>3, <1>5 DEF ListFits, list, place, l

LEMMA SendKept ==
  ASSUME MasksFit, ProducerInv, NEW skip \in Skips, NEW marker \in BOOLEAN,
         SendVideoPacket(skip, marker)
  PROVE  ProducerInv' /\ nextPlace <= nextPlace' /\ receiver' = receiver
<1> DEFINE place == nextPlace + skip
           list == IF Len(protectedMedia) < kMaxMediaPackets
                   THEN Append(protectedMedia, place) ELSE protectedMedia
           level == IF protectedMedia = <<>> THEN newRate ELSE fecRate
           n == Len(list)
           Media == {[place |-> p, fec |-> FALSE, covers |-> {},
                        content |-> {p}] : p \in nextPlace .. place}
<1>1. /\ toSend = <<>> /\ nextPlace' = place + 1 /\ fecRate' = level /\ newRate' = newRate
      /\ fecNetwork' = fecNetwork \cup Media /\ receiver' = receiver
  BY DEF SendVideoPacket, receiverVars
<1>2. \/ protectedMedia' = list /\ toSend' = toSend
      \/ /\ \E masks \in GeneratePacketMasks(n, level) :
              toSend' = [i \in DOMAIN masks |-> FecPacket(list, masks[i])]
         /\ protectedMedia' = IF toSend' = <<>> THEN <<>> ELSE list
  BY DEF SendVideoPacket
<1>3. /\ nextPlace \in Nat /\ FirstPlace \in Nat /\ FirstPlace <= nextPlace /\ skip \in Nat
      /\ place \in Nat /\ nextPlace <= place
  BY ProducerIs, FecAssumption
<1>4. Sent \subseteq Sent' /\ place \in Sent' /\ nextPlace .. place \subseteq Sent'
      /\ Sent' \in SUBSET Int
  BY <1>1, <1>3 DEF Sent
<1>5. list \in Seq(Sent')
  <2>1. protectedMedia \in Seq(Sent')
    BY <1>4, ProducerIs, SeqMonotonic
  <2> HIDE DEF place
  <2> QED BY <1>4, <2>1
<1>6. ListFits(list)
  BY <1>1, ProducerIs, AppendFits
<1>7. n \in 1 .. 4
  <2>1. n <= kMaxMediaPackets /\ kMaxMediaPackets \in 1 .. 4 /\ n \in Nat
    BY <1>5, <1>6, GapIs DEF ListFits
  <2>2. n # 0
    <3>1. Len(protectedMedia) \in Nat
      BY ProducerIs
    <3>2. CASE Len(protectedMedia) < kMaxMediaPackets
      <4>1. list = Append(protectedMedia, place)
        BY <3>2
      <4>2. n = Len(protectedMedia) + 1
        BY <4>1, ProducerIs
      <4> QED BY <3>1, <4>2
    <3>3. CASE ~(Len(protectedMedia) < kMaxMediaPackets)
      BY <2>1, <3>1, <3>3
    <3> QED BY <3>2, <3>3
  <2> HIDE DEF n
  <2> QED BY <2>1, <2>2
<1>8. n \in 1 .. kMaxMediaPackets - 1 => list[n] = place
  <2> SUFFICES ASSUME n \in 1 .. kMaxMediaPackets - 1 PROVE list[n] = place
    OBVIOUS
  <2>1. Len(protectedMedia) < kMaxMediaPackets
    <3>1. kMaxMediaPackets \in Int
      BY GapIs
    <3> QED BY <3>1
  <2>2. list = Append(protectedMedia, place)
    BY <2>1
  <2> QED BY <2>2, ProducerIs
<1>9. level \in 0 .. 255
  BY ProducerIs
<1> HIDE DEF list, level, n
<1>10. toSend' \in Seq(FecOf(Sent'))
  <2>1. CASE toSend' = toSend
    BY <1>1, <2>1
  <2>2. ASSUME NEW masks \in GeneratePacketMasks(n, level),
               toSend' = [i \in DOMAIN masks |-> FecPacket(list, masks[i])]
        PROVE  toSend' \in Seq(FecOf(Sent'))
    <3>1. masks \in Seq(SUBSET (1 .. n))
      BY <1>7, <1>9, MasksRight
    <3>2. /\ DOMAIN masks = 1 .. Len(masks) /\ Len(masks) \in Nat
          /\ \A i \in 1 .. Len(masks) : masks[i] \in SUBSET (1 .. Len(list))
      BY <3>1 DEF n
    <3>3. \A i \in 1 .. Len(masks) : FecPacket(list, masks[i]) \in FecOf(Sent')
      BY <1>4, <1>5, <1>6, <3>2, FecPacketRight
    <3>4. toSend' \in [1 .. Len(masks) -> FecOf(Sent')]
      BY <2>2, <3>2, <3>3
    <3> QED BY <3>2, <3>4, SeqDef
  <2> QED BY <1>2, <2>1, <2>2
<1>11. fecNetwork' \subseteq OnNetwork(Sent')
  <2>1. fecNetwork \subseteq OnNetwork(Sent')
    BY <1>4, ProducerIs, MoreNetwork
  <2>2. ASSUME NEW p \in nextPlace .. place
        PROVE  [place |-> p, fec |-> FALSE, covers |-> {}, content |-> {p}]
                 \in OnNetwork(Sent')
    <3>1. p \in Sent'
      BY <1>4
    <3> QED BY <3>1 DEF OnNetwork
  <2> QED BY <1>1, <2>1, <2>2
<1>12. protectedMedia' \in Seq(Sent') /\ ListFits(protectedMedia')
  <2>1. protectedMedia' = list \/ protectedMedia' = <<>>
    BY <1>2
  <2>2. ListFits(<<>>) /\ <<>> \in Seq(Sent')
    BY GapIs DEF ListFits
  <2>3. CASE protectedMedia' = list
    BY <1>5, <1>6, <2>3
  <2>4. CASE protectedMedia' = <<>>
    BY <2>2, <2>4
  <2> QED BY <2>1, <2>3, <2>4
<1>13. (toSend = <<>> /\ Len(protectedMedia) \in 1 .. kMaxMediaPackets - 1
           => protectedMedia[Len(protectedMedia)] = nextPlace - 1)'
  <2>1. CASE protectedMedia' = list
    <3>1. nextPlace' - 1 = place
      BY <1>1, <1>3
    <3> QED BY <1>8, <2>1, <3>1 DEF n
  <2>2. CASE protectedMedia' = <<>>
    <3>1. Len(protectedMedia') = 0
      BY <2>2
    <3> QED BY <3>1
  <2> QED BY <1>2, <2>1, <2>2
<1>14. nextPlace' \in Nat /\ FirstPlace <= nextPlace' /\ nextPlace <= nextPlace'
  BY <1>1, <1>3
<1>15. fecRate' \in 0 .. 255 /\ newRate' \in 0 .. 255
  BY <1>1, <1>9, ProducerIs
<1>16. ListFits(protectedMedia)'
  BY <1>12 DEF ListFits
<1> QED BY <1>1, <1>10, <1>11, <1>12, <1>13, <1>14, <1>15, <1>16 DEF ProducerInv

LEMMA GetFecKept ==
  ASSUME ProducerInv, GetFecPacket
  PROVE  ProducerInv' /\ nextPlace <= nextPlace' /\ receiver' = receiver
<1> DEFINE g == Head(toSend)
           packet == [place |-> nextPlace, fec |-> TRUE, covers |-> g.covers,
                      content |-> g.content]
<1>1. /\ toSend # <<>> /\ nextPlace' = nextPlace + 1 /\ toSend' = Tail(toSend)
      /\ fecNetwork' = fecNetwork \cup {packet}
      /\ fecRate' = fecRate /\ newRate' = newRate /\ receiver' = receiver
  BY DEF GetFecPacket, receiverVars
<1>2. \/ protectedMedia' = <<>>
      \/ toSend' # <<>> /\ protectedMedia' = protectedMedia
  BY DEF GetFecPacket
<1>3. /\ Sent \subseteq Sent' /\ nextPlace \in Sent'
      /\ nextPlace' \in Nat /\ FirstPlace <= nextPlace' /\ nextPlace <= nextPlace'
  BY <1>1, ProducerIs DEF Sent
<1>4. g \in FecOf(Sent') /\ toSend' \in Seq(FecOf(Sent'))
  <2>1. toSend \in Seq(FecOf(Sent'))
    BY <1>3, ProducerIs, MoreFec, SeqMonotonic
  <2> QED BY <1>1, <2>1
<1>5. packet \in OnNetwork(Sent')
  <2> HIDE DEF g
  <2>1. /\ g.covers \in SUBSET Nat /\ g.content \in SUBSET Sent'
        /\ g.covers = Numbers(g.content)
    BY <1>4 DEF FecOf
  <2> QED BY <1>3, <2>1 DEF OnNetwork
<1> HIDE DEF packet
<1>6. fecNetwork' \subseteq OnNetwork(Sent')
  <2>1. fecNetwork \subseteq OnNetwork(Sent')
    BY <1>3, ProducerIs, MoreNetwork
  <2> QED BY <1>1, <1>5, <2>1
<1>7. protectedMedia' \in Seq(Sent') /\ ListFits(protectedMedia')
  <2>1. <<>> \in Seq(Sent') /\ ListFits(<<>>)
    BY FecAssumption DEF ListFits
  <2>2. protectedMedia \in Seq(Sent') /\ ListFits(protectedMedia)
    BY <1>3, ProducerIs, SeqMonotonic
  <2>3. CASE protectedMedia' = <<>>
    BY <2>1, <2>3
  <2>4. CASE protectedMedia' = protectedMedia
    BY <2>2, <2>4
  <2> QED BY <1>2, <2>3, <2>4
<1>8. (toSend = <<>> /\ Len(protectedMedia) \in 1 .. kMaxMediaPackets - 1
         => protectedMedia[Len(protectedMedia)] = nextPlace - 1)'
  <2>1. CASE protectedMedia' = <<>>
    <3>1. Len(protectedMedia') = 0
      BY <2>1
    <3> QED BY <3>1
  <2>2. CASE toSend' # <<>>
    BY <2>2
  <2> QED BY <1>2, <2>1, <2>2
<1>9. fecRate' \in 0 .. 255 /\ newRate' \in 0 .. 255
  BY <1>1, ProducerIs
<1>10. ListFits(protectedMedia)'
  BY <1>7 DEF ListFits
<1>11. receiver' = receiver
  BY <1>1
<1> QED BY <1>3, <1>4, <1>6, <1>7, <1>8, <1>9, <1>10, <1>11 DEF ProducerInv

LEMMA SetRateKept ==
  ASSUME ProducerInv, NEW level \in FecRates, SetFecParameters(level)
  PROVE  ProducerInv' /\ nextPlace <= nextPlace' /\ receiver' = receiver
<1>1. /\ nextPlace' = nextPlace /\ protectedMedia' = protectedMedia /\ fecRate' = fecRate
      /\ toSend' = toSend /\ fecNetwork' = fecNetwork /\ receiver' = receiver
      /\ newRate' = level
  BY DEF SetFecParameters, receiverVars
<1>2. level \in 0 .. 255
  BY FecAssumption
<1>3. Sent' = Sent
  BY <1>1 DEF Sent
<1>4. nextPlace <= nextPlace'
  BY <1>1, ProducerIs
<1> QED BY <1>1, <1>2, <1>3, <1>4 DEF ProducerInv, ListFits

LEMMA ProducerRests ==
  ASSUME ProducerInv, UNCHANGED producerVars
  PROVE  ProducerInv' /\ Sent' = Sent /\ nextPlace' = nextPlace
<1>1. /\ nextPlace' = nextPlace /\ protectedMedia' = protectedMedia /\ fecRate' = fecRate
      /\ toSend' = toSend /\ fecNetwork' = fecNetwork /\ newRate' = newRate
  BY DEF producerVars
<1>2. Sent' = Sent
  BY <1>1 DEF Sent
<1> QED BY <1>1, <1>2 DEF ProducerInv, ListFits

LEMMA RangeGrows ==
  ASSUME NEW a \in Int, NEW b \in Int, NEW c \in Int, b <= c
  PROVE  a .. b - 1 \subseteq a .. c - 1
  OBVIOUS

LEMMA RangeFewer ==
  ASSUME NEW a \in Int, NEW b \in Int, NEW c \in Int, b <= c, NEW d \in Int, c - a <= d
  PROVE  b - a <= d
  OBVIOUS

LEMMA SentGrows ==
  ASSUME nextPlace \in Nat, FirstPlace \in Nat, nextPlace' \in Nat, nextPlace <= nextPlace'
  PROVE  Sent \subseteq Sent' /\ (NumbersAreUnique' => NumbersAreUnique)
<1>1. nextPlace \in Int /\ FirstPlace \in Int /\ nextPlace' \in Int
  OBVIOUS
<1>2. Sent \subseteq Sent'
  BY <1>1, RangeGrows, Zenon DEF Sent
<1>3. NumbersAreUnique' => NumbersAreUnique
  <2>1. SeqNumSpace \in Int
    BY DEF SeqNumSpace
  <2>2. nextPlace' - FirstPlace <= SeqNumSpace => nextPlace - FirstPlace <= SeqNumSpace
    BY <1>1, <2>1, RangeFewer
  <2> QED BY <2>2 DEF NumbersAreUnique
<1> QED BY <1>2, <1>3

LEMMA FecStep == MasksFit /\ FecInv /\ [FecNext]_fecVars => FecInv'
<1> SUFFICES ASSUME MasksFit, FecInv, [FecNext]_fecVars PROVE FecInv'
  OBVIOUS
<1>1. ProducerInv /\ (NumbersAreUnique => receiver \in Receivers(Sent))
  BY DEF FecInv
\* While the sender works, the receiver's packets stay among those sent.
<1>2. ASSUME ProducerInv', nextPlace <= nextPlace', receiver' = receiver PROVE FecInv'
  <2>1. Sent \subseteq Sent' /\ (NumbersAreUnique' => NumbersAreUnique)
    <3>1. /\ nextPlace \in Nat /\ FirstPlace \in Nat /\ nextPlace' \in Nat
      BY <1>1, <1>2, ProducerIs DEF ProducerInv
    <3>2. nextPlace <= nextPlace'
      BY <1>2
    <3> QED BY <3>1, <3>2, SentGrows
  <2>2. Receivers(Sent) \subseteq Receivers(Sent')
    BY <2>1, MoreReceivers
  <2>3. NumbersAreUnique' => receiver' \in Receivers(Sent')
    BY <1>1, <1>2, <2>1, <2>2
  <2> QED BY <1>2, <2>3 DEF FecInv
<1>3. ASSUME NEW level \in FecRates, SetFecParameters(level) PROVE FecInv'
  BY <1>1, <1>2, <1>3, SetRateKept
<1>4. ASSUME NEW skip \in Skips, NEW marker \in BOOLEAN, SendVideoPacket(skip, marker)
      PROVE  FecInv'
  BY <1>1, <1>2, <1>4, SendKept
<1>5. CASE GetFecPacket
  BY <1>1, <1>2, <1>5, GetFecKept
<1>6. ASSUME NEW p \in fecNetwork, ProcessReceivedFEC(p) PROVE FecInv'
  <2>1. ProducerInv' /\ Sent' = Sent /\ nextPlace' = nextPlace
    <3>1. UNCHANGED producerVars
      BY <1>6 DEF ProcessReceivedFEC
    <3> QED BY <1>1, <3>1, ProducerRests
  <2>2. ASSUME NumbersAreUnique PROVE receiver' \in Receivers(Sent)
    <3>1. Unique(Sent)
      BY <1>1, <2>2, ProducerIs, FewAreUnique DEF Sent, NumbersAreUnique, SeqNumSpace
    <3>2. p \in OnNetwork(Sent)
      BY <1>1, ProducerIs
    <3>3. receiver \in Receivers(Sent)
      BY <1>1, <2>2
    <3> QED BY <1>6, <3>1, <3>2, <3>3, ReceiveKept
  <2>3. NumbersAreUnique' => NumbersAreUnique
    BY <2>1 DEF NumbersAreUnique
  <2> QED BY <2>1, <2>2, <2>3 DEF FecInv
<1>7. CASE UNCHANGED fecVars
  <2>1. UNCHANGED producerVars /\ receiver' = receiver
    BY <1>7 DEF fecVars, receiverVars
  <2>2. ProducerInv' /\ nextPlace' = nextPlace
    BY <1>1, <2>1, ProducerRests
  <2>3. nextPlace <= nextPlace'
    BY <1>1, <2>2, ProducerIs
  <2> QED BY <1>2, <2>1, <2>2, <2>3
<1> QED BY <1>3, <1>4, <1>5, <1>6, <1>7 DEF FecNext

LEMMA FecInvImplies ==
  ASSUME FecInv, NumbersAreUnique
  PROVE  RecoveredIsOriginal
<1>1. receiver.recovered \in SUBSET RecoveredFrom(Sent)
  BY ReceiverIs DEF FecInv
<1>2. Sent \subseteq FirstPlace .. nextPlace
  BY ProducerIs DEF FecInv, Sent
<1> SUFFICES ASSUME NEW q \in receiver.recovered
             PROVE  \E place \in FirstPlace .. nextPlace :
                      q.content = {place} /\ SeqNum(place) = q.seq
  BY DEF RecoveredIsOriginal
<1>3. \E x \in Sent : q.seq = SeqNum(x) /\ q.content = {x}
  BY <1>1 DEF RecoveredFrom
<1> QED BY <1>2, <1>3

\* As long as a number stands for one packet, every packet that the receiver has,
\* received or recovered, is the one that was sent under its number: with any
\* loss, repetition and order of packets, any rates, and gaps that the walk of
\* GenerateFecBitStrings over the mask stays within a byte with
\* (InsertZerosInBitMasks, AssignRecoveredPackets, RecoverPacket, AttemptRecover).
THEOREM RecoveredAreOriginal ==
  MasksFit => (FecSpec => [](NumbersAreUnique => RecoveredIsOriginal))
<1> SUFFICES ASSUME MasksFit
             PROVE  FecSpec => [](NumbersAreUnique => RecoveredIsOriginal)
  OBVIOUS
<1>1. FecInv /\ [FecNext]_fecVars => FecInv'
  BY FecStep
<1>2. FecInit => FecInv
  BY FecStarts
<1>3. FecInv => (NumbersAreUnique => RecoveredIsOriginal)
  BY FecInvImplies
<1> QED BY <1>1, <1>2, <1>3, PTL DEF FecSpec
=============================================================================
