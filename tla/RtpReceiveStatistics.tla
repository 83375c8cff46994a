----------------------- MODULE RtpReceiveStatistics -----------------------
(***************************************************************************)
(* What RTPReceiver knows of the stream it receives: the highest sequence  *)
(* number with the count of its wraps, and how many packets came in order  *)
(* and late, from which Statistics() estimates the loss of each RTCP       *)
(* report.  Packets are lost, repeated and come late; the code sees 16     *)
(* bits of their number.  In the model a packet is known by its place in   *)
(* the stream, a number that does not wrap.                                *)
(*                                                                         *)
(* All of it is done under one critical section, by the thread that        *)
(* receives, the one that sends the report and the application, so that    *)
(* every operation is one action.  Whether a late packet counts as old     *)
(* (resent) or as overtaken depends on the clock and the jitter: either.   *)
(***************************************************************************)
EXTENDS Integers, FiniteSets

CONSTANTS StreamPlaces,       \* places in the stream of the packets considered
          MaxLate,      \* by how much a packet may be late
          MaxAhead,     \* by how much the numbers may leap
          MaxArrivals,  \* bound: packets that arrive
          MaxReports,   \* bound: reports
          MaxResets     \* bound: resets of either kind

Wrap == 65536

(* No packet is later than MaxLate or further ahead than MaxAhead: 16 bits do
   not tell these from a restart of the sender.  The extended number of a
   report has 32 bits. *)
ASSUME ReceiveAssumption ==
  /\ MaxLate \in Nat /\ MaxLate <= 255 /\ MaxAhead \in Nat /\ MaxAhead <= 65026
  /\ \A place \in StreamPlaces : place \in Nat /\ place \div Wrap < Wrap

VARIABLES nackOn,     \* _nackMethod # kNackOff
          received,   \* the packets since the last reset of the statistics
          reported,   \* what the last report saw
          arrived,    \* places that arrived since the statistics were reset
          first,      \* the first of them, 0 when there is none
          covered,    \* the highest of them at the last report
          sinceLast,  \* what arrived since then
          report,     \* the last report
          arrivals, reports, resets

receiveVars == <<nackOn, received, reported, arrived, first, covered,
                 sinceLast, report, arrivals, reports, resets>>

NACK_PACKETS_MAX_SIZE == 256
Number(place) == place % Wrap
Highest == CHOOSE p \in arrived : \A q \in arrived : q <= p

NothingReceived == [seqFirst |-> 0, seqMax |-> 0, seqWraps |-> 0,
                    inorder |-> 0, old |-> 0, bytes |-> FALSE]
NothingReported == [inorder |-> 0, old |-> 0, seqMax |-> 0]
NoReport == [missing |-> 0, gaps |-> 0, resent |-> 0, exact |-> FALSE]
NothingNew == [old |-> 0, late |-> FALSE, wrapped |-> FALSE]

ReceiveInit ==
  /\ nackOn \in BOOLEAN
  /\ received = NothingReceived
  /\ reported = NothingReported
  /\ arrived = {}
  /\ first = 0
  /\ covered = 0
  /\ sinceLast = NothingNew
  /\ report = NoReport
  /\ arrivals = 0
  /\ reports = 0
  /\ resets = 0

-----------------------------------------------------------------------------
(* A packet arrives. *)

TooFarBack(max, seq) == max - NACK_PACKETS_MAX_SIZE > seq

InOrderPacket_NoWrapBack(max, seq) ==
  max < seq \/ (max > 65280 /\ seq < 255) \/ TooFarBack(max, seq)

\* A new packet, judged by 16 bits: a number far back is a restart of the
\* sender, one that is on the other side of zero has wrapped.
InOrderPacket(max, seq) ==
  IF max >= seq
  THEN (max > 65280 /\ seq < 255) \/ TooFarBack(max, seq)
  ELSE ~(seq > 65280 /\ max < 255) \/ TooFarBack(max, seq)

Untouched == received.seqMax = 0 /\ received.seqWraps = 0

\* The statistics after a packet numbered seq; old: the clock says it was resent.
UpdateStatistics(seq, old) ==
  IF Untouched
  THEN [received EXCEPT !.seqFirst = seq, !.seqMax = seq, !.inorder = 1,
                        !.bytes = TRUE]
  ELSE IF InOrderPacket(received.seqMax, seq)
  THEN [received EXCEPT !.seqMax = seq, !.inorder = @ + 1, !.bytes = TRUE,
                        !.seqWraps = IF seq < received.seqMax
                                     THEN (@ + 1) % Wrap ELSE @]
  ELSE IF old THEN [received EXCEPT !.old = @ + 1, !.bytes = TRUE]
              ELSE [received EXCEPT !.inorder = @ + 1, !.bytes = TRUE]

IncomingRtp(place, old) ==
  LET seq == Number(place)
  IN  /\ arrivals < MaxArrivals
      /\ arrived # {} => place \in Highest - MaxLate .. Highest + MaxAhead
      /\ received' = UpdateStatistics(seq, old)
      /\ arrived' = arrived \cup {place}
      /\ first' = IF arrived = {} THEN place ELSE first
      /\ sinceLast' =
           IF arrived = {} THEN sinceLast
           ELSE [old |-> sinceLast.old + received'.old - received.old,
                 late |-> sinceLast.late \/ place <= Highest,
                 wrapped |-> sinceLast.wrapped
                               \/ place \div Wrap > covered \div Wrap]
      /\ covered' = IF arrived = {} THEN place - 1 ELSE covered
      /\ arrivals' = arrivals + 1
      /\ UNCHANGED <<nackOn, reported, report, reports, resets>>

-----------------------------------------------------------------------------
(* The RTCP sender asks for a report. *)

LastReportSeqMax == IF reported.inorder = 0
                    THEN (received.seqFirst - 1) % Wrap ELSE reported.seqMax

ExpectedSinceLast == IF LastReportSeqMax > received.seqMax THEN 0
                     ELSE (received.seqMax - LastReportSeqMax) % Wrap

ReceivedSinceLast ==
  received.inorder - reported.inorder
    + IF nackOn THEN 0 ELSE received.old - reported.old

Missing == IF ExpectedSinceLast > ReceivedSinceLast
           THEN ExpectedSinceLast - ReceivedSinceLast ELSE 0

\* Without a packet since the reset there is no report.
Statistics ==
  /\ reports < MaxReports
  /\ ~(received.seqFirst = 0 /\ ~received.bytes)
  /\ reported' = [inorder |-> received.inorder, old |-> received.old,
                  seqMax |-> received.seqMax]
  /\ report' = [missing |-> Missing,
                gaps |-> (Highest - covered)
                           - Cardinality({p \in arrived : p > covered}),
                resent |-> IF nackOn THEN sinceLast.old ELSE 0,
                exact |-> ~sinceLast.late /\ ~sinceLast.wrapped]
  /\ covered' = Highest
  /\ sinceLast' = NothingNew
  /\ reports' = reports + 1
  /\ UNCHANGED <<nackOn, received, arrived, first, arrivals, resets>>

-----------------------------------------------------------------------------
(* Resets: at a new SSRC, another codec, a time-out, or by the application. *)

ResetStatistics ==
  /\ resets < MaxResets
  /\ received' = NothingReceived
  /\ reported' = NothingReported
  /\ arrived' = {}
  /\ first' = 0
  /\ covered' = 0
  /\ sinceLast' = NothingNew
  /\ report' = NoReport
  /\ resets' = resets + 1
  /\ UNCHANGED <<nackOn, arrivals, reports>>

ReceiveNext ==
  \/ \E place \in StreamPlaces, old \in BOOLEAN : IncomingRtp(place, old)
  \/ Statistics
  \/ ResetStatistics

ReceiveSpec == ReceiveInit /\ [][ReceiveNext]_receiveVars

-----------------------------------------------------------------------------
(* Properties.  A stream that begins with the number 0 is left out: the code
   takes 0 without wraps for "nothing received" (see the README). *)

HasBegun == arrived # {} /\ Number(first) # 0

\* The extended number of reports, the wraps and the highest number, is that of
\* the furthest packet that came since the reset, whatever is lost, repeated or
\* late across the wraps of the 16 bits.
ExtendedNumberRight ==
  HasBegun => received.seqWraps * Wrap + received.seqMax
                = Highest - Wrap * (first \div Wrap)

\* A report counts no packet as missing that came, late or in order, since the
\* last one (but a resent one while NACK is on); and all that are missing when
\* nothing came late and the numbers did not wrap.
LossAsItIs ==
  HasBegun => /\ report.missing <= report.gaps + report.resent
              /\ report.exact => report.missing = report.gaps

\* What an RTCP report says of the stream, its extended number and its loss, is
\* so: see the two parts.
ReportsTrue == ExtendedNumberRight /\ LossAsItIs
=============================================================================
