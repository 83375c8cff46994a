------------------------- MODULE RtpRetransmission -------------------------
(***************************************************************************)
(* Sending again what the other side misses.  RTPSender gives every packet *)
(* it sends to an RTPPacketHistory, a ring of the last Capacity packets.   *)
(* The receiving ModuleRtpRtcpImpl::SendNACK puts the missing sequence     *)
(* numbers into the items of an RTCP packet (RTCPSender::BuildNACK), the   *)
(* sender's RTCPReceiver takes them out again, and RTPSender looks each up *)
(* and sends it again, within a budget of bytes, no more than once in      *)
(* MinResend, and as an RTX packet if that is on.                          *)
(*                                                                         *)
(* Three threads meet in the ring, which has a lock of its own: the one    *)
(* that sends, the one that hears the NACKs, and the application that      *)
(* turns the ring on and off.  The NACKs may be lost, repeated and come    *)
(* late.  A packet is known by its place among all packets sent; its       *)
(* sequence number is that place, counted from FirstSeq, in 16 bits.       *)
(* Every packet has PacketBytes bytes.                                     *)
(***************************************************************************)
EXTENDS Integers, Sequences, FiniteSets, FiniteSetsExt

CONSTANTS Capacity,       \* number_to_store of SetStorePacketsStatus
          FirstSeq,       \* sequence number of the first packet
          NackLists,      \* lists of missing sequence numbers, oldest first
          RTX,            \* whether resent packets go out over RTX
          Rtt,            \* avgRTT
          PacketBytes,    \* bytes of a packet
          Rate,           \* _targetSendBitrate, in bytes a tick
          Interval,       \* avgInterval of ProcessNACKBitRate
          ByteCountSize,  \* NACK_BYTECOUNT_SIZE
          MaxBuilt,     \* bound: packets sent
          MaxNacks,       \* bound: NACKs sent
          MaxSwitches,    \* bound: calls that turn the ring on or off
          StartTime, Step, MaxTime  \* bound: the clock

VARIABLES clock,
          built,      \* packets given their number
          store,      \* store_ of RTPPacketHistory
          ring,       \* its parallel vectors, as one vector of records
          prevIndex,  \* prev_index_
          nacks,      \* NACKs on their way
          asked,      \* the receiver's last NACK: its time and last number
          rx,         \* where the thread is that hears the NACKs
          byteCounts, \* _nackByteCount and their times, newest first
          kept,       \* the last Capacity packets given to the ring
          log,        \* when and what was sent again
          switches    \* calls that turned the ring on or off

resendVars == <<clock, built, store, ring, prevIndex, nacks, asked, rx,
                byteCounts,  kept, log, switches>>

NumberSpace == 65536
MaskBits == 16
MinResend == 5 + Rtt
Kinds == {"kDontStore", "kDontRetransmit", "kAllowRetransmission"}
Built == 1 .. MaxBuilt
NumberOf(p) == (FirstSeq + p - 1) % NumberSpace
Slots == 0 .. Capacity - 1

EmptySlot == [seq |-> 0, packet |-> 0, type |-> "kDontStore", resent |-> 0]
Nothing == [rtx |-> FALSE, seq |-> 0, osn |-> 0]
IdleRx == [at |-> "idle"]
NotAsked == [time |-> 0, last |-> 0]

ResendInit ==
  /\ clock = StartTime
  /\ built = 0
  /\ store = FALSE
  /\ ring = [i \in Slots |-> EmptySlot]
  /\ prevIndex = 0
  /\ nacks = {}
  /\ asked = NotAsked
  /\ rx = IdleRx
  /\ byteCounts = <<>>
  /\ kept = <<>>
  /\ log = {}
  /\ switches = 0

-----------------------------------------------------------------------------
(* The ring. *)

Newest == IF prevIndex > 0 THEN prevIndex - 1 ELSE Capacity - 1

\* Where the number would be if every packet since had been stored.
Guess(s) ==
  LET i == (prevIndex - 1) - (ring[Newest].seq - s)
  IN  IF i \in Slots THEN i ELSE Newest

\* The slots with that number in the order in which they are looked at.
Matches(s) == {i \in Slots : ring[i].seq = s}

FindSeqNum_GuessOnly(s) == {Guess(s)} \cap Matches(s)

FindSeqNum(s) ==
  IF Guess(s) \in Matches(s) THEN {Guess(s)}
  ELSE IF Matches(s) = {} THEN {} ELSE {Min(Matches(s))}

Found(s) == {i \in FindSeqNum(s) : store /\ ring[i].packet # 0}

\* Resent too recently, or not at all to be sent again.
Skipped(i) == \/ clock - ring[i].resent < MinResend
              \/ ring[i].type = "kDontRetransmit"

PutRTPPacket(type) ==
  IF store /\ type # "kDontStore"
  THEN /\ ring' = [ring EXCEPT ![prevIndex] =
                     [seq |-> NumberOf(built + 1), packet |-> built + 1,
                      type |-> type, resent |-> 0]]
       /\ prevIndex' = (prevIndex + 1) % Capacity
       /\ kept' = LET k == Append(kept, built + 1)
                  IN  IF Len(k) > Capacity THEN Tail(k) ELSE k
  ELSE UNCHANGED <<ring, prevIndex, kept>>

Allocate ==
  /\ switches < MaxSwitches /\ ~store
  /\ store' = TRUE
  /\ switches' = switches + 1
  /\ UNCHANGED <<clock, built, ring, prevIndex, nacks, asked, rx,
                 byteCounts,  kept, log>>

Free ==
  /\ switches < MaxSwitches /\ store
  /\ store' = FALSE
  /\ ring' = [i \in Slots |-> EmptySlot]
  /\ prevIndex' = 0
  /\ kept' = <<>>
  /\ switches' = switches + 1
  /\ UNCHANGED <<clock, built, nacks, asked, rx, byteCounts,
                  log>>

-----------------------------------------------------------------------------
(* The thread that sends: the packet gets the next number, goes into the ring
   and then to the transport, which nobody here watches: what it takes may be
   lost as well. *)

SendNewPacket(type) ==
  /\ built < MaxBuilt
  /\ built' = built + 1
  /\ PutRTPPacket(type)
  /\ UNCHANGED <<clock, store, nacks, asked, rx, byteCounts, log,
                 switches>>

-----------------------------------------------------------------------------
(* The items of a NACK: a first number and the offsets, 1 to 16, of others. *)

\* The next number of the list goes into the mask of the item that began with n.
Within16Away(n, x) ==
  LET top == (n + MaskBits) % NumberSpace
  IN  top > x /\ ~(top > 65280 /\ x < 4095)

Offset(n, x) == (x - n) % NumberSpace

\* Within this many numbers the comparison, which looks for the wrap only near it,
\* tells what is within 16.
MaxSpan == 271

Rising(list) ==
  /\ list \in Seq(Nat) /\ list # <<>>
  /\ \A i \in DOMAIN list : /\ list[i] < NumberSpace
                            /\ Offset(list[1], list[i]) <= MaxSpan
  /\ \A i, j \in DOMAIN list :
       i < j => Offset(list[1], list[i]) < Offset(list[1], list[j])

ASSUME ResendAssumption ==
  /\ Capacity \in Nat \ {0} /\ FirstSeq \in Nat /\ FirstSeq < NumberSpace
  /\ Rtt \in Nat /\ PacketBytes \in Nat /\ StartTime \in Nat /\ Step \in Nat
  /\ \A list \in NackLists : Rising(list)

\* The last place of the list that the item beginning at i takes.
ItemEnd(list, i) ==
  Max({j \in i .. Len(list) :
         \A k \in i + 1 .. j : Within16Away(list[i], list[k])})

BuildNACK(list) ==
  LET Items[i \in 1 .. Len(list) + 1] ==
        IF i > Len(list) THEN <<>>
        ELSE LET last == ItemEnd(list, i)
             IN  <<[id |-> list[i],
                    mask |-> {Offset(list[i], list[k]) : k \in i + 1 .. last}
                               \cap 1 .. MaskBits]>>
                 \o Items[last + 1]
  IN  Items[1]

\* HandleNACKItem adds the first number, then the offsets in rising order.
HandleNACK(items) ==
  LET Numbers(item) ==
        LET At[m \in SUBSET (1 .. MaskBits)] ==
              IF m = {} THEN <<>>
              ELSE <<(item.id + Min(m)) % NumberSpace>> \o At[m \ {Min(m)}]
        IN  <<item.id>> \o At[item.mask]
      All[i \in 0 .. Len(items)] ==
        IF i = 0 THEN <<>> ELSE All[i - 1] \o Numbers(items[i])
  IN  All[Len(items)]

-----------------------------------------------------------------------------
(* The receiver asks.  It waits 5 + 1.5 Rtt before it repeats a list that
   ends with the same number, 100 as long as it knows no Rtt. *)

WaitTime == IF (Rtt * 3) \div 2 = 0 THEN 100 ELSE 5 + (Rtt * 3) \div 2

SendNACK(list) ==
  /\ Cardinality(nacks) < MaxNacks
  /\ asked.time < clock - WaitTime \/ asked.last # list[Len(list)]
  /\ asked' = [time |-> clock, last |-> list[Len(list)]]
  /\ nacks' = nacks \cup {[list |-> list, items |-> BuildNACK(list),
                           id |-> Cardinality(nacks)]}
  /\ UNCHANGED <<clock, built, store, ring, prevIndex, rx, byteCounts,
                  kept, log, switches>>

-----------------------------------------------------------------------------
(* The thread that hears the NACKs.  A NACK stays in nacks: it may be heard
   again, or never. *)

\* The byte counts that are not older than Interval.
Recent == {n \in DOMAIN byteCounts :
             \A m \in 1 .. n : clock - byteCounts[m].time <= Interval}

RecentBytes == MapThenSumSet(LAMBDA n : byteCounts[n].bytes, Recent)

ProcessNACKBitRate_Always == TRUE

\* With the table full the time it covers counts, not Interval.
ProcessNACKBitRate ==
  \/ Rate = 0
  \/ RecentBytes < Rate * (IF Cardinality(Recent) = ByteCountSize
                           THEN clock - byteCounts[ByteCountSize].time
                           ELSE Interval)

OnReceivedNACK(n) ==
  /\ rx = IdleRx
  /\ store
  /\ ProcessNACKBitRate
  /\ rx' = [at |-> "get", list |-> HandleNACK(n.items), asked |-> n.list,
            pos |-> 1, bytes |-> 0, now |-> clock, packet |-> 0,
            out |-> Nothing]
  /\ UNCHANGED <<clock, built, store, ring, prevIndex, nacks, asked,
                 byteCounts,  kept, log, switches>>

Wanted == rx.list[rx.pos]

\* The thread goes to the next number, or to the end of the answer.
NextNumber(r) == IF r.pos = Len(r.list)
                 THEN [r EXCEPT !.at = "end", !.packet = 0, !.out = Nothing]
                 ELSE [r EXCEPT !.at = "get", !.pos = @ + 1, !.packet = 0,
                                 !.out = Nothing]

GetRTPPacket ==
  /\ rx.at = "get"
  /\ rx' = IF \E i \in Found(Wanted) : ~Skipped(i)
           THEN [rx EXCEPT !.at = "send",
                           !.packet = LET i == CHOOSE i \in Found(Wanted) : TRUE
                                      IN  ring[i].packet]
           ELSE NextNumber(rx)
  /\ UNCHANGED <<clock, built, store, ring, prevIndex, nacks, asked,
                 byteCounts,  kept, log, switches>>

\* The packet in hand, with its own header or behind the header of RTX, whose
\* payload begins with the original sequence number.  Which number the RTX
\* stream itself is at matters to nobody here.
RtxNumber == 1

Resent(p) == IF RTX THEN [rtx |-> TRUE, seq |-> RtxNumber, osn |-> NumberOf(p)]
             ELSE [rtx |-> FALSE, seq |-> NumberOf(p), osn |-> 0]

ReSendToNetwork ==
  /\ rx.at = "send"
  /\ \/ /\ log' = log \cup {[time |-> clock, packet |-> rx.packet]}
        /\ rx' = [rx EXCEPT !.at = "note", !.out = Resent(rx.packet)]
     \/ \* the transport fails: the rest of the list is given up
        /\ rx' = [rx EXCEPT !.at = "end", !.packet = 0]
        /\ UNCHANGED log
  /\ UNCHANGED <<clock, built, store, ring, prevIndex, nacks, asked,
                 byteCounts, kept, switches>>

\* More than an Rtt of the rate has been sent for this list.
TooMuch(bytes) == Rate # 0 /\ Rtt # 0 /\ bytes > Rate * Rtt

UpdateResendTime ==
  /\ rx.at = "note"
  /\ ring' = IF store
             THEN [i \in Slots |-> IF i \in FindSeqNum(Wanted)
                                   THEN [ring[i] EXCEPT !.resent = clock]
                                   ELSE ring[i]]
             ELSE ring
  /\ rx' = IF TooMuch(rx.bytes + PacketBytes)
           THEN [rx EXCEPT !.at = "end", !.bytes = @ + PacketBytes, !.packet = 0,
                           !.out = Nothing]
           ELSE NextNumber([rx EXCEPT !.bytes = @ + PacketBytes])
  /\ UNCHANGED <<clock, built, store, prevIndex, nacks, asked,
                 byteCounts,  kept, log, switches>>

UpdateNACKBitRate ==
  /\ rx.at = "end"
  /\ rx' = IdleRx
  /\ byteCounts' =
       IF rx.bytes = 0 THEN byteCounts
       ELSE LET b == <<[bytes |-> rx.bytes, time |-> rx.now]>> \o byteCounts
            IN  SubSeq(b, 1, Min({Len(b), ByteCountSize}))
  /\ UNCHANGED <<clock, built, store, ring, prevIndex, nacks, asked,
                  kept, log, switches>>

Tick ==
  /\ clock < MaxTime
  /\ clock' = clock + Step
  /\ UNCHANGED <<built, store, ring, prevIndex, nacks, asked, rx,
                 byteCounts,  kept, log, switches>>

ResendNext ==
  \/ \E type \in Kinds : SendNewPacket(type)
  \/ Allocate
  \/ Free
  \/ \E list \in NackLists : SendNACK(list)
  \/ \E n \in nacks : OnReceivedNACK(n)
  \/ GetRTPPacket
  \/ ReSendToNetwork
  \/ UpdateResendTime
  \/ UpdateNACKBitRate
  \/ Tick

ResendSpec == ResendInit /\ [][ResendNext]_resendVars

-----------------------------------------------------------------------------
(* Properties. *)

\* The ring is a map of the last Capacity packets given to it: a look-up finds
\* what was sent under a number while the ring holds it, and nothing else,
\* although the place is guessed from the newest number, numbers wrap, and packets
\* that are not stored leave gaps in them.
HistoryKeepsLast ==
  \A p \in Built :
    LET found == {ring[i].packet : i \in Found(NumberOf(p))}
        same == {k \in DOMAIN kept : NumberOf(kept[k]) = NumberOf(p)}
    IN  found \subseteq {kept[k] : k \in same} /\ (found = {} => same = {})

\* What the receiver takes a packet for.
Restored(w) == IF w.rtx THEN w.osn ELSE w.seq

\* What is sent again is what was asked for: the numbers come out of the NACK's
\* items as they went in, the packet found under a number was sent under it,
\* and the receiver restores that number from RTX, even when the ring is
\* overwritten or freed while an answer is under way.
ResentIsAsked ==
  /\ rx.at # "idle" => rx.list = rx.asked
  /\ rx.at \in {"send", "note"} => NumberOf(rx.packet) = Wanted
  /\ rx.at = "note" => Restored(rx.out) = Wanted

\* A packet is sent again at most once in 5 ms and a round trip, however often
\* and by how many NACKs it is asked for, although the time is noted in the
\* ring only after the packet is out and the lock was given back.
SpacedByRtt ==
  \A a, b \in log :
    a.packet = b.packet /\ a.time < b.time => b.time - a.time >= MinResend

\* Answers to NACKs take no more than the target rate, and one answer more.
NackBudget ==
  Rate # 0 /\ Rtt # 0 =>
    PacketBytes * Cardinality({a \in log : clock - a.time < Interval})
      <= Rate * Interval + Rate * Rtt + PacketBytes

\* Whatever is asked for is found and is what is sent.
AnswersRight == HistoryKeepsLast /\ ResentIsAsked

\* And no more of it is sent than the spacing and the rate allow.
AnswersBounded == SpacedByRtt /\ NackBudget
==============================================================================
