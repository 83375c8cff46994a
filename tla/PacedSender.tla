---------------------------- MODULE PacedSender ----------------------------
(***************************************************************************)
(* The pacer: packets are let through at once while the budget of the      *)
(* interval lasts, and wait in a queue of their priority otherwise.  The   *)
(* process thread fills the budget up and takes packets from the queues.   *)
(* It leaves the lock for every callback, and meanwhile other threads add  *)
(* packets, change the bit rate and switch the pacer on and off.          *)
(*                                                                         *)
(* Packets are numbered in the order of the calls of PacedSendPacket(); all     *)
(* have PacedBytes bytes.  The clock ticks in milliseconds.               *)
(***************************************************************************)
EXTENDS Integers, Sequences, FiniteSetsExt

CONSTANTS Rates,        \* target_bitrate_kbytes_per_s_, the first is Rate0
          Rate0,
          PacedBytes,
          PaceTick,     \* step of the clock
          MaxPaceTime,  \* bound: the clock
          MaxPaced,     \* bound: packets
          MaxSettings   \* bound: calls that change the settings

VARIABLES now,
          pacing, rate,
          bytesRemaining, paddingRemaining,
          lastUpdate, lastSend,
          normal, low,   \* the two queues
          process,       \* where the process thread is, and its packet
          given,         \* priorities of the packets given to PacedSendPacket()
          out,           \* packets on their way, in that order
          passed,        \* packets that did not keep their place in the line
          paced,         \* when paced packets were let through
          padding,       \* when padding was sent, and how much up to then
          settings

\* The rates have bounds.
ASSUME PaceAssumption ==
  /\ PacedBytes \in Nat /\ PaceTick \in Nat
  /\ Rates \cup {Rate0} \subseteq Nat
  /\ \E most \in Rates \cup {Rate0} : \A r \in Rates \cup {Rate0} : r <= most

paceVars == <<now, pacing, rate, bytesRemaining, paddingRemaining, lastUpdate,
              lastSend, normal, low, process, given, out, passed, paced,
              padding, settings>>

kMaxIntervalTimeMs == 30
kMaxQueueTimeWithoutSendingMs == 30
kMinPacketLimitMs == 5

AtRest == [at |-> "idle", packet |-> 0]

\* The division rounds towards zero, as C's conversions do.
Halved(n) == IF n >= 0 THEN n \div 2 ELSE -((-n) \div 2)

PaceInit ==
  /\ now = kMaxQueueTimeWithoutSendingMs
  /\ pacing = FALSE
  /\ rate = Rate0
  /\ bytesRemaining = Halved(3 * Rate0 * kMinPacketLimitMs)
  /\ paddingRemaining = Rate0 * kMinPacketLimitMs
  /\ lastUpdate = now
  /\ lastSend = 0
  /\ normal = <<>>
  /\ low = <<>>
  /\ process = AtRest
  /\ given = <<>>
  /\ out = <<>>
  /\ passed = {}
  /\ paced = <<>>
  /\ padding = <<>>
  /\ settings = 0

-----------------------------------------------------------------------------
(* Callers. *)

UpdateState ==
  /\ lastSend' = now
  /\ bytesRemaining' = bytesRemaining - PacedBytes
  /\ paddingRemaining' = paddingRemaining - PacedBytes

InHand == IF process.at = "send" THEN {process.packet} ELSE {}

\* A packet that is let through passes those in the callback's hands.
LetThrough(packet, inLine) ==
  /\ UpdateState
  /\ out' = Append(out, packet)
  /\ passed' = passed \cup InHand \cup (IF inLine THEN {} ELSE {packet})
  /\ paced' = IF inLine THEN Append(paced, now) ELSE paced
  /\ UNCHANGED <<normal, low>>

MayGo_Overtaking(priority) == bytesRemaining > 0

MayGo(priority) ==
  /\ bytesRemaining > 0
  /\ normal = <<>>
  /\ priority = "kLowPriority" => low = <<>>

PacedSendPacket(priority) ==
  /\ Len(given) < MaxPaced
  /\ given' = Append(given, priority)
  /\ \/ /\ ~pacing \/ priority = "kHighPriority"
        /\ LetThrough(Len(given'), FALSE)
     \/ /\ pacing /\ priority # "kHighPriority"
        /\ MayGo(priority)
        /\ LetThrough(Len(given'), TRUE)
     \/ /\ pacing /\ priority # "kHighPriority"
        /\ ~MayGo(priority)
        /\ IF priority = "kNormalPriority"
           THEN normal' = Append(normal, Len(given')) /\ UNCHANGED low
           ELSE low' = Append(low, Len(given')) /\ UNCHANGED normal
        /\ UNCHANGED <<bytesRemaining, paddingRemaining, lastSend, out,
                       passed, paced>>
  /\ UNCHANGED <<now, pacing, rate, lastUpdate, process, padding, settings>>

SetStatus ==
  /\ settings < MaxSettings
  /\ pacing' = ~pacing
  /\ settings' = settings + 1
  /\ UNCHANGED <<now, rate, bytesRemaining, paddingRemaining, lastUpdate,
                 lastSend, normal, low, process, given, out, passed, paced,
                 padding>>

UpdateBitrate(r) ==
  /\ settings < MaxSettings /\ r # rate
  /\ rate' = r
  /\ settings' = settings + 1
  /\ UNCHANGED <<now, pacing, bytesRemaining, paddingRemaining, lastUpdate,
                 lastSend, normal, low, process, given, out, passed, paced,
                 padding>>

-----------------------------------------------------------------------------
(* The process thread.  It reads the clock just before it takes the lock; the
   two are one step here. *)

\* What was overused in the last interval is taken off this one.
Refilled_Saving(remaining, budget) == remaining + budget

Refilled(remaining, budget) ==
  IF remaining < 0 THEN remaining + budget ELSE budget

Elapsed == Min({kMaxIntervalTimeMs, now - lastUpdate})

UpdateBytesPerInterval ==
  /\ bytesRemaining' = Halved(Refilled(2 * bytesRemaining, 3 * rate * Elapsed))
  /\ paddingRemaining' = Refilled(paddingRemaining, rate * Elapsed)

Process ==
  /\ process.at = "idle"
  /\ now > lastUpdate
  /\ lastUpdate' = now
  /\ UpdateBytesPerInterval
  /\ process' = [AtRest EXCEPT !.at = "next"]
  /\ UNCHANGED <<now, pacing, rate, lastSend, normal, low, given, out, passed,
                 paced, padding, settings>>

\* Nothing was sent for so long that the budget does not matter.
Overdue == normal # <<>> /\ now - lastSend > kMaxQueueTimeWithoutSendingMs

GetNextPacket ==
  /\ process.at = "next"
  /\ \/ /\ normal # <<>>
        /\ bytesRemaining > 0 \/ Overdue
        /\ process' = [at |-> "send", packet |-> Head(normal)]
        /\ normal' = Tail(normal)
        /\ UNCHANGED low
     \/ /\ normal = <<>> /\ low # <<>>
        /\ bytesRemaining > 0
        /\ process' = [at |-> "send", packet |-> Head(low)]
        /\ low' = Tail(low)
        /\ UNCHANGED normal
  /\ UpdateState
  /\ paced' = IF bytesRemaining > 0 THEN Append(paced, now) ELSE paced
  /\ UNCHANGED <<now, pacing, rate, lastUpdate, given, out, passed, padding,
                 settings>>

TimeToSendPacket ==
  /\ process.at = "send"
  /\ out' = Append(out, process.packet)
  /\ process' = [AtRest EXCEPT !.at = "next"]
  /\ UNCHANGED <<now, pacing, rate, bytesRemaining, paddingRemaining,
                 lastUpdate, lastSend, normal, low, given, passed, paced,
                 padding, settings>>

NoPacketNow == IF bytesRemaining > 0 THEN normal = <<>> /\ low = <<>>
               ELSE ~Overdue

PaddingUpTo(k) == IF k = 0 THEN 0 ELSE padding[k].upTo

\* The round's last look: with nothing queued the rest goes out as padding.
LoopEnds ==
  /\ process.at = "next"
  /\ NoPacketNow
  /\ process' =
       IF normal = <<>> /\ low = <<>> /\ paddingRemaining > 0
       THEN [AtRest EXCEPT !.at = "padding"] ELSE AtRest
  /\ padding' =
       IF process'.at = "padding"
       THEN Append(padding, [time |-> now,
                             upTo |-> PaddingUpTo(Len(padding)) + paddingRemaining])
       ELSE padding
  /\ UNCHANGED <<now, pacing, rate, bytesRemaining, paddingRemaining,
                 lastUpdate, lastSend, normal, low, given, out, passed, paced,
                 settings>>

\* paddingRemaining is zero before it is subtracted from the other budget.
PaddingSent ==
  /\ process.at = "padding"
  /\ process' = AtRest
  /\ paddingRemaining' = 0
  /\ bytesRemaining' = bytesRemaining - paddingRemaining'
  /\ UNCHANGED <<now, pacing, rate, lastUpdate, lastSend, normal, low, given,
                 out, passed, paced, padding, settings>>

PaceClock ==
  /\ now < MaxPaceTime
  /\ now' = now + PaceTick
  /\ UNCHANGED <<pacing, rate, bytesRemaining, paddingRemaining, lastUpdate,
                 lastSend, normal, low, process, given, out, passed, paced,
                 padding, settings>>

PaceNext ==
  \/ \E p \in {"kHighPriority", "kNormalPriority", "kLowPriority"} :
       PacedSendPacket(p)
  \/ SetStatus
  \/ \E r \in Rates : UpdateBitrate(r)
  \/ Process
  \/ GetNextPacket
  \/ TimeToSendPacket
  \/ LoopEnds
  \/ PaddingSent
  \/ PaceClock

PaceSpec == PaceInit /\ [][PaceNext]_paceVars

-----------------------------------------------------------------------------
(* Properties. *)

\* In the order in which they leave, what is still here coming last.
Line == out \o (IF process.at = "send" THEN <<process.packet>> ELSE <<>>)
            \o normal \o low

\* Each packet given to the pacer is in one queue, in the hands of the callback,
\* or out, and leaves once, behind the earlier ones of its priority; but for those
\* let through with the pacing off and those that were in the callback's hands,
\* outside the lock, when another one was let through.
LeavesOnceInLine ==
  /\ Len(Line) = Len(given) /\ \A p \in DOMAIN given : \E i \in DOMAIN Line : Line[i] = p
  /\ \A j \in DOMAIN Line : \A i \in 1 .. j - 1 :
       /\ given[Line[i]] = given[Line[j]]
       /\ {Line[i], Line[j]} \cap passed = {}
       => Line[i] < Line[j]

MaxRate == Max(Rates \cup {Rate0})

\* The span of time that counts for what leaves from a to b: the interval before
\* and the one that a falls in are filled up for kMaxIntervalTimeMs at most.
Span(a, b) == b - a + 2 * kMaxIntervalTimeMs

\* Whatever goes on between the callbacks, and however long the pacer idles, from
\* any time to any other it lets no more paced packets through than one and a half
\* times the rate allows, and one packet; and no more padding than the rate.  The
\* rounding of an overused budget may give half a byte each time it is filled up, at
\* most once in a millisecond.
PacedToRate ==
  /\ \A i \in DOMAIN paced : \A j \in i .. Len(paced) :
       2 * PacedBytes * (j - i) <= (3 * MaxRate + 1) * Span(paced[i], paced[j])
  /\ \A i \in DOMAIN padding : \A j \in i .. Len(padding) :
       padding[j].upTo - PaddingUpTo(i - 1)
         <= MaxRate * Span(padding[i].time, padding[j].time)
=============================================================================
