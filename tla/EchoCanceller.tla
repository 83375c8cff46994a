---------------------------- MODULE EchoCanceller ----------------------------
(***************************************************************************)
(* The buffers of the acoustic echo canceller: what is played (the far     *)
(* end) waits until what the microphone then hears (the near end) is       *)
(* processed against it.  The far end is cut into partitions of PART_LEN   *)
(* samples, each a frame of two that overlap; calls bring FRAME_LEN or two *)
(* frames at a time.  The far end's read place is moved to follow the      *)
(* delay of the sound card.                                                *)
(*                                                                         *)
(* Buffers are ring buffers (RingBuffer) and known by how much can be      *)
(* read.  far_buf_windowed moves, reads and writes with far_buf, the upper *)
(* band's buffers with nearFrBuf and outFrBuf; they are left out, as are   *)
(* the filters.  A filtered delay lies between the last one and the new    *)
(* estimate; the average that gives the size to start with is left open.   *)
(* audio_processing keeps its lock for the whole of a call.                *)
(***************************************************************************)
EXTENDS Integers

CONSTANTS Mult,                \* aec->mult: 1 at 8 kHz, 2 at 16 and 32 kHz
          kBufSizePartitions,  \* 250
          kMaxBufSizeStart,    \* 62
          MaxSoundCardMs,      \* 500
          SoundCardMs,         \* bound: the delays of the sound card, as reported
          ResampledSamples,    \* what a far-end call may come to when resampled
          FiltDelays,          \* bound: the filtered delays told apart
          DelayChangeFrames    \* 25

FRAME_LEN == 80
PART_LEN == 64
PreBufSize == 2 * PART_LEN + 4 * FRAME_LEN

(* The longest delay of the sound card in samples, and how far the read     *)
(* place is moved for it at most.                                           *)
MaxSoundCard == (MaxSoundCardMs + 10) * 8 * Mult
MaxKnownDelay == MaxSoundCard + FRAME_LEN * Mult - 160 + 95

(* far_buf has room for that delay and for a few blocks besides.            *)
ASSUME EchoAssumption ==
  /\ Mult \in {1, 2} /\ kMaxBufSizeStart \in Nat /\ DelayChangeFrames \in Nat
  /\ MaxSoundCardMs \in Nat /\ SoundCardMs \subseteq 0 .. MaxSoundCardMs
  /\ kBufSizePartitions \in Nat
  /\ kBufSizePartitions * PART_LEN >= MaxKnownDelay + 5 * PART_LEN
  /\ ResampledSamples \subseteq 0 .. 4 * FRAME_LEN
  /\ FiltDelays \subseteq Nat /\ 0 \in FiltDelays

VARIABLES far_pre_buf, far_buf, nearFrBuf, outFrBuf,  \* what can be read
          system_delay,
          aecKnownDelay,       \* aec->knownDelay, where the read place is
          knownDelay,          \* aecpc->knownDelay, where it is wanted
          filtDelay, lastDelayDiff, timeForDelayChange,
          resample,
          ECstartup, bufSizeStart,
          framesLeft,          \* frames of a call still to be processed
          farUnread,           \* partitions read where there were none
          stuffed              \* samples repeated in the output since Init

farVars == <<far_pre_buf, far_buf, system_delay>>
estimate == <<knownDelay, filtDelay, lastDelayDiff, timeForDelayChange>>
nearVars == <<nearFrBuf, outFrBuf, farUnread, stuffed>>
startVars == <<ECstartup, bufSizeStart>>
echoVars == <<farVars, aecKnownDelay, estimate, resample, nearVars, startVars,
              framesLeft>>

Undecided == -1

EchoInit ==
  /\ far_pre_buf = PART_LEN /\ far_buf = 0 /\ system_delay = 0
  /\ nearFrBuf = 0 /\ outFrBuf = 0
  /\ aecKnownDelay = 0 /\ knownDelay = 0
  /\ filtDelay = 0 /\ lastDelayDiff = "low" /\ timeForDelayChange = 0
  /\ resample = FALSE
  /\ ECstartup = TRUE /\ bufSizeStart = Undecided
  /\ framesLeft = 0 /\ farUnread = 0 /\ stuffed = 0

-----------------------------------------------------------------------------
(* Variants with a mistake, see README.md. *)

Rewound_Uncounted(moved) == system_delay' = system_delay - FRAME_LEN
OutputStuffing_Whole(out) == IF out < FRAME_LEN THEN FRAME_LEN ELSE 0
TooLittle_Empty == system_delay < 0

-----------------------------------------------------------------------------
Least(a, b) == IF a < b THEN a ELSE b
Most(a, b) == IF a < b THEN b ELSE a

(* WebRtc_MoveReadPtr(buffer, k): how far it really moves. *)
Moved(readable, k) == Most(Least(k, readable), readable - kBufSizePartitions)

(* C's division, by PART_LEN. *)
Parts(samples) == IF samples < 0 THEN -((-samples) \div PART_LEN)
                  ELSE samples \div PART_LEN

(* WebRtcAec_MoveFarReadPtr(aec, k) *)
MoveFarReadPtr(k) ==
  LET moved == Moved(far_buf, k)
  IN  /\ far_buf' = far_buf - moved
      /\ system_delay' = system_delay - moved * PART_LEN

(* WebRtcAec_BufferFarend(): all partitions that are complete go into       *)
(* far_buf; one at a time, the oldest is flushed when there is no room.     *)
FarSamples == IF resample THEN ResampledSamples ELSE {Mult * FRAME_LEN}

Flushed(partitions) == Most(0, far_buf + partitions - kBufSizePartitions)

BufferFarend(n) ==
  LET pre == Least(far_pre_buf + n, PreBufSize)
      partitions == (pre - PART_LEN) \div PART_LEN
  IN  /\ framesLeft = 0
      /\ far_pre_buf' = pre - partitions * PART_LEN
      /\ far_buf' = Least(far_buf + partitions, kBufSizePartitions)
      /\ system_delay' = system_delay + n - Flushed(partitions) * PART_LEN
      /\ UNCHANGED <<aecKnownDelay, estimate, resample, nearVars, startVars,
                     framesLeft>>

(* WebRtcAec_Process() in the startup: when it has decided how much to      *)
(* begin with, the rest is flushed and the canceller enabled.               *)
Startup ==
  /\ framesLeft = 0 /\ ECstartup
  /\ resample' \in BOOLEAN
  /\ bufSizeStart' \in IF bufSizeStart = Undecided
                       THEN {Undecided} \cup 0 .. kMaxBufSizeStart ELSE {bufSizeStart}
  /\ LET overhead == system_delay \div PART_LEN - bufSizeStart'
     IN  IF bufSizeStart' # Undecided /\ overhead >= 0
         THEN ECstartup' = FALSE /\ MoveFarReadPtr(overhead)
         ELSE UNCHANGED <<ECstartup, far_buf, system_delay>>
  /\ UNCHANGED <<far_pre_buf, aecKnownDelay, estimate, nearVars, framesLeft>>

(* EstBufDelay() *)
Between(a, b) == {f \in FiltDelays : Least(a, b) <= f /\ f <= Most(a, b)}

Level(difference) == CASE difference < 96 -> "low"
                       [] difference > 224 -> "high"
                       [] OTHER -> "middle"

DelayChanges(level) == \/ level = "high" /\ lastDelayDiff # "low"
                       \/ level = "low" /\ knownDelay > 0 /\ lastDelayDiff # "high"

SetKnownDelay ==
  LET level == Level(filtDelay' - knownDelay)
  IN  /\ lastDelayDiff' = level
      /\ timeForDelayChange' = IF DelayChanges(level)
                               THEN Least(timeForDelayChange, DelayChangeFrames) + 1
                               ELSE 0
      /\ knownDelay' = IF timeForDelayChange' > DelayChangeFrames
                       THEN Most(filtDelay' - 160, 0) ELSE knownDelay

EstBufDelay(msInSndCardBuf) ==
  LET nSampSndCard == msInSndCardBuf * 8 * Mult
      delay == nSampSndCard - system_delay + FRAME_LEN * Mult
               - (IF resample' THEN 1 ELSE 0)
      flushed == IF delay < PART_LEN THEN Moved(far_buf, 1) ELSE 0
  IN  /\ far_buf' = far_buf - flushed
      /\ system_delay' = system_delay - flushed * PART_LEN
      /\ filtDelay' \in Between(filtDelay, Most(0, delay + flushed * PART_LEN))
      /\ SetKnownDelay

(* WebRtcAec_Process() of an enabled canceller: first the estimate ...      *)
Process(ms) ==
  /\ framesLeft = 0 /\ ~ECstartup
  /\ resample' \in BOOLEAN
  /\ EstBufDelay(ms + 10)
  /\ framesLeft' = Mult
  /\ UNCHANGED <<far_pre_buf, aecKnownDelay, nearVars, startVars>>

(* ... then WebRtcAec_ProcessFrame() and the output of each frame.          *)
TooLittle == system_delay < FRAME_LEN

Rewound(moved) == system_delay' = system_delay - moved * PART_LEN - FRAME_LEN

OutputStuffing(out) == Most(0, FRAME_LEN - out)

ProcessFrame ==
  LET rewind == IF TooLittle THEN Moved(far_buf, -(Mult + 1)) ELSE 0
      moved == Moved(far_buf - rewind, Parts(aecKnownDelay - knownDelay - 32))
      readable == far_buf - rewind - moved
      blocks == (nearFrBuf + FRAME_LEN) \div PART_LEN
      out == outFrBuf + blocks * PART_LEN
  IN  /\ framesLeft > 0 /\ framesLeft' = framesLeft - 1
      /\ Rewound(rewind)
      /\ aecKnownDelay' = aecKnownDelay - moved * PART_LEN
      /\ far_buf' = Most(0, readable - blocks)
      /\ farUnread' = farUnread + Most(0, blocks - readable)
      /\ nearFrBuf' = (nearFrBuf + FRAME_LEN) % PART_LEN
      /\ stuffed' = stuffed + OutputStuffing(out)
      /\ outFrBuf' = out + OutputStuffing(out) - FRAME_LEN
      /\ UNCHANGED <<far_pre_buf, estimate, resample, startVars>>

(* WebRtcAec_Init(), again *)
Initialize == /\ framesLeft = 0
              /\ far_pre_buf' = PART_LEN /\ far_buf' = 0 /\ system_delay' = 0
              /\ nearFrBuf' = 0 /\ outFrBuf' = 0
              /\ aecKnownDelay' = 0 /\ knownDelay' = 0
              /\ filtDelay' = 0 /\ lastDelayDiff' = "low" /\ timeForDelayChange' = 0
              /\ resample' = FALSE
              /\ ECstartup' = TRUE /\ bufSizeStart' = Undecided
              /\ farUnread' = 0 /\ stuffed' = 0
              /\ UNCHANGED framesLeft

EchoNext == \/ \E n \in FarSamples : BufferFarend(n)
            \/ Startup
            \/ \E ms \in SoundCardMs : Process(ms)
            \/ ProcessFrame
            \/ Initialize

EchoSpec == EchoInit /\ [][EchoNext]_echoVars
-----------------------------------------------------------------------------
EchoTypeOK ==
  /\ far_pre_buf \in PART_LEN .. 2 * PART_LEN - 1
  /\ far_buf \in 0 .. kBufSizePartitions
  /\ nearFrBuf \in 0 .. PART_LEN - 1
  /\ outFrBuf \in 0 .. PART_LEN - 1
  /\ system_delay \in Int /\ aecKnownDelay \in Int
  /\ knownDelay \in Nat /\ filtDelay \in Nat
  /\ lastDelayDiff \in {"low", "middle", "high"}
  /\ timeForDelayChange \in 0 .. DelayChangeFrames + 1
  /\ resample \in BOOLEAN /\ ECstartup \in BOOLEAN
  /\ bufSizeStart \in {Undecided} \cup 0 .. kMaxBufSizeStart
  /\ framesLeft \in 0 .. Mult
  /\ farUnread \in Nat /\ stuffed \in Nat

(* A block of the near end is processed against a partition of the far end: *)
(* "We should always have at least one element stored in |far_buf|"         *)
(* (aec_core.c), although the read place is moved just before.              *)
FarEndThere == farUnread = 0

(* "The system delay should never become negative"                          *)
(* (system_delay_unittest.cc).                                              *)
DelayNotNegative == system_delay >= 0

(* What waits in far_buf is the system's delay, corrected by the moves for  *)
(* the sound card and by what is left of incomplete partitions and blocks:  *)
(* no flush, rewind or overflow loses count.                                *)
DelayAccounted ==
  far_buf * PART_LEN
    = system_delay - (far_pre_buf - PART_LEN) + aecKnownDelay + nearFrBuf

(* The engine's view of the system's delay is right.                        *)
DelayTrue == DelayNotNegative /\ DelayAccounted

(* The output lags by what was repeated to fill its first frames, less than *)
(* one block for ever: every sample of the near end comes out once.         *)
OutputInStep == nearFrBuf + outFrBuf = stuffed /\ stuffed < PART_LEN

(* Blocks of 64 samples out of frames of 80: neither end runs short of them. *)
SamplesInStep == FarEndThere /\ OutputInStep
=============================================================================
