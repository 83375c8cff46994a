-------------------------- MODULE AudioModulesProofs --------------------------
(***************************************************************************)
(* Proofs about modules of the audio path, each on its own: the ring       *)
(* buffer, the echo canceller's buffers, the sending half of the audio     *)
(* coding module and the packet buffer of NetEQ.                           *)
(***************************************************************************)
EXTENDS RingBuffer, EchoCanceller, AudioCodingSender, NetEqPacketBuffer,
        FiniteSetTheorems, SequenceTheorems, WellFoundedInduction, TLAPS

-----------------------------------------------------------------------------
(***************************************************************************)
(* The ring buffer implements the queue of samples for every size.         *)
(*                                                                         *)
(* The positions never cross: on the same turn the read position is not in *)
(* front of the write position, on different turns not behind it.  The     *)
(* cells before the write position hold the last elements, those from it   *)
(* on the ones of the turn before.                                         *)
(***************************************************************************)

NotCrossed == IF rw_wrap = "SAME_WRAP" THEN read_pos <= write_pos
              ELSE write_pos <= read_pos

InPlace == \A j \in Cells :
             data[j] = elements - write_pos + j
                         - (IF j < write_pos THEN 0 ELSE element_count)

RingInv == RingTypeOK /\ NotCrossed /\ InPlace

-----------------------------------------------------------------------------
LEMMA RingInitHolds == RingInit => RingInv /\ Queue!Start
BY RingAssumption
   DEF RingInit, RingInv, RingTypeOK, NotCrossed, InPlace, Zeros, Cells, Queue!Start,
       available_read

(* What can be read and what is free make up the ring. *)
LEMMA AvailableInRing ==
  ASSUME RingInv
  PROVE  /\ available_read \in 0 .. element_count
         /\ available_write = element_count - available_read
BY RingAssumption
   DEF RingInv, RingTypeOK, NotCrossed, available_read, available_write

(* Behind its limits, a move changes what can be read by as much as it      *)
(* says, and the positions do not cross.                                    *)
LEMMA MoveCounts ==
  ASSUME RingInv, NEW count \in Int,
         count <= available_read, -available_write <= count,
         Wrapped(read_pos + count), UNCHANGED <<write_pos, data, elements>>
  PROVE  RingInv' /\ available_read' = available_read - count
<1> USE RingAssumption
<1>1. /\ read_pos \in 0 .. element_count /\ write_pos \in 0 .. element_count
      /\ rw_wrap \in {"SAME_WRAP", "DIFF_WRAP"} /\ NotCrossed
      /\ write_pos' = write_pos
  BY DEF RingInv, RingTypeOK
<1>2. /\ read_pos' \in 0 .. element_count /\ rw_wrap' \in {"SAME_WRAP", "DIFF_WRAP"}
      /\ NotCrossed' /\ available_read' = available_read - count
  <2>1. CASE read_pos + count > element_count
    BY <1>1, <2>1 DEF Wrapped, NotCrossed, available_read, available_write
  <2>2. CASE read_pos + count < 0
    BY <1>1, <2>2 DEF Wrapped, NotCrossed, available_read, available_write
  <2>3. CASE read_pos + count \in 0 .. element_count
    BY <1>1, <2>3 DEF Wrapped, NotCrossed, available_read, available_write
  <2> QED  BY <1>1, <2>1, <2>2, <2>3
<1>3. RingTypeOK' /\ InPlace'
  BY <1>1, <1>2 DEF RingInv, RingTypeOK, InPlace
<1> QED  BY <1>2, <1>3 DEF RingInv

(* A move of the read position. *)
LEMMA MoveReadPtrSteps ==
  ASSUME RingInv, NEW k \in Moves, MoveReadPtr(k)
  PROVE  RingInv' /\ Queue!Seek(k)
<1> DEFINE count == IF k > available_read THEN available_read
                    ELSE IF k < -available_write THEN -available_write ELSE k
<1>1. /\ returned' = count /\ given' = <<>> /\ Wrapped(read_pos + count)
      /\ UNCHANGED <<write_pos, data, elements>>
  BY DEF MoveReadPtr
<1>2. available_read \in 0 .. element_count /\ available_write = element_count - available_read
  BY AvailableInRing
<1>3. count \in Int /\ count <= available_read /\ -available_write <= count
  BY <1>2, RingAssumption
<1>4. count = IF k > Queue!readable THEN Queue!readable
              ELSE IF k < -Queue!free THEN -Queue!free ELSE k
  <2>1. Queue!readable = available_read /\ Queue!free = available_write
    BY <1>2, RingAssumption DEF Queue!readable, Queue!free, RingInv, RingTypeOK
  <2> QED  BY <2>1
<1> HIDE DEF count
<1>5. RingInv' /\ available_read' = available_read - count
  BY <1>1, <1>3, MoveCounts
<1>6. elements' - available_read' = elements - available_read + count
  BY <1>1, <1>2, <1>3, <1>5, RingAssumption DEF RingInv, RingTypeOK
<1> QED  BY <1>1, <1>4, <1>5, <1>6 DEF Queue!Seek

(* What the regions that are read hold, whichever turn they are of. *)
LEMMA RegionsInOrder ==
  ASSUME RingInv, NEW i \in Int, 1 <= i, i <= available_read
  PROVE  (IF i <= element_count - read_pos THEN data[read_pos + i - 1]
          ELSE data[i - (element_count - read_pos) - 1])
           = elements - available_read + i - 1
<1> USE RingAssumption
<1>1. /\ read_pos \in 0 .. element_count /\ write_pos \in 0 .. element_count
      /\ rw_wrap \in {"SAME_WRAP", "DIFF_WRAP"} /\ NotCrossed /\ elements \in Nat
  BY DEF RingInv, RingTypeOK
<1>2. CASE i <= element_count - read_pos
  <2>1. read_pos + i - 1 \in Cells
    BY <1>1, <1>2 DEF Cells
  <2>2. data[read_pos + i - 1]
          = elements - write_pos + (read_pos + i - 1)
              - (IF read_pos + i - 1 < write_pos THEN 0 ELSE element_count)
    BY <2>1 DEF RingInv, InPlace
  <2> QED  BY <1>1, <1>2, <2>2 DEF NotCrossed, available_read
<1>3. CASE i > element_count - read_pos
  <2> DEFINE j == i - (element_count - read_pos) - 1
  <2>1. j \in Cells /\ j < write_pos /\ rw_wrap = "DIFF_WRAP"
    BY <1>1, <1>3 DEF Cells, NotCrossed, available_read
  <2>2. data[j] = elements - write_pos + j
    BY <1>1, <2>1 DEF RingInv, InPlace, Cells
  <2> QED  BY <1>1, <1>3, <2>1, <2>2 DEF available_read
<1> QED  BY <1>1, <1>2, <1>3

LEMMA ReadBufferSteps ==
  ASSUME RingInv, NEW n \in Counts, ReadBuffer(n)
  PROVE  RingInv' /\ Queue!Get(n)
<1> DEFINE count == IF available_read < n THEN available_read ELSE n
           margin == element_count - read_pos
<1>1. /\ given' = [i \in 1 .. count |-> IF i <= margin THEN data[read_pos + i - 1]
                                        ELSE data[i - margin - 1]]
      /\ returned' = count /\ Wrapped(read_pos + count)
      /\ UNCHANGED <<write_pos, data, elements>>
  BY DEF ReadBuffer
<1>2. available_read \in 0 .. element_count /\ available_write = element_count - available_read
  BY AvailableInRing
<1>3. /\ count \in Int /\ count <= available_read /\ -available_write <= count
      /\ elements \in Nat
  BY <1>2, RingAssumption DEF RingInv, RingTypeOK
<1>4. Queue!readable = available_read
  BY <1>2, <1>3, RingAssumption DEF Queue!readable
<1>5. RingInv' /\ available_read' = available_read - count
  BY <1>1, <1>3, MoveCounts
<1>6. \A i \in 1 .. count : (IF i <= margin THEN data[read_pos + i - 1]
                             ELSE data[i - margin - 1])
                              = elements - available_read + i - 1
  <2> SUFFICES ASSUME NEW i \in 1 .. count
               PROVE  (IF i <= margin THEN data[read_pos + i - 1]
                       ELSE data[i - margin - 1]) = elements - available_read + i - 1
    OBVIOUS
  <2>1. i \in Int /\ 1 <= i /\ i <= available_read
    BY <1>2, <1>3
  <2> QED  BY <2>1, RegionsInOrder
<1>7. given' = [i \in 1 .. count |-> elements - available_read + i - 1]
  BY <1>1, <1>6
<1>8. count = IF n < Queue!readable THEN n ELSE Queue!readable
  BY <1>2, <1>4, RingAssumption
<1> HIDE DEF count
<1>9. elements' - available_read' = elements - available_read + count
  BY <1>1, <1>2, <1>3, <1>5
<1> QED  BY <1>1, <1>5, <1>7, <1>8, <1>9 DEF Queue!Get

LEMMA WriteBufferSteps ==
  ASSUME RingInv, NEW n \in Counts, WriteBuffer(n)
  PROVE  RingInv' /\ Queue!Put(n)
<1> DEFINE count == IF available_write < n THEN available_write ELSE n
           margin == element_count - write_pos
           wraps == count > margin
<1>1. /\ data' = [j \in Cells |->
                    IF wraps /\ j < count - margin THEN elements + margin + j
                    ELSE IF j >= write_pos /\ (wraps \/ j < write_pos + count)
                         THEN elements + j - write_pos ELSE data[j]]
      /\ write_pos' = (IF wraps THEN count - margin ELSE write_pos + count)
      /\ rw_wrap' = (IF wraps THEN "DIFF_WRAP" ELSE rw_wrap)
      /\ elements' = elements + count /\ returned' = count
      /\ given' = <<>> /\ read_pos' = read_pos
  BY DEF WriteBuffer
<1>2. /\ available_read \in 0 .. element_count
      /\ available_write = element_count - available_read
  BY AvailableInRing
<1>3. /\ read_pos \in 0 .. element_count /\ write_pos \in 0 .. element_count
      /\ rw_wrap \in {"SAME_WRAP", "DIFF_WRAP"} /\ NotCrossed /\ elements \in Nat
      /\ data \in [Cells -> Int] /\ element_count \in Nat
  BY RingAssumption DEF RingInv, RingTypeOK
<1>4. count \in Nat /\ count <= available_write
  BY <1>2, RingAssumption
<1>5. /\ Queue!readable = available_read /\ Queue!free = available_write
  BY <1>2, <1>3 DEF Queue!readable, Queue!free
<1>6. count = IF n < Queue!free THEN n ELSE Queue!free
  BY <1>2, <1>5, RingAssumption
<1> HIDE DEF count
<1>7. /\ write_pos' \in 0 .. element_count /\ NotCrossed'
      /\ rw_wrap' \in {"SAME_WRAP", "DIFF_WRAP"}
      /\ available_read' = available_read + count
  <2>1. CASE wraps
    BY <1>1, <1>2, <1>3, <1>4, <2>1 DEF NotCrossed, available_read
  <2>2. CASE ~wraps
    BY <1>1, <1>2, <1>3, <1>4, <2>2 DEF NotCrossed, available_read
  <2> QED  BY <2>1, <2>2
<1>8. RingTypeOK'
  BY <1>1, <1>3, <1>4, <1>7 DEF RingTypeOK, Cells
<1>9. InPlace'
  <2> SUFFICES ASSUME NEW j \in Cells
               PROVE  data'[j] = elements' - write_pos' + j
                                   - (IF j < write_pos' THEN 0 ELSE element_count)
    BY DEF InPlace
  <2>1. data[j] = elements - write_pos + j - (IF j < write_pos THEN 0 ELSE element_count)
    BY DEF RingInv, InPlace
  <2>2. data'[j] = IF wraps /\ j < count - margin THEN elements + margin + j
                   ELSE IF j >= write_pos /\ (wraps \/ j < write_pos + count)
                        THEN elements + j - write_pos ELSE data[j]
    BY <1>1
  <2>3. j \in Int /\ 0 <= j /\ j < element_count
    BY <1>3 DEF Cells
  <2>4. CASE wraps
    BY <1>1, <1>2, <1>3, <1>4, <2>1, <2>2, <2>3, <2>4
  <2>5. CASE ~wraps
    BY <1>1, <1>2, <1>3, <1>4, <2>1, <2>2, <2>3, <2>5
  <2> QED  BY <2>4, <2>5
<1>10. elements' - available_read' = elements - available_read
  BY <1>1, <1>2, <1>3, <1>4, <1>7
<1> QED  BY <1>1, <1>3, <1>6, <1>7, <1>8, <1>9, <1>10 DEF RingInv, Queue!Put

LEMMA InitBufferSteps ==
  ASSUME RingInv, InitBuffer
  PROVE  RingInv' /\ Queue!Reset
<1>1. RingInit'
  BY DEF InitBuffer, RingInit
<1>2. RingInv'
  BY <1>1, RingInitHolds, PTL
<1>3. elements' - available_read' = 0
  BY DEF InitBuffer, available_read
<1> QED  BY <1>2, <1>3 DEF InitBuffer, Queue!Reset

-----------------------------------------------------------------------------
LEMMA RingSteps == RingInv /\ [RingNext]_ringVars
                 => RingInv' /\ [Queue!QueueNext]_(Queue!queueVars)
<1> SUFFICES ASSUME RingInv, [RingNext]_ringVars
             PROVE  RingInv' /\ [Queue!QueueNext]_(Queue!queueVars)
  OBVIOUS
<1>1. CASE InitBuffer
  BY <1>1, InitBufferSteps DEF Queue!QueueNext
<1>2. CASE \E n \in Counts : WriteBuffer(n) \/ ReadBuffer(n)
  BY <1>2, WriteBufferSteps, ReadBufferSteps DEF Queue!QueueNext
<1>3. CASE \E k \in Moves : MoveReadPtr(k)
  BY <1>3, MoveReadPtrSteps DEF Queue!QueueNext
<1>4. CASE UNCHANGED ringVars
  BY <1>4 DEF ringVars, RingInv, RingTypeOK, NotCrossed, InPlace, Queue!queueVars,
              available_read
<1> QED  BY <1>1, <1>2, <1>3, <1>4 DEF RingNext

(* The positions stay in the ring and the cells hold elements. *)
THEOREM RingTypeCorrect == RingSpec => []RingTypeOK
<1>1. RingInv => RingTypeOK
  BY DEF RingInv
<1> QED  BY <1>1, RingInitHolds, RingSteps, PTL DEF RingSpec

(* The ring buffer of any size is a queue of samples. *)
THEOREM QueueImplemented == RingSpec => IsSampleQueue
BY RingInitHolds, RingSteps, PTL DEF RingSpec, IsSampleQueue, Queue!QueueSpec

-----------------------------------------------------------------------------
(***************************************************************************)
(* The far end is there when a block is processed, and the system's delay  *)
(* does not become negative, for any size of the buffer that holds the     *)
(* longest delay of the sound card.                                        *)
(*                                                                         *)
(* DelayAccounted ties what can be read to the system's delay.  The read   *)
(* place is never in front of where the frames left it (aecKnownDelay >=   *)
(* 0) and never further back than the longest wanted delay and 95 samples; *)
(* so there is a partition when the delay is a frame or more, and room to  *)
(* rewind when it is less.                                                 *)
(***************************************************************************)

(* The delays that are asked for stay within those of the sound card. *)
DelaysBounded ==
  /\ 0 <= aecKnownDelay /\ aecKnownDelay <= MaxKnownDelay
  /\ knownDelay <= MaxSoundCard + FRAME_LEN * Mult - 160
  /\ filtDelay <= MaxSoundCard + FRAME_LEN * Mult

(* Nothing has been processed during the startup. *)
QuietStart == ECstartup => framesLeft = 0

EchoInv == /\ EchoTypeOK /\ DelaysBounded /\ QuietStart
           /\ DelayAccounted /\ DelayNotNegative /\ FarEndThere /\ OutputInStep

-----------------------------------------------------------------------------
(* A buffer moves by no more than it can, and towards where it is told. *)
LEMMA MovedWithin ==
  ASSUME NEW readable \in 0 .. kBufSizePartitions, NEW k \in Int
  PROVE  /\ Moved(readable, k) \in Int
         /\ readable - Moved(readable, k) \in 0 .. kBufSizePartitions
         /\ k >= 0 => 0 <= Moved(readable, k) /\ Moved(readable, k) <= k
         /\ k <= 0 => k <= Moved(readable, k) /\ Moved(readable, k) <= 0
         /\ (k >= 0 /\ k <= readable) => Moved(readable, k) = k
         /\ (k <= 0 /\ readable - k <= kBufSizePartitions) => Moved(readable, k) = k
         /\ (k >= 0 /\ k > readable) => Moved(readable, k) = readable
         /\ (k <= 0 /\ readable - k > kBufSizePartitions)
              => Moved(readable, k) = readable - kBufSizePartitions
BY EchoAssumption DEF Moved, Least, Most

LEMMA MostOf ==
  ASSUME NEW a \in Int, NEW b \in Int
  PROVE  a <= Most(a, b) /\ b <= Most(a, b) /\ (Most(a, b) = a \/ Most(a, b) = b)
BY DEF Most

(* C's division rounds towards zero. *)
LEMMA PartsRound ==
  ASSUME NEW n \in Int
  PROVE  /\ Parts(n) \in Int
         /\ n >= 0 => /\ Parts(n) >= 0 /\ Parts(n) * 64 <= n /\ n < Parts(n) * 64 + 64
         /\ n < 0 => /\ Parts(n) <= 0 /\ Parts(n) * 64 >= n /\ n > Parts(n) * 64 - 64
<1>1. CASE n >= 0
  BY <1>1 DEF Parts, PART_LEN
<1>2. CASE n < 0
  <2> DEFINE m == -n
  <2>1. m \in Nat /\ m > 0
    BY <1>2
  <2>2. /\ m \div 64 \in Int /\ m \div 64 >= 0
        /\ (m \div 64) * 64 <= m /\ m < (m \div 64) * 64 + 64
    BY <2>1
  <2> QED  BY <1>2, <2>1, <2>2 DEF Parts, PART_LEN
<1> QED  BY <1>1, <1>2

(* The bounds, for either value of Mult. *)
LEMMA EchoBounds ==
  /\ Mult \in 1 .. 2
  /\ kBufSizePartitions \in Nat /\ DelayChangeFrames \in Nat /\ kMaxBufSizeStart \in Nat
  /\ MaxSoundCard \in Nat /\ MaxSoundCard >= 80 * Mult
  /\ MaxKnownDelay = MaxSoundCard + 80 * Mult - 65
  /\ kBufSizePartitions * 64 >= MaxKnownDelay + 320
<1>1. CASE Mult = 1
  BY <1>1, EchoAssumption DEF MaxSoundCard, MaxKnownDelay, FRAME_LEN, PART_LEN
<1>2. CASE Mult = 2
  BY <1>2, EchoAssumption DEF MaxSoundCard, MaxKnownDelay, FRAME_LEN, PART_LEN
<1> QED  BY <1>1, <1>2, EchoAssumption

(* A sound card's delay in samples. *)
LEMMA SoundCardBounds ==
  ASSUME NEW ms \in SoundCardMs
  PROVE  /\ (ms + 10) * 8 * Mult \in Nat
         /\ (ms + 10) * 8 * Mult >= 80 * Mult
         /\ (ms + 10) * 8 * Mult <= MaxSoundCard
<1>1. CASE Mult = 1
  BY <1>1, EchoAssumption DEF MaxSoundCard
<1>2. CASE Mult = 2
  BY <1>2, EchoAssumption DEF MaxSoundCard
<1> QED  BY <1>1, <1>2, EchoAssumption

LEMMA EchoInitHolds == EchoInit => EchoInv
<1> SUFFICES ASSUME EchoInit PROVE EchoInv
  OBVIOUS
<1>1. EchoTypeOK
  <2>1. /\ far_pre_buf \in PART_LEN .. 2 * PART_LEN - 1
        /\ far_buf \in 0 .. kBufSizePartitions
        /\ nearFrBuf \in 0 .. PART_LEN - 1
        /\ outFrBuf \in 0 .. PART_LEN - 1
    BY EchoBounds DEF EchoInit, PART_LEN
  <2>2. /\ lastDelayDiff \in {"low", "middle", "high"}
        /\ timeForDelayChange \in 0 .. DelayChangeFrames + 1
        /\ bufSizeStart \in {Undecided} \cup 0 .. kMaxBufSizeStart
        /\ framesLeft \in 0 .. Mult
    BY EchoBounds DEF EchoInit
  <2>3. resample \in BOOLEAN /\ ECstartup \in BOOLEAN
    BY Zenon DEF EchoInit
  <2> QED  BY <2>1, <2>2, <2>3 DEF EchoInit, EchoTypeOK
<1>2. DelaysBounded /\ QuietStart
  BY EchoBounds DEF EchoInit, DelaysBounded, QuietStart, FRAME_LEN
<1>3. DelayAccounted /\ DelayNotNegative /\ FarEndThere /\ OutputInStep
  BY DEF EchoInit, DelayAccounted, DelayNotNegative, FarEndThere, OutputInStep, PART_LEN
<1> QED  BY <1>1, <1>2, <1>3 DEF EchoInv

LEMMA BufferFarendHolds ==
  ASSUME EchoInv, NEW n \in FarSamples, BufferFarend(n)
  PROVE  EchoInv'
<1> DEFINE pre == Least(far_pre_buf + n, PreBufSize)
           partitions == (pre - PART_LEN) \div PART_LEN
<1>1. n \in 0 .. 320
  BY EchoAssumption DEF FarSamples, FRAME_LEN
<1>2. pre = far_pre_buf + n /\ pre \in 64 .. 447
  BY <1>1 DEF EchoInv, EchoTypeOK, Least, PreBufSize, PART_LEN, FRAME_LEN
<1>3. /\ partitions \in 0 .. 5
      /\ partitions * 64 <= pre - 64 /\ pre - 64 < partitions * 64 + 64
  <2> HIDE DEF pre
  <2> QED  BY <1>2 DEF PART_LEN
<1> HIDE DEF pre, partitions
<1>4. /\ far_pre_buf' = pre - partitions * 64
      /\ far_buf' = Least(far_buf + partitions, kBufSizePartitions)
      /\ system_delay' = system_delay + n
                           - Most(0, far_buf + partitions - kBufSizePartitions) * 64
  BY DEF BufferFarend, Flushed, PART_LEN, pre, partitions
<1>5. UNCHANGED <<aecKnownDelay, estimate, resample, nearVars, startVars, framesLeft>>
  BY DEF BufferFarend
<1>6. CASE far_buf + partitions <= kBufSizePartitions
  <2>1. far_buf' = far_buf + partitions /\ system_delay' = system_delay + n
    BY <1>1, <1>3, <1>4, <1>6, EchoBounds DEF EchoInv, EchoTypeOK, Least, Most
  <2> QED  BY <1>1, <1>2, <1>3, <1>4, <1>5, <1>6, <2>1, EchoBounds
           DEF EchoInv, EchoTypeOK, DelaysBounded, QuietStart, DelayAccounted,
               DelayNotNegative, FarEndThere, OutputInStep, estimate, nearVars,
               startVars, PART_LEN, FRAME_LEN
<1>7. CASE far_buf + partitions > kBufSizePartitions
  <2>1. /\ far_buf' = kBufSizePartitions
        /\ system_delay' = system_delay + n
                             - (far_buf + partitions - kBufSizePartitions) * 64
    BY <1>1, <1>3, <1>4, <1>7, EchoBounds DEF EchoInv, EchoTypeOK, Least, Most
  <2>2. EchoTypeOK' /\ DelaysBounded' /\ QuietStart'
    BY <1>1, <1>2, <1>3, <1>4, <1>5, <2>1, EchoBounds
    DEF EchoInv, EchoTypeOK, DelaysBounded, QuietStart, estimate, nearVars, startVars,
        PART_LEN
  <2>3. DelayAccounted'
    BY <1>1, <1>2, <1>3, <1>4, <1>5, <2>1, EchoBounds
    DEF EchoInv, EchoTypeOK, DelayAccounted, nearVars, PART_LEN
  <2>4. DelayNotNegative'
    BY <2>1, <2>2, <2>3, EchoBounds
    DEF EchoTypeOK, DelaysBounded, DelayAccounted, DelayNotNegative, PART_LEN
  <2> QED  BY <1>5, <2>2, <2>3, <2>4
           DEF EchoInv, FarEndThere, OutputInStep, nearVars
<1> QED  BY <1>3, <1>6, <1>7, EchoBounds DEF EchoInv, EchoTypeOK

(* During the startup the read place moves over what is there. *)
LEMMA StartupHolds ==
  ASSUME EchoInv, Startup
  PROVE  EchoInv'
<1> DEFINE overhead == system_delay \div PART_LEN - bufSizeStart'
<1>1. UNCHANGED <<far_pre_buf, aecKnownDelay, estimate, nearVars, framesLeft>>
  BY DEF Startup
<1>2. /\ resample' \in BOOLEAN
      /\ bufSizeStart' \in {Undecided} \cup 0 .. kMaxBufSizeStart
  BY DEF Startup, EchoInv, EchoTypeOK
<1>3. /\ ECstartup' \in BOOLEAN /\ QuietStart'
      /\ far_buf' \in 0 .. kBufSizePartitions /\ system_delay' \in Nat
      /\ \E moved \in Int : /\ far_buf' = far_buf - moved
                            /\ system_delay' = system_delay - moved * 64
  <2>1. CASE bufSizeStart' # Undecided /\ overhead >= 0
    <3>1. overhead \in Nat /\ overhead * 64 <= system_delay
      BY <1>2, <2>1, EchoBounds DEF EchoInv, EchoTypeOK, DelayNotNegative, PART_LEN
    <3> HIDE DEF overhead
    <3>2. /\ far_buf' = far_buf - Moved(far_buf, overhead)
          /\ system_delay' = system_delay - Moved(far_buf, overhead) * 64
          /\ ECstartup' = FALSE /\ framesLeft' = 0
      BY <2>1 DEF Startup, MoveFarReadPtr, PART_LEN, overhead
    <3>3. far_buf \in 0 .. kBufSizePartitions /\ system_delay \in Nat
      BY DEF EchoInv, EchoTypeOK, DelayNotNegative
    <3>4. /\ Moved(far_buf, overhead) \in Int
          /\ far_buf - Moved(far_buf, overhead) \in 0 .. kBufSizePartitions
          /\ 0 <= Moved(far_buf, overhead) /\ Moved(far_buf, overhead) <= overhead
      BY <3>1, <3>3, EchoBounds DEF Moved, Least, Most
    <3>5. system_delay' \in Nat
      BY <3>1, <3>2, <3>3, <3>4
    <3>6. ECstartup' \in BOOLEAN /\ QuietStart'
      BY <3>2, Zenon DEF QuietStart
    <3> QED  BY <3>2, <3>4, <3>5, <3>6
  <2>2. CASE ~(bufSizeStart' # Undecided /\ overhead >= 0)
    <3>1. UNCHANGED <<ECstartup, far_buf, system_delay>>
      BY <2>2 DEF Startup
    <3>2. /\ far_buf' = far_buf - 0 /\ system_delay' = system_delay - 0 * 64
          /\ far_buf' \in 0 .. kBufSizePartitions /\ system_delay' \in Nat
      BY <3>1, EchoBounds DEF EchoInv, EchoTypeOK, DelayNotNegative
    <3>3. ECstartup' \in BOOLEAN /\ QuietStart'
      BY <1>1, <3>1, Zenon DEF EchoInv, EchoTypeOK, QuietStart
    <3> QED  BY <3>2, <3>3
  <2> QED  BY <2>1, <2>2
<1>4. EchoTypeOK' /\ DelaysBounded'
  BY <1>1, <1>2, <1>3
  DEF EchoInv, EchoTypeOK, DelaysBounded, estimate, nearVars
<1>5. DelayAccounted'
  <2>1. PICK moved \in Int : /\ far_buf' = far_buf - moved
                             /\ system_delay' = system_delay - moved * 64
    BY <1>3
  <2> QED  BY <1>1, <2>1, EchoBounds DEF EchoInv, EchoTypeOK, DelayAccounted, nearVars, PART_LEN
<1> QED  BY <1>1, <1>3, <1>4, <1>5
         DEF EchoInv, DelayNotNegative, FarEndThere, OutputInStep, nearVars

(* The estimate flushes a block only where there is more than one. *)
LEMMA ProcessHolds ==
  ASSUME EchoInv, NEW ms \in SoundCardMs, Process(ms)
  PROVE  EchoInv'
<1> DEFINE card == (ms + 10) * 8 * Mult
           delay == card - system_delay + 80 * Mult - (IF resample' THEN 1 ELSE 0)
           flushed == IF delay < 64 THEN Moved(far_buf, 1) ELSE 0
<1>1. UNCHANGED <<far_pre_buf, aecKnownDelay, nearVars, startVars>> /\ framesLeft' = Mult
  BY DEF Process
<1>2. resample' \in BOOLEAN /\ ~ECstartup
  BY DEF Process
<1>3. /\ far_buf' = far_buf - flushed
      /\ system_delay' = system_delay - flushed * 64
      /\ filtDelay' \in Between(filtDelay, Most(0, delay + flushed * 64))
      /\ SetKnownDelay
  BY DEF Process, EstBufDelay, PART_LEN, FRAME_LEN
<1>4. card \in Nat /\ card >= 80 * Mult /\ card <= MaxSoundCard
  BY SoundCardBounds
<1> HIDE DEF card
<1>5. /\ far_buf \in 0 .. kBufSizePartitions /\ system_delay \in Nat
      /\ filtDelay \in Nat /\ filtDelay <= MaxSoundCard + 80 * Mult
      /\ knownDelay \in Nat /\ knownDelay <= MaxSoundCard + 80 * Mult - 160
  BY DEF EchoInv, EchoTypeOK, DelayNotNegative, DelaysBounded, FRAME_LEN
<1>6. delay \in Int /\ delay <= MaxSoundCard + 80 * Mult
  BY <1>2, <1>4, <1>5, EchoBounds
<1>7. /\ flushed \in 0 .. 1 /\ far_buf - flushed \in 0 .. kBufSizePartitions
      /\ flushed = 1 => delay < 64
  BY <1>5, <1>6, EchoBounds DEF Moved, Least, Most
<1>8. flushed = 1 => system_delay >= 64
  BY <1>2, <1>4, <1>5, <1>7, EchoBounds
<1>9. Most(0, delay + flushed * 64) \in 0 .. (MaxSoundCard + 80 * Mult)
  BY <1>6, <1>7, <1>4, EchoBounds DEF Most
<1> HIDE DEF delay, flushed
<1>10. filtDelay' \in Nat /\ filtDelay' <= MaxSoundCard + 80 * Mult
  <2>1. filtDelay' \in FiltDelays
        /\ filtDelay' <= Most(filtDelay, Most(0, delay + flushed * 64))
    BY <1>3 DEF Between
  <2>2. Most(filtDelay, Most(0, delay + flushed * 64)) <= MaxSoundCard + 80 * Mult
    BY <1>5, <1>9, EchoBounds DEF Most
  <2>3. Most(filtDelay, Most(0, delay + flushed * 64)) \in Int
    BY <1>5, <1>9, EchoBounds DEF Most
  <2> QED  BY <2>1, <2>2, <2>3, EchoBounds, EchoAssumption
<1>11. /\ lastDelayDiff' \in {"low", "middle", "high"}
       /\ timeForDelayChange' \in 0 .. DelayChangeFrames + 1
       /\ knownDelay' \in Nat /\ knownDelay' <= MaxSoundCard + 80 * Mult - 160
  <2>1. lastDelayDiff' \in {"low", "middle", "high"}
    BY <1>3 DEF SetKnownDelay, Level
  <2>2. timeForDelayChange' \in 0 .. DelayChangeFrames + 1
    BY <1>3, EchoBounds DEF SetKnownDelay, EchoInv, EchoTypeOK, Least
  <2>3. knownDelay' = Most(filtDelay' - 160, 0) \/ knownDelay' = knownDelay
    BY <1>3 DEF SetKnownDelay
  <2>4. knownDelay' \in Nat /\ knownDelay' <= MaxSoundCard + 80 * Mult - 160
    <3>1. Most(filtDelay' - 160, 0) = 0 \/ Most(filtDelay' - 160, 0) = filtDelay' - 160
      BY DEF Most
    <3>2. Most(filtDelay' - 160, 0) >= 0
      <4>1. filtDelay' - 160 \in Int
        BY <1>10
      <4> QED  BY <4>1, MostOf
    <3>3. 0 <= MaxSoundCard + 80 * Mult - 160
      BY EchoBounds
    <3> QED  BY <2>3, <3>1, <3>2, <3>3, <1>5, <1>10, EchoBounds
  <2> QED  BY <2>1, <2>2, <2>4
<1>12. EchoTypeOK' /\ DelaysBounded' /\ QuietStart'
  BY <1>1, <1>2, <1>3, <1>5, <1>7, <1>10, <1>11, EchoBounds
  DEF EchoInv, EchoTypeOK, DelaysBounded, QuietStart, nearVars, startVars, FRAME_LEN
<1>13. DelayAccounted' /\ DelayNotNegative'
  BY <1>1, <1>3, <1>5, <1>7, <1>8, EchoBounds
  DEF EchoInv, EchoTypeOK, DelayAccounted, DelayNotNegative, nearVars, PART_LEN
<1> QED  BY <1>1, <1>12, <1>13 DEF EchoInv, FarEndThere, OutputInStep, nearVars

(* A frame is one block or two; there are as many partitions.  A delay below *)
(* a frame is rewound by more than a frame, for which there is room.         *)
LEMMA ProcessFrameHolds ==
  ASSUME EchoInv, ProcessFrame
  PROVE  EchoInv'
<1> DEFINE rewind == IF TooLittle THEN Moved(far_buf, -(Mult + 1)) ELSE 0
           wish == Parts(aecKnownDelay - knownDelay - 32)
           moved == Moved(far_buf - rewind, wish)
           readable == far_buf - rewind - moved
           blocks == (nearFrBuf + FRAME_LEN) \div PART_LEN
           out == outFrBuf + blocks * PART_LEN
<1>1. /\ framesLeft' = framesLeft - 1 /\ framesLeft > 0
      /\ system_delay' = system_delay - rewind * 64 - 80
      /\ aecKnownDelay' = aecKnownDelay - moved * 64
      /\ far_buf' = Most(0, readable - blocks)
      /\ farUnread' = farUnread + Most(0, blocks - readable)
      /\ nearFrBuf' = (nearFrBuf + 80) % 64
      /\ stuffed' = stuffed + OutputStuffing(out)
      /\ outFrBuf' = out + OutputStuffing(out) - 80
      /\ UNCHANGED <<far_pre_buf, estimate, resample, startVars>>
  BY DEF ProcessFrame, Rewound, PART_LEN, FRAME_LEN
<1>2. /\ far_buf \in 0 .. kBufSizePartitions /\ system_delay \in Nat
      /\ far_pre_buf \in 64 .. 127 /\ nearFrBuf \in 0 .. 63 /\ outFrBuf \in 0 .. 63
      /\ aecKnownDelay \in 0 .. MaxKnownDelay /\ knownDelay \in Nat
      /\ knownDelay <= MaxKnownDelay - 95
      /\ stuffed \in Nat /\ nearFrBuf + outFrBuf = stuffed /\ stuffed < 64
      /\ farUnread = 0 /\ framesLeft \in 0 .. Mult
      /\ far_buf * 64 = system_delay - (far_pre_buf - 64) + aecKnownDelay + nearFrBuf
  BY EchoBounds DEF EchoInv, EchoTypeOK, DelaysBounded, DelayNotNegative, DelayAccounted,
                OutputInStep, FarEndThere, PART_LEN, FRAME_LEN
<1>3. /\ blocks \in 1 .. 2 /\ nearFrBuf' \in 0 .. 63
      /\ nearFrBuf' = nearFrBuf + 80 - blocks * 64
  BY <1>1, <1>2 DEF PART_LEN, FRAME_LEN
<1>4. /\ rewind \in -3 .. 0
      /\ far_buf - rewind \in 0 .. kBufSizePartitions
      /\ system_delay - rewind * 64 >= 80
  <2>1. CASE TooLittle
    <3>1. far_buf + Mult + 1 <= kBufSizePartitions
      BY <1>2, <2>1, EchoBounds DEF TooLittle, FRAME_LEN
    <3>2. rewind = -(Mult + 1)
      BY <1>2, <2>1, <3>1, EchoBounds DEF Moved, Least, Most
    <3> HIDE DEF rewind
    <3> QED  BY <1>2, <3>1, <3>2, EchoBounds
  <2>2. CASE ~TooLittle
    BY <1>2, <2>2, EchoBounds DEF TooLittle, FRAME_LEN
  <2> QED  BY <2>1, <2>2
<1>5. /\ wish \in Int
      /\ wish > 0 => wish * 64 <= aecKnownDelay - knownDelay - 32
      /\ wish < 0 => wish * 64 >= aecKnownDelay - knownDelay - 32
  BY <1>2, PartsRound, EchoBounds
<1> HIDE DEF rewind, wish, blocks, out
<1>6. /\ moved \in Int /\ readable \in 0 .. kBufSizePartitions
      /\ 0 <= wish => 0 <= moved /\ moved <= wish
      /\ wish <= 0 => wish <= moved /\ moved <= 0
  BY <1>4, <1>5, EchoBounds DEF Moved, Least, Most
<1> HIDE DEF moved
<1>7. aecKnownDelay' \in 0 .. MaxKnownDelay
  BY <1>1, <1>2, <1>5, <1>6, EchoBounds
<1>8. readable * 64 = system_delay - rewind * 64 - (far_pre_buf - 64)
                        + aecKnownDelay' + nearFrBuf
  BY <1>1, <1>2, <1>4, <1>6, EchoBounds
<1> HIDE DEF readable
<1>9. readable >= blocks
  <2>1. readable * 64 >= nearFrBuf + 17
    <3>1. aecKnownDelay' \in Int /\ aecKnownDelay' >= 0
      BY <1>7, EchoBounds
    <3>2. rewind \in Int /\ readable \in Int
      BY <1>4, <1>6, EchoBounds
    <3>3. system_delay - rewind * 64 \in Int /\ system_delay - rewind * 64 >= 80
      BY <1>2, <1>4, <3>2
    <3>4. far_pre_buf \in 64 .. 127 /\ nearFrBuf \in 0 .. 63
      BY <1>2
    <3> QED  BY <1>8, <3>1, <3>2, <3>3, <3>4
  <2>2. blocks = 2 => nearFrBuf >= 48
    BY <1>2, <1>3
  <2>3. blocks = 1 \/ blocks = 2
    BY <1>3
  <2>4. readable \in Int
    BY <1>6, EchoBounds
  <2> QED  BY <1>2, <2>1, <2>2, <2>3, <2>4
<1>10. /\ far_buf' = readable - blocks /\ farUnread' = 0
  BY <1>1, <1>2, <1>3, <1>6, <1>9, EchoBounds DEF Most
<1>11. /\ outFrBuf' \in 0 .. 63 /\ stuffed' \in Nat /\ stuffed' < 64
       /\ nearFrBuf' + outFrBuf' = stuffed'
  BY <1>1, <1>2, <1>3 DEF OutputStuffing, Most, out, FRAME_LEN, PART_LEN
<1>12. EchoTypeOK' /\ DelaysBounded' /\ QuietStart'
  <2>1. DelaysBounded' /\ system_delay' \in Int
    BY <1>1, <1>2, <1>4, <1>7, EchoBounds DEF EchoInv, EchoTypeOK, DelaysBounded, estimate
  <2>2. QuietStart'
    BY <1>1, <1>2, EchoBounds DEF EchoInv, QuietStart, startVars
  <2>3. far_buf' \in 0 .. kBufSizePartitions /\ framesLeft' \in 0 .. Mult
    BY <1>1, <1>2, <1>3, <1>6, <1>9, <1>10, EchoBounds
  <2> QED  BY <1>1, <1>3, <1>7, <1>10, <1>11, <2>1, <2>2, <2>3
           DEF EchoInv, EchoTypeOK, estimate, startVars, PART_LEN
<1>13. DelayAccounted' /\ DelayNotNegative'
  BY <1>1, <1>2, <1>3, <1>4, <1>6, <1>7, <1>8, <1>10, EchoBounds
  DEF DelayAccounted, DelayNotNegative, PART_LEN
<1> QED  BY <1>10, <1>11, <1>12, <1>13 DEF EchoInv, FarEndThere, OutputInStep, PART_LEN

LEMMA InitializeHolds ==
  ASSUME EchoInv, Initialize
  PROVE  EchoInv'
<1>1. EchoInit'
  BY DEF Initialize, EchoInit
<1> QED  BY <1>1, EchoInitHolds, PTL

LEMMA EchoInductive == EchoSpec => []EchoInv
<1>1. EchoInv /\ [EchoNext]_echoVars => EchoInv'
  <2> SUFFICES ASSUME EchoInv, [EchoNext]_echoVars PROVE EchoInv'
    OBVIOUS
  <2>1. CASE \E n \in FarSamples : BufferFarend(n)
    BY <2>1, BufferFarendHolds
  <2>2. CASE Startup
    BY <2>2, StartupHolds
  <2>3. CASE \E ms \in SoundCardMs : Process(ms)
    BY <2>3, ProcessHolds
  <2>4. CASE ProcessFrame
    BY <2>4, ProcessFrameHolds
  <2>5. CASE Initialize
    BY <2>5, InitializeHolds
  <2>6. CASE UNCHANGED echoVars
    BY <2>6
    DEF echoVars, farVars, estimate, nearVars, startVars, EchoInv, EchoTypeOK,
        DelaysBounded, QuietStart, DelayAccounted, DelayNotNegative, FarEndThere,
        OutputInStep
  <2> QED  BY <2>1, <2>2, <2>3, <2>4, <2>5, <2>6 DEF EchoNext
<1> QED  BY <1>1, EchoInitHolds, PTL DEF EchoSpec

-----------------------------------------------------------------------------
(* Every variable of the echo canceller has its type. *)
THEOREM EchoTypeCorrect == EchoSpec => []EchoTypeOK
<1>1. EchoInv => EchoTypeOK
  BY DEF EchoInv
<1> QED  BY <1>1, EchoInductive, PTL

(* Each block is processed against a partition that is there: the assertions *)
(* of aec_core.c hold.                                                       *)
THEOREM FarEndIsThere == EchoSpec => []FarEndThere
<1>1. EchoInv => FarEndThere
  BY DEF EchoInv
<1> QED  BY <1>1, EchoInductive, PTL

(* The system's delay is not negative, and is what waits in far_buf but for  *)
(* the moves that follow the sound card.                                     *)
THEOREM DelayCorrect == EchoSpec => []DelayTrue
<1>1. EchoInv => DelayTrue
  BY DEF EchoInv, DelayTrue
<1> QED  BY <1>1, EchoInductive, PTL

(* Every sample of the near end comes out once, less than a block late.      *)
THEOREM OutputComplete == EchoSpec => []OutputInStep
<1>1. EchoInv => OutputInStep
  BY DEF EchoInv
<1> QED  BY <1>1, EchoInductive, PTL

(* Neither end runs short of samples.                                        *)
THEOREM SamplesRight == EchoSpec => []SamplesInStep
  BY FarEndIsThere, OutputComplete, PTL DEF SamplesInStep

-----------------------------------------------------------------------------
(***************************************************************************)
(* The input of the encoders stays in step with the channel's clock, for   *)
(* any number of codecs, any frame and buffer sizes, any width of the      *)
(* timestamps and any number of calls.  Two facts carry the proof: each    *)
(* encoder's blocks and timestamps run in parallel, the last one being the *)
(* one that the next block may replace; and an encoder that dropped audio  *)
(* is ready for the same timestamp again, so that it does not drop twice.  *)
(***************************************************************************)

EncoderRecord == [audio : Seq(Nat), stamps : Seq(Int), last : Int]

\* One encoder's input, when no block is newer than limit
EncoderTrue(e, limit) ==
  /\ e \in EncoderRecord
  /\ Len(e.audio) <= BufferBlocks /\ Len(e.stamps) = Len(e.audio)
  /\ \A k \in 1 .. Len(e.audio) : e.stamps[k] = Stamp(e.audio[k]) /\ e.audio[k] <= limit
  /\ \A k \in 2 .. Len(e.audio) : e.audio[k - 1] < e.audio[k]
  /\ Len(e.audio) > 0 => e.last = Stamp(e.audio[Len(e.audio)])

\* The encoder took the block of this time, and will take it again.
Ready(e) == Len(e.audio) > 0 /\ e.last = Stamp(captured)

Controls ==
  /\ current \in SendCodecs \cup {NoCodec} /\ secondary \in BOOLEAN
  /\ process \in {"idle", "added", "single", "dual", "send", "sent"}
  /\ captured \in Nat

EncodersTrue ==
  /\ encoders \in [Encoders -> EncoderRecord]
  /\ \A e \in Encoders : EncoderTrue(encoders[e], captured)

DroppedOnce ==
  /\ overflows \in 0 .. 2
  /\ overflows > 0 => process = "idle" /\ current # NoCodec /\ Ready(encoders[current])
  /\ overflows > 1 => secondary /\ Ready(encoders[Secondary])

SenderInv == Controls /\ EncodersTrue /\ DroppedOnce

-----------------------------------------------------------------------------
(* The operations of one encoder *)

LEMMA StampType == \A b \in Nat : Stamp(b) \in Int
  BY SenderAssumption DEF Stamp

\* Without its last element
LEMMA FrontOf ==
  ASSUME NEW S, NEW s \in Seq(S), Len(s) > 0
  PROVE  /\ Front(s) \in Seq(S) /\ Len(Front(s)) = Len(s) - 1
         /\ \A k \in 1 .. Len(s) - 1 : Front(s)[k] = s[k]
<1>1. PICK n \in Nat : n = Len(s) - 1
  OBVIOUS
<1>2. \A k \in 1 .. n : s[k] \in S
  BY <1>1
<1>3. /\ SubSeq(s, 1, n) \in Seq(S)
      /\ Len(SubSeq(s, 1, n)) = IF 1 <= n THEN n - 1 + 1 ELSE 0
      /\ \A k \in 1 .. n - 1 + 1 : SubSeq(s, 1, n)[k] = s[1 + k - 1]
  BY <1>2, SubSeqProperties, 1 \in Int, n \in Int
<1>4. Len(SubSeq(s, 1, n)) = n
  <2>1. CASE n = 0
    BY <2>1, <1>3
  <2>2. CASE n >= 1
    BY <2>2, <1>3
  <2> QED BY <2>1, <2>2
<1>5. \A k \in 1 .. n : SubSeq(s, 1, n)[k] = s[k]
  <2>1. ASSUME NEW k \in 1 .. n PROVE SubSeq(s, 1, n)[k] = s[k]
    <3>1. k \in 1 .. n - 1 + 1 /\ 1 + k - 1 = k
      OBVIOUS
    <3> QED BY <3>1, <1>3
  <2> QED BY <2>1
<1>6. Front(s) = SubSeq(s, 1, n)
  BY <1>1 DEF Front
<1> QED BY <1>1, <1>3, <1>4, <1>5, <1>6

\* An encoder that is fed keeps blocks and timestamps in parallel, and is
\* ready for the block it was given.
LEMMA AddTrue ==
  ASSUME NEW e, NEW block \in Nat, EncoderTrue(e, block)
  PROVE  /\ EncoderTrue(Add(e, block), block)
         /\ Len(Add(e, block).audio) > 0 /\ Add(e, block).last = Stamp(block)
<1> DEFINE audio == Before(e.audio, Replaces(e, block))
           stamps == Before(e.stamps, Replaces(e, block))
<1>0. e.audio \in Seq(Nat) /\ e.stamps \in Seq(Int) /\ Stamp(block) \in Int
  BY StampType DEF EncoderTrue, EncoderRecord
<1>1. /\ audio \in Seq(Nat) /\ stamps \in Seq(Int) /\ Len(stamps) = Len(audio)
      /\ Len(audio) <= BufferBlocks
      /\ \A k \in 1 .. Len(audio) : stamps[k] = Stamp(audio[k]) /\ audio[k] < block
      /\ \A k \in 2 .. Len(audio) : audio[k - 1] < audio[k]
  <2>1. CASE Replaces(e, block)
    <3>1. Len(e.audio) > 0 /\ Len(e.stamps) > 0
      BY <1>0, <2>1 DEF Replaces
    <3>2. audio = Front(e.audio) /\ stamps = Front(e.stamps)
      BY <2>1 DEF Before
    <3>3. \A k \in 1 .. Len(e.audio) - 1 : e.audio[k] < block
      <4>1. ASSUME NEW k \in 1 .. Len(e.audio) - 1 PROVE e.audio[k] < block
        <5>1. k + 1 \in 2 .. Len(e.audio) /\ k + 1 \in 1 .. Len(e.audio) /\ (k + 1) - 1 = k
          BY <1>0
        <5>2. e.audio[(k + 1) - 1] < e.audio[k + 1] /\ e.audio[k + 1] <= block
          BY <5>1 DEF EncoderTrue
        <5>3. e.audio[k] < e.audio[k + 1]
          BY <5>1, <5>2
        <5>4. e.audio[k] \in Nat /\ e.audio[k + 1] \in Nat
          <6>1. \A i \in 1 .. Len(e.audio) : e.audio[i] \in Nat
            BY <1>0
          <6>2. k \in 1 .. Len(e.audio)
            BY <1>0
          <6> QED BY <5>1, <6>1, <6>2
        <5> QED BY <5>2, <5>3, <5>4
      <4> QED BY <4>1
    <3> HIDE DEF audio, stamps
    <3>4. /\ audio \in Seq(Nat) /\ Len(audio) = Len(e.audio) - 1
          /\ \A k \in 1 .. Len(e.audio) - 1 : audio[k] = e.audio[k]
      BY <1>0, <3>1, <3>2, FrontOf
    <3>5. /\ stamps \in Seq(Int) /\ Len(stamps) = Len(e.stamps) - 1
          /\ \A k \in 1 .. Len(e.stamps) - 1 : stamps[k] = e.stamps[k]
      BY <1>0, <3>1, <3>2, FrontOf
    <3>6. /\ Len(stamps) = Len(audio) /\ Len(audio) <= BufferBlocks
      BY <1>0, <3>1, <3>4, <3>5, SenderAssumption DEF EncoderTrue
    <3>7. ASSUME NEW k \in 1 .. Len(audio)
          PROVE  stamps[k] = Stamp(audio[k]) /\ audio[k] < block
      <4>1. k \in 1 .. Len(e.audio) - 1 /\ k \in 1 .. Len(e.stamps) - 1 /\ k \in 1 .. Len(e.audio)
        BY <1>0, <3>4, <3>5, <3>6 DEF EncoderTrue
      <4> QED BY <4>1, <3>3, <3>4, <3>5 DEF EncoderTrue
    <3>8. ASSUME NEW k \in 2 .. Len(audio) PROVE audio[k - 1] < audio[k]
      <4>1. /\ k \in 1 .. Len(e.audio) - 1 /\ k - 1 \in 1 .. Len(e.audio) - 1
            /\ k \in 2 .. Len(e.audio)
        BY <1>0, <3>4
      <4> QED BY <4>1, <3>4 DEF EncoderTrue
    <3> QED BY <3>4, <3>5, <3>6, <3>7, <3>8
  <2>2. CASE ~Replaces(e, block)
    <3>1. audio = e.audio /\ stamps = e.stamps
      BY <2>2 DEF Before
    <3>2. \A k \in 1 .. Len(e.audio) : e.audio[k] < block
      <4>1. CASE Len(e.audio) = 0
        BY <4>1, <1>0
      <4>2. CASE Len(e.audio) > 0
        <5>1. e.audio # <<>> /\ e.stamps # <<>>
          BY <4>2, <1>0 DEF EncoderTrue
        <5>2. e.last # Stamp(block)
          BY <5>1, <2>2 DEF Replaces
        <5>3. e.audio[Len(e.audio)] # block
          BY <5>2, <4>2 DEF EncoderTrue
        <5>4. ASSUME NEW k \in 1 .. Len(e.audio) PROVE e.audio[k] < block
          <6>1. CASE k = Len(e.audio)
            BY <6>1, <5>3, <1>0, SMTT(30) DEF EncoderTrue
          <6>2. CASE k < Len(e.audio)
            <7>1. e.audio[(k + 1) - 1] < e.audio[k + 1] /\ e.audio[k + 1] <= block
              BY <6>2, <1>0, SMTT(30) DEF EncoderTrue
            <7> QED BY <7>1, <1>0, <6>2, SMTT(30)
          <6> QED BY <6>1, <6>2, <1>0
        <5> QED BY <5>4
      <4> QED BY <4>1, <4>2, <1>0
    <3> HIDE DEF audio, stamps
    <3> QED BY <1>0, <3>1, <3>2 DEF EncoderTrue
  <2> QED BY <2>1, <2>2
<1> DEFINE full == Overflows(e, block)
           kept == IF full THEN Tail(audio) ELSE audio
           keptStamps == IF full THEN Tail(stamps) ELSE stamps
<1>2. full <=> Len(audio) = BufferBlocks
  BY DEF Overflows
<1>3. Add(e, block) = [audio |-> Append(kept, block), stamps |-> Append(keptStamps, Stamp(block)),
                       last |-> Stamp(block)]
  BY DEF Add
<1> HIDE DEF audio, stamps, full
<1>4. /\ kept \in Seq(Nat) /\ keptStamps \in Seq(Int) /\ Len(keptStamps) = Len(kept)
      /\ Len(kept) + 1 <= BufferBlocks
      /\ \A k \in 1 .. Len(kept) : keptStamps[k] = Stamp(kept[k]) /\ kept[k] < block
      /\ \A k \in 2 .. Len(kept) : kept[k - 1] < kept[k]
  <2>1. CASE full
    <3>1. Len(audio) > 0 /\ Len(stamps) > 0
      BY <2>1, <1>1, <1>2, SenderAssumption
    <3>2. /\ Tail(audio) \in Seq(Nat) /\ Len(Tail(audio)) = Len(audio) - 1
          /\ \A k \in 1 .. Len(audio) - 1 : Tail(audio)[k] = audio[k + 1]
      BY <1>1, <3>1
    <3>3. /\ Tail(stamps) \in Seq(Int) /\ Len(Tail(stamps)) = Len(stamps) - 1
          /\ \A k \in 1 .. Len(stamps) - 1 : Tail(stamps)[k] = stamps[k + 1]
      BY <1>1, <3>1
    <3>4. ASSUME NEW k \in 2 .. Len(audio) - 1 PROVE Tail(audio)[k - 1] < Tail(audio)[k]
      <4>1. audio[(k + 1) - 1] < audio[k + 1]
        BY <1>1
      <4>2. Tail(audio)[k] = audio[k + 1] /\ Tail(audio)[k - 1] = audio[(k - 1) + 1]
        BY <3>2, <1>1
      <4> QED BY <4>1, <4>2, <1>1
    <3>5. /\ kept = Tail(audio) /\ keptStamps = Tail(stamps) /\ Len(audio) = BufferBlocks
          /\ Len(audio) \in Nat /\ Len(stamps) = Len(audio)
      BY <2>1, <1>1, <1>2
    <3> HIDE DEF kept, keptStamps
    <3>6. /\ kept \in Seq(Nat) /\ keptStamps \in Seq(Int) /\ Len(kept) = Len(audio) - 1
          /\ Len(keptStamps) = Len(audio) - 1
      BY <3>2, <3>3, <3>5
    <3>7. Len(kept) + 1 <= BufferBlocks
      BY <3>5, <3>6
    <3>8. ASSUME NEW k \in 1 .. Len(kept) PROVE keptStamps[k] = Stamp(kept[k]) /\ kept[k] < block
      <4>1. k + 1 \in 1 .. Len(audio) /\ kept[k] = audio[k + 1] /\ keptStamps[k] = stamps[k + 1]
        BY <3>2, <3>3, <3>5, <3>6
      <4> QED BY <1>1, <4>1
    <3>9. \A k \in 2 .. Len(kept) : kept[k - 1] < kept[k]
      BY <3>4, <3>5, <3>6
    <3> QED BY <3>5, <3>6, <3>7, <3>8, <3>9
  <2>2. CASE ~full
    BY <2>2, <1>1, <1>2, SenderAssumption
  <2> QED BY <2>1, <2>2
<1> HIDE DEF kept, keptStamps
<1> DEFINE a == Append(kept, block)
           t == Append(keptStamps, Stamp(block))
<1>5. /\ a \in Seq(Nat) /\ Len(a) = Len(kept) + 1 /\ a[Len(a)] = block
      /\ \A k \in 1 .. Len(kept) : a[k] = kept[k]
  BY <1>4
<1>6. /\ t \in Seq(Int) /\ Len(t) = Len(kept) + 1 /\ t[Len(t)] = Stamp(block)
      /\ \A k \in 1 .. Len(kept) : t[k] = keptStamps[k]
  BY <1>4, <1>0
<1> HIDE DEF a, t
<1>7. Len(kept) \in Nat
  BY <1>4
<1>8. ASSUME NEW k \in 1 .. Len(a) PROVE t[k] = Stamp(a[k]) /\ a[k] <= block
  <2>1. CASE k = Len(a)
    BY <2>1, <1>5, <1>6
  <2>2. CASE k \in 1 .. Len(kept)
    <3>1. kept[k] \in Nat /\ kept[k] < block /\ keptStamps[k] = Stamp(kept[k])
      BY <2>2, <1>4
    <3>2. a[k] = kept[k] /\ t[k] = keptStamps[k]
      BY <2>2, <1>5, <1>6
    <3> QED BY <3>1, <3>2
  <2> QED BY <2>1, <2>2, <1>5, <1>7
<1>9. ASSUME NEW k \in 2 .. Len(a) PROVE a[k - 1] < a[k]
  <2>1. CASE k = Len(a)
    <3>1. k - 1 \in 1 .. Len(kept)
      BY <2>1, <1>5, <1>7
    <3> QED BY <2>1, <3>1, <1>4, <1>5
  <2>2. CASE k \in 2 .. Len(kept)
    <3>1. k \in 1 .. Len(kept) /\ k - 1 \in 1 .. Len(kept)
      BY <2>2, <1>7
    <3> QED BY <2>2, <3>1, <1>4, <1>5
  <2> QED BY <2>1, <2>2, <1>5, <1>7
<1>10. Add(e, block) = [audio |-> a, stamps |-> t, last |-> Stamp(block)]
  BY <1>3 DEF a, t
<1> DEFINE added == Add(e, block)
<1>11. /\ added.audio = a /\ added.stamps = t /\ added.last = Stamp(block)
       /\ added \in EncoderRecord
  BY <1>0, <1>5, <1>6, <1>10 DEF EncoderRecord
<1>12. /\ Len(a) <= BufferBlocks /\ Len(t) = Len(a) /\ Len(a) > 0
       /\ Stamp(block) = Stamp(a[Len(a)])
  BY <1>4, <1>5, <1>6, <1>7
<1> HIDE DEF added
<1>13. EncoderTrue(added, block)
  BY <1>8, <1>9, <1>11, <1>12 DEF EncoderTrue
<1> QED BY <1>11, <1>12, <1>13 DEF added

\* An encoder that is new, or was emptied
LEMMA EmptyTrue ==
  ASSUME NEW e, NEW limit \in Nat, e \in EncoderRecord, e.audio = <<>>, e.stamps = <<>>
  PROVE  EncoderTrue(e, limit)
  BY SenderAssumption DEF EncoderTrue

LEMMA FreshTrue == Fresh \in EncoderRecord /\ \A limit \in Nat : EncoderTrue(Fresh, limit)
<1>1. Fresh \in EncoderRecord
  BY DEF Fresh, EncoderRecord
<1> QED BY <1>1, EmptyTrue DEF Fresh

\* An encoder from which blocks were read keeps both in parallel.
LEMMA AfterTrue ==
  ASSUME NEW e, NEW limit \in Nat, EncoderTrue(e, limit), NEW blocks \in Nat
  PROVE  EncoderTrue(After(e, blocks), limit)
<1> DEFINE left == SubSeq(e.audio, blocks + 1, Len(e.audio))
           leftStamps == SubSeq(e.stamps, blocks + 1, Len(e.stamps))
           after == After(e, blocks)
<1>0. e.audio \in Seq(Nat) /\ e.stamps \in Seq(Int) /\ e.last \in Int /\ Len(e.stamps) = Len(e.audio)
  BY DEF EncoderTrue, EncoderRecord
<1>1. /\ after.audio = left /\ after.stamps = leftStamps /\ after.last = e.last
      /\ after = [audio |-> left, stamps |-> leftStamps, last |-> e.last]
  <2>1. e = [audio |-> e.audio, stamps |-> e.stamps, last |-> e.last]
    BY DEF EncoderTrue, EncoderRecord
  <2>2. after = [audio |-> left, stamps |-> leftStamps, last |-> e.last]
    <3>1. DOMAIN e = {"audio", "stamps", "last"}
      BY <2>1
    <3>2. After(e, blocks) = [[e EXCEPT !.audio = left] EXCEPT !.stamps = leftStamps]
      BY <3>1, Zenon DEF After
    <3> HIDE DEF left, leftStamps
    <3> QED BY <2>1, <3>1, <3>2
  <2> HIDE DEF after, left, leftStamps
  <2> QED BY <2>2
<1>2. CASE blocks >= Len(e.audio)
  <2>1. left = <<>> /\ leftStamps = <<>>
    BY <1>0, <1>2, SubSeqEmpty
  <2> HIDE DEF left, leftStamps, after
  <2>2. after \in EncoderRecord
    BY <1>0, <1>1, <2>1 DEF EncoderRecord
  <2>3. EncoderTrue(after, limit)
    BY <1>1, <2>1, <2>2, EmptyTrue
  <2> QED BY <2>3 DEF after
<1>3. CASE blocks < Len(e.audio)
  <2>0. Len(e.audio) \in Nat
    BY <1>0
  <2>1. PICK n \in Nat : n = Len(e.audio) - blocks /\ n > 0
    BY <2>0, <1>3
  <2>2. /\ left \in Seq(Nat) /\ Len(left) = n
        /\ \A k \in 1 .. n : left[k] = e.audio[blocks + k]
    <3>1. \A k \in blocks + 1 .. Len(e.audio) : e.audio[k] \in Nat
      BY <1>0
    <3>2. blocks + 1 \in Int /\ Len(e.audio) \in Int /\ blocks + 1 <= Len(e.audio)
      BY <1>0, <1>3
    <3>3. /\ left \in Seq(Nat)
          /\ Len(left) = Len(e.audio) - (blocks + 1) + 1
          /\ \A k \in 1 .. Len(e.audio) - (blocks + 1) + 1 : left[k] = e.audio[blocks + 1 + k - 1]
      BY <3>1, <3>2, SubSeqProperties
    <3>4. /\ Len(e.audio) - (blocks + 1) + 1 = n
          /\ \A k \in 1 .. n : blocks + 1 + k - 1 = blocks + k
      BY <2>1, <3>2
    <3> HIDE DEF left
    <3> QED BY <3>3, <3>4
  <2>3. /\ leftStamps \in Seq(Int) /\ Len(leftStamps) = n
        /\ \A k \in 1 .. n : leftStamps[k] = e.stamps[blocks + k]
    <3>1. \A k \in blocks + 1 .. Len(e.stamps) : e.stamps[k] \in Int
      BY <1>0
    <3>2. blocks + 1 \in Int /\ Len(e.stamps) \in Int /\ blocks + 1 <= Len(e.stamps)
      BY <1>0, <1>3
    <3>3. /\ leftStamps \in Seq(Int)
          /\ Len(leftStamps) = Len(e.stamps) - (blocks + 1) + 1
          /\ \A k \in 1 .. Len(e.stamps) - (blocks + 1) + 1 :
               leftStamps[k] = e.stamps[blocks + 1 + k - 1]
      BY <3>1, <3>2, SubSeqProperties
    <3>4. /\ Len(e.stamps) - (blocks + 1) + 1 = n
          /\ \A k \in 1 .. n : blocks + 1 + k - 1 = blocks + k
      BY <2>1, <3>2, <1>0
    <3> HIDE DEF leftStamps
    <3> QED BY <3>3, <3>4
  <2>4. after \in EncoderRecord
    BY <1>0, <1>1, <2>2, <2>3 DEF EncoderRecord
  <2> HIDE DEF left, leftStamps, after
  <2>5. Len(left) <= BufferBlocks /\ blocks + Len(left) = Len(e.audio)
    <3>1. Len(e.audio) <= BufferBlocks /\ BufferBlocks \in Nat
      BY SenderAssumption DEF EncoderTrue
    <3> QED BY <2>0, <2>1, <2>2, <3>1
  <2>6. ASSUME NEW k \in 1 .. Len(left)
        PROVE  leftStamps[k] = Stamp(left[k]) /\ left[k] <= limit
    <3>1. blocks + k \in 1 .. Len(e.audio) /\ k \in 1 .. n
      BY <2>1, <2>2
    <3> QED BY <3>1, <2>2, <2>3 DEF EncoderTrue
  <2>7. ASSUME NEW k \in 2 .. Len(left) PROVE left[k - 1] < left[k]
    <3>1. /\ blocks + k \in 2 .. Len(e.audio) /\ k \in 1 .. n /\ k - 1 \in 1 .. n
          /\ blocks + (k - 1) = (blocks + k) - 1
      BY <2>1, <2>2
    <3> QED BY <3>1, <2>2 DEF EncoderTrue
  <2>8. e.last = Stamp(left[Len(left)])
    <3>1. blocks + n = Len(e.audio) /\ n \in 1 .. n /\ Len(e.audio) > 0
      BY <1>0, <2>1
    <3> QED BY <3>1, <2>2 DEF EncoderTrue
  <2>9. EncoderTrue(after, limit)
    BY <1>1, <2>1, <2>2, <2>3, <2>4, <2>5, <2>6, <2>7, <2>8 DEF EncoderTrue
  <2> QED BY <2>9 DEF after
<1> QED BY <1>0, <1>2, <1>3

\* What was true before another block was captured still is.
LEMMA LaterTrue ==
  ASSUME NEW e, NEW limit \in Nat, EncoderTrue(e, limit)
  PROVE  EncoderTrue(e, limit + 1)
<1>1. \A k \in 1 .. Len(e.audio) : e.audio[k] \in Nat
  BY DEF EncoderTrue, EncoderRecord
<1> QED BY <1>1 DEF EncoderTrue

\* An encoder that is ready for the block replaces the last one.
LEMMA ReadyDropsNothing ==
  ASSUME NEW e, EncoderTrue(e, captured), Ready(e)
  PROVE  ~Overflows(e, captured)
<1>1. e.audio \in Seq(Nat) /\ e.stamps \in Seq(Int) /\ Len(e.audio) > 0 /\ Len(e.stamps) > 0
  BY DEF EncoderTrue, EncoderRecord, Ready
<1>2. Replaces(e, captured)
  BY <1>1 DEF Ready, Replaces
<1>3. Len(Before(e.audio, Replaces(e, captured))) = Len(e.audio) - 1
  BY <1>1, <1>2, FrontOf DEF Before
<1> QED BY <1>1, <1>3, SenderAssumption DEF Overflows, EncoderTrue

-----------------------------------------------------------------------------
(* Steps of the module *)

LEMMA EachTrue ==
  ASSUME encoders' = [e \in Encoders |-> encoders'[e]],
         \A e \in Encoders : EncoderTrue(encoders'[e], captured')
  PROVE  EncodersTrue'
<1>1. \A e \in Encoders : encoders'[e] \in EncoderRecord
  BY DEF EncoderTrue
<1>2. encoders' \in [Encoders -> EncoderRecord]
  BY <1>1
<1> QED BY <1>2 DEF EncodersTrue, EncoderTrue, Stamp

\* Whatever is read of the encoders, they stay true.
LEMMA ReadTrue ==
  ASSUME Controls, EncodersTrue, captured' = captured,
         encoders' = [e \in Encoders |-> encoders'[e]],
         \A e \in Encoders : \/ encoders'[e] = encoders[e]
                             \/ \E n \in Nat : encoders'[e] = After(encoders[e], n)
  PROVE  EncodersTrue'
<1>1. ASSUME NEW e \in Encoders PROVE EncoderTrue(encoders'[e], captured)
  <2>1. EncoderTrue(encoders[e], captured) /\ captured \in Nat
    BY DEF EncodersTrue, Controls
  <2> QED BY <2>1, AfterTrue
<1> QED BY <1>1, EachTrue

LEMMA EncodesTrue ==
  ASSUME Controls, EncodersTrue, captured' = captured,
         NEW e \in Encoders, NEW n \in Nat, Encodes(e, n)
  PROVE  EncodersTrue'
<1>1. encoders \in [Encoders -> EncoderRecord]
  BY DEF EncodersTrue
<1>2. encoders' = [encoders EXCEPT ![e] = After(encoders[e], n)]
  BY DEF Encodes
<1>3. /\ encoders' = [x \in Encoders |-> encoders'[x]]
      /\ encoders'[e] = After(encoders[e], n)
      /\ \A x \in Encoders \ {e} : encoders'[x] = encoders[x]
  BY <1>1, <1>2
<1> QED BY <1>3, ReadTrue

\* The encoders are left alone, while the clock may go on.
LEMMA UnreadTrue ==
  ASSUME Controls, EncodersTrue, UNCHANGED encoders,
         captured' = captured \/ captured' = captured + 1
  PROVE  EncodersTrue'
<1>1. encoders' = [e \in Encoders |-> encoders'[e]]
  BY DEF EncodersTrue
<1>2. \A e \in Encoders : EncoderTrue(encoders'[e], captured')
  BY LaterTrue DEF EncodersTrue, Controls
<1> QED BY <1>1, <1>2, EachTrue

\* One encoder is made new.
LEMMA RenewedTrue ==
  ASSUME Controls, EncodersTrue, captured' = captured, NEW e \in Encoders,
         encoders' = [encoders EXCEPT ![e] = Fresh]
  PROVE  EncodersTrue'
<1>1. encoders \in [Encoders -> EncoderRecord]
  BY DEF EncodersTrue
<1>2. encoders' = [x \in Encoders |-> encoders'[x]]
  BY <1>1
<1>3. \A x \in Encoders : EncoderTrue(encoders'[x], captured')
  BY <1>1, FreshTrue DEF EncodersTrue, Controls
<1> QED BY <1>2, <1>3, EachTrue

\* The codec in use and the secondary one are encoders, and frames are not empty.
LEMMA EncoderTypes ==
  /\ Secondary \in Encoders
  /\ \A c \in SendCodecs : c \in Encoders /\ c # Secondary /\ c # NoCodec
  /\ \A e \in Encoders : FrameBlocks[e] \in Nat
<1>1. Secondary \in Encoders /\ \A c \in SendCodecs : c \in Encoders
  BY DEF Encoders
<1>2. ASSUME NEW e \in Encoders PROVE FrameBlocks[e] \in Nat
  BY SenderAssumption
<1> QED BY <1>1, <1>2, SenderAssumption DEF Encoders

\* Where audio is not added, nothing was dropped, or the count begins anew.
LEMMA NothingDropped ==
  ASSUME DroppedOnce,
         overflows' = 0 \/ (process # "idle" /\ overflows' = overflows)
  PROVE  DroppedOnce'
  BY DEF DroppedOnce

LEMMA SenderInitHolds == SenderInit => SenderInv
<1> SUFFICES ASSUME SenderInit PROVE SenderInv
  OBVIOUS
<1>1. Controls /\ DroppedOnce
  <2>1. /\ current = NoCodec /\ secondary = FALSE /\ process = "idle" /\ overflows = 0
        /\ captured = FirstCapture
    BY DEF SenderInit
  <2>2. Controls
    BY <2>1, SenderAssumption, Zenon DEF Controls
  <2>3. DroppedOnce
    BY <2>1 DEF DroppedOnce
  <2> QED BY <2>2, <2>3
<1>2. EncodersTrue
  BY FreshTrue, SenderAssumption DEF SenderInit, EncodersTrue
<1> QED BY <1>1, <1>2 DEF SenderInv

\* Audio is added: the clock stands still when an encoder drops some, and that
\* encoder will replace what it was just given.
LEMMA EncodeAndSendTrue ==
  ASSUME SenderInv, EncodeAndSend
  PROVE  SenderInv'
<1> USE DEF SenderInv
<1> DEFINE first == Overflows(encoders[current], captured)
           second == secondary /\ Overflows(encoders[Secondary], captured)
           fed == {current} \cup (IF secondary /\ ~first THEN {Secondary} ELSE {})
<1>1. /\ process = "idle" /\ current # NoCodec
      /\ encoders' = [e \in Encoders |-> IF e \in fed THEN Add(encoders[e], captured)
                                                      ELSE encoders[e]]
      /\ IF first \/ second
         THEN overflows' = overflows + 1 /\ captured' = captured /\ process' = process
         ELSE overflows' = 0 /\ captured' = captured + 1 /\ process' = "added"
      /\ current' = current /\ secondary' = secondary
  BY Zenon DEF EncodeAndSend, codecVars
<1>2. current \in Encoders /\ Secondary \in Encoders /\ captured \in Nat
  BY <1>1, EncoderTypes DEF Controls
<1>3. Controls'
  BY <1>1 DEF Controls
<1>4. \A e \in Encoders : EncoderTrue(encoders[e], captured)
  BY DEF EncodersTrue
<1>5. ASSUME NEW e \in fed
      PROVE  EncoderTrue(encoders'[e], captured) /\ Len(encoders'[e].audio) > 0
             /\ encoders'[e].last = Stamp(captured)
  <2>1. e \in Encoders
    BY <1>2
  <2>2. encoders'[e] = Add(encoders[e], captured)
    BY <1>1, <2>1
  <2> QED BY <2>1, <2>2, <1>2, <1>4, AddTrue
<1>6. EncodersTrue'
  <2>1. encoders' = [e \in Encoders |-> encoders'[e]]
    BY <1>1
  <2>2. \A e \in Encoders : EncoderTrue(encoders'[e], captured)
    BY <1>1, <1>4, <1>5
  <2>3. \A e \in Encoders : EncoderTrue(encoders'[e], captured')
    BY <2>2, <1>1, <1>2, LaterTrue
  <2> QED BY <2>1, <2>3, EachTrue
<1>7. DroppedOnce'
  <2>1. CASE overflows' = 0
    BY <2>1 DEF DroppedOnce
  <2>2. CASE first \/ second
    <3>1. overflows' = overflows + 1 /\ captured' = captured /\ process' = "idle"
      BY <1>1, <2>2
    <3>2. overflows > 0 => ~first
      BY <1>2, <1>4, ReadyDropsNothing DEF DroppedOnce
    <3>3. overflows > 1 => ~second
      BY <1>2, <1>4, ReadyDropsNothing DEF DroppedOnce
    <3>4. overflows \in 0 .. 1
      BY <2>2, <3>2, <3>3 DEF DroppedOnce
    <3>5. Ready(encoders[current])'
      BY <1>1, <1>5, <3>1 DEF Ready, Stamp
    <3>6. overflows = 1 => secondary /\ Secondary \in fed
      BY <2>2, <3>2
    <3>7. overflows = 1 => Ready(encoders[Secondary])'
      BY <1>1, <1>5, <3>1, <3>6 DEF Ready, Stamp
    <3> QED BY <1>1, <3>1, <3>4, <3>5, <3>6, <3>7 DEF DroppedOnce
  <2> QED BY <1>1, <2>1, <2>2
<1> QED BY <1>3, <1>6, <1>7

\* The single stream reads one encoder.
LEMMA ProcessSingleStreamTrue ==
  ASSUME SenderInv, ProcessSingleStream
  PROVE  SenderInv'
<1> USE DEF SenderInv
<1>1. /\ process = "single" /\ process' = "idle" /\ captured' = captured
      /\ overflows' = overflows /\ current' = current /\ secondary' = secondary
  BY DEF ProcessSingleStream, codecVars
<1>2. Controls' /\ DroppedOnce'
  BY <1>1, NothingDropped DEF Controls
<1>3. CASE UNCHANGED encoders
  BY <1>1, <1>2, <1>3, UnreadTrue
<1>4. CASE current # NoCodec /\ \E n \in Nat : Encodes(current, n)
  <2>1. current \in Encoders
    BY <1>4, EncoderTypes DEF Controls
  <2> QED BY <1>1, <1>2, <1>4, <2>1, EncodesTrue
<1>5. ASSUME current # NoCodec PROVE FrameBlocks[current] \in Nat /\ FirstVadBlocks(current) \in Nat
  <2>1. FrameBlocks[current] \in Nat
    BY <1>5, EncoderTypes DEF Controls
  <2> QED BY <2>1 DEF FirstVadBlocks
<1>6. ASSUME current # NoCodec, NEW len \in Lengths, Speech(len)
      PROVE  \E n \in Nat : Encodes(current, n)
  <2>1. Encodes(current, FrameBlocks[current])
    BY <1>6, Zenon DEF Speech
  <2> QED BY <1>5, <1>6, <2>1
<1>7. ASSUME current # NoCodec, ComfortNoise \/ Nothing
      PROVE  \E n \in Nat : Encodes(current, n)
  <2>1. \/ Encodes(current, FirstVadBlocks(current))
        \/ \E n \in 0 .. FrameBlocks[current] : Encodes(current, n)
    BY <1>7 DEF ComfortNoise, Nothing
  <2>2. \A n \in 0 .. FrameBlocks[current] : n \in Nat
    BY <1>5, <1>7
  <2> QED BY <1>5, <1>7, <2>1, <2>2, Zenon
<1>8. \/ current # NoCodec /\ ((\E len \in Lengths : Speech(len)) \/ ComfortNoise \/ Nothing)
      \/ UNCHANGED encoders
  BY Zenon DEF ProcessSingleStream
<1> QED BY <1>3, <1>4, <1>6, <1>7, <1>8, Zenon

\* The dual stream reads one or both encoders, wholly or in part.
LEMMA ProcessDualStreamTrue ==
  ASSUME SenderInv, ProcessDualStream
  PROVE  SenderInv'
<1> USE DEF SenderInv
<1>1. /\ process = "dual" /\ captured' = captured
      /\ overflows' = overflows /\ current' = current /\ secondary' = secondary
  BY DEF ProcessDualStream, codecVars
<1>2. process' \in {"idle", "send"}
  BY Zenon DEF ProcessDualStream, Keep, Combine, Fail
<1>3. Controls' /\ DroppedOnce'
  BY <1>1, <1>2, NothingDropped DEF Controls
<1>4. CASE UNCHANGED encoders
  BY <1>1, <1>3, <1>4, UnreadTrue
<1>5. ASSUME NEW len, Keep(len) PROVE EncodersTrue'
  BY <1>1, <1>5, EncoderTypes, EncodesTrue DEF Keep
<1>6. ASSUME NEW len, Combine(ToSend, len) PROVE EncodersTrue'
  <2>1. encoders' = [e \in Encoders |-> IF e \in ToSend
                                        THEN After(encoders[e], FrameBlocks[e])
                                        ELSE encoders[e]]
    BY <1>6, Zenon DEF Combine
  <2> QED BY <1>1, <2>1, EncoderTypes, ReadTrue
<1>7. ASSUME NEW len, Fail(ToSend, len) PROVE EncodersTrue'
  <2>1. PICK e \in ToSend \cap Encoders : \E read \in 0 .. FrameBlocks[e] :
           encoders' = [x \in Encoders |->
                          IF x = e THEN After(encoders[x], read)
                          ELSE IF x \in (IF e = current THEN ToSend \ Encoders ELSE ToSend \ {e})
                               THEN After(encoders[x], FrameBlocks[x])
                          ELSE encoders[x]]
    BY <1>7 DEF Fail
  <2>2. \A read \in 0 .. FrameBlocks[e] : read \in Nat
    BY EncoderTypes
  <2>3. /\ encoders' = [x \in Encoders |-> encoders'[x]]
        /\ \A x \in Encoders : \/ encoders'[x] = encoders[x]
                               \/ \E n \in Nat : encoders'[x] = After(encoders[x], n)
    BY <2>1, <2>2, EncoderTypes
  <2> QED BY <1>1, <2>3, ReadTrue
<1>8. \/ UNCHANGED encoders
      \/ \E len : Keep(len) \/ Combine(ToSend, len) \/ Fail(ToSend, len)
  BY Zenon DEF ProcessDualStream
<1> QED BY <1>3, <1>4, <1>5, <1>6, <1>7, <1>8

\* The other steps of the device's thread leave the encoders alone.
LEMMA OtherProcessTrue ==
  ASSUME SenderInv, UpdateLocalTimeStamp \/ Process10Ms \/ SendData \/ Sent
  PROVE  SenderInv'
<1> USE DEF SenderInv
<1>1. CASE UpdateLocalTimeStamp
  <2>1. /\ UNCHANGED <<encoders, current, secondary, process>>
        /\ captured' = captured + 1 /\ overflows' = 0
    BY <1>1 DEF UpdateLocalTimeStamp, codecVars, sendVars
  <2>2. Controls'
    BY <2>1 DEF Controls
  <2> QED BY <2>1, <2>2, UnreadTrue, NothingDropped
<1>2. CASE Process10Ms \/ SendData \/ Sent
  <2>1. /\ UNCHANGED <<encoders, captured, overflows, current, secondary>>
        /\ process # "idle" /\ process' \in {"idle", "single", "dual", "sent"}
    BY <1>2, Zenon DEF Process10Ms, SendData, Sent, codecVars, streamVars
  <2>2. Controls'
    BY <2>1 DEF Controls
  <2> QED BY <2>1, <2>2, UnreadTrue, NothingDropped
<1> QED BY <1>1, <1>2

\* Calls of the application leave the encoders alone, renew the secondary one
\* or empty the one in use.
LEMMA SettingTrue ==
  ASSUME SenderInv,
         \/ \E c \in SendCodecs : RegisterSendCodec(c)
         \/ RegisterSecondarySendCodec \/ UnregisterSecondarySendCodec
         \/ \E enable \in BOOLEAN : SetFECStatus(enable)
         \/ SetVAD \/ ResetEncoder \/ InitializeSender
  PROVE  SenderInv'
<1> USE DEF SenderInv
<1>1. captured' = captured /\ overflows' = 0 /\ process' = process
  BY Zenon DEF Set, sendVars, RegisterSendCodec, RegisterSecondarySendCodec,
     UnregisterSecondarySendCodec, SetFECStatus, SetVAD, ResetEncoder, InitializeSender
<1>2. current' \in SendCodecs \cup {NoCodec} /\ secondary' \in BOOLEAN
  <2>1. \/ current' = current \/ current' = NoCodec
        \/ \E c \in SendCodecs : current' = c
    BY Zenon DEF RegisterSendCodec, RegisterSecondarySendCodec, codecVars,
       UnregisterSecondarySendCodec, SetFECStatus, SetVAD, ResetEncoder, InitializeSender
  <2>2. secondary' = secondary \/ secondary' = TRUE \/ secondary' = FALSE
    BY Zenon DEF RegisterSendCodec, RegisterSecondarySendCodec, codecVars,
       UnregisterSecondarySendCodec, SetFECStatus, SetVAD, ResetEncoder, InitializeSender
  <2> QED BY <2>1, <2>2 DEF Controls
<1>3. Controls' /\ DroppedOnce'
  BY <1>1, <1>2, NothingDropped DEF Controls
<1>4. CASE ResetEncoder
  <2>1. /\ current # NoCodec
        /\ encoders' = [encoders EXCEPT ![current].audio = <<>>, ![current].stamps = <<>>]
    BY <1>4 DEF ResetEncoder
  <2>2. current \in Encoders /\ encoders \in [Encoders -> EncoderRecord]
    BY <2>1, EncoderTypes DEF Controls, EncodersTrue
  <2>3. /\ encoders' = [e \in Encoders |-> encoders'[e]]
        /\ \A e \in Encoders \ {current} : encoders'[e] = encoders[e]
        /\ encoders'[current] = [encoders[current] EXCEPT !.audio = <<>>, !.stamps = <<>>]
    BY <2>1, <2>2
  <2>4. /\ encoders'[current] \in EncoderRecord
        /\ encoders'[current].audio = <<>> /\ encoders'[current].stamps = <<>>
    <3>1. encoders[current] \in EncoderRecord
      BY <2>2
    <3>2. encoders'[current] = [audio |-> <<>>, stamps |-> <<>>, last |-> encoders[current].last]
      BY <2>3, <3>1 DEF EncoderRecord
    <3>3. <<>> \in Seq(Nat) /\ <<>> \in Seq(Int)
      OBVIOUS
    <3> QED BY <3>1, <3>2, <3>3 DEF EncoderRecord
  <2>5. \A e \in Encoders : EncoderTrue(encoders'[e], captured')
    BY <1>1, <2>3, <2>4, EmptyTrue DEF EncodersTrue, Controls
  <2> QED BY <1>3, <2>3, <2>5, EachTrue
<1>5. CASE encoders' = [encoders EXCEPT ![Secondary] = Fresh]
  BY <1>1, <1>3, <1>5, EncoderTypes, RenewedTrue
<1>6. CASE UNCHANGED encoders
  BY <1>1, <1>3, <1>6, UnreadTrue
<1>7. \/ ResetEncoder \/ UNCHANGED encoders
      \/ encoders' = [encoders EXCEPT ![Secondary] = Fresh]
  BY Zenon DEF RegisterSendCodec, RegisterSecondarySendCodec,
     UnregisterSecondarySendCodec, SetFECStatus, SetVAD, InitializeSender
<1> QED BY <1>4, <1>5, <1>6, <1>7

LEMMA SenderStep == SenderInv /\ [SenderNext]_senderVars => SenderInv'
<1> SUFFICES ASSUME SenderInv, [SenderNext]_senderVars PROVE SenderInv'
  OBVIOUS
<1>1. CASE UNCHANGED senderVars
  <2>1. UNCHANGED <<encoders, captured, overflows, current, secondary, process>>
    BY <1>1 DEF senderVars, streamVars, codecVars, sendVars
  <2>2. Controls'
    BY <2>1 DEF SenderInv, Controls
  <2>3. DroppedOnce'
    BY <2>1 DEF SenderInv, DroppedOnce, Ready, Stamp
  <2> QED BY <2>1, <2>2, <2>3, UnreadTrue DEF SenderInv
<1>2. CASE SenderNext
  BY <1>2, EncodeAndSendTrue, ProcessSingleStreamTrue, ProcessDualStreamTrue,
     OtherProcessTrue, SettingTrue, Zenon DEF SenderNext
<1> QED BY <1>1, <1>2

LEMMA SenderAlways == SenderSpec => []SenderInv
  BY SenderInitHolds, SenderStep, PTL DEF SenderSpec

\* The buffers of all encoders stay within their size.
THEOREM SenderTypeCorrect == SenderSpec => []SenderTypeOK
<1>1. SenderInv => SenderTypeOK
  BY DEF SenderInv, Controls, EncodersTrue, EncoderTrue, SenderTypeOK
<1> QED BY <1>1, SenderAlways, PTL

\* Blocks and timestamps stay in step, and no encoder drops audio twice in a row.
THEOREM InputRight == SenderSpec => []InputInStep
<1>1. SenderInv => InputTrue
  <2> SUFFICES ASSUME SenderInv, NEW e \in Encoders
               PROVE  /\ encoders[e].stamps = [k \in DOMAIN encoders[e].audio |->
                                                 Stamp(encoders[e].audio[k])]
                      /\ \A k \in 2 .. Len(encoders[e].audio) :
                           encoders[e].audio[k - 1] < encoders[e].audio[k]
    BY DEF InputTrue
  <2>1. EncoderTrue(encoders[e], captured)
    BY DEF SenderInv, EncodersTrue
  <2>2. /\ encoders[e].audio \in Seq(Nat) /\ encoders[e].stamps \in Seq(Int)
        /\ Len(encoders[e].stamps) = Len(encoders[e].audio)
        /\ \A k \in 1 .. Len(encoders[e].audio) :
             encoders[e].stamps[k] = Stamp(encoders[e].audio[k])
    BY <2>1 DEF EncoderTrue, EncoderRecord
  <2>3. /\ DOMAIN encoders[e].audio = 1 .. Len(encoders[e].audio)
        /\ DOMAIN encoders[e].stamps = 1 .. Len(encoders[e].audio)
        /\ encoders[e].stamps = [k \in DOMAIN encoders[e].stamps |-> encoders[e].stamps[k]]
    BY <2>2
  <2>4. encoders[e].stamps = [k \in DOMAIN encoders[e].audio |-> Stamp(encoders[e].audio[k])]
    BY <2>2, <2>3
  <2> QED BY <2>1, <2>4 DEF EncoderTrue
<1>2. SenderInv => FullOnlyOnce
  BY DEF SenderInv, Controls, DroppedOnce, FullOnlyOnce, One
<1> QED BY <1>1, <1>2, SenderAlways, PTL DEF InputInStep

-----------------------------------------------------------------------------
(***************************************************************************)
(* A packet says what is in it, and a secondary payload is in one packet   *)
(* only, for any codecs, lengths and widths, on a call that is shorter     *)
(* than half the wrap of the timestamps.                                   *)
(*                                                                         *)
(* What the proof follows is the payload that waits in the red buffer: its *)
(* fields are in three places (the buffer, its timestamp, a fragment), and *)
(* each step either sets all three, forgets the fragment's length, or      *)
(* leaves them alone.  Whatever waits was captured before all the blocks   *)
(* that its encoder still has, and after all that was sent of it.  Only    *)
(* after a packet of three parts that failed or was refused does the       *)
(* fragment tell the length of another payload (threeFailed).              *)
(***************************************************************************)

Fragment == [len : Nat, pl : Encoders \cup {NoCodec}, diff : Int]
Encoded == [of : Encoders, block : Nat, len : Nat]

\* The blocks of an encoder
BlocksOf(e) == {e.audio[k] : k \in 1 .. Len(e.audio)}

\* Every block of the encoder came later than this one.
Precedes(block, e) == \A b \in BlocksOf(encoders[e]) : block < b

\* Blocks are of this call, and what is encoded was captured before now.
BlocksTrue ==
  /\ FirstCapture <= captured /\ (captured = FirstCapture \/ captured <= MaxCaptures)
  /\ \A e \in Encoders : \A b \in BlocksOf(encoders[e]) :
       FirstCapture <= b /\ (process # "idle" => b < captured)

\* The fragmentation tells lengths, encoders and times; the first part is the packet's own.
RedTypes ==
  /\ fragmentation \in [0 .. 2 -> Fragment]
  /\ fec_enabled \in BOOLEAN /\ vad_enabled \in BOOLEAN
  /\ is_first_red \in BOOLEAN /\ threeFailed \in BOOLEAN
  /\ red_buffer \in Encoded \cup {NoPayload} /\ last_fec_timestamp \in Int
  /\ sentSecondary \in Int /\ sentSecondary < captured
  /\ current = NoCodec => is_first_red
  /\ fragmentation[0].diff = 0

\* A payload that waits, the time of which is known
Waits(of) ==
  /\ red_buffer \in Encoded /\ red_buffer.of = of
  /\ last_fec_timestamp = Stamp(red_buffer.block)
  /\ FirstCapture <= red_buffer.block /\ red_buffer.block < captured

\* The single stream: the redundant payload is the one before.
RedundancyTrue ==
  (~secondary \/ process = "single") /\ ~is_first_red /\ fragmentation[1].len > 0 =>
    /\ Waits(fragmentation[0].pl) /\ red_buffer.len = fragmentation[1].len
    /\ Precedes(red_buffer.block, current)

\* The dual stream: the payload kept is the secondary encoder's.
KeptTrue ==
  fragmentation[2].len > 0 =>
    /\ secondary /\ process # "single"
    /\ Waits(Secondary) /\ Precedes(red_buffer.block, Secondary)
    /\ process # "sent" => sentSecondary < red_buffer.block
    /\ \/ threeFailed \/ process = "sent" \/ (process = "send" /\ Len(packet.parts) = 3)
       \/ red_buffer.len = fragmentation[2].len

\* What is on its way out was not sent before.
OutTrue ==
  /\ Precedes(sentSecondary, Secondary)
  /\ process = "send" =>
       /\ packet # NoPacket /\ Len(packet.parts) \in 1 .. 3
       /\ \A k \in 1 .. Len(packet.parts) : packet.parts[k].data.of = Secondary =>
            /\ packet.parts[k].data.block \in Nat
            /\ sentSecondary < packet.parts[k].data.block
            /\ packet.parts[k].data.block < captured
            /\ Precedes(packet.parts[k].data.block, Secondary)

PacketInv == BlocksTrue /\ RedTypes /\ RedundancyTrue /\ KeptTrue /\ OutTrue /\ PacketTrue

\* A call is shorter than half the wrap of the timestamps.
WithinHalfWrap == MaxCaptures - FirstCapture < StampWrap \div 2 /\ MaxCaptures \in Int

-----------------------------------------------------------------------------
(* Numbers and their rests *)

\* A set of natural numbers has a least one.
LEMMA LeastOfSet ==
  ASSUME NEW T, T \subseteq Nat, T # {}
  PROVE  \E x \in T : \A y \in T : x <= y
<1>1. \E x \in T : \A y \in T : ~(<<y, x>> \in OpToRel(<, Nat))
  BY WFMin, NatLessThanWellFounded
<1>2. \A x, y \in Nat : y < x => <<y, x>> \in OpToRel(<, Nat)
  BY DEF OpToRel
<1>3. PICK x \in T : \A y \in T : ~(<<y, x>> \in OpToRel(<, Nat))
  BY <1>1
<1>4. ASSUME NEW y \in T PROVE x <= y
  <2>1. ~(y < x)
    BY <1>2, <1>3
  <2>2. x \in Nat /\ y \in Nat
    OBVIOUS
  <2> QED BY <2>1, <2>2
<1> QED BY <1>3, <1>4

\* Products with the wrap, as linear facts
LEMMA Products ==
  ASSUME NEW W \in Nat \ {0}, NEW q \in Int
  PROVE  /\ W * q \in Int
         /\ q >= 1 => W * q >= W
         /\ q <= -1 => W * q <= -W
         /\ \A p \in Int : W * (p + q) = W * p + W * q /\ W * (p - q) = W * p - W * q
OBVIOUS

\* What the rest of a division is
LEMMA QuotientOf ==
  ASSUME NEW W \in Nat \ {0}, NEW a \in Int
  PROVE  \E q \in Int : a = W * q + (a % W) /\ a % W \in 0 .. W - 1
<1>1. a % W \in 0 .. W - 1
  OBVIOUS
<1>2. a \div W \in Int
  OBVIOUS
<1>3. a = W * (a \div W) + (a % W)
  OBVIOUS
<1> QED BY <1>1, <1>2, <1>3

\* ... and that there is no other.
LEMMA RestIs ==
  ASSUME NEW W \in Nat \ {0}, NEW q \in Int, NEW r \in 0 .. W - 1
  PROVE  (W * q + r) % W = r
<1>1. W * q + r \in Int
  OBVIOUS
<1>2. PICK p \in Int : W * q + r = W * p + ((W * q + r) % W) /\ (W * q + r) % W \in 0 .. W - 1
  BY <1>1, QuotientOf
<1> DEFINE s == (W * q + r) % W
<1>3. s \in 0 .. W - 1 /\ W * q + r = W * p + s
  BY <1>2
<1> HIDE DEF s
<1>4. p - q \in Int /\ W * (p - q) = W * p - W * q /\ W * p \in Int /\ W * q \in Int
  BY Products
<1>5. W * (p - q) = r - s
  BY <1>3, <1>4
<1>6. ~(p - q >= 1) /\ ~(p - q <= -1)
  BY <1>3, <1>4, <1>5, Products
<1>7. p = q
  BY <1>6
<1> QED BY <1>3, <1>7, <1>4 DEF s

\* The wrapped difference of two wrapped numbers is that of the numbers.
LEMMA RestOfDifference ==
  ASSUME NEW W \in Nat \ {0}, NEW a \in Int, NEW b \in Int
  PROVE  ((b % W) - (a % W)) % W = (b - a) % W
<1>1. PICK p \in Int : a = W * p + (a % W) /\ a % W \in 0 .. W - 1
  BY QuotientOf
<1>2. PICK q \in Int : b = W * q + (b % W) /\ b % W \in 0 .. W - 1
  BY QuotientOf
<1> DEFINE x == a % W
           y == b % W
<1>3. /\ x \in Int /\ y \in Int /\ a = W * p + x /\ b = W * q + y
  BY <1>1, <1>2
<1> HIDE DEF x, y
<1>4. PICK m \in Int : y - x = W * m + ((y - x) % W) /\ (y - x) % W \in 0 .. W - 1
  <2>1. y - x \in Int
    BY <1>3
  <2> QED BY <2>1, QuotientOf
<1> DEFINE r == (y - x) % W
<1>5. r \in 0 .. W - 1 /\ y - x = W * m + r
  BY <1>4
<1> HIDE DEF r
<1>6. /\ W * p \in Int /\ W * q \in Int /\ W * m \in Int /\ q - p \in Int /\ q - p + m \in Int
      /\ W * (q - p) = W * q - W * p /\ W * (q - p + m) = W * (q - p) + W * m
  <2>1. q - p \in Int
    OBVIOUS
  <2> QED BY <2>1, Products
<1>7. b - a = W * (q - p + m) + r
  BY <1>3, <1>5, <1>6
<1>8. (W * (q - p + m) + r) % W = r
  BY <1>5, <1>6, RestIs
<1> QED BY <1>7, <1>8 DEF r, x, y

\* Timestamps within half the wrap are in the order of their blocks.
LEMMA StampOrder ==
  ASSUME NEW a \in Nat, NEW b \in Nat, b - a < StampWrap \div 2, a - b < StampWrap \div 2
  PROVE  TimestampLessThan(Stamp(a), Stamp(b)) <=> a < b
<1>1. /\ StampWrap \in Nat \ {0} /\ StampWrap \div 2 \in Int
      /\ 2 * (StampWrap \div 2) <= StampWrap /\ StampWrap \div 2 < StampWrap
  BY SenderAssumption
<1>2. (Stamp(b) - Stamp(a)) % StampWrap = (b - a) % StampWrap
  <2>1. a \in Int /\ b \in Int
    OBVIOUS
  <2>2. ((b % StampWrap) - (a % StampWrap)) % StampWrap = (b - a) % StampWrap
    BY <1>1, <2>1, RestOfDifference
  <2> QED BY <2>2 DEF Stamp
<1>3. CASE a < b
  <2>1. (StampWrap * 0 + (b - a)) % StampWrap = b - a
    <3>1. b - a \in 0 .. StampWrap - 1
      BY <1>1, <1>3
    <3> QED BY <1>1, <3>1, RestIs, 0 \in Int
  <2>2. StampWrap * 0 + (b - a) = b - a
    BY <1>1
  <2>3. (b - a) % StampWrap = b - a
    BY <2>1, <2>2
  <2>4. Stamp(a) # Stamp(b)
    <3>1. SUFFICES ASSUME Stamp(a) = Stamp(b) PROVE FALSE
      OBVIOUS
    <3>2. Stamp(b) \in Int
      BY <1>1 DEF Stamp
    <3>3. Stamp(b) - Stamp(a) = 0
      BY <3>1, <3>2
    <3>4. 0 % StampWrap = 0
      BY <1>1
    <3> QED BY <1>2, <1>3, <2>3, <3>3, <3>4
  <2> QED BY <1>2, <1>3, <2>3, <2>4 DEF TimestampLessThan
<1>4. CASE a = b
  BY <1>4 DEF TimestampLessThan
<1>5. CASE b < a
  <2>1. (StampWrap * (-1) + (b - a + StampWrap)) % StampWrap = b - a + StampWrap
    <3>1. b - a + StampWrap \in 0 .. StampWrap - 1
      BY <1>1, <1>5
    <3> QED BY <1>1, <3>1, RestIs, -1 \in Int
  <2>2. StampWrap * (-1) + (b - a + StampWrap) = b - a
    BY <1>1
  <2>3. (b - a) % StampWrap = b - a + StampWrap
    BY <2>1, <2>2
  <2> QED BY <1>1, <1>2, <1>5, <2>3 DEF TimestampLessThan
<1> QED BY <1>3, <1>4, <1>5

-----------------------------------------------------------------------------
(* The blocks of an encoder *)

\* Blocks that rise from one to the next are all above the first.
LEMMA FirstIsLeast ==
  ASSUME NEW e, NEW limit \in Nat, EncoderTrue(e, limit), NEW k \in 2 .. Len(e.audio)
  PROVE  e.audio[1] < e.audio[k]
<1>1. e.audio \in Seq(Nat) /\ \A i \in 2 .. Len(e.audio) : e.audio[i - 1] < e.audio[i]
  BY DEF EncoderTrue, EncoderRecord
<1> DEFINE T == {i \in 2 .. Len(e.audio) : ~(e.audio[1] < e.audio[i])}
<1>2. SUFFICES ASSUME T # {} PROVE FALSE
  OBVIOUS
<1>3. T \subseteq Nat
  BY <1>1
<1>4. PICK x \in T : \A y \in T : x <= y
  BY <1>2, <1>3, LeastOfSet
<1>5. x \in 2 .. Len(e.audio) /\ e.audio[x - 1] < e.audio[x] /\ e.audio[x] \in Nat
      /\ e.audio[x - 1] \in Nat /\ e.audio[1] \in Nat /\ Len(e.audio) \in Nat
  <2>1. x \in 2 .. Len(e.audio)
    OBVIOUS
  <2> HIDE DEF T
  <2>2. Len(e.audio) \in Nat
    BY <1>1
  <2>3. x - 1 \in 1 .. Len(e.audio) /\ x \in 1 .. Len(e.audio) /\ 1 \in 1 .. Len(e.audio)
    BY <2>1, <2>2
  <2>4. \A i \in 1 .. Len(e.audio) : e.audio[i] \in Nat
    BY <1>1
  <2> QED BY <1>1, <2>1, <2>2, <2>3, <2>4
<1>6. x - 1 \notin T
  BY <1>4, <1>5
<1>7. x # 2
  BY <1>5
<1>8. x - 1 \in 2 .. Len(e.audio)
  BY <1>5, <1>7
<1>9. e.audio[1] < e.audio[x - 1]
  BY <1>6, <1>8
<1>10. e.audio[1] < e.audio[x]
  BY <1>5, <1>9
<1> QED BY <1>10

\* What is read leaves the later blocks.
LEMMA AfterBlocks ==
  ASSUME NEW e, NEW limit \in Nat, EncoderTrue(e, limit), NEW n \in Nat
  PROVE  /\ BlocksOf(After(e, n)) \subseteq BlocksOf(e)
         /\ n > 0 => \A b \in BlocksOf(After(e, n)) : e.audio[1] < b
<1>1. e.audio \in Seq(Nat) /\ Len(e.audio) \in Nat
  BY DEF EncoderTrue, EncoderRecord
<1>2. After(e, n).audio = SubSeq(e.audio, n + 1, Len(e.audio))
  <2>1. e = [audio |-> e.audio, stamps |-> e.stamps, last |-> e.last]
    BY DEF EncoderTrue, EncoderRecord
  <2>2. DOMAIN e = {"audio", "stamps", "last"}
    BY <2>1
  <2> QED BY <2>2, Zenon DEF After
<1>0. \A i \in 1 .. Len(e.audio) : e.audio[i] \in Nat
  BY <1>1
<1> DEFINE left == SubSeq(e.audio, n + 1, Len(e.audio))
<1>3. ASSUME NEW k \in 1 .. Len(left) PROVE n + k \in 1 .. Len(e.audio) /\ left[k] = e.audio[n + k]
  <2>1. CASE n >= Len(e.audio)
    <3>1. left = <<>>
      BY <1>1, <2>1, SubSeqEmpty
    <3> QED BY <3>1
  <2>2. CASE n < Len(e.audio)
    <3>1. \A i \in n + 1 .. Len(e.audio) : e.audio[i] \in Nat
      <4>1. \A i \in n + 1 .. Len(e.audio) : i \in 1 .. Len(e.audio)
        BY <1>1
      <4> QED BY <1>0, <4>1
    <3>2. n + 1 \in Int /\ Len(e.audio) \in Int /\ n + 1 <= Len(e.audio)
      BY <1>1, <2>2
    <3>3. /\ Len(left) = Len(e.audio) - (n + 1) + 1
          /\ \A i \in 1 .. Len(e.audio) - (n + 1) + 1 : left[i] = e.audio[n + 1 + i - 1]
      BY <3>1, <3>2, SubSeqProperties
    <3>4. n + 1 + k - 1 = n + k /\ k \in 1 .. Len(e.audio) - (n + 1) + 1
      BY <3>2, <3>3
    <3> HIDE DEF left
    <3> QED BY <3>2, <3>3, <3>4
  <2> QED BY <1>1, <2>1, <2>2
<1> HIDE DEF left
<1>4. \A b \in BlocksOf(After(e, n)) : \E k \in 1 .. Len(left) : b = left[k]
  BY <1>2 DEF BlocksOf, left
<1>5. BlocksOf(After(e, n)) \subseteq BlocksOf(e)
  <2>1. \A k \in 1 .. Len(left) : left[k] \in BlocksOf(e)
    BY <1>3 DEF BlocksOf
  <2> QED BY <1>4, <2>1
<1>6. ASSUME n > 0, NEW b \in BlocksOf(After(e, n)) PROVE e.audio[1] < b
  <2>1. PICK k \in 1 .. Len(left) : b = left[k]
    BY <1>4
  <2>2. n + k \in 2 .. Len(e.audio) /\ b = e.audio[n + k]
    BY <1>3, <1>6, <2>1
  <2> QED BY <2>2, FirstIsLeast
<1> QED BY <1>5, <1>6

LEMMA FrontIn ==
  ASSUME NEW s \in Seq(Nat), NEW replaces \in BOOLEAN, replaces => Len(s) > 0
  PROVE  /\ Before(s, replaces) \in Seq(Nat)
         /\ \A k \in 1 .. Len(Before(s, replaces)) :
              k \in 1 .. Len(s) /\ Before(s, replaces)[k] = s[k]
<1>1. CASE replaces
  <2>1. /\ Front(s) \in Seq(Nat) /\ Len(Front(s)) = Len(s) - 1
        /\ \A k \in 1 .. Len(s) - 1 : Front(s)[k] = s[k]
    BY <1>1, FrontOf
  <2> QED BY <1>1, <2>1 DEF Before
<1>2. CASE ~replaces
  BY <1>2 DEF Before
<1> QED BY <1>1, <1>2

\* What is added is the block.
LEMMA AddBlocks ==
  ASSUME NEW e, NEW block \in Nat, EncoderTrue(e, block)
  PROVE  BlocksOf(Add(e, block)) \subseteq BlocksOf(e) \cup {block}
<1> DEFINE replaces == Replaces(e, block)
           audio == Before(e.audio, replaces)
           full == Overflows(e, block)
           kept == IF full THEN Tail(audio) ELSE audio
<1>1. e.audio \in Seq(Nat) /\ Len(e.audio) \in Nat
  BY DEF EncoderTrue, EncoderRecord
<1>2. replaces \in BOOLEAN /\ (replaces => Len(e.audio) > 0)
  BY <1>1 DEF Replaces
<1> HIDE DEF replaces
<1>3. /\ audio \in Seq(Nat)
      /\ \A k \in 1 .. Len(audio) : k \in 1 .. Len(e.audio) /\ audio[k] = e.audio[k]
  BY <1>1, <1>2, FrontIn
<1>4. Add(e, block).audio = Append(kept, block) /\ (full <=> Len(audio) = BufferBlocks)
  BY DEF Add, Overflows, replaces
<1> HIDE DEF audio, full
<1>5. /\ kept \in Seq(Nat)
      /\ \A k \in 1 .. Len(kept) : \E j \in 1 .. Len(e.audio) : kept[k] = e.audio[j]
  <2>1. CASE full
    <3>1. Len(audio) > 0
      BY <1>3, <1>4, <2>1, SenderAssumption
    <3>2. /\ Tail(audio) \in Seq(Nat) /\ Len(Tail(audio)) = Len(audio) - 1
          /\ \A k \in 1 .. Len(audio) - 1 : Tail(audio)[k] = audio[k + 1]
      BY <1>3, <3>1
    <3>3. \A k \in 1 .. Len(audio) - 1 : k + 1 \in 1 .. Len(audio)
      BY <1>3
    <3> QED BY <1>3, <2>1, <3>2, <3>3
  <2>2. CASE ~full
    BY <1>3, <2>2
  <2> QED BY <2>1, <2>2
<1> HIDE DEF kept
<1>6. ASSUME NEW k \in 1 .. Len(Append(kept, block))
      PROVE  Append(kept, block)[k] \in BlocksOf(e) \cup {block}
  <2>1. CASE k = Len(kept) + 1
    BY <1>5, <2>1
  <2>2. CASE k \in 1 .. Len(kept)
    BY <1>5, <2>2, SMTT(40) DEF BlocksOf
  <2> QED BY <1>5, <2>1, <2>2
<1> QED BY <1>4, <1>6 DEF BlocksOf

\* Blocks are natural numbers, none of them ahead of the clock.
LEMMA BlockTypes ==
  ASSUME EncodersTrue, NEW e \in Encoders
  PROVE  \A b \in BlocksOf(encoders[e]) : b \in Nat /\ b <= captured
  BY DEF EncodersTrue, EncoderTrue, EncoderRecord, BlocksOf

\* The frame of an encoder that has one begins with its first block.
LEMMA FrameIs ==
  ASSUME SenderInv, NEW e \in Encoders, HasFrameToEncode(e)
  PROVE  /\ FrameBlocks[e] \in Nat \ {0}
         /\ encoders[e].audio[1] \in BlocksOf(encoders[e])
         /\ encoders[e].audio[1] \in Nat /\ encoders[e].audio[1] <= captured
         /\ EarliestTimestamp(e) = Stamp(encoders[e].audio[1])
<1>1. FrameBlocks[e] \in Nat \ {0}
  BY SenderAssumption
<1>2. EncoderTrue(encoders[e], captured)
  BY DEF SenderInv, EncodersTrue
<1>3. 1 \in 1 .. Len(encoders[e].audio)
  BY <1>1, <1>2 DEF HasFrameToEncode, EncoderTrue, EncoderRecord
<1>4. encoders[e].stamps[1] = Stamp(encoders[e].audio[1]) /\ encoders[e].stamps # <<>>
  BY <1>2, <1>3 DEF EncoderTrue, EncoderRecord
<1>5. EarliestTimestamp(e) = encoders[e].stamps[1]
  BY <1>4 DEF EarliestTimestamp
<1> QED BY <1>1, <1>3, <1>4, <1>5, BlockTypes DEF BlocksOf, SenderInv

-----------------------------------------------------------------------------
(* The places of the parts *)

LEMMA CardinalityOfTwo ==
  ASSUME NEW x, NEW y, x # y
  PROVE  IsFiniteSet({x, y}) /\ Cardinality({x, y}) = 2
<1>1. IsFiniteSet({x}) /\ Cardinality({x}) = 1
  BY FS_Singleton
<1>2. {x, y} = {x} \cup {y} /\ y \notin {x}
  OBVIOUS
<1>3. IsFiniteSet({x} \cup {y}) /\ Cardinality({x} \cup {y}) = Cardinality({x}) + 1
  BY <1>1, <1>2, FS_AddElement
<1> QED BY <1>1, <1>2, <1>3

LEMMA CardinalityOfThree ==
  ASSUME NEW x, NEW y, NEW z, x # y, x # z, y # z
  PROVE  Cardinality({x, y, z}) = 3
<1>1. IsFiniteSet({x, y}) /\ Cardinality({x, y}) = 2
  BY CardinalityOfTwo
<1>2. {x, y, z} = {x, y} \cup {z} /\ z \notin {x, y}
  OBVIOUS
<1>3. Cardinality({x, y} \cup {z}) = Cardinality({x, y}) + 1
  BY <1>1, <1>2, FS_AddElement
<1> QED BY <1>1, <1>2, <1>3

\* When the first block of a part was captured
BlockOf(p) == IF p = "previous" THEN red_buffer.block ELSE encoders[p].audio[1]

\* The parts of a packet are in their order.
InOrder(parts) ==
  /\ \A p \in parts : BlockOf(p) \in Nat
  /\ current \in parts =>
       \A p \in parts : OlderThan(parts, p) <=> BlockOf(current) < BlockOf(p)
  /\ {Secondary, "previous"} \subseteq parts => BlockOf("previous") < BlockOf(Secondary)

\* The places of the parts are those from 0 on, the newest part first.
LEMMA Places ==
  ASSUME NEW parts, parts \subseteq {current, Secondary, "previous"}, parts # {},
         current \in SendCodecs, InOrder(parts)
  PROVE  /\ Cardinality(parts) \in 1 .. 3
         /\ Cardinality(parts) = 3 => "previous" \in parts
         /\ \A p \in parts : Index(parts, p) \in 0 .. Cardinality(parts) - 1
         /\ \A i \in 0 .. Cardinality(parts) - 1 : \E p \in parts : Index(parts, p) = i
         /\ \A p, q \in parts : Index(parts, p) = Index(parts, q) => p = q
         /\ \A p, q \in parts : Index(parts, p) < Index(parts, q) => BlockOf(q) <= BlockOf(p)
<1>1. current # Secondary /\ current # "previous" /\ Secondary # "previous"
  BY SenderAssumption DEF Encoders
<1>0. /\ Cardinality({current}) = 1 /\ Cardinality({Secondary}) = 1
      /\ Cardinality({"previous"}) = 1 /\ Cardinality({current, Secondary}) = 2
      /\ Cardinality({current, "previous"}) = 2 /\ Cardinality({Secondary, "previous"}) = 2
      /\ Cardinality({current, Secondary, "previous"}) = 3
  <2>1. /\ Cardinality({current}) = 1 /\ Cardinality({Secondary}) = 1
        /\ Cardinality({"previous"}) = 1
    BY FS_Singleton
  <2>2. Cardinality({current, Secondary}) = 2
    BY <1>1, CardinalityOfTwo
  <2>3. Cardinality({current, "previous"}) = 2
    BY <1>1, CardinalityOfTwo
  <2>4. Cardinality({Secondary, "previous"}) = 2
    BY <1>1, CardinalityOfTwo
  <2>5. Cardinality({current, Secondary, "previous"}) = 3
    BY <1>1, CardinalityOfThree
  <2> QED BY <2>1, <2>2, <2>3, <2>4, <2>5
<1> DEFINE c == current
           s == Secondary
           v == "previous"
           I(p) == Index(parts, p)
<1>2. I(c) = (IF s \in parts /\ OlderThan(parts, s) THEN 1 ELSE 0)
               + (IF v \in parts /\ OlderThan(parts, v) THEN 1 ELSE 0)
  <2>1. I(c) = One(s \in parts /\ OlderThan(parts, s)) + One(v \in parts /\ OlderThan(parts, v))
    BY <1>1 DEF Index
  <2> QED BY <2>1 DEF One
<1>3. I(s) = IF c \in parts /\ ~OlderThan(parts, s) THEN 1 ELSE 0
  BY <1>1 DEF Index, One
<1>4. I(v) = (IF c \in parts /\ ~OlderThan(parts, v) THEN 1 ELSE 0)
               + (IF s \in parts THEN 1 ELSE 0)
  BY <1>1 DEF Index, One
<1>5. /\ c \in parts => /\ s \in parts => (OlderThan(parts, s) <=> BlockOf(c) < BlockOf(s))
                        /\ v \in parts => (OlderThan(parts, v) <=> BlockOf(c) < BlockOf(v))
      /\ s \in parts /\ v \in parts => BlockOf(v) < BlockOf(s)
      /\ c \in parts => BlockOf(c) \in Nat
      /\ s \in parts => BlockOf(s) \in Nat
      /\ v \in parts => BlockOf(v) \in Nat
  BY DEF InOrder
<1>6. \A p \in parts : p = c \/ p = s \/ p = v
  OBVIOUS
<1> DEFINE n == (IF c \in parts THEN 1 ELSE 0) + (IF s \in parts THEN 1 ELSE 0)
                  + (IF v \in parts THEN 1 ELSE 0)
<1>7. Cardinality(parts) = n
  <2>1. /\ Cardinality({c}) = 1 /\ Cardinality({s}) = 1 /\ Cardinality({v}) = 1
        /\ Cardinality({c, s}) = 2 /\ Cardinality({c, v}) = 2 /\ Cardinality({s, v}) = 2
        /\ Cardinality({c, s, v}) = 3
    BY <1>0
  <2>2. CASE c \in parts
    <3>1. parts = {c} \/ parts = {c, s} \/ parts = {c, v} \/ parts = {c, s, v}
      BY <2>2
    <3> QED BY <1>1, <2>1, <3>1
  <2>3. CASE c \notin parts
    <3>1. parts = {s} \/ parts = {v} \/ parts = {s, v}
      BY <2>3
    <3> QED BY <1>1, <2>1, <3>1
  <2> QED BY <2>2, <2>3
<1>8. n \in 1 .. 3 /\ (n = 3 => v \in parts)
  BY <1>6
<1> HIDE DEF I
<1>9. \A p \in parts : I(p) \in 0 .. n - 1
  <2>1. c \in parts => I(c) \in 0 .. n - 1
    BY <1>2
  <2>2. s \in parts => I(s) \in 0 .. n - 1
    BY <1>3
  <2>3. v \in parts => I(v) \in 0 .. n - 1
    BY <1>4
  <2> QED BY <1>6, <2>1, <2>2, <2>3
<1>10. \A p, q \in parts : I(p) = I(q) => p = q
  <2>1. c \in parts /\ s \in parts => I(c) # I(s)
    BY <1>2, <1>3, <1>5
  <2>2. c \in parts /\ v \in parts => I(c) # I(v)
    BY <1>2, <1>4, <1>5
  <2>3. s \in parts /\ v \in parts => I(s) # I(v)
    BY <1>3, <1>4, <1>5
  <2> QED BY <1>6, <2>1, <2>2, <2>3
<1>11. \A p, q \in parts : I(p) < I(q) => BlockOf(q) <= BlockOf(p)
  <2>1. c \in parts /\ s \in parts =>
          (I(c) < I(s) => BlockOf(s) <= BlockOf(c)) /\ (I(s) < I(c) => BlockOf(c) <= BlockOf(s))
    BY <1>2, <1>3, <1>5
  <2>2. c \in parts /\ v \in parts =>
          (I(c) < I(v) => BlockOf(v) <= BlockOf(c)) /\ (I(v) < I(c) => BlockOf(c) <= BlockOf(v))
    BY <1>2, <1>4, <1>5
  <2>3. s \in parts /\ v \in parts => I(s) < I(v) /\ BlockOf(v) <= BlockOf(s)
    BY <1>3, <1>4, <1>5
  <2>4. \A p \in parts : ~(I(p) < I(p))
    BY <1>9
  <2> QED BY <1>6, <1>9, <2>1, <2>2, <2>3, <2>4
<1>12. \A i \in 0 .. n - 1 : \E p \in parts : I(p) = i
  <2>1. n \in 1 .. 3
    BY <1>8
  <2>2. \E p \in parts : I(p) = 0
    BY <1>2, <1>3, <1>4, <1>5, <1>8
  <2>3. n >= 2 => \E p \in parts : I(p) = 1
    BY <1>2, <1>3, <1>4, <1>5, <1>8
  <2>4. n = 3 => \E p \in parts : I(p) = 2
    BY <1>2, <1>3, <1>4, <1>5, <1>8
  <2> QED BY <2>1, <2>2, <2>3, <2>4
<1> HIDE DEF n
<1>13. /\ \A p \in parts : Index(parts, p) \in 0 .. n - 1
       /\ \A i \in 0 .. n - 1 : \E p \in parts : Index(parts, p) = i
       /\ \A p, q \in parts : Index(parts, p) = Index(parts, q) => p = q
       /\ \A p, q \in parts : Index(parts, p) < Index(parts, q) => BlockOf(q) <= BlockOf(p)
  BY <1>9, <1>10, <1>11, <1>12 DEF I
<1> QED BY <1>7, <1>8, <1>13

-----------------------------------------------------------------------------
(* The packet of a dual stream *)

\* What there is to send has its blocks in order and tells their time.
LEMMA PartsAre ==
  ASSUME SenderInv, PacketInv, WithinHalfWrap, process = "dual", current # NoCodec, secondary
  PROVE  /\ ToSend \subseteq {current, Secondary, "previous"} /\ current \in SendCodecs
         /\ InOrder(ToSend)
         /\ \A p \in ToSend : PartStamp(p) = Stamp(BlockOf(p))
         /\ \A p \in ToSend : FirstCapture <= BlockOf(p) /\ BlockOf(p) < captured
         /\ "previous" \in ToSend <=> fragmentation[2].len > 0
<1>1. /\ current \in SendCodecs /\ current \in Encoders /\ Secondary \in Encoders
      /\ current # "previous" /\ Secondary # "previous" /\ current # Secondary
      /\ captured \in Nat /\ FirstCapture \in Nat
  BY SenderAssumption DEF SenderInv, Controls, Encoders
<1>2. ToSend \subseteq {current, Secondary, "previous"}
  BY DEF ToSend
<1>3. ASSUME NEW p \in ToSend, p # "previous"
      PROVE  /\ p \in Encoders /\ HasFrameToEncode(p)
             /\ BlockOf(p) = encoders[p].audio[1] /\ BlockOf(p) \in BlocksOf(encoders[p])
             /\ BlockOf(p) \in Nat
             /\ PartStamp(p) = Stamp(BlockOf(p))
             /\ FirstCapture <= BlockOf(p) /\ BlockOf(p) < captured
  <2>1. p \in Encoders /\ HasFrameToEncode(p)
    BY <1>1, <1>3 DEF ToSend
  <2>2. BlockOf(p) = encoders[p].audio[1] /\ PartStamp(p) = EarliestTimestamp(p)
    BY <1>3 DEF BlockOf, PartStamp
  <2>3. /\ BlockOf(p) \in BlocksOf(encoders[p]) /\ BlockOf(p) \in Nat
        /\ PartStamp(p) = Stamp(BlockOf(p))
    BY <2>1, <2>2, FrameIs
  <2> QED BY <2>1, <2>2, <2>3 DEF PacketInv, BlocksTrue
<1>4. "previous" \in ToSend <=> fragmentation[2].len > 0
  BY <1>1 DEF ToSend
<1>5. ASSUME "previous" \in ToSend
      PROVE  /\ BlockOf("previous") \in Nat
             /\ PartStamp("previous") = Stamp(BlockOf("previous"))
             /\ FirstCapture <= BlockOf("previous") /\ BlockOf("previous") < captured
             /\ Precedes(BlockOf("previous"), Secondary)
  <2>1. Waits(Secondary) /\ Precedes(red_buffer.block, Secondary)
    BY <1>4, <1>5 DEF PacketInv, KeptTrue
  <2>2. red_buffer.block \in Nat
    BY <2>1 DEF Waits, Encoded
  <2> QED BY <2>1, <2>2 DEF Waits, BlockOf, PartStamp
<1>6. \A p \in ToSend : /\ BlockOf(p) \in Nat /\ PartStamp(p) = Stamp(BlockOf(p))
                        /\ FirstCapture <= BlockOf(p) /\ BlockOf(p) < captured
  BY <1>3, <1>5
<1>7. ASSUME current \in ToSend, NEW p \in ToSend
      PROVE  OlderThan(ToSend, p) <=> BlockOf(current) < BlockOf(p)
  <2>1. captured = FirstCapture \/ captured <= MaxCaptures
    BY DEF PacketInv, BlocksTrue
  <2>2. StampWrap \div 2 \in Int
    BY SenderAssumption
  <2>3. /\ BlockOf(p) - BlockOf(current) < StampWrap \div 2
        /\ BlockOf(current) - BlockOf(p) < StampWrap \div 2
    BY <1>1, <1>6, <1>7, <2>1, <2>2 DEF WithinHalfWrap
  <2>4. TimestampLessThan(Stamp(BlockOf(current)), Stamp(BlockOf(p)))
           <=> BlockOf(current) < BlockOf(p)
    BY <1>6, <1>7, <2>3, StampOrder
  <2> QED BY <1>6, <1>7, <2>4 DEF OlderThan
<1>8. ASSUME {Secondary, "previous"} \subseteq ToSend
      PROVE  BlockOf("previous") < BlockOf(Secondary)
  <2>1. BlockOf(Secondary) \in BlocksOf(encoders[Secondary])
    BY <1>1, <1>3, <1>8
  <2> QED BY <1>5, <1>8, <2>1 DEF Precedes
<1>9. InOrder(ToSend)
  BY <1>6, <1>7, <1>8 DEF InOrder
<1> QED BY <1>1, <1>2, <1>4, <1>6, <1>9

\* The length of a part, and the encoder that made it
LengthOf(p, len) == IF p = "previous" THEN fragmentation[2].len ELSE len[p]
MakerOf(p) == IF p = "previous" THEN Secondary ELSE p

\* What the fragmentation says of a part
Entry(p, len, stamp) == [len |-> LengthOf(p, len), pl |-> MakerOf(p),
                         diff |-> (stamp - PartStamp(p)) % DiffWrap]

\* Each part that is written is in its place, and what is not stays.
LEMMA WrittenIs ==
  ASSUME NEW done, done \subseteq ToSend, NEW len, NEW stamp,
         \A p \in ToSend : \A q \in ToSend : Index(ToSend, p) = Index(ToSend, q) => p = q
  PROVE  /\ \A i \in 0 .. 2 : (\A p \in done : Index(ToSend, p) # i) =>
              Written(ToSend, done, len, stamp)[i] = fragmentation[i]
         /\ \A p \in done : Index(ToSend, p) \in 0 .. 2 =>
              Written(ToSend, done, len, stamp)[Index(ToSend, p)] = Entry(p, len, stamp)
<1> DEFINE Here(i) == {p \in done : Index(ToSend, p) = i}
           Item(p) == Entry(p, len, stamp)
           Cell(i) == IF Here(i) = {} THEN fragmentation[i]
                      ELSE Item(CHOOSE p \in Here(i) : TRUE)
           written == Written(ToSend, done, len, stamp)
<1>1. written = [i \in 0 .. 2 |-> Cell(i)]
  BY DEF Written, Entry, LengthOf, MakerOf
<1> HIDE DEF written
<1>2. \A i \in 0 .. 2 : written[i] = Cell(i)
  BY <1>1
<1>3. ASSUME NEW i \in 0 .. 2, \A p \in done : Index(ToSend, p) # i
      PROVE  written[i] = fragmentation[i]
  <2>1. Here(i) = {}
    BY <1>3
  <2> QED BY <1>2, <2>1
<1>4. ASSUME NEW p \in done, Index(ToSend, p) \in 0 .. 2
      PROVE  written[Index(ToSend, p)] = Item(p)
  <2>1. Here(Index(ToSend, p)) = {p}
    OBVIOUS
  <2>2. (CHOOSE q \in Here(Index(ToSend, p)) : TRUE) = p
    BY <2>1
  <2>3. Here(Index(ToSend, p)) # {}
    BY <2>1
  <2> HIDE DEF Here, Item
  <2>4. Cell(Index(ToSend, p)) = Item(p)
    BY <2>2, <2>3
  <2> QED BY <1>2, <1>4, <2>4
<1> QED BY <1>3, <1>4 DEF written

\* It remains a table of fragments, with nothing but the first part in its first place.
LEMMA WrittenTypes ==
  ASSUME SenderInv, PacketInv, WithinHalfWrap, process = "dual", current # NoCodec, secondary,
         ToSend # {}, NEW len \in [ToSend \cap Encoders -> Lengths],
         NEW done, done \subseteq ToSend, NEW stamp \in Int,
         \A p \in done : Index(ToSend, p) = 0 => stamp = PartStamp(p)
  PROVE  /\ Written(ToSend, done, len, stamp) \in [0 .. 2 -> Fragment]
         /\ Written(ToSend, done, len, stamp)[0].diff = 0
         /\ Cardinality(ToSend) # 3 =>
              Written(ToSend, done, len, stamp)[2] = fragmentation[2]
<1> DEFINE written == Written(ToSend, done, len, stamp)
           Item(p) == Entry(p, len, stamp)
<1>1. /\ ToSend \subseteq {current, Secondary, "previous"} /\ current \in SendCodecs
      /\ InOrder(ToSend)
      /\ \A p \in ToSend : PartStamp(p) = Stamp(BlockOf(p))
  BY PartsAre
<1>2. /\ Cardinality(ToSend) \in 1 .. 3
      /\ \A p \in ToSend : Index(ToSend, p) \in 0 .. Cardinality(ToSend) - 1
      /\ \A p, q \in ToSend : Index(ToSend, p) = Index(ToSend, q) => p = q
  BY <1>1, Places
<1>3. /\ \A i \in 0 .. 2 : (\A p \in done : Index(ToSend, p) # i) => written[i] = fragmentation[i]
      /\ \A p \in done : Index(ToSend, p) \in 0 .. 2 => written[Index(ToSend, p)] = Item(p)
  <2>1. /\ \A i \in 0 .. 2 : (\A p \in done : Index(ToSend, p) # i) =>
              Written(ToSend, done, len, stamp)[i] = fragmentation[i]
        /\ \A p \in done : Index(ToSend, p) \in 0 .. 2 =>
              Written(ToSend, done, len, stamp)[Index(ToSend, p)] = Entry(p, len, stamp)
    BY <1>2, WrittenIs
  <2> QED BY <2>1
<1>4. fragmentation \in [0 .. 2 -> Fragment] /\ fragmentation[0].diff = 0
  BY DEF PacketInv, RedTypes
<1>5. ASSUME NEW p \in done PROVE Item(p) \in Fragment /\ PartStamp(p) \in Int
  <2>1. /\ current \in Encoders /\ Secondary \in Encoders /\ current # "previous"
        /\ Secondary # "previous" /\ "previous" \notin Encoders
    BY <1>1, SenderAssumption DEF Encoders
  <2>2. p = current \/ p = Secondary \/ p = "previous"
    BY <1>1
  <2>3. MakerOf(p) \in Encoders
    BY <2>1, <2>2 DEF MakerOf
  <2>4. LengthOf(p, len) \in Nat
    <3>1. CASE p = "previous"
      BY <1>4, <3>1 DEF LengthOf, Fragment
    <3>2. CASE p # "previous"
      <4>1. p \in ToSend \cap Encoders
        BY <2>1, <2>2, <3>2
      <4>2. len[p] \in Lengths
        BY <4>1
      <4> QED BY <3>2, <4>2, SenderAssumption DEF LengthOf
    <3> QED BY <3>1, <3>2
  <2>5. PartStamp(p) \in Int
    <3>1. BlockOf(p) \in Nat
      BY <1>1 DEF InOrder
    <3> QED BY <1>1, <3>1, StampType
  <2>6. (stamp - PartStamp(p)) % DiffWrap \in Int
    BY <2>5, SenderAssumption
  <2> QED BY <2>3, <2>4, <2>5, <2>6 DEF Fragment, Entry
<1> DEFINE Cell(i) == written[i]
<1>6. ASSUME NEW i \in 0 .. 2
      PROVE  \/ written[i] = fragmentation[i]
             \/ \E p \in done : Index(ToSend, p) = i /\ written[i] = Item(p)
  BY <1>3
<1>7. written = [i \in 0 .. 2 |-> written[i]]
  BY DEF Written
<1> HIDE DEF written, Item
<1>8. \A i \in 0 .. 2 : written[i] \in Fragment
  BY <1>4, <1>5, <1>6
<1>9. written \in [0 .. 2 -> Fragment]
  BY <1>7, <1>8
<1>10. written[0].diff = 0
  <2>1. ASSUME NEW p \in done, Index(ToSend, p) = 0, written[0] = Item(p) PROVE Item(p).diff = 0
    <3>1. stamp - PartStamp(p) = 0
      BY <1>5, <2>1
    <3>2. 0 % DiffWrap = 0
      BY SenderAssumption
    <3> QED BY <3>1, <3>2 DEF Item, Entry
  <2> QED BY <1>4, <1>6, <2>1
<1>11. Cardinality(ToSend) # 3 => written[2] = fragmentation[2]
  BY <1>2, <1>3
<1> QED BY <1>9, <1>10, <1>11 DEF written

\* The packet made says of each part what it is, the newest part first.
LEMMA MadeIs ==
  ASSUME SenderInv, PacketInv, WithinHalfWrap, process = "dual", current # NoCodec, secondary,
         ToSend # {}, NEW len \in [ToSend \cap Encoders -> Lengths]
  PROVE  LET made == Made(ToSend, len)
         IN  /\ made.stamp \in Int /\ made.doubtful = threeFailed
             /\ \A p \in ToSend : Index(ToSend, p) = 0 => made.stamp = PartStamp(p)
             /\ made # NoPacket
             /\ Len(made.parts) = Cardinality(ToSend)
             /\ DOMAIN made.parts = 1 .. Cardinality(ToSend)
             /\ \A k \in 1 .. Cardinality(ToSend) : \E p \in ToSend :
                  /\ Index(ToSend, p) = k - 1
                  /\ made.parts[k] = [len |-> LengthOf(p, len), pl |-> MakerOf(p),
                                      diff |-> (made.stamp - PartStamp(p)) % DiffWrap,
                                      data |-> Content(p, len)]
<1>1. /\ ToSend \subseteq {current, Secondary, "previous"} /\ current \in SendCodecs
      /\ InOrder(ToSend)
      /\ \A p \in ToSend : PartStamp(p) = Stamp(BlockOf(p))
  BY PartsAre
<1> DEFINE n == Cardinality(ToSend)
<1>2. /\ n \in 1 .. 3
      /\ \A p \in ToSend : Index(ToSend, p) \in 0 .. n - 1
      /\ \A i \in 0 .. n - 1 : \E p \in ToSend : Index(ToSend, p) = i
      /\ \A p, q \in ToSend : Index(ToSend, p) = Index(ToSend, q) => p = q
  BY <1>1, Places
<1> HIDE DEF n
<1> DEFINE At(i) == CHOOSE p \in ToSend : Index(ToSend, p) = i
           stamp == PartStamp(At(0))
           written == Written(ToSend, ToSend, len, stamp)
           parts == [k \in 1 .. n |-> InPacket(written[k - 1], Content(At(k - 1), len))]
           made == Made(ToSend, len)
<1>3. made = [stamp |-> stamp, doubtful |-> threeFailed, parts |-> parts]
  BY Zenon DEF Made, n
<1>4. \A i \in 0 .. n - 1 : At(i) \in ToSend /\ Index(ToSend, At(i)) = i
  BY <1>2
<1>5. \A p \in ToSend : At(Index(ToSend, p)) = p
  BY <1>2, <1>4
<1> HIDE DEF At
<1>6. ASSUME NEW p \in ToSend, Index(ToSend, p) = 0 PROVE stamp = PartStamp(p)
  BY <1>5, <1>6
<1>7. stamp \in Int
  <2>1. At(0) \in ToSend
    BY <1>2, <1>4
  <2>2. BlockOf(At(0)) \in Nat
    BY <1>1, <2>1 DEF InOrder
  <2> QED BY <1>1, <2>1, <2>2, StampType
<1> HIDE DEF stamp
<1>8. \A p \in ToSend : Index(ToSend, p) \in 0 .. 2 =>
        written[Index(ToSend, p)] = Entry(p, len, stamp)
  BY <1>2, WrittenIs
<1> HIDE DEF written
<1>9. ASSUME NEW k \in 1 .. n
      PROVE  \E p \in ToSend :
               /\ Index(ToSend, p) = k - 1
               /\ parts[k] = [len |-> LengthOf(p, len), pl |-> MakerOf(p),
                              diff |-> (stamp - PartStamp(p)) % DiffWrap,
                              data |-> Content(p, len)]
  <2>1. k - 1 \in 0 .. n - 1 /\ k - 1 \in 0 .. 2
    BY <1>2
  <2>2. At(k - 1) \in ToSend /\ Index(ToSend, At(k - 1)) = k - 1
    BY <1>4, <2>1
  <2>3. written[k - 1] = Entry(At(k - 1), len, stamp)
    BY <1>8, <2>1, <2>2
  <2>4. parts[k] = InPacket(written[k - 1], Content(At(k - 1), len))
    OBVIOUS
  <2> HIDE DEF parts
  <2>5. parts[k] = [len |-> LengthOf(At(k - 1), len), pl |-> MakerOf(At(k - 1)),
                    diff |-> (stamp - PartStamp(At(k - 1))) % DiffWrap,
                    data |-> Content(At(k - 1), len)]
    BY <2>3, <2>4 DEF InPacket, Entry
  <2> QED BY <2>2, <2>5
<1>10. DOMAIN parts = 1 .. n /\ Len(parts) = n
  <2>1. n \in Nat
    BY <1>2
  <2> QED BY <2>1
<1> HIDE DEF parts
<1>11. made # NoPacket
  <2>1. made.stamp = stamp /\ DOMAIN made = {"stamp", "doubtful", "parts"}
    BY <1>3
  <2>2. DOMAIN NoPacket = {}
    BY DEF NoPacket
  <2> QED BY <2>1, <2>2
<1>12. made.stamp = stamp /\ made.doubtful = threeFailed /\ made.parts = parts
  BY <1>3
<1> HIDE DEF made
<1> QED BY <1>6, <1>7, <1>9, <1>10, <1>11, <1>12 DEF made, n

-----------------------------------------------------------------------------
(* Steps keep what a packet is made from *)

\* No block is added.
NoneAdded == \A e \in Encoders : BlocksOf(encoders'[e]) \subseteq BlocksOf(encoders[e])

LEMMA LeftAloneAddsNone ==
  ASSUME UNCHANGED encoders
  PROVE  NoneAdded
  BY DEF NoneAdded

LEMMA RenewedAddsNone ==
  ASSUME EncodersTrue, NEW e \in Encoders, NEW new, new.audio = <<>>,
         encoders' = [encoders EXCEPT ![e] = new]
  PROVE  NoneAdded
<1>1. BlocksOf(new) = {}
  BY DEF BlocksOf
<1>2. encoders \in [Encoders -> EncoderRecord]
  BY DEF EncodersTrue
<1>3. \A x \in Encoders : encoders'[x] = IF x = e THEN new ELSE encoders[x]
  BY <1>2
<1> QED BY <1>1, <1>3 DEF NoneAdded

LEMMA ReadAddsNone ==
  ASSUME SenderInv,
         \A e \in Encoders : \/ encoders'[e] = encoders[e]
                             \/ \E n \in Nat : encoders'[e] = After(encoders[e], n)
  PROVE  NoneAdded
<1>1. ASSUME NEW e \in Encoders PROVE BlocksOf(encoders'[e]) \subseteq BlocksOf(encoders[e])
  <2>1. EncoderTrue(encoders[e], captured) /\ captured \in Nat
    BY DEF SenderInv, EncodersTrue, Controls
  <2>2. \A n \in Nat : BlocksOf(After(encoders[e], n)) \subseteq BlocksOf(encoders[e])
    BY <2>1, AfterBlocks
  <2> QED BY <2>2
<1> QED BY <1>1 DEF NoneAdded

LEMMA BlocksStill ==
  ASSUME BlocksTrue, NoneAdded, captured' = captured,
         process' = "idle" \/ process # "idle"
  PROVE  BlocksTrue'
<1>1. /\ FirstCapture <= captured' /\ (captured' = FirstCapture \/ captured' <= MaxCaptures)
  BY DEF BlocksTrue
<1>2. ASSUME NEW e \in Encoders, NEW b \in BlocksOf(encoders'[e])
      PROVE  FirstCapture <= b /\ (process' # "idle" => b < captured')
  <2>1. b \in BlocksOf(encoders[e])
    BY DEF NoneAdded
  <2> QED BY <2>1 DEF BlocksTrue
<1> QED BY <1>1, <1>2 DEF BlocksTrue, BlocksOf

\* What precedes an encoder's blocks still does.
LEMMA StillPrecedes ==
  ASSUME NoneAdded, NEW e \in Encoders, NEW b, Precedes(b, e)
  PROVE  \A x \in BlocksOf(encoders'[e]) : b < x
  BY DEF NoneAdded, Precedes

\* Two ways to treat the payload kept when a setting changes: forget all that is
\* known of it, or leave it alone, with the single stream to begin anew if it has
\* another codec.
Forgotten ==
  /\ fragmentation' = NoFragments /\ threeFailed' = FALSE
  /\ red_buffer' \in {red_buffer, NoPayload} /\ last_fec_timestamp' = last_fec_timestamp

LeftAlone ==
  /\ UNCHANGED <<fragmentation, threeFailed, red_buffer, last_fec_timestamp, secondary>>
  /\ is_first_red' = TRUE \/ UNCHANGED <<is_first_red, current>>

LEMMA NoFragmentsType ==
  NoFragments \in [0 .. 2 -> Fragment] /\ \A i \in 0 .. 2 : NoFragments[i] = NoFragment
<1>1. NoFragment \in Fragment
  BY DEF NoFragment, Fragment
<1> QED BY <1>1 DEF NoFragments

LEMMA ForgetOrLeave ==
  ASSUME SenderInv, SenderInv', PacketInv, NoneAdded,
         UNCHANGED <<captured, process, packet, sentSecondary>>,
         fec_enabled' \in BOOLEAN, vad_enabled' \in BOOLEAN, is_first_red' \in BOOLEAN,
         current' = NoCodec => is_first_red' = TRUE,
         Forgotten \/ LeftAlone
  PROVE  PacketInv'
<1>1. BlocksTrue'
  BY BlocksStill DEF PacketInv
<1>2. RedTypes'
  <2>1. CASE Forgotten
    <3>1. fragmentation' \in [0 .. 2 -> Fragment] /\ fragmentation'[0].diff = 0
      BY <2>1, NoFragmentsType DEF Forgotten, NoFragment
    <3>2. /\ threeFailed' \in BOOLEAN /\ last_fec_timestamp' \in Int
          /\ red_buffer' \in Encoded \cup {NoPayload}
          /\ sentSecondary' \in Int /\ sentSecondary' < captured'
      BY <2>1 DEF Forgotten, PacketInv, RedTypes
    <3> QED BY <3>1, <3>2 DEF RedTypes
  <2>2. CASE LeftAlone
    BY <2>2 DEF LeftAlone, PacketInv, RedTypes
  <2> QED BY <2>1, <2>2
<1>3. RedundancyTrue'
  <2>1. CASE Forgotten
    <3>1. fragmentation'[1].len = 0
      BY <2>1, NoFragmentsType DEF Forgotten, NoFragment
    <3> QED BY <3>1 DEF RedundancyTrue
  <2>2. CASE LeftAlone
    <3>1. CASE is_first_red' = TRUE
      BY <3>1 DEF RedundancyTrue
    <3>2. CASE UNCHANGED <<is_first_red, current>>
      <4>1. SUFFICES ASSUME ~secondary \/ process = "single", ~is_first_red, fragmentation[1].len > 0
                     PROVE  /\ Waits(fragmentation[0].pl)' /\ (red_buffer.len = fragmentation[1].len)'
                            /\ Precedes(red_buffer.block, current)'
        BY <2>2, <3>2 DEF LeftAlone, RedundancyTrue
      <4>2. /\ Waits(fragmentation[0].pl) /\ red_buffer.len = fragmentation[1].len
            /\ Precedes(red_buffer.block, current)
        BY <4>1 DEF PacketInv, RedundancyTrue
      <4>3. current \in Encoders
        BY <4>1, EncoderTypes DEF PacketInv, RedTypes, SenderInv, Controls
      <4>4. \A x \in BlocksOf(encoders'[current]) : red_buffer.block < x
        BY <4>2, <4>3, StillPrecedes
      <4> QED BY <2>2, <3>2, <4>2, <4>4 DEF LeftAlone, Waits, Precedes, Stamp, BlocksOf
    <3> QED BY <2>2, <3>1, <3>2 DEF LeftAlone
  <2> QED BY <2>1, <2>2
<1>4. KeptTrue'
  <2>1. CASE Forgotten
    <3>1. fragmentation'[2].len = 0
      BY <2>1, NoFragmentsType DEF Forgotten, NoFragment
    <3> QED BY <3>1 DEF KeptTrue
  <2>2. CASE LeftAlone
    <3>1. SUFFICES ASSUME fragmentation[2].len > 0 PROVE KeptTrue'
      BY <2>2 DEF LeftAlone, KeptTrue
    <3>2. Waits(Secondary) /\ Precedes(red_buffer.block, Secondary)
      BY <3>1 DEF PacketInv, KeptTrue
    <3>3. \A x \in BlocksOf(encoders'[Secondary]) : red_buffer.block < x
      BY <3>2, EncoderTypes, StillPrecedes
    <3>4. Waits(Secondary)' /\ Precedes(red_buffer.block, Secondary)'
      BY <2>2, <3>2, <3>3 DEF LeftAlone, Waits, Precedes, Stamp, BlocksOf
    <3> QED BY <2>2, <3>1, <3>4 DEF LeftAlone, PacketInv, KeptTrue
  <2> QED BY <2>1, <2>2
<1>5. OutTrue'
  <2>1. \A b : Precedes(b, Secondary) => \A x \in BlocksOf(encoders'[Secondary]) : b < x
    BY EncoderTypes, StillPrecedes
  <2> QED BY <2>1 DEF PacketInv, OutTrue, Precedes, BlocksOf
<1>6. PacketTrue'
  BY DEF PacketInv, PacketTrue, PartTrue, Stamp
<1> QED BY <1>1, <1>2, <1>3, <1>4, <1>5, <1>6 DEF PacketInv

LEMMA SettingKeeps ==
  ASSUME SenderInv, SenderInv', PacketInv,
         \/ \E c \in SendCodecs : RegisterSendCodec(c)
         \/ RegisterSecondarySendCodec \/ UnregisterSecondarySendCodec
         \/ \E enable \in BOOLEAN : SetFECStatus(enable)
         \/ SetVAD \/ ResetEncoder \/ InitializeSender
  PROVE  PacketInv'
<1>1. /\ fec_enabled \in BOOLEAN /\ vad_enabled \in BOOLEAN /\ is_first_red \in BOOLEAN
      /\ current = NoCodec => is_first_red
  BY DEF PacketInv, RedTypes
<1>2. EncodersTrue /\ Secondary \in Encoders /\ current \in SendCodecs \cup {NoCodec}
  BY EncoderTypes DEF SenderInv, Controls
<1>3. ASSUME encoders' = [encoders EXCEPT ![Secondary] = Fresh] PROVE NoneAdded
  <2>1. Fresh.audio = <<>>
    BY DEF Fresh
  <2> QED BY <1>2, <1>3, <2>1, RenewedAddsNone
<1>4. ASSUME NEW c \in SendCodecs, RegisterSendCodec(c) PROVE PacketInv'
  <2>1. /\ UNCHANGED <<captured, process, packet, sentSecondary, vad_enabled, fec_enabled,
                       red_buffer, last_fec_timestamp>>
        /\ current' = c /\ is_first_red' = (is_first_red \/ current # NoCodec)
        /\ \/ UNCHANGED <<secondary, encoders, fragmentation, threeFailed>>
           \/ encoders' = [encoders EXCEPT ![Secondary] = Fresh] /\ Clean
    BY <1>4, Zenon DEF RegisterSendCodec, Set, sendVars
  <2>2. is_first_red' = TRUE
    BY <1>1, <2>1
  <2>3. NoneAdded
    BY <1>3, <2>1, LeftAloneAddsNone
  <2>4. Forgotten \/ LeftAlone
    BY <2>1, <2>2 DEF Forgotten, LeftAlone, Clean
  <2> QED BY <1>1, <2>1, <2>2, <2>3, <2>4, ForgetOrLeave
<1>5. CASE RegisterSecondarySendCodec
  <2>1. /\ UNCHANGED <<captured, process, packet, sentSecondary, current, fec_enabled,
                       is_first_red, last_fec_timestamp>>
        /\ vad_enabled' = FALSE /\ red_buffer' = NoPayload /\ Clean
        /\ encoders' = [encoders EXCEPT ![Secondary] = Fresh]
    BY <1>5, Zenon DEF RegisterSecondarySendCodec, Set, sendVars
  <2>2. Forgotten
    BY <2>1 DEF Forgotten, Clean
  <2> QED BY <1>1, <1>3, <2>1, <2>2, ForgetOrLeave
<1>6. CASE UnregisterSecondarySendCodec
  <2>1. /\ UNCHANGED <<captured, process, packet, sentSecondary, current, fec_enabled,
                       vad_enabled, is_first_red, red_buffer, last_fec_timestamp>>
        /\ Clean /\ encoders' = [encoders EXCEPT ![Secondary] = Fresh]
    BY <1>6, Zenon DEF UnregisterSecondarySendCodec, Set, sendVars
  <2>2. Forgotten
    BY <2>1 DEF Forgotten, Clean
  <2> QED BY <1>1, <1>3, <2>1, <2>2, ForgetOrLeave
<1>7. ASSUME NEW enable \in BOOLEAN, SetFECStatus(enable) PROVE PacketInv'
  <2>1. /\ UNCHANGED <<captured, process, packet, sentSecondary, current, secondary, encoders,
                       vad_enabled, last_fec_timestamp>>
        /\ fec_enabled' = enable /\ is_first_red' = TRUE
        /\ \/ red_buffer' = NoPayload /\ Clean
           \/ UNCHANGED <<red_buffer, fragmentation, threeFailed>>
    BY <1>7, Zenon DEF SetFECStatus, Set, sendVars
  <2>2. Forgotten \/ LeftAlone
    BY <2>1 DEF Forgotten, LeftAlone, Clean
  <2> QED BY <1>1, <1>7, <2>1, <2>2, LeftAloneAddsNone, ForgetOrLeave
<1>8. CASE SetVAD
  <2>1. /\ UNCHANGED <<captured, process, packet, sentSecondary, current, secondary, encoders,
                       fec_enabled, is_first_red, red_buffer, last_fec_timestamp,
                       fragmentation, threeFailed>>
        /\ vad_enabled' = ~vad_enabled
    BY <1>8 DEF SetVAD, Set, sendVars, redVars
  <2>2. LeftAlone /\ vad_enabled' \in BOOLEAN
    BY <1>1, <2>1 DEF LeftAlone
  <2> QED BY <1>1, <2>1, <2>2, LeftAloneAddsNone, ForgetOrLeave
<1>9. CASE ResetEncoder
  <2>1. /\ UNCHANGED <<captured, process, packet, sentSecondary, current, secondary,
                       vad_enabled, fec_enabled, is_first_red, red_buffer,
                       last_fec_timestamp, fragmentation, threeFailed>>
        /\ current # NoCodec
        /\ encoders' = [encoders EXCEPT ![current].audio = <<>>, ![current].stamps = <<>>]
    BY <1>9 DEF ResetEncoder, Set, sendVars, redVars, codecVars
  <2>2. current \in Encoders
    BY <1>2, <2>1, EncoderTypes
  <2>3. encoders \in [Encoders -> EncoderRecord]
    BY <1>2 DEF EncodersTrue
  <2>4. /\ \A e \in Encoders \ {current} : encoders'[e] = encoders[e]
        /\ encoders'[current] = [encoders[current] EXCEPT !.audio = <<>>, !.stamps = <<>>]
    BY <2>1, <2>2, <2>3
  <2>5. encoders'[current].audio = <<>>
    <3>1. encoders[current] \in EncoderRecord
      BY <2>2, <2>3
    <3>2. encoders'[current] = [audio |-> <<>>, stamps |-> <<>>, last |-> encoders[current].last]
      BY <2>4, <3>1 DEF EncoderRecord
    <3> QED BY <3>2
  <2>6. BlocksOf(encoders'[current]) = {}
    BY <2>5 DEF BlocksOf
  <2>7. NoneAdded
    BY <2>4, <2>6 DEF NoneAdded
  <2>8. LeftAlone
    BY <2>1 DEF LeftAlone
  <2> QED BY <1>1, <2>1, <2>7, <2>8, ForgetOrLeave
<1>10. CASE InitializeSender
  <2>1. /\ UNCHANGED <<captured, process, packet, sentSecondary, secondary, encoders,
                       vad_enabled, fec_enabled, last_fec_timestamp>>
        /\ is_first_red' = TRUE
        /\ \/ red_buffer' = NoPayload /\ Clean
           \/ UNCHANGED <<red_buffer, fragmentation, threeFailed>>
    BY <1>10, Zenon DEF InitializeSender, Set, sendVars
  <2>2. Forgotten \/ LeftAlone
    BY <2>1 DEF Forgotten, LeftAlone, Clean
  <2> QED BY <1>1, <2>1, <2>2, LeftAloneAddsNone, ForgetOrLeave
<1> QED BY <1>4, <1>5, <1>6, <1>7, <1>8, <1>9, <1>10

\* Blocks are added behind what waits, and the clock goes on.
LEMMA EncodeAndSendKeeps ==
  ASSUME SenderInv, SenderInv', PacketInv, WithinHalfWrap, EncodeAndSend
  PROVE  PacketInv'
<1> DEFINE fed == {current} \cup
                    (IF secondary /\ ~Overflows(encoders[current], captured) THEN {Secondary}
                     ELSE {})
<1>1. /\ UNCHANGED <<fragmentation, threeFailed, red_buffer, last_fec_timestamp, current,
                     secondary, vad_enabled, fec_enabled, is_first_red, packet, sentSecondary>>
      /\ process = "idle" /\ current # NoCodec /\ captured < MaxCaptures
      /\ encoders' = [e \in Encoders |-> IF e \in fed THEN Add(encoders[e], captured)
                                                      ELSE encoders[e]]
      /\ \/ captured' = captured /\ process' = "idle"
         \/ captured' = captured + 1 /\ process' = "added"
  BY Zenon DEF EncodeAndSend, redVars, codecVars
<1>2. /\ captured \in Nat /\ FirstCapture \in Nat /\ EncodersTrue
      /\ current \in Encoders /\ Secondary \in Encoders
  BY <1>1, EncoderTypes, SenderAssumption DEF SenderInv, Controls
<1> HIDE DEF fed
<1>3. ASSUME NEW e \in Encoders, NEW b \in BlocksOf(encoders'[e])
      PROVE  b \in BlocksOf(encoders[e]) \/ b = captured
  <2>1. CASE e \in fed
    <3>1. encoders'[e] = Add(encoders[e], captured)
      BY <1>1, <2>1
    <3>2. EncoderTrue(encoders[e], captured)
      BY <1>2 DEF EncodersTrue
    <3> QED BY <1>2, <3>1, <3>2, AddBlocks
  <2>2. CASE e \notin fed
    BY <1>1, <2>2
  <2> QED BY <2>1, <2>2
<1>4. ASSUME NEW e \in Encoders, NEW b \in Int, Precedes(b, e), b < captured
      PROVE  \A x \in BlocksOf(encoders'[e]) : b < x
  BY <1>3, <1>4 DEF Precedes
<1>5. BlocksTrue'
  <2>1. /\ FirstCapture <= captured' /\ (captured' <= MaxCaptures \/ captured' = FirstCapture)
        /\ captured' \in Nat /\ captured <= captured'
    <3>1. FirstCapture <= captured /\ (captured = FirstCapture \/ captured <= MaxCaptures)
      BY DEF PacketInv, BlocksTrue
    <3>2. captured' = captured \/ (captured' = captured + 1 /\ captured < MaxCaptures)
      BY <1>1
    <3>3. captured + 1 <= MaxCaptures \/ captured' = captured
      BY <1>2, <3>2 DEF WithinHalfWrap
    <3> QED BY <1>1, <1>2, <3>1, <3>2, <3>3
  <2>2. ASSUME NEW e \in Encoders, NEW b \in BlocksOf(encoders'[e])
        PROVE  FirstCapture <= b /\ (process' # "idle" => b < captured')
    <3>1. FirstCapture <= captured
      BY DEF PacketInv, BlocksTrue
    <3>2. b \in BlocksOf(encoders[e]) \/ b = captured
      BY <1>3
    <3>3. b \in BlocksOf(encoders[e]) => b \in Nat /\ b <= captured /\ FirstCapture <= b
      BY <1>2, BlockTypes DEF PacketInv, BlocksTrue
    <3> QED BY <1>1, <1>2, <3>1, <3>2, <3>3
  <2> QED BY <2>1, <2>2 DEF BlocksTrue, BlocksOf
<1>6. RedTypes'
  BY <1>1, <1>2 DEF PacketInv, RedTypes
<1>7. ASSUME NEW of, Waits(of) PROVE Waits(of)' /\ red_buffer.block \in Int
  BY <1>1, <1>2, <1>7 DEF Waits, Encoded, Stamp
<1>8. RedundancyTrue'
  <2>1. SUFFICES ASSUME ~secondary, ~is_first_red, fragmentation[1].len > 0
                 PROVE  /\ Waits(fragmentation[0].pl)' /\ (red_buffer.len = fragmentation[1].len)'
                        /\ Precedes(red_buffer.block, current)'
    BY <1>1 DEF RedundancyTrue
  <2>2. /\ Waits(fragmentation[0].pl) /\ red_buffer.len = fragmentation[1].len
        /\ Precedes(red_buffer.block, current)
    BY <2>1 DEF PacketInv, RedundancyTrue
  <2>3. \A x \in BlocksOf(encoders'[current]) : red_buffer.block < x
    BY <1>2, <1>4, <1>7, <2>2 DEF Waits
  <2>4. Waits(fragmentation[0].pl)'
    BY <1>1, <1>7, <2>2 DEF Waits, Stamp
  <2> QED BY <1>1, <2>2, <2>3, <2>4 DEF Precedes, BlocksOf
<1>9. KeptTrue'
  <2>1. SUFFICES ASSUME fragmentation[2].len > 0 PROVE KeptTrue'
    BY <1>1 DEF KeptTrue
  <2>2. /\ secondary /\ Waits(Secondary) /\ Precedes(red_buffer.block, Secondary)
        /\ sentSecondary < red_buffer.block
        /\ threeFailed \/ red_buffer.len = fragmentation[2].len
    BY <1>1, <2>1 DEF PacketInv, KeptTrue
  <2>3. \A x \in BlocksOf(encoders'[Secondary]) : red_buffer.block < x
    BY <1>2, <1>4, <1>7, <2>2 DEF Waits
  <2>4. Waits(Secondary)' /\ Precedes(red_buffer.block, Secondary)' /\ process' # "single"
    BY <1>1, <1>7, <2>2, <2>3 DEF Precedes, BlocksOf
  <2> QED BY <1>1, <2>2, <2>4 DEF KeptTrue
<1>10. OutTrue'
  <2>1. Precedes(sentSecondary, Secondary) /\ sentSecondary \in Int /\ sentSecondary < captured
    BY DEF PacketInv, OutTrue, RedTypes
  <2>2. \A x \in BlocksOf(encoders'[Secondary]) : sentSecondary < x
    BY <1>2, <1>4, <2>1
  <2> QED BY <1>1, <2>2 DEF OutTrue, Precedes, BlocksOf
<1>11. PacketTrue'
  BY <1>1 DEF PacketInv, PacketTrue, PartTrue, Stamp
<1> QED BY <1>5, <1>6, <1>8, <1>9, <1>10, <1>11 DEF PacketInv

\* The clock goes on, or the stream is chosen.
LEMMA WaitingKeeps ==
  ASSUME SenderInv, SenderInv', PacketInv, WithinHalfWrap, UpdateLocalTimeStamp \/ Process10Ms
  PROVE  PacketInv'
<1>1. /\ UNCHANGED <<fragmentation, threeFailed, red_buffer, last_fec_timestamp, current,
                     secondary, vad_enabled, fec_enabled, is_first_red, packet, sentSecondary,
                     encoders>>
      /\ \/ /\ process = "idle" /\ process' = "idle"
            /\ captured' = captured + 1 /\ captured < MaxCaptures
         \/ /\ process = "added" /\ captured' = captured
            /\ process' = IF secondary THEN "dual" ELSE "single"
  BY Zenon DEF UpdateLocalTimeStamp, Process10Ms, redVars, codecVars, sendVars, streamVars
<1>2. captured \in Nat /\ FirstCapture \in Nat /\ EncodersTrue /\ secondary \in BOOLEAN
  BY SenderAssumption DEF SenderInv, Controls
<1>3. BlocksTrue'
  <2>1. /\ FirstCapture <= captured' /\ (captured' = FirstCapture \/ captured' <= MaxCaptures)
    BY <1>1, <1>2 DEF PacketInv, BlocksTrue, WithinHalfWrap
  <2>2. \A e \in Encoders : \A b \in BlocksOf(encoders'[e]) :
           FirstCapture <= b /\ (process' # "idle" => b < captured')
    BY <1>1 DEF PacketInv, BlocksTrue
  <2> QED BY <2>1, <2>2 DEF BlocksTrue, BlocksOf
<1>4. RedTypes'
  BY <1>1, <1>2 DEF PacketInv, RedTypes
<1>5. ASSUME NEW of, Waits(of) PROVE Waits(of)'
  BY <1>1, <1>2, <1>5 DEF Waits, Encoded, Stamp
<1>6. ASSUME NEW b, NEW e, Precedes(b, e) PROVE \A x \in BlocksOf(encoders'[e]) : b < x
  BY <1>1, <1>6 DEF Precedes
<1>7. RedundancyTrue'
  <2>1. SUFFICES ASSUME ~secondary \/ process' = "single", ~is_first_red, fragmentation[1].len > 0
                 PROVE  /\ Waits(fragmentation[0].pl)' /\ (red_buffer.len = fragmentation[1].len)'
                        /\ Precedes(red_buffer.block, current)'
    BY <1>1 DEF RedundancyTrue
  <2>2. ~secondary
    BY <1>1, <2>1
  <2>3. /\ Waits(fragmentation[0].pl) /\ red_buffer.len = fragmentation[1].len
        /\ Precedes(red_buffer.block, current)
    BY <2>1, <2>2 DEF PacketInv, RedundancyTrue
  <2>4. Waits(fragmentation[0].pl)'
    BY <1>1, <1>5, <2>3 DEF Waits, Stamp
  <2> QED BY <1>1, <1>6, <2>3, <2>4 DEF Precedes, BlocksOf
<1>8. KeptTrue'
  <2>1. SUFFICES ASSUME fragmentation[2].len > 0 PROVE KeptTrue'
    BY <1>1 DEF KeptTrue
  <2>2. /\ secondary /\ Waits(Secondary) /\ Precedes(red_buffer.block, Secondary)
        /\ sentSecondary < red_buffer.block
        /\ threeFailed \/ red_buffer.len = fragmentation[2].len
    BY <1>1, <2>1 DEF PacketInv, KeptTrue
  <2>3. Waits(Secondary)' /\ Precedes(red_buffer.block, Secondary)' /\ process' # "single"
    BY <1>1, <1>5, <1>6, <2>2 DEF Precedes, BlocksOf
  <2> QED BY <1>1, <2>2, <2>3 DEF KeptTrue
<1>9. OutTrue'
  BY <1>1, <1>6 DEF PacketInv, OutTrue, Precedes, BlocksOf
<1>10. PacketTrue'
  BY <1>1 DEF PacketInv, PacketTrue, PartTrue, Stamp
<1> QED BY <1>3, <1>4, <1>7, <1>8, <1>9, <1>10 DEF PacketInv

-----------------------------------------------------------------------------
(* The single stream *)

\* A fragment with some of its fields set
LEMMA FragmentWith ==
  ASSUME NEW f \in Fragment, NEW l, NEW c, NEW d
  PROVE  /\ [f EXCEPT !.len = l, !.pl = c] = [len |-> l, pl |-> c, diff |-> f.diff]
         /\ [f EXCEPT !.pl = c, !.diff = d] = [len |-> f.len, pl |-> c, diff |-> d]
         /\ [f EXCEPT !.len = l] = [len |-> l, pl |-> f.pl, diff |-> f.diff]
<1> DEFINE g == [f EXCEPT !.len = l]
           h == [f EXCEPT !.pl = c]
<1>1. f = [len |-> f.len, pl |-> f.pl, diff |-> f.diff]
  BY DEF Fragment
<1>2. /\ g = [len |-> l, pl |-> f.pl, diff |-> f.diff]
      /\ h = [len |-> f.len, pl |-> c, diff |-> f.diff]
  BY <1>1
<1>3. /\ [f EXCEPT !.len = l, !.pl = c] = [g EXCEPT !.pl = c]
      /\ [f EXCEPT !.pl = c, !.diff = d] = [h EXCEPT !.diff = d]
  BY Zenon
<1> HIDE DEF g, h
<1>4. [g EXCEPT !.pl = c] = [len |-> l, pl |-> c, diff |-> f.diff]
  BY <1>2
<1>5. [h EXCEPT !.diff = d] = [len |-> f.len, pl |-> c, diff |-> d]
  BY <1>2
<1>6. [f EXCEPT !.len = l] = [len |-> l, pl |-> f.pl, diff |-> f.diff]
  BY <1>2 DEF g
<1> QED BY <1>3, <1>4, <1>5, <1>6

\* A frame that is sent: the payload kept is the one before, and this one is
\* kept for the next.
LEMMA SpeechKeeps ==
  ASSUME SenderInv, SenderInv', PacketInv, ProcessSingleStream,
         current # NoCodec, HasFrameToEncode(current), NEW len \in Lengths, Speech(len)
  PROVE  PacketInv'
<1> DEFINE payload == Payload(current, len)
           stamp == EarliestTimestamp(current)
           second == IF is_first_red THEN fragmentation[1] ELSE Redundancy(stamp)
           first == FirstFragment(len)
           block == encoders[current].audio[1]
<1>1. /\ process = "single" /\ process' = "idle"
      /\ UNCHANGED <<captured, current, secondary, vad_enabled, fec_enabled, sentSecondary>>
  BY Zenon DEF ProcessSingleStream, codecVars
<1>2. /\ Encodes(current, FrameBlocks[current])
      /\ \/ /\ packet' = IF is_first_red THEN packet
                         ELSE [stamp |-> stamp, doubtful |-> FALSE,
                               parts |-> <<InPacket(first, payload), InPacket(second, red_buffer)>>]
            /\ fragmentation' = [fragmentation EXCEPT ![0] = first, ![1] = [second EXCEPT !.len = len]]
            /\ red_buffer' = payload /\ last_fec_timestamp' = stamp
            /\ threeFailed' = threeFailed /\ is_first_red' = FALSE
         \/ /\ packet' = [stamp |-> stamp, doubtful |-> FALSE,
                          parts |-> <<InPacket([len |-> len, pl |-> current, diff |-> 0], payload)>>]
            /\ UNCHANGED <<fragmentation, threeFailed, red_buffer, last_fec_timestamp, is_first_red>>
  BY Zenon DEF Speech, redVars
<1>3. /\ captured \in Nat /\ FirstCapture \in Nat /\ EncodersTrue /\ current \in Encoders
      /\ Secondary \in Encoders /\ current # Secondary /\ current \in SendCodecs
      /\ DiffWrap \in Nat \ {0} /\ len \in Nat /\ len > 0
  BY EncoderTypes, SenderAssumption DEF SenderInv, Controls
<1>4. /\ FrameBlocks[current] \in Nat \ {0} /\ block \in BlocksOf(encoders[current])
      /\ block \in Nat /\ stamp = Stamp(block) /\ stamp \in Int
      /\ FirstCapture <= block /\ block < captured
  <2>1. /\ FrameBlocks[current] \in Nat \ {0} /\ block \in BlocksOf(encoders[current])
        /\ block \in Nat /\ stamp = Stamp(block)
    BY <1>3, FrameIs
  <2> QED BY <1>1, <1>3, <2>1, StampType DEF PacketInv, BlocksTrue
<1>5. payload = [of |-> current, block |-> block, len |-> len] /\ payload \in Encoded
  BY <1>3, <1>4 DEF Payload, Encoded
<1>6. /\ encoders \in [Encoders -> EncoderRecord] /\ EncoderTrue(encoders[current], captured)
  BY <1>3 DEF EncodersTrue
<1>7. /\ encoders'[current] = After(encoders[current], FrameBlocks[current])
      /\ \A e \in Encoders \ {current} : encoders'[e] = encoders[e]
  BY <1>2, <1>3, <1>6 DEF Encodes
<1>8. NoneAdded
  BY <1>4, <1>7, ReadAddsNone
<1>9. \A x \in BlocksOf(encoders'[current]) : block < x
  BY <1>3, <1>4, <1>6, <1>7, AfterBlocks
<1>10. /\ fragmentation \in [0 .. 2 -> Fragment] /\ fragmentation[0].diff = 0
       /\ last_fec_timestamp \in Int /\ fragmentation[0] \in Fragment /\ fragmentation[1] \in Fragment
  BY DEF PacketInv, RedTypes
<1>11. /\ first \in Fragment /\ first.len = len /\ first.pl = current /\ first.diff = 0
  <2>1. first = [len |-> len, pl |-> current, diff |-> fragmentation[0].diff]
    BY <1>10, FragmentWith DEF FirstFragment
  <2> HIDE DEF first
  <2> QED BY <1>3, <1>10, <2>1 DEF Fragment
<1>12. /\ second \in Fragment /\ second.len = fragmentation[1].len
       /\ ~is_first_red => /\ second.pl = fragmentation[0].pl
                           /\ second.diff = (stamp - last_fec_timestamp) % DiffWrap
  <2>2. (stamp - last_fec_timestamp) % DiffWrap \in Int
    <3>1. stamp \in Int
      BY <1>4
    <3> HIDE DEF stamp
    <3> QED BY <1>3, <1>10, <3>1
  <2>3. Redundancy(stamp) = [len |-> fragmentation[1].len, pl |-> fragmentation[0].pl,
                             diff |-> (stamp - last_fec_timestamp) % DiffWrap]
    <3> DEFINE d == (stamp - last_fec_timestamp) % DiffWrap
    <3>1. Redundancy(stamp) = [fragmentation[1] EXCEPT !.pl = fragmentation[0].pl, !.diff = d]
      BY Zenon DEF Redundancy
    <3> HIDE DEF d, stamp
    <3>2. Redundancy(stamp) = [len |-> fragmentation[1].len, pl |-> fragmentation[0].pl, diff |-> d]
      BY <1>10, <3>1, FragmentWith, ZenonT(60)
    <3> QED BY <3>2 DEF d
  <2> HIDE DEF stamp
  <2> QED BY <1>10, <2>2, <2>3 DEF Fragment
<1> HIDE DEF payload, stamp, second, first, block
<1>13. BlocksTrue'
  BY <1>1, <1>8, BlocksStill DEF PacketInv
<1>14. PacketTrue'
  <2>1. (stamp - stamp) % DiffWrap = 0
    <3>1. stamp - stamp = 0
      BY <1>4
    <3>2. 0 % DiffWrap = 0
      BY <1>3
    <3> QED BY <3>1, <3>2
  <2>2. payload # NoPayload /\ payload.block = block /\ payload.of = current /\ payload.len = len
    BY <1>4, <1>5 DEF NoPayload
  <2>3. ASSUME NEW item, item = InPacket(first, payload) \/
                         item = InPacket([len |-> len, pl |-> current, diff |-> 0], payload)
        PROVE  PartTrue(stamp, item) /\ item.data = payload
    <3>1. /\ item.data = payload /\ item.len = len /\ item.pl = current /\ item.diff = 0
      BY <1>11, <2>3 DEF InPacket
    <3> QED BY <1>4, <2>1, <2>2, <3>1 DEF PartTrue
  <2>4. CASE packet' = packet
    BY <2>4 DEF PacketInv, PacketTrue, PartTrue, Stamp
  <2>5. CASE packet' = [stamp |-> stamp, doubtful |-> FALSE,
                        parts |-> <<InPacket([len |-> len, pl |-> current, diff |-> 0], payload)>>]
    <3> DEFINE item == InPacket([len |-> len, pl |-> current, diff |-> 0], payload)
    <3>1. PartTrue(stamp, item) /\ item.data = payload
      BY <2>3
    <3> HIDE DEF item
    <3>2. packet'.stamp = stamp /\ packet'.parts = <<item>>
      BY <2>5 DEF item
    <3>3. packet'.parts[1] = item /\ DOMAIN packet'.parts = {1} /\ Len(packet'.parts) = 1
      BY <3>2
    <3>4. \A k \in DOMAIN packet'.parts : PartTrue(packet'.stamp, packet'.parts[k])
      BY <3>1, <3>2, <3>3
    <3>5. packet'.stamp = Stamp(packet'.parts[1].data.block)
      BY <1>4, <2>2, <3>1, <3>2, <3>3
    <3>6. \A k \in 2 .. Len(packet'.parts) : FALSE
      BY <3>3
    <3> QED BY <3>4, <3>5, <3>6 DEF PacketTrue, PartTrue, Stamp
  <2>6. CASE ~is_first_red /\ packet' =
               [stamp |-> stamp, doubtful |-> FALSE,
                parts |-> <<InPacket(first, payload), InPacket(second, red_buffer)>>]
    <3> DEFINE item == InPacket(first, payload)
               other == InPacket(second, red_buffer)
    <3>1. PartTrue(stamp, item) /\ item.data = payload
      BY <2>3
    <3>2. /\ other.len = second.len /\ other.pl = second.pl /\ other.diff = second.diff
          /\ other.data = red_buffer
      BY DEF InPacket
    <3>3. PartTrue(stamp, other) /\ (other.len > 0 => other.data.block <= block)
      <4>1. CASE ~(other.len > 0)
        <5>1. other.len = 0
          BY <1>12, <3>2, <4>1 DEF Fragment
        <5> QED BY <4>1, <5>1 DEF PartTrue
      <4>2. CASE other.len > 0
        <5>1. /\ Waits(fragmentation[0].pl) /\ red_buffer.len = fragmentation[1].len
              /\ Precedes(red_buffer.block, current)
          BY <1>1, <1>12, <2>6, <3>2, <4>2 DEF PacketInv, RedundancyTrue
        <5>2. red_buffer.block \in Nat /\ red_buffer # NoPayload
          BY <5>1 DEF Waits, Encoded, NoPayload
        <5>3. red_buffer.block < block
          BY <1>4, <5>1 DEF Precedes
        <5>4. /\ other.pl = other.data.of /\ other.len = other.data.len
              /\ other.diff = (stamp - Stamp(other.data.block)) % DiffWrap
          BY <1>12, <2>6, <3>2, <5>1 DEF Waits
        <5> QED BY <1>4, <3>2, <5>2, <5>3, <5>4 DEF PartTrue
      <4> QED BY <4>1, <4>2
    <3> HIDE DEF item, other
    <3>4. packet'.stamp = stamp /\ packet'.parts = <<item, other>>
      BY <2>6 DEF item, other
    <3>5. packet'.parts[1] = item /\ packet'.parts[2] = other /\ DOMAIN packet'.parts = {1, 2}
          /\ Len(packet'.parts) = 2
      BY <3>4
    <3>6. \A k \in DOMAIN packet'.parts : PartTrue(packet'.stamp, packet'.parts[k])
      BY <3>1, <3>3, <3>4, <3>5
    <3>7. packet'.stamp = Stamp(packet'.parts[1].data.block)
      BY <1>4, <2>2, <3>1, <3>4, <3>5
    <3>8. \A k \in 2 .. Len(packet'.parts) :
            packet'.parts[k].len > 0 => packet'.parts[k].data.block <= packet'.parts[k - 1].data.block
      BY <2>2, <3>1, <3>3, <3>5
    <3> QED BY <3>6, <3>7, <3>8 DEF PacketTrue, PartTrue, Stamp
  <2> QED BY <1>2, <2>4, <2>5, <2>6
<1>15. ~(fragmentation[2].len > 0)
  BY <1>1 DEF PacketInv, KeptTrue
<1>16. fragmentation'[2] = fragmentation[2]
  BY <1>2, <1>10
<1>17. KeptTrue'
  BY <1>15, <1>16 DEF KeptTrue
<1>18. OutTrue'
  BY <1>1, <1>3, <1>7 DEF PacketInv, OutTrue, Precedes, BlocksOf
<1>19. CASE UNCHANGED <<fragmentation, threeFailed, red_buffer, last_fec_timestamp, is_first_red>>
  <2>1. RedTypes'
    BY <1>1, <1>19 DEF PacketInv, RedTypes
  <2>2. RedundancyTrue'
    <3>1. SUFFICES ASSUME ~secondary, ~is_first_red, fragmentation[1].len > 0
                   PROVE  /\ Waits(fragmentation[0].pl)' /\ (red_buffer.len = fragmentation[1].len)'
                          /\ Precedes(red_buffer.block, current)'
      BY <1>1, <1>19 DEF RedundancyTrue
    <3>2. /\ Waits(fragmentation[0].pl) /\ red_buffer.len = fragmentation[1].len
          /\ Precedes(red_buffer.block, current)
      BY <3>1 DEF PacketInv, RedundancyTrue
    <3>3. \A x \in BlocksOf(encoders'[current]) : red_buffer.block < x
      BY <1>3, <1>8, <3>2, StillPrecedes
    <3> QED BY <1>1, <1>19, <3>2, <3>3 DEF Waits, Precedes, Stamp, BlocksOf
  <2> QED BY <1>13, <1>14, <1>17, <1>18, <2>1, <2>2 DEF PacketInv
<1>20. CASE /\ fragmentation' = [fragmentation EXCEPT ![0] = first, ![1] = [second EXCEPT !.len = len]]
            /\ red_buffer' = payload /\ last_fec_timestamp' = stamp
            /\ threeFailed' = threeFailed /\ is_first_red' = FALSE
  <2>1. [second EXCEPT !.len = len] \in Fragment /\ [second EXCEPT !.len = len].len = len
    <3>2. [second EXCEPT !.len = len] = [len |-> len, pl |-> second.pl, diff |-> second.diff]
      BY <1>12, FragmentWith
    <3> QED BY <1>3, <1>12, <3>2 DEF Fragment
  <2>2. /\ fragmentation' \in [0 .. 2 -> Fragment] /\ fragmentation'[0] = first
        /\ fragmentation'[1].len = len
    BY <1>10, <1>11, <1>20, <2>1
  <2>3. RedTypes'
    BY <1>1, <1>3, <1>4, <1>5, <1>11, <1>20, <2>2 DEF PacketInv, RedTypes
  <2>4. Waits(current)'
    BY <1>1, <1>4, <1>5, <1>20 DEF Waits, Stamp
  <2>5. RedundancyTrue'
    <3>1. red_buffer'.block = block /\ red_buffer'.len = len
      BY <1>5, <1>20
    <3>2. Precedes(red_buffer.block, current)'
      BY <1>1, <1>9, <3>1 DEF Precedes, BlocksOf
    <3>3. Waits(fragmentation[0].pl)'
      BY <1>1, <1>11, <2>2, <2>4 DEF Waits, Stamp
    <3> QED BY <2>2, <3>1, <3>2, <3>3 DEF RedundancyTrue
  <2> QED BY <1>13, <1>14, <1>17, <1>18, <2>3, <2>5 DEF PacketInv
<1> QED BY <1>2, <1>19, <1>20

\* A frame that is not sent: blocks are read and what is kept stays.
LEMMA SilenceKeeps ==
  ASSUME SenderInv, SenderInv', PacketInv, process # "idle", process' = "idle",
         UNCHANGED <<captured, current, secondary, vad_enabled, fec_enabled, sentSecondary,
                     packet, fragmentation, threeFailed, red_buffer, last_fec_timestamp>>,
         is_first_red' = is_first_red \/ is_first_red' = TRUE,
         NoneAdded, process = "dual" \/ process = "single"
  PROVE  PacketInv'
<1>1. BlocksTrue'
  BY BlocksStill DEF PacketInv
<1>2. RedTypes'
  BY DEF PacketInv, RedTypes
<1>3. RedundancyTrue'
  <2>1. SUFFICES ASSUME ~secondary, ~is_first_red, fragmentation[1].len > 0
                 PROVE  /\ Waits(fragmentation[0].pl)' /\ (red_buffer.len = fragmentation[1].len)'
                        /\ Precedes(red_buffer.block, current)'
    BY DEF RedundancyTrue
  <2>2. /\ Waits(fragmentation[0].pl) /\ red_buffer.len = fragmentation[1].len
        /\ Precedes(red_buffer.block, current)
    BY <2>1 DEF PacketInv, RedundancyTrue
  <2>3. current \in Encoders
    BY <2>1, EncoderTypes DEF PacketInv, RedTypes, SenderInv, Controls
  <2>4. \A x \in BlocksOf(encoders'[current]) : red_buffer.block < x
    BY <2>2, <2>3, StillPrecedes
  <2> QED BY <2>2, <2>4 DEF Waits, Precedes, Stamp, BlocksOf
<1>4. KeptTrue'
  <2>1. SUFFICES ASSUME fragmentation[2].len > 0 PROVE KeptTrue'
    BY DEF KeptTrue
  <2>2. /\ secondary /\ Waits(Secondary) /\ Precedes(red_buffer.block, Secondary)
        /\ sentSecondary < red_buffer.block
        /\ threeFailed \/ red_buffer.len = fragmentation[2].len
    BY <2>1 DEF PacketInv, KeptTrue
  <2>3. \A x \in BlocksOf(encoders'[Secondary]) : red_buffer.block < x
    BY <2>2, EncoderTypes, StillPrecedes
  <2> QED BY <2>2, <2>3 DEF KeptTrue, Waits, Precedes, Stamp, BlocksOf
<1>5. OutTrue'
  <2>1. \A x \in BlocksOf(encoders'[Secondary]) : sentSecondary < x
    BY EncoderTypes, StillPrecedes DEF PacketInv, OutTrue
  <2> QED BY <2>1 DEF OutTrue, Precedes, BlocksOf
<1>6. PacketTrue'
  BY DEF PacketInv, PacketTrue, PartTrue, Stamp
<1> QED BY <1>1, <1>2, <1>3, <1>4, <1>5, <1>6 DEF PacketInv

LEMMA ProcessSingleStreamKeeps ==
  ASSUME SenderInv, SenderInv', PacketInv, ProcessSingleStream
  PROVE  PacketInv'
<1>1. /\ process = "single" /\ process' = "idle"
      /\ UNCHANGED <<captured, current, secondary, vad_enabled, fec_enabled, sentSecondary>>
      /\ \/ /\ current # NoCodec /\ HasFrameToEncode(current)
            /\ (\E len \in Lengths : Speech(len)) \/ ComfortNoise \/ Nothing
         \/ UNCHANGED <<encoders, redVars, is_first_red, packet>>
  BY Zenon DEF ProcessSingleStream, codecVars
<1>2. CASE UNCHANGED <<encoders, redVars, is_first_red, packet>>
  BY <1>1, <1>2, LeftAloneAddsNone, SilenceKeeps DEF redVars
<1>3. CASE /\ current # NoCodec /\ HasFrameToEncode(current)
           /\ \E len \in Lengths : Speech(len)
  BY <1>3, SpeechKeeps
<1>4. CASE /\ current # NoCodec /\ HasFrameToEncode(current)
           /\ ComfortNoise \/ Nothing
  <2>1. /\ UNCHANGED <<packet, fragmentation, threeFailed, red_buffer, last_fec_timestamp>>
        /\ is_first_red' = is_first_red \/ is_first_red' = TRUE
        /\ \/ Encodes(current, FirstVadBlocks(current))
           \/ \E n \in 0 .. FrameBlocks[current] : Encodes(current, n)
    BY <1>4, Zenon DEF ComfortNoise, Nothing, redVars
  <2>2. current \in Encoders /\ FrameBlocks[current] \in Nat
    BY <1>4, EncoderTypes DEF SenderInv, Controls
  <2>3. FirstVadBlocks(current) \in Nat
    BY <2>2 DEF FirstVadBlocks
  <2>4. PICK n \in Nat : Encodes(current, n)
    BY <2>1, <2>2, <2>3
  <2>5. encoders \in [Encoders -> EncoderRecord]
    BY DEF SenderInv, EncodersTrue
  <2>6. \A e \in Encoders : \/ encoders'[e] = encoders[e]
                            \/ \E m \in Nat : encoders'[e] = After(encoders[e], m)
    BY <2>2, <2>4, <2>5 DEF Encodes
  <2>7. NoneAdded
    BY <2>6, ReadAddsNone
  <2> QED BY <1>1, <2>1, <2>7, SilenceKeeps
<1> QED BY <1>1, <1>2, <1>3, <1>4

-----------------------------------------------------------------------------
(* The dual stream *)

\* What a step of the dual stream finds
LEMMA DualFacts ==
  ASSUME SenderInv, PacketInv, WithinHalfWrap, process = "dual", current # NoCodec, secondary
  PROVE  /\ current \in SendCodecs /\ current \in Encoders /\ Secondary \in Encoders
         /\ current # Secondary /\ current # "previous" /\ Secondary # "previous"
         /\ captured \in Nat /\ encoders \in [Encoders -> EncoderRecord]
         /\ \A e \in Encoders : EncoderTrue(encoders[e], captured) /\ FrameBlocks[e] \in Nat \ {0}
         /\ "previous" \notin ToSend => ~(fragmentation[2].len > 0)
         /\ Secondary \in ToSend =>
              /\ HasFrameToEncode(Secondary)
              /\ EarliestTimestamp(Secondary) = Stamp(BlockOf(Secondary))
              /\ EarliestTimestamp(Secondary) \in Int
              /\ BlockOf(Secondary) = encoders[Secondary].audio[1]
              /\ BlockOf(Secondary) \in BlocksOf(encoders[Secondary])
              /\ BlockOf(Secondary) \in Nat
              /\ FirstCapture <= BlockOf(Secondary) /\ BlockOf(Secondary) < captured
              /\ sentSecondary < BlockOf(Secondary)
         /\ "previous" \in ToSend =>
              /\ fragmentation[2].len > 0 /\ Waits(Secondary)
              /\ Precedes(red_buffer.block, Secondary) /\ sentSecondary < red_buffer.block
              /\ threeFailed \/ red_buffer.len = fragmentation[2].len
<1>1. /\ current \in SendCodecs /\ current \in Encoders /\ Secondary \in Encoders
      /\ current # Secondary /\ current # "previous" /\ Secondary # "previous"
      /\ captured \in Nat /\ encoders \in [Encoders -> EncoderRecord]
  BY SenderAssumption DEF SenderInv, Controls, EncodersTrue, Encoders
<1>2. \A e \in Encoders : EncoderTrue(encoders[e], captured) /\ FrameBlocks[e] \in Nat \ {0}
  BY SenderAssumption DEF SenderInv, EncodersTrue
<1>3. "previous" \in ToSend <=> fragmentation[2].len > 0
  BY PartsAre
<1>4. ASSUME Secondary \in ToSend
      PROVE  /\ HasFrameToEncode(Secondary)
             /\ EarliestTimestamp(Secondary) = Stamp(BlockOf(Secondary))
             /\ EarliestTimestamp(Secondary) \in Int
             /\ BlockOf(Secondary) = encoders[Secondary].audio[1]
             /\ BlockOf(Secondary) \in BlocksOf(encoders[Secondary])
             /\ BlockOf(Secondary) \in Nat
             /\ FirstCapture <= BlockOf(Secondary) /\ BlockOf(Secondary) < captured
             /\ sentSecondary < BlockOf(Secondary)
  <2>1. HasFrameToEncode(Secondary)
    BY <1>1, <1>4 DEF ToSend
  <2>2. BlockOf(Secondary) = encoders[Secondary].audio[1]
    BY <1>1 DEF BlockOf
  <2>3. /\ BlockOf(Secondary) \in BlocksOf(encoders[Secondary]) /\ BlockOf(Secondary) \in Nat
        /\ EarliestTimestamp(Secondary) = Stamp(BlockOf(Secondary))
    BY <1>1, <2>1, <2>2, FrameIs
  <2>4. FirstCapture <= BlockOf(Secondary) /\ BlockOf(Secondary) < captured
    BY <1>4, PartsAre
  <2>5. sentSecondary < BlockOf(Secondary)
    BY <2>3 DEF PacketInv, OutTrue, Precedes
  <2> QED BY <2>1, <2>2, <2>3, <2>4, <2>5, StampType
<1>5. "previous" \in ToSend =>
              /\ fragmentation[2].len > 0 /\ Waits(Secondary)
              /\ Precedes(red_buffer.block, Secondary) /\ sentSecondary < red_buffer.block
              /\ threeFailed \/ red_buffer.len = fragmentation[2].len
  BY <1>3 DEF PacketInv, KeptTrue
<1> QED BY <1>1, <1>2, <1>3, <1>4, <1>5

\* A secondary payload is kept for the next packet.
LEMMA KeepKeeps ==
  ASSUME SenderInv, SenderInv', PacketInv, WithinHalfWrap, process = "dual",
         current # NoCodec, secondary, ToSend = {Secondary}, NEW len \in Lengths, Keep(len),
         UNCHANGED <<captured, codecVars, is_first_red, sentSecondary>>
  PROVE  PacketInv'
<1> DEFINE block == encoders[Secondary].audio[1]
           payload == Payload(Secondary, len)
<1>1. /\ red_buffer' = payload /\ last_fec_timestamp' = EarliestTimestamp(Secondary)
      /\ fragmentation' = [fragmentation EXCEPT ![2].len = len]
      /\ encoders' = [encoders EXCEPT ![Secondary] = After(@, FrameBlocks[Secondary])]
      /\ process' = "idle" /\ UNCHANGED <<threeFailed, packet, captured, current, secondary,
                                          vad_enabled, fec_enabled, is_first_red, sentSecondary>>
  BY DEF Keep, Encodes, codecVars
<1>2. /\ Secondary \in Encoders /\ captured \in Nat /\ encoders \in [Encoders -> EncoderRecord]
      /\ \A e \in Encoders : EncoderTrue(encoders[e], captured) /\ FrameBlocks[e] \in Nat \ {0}
      /\ EarliestTimestamp(Secondary) = Stamp(block) /\ EarliestTimestamp(Secondary) \in Int
      /\ block \in BlocksOf(encoders[Secondary]) /\ block \in Nat
      /\ FirstCapture <= block /\ block < captured /\ sentSecondary < block
  BY DualFacts
<1>3. len \in Nat /\ len > 0
  BY SenderAssumption
<1>4. payload = [of |-> Secondary, block |-> block, len |-> len] /\ payload \in Encoded
  BY <1>2, <1>3 DEF Payload, Encoded
<1> HIDE DEF payload, block
<1>5. /\ encoders'[Secondary] = After(encoders[Secondary], FrameBlocks[Secondary])
      /\ \A e \in Encoders \ {Secondary} : encoders'[e] = encoders[e]
  BY <1>1, <1>2
<1>6. NoneAdded
  BY <1>2, <1>5, ReadAddsNone
<1>7. \A x \in BlocksOf(encoders'[Secondary]) : block < x
  BY <1>2, <1>5, AfterBlocks DEF block
<1>8. fragmentation \in [0 .. 2 -> Fragment] /\ fragmentation[0].diff = 0
  BY DEF PacketInv, RedTypes
<1>9. /\ fragmentation' \in [0 .. 2 -> Fragment] /\ fragmentation'[0].diff = 0
      /\ fragmentation'[2].len = len
  <2> DEFINE third == [fragmentation[2] EXCEPT !.len = len]
  <2>1. fragmentation' = [fragmentation EXCEPT ![2] = third]
    BY <1>1
  <2>2. third = [len |-> len, pl |-> fragmentation[2].pl, diff |-> fragmentation[2].diff]
    <3>1. fragmentation[2] \in Fragment
      BY <1>8
    <3> QED BY <3>1, FragmentWith, Zenon
  <2>3. third \in Fragment /\ third.len = len
    BY <1>3, <1>8, <2>2 DEF Fragment
  <2> HIDE DEF third
  <2> QED BY <1>8, <2>1, <2>3
<1>10. BlocksTrue'
  BY <1>1, <1>6, BlocksStill DEF PacketInv
<1>11. RedTypes'
  BY <1>1, <1>2, <1>4, <1>9 DEF PacketInv, RedTypes
<1>12. RedundancyTrue'
  BY <1>1 DEF RedundancyTrue
<1>13. KeptTrue'
  <2>1. red_buffer'.block = block /\ red_buffer'.of = Secondary /\ red_buffer'.len = len
        /\ red_buffer' \in Encoded
    BY <1>1, <1>4
  <2>2. Waits(Secondary)'
    BY <1>1, <1>2, <2>1 DEF Waits, Stamp
  <2>3. Precedes(red_buffer.block, Secondary)'
    BY <1>7, <2>1 DEF Precedes, BlocksOf
  <2> QED BY <1>1, <1>2, <1>9, <2>1, <2>2, <2>3 DEF KeptTrue
<1>14. OutTrue'
  <2>1. \A x \in BlocksOf(encoders'[Secondary]) : sentSecondary < x
    BY <1>2, <1>6, StillPrecedes DEF PacketInv, OutTrue
  <2> QED BY <1>1, <2>1 DEF OutTrue, Precedes, BlocksOf
<1>15. PacketTrue'
  BY <1>1 DEF PacketInv, PacketTrue, PartTrue, Stamp
<1> QED BY <1>10, <1>11, <1>12, <1>13, <1>14, <1>15 DEF PacketInv

\* An encoder that fails leaves the payload kept spoilt or in doubt.
LEMMA FailKeeps ==
  ASSUME SenderInv, SenderInv', PacketInv, WithinHalfWrap, process = "dual",
         current # NoCodec, secondary, NEW len \in [ToSend \cap Encoders -> Lengths],
         Fail(ToSend, len),
         UNCHANGED <<captured, codecVars, is_first_red, sentSecondary>>
  PROVE  PacketInv'
<1>1. PICK e \in ToSend \cap Encoders :
        LET done == IF e = current THEN ToSend \ Encoders ELSE ToSend \ {e}
            stamp == PartStamp(CHOOSE p \in ToSend : Index(ToSend, p) = 0)
        IN  /\ \E read \in 0 .. FrameBlocks[e] :
                 encoders' = [x \in Encoders |->
                                IF x = e THEN After(encoders[x], read)
                                ELSE IF x \in done THEN After(encoders[x], FrameBlocks[x])
                                ELSE encoders[x]]
            /\ IF ToSend = {Secondary}
               THEN /\ red_buffer' = NoPayload
                    /\ last_fec_timestamp' = EarliestTimestamp(Secondary)
                    /\ UNCHANGED fragmentation
               ELSE /\ fragmentation' = Written(ToSend, done, len, stamp)
                    /\ UNCHANGED <<red_buffer, last_fec_timestamp>>
            /\ threeFailed' = (threeFailed \/ Cardinality(ToSend) = 3)
            /\ process' = "idle" /\ UNCHANGED packet
  BY Zenon DEF Fail
<1> DEFINE done == IF e = current THEN ToSend \ Encoders ELSE ToSend \ {e}
           first == CHOOSE p \in ToSend : Index(ToSend, p) = 0
           stamp == PartStamp(first)
<1>2. /\ Secondary \in Encoders /\ captured \in Nat /\ encoders \in [Encoders -> EncoderRecord]
      /\ \A x \in Encoders : EncoderTrue(encoders[x], captured) /\ FrameBlocks[x] \in Nat \ {0}
      /\ "previous" \notin ToSend => ~(fragmentation[2].len > 0)
      /\ Secondary # "previous"
      /\ Secondary \in ToSend => EarliestTimestamp(Secondary) \in Int
      /\ "previous" \in ToSend =>
              /\ fragmentation[2].len > 0 /\ Waits(Secondary)
              /\ Precedes(red_buffer.block, Secondary) /\ sentSecondary < red_buffer.block
              /\ threeFailed \/ red_buffer.len = fragmentation[2].len
  BY DualFacts
<1>3. /\ UNCHANGED <<captured, current, secondary, vad_enabled, fec_enabled, is_first_red,
                     sentSecondary, packet>>
      /\ process' = "idle" /\ threeFailed' = (threeFailed \/ Cardinality(ToSend) = 3)
  BY <1>1 DEF codecVars
<1>4. NoneAdded
  <2>1. PICK read \in 0 .. FrameBlocks[e] :
          encoders' = [x \in Encoders |->
                         IF x = e THEN After(encoders[x], read)
                         ELSE IF x \in done THEN After(encoders[x], FrameBlocks[x])
                         ELSE encoders[x]]
    BY <1>1
  <2>2. read \in Nat
    BY <1>2, <2>1
  <2> HIDE DEF done
  <2>3. \A x \in Encoders : \/ encoders'[x] = encoders[x]
                            \/ \E n \in Nat : encoders'[x] = After(encoders[x], n)
    BY <1>2, <2>1, <2>2
  <2> QED BY <2>3, ReadAddsNone
<1>5. BlocksTrue'
  BY <1>3, <1>4, BlocksStill DEF PacketInv
<1>6. RedundancyTrue'
  BY <1>3 DEF RedundancyTrue
<1>7. OutTrue'
  <2>1. \A x \in BlocksOf(encoders'[Secondary]) : sentSecondary < x
    BY <1>2, <1>4, StillPrecedes DEF PacketInv, OutTrue
  <2> QED BY <1>3, <2>1 DEF OutTrue, Precedes, BlocksOf
<1>8. PacketTrue'
  BY <1>3 DEF PacketInv, PacketTrue, PartTrue, Stamp
<1>9. CASE ToSend = {Secondary}
  <2>1. /\ red_buffer' = NoPayload /\ last_fec_timestamp' = EarliestTimestamp(Secondary)
        /\ UNCHANGED fragmentation
    BY <1>1, <1>9
  <2>2. ~(fragmentation[2].len > 0) /\ EarliestTimestamp(Secondary) \in Int
    BY <1>2, <1>9
  <2>3. KeptTrue'
    BY <2>1, <2>2 DEF KeptTrue
  <2>4. RedTypes'
    BY <1>3, <2>1, <2>2 DEF PacketInv, RedTypes
  <2> QED BY <1>5, <1>6, <1>7, <1>8, <2>3, <2>4 DEF PacketInv
<1>10. CASE ToSend # {Secondary}
  <2>1. /\ fragmentation' = Written(ToSend, done, len, stamp)
        /\ UNCHANGED <<red_buffer, last_fec_timestamp>>
    BY <1>1, <1>10
  <2>2. /\ ToSend \subseteq {current, Secondary, "previous"} /\ current \in SendCodecs
        /\ InOrder(ToSend) /\ \A p \in ToSend : PartStamp(p) = Stamp(BlockOf(p))
    BY PartsAre
  <2>3. /\ Cardinality(ToSend) \in 1 .. 3
        /\ Cardinality(ToSend) = 3 => "previous" \in ToSend
        /\ \A i \in 0 .. Cardinality(ToSend) - 1 : \E p \in ToSend : Index(ToSend, p) = i
        /\ \A p, q \in ToSend : Index(ToSend, p) = Index(ToSend, q) => p = q
    BY <2>2, Places
  <2>4. first \in ToSend /\ Index(ToSend, first) = 0
    BY <2>3
  <2> HIDE DEF first
  <2>5. stamp \in Int /\ \A p \in done : Index(ToSend, p) = 0 => stamp = PartStamp(p)
    <3>1. BlockOf(first) \in Nat
      BY <2>2, <2>4 DEF InOrder
    <3>2. stamp = Stamp(BlockOf(first))
      BY <2>2, <2>4
    <3> QED BY <2>3, <2>4, <3>1, <3>2, StampType
  <2>6. done \subseteq ToSend
    OBVIOUS
  <2> HIDE DEF done, stamp
  <2>7. /\ fragmentation' \in [0 .. 2 -> Fragment] /\ fragmentation'[0].diff = 0
        /\ Cardinality(ToSend) # 3 => fragmentation'[2] = fragmentation[2]
    BY <2>1, <2>4, <2>5, <2>6, WrittenTypes
  <2>8. RedTypes'
    BY <1>3, <2>1, <2>7 DEF PacketInv, RedTypes
  <2>9. KeptTrue'
    <3>1. SUFFICES ASSUME fragmentation'[2].len > 0 PROVE KeptTrue'
      BY DEF KeptTrue
    <3>2. "previous" \in ToSend
      BY <1>2, <2>3, <2>7, <3>1
    <3>3. \A x \in BlocksOf(encoders'[Secondary]) : red_buffer.block < x
      BY <1>2, <1>4, <3>2, StillPrecedes
    <3>4. Waits(Secondary)' /\ Precedes(red_buffer.block, Secondary)'
      BY <1>2, <1>3, <2>1, <3>2, <3>3 DEF Waits, Precedes, Stamp, BlocksOf
    <3>5. \/ threeFailed'
          \/ red_buffer.len = fragmentation'[2].len
      BY <1>2, <1>3, <2>7, <3>2
    <3> QED BY <1>2, <1>3, <2>1, <3>2, <3>4, <3>5 DEF KeptTrue
  <2> QED BY <1>5, <1>6, <1>7, <1>8, <2>8, <2>9 DEF PacketInv
<1> QED BY <1>9, <1>10

\* A part as the packet made has it: what it says is true, and it comes after
\* what was sent and before what is next.
LEMMA PartIs ==
  ASSUME SenderInv, PacketInv, WithinHalfWrap, process = "dual", current # NoCodec, secondary,
         NEW len \in [ToSend \cap Encoders -> Lengths], NEW p \in ToSend
  PROVE  /\ Content(p, len).of = MakerOf(p) /\ Content(p, len).block = BlockOf(p)
         /\ Content(p, len) # NoPayload /\ BlockOf(p) \in Nat
         /\ ~threeFailed => Content(p, len).len = LengthOf(p, len)
         /\ MakerOf(p) = Secondary => /\ p = Secondary \/ p = "previous"
                                      /\ sentSecondary < BlockOf(p) /\ BlockOf(p) < captured
<1>1. /\ current \in Encoders /\ Secondary \in Encoders
      /\ current # Secondary /\ current # "previous" /\ Secondary # "previous"
      /\ Secondary \in ToSend => sentSecondary < BlockOf(Secondary) /\ BlockOf(Secondary) < captured
      /\ "previous" \in ToSend =>
              /\ Waits(Secondary) /\ sentSecondary < red_buffer.block
              /\ threeFailed \/ red_buffer.len = fragmentation[2].len
  BY DualFacts
<1>2. /\ p = current \/ p = Secondary \/ p = "previous"
      /\ BlockOf(p) \in Nat
  BY PartsAre DEF InOrder
<1>3. CASE p = "previous"
  <2>1. Content(p, len) = red_buffer /\ MakerOf(p) = Secondary /\ BlockOf(p) = red_buffer.block
        /\ LengthOf(p, len) = fragmentation[2].len
    BY <1>3 DEF Content, MakerOf, BlockOf, LengthOf
  <2>2. red_buffer # NoPayload
    BY <1>1, <1>3 DEF Waits, Encoded, NoPayload
  <2> QED BY <1>1, <1>2, <1>3, <2>1, <2>2 DEF Waits
<1>4. CASE p # "previous"
  <2>1. Content(p, len) = [of |-> p, block |-> BlockOf(p), len |-> len[p]]
    BY <1>4 DEF Content, Payload, BlockOf
  <2>2. MakerOf(p) = p /\ LengthOf(p, len) = len[p]
    BY <1>4 DEF MakerOf, LengthOf
  <2>3. Content(p, len) # NoPayload
    BY <1>2, <2>1 DEF NoPayload
  <2> QED BY <1>1, <1>2, <1>4, <2>1, <2>2, <2>3
<1> QED BY <1>3, <1>4

\* The packet of all there is
LEMMA CombineKeeps ==
  ASSUME SenderInv, SenderInv', PacketInv, WithinHalfWrap, process = "dual",
         current # NoCodec, secondary, ToSend # {},
         NEW len \in [ToSend \cap Encoders -> Lengths], Combine(ToSend, len),
         UNCHANGED <<captured, codecVars, is_first_red, sentSecondary>>
  PROVE  PacketInv'
<1> DEFINE made == Made(ToSend, len)
           n == Cardinality(ToSend)
<1>1. /\ encoders' = [e \in Encoders |-> IF e \in ToSend THEN After(encoders[e], FrameBlocks[e])
                                         ELSE encoders[e]]
      /\ fragmentation' = Written(ToSend, ToSend, len, made.stamp)
      /\ packet' = made /\ process' = "send"
      /\ UNCHANGED <<red_buffer, last_fec_timestamp, threeFailed, captured, current, secondary,
                     vad_enabled, fec_enabled, is_first_red, sentSecondary>>
  BY DEF Combine, codecVars
<1>2. /\ made.stamp \in Int /\ made.doubtful = threeFailed
      /\ \A p \in ToSend : Index(ToSend, p) = 0 => made.stamp = PartStamp(p)
      /\ made # NoPacket
      /\ Len(made.parts) = n /\ DOMAIN made.parts = 1 .. n
      /\ \A k \in 1 .. n : \E p \in ToSend :
           /\ Index(ToSend, p) = k - 1
           /\ made.parts[k] = [len |-> LengthOf(p, len), pl |-> MakerOf(p),
                               diff |-> (made.stamp - PartStamp(p)) % DiffWrap,
                               data |-> Content(p, len)]
  BY MadeIs
<1>3. /\ Secondary \in Encoders /\ captured \in Nat /\ encoders \in [Encoders -> EncoderRecord]
      /\ Secondary # "previous"
      /\ \A x \in Encoders : EncoderTrue(encoders[x], captured) /\ FrameBlocks[x] \in Nat \ {0}
      /\ "previous" \notin ToSend => ~(fragmentation[2].len > 0)
      /\ Secondary \in ToSend => BlockOf(Secondary) = encoders[Secondary].audio[1]
      /\ "previous" \in ToSend =>
              /\ fragmentation[2].len > 0 /\ Waits(Secondary)
              /\ Precedes(red_buffer.block, Secondary) /\ sentSecondary < red_buffer.block
              /\ threeFailed \/ red_buffer.len = fragmentation[2].len
  BY DualFacts
<1>4. /\ ToSend \subseteq {current, Secondary, "previous"} /\ current \in SendCodecs
      /\ InOrder(ToSend) /\ \A p \in ToSend : PartStamp(p) = Stamp(BlockOf(p))
  BY PartsAre
<1>5. /\ n \in 1 .. 3 /\ (n = 3 => "previous" \in ToSend)
      /\ \A p, q \in ToSend : Index(ToSend, p) < Index(ToSend, q) => BlockOf(q) <= BlockOf(p)
  BY <1>4, Places
<1> HIDE DEF made
<1>6. /\ fragmentation' \in [0 .. 2 -> Fragment] /\ fragmentation'[0].diff = 0
      /\ n # 3 => fragmentation'[2] = fragmentation[2]
  <2>1. \A p \in ToSend : Index(ToSend, p) = 0 => made.stamp = PartStamp(p)
    BY <1>2
  <2>2. made.stamp \in Int /\ ToSend \subseteq ToSend
    BY <1>2
  <2> DEFINE stamp == made.stamp
             written == Written(ToSend, ToSend, len, stamp)
  <2> HIDE DEF stamp
  <2>3. stamp \in Int /\ \A p \in ToSend : Index(ToSend, p) = 0 => stamp = PartStamp(p)
    BY <2>1, <2>2 DEF stamp
  <2>4. /\ written \in [0 .. 2 -> Fragment] /\ written[0].diff = 0
        /\ Cardinality(ToSend) # 3 => written[2] = fragmentation[2]
    BY <2>2, <2>3, WrittenTypes
  <2>5. fragmentation' = written
    BY <1>1 DEF stamp
  <2> HIDE DEF written
  <2> QED BY <2>4, <2>5
<1> HIDE DEF n
<1>7. NoneAdded
  <2>1. \A x \in Encoders : \/ encoders'[x] = encoders[x]
                            \/ \E m \in Nat : encoders'[x] = After(encoders[x], m)
    BY <1>1, <1>3
  <2> QED BY <2>1, ReadAddsNone
<1>8. ASSUME NEW p \in {Secondary, "previous"}, p \in ToSend
      PROVE  \A x \in BlocksOf(encoders'[Secondary]) : BlockOf(p) < x
  <2>1. CASE p = Secondary
    <3>1. encoders'[Secondary] = After(encoders[Secondary], FrameBlocks[Secondary])
      BY <1>1, <1>3, <1>8, <2>1
    <3> QED BY <1>3, <1>8, <2>1, <3>1, AfterBlocks
  <2>2. CASE p = "previous"
    <3>1. BlockOf(p) = red_buffer.block
      BY <2>2 DEF BlockOf
    <3> QED BY <1>3, <1>7, <1>8, <2>2, <3>1, StillPrecedes
  <2> QED BY <1>8, <2>1, <2>2
<1>9. BlocksTrue'
  BY <1>1, <1>7, BlocksStill DEF PacketInv
<1>10. RedTypes'
  BY <1>1, <1>6 DEF PacketInv, RedTypes
<1>11. RedundancyTrue'
  BY <1>1 DEF RedundancyTrue
<1>12. KeptTrue'
  <2>1. SUFFICES ASSUME fragmentation'[2].len > 0 PROVE KeptTrue'
    BY DEF KeptTrue
  <2>2. "previous" \in ToSend
    BY <1>3, <1>5, <1>6, <2>1
  <2>3. \A x \in BlocksOf(encoders'[Secondary]) : red_buffer.block < x
    BY <1>3, <1>7, <2>2, StillPrecedes
  <2>4. Waits(Secondary)' /\ Precedes(red_buffer.block, Secondary)'
    BY <1>1, <1>3, <2>2, <2>3 DEF Waits, Precedes, Stamp, BlocksOf
  <2>5. \/ threeFailed' \/ Len(packet'.parts) = 3
        \/ red_buffer.len = fragmentation'[2].len
    BY <1>1, <1>2, <1>3, <1>6, <2>2
  <2> QED BY <1>1, <1>3, <2>2, <2>4, <2>5 DEF KeptTrue
<1>13. ASSUME NEW k \in 1 .. n
       PROVE  \E p \in ToSend :
                /\ Index(ToSend, p) = k - 1
                /\ packet'.parts[k].data = Content(p, len)
                /\ packet'.parts[k].len = LengthOf(p, len) /\ packet'.parts[k].pl = MakerOf(p)
                /\ packet'.parts[k].diff = (packet'.stamp - PartStamp(p)) % DiffWrap
  <2>1. PICK p \in ToSend :
           /\ Index(ToSend, p) = k - 1
           /\ made.parts[k] = [len |-> LengthOf(p, len), pl |-> MakerOf(p),
                               diff |-> (made.stamp - PartStamp(p)) % DiffWrap,
                               data |-> Content(p, len)]
    BY <1>2, <1>13
  <2> QED BY <1>1, <2>1
<1>14. packet' # NoPacket /\ Len(packet'.parts) = n /\ DOMAIN packet'.parts = 1 .. n
  BY <1>1, <1>2
<1>15. OutTrue'
  <2>1. \A x \in BlocksOf(encoders'[Secondary]) : sentSecondary < x
    BY <1>3, <1>7, StillPrecedes DEF PacketInv, OutTrue
  <2>2. ASSUME NEW k \in 1 .. n, packet'.parts[k].data.of = Secondary
        PROVE  /\ packet'.parts[k].data.block \in Nat
               /\ sentSecondary < packet'.parts[k].data.block
               /\ packet'.parts[k].data.block < captured
               /\ \A x \in BlocksOf(encoders'[Secondary]) : packet'.parts[k].data.block < x
    <3>1. PICK p \in ToSend : packet'.parts[k].data = Content(p, len)
      BY <1>13
    <3>2. /\ Content(p, len).of = MakerOf(p) /\ Content(p, len).block = BlockOf(p)
          /\ BlockOf(p) \in Nat
          /\ MakerOf(p) = Secondary => /\ p = Secondary \/ p = "previous"
                                       /\ sentSecondary < BlockOf(p) /\ BlockOf(p) < captured
      BY <3>1, PartIs
    <3>3. p \in {Secondary, "previous"} /\ sentSecondary < BlockOf(p) /\ BlockOf(p) < captured
      BY <2>2, <3>1, <3>2
    <3> QED BY <1>8, <3>1, <3>2, <3>3
  <2> QED BY <1>1, <1>5, <1>14, <2>1, <2>2 DEF OutTrue, Precedes, BlocksOf
<1>16. PacketTrue'
  <2>1. packet'.doubtful = threeFailed
    BY <1>1, <1>2
  <2>2. SUFFICES ASSUME ~threeFailed
                 PROVE  /\ packet'.stamp = Stamp(packet'.parts[1].data.block)
                        /\ \A k \in 1 .. n : PartTrue(packet'.stamp, packet'.parts[k])
                        /\ \A k \in 2 .. n :
                             packet'.parts[k].data.block <= packet'.parts[k - 1].data.block
    BY <1>14, <2>1 DEF PacketTrue, PartTrue, Stamp
  <2>3. ASSUME NEW k \in 1 .. n
        PROVE  \E p \in ToSend : /\ Index(ToSend, p) = k - 1
                                 /\ packet'.parts[k].data.block = BlockOf(p)
                                 /\ PartTrue(packet'.stamp, packet'.parts[k])
    <3>1. PICK p \in ToSend :
                /\ Index(ToSend, p) = k - 1
                /\ packet'.parts[k].data = Content(p, len)
                /\ packet'.parts[k].len = LengthOf(p, len) /\ packet'.parts[k].pl = MakerOf(p)
                /\ packet'.parts[k].diff = (packet'.stamp - PartStamp(p)) % DiffWrap
      BY <1>13
    <3>2. /\ Content(p, len).of = MakerOf(p) /\ Content(p, len).block = BlockOf(p)
          /\ Content(p, len) # NoPayload /\ Content(p, len).len = LengthOf(p, len)
      BY <2>2, PartIs
    <3>3. PartStamp(p) = Stamp(BlockOf(p))
      BY <1>4
    <3>4. PartTrue(packet'.stamp, packet'.parts[k])
      BY <3>1, <3>2, <3>3 DEF PartTrue
    <3> QED BY <3>1, <3>2, <3>4
  <2>4. packet'.stamp = Stamp(packet'.parts[1].data.block)
    <3>1. PICK p \in ToSend : Index(ToSend, p) = 1 - 1 /\ packet'.parts[1].data.block = BlockOf(p)
      BY <1>5, <2>3
    <3>2. Index(ToSend, p) = 0
      BY <3>1
    <3>3. packet'.stamp = PartStamp(p)
      BY <1>1, <1>2, <3>2
    <3> QED BY <1>4, <3>1, <3>3
  <2>5. ASSUME NEW k \in 2 .. n
        PROVE  packet'.parts[k].data.block <= packet'.parts[k - 1].data.block
    <3>1. k \in 1 .. n /\ k - 1 \in 1 .. n
      BY <1>5
    <3>2. PICK p \in ToSend : Index(ToSend, p) = k - 1 /\ packet'.parts[k].data.block = BlockOf(p)
      BY <2>3, <3>1
    <3>3. PICK q \in ToSend : /\ Index(ToSend, q) = (k - 1) - 1
                              /\ packet'.parts[k - 1].data.block = BlockOf(q)
      BY <2>3, <3>1
    <3>4. Index(ToSend, q) < Index(ToSend, p)
      BY <1>5, <3>1, <3>2, <3>3
    <3> QED BY <1>5, <3>2, <3>3, <3>4
  <2> QED BY <2>3, <2>4, <2>5
<1> QED BY <1>9, <1>10, <1>11, <1>12, <1>15, <1>16 DEF PacketInv

LEMMA ProcessDualStreamKeeps ==
  ASSUME SenderInv, SenderInv', PacketInv, WithinHalfWrap, ProcessDualStream
  PROVE  PacketInv'
<1>1. /\ process = "dual"
      /\ UNCHANGED <<captured, codecVars, is_first_red, sentSecondary>>
  BY DEF ProcessDualStream
<1>2. CASE process' = "idle" /\ UNCHANGED <<encoders, redVars, packet>>
  <2>1. /\ UNCHANGED <<captured, current, secondary, vad_enabled, fec_enabled, sentSecondary,
                       packet, fragmentation, threeFailed, red_buffer, last_fec_timestamp>>
        /\ is_first_red' = is_first_red /\ UNCHANGED encoders
    BY <1>1, <1>2 DEF redVars, codecVars
  <2>2. NoneAdded
    BY <2>1, LeftAloneAddsNone
  <2> QED BY <1>1, <1>2, <2>1, <2>2, SilenceKeeps
<1>3. CASE ~(current = NoCodec \/ ~secondary \/ ToSend \cap Encoders = {})
  <2>1. PICK len \in [ToSend \cap Encoders -> Lengths] :
            \/ ToSend = {Secondary} /\ Keep(len[Secondary])
            \/ ToSend # {Secondary} /\ Combine(ToSend, len)
            \/ Fail(ToSend, len)
    BY <1>3 DEF ProcessDualStream
  <2>2. current # NoCodec /\ secondary /\ ToSend # {}
    BY <1>3
  <2>3. CASE ToSend = {Secondary} /\ Keep(len[Secondary])
    <3>1. len[Secondary] \in Lengths
      BY <2>1, <2>3, EncoderTypes
    <3> QED BY <1>1, <2>2, <2>3, <3>1, KeepKeeps
  <2>4. CASE Combine(ToSend, len)
    BY <1>1, <2>2, <2>4, CombineKeeps
  <2>5. CASE Fail(ToSend, len)
    BY <1>1, <2>2, <2>5, FailKeeps
  <2> QED BY <2>1, <2>3, <2>4, <2>5
<1> QED BY <1>2, <1>3 DEF ProcessDualStream

\* The packet is handed on, or refused.
LEMMA SendDataKeeps ==
  ASSUME SenderInv, SenderInv', PacketInv, SendData
  PROVE  PacketInv'
<1>1. /\ process = "send"
      /\ UNCHANGED <<encoders, captured, red_buffer, last_fec_timestamp, fragmentation, current,
                     secondary, vad_enabled, fec_enabled, is_first_red, packet>>
  BY DEF SendData, streamVars, codecVars
<1>2. \/ /\ process' = "sent" /\ threeFailed' = threeFailed
         /\ sentSecondary' = Max(SecondaryBlocks \cup {sentSecondary})
      \/ /\ process' = "idle" /\ sentSecondary' = sentSecondary
         /\ threeFailed' = (threeFailed \/ Len(packet.parts) = 3)
  BY DEF SendData
<1>3. /\ packet # NoPacket /\ Len(packet.parts) \in 1 .. 3
      /\ \A k \in 1 .. Len(packet.parts) : packet.parts[k].data.of = Secondary =>
            /\ packet.parts[k].data.block \in Nat
            /\ packet.parts[k].data.block < captured
            /\ Precedes(packet.parts[k].data.block, Secondary)
      /\ Precedes(sentSecondary, Secondary)
  BY <1>1 DEF PacketInv, OutTrue
<1>4. captured \in Nat /\ sentSecondary \in Int /\ sentSecondary < captured
  BY DEF SenderInv, Controls, PacketInv, RedTypes
<1>5. /\ sentSecondary' \in Int /\ sentSecondary' < captured
      /\ Precedes(sentSecondary', Secondary)
  <2>1. CASE sentSecondary' = sentSecondary
    BY <1>3, <1>4, <2>1
  <2>2. CASE sentSecondary' = Max(SecondaryBlocks \cup {sentSecondary})
    <3> DEFINE S == SecondaryBlocks \cup {sentSecondary}
    <3>1. ASSUME NEW b \in S
          PROVE  b \in Int /\ b < captured /\ Precedes(b, Secondary)
      <4>1. CASE b = sentSecondary
        BY <1>3, <1>4, <4>1
      <4>2. CASE b \in SecondaryBlocks
        BY <1>3, <4>2 DEF SecondaryBlocks
      <4> QED BY <4>1, <4>2
    <3>2. \E x \in S : \A y \in S : x >= y
      <4> DEFINE T == {captured - b : b \in S}
      <4>1. T \subseteq Nat /\ T # {}
        BY <1>4, <3>1
      <4> HIDE DEF T
      <4>2. PICK x \in T : \A y \in T : x <= y
        BY <4>1, LeastOfSet
      <4>3. PICK b \in S : x = captured - b
        BY <4>2 DEF T
      <4>4. ASSUME NEW y \in S PROVE b >= y
        <5>1. captured - y \in T
          BY DEF T
        <5>2. captured - b <= captured - y
          BY <4>2, <4>3, <5>1
        <5> HIDE DEF S
        <5> QED BY <1>4, <3>1, <5>2
      <4> QED BY <4>4
    <3>3. sentSecondary' \in S
      <4> HIDE DEF S
      <4>1. Max(S) \in S
        BY <3>2 DEF Max
      <4> QED BY <2>2, <4>1 DEF S
    <3> HIDE DEF S
    <3> QED BY <3>1, <3>3
  <2> QED BY <1>2, <2>1, <2>2
<1>6. BlocksTrue'
  BY <1>1 DEF PacketInv, BlocksTrue
<1>7. RedTypes'
  BY <1>1, <1>2, <1>5 DEF PacketInv, RedTypes
<1>8. RedundancyTrue'
  <2>1. SUFFICES ASSUME ~secondary, ~is_first_red, fragmentation[1].len > 0
                 PROVE  /\ Waits(fragmentation[0].pl)' /\ (red_buffer.len = fragmentation[1].len)'
                        /\ Precedes(red_buffer.block, current)'
    BY <1>1, <1>2 DEF RedundancyTrue
  <2>2. /\ Waits(fragmentation[0].pl) /\ red_buffer.len = fragmentation[1].len
        /\ Precedes(red_buffer.block, current)
    BY <2>1 DEF PacketInv, RedundancyTrue
  <2> QED BY <1>1, <2>2 DEF Waits, Precedes, Stamp
<1>9. KeptTrue'
  <2>1. SUFFICES ASSUME fragmentation[2].len > 0 PROVE KeptTrue'
    BY <1>1 DEF KeptTrue
  <2>2. /\ secondary /\ Waits(Secondary) /\ Precedes(red_buffer.block, Secondary)
        /\ sentSecondary < red_buffer.block
        /\ threeFailed \/ Len(packet.parts) = 3 \/ red_buffer.len = fragmentation[2].len
    BY <1>1, <2>1 DEF PacketInv, KeptTrue
  <2>3. Waits(Secondary)' /\ Precedes(red_buffer.block, Secondary)'
    BY <1>1, <2>2 DEF Waits, Precedes, Stamp
  <2> QED BY <1>1, <1>2, <2>2, <2>3 DEF KeptTrue
<1>10. OutTrue'
  <2>1. Precedes(sentSecondary, Secondary)'
    BY <1>1, <1>5 DEF Precedes
  <2> QED BY <1>2, <2>1 DEF OutTrue
<1>11. PacketTrue'
  BY <1>1 DEF PacketInv, PacketTrue, PartTrue, Stamp
<1> QED BY <1>6, <1>7, <1>8, <1>9, <1>10, <1>11 DEF PacketInv

\* After a packet that was sent, the fragmentation is cleaned.
LEMMA SentKeeps ==
  ASSUME SenderInv, SenderInv', PacketInv, Sent
  PROVE  PacketInv'
<1>1. /\ process = "sent" /\ process' = "idle"
      /\ UNCHANGED <<encoders, captured, red_buffer, last_fec_timestamp, current,
                     secondary, vad_enabled, fec_enabled, is_first_red, packet, sentSecondary>>
      /\ fragmentation' = NoFragments /\ threeFailed' = FALSE
  BY DEF Sent, Clean, streamVars, codecVars
<1>2. /\ fragmentation' \in [0 .. 2 -> Fragment]
      /\ \A i \in 0 .. 2 : fragmentation'[i] = NoFragment
  BY <1>1, NoFragmentsType
<1>3. NoFragment.len = 0 /\ NoFragment.diff = 0
  BY DEF NoFragment
<1>4. BlocksTrue'
  BY <1>1 DEF PacketInv, BlocksTrue
<1>5. RedTypes'
  <2>1. fragmentation'[0].diff = 0 /\ threeFailed' \in BOOLEAN
    <3>1. fragmentation'[0] = NoFragment
      BY <1>2
    <3> QED BY <1>1, <1>3, <3>1
  <2>2. /\ UNCHANGED <<vad_enabled, fec_enabled, is_first_red, red_buffer, last_fec_timestamp,
                       sentSecondary, captured, current>>
    BY <1>1
  <2> QED BY <1>2, <2>1, <2>2 DEF PacketInv, RedTypes
<1>6. RedundancyTrue' /\ KeptTrue'
  BY <1>2, <1>3 DEF RedundancyTrue, KeptTrue
<1>7. OutTrue'
  BY <1>1 DEF PacketInv, OutTrue, Precedes
<1>8. PacketTrue'
  BY <1>1 DEF PacketInv, PacketTrue, PartTrue, Stamp
<1> QED BY <1>4, <1>5, <1>6, <1>7, <1>8 DEF PacketInv

LEMMA PacketInitHolds == SenderInit => PacketInv
<1> SUFFICES ASSUME SenderInit PROVE PacketInv
  OBVIOUS
<1>1. /\ current = NoCodec /\ secondary = FALSE /\ encoders = [e \in Encoders |-> Fresh]
      /\ captured = FirstCapture /\ vad_enabled = FALSE /\ fec_enabled = FALSE
      /\ is_first_red = TRUE /\ red_buffer = NoPayload /\ last_fec_timestamp = 0
      /\ fragmentation = NoFragments /\ process = "idle" /\ packet = NoPacket
      /\ sentSecondary = -1 /\ threeFailed = FALSE
  BY DEF SenderInit
<1>2. /\ fragmentation \in [0 .. 2 -> Fragment] /\ \A i \in 0 .. 2 : fragmentation[i] = NoFragment
  BY <1>1, NoFragmentsType
<1>3. NoFragment.len = 0 /\ NoFragment.diff = 0
  BY DEF NoFragment
<1>4. \A e \in Encoders : BlocksOf(encoders[e]) = {}
  BY <1>1 DEF BlocksOf, Fresh
<1>5. BlocksTrue
  BY <1>1, <1>4, SenderAssumption DEF BlocksTrue
<1>6. RedTypes
  <2>1. fragmentation[0].diff = 0 /\ FirstCapture \in Nat /\ NoPayload \in Encoded \cup {NoPayload}
    BY <1>2, <1>3, SenderAssumption
  <2>2. sentSecondary \in Int /\ sentSecondary < captured /\ last_fec_timestamp \in Int
    BY <1>1, <2>1
  <2> QED BY <1>1, <1>2, <2>1, <2>2 DEF RedTypes
<1>7. RedundancyTrue /\ KeptTrue
  BY <1>2, <1>3 DEF RedundancyTrue, KeptTrue
<1>8. OutTrue
  BY <1>1, <1>4, EncoderTypes, Zenon DEF OutTrue, Precedes
<1>9. PacketTrue
  BY <1>1 DEF PacketTrue
<1> QED BY <1>5, <1>6, <1>7, <1>8, <1>9 DEF PacketInv

LEMMA PacketStep ==
  ASSUME SenderInv, SenderInv', PacketInv, WithinHalfWrap, [SenderNext]_senderVars
  PROVE  PacketInv'
<1>1. CASE EncodeAndSend
  BY <1>1, EncodeAndSendKeeps
<1>2. CASE UpdateLocalTimeStamp \/ Process10Ms
  BY <1>2, WaitingKeeps
<1>3. CASE ProcessSingleStream
  BY <1>3, ProcessSingleStreamKeeps
<1>4. CASE ProcessDualStream
  BY <1>4, ProcessDualStreamKeeps
<1>5. CASE SendData
  BY <1>5, SendDataKeeps
<1>6. CASE Sent
  BY <1>6, SentKeeps
<1>7. CASE \/ \E c \in SendCodecs : RegisterSendCodec(c)
           \/ RegisterSecondarySendCodec \/ UnregisterSecondarySendCodec
           \/ \E enable \in BOOLEAN : SetFECStatus(enable)
           \/ SetVAD \/ ResetEncoder \/ InitializeSender
  BY <1>7, SettingKeeps
<1>8. CASE UNCHANGED senderVars
  <2>1. UNCHANGED <<encoders, captured, red_buffer, last_fec_timestamp, current, fragmentation,
                    threeFailed, process, secondary, vad_enabled, fec_enabled, is_first_red,
                    packet, sentSecondary>>
    BY <1>8 DEF senderVars, streamVars, redVars, codecVars, sendVars
  <2>2. BlocksTrue' /\ RedTypes'
    BY <2>1 DEF PacketInv, BlocksTrue, RedTypes
  <2>3. RedundancyTrue' /\ KeptTrue'
    BY <2>1 DEF PacketInv, RedundancyTrue, KeptTrue, Waits, Precedes, Stamp
  <2>4. OutTrue'
    BY <2>1 DEF PacketInv, OutTrue, Precedes
  <2>5. PacketTrue'
    BY <2>1 DEF PacketInv, PacketTrue, PartTrue, Stamp
  <2> QED BY <2>2, <2>3, <2>4, <2>5 DEF PacketInv
<1> QED BY <1>1, <1>2, <1>3, <1>4, <1>5, <1>6, <1>7, <1>8, Zenon DEF SenderNext

\* What is sent is what was encoded, under its own time, length and encoder,
\* whatever was set or refused in between, and no secondary payload is in two
\* packets that were sent: on a call within half the wrap of the timestamps,
\* which TimestampLessThan() needs to order the parts.  The packets made after
\* one of three parts failed or was refused are exempt from the first half,
\* until the fragmentation is reset: their lengths may be wrong.
THEOREM PacketsAreRight == WithinHalfWrap => (SenderSpec => []PacketsRight)
<1> SUFFICES ASSUME WithinHalfWrap PROVE SenderSpec => []PacketsRight
  OBVIOUS
<1>1. SenderInit => PacketInv
  BY PacketInitHolds
<1>2. SenderInv /\ SenderInv' /\ PacketInv /\ [SenderNext]_senderVars => PacketInv'
  BY PacketStep
<1>3. PacketInv => PacketsRight
  <2> SUFFICES ASSUME PacketInv PROVE PacketsRight
    OBVIOUS
  <2>1. ASSUME process = "send", NEW b \in SecondaryBlocks PROVE b > sentSecondary
    <3>1. PICK k \in DOMAIN packet.parts :
            packet.parts[k].data.of = Secondary /\ b = packet.parts[k].data.block
      BY DEF SecondaryBlocks
    <3> QED BY <2>1, <3>1 DEF PacketInv, OutTrue
  <2> QED BY <2>1 DEF PacketInv, PacketsRight, SecondaryOnce
<1> QED BY <1>1, <1>2, <1>3, SenderAlways, PTL DEF SenderSpec

-----------------------------------------------------------------------------
(***************************************************************************)
(* The packet buffer writes over no payload that waits.                    *)
(*                                                                         *)
(* Slots are given in turn, so that how far a slot lies behind the one     *)
(* given last tells how old its payload is.  Unless the memory was begun   *)
(* again past one that waited, the payloads of the lap before lie behind   *)
(* the last one inserted and those of this lap in front of it, and the     *)
(* payloads of a lap lie in the order of their age: the oldest one is the  *)
(* only one a new payload can run into, or all lie in front of it.         *)
(***************************************************************************)

Stamps == 0 .. TimeWrap - 1
Pieces == [words : Nat \ {0}, timeStamp : Stamps, seqNumber : Nat, rcuPlCntr : Nat]
Stored == [location : Nat, words : Nat \ {0}, timeStamp : Stamps, seqNumber : Nat,
           rcuPlCntr : Nat]
Buffers == [slot : [Slots -> Stored \cup {Free}], numPacketsInBuffer : Nat,
            currentMemoryPos : 0 .. memorySizeW16, insertPosition : Slots]

\* How far behind the slot given last tells which payload is older.
Older(b, i, j) == Distance(b.insertPosition, i) < Distance(b.insertPosition, j)

Behind(b, i) == b.slot[i].location >= b.currentMemoryPos

LapsApart(b) ==
  \A i \in Taken(b) : Behind(b, i) \/ Ends(b.slot[i]) <= b.currentMemoryPos

LapsInOrder(b) ==
  \A i, j \in Taken(b) :
    Older(b, i, j) => \/ Behind(b, i) /\ ~Behind(b, j)
                      \/ /\ Ends(b.slot[i]) <= b.slot[j].location
                         /\ Behind(b, i) \/ ~Behind(b, j)

InLaps(b) == LapsApart(b) /\ LapsInOrder(b)

BufferTrue(b, past) ==
  /\ b \in Buffers
  /\ b.numPacketsInBuffer = Cardinality(Taken(b))
  /\ \A i \in Taken(b) : Ends(b.slot[i]) <= memorySizeW16
  /\ past \/ InLaps(b)

Calls == [payloads : Seq(Payloads), chunk : Nat \ {0}, flushed : BOOLEAN]
Decodings == [frames : Nat, position : Slots, wanted : Nat, first : Stamps, anew : BOOLEAN]

BufferInv ==
  /\ BufferTrue(packetBuffer, overtaken)
  /\ overtaken \in BOOLEAN /\ new_codec \in BOOLEAN
  /\ receiving \in Calls
  /\ receiving.payloads # <<>> => receiving.chunk <= Len(Head(receiving.payloads).chunks)
  /\ decoding # Idle => decoding \in Decodings /\ decoding.position \in Taken(packetBuffer)
  /\ receiving.payloads = <<>> \/ decoding = Idle
  /\ playedOutTS \in Stamps /\ decodedTS \in Stamps

-----------------------------------------------------------------------------
\* What the assumptions on the constants say.
LEMMA BufferConstants ==
  /\ maxInsertPositions \in Nat /\ maxInsertPositions > 1
  /\ memorySizeW16 \in Nat /\ memorySizeW16 > 0
  /\ TimeWrap \in Nat /\ TimeWrap > 0 /\ FrameSamples \in Nat
  /\ IsFiniteSet(Slots) /\ Cardinality(Slots) = maxInsertPositions
<1>1. /\ maxInsertPositions \in Nat /\ maxInsertPositions > 1
      /\ memorySizeW16 \in Nat /\ memorySizeW16 > 0
      /\ TimeWrap \in Nat /\ FrameSamples \in Nat
  BY BufferAssumption
<1>2. TimeWrap > 0
  BY BufferAssumption
<1>3. IsFiniteSet(Slots) /\ Cardinality(Slots) = maxInsertPositions
  <2>1. /\ IsFiniteSet(0 .. maxInsertPositions - 1)
        /\ Cardinality(0 .. maxInsertPositions - 1)
             = IF 0 > maxInsertPositions - 1 THEN 0 ELSE maxInsertPositions - 1 - 0 + 1
    <3>1. maxInsertPositions - 1 \in Int
      BY <1>1
    <3> QED BY <3>1, FS_Interval
  <2> QED BY <1>1, <2>1 DEF Slots
<1> QED BY <1>1, <1>2, <1>3

\* Timestamps keep their width.
LEMMA StampRange == \A x \in Int : x % TimeWrap \in Stamps
  BY BufferConstants DEF Stamps

\* Differences of timestamps are bounded below.
LEMMA TimeDiffRange ==
  \A a, t \in Stamps : TimeDiff(a, t) \in Int /\ TimeDiff(a, t) + TimeWrap \in Nat
<1>1. TimeWrap \in Nat /\ TimeWrap \div 2 \in Int
  BY BufferConstants
<1> SUFFICES ASSUME NEW a \in Stamps, NEW t \in Stamps
             PROVE  TimeDiff(a, t) \in Int /\ TimeDiff(a, t) + TimeWrap \in Nat
  OBVIOUS
<1> DEFINE d == (a - t) % TimeWrap
<1>2. d \in Nat
  <2>1. a - t \in Int
    BY <1>1 DEF Stamps
  <2>2. d \in Stamps
    BY <2>1, StampRange
  <2> QED BY <1>1, <2>2 DEF Stamps
<1>3. TimeDiff(a, t) = IF d >= TimeWrap \div 2 THEN d - TimeWrap ELSE d
  BY DEF TimeDiff
<1> HIDE DEF d
<1> QED BY <1>1, <1>2, <1>3

\* The element of a set at which a measure is least.
LEMMA LeastMeasure ==
  ASSUME NEW T, T # {}, NEW f, \A i \in T : f[i] \in Nat
  PROVE  \E i \in T : \A j \in T : f[i] <= f[j]
<1> DEFINE V == {f[i] : i \in T}
<1>1. V \subseteq Nat /\ V # {}
  OBVIOUS
<1>2. PICK x \in V : \A y \in V : x <= y
  BY <1>1, LeastOfSet
<1>3. PICK i \in T : f[i] = x
  BY <1>2
<1> QED BY <1>2, <1>3

-----------------------------------------------------------------------------
(* Slots and their turn *)

\* No two slots are equally far, and the one given last is the farthest.
LEMMA DistanceRange ==
  ASSUME NEW p \in Slots, NEW i \in Slots
  PROVE  /\ Distance(p, i) \in Nat /\ Distance(p, i) < maxInsertPositions
         /\ (Distance(p, i) = maxInsertPositions - 1) <=> (i = p)
         /\ \A j \in Slots : Distance(p, i) = Distance(p, j) => i = j
BY BufferConstants DEF Distance, Slots

\* When the next slot is given the others are one nearer.
LEMMA NextSlot ==
  ASSUME NEW b \in Buffers
  PROVE  /\ NextPosition(b) \in Slots
         /\ \A i \in Slots \ {NextPosition(b)} :
              Distance(NextPosition(b), i) = Distance(b.insertPosition, i) - 1
<1>1. b.insertPosition \in Slots
  BY DEF Buffers
<1> QED BY <1>1, BufferConstants DEF NextPosition, Distance, Slots

\* The slots that are taken, and what is in them.
LEMMA TakenSlots ==
  ASSUME NEW b \in Buffers
  PROVE  /\ Taken(b) \subseteq Slots /\ IsFiniteSet(Taken(b)) /\ Cardinality(Taken(b)) \in Nat
         /\ Cardinality(Taken(b)) <= maxInsertPositions
         /\ \A i \in Taken(b) : b.slot[i] \in Stored
         /\ \A i \in Taken(b) : /\ b.slot[i].location \in Nat /\ b.slot[i].words \in Nat
                                /\ b.slot[i].words > 0
                                /\ Ends(b.slot[i]) \in Nat
                                /\ Ends(b.slot[i]) > b.slot[i].location
         /\ \A i \in Slots \ Taken(b) : b.slot[i] = Free
<1>1. Taken(b) \subseteq Slots
  BY DEF Taken
<1>2. /\ IsFiniteSet(Taken(b)) /\ Cardinality(Taken(b)) \in Nat
      /\ Cardinality(Taken(b)) <= maxInsertPositions
  BY <1>1, BufferConstants, FS_Subset, FS_CardinalityType
<1>3. \A i \in Slots : b.slot[i] \in Stored \/ b.slot[i] = Free
  BY DEF Buffers
<1>4. /\ Free.words = 0 /\ \A s \in Stored : s.words \in Nat /\ s.words > 0 /\ s.location \in Nat
  BY DEF Free, Stored
<1>5. \A i \in Taken(b) : b.slot[i] \in Stored
  BY <1>3, <1>4 DEF Taken
<1>6. \A i \in Taken(b) : /\ b.slot[i].location \in Nat /\ b.slot[i].words \in Nat
                          /\ b.slot[i].words > 0
                          /\ Ends(b.slot[i]) \in Nat
                          /\ Ends(b.slot[i]) > b.slot[i].location
  BY <1>4, <1>5 DEF Ends
<1>7. \A i \in Slots \ Taken(b) : b.slot[i] = Free
  BY <1>3, <1>4 DEF Taken
<1> QED BY <1>1, <1>2, <1>5, <1>6, <1>7

\* The choices of the code exist: the oldest payload, the lowest one, the earliest one.
LEMMA OldestTaken ==
  ASSUME NEW b \in Buffers, Taken(b) # {}, NEW p \in Slots
  PROVE  /\ NextTaken(b, p) \in Taken(b)
         /\ \A j \in Taken(b) : Distance(p, NextTaken(b, p)) <= Distance(p, j)
<1> DEFINE f == [i \in Taken(b) |-> Distance(p, i)]
<1>1. \A i \in Taken(b) : f[i] \in Nat /\ f[i] = Distance(p, i)
  BY DistanceRange, TakenSlots
<1>2. \E i \in Taken(b) : \A j \in Taken(b) : f[i] <= f[j]
  <2> HIDE DEF f
  <2> QED BY <1>1, LeastMeasure
<1>3. \E i \in Taken(b) : \A j \in Taken(b) : Distance(p, i) <= Distance(p, j)
  BY <1>1, <1>2
<1> QED BY <1>3 DEF NextTaken

LEMMA LowestTaken ==
  ASSUME NEW b \in Buffers, Taken(b) # {}
  PROVE  /\ LowestLocation(b) \in Taken(b)
         /\ \A j \in Taken(b) : b.slot[LowestLocation(b)].location <= b.slot[j].location
<1> DEFINE f == [i \in Taken(b) |-> b.slot[i].location]
<1>1. \A i \in Taken(b) : f[i] \in Nat /\ f[i] = b.slot[i].location
  BY TakenSlots
<1>2. \E i \in Taken(b) : \A j \in Taken(b) : f[i] <= f[j]
  <2> HIDE DEF f
  <2> QED BY <1>1, LeastMeasure
<1>3. \E i \in Taken(b) : \A j \in Taken(b) : b.slot[i].location <= b.slot[j].location
  BY <1>1, <1>2
<1> QED BY <1>3 DEF LowestLocation

LEMMA SoonestTaken ==
  ASSUME NEW b \in Buffers, Taken(b) # {}, NEW now \in Stamps
  PROVE  LowestTimestamp(b, now) \in Taken(b)
<1> DEFINE D(i) == TimeDiff(b.slot[i].timeStamp, now)
           R(i) == b.slot[i].rcuPlCntr
           f == [i \in Taken(b) |-> D(i) + TimeWrap]
<1>1. \A i \in Taken(b) : D(i) \in Int /\ D(i) + TimeWrap \in Nat /\ R(i) \in Nat /\ i \in Nat
  <2>1. \A i \in Taken(b) : b.slot[i] \in Stored
    BY TakenSlots
  <2>2. \A i \in Taken(b) : b.slot[i].timeStamp \in Stamps /\ R(i) \in Nat
    BY <2>1 DEF Stored
  <2>3. \A i \in Taken(b) : i \in Nat
    BY BufferConstants DEF Taken, Slots
  <2> QED BY <2>2, <2>3, TimeDiffRange
<1> HIDE DEF D, R
<1>2. \A i \in Taken(b) : f[i] = D(i) + TimeWrap /\ f[i] \in Nat
  BY <1>1
<1>3. PICK i1 \in Taken(b) : \A j \in Taken(b) : f[i1] <= f[j]
  <2> HIDE DEF f
  <2> QED BY <1>2, LeastMeasure
<1>4. \A j \in Taken(b) : D(i1) <= D(j)
  BY <1>1, <1>2, <1>3, BufferConstants
<1> DEFINE U == {i \in Taken(b) : D(i) = D(i1)}
           g == [i \in U |-> R(i)]
<1>5. U # {} /\ \A i \in U : g[i] = R(i) /\ g[i] \in Nat
  BY <1>1
<1>6. PICK i2 \in U : \A j \in U : g[i2] <= g[j]
  <2> HIDE DEF g, U
  <2> QED BY <1>5, LeastMeasure
<1> DEFINE W == {i \in U : R(i) = R(i2)}
<1>7. W # {} /\ W \subseteq Nat
  BY <1>1, <1>6
<1>8. PICK i3 \in W : \A j \in W : i3 <= j
  <2> HIDE DEF W
  <2> QED BY <1>7, LeastOfSet
<1>9. i3 \in Taken(b) /\ D(i3) = D(i1) /\ R(i3) = R(i2)
  BY <1>8
<1>10. \A j \in Taken(b) : Sooner(b, now, i3, j)
  <2> SUFFICES ASSUME NEW j \in Taken(b) PROVE Sooner(b, now, i3, j)
    OBVIOUS
  <2>1. D(i3) <= D(j) /\ D(i3) \in Int /\ D(j) \in Int
    BY <1>1, <1>4, <1>9
  <2>2. D(i3) = D(j) => R(i3) <= R(j) /\ R(i3) \in Nat /\ R(j) \in Nat
    BY <1>1, <1>5, <1>6, <1>9
  <2>3. D(i3) = D(j) /\ R(i3) = R(j) => i3 <= j
    BY <1>8, <1>9
  <2>4. \/ D(i3) < D(j)
        \/ D(i3) = D(j) /\ R(i3) < R(j)
        \/ D(i3) = D(j) /\ R(i3) = R(j) /\ i3 <= j
    BY <2>1, <2>2, <2>3
  <2> QED BY <2>4 DEF Sooner, D, R
<1> QED BY <1>9, <1>10 DEF LowestTimestamp

-----------------------------------------------------------------------------
(* What is done to a buffer *)

\* The flushed buffer.
LEMMA EmptyBuffer ==
  /\ NoPackets \in Buffers /\ Taken(NoPackets) = {}
  /\ \A past \in BOOLEAN : BufferTrue(NoPackets, past)
<1>1. NoPackets \in Buffers /\ Taken(NoPackets) = {}
  BY BufferConstants DEF NoPackets, Buffers, Taken, Free, Slots
<1>2. NoPackets.numPacketsInBuffer = 0
  BY DEF NoPackets
<1> QED BY <1>1, <1>2, FS_EmptySet DEF BufferTrue, InLaps, LapsApart, LapsInOrder

\* The count says whether the buffer is empty.
LEMMA CountedTaken ==
  ASSUME NEW b \in Buffers, b.numPacketsInBuffer = Cardinality(Taken(b))
  PROVE  b.numPacketsInBuffer = 0 <=> Taken(b) = {}
BY TakenSlots, FS_EmptySet

\* Taking payloads out leaves the others as they lie.
LEMMA WithoutTrue ==
  ASSUME NEW b, NEW past, BufferTrue(b, past), NEW gone \in SUBSET Taken(b)
  PROVE  BufferTrue(Without(b, gone), past) /\ Taken(Without(b, gone)) = Taken(b) \ gone
<1> DEFINE new == Without(b, gone)
<1>1. /\ b \in Buffers /\ b.numPacketsInBuffer = Cardinality(Taken(b))
      /\ \A i \in Taken(b) : Ends(b.slot[i]) <= memorySizeW16
      /\ past \/ InLaps(b)
  BY DEF BufferTrue
<1>2. /\ new.slot = [i \in Slots |-> IF i \in gone THEN Free ELSE b.slot[i]]
      /\ new.numPacketsInBuffer = b.numPacketsInBuffer - Cardinality(gone)
      /\ new.currentMemoryPos = b.currentMemoryPos
      /\ new.insertPosition = b.insertPosition
      /\ new \in [slot : {new.slot}, numPacketsInBuffer : {new.numPacketsInBuffer},
                  currentMemoryPos : {new.currentMemoryPos},
                  insertPosition : {new.insertPosition}]
  BY <1>1 DEF Without, Buffers
<1>3. Taken(b) \cap gone = gone
  OBVIOUS
<1>4. /\ Cardinality(Taken(b) \ gone) = Cardinality(Taken(b)) - Cardinality(gone)
      /\ Cardinality(Taken(b) \ gone) \in Nat
  <2>1. IsFiniteSet(Taken(b))
    BY <1>1, TakenSlots
  <2>2. /\ IsFiniteSet(Taken(b) \ gone)
        /\ Cardinality(Taken(b) \ gone) = Cardinality(Taken(b)) - Cardinality(Taken(b) \cap gone)
    BY <2>1, FS_Difference
  <2> QED BY <1>3, <2>2, FS_CardinalityType
<1> HIDE DEF new
<1>5. /\ \A i \in Slots : new.slot[i] = IF i \in gone THEN Free ELSE b.slot[i]
      /\ \A i \in Slots : b.slot[i] \in Stored \cup {Free}
  BY <1>1, <1>2 DEF Buffers
<1>6. Taken(new) = Taken(b) \ gone
  BY <1>5 DEF Taken, Free
<1>7. \A i \in Taken(new) : i \in Taken(b) /\ new.slot[i] = b.slot[i]
  BY <1>5, <1>6 DEF Taken
<1>8. new \in Buffers
  <2>1. new.slot \in [Slots -> Stored \cup {Free}]
    BY <1>2, <1>5
  <2>2. new.numPacketsInBuffer \in Nat
    BY <1>1, <1>2, <1>4
  <2> QED BY <1>1, <1>2, <2>1, <2>2 DEF Buffers
<1>9. new.numPacketsInBuffer = Cardinality(Taken(new))
  BY <1>1, <1>2, <1>4, <1>6
<1>10. ASSUME InLaps(b) PROVE InLaps(new)
  BY <1>2, <1>7, <1>10 DEF InLaps, LapsApart, LapsInOrder, Older, Behind
<1>11. \A i \in Taken(new) : Ends(new.slot[i]) <= memorySizeW16
  BY <1>1, <1>7
<1>12. past \/ InLaps(new)
  BY <1>1, <1>10
<1>13. BufferTrue(new, past)
  BY <1>8, <1>9, <1>11, <1>12 DEF BufferTrue
<1> QED BY <1>6, <1>13 DEF new

\* A payload put into a free slot.
LEMMA Stores ==
  ASSUME NEW b \in Buffers, b.numPacketsInBuffer = Cardinality(Taken(b)),
         NEW position \in Slots, position \notin Taken(b), NEW location \in Nat,
         NEW payload \in Pieces, location + payload.words <= memorySizeW16,
         NEW new, new = StoreAt(b, position, location, payload)
  PROVE  /\ new \in Buffers /\ new.numPacketsInBuffer = Cardinality(Taken(new))
         /\ Taken(new) = Taken(b) \cup {position}
         /\ \A i \in Taken(b) : new.slot[i] = b.slot[i]
         /\ new.slot[position].location = location
         /\ Ends(new.slot[position]) = location + payload.words
         /\ new.currentMemoryPos = location + payload.words
         /\ new.insertPosition = position
<1> DEFINE s == [location |-> location, words |-> payload.words,
                 timeStamp |-> payload.timeStamp, seqNumber |-> payload.seqNumber,
                 rcuPlCntr |-> payload.rcuPlCntr]
<1>1. s \in Stored /\ s.location = location /\ s.words = payload.words
  BY DEF Stored, Pieces
<1>2. payload.words \in Nat /\ payload.words > 0
  BY DEF Pieces
<1>3. /\ new.slot = [b.slot EXCEPT ![position] = s]
      /\ new.numPacketsInBuffer = b.numPacketsInBuffer + 1
      /\ new.currentMemoryPos = location + payload.words
      /\ new.insertPosition = position
      /\ new \in [slot : {new.slot}, numPacketsInBuffer : {new.numPacketsInBuffer},
                  currentMemoryPos : {new.currentMemoryPos},
                  insertPosition : {new.insertPosition}]
  BY DEF StoreAt
<1> HIDE DEF s
<1>4. /\ b.slot \in [Slots -> Stored \cup {Free}] /\ b.numPacketsInBuffer \in Nat
      /\ \A i \in Slots : new.slot[i] = IF i = position THEN s ELSE b.slot[i]
      /\ new.slot \in [Slots -> Stored \cup {Free}]
  <2>1. b.slot \in [Slots -> Stored \cup {Free}] /\ b.numPacketsInBuffer \in Nat
    BY DEF Buffers
  <2> QED BY <1>1, <1>3, <2>1
<1>5. Taken(new) = Taken(b) \cup {position}
  BY <1>1, <1>2, <1>4 DEF Taken
<1>6. new \in Buffers
  <2>1. location + payload.words \in 0 .. memorySizeW16
    BY <1>2, BufferConstants
  <2>2. b.numPacketsInBuffer + 1 \in Nat
    BY <1>4
  <2> QED BY <1>3, <1>4, <2>1, <2>2 DEF Buffers
<1>7. new.numPacketsInBuffer = Cardinality(Taken(new))
  <2>1. IsFiniteSet(Taken(b))
    BY TakenSlots
  <2>2. Cardinality(Taken(b) \cup {position}) = Cardinality(Taken(b)) + 1
    BY <2>1, FS_AddElement
  <2> QED BY <1>3, <1>5, <2>2
<1>8. /\ new.slot[position].location = location
      /\ Ends(new.slot[position]) = location + payload.words
  BY <1>1, <1>4 DEF Ends
<1>9. \A i \in Taken(b) : new.slot[i] = b.slot[i]
  BY <1>4 DEF Taken
<1> QED BY <1>3, <1>5, <1>6, <1>7, <1>8, <1>9

\* The first payload of an empty buffer.
LEMMA FirstInsert ==
  ASSUME NEW b \in Buffers, Taken(b) = {}, b.numPacketsInBuffer = Cardinality(Taken(b)),
         NEW payload \in Pieces, payload.words <= memorySizeW16
  PROVE  BufferTrue(StoreAt(b, 0, 0, payload), FALSE)
<1> DEFINE z == 0
           new == StoreAt(b, z, z, payload)
<1>1. z \in Slots /\ z \in Nat /\ z \notin Taken(b) /\ z + payload.words <= memorySizeW16
  BY BufferConstants DEF Slots, Pieces
<1>2. new = StoreAt(b, z, z, payload)
  OBVIOUS
<1> HIDE DEF z, new
<1>3. /\ new \in Buffers /\ new.numPacketsInBuffer = Cardinality(Taken(new))
      /\ Taken(new) = Taken(b) \cup {z} /\ Ends(new.slot[z]) = z + payload.words
      /\ new.currentMemoryPos = z + payload.words
  BY <1>1, <1>2, Stores
<1>4. /\ Taken(new) = {z} /\ Ends(new.slot[z]) = new.currentMemoryPos
      /\ \A i \in Taken(new) : Ends(new.slot[i]) <= memorySizeW16
  BY <1>1, <1>3
<1>5. InLaps(new)
  <2>1. /\ Ends(new.slot[z]) \in Nat
        /\ ~(Distance(new.insertPosition, z) < Distance(new.insertPosition, z))
    <3>1. new.insertPosition \in Slots
      BY <1>3 DEF Buffers
    <3>2. Ends(new.slot[z]) \in Nat
      BY <1>3, <1>4, TakenSlots
    <3>3. Distance(new.insertPosition, z) \in Nat
      BY <1>1, <3>1, DistanceRange
    <3> QED BY <3>2, <3>3
  <2> QED BY <1>4, <2>1 DEF InLaps, LapsApart, LapsInOrder, Older
<1>6. BufferTrue(new, FALSE)
  BY <1>3, <1>4, <1>5 DEF BufferTrue
<1> QED BY <1>6 DEF new, z

\* A payload behind the one inserted last, or at the start of the memory again.
LEMMA NextInsert ==
  ASSUME NEW b, NEW past \in BOOLEAN, BufferTrue(b, past), Taken(b) # {},
         NEW payload \in Pieces, payload.words <= memorySizeW16,
         ~InTheWay(b, payload.words)
  PROVE  BufferTrue(StoreAt(b, NextPosition(b), NextLocation(b, payload.words), payload),
                    past \/ Overtakes(b, payload))
<1> DEFINE q == NextPosition(b)
           w == payload.words
           l == NextLocation(b, w)
           c == b.currentMemoryPos
           new == StoreAt(b, q, l, payload)
           L(i) == b.slot[i].location
           E(i) == Ends(b.slot[i])
<1>1. /\ b \in Buffers /\ b.numPacketsInBuffer = Cardinality(Taken(b))
      /\ \A i \in Taken(b) : Ends(b.slot[i]) <= memorySizeW16
      /\ past \/ InLaps(b)
  BY DEF BufferTrue
<1>2. w \in Nat /\ w > 0 /\ c \in Nat /\ w <= memorySizeW16 /\ memorySizeW16 \in Nat
  BY <1>1, BufferConstants DEF Pieces, Buffers
<1>3. q \in Slots /\ q \notin Taken(b)
  BY <1>1, NextSlot DEF InTheWay
<1>4. l = (IF FitsAtEnd(b, w) THEN c ELSE 0) /\ (FitsAtEnd(b, w) => c + w < memorySizeW16)
  BY DEF NextLocation, FitsAtEnd
<1>5. \A i \in Taken(b) : L(i) \in Nat /\ E(i) \in Nat /\ L(i) < E(i)
  BY <1>1, TakenSlots
<1>6. ~(l <= L(Neighbour(b, w)) /\ l + w > L(Neighbour(b, w)))
  BY DEF InTheWay
<1> HIDE DEF q, w, l, c, new, L, E
<1>7. l \in Nat /\ l + w <= memorySizeW16
  BY <1>2, <1>4
<1>8. /\ new \in Buffers /\ new.numPacketsInBuffer = Cardinality(Taken(new))
      /\ Taken(new) = Taken(b) \cup {q}
      /\ \A i \in Taken(b) : new.slot[i] = b.slot[i]
      /\ new.slot[q].location = l /\ Ends(new.slot[q]) = l + w
      /\ new.currentMemoryPos = l + w /\ new.insertPosition = q
  <2>1. l + payload.words <= memorySizeW16
    BY <1>7 DEF w
  <2>2. new = StoreAt(b, q, l, payload)
    BY DEF new
  <2>3. /\ new \in Buffers /\ new.numPacketsInBuffer = Cardinality(Taken(new))
        /\ Taken(new) = Taken(b) \cup {q}
        /\ \A i \in Taken(b) : new.slot[i] = b.slot[i]
        /\ new.slot[q].location = l /\ Ends(new.slot[q]) = l + payload.words
        /\ new.currentMemoryPos = l + payload.words /\ new.insertPosition = q
    BY <1>1, <1>3, <1>7, <2>1, <2>2, Stores
  <2> QED BY <2>3 DEF w
<1>9. \A i \in Taken(new) : Ends(new.slot[i]) <= memorySizeW16
  BY <1>1, <1>7, <1>8
<1>10. ASSUME ~past, ~Overtakes(b, payload) PROVE InLaps(new)
  <2>1. LapsApart(b) /\ LapsInOrder(b)
    BY <1>1, <1>10 DEF InLaps
  <2>2. /\ \A i \in Taken(b) : L(i) >= c \/ E(i) <= c
        /\ \A i, j \in Taken(b) :
             Older(b, i, j) => \/ L(i) >= c /\ ~(L(j) >= c)
                               \/ E(i) <= L(j) /\ (L(i) >= c \/ ~(L(j) >= c))
    BY <2>1 DEF LapsApart, LapsInOrder, Behind, L, E, c
  <2>3. /\ \A i, j \in Taken(b) : Older(new, i, j) => Older(b, i, j)
        /\ \A i \in Taken(new) : ~Older(new, q, i)
        /\ \A i, j \in Taken(b) : i # j => Older(b, i, j)
                                           \/ Distance(q, j) < Distance(q, i)
    <3>1. /\ b.insertPosition \in Slots /\ Taken(b) \subseteq Slots
          /\ Taken(new) \subseteq Slots /\ \A i \in Taken(b) : i # q
      BY <1>1, <1>3, <1>8, TakenSlots DEF Buffers
    <3>2. \A i \in Slots : i # q => Distance(q, i) = Distance(b.insertPosition, i) - 1
      BY <1>1, NextSlot DEF q
    <3>3. \A i \in Slots : /\ Distance(q, i) \in Nat /\ Distance(b.insertPosition, i) \in Nat
                           /\ Distance(q, i) < maxInsertPositions
      BY <1>3, <3>1, DistanceRange
    <3>4. Distance(q, q) = maxInsertPositions - 1
      BY <1>3, DistanceRange
    <3>5. \A i, j \in Slots : Distance(q, i) = Distance(q, j) => i = j
      BY <1>3, DistanceRange
    <3>6. \A i, j \in Taken(b) :
            (Distance(q, i) < Distance(q, j)) <=> Older(b, i, j)
      BY <3>1, <3>2, <3>3 DEF Older
    <3>7. \A i \in Taken(new) : ~(Distance(q, q) < Distance(q, i))
      BY <3>1, <3>3, <3>4, BufferConstants
    <3>8. \A i, j \in Taken(b) : i # j =>
            Distance(q, i) < Distance(q, j) \/ Distance(q, j) < Distance(q, i)
      BY <3>1, <3>3, <3>5
    <3> QED BY <1>8, <3>6, <3>7, <3>8 DEF Older
  <2>4. SUFFICES
          /\ \A i \in Taken(b) : L(i) >= l + w \/ E(i) <= l + w
          /\ \A i \in Taken(b) : L(i) >= l + w \/ E(i) <= l
          /\ \A i, j \in Taken(b) :
               Older(b, i, j) => \/ L(i) >= l + w /\ ~(L(j) >= l + w)
                                 \/ E(i) <= L(j) /\ (L(i) >= l + w \/ ~(L(j) >= l + w))
    <3>1. /\ \A i \in Taken(b) : /\ Ends(new.slot[i]) = E(i) /\ new.slot[i].location = L(i)
          /\ ~(l >= l + w) /\ l + w <= l + w
      BY <1>2, <1>7, <1>8 DEF L, E
    <3>2. LapsApart(new)
      BY <1>8, <2>4, <3>1 DEF LapsApart, Behind
    <3>3. ASSUME NEW i \in Taken(new), NEW j \in Taken(new), Older(new, i, j)
          PROVE  \/ Behind(new, i) /\ ~Behind(new, j)
                 \/ /\ Ends(new.slot[i]) <= new.slot[j].location
                    /\ Behind(new, i) \/ ~Behind(new, j)
      <4>1. i \in Taken(b)
        BY <1>8, <2>3, <3>3
      <4>2. CASE j \in Taken(b)
        <5>1. Older(b, i, j)
          BY <2>3, <3>3, <4>1, <4>2
        <5> QED BY <1>8, <2>4, <3>1, <4>1, <4>2, <5>1 DEF Behind
      <4>3. CASE j = q
        BY <1>8, <2>4, <3>1, <4>1, <4>3 DEF Behind
      <4> QED BY <1>8, <4>2, <4>3
    <3> QED BY <3>2, <3>3 DEF InLaps, LapsInOrder
  <2>5. CASE FitsAtEnd(b, w)
    <3> DEFINE o == NextTaken(b, q)
    <3>1. l = c /\ ~(c <= L(o) /\ c + w > L(o))
      BY <1>4, <1>6, <2>5 DEF Neighbour, q
    <3>2. o \in Taken(b) /\ \A j \in Taken(b) : ~(Distance(q, j) < Distance(q, o))
      <4>1. o \in Taken(b) /\ \A j \in Taken(b) : Distance(q, o) <= Distance(q, j)
        BY <1>1, <1>3, OldestTaken
      <4>2. \A j \in Taken(b) : Distance(q, j) \in Nat
        BY <1>1, <1>3, TakenSlots, DistanceRange
      <4> HIDE DEF o
      <4> QED BY <4>1, <4>2
    <3> HIDE DEF o
    <3>3. \A j \in Taken(b) : j = o \/ Older(b, o, j)
      BY <2>3, <3>2
    <3>4. \A i \in Taken(b) : L(i) >= c + w \/ E(i) <= c
      <4> SUFFICES ASSUME NEW i \in Taken(b) PROVE L(i) >= c + w \/ E(i) <= c
        OBVIOUS
      <4>1. /\ L(i) \in Nat /\ E(i) \in Nat /\ L(o) \in Nat /\ E(o) \in Nat
            /\ L(i) < E(i) /\ L(o) < E(o)
        BY <1>5, <3>2
      <4>2. (L(i) >= c \/ E(i) <= c) /\ (L(o) >= c \/ E(o) <= c)
        BY <2>2, <3>2
      <4>3. \/ i = o
            \/ L(o) >= c /\ ~(L(i) >= c)
            \/ E(o) <= L(i) /\ (L(o) >= c \/ ~(L(i) >= c))
        BY <2>2, <3>2, <3>3
      <4> QED BY <1>2, <3>1, <4>1, <4>2, <4>3
    <3>5. \A i \in Taken(b) : L(i) >= c => L(i) >= c + w
      BY <1>2, <1>5, <3>4
    <3>6. \A i \in Taken(b) : (~(L(i) >= c) => ~(L(i) >= c + w)) /\ (E(i) <= c => E(i) <= c + w)
      BY <1>2, <1>5
    <3> QED BY <2>2, <3>1, <3>4, <3>5, <3>6
  <2>6. CASE ~FitsAtEnd(b, w)
    <3> DEFINE o == LowestLocation(b)
    <3>1. l = 0 /\ ~(0 <= L(o) /\ 0 + w > L(o))
      BY <1>4, <1>6, <2>6 DEF Neighbour
    <3>2. o \in Taken(b) /\ \A j \in Taken(b) : L(o) <= L(j)
      BY <1>1, LowestTaken DEF L
    <3> HIDE DEF o
    <3>3. l + w = w /\ \A i \in Taken(b) : L(i) >= w
      BY <1>2, <1>5, <3>1, <3>2
    <3>4. \A i \in Taken(b) : ~(L(i) >= c)
      BY <1>10, <2>6 DEF Overtakes, L, c, w
    <3> QED BY <2>2, <3>3, <3>4
  <2> QED BY <2>5, <2>6
<1>11. BufferTrue(new, past \/ Overtakes(b, payload))
  <2>1. (past \/ Overtakes(b, payload)) \/ InLaps(new)
    BY <1>10
  <2> QED BY <1>8, <1>9, <2>1 DEF BufferTrue
<1> QED BY <1>11 DEF new, q, l, w

\* WebRtcNetEQ_PacketBufferInsert() as a whole.
LEMMA InsertTrue ==
  ASSUME BufferTrue(packetBuffer, overtaken), overtaken \in BOOLEAN,
         NEW chunk \in Pieces, chunk.words <= memorySizeW16
  PROVE  /\ BufferTrue(Insert(packetBuffer, chunk), OvertakenBy(packetBuffer, chunk))
         /\ OvertakenBy(packetBuffer, chunk) \in BOOLEAN
<1> DEFINE b == packetBuffer
           full == InTheWay(b, chunk.words)
           past == overtaken \/ Overtakes(b, chunk)
<1>1. b \in Buffers /\ b.numPacketsInBuffer = Cardinality(Taken(b))
  BY DEF BufferTrue
<1>2. b.numPacketsInBuffer = 0 <=> Taken(b) = {}
  BY <1>1, CountedTaken
<1>3. OvertakenBy(b, chunk) <=> b.numPacketsInBuffer # 0 /\ ~full /\ past
  BY DEF OvertakenBy
<1>4. OvertakenBy(b, chunk) \in BOOLEAN
  BY DEF OvertakenBy
<1>5. CASE b.numPacketsInBuffer = 0
  <2>1. Insert(b, chunk) = StoreAt(b, 0, 0, chunk) /\ OvertakenBy(b, chunk) = FALSE
    BY <1>5 DEF Insert, OvertakenBy
  <2>2. BufferTrue(StoreAt(b, 0, 0, chunk), FALSE)
    BY <1>1, <1>2, <1>5, FirstInsert
  <2> QED BY <1>4, <2>1, <2>2
<1>6. CASE b.numPacketsInBuffer # 0 /\ full
  <2>1. Insert(b, chunk) = StoreAt(NoPackets, 0, 0, chunk) /\ OvertakenBy(b, chunk) = FALSE
    BY <1>6 DEF Insert, OvertakenBy
  <2>2. NoPackets.numPacketsInBuffer = Cardinality(Taken(NoPackets))
    BY EmptyBuffer, FS_EmptySet DEF NoPackets
  <2>3. BufferTrue(StoreAt(NoPackets, 0, 0, chunk), FALSE)
    BY <2>2, EmptyBuffer, FirstInsert
  <2> QED BY <1>4, <2>1, <2>3
<1>7. CASE b.numPacketsInBuffer # 0 /\ ~full
  <2>1. /\ Insert(b, chunk) = StoreAt(b, NextPosition(b), NextLocation(b, chunk.words), chunk)
        /\ OvertakenBy(b, chunk) = past
    BY <1>7 DEF Insert, OvertakenBy
  <2>2. BufferTrue(StoreAt(b, NextPosition(b), NextLocation(b, chunk.words), chunk), past)
    BY <1>2, <1>7, NextInsert
  <2> QED BY <1>4, <2>1, <2>2
<1> QED BY <1>5, <1>6, <1>7

-----------------------------------------------------------------------------
(* The calls *)

LEMMA BufferInitHolds == BufferInit => BufferInv
<1> SUFFICES ASSUME BufferInit PROVE BufferInv
  OBVIOUS
<1>1. BufferTrue(packetBuffer, overtaken) /\ overtaken \in BOOLEAN
  BY EmptyBuffer DEF BufferInit
<1>2. Done \in Calls /\ Done.payloads = <<>>
  BY DEF Done, Calls
<1>3. 0 \in Stamps
  BY BufferConstants DEF Stamps
<1> QED BY <1>1, <1>2, <1>3 DEF BufferInit, BufferInv

\* What RecIn() still has before it.
LEMMA PayloadSequences ==
  ASSUME NEW s \in Seq(Payloads), s # <<>>
  PROVE  /\ Head(s) \in Payloads /\ Tail(s) \in Seq(Payloads)
         /\ Head(s).chunks \in Seq(Nat) /\ Len(Head(s).chunks) \in Nat
         /\ 1 <= Len(Head(s).chunks)
<1>1. Head(s) \in Payloads /\ Tail(s) \in Seq(Payloads)
  OBVIOUS
<1>2. Head(s).chunks \in Seq(Nat) /\ Head(s).chunks # <<>>
  BY <1>1 DEF Payloads
<1> QED BY <1>1, <1>2

LEMMA RecInTrue ==
  ASSUME BufferInv, NEW arrival \in MediaPackets, NEW fresh \in BOOLEAN, RecIn(arrival, fresh)
  PROVE  BufferInv'
<1>1. arrival \in Seq(Payloads) /\ arrival # <<>>
  BY BufferAssumption
<1>2. /\ decoding = Idle /\ receiving' = [payloads |-> arrival, chunk |-> 1, flushed |-> FALSE]
      /\ packetBuffer' = (IF fresh THEN NoPackets ELSE packetBuffer)
      /\ overtaken' = (overtaken /\ ~fresh) /\ new_codec' = (new_codec \/ fresh)
      /\ UNCHANGED <<playedOutTS, decoding, decodedTS>>
  BY DEF RecIn, NobodyInside, Done
<1>3. receiving' \in Calls /\ receiving'.chunk <= Len(Head(receiving'.payloads).chunks)
  BY <1>1, <1>2, PayloadSequences DEF Calls
<1>4. BufferTrue(packetBuffer', overtaken') /\ overtaken' \in BOOLEAN
  <2>1. CASE fresh
    BY <1>2, <2>1, EmptyBuffer
  <2>2. CASE ~fresh
    <3>1. packetBuffer' = packetBuffer /\ overtaken' = overtaken
      BY <1>2, <2>2 DEF BufferInv
    <3> QED BY <3>1 DEF BufferInv
  <2> QED BY <2>1, <2>2
<1>5. new_codec' \in BOOLEAN
  BY <1>2 DEF BufferInv
<1> QED BY <1>2, <1>3, <1>4, <1>5 DEF BufferInv

LEMMA SplitTrue ==
  ASSUME BufferInv, SplitAndInsertPayload
  PROVE  BufferInv'
<1> DEFINE payload == Head(receiving.payloads)
           k == receiving.chunk
           chunk == Chunk(payload, k)
           flushed == receiving.flushed \/ FlushesFor(packetBuffer, chunk)
<1>1. /\ receiving \in Calls /\ receiving.payloads # <<>> /\ decoding = Idle
      /\ k <= Len(payload.chunks) /\ new_codec \in BOOLEAN
      /\ UNCHANGED <<playedOutTS, decoding, decodedTS, received>>
  BY DEF BufferInv, SplitAndInsertPayload
<1>2. /\ payload \in Payloads /\ Tail(receiving.payloads) \in Seq(Payloads)
      /\ payload.chunks \in Seq(Nat) /\ Len(payload.chunks) \in Nat
      /\ k \in Nat /\ k > 0
  BY <1>1, PayloadSequences DEF Calls
<1>3. payload.chunks[k] \in Nat /\ payload.timeStamp \in Nat
      /\ payload.seqNumber \in Nat /\ payload.rcuPlCntr \in Nat
  <2> HIDE DEF payload, k
  <2>1. k \in 1 .. Len(payload.chunks)
    BY <1>1, <1>2
  <2>2. payload.chunks[k] \in Nat
    BY <1>2, <2>1
  <2> QED BY <1>2, <2>2 DEF Payloads
<1>4. \/ /\ receiving' = Done
         /\ UNCHANGED <<packetBuffer, new_codec, overtaken>>
      \/ /\ Fits(chunk)
         /\ packetBuffer' = Insert(packetBuffer, chunk)
         /\ overtaken' = OvertakenBy(packetBuffer, chunk)
         /\ \/ /\ k < Len(payload.chunks)
               /\ receiving' = [receiving EXCEPT !.chunk = k + 1, !.flushed = flushed]
               /\ UNCHANGED new_codec
            \/ /\ receiving' = [Done EXCEPT !.payloads = Tail(receiving.payloads)]
               /\ new_codec' = (new_codec \/ flushed)
  BY DEF SplitAndInsertPayload
<1>5. ASSUME Fits(chunk) PROVE chunk \in Pieces /\ chunk.words <= memorySizeW16
  <2>1. chunk = [words |-> payload.chunks[k],
                 timeStamp |-> (payload.timeStamp + ((k - 1) * FrameSamples)) % TimeWrap,
                 seqNumber |-> payload.seqNumber, rcuPlCntr |-> payload.rcuPlCntr]
    BY DEF Chunk
  <2> HIDE DEF payload, k, chunk
  <2>2. (payload.timeStamp + ((k - 1) * FrameSamples)) % TimeWrap \in Stamps
    <3>1. (k - 1) \in Int /\ FrameSamples \in Int
      BY <1>2, BufferConstants
    <3>2. (k - 1) * FrameSamples \in Int
      BY <3>1
    <3>3. payload.timeStamp + ((k - 1) * FrameSamples) \in Int
      BY <1>3, <3>2
    <3> QED BY <3>3, StampRange
  <2>3. chunk.words > 0 /\ chunk.words <= memorySizeW16
    BY <1>5 DEF Fits
  <2> QED BY <1>3, <2>1, <2>2, <2>3 DEF Pieces
<1> HIDE DEF payload, k, chunk, flushed
<1>6. CASE receiving' = Done /\ UNCHANGED <<packetBuffer, new_codec, overtaken>>
  <2>1. Done \in Calls /\ Done.payloads = <<>>
    BY DEF Done, Calls
  <2> QED BY <1>1, <1>6, <2>1 DEF BufferInv
<1>7. CASE /\ Fits(chunk)
           /\ packetBuffer' = Insert(packetBuffer, chunk)
           /\ overtaken' = OvertakenBy(packetBuffer, chunk)
           /\ \/ /\ k < Len(payload.chunks)
                 /\ receiving' = [receiving EXCEPT !.chunk = k + 1, !.flushed = flushed]
                 /\ UNCHANGED new_codec
              \/ /\ receiving' = [Done EXCEPT !.payloads = Tail(receiving.payloads)]
                 /\ new_codec' = (new_codec \/ flushed)
  <2>1. BufferTrue(packetBuffer', overtaken') /\ overtaken' \in BOOLEAN
    BY <1>5, <1>7, InsertTrue DEF BufferInv
  <2>2. flushed \in BOOLEAN
    BY <1>1 DEF flushed, Calls, FlushesFor
  <2>3. new_codec' \in BOOLEAN
    BY <1>1, <1>7
  <2>4. /\ receiving' \in Calls
        /\ receiving'.payloads # <<>> =>
             receiving'.chunk <= Len(Head(receiving'.payloads).chunks)
    <3>1. CASE /\ k < Len(payload.chunks)
               /\ receiving' = [receiving EXCEPT !.chunk = k + 1, !.flushed = flushed]
      <4>1. k + 1 \in Nat \ {0} /\ k + 1 <= Len(payload.chunks)
        BY <1>2, <3>1
      <4>2. /\ receiving'.payloads = receiving.payloads /\ receiving'.chunk = k + 1
            /\ receiving' \in Calls
        BY <1>1, <2>2, <3>1, <4>1 DEF Calls
      <4> QED BY <4>1, <4>2 DEF payload
    <3>2. CASE receiving' = [Done EXCEPT !.payloads = Tail(receiving.payloads)]
      <4>1. receiving' = [payloads |-> Tail(receiving.payloads), chunk |-> 1, flushed |-> FALSE]
        BY <3>2 DEF Done
      <4> DEFINE rest == Tail(receiving.payloads)
      <4>2. rest \in Seq(Payloads) /\ (rest # <<>> => 1 <= Len(Head(rest).chunks))
        BY <1>2, PayloadSequences
      <4> HIDE DEF rest
      <4>3. /\ receiving'.payloads = rest /\ receiving'.chunk = 1
            /\ receiving' = [payloads |-> rest, chunk |-> 1, flushed |-> FALSE]
        BY <4>1 DEF rest
      <4>4. receiving' \in Calls
        BY <4>2, <4>3 DEF Calls
      <4> QED BY <4>2, <4>3, <4>4
    <3> QED BY <1>7, <3>1, <3>2
  <2> QED BY <1>1, <2>1, <2>3, <2>4 DEF BufferInv
<1> QED BY <1>4, <1>6, <1>7 DEF payload, k, chunk, flushed

LEMMA SignalMcuTrue ==
  ASSUME BufferInv, SignalMcu
  PROVE  BufferInv'
<1> DEFINE b == IF new_codec THEN packetBuffer
                ELSE Without(packetBuffer, TooOld(packetBuffer, playedOutTS))
           position == LowestTimestamp(b, playedOutTS)
<1>1. BufferTrue(b, overtaken)
  <2>1. TooOld(packetBuffer, playedOutTS) \in SUBSET Taken(packetBuffer)
    BY DEF TooOld
  <2> QED BY <2>1, WithoutTrue DEF BufferInv
<1>2. b \in Buffers /\ (b.numPacketsInBuffer = 0 <=> Taken(b) = {})
  BY <1>1, CountedTaken DEF BufferTrue
<1>3. /\ decoding = Idle /\ packetBuffer' = b
      /\ UNCHANGED <<receiving, overtaken, decodedTS, received>>
      /\ \/ UNCHANGED <<new_codec, playedOutTS, decoding>>
         \/ new_codec' = FALSE /\ playedOutTS' = 0 /\ UNCHANGED decoding
         \/ /\ b.numPacketsInBuffer # 0 /\ new_codec' = FALSE /\ UNCHANGED playedOutTS
            /\ \E wanted \in WantedTimes :
                 decoding' = [frames |-> 0, position |-> position, wanted |-> wanted,
                              first |-> b.slot[position].timeStamp, anew |-> new_codec]
  BY DEF SignalMcu, NobodyInside
<1>4. receiving.payloads = <<>>
  BY DEF SignalMcu, NobodyInside, Done
<1>5. new_codec \in BOOLEAN /\ playedOutTS \in Stamps
  BY DEF BufferInv
<1> HIDE DEF b, position
<1>6. 0 \in Stamps
  BY BufferConstants DEF Stamps
<1>7. new_codec' \in BOOLEAN /\ playedOutTS' \in Stamps
  BY <1>3, <1>5, <1>6
<1>8. decoding' # Idle => decoding' \in Decodings /\ decoding'.position \in Taken(b)
  <2>1. CASE decoding' = decoding
    BY <1>3, <2>1
  <2>2. CASE /\ b.numPacketsInBuffer # 0
             /\ \E wanted \in WantedTimes :
                  decoding' = [frames |-> 0, position |-> position, wanted |-> wanted,
                               first |-> b.slot[position].timeStamp, anew |-> new_codec]
    <3>1. position \in Taken(b) /\ position \in Slots
      BY <1>2, <1>5, <2>2, SoonestTaken, TakenSlots DEF position
    <3>2. b.slot[position].timeStamp \in Stamps
      BY <1>2, <3>1, TakenSlots DEF Stored
    <3>3. PICK wanted \in WantedTimes :
            decoding' = [frames |-> 0, position |-> position, wanted |-> wanted,
                         first |-> b.slot[position].timeStamp, anew |-> new_codec]
      BY <2>2
    <3>4. wanted \in Nat
      BY BufferAssumption
    <3> QED BY <1>5, <3>1, <3>2, <3>3, <3>4 DEF Decodings
  <2> QED BY <1>3, <2>1, <2>2
<1> QED BY <1>1, <1>3, <1>4, <1>7, <1>8 DEF BufferInv

LEMMA ExtractTrue ==
  ASSUME BufferInv, Extract
  PROVE  BufferInv'
<1> DEFINE taken == packetBuffer.slot[decoding.position]
           b == Without(packetBuffer, {decoding.position})
           next == LowestTimestamp(b, taken.timeStamp)
           goesOn == /\ ((taken.timeStamp - decoding.first) % TimeWrap) + FrameSamples
                          < decoding.wanted
                     /\ b.numPacketsInBuffer > 0
                     /\ Follows(b.slot[next], taken, decoding.first)
<1>1. /\ decoding # Idle /\ packetBuffer' = b /\ decodedTS' = taken.timeStamp
      /\ IF goesOn
         THEN /\ decoding' = [decoding EXCEPT !.frames = @ + 1, !.position = next,
                                              !.anew = FALSE]
              /\ UNCHANGED playedOutTS
         ELSE /\ decoding' = Idle
              /\ playedOutTS' = (decoding.first + (decoding.frames + 1) * FrameSamples)
                                  % TimeWrap
      /\ UNCHANGED <<new_codec, receiving, overtaken, received>>
  BY DEF Extract
<1>2. goesOn => b.numPacketsInBuffer > 0
  OBVIOUS
<1>3. /\ decoding \in Decodings /\ decoding.position \in Taken(packetBuffer)
      /\ BufferTrue(packetBuffer, overtaken) /\ packetBuffer \in Buffers
      /\ playedOutTS \in Stamps
  BY <1>1 DEF BufferInv, BufferTrue
<1>4. BufferTrue(b, overtaken)
  <2>1. {decoding.position} \in SUBSET Taken(packetBuffer)
    BY <1>3
  <2> QED BY <1>3, <2>1, WithoutTrue
<1>5. taken.timeStamp \in Stamps
  BY <1>3, TakenSlots DEF Stored
<1>6. b \in Buffers /\ (b.numPacketsInBuffer = 0 <=> Taken(b) = {})
  BY <1>4, CountedTaken DEF BufferTrue
<1> HIDE DEF b, goesOn, taken
<1>7. goesOn => next \in Taken(b) /\ next \in Slots
  BY <1>2, <1>5, <1>6, SoonestTaken, TakenSlots
<1> HIDE DEF next
<1>8. playedOutTS' \in Stamps
  <2>1. CASE goesOn
    BY <1>1, <1>3, <2>1
  <2>2. CASE ~goesOn
    <3>1. decoding.first \in Int /\ decoding.frames + 1 \in Int /\ FrameSamples \in Int
      BY <1>3, BufferConstants DEF Decodings, Stamps
    <3>2. (decoding.frames + 1) * FrameSamples \in Int
      BY <3>1
    <3>3. decoding.first + (decoding.frames + 1) * FrameSamples \in Int
      BY <3>1, <3>2
    <3> QED BY <1>1, <2>2, <3>3, StampRange
  <2> QED BY <2>1, <2>2
<1>9. decoding' # Idle => decoding' \in Decodings /\ decoding'.position \in Taken(b)
  <2>1. CASE goesOn
    <3> DEFINE f == decoding.frames + 1
    <3>1. f \in Nat
      BY <1>3 DEF Decodings
    <3>2. decoding' = [decoding EXCEPT !.frames = f, !.position = next, !.anew = FALSE]
      BY <1>1, <2>1
    <3> HIDE DEF f
    <3> QED BY <1>3, <1>7, <2>1, <3>1, <3>2 DEF Decodings
  <2> QED BY <1>1, <2>1
<1>10. receiving.payloads = <<>>
  BY <1>1 DEF BufferInv
<1> QED BY <1>1, <1>4, <1>5, <1>8, <1>9, <1>10 DEF BufferInv

LEMMA ConcealTrue ==
  ASSUME BufferInv, Conceal
  PROVE  BufferInv'
<1>1. playedOutTS + FrameSamples \in Int
  BY BufferConstants DEF BufferInv, Stamps
<1>2. playedOutTS' \in Stamps
  BY <1>1, StampRange DEF Conceal
<1> QED BY <1>2 DEF BufferInv, Conceal

LEMMA BufferStep == BufferInv /\ [BufferNext]_bufferVars => BufferInv'
<1> SUFFICES ASSUME BufferInv, [BufferNext]_bufferVars PROVE BufferInv'
  OBVIOUS
<1>1. CASE \E arrival \in MediaPackets, fresh \in BOOLEAN : RecIn(arrival, fresh)
  BY <1>1, RecInTrue
<1>2. CASE SplitAndInsertPayload
  BY <1>2, SplitTrue
<1>3. CASE SignalMcu
  BY <1>3, SignalMcuTrue
<1>4. CASE Extract
  BY <1>4, ExtractTrue
<1>5. CASE Conceal
  BY <1>5, ConcealTrue
<1>6. CASE UNCHANGED bufferVars
  BY <1>6 DEF BufferInv, bufferVars
<1> QED BY <1>1, <1>2, <1>3, <1>4, <1>5, <1>6 DEF BufferNext

LEMMA BufferAlways == BufferSpec => []BufferInv
BY BufferInitHolds, BufferStep, PTL DEF BufferSpec

(* Every variable of the packet buffer keeps its type: no more payloads than *)
(* slots, positions in range, timestamps of their width.                     *)
THEOREM BufferTypeCorrect == BufferSpec => []BufferTypeOK
<1>1. BufferInv => BufferTypeOK
  <2> SUFFICES ASSUME BufferInv PROVE BufferTypeOK
    OBVIOUS
  <2>1. packetBuffer \in Buffers /\ packetBuffer.numPacketsInBuffer = Cardinality(Taken(packetBuffer))
    BY DEF BufferInv, BufferTrue
  <2>2. packetBuffer.numPacketsInBuffer \in 0 .. maxInsertPositions
    BY <2>1, TakenSlots, BufferConstants
  <2> QED BY <2>1, <2>2 DEF BufferTypeOK, BufferInv, Buffers, Stamps
<1> QED BY <1>1, BufferAlways, PTL

(* The buffer knows how many payloads it has, each lies in the memory, and   *)
(* none is written over while the memory is not begun again past one that    *)
(* waits, for every number of slots, size of the memory and sequence of      *)
(* packets.                                                                  *)
THEOREM PayloadsStayIntact == BufferSpec => []PayloadsIntact
<1>1. BufferInv => PayloadsIntact
  <2> SUFFICES ASSUME BufferInv PROVE PayloadsIntact
    OBVIOUS
  <2> DEFINE b == packetBuffer
  <2>1. /\ b \in Buffers /\ b.numPacketsInBuffer = Cardinality(Taken(b))
        /\ \A i \in Taken(b) : Ends(b.slot[i]) <= memorySizeW16
        /\ overtaken \/ InLaps(b)
    BY DEF BufferInv, BufferTrue
  <2> HIDE DEF b
  <2>2. ASSUME InLaps(b) PROVE Apart(b)
    <3> SUFFICES ASSUME NEW i \in Taken(b), NEW j \in Taken(b), i # j
                 PROVE  \/ Ends(b.slot[i]) <= b.slot[j].location
                        \/ Ends(b.slot[j]) <= b.slot[i].location
      BY DEF Apart
    <3>1. /\ b.insertPosition \in Slots /\ i \in Slots /\ j \in Slots
          /\ b.currentMemoryPos \in Nat
      BY <2>1, TakenSlots DEF Buffers
    <3>2. Older(b, i, j) \/ Older(b, j, i)
      <4>1. /\ Distance(b.insertPosition, i) \in Nat /\ Distance(b.insertPosition, j) \in Nat
            /\ Distance(b.insertPosition, i) # Distance(b.insertPosition, j)
        BY <3>1, DistanceRange
      <4> QED BY <4>1 DEF Older
    <3>3. /\ Ends(b.slot[i]) \in Nat /\ Ends(b.slot[j]) \in Nat
          /\ b.slot[i].location \in Nat /\ b.slot[j].location \in Nat
      BY <2>1, TakenSlots
    <3> QED BY <2>2, <3>1, <3>2, <3>3 DEF InLaps, LapsApart, LapsInOrder, Behind
  <2> QED BY <2>1, <2>2 DEF PayloadsIntact, b
<1> QED BY <1>1, BufferAlways, PTL
=============================================================================
