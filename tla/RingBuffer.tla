------------------------------ MODULE RingBuffer ------------------------------
(***************************************************************************)
(* The ring buffer of the audio processing module (ring_buffer.c), which   *)
(* its callers protect.  Both positions may be one past the last cell; a   *)
(* flag tells whether the write position is ahead on the same turn of the  *)
(* ring or on the next.  A call that is given no data does nothing.        *)
(***************************************************************************)
EXTENDS Integers

CONSTANTS element_count,
          Counts,        \* the numbers of elements asked for
          Moves,         \* and the moves of the read position
          MaxWritten     \* bound: elements written since the last initialisation

ASSUME RingAssumption == /\ element_count \in Nat
                         /\ Counts \subseteq Nat /\ Moves \subseteq Int
                         /\ MaxWritten \in Nat

VARIABLES read_pos, write_pos, rw_wrap,
          data,        \* the number of the element each cell holds
          given, returned,
          elements     \* how many have been written

ringVars == <<read_pos, write_pos, rw_wrap, data, given, returned, elements>>

Cells == 0 .. element_count - 1

(* An initialised buffer holds zeros: elements with numbers below 0. *)
Zeros == [j \in Cells |-> j - element_count]

RingInit == /\ read_pos = 0 /\ write_pos = 0 /\ rw_wrap = "SAME_WRAP"
            /\ data = Zeros /\ given = <<>> /\ returned = 0 /\ elements = 0

-----------------------------------------------------------------------------
(* A variant with a mistake, see README.md. *)

Wrapped_AtEnd(pos) ==
  IF pos >= element_count THEN read_pos' = pos - element_count /\ rw_wrap' = "SAME_WRAP"
  ELSE IF pos < 0 THEN read_pos' = pos + element_count /\ rw_wrap' = "DIFF_WRAP"
  ELSE read_pos' = pos /\ UNCHANGED rw_wrap

-----------------------------------------------------------------------------
available_read == IF rw_wrap = "SAME_WRAP" THEN write_pos - read_pos
                  ELSE element_count - read_pos + write_pos
available_write == element_count - available_read

InitBuffer == /\ read_pos' = 0 /\ write_pos' = 0 /\ rw_wrap' = "SAME_WRAP"
              /\ data' = Zeros /\ given' = <<>> /\ returned' = 0 /\ elements' = 0

(* WebRtc_WriteBuffer(): up to the end of the ring, then from its beginning. *)
WriteBuffer(n) ==
  LET count == IF available_write < n THEN available_write ELSE n
      margin == element_count - write_pos
      wraps == count > margin
      InFront(j) == wraps /\ j < count - margin
      Behind(j) == j >= write_pos /\ (wraps \/ j < write_pos + count)
  IN  /\ elements + count <= MaxWritten
      /\ data' = [j \in Cells |-> IF InFront(j) THEN elements + margin + j
                                  ELSE IF Behind(j) THEN elements + j - write_pos
                                  ELSE data[j]]
      /\ write_pos' = IF wraps THEN count - margin ELSE write_pos + count
      /\ rw_wrap' = IF wraps THEN "DIFF_WRAP" ELSE rw_wrap
      /\ elements' = elements + count /\ returned' = count
      /\ given' = <<>> /\ UNCHANGED read_pos

(* The part of WebRtc_MoveReadPtr() behind its limits. *)
Wrapped(pos) ==
  IF pos > element_count THEN read_pos' = pos - element_count /\ rw_wrap' = "SAME_WRAP"
  ELSE IF pos < 0 THEN read_pos' = pos + element_count /\ rw_wrap' = "DIFF_WRAP"
  ELSE read_pos' = pos /\ UNCHANGED rw_wrap

(* WebRtc_ReadBuffer(): from one region or two. *)
ReadBuffer(n) ==
  LET count == IF available_read < n THEN available_read ELSE n
      margin == element_count - read_pos
  IN  /\ given' = [i \in 1 .. count |-> IF i <= margin THEN data[read_pos + i - 1]
                                        ELSE data[i - margin - 1]]
      /\ returned' = count
      /\ Wrapped(read_pos + count)
      /\ UNCHANGED <<write_pos, data, elements>>

MoveReadPtr(k) ==
  LET count == IF k > available_read THEN available_read
               ELSE IF k < -available_write THEN -available_write ELSE k
  IN  /\ returned' = count /\ given' = <<>>
      /\ Wrapped(read_pos + count)
      /\ UNCHANGED <<write_pos, data, elements>>

RingNext == \/ InitBuffer
            \/ \E n \in Counts : WriteBuffer(n) \/ ReadBuffer(n)
            \/ \E k \in Moves : MoveReadPtr(k)

RingSpec == RingInit /\ [][RingNext]_ringVars
-----------------------------------------------------------------------------
RingTypeOK ==
  /\ read_pos \in 0 .. element_count /\ write_pos \in 0 .. element_count
  /\ rw_wrap \in {"SAME_WRAP", "DIFF_WRAP"}
  /\ data \in [Cells -> Int] /\ elements \in Nat

(* The ring is a queue of samples whose read place is as far behind the end *)
(* as there are elements to read: reads give what was written, in order and *)
(* once, and a place that is moved back finds the samples read before,      *)
(* around the ring and with either position at its end.                     *)
Queue == INSTANCE SampleQueue WITH capacity <- element_count, written <- elements,
                                   place <- elements - available_read

IsSampleQueue == Queue!QueueSpec
=============================================================================
