----------------------------- MODULE SampleQueue -----------------------------
(***************************************************************************)
(* What the ring buffer promises: a tape of samples, of which the last     *)
(* `capacity` are kept, and a read place that moves over them in either    *)
(* direction.  Samples are numbered in the order they are written; numbers *)
(* below 0 are the zeros that an initialised buffer holds.                 *)
(***************************************************************************)
EXTENDS Integers

CONSTANTS capacity, Counts, Moves

VARIABLES written,   \* samples written since it was initialised
          place,     \* the next sample to be read
          given,     \* the samples the last call gave
          returned   \* and the number it returned

queueVars == <<written, place, given, returned>>

readable == written - place
free == capacity - readable

Start == /\ written = 0 /\ place = 0
         /\ given = <<>> /\ returned = 0

Reset == /\ written' = 0 /\ place' = 0
         /\ given' = <<>> /\ returned' = 0

(* As many samples are taken as there is room for. *)
Put(n) == LET count == IF n < free THEN n ELSE free
          IN  /\ written' = written + count /\ returned' = count
              /\ UNCHANGED place /\ given' = <<>>

(* The oldest samples that have not been read, in order. *)
Get(n) == LET count == IF n < readable THEN n ELSE readable
          IN  /\ given' = [i \in 1 .. count |-> place + i - 1]
              /\ place' = place + count /\ returned' = count
              /\ UNCHANGED written

(* The read place skips samples, or goes back to some that are still kept. *)
Seek(k) == LET count == IF k > readable THEN readable
                        ELSE IF k < -free THEN -free ELSE k
           IN  /\ place' = place + count /\ returned' = count
               /\ UNCHANGED written /\ given' = <<>>

QueueNext == \/ Reset
             \/ \E n \in Counts : Put(n) \/ Get(n)
             \/ \E k \in Moves : Seek(k)

QueueSpec == Start /\ [][QueueNext]_queueVars
=============================================================================
