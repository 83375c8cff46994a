------------------------------- MODULE RWLock -------------------------------
(***************************************************************************)
(* What RWLockWrapper promises its callers (rw_lock_wrapper.h): any number *)
(* of readers or one writer, and a writer that has to wait keeps new       *)
(* readers out.  Nothing is said of how a thread waits.                    *)
(***************************************************************************)
CONSTANT Threads

VARIABLES readers,  \* threads that hold the lock shared
          writers,  \* threads that hold the lock exclusively
          queued    \* threads that wait to hold it exclusively

vars == <<readers, writers, queued>>

Idle(t) == t \notin readers \cup writers \cup queued

Init == readers = {} /\ writers = {} /\ queued = {}

AcquireShared(t) ==
  /\ Idle(t) /\ writers = {} /\ queued = {}
  /\ readers' = readers \cup {t}
  /\ UNCHANGED <<writers, queued>>

ReleaseShared(t) ==
  /\ t \in readers
  /\ readers' = readers \ {t}
  /\ UNCHANGED <<writers, queued>>

QueueWriter(t) ==
  /\ Idle(t) /\ readers \cup writers # {}
  /\ queued' = queued \cup {t}
  /\ UNCHANGED <<readers, writers>>

AcquireExclusive(t) ==
  /\ Idle(t) \/ t \in queued
  /\ readers = {} /\ writers = {}
  /\ writers' = {t}
  /\ queued' = queued \ {t}
  /\ UNCHANGED readers

ReleaseExclusive(t) ==
  /\ t \in writers
  /\ writers' = writers \ {t}
  /\ UNCHANGED <<readers, queued>>

Next == \E t \in Threads :
          \/ AcquireShared(t) \/ ReleaseShared(t)
          \/ QueueWriter(t) \/ AcquireExclusive(t) \/ ReleaseExclusive(t)

Spec == Init /\ [][Next]_vars
=============================================================================
