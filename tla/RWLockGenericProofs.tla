------------------------- MODULE RWLockGenericProofs -------------------------
(***************************************************************************)
(* Proofs about RWLockGeneric for every finite set of threads: the         *)
(* counters count, readers and writers exclude each other, no wake-up is   *)
(* lost but by the late ResetEvent(), and the lock implements RWLock.      *)
(***************************************************************************)
EXTENDS RWLockGeneric, FiniteSetTheorems, TLAPS

(* A reader no WakeAll() was called for waits for the event of the next one. *)
UncalledWait == \A t \in At("sleepR") \ called : event[t] = NextWakeAllEvent

(* What the proof keeps true.  Exclusion alone is not inductive: the guards *)
(* read the counters, so the counters have to be tied to the threads; and   *)
(* NoLostWakeup needs to know which event a reader sleeps on.               *)
IInv == TypeOK /\ CountersMatch /\ Exclusion /\ NoLostWakeup /\ UncalledWait

ReaderPlaces == {"sleepR", "leaveR", "resetR", "wokenR"}
WriterPlaces == {"sleepW", "leaveW", "wokenW"}

In(L) == {t \in Threads : pc[t] \in L}
One(loc, L) == IF loc \in L THEN 1 ELSE 0

(* The size of a set of threads, and what a thread that comes or goes does  *)
(* to it.                                                                   *)
LEMMA Counting ==
  ASSUME NEW S \in SUBSET Threads, NEW t \in Threads
  PROVE  /\ Cardinality(S) \in Nat
         /\ Cardinality(S) = 0 <=> S = {}
         /\ t \notin S => Cardinality(S \cup {t}) = Cardinality(S) + 1
         /\ t \in S => Cardinality(S \ {t}) = Cardinality(S) - 1
<1>1. IsFiniteSet(S)
  BY ThreadsAssumption, FS_Subset
<1> QED
  BY <1>1, FS_CardinalityType, FS_EmptySet, FS_AddElement, FS_RemoveElement

(* A thread that moves is counted where it arrives and no more where it     *)
(* leaves.                                                                  *)
LEMMA Moving ==
  ASSUME TypeOK, NEW t \in Threads, NEW loc \in Locations, Goto(t, loc), NEW L
  PROVE  /\ Cardinality(In(L)) \in Nat
         /\ Cardinality(In(L)') = Cardinality(In(L)) + One(loc, L) - One(pc[t], L)
<1>1. In(L) \in SUBSET Threads /\ (t \in In(L) <=> pc[t] \in L)
  BY DEF In
<1>2. Cardinality(In(L)) \in Nat
  BY <1>1, Counting
<1>3. In(L)' = IF loc \in L THEN In(L) \cup {t} ELSE In(L) \ {t}
  BY DEF In, Goto, TypeOK
<1>4. CASE loc \in L /\ pc[t] \in L
  <2>1. In(L)' = In(L)
    BY <1>1, <1>3, <1>4
  <2> QED BY <1>2, <1>4, <2>1 DEF One
<1>5. CASE loc \in L /\ pc[t] \notin L
  <2>1. Cardinality(In(L) \cup {t}) = Cardinality(In(L)) + 1
    BY <1>1, <1>5, Counting
  <2> QED BY <1>2, <1>3, <1>5, <2>1 DEF One
<1>6. CASE loc \notin L /\ pc[t] \in L
  <2>1. Cardinality(In(L) \ {t}) = Cardinality(In(L)) - 1
    BY <1>1, <1>6, Counting
  <2> QED BY <1>2, <1>3, <1>6, <2>1 DEF One
<1>7. CASE loc \notin L /\ pc[t] \notin L
  <2>1. In(L)' = In(L)
    BY <1>1, <1>3, <1>7
  <2> QED BY <1>2, <1>7, <2>1 DEF One
<1> QED BY <1>4, <1>5, <1>6, <1>7

(* The sets of the lock as places of threads. *)
LEMMA Places ==
  /\ At("reading") = In({"reading"}) /\ At("writing") = In({"writing"})
  /\ WaitingReaders = In(ReaderPlaces) /\ WaitingWriters = In(WriterPlaces)
BY DEF At, In, WaitingReaders, WaitingWriters, ReaderPlaces, WriterPlaces

LEMMA PlacesNext ==
  /\ At("reading")' = In({"reading"})' /\ At("writing")' = In({"writing"})'
  /\ WaitingReaders' = In(ReaderPlaces)' /\ WaitingWriters' = In(WriterPlaces)'
BY DEF At, In, WaitingReaders, WaitingWriters, ReaderPlaces, WriterPlaces

(* What a step does to the counters: each follows the places it counts, and *)
(* nobody takes a lock that is held.                                        *)
Counts(t, loc) ==
  /\ Goto(t, loc)
  /\ readers_active_' = readers_active_ + One(loc, {"reading"}) - One(pc[t], {"reading"})
  /\ readers_waiting_' = readers_waiting_ + One(loc, ReaderPlaces) - One(pc[t], ReaderPlaces)
  /\ writers_waiting_' = writers_waiting_ + One(loc, WriterPlaces) - One(pc[t], WriterPlaces)
  /\ loc = "writing" => writer_active_' = TRUE
  /\ loc # "writing" /\ pc[t] = "writing" => writer_active_' = FALSE
  /\ loc # "writing" /\ pc[t] # "writing" => writer_active_' = writer_active_
  /\ loc = "writing" => ~writer_active_ /\ readers_active_ = 0
  /\ loc = "reading" => ~writer_active_

(* A counter above zero says that somebody is there. *)
LEMMA CountersTell ==
  ASSUME TypeOK, CountersMatch
  PROVE  /\ writers_waiting_ > 0 <=> WaitingWriters # {}
         /\ readers_waiting_ > 0 <=> WaitingReaders # {}
         /\ readers_active_ > 0 <=> At("reading") # {}
<1>1. \A S \in SUBSET Threads : Cardinality(S) = 0 <=> S = {}
  BY ThreadsAssumption, FS_Subset, FS_EmptySet
<1>2. /\ WaitingWriters \in SUBSET Threads /\ WaitingReaders \in SUBSET Threads
      /\ At("reading") \in SUBSET Threads
  BY DEF At, WaitingWriters, WaitingReaders
<1>3. /\ Cardinality(WaitingWriters) = 0 <=> WaitingWriters = {}
      /\ Cardinality(WaitingReaders) = 0 <=> WaitingReaders = {}
      /\ Cardinality(At("reading")) = 0 <=> At("reading") = {}
  BY <1>1, <1>2
<1> QED BY <1>3 DEF TypeOK, CountersMatch

(* Such a step keeps the counters right and the lock exclusive. *)
LEMMA CountsStep ==
  ASSUME TypeOK, CountersMatch, Exclusion,
         NEW t \in Threads, NEW loc \in Locations, Counts(t, loc)
  PROVE  /\ pc' \in [Threads -> Locations] /\ writer_active_' \in BOOLEAN
         /\ readers_active_' \in Nat /\ readers_waiting_' \in Nat /\ writers_waiting_' \in Nat
         /\ CountersMatch' /\ Exclusion'
<1>1. Goto(t, loc) /\ pc' \in [Threads -> Locations]
  BY DEF Counts, Goto, TypeOK
<1>2. readers_active_' = Cardinality(At("reading")')
  <2>1. Cardinality(In({"reading"})') =
          Cardinality(In({"reading"})) + One(loc, {"reading"}) - One(pc[t], {"reading"})
    BY <1>1, Moving
  <2> QED BY <2>1, Places, PlacesNext DEF Counts, CountersMatch
<1>3. readers_waiting_' = Cardinality(WaitingReaders')
  <2>1. Cardinality(In(ReaderPlaces)') =
          Cardinality(In(ReaderPlaces)) + One(loc, ReaderPlaces) - One(pc[t], ReaderPlaces)
    BY <1>1, Moving
  <2> QED BY <2>1, Places, PlacesNext DEF Counts, CountersMatch
<1>4. writers_waiting_' = Cardinality(WaitingWriters')
  <2>1. Cardinality(In(WriterPlaces)') =
          Cardinality(In(WriterPlaces)) + One(loc, WriterPlaces) - One(pc[t], WriterPlaces)
    BY <1>1, Moving
  <2> QED BY <2>1, Places, PlacesNext DEF Counts, CountersMatch
<1>5. readers_active_' \in Nat /\ readers_waiting_' \in Nat /\ writers_waiting_' \in Nat
  <2>1. /\ At("reading")' \in SUBSET Threads /\ WaitingReaders' \in SUBSET Threads
        /\ WaitingWriters' \in SUBSET Threads
    BY DEF At, WaitingReaders, WaitingWriters
  <2>2. \A S \in SUBSET Threads : Cardinality(S) \in Nat
    BY ThreadsAssumption, FS_Subset, FS_CardinalityType
  <2> QED BY <1>2, <1>3, <1>4, <2>1, <2>2
<1>6. /\ At("reading")' = IF loc = "reading" THEN At("reading") \cup {t} ELSE At("reading") \ {t}
      /\ At("writing")' = IF loc = "writing" THEN At("writing") \cup {t} ELSE At("writing") \ {t}
  BY <1>1 DEF At, Goto, TypeOK
<1>7. writer_active_' \in BOOLEAN
  BY DEF Counts, TypeOK
<1>8. /\ loc = "writing" => At("writing") = {} /\ At("reading") = {}
      /\ loc = "reading" => At("writing") = {}
  BY CountersTell DEF Counts, CountersMatch, TypeOK
<1>9. Exclusion'
  BY <1>6, <1>8 DEF Exclusion
<1>10. writer_active_' <=> At("writing")' # {}
  <2>1. CASE loc = "writing"
    BY <1>6, <2>1 DEF Counts
  <2>2. CASE loc # "writing" /\ pc[t] = "writing"
    <3>1. At("writing") = {t}
      BY <2>2 DEF Exclusion, At
    <3> QED BY <1>6, <2>2, <3>1 DEF Counts
  <2>3. CASE loc # "writing" /\ pc[t] # "writing"
    <3>1. t \notin At("writing")
      BY <2>3 DEF At
    <3>2. At("writing")' = At("writing")
      BY <1>6, <2>3, <3>1
    <3>3. writer_active_' = writer_active_
      BY <2>3 DEF Counts, TypeOK
    <3> QED BY <3>2, <3>3 DEF CountersMatch
  <2> QED BY <2>1, <2>2, <2>3
<1> QED BY <1>1, <1>2, <1>3, <1>4, <1>5, <1>7, <1>9, <1>10 DEF CountersMatch

(* The rest of the type invariant: the two condition variables. *)
ConditionsOK ==
  /\ wake \in BOOLEAN /\ eventID_ \in AllEvents /\ up \subseteq AllEvents
  /\ event \in [Threads -> AllEvents]
  /\ called \subseteq At("sleepR") /\ erased \subseteq called

Wakes == NoLostWakeup /\ UncalledWait

LEMMA StepKeepsIInv ==
  ASSUME IInv, NEW t \in Threads, NEW loc \in Locations, Counts(t, loc),
         ConditionsOK', Wakes'
  PROVE  IInv'
<1>1. /\ pc' \in [Threads -> Locations] /\ writer_active_' \in BOOLEAN
      /\ readers_active_' \in Nat /\ readers_waiting_' \in Nat /\ writers_waiting_' \in Nat
      /\ CountersMatch' /\ Exclusion'
  BY CountsStep DEF IInv
<1> QED BY <1>1 DEF IInv, TypeOK, ConditionsOK, Wakes

(* Where a thread that moves shows up. *)
LEMMA Arrives ==
  ASSUME TypeOK, NEW t \in Threads, NEW loc \in Locations, Goto(t, loc)
  PROVE  /\ pc'[t] = loc
         /\ \A u \in Threads \ {t} : pc'[u] = pc[u]
         /\ \A l \in Locations :
              At(l)' = IF l = loc THEN At(l) \cup {t} ELSE At(l) \ {t}
BY DEF Goto, TypeOK, At
-----------------------------------------------------------------------------
(* A writer that asks for the lock, or tries again, and has to sleep. *)
LEMMA ExclusiveSleeps ==
  ASSUME IInv, NEW t \in Threads, AcquireLockExclusive(t) \/ ResumeExclusive(t), WriteBlocked
  PROVE  IInv'
<1>1. /\ pc[t] \in {"idle", "wokenW"} /\ Goto(t, "sleepW")
      /\ writers_waiting_' = writers_waiting_ + (IF pc[t] = "idle" THEN 1 ELSE 0)
      /\ UNCHANGED <<readers_active_, writer_active_, readers_waiting_, wake, readVars>>
  BY DEF AcquireLockExclusive, ResumeExclusive, SleepToWrite, IInv, TypeOK
<1>2. Counts(t, "sleepW")
  BY <1>1 DEF Counts, One, ReaderPlaces, WriterPlaces, IInv, TypeOK
<1>3. At("sleepR")' = At("sleepR") /\ At("setAll")' = At("setAll")
  BY <1>1, Arrives DEF IInv, Locations, At
<1>4. ConditionsOK'
  BY <1>1, <1>3 DEF ConditionsOK, readVars, IInv, TypeOK
<1>5. WritersAwaited'
  BY <1>1 DEF WritersAwaited, Locked, WriteBlocked
<1>6. ReadersAwaited' /\ UncalledWait'
  BY <1>1, <1>3 DEF ReadersAwaited, UncalledWait, Signalled, ReadBlocked, NextWakeAllEvent,
                    readVars, IInv, NoLostWakeup, TypeOK
<1> QED BY <1>2, <1>4, <1>5, <1>6, StepKeepsIInv DEF Wakes, NoLostWakeup, Locations

(* A writer that takes the lock. *)
LEMMA ExclusiveTakes ==
  ASSUME IInv, NEW t \in Threads, AcquireLockExclusive(t) \/ ResumeExclusive(t), ~WriteBlocked
  PROVE  IInv'
<1>1. /\ pc[t] \in {"idle", "wokenW"} /\ Goto(t, "writing")
      /\ writers_waiting_' = writers_waiting_ - (IF pc[t] = "idle" THEN 0 ELSE 1)
      /\ writer_active_' = TRUE
      /\ UNCHANGED <<readers_active_, readers_waiting_, wake, readVars>>
  BY DEF AcquireLockExclusive, ResumeExclusive, Proceed, IInv, TypeOK
<1>2. Counts(t, "writing")
  BY <1>1 DEF Counts, One, ReaderPlaces, WriterPlaces, WriteBlocked, IInv, TypeOK
<1>3. At("sleepR")' = At("sleepR") /\ At("setAll")' = At("setAll")
  BY <1>1, Arrives DEF IInv, Locations, At
<1>4. ConditionsOK'
  BY <1>1, <1>3 DEF ConditionsOK, readVars, IInv, TypeOK
<1>5. WritersAwaited'
  BY <1>1 DEF WritersAwaited, Locked
<1>6. ReadersAwaited' /\ UncalledWait'
  BY <1>1, <1>3 DEF ReadersAwaited, UncalledWait, Signalled, ReadBlocked, NextWakeAllEvent,
                    readVars, IInv, NoLostWakeup
<1> QED BY <1>2, <1>4, <1>5, <1>6, StepKeepsIInv DEF Wakes, NoLostWakeup, Locations

(* A reader that asks for the lock, or tries again, and has to sleep. *)
LEMMA SharedSleeps ==
  ASSUME IInv, NEW t \in Threads, AcquireLockShared(t) \/ ResumeShared(t), ReadBlocked
  PROVE  IInv'
<1>1. /\ pc[t] \in {"idle", "wokenR"} /\ Goto(t, "sleepR")
      /\ readers_waiting_' = readers_waiting_ + (IF pc[t] = "idle" THEN 1 ELSE 0)
      /\ event' = [event EXCEPT ![t] = NextWakeAllEvent]
      /\ UNCHANGED <<readers_active_, writer_active_, writers_waiting_,
                     wake, eventID_, up, called, erased>>
  BY DEF AcquireLockShared, ResumeShared, SleepToRead, IInv, TypeOK
<1>2. Counts(t, "sleepR")
  BY <1>1 DEF Counts, One, ReaderPlaces, WriterPlaces, IInv, TypeOK
<1>3. /\ At("sleepR")' = At("sleepR") \cup {t} /\ t \notin At("sleepR")
      /\ At("setAll")' = At("setAll") /\ At("setWake")' = At("setWake")
      /\ At("sleepW")' = At("sleepW") /\ At("leaveW")' = At("leaveW")
      /\ At("wokenW")' = At("wokenW")
  BY <1>1, Arrives DEF IInv, Locations, At
<1>4. /\ event'[t] = NextWakeAllEvent /\ event' \in [Threads -> AllEvents]
      /\ \A u \in Threads \ {t} : event'[u] = event[u]
  BY <1>1 DEF IInv, TypeOK, NextWakeAllEvent, Other, AllEvents
<1>5. ConditionsOK'
  BY <1>1, <1>3, <1>4 DEF ConditionsOK, IInv, TypeOK
<1>6. WritersAwaited'
  BY <1>1, <1>3 DEF WritersAwaited, Locked, IInv, NoLostWakeup
<1>7. ReadersAwaited' /\ UncalledWait'
  <2>1. \A u \in At("sleepR") : u \in Threads \ {t}
    BY <1>3 DEF At
  <2>2. t \notin called' /\ t \notin erased'
    BY <1>1, <1>3 DEF IInv, TypeOK
  <2> QED BY <1>1, <1>3, <1>4, <2>1, <2>2
          DEF ReadersAwaited, UncalledWait, Signalled, ReadBlocked, NextWakeAllEvent,
              IInv, NoLostWakeup
<1> QED BY <1>2, <1>5, <1>6, <1>7, StepKeepsIInv DEF Wakes, NoLostWakeup, Locations

(* A reader that takes the lock: no writer waits, and no reader sleeps but  *)
(* those whose signal is on its way.                                        *)
LEMMA SharedTakes ==
  ASSUME IInv, NEW t \in Threads, AcquireLockShared(t) \/ ResumeShared(t), ~ReadBlocked
  PROVE  IInv'
<1>1. /\ pc[t] \in {"idle", "wokenR"} /\ Goto(t, "reading")
      /\ readers_waiting_' = readers_waiting_ - (IF pc[t] = "idle" THEN 0 ELSE 1)
      /\ readers_active_' = readers_active_ + 1
      /\ UNCHANGED <<writer_active_, writers_waiting_, wake, readVars>>
  BY DEF AcquireLockShared, ResumeShared, Proceed, IInv, TypeOK
<1>2. Counts(t, "reading")
  BY <1>1 DEF Counts, One, ReaderPlaces, WriterPlaces, ReadBlocked, IInv, TypeOK
<1>3. /\ At("sleepR")' = At("sleepR") /\ At("setAll")' = At("setAll")
      /\ At("sleepW")' = At("sleepW")
  BY <1>1, Arrives DEF IInv, Locations, At
<1>4. ConditionsOK'
  BY <1>1, <1>3 DEF ConditionsOK, readVars, IInv, TypeOK
<1>5. WritersAwaited'
  <2>1. ~(writers_waiting_ > 0)
    BY DEF ReadBlocked
  <2>2. At("sleepW") = {}
    BY <2>1, CountersTell DEF IInv, WaitingWriters
  <2> QED BY <1>3, <2>2 DEF WritersAwaited
<1>6. ReadersAwaited' /\ UncalledWait'
  BY <1>1, <1>3 DEF ReadersAwaited, UncalledWait, Signalled, ReadBlocked, NextWakeAllEvent,
                    readVars, IInv, NoLostWakeup
<1> QED BY <1>2, <1>4, <1>5, <1>6, StepKeepsIInv DEF Wakes, NoLostWakeup, Locations

(* A release that calls Wake() when there is a writer to wake: a writer who *)
(* sleeps is counted, so that the event will be signalled.                  *)
LEMMA WakeOneKeeps ==
  ASSUME IInv, NEW t \in Threads, pc[t] \in {"reading", "writing"}, WakeOne(t),
         UNCHANGED writers_waiting_, writers_waiting_ > 0
  PROVE  ConditionsOK' /\ Wakes'
<1>1. PICK loc \in {"setWake", "idle"} : Goto(t, loc) /\ (loc = "idle" => Writers = {})
  BY DEF WakeOne
<1>2. UNCHANGED <<wake, eventID_, up, event, called, erased>>
  BY DEF WakeOne, readVars
<1>3. /\ At("sleepR")' = At("sleepR") /\ At("setAll")' = At("setAll")
      /\ At("sleepW")' = At("sleepW") /\ (loc = "setWake" => t \in At("setWake")')
  BY <1>1, Arrives DEF IInv, Locations, At
<1>4. WritersAwaited'
  BY <1>1, <1>3 DEF WritersAwaited, Writers
<1>5. ReadersAwaited' /\ UncalledWait'
  BY <1>2, <1>3 DEF ReadersAwaited, UncalledWait, Signalled, ReadBlocked, NextWakeAllEvent,
                    IInv, NoLostWakeup
<1>6. ConditionsOK'
  BY <1>2, <1>3 DEF ConditionsOK, IInv, TypeOK
<1> QED BY <1>4, <1>5, <1>6 DEF Wakes, NoLostWakeup

(* A release that calls WakeAll(): every reader that sleeps is called, and  *)
(* those who had not been called wait for the event that is signalled now.  *)
LEMMA WakeAllKeeps ==
  ASSUME IInv, NEW t \in Threads, pc[t] = "writing", WakeAll(t), Free,
         UNCHANGED writers_waiting_, ~(writers_waiting_ > 0)
  PROVE  ConditionsOK' /\ Wakes'
<1>1. PICK loc \in {"setAll", "idle"} :
        Goto(t, loc) /\ (loc = "idle" => Readers(Other(eventID_)) = {})
  BY DEF WakeAll
<1>2. /\ eventID_' = Other(eventID_) /\ called' = called \cup At("sleepR")
      /\ erased' = {u \in erased : event[u] = eventID_}
      /\ UNCHANGED <<wake, up, event>>
  BY DEF WakeAll
<1>3. /\ At("sleepR")' = At("sleepR") /\ At("sleepW")' = At("sleepW")
      /\ (loc = "setAll" => t \in At("setAll")')
  BY <1>1, Arrives DEF IInv, Locations, At
<1>4. At("sleepW") = {}
  BY CountersTell DEF IInv, WaitingWriters
<1>5. eventID_ \in AllEvents /\ Other(eventID_) \in AllEvents /\ Other(eventID_) # eventID_
  BY DEF IInv, TypeOK, Other, AllEvents, WAKEALL_0, WAKEALL_1
<1>6. ConditionsOK'
  BY <1>2, <1>3, <1>5 DEF ConditionsOK, IInv, TypeOK
<1>7. ASSUME NEW u \in At("sleepR")', u \notin erased'
      PROVE  u \in called' /\ Signalled(u)'
  <2>1. u \in At("sleepR") /\ u \in called' /\ u \in Threads
    BY <1>2, <1>3, <1>7 DEF At
  <2>2. CASE event[u] = Other(eventID_)
    <3>1. u \in Readers(Other(eventID_))
      BY <2>1, <2>2 DEF Readers, At
    <3>2. At("setAll")' # {}
      BY <1>1, <1>3, <3>1
    <3> QED BY <1>2, <2>1, <2>2, <3>2 DEF Signalled
  <2>3. CASE event[u] # Other(eventID_)
    <3>1. event[u] = eventID_
      BY <1>5, <2>1, <2>3 DEF IInv, TypeOK, Other, AllEvents, WAKEALL_0, WAKEALL_1
    <3>2. u \in called /\ u \notin erased
      BY <1>2, <1>7, <2>1, <2>3, <3>1 DEF IInv, UncalledWait, NextWakeAllEvent
    <3>3. Signalled(u)
      BY <2>1, <3>2 DEF IInv, NoLostWakeup, ReadersAwaited
    <3>4. event[u] \in up
      BY <3>3 DEF Signalled, Free
    <3> QED BY <1>2, <2>1, <3>4 DEF Signalled
  <2> QED BY <2>2, <2>3
<1>8. WritersAwaited' /\ ReadersAwaited'
  BY <1>3, <1>4, <1>7 DEF WritersAwaited, ReadersAwaited
<1>9. UncalledWait'
  BY <1>2, <1>3 DEF UncalledWait
<1> QED BY <1>6, <1>8, <1>9 DEF Wakes, NoLostWakeup

LEMMA ReleaseExclusiveStep ==
  ASSUME IInv, NEW t \in Threads, ReleaseLockExclusive(t)
  PROVE  IInv'
<1>1. /\ pc[t] = "writing" /\ Free /\ writer_active_' = FALSE
      /\ UNCHANGED <<readers_active_, readers_waiting_, writers_waiting_>>
  BY DEF ReleaseLockExclusive
<1>2. PICK loc \in {"setWake", "setAll", "idle"} : Goto(t, loc)
  BY DEF ReleaseLockExclusive, WakeOne, WakeAll, Proceed
<1>3. Counts(t, loc)
  BY <1>1, <1>2 DEF Counts, One, ReaderPlaces, WriterPlaces, IInv, TypeOK
<1>4. CASE WakesWriter
  <2>1. WakeOne(t) /\ writers_waiting_ > 0
    BY <1>4 DEF ReleaseLockExclusive, WakesWriter, WakesReaders
  <2>2. ConditionsOK' /\ Wakes'
    BY <1>1, <2>1, WakeOneKeeps
  <2> QED BY <1>2, <1>3, <2>2, StepKeepsIInv DEF Locations
<1>5. CASE ~WakesWriter /\ WakesReaders
  <2>1. WakeAll(t) /\ ~(writers_waiting_ > 0)
    BY <1>5 DEF ReleaseLockExclusive, WakesWriter
  <2>2. ConditionsOK' /\ Wakes'
    BY <1>1, <2>1, WakeAllKeeps
  <2> QED BY <1>2, <1>3, <2>2, StepKeepsIInv DEF Locations
<1>6. CASE ~WakesWriter /\ ~WakesReaders
  <2>1. Goto(t, "idle") /\ UNCHANGED <<wake, eventID_, up, event, called, erased>>
    BY <1>6 DEF ReleaseLockExclusive, Proceed, readVars
  <2>2. At("sleepW") = {} /\ At("sleepR") = {}
    BY <1>6, CountersTell DEF IInv, WakesWriter, WakesReaders, WaitingWriters, WaitingReaders
  <2>3. At("sleepW")' = {} /\ At("sleepR")' = {}
    BY <1>1, <2>1, <2>2, Arrives DEF IInv, Locations, At
  <2>4. ConditionsOK' /\ Wakes'
    BY <2>1, <2>2, <2>3 DEF ConditionsOK, Wakes, NoLostWakeup, WritersAwaited, ReadersAwaited,
                            UncalledWait, IInv, TypeOK
  <2> QED BY <1>2, <1>3, <2>4, StepKeepsIInv DEF Locations
<1> QED BY <1>4, <1>5, <1>6

LEMMA ReleaseSharedStep ==
  ASSUME IInv, NEW t \in Threads, ReleaseLockShared(t)
  PROVE  IInv'
<1>1. /\ pc[t] = "reading" /\ readers_active_' = readers_active_ - 1
      /\ UNCHANGED <<writer_active_, readers_waiting_, writers_waiting_>>
  BY DEF ReleaseLockShared
<1>2. PICK loc \in {"setWake", "idle"} : Goto(t, loc)
  BY DEF ReleaseLockShared, WakeOne, Proceed
<1>3. Counts(t, loc)
  BY <1>1, <1>2 DEF Counts, One, ReaderPlaces, WriterPlaces, IInv, TypeOK
<1>4. CASE LastReaderWakes
  <2>1. WakeOne(t) /\ writers_waiting_ > 0
    BY <1>4 DEF ReleaseLockShared, LastReaderWakes
  <2>2. ConditionsOK' /\ Wakes'
    BY <1>1, <2>1, WakeOneKeeps
  <2> QED BY <1>2, <1>3, <2>2, StepKeepsIInv DEF Locations
<1>5. CASE ~LastReaderWakes
  <2>1. Goto(t, "idle") /\ UNCHANGED <<wake, eventID_, up, event, called, erased>>
    BY <1>5 DEF ReleaseLockShared, Proceed, readVars
  <2>2. /\ At("sleepR")' = At("sleepR") /\ At("setAll")' = At("setAll")
        /\ At("sleepW")' = At("sleepW")
    BY <1>1, <2>1, Arrives DEF IInv, Locations, At
  <2>3. WritersAwaited'
    <3>1. CASE readers_active_ = 1
      <4>1. At("sleepW") = {}
        BY <1>5, <3>1, CountersTell DEF IInv, LastReaderWakes, WaitingWriters
      <4> QED BY <2>2, <4>1 DEF WritersAwaited
    <3>2. CASE readers_active_ # 1
      <4>1. readers_active_ > 0
        BY <1>1, CountersTell DEF IInv, At
      <4>2. readers_active_' > 0
        BY <1>1, <3>2, <4>1 DEF IInv, TypeOK
      <4> QED BY <4>2 DEF WritersAwaited, Locked
    <3> QED BY <3>1, <3>2
  <2>4. ReadersAwaited' /\ UncalledWait'
    BY <1>1, <2>1, <2>2 DEF ReadersAwaited, UncalledWait, Signalled, ReadBlocked,
                            NextWakeAllEvent, IInv, NoLostWakeup
  <2>5. ConditionsOK'
    BY <2>1, <2>2 DEF ConditionsOK, IInv, TypeOK
  <2> QED BY <1>2, <1>3, <2>3, <2>4, <2>5, StepKeepsIInv DEF Locations, Wakes, NoLostWakeup
<1> QED BY <1>4, <1>5
-----------------------------------------------------------------------------
LEMMA SetEventStep ==
  ASSUME IInv, NEW t \in Threads, SetEvent(t)
  PROVE  IInv'
<1>1. /\ pc[t] \in {"setWake", "setAll"} /\ Goto(t, "idle")
      /\ UNCHANGED <<readers_active_, writer_active_, readers_waiting_, writers_waiting_,
                     eventID_, event, called, erased>>
      /\ pc[t] = "setWake" => wake' = TRUE /\ up' = up
      /\ pc[t] = "setAll" => up' = up \cup {eventID_} /\ wake' = wake
  BY DEF SetEvent, lockVars
<1>2. Counts(t, "idle")
  BY <1>1 DEF Counts, One, ReaderPlaces, WriterPlaces, IInv, TypeOK
<1>3. /\ At("sleepR")' = At("sleepR") /\ At("sleepW")' = At("sleepW")
      /\ At("leaveW")' = At("leaveW") /\ At("wokenW")' = At("wokenW")
      /\ pc[t] = "setWake" => At("setAll")' = At("setAll")
      /\ pc[t] = "setAll" => At("setWake")' = At("setWake")
  BY <1>1, Arrives DEF IInv, Locations, At
<1>4. ConditionsOK'
  BY <1>1, <1>3 DEF ConditionsOK, IInv, TypeOK
<1>5. WritersAwaited'
  BY <1>1, <1>3 DEF WritersAwaited, Locked, IInv, NoLostWakeup
<1>6. ReadersAwaited' /\ UncalledWait'
  BY <1>1, <1>3 DEF ReadersAwaited, UncalledWait, Signalled, ReadBlocked, NextWakeAllEvent,
                    IInv, NoLostWakeup
<1> QED BY <1>2, <1>4, <1>5, <1>6, StepKeepsIInv DEF Wakes, NoLostWakeup, Locations

LEMMA WaitReturnsStep ==
  ASSUME IInv, NEW t \in Threads, WaitReturns(t)
  PROVE  IInv'
<1>1. UNCHANGED <<readers_active_, writer_active_, readers_waiting_, writers_waiting_,
                  eventID_, up, event>>
  BY DEF WaitReturns, lockVars
<1>2. CASE pc[t] = "sleepW"
  <2>1. wake' = FALSE /\ Goto(t, "leaveW") /\ UNCHANGED <<called, erased>>
    BY <1>2 DEF WaitReturns
  <2>2. Counts(t, "leaveW")
    BY <1>1, <1>2, <2>1 DEF Counts, One, ReaderPlaces, WriterPlaces, IInv, TypeOK
  <2>3. /\ At("sleepR")' = At("sleepR") /\ At("setAll")' = At("setAll")
        /\ t \in At("leaveW")'
    BY <1>2, <2>1, Arrives DEF IInv, Locations, At
  <2>4. ConditionsOK' /\ WritersAwaited'
    BY <1>1, <2>1, <2>3 DEF ConditionsOK, IInv, TypeOK, WritersAwaited
  <2>5. ReadersAwaited' /\ UncalledWait'
    BY <1>1, <2>1, <2>3 DEF ReadersAwaited, UncalledWait, Signalled, ReadBlocked,
                            NextWakeAllEvent, IInv, NoLostWakeup
  <2> QED BY <2>2, <2>4, <2>5, StepKeepsIInv DEF Wakes, NoLostWakeup, Locations
<1>3. CASE pc[t] = "sleepR"
  <2>1. /\ Goto(t, "leaveR") /\ called' = called \ {t} /\ erased' = erased \ {t}
        /\ wake' = wake
    BY <1>3 DEF WaitReturns
  <2>2. Counts(t, "leaveR")
    BY <1>1, <1>3, <2>1 DEF Counts, One, ReaderPlaces, WriterPlaces, IInv, TypeOK
  <2>3. /\ At("sleepR")' = At("sleepR") \ {t} /\ At("setAll")' = At("setAll")
        /\ At("setWake")' = At("setWake") /\ At("sleepW")' = At("sleepW")
        /\ At("leaveW")' = At("leaveW") /\ At("wokenW")' = At("wokenW")
    BY <1>3, <2>1, Arrives DEF IInv, Locations, At
  <2>4. ConditionsOK' /\ WritersAwaited'
    BY <1>1, <2>1, <2>3 DEF ConditionsOK, IInv, TypeOK, WritersAwaited, Locked, NoLostWakeup
  <2>5. ReadersAwaited' /\ UncalledWait'
    BY <1>1, <2>1, <2>3 DEF ReadersAwaited, UncalledWait, Signalled, ReadBlocked,
                            NextWakeAllEvent, IInv, NoLostWakeup
  <2> QED BY <2>2, <2>4, <2>5, StepKeepsIInv DEF Wakes, NoLostWakeup, Locations
<1> QED BY <1>2, <1>3 DEF WaitReturns

LEMMA DeregisterStep ==
  ASSUME IInv, NEW t \in Threads, Deregister(t)
  PROVE  IInv'
<1>1. /\ pc[t] \in {"leaveW", "leaveR"}
      /\ UNCHANGED <<readers_active_, writer_active_, readers_waiting_, writers_waiting_,
                     wake, eventID_, up, event, called, erased>>
  BY DEF Deregister, lockVars, readVars
<1>2. PICK loc \in {"wokenW", "resetR", "wokenR"} :
        Goto(t, loc) /\ (pc[t] = "leaveW" <=> loc = "wokenW")
  BY DEF Deregister
<1>3. Counts(t, loc)
  BY <1>1, <1>2 DEF Counts, One, ReaderPlaces, WriterPlaces, IInv, TypeOK
<1>4. /\ At("sleepR")' = At("sleepR") /\ At("setAll")' = At("setAll")
      /\ At("setWake")' = At("setWake") /\ At("sleepW")' = At("sleepW")
      /\ At("leaveW") \cup At("wokenW") # {} => (At("leaveW") \cup At("wokenW"))' # {}
  BY <1>1, <1>2, Arrives DEF IInv, Locations, At
<1>5. ConditionsOK' /\ WritersAwaited'
  BY <1>1, <1>4 DEF ConditionsOK, IInv, TypeOK, WritersAwaited, Locked, NoLostWakeup
<1>6. ReadersAwaited' /\ UncalledWait'
  BY <1>1, <1>4 DEF ReadersAwaited, UncalledWait, Signalled, ReadBlocked,
                    NextWakeAllEvent, IInv, NoLostWakeup
<1> QED BY <1>2, <1>3, <1>5, <1>6, StepKeepsIInv DEF Wakes, NoLostWakeup, Locations

(* The late reset: whose signal is gone is in erased, or will be signalled  *)
(* by the SetEvent() that is still to come.                                 *)
LEMMA ResetEventStep ==
  ASSUME IInv, NEW t \in Threads, ResetEvent(t)
  PROVE  IInv'
<1>1. /\ pc[t] = "resetR" /\ Goto(t, "wokenR")
      /\ up' = up \ {event[t]} /\ erased' = erased \cup LoseSignal(event[t])
      /\ UNCHANGED <<readers_active_, writer_active_, readers_waiting_, writers_waiting_,
                     wake, eventID_, event, called>>
  BY DEF ResetEvent, lockVars
<1>2. Counts(t, "wokenR")
  BY <1>1 DEF Counts, One, ReaderPlaces, WriterPlaces, IInv, TypeOK
<1>3. /\ At("sleepR")' = At("sleepR") /\ At("setAll")' = At("setAll")
      /\ At("setWake")' = At("setWake") /\ At("sleepW")' = At("sleepW")
      /\ At("leaveW")' = At("leaveW") /\ At("wokenW")' = At("wokenW")
  BY <1>1, Arrives DEF IInv, Locations, At
<1>4. ConditionsOK' /\ WritersAwaited'
  BY <1>1, <1>3 DEF ConditionsOK, LoseSignal, IInv, TypeOK, WritersAwaited, Locked, NoLostWakeup
<1>5. ReadersAwaited'
  BY <1>1, <1>3 DEF ReadersAwaited, Signalled, ReadBlocked, LoseSignal, IInv, NoLostWakeup
<1>6. UncalledWait'
  BY <1>1, <1>3 DEF UncalledWait, NextWakeAllEvent, IInv
<1> QED BY <1>2, <1>4, <1>5, <1>6, StepKeepsIInv DEF Wakes, NoLostWakeup, Locations
-----------------------------------------------------------------------------
(* The invariant holds in every reachable state of the lock. *)
LEMMA Invariance == Spec => []IInv
<1>1. Init => IInv
  <2> SUFFICES ASSUME Init PROVE IInv
    OBVIOUS
  <2>1. \A loc \in Locations \ {"idle"} : At(loc) = {}
    BY DEF Init, At
  <2>2. WaitingWriters = {} /\ WaitingReaders = {}
        /\ At("reading") = {} /\ At("writing") = {} /\ At("sleepW") = {} /\ At("sleepR") = {}
    BY <2>1 DEF WaitingWriters, WaitingReaders, Locations
  <2>3. TypeOK
    BY <2>2 DEF Init, TypeOK, Locations, AllEvents
  <2>4. CountersMatch
    BY <2>2, FS_EmptySet DEF Init, CountersMatch
  <2>5. Exclusion /\ NoLostWakeup /\ UncalledWait
    BY <2>2 DEF Exclusion, NoLostWakeup, WritersAwaited, ReadersAwaited, UncalledWait
  <2> QED BY <2>3, <2>4, <2>5 DEF IInv
<1>2. IInv /\ [Next]_vars => IInv'
  <2> SUFFICES ASSUME IInv, [Next]_vars PROVE IInv'
    OBVIOUS
  <2>1. CASE UNCHANGED vars
    BY <2>1 DEF vars, lockVars, readVars, IInv, TypeOK, CountersMatch, Exclusion, NoLostWakeup,
                WritersAwaited, ReadersAwaited, UncalledWait, Signalled, Locked, ReadBlocked,
                NextWakeAllEvent, At, WaitingWriters, WaitingReaders
  <2>2. ASSUME NEW t \in Threads, AcquireLockExclusive(t) \/ ResumeExclusive(t)
        PROVE  IInv'
    BY <2>2, ExclusiveSleeps, ExclusiveTakes
  <2>3. ASSUME NEW t \in Threads, AcquireLockShared(t) \/ ResumeShared(t)
        PROVE  IInv'
    BY <2>3, SharedSleeps, SharedTakes
  <2>4. ASSUME NEW t \in Threads, ReleaseLockExclusive(t) PROVE IInv'
    BY <2>4, ReleaseExclusiveStep
  <2>5. ASSUME NEW t \in Threads, ReleaseLockShared(t) PROVE IInv'
    BY <2>5, ReleaseSharedStep
  <2>6. ASSUME NEW t \in Threads, SetEvent(t) PROVE IInv'
    BY <2>6, SetEventStep
  <2>7. ASSUME NEW t \in Threads, WaitReturns(t) PROVE IInv'
    BY <2>7, WaitReturnsStep
  <2>8. ASSUME NEW t \in Threads, Deregister(t) PROVE IInv'
    BY <2>8, DeregisterStep
  <2>9. ASSUME NEW t \in Threads, ResetEvent(t) PROVE IInv'
    BY <2>9, ResetEventStep
  <2> QED BY <2>1, <2>2, <2>3, <2>4, <2>5, <2>6, <2>7, <2>8, <2>9 DEF Next
<1> QED BY <1>1, <1>2, PTL DEF Spec

(* The counters keep their types and every thread is at one of its places. *)
THEOREM TypeCorrect == Spec => []TypeOK
BY Invariance, PTL DEF IInv

(* The counters count the threads that hold the lock or wait for it. *)
THEOREM CountersCorrect == Spec => []CountersMatch
BY Invariance, PTL DEF IInv

(* No writer shares the lock. *)
THEOREM MutualExclusion == Spec => []Exclusion
BY Invariance, PTL DEF IInv

(* No thread sleeps with nobody left to wake it, but for a reader whose     *)
(* signal a late ResetEvent() has erased, as long as it has.                *)
THEOREM WakeupsAreNotLost == Spec => []NoLostWakeup
BY Invariance, PTL DEF IInv
-----------------------------------------------------------------------------
(* The lock implements RWLock: its steps map to one abstract step or to     *)
(* none (a sleeper that is signalled, leaves the counts, goes back to       *)
(* sleep, or joins the waiting readers; a SetEvent()).                      *)
THEOREM Implementation == Spec => Refines
<1>1. Init => RW!Init
  BY DEF Init, RW!Init, At, WaitingWriters
<1>2. IInv /\ [Next]_vars => [RW!Next]_(RW!vars)
  <2> SUFFICES ASSUME IInv, [Next]_vars PROVE [RW!Next]_(RW!vars)
    OBVIOUS
  <2> USE DEF IInv
  <2>1. CASE UNCHANGED vars
    BY <2>1 DEF vars, RW!vars, At, WaitingWriters
  <2>2. ASSUME NEW t \in Threads, AcquireLockExclusive(t) \/ ResumeExclusive(t)
        PROVE  RW!QueueWriter(t) \/ RW!AcquireExclusive(t) \/ UNCHANGED RW!vars
    <3>0. pc[t] \in {"idle", "wokenW"}
      BY <2>2 DEF AcquireLockExclusive, ResumeExclusive
    <3>1. CASE WriteBlocked
      <4>1. Goto(t, "sleepW")
        BY <2>2, <3>1 DEF AcquireLockExclusive, ResumeExclusive, SleepToWrite
      <4>2. /\ At("reading")' = At("reading") /\ At("writing")' = At("writing")
            /\ WaitingWriters' = WaitingWriters \cup {t}
            /\ pc[t] = "wokenW" => t \in WaitingWriters
            /\ pc[t] = "idle" => RW!Idle(t)
        BY <3>0, <4>1, Arrives DEF Locations, At, WaitingWriters, RW!Idle
      <4>3. At("reading") \cup At("writing") # {}
        BY <3>1, CountersTell DEF WriteBlocked, CountersMatch
      <4> QED BY <3>0, <4>2, <4>3 DEF RW!QueueWriter, RW!vars
    <3>2. CASE ~WriteBlocked
      <4>1. Goto(t, "writing")
        BY <2>2, <3>2 DEF AcquireLockExclusive, ResumeExclusive, Proceed
      <4>2. /\ At("reading")' = At("reading") /\ At("writing")' = At("writing") \cup {t}
            /\ WaitingWriters' = WaitingWriters \ {t}
            /\ t \in WaitingWriters \/ RW!Idle(t)
        BY <3>0, <4>1, Arrives DEF Locations, At, WaitingWriters, RW!Idle
      <4>3. At("reading") = {} /\ At("writing") = {}
        BY <3>2, CountersTell DEF WriteBlocked, CountersMatch
      <4> QED BY <4>2, <4>3 DEF RW!AcquireExclusive
    <3> QED BY <3>1, <3>2
  <2>3. ASSUME NEW t \in Threads, AcquireLockShared(t) \/ ResumeShared(t)
        PROVE  RW!AcquireShared(t) \/ UNCHANGED RW!vars
    <3>0. pc[t] \in {"idle", "wokenR"}
      BY <2>3 DEF AcquireLockShared, ResumeShared
    <3>1. CASE ReadBlocked
      <4>1. Goto(t, "sleepR")
        BY <2>3, <3>1 DEF AcquireLockShared, ResumeShared, SleepToRead
      <4> QED BY <3>0, <4>1, Arrives DEF Locations, At, WaitingWriters, RW!vars
    <3>2. CASE ~ReadBlocked
      <4>1. Goto(t, "reading")
        BY <2>3, <3>2 DEF AcquireLockShared, ResumeShared, Proceed
      <4>2. /\ At("reading")' = At("reading") \cup {t} /\ At("writing")' = At("writing")
            /\ WaitingWriters' = WaitingWriters /\ RW!Idle(t)
        BY <3>0, <4>1, Arrives DEF Locations, At, WaitingWriters, RW!Idle
      <4>3. At("writing") = {} /\ WaitingWriters = {}
        BY <3>2, CountersTell DEF ReadBlocked, CountersMatch
      <4> QED BY <4>2, <4>3 DEF RW!AcquireShared
    <3> QED BY <3>1, <3>2
  <2>4. ASSUME NEW t \in Threads, ReleaseLockExclusive(t) PROVE RW!ReleaseExclusive(t)
    <3>1. pc[t] = "writing" /\ \E loc \in {"setWake", "setAll", "idle"} : Goto(t, loc)
      BY <2>4 DEF ReleaseLockExclusive, WakeOne, WakeAll, Proceed
    <3> QED BY <3>1, Arrives DEF Locations, At, WaitingWriters, RW!ReleaseExclusive
  <2>5. ASSUME NEW t \in Threads, ReleaseLockShared(t) PROVE RW!ReleaseShared(t)
    <3>1. pc[t] = "reading" /\ \E loc \in {"setWake", "idle"} : Goto(t, loc)
      BY <2>5 DEF ReleaseLockShared, WakeOne, Proceed
    <3> QED BY <3>1, Arrives DEF Locations, At, WaitingWriters, RW!ReleaseShared
  <2>6. ASSUME NEW t \in Threads,
               SetEvent(t) \/ WaitReturns(t) \/ Deregister(t) \/ ResetEvent(t)
        PROVE  UNCHANGED RW!vars
    <3>1. PICK loc \in Locations \ {"reading", "writing"} :
            /\ Goto(t, loc) /\ pc[t] \notin {"reading", "writing"}
            /\ loc \in WriterPlaces <=> pc[t] \in WriterPlaces
      BY <2>6 DEF SetEvent, WaitReturns, Deregister, ResetEvent, Locations, WriterPlaces
    <3>2. /\ pc'[t] = loc /\ \A u \in Threads \ {t} : pc'[u] = pc[u]
      BY <3>1, Arrives
    <3>3. \A u \in Threads : pc'[u] \in WriterPlaces <=> pc[u] \in WriterPlaces
      BY <3>1, <3>2
    <3>4. WaitingWriters' = WaitingWriters
      BY <3>3 DEF WaitingWriters, At, WriterPlaces
    <3>5. At("reading")' = At("reading") /\ At("writing")' = At("writing")
      BY <3>1, <3>2 DEF At
    <3> QED BY <3>4, <3>5 DEF RW!vars
  <2> QED BY <2>1, <2>2, <2>3, <2>4, <2>5, <2>6 DEF Next, RW!Next
<1> QED BY <1>1, <1>2, Invariance, PTL DEF Spec, Refines, RW!Spec
=============================================================================
