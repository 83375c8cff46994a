--------------------------- MODULE EventPosixProofs ---------------------------
(***************************************************************************)
(* Proofs of the safety properties of EventPosix for any number of threads *)
(* and of timer starts.                                                    *)
(***************************************************************************)
EXTENDS EventPosix, TLAPS

-----------------------------------------------------------------------------
(* The event *)

\* The conjuncts of TypeOK with arithmetic and those without.
Counts == count_ \in 0 .. 2 /\ starts \in 0 .. MaxStarts
Types == /\ state_ \in {kUp, kDown} /\ timer_event_ \in {kUp, kDown}
         /\ epc \in [EventThreads -> WaitPlaces]
         /\ owed \in BOOLEAN
         /\ timer \in {"none", "running", "stopping"} /\ tpc \in TimerPlaces
         /\ opc \in {"idle", "restart", "stop", "join"}
         /\ opc = "restart" => timer = "running" /\ ~periodic_
         /\ opc \in {"stop", "join"} <=> timer = "stopping"
         /\ timer = "none" <=> tpc = "none"
         /\ tpc = "dead" => timer = "stopping"
         /\ periodic_ \in BOOLEAN /\ created_at_ \in BOOLEAN /\ unfired \in BOOLEAN

LEMMA TypeParts == EventTypeOK <=> Types /\ Counts
  BY DEF EventTypeOK, Types, Counts

LEMMA TypeInit == EventInit => EventTypeOK
<1> SUFFICES ASSUME EventInit PROVE EventTypeOK
  OBVIOUS
<1>1. Types
  BY DEF EventInit, Types, WaitPlaces, TimerPlaces, kUp, kDown
<1>2. Counts
  BY MaxStartsAssumption DEF EventInit, Counts
<1> QED BY <1>1, <1>2, TypeParts

LEMMA TypeStep == EventTypeOK /\ [EventNext]_eventVars => EventTypeOK'
<1> SUFFICES ASSUME EventTypeOK, [EventNext]_eventVars PROVE EventTypeOK'
  OBVIOUS
<1> USE MaxStartsAssumption DEF EventTypeOK, WaitPlaces, TimerPlaces, kUp, kDown, eventVars, event,
        timerVars, history
<1>1. CASE SetEvent
  BY <1>1 DEF SetEvent, Set, Signal, WokenBySet
<1>2. CASE Reset
  BY <1>2 DEF Reset
<1>3. ASSUME NEW t \in EventThreads,
             WaitUp(t) \/ WaitDown(t) \/ TimeOut(t) \/ SpuriousWakeup(t)
               \/ ReturnSignaled(t) \/ ReturnTimeout(t)
      PROVE  EventTypeOK'
  <2>0. UNCHANGED timerVars
    BY <1>3 DEF WaitUp, WaitDown, TimeOut, SpuriousWakeup, ReturnSignaled, ReturnTimeout
  <2>1. Types'
    <3>1. owed' \in BOOLEAN
      BY <1>3 DEF WaitUp, WaitDown, TimeOut, SpuriousWakeup, ReturnSignaled, ReturnTimeout
    <3>2. state_' \in {kUp, kDown} /\ epc' \in [EventThreads -> WaitPlaces]
      BY <1>3 DEF WaitUp, WaitDown, TimeOut, SpuriousWakeup, ReturnSignaled,
                  ReturnTimeout, EndWait
    <3> QED BY <2>0, <3>1, <3>2 DEF Types
  <2>2. Counts'
    BY <2>0 DEF Counts
  <2> QED BY <2>1, <2>2 DEF Types, Counts
<1>4. ASSUME NEW periodic \in BOOLEAN, StartTimer(periodic) PROVE EventTypeOK'
  <2>1. Types'
    <3>1. CASE /\ timer = "none" /\ timer' = "running" /\ tpc' = "check"
               /\ timer_event_' = kDown /\ periodic_' = periodic /\ unfired' = ~periodic
               /\ UNCHANGED <<event, opc, created_at_>>
      BY <1>4, <3>1 DEF StartTimer, Types
    <3>2. CASE /\ timer = "running" /\ ~periodic_ /\ created_at_' = FALSE
               /\ opc' = "restart" /\ unfired' = TRUE
               /\ UNCHANGED <<event, timer, tpc, timer_event_, periodic_>>
      BY <1>4, <3>2 DEF StartTimer, Types
    <3> QED BY <1>4, <3>1, <3>2 DEF StartTimer
  <2>2. Counts'
    BY <1>4 DEF StartTimer, Counts
  <2> QED BY <2>1, <2>2 DEF Types, Counts
<1>5. CASE StopTimer
  <2>1. Types'
    BY <1>5 DEF StopTimer, Types
  <2>2. Counts'
    BY <1>5 DEF StopTimer, Counts
  <2> QED BY <2>1, <2>2 DEF Types, Counts
<1>6. CASE OwnerGoesOn
  <2>1. Types'
    <3>1. CASE RestartSets
      BY <3>1 DEF RestartSets, Types
    <3>2. CASE StopSets
      BY <3>2 DEF StopSets, Types
    <3>3. CASE StopTimerReturns
      BY <3>3 DEF StopTimerReturns, Types
    <3> QED BY <1>6, <3>1, <3>2, <3>3 DEF OwnerGoesOn
  <2>2. Counts'
    BY <1>6 DEF OwnerGoesOn, RestartSets, StopSets, StopTimerReturns, Counts
  <2> QED BY <2>1, <2>2 DEF Types, Counts
<1>7. CASE TimerThread
  <2>1. CASE TimerCheck
    BY <2>1 DEF TimerCheck
  <2>2. CASE Stamp
    BY <2>2 DEF Stamp
  <2>3. CASE Arm
    BY <2>3 DEF Arm, TimerGoesOn
  <2>4. CASE TimerWoken
    BY <2>4 DEF TimerWoken, TimerGoesOn
  <2>5. CASE TimerTimesOut
    BY <2>5 DEF TimerTimesOut
  <2>6. CASE TimerTimedOut
    BY <2>6 DEF TimerTimedOut, TimerGoesOn
  <2>7. CASE Fire
    BY <2>7 DEF Fire, Set, Signal, WokenBySet, TimerGoesOn
  <2> QED BY <1>7, <2>1, <2>2, <2>3, <2>4, <2>5, <2>6, <2>7 DEF TimerThread
<1>8. CASE UNCHANGED eventVars
  BY <1>8
<1> QED BY <1>1, <1>2, <1>3, <1>4, <1>5, <1>6, <1>7, <1>8 DEF EventNext

\* Every variable keeps its type.
THEOREM TypeCorrect == EventSpec => []EventTypeOK
  BY TypeInit, TypeStep, PTL DEF EventSpec

\* The actions that leave the event and its waiters alone.
LEMMA TimerKeepsEvent ==
  ASSUME NEW periodic \in BOOLEAN,
         \/ StartTimer(periodic) \/ StopTimer \/ OwnerGoesOn
         \/ TimerThread /\ ~Fire
  PROVE  UNCHANGED event
  BY DEF StartTimer, StopTimer, OwnerGoesOn, RestartSets, StopSets, StopTimerReturns, TimerThread, TimerCheck, Stamp, Arm,
         TimerWoken, TimerTimesOut, TimerTimedOut, event

LEMMA SleepersStep == EventTypeOK /\ NoSleeperWhileUp /\ [EventNext]_eventVars => NoSleeperWhileUp'
<1> SUFFICES ASSUME EventTypeOK, NoSleeperWhileUp, [EventNext]_eventVars PROVE NoSleeperWhileUp'
  OBVIOUS
<1> USE DEF EventTypeOK, NoSleeperWhileUp, kUp, kDown
<1>1. ASSUME Set PROVE NoSleeperWhileUp'
  BY <1>1 DEF Set, WokenBySet
<1>2. CASE Reset
  BY <1>2 DEF Reset
<1>3. ASSUME NEW t \in EventThreads,
             WaitUp(t) \/ WaitDown(t) \/ TimeOut(t) \/ SpuriousWakeup(t)
               \/ ReturnSignaled(t) \/ ReturnTimeout(t)
      PROVE  NoSleeperWhileUp'
  BY <1>3 DEF WaitUp, WaitDown, TimeOut, SpuriousWakeup, ReturnSignaled,
              ReturnTimeout, EndWait
<1>4. ASSUME UNCHANGED event PROVE NoSleeperWhileUp'
  BY <1>4 DEF event
<1>5. CASE SetEvent
  BY <1>1, <1>5 DEF SetEvent
<1>6. CASE Fire
  BY <1>1, <1>6 DEF Fire
<1>7. CASE UNCHANGED eventVars
  BY <1>4, <1>7 DEF eventVars
<1> QED BY <1>2, <1>3, <1>4, <1>5, <1>6, <1>7, TimerKeepsEvent DEF EventNext

\* Whatever the threads and the timer do, nobody sleeps while the event is up.
THEOREM NoSignalMissed == EventSpec => []NoSleeperWhileUp
<1>1. EventInit => NoSleeperWhileUp
  BY DEF EventInit, NoSleeperWhileUp, kUp, kDown
<1> QED BY <1>1, TypeCorrect, SleepersStep, PTL DEF EventSpec

-----------------------------------------------------------------------------
(* A Set and its answer *)

LEMMA SignalStep ==
  ASSUME EventTypeOK, SetNotSwallowed, [EventNext]_eventVars
  PROVE  SetNotSwallowed'
<1> USE DEF EventTypeOK, SetNotSwallowed, kUp, kDown
<1>1. ASSUME Set PROVE SetNotSwallowed'
  BY <1>1 DEF Set, Signal, WokenBySet
<1>2. CASE Reset
  BY <1>2 DEF Reset
<1>3. ASSUME NEW t \in EventThreads, WaitUp(t) \/ ReturnSignaled(t) PROVE SetNotSwallowed'
  BY <1>3 DEF WaitUp, ReturnSignaled, EndWait
<1>4. ASSUME NEW t \in EventThreads, WaitDown(t) \/ TimeOut(t) \/ SpuriousWakeup(t)
      PROVE  SetNotSwallowed'
  BY <1>4 DEF WaitDown, TimeOut, SpuriousWakeup
<1>5. ASSUME UNCHANGED event PROVE SetNotSwallowed'
  BY <1>5 DEF event
<1>6. ASSUME NEW t \in EventThreads, ReturnTimeout(t) PROVE SetNotSwallowed'
  <2>1. CASE state_ = kUp
    BY <1>6, <2>1 DEF ReturnTimeout
  <2>2. CASE state_ = kDown
    BY <1>6, <2>2 DEF ReturnTimeout, EndWait
  <2> QED BY <2>1, <2>2
<1>7. CASE SetEvent
  BY <1>1, <1>7 DEF SetEvent
<1>8. CASE Fire
  BY <1>1, <1>8 DEF Fire
<1>9. CASE UNCHANGED eventVars
  BY <1>5, <1>9 DEF eventVars
<1> QED BY <1>2, <1>3, <1>4, <1>5, <1>6, <1>7, <1>8, <1>9, TimerKeepsEvent DEF EventNext

\* A Set is answered, revoked or taken by a Wait whose time ran out, and lost in
\* no other way.
THEOREM SetsAnswered == EventSpec => []SetNotSwallowed
<1>1. EventInit => SetNotSwallowed
  BY DEF EventInit, SetNotSwallowed
<1> QED BY <1>1, TypeCorrect, SignalStep, PTL DEF EventSpec

-----------------------------------------------------------------------------
(* The one-shot timer *)

\* The thread is on its way to a shot: about to fire, in the first wait since
\* the reference time was taken, or about to begin that wait.
Aiming == \/ tpc = "fire"
          \/ count_ = 1 /\ tpc \in {"asleep", "timedOut"}
          \/ count_ = 0 /\ tpc = "arm" /\ timer_event_ = kDown

\* The thread will take a reference time before it aims again.
Fresh == ~created_at_ \/ tpc = "stamp" \/ (count_ = 0 /\ tpc = "check")

\* The shots that a one-shot timer may still fire without a new start.
Left == IF timer = "none" \/ periodic_ THEN 0
        ELSE (IF Aiming THEN 1 ELSE 0) + (IF Fresh THEN 1 ELSE 0)

ShotInv == /\ shots \in Nat
           /\ shots + Left <= starts
           /\ timer = "none" => ~created_at_ /\ count_ = 0
           /\ tpc \in {"asleep", "timedOut", "fire"} => count_ # 0

LEMMA ShotInit == EventInit => ShotInv
  BY DEF EventInit, ShotInv, Left

\* What a step that leaves the timer's control alone keeps.
LEMMA ShotUnchanged == EventTypeOK /\ ShotInv /\ UNCHANGED timerVars => ShotInv'
  BY DEF ShotInv, Left, Aiming, Fresh, timerVars, history, EventTypeOK, kUp, kDown

LEMMA ShotStep == EventTypeOK /\ EventTypeOK' /\ ShotInv /\ [EventNext]_eventVars => ShotInv'
<1> SUFFICES ASSUME EventTypeOK, EventTypeOK', ShotInv, [EventNext]_eventVars PROVE ShotInv'
  OBVIOUS
<1> USE DEF EventTypeOK, ShotInv, Left, Aiming, Fresh, TimerPlaces, kUp, kDown
<1>1. CASE SetEvent \/ Reset \/ UNCHANGED eventVars
  BY <1>1, ShotUnchanged DEF SetEvent, Reset, eventVars
<1>2. ASSUME NEW t \in EventThreads,
             WaitUp(t) \/ WaitDown(t) \/ TimeOut(t) \/ SpuriousWakeup(t)
               \/ ReturnSignaled(t) \/ ReturnTimeout(t)
      PROVE  ShotInv'
  BY <1>2, ShotUnchanged DEF WaitUp, WaitDown, TimeOut, SpuriousWakeup,
                             ReturnSignaled, ReturnTimeout
<1>3. ASSUME NEW periodic \in BOOLEAN, StartTimer(periodic) PROVE ShotInv'
  BY <1>3 DEF StartTimer
<1>4. CASE StopTimer
  BY <1>4 DEF StopTimer
<1>5. CASE OwnerGoesOn
  BY <1>5 DEF OwnerGoesOn, RestartSets, StopSets, StopTimerReturns, history
<1>6. CASE TimerThread
  <2>1. CASE TimerCheck
    BY <2>1 DEF TimerCheck, history
  <2>2. CASE Stamp
    BY <2>2 DEF Stamp, history
  <2>3. CASE Arm
    BY <2>3 DEF Arm, TimerGoesOn, history
  <2>4. CASE TimerWoken
    BY <2>4 DEF TimerWoken, TimerGoesOn, history
  <2>5. CASE TimerTimesOut
    BY <2>5 DEF TimerTimesOut, history
  <2>6. CASE TimerTimedOut
    BY <2>6 DEF TimerTimedOut, TimerGoesOn, Shot, history
  <2>7. CASE Fire
    BY <2>7 DEF Fire, TimerGoesOn
  <2> QED BY <1>6, <2>1, <2>2, <2>3, <2>4, <2>5, <2>6, <2>7 DEF TimerThread
<1> QED BY <1>1, <1>2, <1>3, <1>4, <1>5, <1>6 DEF EventNext

\* However its thread interleaves with the steps of its starts and stops, a
\* one-shot timer fires at most once for each start.
THEOREM OneShotsCounted == EventSpec => []OneShotFiresOnce
<1>1. EventTypeOK /\ ShotInv => OneShotFiresOnce
  BY DEF EventTypeOK, ShotInv, Left, OneShotFiresOnce
<1> QED BY <1>1, ShotInit, ShotStep, TypeCorrect, PTL DEF EventSpec
=============================================================================
