------------------------------ MODULE EventPosix ------------------------------
(***************************************************************************)
(* EventPosix of system_wrappers/source/event_posix.cc: an event that Set  *)
(* makes sticky and Wait takes down again, on a mutex and a condition      *)
(* variable, and the timer thread that sets it once or periodically.       *)
(*                                                                         *)
(* An action is what a thread does under the mutex, or between two of      *)
(* them.  A waiter is asleep in pthread_cond_wait; Set wakes it, its time  *)
(* runs out, or it wakes without a reason, and in each case it still has   *)
(* to get the mutex back before it looks at the event.  The timer is the   *)
(* event's owner's: one thread at a time starts and stops it.  No lock     *)
(* covers what the owner and the timer thread share, so a restart and a    *)
(* stop are several steps of the owner, between which the timer thread     *)
(* runs.  How often the timer has fired is counted up to 2.                *)
(***************************************************************************)
EXTENDS Integers

CONSTANTS EventThreads,      \* threads that call Set, Reset and Wait
          Timed,        \* those of them that give Wait a time limit
          MaxStarts     \* bound: calls of StartTimer

ASSUME TimedAssumption == Timed \subseteq EventThreads
ASSUME MaxStartsAssumption == MaxStarts \in Nat

VARIABLES state_,       \* the event is up
          epc,          \* each thread's place in Wait
          owed,         \* a Set that no Wait has answered, no Reset revoked and
                        \* no Wait whose time ran out has taken down
          timer,        \* timer_thread_: "none", "running" or "stopping"
          opc,          \* the owner's place in StartTimer and StopTimer
          tpc,          \* the timer thread's place
          timer_event_, \* timer_event_ is up
          periodic_,
          created_at_,  \* its tv_sec is not 0
          count_,       \* 0, 1 or more
          starts,       \* calls of StartTimer
          shots,        \* how often one-shot timers fired
          unfired       \* a one-shot start that no shot has answered and no
                        \* StopTimer revoked

event == <<state_, epc, owed>>
history == <<starts, shots, unfired>>
timerVars == <<timer, opc, tpc, timer_event_, periodic_, created_at_, count_,
               history>>
eventVars == <<event, timerVars>>

kUp == "up"
kDown == "down"

WaitPlaces == {"idle", "asleep", "woken", "timedOut"}
TimerPlaces == {"none", "check", "stamp", "arm", "asleep", "timedOut", "fire",
                "dead"}

EventInit == /\ state_ = kDown
             /\ epc = [t \in EventThreads |-> "idle"]
             /\ owed = FALSE
             /\ timer = "none" /\ opc = "idle" /\ tpc = "none"
             /\ timer_event_ = kDown
             /\ periodic_ = FALSE
             /\ created_at_ = FALSE /\ count_ = 0
             /\ starts = 0 /\ shots = 0 /\ unfired = FALSE

-----------------------------------------------------------------------------
(* Variants of definitions below, each with one mistake, that the properties
   reject. *)

WokenBySet_One == LET asleep == {t \in EventThreads : epc[t] = "asleep"}
             IN IF asleep = {} THEN epc
                ELSE [epc EXCEPT ![CHOOSE t \in asleep : TRUE] = "woken"]
Signal_NotSticky == state_
TimerGoesOn_Always == "check"
Shot_EveryTime == TRUE

-----------------------------------------------------------------------------
(* The event *)

\* The broadcast wakes every thread that is asleep.
WokenBySet == [t \in EventThreads |-> IF epc[t] = "asleep" THEN "woken" ELSE epc[t]]

Signal == kUp

Set == /\ state_' = Signal
       /\ epc' = WokenBySet
       /\ owed' = TRUE

SetEvent == Set /\ UNCHANGED timerVars

Reset == /\ state_' = kDown
         /\ owed' = FALSE
         /\ UNCHANGED <<epc, timerVars>>

\* The end of every Wait: the event is down.
EndWait(t) == /\ state_' = kDown
              /\ epc' = [epc EXCEPT ![t] = "idle"]

WaitUp(t) == /\ epc[t] = "idle" /\ state_ = kUp
             /\ EndWait(t)
             /\ owed' = FALSE
             /\ UNCHANGED timerVars

WaitDown(t) == /\ epc[t] = "idle" /\ state_ = kDown
               /\ epc' = [epc EXCEPT ![t] = "asleep"]
               /\ UNCHANGED <<state_, owed, timerVars>>

TimeOut(t) == /\ epc[t] = "asleep" /\ t \in Timed
              /\ epc' = [epc EXCEPT ![t] = "timedOut"]
              /\ UNCHANGED <<state_, owed, timerVars>>

SpuriousWakeup(t) == /\ epc[t] = "asleep"
                     /\ epc' = [epc EXCEPT ![t] = "woken"]
                     /\ UNCHANGED <<state_, owed, timerVars>>

ReturnSignaled(t) == /\ epc[t] = "woken"
                     /\ EndWait(t)
                     /\ owed' = FALSE
                     /\ UNCHANGED timerVars

ReturnTimeout(t) == /\ epc[t] = "timedOut"
                    /\ EndWait(t)
                    /\ owed' = (owed /\ state_ = kDown)
                    /\ UNCHANGED timerVars

-----------------------------------------------------------------------------
(* The timer *)

\* StartTimer creates the timer thread, or gives a running one-shot timer a new
\* time and forgets its reference time; the timer thread is told of it later.
StartTimer(periodic) ==
  /\ opc = "idle" /\ starts < MaxStarts
  /\ starts' = starts + 1
  /\ \/ /\ timer = "none"
        /\ timer' = "running" /\ tpc' = "check"
        /\ timer_event_' = kDown
        /\ periodic_' = periodic
        /\ unfired' = ~periodic
        /\ UNCHANGED <<event, opc, created_at_, count_, shots>>
     \/ /\ timer = "running" /\ ~periodic_
        /\ created_at_' = FALSE
        /\ opc' = "restart"
        /\ unfired' = TRUE
        /\ UNCHANGED <<event, timer, tpc, timer_event_, periodic_, count_, shots>>

\* StartTimer wakes the timer thread and returns.
RestartSets ==
  /\ opc = "restart"
  /\ opc' = "idle"
  /\ timer_event_' = kUp
  /\ UNCHANGED <<event, timer, tpc, periodic_, created_at_, count_, history>>

\* StopTimer orders the thread to end,
StopTimer ==
  /\ opc = "idle" /\ timer = "running"
  /\ timer' = "stopping" /\ opc' = "stop"
  /\ unfired' = FALSE
  /\ UNCHANGED <<event, tpc, timer_event_, periodic_, created_at_, count_, starts, shots>>

\* wakes it,
StopSets ==
  /\ opc = "stop"
  /\ opc' = "join"
  /\ timer_event_' = kUp
  /\ UNCHANGED <<event, timer, tpc, periodic_, created_at_, count_, history>>

\* and waits for its end.
StopTimerReturns ==
  /\ opc = "join" /\ tpc = "dead"
  /\ timer' = "none" /\ opc' = "idle" /\ tpc' = "none"
  /\ created_at_' = FALSE /\ count_' = 0
  /\ UNCHANGED <<event, timer_event_, periodic_, history>>

OwnerGoesOn == RestartSets \/ StopSets \/ StopTimerReturns

\* Process: take the reference time, if there is none.
TimerCheck == /\ tpc = "check"
              /\ tpc' = IF created_at_ THEN "arm" ELSE "stamp"
              /\ UNCHANGED <<event, timer, opc, timer_event_, periodic_, created_at_, count_,
                             history>>

Stamp == /\ tpc = "stamp"
         /\ tpc' = "arm"
         /\ created_at_' = TRUE /\ count_' = 0
         /\ UNCHANGED <<event, timer, opc, timer_event_, periodic_, history>>

\* The loop of ThreadPosix::Run around Process.
TimerGoesOn == IF timer = "running" THEN "check" ELSE "dead"

\* Compute the next time and wait for it; the wait ends at once if the event
\* is up.
Arm == /\ tpc = "arm"
       /\ count_' = IF count_ = 2 THEN 2 ELSE count_ + 1
       /\ timer_event_' = kDown
       /\ tpc' = IF timer_event_ = kUp THEN TimerGoesOn ELSE "asleep"
       /\ UNCHANGED <<event, timer, opc, periodic_, created_at_, history>>

TimerWoken == /\ tpc = "asleep" /\ timer_event_ = kUp
              /\ timer_event_' = kDown
              /\ tpc' = TimerGoesOn
              /\ UNCHANGED <<event, timer, opc, periodic_, created_at_, count_, history>>

TimerTimesOut == /\ tpc = "asleep" /\ timer_event_ = kDown
                 /\ tpc' = "timedOut"
                 /\ UNCHANGED <<event, timer, opc, timer_event_, periodic_, created_at_,
                                count_, history>>

Shot == periodic_ \/ count_ = 1

TimerTimedOut == /\ tpc = "timedOut"
                 /\ timer_event_' = kDown
                 /\ tpc' = IF Shot THEN "fire" ELSE TimerGoesOn
                 /\ UNCHANGED <<event, timer, opc, periodic_, created_at_, count_, history>>

Fire == /\ tpc = "fire"
        /\ Set
        /\ shots' = IF periodic_ THEN shots ELSE shots + 1
        /\ unfired' = FALSE
        /\ tpc' = TimerGoesOn
        /\ UNCHANGED <<timer, opc, timer_event_, periodic_, created_at_, count_, starts>>

TimerThread == \/ TimerCheck \/ Stamp \/ Arm \/ TimerWoken \/ TimerTimesOut
               \/ TimerTimedOut \/ Fire

-----------------------------------------------------------------------------
EventNext == \/ SetEvent \/ Reset
             \/ \E t \in EventThreads : \/ WaitUp(t) \/ WaitDown(t) \/ TimeOut(t)
                                        \/ SpuriousWakeup(t) \/ ReturnSignaled(t)
                                        \/ ReturnTimeout(t)
             \/ \E periodic \in BOOLEAN : StartTimer(periodic)
             \/ StopTimer \/ OwnerGoesOn
             \/ TimerThread

EventSpec == EventInit /\ [][EventNext]_eventVars

\* The threads run: who is woken gets the mutex, the timer thread goes on and
\* its time passes, the owner ends the call it is in, and StopTimer sees that
\* the thread has ended.
EventFairness == /\ \A t \in EventThreads : WF_eventVars(ReturnSignaled(t) \/ ReturnTimeout(t))
                 /\ WF_eventVars(TimerThread)
                 /\ WF_eventVars(OwnerGoesOn)

EventFairSpec == EventSpec /\ EventFairness

-----------------------------------------------------------------------------
(* Properties *)

\* Every variable has its type, and the timer thread is there exactly while
\* timer_thread_ is set.
EventTypeOK == /\ state_ \in {kUp, kDown} /\ timer_event_ \in {kUp, kDown}
               /\ epc \in [EventThreads -> WaitPlaces]
               /\ owed \in BOOLEAN
               /\ timer \in {"none", "running", "stopping"} /\ tpc \in TimerPlaces
               /\ opc \in {"idle", "restart", "stop", "join"}
               /\ opc = "restart" => timer = "running" /\ ~periodic_
               /\ opc \in {"stop", "join"} <=> timer = "stopping"
               /\ timer = "none" <=> tpc = "none"
               /\ tpc = "dead" => timer = "stopping"
               /\ periodic_ \in BOOLEAN /\ created_at_ \in BOOLEAN
               /\ count_ \in 0 .. 2 /\ starts \in 0 .. MaxStarts /\ unfired \in BOOLEAN

\* Nobody sleeps while the event is up: Wait looks at the event under the mutex
\* before it sleeps, and Set wakes whoever sleeps.
NoSleeperWhileUp == state_ = kUp => \A t \in EventThreads : epc[t] # "asleep"

\* "Set is sticky in the sense that it will release at least one thread either
\* immediately or some time in the future" (event_wrapper.h): until a Wait answers
\* a Set, Reset revokes it or a Wait that timed out takes it, the event is up or a
\* thread is on its way out.
SetNotSwallowed ==
  owed => state_ = kUp \/ \E t \in EventThreads : epc[t] = "woken"

\* By the same words a Wait that reports a time-out leaves the Set to others.
TimeoutTakesNoSet == [][\A t \in EventThreads : ReturnTimeout(t) => (owed => owed')]_eventVars

\* A Set is answered while anybody waits.
SetIsAnswered == owed /\ (\E t \in EventThreads : epc[t] # "idle") ~> ~owed

\* A one-shot timer sets the event at most once for each StartTimer, wherever
\* the timer thread is when a restart clears the reference time and when it
\* sets timer_event_.
OneShotFiresOnce == shots <= starts

\* "Starts a timer that will call a non-sticky version of Set() either once or
\* periodically" (event_wrapper.h): a one-shot start that nobody stops is
\* answered by a shot.
StartedTimerFires == unfired ~> ~unfired

\* A periodic timer fires again and again until it is stopped.
PeriodicFires == (timer = "running" /\ periodic_)
                   ~> (tpc = "fire" \/ timer # "running")

\* StopTimer comes back, wherever the timer thread is.
StopTimerComesBack == timer = "stopping" ~> timer = "none"

\* Nobody who waits for the event, its timer or the timer's thread waits for ever.
NobodyWaitsForEver == SetIsAnswered /\ PeriodicFires /\ StopTimerComesBack
=============================================================================
