---------------------- MODULE ConditionVariableWindows ----------------------
(***************************************************************************)
(* The condition variable of system_wrappers/source/                       *)
(* condition_variable_win.cc where Windows has none of its own: one        *)
(* auto-reset event for Wake() and two manual-reset events that WakeAll()  *)
(* uses in turn.                                                           *)
(*                                                                         *)
(* Threads call it as RWLockGeneric does: every call is made inside the    *)
(* caller's critical section, which SleepCS() leaves while it waits.  An   *)
(* action is what a thread does between two points where another can run:  *)
(* the waiter counts have a critical section of their own, the events are  *)
(* set and reset outside it.                                               *)
(***************************************************************************)
EXTENDS Integers, FiniteSets

CONSTANTS Sleepers,       \* the threads that call it
          TimedSleepers,  \* those of them that give SleepCS() a time limit
          MaxWakeAlls,    \* bound: calls of WakeAll()
          Nobody

ASSUME TimedSleepersAssumption == TimedSleepers \subseteq Sleepers /\ Nobody \notin Sleepers
ASSUME MaxWakeAllsAssumption == MaxWakeAlls \in Nat

WAKEALL_0 == 0
WAKEALL_1 == 1
WAKE == 2
AllEvents == {WAKEALL_0, WAKEALL_1}

VARIABLES eventID_,       \* the event of the last WakeAll()
          num_waiters_,   \* waiters registered for each WakeAll() event
          events_,        \* which events are signalled
          crit,           \* the owner of the callers' critical section
          cpc,            \* each thread's place
          waitsFor,       \* and the event it is registered for
          wakeAlls,       \* how often WakeAll() was called
          called          \* the waiters a WakeAll() was called for

conditionVars == <<eventID_, num_waiters_, events_, crit, cpc, waitsFor, wakeAlls, called>>

SleeperPlaces == {"idle", "waiting", "wokenOne", "wokenAll", "timedOut", "reset", "enter",
           "setWake", "setAll"}

SleepersAt(place) == {t \in Sleepers : cpc[t] = place}

ConditionInit == /\ eventID_ = WAKEALL_0
                 /\ num_waiters_ = [e \in AllEvents |-> 0]
                 /\ events_ = [e \in AllEvents \cup {WAKE} |-> FALSE]
                 /\ crit = Nobody
                 /\ cpc = [t \in Sleepers |-> "idle"]
                 /\ waitsFor = [t \in Sleepers |-> WAKEALL_0]
                 /\ wakeAlls = 0 /\ called = {}

SleeperTo(t, place) == cpc' = [cpc EXCEPT ![t] = place]
-----------------------------------------------------------------------------
\* Variants of definitions below, each with one mistake, that the properties reject.
LastWaiter_AnyWaiter(t) == TRUE
-----------------------------------------------------------------------------
Other(e) == IF e = WAKEALL_0 THEN WAKEALL_1 ELSE WAKEALL_0

(* The event a new waiter waits for: the one the next WakeAll() signals. *)
NextWakeAllEvent(e) == Other(e)

(* SleepCS() up to the wait. *)
SleepCS(t) ==
  /\ cpc[t] = "idle" /\ crit = Nobody
  /\ waitsFor' = [waitsFor EXCEPT ![t] = NextWakeAllEvent(eventID_)]
  /\ num_waiters_' = [num_waiters_ EXCEPT ![NextWakeAllEvent(eventID_)] = @ + 1]
  /\ SleeperTo(t, "waiting")
  /\ UNCHANGED <<eventID_, events_, crit, wakeAlls, called>>

(* WaitForMultipleObjects(): the auto-reset event comes first, and is        *)
(* consumed.                                                                 *)
WaitReturns(t) ==
  /\ cpc[t] = "waiting"
  /\ \/ /\ events_[WAKE]
        /\ events_' = [events_ EXCEPT ![WAKE] = FALSE]
        /\ SleeperTo(t, "wokenOne")
     \/ /\ ~events_[WAKE] /\ events_[waitsFor[t]]
        /\ SleeperTo(t, "wokenAll")
        /\ UNCHANGED events_
  /\ called' = called \ {t}
  /\ UNCHANGED <<eventID_, num_waiters_, crit, waitsFor, wakeAlls>>

WaitTimesOut(t) ==
  /\ t \in TimedSleepers /\ cpc[t] = "waiting"
  /\ ~events_[WAKE] /\ ~events_[waitsFor[t]]
  /\ SleeperTo(t, "timedOut")
  /\ called' = called \ {t}
  /\ UNCHANGED <<eventID_, num_waiters_, events_, crit, waitsFor, wakeAlls>>

LastWaiter(t) == cpc[t] = "wokenAll" /\ num_waiters_[waitsFor[t]] = 1

Left(t) == [num_waiters_ EXCEPT ![waitsFor[t]] = @ - 1]

(* The waiter leaves the count; the last one after a WakeAll() will reset   *)
(* the event, but not before it has left the critical section of the counts. *)
Deregister(t) ==
  /\ cpc[t] \in {"wokenOne", "wokenAll", "timedOut"}
  /\ num_waiters_' = Left(t)
  /\ SleeperTo(t, IF LastWaiter(t) THEN "reset" ELSE "enter")
  /\ UNCHANGED <<eventID_, events_, crit, waitsFor, wakeAlls, called>>

ResetEvent(t) ==
  /\ cpc[t] = "reset"
  /\ events_' = [events_ EXCEPT ![waitsFor[t]] = FALSE]
  /\ SleeperTo(t, "enter")
  /\ UNCHANGED <<eventID_, num_waiters_, crit, waitsFor, wakeAlls, called>>

(* SleepCS() enters the caller's critical section again and returns. *)
Return(t) ==
  /\ cpc[t] = "enter" /\ crit = Nobody
  /\ SleeperTo(t, "idle")
  /\ UNCHANGED <<eventID_, num_waiters_, events_, crit, waitsFor, wakeAlls, called>>
-----------------------------------------------------------------------------
HaveWaiters == num_waiters_[WAKEALL_0] > 0 \/ num_waiters_[WAKEALL_1] > 0

Wake(t) ==
  /\ cpc[t] = "idle" /\ crit = Nobody /\ HaveWaiters
  /\ crit' = t
  /\ SleeperTo(t, "setWake")
  /\ UNCHANGED <<eventID_, num_waiters_, events_, waitsFor, wakeAlls, called>>

WakeAll(t) ==
  /\ cpc[t] = "idle" /\ crit = Nobody /\ wakeAlls < MaxWakeAlls
  /\ wakeAlls' = wakeAlls + 1
  /\ eventID_' = Other(eventID_)
  /\ called' = called \cup SleepersAt("waiting")
  /\ \/ /\ num_waiters_[eventID_'] > 0
        /\ crit' = t
        /\ SleeperTo(t, "setAll")
     \/ /\ num_waiters_[eventID_'] = 0
        /\ UNCHANGED <<crit, cpc>>
  /\ UNCHANGED <<num_waiters_, events_, waitsFor>>

(* SetEvent() and the caller's way out of its critical section. *)
SignalEvent(t) ==
  /\ \/ cpc[t] = "setWake" /\ events_' = [events_ EXCEPT ![WAKE] = TRUE]
     \/ cpc[t] = "setAll" /\ events_' = [events_ EXCEPT ![eventID_] = TRUE]
  /\ crit' = Nobody
  /\ SleeperTo(t, "idle")
  /\ UNCHANGED <<eventID_, num_waiters_, waitsFor, wakeAlls, called>>

ConditionNext == \E t \in Sleepers :
                   \/ SleepCS(t) \/ WaitReturns(t) \/ WaitTimesOut(t)
                   \/ Deregister(t) \/ ResetEvent(t) \/ Return(t)
                   \/ Wake(t) \/ WakeAll(t) \/ SignalEvent(t)

(* Every thread runs; nobody has to call Wake(), and the critical section   *)
(* is not kept from a thread for ever.                                      *)
ConditionFairness ==
  \A t \in Sleepers :
    /\ WF_conditionVars(\/ WaitReturns(t) \/ Deregister(t)
                        \/ ResetEvent(t) \/ SignalEvent(t))
    /\ SF_conditionVars(Return(t))

ConditionSpec == ConditionInit /\ [][ConditionNext]_conditionVars
ConditionFairSpec == ConditionSpec /\ ConditionFairness
-----------------------------------------------------------------------------
(* Every variable has its type. *)
ConditionTypeOK ==
  /\ eventID_ \in AllEvents
  /\ num_waiters_ \in [AllEvents -> 0 .. Cardinality(Sleepers)]
  /\ events_ \in [AllEvents \cup {WAKE} -> BOOLEAN]
  /\ crit \in Sleepers \cup {Nobody}
  /\ cpc \in [Sleepers -> SleeperPlaces] /\ waitsFor \in [Sleepers -> AllEvents]
  /\ wakeAlls \in 0 .. MaxWakeAlls /\ called \subseteq Sleepers

(* "Wakes all threads calling SleepCS()" (condition_variable_wrapper.h):    *)
(* whoever waits when WakeAll() is called stops waiting.                    *)
WakeAllReachesAll == \A t \in Sleepers : (t \in called) ~> (t \notin called)
=============================================================================
