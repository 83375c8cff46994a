---------------------------- MODULE RWLockGeneric ----------------------------
(***************************************************************************)
(* The readers/writer lock of system_wrappers/source/rw_lock_generic.cc: a *)
(* critical section, four counters and two condition variables.  The lock  *)
(* is made where Windows has no lock of its own (rw_lock.cc), and there it *)
(* has no condition variables either: those below are the fallback of      *)
(* condition_variable_win.cc, made of events.  write_condition_ is only    *)
(* asked to Wake(), read_condition_ only to WakeAll().                     *)
(*                                                                         *)
(* Every access to the counters happens inside critical_section_, so one   *)
(* action is the run of one thread from entering the section to where      *)
(* another can see it: to the end of the call, to the wait of SleepCS(),   *)
(* or to a SetEvent().  A sleeper whose wait returned leaves the count of  *)
(* waiters, and resets the event of a WakeAll() if it was the last, with   *)
(* no more than the counts' own critical section in hand; then it still    *)
(* has to take critical_section_, and another thread may take it first.    *)
(***************************************************************************)
EXTENDS Integers, FiniteSets

CONSTANT Threads

ASSUME ThreadsAssumption == IsFiniteSet(Threads)

WAKEALL_0 == 0
WAKEALL_1 == 1
AllEvents == {WAKEALL_0, WAKEALL_1}

VARIABLES readers_active_, writer_active_, readers_waiting_, writers_waiting_,
          pc,        \* where each thread is
          wake,      \* write_condition_: its auto-reset event is signalled
          eventID_,  \* read_condition_: the event of the last WakeAll()
          up,        \* its manual-reset events that are signalled
          event,     \* the event each thread in its SleepCS() waits for
          called,    \* history: the sleepers a WakeAll() was called for
          erased     \* history: those whose signal a late ResetEvent() erased

lockVars == <<readers_active_, writer_active_, readers_waiting_, writers_waiting_>>
readVars == <<eventID_, up, event, called, erased>>
vars == <<lockVars, pc, wake, readVars>>

Locations == {"idle", "reading", "writing",
              "sleepR", "leaveR", "resetR", "wokenR",  \* in read_condition_->SleepCS()
              "sleepW", "leaveW", "wokenW",            \* in write_condition_->SleepCS()
              "setWake", "setAll"}                     \* before SetEvent()

At(loc) == {t \in Threads : pc[t] = loc}

Goto(t, loc) == pc' = [pc EXCEPT ![t] = loc]

Init == /\ readers_active_ = 0 /\ writer_active_ = FALSE
        /\ readers_waiting_ = 0 /\ writers_waiting_ = 0
        /\ pc = [t \in Threads |-> "idle"]
        /\ wake = FALSE
        /\ eventID_ = WAKEALL_0 /\ up = {}
        /\ event = [t \in Threads |-> WAKEALL_0]
        /\ called = {} /\ erased = {}
-----------------------------------------------------------------------------
\* Variants of definitions below, each with one mistake, that the properties reject.
ReadBlocked_ForgetsQueue == writer_active_
WakesWriter_ReadersFirst == writers_waiting_ > 0 /\ readers_waiting_ = 0
LastReaderWakes_BeforeDecrement == readers_active_ = 0 /\ writers_waiting_ > 0
NextWakeAllEvent_Last == eventID_
-----------------------------------------------------------------------------
(* critical_section_: only a thread about to call SetEvent() keeps it from  *)
(* one action to the next.                                                  *)
Free == At("setWake") \cup At("setAll") = {}

(* The conditions of the two wait loops. *)
WriteBlocked == writer_active_ \/ readers_active_ > 0
ReadBlocked == writer_active_ \/ writers_waiting_ > 0

Other(e) == IF e = WAKEALL_0 THEN WAKEALL_1 ELSE WAKEALL_0

(* The event a new waiter waits for: that of the next WakeAll(). *)
NextWakeAllEvent == Other(eventID_)

(* The threads that num_waiters_[e] of read_condition_ counts, and all that *)
(* the two counts of write_condition_ do.                                   *)
Readers(e) == {t \in At("sleepR") \cup At("leaveR") : event[t] = e}
Writers == At("sleepW") \cup At("leaveW")

(* SleepCS() of either condition, up to the wait. *)
SleepToRead(t) == /\ Goto(t, "sleepR")
                  /\ event' = [event EXCEPT ![t] = NextWakeAllEvent]
                  /\ UNCHANGED <<wake, eventID_, up, called, erased>>

SleepToWrite(t) == Goto(t, "sleepW") /\ UNCHANGED <<wake, readVars>>

(* A call ends without a signal. *)
Proceed(t, loc) == Goto(t, loc) /\ UNCHANGED <<wake, readVars>>

(* Wake() on write_condition_ up to SetEvent(). *)
WakeOne(t) == /\ Goto(t, IF Writers # {} THEN "setWake" ELSE "idle")
              /\ UNCHANGED <<wake, readVars>>

(* WakeAll() on read_condition_ up to SetEvent().  It is called for all who *)
(* sleep, and makes up for the erased signal of those it signals again.     *)
WakeAll(t) == /\ eventID_' = Other(eventID_)
              /\ Goto(t, IF Readers(Other(eventID_)) # {} THEN "setAll" ELSE "idle")
              /\ called' = called \cup At("sleepR")
              /\ erased' = {u \in erased : event[u] = eventID_}
              /\ UNCHANGED <<wake, up, event>>
-----------------------------------------------------------------------------
AcquireLockExclusive(t) ==
  /\ pc[t] = "idle" /\ Free
  /\ \/ /\ WriteBlocked
        /\ writers_waiting_' = writers_waiting_ + 1
        /\ SleepToWrite(t)
        /\ UNCHANGED writer_active_
     \/ /\ ~WriteBlocked
        /\ writer_active_' = TRUE
        /\ Proceed(t, "writing")
        /\ UNCHANGED writers_waiting_
  /\ UNCHANGED <<readers_active_, readers_waiting_>>

(* The loop of AcquireLockExclusive() when SleepCS() returns. *)
ResumeExclusive(t) ==
  /\ pc[t] = "wokenW" /\ Free
  /\ \/ /\ WriteBlocked
        /\ SleepToWrite(t)
        /\ UNCHANGED <<writer_active_, writers_waiting_>>
     \/ /\ ~WriteBlocked
        /\ writers_waiting_' = writers_waiting_ - 1
        /\ writer_active_' = TRUE
        /\ Proceed(t, "writing")
  /\ UNCHANGED <<readers_active_, readers_waiting_>>

(* Which condition ReleaseLockExclusive() signals: writers come first.      *)
WakesWriter == writers_waiting_ > 0
WakesReaders == ~WakesWriter /\ readers_waiting_ > 0

ReleaseLockExclusive(t) ==
  /\ pc[t] = "writing" /\ Free
  /\ writer_active_' = FALSE
  /\ \/ WakesWriter /\ WakeOne(t)
     \/ WakesReaders /\ WakeAll(t)
     \/ ~WakesWriter /\ ~WakesReaders /\ Proceed(t, "idle")
  /\ UNCHANGED <<readers_active_, readers_waiting_, writers_waiting_>>

AcquireLockShared(t) ==
  /\ pc[t] = "idle" /\ Free
  /\ \/ /\ ReadBlocked
        /\ readers_waiting_' = readers_waiting_ + 1
        /\ SleepToRead(t)
        /\ UNCHANGED readers_active_
     \/ /\ ~ReadBlocked
        /\ readers_active_' = readers_active_ + 1
        /\ Proceed(t, "reading")
        /\ UNCHANGED readers_waiting_
  /\ UNCHANGED <<writer_active_, writers_waiting_>>

(* The loop of AcquireLockShared() when SleepCS() returns. *)
ResumeShared(t) ==
  /\ pc[t] = "wokenR" /\ Free
  /\ \/ /\ ReadBlocked
        /\ SleepToRead(t)
        /\ UNCHANGED <<readers_active_, readers_waiting_>>
     \/ /\ ~ReadBlocked
        /\ readers_waiting_' = readers_waiting_ - 1
        /\ readers_active_' = readers_active_ + 1
        /\ Proceed(t, "reading")
  /\ UNCHANGED <<writer_active_, writers_waiting_>>

(* ReleaseLockShared() signals a writer when the last reader leaves. *)
LastReaderWakes == readers_active_ = 1 /\ writers_waiting_ > 0

ReleaseLockShared(t) ==
  /\ pc[t] = "reading" /\ Free
  /\ readers_active_' = readers_active_ - 1
  /\ \/ LastReaderWakes /\ WakeOne(t)
     \/ ~LastReaderWakes /\ Proceed(t, "idle")
  /\ UNCHANGED <<writer_active_, readers_waiting_, writers_waiting_>>
-----------------------------------------------------------------------------
(* SetEvent(), the end of the call, and the way out of critical_section_.   *)
SetEvent(t) ==
  /\ \/ pc[t] = "setWake" /\ wake' = TRUE /\ UNCHANGED up
     \/ pc[t] = "setAll" /\ up' = up \cup {eventID_} /\ UNCHANGED wake
  /\ Goto(t, "idle")
  /\ UNCHANGED <<lockVars, eventID_, event, called, erased>>

(* WaitForMultipleObjects() returns; the auto-reset event is consumed. *)
WaitReturns(t) ==
  /\ \/ /\ pc[t] = "sleepW" /\ wake
        /\ wake' = FALSE
        /\ Goto(t, "leaveW")
        /\ UNCHANGED <<called, erased>>
     \/ /\ pc[t] = "sleepR" /\ event[t] \in up
        /\ Goto(t, "leaveR")
        /\ called' = called \ {t} /\ erased' = erased \ {t}
        /\ UNCHANGED wake
  /\ UNCHANGED <<lockVars, eventID_, up, event>>

LastWaiter(t) == Readers(event[t]) = {t}

(* The waiter leaves the count; the last one after a WakeAll() will reset   *)
(* the event, but not before it has left the critical section of the counts. *)
Deregister(t) ==
  /\ \/ pc[t] = "leaveW" /\ Goto(t, "wokenW")
     \/ pc[t] = "leaveR" /\ Goto(t, IF LastWaiter(t) THEN "resetR" ELSE "wokenR")
  /\ UNCHANGED <<lockVars, wake, readVars>>

(* The sleepers whose signal is erased when event e is reset: a WakeAll()   *)
(* was called for them, and its SetEvent() is not still to come.            *)
LoseSignal(e) == {u \in called : /\ event[u] = e /\ e \in up
                                 /\ At("setAll") = {} \/ e # eventID_}

ResetEvent(t) ==
  /\ pc[t] = "resetR"
  /\ up' = up \ {event[t]}
  /\ erased' = erased \cup LoseSignal(event[t])
  /\ Goto(t, "wokenR")
  /\ UNCHANGED <<lockVars, wake, eventID_, event, called>>

Next == \E t \in Threads :
          \/ AcquireLockExclusive(t) \/ ResumeExclusive(t) \/ ReleaseLockExclusive(t)
          \/ AcquireLockShared(t) \/ ResumeShared(t) \/ ReleaseLockShared(t)
          \/ SetEvent(t) \/ WaitReturns(t) \/ Deregister(t) \/ ResetEvent(t)

(***************************************************************************)
(* Fairness: a thread that can run does; critical_section_, which others   *)
(* take in between, is not kept from a thread for ever; a holder releases  *)
(* the lock (ReadLockScoped and WriteLockScoped do it on scope exit).      *)
(* Nothing makes a thread ask for the lock.                                *)
(***************************************************************************)
Fairness == \A t \in Threads :
  /\ WF_vars(SetEvent(t) \/ WaitReturns(t) \/ Deregister(t) \/ ResetEvent(t))
  /\ SF_vars(\/ ResumeExclusive(t) \/ ResumeShared(t)
             \/ ReleaseLockExclusive(t) \/ ReleaseLockShared(t))

Spec == Init /\ [][Next]_vars
FairSpec == Spec /\ Fairness
-----------------------------------------------------------------------------
WaitingWriters == At("sleepW") \cup At("leaveW") \cup At("wokenW")
WaitingReaders == At("sleepR") \cup At("leaveR") \cup At("resetR") \cup At("wokenR")

(* The counters are numbers, the flags Booleans, and every thread is somewhere. *)
TypeOK == /\ readers_active_ \in Nat /\ writer_active_ \in BOOLEAN
          /\ readers_waiting_ \in Nat /\ writers_waiting_ \in Nat
          /\ pc \in [Threads -> Locations]
          /\ wake \in BOOLEAN /\ eventID_ \in AllEvents /\ up \subseteq AllEvents
          /\ event \in [Threads -> AllEvents]
          /\ called \subseteq At("sleepR") /\ erased \subseteq called

(* The counters count the threads they are named for, a signalled thread    *)
(* that has not run yet among the waiting ones.                             *)
CountersMatch ==
  /\ readers_active_ = Cardinality(At("reading"))
  /\ writer_active_ <=> At("writing") # {}
  /\ readers_waiting_ = Cardinality(WaitingReaders)
  /\ writers_waiting_ = Cardinality(WaitingWriters)

(* No thread writes while another reads or writes: what AcquireLockShared() *)
(* and AcquireLockExclusive() are for.                                      *)
Exclusion == \A t \in At("writing") : At("writing") = {t} /\ At("reading") = {}

Locked == writer_active_ \/ readers_active_ > 0

(* The event of reader t is signalled or about to be. *)
Signalled(t) == event[t] \in up \/ (At("setAll") # {} /\ event[t] = eventID_)

(* A writer sleeps only while someone holds the lock, and will signal, or   *)
(* the auto-reset event is signalled or about to be, or another writer is   *)
(* on its way: an event is no counter, and two Wake() may leave it signalled *)
(* once.                                                                    *)
WritersAwaited ==
  At("sleepW") # {} =>
    \/ Locked \/ wake
    \/ At("setWake") \cup At("leaveW") \cup At("wokenW") # {}

(* A reader sleeps only while a writer holds the lock or waits for it, or   *)
(* its own event is signalled or about to be, which of the two events it    *)
(* ever sleeps on and however many releases it sleeps through.  The reader  *)
(* whose signal ResetEvent() has erased is left out here: EveryReaderIsWoken *)
(* says what becomes of it.                                                 *)
ReadersAwaited ==
  \A t \in At("sleepR") \ erased :
    IF t \in called THEN Signalled(t) ELSE ReadBlocked

(* No wake-up is lost, but by ResetEvent(), although a release signals one  *)
(* condition only, another thread can take the lock between a signal and    *)
(* the sleeper's return, and a signal may be taken by a thread that has to  *)
(* sleep again.                                                             *)
NoLostWakeup == WritersAwaited /\ ReadersAwaited

(* "Wakes all threads calling SleepCS()" (condition_variable_wrapper.h), as *)
(* the lock needs it: a reader sleeps only while a writer holds the lock or *)
(* waits for it, or while its event is signalled or about to be.            *)
EveryReaderIsWoken ==
  \A t \in At("sleepR") : ReadBlocked \/ Signalled(t)

(* When a writer waits some writer gets the lock: new readers stay out and  *)
(* the last one to leave signals.                                           *)
WritersProgress == WaitingWriters # {} ~> At("writing") # {}

(* Once writers stop coming, every waiting reader gets the lock, unless its *)
(* signal is erased.                                                        *)
ReadersServed ==
  <>[](At("writing") \cup WaitingWriters = {}) =>
    \A t \in Threads : (t \in WaitingReaders) ~> (pc[t] = "reading" \/ t \in erased)

(* Both together: neither kind is forgotten when the lock is released. *)
AllAreServed == WritersProgress /\ ReadersServed

(* The lock implements the abstract readers/writer lock. *)
RW == INSTANCE RWLock WITH readers <- At("reading"), writers <- At("writing"),
                           queued <- WaitingWriters
Refines == RW!Spec
=============================================================================
