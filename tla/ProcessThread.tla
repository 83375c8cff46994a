---------------------------- MODULE ProcessThread ----------------------------
(***************************************************************************)
(* ProcessThreadImpl, the thread that calls Process() of every registered  *)
(* module when it is due, together with the ThreadPosix objects it starts  *)
(* and stops.  API threads start and stop it and register modules; each    *)
(* Start() makes a new ThreadPosix, whose thread is called a worker here   *)
(* and has the object's number.                                            *)
(*                                                                         *)
(* An action is what a thread does while it holds _critSectModules or      *)
(* _crit_state, or between them.  _critSectModules is kept over the start  *)
(* of a worker and over the Process() calls, so it has an owner.  Time is  *)
(* left open: a module may be due at any moment and a wait of the worker,  *)
(* which lasts 100 ms at most, may end at any moment.                      *)
(***************************************************************************)
EXTENDS Integers, FiniteSets

CONSTANTS Apis, Modules,
          MaxWorkers,     \* bound: calls of Start
          CreateFails,    \* pthread_create may fail
          SlowStart,      \* a worker may need more than 10 s to begin to run
          SlowStop,       \* a worker may need more than 10 s to end
          NULL

ASSUME MaxWorkersAssumption == MaxWorkers \in Nat
ASSUME SwitchAssumption == {CreateFails, SlowStart, SlowStop} \subseteq BOOLEAN
Workers == 1 .. MaxWorkers
ASSUME NULLAssumption == /\ NULL \notin Apis \cup Workers \cup Modules
                         /\ Apis \cap Workers = {}

VARIABLES modules,     \* _modules
          due,         \* modules whose TimeUntilNextProcess() is below 1
          _thread,     \* _thread
          _timeEvent,  \* _timeEvent is up
          owner,       \* the owner of _critSectModules
          made,        \* ThreadPosix objects made so far
          deleted,     \* those deleted
          leaked,      \* and those given up by a Stop() whose time ran out
          alive, dead, \* _alive and _dead of each
          function,    \* objects whose _runFunction is set
          started,     \* and those whose _event is up
          wpc,         \* each worker's place
          fresh,       \* modules registered since the last scan by _thread's worker,
                       \* while no other worker took the wake-up
          todo,        \* modules the owner has still to visit
          running,     \* the module whose Process() the worker is in
          apc,         \* each API thread's place
          object       \* and the ThreadPosix it starts or stops

threadVars == <<made, deleted, leaked, alive, dead, function, started>>
roundVars == <<todo, running>>
callVars == <<apc, object>>
processVars == <<modules, due, _thread, _timeEvent, owner, threadVars, wpc, fresh, roundVars,
          callVars>>

WorkerPlaces == {"none", "born", "loop", "scan", "wait", "check", "enter",
                 "process", "after", "exit", "gone"}
ApiPlaces == {"idle", "starting", "stopping"}

ProcessInit == /\ modules = {} /\ due = {}
               /\ _thread = NULL /\ _timeEvent = FALSE /\ owner = NULL
               /\ made = 0 /\ deleted = {} /\ leaked = {}
               /\ alive = {} /\ dead = Workers
               /\ function = Workers /\ started = {}
               /\ wpc = [w \in Workers |-> "none"]
               /\ fresh = {} /\ todo = {} /\ running = NULL
               /\ apc = [a \in Apis |-> "idle"]
               /\ object = [a \in Apis |-> NULL]

-----------------------------------------------------------------------------
(* Variants of definitions below, each with one mistake, that the properties
   reject. *)

StartReturns_NoWait(a) ==
  /\ apc[a] = "starting"
  /\ apc' = [apc EXCEPT ![a] = "idle"]
  /\ object' = [object EXCEPT ![a] = NULL]
  /\ owner' = NULL
  /\ UNCHANGED <<modules, due, _thread, _timeEvent, threadVars, wpc, fresh, roundVars>>
MayStart_Twice == made < MaxWorkers
DeRegisterModule_Unlocked(a, m) ==
  /\ apc[a] = "idle" /\ m \in modules
  /\ modules' = modules \ {m}
  /\ fresh' = fresh \ {m}
  /\ UNCHANGED <<due, _thread, _timeEvent, owner, threadVars, wpc, roundVars, callVars>>
Begun_NoEvent(w) == started
Woken_No == _timeEvent

-----------------------------------------------------------------------------
(* The API threads *)

Free == owner = NULL

MayStart == _thread = NULL /\ made < MaxWorkers

\* ThreadPosix::Start, called by ProcessThreadImpl::Start inside
\* _critSectModules.  If pthread_create fails, the failure is lost in a
\* comparison and the object stays without a thread.
Start(a) ==
  /\ apc[a] = "idle" /\ Free
  /\ MayStart
  /\ made' = made + 1
  /\ _thread' = made + 1
  /\ \/ /\ owner' = a
        /\ apc' = [apc EXCEPT ![a] = "starting"]
        /\ object' = [object EXCEPT ![a] = made + 1]
        /\ wpc' = [wpc EXCEPT ![made + 1] = "born"]
     \/ CreateFails /\ UNCHANGED <<owner, callVars, wpc>>
  /\ UNCHANGED <<modules, due, _timeEvent, deleted, leaked, alive, dead, function, started,
                 fresh, roundVars>>

\* The worker has set the event that Start waits for.
StartReturns(a) ==
  /\ apc[a] = "starting" /\ object[a] \in started
  /\ apc' = [apc EXCEPT ![a] = "idle"]
  /\ object' = [object EXCEPT ![a] = NULL]
  /\ owner' = NULL
  /\ UNCHANGED <<modules, due, _thread, _timeEvent, threadVars, wpc, fresh, roundVars>>

\* Or it has not within 10 seconds.
StartTimesOut(a) ==
  /\ SlowStart
  /\ apc[a] = "starting" /\ object[a] \notin started
  /\ function' = function \ {object[a]}
  /\ apc' = [apc EXCEPT ![a] = "idle"]
  /\ object' = [object EXCEPT ![a] = NULL]
  /\ owner' = NULL
  /\ UNCHANGED <<modules, due, _thread, _timeEvent, made, deleted, leaked, alive, dead,
                 started, wpc, fresh, roundVars>>

\* SetNotAlive.
Halted == alive \ {_thread}

\* Stop inside _critSectModules.
Stop(a) ==
  /\ apc[a] = "idle" /\ Free /\ _thread # NULL
  /\ alive' = Halted
  /\ object' = [object EXCEPT ![a] = _thread]
  /\ _thread' = NULL
  /\ _timeEvent' = TRUE
  /\ apc' = [apc EXCEPT ![a] = "stopping"]
  /\ UNCHANGED <<modules, due, owner, made, deleted, leaked, dead, function, started, wpc,
                 fresh, roundVars>>

\* ThreadPosix::Stop sees that the worker has ended, or never began.
Reclaimed(w) == w \in dead

StopReturns(a) ==
  /\ apc[a] = "stopping" /\ Reclaimed(object[a])
  /\ deleted' = deleted \cup {object[a]}
  /\ apc' = [apc EXCEPT ![a] = "idle"]
  /\ object' = [object EXCEPT ![a] = NULL]
  /\ UNCHANGED <<modules, due, _thread, _timeEvent, owner, made, leaked, alive, dead, function,
                 started, wpc, fresh, roundVars>>

\* Or gives up after 10 seconds, and the object is not deleted.
StopTimesOut(a) ==
  /\ SlowStop
  /\ apc[a] = "stopping" /\ ~Reclaimed(object[a])
  /\ apc' = [apc EXCEPT ![a] = "idle"]
  /\ object' = [object EXCEPT ![a] = NULL]
  /\ leaked' = leaked \cup {object[a]}
  /\ UNCHANGED <<modules, due, _thread, _timeEvent, owner, made, deleted, alive, dead,
                 function, started, wpc, fresh, roundVars>>

Woken == TRUE

RegisterModule(a, m) ==
  /\ apc[a] = "idle" /\ Free /\ m \notin modules
  /\ modules' = modules \cup {m}
  /\ fresh' = fresh \cup {m}
  /\ _timeEvent' = Woken
  /\ UNCHANGED <<due, _thread, owner, threadVars, wpc, roundVars, callVars>>

DeRegisterModule(a, m) ==
  /\ apc[a] = "idle" /\ Free /\ m \in modules
  /\ modules' = modules \ {m}
  /\ fresh' = fresh \ {m}
  /\ UNCHANGED <<due, _thread, _timeEvent, owner, threadVars, wpc, roundVars, callVars>>

\* Time passes for a module.
Due(m) ==
  /\ m \notin due
  /\ due' = due \cup {m}
  /\ UNCHANGED <<modules, _thread, _timeEvent, owner, threadVars, wpc, fresh, roundVars,
                 callVars>>

-----------------------------------------------------------------------------
(* The workers *)

Goto(w, place) == wpc' = [wpc EXCEPT ![w] = place]

Begun(w) == started \cup {w}

\* ThreadPosix::Run.
Run(w) ==
  /\ wpc[w] = "born"
  /\ alive' = alive \cup {w}
  /\ dead' = dead \ {w}
  /\ started' = Begun(w)
  /\ Goto(w, "loop")
  /\ UNCHANGED <<modules, due, _thread, _timeEvent, owner, made, deleted, leaked, function,
                 fresh, roundVars, callVars>>

Loop(w) ==
  /\ wpc[w] = "loop"
  /\ IF w \in function
     THEN Goto(w, "scan") /\ UNCHANGED alive
     ELSE Goto(w, "exit") /\ alive' = alive \ {w}
  /\ UNCHANGED <<modules, due, _thread, _timeEvent, owner, made, deleted, leaked, dead,
                 function, started, fresh, roundVars, callVars>>

\* Process: wait, unless a module is due.
Scan(w) ==
  /\ wpc[w] = "scan" /\ Free
  /\ Goto(w, IF modules \cap due = {} THEN "wait" ELSE "enter")
  /\ fresh' = IF w = _thread THEN {} ELSE fresh
  /\ UNCHANGED <<modules, due, _thread, _timeEvent, owner, threadVars, roundVars,
                 callVars>>

\* The wait ends with the event or with its time; either way the event is
\* taken down.
WaitEnds(w) ==
  /\ wpc[w] = "wait"
  /\ _timeEvent' = FALSE
  /\ Goto(w, "check")
  /\ fresh' = IF w = _thread THEN fresh ELSE {}
  /\ UNCHANGED <<modules, due, _thread, owner, threadVars, roundVars, callVars>>

\* The test of _thread, without the lock; false from Process ends the worker.
Check(w) ==
  /\ wpc[w] = "check"
  /\ IF _thread = NULL
     THEN Goto(w, "exit") /\ alive' = alive \ {w}
     ELSE Goto(w, "enter") /\ UNCHANGED alive
  /\ UNCHANGED <<modules, due, _thread, _timeEvent, owner, made, deleted, leaked, dead, function,
                 started, fresh, roundVars, callVars>>

Enter(w) ==
  /\ wpc[w] = "enter" /\ Free
  /\ owner' = w
  /\ todo' = modules
  /\ Goto(w, "process")
  /\ UNCHANGED <<modules, due, _thread, _timeEvent, threadVars, fresh, running, callVars>>

IsDue(m) == m \in due

\* The next module of the list, whose Process() is called if it is due.
Visit(w, m) ==
  /\ wpc[w] = "process" /\ running = NULL /\ m \in todo
  /\ todo' = todo \ {m}
  /\ running' = IF IsDue(m) THEN m ELSE NULL
  /\ UNCHANGED <<modules, due, _thread, _timeEvent, owner, threadVars, wpc, fresh,
                 callVars>>

\* Process() returns; the module is no longer due.
ModuleDone(w) ==
  /\ wpc[w] = "process" /\ running # NULL
  /\ due' = due \ {running}
  /\ running' = NULL
  /\ UNCHANGED <<modules, _thread, _timeEvent, owner, threadVars, wpc, fresh, todo,
                 callVars>>

Leave(w) ==
  /\ wpc[w] = "process" /\ todo = {} /\ running = NULL
  /\ owner' = NULL
  /\ Goto(w, "after")
  /\ UNCHANGED <<modules, due, _thread, _timeEvent, threadVars, fresh, roundVars,
                 callVars>>

\* The end of the loop in Run.
Again(w) ==
  /\ wpc[w] = "after"
  /\ Goto(w, IF w \in alive THEN "loop" ELSE "exit")
  /\ UNCHANGED <<modules, due, _thread, _timeEvent, owner, threadVars, fresh, roundVars,
                 callVars>>

Exit(w) ==
  /\ wpc[w] = "exit"
  /\ dead' = dead \cup {w}
  /\ Goto(w, "gone")
  /\ UNCHANGED <<modules, due, _thread, _timeEvent, owner, made, deleted, leaked, alive, function,
                 started, fresh, roundVars, callVars>>

-----------------------------------------------------------------------------
Api(a) == \/ Start(a) \/ StartReturns(a) \/ StartTimesOut(a)
          \/ Stop(a) \/ StopReturns(a) \/ StopTimesOut(a)
          \/ \E m \in Modules : RegisterModule(a, m) \/ DeRegisterModule(a, m)

Worker(w) == \/ Run(w) \/ Loop(w) \/ Scan(w) \/ WaitEnds(w) \/ Check(w)
             \/ Enter(w) \/ (\E m \in Modules : Visit(w, m)) \/ ModuleDone(w)
             \/ Leave(w) \/ Again(w) \/ Exit(w)

ProcessNext == \/ \E a \in Apis : Api(a)
               \/ \E w \in Workers : Worker(w)
               \/ \E m \in Modules : Due(m)

ProcessSpec == ProcessInit /\ [][ProcessNext]_processVars

\* A worker that can go on does, and a lock that is free again and again is
\* given to each that asks for it.  Nobody has to call anything, and no module
\* has to become due.
ProcessFairness ==
  /\ \A w \in Workers : WF_processVars(Worker(w)) /\ SF_processVars(Scan(w) \/ Enter(w))
  /\ \A a \in Apis : WF_processVars(StartReturns(a) \/ StopReturns(a))

ProcessFairSpec == ProcessSpec /\ ProcessFairness

-----------------------------------------------------------------------------
ProcessTypeOK ==
  /\ modules \subseteq Modules /\ due \subseteq Modules
  /\ fresh \subseteq modules /\ todo \subseteq modules
  /\ made \in 0 .. MaxWorkers
  /\ _thread \in 1 .. made \cup {NULL}
  /\ _timeEvent \in BOOLEAN
  /\ owner \in Apis \cup Workers \cup {NULL}
  /\ deleted \subseteq 1 .. made /\ leaked \subseteq 1 .. made
  /\ alive \subseteq Workers /\ dead \subseteq Workers
  /\ function \subseteq Workers /\ started \subseteq Workers
  /\ wpc \in [Workers -> WorkerPlaces]
  /\ running \in Modules \cup {NULL}
  /\ apc \in [Apis -> ApiPlaces]
  /\ object \in [Apis -> 1 .. made \cup {NULL}]

Running(w) == wpc[w] \notin {"none", "gone"}

\* The list of modules is locked from the start of a worker to its first sign
\* of life and over every round of Process() calls, by one thread each time.
LockHeld ==
  /\ \A a \in Apis : apc[a] = "starting" <=> owner = a
  /\ \A w \in Workers : wpc[w] = "process" <=> owner = w

\* A ThreadPosix is not deleted while its thread runs in it, if the thread
\* began before Start() gave up on it: Stop() of the process thread deletes the
\* object as soon as it reads dead.
NoUseAfterDelete == \A w \in deleted \cap function : ~Running(w)

\* When the process thread is stopped and no Stop() is in progress, nothing runs
\* but what Start() or Stop() gave up on, and a module is free to go.
QuietWhenStopped ==
  _thread = NULL /\ (\A a \in Apis : apc[a] # "stopping") =>
    \A w \in function \ leaked : ~Running(w)

\* A module whose Process() runs is registered: once DeRegisterModule() has
\* returned, the worker is not in the module.
RegisteredWhileProcessed == running # NULL => running \in modules

\* Neither a thread nor a module is used after the end of its life: the two
\* deletions that others may make while the worker runs.
NothingUsedAfterItsEnd == NoUseAfterDelete /\ RegisteredWhileProcessed

\* A worker that waits with the times of an old scan has been woken, unless the
\* old worker of a Stop() in progress took the wake-up: that of RegisterModule()
\* is not lost between the scan and the wait.
NewModuleWakes ==
  _thread # NULL => (wpc[_thread] = "wait" /\ fresh # {} => _timeEvent)

\* Start() comes back: the new worker needs no lock that Start() holds to
\* give its sign of life.  Stop() comes back within the worker's next round,
\* whatever is registered or becomes due and although another thread may start
\* a new worker meanwhile.
CallsComeBack == \A a \in Apis : apc[a] # "idle" ~> apc[a] = "idle"

\* A module that is due is processed, unless it leaves, the process thread is
\* stopped, or its thread could not be created or did not begin in time.
Working == _thread \in function /\ Running(_thread)
DueModuleProcessed ==
  \A m \in Modules : (m \in modules \cap due /\ Working) ~> (m \notin modules \cap due \/ ~Working)

\* Both callers and modules are served.
CallersAndModulesServed == CallsComeBack /\ DueModuleProcessed
=============================================================================
