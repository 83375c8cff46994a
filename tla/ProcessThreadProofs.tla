------------------------- MODULE ProcessThreadProofs -------------------------
(***************************************************************************)
(* Proofs about ProcessThread for any number of API threads, modules and   *)
(* restarts.                                                               *)
(***************************************************************************)
EXTENDS ProcessThread, TLAPS

-----------------------------------------------------------------------------
(* Types, the lock and the list of modules *)

\* The conjuncts of TypeOK with arithmetic.
Numbers == /\ made \in 0 .. MaxWorkers
           /\ _thread \in 1 .. made \cup {NULL}
           /\ deleted \subseteq 1 .. made /\ leaked \subseteq 1 .. made
           /\ object \in [Apis -> 1 .. made \cup {NULL}]

\* And those without, except what is said of todo.
Plain == /\ modules \subseteq Modules /\ due \subseteq Modules
         /\ fresh \subseteq modules
         /\ _timeEvent \in BOOLEAN
         /\ owner \in Apis \cup Workers \cup {NULL}
         /\ alive \subseteq Workers /\ dead \subseteq Workers
         /\ function \subseteq Workers /\ started \subseteq Workers
         /\ wpc \in [Workers -> WorkerPlaces]
         /\ running \in Modules \cup {NULL}
         /\ apc \in [Apis -> ApiPlaces]

\* The round's bookkeeping is there only while a worker has the lock.
Round == /\ todo \subseteq modules
         /\ running # NULL => running \in modules
         /\ todo # {} \/ running # NULL => owner \in Workers

\* A call that stops an object has one.
Held == \A a \in Apis : apc[a] = "stopping" => object[a] # NULL

LockInv == Numbers /\ Plain /\ Held /\ LockHeld /\ Round

LEMMA LockInvImplies == LockInv => ProcessTypeOK /\ LockHeld /\ RegisteredWhileProcessed
  BY DEF LockInv, Numbers, Plain, Round, ProcessTypeOK, RegisteredWhileProcessed

LEMMA Apart == /\ \A w \in Workers : w \notin Apis /\ w # NULL
               /\ \A a \in Apis : a # NULL
               /\ \A m \in Modules : m # NULL
  BY NULLAssumption

LEMMA LockInit == ProcessInit => LockInv
<1> SUFFICES ASSUME ProcessInit PROVE LockInv
  OBVIOUS
<1>1. Numbers
  BY MaxWorkersAssumption DEF ProcessInit, Numbers
<1>2. Plain
  BY DEF ProcessInit, Plain, WorkerPlaces, ApiPlaces
<1>3. LockHeld /\ Round
  BY Apart DEF ProcessInit, LockHeld, Round
<1>4. Held
  BY DEF ProcessInit, Held
<1> QED BY <1>1, <1>2, <1>3, <1>4 DEF LockInv

\* The objects are numbered as they are made.
LEMMA NumbersStep == Numbers /\ Plain /\ Held /\ [ProcessNext]_processVars => Numbers'
<1> SUFFICES ASSUME Numbers, Plain, Held, [ProcessNext]_processVars PROVE Numbers'
  OBVIOUS
<1> USE MaxWorkersAssumption DEF Numbers
<1>1. ASSUME NEW a \in Apis, Start(a) PROVE Numbers'
  <2>1. made \in Nat /\ made' = made + 1 /\ made' \in 0 .. MaxWorkers
    BY <1>1 DEF Start, MayStart
  <2>2. 1 .. made \subseteq 1 .. made' /\ made' \in 1 .. made'
    BY <2>1
  <2>3. object' \in [Apis -> 1 .. made' \cup {NULL}]
    <3>1. object \in [Apis -> 1 .. made' \cup {NULL}]
      BY <2>2
    <3> QED BY <1>1, <2>1, <2>2, <3>1 DEF Start, callVars
  <2>4. _thread' \in 1 .. made' /\ deleted' \subseteq 1 .. made' /\ leaked' \subseteq 1 .. made'
    BY <1>1, <2>1, <2>2 DEF Start
  <2> QED BY <2>1, <2>3, <2>4
<1>2. ASSUME NEW a \in Apis, StartReturns(a) \/ StartTimesOut(a) PROVE Numbers'
  BY <1>2 DEF StartReturns, StartTimesOut, threadVars
<1>3. ASSUME NEW a \in Apis, Stop(a) PROVE Numbers'
  BY <1>3 DEF Stop
<1>4. ASSUME NEW a \in Apis, StopReturns(a) \/ StopTimesOut(a) PROVE Numbers'
  <2>1. object[a] # NULL
    BY <1>4 DEF StopReturns, StopTimesOut, Held
  <2> QED BY <1>4, <2>1 DEF StopReturns, StopTimesOut
<1>5. ASSUME NEW a \in Apis, NEW m \in Modules, RegisterModule(a, m) \/ DeRegisterModule(a, m)
      PROVE  Numbers'
  BY <1>5 DEF RegisterModule, DeRegisterModule, threadVars, callVars
<1>6. ASSUME NEW m \in Modules, Due(m) PROVE Numbers'
  BY <1>6 DEF Due, threadVars, callVars
<1>7. ASSUME NEW w \in Workers, Worker(w) PROVE Numbers'
  BY <1>7 DEF Worker, Run, Loop, Scan, WaitEnds, Check, Enter, Visit, ModuleDone,
              Leave, Again, Exit, Goto, threadVars, callVars
<1>8. CASE UNCHANGED processVars
  BY <1>8 DEF processVars, threadVars, callVars
<1> QED BY <1>1, <1>2, <1>3, <1>4, <1>5, <1>6, <1>7, <1>8 DEF ProcessNext, Api

LEMMA HeldStep == Numbers /\ Plain /\ Held /\ [ProcessNext]_processVars => Held'
<1> SUFFICES ASSUME Numbers, Plain, Held, [ProcessNext]_processVars PROVE Held'
  OBVIOUS
<1> USE DEF Numbers, Plain, Held
<1>1. ASSUME NEW a \in Apis, Start(a) \/ StartReturns(a) \/ StartTimesOut(a)
      PROVE  Held'
  BY <1>1 DEF Start, StartReturns, StartTimesOut, callVars
<1>2. ASSUME NEW a \in Apis, Stop(a) \/ StopReturns(a) \/ StopTimesOut(a) PROVE Held'
  BY <1>2 DEF Stop, StopReturns, StopTimesOut
<1>3. ASSUME NEW a \in Apis, NEW m \in Modules,
             RegisterModule(a, m) \/ DeRegisterModule(a, m)
      PROVE  Held'
  BY <1>3 DEF RegisterModule, DeRegisterModule, callVars
<1>4. ASSUME NEW m \in Modules, Due(m) PROVE Held'
  BY <1>4 DEF Due, callVars
<1>5. ASSUME NEW w \in Workers, Worker(w) PROVE Held'
  BY <1>5 DEF Worker, Run, Loop, Scan, WaitEnds, Check, Enter, Visit, ModuleDone,
              Leave, Again, Exit, callVars
<1>6. CASE UNCHANGED processVars
  BY <1>6 DEF processVars, callVars
<1> QED BY <1>1, <1>2, <1>3, <1>4, <1>5, <1>6 DEF ProcessNext, Api

\* Start makes an object that was not there.
LEMMA NewWorker == Numbers /\ MayStart => made + 1 \in Workers
  BY MaxWorkersAssumption DEF Numbers, MayStart, Workers

LEMMA LockStep == LockInv /\ [ProcessNext]_processVars => Plain' /\ LockHeld' /\ Round'
<1> SUFFICES ASSUME LockInv, [ProcessNext]_processVars PROVE Plain' /\ LockHeld' /\ Round'
  OBVIOUS
<1> USE Apart DEF LockInv, Plain, LockHeld, Round, WorkerPlaces, ApiPlaces, Free
<1>1. ASSUME NEW a \in Apis, Start(a) PROVE Plain' /\ LockHeld' /\ Round'
  <2> DEFINE new == made + 1
  <2>1. new \in Workers /\ new \notin Apis
    BY <1>1, NewWorker DEF Start
  <2> HIDE DEF new
  <2>2. CASE owner' = a /\ apc' = [apc EXCEPT ![a] = "starting"]
             /\ wpc' = [wpc EXCEPT ![new] = "born"]
    BY <1>1, <2>1, <2>2 DEF Start, roundVars
  <2>3. CASE UNCHANGED <<owner, callVars, wpc>>
    BY <1>1, <2>3 DEF Start, roundVars, callVars
  <2> QED BY <1>1, <2>2, <2>3 DEF Start, new
<1>2. ASSUME NEW a \in Apis, StartReturns(a) \/ StartTimesOut(a) \/ StopTimesOut(a)
      PROVE  Plain' /\ LockHeld' /\ Round'
  BY <1>2 DEF StartReturns, StartTimesOut, StopTimesOut, threadVars, roundVars
<1>3. ASSUME NEW a \in Apis, Stop(a) \/ StopReturns(a)
      PROVE  Plain' /\ LockHeld' /\ Round'
  BY <1>3 DEF Stop, StopReturns, Reclaimed, Halted, roundVars
<1>4. ASSUME NEW a \in Apis, NEW m \in Modules, RegisterModule(a, m) \/ DeRegisterModule(a, m)
      PROVE  Plain' /\ LockHeld' /\ Round'
  BY <1>4 DEF RegisterModule, DeRegisterModule, Woken, threadVars, callVars, roundVars
<1>5. ASSUME NEW m \in Modules, Due(m) PROVE Plain' /\ LockHeld' /\ Round'
  BY <1>5 DEF Due, threadVars, callVars, roundVars
<1>6. ASSUME NEW w \in Workers, Run(w) \/ Loop(w) \/ Scan(w) \/ WaitEnds(w)
                                 \/ Check(w) \/ Again(w) \/ Exit(w)
      PROVE  Plain' /\ LockHeld' /\ Round'
  <2>1. UNCHANGED <<modules, due, owner, roundVars, callVars>>
    BY <1>6 DEF Run, Loop, Scan, WaitEnds, Check, Again, Exit, threadVars
  <2>2. PICK place \in WorkerPlaces \ {"process"} :
             wpc[w] # "process" /\ wpc' = [wpc EXCEPT ![w] = place]
    BY <1>6 DEF Run, Loop, Scan, WaitEnds, Check, Again, Exit, Goto
  <2>3. LockHeld' /\ Round'
    BY <2>1, <2>2 DEF roundVars, callVars
  <2>4. Plain'
    BY <1>6, <2>1, <2>2
    DEF Run, Loop, Scan, WaitEnds, Check, Again, Exit, Begun, threadVars, roundVars,
        callVars
  <2> QED BY <2>3, <2>4
<1>7. ASSUME NEW w \in Workers, Enter(w) PROVE Plain' /\ LockHeld' /\ Round'
  BY <1>7 DEF Enter, Goto, threadVars, callVars
<1>8. ASSUME NEW w \in Workers, NEW m \in Modules, Visit(w, m)
      PROVE  Plain' /\ LockHeld' /\ Round'
  BY <1>8 DEF Visit, threadVars, callVars
<1>9. ASSUME NEW w \in Workers, ModuleDone(w) \/ Leave(w)
      PROVE  Plain' /\ LockHeld' /\ Round'
  BY <1>9 DEF ModuleDone, Leave, Goto, threadVars, callVars, roundVars
<1>10. CASE UNCHANGED processVars
  BY <1>10 DEF processVars, threadVars, callVars, roundVars
<1> QED BY <1>1, <1>2, <1>3, <1>4, <1>5, <1>6, <1>7, <1>8, <1>9, <1>10 DEF ProcessNext, Api, Worker

LEMMA LockAlways == ProcessSpec => []LockInv
<1>1. LockInv /\ [ProcessNext]_processVars => LockInv'
  BY NumbersStep, HeldStep, LockStep DEF LockInv
<1> QED BY <1>1, LockInit, PTL DEF ProcessSpec

\* Every variable keeps its type, and the round of the worker refers to
\* registered modules only.
THEOREM TypeCorrect == ProcessSpec => []ProcessTypeOK
BY LockAlways, LockInvImplies, PTL

\* The lock has one owner, the thread whose place says so.
THEOREM LockCorrect == ProcessSpec => []LockHeld
BY LockAlways, LockInvImplies, PTL

\* DeRegisterModule() returns only when the module is not processed.
THEOREM ProcessedIsRegistered == ProcessSpec => []RegisteredWhileProcessed
BY LockAlways, LockInvImplies, PTL

-----------------------------------------------------------------------------
(* Threads and their objects *)

\* What the flags of a ThreadPosix say of its thread, and who holds a pointer
\* to it.
Flags == /\ \A w \in Workers : w \in dead <=> wpc[w] \in {"none", "born", "gone"}
         /\ \A w \in Workers : w \in started <=> wpc[w] \notin {"none", "born"}
         /\ \A w \in Workers : w > made => wpc[w] = "none"
         /\ \A a \in Apis : apc[a] = "starting" => object[a] = _thread /\ _thread # NULL
         /\ \A a \in Apis : apc[a] = "stopping" => object[a] \in 1 .. made /\ object[a] # _thread

\* Start() waits for the first sign of life, so that a thread that has not
\* begun still has its Start(), or Start() gave up on it.
BirthWatched ==
  \A w \in function : wpc[w] = "born" => \E a \in Apis : apc[a] = "starting" /\ object[a] = w

\* A thread runs in the object of the process thread or in one that a Stop()
\* waits for, or Start() or Stop() gave up on it.
Watched ==
  \A w \in function \ leaked :
    Running(w) => w = _thread \/ \E a \in Apis : apc[a] = "stopping" /\ object[a] = w

LifeInv == Flags /\ BirthWatched /\ NoUseAfterDelete

LEMMA LifeInit == ProcessInit => LifeInv /\ Watched
  BY DEF ProcessInit, LifeInv, Flags, BirthWatched, NoUseAfterDelete, Watched, Running

\* A stopped thread has begun.
LEMMA StoppedHasBegun ==
  ASSUME LockInv, Flags, BirthWatched, NEW a \in Apis, apc[a] = "stopping"
  PROVE  /\ object[a] \in Workers
         /\ object[a] \in function => wpc[object[a]] # "born"
BY MaxWorkersAssumption DEF LockInv, Numbers, Flags, BirthWatched, Workers

LEMMA FlagsStep == LockInv /\ Flags /\ [ProcessNext]_processVars => Flags'
<1> SUFFICES ASSUME LockInv, Flags, [ProcessNext]_processVars PROVE Flags'
  OBVIOUS
<1> USE DEF Flags, LockInv, Numbers, Plain
<1>0. /\ \A w \in Workers : w \in Int
      /\ made \in Int
  BY MaxWorkersAssumption DEF Workers
<1>1. ASSUME NEW a \in Apis, Start(a) PROVE Flags'
  <2>1. made + 1 \in Workers
    BY <1>1, NewWorker DEF Start
  <2>2. wpc[made + 1] = "none"
    BY <2>1, <1>0
  <2>3. \A b \in Apis : apc[b] # "starting"
    BY <1>1, Apart DEF Start, LockHeld, Free
  <2>4. made' = made + 1 /\ _thread' = made + 1 /\ made + 1 # NULL
    BY <1>1, <2>1, Apart DEF Start
  <2>5. /\ \A w \in Workers : w \in dead' <=> wpc'[w] \in {"none", "born", "gone"}
        /\ \A w \in Workers : w \in started' <=> wpc'[w] \notin {"none", "born"}
    BY <1>1, <2>1, <2>2 DEF Start
  <2>6. \A w \in Workers : w > made' => wpc'[w] = "none"
    BY <1>0, <1>1, <2>1, <2>4 DEF Start
  <2>7. \A b \in Apis : apc'[b] = "starting" => object'[b] = _thread' /\ _thread' # NULL
    BY <1>1, <2>3, <2>4 DEF Start, callVars
  <2>8. \A b \in Apis : apc'[b] = "stopping" => object'[b] \in 1 .. made' /\ object'[b] # _thread'
    <3> SUFFICES ASSUME NEW b \in Apis, apc'[b] = "stopping"
                 PROVE  object'[b] \in 1 .. made' /\ object'[b] # _thread'
      OBVIOUS
    <3>1. apc[b] = "stopping" /\ object'[b] = object[b]
      BY <1>1 DEF Start, callVars
    <3> QED BY <3>1, <2>4, <1>0
  <2> QED BY <2>5, <2>6, <2>7, <2>8
<1>2. ASSUME NEW a \in Apis, StartReturns(a) \/ StartTimesOut(a) \/ StopTimesOut(a)
                             \/ StopReturns(a)
      PROVE  Flags'
  BY <1>2 DEF StartReturns, StartTimesOut, StopTimesOut, StopReturns, threadVars
<1>3. ASSUME NEW a \in Apis, Stop(a) PROVE Flags'
  <2>1. NULL \notin 1 .. made
    BY Apart, MaxWorkersAssumption DEF Workers
  <2>2. \A b \in Apis : apc[b] # "starting"
    BY <1>3, Apart DEF Stop, LockHeld, Free
  <2>3. /\ \A b \in Apis : apc'[b] = "starting" => object'[b] = _thread' /\ _thread' # NULL
        /\ \A b \in Apis : apc'[b] = "stopping" => object'[b] \in 1 .. made /\ object'[b] # _thread'
    BY <1>3, <2>1, <2>2 DEF Stop
  <2> QED BY <1>3, <2>3 DEF Stop
<1>4. ASSUME NEW a \in Apis, NEW m \in Modules, RegisterModule(a, m) \/ DeRegisterModule(a, m)
      PROVE  Flags'
  BY <1>4 DEF RegisterModule, DeRegisterModule, threadVars, callVars
<1>5. ASSUME NEW m \in Modules, Due(m) PROVE Flags'
  BY <1>5 DEF Due, threadVars, callVars
<1>6. ASSUME NEW w \in Workers, Run(w) PROVE Flags'
  BY <1>6 DEF Run, Begun, Goto, WorkerPlaces, callVars
<1>7. ASSUME NEW w \in Workers, Exit(w) PROVE Flags'
  BY <1>7 DEF Exit, Goto, WorkerPlaces, callVars
<1>8. ASSUME NEW w \in Workers, NEW m \in Modules, Visit(w, m) PROVE Flags'
  BY <1>8 DEF Visit, threadVars, callVars
<1>9. ASSUME NEW w \in Workers,
             Loop(w) \/ Scan(w) \/ WaitEnds(w) \/ Check(w) \/ Enter(w)
               \/ ModuleDone(w) \/ Leave(w) \/ Again(w)
      PROVE  Flags'
  BY <1>9 DEF Loop, Scan, WaitEnds, Check, Enter, ModuleDone, Leave, Again, Goto,
              WorkerPlaces, threadVars, callVars
<1>10. CASE UNCHANGED processVars
  BY <1>10 DEF processVars, threadVars, callVars
<1> QED BY <1>1, <1>2, <1>3, <1>4, <1>5, <1>6, <1>7, <1>8, <1>9, <1>10 DEF ProcessNext, Api, Worker

\* What the other steps leave of the threads and of the pointers to them.
OtherStep == \/ \E a \in Apis, m \in Modules : RegisterModule(a, m) \/ DeRegisterModule(a, m)
             \/ \E m \in Modules : Due(m)
             \/ \E w \in Workers : Worker(w)
             \/ UNCHANGED processVars

LEMMA OtherSteps ==
  ASSUME LockInv, OtherStep
  PROVE  /\ UNCHANGED <<made, deleted, leaked, function, _thread, apc, object>>
         /\ \A w \in Workers : /\ wpc'[w] = "born" => wpc[w] = "born"
                               /\ Running(w)' => Running(w)
<1> USE DEF threadVars, callVars
<1>1. CASE \/ \E a \in Apis, m \in Modules : RegisterModule(a, m) \/ DeRegisterModule(a, m)
           \/ \E m \in Modules : Due(m)
           \/ UNCHANGED processVars
  BY <1>1 DEF RegisterModule, DeRegisterModule, Due, processVars, Running
<1>2. ASSUME NEW w \in Workers, NEW m \in Modules, Visit(w, m)
      PROVE  UNCHANGED <<made, deleted, leaked, function, _thread, apc, object, wpc>>
  BY <1>2 DEF Visit
<1>3. ASSUME NEW w \in Workers, ModuleDone(w)
      PROVE  UNCHANGED <<made, deleted, leaked, function, _thread, apc, object, wpc>>
  BY <1>3 DEF ModuleDone
<1>4. ASSUME NEW w \in Workers,
             Run(w) \/ Loop(w) \/ Scan(w) \/ WaitEnds(w) \/ Check(w) \/ Enter(w)
               \/ Leave(w) \/ Again(w) \/ Exit(w)
      PROVE  /\ UNCHANGED <<made, deleted, leaked, function, _thread, apc, object>>
             /\ wpc[w] \notin {"none", "gone"}
             /\ \E place \in WorkerPlaces \ {"born"} : wpc' = [wpc EXCEPT ![w] = place]
  BY <1>4 DEF Run, Loop, Scan, WaitEnds, Check, Enter, Leave, Again, Exit, Goto,
              WorkerPlaces
<1>5. wpc \in [Workers -> WorkerPlaces]
  BY DEF LockInv, Plain
<1> QED BY <1>1, <1>2, <1>3, <1>4, <1>5 DEF OtherStep, Worker, Running

LEMMA BirthWatchedStep ==
  ASSUME LockInv, Flags, BirthWatched, [ProcessNext]_processVars
  PROVE  BirthWatched'
<1> USE DEF BirthWatched
<1>0. wpc \in [Workers -> WorkerPlaces] /\ apc \in [Apis -> ApiPlaces]
      /\ object \in [Apis -> 1 .. made \cup {NULL}] /\ function \subseteq Workers
  BY DEF LockInv, Plain, Numbers
<1>1. ASSUME NEW a \in Apis, Start(a) PROVE BirthWatched'
  <2>1. \A b \in Apis : apc[b] # "starting"
    BY <1>1, Apart DEF Start, LockInv, LockHeld, Free
  <2>2. \A w \in function : wpc[w] # "born"
    BY <2>1
  <2> QED BY <1>1, <1>0, <2>2, NewWorker DEF Start, LockInv
<1>2. ASSUME NEW a \in Apis, StartReturns(a) PROVE BirthWatched'
  <2>1. wpc[object[a]] # "born"
    BY <1>2, <1>0 DEF StartReturns, Flags, LockInv, Plain
  <2> QED BY <1>0, <1>2, <2>1 DEF StartReturns, threadVars
<1>3. ASSUME NEW a \in Apis, Stop(a) \/ StopReturns(a) \/ StopTimesOut(a)
      PROVE  BirthWatched'
  BY <1>0, <1>3 DEF Stop, StopReturns, StopTimesOut
<1>4. ASSUME NEW a \in Apis, StartTimesOut(a) PROVE BirthWatched'
  BY <1>0, <1>4 DEF StartTimesOut
<1>5. ASSUME OtherStep PROVE BirthWatched'
  BY <1>0, <1>5, OtherSteps
<1> QED BY <1>1, <1>2, <1>3, <1>4, <1>5 DEF ProcessNext, Api, OtherStep

LEMMA NoUseStep ==
  ASSUME LockInv, Flags, BirthWatched, NoUseAfterDelete, [ProcessNext]_processVars
  PROVE  NoUseAfterDelete'
<1> USE DEF NoUseAfterDelete
<1>0. deleted \subseteq 1 .. made /\ 1 .. made \subseteq Workers /\ made \in Nat
      /\ wpc \in [Workers -> WorkerPlaces]
  BY MaxWorkersAssumption DEF LockInv, Numbers, Plain, Workers
<1>1. ASSUME NEW a \in Apis, Start(a) PROVE NoUseAfterDelete'
  <2>1. made + 1 \notin deleted
    BY <1>0
  <2> QED BY <1>0, <1>1, <2>1 DEF Start, Running
<1>2. ASSUME NEW a \in Apis,
             StartReturns(a) \/ StartTimesOut(a) \/ Stop(a) \/ StopTimesOut(a)
      PROVE  NoUseAfterDelete'
  BY <1>2 DEF StartReturns, StartTimesOut, Stop, StopTimesOut, threadVars, Running
<1>3. ASSUME NEW a \in Apis, StopReturns(a) PROVE NoUseAfterDelete'
  <2>1. object[a] \in function => ~Running(object[a])
    BY <1>3, StoppedHasBegun DEF StopReturns, Reclaimed, Flags, Running
  <2> QED BY <1>3, <2>1 DEF StopReturns, Running
<1>4. ASSUME OtherStep PROVE NoUseAfterDelete'
  BY <1>0, <1>4, OtherSteps
<1> QED BY <1>1, <1>2, <1>3, <1>4 DEF ProcessNext, Api, OtherStep

LEMMA WatchedStep ==
  ASSUME LockInv, Flags, BirthWatched, Watched, [ProcessNext]_processVars
  PROVE  Watched'
<1> USE DEF Watched
<1>0. wpc \in [Workers -> WorkerPlaces] /\ apc \in [Apis -> ApiPlaces]
      /\ object \in [Apis -> 1 .. made \cup {NULL}] /\ function \subseteq Workers
  BY DEF LockInv, Plain, Numbers
<1>1. ASSUME NEW a \in Apis, Start(a) PROVE Watched'
  <2>1. made + 1 \in Workers /\ _thread = NULL
    BY <1>1, NewWorker DEF Start, LockInv, MayStart
  <2>2. \A w \in Workers : Running(w)' => Running(w) \/ w = made + 1
    BY <1>0, <1>1 DEF Start, Running
  <2>3. \A b \in Apis : apc[b] = "stopping" => apc'[b] = "stopping" /\ object'[b] = object[b]
    BY <1>0, <1>1 DEF Start, callVars
  <2> QED BY <1>0, <1>1, <2>1, <2>2, <2>3, Apart DEF Start
<1>2. ASSUME NEW a \in Apis, StartReturns(a) PROVE Watched'
  BY <1>0, <1>2 DEF StartReturns, threadVars, Running
<1>3. ASSUME NEW a \in Apis, Stop(a) PROVE Watched'
  <2>1. \A w \in Workers : Running(w)' => Running(w)
    BY <1>3 DEF Stop, Running
  <2>2. apc'[a] = "stopping" /\ object'[a] = _thread
    BY <1>0, <1>3 DEF Stop
  <2>3. \A b \in Apis : apc[b] = "stopping" => apc'[b] = "stopping" /\ object'[b] = object[b]
    BY <1>0, <1>3 DEF Stop
  <2> QED BY <1>0, <1>3, <2>1, <2>2, <2>3 DEF Stop
<1>4. ASSUME NEW a \in Apis, StopReturns(a) PROVE Watched'
  <2>1. object[a] \in function => ~Running(object[a])
    BY <1>4, StoppedHasBegun DEF StopReturns, Reclaimed, Flags, Running
  <2> QED BY <1>0, <1>4, <2>1 DEF StopReturns, Running
<1>5. ASSUME NEW a \in Apis, StartTimesOut(a) \/ StopTimesOut(a) PROVE Watched'
  BY <1>0, <1>5 DEF StartTimesOut, StopTimesOut, Running
<1>6. ASSUME OtherStep PROVE Watched'
  BY <1>0, <1>6, OtherSteps
<1> QED BY <1>1, <1>2, <1>3, <1>4, <1>5, <1>6 DEF ProcessNext, Api, OtherStep

\* No object is deleted under its thread, if the thread began within the 10
\* seconds that Start() gives it.
THEOREM ObjectsOutlived == ProcessSpec => []NoUseAfterDelete
<1>1. LockInv /\ LifeInv /\ [ProcessNext]_processVars => LifeInv'
  BY FlagsStep, BirthWatchedStep, NoUseStep DEF LifeInv
<1>2. LifeInv => NoUseAfterDelete
  BY DEF LifeInv
<1> QED BY <1>1, <1>2, LifeInit, LockAlways, PTL DEF ProcessSpec

\* No thread and no module is used after it was deleted.
THEOREM ObjectsAndModulesOutlived == ProcessSpec => []NothingUsedAfterItsEnd
BY ObjectsOutlived, ProcessedIsRegistered, PTL DEF NothingUsedAfterItsEnd

\* After a Stop() nothing runs, but for threads that needed more than the 10
\* seconds of Start() or Stop().
THEOREM StoppedIsQuiet == ProcessSpec => []QuietWhenStopped
<1> DEFINE Inv == LifeInv /\ Watched
<1>1. LockInv /\ Inv /\ [ProcessNext]_processVars => Inv'
  BY FlagsStep, BirthWatchedStep, NoUseStep, WatchedStep DEF LifeInv
<1>2. LockInv /\ Inv => QuietWhenStopped
  BY Apart DEF Watched, QuietWhenStopped, LockInv, Plain
<1>3. ProcessInit => Inv
  BY LifeInit
<1> HIDE DEF Inv
<1> QED BY <1>1, <1>2, <1>3, LockAlways, PTL DEF ProcessSpec
-----------------------------------------------------------------------------
(* The wake-up *)

\* The wake-up of a new module is not lost: the worker of the process thread does
\* not wait with the times of a scan that the module was not in, unless the event
\* is up.
LEMMA WakesStep ==
  ASSUME LockInv, Flags, NewModuleWakes, [ProcessNext]_processVars
  PROVE  NewModuleWakes'
<1> USE DEF NewModuleWakes
<1>0. /\ wpc \in [Workers -> WorkerPlaces] /\ 1 .. made \subseteq Workers
      /\ _thread \in Workers \cup {NULL} /\ NULL \notin Workers
  BY MaxWorkersAssumption, Apart DEF LockInv, Plain, Numbers, Workers
<1>1. ASSUME NEW a \in Apis, Start(a) PROVE NewModuleWakes'
  <2>1. made + 1 \in Workers
    BY <1>1, NewWorker DEF Start, LockInv
  <2>2. wpc[made + 1] = "none"
    BY <2>1, MaxWorkersAssumption DEF Flags, LockInv, Numbers, Workers
  <2> QED BY <1>0, <1>1, <2>1, <2>2 DEF Start
<1>2. ASSUME NEW a \in Apis,
             \/ StartReturns(a) \/ StartTimesOut(a)
             \/ Stop(a) \/ StopReturns(a) \/ StopTimesOut(a)
      PROVE  NewModuleWakes'
  BY <1>2 DEF StartReturns, StartTimesOut, Stop, StopReturns, StopTimesOut, threadVars
<1>3. ASSUME NEW a \in Apis, NEW m \in Modules, RegisterModule(a, m) \/ DeRegisterModule(a, m)
      PROVE  NewModuleWakes'
  BY <1>3 DEF RegisterModule, DeRegisterModule, Woken
<1>4. ASSUME NEW m \in Modules, Due(m) PROVE NewModuleWakes'
  BY <1>4 DEF Due
<1>5. ASSUME NEW w \in Workers, Scan(w) PROVE NewModuleWakes'
  BY <1>0, <1>5 DEF Scan, Goto
<1>6. ASSUME NEW w \in Workers, WaitEnds(w) PROVE NewModuleWakes'
  BY <1>0, <1>6 DEF WaitEnds, Goto
<1>7. ASSUME NEW w \in Workers, NEW m \in Modules, Visit(w, m) PROVE NewModuleWakes'
  BY <1>7 DEF Visit
<1>8. ASSUME NEW w \in Workers,
             Run(w) \/ Loop(w) \/ Check(w) \/ Enter(w) \/ ModuleDone(w) \/ Leave(w)
               \/ Again(w) \/ Exit(w)
      PROVE  NewModuleWakes'
  BY <1>0, <1>8 DEF Run, Loop, Check, Enter, ModuleDone, Leave, Again, Exit, Goto
<1>9. CASE UNCHANGED processVars
  BY <1>9 DEF processVars
<1> QED BY <1>1, <1>2, <1>3, <1>4, <1>5, <1>6, <1>7, <1>8, <1>9 DEF ProcessNext, Api, Worker

\* RegisterModule() wakes the worker also when it comes between the worker's look
\* at the modules' times and its wait.
THEOREM WakeUpsKept == ProcessSpec => []NewModuleWakes
<1>1. LockInv /\ LifeInv /\ [ProcessNext]_processVars => LifeInv'
  BY FlagsStep, BirthWatchedStep, NoUseStep DEF LifeInv
<1>2. LockInv /\ LifeInv /\ NewModuleWakes /\ [ProcessNext]_processVars => NewModuleWakes'
  BY WakesStep DEF LifeInv
<1>3. ProcessInit => NewModuleWakes
  BY DEF ProcessInit, NewModuleWakes
<1> QED BY <1>1, <1>2, <1>3, LifeInit, LockAlways, PTL DEF ProcessSpec
=============================================================================
