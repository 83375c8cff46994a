------------------------------ MODULE MCWaiting ------------------------------
(* Threads that wait for each other, in one run: on the event of POSIX with *)
(* its timer, on the condition variable of Windows, on the process thread   *)
(* and on the channels.  Each behaviour is one of a single part, while the  *)
(* others stay where they began.                                            *)
EXTENDS EventPosix, ConditionVariableWindows, ProcessThread, ChannelManager

VARIABLE part  \* the one that runs

Parts == {"EventPosix", "ConditionVariableWindows", "ProcessThread", "ChannelManager"}

WaitingInit == /\ part \in Parts
               /\ EventInit /\ ConditionInit /\ ProcessInit /\ Init

\* Threads may all sleep on an event or a condition variable for good: nothing
\* makes anybody set it.
MaySleepForGood == part \in {"EventPosix", "ConditionVariableWindows"}

WaitingNext ==
  /\ part' = part
  /\ \/ /\ part = "EventPosix" /\ EventNext
        /\ UNCHANGED <<conditionVars, processVars, vars>>
     \/ /\ part = "ConditionVariableWindows" /\ ConditionNext
        /\ UNCHANGED <<eventVars, processVars, vars>>
     \/ /\ part = "ProcessThread" /\ ProcessNext
        /\ UNCHANGED <<eventVars, conditionVars, vars>>
     \/ /\ part = "ChannelManager" /\ Next
        /\ UNCHANGED <<eventVars, conditionVars, processVars>>
     \/ MaySleepForGood /\ UNCHANGED <<eventVars, conditionVars, processVars, vars>>

WaitingSpec ==
  /\ WaitingInit
  /\ [][WaitingNext]_<<part, eventVars, conditionVars, processVars, vars>>
  /\ \/ part = "EventPosix" /\ EventFairness
     \/ part = "ConditionVariableWindows" /\ ConditionFairness
     \/ part = "ProcessThread" /\ ProcessFairness
     \/ part = "ChannelManager" /\ Fairness
=============================================================================
