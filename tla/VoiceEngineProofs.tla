-------------------------- MODULE VoiceEngineProofs --------------------------
(***************************************************************************)
(* Proofs about VoiceEngine for any number of threads and channels: what   *)
(* the API lock guards.                                                    *)
(***************************************************************************)
EXTENDS VoiceEngine, TLAPS

-----------------------------------------------------------------------------
(* Types and the API lock *)

\* The conjuncts of TypeOK.
Flags == {initialized, recording, playing, fileRecording} \subseteq BOOLEAN
Places == /\ pc \in [Threads -> LockedPlaces \cup FreePlaces \cup {"idle"}]
          /\ within \in [Threads -> Calls]
          /\ todo \in [Threads -> SUBSET Channels]
Sets == /\ channels \subseteq Channels
        /\ sending \subseteq channels /\ playout \subseteq channels
        /\ cut \subseteq {Rec, Play} /\ left \subseteq {Rec, Play}
OneLocked == \A t, u \in Threads :
               pc[t] \in LockedPlaces /\ pc[u] \in LockedPlaces => t = u

\* The channel that a StartSend is about outlives it.
Starting == \A t \in Threads :
              pc[t] \in {"startRecording", "startSend"} => todo[t] \subseteq channels

LockInv == Flags /\ Places /\ Sets /\ OneLocked /\ Starting

LEMMA LockInvImplies == LockInv => TypeOK
  BY DEF LockInv, Flags, Places, Sets, OneLocked, TypeOK

LEMMA LockInit == Init => LockInv
  BY DEF Init, LockInv, Flags, Places, Sets, OneLocked, Starting, Calls, LockedPlaces

\* What an action does to the places.
USE DEF LockedPlaces, FreePlaces, Calls, LockFree, May, MayLocked, Goto, Works, Rec, Play

LEMMA PlacesStep == Flags /\ Places /\ Sets /\ [Next]_vars => Places'
<1> SUFFICES ASSUME Flags, Places, Sets, [Next]_vars PROVE Places'
  OBVIOUS
<1>1. CASE RecordFileEnded \/ UNCHANGED vars
  BY <1>1 DEF Places, RecordFileEnded, vars, threadVars
<1>2. ASSUME NEW t \in Threads, Api(t) PROVE Places'
  <2>1. CASE EngineInit(t) \/ Terminate(t) \/ CreateChannel(t) \/ StartPlayout(t)
             \/ StopPlayout(t) \/ SetPlayoutDeviceFails(t)
    BY <2>1 DEF Places, EngineInit, Terminate, CreateChannel, StartPlayout, StopPlayout,
                SetPlayoutDeviceFails, threadVars
  <2>2. CASE StartSend(t)
    BY <2>2 DEF Places, Sets, StartSend
  <2>3. CASE StartRecording(t)
    BY <2>3 DEF Places, StartRecording
  <2>4. CASE ChannelStartSend(t)
    BY <2>4 DEF Places, ChannelStartSend
  <2>5. CASE StopSend(t)
    BY <2>5 DEF Places, Sets, StopSend, AskMixer
  <2>6. CASE IsRecordingMic(t)
    BY <2>6 DEF Places, IsRecordingMic, AfterStopSend
  <2>7. CASE StopRecording(t)
    BY <2>7 DEF Places, StopRecording, AfterStopSend, AfterFailedStopSend
  <2>8. CASE DeleteChannel(t)
    BY <2>8 DEF Places, Sets, DeleteChannel, AskMixer
  <2>9. CASE DestroyChannel(t)
    BY <2>9 DEF Places, DestroyChannel, AskMixer
  <2>10. CASE StopPlayoutAtEnd(t)
    BY <2>10 DEF Places, StopPlayoutAtEnd
  <2>11. CASE SetRecordingDevice(t) \/ RestoreRecording(t)
    BY <2>11 DEF Places, SetRecordingDevice, RestoreRecording
  <2> QED BY <1>2, <2>1, <2>2, <2>3, <2>4, <2>5, <2>6, <2>7, <2>8, <2>9, <2>10, <2>11
             DEF Api
<1>3. ASSUME NEW t \in Threads, Microphone(t) PROVE Places'
  <2>1. CASE StartRecordingMicrophone(t)
    BY <2>1 DEF Places, StartRecordingMicrophone
  <2>2. CASE FileLooks(t) \/ FileStartsRecording(t)
    BY <2>2 DEF Places, FileLooks, FileStartsRecording
  <2>3. CASE StopRecordingMicrophone(t)
    BY <2>3 DEF Places, Sets, StopRecordingMicrophone
  <2>4. CASE CountChannel(t)
    BY <2>4 DEF Places, CountChannel
  <2>5. CASE CountedNone(t) \/ FileStopsRecording(t) \/ StopMixer(t)
    BY <2>5 DEF Places, CountedNone, FileStopsRecording, StopMixer
  <2> QED BY <1>3, <2>1, <2>2, <2>3, <2>4, <2>5 DEF Microphone
<1> QED BY <1>1, <1>2, <1>3 DEF Next

\* A call enters the places under the lock while nobody is there, and else only
\* moves from one to the next.
LEMMA OneLockedStep == Places /\ OneLocked /\ [Next]_vars => OneLocked'
<1> SUFFICES ASSUME Places, OneLocked, [Next]_vars PROVE OneLocked'
  OBVIOUS
<1>1. CASE pc' = pc
  BY <1>1 DEF OneLocked
<1>2. ASSUME NEW t \in Threads, NEW place, pc' = [pc EXCEPT ![t] = place],
             place \in LockedPlaces => LockFree \/ pc[t] \in LockedPlaces
      PROVE  OneLocked'
  BY <1>2 DEF Places, OneLocked
<1>3. ASSUME NEW t \in Threads, Api(t) PROVE OneLocked'
  <2>1. CASE pc' = pc
    BY <2>1, <1>1
  <2>2. \/ pc' = pc
        \/ \E place : /\ pc' = [pc EXCEPT ![t] = place]
                      /\ LockFree \/ pc[t] \in LockedPlaces
    BY <1>3 DEF Api, EngineInit, Terminate, CreateChannel, StartPlayout, StopPlayout,
                SetPlayoutDeviceFails, StartSend, StartRecording, ChannelStartSend,
                StopSend, IsRecordingMic, StopRecording, DeleteChannel, DestroyChannel,
                StopPlayoutAtEnd, SetRecordingDevice, RestoreRecording, AskMixer,
                threadVars
  <2> QED BY <2>1, <2>2, <1>2
<1>4. ASSUME NEW t \in Threads, Microphone(t) PROVE OneLocked'
  <2>1. \E place \in FreePlaces \cup {"idle"} : pc' = [pc EXCEPT ![t] = place]
    BY <1>4 DEF Microphone, StartRecordingMicrophone, FileLooks, FileStartsRecording,
                StopRecordingMicrophone, CountChannel, CountedNone, FileStopsRecording,
                StopMixer
  <2> QED BY <2>1, <1>2
<1> QED BY <1>1, <1>3, <1>4 DEF Next, RecordFileEnded, vars, threadVars

LEMMA SetsStep == LockInv /\ [Next]_vars => Flags' /\ Sets' /\ Starting'
<1> SUFFICES ASSUME LockInv, [Next]_vars PROVE Flags' /\ Sets' /\ Starting'
  OBVIOUS
<1> USE DEF LockInv, Flags, Places, Sets, Starting
<1>1. CASE UNCHANGED vars
  BY <1>1 DEF vars, engineVars, threadVars
<1>2. CASE RecordFileEnded
  BY <1>2 DEF RecordFileEnded, threadVars
<1>3. ASSUME NEW t \in Threads, Api(t) PROVE Flags' /\ Sets' /\ Starting'
  <2>1. CASE EngineInit(t)
    BY <2>1 DEF EngineInit, threadVars
  <2>2. CASE Terminate(t)
    BY <2>2 DEF Terminate, threadVars
  <2>3. CASE CreateChannel(t)
    BY <2>3 DEF CreateChannel, threadVars
  <2>4. CASE StartPlayout(t)
    BY <2>4 DEF StartPlayout, threadVars
  <2>5. CASE StopPlayout(t)
    BY <2>5 DEF StopPlayout, StopPlayoutOf, StopPlayoutDevice, threadVars
  <2>6. CASE SetPlayoutDeviceFails(t)
    BY <2>6 DEF SetPlayoutDeviceFails, engineVars, threadVars
  <2>7. CASE StartSend(t)
    BY <2>7 DEF StartSend, engineVars
  <2>8. CASE StartRecording(t)
    BY <2>8 DEF StartRecording, RecordingStarts, engineVars
  <2>9. CASE ChannelStartSend(t)
    BY <2>9 DEF ChannelStartSend
  <2>10. CASE StopSend(t)
    BY <2>10 DEF StopSend, AskMixer
  <2>11. CASE IsRecordingMic(t)
    BY <2>11 DEF IsRecordingMic, AfterStopSend, engineVars
  <2>12. CASE StopRecording(t)
    BY <2>12 DEF StopRecording, RecordingStops, RecordingStays, AfterStopSend,
                 AfterFailedStopSend, engineVars
  <2>13. CASE DeleteChannel(t)
    BY <2>13 DEF DeleteChannel, AskMixer, StopPlayoutOf, StopPlayoutDevice
  <2>14. CASE DestroyChannel(t)
    BY <2>14 DEF DestroyChannel, AskMixer, Remaining, OneLocked
  <2>15. CASE StopPlayoutAtEnd(t)
    BY <2>15 DEF StopPlayoutAtEnd, StopPlayoutDevice, engineVars
  <2>16. CASE SetRecordingDevice(t)
    BY <2>16 DEF SetRecordingDevice, engineVars
  <2>17. CASE RestoreRecording(t)
    BY <2>17 DEF RestoreRecording, RecordingStarts, engineVars
  <2> QED BY <1>3, <2>1, <2>2, <2>3, <2>4, <2>5, <2>6, <2>7, <2>8, <2>9, <2>10, <2>11,
             <2>12, <2>13, <2>14, <2>15, <2>16, <2>17 DEF Api
<1>4. ASSUME NEW t \in Threads, Microphone(t) PROVE Flags' /\ Sets' /\ Starting'
  <2>1. CASE StartRecordingMicrophone(t)
    BY <2>1 DEF StartRecordingMicrophone
  <2>2. CASE FileLooks(t)
    BY <2>2 DEF FileLooks, engineVars
  <2>3. CASE FileStartsRecording(t)
    BY <2>3 DEF FileStartsRecording, RecordingStarts, engineVars
  <2>4. CASE StopRecordingMicrophone(t)
    BY <2>4 DEF StopRecordingMicrophone, engineVars
  <2>5. CASE CountChannel(t)
    BY <2>5 DEF CountChannel, engineVars
  <2>6. CASE CountedNone(t)
    BY <2>6 DEF CountedNone, engineVars
  <2>7. CASE FileStopsRecording(t)
    BY <2>7 DEF FileStopsRecording, RecordingStops, RecordingStays, engineVars
  <2>8. CASE StopMixer(t)
    BY <2>8 DEF StopMixer
  <2> QED BY <1>4, <2>1, <2>2, <2>3, <2>4, <2>5, <2>6, <2>7, <2>8 DEF Microphone
<1> QED BY <1>1, <1>2, <1>3, <1>4 DEF Next

\* Types are kept, only existing channels send or play out, and one call at a
\* time is under the API lock.
THEOREM TypeCorrect == Spec => []TypeOK
<1>1. LockInv /\ [Next]_vars => LockInv'
  BY PlacesStep, OneLockedStep, SetsStep DEF LockInv
<1> QED BY <1>1, LockInit, LockInvImplies, PTL DEF Spec

-----------------------------------------------------------------------------
(* Playout *)

\* The device serves the channels that play out, also before Init() ends.
Served == playout # {} => (playing <=> Play \notin cut)

\* A channel that could not stop playing out before it is destroyed is among
\* the failures the device was left on by.
InDelete(t) == \/ pc[t] = "destroy"
               \/ /\ pc[t] \in {"isRecordingMic", "stopRecording"}
                  /\ within[t] = "DeleteChannel"
Deleting ==
  \A t \in Threads :
    InDelete(t) /\ todo[t] \cap playout # {} /\ playing => Play \in left

PlayoutInv == Served /\ PlayoutReleased /\ Deleting

LEMMA PlayoutInit == Init => PlayoutInv
  BY DEF Init, PlayoutInv, Served, PlayoutReleased, Deleting

\* All that is not under the API lock, and the calls for the microphone that
\* are, leave playout alone and what they do not work on.
PlayoutSame == /\ UNCHANGED <<playing, playout>>
               /\ Play \in cut <=> Play \in cut'
               /\ Play \in left <=> Play \in left'

LEMMA SameKeeps ==
  ASSUME PlayoutInv, PlayoutSame, Places,
         NEW t \in Threads,
         \A u \in Threads \ {t} : /\ pc'[u] = pc[u] /\ within'[u] = within[u]
                                 /\ todo'[u] = todo[u],
         InDelete(t)' => InDelete(t) /\ todo'[t] = todo[t]
  PROVE  PlayoutInv'
<1>1. Served' /\ PlayoutReleased'
  BY DEF PlayoutInv, Served, PlayoutReleased, PlayoutSame
<1>2. Deleting'
  BY DEF PlayoutInv, Deleting, InDelete, PlayoutSame
<1> QED BY <1>1, <1>2 DEF PlayoutInv

\* A call that begins or ends under the API lock is alone under it.
LEMMA NobodyDeletes ==
  ASSUME OneLocked, Served', PlayoutReleased',
         NEW t \in Threads, LockFree \/ pc[t] \in LockedPlaces,
         \A u \in Threads \ {t} : pc'[u] = pc[u],
         ~InDelete(t)'
  PROVE  PlayoutInv'
  BY DEF PlayoutInv, OneLocked, Deleting, InDelete

LEMMA PlayoutStep == LockInv /\ PlayoutInv /\ [Next]_vars => PlayoutInv'
<1> SUFFICES ASSUME LockInv, PlayoutInv, [Next]_vars PROVE PlayoutInv'
  OBVIOUS
<1>0. Places /\ Sets /\ Flags /\ OneLocked
  BY DEF LockInv
<1>1. CASE UNCHANGED vars
  BY <1>1 DEF vars, engineVars, threadVars, PlayoutInv, Served, PlayoutReleased, Deleting,
              InDelete
<1>2. CASE RecordFileEnded
  BY <1>2 DEF RecordFileEnded, threadVars, PlayoutInv, Served, PlayoutReleased, Deleting,
              InDelete
<1>3. ASSUME NEW t \in Threads, Api(t) PROVE PlayoutInv'
  <2>1. CASE EngineInit(t)
    BY <2>1 DEF EngineInit, threadVars, PlayoutInv, Served, PlayoutReleased, Deleting,
                InDelete
  <2>2. CASE Terminate(t)
    BY <2>2 DEF Terminate, threadVars, PlayoutInv, Served, PlayoutReleased, Deleting,
                InDelete
  <2>3. CASE CreateChannel(t)
    BY <2>3 DEF CreateChannel, threadVars, PlayoutInv, Served, PlayoutReleased, Deleting,
                InDelete
  <2>4. CASE StartPlayout(t)
    BY <2>4 DEF StartPlayout, threadVars, PlayoutInv, Served, PlayoutReleased, Deleting,
                InDelete
  <2>5. CASE StopPlayout(t)
    BY <1>0, <2>5 DEF StopPlayout, StopPlayoutOf, StopPlayoutDevice, StopsPlayout,
                      threadVars, PlayoutInv, Served, PlayoutReleased, Deleting, InDelete,
                      Sets
  <2>6. CASE SetPlayoutDeviceFails(t)
    BY <2>6 DEF SetPlayoutDeviceFails, engineVars, threadVars, PlayoutInv, Served,
                PlayoutReleased, Deleting, InDelete
  <2>7. CASE StartSend(t)
    BY <1>0, <2>7, SameKeeps DEF StartSend, engineVars, PlayoutSame, Places, InDelete
  <2>8. CASE StartRecording(t)
    BY <1>0, <2>8, SameKeeps DEF StartRecording, RecordingStarts, engineVars,
                                 PlayoutSame, Places, InDelete
  <2>9. CASE ChannelStartSend(t)
    BY <1>0, <2>9, SameKeeps DEF ChannelStartSend, PlayoutSame, Places, InDelete
  <2>10. CASE StopSend(t)
    BY <1>0, <2>10, SameKeeps DEF StopSend, AskMixer, PlayoutSame, Places, InDelete
  <2>11. CASE IsRecordingMic(t)
    BY <1>0, <2>11, SameKeeps DEF IsRecordingMic, AfterStopSend, engineVars, PlayoutSame,
                                  Places, InDelete
  <2>12. CASE StopRecording(t)
    BY <1>0, <2>12, SameKeeps DEF StopRecording, RecordingStops, RecordingStays,
                                  AfterStopSend, AfterFailedStopSend, engineVars,
                                  PlayoutSame, Places, InDelete
  <2>13. CASE DeleteChannel(t)
    <3>1. PICK c \in channels : /\ StopPlayoutOf(c)
                               /\ Works(t, "DeleteChannel", {c})
      BY <2>13 DEF DeleteChannel
    <3>2. Served' /\ PlayoutReleased' /\ cut' = cut
      BY <1>0, <2>13, <3>1
         DEF DeleteChannel, StopPlayoutOf, StopPlayoutDevice, StopsPlayout, PlayoutInv,
             Served, PlayoutReleased, Sets
    <3>3. c \in playout' /\ playing' => Play \in left'
      BY <1>0, <3>1 DEF StopPlayoutOf
    <3>4. \A u \in Threads \ {t} : pc'[u] \notin LockedPlaces
      BY <1>0, <2>13 DEF DeleteChannel, AskMixer, Places
    <3>5. Deleting'
      BY <1>0, <3>1, <3>3, <3>4 DEF Deleting, InDelete, Places
    <3> QED BY <3>2, <3>5 DEF PlayoutInv
  <2>14. CASE DestroyChannel(t)
    <3>1. Served' /\ PlayoutReleased'
      BY <2>14 DEF DestroyChannel, PlayoutInv, Served, PlayoutReleased, Deleting,
                   InDelete, Remaining
    <3>2. \A u \in Threads \ {t} : pc'[u] \notin LockedPlaces
      BY <1>0, <2>14 DEF DestroyChannel, AskMixer, Places, OneLocked
    <3>3. within'[t] = "Destroyed"
      BY <1>0, <2>14 DEF DestroyChannel, Places
    <3>4. Deleting'
      BY <1>0, <2>14, <3>2, <3>3 DEF Deleting, InDelete, DestroyChannel, AskMixer, Places
    <3> QED BY <3>1, <3>4 DEF PlayoutInv
  <2>15. CASE StopPlayoutAtEnd(t)
    <3>1. Served' /\ PlayoutReleased'
      BY <1>0, <2>15 DEF StopPlayoutAtEnd, StopPlayoutDevice, StopsPlayout, engineVars,
                         PlayoutInv, Served, PlayoutReleased, Sets
    <3> QED BY <1>0, <2>15, <3>1, NobodyDeletes DEF StopPlayoutAtEnd, Places, InDelete
  <2>16. CASE SetRecordingDevice(t)
    BY <1>0, <2>16, SameKeeps DEF SetRecordingDevice, engineVars, PlayoutSame, Places,
                                  InDelete
  <2>17. CASE RestoreRecording(t)
    BY <1>0, <2>17, SameKeeps DEF RestoreRecording, RecordingStarts, engineVars,
                                  PlayoutSame, Places, InDelete
  <2> QED BY <1>3, <2>1, <2>2, <2>3, <2>4, <2>5, <2>6, <2>7, <2>8, <2>9, <2>10, <2>11,
             <2>12, <2>13, <2>14, <2>15, <2>16, <2>17 DEF Api
<1>4. ASSUME NEW t \in Threads, Microphone(t) PROVE PlayoutInv'
  <2>1. PlayoutSame
    BY <1>4 DEF Microphone, StartRecordingMicrophone, FileLooks, FileStartsRecording,
                StopRecordingMicrophone, CountChannel, CountedNone, FileStopsRecording,
                StopMixer, RecordingStarts, RecordingStops, RecordingStays, engineVars,
                PlayoutSame
  <2>2. \A u \in Threads \ {t} : /\ pc'[u] = pc[u] /\ within'[u] = within[u]
                                /\ todo'[u] = todo[u]
    BY <1>0, <1>4 DEF Microphone, StartRecordingMicrophone, FileLooks,
                FileStartsRecording, StopRecordingMicrophone, CountChannel, CountedNone,
                FileStopsRecording, StopMixer, Places
  <2>3. pc'[t] \in FreePlaces \cup {"idle"}
    BY <1>0, <1>4 DEF Microphone, StartRecordingMicrophone, FileLooks,
                FileStartsRecording, StopRecordingMicrophone, CountChannel, CountedNone,
                FileStopsRecording, StopMixer, Places
  <2> QED BY <1>0, <2>1, <2>2, <2>3, SameKeeps DEF InDelete
<1> QED BY <1>1, <1>2, <1>3, <1>4 DEF Next

\* At every moment the device plays for the channels that play out, unless it
\* was taken from them.
THEOREM PlayoutServed == Spec => []PlayoutServesChannels
<1>1. LockInv /\ [Next]_vars => LockInv'
  BY PlacesStep, OneLockedStep, SetsStep DEF LockInv
<1>2. PlayoutInv => PlayoutServesChannels
  BY DEF PlayoutInv, Served, PlayoutServesChannels
<1> QED BY <1>1, <1>2, LockInit, PlayoutInit, PlayoutStep, PTL DEF Spec

\* And it plays for nobody only when a call failed on it.
THEOREM PlayoutNotLeftOn == Spec => []PlayoutReleased
<1>1. LockInv /\ [Next]_vars => LockInv'
  BY PlacesStep, OneLockedStep, SetsStep DEF LockInv
<1>2. PlayoutInv => PlayoutReleased
  BY DEF PlayoutInv
<1> QED BY <1>1, <1>2, LockInit, PlayoutInit, PlayoutStep, PTL DEF Spec

\* Both together: the device plays just when it is used.
THEOREM PlayoutRight == Spec => []PlayoutFollowsUse
BY PlayoutServed, PlayoutNotLeftOn, PTL DEF PlayoutFollowsUse

-----------------------------------------------------------------------------
(* The microphone, for one thread that calls *)

\* What a thread on its way knows.
Knows(t) ==
  /\ pc[t] \in {"startRecording", "startSend"} => todo[t] # {}
  /\ pc[t] = "startSend" => recording
  /\ pc[t] \in {"isRecordingMic", "stopRecording", "stopMic"} => sending = {}
  /\ pc[t] = "stopRecording" => ~fileRecording
  /\ pc[t] = "recordingMic" => recording \/ fileRecording
  /\ pc[t] = "startMic" => fileRecording /\ ~recording
  /\ pc[t] = "count" => sending \subseteq todo[t]
  /\ pc[t] = "restore" => ~recording

\* The device is on for those that use it, except within a call that opens or
\* closes the file or changes the device.
On == recording <=> Rec \notin cut
OnForUsers(t) ==
  /\ recording => Rec \notin cut
  /\ Used /\ pc[t] \notin {"recordingMic", "startMic", "stopMixer", "restore"} => On
  /\ sending # {} /\ pc[t] = "stopMixer" => On

\* And off without them, except within a call that starts or stops it.
LeftOn(t) ==
  /\ recording /\ ~Used /\ pc[t] \notin {"startSend", "isRecordingMic", "stopRecording"}
       => Rec \in left
  /\ recording /\ sending = {} /\ pc[t] = "stopMixer" => Rec \in left
  /\ ~Used /\ pc[t] = "restore" => Rec \in left

MicInv(t) == Knows(t) /\ OnForUsers(t) /\ LeftOn(t)

LEMMA MicStep ==
  ASSUME NEW t, Threads = {t}, LockInv, MicInv(t), [Next]_vars
  PROVE  MicInv(t)'
<1> USE DEF LockInv, Flags, Places, Sets, MicInv, Knows, On, OnForUsers, LeftOn, Used
<1> t \in Threads
  OBVIOUS
<1>1. CASE UNCHANGED vars
  BY <1>1 DEF vars, engineVars, threadVars
<1>2. CASE RecordFileEnded
  BY <1>2 DEF RecordFileEnded, threadVars
<1>3. CASE Api(t)
  <2>1. CASE EngineInit(t)
    BY <2>1 DEF EngineInit, engineVars, threadVars
  <2>2. CASE Terminate(t)
    BY <2>2 DEF Terminate, engineVars, threadVars
  <2>3. CASE CreateChannel(t)
    BY <2>3 DEF CreateChannel, engineVars, threadVars
  <2>4. CASE StartPlayout(t)
    BY <2>4 DEF StartPlayout, engineVars, threadVars
  <2>5. CASE StopPlayout(t)
    BY <2>5 DEF StopPlayout, StopPlayoutOf, StopPlayoutDevice, engineVars, threadVars
  <2>6. CASE SetPlayoutDeviceFails(t)
    BY <2>6 DEF SetPlayoutDeviceFails, engineVars, threadVars
  <2>7. CASE StartSend(t)
    BY <2>7 DEF StartSend, engineVars, threadVars
  <2>8. CASE StartRecording(t)
    BY <2>8 DEF StartRecording, RecordingStarts, engineVars, threadVars
  <2>9. CASE ChannelStartSend(t)
    BY <2>9 DEF ChannelStartSend, engineVars, threadVars
  <2>10. CASE StopSend(t)
    BY <2>10 DEF StopSend, AskMixer, CountsSending, engineVars, threadVars
  <2>11. CASE IsRecordingMic(t)
    BY <2>11 DEF IsRecordingMic, AfterStopSend, KeepsMic, engineVars, threadVars
  <2>12. CASE StopRecording(t)
    BY <2>12 DEF StopRecording, RecordingStops, RecordingStays, AfterStopSend,
                 AfterFailedStopSend, engineVars, threadVars
  <2>13. CASE DeleteChannel(t)
    BY <2>13 DEF DeleteChannel, AskMixer, CountsSending, StopPlayoutOf, StopPlayoutDevice,
                 engineVars, threadVars
  <2>14. CASE DestroyChannel(t)
    BY <2>14 DEF DestroyChannel, AskMixer, CountsSending, Remaining, engineVars, threadVars
  <2>15. CASE StopPlayoutAtEnd(t)
    BY <2>15 DEF StopPlayoutAtEnd, StopPlayoutDevice, engineVars, threadVars
  <2>16. CASE SetRecordingDevice(t)
    BY <2>16 DEF SetRecordingDevice, engineVars, threadVars
  <2>17. CASE RestoreRecording(t)
    BY <2>17 DEF RestoreRecording, RecordingStarts, engineVars, threadVars
  <2> QED BY <1>3, <2>1, <2>2, <2>3, <2>4, <2>5, <2>6, <2>7, <2>8, <2>9, <2>10, <2>11,
             <2>12, <2>13, <2>14, <2>15, <2>16, <2>17
         DEF Api
<1>4. CASE Microphone(t)
  <2>1. CASE StartRecordingMicrophone(t)
    BY <2>1 DEF StartRecordingMicrophone, engineVars, threadVars
  <2>2. CASE FileLooks(t)
    BY <2>2 DEF FileLooks, engineVars, threadVars
  <2>3. CASE FileStartsRecording(t)
    BY <2>3 DEF FileStartsRecording, RecordingStarts, engineVars, threadVars
  <2>4. CASE StopRecordingMicrophone(t)
    BY <2>4 DEF StopRecordingMicrophone, engineVars, threadVars
  <2>5. CASE CountChannel(t)
    BY <2>5 DEF CountChannel, engineVars, threadVars
  <2>6. CASE CountedNone(t)
    BY <2>6 DEF CountedNone, engineVars, threadVars
  <2>7. CASE FileStopsRecording(t)
    BY <2>7 DEF FileStopsRecording, RecordingStops, RecordingStays, engineVars, threadVars
  <2>8. CASE StopMixer(t)
    BY <2>8 DEF StopMixer, engineVars, threadVars
  <2> QED BY <1>4, <2>1, <2>2, <2>3, <2>4, <2>5, <2>6, <2>7, <2>8
         DEF Microphone
<1> QED BY <1>1, <1>2, <1>3, <1>4 DEF Next

\* With one thread calling, the device records when a channel or the file needs
\* it, whenever no call is under way,
THEOREM MicrophoneServed ==
  ASSUME NEW t, Threads = {t}
  PROVE  Spec => []MicrophoneServesUsers
<1>1. LockInv /\ [Next]_vars => LockInv'
  BY PlacesStep, OneLockedStep, SetsStep DEF LockInv
<1>2. Init => MicInv(t)
  BY DEF Init, MicInv, Knows, On, OnForUsers, LeftOn, Used
<1>3. LockInv /\ MicInv(t) /\ [Next]_vars => MicInv(t)'
  BY MicStep
<1>4. MicInv(t) => MicrophoneServesUsers
  BY DEF MicInv, On, OnForUsers, MicrophoneServesUsers, Quiet
<1> QED BY <1>1, <1>2, <1>3, <1>4, LockInit, PTL DEF Spec

\* and is off when none does.
THEOREM MicrophoneNotLeftOn ==
  ASSUME NEW t, Threads = {t}
  PROVE  Spec => []MicrophoneReleased
<1>1. LockInv /\ [Next]_vars => LockInv'
  BY PlacesStep, OneLockedStep, SetsStep DEF LockInv
<1>2. Init => MicInv(t)
  BY DEF Init, MicInv, Knows, On, OnForUsers, LeftOn, Used
<1>3. LockInv /\ MicInv(t) /\ [Next]_vars => MicInv(t)'
  BY MicStep
<1>4. MicInv(t) => MicrophoneReleased
  BY DEF MicInv, LeftOn, MicrophoneReleased, Quiet
<1> QED BY <1>1, <1>2, <1>3, <1>4, LockInit, PTL DEF Spec

\* So it records just when it is used.
THEOREM MicrophoneRight ==
  ASSUME NEW t, Threads = {t}
  PROVE  Spec => []MicrophoneFollowsUse
BY MicrophoneServed, MicrophoneNotLeftOn, PTL DEF MicrophoneFollowsUse

(* The device is on for those that need it and off without them, with one     *)
(* thread that calls.                                                        *)
THEOREM DeviceRight ==
  ASSUME NEW t, Threads = {t}
  PROVE  Spec => []DeviceFollowsUse
BY PlayoutRight, MicrophoneRight, PTL DEF DeviceFollowsUse

==============================================================================
