----------------------------- MODULE VoiceEngine -----------------------------
(***************************************************************************)
(* VoEBaseImpl, VoEHardwareImpl, VoeFileImpl and MediaEngineImpl around    *)
(* the audio device: which channels send and play out, whether the         *)
(* microphone is recorded to a file, and when the device records and plays *)
(* for them.                                                               *)
(*                                                                         *)
(* Every call holds the API lock (SharedData::crit_sec) from start to end, *)
(* except StartRecordingMicrophone and StopRecordingMicrophone, which take *)
(* it not at all.  A call is one action where all it touches is guarded by *)
(* the API lock, and a step for each look at the device's Recording(), at  *)
(* _fileRecording or at a channel where it is not.  A call that returns    *)
(* before it changes anything has no action.  External recording and       *)
(* playout are never enabled (no caller of set_ext_recording and           *)
(* set_ext_playout).                                                       *)
(***************************************************************************)
EXTENDS FiniteSets

CONSTANTS Threads, Channels

VARIABLES initialized,   \* Statistics::Initialized()
          recording,     \* the device's Recording()
          playing,       \* and Playing()
          channels,      \* the channels there are
          sending,       \* those that are Sending()
          playout,       \* and Playing()
          fileRecording, \* TransmitMixer::_fileRecording
          pc,            \* each thread's place in its call
          within,        \* the call whose StopSend() it is in
          todo,          \* the channel it works on, or those it has still to count
          cut,           \* devices taken from users by a failed call or by Terminate
          left           \* devices a failed call, or a file's end, left on without users

engineVars == <<initialized, channels, sending, playout, fileRecording>>
threadVars == <<pc, within, todo>>
vars == <<engineVars, recording, playing, threadVars, cut, left>>

Rec == "recording"
Play == "playing"
Used == sending # {} \/ fileRecording

LockedPlaces == {"startRecording", "startSend", "isRecordingMic", "stopRecording",
                 "destroy", "stopPlayout", "restore"}
FreePlaces == {"recordingMic", "startMic", "count", "stopMic", "stopMixer"}
Calls == {"StopSend", "DeleteChannel", "Destroyed"}

Init == /\ initialized = FALSE /\ recording = FALSE /\ playing = FALSE
        /\ channels = {} /\ sending = {} /\ playout = {}
        /\ fileRecording = FALSE
        /\ pc = [t \in Threads |-> "idle"]
        /\ within = [t \in Threads |-> "StopSend"]
        /\ todo = [t \in Threads |-> {}]
        /\ cut = {} /\ left = {}

-----------------------------------------------------------------------------
(* A variant with one mistake of a definition below, that a property rejects. *)

KeepsMic_No == FALSE

-----------------------------------------------------------------------------
(* What the calls share. *)

LockFree == \A t \in Threads : pc[t] \notin LockedPlaces
May(t) == pc[t] = "idle" /\ initialized
MayLocked(t) == May(t) /\ LockFree

Goto(t, place) == pc' = [pc EXCEPT ![t] = place]
Works(t, call, set) == /\ within' = [within EXCEPT ![t] = call]
                       /\ todo' = [todo EXCEPT ![t] = set]

(* The device.  To stop it when it is off does nothing, and succeeds. *)
RecordingStarts == recording' = TRUE /\ cut' = cut \ {Rec}
RecordingStops == recording' = FALSE /\ left' = left \ {Rec}
RecordingStays == recording /\ UNCHANGED recording /\ left' = left \cup {Rec}

(* StopPlayout() stops the device if no channel of `still' plays out. *)
StopsPlayout(still) == channels # {} /\ still = {}
StopPlayoutDevice(still) ==
  \/ ~StopsPlayout(still) /\ UNCHANGED <<playing, left>>
  \/ StopsPlayout(still) /\ playing' = FALSE /\ left' = left \ {Play}
  \/ StopsPlayout(still) /\ playing /\ UNCHANGED playing /\ left' = left \cup {Play}

(* StopPlayout(channel) calls it when the channel has left the output mixer, *)
(* or could not.                                                             *)
StopPlayoutOf(c) ==
  \/ /\ playout' = playout \ {c}
     /\ StopPlayoutDevice(playout \ {c})
  \/ /\ c \in playout
     /\ UNCHANGED <<playout, playing>>
     /\ left' = left \cup (IF playing THEN {Play} ELSE {})

(* StopSend() goes on to ask the transmit mixer when it counts no channel    *)
(* that sends.                                                               *)
CountsSending(c) == sending \ {c}
AskMixer(t, c, next) == Goto(t, IF CountsSending(c) = {} THEN "isRecordingMic" ELSE next)
KeepsMic == fileRecording

(* What is left of a set of channels when one is destroyed. *)
Remaining(set, c) == set \ {c}

(* Where the call goes on after its StopSend(); the second one of            *)
(* DeleteChannel ends it when it fails.                                      *)
AfterStopSend(t) == CASE within[t] = "StopSend" -> "idle"
                      [] within[t] = "DeleteChannel" -> "destroy"
                      [] within[t] = "Destroyed" -> "stopPlayout"
AfterFailedStopSend(t) == IF within[t] = "DeleteChannel" THEN "destroy" ELSE "idle"

-----------------------------------------------------------------------------
(* MediaEngineImpl.  Terminate() stops the device and gives it up; it leaves *)
(* the channels as they are.                                                 *)

EngineInit(t) ==
  /\ pc[t] = "idle" /\ LockFree
  /\ ~initialized
  /\ initialized' = TRUE
  /\ UNCHANGED <<channels, sending, playout, fileRecording, recording, playing,
                 threadVars, cut, left>>

Terminate(t) ==
  /\ MayLocked(t)
  /\ initialized' = FALSE
  /\ recording' = FALSE /\ playing' = FALSE
  /\ cut' = cut \cup {d \in {Rec, Play} : IF d = Rec THEN Used ELSE playout # {}}
  /\ left' = {}
  /\ UNCHANGED <<channels, sending, playout, fileRecording, threadVars>>

-----------------------------------------------------------------------------
(* VoEBaseImpl: playout and channels. *)

CreateChannel(t) ==
  /\ MayLocked(t)
  /\ \E c \in Channels \ channels : channels' = channels \cup {c}
  /\ UNCHANGED <<initialized, sending, playout, fileRecording, recording, playing,
                 threadVars, cut, left>>

(* The device starts unless it plays; the channel may still fail to enter    *)
(* the output mixer.                                                         *)
StartPlayout(t) ==
  /\ MayLocked(t)
  /\ \E c \in channels \ playout :
       /\ playing' = TRUE
       /\ cut' = cut \ {Play}
       /\ \/ playout' = playout \cup {c} /\ left' = left \ {Play}
          \/ /\ UNCHANGED playout
             /\ left' = left \cup (IF playout = {} THEN {Play} ELSE {})
  /\ UNCHANGED <<initialized, channels, sending, fileRecording, recording, threadVars>>

StopPlayout(t) ==
  /\ MayLocked(t)
  /\ \E c \in channels : StopPlayoutOf(c)
  /\ UNCHANGED <<initialized, channels, sending, fileRecording, recording, threadVars,
                 cut>>

(* SetPlayoutDevice() stops a device that plays, and starts it again unless  *)
(* the new one cannot be set or started.                                     *)
SetPlayoutDeviceFails(t) ==
  /\ MayLocked(t)
  /\ playing
  /\ playing' = FALSE
  /\ cut' = cut \cup (IF playout = {} THEN {} ELSE {Play})
  /\ left' = left \ {Play}
  /\ UNCHANGED <<engineVars, recording, threadVars>>

-----------------------------------------------------------------------------
(* VoEBaseImpl: sending. *)

(* StartSend() looks whether the device records, *)
StartSend(t) ==
  /\ MayLocked(t)
  /\ \E c \in channels \ sending :
       /\ Works(t, "StopSend", {c})
       /\ Goto(t, IF recording THEN "startSend" ELSE "startRecording")
  /\ UNCHANGED <<engineVars, recording, playing, cut, left>>

(* starts it if not, *)
StartRecording(t) ==
  /\ pc[t] = "startRecording"
  /\ \/ RecordingStarts /\ Goto(t, "startSend")
     \/ UNCHANGED <<recording, cut>> /\ Goto(t, "idle")
  /\ UNCHANGED <<engineVars, playing, within, todo, left>>

(* and then the channel sends, unless its RTP module refuses. *)
ChannelStartSend(t) ==
  /\ pc[t] = "startSend"
  /\ Goto(t, "idle")
  /\ \/ sending' = sending \cup todo[t] /\ left' = left \ {Rec}
     \/ /\ UNCHANGED sending
        /\ left' = left \cup (IF recording /\ ~Used THEN {Rec} ELSE {})
  /\ UNCHANGED <<initialized, channels, playout, fileRecording, recording, playing,
                 within, todo, cut>>

StopSend(t) ==
  /\ MayLocked(t)
  /\ \E c \in channels :
       /\ sending' = sending \ {c}
       /\ Works(t, "StopSend", {c})
       /\ AskMixer(t, c, "idle")
  /\ UNCHANGED <<initialized, channels, playout, fileRecording, recording, playing,
                 cut, left>>

(* StopSend() keeps the device on while the microphone is recorded, *)
IsRecordingMic(t) ==
  /\ pc[t] = "isRecordingMic"
  /\ Goto(t, IF KeepsMic THEN AfterStopSend(t) ELSE "stopRecording")
  /\ UNCHANGED <<engineVars, recording, playing, within, todo, cut, left>>

(* and stops it otherwise. *)
StopRecording(t) ==
  /\ pc[t] = "stopRecording"
  /\ \/ RecordingStops /\ Goto(t, AfterStopSend(t))
     \/ RecordingStays /\ Goto(t, AfterFailedStopSend(t))
  /\ UNCHANGED <<engineVars, playing, within, todo, cut>>

(* DeleteChannel() is StopPlayout(channel) and StopSend(channel), whatever    *)
(* they return,                                                              *)
DeleteChannel(t) ==
  /\ MayLocked(t)
  /\ \E c \in channels :
       /\ StopPlayoutOf(c)
       /\ sending' = sending \ {c}
       /\ Works(t, "DeleteChannel", {c})
       /\ AskMixer(t, c, "destroy")
  /\ UNCHANGED <<initialized, channels, fileRecording, recording, cut>>

(* the end of the channel, then StopSend() *)
DestroyChannel(t) ==
  /\ pc[t] = "destroy"
  /\ \E c \in todo[t] :
       /\ channels' = channels \ {c}
       /\ sending' = Remaining(sending, c)
       /\ playout' = Remaining(playout, c)
       /\ AskMixer(t, c, "stopPlayout")
  /\ Works(t, "Destroyed", {})
  /\ UNCHANGED <<initialized, fileRecording, recording, playing, cut, left>>

(* and StopPlayout(). *)
StopPlayoutAtEnd(t) ==
  /\ pc[t] = "stopPlayout"
  /\ StopPlayoutDevice(playout)
  /\ Goto(t, "idle")
  /\ UNCHANGED <<engineVars, recording, within, todo, cut>>

-----------------------------------------------------------------------------
(* VoEHardwareImpl::SetRecordingDevice() stops a device that records *)
SetRecordingDevice(t) ==
  /\ MayLocked(t)
  /\ recording
  /\ recording' = FALSE
  /\ Goto(t, "restore")
  /\ UNCHANGED <<engineVars, playing, within, todo, cut, left>>

(* and starts it again, unless the new one cannot be set or started. *)
RestoreRecording(t) ==
  /\ pc[t] = "restore"
  /\ Goto(t, "idle")
  /\ \/ RecordingStarts /\ UNCHANGED left
     \/ /\ UNCHANGED recording
        /\ left' = left \ {Rec}
        /\ cut' = cut \cup (IF Used THEN {Rec} ELSE {})
  /\ UNCHANGED <<engineVars, playing, within, todo>>

-----------------------------------------------------------------------------
(* VoeFileImpl.  StartRecordingMicrophone() has the mixer open the file,      *)
StartRecordingMicrophone(t) ==
  /\ May(t)
  /\ fileRecording' = TRUE
  /\ left' = left \ {Rec}
  /\ Goto(t, "recordingMic")
  /\ UNCHANGED <<initialized, channels, sending, playout, recording, playing, within,
                 todo, cut>>

(* looks whether the device records, *)
FileLooks(t) ==
  /\ pc[t] = "recordingMic" /\ initialized
  /\ Goto(t, IF recording THEN "idle" ELSE "startMic")
  /\ UNCHANGED <<engineVars, recording, playing, within, todo, cut, left>>

(* and starts it if not. *)
FileStartsRecording(t) ==
  /\ pc[t] = "startMic" /\ initialized
  /\ Goto(t, "idle")
  /\ \/ RecordingStarts
     \/ UNCHANGED recording /\ cut' = cut \cup (IF recording THEN {} ELSE {Rec})
  /\ UNCHANGED <<engineVars, playing, within, todo, left>>

(* StopRecordingMicrophone() takes the channels there are, *)
StopRecordingMicrophone(t) ==
  /\ May(t)
  /\ Works(t, "StopSend", channels)
  /\ Goto(t, "count")
  /\ UNCHANGED <<engineVars, recording, playing, cut, left>>

(* asks each whether it sends, *)
CountChannel(t) ==
  /\ pc[t] = "count"
  /\ \E c \in todo[t] :
       /\ todo' = [todo EXCEPT ![t] = IF c \in sending THEN {} ELSE @ \ {c}]
       /\ Goto(t, IF c \in sending THEN "stopMixer" ELSE "count")
  /\ UNCHANGED <<engineVars, recording, playing, within, cut, left>>

(* stops the device if none did and it records, *)
CountedNone(t) ==
  /\ pc[t] = "count" /\ initialized
  /\ todo[t] = {}
  /\ Goto(t, IF recording THEN "stopMic" ELSE "stopMixer")
  /\ UNCHANGED <<engineVars, recording, playing, within, todo, cut, left>>

FileStopsRecording(t) ==
  /\ pc[t] = "stopMic" /\ initialized
  /\ Goto(t, "stopMixer")
  /\ RecordingStops \/ RecordingStays
  /\ UNCHANGED <<engineVars, playing, within, todo, cut>>

(* and has the mixer close the file, whose recorder no other call has        *)
(* stopped while _fileRecording is set.                                      *)
StopMixer(t) ==
  /\ pc[t] = "stopMixer"
  /\ fileRecording' = FALSE
  /\ Goto(t, "idle")
  /\ UNCHANGED <<initialized, channels, sending, playout, recording, playing, within,
                 todo, cut, left>>

(* TransmitMixer::RecordFileEnded(), from the device's thread when the file   *)
(* takes no more audio.                                                      *)
RecordFileEnded ==
  /\ recording /\ fileRecording
  /\ fileRecording' = FALSE
  /\ left' = left \cup (IF sending = {} THEN {Rec} ELSE {})
  /\ UNCHANGED <<initialized, channels, sending, playout, recording, playing,
                 threadVars, cut>>

-----------------------------------------------------------------------------
Api(t) == \/ EngineInit(t) \/ Terminate(t)
          \/ CreateChannel(t)
          \/ StartPlayout(t) \/ StopPlayout(t) \/ SetPlayoutDeviceFails(t)
          \/ StartSend(t) \/ StartRecording(t) \/ ChannelStartSend(t)
          \/ StopSend(t) \/ IsRecordingMic(t) \/ StopRecording(t)
          \/ DeleteChannel(t) \/ DestroyChannel(t) \/ StopPlayoutAtEnd(t)
          \/ SetRecordingDevice(t) \/ RestoreRecording(t)

Microphone(t) == \/ StartRecordingMicrophone(t) \/ FileLooks(t)
                 \/ FileStartsRecording(t)
                 \/ StopRecordingMicrophone(t) \/ CountChannel(t) \/ CountedNone(t)
                 \/ FileStopsRecording(t) \/ StopMixer(t)

Next == RecordFileEnded \/ \E t \in Threads : Api(t) \/ Microphone(t)

Spec == Init /\ [][Next]_vars

-----------------------------------------------------------------------------
(* The types; only channels that exist send or play out, and one call at a   *)
(* time is under the API lock.                                               *)
TypeOK ==
  /\ {initialized, recording, playing, fileRecording} \subseteq BOOLEAN
  /\ channels \subseteq Channels
  /\ sending \subseteq channels /\ playout \subseteq channels
  /\ pc \in [Threads -> LockedPlaces \cup FreePlaces \cup {"idle"}]
  /\ within \in [Threads -> Calls]
  /\ todo \in [Threads -> SUBSET Channels]
  /\ cut \subseteq {Rec, Play} /\ left \subseteq {Rec, Play}
  /\ \A t, u \in Threads :
       pc[t] \in LockedPlaces /\ pc[u] \in LockedPlaces => t = u

Quiet == \A t \in Threads : pc[t] = "idle"

(* While no call is under way and the engine is initialized, the device      *)
(* records when a channel sends or the microphone is recorded to a file, and *)
(* only a call that failed or Terminate() took it from them: neither         *)
(* StopSend() of one channel nor the end of the file's recording does.       *)
MicrophoneServesUsers ==
  Quiet /\ initialized /\ Used => (recording <=> Rec \notin cut)

(* The device plays while a channel plays out, unless a failed call or       *)
(* Terminate() took it away, and this at every moment, calls under way or    *)
(* not.                                                                      *)
PlayoutServesChannels ==
  initialized /\ playout # {} => (playing <=> Play \notin cut)

(* The device does not record for nobody: when no call is under way and      *)
(* neither a channel nor the file needs it, it is off, unless the call that  *)
(* was to stop it failed, a start failed after it, or the file came to its   *)
(* own end.                                                                  *)
MicrophoneReleased ==
  Quiet /\ recording /\ ~Used => Rec \in left

(* The device does not play for nobody: when no channel plays out it is off, *)
(* unless a call failed on it; DeleteChannel() of the last channel counts on *)
(* the StopPlayout(channel) it began with.                                   *)
PlayoutReleased ==
  playing /\ playout = {} => Play \in left

(* Each device is on just when it is used, but for what failed. *)
MicrophoneFollowsUse == MicrophoneServesUsers /\ MicrophoneReleased
PlayoutFollowsUse == PlayoutServesChannels /\ PlayoutReleased

(* "Stop audio-device recording if no channel is recording": a call of       *)
(* StopRecordingMicrophone() stops the device only when no channel sends.    *)
StopsForNobody ==
  [][\A t \in Threads : FileStopsRecording(t) /\ recording # recording'
                        => sending = {}]_vars

\* The device is on for those that need it and off without them.
DeviceFollowsUse == MicrophoneFollowsUse /\ PlayoutFollowsUse
==============================================================================
