--------------------------- MODULE ConferenceMixer ---------------------------
(***************************************************************************)
(* AudioConferenceMixerImpl, which mixes the channels that play out every  *)
(* 10 ms, and the calls of Channel that put channels into it.              *)
(*                                                                         *)
(* The thread of the audio device runs Process().  "api" makes the calls   *)
(* that hold the API lock (StartPlayout, StopPlayout), one at a time,      *)
(* "file" those that do not (StartPlayingFileLocally,                      *)
(* StopPlayingFileLocally).  A channel whose file plays is mixed           *)
(* anonymously: always, and besides the kMaximumAmountOfMixedParticipants  *)
(* others.                                                                 *)
(*                                                                         *)
(* A frame is known by the channel it is from, and described by its energy *)
(* or, when it is passive, by Passive.  What GetAudioFrame() gives is left *)
(* open; sampling frequencies, samples, statistics and the limiter are     *)
(* left out.  The pool never runs out of memory; a thread's own stores to  *)
(* the channel's flags are seen in the order it made them.                 *)
(***************************************************************************)
EXTENDS Integers, FiniteSets, SequencesExt

CONSTANTS Channels,
          FileChannels,  \* bound: the channels that are asked to play a file
          MaxMixed,      \* kMaximumAmountOfMixedParticipants
          Energies       \* the energies an active frame may have

ASSUME MixerAssumption == MaxMixed \in Nat /\ MaxMixed >= 2 /\ Energies \subseteq Nat
                          /\ FileChannels \subseteq Channels /\ "mixedAudio" \notin Channels

VARIABLES participantList, additionalParticipantList,
          isMixed,               \* channels whose MixHistory says so
          numMixedParticipants,
          playing, filePlaying,  \* channels with _playing, _outputFilePlaying
          fileCrit,              \* channels whose _fileCritSect a call holds
          at, on, count,         \* each caller's place, its channel, and what it counted
          mixer,                 \* the place of Process()
          todo,                  \* participants it has still to ask
          frame,                 \* what the participants it asked have given
          activeList, passiveWasMixedList, passiveWasNotMixedList,
          mixList, rampOutList, additionalFramesList,
          rampedIn,              \* frames that went through RampIn()
          taken,                 \* frames out of the memory pool
          mixed,                 \* frames that are in the mixed audio
          calm                   \* no call under the API lock since Process() began

lists == <<participantList, additionalParticipantList, isMixed>>
flags == <<playing, filePlaying>>
places == <<at, on, count>>
sorted == <<activeList, passiveWasMixedList, passiveWasNotMixedList>>
output == <<mixList, rampOutList, additionalFramesList>>
asked == <<todo, frame, rampedIn>>
round == <<mixer, asked, sorted, output, taken, mixed>>
callers == <<flags, fileCrit, places>>
vars == <<lists, numMixedParticipants, callers, round, calm>>

Callers == {"api", "file"}
None == "none"
MixedAudio == "mixedAudio"
Passive == -1

Init == /\ participantList = <<>> /\ additionalParticipantList = <<>>
        /\ isMixed = {} /\ numMixedParticipants = 0
        /\ playing = {} /\ filePlaying = {} /\ fileCrit = {}
        /\ at = [t \in Callers |-> "idle"]
        /\ on = [t \in Callers |-> None]
        /\ count = 0
        /\ mixer = "idle" /\ todo = <<>> /\ frame = <<>>
        /\ activeList = <<>> /\ passiveWasMixedList = <<>> /\ passiveWasNotMixedList = <<>>
        /\ mixList = <<>> /\ rampOutList = <<>> /\ additionalFramesList = <<>>
        /\ rampedIn = {} /\ taken = {} /\ mixed = {}
        /\ calm = TRUE

-----------------------------------------------------------------------------
(* Variants of definitions below, each with one mistake, that the properties
   reject. *)

RemovedFrom_Kept(list, c) == list
CountParticipants_NamedOnly == count' = Len(participantList')
Quietest_First(list) == Head(list)
RampsOut_Never(c) == FALSE
Pushed_Kept(list) == {}
UnlockFile_Later(c) == UNCHANGED fileCrit

-----------------------------------------------------------------------------
(* The participants' lists, which _cbCrit protects, and what the callers do
   with them. *)

CbCritHeld == mixer \in {"toMix", "additional"}

RemovedFrom(list, c) == RemoveFirst(list, c)

(* SetAnonymousMixabilityStatus(c, true) of a channel in the list. *)
MakeAnonymous(c) ==
  /\ participantList' = RemovedFrom(participantList, c)
  /\ additionalParticipantList' = Append(additionalParticipantList, c)
  /\ isMixed' = isMixed \ {c}

(* SetAnonymousMixabilityStatus(c, false). *)
MakeNamed(c) ==
  IF c \in ToSet(additionalParticipantList)
  THEN /\ additionalParticipantList' = RemovedFrom(additionalParticipantList, c)
       /\ participantList' = Append(participantList, c)
       /\ isMixed' = isMixed \ {c}
  ELSE UNCHANGED lists

AtMost(n, list) == IF Len(list) < n THEN Len(list) ELSE n
CountParticipants ==
  count' = AtMost(MaxMixed, participantList') + Len(additionalParticipantList')

Goto(t, place, c) == /\ at' = [at EXCEPT ![t] = place]
                     /\ on' = [on EXCEPT ![t] = IF place = "idle" THEN None ELSE c]
Disturb == calm' = (mixer = "idle")

(* StartPlayout(): SetMixabilityStatus(true), first under _cbCrit ...        *)
StartPlayout(c) ==
  /\ at["api"] = "idle" /\ c \notin playing
  /\ ~CbCritHeld /\ c \notin ToSet(participantList)
  /\ participantList' = Append(participantList, c)
  /\ isMixed' = isMixed \ {c}
  /\ UNCHANGED additionalParticipantList
  /\ CountParticipants
  /\ Goto("api", "count", c) /\ Disturb
  /\ UNCHANGED <<numMixedParticipants, flags, fileCrit, round>>

(* StopPlayout(): SetMixabilityStatus(false) takes _cbCrit twice; it fails   *)
(* if the channel was made anonymous in between.                             *)
StopPlayout(c) ==
  /\ at["api"] = "idle" /\ c \in playing
  /\ ~CbCritHeld /\ MakeNamed(c)
  /\ Goto("api", "remove", c) /\ Disturb
  /\ UNCHANGED <<numMixedParticipants, flags, fileCrit, count, round>>

RemoveParticipant(c) ==
  /\ at["api"] = "remove" /\ on["api"] = c /\ ~CbCritHeld
  /\ \/ /\ c \in ToSet(participantList)
        /\ participantList' = RemovedFrom(participantList, c)
        /\ isMixed' = isMixed \ {c}
        /\ UNCHANGED additionalParticipantList
        /\ CountParticipants /\ Goto("api", "count", c)
     \/ /\ c \notin ToSet(participantList)
        /\ Goto("api", "idle", c) /\ UNCHANGED <<lists, count>>
  /\ UNCHANGED <<numMixedParticipants, flags, fileCrit, round, calm>>

(* ... and then under _crit, which Process() may have in between.            *)
StoreCount(c) ==
  /\ at["api"] = "count" /\ on["api"] = c
  /\ numMixedParticipants' = count /\ count' = 0
  /\ Goto("api", IF c \in playing THEN "stopped" ELSE "started", c)
  /\ UNCHANGED <<lists, flags, fileCrit, round, calm>>

SetPlaying(c) ==
  /\ on["api"] = c
  /\ \/ /\ at["api"] = "started"
        /\ playing' = playing \cup {c} /\ Goto("api", "register", c)
     \/ /\ at["api"] = "stopped"
        /\ playing' = playing \ {c} /\ Goto("api", "idle", c)
  /\ UNCHANGED <<lists, numMixedParticipants, filePlaying, fileCrit, count, round, calm>>

(* RegisterFilePlayingToMixer(): looks at the flags, then makes the channel  *)
(* anonymous, and if that fails drops the file player.                       *)
Register(t, c) ==
  /\ at[t] = "register" /\ on[t] = c
  /\ Goto(t, IF c \in playing \cap filePlaying THEN "anonymise" ELSE "idle", c)
  /\ UNCHANGED <<lists, numMixedParticipants, flags, fileCrit, count, round, calm>>

Anonymise(t, c) ==
  /\ at[t] = "anonymise" /\ on[t] = c /\ ~CbCritHeld
  /\ \/ /\ c \in ToSet(additionalParticipantList)
        /\ Goto(t, "idle", c) /\ UNCHANGED lists
     \/ /\ c \in ToSet(participantList) \ ToSet(additionalParticipantList)
        /\ Goto(t, "idle", c) /\ MakeAnonymous(c)
     \/ /\ c \notin ToSet(participantList) \cup ToSet(additionalParticipantList)
        /\ Goto(t, "dropFile", c) /\ UNCHANGED lists
  /\ UNCHANGED <<numMixedParticipants, flags, fileCrit, count, round, calm>>

(* Only "file" comes to drop it: who plays a channel out does not stop that. *)
DropFile(c) ==
  /\ at["file"] = "dropFile" /\ on["file"] = c /\ c \notin fileCrit
  /\ filePlaying' = filePlaying \ {c} /\ Goto("file", "idle", c)
  /\ UNCHANGED <<lists, numMixedParticipants, playing, fileCrit, count, round, calm>>

(* StartPlayingFileLocally() and StopPlayingFileLocally() have the file      *)
(* player of the channel started or stopped under _fileCritSect.             *)
StartFile(c) ==
  /\ at["file"] = "idle" /\ c \in FileChannels \ (filePlaying \cup fileCrit)
  /\ fileCrit' = fileCrit \cup {c} /\ Goto("file", "starting", c)
  /\ UNCHANGED <<lists, numMixedParticipants, flags, count, round, calm>>

StopFile(c) ==
  /\ at["file"] = "idle" /\ c \in filePlaying \ fileCrit
  /\ fileCrit' = fileCrit \cup {c} /\ Goto("file", "stopping", c)
  /\ UNCHANGED <<lists, numMixedParticipants, flags, count, round, calm>>

UnlockFile(c) == fileCrit' = fileCrit \ {c}

(* It may fail: the file is no good, or has come to its end already.         *)
FilePlayerDone(c) ==
  /\ on["file"] = c
  /\ \/ /\ at["file"] \in {"starting", "stopping"}
        /\ Goto("file", "idle", c) /\ UNCHANGED filePlaying
     \/ /\ at["file"] = "starting"
        /\ filePlaying' = filePlaying \cup {c} /\ Goto("file", "register", c)
     \/ /\ at["file"] = "stopping"
        /\ filePlaying' = filePlaying \ {c} /\ Goto("file", "deanonymise", c)
  /\ UnlockFile(c)
  /\ UNCHANGED <<lists, numMixedParticipants, playing, count, round, calm>>

Deanonymise(c) ==
  /\ at["file"] = "deanonymise" /\ on["file"] = c /\ ~CbCritHeld
  /\ MakeNamed(c) /\ Goto("file", "idle", c)
  /\ UNCHANGED <<numMixedParticipants, flags, fileCrit, count, round, calm>>

-----------------------------------------------------------------------------
(* Process(): asks the participants for their frames and chooses among them,
   under _cbCrit (UpdateToMix(), one action per participant) ... *)

MixerStart ==
  /\ mixer = "idle"
  /\ mixer' = "toMix" /\ todo' = participantList
  /\ calm' = (at["api"] = "idle")
  /\ UNCHANGED <<lists, numMixedParticipants, callers, frame, rampedIn, sorted, output, taken, mixed>>

Asks(place, p) == mixer = place /\ todo # <<>> /\ p = Head(todo) /\ todo' = Tail(todo)

(* GetAudioFrame() succeeds, for which it takes _fileCritSect. *)
Gives(p) == p \notin fileCrit
FrameWith(p, f) == [q \in DOMAIN frame \cup {p} |-> IF q = p THEN f ELSE frame[q]]
RampInIf(p, cond) == rampedIn' = IF cond THEN rampedIn \cup {p} ELSE rampedIn
ToMixUnchanged == UNCHANGED <<lists, numMixedParticipants, callers, mixer, mixList,
                              additionalFramesList, mixed, calm>>

AskInVain(p) ==
  /\ Asks("toMix", p)
  /\ ToMixUnchanged /\ UNCHANGED <<frame, rampedIn, sorted, rampOutList, taken>>

Quietest(list) == list[CHOOSE i \in DOMAIN list : \A j \in DOMAIN list :
                         \/ frame[list[i]] < frame[list[j]]
                         \/ frame[list[i]] = frame[list[j]] /\ i <= j]
RampsOut(c) == c \in isMixed

(* The frame of c is no longer to be mixed: it is ramped out or returned. *)
LeavesMix(c) == IF RampsOut(c)
                THEN rampOutList' = Append(rampOutList, c) /\ taken' = taken \cup {Head(todo)}
                ELSE taken' = (taken \cup {Head(todo)}) \ {c} /\ UNCHANGED rampOutList

AskActive(p) ==
  /\ Asks("toMix", p) /\ Gives(p)
  /\ \E f \in Energies :
       /\ frame' = FrameWith(p, f) /\ RampInIf(p, p \notin isMixed)
       /\ LET quiet == Quietest(activeList) IN
          \/ /\ Len(activeList) < MaxMixed
             /\ activeList' = <<p>> \o activeList
             /\ taken' = taken \cup {p} /\ UNCHANGED rampOutList
          \/ /\ Len(activeList) >= MaxMixed /\ frame[quiet] < f
             /\ activeList' = <<p>> \o RemovedFrom(activeList, quiet)
             /\ LeavesMix(quiet)
          \/ /\ Len(activeList) >= MaxMixed /\ frame[quiet] >= f
             /\ LeavesMix(p) /\ UNCHANGED activeList
  /\ ToMixUnchanged /\ UNCHANGED <<passiveWasMixedList, passiveWasNotMixedList>>

AskPassive(p) ==
  /\ Asks("toMix", p) /\ Gives(p) /\ frame' = FrameWith(p, Passive)
  /\ LET listed == Len(activeList) + Len(passiveWasMixedList) + Len(passiveWasNotMixedList)
         mustAddToPassiveList == MaxMixed > listed
     IN \/ /\ p \in isMixed
           /\ passiveWasMixedList' = Append(passiveWasMixedList, p)
           /\ taken' = taken \cup {p} /\ UNCHANGED <<passiveWasNotMixedList, rampedIn>>
        \/ /\ p \notin isMixed /\ mustAddToPassiveList
           /\ passiveWasNotMixedList' = Append(passiveWasNotMixedList, p)
           /\ RampInIf(p, TRUE)
           /\ taken' = taken \cup {p} /\ UNCHANGED passiveWasMixedList
        \/ /\ p \notin isMixed /\ ~mustAddToPassiveList
           /\ UNCHANGED <<passiveWasMixedList, passiveWasNotMixedList, rampedIn, taken>>
  /\ ToMixUnchanged /\ UNCHANGED <<activeList, rampOutList>>

(* The mix is filled up to MaxMixed, the rest goes back to the pool. *)
FillMixList ==
  /\ mixer = "toMix" /\ todo = <<>>
  /\ LET ranked == activeList \o passiveWasMixedList \o passiveWasNotMixedList
         chosen == AtMost(MaxMixed, ranked)
     IN /\ mixList' = SubSeq(ranked, 1, chosen)
        /\ taken' = taken \ ToSet(SubSeq(ranked, chosen + 1, Len(ranked)))
  /\ activeList' = <<>> /\ passiveWasMixedList' = <<>> /\ passiveWasNotMixedList' = <<>>
  /\ mixer' = "additional" /\ todo' = additionalParticipantList
  /\ UNCHANGED <<lists, numMixedParticipants, callers, frame, rampedIn, rampOutList,
                 additionalFramesList, mixed, calm>>

(* ... GetAdditionalAudio() asks the anonymous ones ... *)
TakeAdditional(p) ==
  /\ Asks("additional", p)
  /\ \/ /\ todo' = Tail(todo) /\ UNCHANGED <<additionalFramesList, taken>>
     \/ /\ todo' = Tail(todo)
        /\ additionalFramesList' = Append(additionalFramesList, p)
        /\ taken' = taken \cup {p}
  /\ UNCHANGED <<lists, numMixedParticipants, callers, mixer, frame, rampedIn, sorted,
                 mixList, rampOutList, mixed, calm>>

(* ... and UpdateMixedStatus() notes who is mixed. *)
UpdateMixedStatus ==
  /\ mixer = "additional" /\ todo = <<>>
  /\ isMixed' = ToSet(mixList) \cap ToSet(participantList)
  /\ mixer' = "mix" /\ frame' = <<>> /\ rampedIn' = {}
  /\ UNCHANGED <<participantList, additionalParticipantList, numMixedParticipants, callers,
                 todo, sorted, output, taken, mixed, calm>>

(* The frames are mixed under _crit.  With one participant the mixed audio is
   that participant's frame: what was mixed before is overwritten. *)
AloneInMix == numMixedParticipants = 1
MixedWith(audio, list) == IF list = <<>> THEN audio
                          ELSE IF AloneInMix THEN {Head(list)} ELSE audio \cup ToSet(list)

Mix ==
  /\ mixer = "mix"
  /\ taken' = taken \cup {MixedAudio}
  /\ mixed' = MixedWith(MixedWith(MixedWith({}, mixList), additionalFramesList), rampOutList)
  /\ mixer' = "deliver"
  /\ UNCHANGED <<lists, numMixedParticipants, callers, asked, sorted, output, calm>>

(* NewMixedAudio() has the audio under _cbCrit, and all memory is reclaimed. *)
Pushed(list) == ToSet(list)
Deliver ==
  /\ mixer = "deliver" /\ ~CbCritHeld
  /\ taken' = (((taken \ {MixedAudio}) \ Pushed(mixList)) \ Pushed(rampOutList))
                  \ Pushed(additionalFramesList)
  /\ mixList' = <<>> /\ rampOutList' = <<>> /\ additionalFramesList' = <<>>
  /\ mixed' = {} /\ mixer' = "idle" /\ calm' = TRUE
  /\ UNCHANGED <<lists, numMixedParticipants, callers, asked, sorted>>

-----------------------------------------------------------------------------
Playout(c) == StartPlayout(c) \/ StopPlayout(c) \/ RemoveParticipant(c) \/ StoreCount(c) \/ SetPlaying(c)
FilePlaying(c) == StartFile(c) \/ StopFile(c) \/ FilePlayerDone(c) \/ Deanonymise(c) \/ DropFile(c)
Registering(c) == \E t \in Callers : Register(t, c) \/ Anonymise(t, c)
Asking(c) == AskInVain(c) \/ AskActive(c) \/ AskPassive(c) \/ TakeAdditional(c)

Next == \/ \E c \in Channels : Playout(c) \/ FilePlaying(c) \/ Registering(c) \/ Asking(c)
        \/ MixerStart \/ FillMixList \/ UpdateMixedStatus \/ Mix \/ Deliver

Spec == Init /\ [][Next]_vars

-----------------------------------------------------------------------------
Held == IF mixer = "deliver" THEN {MixedAudio} ELSE {}
Lists == <<activeList, passiveWasMixedList, passiveWasNotMixedList,
           mixList, rampOutList, additionalFramesList>>
Listed == UNION {ToSet(Lists[i]) : i \in DOMAIN Lists}

(* A channel is in one of the mixer's lists, and once, just when it plays    *)
(* out, unless StartPlayout() or StopPlayout() is on it, also when a file is *)
(* started or stopped on it in the middle of them.  SetMixabilityStatus()    *)
(* does nothing for a channel in the wrong list, so a channel lost from the  *)
(* lists, or left in one, could not be put right again.                      *)
PlayingIsListed ==
  LET participants == participantList \o additionalParticipantList
  IN /\ IsInjective(participants)
     /\ \A c \in Channels : on["api"] # c => (c \in playing <=> c \in ToSet(participants))

(* The loudest are mixed: as many frames as given, up to MaxMixed, and no    *)
(* frame left out ranks above one mixed, where active frames rank by energy  *)
(* above passive ones and these above passive ones not mixed before.         *)
RanksAbove(p, q) == \/ frame[p] > frame[q]
                    \/ frame[p] = Passive /\ frame[q] = Passive /\ p \in isMixed /\ q \notin isMixed
MixesTheRightOnes ==
  mixer = "additional" =>
    /\ Len(mixList) = LET given == Cardinality(DOMAIN frame)
                      IN IF given < MaxMixed THEN given ELSE MaxMixed
    /\ Len(activeList) <= MaxMixed
    /\ \A p \in DOMAIN frame \ ToSet(mixList), q \in ToSet(mixList) : ~RanksAbove(p, q)

(* No audio starts or stops abruptly when a louder speaker takes over: an    *)
(* active participant that was mixed and no longer is is ramped out, nobody  *)
(* is who was not mixed before or still is, and among those mixed just the   *)
(* ones that were not are ramped in.  The list of those ramped out is within *)
(* the bound UpdateToMix() asserts, however often the loudest change places. *)
(* It says nothing of a passive participant that was mixed and finds no room *)
(* any more: UpdateToMix() cuts it off, although its header speaks of all    *)
(* who used to be mixed.                                                     *)
RampsSmoothly ==
  mixer = "additional" =>
    /\ \A p \in (DOMAIN frame \cap isMixed) \ ToSet(mixList) :
         frame[p] # Passive => p \in ToSet(rampOutList)
    /\ ToSet(rampOutList) \subseteq isMixed \ ToSet(mixList)
    /\ IsInjective(rampOutList) /\ Len(rampOutList) <= MaxMixed
    /\ \A p \in ToSet(mixList) : p \in rampedIn <=> p \notin isMixed

(* Every frame out of the memory pool is in just one of the lists, so that   *)
(* all are back in the pool, each once, when Process() returns.              *)
FramesReturned ==
  /\ taken = Listed \cup Held
  /\ \A i, j \in DOMAIN Lists : i # j => ToSet(Lists[i]) \cap ToSet(Lists[j]) = {}
  /\ \A i \in DOMAIN Lists : IsInjective(Lists[i])
  /\ mixer = "idle" => taken = {}

(* Every frame chosen is heard, unless StartPlayout() or StopPlayout() is    *)
(* active meanwhile: the single participant's shortcut, which overwrites     *)
(* what is mixed, is not taken when frames of several are in the lists, also *)
(* when channels have become anonymous since the participants were counted.  *)
NothingUnheard == mixer = "deliver" /\ calm => mixed = Listed

(* Process() waits for the _fileCritSect of a channel while it holds _cbCrit; *)
(* no call that holds a _fileCritSect waits for _cbCrit, as the comments of   *)
(* RegisterFilePlayingToMixer() and StopPlayingFileLocally() have it, so that *)
(* they never wait for each other.                                            *)
NoLockHeldForCbCrit == at["file"] \in {"anonymise", "deanonymise"} => on["file"] \notin fileCrit
=============================================================================
