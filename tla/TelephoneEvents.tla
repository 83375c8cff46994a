-------------------------- MODULE TelephoneEvents --------------------------
(***************************************************************************)
(* RTPSenderAudio: the frames of the audio coder become RTP packets, with  *)
(* the marker bit on the first of a burst of speech; while a tone (DTMF)   *)
(* is on, every frame becomes a telephone event packet instead.  The       *)
(* application puts the tones into a queue with a lock of its own; the     *)
(* audio thread takes the next one when the last has been over for a       *)
(* while.  A tone longer than the 16 bits of an event's duration is split  *)
(* into segments.                                                          *)
(*                                                                         *)
(* The audio thread comes every FrameMs with the next frame; levels,       *)
(* payloads, RED and header extensions are left out.                       *)
(***************************************************************************)
EXTENDS Integers, Sequences

CONSTANTS Tones,               \* pairs of a key and a length in ms
          DTMF_OUTBAND_MAX,    \* capacity of the queue
          FramePayloadTypes, CngTypes,  \* what frames are sent as, and those for CNG
          SamplesPerMs, FrameMs,
          PacketSamples,       \* _packetSizeSamples
          MaxFrames,           \* bound: frames
          MaxTones, LastTone   \* bound: tones accepted, and the last frame for one

VARIABLES frames,     \* frames delivered: the clock, and the capture time
          toneKeys, toneLens,  \* the arrays of DTMFqueue
          nextEmpty,  \* _nextEmptyIndex
          tone,       \* the _dtmf... members
          lastType, inbandVAD,  \* _lastPayloadType, _inbandVADactive
          frameWire,       \* the packets that the last frame became
          accepted,   \* tones accepted, in that order
          ended,      \* how many of them have ended, and when
          told,       \* how long the receiver knows the tone to be
          burst,      \* last audio packet: its type and whether it was quiet
          frameFailed,     \* the last audio packet failed, or one before the first that was sent
          markLost        \* a packet with the mark failed since the last that was sent

toneVars == <<frames, toneKeys, toneLens, nextEmpty, tone, lastType, inbandVAD,
              frameWire, accepted, ended, told, burst, frameFailed,
              markLost>>

FrameTypes == {"kAudioFrameSpeech", "kAudioFrameCN", "kFrameEmpty"}
Outcomes == {"sent", "tooLarge", "refused"}
MaxDuration == 65535
MaxPause == 100
Redundant == 3   \* how often the end of a tone is sent
Clock == (frames + 1) * FrameMs + MaxPause
Capture == Clock * SamplesPerMs
Frame == FrameMs * SamplesPerMs

\* VoEDtmf accepts tones of 100 ms to 60 s.  A frame and a packet are far shorter than
\* a segment of an event.
ASSUME ToneAssumption ==
  /\ SamplesPerMs \in Nat \ {0} /\ FrameMs \in Nat \ {0}
  /\ PacketSamples \in Nat /\ Frame + PacketSamples <= MaxDuration
  /\ DTMF_OUTBAND_MAX \in Nat \ {0} /\ FramePayloadTypes \subseteq Nat
  /\ \A t \in Tones : t[2] \in Nat \ {0}

NoTone == [on |-> FALSE, key |-> 0, start |-> 0, length |-> 0, ended |-> 0,
           sent |-> 0]

ToneInit ==
  /\ frames = 0
  /\ toneKeys = [i \in 1 .. DTMF_OUTBAND_MAX |-> 0]
  /\ toneLens = [i \in 1 .. DTMF_OUTBAND_MAX |-> 0]
  /\ nextEmpty = 0
  /\ tone = NoTone
  /\ lastType = -1
  /\ inbandVAD = FALSE
  /\ frameWire = <<>>
  /\ accepted = <<>>
  /\ ended = [count |-> 0, time |-> 0]
  /\ told = 0
  /\ burst = [type |-> -1, quiet |-> TRUE]
  /\ frameFailed = FALSE
  /\ markLost = FALSE

-----------------------------------------------------------------------------
(* The queue. *)

AddDTMF(key, len) ==
  /\ Len(accepted) < MaxTones /\ frames <= LastTone
  /\ nextEmpty < DTMF_OUTBAND_MAX
  /\ toneKeys' = [toneKeys EXCEPT ![nextEmpty + 1] = key]
  /\ toneLens' = [toneLens EXCEPT ![nextEmpty + 1] = len]
  /\ nextEmpty' = nextEmpty + 1
  /\ accepted' = Append(accepted, [key |-> key, length |-> len])
  /\ UNCHANGED <<frames, tone, lastType, inbandVAD, frameWire, ended, told, burst,
                 frameFailed, markLost>>

\* memmove of as many elements as are queued: the last comes from behind the
\* queue, and from behind the array when that is full, to a place nobody reads.
MovedUp(array) ==
  [i \in DOMAIN array |-> IF i <= nextEmpty /\ i < DTMF_OUTBAND_MAX
                          THEN array[i + 1] ELSE array[i]]

NextDTMF_KeysStay ==
  /\ toneLens' = MovedUp(toneLens)
  /\ nextEmpty' = nextEmpty - 1
  /\ UNCHANGED toneKeys

NextDTMF ==
  /\ toneKeys' = MovedUp(toneKeys)
  /\ toneLens' = MovedUp(toneLens)
  /\ nextEmpty' = nextEmpty - 1

-----------------------------------------------------------------------------
(* A frame while a tone is on, or is just beginning. *)

NextFrame == frames < MaxFrames /\ frames' = frames + 1

Begins == /\ ~tone.on /\ nextEmpty > 0
          /\ Clock - tone.ended > MaxPause

\* The tone as it is after a new one was taken from the queue.
Current ==
  IF Begins
  THEN [tone EXCEPT !.on = TRUE, !.start = Capture, !.key = toneKeys[1],
                    !.length = SamplesPerMs * toneLens[1]]
  ELSE tone

Duration == Capture - Current.start
Ends == Current.length <= Duration
IsLong == Duration > MaxDuration

Event(end, start, duration) ==
  [key |-> Current.key, end |-> end, start |-> start, duration |-> duration,
   marker |-> FALSE]

\* SendTelephoneEventPacket sends the last packet three times.
Copies(packet) == [i \in 1 .. (IF packet.end THEN Redundant ELSE 1) |-> packet]

\* The calls of SendTelephoneEventPacket for this frame.  The marker is to be
\* set if the first packet has not been sent, after it was noted that it has.
EventPackets ==
  IF IsLong
  THEN <<Copies(Event(Ends, Current.start, MaxDuration)),
         Copies(Event(Ends, Capture, Duration - MaxDuration))>>
  ELSE <<<<>>, IF Duration > 0 \/ Ends
               THEN Copies(Event(Ends, Current.start, Duration)) ELSE <<>>>>

\* Empty frames may come more often than events are to be sent.
NotTimeYet(type) == type = "kFrameEmpty" /\ PacketSamples > Capture - tone.sent

\* The next segment begins at this frame.
SplitTone == [Current EXCEPT !.start = Capture, !.length = @ - MaxDuration,
                             !.on = ~Ends, !.sent = Capture]

ToneAfterFrame ==
  LET t == IF IsLong THEN SplitTone
           ELSE [Current EXCEPT !.on = ~Ends, !.sent = Capture]
  IN  [t EXCEPT !.ended = IF Ends THEN Clock ELSE @]

\* The transport may refuse the packets of a call.
SendEvent(type) ==
  /\ NextFrame
  /\ Current.on
  /\ IF Begins THEN NextDTMF ELSE UNCHANGED <<toneKeys, toneLens, nextEmpty>>
  /\ IF NotTimeYet(type)
     THEN tone' = Current /\ frameWire' = <<>>
     ELSE /\ tone' = ToneAfterFrame
          /\ frameWire' \in {<<>>, EventPackets[1], EventPackets[2],
                         EventPackets[1] \o EventPackets[2]}
  /\ ended' = IF tone'.on THEN ended
              ELSE [count |-> ended.count + 1, time |-> Clock]
  /\ told' = (IF Begins THEN 0 ELSE told)
               + (IF IsLong /\ tone'.sent = Capture THEN MaxDuration ELSE 0)
  /\ UNCHANGED <<lastType, inbandVAD, accepted, burst, frameFailed, markLost>>

-----------------------------------------------------------------------------
(* A frame of audio. *)

\* The marker bit and what becomes of _inbandVADactive.
AudioMarkerBit(type, payloadType) ==
  LET quiet == type = "kAudioFrameCN"
      new == payloadType # lastType
  IN  IF new /\ payloadType \in CngTypes
      THEN [marker |-> FALSE, vad |-> inbandVAD]
      ELSE IF new /\ lastType = -1
      THEN [marker |-> ~quiet, vad |-> quiet \/ inbandVAD]
      ELSE [marker |-> new \/ (~quiet /\ inbandVAD), vad |-> quiet]

\* Noted when the packet is ready, before the transport takes it or refuses it.
LastType(outcome, payloadType) ==
  IF outcome = "tooLarge" THEN lastType ELSE payloadType

\* An empty frame is not sent; a packet may be too large, or be refused by the
\* transport (SendToNetwork), and the marker bit was asked for before either.
SendSpeech(type, payloadType, outcome) ==
  /\ NextFrame
  /\ ~Current.on
  /\ IF type = "kFrameEmpty"
     THEN frameWire' = <<>> /\ UNCHANGED <<lastType, inbandVAD, burst, frameFailed, markLost>>
     ELSE LET bit == AudioMarkerBit(type, payloadType)
              sent == outcome = "sent"
          IN  /\ inbandVAD' = bit.vad
              /\ lastType' = LastType(outcome, payloadType)
              /\ frameWire' = IF sent THEN <<[type |-> payloadType, marker |-> bit.marker]>>
                              ELSE <<>>
              /\ burst' = IF sent THEN [type |-> payloadType,
                                        quiet |-> type = "kAudioFrameCN"
                                                    \/ payloadType \in CngTypes]
                          ELSE burst
              /\ frameFailed' = (sent => frameFailed /\ burst.type = -1)
              /\ markLost' = (~sent /\ (markLost \/ bit.marker))
  /\ UNCHANGED <<toneKeys, toneLens, nextEmpty, tone, accepted, ended, told>>

ToneNext ==
  \/ \E t \in Tones : AddDTMF(t[1], t[2])
  \/ \E type \in FrameTypes : SendEvent(type)
  \/ \E type \in FrameTypes, payloadType \in FramePayloadTypes :
       \E outcome \in Outcomes : SendSpeech(type, payloadType, outcome)

ToneSpec == ToneInit /\ [][ToneNext]_toneVars

-----------------------------------------------------------------------------
(* Properties. *)

IsEvent(packet) == "key" \in DOMAIN packet

FramePackets == {frameWire[i] : i \in DOMAIN frameWire}

\* The tone that event packets of the next step belong to.
This == accepted[ended.count + 1]

\* Tones are played in the order in which they were accepted, each to its end and
\* once, with its own key, and a pause of more than 100 ms after the last.
TonesInLine ==
  [][\A p \in FramePackets' : frames' # frames /\ IsEvent(p) =>
       /\ ended.count < Len(accepted)
       /\ p.key = This.key
       /\ p.end <=> ended'.count = ended.count + 1
       /\ ended.count > 0 => Clock - ended.time > MaxPause]_toneVars

\* What the receiver is told of a tone's length fits the 16 bits of each segment,
\* stays below the length asked for until the tone ends, and then is that length,
\* up to the time between two packets, however many segments there are.
TonesLast ==
  [][\A p \in FramePackets' : frames' # frames /\ IsEvent(p) =>
       /\ p.duration \in 1 .. MaxDuration
       /\ p.start = tone'.start =>
            LET length == SamplesPerMs * This.length
                total == told' + p.duration
            IN  IF p.end THEN total \in length .. length + Frame + PacketSamples
                ELSE total < length]_toneVars

\* Tones are played as they were asked for.
TonesAsAsked == TonesInLine /\ TonesLast

\* A burst of speech begins with a marked packet, whether the pause before it was
\* filled with CNG packets, the coder's own or with none, and tones came between;
\* but for a burst whose marked packet was itself not sent: the mark is not set
\* again.  No other packet of speech is marked, unless the one before it was not
\* sent, or one before the first.
BurstsMarked ==
  [][\A p \in FramePackets' : frames' # frames /\ ~IsEvent(p) /\ ~burst'.quiet =>
       LET begins == burst.quiet \/ burst.type # p.type
       IN  /\ begins => p.marker \/ markLost
           /\ p.marker => begins \/ frameFailed]_toneVars

\* Tones and speech take turns: each tone is played as it was asked for and each
\* burst of speech between them is marked.
TonesAndBursts == TonesAsAsked /\ BurstsMarked
==============================================================================
