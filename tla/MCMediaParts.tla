----------------------------- MODULE MCMediaParts -----------------------------
(* The conference mixer and the parts around it that hold media, in one run: *)
(* each behaviour is one of a single part, while the others stay where they  *)
(* began.  The mixer has four channels, two of which can be mixed beside the *)
(* anonymous ones.  Files are played on one of them, the others may be       *)
(* exchanged for each other; either not all channels play out at the same    *)
(* time, or no file is played (the crowd, where all who are mixed may give   *)
(* way in one round).                                                        *)
EXTENDS ConferenceMixer, EchoCanceller, RingBuffer, NetEqPacketBuffer,
        AudioCodingSender

VARIABLE part  \* the one that runs

PartsInit ==
  /\ part \in {"ConferenceMixer", "Crowd", "EchoCanceller", "RingBuffer",
               "NetEqPacketBuffer", "AudioCodingSender"}
  /\ Init /\ EchoInit /\ RingInit /\ BufferInit /\ SenderInit

processingVars == <<echoVars, ringVars>>
codingVars == <<bufferVars, senderVars>>

\* Bounds of the mixer.
NotAllPlayOut ==
  Len(participantList') + Len(additionalParticipantList') < Cardinality(Channels)
NoFiles == fileCrit' = {}

\* All parts but the mixer may come to an end at their bounds.
Ended == part \notin {"ConferenceMixer", "Crowd"} /\ UNCHANGED <<vars, processingVars, codingVars>>

PartsNext ==
  /\ part' = part
  /\ \/ /\ part = "ConferenceMixer" /\ Next /\ NotAllPlayOut
        /\ UNCHANGED <<processingVars, codingVars>>
     \/ part = "Crowd" /\ Next /\ NoFiles /\ UNCHANGED <<processingVars, codingVars>>
     \/ part = "EchoCanceller" /\ EchoNext /\ UNCHANGED <<vars, ringVars, codingVars>>
     \/ part = "RingBuffer" /\ RingNext /\ UNCHANGED <<vars, echoVars, codingVars>>
     \/ /\ part = "NetEqPacketBuffer" /\ BufferNext
        /\ UNCHANGED <<vars, processingVars, senderVars>>
     \/ /\ part = "AudioCodingSender" /\ SenderNext
        /\ UNCHANGED <<vars, processingVars, bufferVars>>
     \/ Ended

PartsSpec == PartsInit /\ [][PartsNext]_<<part, vars, processingVars, codingVars>>

OtherChannels == Permutations(Channels \ FileChannels)

BothWays == {-5, -3, -1, 2, 5}

\* The packets of a source whose timestamps wrap: alone, of several chunks,
\* with a redundant copy of the one before, and with one missing.
Packet(n, chunks, redundancy) ==
  [timeStamp |-> (TimeWrap - 4 + FrameSamples * n) % TimeWrap, seqNumber |-> n,
   chunks |-> chunks, rcuPlCntr |-> redundancy]
Arrivals == {<<Packet(0, <<1>>, 0)>>, <<Packet(1, <<2>>, 0)>>, <<Packet(2, <<3>>, 0)>>,
             <<Packet(3, <<1>>, 0), [Packet(2, <<1>>, 1) EXCEPT !.seqNumber = 3]>>,
             <<Packet(4, <<2, 2>>, 0)>>, <<Packet(6, <<1>>, 0)>>}

\* A frame that fills the buffer, a shorter one, and a secondary codec fast
\* enough to have two payloads within the long frame.
SenderFrames == ("long" :> 3) @@ ("short" :> 2) @@ ("second" :> 1)
=============================================================================
