---------------------------- MODULE MCEngineParts ----------------------------
(* Seven parts whose properties are about states and steps, in one run: each  *)
(* behaviour is one of a single part, while the others stay where they began. *)
EXTENDS VoiceEngine, PacketSegment, RtpRetransmission, RtpReceiveStatistics,
        PacedSender, TelephoneEvents, ForwardErrorCorrection

VARIABLE part  \* the one that runs

rtpSenderVars == <<resendVars, paceVars, toneVars>>
rtpReceiverVars == <<receiveVars, fecVars>>

PartsInit ==
  /\ part \in {"VoiceEngine", "PacketSegment", "RtpRetransmission",
               "RtpReceiveStatistics", "PacedSender", "TelephoneEvents",
               "ForwardErrorCorrection"}
  /\ Init /\ SegmentInit /\ ResendInit /\ ReceiveInit /\ PaceInit /\ ToneInit
  /\ FecInit
  /\ part # "RtpReceiveStatistics" => nackOn

\* All parts but the voice engine come to an end at their bounds.
Ended == part # "VoiceEngine" /\ UNCHANGED <<vars, segmentVars, rtpSenderVars,
                                              rtpReceiverVars>>

PartsNext ==
  /\ part' = part
  /\ \/ /\ part = "VoiceEngine" /\ Next
        /\ UNCHANGED <<segmentVars, rtpSenderVars, rtpReceiverVars>>
     \/ /\ part = "PacketSegment" /\ SegmentNext
        /\ UNCHANGED <<vars, rtpSenderVars, rtpReceiverVars>>
     \/ /\ part = "RtpRetransmission" /\ ResendNext
        /\ UNCHANGED <<vars, segmentVars, paceVars, toneVars, rtpReceiverVars>>
     \/ /\ part = "RtpReceiveStatistics" /\ ReceiveNext
        /\ UNCHANGED <<vars, segmentVars, rtpSenderVars, fecVars>>
     \/ /\ part = "PacedSender" /\ PaceNext
        /\ UNCHANGED <<vars, segmentVars, resendVars, toneVars, rtpReceiverVars>>
     \/ /\ part = "TelephoneEvents" /\ ToneNext
        /\ UNCHANGED <<vars, segmentVars, resendVars, paceVars, rtpReceiverVars>>
     \/ /\ part = "ForwardErrorCorrection" /\ FecNext
        /\ UNCHANGED <<vars, segmentVars, rtpSenderVars, receiveVars>>
     \/ Ended

PartsSpec == PartsInit /\ [][PartsNext]_<<part, vars, segmentVars,
                                          rtpSenderVars, rtpReceiverVars>>

\* Numbers 1, 16 and 17 after the first of an item, and across the wrap; numbers
\* that were never sent are not found.
Lists == {<<65518, 65534, 65535>>, <<65535, 0, 15, 16>>}

\* Both sides of the marks that the code compares with, the furthest leap, and
\* two wraps.
AroundTheWrap == {65280, 65281, 65535, 65536, 65790, 65791, 130816, 131071, 131073}

ShortAndLong == {<<1, 100>>, <<2, 1400>>}
=============================================================================
