------------------------- MODULE MCAudioCodingSender -------------------------
(* The sending half of the audio coding module alone, with the codecs of      *)
(* MCMediaParts.                                                              *)
EXTENDS AudioCodingSender

SenderFrames == ("long" :> 3) @@ ("short" :> 2) @@ ("second" :> 1)
=============================================================================
