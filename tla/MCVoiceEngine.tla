----------------------------- MODULE MCVoiceEngine -----------------------------
(* Two channels, one or two threads that call the engine, and the thread of *)
(* the audio device.                                                        *)
EXTENDS VoiceEngine
=============================================================================
