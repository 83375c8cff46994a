-------------------------- MODULE AudioCodingSender --------------------------
(***************************************************************************)
(* The sending half of the audio coding module.  The device's thread adds  *)
(* 10 ms of audio and has it processed (Channel::EncodeAndSend); every     *)
(* encoder collects blocks of 10 ms, each with its timestamp, until it has *)
(* a frame.  With FEC on, a packet repeats the payload before it; with a   *)
(* secondary codec the payloads of both are combined.  Meanwhile the       *)
(* application changes codecs and settings, under the module's lock, which *)
(* the device's thread leaves to add, to process, and to hand a packet on. *)
(*                                                                         *)
(* A block is known by when it was captured, a payload by its encoder, its *)
(* first block and its length.  A codec with another sampling rate may     *)
(* displace the secondary one.  Mixing and resampling, stereo, the codecs' *)
(* own failures in initialisation and iSAC's own redundancy are left out,  *)
(* as is 48 kHz, whose blocks do not fill the buffer evenly.               *)
(***************************************************************************)
EXTENDS Integers, SequencesExt

CONSTANTS SendCodecs, Secondary, NoCodec,
          FrameBlocks,   \* blocks in a frame of each encoder
          BufferBlocks,  \* AUDIO_BUFFER_SIZE_W16
          Lengths,       \* bound: lengths of payloads told apart
          StampWrap,     \* 2^32
          DiffWrap,      \* 2^16, the width of fragmentationTimeDiff
          FirstCapture, MaxCaptures,  \* bound: blocks captured
          MaxSettings    \* bound: calls of the application

Encoders == SendCodecs \cup {Secondary}

ASSUME SenderAssumption ==
  /\ Secondary \notin SendCodecs /\ NoCodec \notin Encoders /\ "previous" \notin Encoders
  /\ BufferBlocks \in Nat \ {0} /\ FrameBlocks \in [Encoders -> 1 .. BufferBlocks]
  /\ Lengths \subseteq Nat \ {0} /\ FirstCapture \in Nat
  /\ StampWrap \in Nat \ {0} /\ DiffWrap \in Nat \ {0}

VARIABLES current,          \* the codec registered
          secondary,        \* whether there is a secondary encoder
          encoders,         \* each encoder's input
          captured,         \* blocks so far; the channel's _timeStamp without the wrap
          vad_enabled, fec_enabled, is_first_red,
          red_buffer, last_fec_timestamp, fragmentation,
          process,          \* where the device's thread is
          packet,           \* the last packet made
          threeFailed,      \* a packet of three parts failed, and nothing was reset since
          sentSecondary,    \* the latest block of secondary payloads sent
          overflows,        \* calls in a row that dropped audio
          settings

streamVars == <<encoders, captured, overflows>>
redVars == <<red_buffer, last_fec_timestamp, fragmentation, threeFailed>>
sendVars == <<process, packet, sentSecondary>>
codecVars == <<current, secondary, vad_enabled, fec_enabled>>
senderVars == <<streamVars, redVars, codecVars, is_first_red, sendVars,
                settings>>

NoPayload == [of |-> NoCodec, block |-> -1, len |-> 0]
NoFragment == [len |-> 0, pl |-> NoCodec, diff |-> 0]
NoFragments == [i \in 0 .. 2 |-> NoFragment]
NoPacket == <<>>
Fresh == [audio |-> <<>>, stamps |-> <<>>, last |-> -1]

Stamp(block) == block % StampWrap

SenderInit ==
  /\ current = NoCodec /\ secondary = FALSE
  /\ encoders = [e \in Encoders |-> Fresh]
  /\ captured = FirstCapture /\ overflows = 0
  /\ vad_enabled = FALSE /\ fec_enabled = FALSE /\ is_first_red = TRUE
  /\ red_buffer = NoPayload /\ last_fec_timestamp = 0 /\ fragmentation = NoFragments
  /\ process = "idle" /\ packet = NoPacket /\ sentSecondary = -1
  /\ threeFailed = FALSE /\ settings = 0

-----------------------------------------------------------------------------
(* Variants with a mistake, see README.md. *)

Replaces_Never(e, block) == FALSE
Clean_NotAtAll == UNCHANGED <<fragmentation, threeFailed>>

-----------------------------------------------------------------------------
(* ACMGenericCodec::Add10MsData(): a block with the timestamp of the last    *)
(* one replaces it; when the buffer is full the oldest block is dropped.     *)
Replaces(e, block) == e.last = Stamp(block) /\ e.audio # <<>> /\ e.stamps # <<>>

Before(seq, replaces) == IF replaces THEN Front(seq) ELSE seq

Overflows(e, block) == Len(Before(e.audio, Replaces(e, block))) = BufferBlocks

Add(e, block) ==
  LET audio == Before(e.audio, Replaces(e, block))
      stamps == Before(e.stamps, Replaces(e, block))
      full == Overflows(e, block)
  IN  [audio |-> Append(IF full THEN Tail(audio) ELSE audio, block),
       stamps |-> Append(IF full THEN Tail(stamps) ELSE stamps, Stamp(block)),
       last |-> Stamp(block)]

HasFrameToEncode(e) == Len(encoders[e].audio) >= FrameBlocks[e]

EarliestTimestamp(e) == IF encoders[e].stamps = <<>> THEN 0 ELSE encoders[e].stamps[1]

(* ACMGenericCodec::Encode() removes what it has read, with its timestamps.  *)
After(e, blocks) == [e EXCEPT !.audio = SubSeq(@, blocks + 1, Len(@)),
                              !.stamps = SubSeq(@, blocks + 1, Len(@))]

Payload(e, len) == [of |-> e, block |-> encoders[e].audio[1], len |-> len]

(* Channel::EncodeAndSend(), up to Process(): the clock goes on only if no   *)
(* encoder drops audio; the second one is not fed after the first one did.   *)
EncodeAndSend ==
  LET first == Overflows(encoders[current], captured)
      second == secondary /\ Overflows(encoders[Secondary], captured)
      fed == {current} \cup (IF secondary /\ ~first THEN {Secondary} ELSE {})
  IN  /\ process = "idle" /\ current # NoCodec /\ captured < MaxCaptures
      /\ encoders' = [e \in Encoders |-> IF e \in fed THEN Add(encoders[e], captured)
                                                      ELSE encoders[e]]
      /\ IF first \/ second
         THEN overflows' = overflows + 1 /\ UNCHANGED <<captured, process>>
         ELSE overflows' = 0 /\ captured' = captured + 1 /\ process' = "added"
      /\ UNCHANGED <<redVars, codecVars, is_first_red, packet, sentSecondary, settings>>

(* Channel::UpdateLocalTimeStamp(), while the channel does not send *)
UpdateLocalTimeStamp ==
  /\ process = "idle" /\ captured < MaxCaptures
  /\ captured' = captured + 1 /\ overflows' = 0
  /\ UNCHANGED <<encoders, redVars, codecVars, is_first_red, sendVars, settings>>

(* AudioCodingModuleImpl::Process() *)
Process10Ms == /\ process = "added"
               /\ process' = IF secondary THEN "dual" ELSE "single"
               /\ UNCHANGED <<streamVars, redVars, codecVars, is_first_red, packet,
                              sentSecondary, settings>>

Encodes(e, blocks) == encoders' = [encoders EXCEPT ![e] = After(@, blocks)]

-----------------------------------------------------------------------------
(* ProcessSingleStream() *)

FirstFragment(len) == [fragmentation[0] EXCEPT !.len = len, !.pl = current]

(* The redundant part: the payload kept, with the length and type it had.    *)
Redundancy(stamp) ==
  [fragmentation[1] EXCEPT !.pl = fragmentation[0].pl,
                           !.diff = (stamp - last_fec_timestamp) % DiffWrap]

InPacket(fragment, payload) ==
  [len |-> fragment.len, pl |-> fragment.pl, diff |-> fragment.diff, data |-> payload]

Speech(len) ==
  LET payload == Payload(current, len)
      stamp == EarliestTimestamp(current)
      second == IF is_first_red THEN fragmentation[1] ELSE Redundancy(stamp)
  IN  /\ Encodes(current, FrameBlocks[current])
      /\ IF fec_enabled
         THEN /\ packet' = IF is_first_red THEN packet
                           ELSE [stamp |-> stamp, doubtful |-> FALSE,
                                 parts |-> <<InPacket(FirstFragment(len), payload),
                                             InPacket(second, red_buffer)>>]
              /\ fragmentation' = [fragmentation EXCEPT ![0] = FirstFragment(len),
                                                        ![1] = [second EXCEPT !.len = len]]
              /\ red_buffer' = payload /\ last_fec_timestamp' = stamp
              /\ UNCHANGED threeFailed
              /\ is_first_red' = FALSE
         ELSE /\ packet' = [stamp |-> stamp, doubtful |-> FALSE,
                           parts |-> <<InPacket([len |-> len, pl |-> current, diff |-> 0],
                                                payload)>>]
              /\ UNCHANGED <<redVars, is_first_red>>

(* The blocks that the DTX takes: the first for the voice detector's.        *)
FirstVadBlocks(e) == CASE FrameBlocks[e] <= 3 -> FrameBlocks[e]
                       [] FrameBlocks[e] = 4 -> 2
                       [] OTHER -> 3

ComfortNoise == /\ vad_enabled /\ Encodes(current, FirstVadBlocks(current))
                /\ is_first_red' = TRUE /\ UNCHANGED <<redVars, packet>>

(* An error, which may come after some of the frame was read; silence that   *)
(* is not sent, or as an empty packet.                                       *)
Nothing == /\ \E read \in 0 .. FrameBlocks[current] : Encodes(current, read)
           /\ UNCHANGED <<redVars, is_first_red, packet>>

ProcessSingleStream ==
  /\ process = "single" /\ process' = "idle"
  /\ IF current # NoCodec /\ HasFrameToEncode(current)
     THEN (\E len \in Lengths : Speech(len)) \/ ComfortNoise \/ Nothing
     ELSE UNCHANGED <<encoders, redVars, is_first_red, packet>>
  /\ UNCHANGED <<captured, overflows, codecVars, sentSecondary, settings>>

-----------------------------------------------------------------------------
(* ProcessDualStream() *)

TimestampLessThan(t1, t2) == t1 # t2 /\ (t2 - t1) % StampWrap < StampWrap \div 2

One(condition) == IF condition THEN 1 ELSE 0

(* What there is to send: both encoders' next payloads and the one kept.     *)
ToSend == {e \in {current, Secondary} : HasFrameToEncode(e)}
           \cup (IF fragmentation[2].len > 0 THEN {"previous"} ELSE {})

PartStamp(p) == IF p = "previous" THEN last_fec_timestamp ELSE EarliestTimestamp(p)

OlderThan(parts, p) ==
  current \in parts /\ TimestampLessThan(PartStamp(current), PartStamp(p))

(* The place of each part in the packet, the newest first.                   *)
Index(parts, p) ==
  CASE p = current -> One(Secondary \in parts /\ OlderThan(parts, Secondary))
                        + One("previous" \in parts /\ OlderThan(parts, "previous"))
    [] p = Secondary -> One(current \in parts /\ ~OlderThan(parts, p))
    [] OTHER -> One(current \in parts /\ ~OlderThan(parts, p)) + One(Secondary \in parts)

(* The fragmentation once some of the parts are in it.                       *)
Written(parts, done, len, stamp) ==
  [i \in 0 .. 2 |->
     LET here == {p \in done : Index(parts, p) = i}
         p == CHOOSE p \in here : TRUE
     IN  IF here = {} THEN fragmentation[i]
         ELSE [len |-> IF p = "previous" THEN fragmentation[2].len ELSE len[p],
               pl |-> IF p = "previous" THEN Secondary ELSE p,
               diff |-> (stamp - PartStamp(p)) % DiffWrap]]

Content(p, len) == IF p = "previous" THEN red_buffer ELSE Payload(p, len[p])

Made(parts, len) ==
  LET stamp == PartStamp(CHOOSE p \in parts : Index(parts, p) = 0)
      written == Written(parts, parts, len, stamp)
  IN  [stamp |-> stamp, doubtful |-> threeFailed,
       parts |-> [k \in 1 .. Cardinality(parts) |->
                    InPacket(written[k - 1],
                             Content(CHOOSE p \in parts : Index(parts, p) = k - 1, len))]]

(* A secondary payload that is alone is kept for the next packet.            *)
Keep(len) ==
  /\ red_buffer' = Payload(Secondary, len)
  /\ last_fec_timestamp' = EarliestTimestamp(Secondary)
  /\ fragmentation' = [fragmentation EXCEPT ![2].len = len]
  /\ Encodes(Secondary, FrameBlocks[Secondary])
  /\ process' = "idle" /\ UNCHANGED <<threeFailed, packet>>

Combine(parts, len) ==
  LET made == Made(parts, len)
  IN  /\ encoders' = [e \in Encoders |-> IF e \in parts
                                         THEN After(encoders[e], FrameBlocks[e])
                                         ELSE encoders[e]]
      /\ fragmentation' = Written(parts, parts, len, made.stamp)
      /\ packet' = made /\ process' = "send"
      /\ UNCHANGED <<red_buffer, last_fec_timestamp, threeFailed>>

(* One of the encoders fails, the primary one first: what comes before it is *)
(* in the fragmentation already, or the kept payload is spoilt.              *)
Fail(parts, len) ==
  \E e \in parts \cap Encoders :
    LET done == IF e = current THEN parts \ Encoders ELSE parts \ {e}
        stamp == PartStamp(CHOOSE p \in parts : Index(parts, p) = 0)
    IN  /\ \E read \in 0 .. FrameBlocks[e] :
             encoders' = [x \in Encoders |->
                            IF x = e THEN After(encoders[x], read)
                            ELSE IF x \in done THEN After(encoders[x], FrameBlocks[x])
                            ELSE encoders[x]]
        /\ IF parts = {Secondary}
           THEN /\ red_buffer' = NoPayload
                /\ last_fec_timestamp' = EarliestTimestamp(Secondary)
                /\ UNCHANGED fragmentation
           ELSE /\ fragmentation' = Written(parts, done, len, stamp)
                /\ UNCHANGED <<red_buffer, last_fec_timestamp>>
        /\ threeFailed' = (threeFailed \/ Cardinality(parts) = 3)
        /\ process' = "idle" /\ UNCHANGED packet

ProcessDualStream ==
  /\ process = "dual"
  /\ IF current = NoCodec \/ ~secondary \/ ToSend \cap Encoders = {}
     THEN process' = "idle" /\ UNCHANGED <<encoders, redVars, packet>>
     ELSE \E len \in [ToSend \cap Encoders -> Lengths] :
            \/ ToSend = {Secondary} /\ Keep(len[Secondary])
            \/ ToSend # {Secondary} /\ Combine(ToSend, len)
            \/ Fail(ToSend, len)
  /\ UNCHANGED <<captured, overflows, codecVars, is_first_red, sentSecondary, settings>>

SecondaryBlocks == {packet.parts[k].data.block :
                      k \in {k \in DOMAIN packet.parts : packet.parts[k].data.of = Secondary}}

Clean == fragmentation' = NoFragments /\ threeFailed' = FALSE

(* The callback gets the packet outside the lock and may refuse it: then     *)
(* nothing is cleaned up.                                                    *)
SendData ==
  /\ process = "send"
  /\ \/ /\ process' = "sent" /\ UNCHANGED threeFailed
        /\ sentSecondary' = Max(SecondaryBlocks \cup {sentSecondary})
     \/ /\ process' = "idle" /\ UNCHANGED sentSecondary
        /\ threeFailed' = (threeFailed \/ Len(packet.parts) = 3)
  /\ UNCHANGED <<streamVars, red_buffer, last_fec_timestamp, fragmentation, codecVars,
                 is_first_red, packet, settings>>

Sent == /\ process = "sent" /\ process' = "idle" /\ Clean
        /\ UNCHANGED <<streamVars, red_buffer, last_fec_timestamp, codecVars, is_first_red,
                       packet, sentSecondary, settings>>

-----------------------------------------------------------------------------
(* Calls of the application.  A codec that was used before still has what    *)
(* was in its buffer.                                                        *)
Set == /\ settings < MaxSettings /\ settings' = settings + 1 /\ overflows' = 0
       /\ UNCHANGED <<captured, sendVars>>

RegisterSendCodec(c) ==
  /\ Set /\ c # current
  /\ current' = c
  /\ is_first_red' = (is_first_red \/ current # NoCodec)
  /\ \/ UNCHANGED <<secondary, encoders, fragmentation, threeFailed>>
     \/ /\ secondary /\ secondary' = FALSE
        /\ encoders' = [encoders EXCEPT ![Secondary] = Fresh]
        /\ Clean
  /\ UNCHANGED <<red_buffer, last_fec_timestamp, vad_enabled, fec_enabled>>

RegisterSecondarySendCodec ==
  /\ Set /\ current # NoCodec
  /\ secondary' = TRUE /\ encoders' = [encoders EXCEPT ![Secondary] = Fresh]
  /\ vad_enabled' = FALSE
  /\ red_buffer' = NoPayload /\ Clean
  /\ UNCHANGED <<current, fec_enabled, is_first_red, last_fec_timestamp>>

UnregisterSecondarySendCodec ==
  /\ Set /\ secondary
  /\ secondary' = FALSE /\ encoders' = [encoders EXCEPT ![Secondary] = Fresh]
  /\ Clean
  /\ UNCHANGED <<current, vad_enabled, fec_enabled, is_first_red, red_buffer,
                 last_fec_timestamp>>

SetFECStatus(enable) ==
  /\ Set /\ fec_enabled' = enable /\ is_first_red' = TRUE
  /\ IF fec_enabled # enable
     THEN red_buffer' = NoPayload /\ Clean
     ELSE UNCHANGED <<red_buffer, fragmentation, threeFailed>>
  /\ UNCHANGED <<current, secondary, encoders, vad_enabled, last_fec_timestamp>>

(* SetVAD() is refused beside a secondary codec.                             *)
SetVAD == /\ Set /\ ~secondary /\ vad_enabled' = ~vad_enabled
          /\ UNCHANGED <<current, secondary, fec_enabled, is_first_red, encoders, redVars>>

ResetEncoder ==
  /\ Set /\ current # NoCodec
  /\ encoders' = [encoders EXCEPT ![current].audio = <<>>, ![current].stamps = <<>>]
  /\ UNCHANGED <<codecVars, is_first_red, redVars>>

InitializeSender ==
  /\ Set /\ current' = NoCodec /\ is_first_red' = TRUE
  /\ IF fec_enabled \/ secondary
     THEN red_buffer' = NoPayload /\ Clean
     ELSE UNCHANGED <<red_buffer, fragmentation, threeFailed>>
  /\ UNCHANGED <<encoders, secondary, vad_enabled, fec_enabled, last_fec_timestamp>>

SenderNext ==
  \/ EncodeAndSend \/ UpdateLocalTimeStamp
  \/ Process10Ms \/ ProcessSingleStream \/ ProcessDualStream \/ SendData \/ Sent
  \/ \E c \in SendCodecs : RegisterSendCodec(c)
  \/ RegisterSecondarySendCodec \/ UnregisterSecondarySendCodec
  \/ \E enable \in BOOLEAN : SetFECStatus(enable)
  \/ SetVAD \/ ResetEncoder \/ InitializeSender

SenderSpec == SenderInit /\ [][SenderNext]_senderVars
-----------------------------------------------------------------------------
SenderTypeOK ==
  /\ current \in SendCodecs \cup {NoCodec} /\ secondary \in BOOLEAN
  /\ process \in {"idle", "added", "single", "dual", "send", "sent"}
  /\ \A e \in Encoders : Len(encoders[e].audio) <= BufferBlocks

(* Every block in an encoder has the timestamp it came with, and no block is *)
(* there twice or out of order, whatever was dropped, replaced or read in    *)
(* part.                                                                     *)
InputTrue ==
  \A e \in Encoders :
    LET audio == encoders[e].audio
    IN  /\ encoders[e].stamps = [k \in DOMAIN audio |-> Stamp(audio[k])]
        /\ \A k \in 2 .. Len(audio) : audio[k - 1] < audio[k]

(* A call that drops audio is not followed by another, but for one of each   *)
(* encoder: a full buffer does not keep the encoder from being called.       *)
FullOnlyOnce == overflows <= 1 + One(secondary)

(* The input of the encoders, whose audio, timestamps and channel's clock    *)
(* move apart when a buffer is full, is put in step again.                   *)
InputInStep == InputTrue /\ FullOnlyOnce

(* A packet says what is in it: of every part the encoder, the length and    *)
(* the time, the newest first.  Exempt are the packets of ProcessDualStream() *)
(* made after one of three parts failed or was refused, until the            *)
(* fragmentation is reset: it has left its own third length in the place     *)
(* that says whether, and how long, a secondary payload waits.               *)
PartTrue(stamp, part) ==
  \/ part.len = 0
  \/ /\ part.data # NoPayload /\ part.pl = part.data.of /\ part.len = part.data.len
     /\ part.diff = (stamp - Stamp(part.data.block)) % DiffWrap

PacketTrue ==
  packet # NoPacket /\ ~packet.doubtful =>
    LET parts == packet.parts
    IN  /\ packet.stamp = Stamp(parts[1].data.block)
        /\ \A k \in DOMAIN parts : PartTrue(packet.stamp, parts[k])
        /\ \A k \in 2 .. Len(parts) :
             parts[k].len > 0 => parts[k].data.block <= parts[k - 1].data.block

(* A secondary payload is not sent again in a later packet: it is "combined  *)
(* with the next payload" (audio_coding_module_impl.cc), and with that only. *)
SecondaryOnce == process = "send" => \A b \in SecondaryBlocks : b > sentSecondary

(* What is sent is true of what was encoded, although the redundant part of  *)
(* a packet waits in a buffer of its own through every change of settings,   *)
(* but for what follows the failure of a packet of three parts.              *)
PacketsRight == PacketTrue /\ SecondaryOnce

(* The lengths in a packet are those of its payloads, after every failure:   *)
(* so they are declared, and so they are not.                                *)
LengthsTrue ==
  packet # NoPacket =>
    \A k \in DOMAIN packet.parts : packet.parts[k].len \in {0, packet.parts[k].data.len}
=============================================================================
