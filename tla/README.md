# Verification of the voice engine

The repository is a port of the audio half of WebRTC: a voice engine
(`src/media_engine/voice_engine`), the modules it is made of
(`src/media_engine/modules`) and a portability layer for threads, locks and
events (`src/media_engine/system_wrappers`), with one module of its own that
packs several audio packets into one datagram
(`modules/audio_data_segment`). This directory holds TLA+ models of its control
logic, TLC configurations that check them on small instances, and TLAPS proofs
of the main invariants for every value of the constants.

Paths below are relative to `src/media_engine` unless they begin with `src/`.

## 1. Inventory

### Threads and how they meet

* *API threads*: the application's. Most calls hold the API lock
  (`SharedData::crit_sec`) from start to end. The calls of `VoEFile` do not.
* *The audio device's thread(s)*: deliver recorded audio to `TransmitMixer`
  and ask `OutputMixer` for the mix every 10 ms. They use channels through a
  `ScopedChannel` or a callback and take no API lock.
* *The network thread*: hands received packets to a `Channel`.
* *The process thread*: calls `Process()` of registered modules (RTP/RTCP,
  audio coding, monitor).
* *The timer thread* of an `EventPosix`.

They meet in the channel map, in the flags of channels and of the transmit
mixer, in the conference mixer's lists, and in the system wrappers' locks,
condition variables and events.

### Components

| component | state | operations | what is hard | what makes it correct | module |
|---|---|---|---|---|---|
| readers/writer lock (`system_wrappers/source/rw_lock_generic.cc`) | four counters, two condition variables made of events | acquire/release shared and exclusive | wake-up of the right sleepers, barging, events that are reset late | exclusion, no lost wake-up, writers go first, nobody starves once writers stop | `RWLockGeneric`, `RWLock` |
| condition variable without native support (`condition_variable_win.cc`) | waiter counts, two alternating manual-reset events, one auto-reset event | `SleepCS`, `Wake`, `WakeAll` | counts and events are changed in separate critical sections | `WakeAll` reaches everybody | `ConditionVariableWindows` |
| event and its timer (`event_posix.cc`) | a sticky flag, waiters, a timer thread with period and count | `Set`, `Reset`, `Wait`, `StartTimer`, `StopTimer` | time-outs against signals, restart of a one-shot timer | no signal is missed, one shot per start, what waits ends | `EventPosix` |
| process thread (`modules/utility/source/process_thread_impl.cc`, `thread_posix.cc`) | registered modules, worker, thread object's flags | `Start`, `Stop`, `RegisterModule`, `DeRegisterModule`, the worker's loop | a worker that begins or ends late, restarts, a module deregistered while it is processed | no use after delete, quiet when stopped, only registered modules run, due modules run | `ProcessThread` |
| channel manager (`voice_engine/channel_manager_base.cc`, `channel_manager.cc`) | id-to-channel map, free ids, two locks | create, destroy, look up, scopes | a channel is destroyed while others use it; lock order | no channel is deleted in use, ids unique, none lost, no deadlock | `ChannelManager` |
| engine around the device (`voe_base.cc`, `voe_hardware.cc`, `voe_file.cc`, `engine_base_impl.cc`, `transmit_mixer.cc`) | channels that send and play, the microphone's file, the device's recording and playing | create, delete, start/stop send and playout, change device, record the microphone, init, terminate | each step can fail; file calls are outside the API lock; the file's end comes from the device's thread | the device is on for those that need it and off without them | `VoiceEngine` |
| conference mixer (`modules/audio_conference_mixer`) and the channel's calls into it | participants' lists, mixed status, participants counted, pooled frames | `Process`, mixability and anonymity of channels, start/stop of playout and of files | calls between the critical sections of `Process` and of each other; lock order; choice of frames | lists in step with channels, the right frames mixed and ramped, no frame lost, no deadlock | `ConferenceMixer` |
| packet combining and separating (`modules/audio_data_segment`, `voice_engine/channel.cc`) | segment under construction, its last payload type, sequence number and timestamp offset | enable/disable, send, separate, receive | switching while packets are held, widths of fields, zero as "none" | a packet comes out once, with its own header, and segments fit the buffer | `PacketSegment` |
| retransmission (`modules/rtp_rtcp/source/rtp_packet_history.cc`, `rtp_sender.cc`, the NACK in `rtcp_sender.cc` and `rtcp_receiver.cc`) | ring of the last packets, byte counts of answers, the last NACK sent | send, store, ask, resend, switch the ring on and off | the ring is overwritten or freed while an answer is under way, numbers wrap, NACKs repeat | what is resent is what was asked, at most once a round trip, within the budget | `RtpRetransmission` |
| reception statistics (`rtp_receiver.cc`) | highest number, wraps, counts in and out of order, the last report | receive, report, reset | late and repeated packets around the wrap of 16 bits | the extended number is that of the furthest packet, the loss that of the stream | `RtpReceiveStatistics` |
| audio sender and its tones (`rtp_sender_audio.cc`, `dtmf_queue.cc`) | queue of tones, the tone that is on, last payload type | add a tone, send a frame | tones longer than a segment, frames without data, failing packets | tones are played in order, to their end and with their length; bursts of speech are marked | `TelephoneEvents` |
| forward error correction (`forward_error_correction.cc`, `producer_fec.cc`, `receiver_fec.cc`) | media packets of a few frames, FEC packets to send; packets received and recovered, FEC packets waiting | protect, send, receive, recover | holes in the numbers, any order of arrival, failing callbacks | what is recovered is what was sent, and as soon as possible | `ForwardErrorCorrection` |
| the rest of RTP and RTCP, TMMBR | payload types, SSRCs, reports | receive, report | time-outs | reports agree | not modelled |
| paced sender (`modules/pacing/paced_sender.cc`) | two queues, two budgets | send, process, switch on and off, change the rate | the lock is left for each callback | packets leave once and in line, no faster than the rate | `PacedSender` |
| remote bitrate estimator | rate-control state, region, detector | update | over-use signals against state | the table's transitions | planned in part |
| SSRC database, monitor module | small containers under a lock | create/return | double registration, unlocked readers | uniqueness | planned |
| media file, file player, recorder | playing/recording state | start, stop, end of file | a file that has ended is stopped again | states agree with the channel's flags | planned |
| NetEQ's packet buffer (`modules/audio_coding/neteq/packet_buffer.c`, `recin.c`, `signal_mcu.c`) | slots of payloads in one memory, where the decoder is | receive (with splitting and redundancy), ask for a decoder step | payloads are taken in another order than they came, memory or slots run out, late packets, wrapping timestamps | payloads stay whole until they are taken, and are decoded in order | `NetEqPacketBuffer` |
| echo canceller (`modules/audio_processing/aec`) | buffers of the far and the near end, known and filtered delay | buffer the far end, process the near end | calls of the two ends in any proportion, jumping delays, incomplete blocks | the far end is there when it is needed, the delay is known, no sample of the output is lost | `EchoCanceller` |
| ring buffer (`modules/audio_processing/utility/ring_buffer.c`) | two positions and a wrap flag | write, read, move the read place both ways, flush | full and empty look alike but for the flag | it is a queue whose read place can move | `RingBuffer`, `SampleQueue` |
| audio coding module, sending side | the encoder's input, fragments for redundancy and the second codec | add 10 ms, process, change codecs | input and output run apart, calls fail in between | samples, timestamps and fragments agree | `AudioCodingSender` |
| codecs, the rest of audio processing and NetEQ, common audio | filters | arithmetic | none that a model checker reaches | numerical | not modelled |
| audio device backends, network glue, API wrappers, trace | operating-system handles | I/O and argument checks | the operating system's | not stated in the repository | not modelled |
| tests and demonstration programs | | | | read for what they expect | not modelled |

`PROJECT.json` lists every component with its sources, and the hazards, each at
its line with the properties that would catch it.

## 2. Plan

Done: the components above that have a module. Order of what is left:

1. Media file, file player and recorder, composed with `ConferenceMixer` for a
   file that comes to its end.
2. Algorithms checked against their definitions: the TMMBR bounding set, the
   SSRC database. The receiving side of the audio coding module.
3. The state machine of `RemoteRateControl`; the double buffer of the trace.
4. Unequal protection and the larger tables of FEC.

Compositions: `RWLockGeneric` implements `RWLock` and `RingBuffer` implements
`SampleQueue` (both proved); `ChannelManager` uses the lock as `RWLock` describes
it, and `EchoCanceller` its buffers as `SampleQueue` does. `VoiceEngine` takes the channel manager
as a set, which `ChannelManager` justifies for calls under the API lock.

## 3. Modules and their code

An action is what one thread does between two points at which another thread
can run: between taking and leaving a critical section, or between two looks at
state that no lock protects. Guards are the code's conditions and early
returns; a call that returns before it changes anything has no action.
`PROJECT.json`, "map", gives the lines of every definition.

Modules hold variants of some definitions, each with one mistake
(`FindSeqNum_GuessOnly` of `FindSeqNum`, say). Put in the place of the definition it is
named after, it must break a property; that shows that the property depends on
the code.

* **RWLock** is the abstract lock: sets of readers, writers and queued writers.
  **RWLockGeneric** has the code's counters, each thread's place, and the events
  of its two condition variables. `rw_lock.cc:24` builds this lock only where
  Windows has no slim reader/writer locks, and there it has no condition variables
  either (both came with Vista), so that the lock always runs on the event-based
  fallback of `condition_variable_win.cc`: a sleeper registers for the event of the
  next `WakeAll`, leaves the count when its wait returns, resets the event if it was
  the last, and then has to get the critical section, where others can overtake it.
  The write condition is only asked to `Wake()` and the read condition only to
  `WakeAll()`; the other event of each is left out. `called` remembers the readers a
  `WakeAll` was called for, `erased` those whose signal a late `ResetEvent` took
  away (finding 1). `Refines` maps places to the sets of `RWLock`.
* **ConditionVariableWindows** models `SleepCS`, `Wake` and `WakeAll` called in
  the caller's critical section, as `RWLockGeneric` does. The two events and the
  counts are updated in separate steps. `called` remembers the waiters a
  `WakeAll` was called for.
* **EventPosix** has the event's own flag (`state_`), the places of threads in
  `Wait`, and the timer thread with its `created_at_`, `count_` and inner
  event. `StartTimer` and `StopTimer` take a step for each thing they do that the
  timer thread can see, because no lock keeps it out: a restart first clears the
  reference time and then sets the inner event. `unfired` remembers a one-shot start
  that no shot has answered.
* **ProcessThread** has the registered modules, the worker's round, and the
  flags of each `ThreadPosix` object (`alive`, `dead`, its function). The
  constants `CreateFails`, `SlowStart` and `SlowStop` switch on threads that
  cannot be created, begin after 10 s and end after 10 s.
* **ChannelManager** keeps the critical section and the lock of the map, the
  scopes of each thread (two nested ones for API threads, because
  `StopSend(int)` counts channels while it holds one), the object a call has in
  hand, and what was deleted.
* **PacketSegment** composes the sending channel, the combiner, the wire, the
  separator and the receiving channel. Fields have their widths (sequence
  numbers 16 bits, offsets 16 bits, counters 8 bits). The wire loses and
  reorders datagrams. `wrapped` remembers that the 8 bits that count a segment's
  packets went past 255, after which the limit on them says nothing.
* **VoiceEngine** has the engine's view of the device and the channels. A call
  under the API lock is one action unless it looks at something the lock does
  not guard; the microphone's calls are a step for each look. `cut` and `left`
  record devices that a failed call took from users or left on without users,
  so that the properties can say what happens otherwise.
* **ConferenceMixer** has one round of `Process()` as a step per participant
  asked, one for filling the mix, one for the status, one for mixing and one
  for the delivery; and the calls of `Channel`, one step per critical section.
  "api" stands for the thread inside the API lock, "file" for the one that
  makes file calls. `calm` says that no playout call was active during a round.
* **RtpRetransmission** has the ring as one vector of records, the NACKs on
  their way, and the thread that answers one, with a step for each time it takes
  a lock: look-up, transport, note of the time. NACKs may be lost, repeated and
  late. `kept` is what the ring promises to hold; `log` what was sent again.
  `Rising` says of the lists of missing numbers what the callers give: they rise,
  within a span that 16 bits tell.
* **RtpReceiveStatistics** knows a packet by its place in the stream, which does
  not wrap, and gives the code 16 bits of it. `arrived` is what really came.
  Whether the clock says that a late packet was resent is left open.
* **PacedSender** has both queues and budgets; bytes are exact, half bytes of
  the factor 1.5 are cut as C's conversion does. Other calls come between
  `GetNextPacket` and the return of the callback. A conversion that cuts toward
  zero adds half a byte to a budget that is overdrawn, so that the bound of
  `PacedToRate` on packets is half a byte per ms above 1.5 times the rate.
* **TelephoneEvents** composes the queue of tones with `SendAudio`. A frame is
  one action. Sample counts are real (48 kHz, 60 ms), so that the 16 bits of an
  event's duration overflow. A frame of audio can be too large, which is found
  before its payload type is noted, or refused by the transport, which is found
  after (`Outcomes`, `LastType`): `markLost` says that a packet with the marker bit
  was among those not sent since the last one that was, `frameFailed` that one was
  not sent.
* **ForwardErrorCorrection** composes producer, network and receiver. The
  content of a packet is a set of places, XOR what an odd number of packets have,
  so that a wrong recovery shows as a content that is not one packet. The masks
  are those of the code's tables for up to four packets.
* **NetEqPacketBuffer** has the slots with each payload's place in memory. A
  call of `RecIn` is a step for the packet and one for each chunk it inserts
  (`receiving` says what is left of it), the decoder's loop a step for each
  payload it takes; the module's lock keeps the two apart. `overtaken` remembers
  that the memory was begun again past a payload that waits (finding 6). What the
  decoder does about a gap is left open, so that the model has every choice the
  code can make.
* **RingBuffer** has the code's two positions and its wrap flag; **SampleQueue**
  is what a user of it sees, a sequence of samples with a place in it. The
  samples are numbered in the order of their writing, so that a sample that
  comes out twice, or old memory, shows.
* **EchoCanceller** knows its buffers by how much can be read from them. A call of
  `Process` is one step for the estimate of the delay and one for each frame.
  `farUnread` counts partitions that were missing, `stuffed` the samples that
  were repeated in the output.
* **AudioCodingSender** has the device's thread, a step for each time it takes the
  module's lock (add, process, hand over, clean up), and the application's calls
  between them. A block of 10 ms is known by when it was captured, a payload by
  its encoder, first block and length, so that a header that does not fit what it
  describes shows. The encoders may fail after part of a frame, the callback may
  refuse a packet. `threeFailed` says that a packet of three parts failed or was
  refused and the fragmentation was not reset since (finding 8); `doubtful` packets
  are those made meanwhile, which `PacketTrue` exempts and `LengthsTrue` does not.
* **...Proofs** modules hold the theorems. **MC...** modules instantiate for TLC.
  **MCEngineParts** puts seven parts that do not interact in one run,
  **MCMediaParts** five and **MCWaiting** four: `part` says which of them a
  behaviour is of, and so which fairness holds of it.

## 4. Runs

| run | instance | what is checked | what it shows |
|---|---|---|---|
| `rw_lock_generic` | 3 threads | `NoLostWakeup`, `Refines`, `AllAreServed` | the lock wakes whoever can go on and serves writers, and readers once writers stop, but for a reader whose signal is erased; it implements `RWLock` |
| `rw_lock_generic_reader_forgotten` | 3 threads | violation of `EveryReaderIsWoken` | finding 1 |
| `waiting` | one part to a behaviour: | | |
| - `EventPosix` | 3 threads, one timed, 2 timer starts | `NoSleeperWhileUp`, `SetNotSwallowed`, `OneShotFiresOnce`, `NobodyWaitsForEver` | no signal missed or swallowed but by a time-out, the timer's promises |
| - `ConditionVariableWindows` | 3 threads, one timed, 2 `WakeAll` | `WakeAllReachesAll` | up to two `WakeAll` calls the alternating events are right |
| - `ProcessThread` | 2 API threads, 1 module, 2 workers, all failures on | `NothingUsedAfterItsEnd`, `QuietWhenStopped`, `NewModuleWakes`, `CallersAndModulesServed` | objects outlive their threads, a deregistered module is never processed, calls end |
| - `ChannelManager` | 2 API threads, 1 worker, 2 ids, 2 objects | `HeldChannelsLive`, `ChannelsAccountedFor`, `CallsReturn` | no channel is deleted in use, none is lost, no deadlock between the two locks |
| `event_posix_timed_wait` | 2 threads, one timed, no timer | violation of `TimeoutTakesNoSet` | finding 3 |
| `event_posix_lost_start` | the timer, its owner and `Set`/`Reset`, 2 timer starts | violation of `StartedTimerFires` | finding 7 |
| `engine_parts` | one part to a behaviour: | | |
| - `VoiceEngine` | 1 API thread and the device's, 2 channels | `DeviceFollowsUse` | the device follows its users through every failing step |
| - `PacketSegment` | payload types 13 and 103, sizes 100 and 728, time step 40000, 3 packets, limit 3, 1 empty frame | `HeadersKept`, `KeptOnceAndFits` | packets are neither lost by the code nor doubled, headers are right, segments fit |
| - `RtpRetransmission` | ring of 2, 3 packets numbered 65534, 65535, 0, two lists of numbers, 2 NACKs, RTX | `AnswersRight`, `AnswersBounded` | look-ups are right with gaps and wraps; answers are what was asked, spaced and within the budget |
| - `RtpReceiveStatistics` | 8 places around two wraps and both marks, 5 arrivals, 2 reports, 1 reset | `ReportsTrue` | numbers and losses of reports are right whatever is lost, repeated and late |
| - `PacedSender` | 3 packets of 3 priorities, ticks of 30 ms up to 120, one change of rate or status | `LeavesOnceInLine`, `PacedToRate` | no packet is lost, repeated or overtakes; the rate holds over any span |
| - `TelephoneEvents` | queue of 2, tones of 100 ms and 1.4 s, accepted in the first 7 of 26 frames of 60 ms | `TonesAndBursts` | tones in order and with their length over segments; bursts of speech are marked, unless the packet with the mark was not sent |
| - `ForwardErrorCorrection` | lists of 2, 3 media packets around the wrap with a gap of one, rates 60 and 255, 3 packets received | `RecoveredIsOriginal`, `AllThatCanBeIsRecovered` | what is recovered is what was sent, and as soon as possible |
| `media_parts` | one part to a behaviour: | | |
| - `ConferenceMixer` | 4 channels, 1 with files, 2 mixed at most, 2 energies; at most 3 play out, or ("Crowd") no file is played | `PlayingIsListed`, `MixesTheRightOnes`, `RampsSmoothly`, `FramesReturned`, `NothingUnheard`, `NoLockHeldForCbCrit` | the lists stay in step with the channels, the loudest are mixed, both who were mixed may be ramped out in one round and no more, no frame is lost, the order of locks is kept |
| - `EchoCanceller` | 8 kHz, far buffer of 8 partitions, delays of 0 and 10 ms, resampling to 79 | `SamplesInStep`, `DelayTrue` | no block lacks its far end, no flush, rewind or overflow loses count of the delay, no output is lost |
| - `RingBuffer` | 4 elements, writes and reads of 0 to 5, moves by -5 to 5, 10 written | `IsSampleQueue` | the ring is the queue, full, empty and around its end |
| - `NetEqPacketBuffer` | 4 slots, 6 words, 4 of 6 different packets | `PayloadsIntact`, `PlayedInOrder` | no payload is written over until the memory has been begun again past one that waits, and late ones are not played after their turn |
| - `AudioCodingSender` | frames of 3, 2 and 1 blocks, buffers of 3, 4 blocks captured, 3 settings | `InputInStep`, `PacketsRight` | audio, timestamps and clock come together again after an overflow; each packet says truly what is in it, in order, unless one of three parts failed before it; a secondary payload goes out once |
| `packet_after_failed_three_parts` | as `AudioCodingSender` above | violation of `LengthsTrue` | finding 8 |
| `packet_segment_pcmu` | payload types 0 and 13 | violation of `HeadersKept` | finding 2 |
| `voice_engine_microphone_race` | 2 API threads | violation of `StopsForNobody` | finding 4 |
| `fec_gap_over_byte` | gaps of 6 unprotected packets | violation of `RecoveredIsOriginal` | finding 5 |
| `neteq_overtaken` | 5 slots, 10 words, 7 packets | violation of `NothingOverwritten` | finding 6 |

### Bounds and why they are enough

* *Threads.* Three: one that acts, one that waits and one that overtakes. In the
  lock they are enough for a reader that is overtaken by a second writer or by
  another reader, and for the signal that is erased: one reader on its way out of
  the wait, one that sleeps, and a thread that writes again and again. That no
  wake-up is lost and that the lock implements `RWLock` is also proved for any
  number.
* *Starts, workers, WakeAll calls.* `MaxStarts`, `MaxWorkers` and `MaxWakeAlls`
  are 2: the second start meets what is left of the first. The third `WakeAll`
  reuses the first event, and then the property fails: a waiter of the first that
  is on its way out erases the signal (finding 1 shows it in the lock).
* *Ids and objects.* Two ids and two objects let an id be given again while the
  old object lives.
* *Packets.* Three packets: one that begins a segment, one that joins it and one
  that does or does not. The sizes are chosen so that two large packets fill a
  segment, and the time step so that a second step overflows 16 bits.
* *Mixer.* Two of four channels can be mixed (three of any number in the code), so
  that both who were mixed can be displaced in one round, which is the bound that is
  asserted. With file calls in between no more than three play out at a time. Two
  energies give a tie and a strict order. The minimum of 2
  is an assumption of the module: with a maximum of 1 the count of 1 would also
  mean "several, one mixed".
* *Retransmission.* Three packets in a ring of two overwrite an entry; their
  numbers cross the wrap, and one list is older than, one across it. Sixteen
  away is the edge of an item's mask. A `Step` of 5 ms is shorter than the
  interval of resending (6), two are longer.
* *Statistics.* The places lie on both sides of the marks 0xff00 and 0xff of
  the first and the second wrap, so that each comparison of the code goes both
  ways. `MaxLate` (255) and `MaxAhead` (65026) are as far as the comparison of
  numbers can tell, as the proof shows: one further either way and it is wrong.
* *Pacer.* A tick of 30 ms is both the cap of an interval and the limit without
  sending; 120 ms give four rounds of `Process`. Nothing is rounded with an even
  rate; the proof has every rate and tick.
* *Tones.* 1.4 s at 48 kHz are 67200 samples, more than 16 bits; a second tone
  waits behind the first, or comes when a short one is over (`LastTone`); the frames
  that follow are for the longest one.
* *FEC.* With lists of two the code's limit of 48 is reached; three media
  packets make two protected sets or one that is cut off. The proof has lists of up
  to four, all that the tables of the model give.
* *NetEQ.* Six words and four slots: either can run out first. Packets have one
  to three chunks or two, a redundant copy, and a hole; they cross the wrap of the
  timestamps, which is at 128 for 2^32, with 20 for the 30000 of "too old".
  Concealment may run 22 ahead of the last payload, past that limit.
* *Echo canceller.* The far buffer has eight partitions for 250 and the sound
  card 10 ms for 500, the smallest that keep `EchoAssumption`: both ends of the
  buffer are reached. 79 samples are a frame resampled, which no call makes whole.
* *Audio coding.* A frame as long as the buffer makes it overflow, a shorter one
  is left in part by a change of codecs, and the secondary codec has two payloads
  within the long frame: packets have one to three parts. Four blocks, from 13 on
  with timestamps modulo 16, cross the wrap. `DiffWrap` is 4 for 2^16: what is
  left by a codec for longer wraps it. Three settings switch a codec or FEC on,
  off and on. Two lengths tell a payload from another. Both properties are also
  proved, without these bounds.
* *Ring.* Four elements, and counts and moves beyond four; ten samples go around
  twice.
* *Counts cut off.* `count_` of the timer stops at 2 and `MaxObjects` ends the
  creation of channels.

Deadlock is checked in every passing run. The parts in which everyone may sleep for
good (`ConditionVariableWindows` and `EventPosix` in `MCWaiting`) and those whose
inputs are used up (of `MCEngineParts` all but `VoiceEngine`, of `MCMediaParts` all
but `ConferenceMixer`) have a step that changes nothing; the runs of such a part
alone, which expect a violation, say `CHECK_DEADLOCK FALSE`.

### Fairness and why the code justifies it

* Locks: weak fairness of the steps of a thread that is awake, and of leaving
  the lock, because the operating system schedules it and holders release.
* Condition variable and `RWLockGeneric`: weak fairness of the steps inside a call
  and of the wait for a signalled event; strong for taking the caller's critical
  section, which others take in between.
* Event: weak fairness of returns from a wait that is over, of the timer thread
  and of joining it. Nobody is obliged to call `Set`.
* Process thread: the worker runs, and gets `_critSectModules` if it is free
  again and again; nothing is assumed of the application's calls.
* Channel manager: strong fairness for taking the critical section, weak for
  ending scopes, because callbacks return. `CallsReturn` supposes a lock as `RWLock`
  describes it and that a thread that may go on is told so: that is the operating
  system's lock (`rw_lock_win.cc`, `rw_lock_posix.cc`). On `RWLockGeneric` a reader
  can be forgotten for a while (finding 1).
* No fairness in the parts of `MCEngineParts` and `MCMediaParts`, whose
  properties are all of safety: nobody promises that packets or samples arrive.

## 5. Proofs

Each theorem holds for every value of the constants that satisfies the named
assumptions.

* `RWLockGenericProofs`, for any finite set of threads. The invariant is
  `TypeOK`, `CountersMatch`, `Exclusion`, `NoLostWakeup` and `UncalledWait`
  together: exclusion is not inductive alone, because the guards read counters and
  only `CountersMatch` ties these to threads; a reader no `WakeAll` was called for
  waits for the event of the next one (`UncalledWait`), and one it was called for
  has its event up or about to be, unless a late `ResetEvent` put it among the
  `erased`. No ideal condition variable is assumed. `Counting` and `Moving` say what moving
  one thread does to the cardinalities. `Implementation` shows that every step
  is a step of `RWLock` or a stutter.
* `ChannelManagerProofs`, for any threads, ids and number of objects. What a
  thread holds is in the map (`HeldMapped`), because the map changes only under
  the exclusive lock and a scope holds it shared (`HoldsMatchScopes`); what a
  creating or deleting thread has in hand is in no map (`HandsOK`). From these:
  `ChannelsProtected`, `IdsCorrect`, `NothingLost`, and the last two together
  as `Accounted`.
* `EventPosixProofs`: `NoSignalMissed` and `SetsAnswered` are inductive with the
  types; `OneShotsCounted` needs `ShotInv`, which bounds the shots still to come
  by what the timer thread is about to do and by whether the reference time is set,
  wherever it is when the owner is between the two steps of a restart.
* `ProcessThreadProofs`: `LockInv` says who holds `_critSectModules` and that a
  round's modules are registered; `LifeInv` ties a worker's place to its
  object's flags and says that the creator watches a worker's birth. From these
  `ObjectsOutlived`, `ProcessedIsRegistered`, `StoppedIsQuiet`.
* `VoiceEngineProofs`: at most one call is inside the API lock (`OneLocked`).
  Playout (`PlayoutRight`) is proved for any threads and channels.
  `MicrophoneRight` assumes a single API thread, because finding 4 refutes
  them for two.

* `ProcessThreadProofs` also has `WakeUpsKept`: a worker never waits with the times
  of a scan made before a module was registered unless its event is up. The scan,
  the registration and the wake-up are in three critical sections; what makes them
  safe is that the event stays up, with `LockInv` and the flags.
* `DeviceRight` in `VoiceEngineProofs` puts both halves of the device together,
  `ObjectsAndModulesOutlived` the two halves of `NothingUsedAfterItsEnd`.
* `ConferenceMixerProofs`, for any channels, energies and bound on the mix of two
  or more (`MixerAssumption`). `MixerInv` has four ideas. Named and anonymous
  participants are each listed once, and a channel is listed exactly if it plays
  out, but for the one whose call is between its two steps (`ListedOnce`,
  `CallsInv`): `Listing`. While participants are asked, the three lists hold the
  best of the frames given so far and nothing of those still to ask (`AskedSoFar`,
  `Ranked`, `Ramped`): `LoudestAreMixed`, `RampsAreRight`. The latter is about
  active participants; a passive one that finds no room is cut off. The frames out of the
  pool are those in a list, and no frame is in two (`Taken`, `Apart`):
  `FramesAreReturned`. One participant counted is one participant (`CountInv`), so
  that the shortcut of the mix leaves nobody out: `AllIsHeard`. `LocksInOrder`
  needs no more than the places.
* `RtpProofs` has six parts.
  - *Reports* (`ReportsCorrect`), for any stream whose packets are at most 255 late
    and 65026 ahead (`ReceiveAssumption`). `InOrderRight` shows that within these
    the comparison of 16 bits tells the later packet and a number that falls is
    one wrap; the invariant says that the counters are those of the furthest
    packet (`Extended`) and count each packet (`Counted`). The bounds are what the
    comparison can tell: with a leap of 65027 the lemma is false.
  - *The pacer* (`PaceAssumption`: the rates have a largest one).
    `PacketsLeaveInLine`: the packets given are, in one line, those out, in hand,
    and in the two queues, each once and those of one priority in order
    (`LineInv`), whatever the callback refuses. `RateIsKept`: of every time since
    which bytes were counted, what was sent and what is left of the budget stay
    within what the clock added (`PacedWell`, `PaddingWell`): the budget is
    needed, since a span's sum alone is not inductive. The proof found that half a
    byte per ms is added by rounding an overdrawn budget; the property says so.
  - *Segments* (`SegmentAssumption`). `SegmentInv` says of a segment under
    construction and of every datagram on the wire which packets are in it and
    that header and offsets give back theirs. `PacketsKeptOnce` holds without
    conditions. `HeadersAreKept` holds for packets whose payload type and
    sequence number are not 0, which the combiner takes for "none yet"; finding 2
    is what happens otherwise.
  - *Tones* (`ToneAssumption`: no tone is empty, and a frame and a packet together
    are shorter than the 65535 one event can say). `ToneInv` says that the queue
    holds the accepted tones that have not begun (`QueueTrue`), and of the tone
    under way that what its finished segments told and the length still to send
    are the length asked for (`ToneTrue`). `BurstInv` follows the marker bit, which is
    lost with a packet that is not sent, and the last payload type, which is noted
    even of a packet the transport refuses. From both `TonesAndBurstsRight`.
  - *Retransmission* (`ResendAssumption`: the lists of missing numbers rise and span
    at most 271 numbers, within which the comparison of `BuildNACK` tells what is 16
    away). `RingHolds` says slot by slot which packet is where before and after the
    place written next; `FoundIsWritten` that neither the guess nor the search from
    the first slot on stops at a slot that was never written, whose number 0 is also
    a packet's. `RoundTrip` shows that `HandleNACK` undoes `BuildNACK` for lists of
    any length: their recursive functions exist (`ItemsExist`, `OffsetsAre`,
    `NumbersAre`), and by induction from the end of the list (`Downwards`) each item
    says the part of the list that it was made of (`ItemSays`). From these
    `AnswersAreRight`. `ResendsAreSpaced` proves the spacing in `AnswersBounded`: the
    ring knows when a packet was sent last but between the sending and the note
    (`NotedInRing`), and what is in hand is due (`SendIsDue`). It holds as long as
    no two packets in the ring have the same number, which the size of the ring alone
    does not give, since packets that are not stored take numbers too.
  - *FEC* (`FecAssumption`; `RecoveredAreOriginal`), for any losses, repetitions,
    order of arrival, rates and failing callbacks. `FecInv` says of the producer
    that its list rises in steps of the gaps (`ProducerInv`) and that a FEC packet,
    made or sent, covers the numbers of exactly the places that were XORed into it;
    of the receiver (`Receivers`) that what it holds under a number, received,
    recovered or noted with a FEC packet, is what was sent under it. `RecoverRight`
    shows that then the XOR of a FEC packet with all but one of those it covers is
    that one. Two conditions are stated: `MasksFit`, up to four media packets whose
    mask stays within one byte, where the walk of `GenerateFecBitStrings` and the
    mask agree (`BitsAre`, `FecPacketRight`; finding 5 is what happens past it), and
    `NumbersAreUnique`, fewer than 2^16 places used, past which the receiver keeps
    FEC packets of the lap before and a number no longer tells a packet. The loops
    of `InsertPackets` and `AttemptRecover` are recursive functions that exist and
    keep what each turn keeps (`Iterates`, `Repeats`).
* `AudioModulesProofs` has four parts.
  - *Echo canceller*, for any sizes and delays that keep `EchoAssumption`. The
    invariant adds to the types the exact balance of the delay
    (`DelayAccounted`) and bounds on `aecKnownDelay`: from them a block never finds
    the far buffer empty although the read place was moved just before, and no
    move is cut short by the end of the buffer. `SamplesRight` puts both ends
    together.
  - *Ring buffer*, for any size. The positions have not crossed (`NotCrossed`)
    and each sample that can be read is in its place (`InPlace`); under the map
    that follows from them every step is one of `SampleQueue`.
  - *Audio coding*, for any codecs, frame and buffer sizes, width of the
    timestamps and number of calls. In each encoder blocks and timestamps run in
    parallel and the last timestamp is the one the next block is compared with
    (`EncoderTrue`), which makes replacing it safe; an encoder that dropped audio
    is `Ready` for the same timestamp again, which gives `DroppedOnce`. From these
    `InputRight`. `PacketsAreRight` follows the payload that waits in the red
    buffer, whose fields are in three places: what waits was captured before every
    block its encoder still has and after all that was sent of it (`KeptTrue`,
    `OutTrue`), and the fragment tells its length unless a packet of three parts
    failed or was refused: what is made then, until the fragmentation is reset, is
    exempt (finding 8). It supposes `WithinHalfWrap`, a call shorter than half
    the wrap (2^31 samples, 37 hours at 16 kHz): the code compares timestamps with
    `TimestampLessThan()`, which puts a payload kept for longer in front of newer
    ones. Where that comparison agrees with the order of the blocks, the places of
    the parts are all different and without a gap (`Places`).
  - *NetEQ*, for any number of slots, memory and packets (`BufferAssumption`).
    `PayloadsStayIntact`: as slots are given in turn, the distance from the slot
    given last is the age of a payload. Payloads of the lap before lie behind the
    last one inserted, those of this lap in front of it, and in each lap in the
    order of their age (`InLaps`), so that the one neighbour the code looks at is
    the only one a new payload can run into. Beginning the memory again past a
    payload that waits breaks this order, and the proof attempt that met it led to
    finding 6; `overtaken` marks the state, and ends with the next flush.

The `TypeOK` invariants of these modules are proved and no longer checked
by runs of their own; the runs check what the invariants are for.

Only model-checked:

* all liveness properties (`AllAreServed`, `NobodyWaitsForEver`,
  `WakeAllReachesAll`, `CallersAndModulesServed`, `CallsReturn`), which are out of
  the prover's reach;
* `AllThatCanBeIsRecovered` (FEC), which compares the receiver with what follows in
  any number of steps from what came. `RecoveredAreOriginal` gives the soundness of
  each recovery; that none is left out, over all orders of arrival, needs an
  induction over `Recoverable` against the history of the receiver's lists, which
  was not attempted;
* of `AnswersBounded` (retransmission) the budget, a sum over a set of byte counts,
  and a bound of the run rather than of every constant: a record carries the time at
  which its answer began, and an answer that takes longer than `Interval` falls out
  of the count while its packets are still in the window;
* `PlayedInOrder` (NetEQ), which holds for what the network may bring in the run and
  not for every stream: with timestamps chosen at will the ones around the wrap
  have no order.

## 6. Findings

1. `condition_variable_win.cc:155` resets the event of a `WakeAll` outside the
   critical section of the counts, and `RWLockGeneric` is built on it. A reader is
   woken, and while it is on its way out two more writers release the lock. The
   second of them signals the same event for a reader that has come since, the first
   reader resets it, and the other sleeps with the lock free, until later releases
   signal its event again. Against `condition_variable_wrapper.h:36` ("Wakes all
   threads calling SleepCS()"), which `rw_lock_generic.cc:52` relies on. With three
   `WakeAll` calls the same happens to any caller of `SleepCS`.
2. `audio_data_combiner.cc:141` takes payload type 0 (PCMU) for "none yet":
   packets of another type join its segment and all come out with the last type.
3. `event_posix.cc:146` takes the event down after a time-out, together with a
   `Set` that came in between, against `event_wrapper.h:34`.
4. `voe_file.cc:346`: `StopRecordingMicrophone` counts the sending channels
   without the API lock and stops the device under one that has just begun.
5. `forward_error_correction.cc:291` goes to the next byte of a mask only where
   the index becomes 8 exactly. A hole in the numbers can make it jump over 8:
   the packets behind the hole are not XORed in although the mask names them,
   and the receiver recovers a wrong packet, against
   `forward_error_correction.h:233`.
6. `packet_buffer.c:258` compares a new payload with one neighbour only. Once the
   memory has been begun again past a payload of the lap before that still waits,
   the neighbour need not be the first one in the way: a payload that waits is
   written over, against the comment "Check if the new payload will extend into a
   payload later in memory. If so, the buffer is full" (`:255`).
7. `event_posix.cc:190`: a restart of a one-shot timer clears `created_at_` and then
   sets the inner event (`:191`). A timer thread that is not asleep takes its new
   reference time without being told; the event that was to tell it then ends the
   wait for the shot, the next wait has `count_` 2, and the start is never answered,
   against `event_wrapper.h:50`.
8. `audio_coding_module_impl.cc:356` takes `fragmentationLength[2]` for the length
   of the payload that was kept. A packet of three parts writes the primary
   payload's length there (`:451`), and where the secondary encoder fails or the
   packet is refused (`:484`) nothing resets it: the next packet says of the kept
   payload a length that is not its own, against `module_common_types.h:270`.

Disagreements met while modelling that have no run:

* Packets: sequence number 0 also stands for "none" (`audio_data_combiner.cc:146`);
  the length given to the separator includes the header its pointer skips
  (`channel.cc:3000`); no segment ever has the marker bit; the receiver refuses
  datagrams above 807 bytes while segments reach 1478
  (`engine_network_impl.cc:120`).
* Event: a spurious wake-up counts as a signal (`event_posix.cc:142`).
* Threads: `process_thread_impl.cc:56` tests a Boolean with `>= 0`, so a thread
  that cannot be created goes unnoticed; a thread that begins after `Start` gave
  up uses a deleted object once `Stop` has run (`thread_posix.cc:223`); after a
  `Stop` that timed out a second one reports success (`process_thread_impl.cc:82`).
* Engine: after `Terminate` and `Init` a channel still reads as playing or
  sending with the device off; the microphone's calls use the device after
  `Terminate` (`voe_file.cc:313`); two threads that stop the microphone's file
  may both use the recorder (`transmit_mixer.cc:822`).
* Channel manager: `GetItemIds` and `NumOfItems` read the map without its lock
  (`channel_manager_base.cc:164`).
* Mixer: a passive participant that was mixed and finds no room any more goes back
  to the pool and is cut off (`audio_conference_mixer_impl.cc:913`), against
  `audio_conference_mixer_impl.h:99` ("an audio stream that used to be mixed but
  shouldn't be mixed any longer"); `StartPlayout` against
  `StopPlayingFileLocally` can leave a channel anonymous with no file
  (`channel.cc:2130`); two threads in `StopPlayingFileLocally` use a deleted
  player (`channel.cc:2092`); `PlayFileEnded` is empty, so that a file that has
  ended can neither be stopped nor replaced (`channel.cc:917`,
  `media_file_impl.cc:682`); a file is mixed at no more than 32 kHz while the
  mixer may run at 48 kHz (`channel.cc:1899`).
* NACK: a list is looked at for a wrap only where a number plus 16 is above 0xff00
  (`rtcp_sender.cc:1353`), so that with 272 numbers or more between two neighbours
  over the wrap the second is taken for one within 16 and the assertion at `:1363`
  fails; without assertions the number is not asked for. Lists in this repository
  come from tests and are shorter.
* RTP sender: `rtp_sender.cc:768` returns an error for a transport that sends 0
  bytes; resending over RTX lengthens a packet by 2 bytes in a buffer of the
  largest size (`:535`).
* RTP receiver: a first packet numbered 0 is taken for "nothing received"
  (`rtp_receiver.cc:826`), so that the next one counts as the first again;
  `ResetDataCounters` clears counters but not what the last report saw
  (`:1403`); a packet more than 256 late counts as a restart and adds a wrap
  (`:957`).
* Pacer: what padding was sent is not taken off the budget (`paced_sender.cc:134`:
  it is set to zero first); with a rate of 0 packets of low priority never leave;
  nothing calls the pacer, the call in `RTPSender::SendToNetwork` is commented out.
* Tones: the marker bit of a tone is never set (`rtp_sender_audio.cc:320`
  notes the first packet as sent before it is); with a tone that ends in a new
  segment both of its packets have the end bit; `NextDTMF` moves one element too
  many (`dtmf_queue.cc:60`), past the end of the arrays of a full queue, to a
  place that nobody reads; a burst of speech whose marked packet is refused goes on
  without a mark (`rtp_sender_audio.cc:470`).
* FEC: a FEC packet stays in the list until it is displaced, over a wrap of the
  numbers too; `DecodeFEC` compares numbers without the wrap, so that a full
  list is reset at each wrap (`forward_error_correction.cc:812`); a packet
  recovered that is older than the 48 held is dropped before it is handed on; a
  second media packet that waits after a failed callback is never handed on; a
  media packet that comes after it was recovered is handed on twice.

* NetEQ: the buffer is flushed when the next slot in turn is taken although
  others are free ("All positions are already taken", `packet_buffer.c:270`); the
  search for the next payload looks at `payloadLengthBytes[nextPos]` before it
  tests the bound (`:229`); a chunk that cannot be inserted ends the call before
  the flush of an earlier chunk is noted as a new codec; with redundancy and
  frames shorter than wanted the loop decodes the redundant copy too
  (`signal_mcu.c:719`); a new codec with an empty buffer sets the time of playout
  to 0.
* Echo canceller: the output is stuffed in the first three frames, 48 samples in
  all, where the comment speaks of the first frame (`echo_cancellation.c:508`).
* Audio coding: with RED registered
  `rtp_sender_audio.cc:413` refuses every packet of three parts. After a full
  buffer the clock stands still once, the next block replaces the last one, and 10
  ms more are lost; the delay of a full buffer is never made up. A codec that is
  used again still has the audio it was left with (`acm_generic_codec.cc:527`).
  The time of a redundant part is cut to 16 bits, so that one that is older, after
  sending was stopped, is wrong. The first frame after comfort noise is not sent
  with FEC on until the next one is there. The comment "This will force that the
  data be removed" (`acm_generic_codec.cc:1112`) is not what happens: the count is
  not used after an error; in mono the second block of the voice detector is the
  first one again.
* TMMBR: step 2 does not count a candidate that it drops, so that the bounding
  set may have an entry (0,0,0) (`tmmbr_help.cc:205`); the candidate set is read
  without a lock. The difference of the two rates in step 6 is unsigned
  (`tmmbr_help.cc:403`): where the candidate's rate is the lower one it wraps, and
  the tuple that should be removed stays. `TMMBRReceived()` goes on to the next
  index after an entry that has timed out was removed (`rtcp_receiver.cc:1338`,
  `rtcp_receiver_help.cc:194`), so that the entry that moved up is left out once.
  These are from reading; no run shows them.

## 7. Abstractions

* Payload, samples, names, traces and statistics are left out. A packet is its
  place in what was sent, a frame the channel it is from.
* Time is otherwise left open: a time-out may come at any moment, a module may be due at
  any moment. Durations such as 10 s or 100 ms are not modelled.
* Time is a clock where a duration is the point: resending and its budget, the
  pacer, the pause between tones. All packets have the same size there.
* The tables of FEC for more than four packets are left out; the code uses them
  in the same way. Unequal protection and RED packets with two blocks are not
  modelled.
* `AudioCodingSender` takes `WEBRTC_CODEC_RED` as defined (the file that defines it
  is not in the repository) and a secondary codec as registered through the
  module's interface, which the engine itself does not do. Mixing, resampling,
  new parameters for the codec in use and 48 kHz, whose 10 ms do not divide the
  buffer, are left out.
* Memory does not run out.
* A thread's own stores to unprotected flags are seen in program order. Where a
  race on such a flag could have another outcome the list above says so.
* `ConferenceMixer` leaves out sampling frequencies, the limiter, the time
  scheduler and the status callbacks. A `GetAudioFrame()` may fail or give any
  frame. Stopping a file may fail at any time, which includes a file that has
  ended.
* `VoiceEngine` assumes the device reports what it was told, and that any call
  of it may fail.

To repeat the checks, run TLC on each module and configuration named in
`PROJECT.json`, and `tlapm` on each of the eight `...Proofs` modules.
