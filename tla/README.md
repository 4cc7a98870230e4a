# Specifications of the streaming core

TLA+ models, model-checking configurations and machine-checked proofs for the
Rust live-streaming core under `src/core`: the engine that buffers encoded
media and muxes it to FLV, the session that survives a lost connection, and the
object mobile apps start and stop, the RTMP client and server, and the outputs.

    tlc -config SessionGop.cfg MCSession      # any configuration of PROJECT.json
    tlapm EngineProofs.tla                    # the proofs

## 1. Inventory

| Component (source) | State it keeps | Operations | Modelled in |
|---|---|---|---|
| Bounded buffer (`backpressure.rs`) | queue, `pushed`, `dropped` | push (evicts the oldest), pop, restore_front, cut to the newest keyframe, record_drop | `BoundedBuffer` |
| FLV muxer (`mux.rs`) | origin, last DTS per track, which headers are out | write_packet, write_metadata, init_codecs, rebase, restore_timebase | `FlvMuxer`, `FlvTags` |
| Engine (`engine.rs`) | buffer, muxer, cached codecs, timebase, keyframe gate, outputs | push(_all), tick, finish, attach/detach_transport, attach_output, configure_codecs, resync, reset | `Engine` |
| Session (`session.rs`) | state, attempt, next_attempt_at, reconnects | start, tick, retry, finish | `Session`, `Lifecycle` |
| FFI object (`ffi/src/lib.rs`) | stop, rearm, state, thread handle, session mutex, worker thread | start, retry, stop, drop, worker loop | `FfiSession` |
| Transport (`transport.rs`) | bytes written | write, flush, maintain, shutdown | failures only |
| Fanout (`transport.rs`) | slots with alive flags | add, write, flush, maintain, shutdown | `Fanout` |
| RTMP client (`rtmp/mod.rs`) | chunk streams, window, watchdog | connect, write, maintain, shutdown | `ChunkStream`, `RtmpLink`, `Ingest` |
| RTMP ingest (`rtmp/server.rs`) | reader, stream state, window, handlers | negotiate, pump, serve | `ChunkStream`, `RtmpLink`, `Ingest` |
| HLS output (`hls/mod.rs`) | configurations, gates, clock, open segment, tick grid, window, files | codecs, packet, finish | `HlsOutput` |
| MP4 writer (`hls/mp4.rs`) | none | init_segment, media_segment | `Fmp4` |
| Recording (`sink.rs`) | its own muxer, the file | codecs, packet, finish | `Recording`; the contract with the engine in `Engine` |
| Telemetry (`telemetry.rs`) | sample ring, sinks, counters | emit_sample, record_event | not modelled |
| FLV parser and demuxer (`rtmp/mod.rs`, `flv.rs`) | buffer and phase | feed, decode_tag | `FlvTags` |
| H.264, AAC (`codecs/`) | none | conversions | `AnnexB`, `Sps`, `Aac` |
| AMF0 (`rtmp/amf0.rs`) | none, or a read position | conversions | `Amf0` |
| RTMP handshake (`rtmp/handshake.rs`) | none | digests | not modelled |

**How they interact.** Encoder threads call `push` on a shared `Engine`; the
pump thread calls `Session::tick`, which calls `Engine::tick`, which drains the
buffer into the muxer, whose sink is the transport. All engine calls take one
mutex. When a tick fails, or the transport stalls, the session detaches it (the
engine snapshots the timebase, cuts the buffer to its newest keyframe and may
close a gate until a keyframe comes), dials with backoff, attaches the new
transport and ticks at once. Packet outputs (recordings, HLS) see each packet
that reached the wire and outlive connections. The FFI object runs the pump on
a worker thread, controlled through atomics and a join handle in a mutex. An
RTMP transport shares nothing with its server but two byte streams; each end
blocks on reads in its own thread, except in `maintain`, which drains what has
come between two ticks.

**What is hard.** A tick may fail at any packet, inside a tag or in the final
flush, and must neither lose, repeat nor miscount a packet; the encoder threads
push between any two engine calls of one session tick; the keyframe a
connection is to resume from may be evicted while it is awaited; clocks jump
and the timebase must survive connections; session and engine each keep their
own idea of whether there is a transport; start, retry and stop race a worker
that is coming or going; chunks interleave, change size and arrive in pieces; a
vanished peer must be told from a slow one. `hazards` in PROJECT.json lists these at their lines,
with the properties that watch them, and the ones that nothing watches yet.

**What makes each component correct.** Buffer: never beyond its budget, every
packet counted once. Muxer: media of a track never goes back in time; headers
before what needs them. Engine: decode order, nothing written twice, a resumed
connection starts on a keyframe, outputs mirror the wire. Session: keeps the
lifecycle, spends exactly its budget, decides every outage, never writes to a
broken transport. FFI object: one worker, truthful state, stop returns and is
heeded. Chunk streams: whole messages, in order, each with its
own bytes and time. RTMP link: every wait ends, a sound connection fails only for
a refusal, a dead one is noticed, the handler hears of the end once. HLS: what a
player can fetch is consistent at every instant, down to the samples it demuxes.
Ingest: what comes out of the server is what went into the muxer, and each
recording is one playable file.

## 2. Modules

    BoundedBuffer   FlvMuxer            operators on a buffer, a muxer
            \       /
             Engine                     the mutex-protected engine
               |
    Lifecycle <- Session                refinement; dial, backoff, resume
        |          |
    FfiSession   MCSession              the FFI object builds on Lifecycle
        |
    MCFfiSession

    Fmp4 <- HlsOutput <- MCHlsOutput    what a sink does with the packets
    Fanout                              what a transport may do with the tags
    ChunkStream <- MCChunkStream        messages over a byte stream
    RtmpLink                            client and server, message by message

    Bytes <- AnnexB <- Sps              bits, NAL units, parameter sets
    Bytes <- Aac, Amf0                  audio headers; commands and metadata
    Sps, Aac, FlvMuxer <- FlvTags       tags as bytes, their parser, their meaning
    FlvTags <- Recording                one sink of an ingest server
    Recording, Amf0 <- Ingest <- MCIngest   a publish session, end to end

    EngineProofs -> WireProofs -> SessionProofs
    FfiProofs   LinkProofs   HlsProofs   FanoutProofs   ChunkProofs

* **BoundedBuffer, FlvMuxer** have no variables: a buffer and a muxer are
  records, a method is an operator on them. `PushAll` is `push` applied to each
  item (the repeated eviction in closed form). Payload bytes are left out; what
  the code reads from them, a codec configuration in band, is the field
  `inband` of a packet.
* **Engine** has one action per call. Calls that touch no transport are atomic,
  as they are under the mutex. `tick` and `finish` are split at each packet:
  `call` names the running one, and no other action of the engine is enabled
  until it is released. A tick is `TickBegin` (maintain, drain and sort), then
  `TickHeaders` (metadata, sequence headers), `TickSend` per packet, and
  `TickEnd` (flush, harvest, tell and feed the outputs), or one of the failing
  actions, all of which end in `AbortTick`. `wire` logs the complete tags given
  to transports: a history variable, as are `epoch`, `issued`, `fails`,
  `uncounted`, `resume` and the `fed`/`told`/`finalized` parts of `outputs`.
* **Session** takes the engine's actions as the steps of its own: `step` says
  where the running `&mut self` method is. Steps that only continue an engine
  call are `EngineStep`; `Application` is the encoder threads and the app on
  the shared engine, enabled between any two engine calls. A backoff instant is
  `"armed"` until `BackoffElapses` makes it `"due"`.
* **Lifecycle** is the abstract specification: states and link, eight kinds of
  move. `Session` implements it with `core <- state, link <- muxer # None`;
  `FfiSession` takes its core session from it.
* **FfiSession** has one action per atomic access or mutex section of `start`,
  `retry`, `stop`, `Drop`, `run_worker` and `clear_handle`. `joining` is the
  thread mutex held across `join()`, `SessionFree` the session mutex. The core
  session moves as `Lifecycle` allows, without media.
* **HlsOutput** is one packet sink. A call is split at each storage operation
  (`WriteInit`, `WriteSegment`, `Prune`, `WritePlaylist`, `WriteEnd`), because
  players poll the files meanwhile and any of them may fail. Time is counted in
  `1/Second` seconds; the audio timescale is the sample rate, which need not have a
  whole number of ticks in a unit (44.1 kHz has none in a millisecond), and
  `AudioTicks` rounds down as the code does. The engine calls it from one
  thread, never again after an error.
* **Fanout** is the tee under the muxer. A call is one step; which sinks fail in
  it is arbitrary. `got` numbers the buffers each sink took whole.
* **ChunkStream** is a writer, any peer that keeps to the protocol, and
  `ChunkReader`. The wire is a queue of basic headers, message headers
  (with their extended timestamps) and
  payload bytes; the reader takes them one at a time (a payload chunk at once),
  so that it may be behind the writer by any amount. `Begin` and `Continue`
  interleave the streams as they like. A chunk that carries no timestamp field may
  repeat an extended timestamp, as the protocol has it, or not, as `frame_message`
  does: four bytes the reader takes for payload (section 4). `repeated` tells that this
  has happened, and the properties promise nothing from then on. The reader is the one both ends use; what
  its caller does with a message (acknowledge, then handle control) is part of
  `ReadData`.
* **RtmpLink** puts `RtmpTransport` and `PublishSession` on the two ends of a
  connection. `cpc` and `spc` say which read each is blocked in; a step reads one
  message and sends what the code sends before its next read. `dog` is the
  watchdog in quarters of its budget, `Tick` lets one pass. On a sound connection
  a ping is answered within a quarter, and what the server sent before a tick has
  arrived after it; that is the assumption under which `FailsForCause` holds,
  and with a budget of 12 seconds it means an answer within three.
* **Fmp4** builds boxes: records of type, size, the fields a player needs and the
  boxes inside. Its second half is a reader by ISO 14496-12, which finds boxes by
  type and samples by offsets and sizes; the properties of `HlsOutput` see the
  files through it only.
* **Bytes, AnnexB, Sps, Aac, Amf0** are the conversions as functions on sequences
  of bytes (`Amf0`: of cells laid out as bytes). `Sps` and `Amf0` read with a
  position that moves on, and end of input is a position of its own (`Eof`) or
  `None`, as the code's `Option`s.
* **FlvTags** adds bytes to `FlvMuxer` (instantiated as `M`, so that timestamps
  and codec headers are decided in one place): what `write_tag` writes, in its three
  writes; `FlvTagParser`, whose phases, buffer and current header are one record;
  `decode_tag`.
* **Recording** is `RecordingOutput` as a record and operators on it; `tape` is the
  file as a sequence of tags, `fuse` how many of them it has room for.
* **Ingest** is one session: a publisher (AMF0 commands, muxer, parser,
  `RtmpTransport::write` for any part of what the muxer wrote), the channel, and
  `PublishSession` before a `MultiSinkHandler` of two recordings. `given` is what
  varies between sessions and never changes in one. `sent` and `calls` are
  history variables: what went in, what the handler was given.
* **MCSession, MCFfiSession, MCHlsOutput, MCChunkStream, MCIngest** define the packet shapes and who calls what.

## 3. Runs

`Capacity`, `Tolerance` and clock steps are scaled down: a capacity of 2 or 3
with four pushed packets overflows, cuts and restores in every combination; a
tolerance of 1 with jitter of 1 and jumps of 2 lies on both sides of the test.
`MaxConn` = 2 or 3 gives a first connection and one or two resumptions (what
one connection inherits comes from its predecessor alone; `SessionLive` has two and
one transport error, and as only a packet without a configuration makes a tick fail
otherwise, no behaviour without such a packet is cut short), `MaxFail` = 1 or 2
transport errors put a failure at every point and a second one into the
recovery from the first. `MaxAttempts` = 2 tells counting, exhausting and
re-arming apart. In `Hls` a target of one second and steps of one or two half
seconds put a cut at any packet or none; five packets close up to two segments
before `finish`, which closes a third: a window of two is filled, listed, pruned and
moves on (the theorems are for windows of any size). An audio rate of 3 per two units
makes every odd time fall between two ticks. Three sinks and three writes let a primary, a relay and
a relay added late fail in any order. In `Chunks` a default chunk of 2 and lengths of 0, 1 and 3 put
messages below and above it, times are 0 and 1, of which 1 needs an extended
timestamp, and sizes of 1, 5 (above the maximum) and 0 are set
between any two chunks; three messages on two streams give one that is
interrupted, one that interrupts and one that inherits the header of either.
`Link` has `MAX_PENDING_MESSAGES` = 3, the least with which a sound negotiation
succeeds, and the real three probes in four quarters.

The sessions of `Ingest` are five groups. *Described*: parameter sets in
five encodings, written bit by bit by the standard (baseline; high with
cropping; 4:2:2 interlaced with the second picture order type; 4:4:4 with twelve
scaling lists, some complete, some ending early, some absent; monochrome), before
ADTS audio with a CRC. *Framed*: configurations out of band; start codes of three
and four bytes, doubled and trailing; a frame without NAL units; raw audio next to
ADTS. *Drifting*: clocks that go back by one or on by half the 32-bit range, from
this crate's publisher, whose timestamps stop at the top, and from one whose
timestamps wrap. *Refusing*: a first file with room for 0 to 6 tags. *Odd*:
acknowledgements that are due while the peer closes, an app that is not served.
Three packets fill the longest of these (a keyframe, an inter-frame, audio);
writes are whole or five bytes at most, which cuts every header, size and body;
two messages under way let one end be ahead of the other. `MaxTs` is 2^25 - 1
(TLC's integers have 32 bits themselves): what matters is that it lies
beyond the 24 bits of a tag's first timestamp field.

Deadlock is not checked, as every bounded history ends, except in `Ingest`, whose
server must always be able to come to an end (`Over`, a stutter, is what it does
then).

| Run | Question | Properties |
|---|---|---|
| SessionGop | video with its audio running late, failures anywhere, resync at any time | memory, accounting, order and no repetition, headers first, keyframe first, transport and state agree, budget, the abstract lifecycle |
| SessionClock | a clock that jumps and jitters, reset and a session started again, a recording attached at any time and retired at any packet | MediaMonotone, OutputsMirrorWire |
| SessionLive | a fair pump; configurations from the platform, at any time, also between the steps of a session method, never in band | TickSendsAfterHeaders, BrokenTransportDropped, ReconnectDecides, BufferDrains |
| FfiOneApp | one controlling thread, connects succeed | KeepsLifecycle, StopReturns, RearmHeeded |
| Hls | keyframes, inter-frames, raw and wrapped audio in any order, gaps and jumps of the clock, configurations at any time, one storage failure at any file | PlaylistServable, TracksAreInInit, SegmentsCarrySamples, TimelineFollowsClock, PlaylistMovesForward |
| Fanout | three sinks added at any time, any subset failing in any call | LiveSinksIdentical, RelayContained |
| Chunks | interleaved messages, all header formats, extended timestamps, chunk sizes that change, aborts, a window | InStep, DeliveredWhole, AckCurrent |
| Link | publish client against ingest server; the connection is reset or falls silent at any point | LivePublishing, PublishEndsOnce, FailsForCause, VanishedDetected, NobodyWaits |
| FfiRelaunch | connects fail, workers are relaunched, a second thread stops at any time | OneWorker, StateTruthful, LifecycleOrRevived |
| Ingest | one publish session of each kind above, writes cut anywhere, the connection lost at any point | PacketsSurvive, StreamDescribed, RecordingPlays, SessionAsAsked, EndsFinished, no deadlock |

`FfiRelaunch` has the overlapping workers: one that failed to connect may still be on
its way out while its successor runs, and `stop()` may overtake a launch.
`StateTruthful` and `LifecycleOrRevived` name what these do (`LateIdle`, `Revived`) and
deny everything else. Its one restriction is a single thread that starts and retries,
without which `OneWorker` is false. `KeepsLifecycle` denies the revival too, and
`StopReturns` and `RearmHeeded` the deadlock; these three hold for the one thread and the
connects of FfiOneApp only: section 4 says what happens without them.

Every property has a mutant: a plausible bug in a mapped definition, written
beside it as `...Mutant`, under which TLC finds the property violated.

**Fairness.** `Session!FairSpec` is weakly fair on the pump (the platform calls
`tick` in a loop, and `tick` never sleeps), on the return of a `finish` once
called, and on the passing of a backoff instant. It asks nothing of `start`,
`retry`, encoders or the network: connects may fail for ever. `FfiSession!FairSpec`
is weakly fair on each thread that is inside a call, and on each worker.
`RtmpLink!FairSpec` is weakly fair on the reading client, the server, `maintain`
(called in every tick of the session) and time; the read timeouts are part of
the first two (sockets get them in `connect_tcp` and `for_tcp`), and a reset or
silence is never forced.
`BufferDrains` excludes sessions that are idle, gave up, were finished or fell
to the failed shutdown of section 4, and, by `Starved`, buffers with a packet
that no connection accepts because nobody knows its configuration: every tick fails
on it, and the session re-dials without end and without backoff (section 4). That loop
is real; the property excepts it in so many words, and does not lean on the bound on
connections, at which dialling fails like any other.

## 4. What the code does otherwise than its documentation says

Two of these have a run in which TLC must find the documented property violated;
PROJECT.json quotes the lines.

| Run | What happens |
|---|---|
| FindDeadlock | `stop()` joins under the mutex the failing worker needs |
| FindTorn | a drain that times out inside a chunk starts again at a basic header: the reader is out of step for good |

The models show the others too, without a run of their own:

* a keyframe the connection is to resume from may be evicted during the outage:
  the connection starts on an inter-frame (`Engine!DetachTransport`;
  engine.rs:151-153): `ResumesOnKeyframe` carries the exception;
* audio that arrives before any video opens the HLS gate for inter-frames: a
  segment without a keyframe at its start (`HlsOutput!Refused`; hls/mod.rs:15-17);
* `Fanout::flush` hands a relay's error to the caller, who gives the tee up
  (`Fanout!Flush`; transport.rs:109-113);
* `pump` returns on a timeout, and on an answer it cannot send, without telling
  the handler that the publish has ended (`RtmpLink!ServerTimesOut`,
  `ServerPumps`, `Ingest!PumpTimesOut`; server.rs:93-100): `EndsFinished` speaks of
  sessions that end well;
* acknowledgements go out between messages only (`ChunkStream!ReadData`;
  mod.rs:750-753 "whenever the server's window fills up");
* the negotiation budget of the server is looked at once per command
  (`RtmpLink!ServerNegotiates`; server.rs:63-66);
* outputs get a batch before the configurations sniffed from it
  (`Engine!TickEnd`; sink.rs:29-32 "always before the first packet that needs it");
* a failed shutdown in `finish` leaves Connected without a transport
  (`Session!FinishReturns`; session.rs:186): `BufferDrains` carries the exception;
* a connect that fails at once leaves the handle of a dead worker, and `start()`
  says "already running" (`FfiSession!StoreHandle`, allowed with `ConnectMayFail =
  TRUE`; lib.rs:623-625);
* `stop()` without a worker does not stop the session (`FfiSession`; lib.rs:602-604);
* a video track that comes after an audio-only init segment is dropped, but
  audio no longer cuts (`HlsOutput!Cuts`; hls/mod.rs:433): the segment grows
  until `finish`;
* `finish` of an HLS output without a sample lists an init segment that does not
  exist, and one whose last close fails writes no end marker (`HlsOutput!Finish`);
* inter-frames before the first keyframe go out without a sequence header
  (`FlvMuxer!NeedsSequence`; mux.rs:261 "Must precede the first video packet"), and so
  reach an ingest handler before `configure` and a recording before its track is
  described (`Ingest!Headless`; server.rs:91-94): `StreamDescribed` and
  `RecordingPlays` except these frames and no others;
* a packet that is buffered before its configuration is known, and never gets one, makes
  every tick fail and the session re-dial for ever without backoff
  (`Engine!TickNoConfig`; session.rs:440): `BufferDrains` excepts it (`Starved`);
* a peer that repeats an extended timestamp behind a format 3 header, as the protocol has
  it, puts the reader out of step: it reads that field behind formats 0 to 2 only
  (`ChunkStream!Repeats`; rtmp/mod.rs:271-273), as its own writer writes it
  (1097-1104). Drop `~repeated` from `InStep` in run Chunks to see it;
* a sequence header is stamped with the other track's time when that track is
  ahead, and its own track goes back behind it (`FlvMuxer!HeaderTs`; mux.rs:245-247);
* attaching an output marks the configurations as told to all outputs
  (`Engine!AttachOutput`; sink.rs:29 "Called whenever ... changes");
* `finish` drops the packets behind one it cannot mux (`Engine!FinishFails`;
  engine.rs:603), and a stream finished during an outage never finalises its
  outputs (`Session!FinishDisconnected`; sink.rs:40);
* the error of the tick that resumes a stream does not re-dial
  (`Session!ResumeReturns`; session.rs:4): `BrokenTransportDropped` carries the
  exception;
* two concurrent `start()` run two workers: run FfiRelaunch with `MayCall <- AllCalls` and
  OneWorker to see them; a launch that `stop()` has overtaken connects a session that is
  finished (`FfiSession!Revived`, the exception in `LifecycleOrRevived`), and the late
  Idle of a failed worker overwrites the Live of its successor (`LateIdle`, the exception
  in `StateTruthful`);
* `configure_codecs` called between the failure of a tick and the disconnect writes
  sequence headers to the transport that has failed (engine.rs:419-432, session.rs:348).
  It is part of run SessionLive; `BrokenTransportDropped` speaks of metadata and media,
  which the session can hold back, and not of these;
* `parse_sps_dimensions` reads six scaling-list flags where the standard has eight
  (`Sps!SkipScalingMatrix`; h264.rs:307), parses a parameter set with its emulation
  prevention bytes, and subtracts the cropping unchecked. The encodings of `Ingest`
  have lists in 4:4:4 only, where the count is right;
* an `AudioSpecificConfig` is written with the object type less one and read with one
  added (`Aac!BuildAsc`, `ParseAsc`; aac.rs:65-90): the two agree, and rate and channels
  are right, but AAC-LC goes out as object type 1, where ISO 14496-3 has 2;
* an `mp4a` sample entry holds a rate of 65536 Hz or more without its upper bits
  (`Fmp4!Mp4a`; mp4.rs:224);
* the HLS clock keeps one mark for both tracks (`HlsOutput`; hls/mod.rs:199-203 "the same
  discipline as the FLV muxer", which keeps one per track);
* a segment's last video frame is taken to last 33 ms, and the grid never goes below
  what was given out: a stream faster than 30 frames per second falls behind its clock
  by a little with every segment (hls/mod.rs:508-521, against the comment at 265-268),
  and audio that is missing within a segment takes no time. `TimelineFollowsClock` is
  stated within what these allow;
* a recording logs what `codecs` fails with and goes on (sink.rs:99-113). The model's file,
  once full, stays full; after a write that failed once only, a torn tag would stay in it;
* a rebase moves the origin of both tracks (mux.rs:192): in a recording of a stream whose
  32-bit clock wraps, packets of the other track that are still before the wrap jump
  ahead. `RecordingPlays` holds all the same: they do not go back.

## 5. What is proved

All proofs hold for every value of the constants under the assumptions named in
the modules: a positive capacity, a cut threshold within it (`LatencyProfile`),
`None` and `Never` apart from what they stand beside, a positive budget.
`max_attempts: None` (never give up) and `Some(0)` are outside that range.
Some theorems have a hypothesis on top, which restricts who calls what:

| Hypothesis | Meaning | Runs whose constants satisfy it | Without it |
|---|---|---|---|
| `NoRestart` | `start` is called once | SessionGop | attempts of the first life count against the second |
| `NoReset` | `reset` is not called under a session | SessionGop | the session is connected, the engine has no transport |
| `MonotoneClock` | each encoder's DTS goes forward | SessionGop | the batch is sorted by DTS, and the order of capture is lost |
| `OneController` | one thread starts and retries | FfiOneApp, FfiRelaunch | two concurrent `start()` run two workers |
| `Roomy` | `MAX_PENDING_MESSAGES` >= 3, two probes or more (the code: 64 and 3) | Link | the negotiation itself exceeds the limit |
| `~Resumes` | a reader that times out is not called again (the server; the client while it connects) | Chunks | run FindTorn (section 4) |

* **Engine, its memory** (`EngineProofs`). The inductive invariant is `BufferInv /\
  MuxInv`. `MuxInv` types what the muxer and the caches hold and says that a
  running call has a muxer. `BufferInv` types the buffer and the batch and
  carries the two facts that need each other: `Len(queue) + unsent <= Capacity`
  and the accounting equation. Neither the budget nor the equation is inductive
  alone: `restore_front` checks no capacity, so the bound must count what a
  running call may still hand back, and it must know that nothing is pushed
  while a call runs. The lemmas underneath: pushing and cutting keep the budget, and sorting a batch neither loses nor adds a packet
  (`SortedByDtsProperties`, by a bijection between ranks and positions).
  From them: `EngineTypeCorrect`, `EngineBoundedMemory`, `EngineAccounting`.
* **Engine, its wire** (`WireProofs`). `WireEffect` sorts the steps by what they do
  to the wire: nothing, headers, or one packet behind the headers it needs. One
  invariant per property rests on it. *Headers* (`HeaderInv`): what the muxer takes
  for written is on the wire of this connection, and while a tick sends, nothing
  the engine holds is still to come; the property of the sequence headers then
  keeps itself. *Clocks* (`ClockInv`): the muxer's mark of a track, and the snapshot
  kept between connections, are no less than anything of the current series on the
  wire. *Outputs* (`MirrorInv`): in mid-call, what an output was fed and what the
  batch has sent so far are together the wire from the position at which the output
  was attached, no packet of it missing at either end. *Order* (`OrderInv`): wire,
  batch and queue are one ascending sequence per track, with the queue empty while a
  call has its batch in hand, because pushes wait for the mutex; it must be stated of
  the batch sorted by DTS, hence `MonotoneClock`. *Keyframes* (`KeyInv`): until a
  resumed connection has video, either the gate is shut or the first video to come is
  a keyframe, through sorting, handing back and cutting again.
  From them: `EngineTickSendsAfterHeaders`, `EngineSequenceBeforeMedia`,
  `EngineMediaMonotone`, `EngineOutputsMirrorWire`, `EngineDecodeOrder`,
  `EngineResumesOnKeyframe`.
* **Session** (`SessionProofs`). `SessionDrivesEngine`: every step of the
  session is an engine step or leaves the engine alone, so the theorems above
  hold in every session (`SessionBoundedMemory` and its siblings). `SessionInvariant`
  relates `step`, `call` and `state` (which engine call runs under which session
  method). With it: `SessionTypeCorrect` (with `ReconnectsInv`: reconnects are fewer
  than the connections made, which only grow), `SessionImplementsLifecycle` (the
  refinement), `SessionBackoffBudget`, `SessionTransportMatchesState`, by
  `LinkStep` (where the muxer appears and disappears) and `FailsGrow`, and
  `SessionBrokenTransportDropped` (`BrokenInv`: from the failing step on, the session
  method that is running leads to the disconnect; other threads may push, cut and
  configure meanwhile).
* **FFI object** (`FfiProofs`). The invariant `OwnedInv` accounts for each worker:
  from its spawn to its last word somebody holds its handle, be it the field, the
  call that is about to store it or the call that joins it, and whoever could spawn
  another one has looked for that handle first. `FfiOneWorker` follows for any number of
  threads that stop. `TruthInv` says, at each point of `run_worker`, what the worker's
  next report will make of the state, with the reports of failed predecessors coming in
  at any time (`FfiStateTruthful`). `LifeInv` adds that a session
  which no worker drives is `Settled`: never connected, or `stop` stands and it is finished
  or failed to finish; so that is all a new worker can find (`FfiLifecycleOrRevived`). Connects may fail in all three.
* **RTMP link** (`LinkProofs`). The negotiation follows a script: `ClientScript` and
  `ServerScript` list what each end says. On a connection that is up, the messages
  under way in a direction are a stretch of its script, and where each end stands
  follows from how much of it is said and consumed (`Negotiated`, `Windowed`); this is
  inductive where the states of the ends alone are not. After it, `Coupled` says what
  may still be under way, `EndInv` counts media and ends, `DogInv` says that on a sound
  connection a ping that is out, or its answer, is under way, and for less than a
  quarter. `LinkLivePublishing` and `LinkPublishEndsOnce` follow without hypotheses,
  `LinkFailsForCause` under `Roomy`.
* **Chunk streams** (`ChunkProofs`). The units on the wire do not tell what the reader
  will take them for: that depends on its state when it gets there. So the invariant
  `ChunkInv`, which holds until an extended timestamp is repeated, foretells it: there is a course (`OnCourse`), a sequence of readers from the
  one that is there, each a step of `ReadBasic`, `ReadHead` or `ReadData` after the one
  before, through all that is written, at whose end the reader knows what the writer takes
  it to know (`CaughtUp`: the last header of each stream, what it has of the message under
  way, a chunk size that cuts alike, every finished message returned). The reader
  steps along its course; the writer makes it longer by the units of one chunk
  (`HeaderLeads`, `BodyRead`), and what is read before them stays as it was (`LeadsKept`).
  The lemmas underneath: times are recovered from differences modulo `TsMod`
  (`TimeRecovered`), headers from what they leave out (`HeaderMeans`), a chunk is taken as
  it was cut even if the reader has clamped the size (`ChunkTaken`, `SameSize`). From
  it, under `~Resumes`, for any number of messages: `ChunkInStep`,
  `ChunkDeliveredWhole`, `ChunkAckCurrent`.
* **HLS** (`HlsProofs`). `StepShape` reduces a step to what it does to window and
  playlist. `WindowInv`: the window is numbered without gaps, stored, and at most one
  above its size; `ListInv`: the last playlist starts where the window does, or at the
  one segment removed since; `EndInv`: only `finish` closes a segment without a sample
  in hand, so nothing follows the end marker. From them `HlsPlaylistServable` and
  `HlsPlaylistMovesForward`. `HlsTracksAreInInit` has two parts: what waits is of tracks
  that are configured and in the init segment once it is written (`OpenInv`), and
  what the reader of `Fmp4` finds in the files: `SegmentTracks` (a track of a segment is
  one of its fragments) and `InitFileTracks` (the init segment describes and extends
  what it was written for), by lemmas on boxes (`TheOnlyBox`, `MoovKids`, `TrakFound`).
  `HlsSegmentsCarrySamples` rests on `SegmentRead`: from any media segment, of any
  fragments, a player reads back exactly their samples (`ReadAs`): every run of a fragment
  starts behind the runs written before it, so its offsets and sizes cut the payloads out
  of the `mdat` as they were put in. Sums and joined lists of any length are
  recursive functions (`Total`) or the library's `FlattenSeq`; their laws (`TotalIs`,
  `FlattenIs`, `FlattenAppend`, `FlattenTail`) are proved by an induction stated over
  sets (`Induction`, from the well-founded order of `Nat`). On top of it `ShownStep` says
  what a player gains or loses with each file, `AcceptInv` that normalised times never
  go back, and `CarryInv` that each accepted sample has its place: gone with a removed
  segment, shown, or waiting. `HlsTimelineFollowsClock` adds `RowInv` (the shown samples
  of a track stand in a row that ends by the grid), `ClockInv` (`Punctual`: each is late by
  no more than the durations guessed; `NotAhead`: nor is the grid ahead of the last
  sample by more) and `ScaleIs` (the timescale read from the init segment is the one the
  samples are written in). Ticks are rounded down (`AudioTicks`), so lateness is
  bounded in units scaled by the timescale: `Scaled` and `Quotient` say what a floor loses,
  less than a tick, at any sample rate. No hypothesis beyond the constants' assumptions is used.
* **Fanout** (`FanoutProofs`). `FanoutInv` adds to `LiveSinksIdentical` that a
  sink was added in the past and that the primary is never retired: then a live
  sink is torn only if it is the primary, whose error has stopped the caller.
  `FanoutLiveSinksIdentical`, `FanoutRelayContained`. That a shutdown reaches every sink is
  the one assignment of `Shutdown` and no property.

**Model-checked only.** Liveness, and what rests on ENABLED, is out of reach of the
prover. `Ingest` and the modules under it recurse over data with RECURSIVE operators,
which keeps them from the prover: `PacketsSurvive`, `StreamDescribed`, `RecordingPlays`,
`SessionAsAsked` and `EndsFinished` are checked in run Ingest only. `KeepsLifecycle`, which
needs FfiOneApp's single thread, is checked there; its general form is proved. The library's induction
theorems take an operator as a parameter, which no installed prover instantiates; where
a proof needs induction over data it is stated over a set of numbers, as in `HlsProofs`.

## 6. Plan

1. *(done)* buffer, muxer, engine, session, lifecycle, FFI object; proofs of
   memory, accounting, refinement, budget, types.
2. *(done)* `Fanout` with its proofs; `HlsOutput`; `ChunkStream`; `RtmpLink`.
3. *(done)* `Ingest`: commands, media and handlers of a whole publish session;
   `FlvTags`: the tag parser between muxer and transport over arbitrary cuts;
   `Recording`; the conversions (`AnnexB`, `Sps`, `Aac`, `Amf0`); `Fmp4` under
   `HlsOutput`.
4. *(done)* proofs: the wire and the outputs of `Engine`, the broken transport of
   `Session`, `FfiSession`, `RtmpLink`, `ChunkStream`, and of `HlsOutput` window, playlist,
   tracks, samples and timeline.
5. Refinements: `Fanout` under `Engine`'s transport; `ChunkStream` as a FIFO of
   messages, which `RtmpLink` and `Ingest` take it for; `HlsOutput` behind a
   `SinkHandler`, in place of one of `Ingest`'s recordings.

## 7. Not modelled

The handshake and SHA-256 are a straight-line exchange whose content is digests.
`Telemetry` (a ring of samples for display, counters, a global log level) and
`Clock` are read by nothing in the streaming path. The arithmetic of the backoff
delay only decides how long `"armed"` lasts. The FFI record conversions, the
bindings generator, examples and fuzz drivers keep no state of their own. In what
is modelled, these are left out: callbacks that call back into the object from the
worker thread, poisoned mutexes, `MediaKind`s beyond video and audio, timestamps
beyond 64 (arithmetic) or 32 bits (the wire field saturates), `push_all` with more
than two packets, writes to a socket that block or time out, the accept loop of
the ingest listener, and the metadata beyond the picture size.
