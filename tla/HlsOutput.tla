----------------------------- MODULE HlsOutput ------------------------------
(***************************************************************************)
(* The HLS segmenter of src/core/src/hls/mod.rs: a PacketSink that cuts    *)
(* the packets it is fed into segments and keeps, in storage that players  *)
(* poll, an init segment, a window of media segments and the playlist.     *)
(*                                                                         *)
(* A call of packet or finish is split at each storage operation, where    *)
(* players can look and where a crash would leave the files: `pc` says how *)
(* far the running call is.  Time is in units of 1/Second of a second.     *)
(* The video timescale is a multiple of the unit (90 ticks per ms) and is  *)
(* the unit itself here; the audio timescale is the track's sample rate,   *)
(* which need not be a whole number of ticks per unit (44.1 kHz and ms).   *)
(* The files are those of Fmp4; a payload is a string of its number on its  *)
(* track, so that a player's samples tell where they come from.            *)
(***************************************************************************)
EXTENDS Fmp4

CONSTANTS
  Video, Audio,  \* the parameters of the tracks: VideoTrack, AudioTrack
  Second,        \* time units in a second
  Target,        \* HlsConfig.target_duration_secs
  WindowSize,    \* HlsConfig.window_size
  Tolerance,     \* REORDER_TOLERANCE_MS
  VideoFrame,    \* DEFAULT_VIDEO_FRAME_MS
  FrameSamples,  \* AAC_FRAME_SAMPLES
  Shapes,        \* the packets that may arrive: kind, key, inband, the
                 \* composition offset and the size of the payload
  Steps,         \* how far the capture clock may move between packets
  MaxPackets,    \* bound: packets fed
  MaxFail        \* bound: failures of the storage

ASSUME TimeAssumption ==
  /\ {Second, FrameSamples, VideoFrame} \subseteq Nat \ {0}
  /\ {Target, Tolerance, MaxPackets, MaxFail} \subseteq Nat
  /\ Steps \subseteq Int
ASSUME WindowAssumption == WindowSize \in Nat
ASSUME ShapesAssumption ==
  Shapes \subseteq [kind : {"video", "audio"}, key : BOOLEAN, inband : BOOLEAN,
                    cts : Int, size : Nat]
ASSUME TracksAssumption == Video # None /\ Audio # None
ASSUME RateAssumption == Audio.rate \in Nat \ {0}

Kinds == {"video", "audio"}

\* PendingSample, with the track it waits for.
Sample == [kind : Kinds, dts : Int, cts : Int, sync : BOOLEAN, payload : Seq(Nat)]

ASSUME NoneAssumption == None \notin Int /\ None \notin Sample

VARIABLES
  config,    \* the tracks whose codec configuration is known (avcc, audio)
  init,      \* init_written with init_has_video/_audio: None or a set of tracks
  gate,      \* saw_video and started
  timebase,  \* origin and last_dts
  open,      \* the open segment: video and audio samples, seg_start
  grid,      \* video_next_tick and audio_next_tick
  rolled,    \* sequence, window and max_segment_secs (in time units)
  finished,
  arriving,  \* the sample of the running packet call, None outside one
  pc,        \* "idle", "close", "prune", "end", or "failed" for good
  files,     \* storage: init segment, media segments, playlist
  clock,     \* DTS of the last packet fed
  fed,       \* packets fed so far
  accepted,  \* per track, the samples taken so far (history)
  fails      \* storage failures so far

vars == <<config, init, gate, timebase, open, grid, rolled, finished, arriving,
          pc, files, clock, fed, accepted, fails>>

Larger(a, b) == IF a >= b THEN a ELSE b

Init ==
  /\ config = {} /\ init = None
  /\ gate = [sawVideo |-> FALSE, started |-> FALSE]
  /\ timebase = [origin |-> None, last |-> None]
  /\ open = [video |-> <<>>, audio |-> <<>>, start |-> None]
  /\ grid = [video |-> 0, audio |-> 0]
  /\ rolled = [sequence |-> 0, window |-> <<>>, longest |-> 0]
  /\ finished = FALSE /\ arriving = None /\ pc = "idle"
  /\ files = [init |-> None, segments |-> {}, playlist |-> None]
  /\ clock = 0 /\ fed = 0 /\ fails = 0
  /\ accepted = [video |-> <<>>, audio |-> <<>>]

-----------------------------------------------------------------------------
(***************************************************************************)
(* Feeding.                                                                *)
(***************************************************************************)

\* Timebase::normalize: a slip within the tolerance is clamped, a longer one
\* moves the origin; the normalised time is the new `last`.
Normalize(dts) ==
  LET origin == IF timebase.origin = None THEN dts ELSE timebase.origin
      ts == dts - origin
  IN  IF timebase.last = None \/ ts >= timebase.last
      THEN [origin |-> origin, last |-> ts]
      ELSE IF timebase.last - ts > Tolerance
      THEN [origin |-> dts - Larger(timebase.last, 0), last |-> Larger(timebase.last, 0)]
      ELSE [origin |-> origin, last |-> timebase.last]

HasSamples == open.video # <<>> \/ open.audio # <<>>

\* span_ms: the last sample of each track is its latest.
Span ==
  IF open.start = None THEN 0
  ELSE LET ends == {open.start}
                     \cup {Last(open[t]).dts : t \in {k \in Kinds : open[k] # <<>>}}
       IN  Max(ends) - open.start

LongEnough == HasSamples /\ Span >= Target * Second

Appended(seg, s) ==
  [seg EXCEPT ![s.kind] = Append(@, s),
              !.start = IF @ = None THEN s.dts ELSE @]

\* A keyframe closes a segment that is long enough; without video, any packet.
Cuts(p) ==
  /\ LongEnough
  /\ IF p.kind = "video" THEN p.key ELSE ~gate.sawVideo

\* Mutant: a track that is not in the init segment is let in.
RefusedMutant(p) ==
  \/ p.kind \notin config'
  \/ ~gate.started /\ (IF p.kind = "video" THEN ~p.key ELSE gate.sawVideo)

\* video_packet and audio_packet drop a packet without a configuration, of a
\* track that came too late for the init segment, or before the first keyframe.
Refused(p) ==
  \/ p.kind \notin config'
  \/ init # None /\ p.kind \notin init
  \/ ~gate.started /\ (IF p.kind = "video" THEN ~p.key ELSE gate.sawVideo)

\* Mutant: packets are taken after the end.
AcceptsCallsMutant == pc = "idle"

\* Once finished, packet and finish return at once.
AcceptsCalls == pc = "idle" /\ ~finished

\* packet.
Packet(p, dts) ==
  /\ AcceptsCalls /\ fed < MaxPackets
  /\ fed' = fed + 1 /\ clock' = dts
  /\ config' = config \cup {k \in {p.kind} : p.inband}
  /\ gate' = [sawVideo |-> gate.sawVideo \/ p.kind = "video",
              started |-> gate.started \/ ~Refused(p)]
  /\ IF Refused(p) THEN UNCHANGED <<timebase, open, arriving, pc, accepted>>
     ELSE LET sample == [kind |-> p.kind, dts |-> Normalize(dts).last, cts |-> p.cts,
                         sync |-> p.kind = "audio" \/ p.key,
                         payload |-> [i \in 1..p.size |-> Len(accepted[p.kind]) + 1]]
          IN  /\ timebase' = Normalize(dts)
              /\ accepted' = [accepted EXCEPT ![p.kind] = Append(@, sample)]
              /\ IF Cuts(p)
                 THEN pc' = "close" /\ arriving' = sample /\ UNCHANGED open
                 ELSE open' = Appended(open, sample) /\ UNCHANGED <<arriving, pc>>
  /\ UNCHANGED <<init, grid, rolled, finished, files, fails>>

\* codecs: what is known already is kept.
Codecs(tracks) ==
  /\ pc \in {"idle", "failed"} /\ ~(tracks \subseteq config)
  /\ config' = config \cup tracks
  /\ UNCHANGED <<init, gate, timebase, open, grid, rolled, finished, arriving,
                 pc, files, clock, fed, accepted, fails>>

\* finish: close_segment, which does nothing for an empty segment, then the
\* playlist with its end marker.
Finish ==
  /\ AcceptsCalls
  /\ finished' = TRUE
  /\ pc' = IF HasSamples THEN "close" ELSE "end"
  /\ UNCHANGED <<config, init, gate, timebase, open, grid, rolled, arriving,
                 files, clock, fed, accepted, fails>>

-----------------------------------------------------------------------------
(***************************************************************************)
(* close_segment and write_playlist.                                       *)
(***************************************************************************)

\* Mutant: each segment starts where its first sample says.
BaseMutant(next, ticks) == ticks

\* A fragment continues the tick grid and is never below its first sample.
Base(next, ticks) == Larger(next, ticks)

\* The last frame of a segment is taken to last one default frame.
VideoFragment ==
  LET s == open.video
      duration(k) == IF k = Len(s) THEN VideoFrame ELSE Larger(s[k + 1].dts - s[k].dts, 0)
  IN  [id |-> VideoTrackId,
       base |-> Base(grid.video, Larger(s[1].dts, 0)),
       samples |-> [k \in DOMAIN s |->
                      [duration |-> duration(k), payload |-> s[k].payload, offset |-> s[k].cts,
                       flags |-> SampleFlags(IF s[k].sync THEN 2 ELSE 1, s[k].sync)]]]

\* audio_ticks: the last whole tick of the audio timescale by a time.
AudioTicks(ms) == (Larger(ms, 0) * Audio.rate) \div Second

AudioFragment ==
  LET s == open.audio
  IN  [id |-> AudioTrackId,
       base |-> Base(grid.audio, AudioTicks(s[1].dts)),
       samples |-> [k \in DOMAIN s |->
                      [duration |-> FrameSamples, payload |-> s[k].payload, offset |-> 0,
                       flags |-> SampleFlags(2, TRUE)]]]

\* The tick after a fragment's last sample.
NextTick(fragment) ==
  fragment.base + Total([k \in DOMAIN fragment.samples |-> fragment.samples[k].duration])

Segment ==
  [name |-> rolled.sequence,
   file |-> MediaSegment(rolled.sequence,
              (IF open.video = <<>> THEN <<>> ELSE <<VideoFragment>>)
                \o (IF open.audio = <<>> THEN <<>> ELSE <<AudioFragment>>))]

\* What EXTINF announces: from the first sample to the end of the last one.
SegmentDuration ==
  LET videoEnd == IF open.video = <<>> THEN open.start
                  ELSE Last(open.video).dts + VideoFrame
      audioEnd == IF open.audio = <<>> THEN open.start
                  ELSE Last(open.audio).dts + (FrameSamples * Second) \div Audio.rate
  IN  Larger(videoEnd, audioEnd) - open.start

\* The `?` after a failed write: packet's error retires the output, finish's is
\* logged and leaves it finished.  Either way nothing more is written.
StorageFails ==
  /\ fails < MaxFail
  /\ fails' = fails + 1
  /\ pc' = "failed"
  /\ UNCHANGED files

\* The init segment for the tracks known.
InitFile(tracks) ==
  InitSegment(IF "video" \in tracks THEN Video ELSE None,
              IF "audio" \in tracks THEN Audio ELSE None, Second)

\* ensure_init writes the tracks known by now.  Its error for no configuration
\* cannot occur: there are samples.
WriteInit ==
  /\ pc = "close" /\ init = None
  /\ \/ /\ init' = config
        /\ files' = [files EXCEPT !.init = InitFile(config)]
        /\ UNCHANGED <<pc, fails>>
     \/ StorageFails /\ UNCHANGED init
  /\ UNCHANGED <<config, gate, timebase, open, grid, rolled, finished, arriving,
                 clock, fed, accepted>>

\* The samples are taken and the grid advanced before the segment is stored;
\* the sequence number and the window only after.
WriteSegment ==
  /\ pc = "close" /\ init # None
  /\ grid' = [video |-> IF open.video = <<>> THEN grid.video ELSE NextTick(VideoFragment),
              audio |-> IF open.audio = <<>> THEN grid.audio ELSE NextTick(AudioFragment)]
  /\ \/ /\ files' = [files EXCEPT !.segments = @ \cup {Segment}]
        /\ rolled' = [sequence |-> rolled.sequence + 1,
                      window |-> Append(rolled.window, [name |-> Segment.name,
                                                        duration |-> SegmentDuration]),
                      longest |-> Larger(rolled.longest, SegmentDuration)]
        /\ open' = [video |-> <<>>, audio |-> <<>>, start |-> None]
        /\ pc' = "prune"
        /\ UNCHANGED fails
     \/ /\ StorageFails
        /\ open' = [open EXCEPT !.video = <<>>, !.audio = <<>>]
        /\ UNCHANGED rolled
  /\ UNCHANGED <<config, init, gate, timebase, finished, arriving, clock, fed, accepted>>

WindowFull == Len(rolled.window) > Larger(WindowSize, 1)

\* Mutant: the newest segment is deleted.
PrunedMutant == Last(rolled.window).name

\* The segment that leaves the window.
Pruned == Head(rolled.window).name

\* A file that cannot be removed is logged and left behind.
Prune ==
  /\ pc = "prune" /\ WindowFull
  /\ rolled' = [rolled EXCEPT !.window = Tail(@)]
  /\ \/ /\ files' = [files EXCEPT !.segments = {s \in @ : s.name # Pruned}]
        /\ UNCHANGED fails
     \/ fails < MaxFail /\ fails' = fails + 1 /\ UNCHANGED files
  /\ UNCHANGED <<config, init, gate, timebase, open, grid, finished, arriving,
                 pc, clock, fed, accepted>>

SecondsUp(d) == (d + Second - 1) \div Second

Playlist(ended) ==
  [target |-> Larger(Target, Larger(SecondsUp(rolled.longest), 1)),
   first |-> rolled.sequence - Len(rolled.window),
   window |-> rolled.window,
   ended |-> ended]

\* The last act of close_segment; then packet adds its sample to the segment
\* just opened, and finish goes on to the end marker.
WritePlaylist ==
  /\ pc = "prune" /\ ~WindowFull
  /\ \/ /\ files' = [files EXCEPT !.playlist = Playlist(FALSE)]
        /\ pc' = IF arriving = None THEN "end" ELSE "idle"
        /\ open' = IF arriving = None THEN open ELSE Appended(open, arriving)
        /\ arriving' = None
        /\ UNCHANGED fails
     \/ StorageFails /\ UNCHANGED <<open, arriving>>
  /\ UNCHANGED <<config, init, gate, timebase, grid, rolled, finished, clock, fed, accepted>>

WriteEnd ==
  /\ pc = "end"
  /\ \/ /\ files' = [files EXCEPT !.playlist = Playlist(TRUE)]
        /\ pc' = "idle"
        /\ UNCHANGED fails
     \/ StorageFails
  /\ UNCHANGED <<config, init, gate, timebase, open, grid, rolled, finished,
                 arriving, clock, fed, accepted>>

Next ==
  \/ \E p \in Shapes, d \in Steps : Packet(p, clock + d)
  \/ \E tracks \in SUBSET Kinds : Codecs(tracks)
  \/ Finish
  \/ WriteInit \/ WriteSegment \/ Prune \/ WritePlaylist \/ WriteEnd

Spec == Init /\ [][Next]_vars

-----------------------------------------------------------------------------
(***************************************************************************)
(* Properties.                                                             *)
(***************************************************************************)
\* What a player that reads the playlist at any moment finds: consecutive
\* segments, numbered from EXT-X-MEDIA-SEQUENCE, all of them stored; but for the
\* oldest, while the call that deleted it has not replaced the playlist yet, or
\* for good when it failed to.
PlaylistServable ==
  files.playlist # None =>
    LET list == files.playlist.window
        stored == {s.name : s \in files.segments}
    IN  /\ \A i \in 1..Len(list) : list[i].name = files.playlist.first + i - 1
        /\ \A i \in 2..Len(list) : list[i].name \in stored
        /\ pc \notin {"prune", "failed"} /\ list # <<>> => list[1].name \in stored

TrackId(t) == IF t = "video" THEN VideoTrackId ELSE AudioTrackId

\* A segment holds no track that the init segment does not describe, whenever
\* configurations become known: a player could not decode it.
TracksAreInInit ==
  \A s \in files.segments : \A t \in Kinds :
    HasTrack(s.file, TrackId(t)) => TrackId(t) \in TracksOf(files.init)

\* The segment of a name, and what a player reads of a track in the window.
Stored(name) == CHOOSE s \in files.segments : s.name = name
Shown(t) ==
  FlattenSeq([i \in DOMAIN rolled.window |->
                SamplesOf(Stored(rolled.window[i].name).file, TrackId(t))])

Waiting(t) ==
  open[t] \o (IF arriving # None /\ arriving.kind = t THEN <<arriving>> ELSE <<>>)

\* What a player demuxes from the window, followed by what waits for the next
\* segment, is what was accepted, from some sample on: nothing is lost, doubled
\* or out of order, and data offsets, sizes, sync flags and composition offsets
\* lead to the right bytes.  A storage error loses the segment it concerns.
SegmentsCarrySamples ==
  pc # "failed" => \A t \in Kinds :
    LET shown == Shown(t)
        gone == Len(accepted[t]) - Len(shown) - Len(Waiting(t))
    IN  /\ gone >= 0
        /\ \A k \in DOMAIN shown :
             LET from == accepted[t][gone + k]
             IN  /\ shown[k].data = from.payload
                 /\ shown[k].sync = from.sync
                 /\ shown[k].offset = IF t = "video" THEN from.cts ELSE 0
        /\ IsSuffix(Waiting(t), accepted[t])

\* The tracks' clocks, as the init segment's timescales have them: samples do
\* not overlap, although each segment's end is a guess about its last frame and
\* timestamps may jump; none is decoded a whole tick before its timestamp (but
\* for audio behind a gap in its segment, which takes no time), and each after it
\* by no more than the guesses made so far: one default frame for a segment's
\* video, one nominal frame for a sample of audio.
TimelineFollowsClock ==
  \A t \in Kinds :
    LET shown == Shown(t)
        gone == Len(accepted[t]) - Len(shown) - Len(Waiting(t))
        scale == TimescaleOf(files.init, TrackId(t))
        guessed(k) == IF t = "video" THEN VideoFrame * rolled.sequence * scale
                      ELSE FrameSamples * (gone + k - 1) * Second
    IN  /\ \A k \in 1..Len(shown) - 1 : shown[k].time + shown[k].duration <= shown[k + 1].time
        /\ pc # "failed" => \A k \in DOMAIN shown : (t = "video" \/ shown[k].first) =>
             LET stamp == accepted[t][gone + k].dts * scale
             IN  shown[k].time * Second \in stamp - Second + 1..stamp + guessed(k)

\* What players have seen is never taken back: the window only moves forward,
\* and a playlist that has ended is the last one.
PlaylistMovesForward ==
  [][files.playlist # None /\ files'.playlist # files.playlist =>
       /\ ~files.playlist.ended
       /\ files.playlist.first <= files'.playlist.first
       /\ files.playlist.first + Len(files.playlist.window)
            <= files'.playlist.first + Len(files'.playlist.window)]_vars
=============================================================================
