-------------------------------- MODULE Fmp4 --------------------------------
(***************************************************************************)
(* The fragmented MP4 writer of src/core/src/hls/mp4.rs, and the reader    *)
(* that a player is.  A box is a record of its type, its size in bytes,    *)
(* the fields that a player needs (`val`) and the boxes inside it; fields  *)
(* that are constant, reserved or never read only count in the size.       *)
(* Tracks, fragments and samples are records with the code's fields.       *)
(***************************************************************************)
EXTENDS Integers, SequencesExt

CONSTANT None   \* absence of an optional value

VideoTrackId == 1
AudioTrackId == 2

Total(ns) ==
  LET sum[k \in 0..Len(ns)] == IF k = 0 THEN 0 ELSE sum[k - 1] + ns[k]
  IN  sum[Len(ns)]

\* mp4_box and full_box: `own` bytes of fields, then the boxes inside.
Box(tag, own, val, kids) ==
  [tag |-> tag, val |-> val, kids |-> kids,
   size |-> 8 + own + Total([k \in DOMAIN kids |-> kids[k].size])]
FullBox(tag, own, val, kids) == Box(tag, 4 + own, val, kids)

-----------------------------------------------------------------------------
(***************************************************************************)
(* The initialization segment.                                             *)
(***************************************************************************)
Ftyp == Box("ftyp", 20, None, <<>>)
Styp == Box("styp", 16, None, <<>>)
Mvhd(next) == FullBox("mvhd", 96, next, <<>>)
Tkhd(id, width, height) ==
  FullBox("tkhd", 80, [id |-> id, width |-> width, height |-> height], <<>>)
Mdhd(timescale) == FullBox("mdhd", 20, timescale, <<>>)
Hdlr(handler) == FullBox("hdlr", 21, handler, <<>>)
Dinf == Box("dinf", 0, None, <<FullBox("dref", 4, 1, <<FullBox("url ", 0, None, <<>>)>>)>>)

\* avc1 and mp4a: the sample entries carry the decoder configuration, AAC's
\* inside three descriptors with one-byte lengths.
Avc1(track) ==
  Box("avc1", 78, [width |-> track.width % 2^16, height |-> track.height % 2^16],
      <<Box("avcC", Len(track.avcc), track.avcc, <<>>)>>)
Esds(asc) ==
  FullBox("esds", 25 + Len(asc),
          [es |-> (23 + Len(asc)) % 256, config |-> (15 + Len(asc)) % 256,
           specific |-> Len(asc) % 256, asc |-> asc], <<>>)
Mp4a(track) ==
  Box("mp4a", 28, [channels |-> track.channels, rate |-> track.rate % 2^16],
      <<Esds(track.asc)>>)

\* stbl: the sample tables of a live stream are empty.
Stbl(entry) ==
  Box("stbl", 0, None,
      <<FullBox("stsd", 4, 1, <<entry>>), FullBox("stts", 4, 0, <<>>),
        FullBox("stsc", 4, 0, <<>>), FullBox("stsz", 8, 0, <<>>), FullBox("stco", 4, 0, <<>>)>>)

Trak(tkhd, timescale, handler, header, entry) ==
  Box("trak", 0, None,
      <<tkhd, Box("mdia", 0, None,
          <<Mdhd(timescale), Hdlr(handler),
            Box("minf", 0, None, <<header, Dinf, Stbl(entry)>>)>>)>>)

\* video_trak and audio_trak.
VideoTrak(track, timescale) ==
  Trak(Tkhd(VideoTrackId, track.width, track.height), timescale, "vide",
       FullBox("vmhd", 8, None, <<>>), Avc1(track))
AudioTrak(track) ==
  Trak(Tkhd(AudioTrackId, 0, 0), track.rate, "soun", FullBox("smhd", 4, None, <<>>), Mp4a(track))

Trex(id) == FullBox("trex", 20, id, <<>>)

\* init_segment; `timescale` is VIDEO_TIMESCALE.
InitSegment(video, audio, timescale) ==
  LET next == IF audio # None THEN AudioTrackId + 1
              ELSE IF video # None THEN VideoTrackId + 1 ELSE 1
      one(track, boxes) == IF track = None THEN <<>> ELSE boxes
  IN  <<Ftyp,
        Box("moov", 0, None,
            <<Mvhd(next)>>
              \o one(video, <<VideoTrak(video, timescale)>>) \o one(audio, <<AudioTrak(audio)>>)
              \o <<Box("mvex", 0, None,
                       one(video, <<Trex(VideoTrackId)>>) \o one(audio, <<Trex(AudioTrackId)>>))>>)>>

-----------------------------------------------------------------------------
(***************************************************************************)
(* Media segments.                                                         *)
(***************************************************************************)
\* sample_flags.
SampleFlags(dependsOn, sync) == 2^24 * (dependsOn % 4) + (IF sync THEN 0 ELSE 2^16)

PayloadSize(fragment) ==
  Total([k \in DOMAIN fragment.samples |-> Len(fragment.samples[k].payload)])

Entry(s) == [duration |-> s.duration, size |-> Len(s.payload), flags |-> s.flags,
             offset |-> s.offset]

\* One track's traf; `at` is where its samples are, relative to the moof.
Traf(fragment, at) ==
  Box("traf", 0, None,
      <<FullBox("tfhd", 4, fragment.id, <<>>), FullBox("tfdt", 8, fragment.base, <<>>),
        FullBox("trun", 8 + 16 * Len(fragment.samples),
                [at |-> at, entries |-> [k \in DOMAIN fragment.samples |->
                                           Entry(fragment.samples[k])]], <<>>)>>)

Moof(sequence, fragments, at) ==
  Box("moof", 0, None,
      <<FullBox("mfhd", 4, sequence, <<>>)>>
        \o [k \in DOMAIN fragments |-> Traf(fragments[k], at[k])])

\* Mutant: every fragment is said to start where the mdat payload does.
OffsetsMutant(sequence, fragments) ==
  [k \in DOMAIN fragments |->
     Moof(sequence, fragments, [j \in DOMAIN fragments |-> 0]).size + 8]

\* The data offsets, patched in once the moof's size is known: past it, past
\* the mdat header, and past the samples of the fragments before.
Offsets(sequence, fragments) ==
  [k \in DOMAIN fragments |->
     Moof(sequence, fragments, [j \in DOMAIN fragments |-> 0]).size + 8
       + Total([j \in 1..k - 1 |-> PayloadSize(fragments[j])])]

Payloads(fragment) ==
  FlattenSeq([k \in DOMAIN fragment.samples |-> fragment.samples[k].payload])

\* media_segment.
MediaSegment(sequence, fragments) ==
  LET mdat == FlattenSeq([k \in DOMAIN fragments |-> Payloads(fragments[k])])
  IN  <<Styp, Moof(sequence, fragments, Offsets(sequence, fragments)),
        Box("mdat", Len(mdat), mdat, <<>>)>>

-----------------------------------------------------------------------------
(***************************************************************************)
(* Reading, by ISO 14496-12: boxes are found by type, samples by the data  *)
(* offset and the sizes of the run, counted from the start of the moof.    *)
(***************************************************************************)
Inside(boxes, tag) == {boxes[i] : i \in {j \in DOMAIN boxes : boxes[j].tag = tag}}
\* The first of them.
TheBox(boxes, tag) ==
  boxes[CHOOSE i \in DOMAIN boxes : boxes[i].tag = tag /\ \A j \in 1..(i - 1) : boxes[j].tag # tag]

\* The tracks an init segment describes and extends, and their timescales.
TracksOf(file) ==
  LET moov == TheBox(file, "moov")
      traks == Inside(moov.kids, "trak")
      extended == {b.val : b \in ToSet(TheBox(moov.kids, "mvex").kids)}
  IN  {TheBox(t.kids, "tkhd").val.id : t \in traks} \cap extended
TimescaleOf(file, id) ==
  LET trak == CHOOSE t \in Inside(TheBox(file, "moov").kids, "trak") :
                TheBox(t.kids, "tkhd").val.id = id
  IN  TheBox(TheBox(trak.kids, "mdia").kids, "mdhd").val

IdOf(traf) == TheBox(traf.kids, "tfhd").val
TrafsOf(file) == Inside(TheBox(file, "moof").kids, "traf")
HasTrack(file, id) == \E traf \in TrafsOf(file) : IdOf(traf) = id

\* The samples of a track in a segment, with their decode times.
SamplesOf(file, id) ==
  LET traf == CHOOSE t \in TrafsOf(file) : IdOf(t) = id
      base == TheBox(traf.kids, "tfdt").val
      run == TheBox(traf.kids, "trun").val
      before(k, field) == Total([j \in 1..k - 1 |-> run.entries[j][field]])
      start == run.at - TheBox(file, "moof").size - 8
      data(k) == LET from == start + before(k, "size")
                     mdat == TheBox(file, "mdat").val
                 IN  [i \in 1..run.entries[k].size |->
                        IF from + i \in DOMAIN mdat THEN mdat[from + i] ELSE None]
  IN  IF ~HasTrack(file, id) THEN <<>>
      ELSE [k \in DOMAIN run.entries |->
              [data |-> data(k), first |-> k = 1, time |-> base + before(k, "duration"),
               duration |-> run.entries[k].duration,
               sync |-> (run.entries[k].flags \div 2^16) % 2 = 0,
               offset |-> run.entries[k].offset]]
=============================================================================
