----------------------------- MODULE Recording ------------------------------
(***************************************************************************)
(* RecordingOutput of src/core/src/sink.rs: a packet sink with a muxer and *)
(* a timebase of its own that writes one FLV file.  A recording is a       *)
(* record; `tape` holds what is in the file: the file header and the tags. *)
(* `fuse` is the number of tags the file has room for (None for any); once *)
(* it is full every write is refused and leaves nothing readable behind.   *)
(* `ok` is the outcome of the running call; once it is FALSE the rest of   *)
(* the call does nothing, as the code's `?` leaves at once.                *)
(***************************************************************************)
EXTENDS FlvTags

CONSTANT MaxTs   \* the highest timestamp of the 32-bit field

NewRecording(fuse) ==
  [mux |-> M!NewMuxer, metadata |-> FALSE, finished |-> FALSE, closed |-> FALSE,
   tape |-> <<>>, fuse |-> fuse, ok |-> TRUE]

Begin(r) == [r EXCEPT !.ok = TRUE]

\* One write to the file.
Put(r, tag) ==
  IF ~r.ok THEN r
  ELSE IF r.fuse = 0 THEN [r EXCEPT !.ok = FALSE]
  ELSE [r EXCEPT !.tape = Append(@, tag), !.fuse = IF @ = None THEN None ELSE @ - 1]

\* ensure_header, which every tag goes through, and clamp_ts.
FileStart == Tag(0, 0, FileHeader)
PutTag(r, tag) ==
  Put(IF r.tape = <<>> THEN Put(r, FileStart) ELSE r,
      [tag EXCEPT !.ts = Min({@, MaxTs})])

\* ensure_metadata; what the metadata say is left out.
EnsureMetadata(r) ==
  LET put == PutTag(r, Tag(Script, M!ClampTs(M!HeaderTs(r.mux)), <<>>))
  IN  IF r.metadata \/ ~r.ok THEN r ELSE [put EXCEPT !.metadata = put.ok]

\* write_video_sequence and write_audio_sequence: idempotent.
PutSequence(r, track, config) ==
  LET put == PutTag(r, IF track = "avcc" THEN VideoSequence(r.mux, config)
                       ELSE AudioSequence(r.mux, config))
  IN  IF config = None \/ r.mux[track] # None \/ ~r.ok THEN r
      ELSE IF put.ok THEN [put EXCEPT !.mux[track] = config] ELSE put

\* Mutant: a clock that jumps back ends the recording.
PutPacketMutant(r, p) ==
  LET track == IF p.kind = "video" THEN "avcc" ELSE "asc"
      s == IF M!NoConfig(r.mux, p) \/ M!OutOfOrder(r.mux, p) THEN [r EXCEPT !.ok = FALSE]
           ELSE IF M!NeedsSequence(r.mux, p) THEN PutSequence(r, track, p.inband)
           ELSE r
  IN  IF ~s.ok THEN s
      ELSE PutTag([s EXCEPT !.mux = M!Stamped(s.mux, p)], MediaTag(s.mux, p))

\* write_packet, once more after a rebase if the packet was out of order: an
\* error for want of a configuration, the sniffed sequence header, the tag.
PutPacket(r, p) ==
  LET track == IF p.kind = "video" THEN "avcc" ELSE "asc"
      s == IF M!NoConfig(r.mux, p) THEN [r EXCEPT !.ok = FALSE]
           ELSE IF M!NeedsSequence(r.mux, p) THEN PutSequence(r, track, p.inband)
           ELSE r
      m == IF M!OutOfOrder(s.mux, p) THEN M!Rebase(s.mux, p) ELSE s.mux
  IN  IF ~s.ok THEN s
      ELSE PutTag([s EXCEPT !.mux = M!Stamped(m, p)], MediaTag(m, p))

\* codecs: metadata, then the sequence headers; an error is only logged.
RecordCodecs(r, avcc, asc) ==
  IF r.finished THEN r
  ELSE Begin(PutSequence(PutSequence(EnsureMetadata(Begin(r)), "avcc", avcc), "asc", asc))

\* packet; its outcome is `ok`.
RecordPacket(r, p) ==
  IF r.finished THEN Begin(r)
  ELSE LET s == EnsureMetadata(Begin(r)) IN IF s.ok THEN PutPacket(s, p) ELSE s

\* finish: the file is shut down if it can be flushed.
RecordFinish(r) ==
  IF r.finished THEN Begin(r)
  ELSE [r EXCEPT !.finished = TRUE, !.closed = r.fuse # 0, !.ok = r.fuse # 0]
=============================================================================
