------------------------------- MODULE FlvTags ------------------------------
(***************************************************************************)
(* FLV as bytes: the tags the muxer writes (src/core/src/mux.rs), the      *)
(* incremental parser that finds them again in a byte stream cut anywhere  *)
(* (FlvTagParser of src/core/src/rtmp/mod.rs), and what a tag body says    *)
(* (decode_tag of src/core/src/flv.rs).  Timestamps and codec headers of   *)
(* the muxer are those of FlvMuxer; a tag is a record of its type, its     *)
(* timestamp and its body.                                                 *)
(***************************************************************************)
EXTENDS Sps, Aac

CONSTANTS Never, Tolerance

M == INSTANCE FlvMuxer

Audio == 8
Video == 9
Script == 18

Tag(type, ts, body) == [type |-> type, ts |-> ts, body |-> body]

-----------------------------------------------------------------------------
(***************************************************************************)
(* Muxing.                                                                 *)
(***************************************************************************)

\* ensure_header.
FileHeader == <<70, 76, 86, 1, 5, 0, 0, 0, 9, 0, 0, 0, 0>>

\* The 11 bytes before a body: the timestamp is 24 bits and an upper byte.
Header(tag) ==
  <<tag.type>> \o BigEndian(Len(tag.body), 3)
    \o BigEndian(tag.ts, 3) \o <<(tag.ts \div 2^24) % 256>> \o <<0, 0, 0>>

\* write_tag: three writes.
Writes(tag) == <<Header(tag), tag.body, BigEndian(11 + Len(tag.body), 4)>>

\* composition_time.
CompositionTime(cts) ==
  BigEndian(Max({-(2^23), Min({cts, 2^23 - 1})}), 3)

\* write_video_sequence, write_audio_sequence: both as header-style tags.
VideoSequence(m, avcc) ==
  Tag(Video, M!ClampTs(M!HeaderTs(m)), <<23, 0, 0, 0, 0>> \o avcc)
AudioSequence(m, asc) == Tag(Audio, M!ClampTs(M!HeaderTs(m)), <<175, 0>> \o asc)

\* The sequence headers init_codecs writes: those not written yet.
InitTags(m, avcc, asc) ==
  (IF avcc # None /\ m.avcc = None THEN <<VideoSequence(m, avcc)>> ELSE <<>>)
    \o (IF asc # None /\ m.asc = None THEN <<AudioSequence(m, asc)>> ELSE <<>>)

\* A packet as the muxer sees it: with the configuration in its payload.
AsPacket(p) ==
  [kind |-> p.kind, key |-> p.key, dts |-> p.dts, pts |-> p.pts, data |-> p.data,
   inband |-> IF p.kind = "video" THEN AnnexbToAvcc(p.data) ELSE AdtsToAsc(p.data)]

\* Mutant: the composition offset is taken before the timestamp is clamped.
MediaTagMutant(m, p) ==
  LET ts == M!Stamp(m, p)
      cts == p.pts - p.dts
  IN  IF p.kind = "video"
      THEN Tag(Video, M!ClampTs(ts), <<IF p.key THEN 23 ELSE 39, 1>>
                 \o CompositionTime(cts) \o AnnexbToLengthPrefixed(p.data))
      ELSE Tag(Audio, M!ClampTs(ts), <<175, 1>> \o StripAdts(p.data))

\* The tag write_packet makes of a packet.
MediaTag(m, p) ==
  LET ts == M!Stamp(m, p)
      cts == p.pts - M!OriginFor(m, p) - ts
  IN  IF p.kind = "video"
      THEN Tag(Video, M!ClampTs(ts), <<IF p.key THEN 23 ELSE 39, 1>>
                 \o CompositionTime(cts) \o AnnexbToLengthPrefixed(p.data))
      ELSE Tag(Audio, M!ClampTs(ts), <<175, 1>> \o StripAdts(p.data))

\* write_packet without its errors: the tags, sniffed sequence header first,
\* and the muxer after them.
PacketTags(m, p) ==
  LET sequence == IF ~M!NeedsSequence(m, p) THEN <<>>
                  ELSE IF p.kind = "video" THEN <<VideoSequence(m, p.inband)>>
                  ELSE <<AudioSequence(m, p.inband)>>
  IN  sequence \o <<MediaTag(m, p)>>
AfterPacket(m, p) == M!Stamped(M!Sniff(m, p), p)

-----------------------------------------------------------------------------
(***************************************************************************)
(* Parsing.                                                                *)
(***************************************************************************)
NewParser == [phase |-> "header", buf |-> <<>>, cur |-> None]

Dropped(s, n) == SubSeq(s, n + 1, Len(s))

\* The FLV header: how many bytes it takes, or 0 if it is malformed.
MaxDataOffset == 4096
HeaderSpan(buf) ==
  LET off == FromBigEndian(SubSeq(buf, 6, 9))
  IN  IF SubSeq(buf, 1, 3) = <<70, 76, 86>> /\ buf[4] = 1 /\ off \in 9..MaxDataOffset
      THEN off + 4 ELSE 0

\* What the current phase waits for.
Wanted(p) ==
  CASE p.phase = "header" -> IF Len(p.buf) < 13 THEN 13 ELSE HeaderSpan(p.buf)
    [] p.phase = "tag"  -> 11
    [] p.phase = "body" -> p.cur.size
    [] p.phase = "prev" -> 4

RECURSIVE Parse(_, _)

NextPhase(p) ==
  CASE p.phase = "tag"  -> "body"
    [] p.phase = "body" -> "prev"
    [] OTHER            -> "tag"

\* feed's loop: every tag that the buffer completes, the parser after them, and
\* whether the header was refused (the parser then stays as it is).
Parse(p, tags) ==
  IF p.phase = "header" /\ Len(p.buf) >= 13 /\ HeaderSpan(p.buf) = 0
  THEN [parser |-> p, tags |-> tags, ok |-> FALSE]
  ELSE IF Len(p.buf) < Wanted(p) THEN [parser |-> p, tags |-> tags, ok |-> TRUE]
  ELSE LET taken == SubSeq(p.buf, 1, Wanted(p))
       IN  Parse([phase |-> NextPhase(p), buf |-> Dropped(p.buf, Wanted(p)),
                  cur |-> IF p.phase = "tag"
                          THEN [type |-> taken[1],
                                size |-> FromBigEndian(SubSeq(taken, 2, 4)),
                                ts |-> 2^24 * taken[8] + FromBigEndian(SubSeq(taken, 5, 7))]
                          ELSE IF p.phase = "body" THEN None ELSE p.cur],
                 IF p.phase = "body" THEN Append(tags, Tag(p.cur.type, p.cur.ts, taken))
                 ELSE tags)

\* FlvTagParser::feed.
Feed(p, bytes) == Parse([p EXCEPT !.buf = @ \o bytes], <<>>)

-----------------------------------------------------------------------------
(***************************************************************************)
(* Demuxing.                                                               *)
(***************************************************************************)
SignExtend(n) == IF n >= 2^23 THEN n - 2^24 ELSE n

Config(what, bytes) == IF bytes = <<>> THEN None ELSE [what |-> what, bytes |-> bytes]

Media(kind, key, dts, pts, data) ==
  [what |-> "packet", kind |-> kind, key |-> key, dts |-> dts, pts |-> pts, data |-> data]

\* decode_video.
DecodeVideo(ts, body) ==
  LET payload == Dropped(body, 5)
      cts == SignExtend(FromBigEndian(SubSeq(body, 3, 5)))
      nals == FromLengthPrefixed(payload)
  IN  IF Len(body) < 5 \/ BitField(body[1], 3, 0) # 7 THEN None
      ELSE CASE body[2] = 0 -> Config("avcc", payload)
             [] body[2] = 1 -> IF nals \in {None, <<>>} THEN None
                               ELSE Media("video", BitField(body[1], 7, 4) = 1, ts,
                                          ts + cts, ToAnnexB(nals))
             [] OTHER -> None

\* decode_audio.
DecodeAudio(ts, body) ==
  LET payload == Dropped(body, 2)
  IN  IF Len(body) < 2 \/ BitField(body[1], 7, 4) # 10 THEN None
      ELSE CASE body[2] = 0 -> Config("asc", payload)
             [] body[2] = 1 -> Media("audio", FALSE, ts, ts, payload)
             [] OTHER -> None

\* decode_tag: None for what is skipped.
DecodeTag(type, ts, body) ==
  CASE type = Video -> DecodeVideo(ts, body)
    [] type = Audio -> DecodeAudio(ts, body)
    [] OTHER -> None
=============================================================================
