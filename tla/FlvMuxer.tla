----------------------------- MODULE FlvMuxer ------------------------------
(***************************************************************************)
(* Timestamps and codec headers of the FLV muxer (src/core/src/mux.rs).    *)
(* A muxer is a record:                                                    *)
(*   origin  the DTS that becomes 0 on the wire, None before any media     *)
(*   last    per track, the highest normalised DTS written (Never before   *)
(*           the track's first packet; i64::MIN in the code)               *)
(*   avcc    the H.264 configuration whose sequence header was written     *)
(*   asc     likewise the AAC configuration                                *)
(* video_seq_written and avcc (audio_seq_written and asc) are set together *)
(* by the code, so "written" is avcc # None (asc # None) here.  Byte       *)
(* layout (tag headers, the 9-byte FLV header, composition times) is left  *)
(* out; a packet is a record with its kind, key flag, dts and the codec    *)
(* configuration it carries in band, if any.                               *)
(***************************************************************************)
EXTENDS Integers

CONSTANTS
  None,       \* absence of an optional value
  Never,      \* last DTS of a track that has written nothing (i64::MIN)
  Tolerance   \* REORDER_TOLERANCE_MS

ASSUME NoneAssumption == None \notin Int
ASSUME NeverAssumption == Never \in Int /\ Never < 0
ASSUME ToleranceAssumption == Tolerance \in Nat

Tracks == {"video", "audio"}

Larger(a, b) == IF a >= b THEN a ELSE b

NewMuxer ==
  [origin |-> None, last |-> [t \in Tracks |-> Never], avcc |-> None, asc |-> None]

\* Mutant: the high-water marks are not restored.
RestoreTimebaseMutant(m, tb) == [m EXCEPT !.origin = tb.origin]

\* What detach_transport saves of a muxer and restore_timebase puts back.
TimebaseOf(m) == [origin |-> m.origin, last |-> m.last]
RestoreTimebase(m, tb) == [m EXCEPT !.origin = tb.origin, !.last = tb.last]

\* header_ts: never below what either track has reached.
HeaderTs(m) == Larger(Larger(m.last["video"], m.last["audio"]), 0)

\* Mutant: audio is written without one.
NeedsSequenceMutant(m, p) == p.kind = "video" /\ p.key /\ m.avcc = None

\* write_packet needs a sequence header first, and has none.
NeedsSequence(m, p) ==
  \/ p.kind = "video" /\ p.key /\ m.avcc = None
  \/ p.kind = "audio" /\ m.asc = None

\* The sequence header can only come out of the packet itself.
NoConfig(m, p) == NeedsSequence(m, p) /\ p.inband = None

\* write_video_sequence / write_audio_sequence with the sniffed configuration.
Sniff(m, p) ==
  IF ~NeedsSequence(m, p) THEN m
  ELSE IF p.kind = "video" THEN [m EXCEPT !.avcc = p.inband]
  ELSE [m EXCEPT !.asc = p.inband]

\* init_codecs: idempotent, a header already written is not written again.
InitCodecs(m, avcc, asc) ==
  [m EXCEPT !.avcc = IF @ = None THEN avcc ELSE @,
            !.asc  = IF @ = None THEN asc  ELSE @]

\* normalize: the first DTS ever seen fixes the origin.
OriginFor(m, p) == IF m.origin = None THEN p.dts ELSE m.origin
Normalized(m, p) == p.dts - OriginFor(m, p)

\* The per-track slip that write_packet refuses with MuxError::Ordering.
OutOfOrder(m, p) == m.last[p.kind] - Normalized(m, p) > Tolerance

\* The timestamp write_packet stamps: small backward slips are clamped.
Stamp(m, p) == Larger(Normalized(m, p), m.last[p.kind])

\* write_packet up to the tag itself: origin and high-water mark move before
\* the bytes are known to be out.
Stamped(m, p) ==
  [m EXCEPT !.origin = OriginFor(m, p), !.last[p.kind] = Stamp(m, p)]

\* rebase: p normalises to exactly what its own track last wrote.
Rebase(m, p) == [m EXCEPT !.origin = p.dts - Larger(m.last[p.kind], 0)]

\* clamp_ts: the wire field is unsigned.
ClampTs(ts) == Larger(ts, 0)
=============================================================================
