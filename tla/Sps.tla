-------------------------------- MODULE Sps ---------------------------------
(***************************************************************************)
(* The stream dimensions out of a sequence parameter set                   *)
(* (parse_sps_dimensions and BitReader of src/core/src/codecs/h264.rs).    *)
(* A read takes the bit offset where it starts and returns the value and   *)
(* the offset after it; running off the end is Eof, from which nothing     *)
(* more is read, as the code's `?` leaves at once.  The code's 32-bit      *)
(* arithmetic is unbounded here.                                           *)
(***************************************************************************)
EXTENDS AnnexB

HighProfiles == {100, 110, 122, 244, 44, 83, 86, 118, 128}

Stopped == [at |-> Eof, v |-> 0]

\* BitReader::bit and bits.
BitAt(d, at) == BitField(d[1 + at \div 8], 7 - (at % 8), 7 - (at % 8))
U(d, at, n) ==
  IF at = Eof \/ at + n > 8 * Len(d) THEN Stopped
  ELSE [at |-> at + n,
        v |-> FoldLeft(LAMBDA acc, k : 2 * acc + BitAt(d, at + k - 1), 0, [k \in 1..n |-> k])]

\* ue: an Exp-Golomb code; more than 31 leading zeros are refused.
CodeNum(d, at, one) ==
  IF one - at > 31 THEN Stopped
  ELSE [U(d, one + 1, one - at) EXCEPT !.v = @ + 2^(one - at) - 1]
Ue(d, at) ==
  LET ones == {k \in at..8 * Len(d) - 1 : BitAt(d, k) = 1}
  IN  IF at = Eof \/ ones = {} THEN Stopped ELSE CodeNum(d, at, Min(ones))

\* se.
Se(d, at) ==
  LET k == Ue(d, at) IN [k EXCEPT !.v = IF @ % 2 = 1 THEN (@ + 1) \div 2 ELSE -(@ \div 2)]

\* Several fields in a row, as a record of their values and the offset after
\* them: a fixed number of bits each, or an Exp-Golomb code.
UE == 0
Fields(d, from, widths) ==
  LET took(acc, field) == [at |-> field.at, vs |-> Append(acc.vs, field.v)]
  IN  FoldLeft(LAMBDA acc, n : took(acc, IF n = UE THEN Ue(d, acc.at) ELSE U(d, acc.at, n)),
               [at |-> from, vs |-> <<>>], widths)

\* One scaling list: once `next` is 0 no more deltas are read.
SkipScalingList(d, from, size) ==
  LET step[k \in 0..size] ==
        IF k = 0 THEN [at |-> from, last |-> 8, next |-> 8]
        ELSE LET p == step[k - 1]
                 delta == Se(d, p.at)
                 next == IF p.next = 0 THEN 0 ELSE (p.last + delta.v + 256) % 256
             IN  [at |-> IF p.next = 0 THEN p.at ELSE delta.at,
                  next |-> next,
                  last |-> IF next = 0 THEN p.last ELSE next]
  IN  step[size].at

\* The scaling matrix.  The code reads 6 flags, or 12 for 4:4:4 (the standard
\* has 8 for the other formats).
SkipScalingMatrix(d, from, chroma) ==
  LET lists == IF chroma = 3 THEN 12 ELSE 6
      skip[i \in 0..lists] ==
        IF i = 0 THEN from
        ELSE LET present == U(d, skip[i - 1], 1)
             IN  IF present.v = 0 THEN present.at
                 ELSE SkipScalingList(d, present.at, IF i <= 6 THEN 16 ELSE 64)
  IN  skip[lists]

\* The fields that only high profiles have, from the chroma format on: where
\* they end.
SkipHighFields(d, chroma) ==
  LET after(f) == IF Last(f.vs) = 1 THEN SkipScalingMatrix(d, f.at, chroma.v) ELSE f.at
  IN  after(Fields(d, chroma.at, (IF chroma.v = 3 THEN <<1>> ELSE <<>>) \o <<UE, UE, 1, 1>>))

\* The picture order count fields, from their type on.
SkipPoc(d, type) ==
  LET cycle(f) == IF Last(f.vs) > 255 THEN Eof
                  ELSE Fields(d, f.at, [k \in 1..Last(f.vs) |-> UE]).at
  IN  CASE type.v = 0 -> Ue(d, type.at).at
        [] type.v = 1 -> cycle(Fields(d, type.at, <<1, UE, UE, UE>>))
        [] OTHER -> type.at

\* Mutant: the vertical crop unit ignores interlacing.
CropUnitsMutant(chroma, frameOnly) ==
  CASE chroma = 1 -> <<2, 2>> [] chroma = 2 -> <<2, 1>> [] OTHER -> <<1, 1>>

\* Crop units depend on the chroma format and on interlacing.
CropUnits(chroma, frameOnly) ==
  CASE chroma = 1 -> <<2, 2 * (2 - frameOnly)>>
    [] chroma = 2 -> <<2, 2 - frameOnly>>
    [] OTHER -> <<1, 2 - frameOnly>>

\* The dimensions in macroblocks, less the cropping.
Dimensions(mbs, frameOnly, crop, unit) ==
  LET size == << mbs[1] * 16 - (crop[1] + crop[2]) * unit[1],
                 (2 - frameOnly) * mbs[2] * 16 - (crop[3] + crop[4]) * unit[2] >>
  IN  IF 0 \in {size[1], size[2]} THEN None ELSE size

\* From the number of reference frames on: f has read up to frame_mbs_only, g
\* up to the cropping flag, c the cropping.
PictureFields(d, at, chroma) ==
  LET cropped(f, c) ==
        IF c.at = Eof THEN None
        ELSE Dimensions(<<f.vs[3] + 1, f.vs[4] + 1>>, f.vs[5], c.vs, CropUnits(chroma, f.vs[5]))
      whole(f, g) ==
        cropped(f, IF Last(g.vs) = 1 THEN Fields(d, g.at, <<UE, UE, UE, UE>>)
                   ELSE [at |-> g.at, vs |-> <<0, 0, 0, 0>>])
      sized(f) == whole(f, Fields(d, f.at, IF Last(f.vs) = 0 THEN <<1, 1, 1>> ELSE <<1, 1>>))
  IN  sized(Fields(d, at, <<UE, 1, UE, UE, 1>>))

\* parse_sps_dimensions: <<width, height>>, or None; the chroma format is 4:2:0
\* unless the profile says otherwise.
SpsDimensions(d) ==
  LET rest(at, chroma) == PictureFields(d, SkipPoc(d, Ue(d, Ue(d, at).at)), chroma)
      high(chroma) == rest(SkipHighFields(d, chroma), chroma.v)
      from(f) == IF f.vs[2] \in HighProfiles THEN high(Ue(d, f.at)) ELSE rest(f.at, 1)
  IN  IF d = <<>> \/ NalType(d[1]) # SPS THEN None ELSE from(Fields(d, 0, <<8, 8, 16, UE>>))
=============================================================================
