------------------------------- MODULE AnnexB -------------------------------
(***************************************************************************)
(* NAL units and their three framings (src/core/src/codecs/h264.rs):       *)
(* Annex B (start codes) as encoders and players want it, length-prefixed  *)
(* as FLV and MP4 carry it, and the AVCDecoderConfigurationRecord, which   *)
(* holds one SPS and one PPS.  NAL units are byte strings.                 *)
(***************************************************************************)
EXTENDS Bytes

IDR == 5
SPS == 7
PPS == 8

NalType(byte) == byte % 32

\* The length of the start code at position i, 0 if there is none.  One that
\* ends the packet with three bytes is out of the scan's reach.
StartCode(d, i) ==
  CASE i + 3 > Len(d) \/ d[i] # 0 \/ d[i + 1] # 0 -> 0
    [] d[i + 2] = 1 -> 3
    [] d[i + 2] = 0 /\ d[i + 3] = 1 -> 4
    [] OTHER -> 0

\* Where the run of start codes at position i ends.
GroupEnd(d, i) ==
  LET end[j \in 1..Len(d) + 1] ==
        IF StartCode(d, j) = 0 THEN j ELSE end[j + StartCode(d, j)]
  IN  end[i]

\* The runs of consecutive start codes, each with where it begins and ends.
Groups(d) ==
  LET scan[i \in 1..Len(d) + 1] ==
        IF i > Len(d) THEN <<>>
        ELSE IF StartCode(d, i) = 0 THEN scan[i + 1]
        ELSE <<[at |-> i, end |-> GroupEnd(d, i)]>> \o scan[GroupEnd(d, i)]
  IN  scan[1]

TrimZeros(s) == SubSeq(s, 1, Max({0} \cup {i \in 1..Len(s) : s[i] # 0}))

\* The last NAL unit loses bare three-byte start codes at its end too (the
\* loop after it, for four-byte ones, then finds none).
TrimCodes(s) ==
  LET keep[n \in 0..Len(s)] ==
        IF n >= 3 /\ SubSeq(s, n - 2, n) = <<0, 0, 1>> THEN keep[n - 3] ELSE n
  IN  SubSeq(s, 1, keep[Len(s)])

\* split_annex_b: what lies between the groups, without padding; nothing that
\* is empty.
UnitsBetween(d, g) ==
  LET unit == [k \in 1..Len(g) |->
                 IF k < Len(g)
                 THEN TrimZeros(SubSeq(d, g[k].end, g[k + 1].at - 1))
                 ELSE TrimCodes(TrimZeros(SubSeq(d, g[k].end, Len(d))))]
  IN  SelectSeq(unit, LAMBDA n : n # <<>>)

SplitAnnexB(d) == UnitsBetween(d, Groups(d))

\* to_annex_b.
ToAnnexB(nals) == FoldLeft(LAMBDA acc, n : acc \o <<0, 0, 0, 1>> \o n, <<>>, nals)

\* contains_keyframe.
ContainsKeyframe(d) == \E n \in ToSet(SplitAnnexB(d)) : NalType(n[1]) = IDR

\* extract_sps_pps: the last of either kind before both are there.
LastUnits(nals, sps, pps) ==
  LET both == Max({Min(sps), Min(pps)})
      last(at) == nals[Max({k \in at : k <= both})]
  IN  IF sps = {} \/ pps = {} THEN None ELSE <<last(sps), last(pps)>>

ExtractSpsPps(d) ==
  LET at(nals, type) == {k \in 1..Len(nals) : NalType(nals[k][1]) = type}
      among(nals) == LastUnits(nals, at(nals, SPS), at(nals, PPS))
  IN  among(SplitAnnexB(d))

\* build_avcc.
BuildAvcc(sps, pps) ==
  LET byte(i, default) == IF Len(sps) >= i THEN sps[i] ELSE default
  IN  <<1, byte(2, 100), byte(3, 0), byte(4, 31), 255, 225>>
        \o BigEndian(Len(sps), 2) \o sps \o <<1>> \o BigEndian(Len(pps), 2) \o pps

\* annexb_to_avcc.
AnnexbToAvcc(d) ==
  LET avcc(found) == IF found = None THEN None ELSE BuildAvcc(found[1], found[2])
  IN  avcc(ExtractSpsPps(d))

\* to_length_prefixed, annexb_to_length_prefixed.
ToLengthPrefixed(nals) ==
  FoldLeft(LAMBDA acc, n : acc \o BigEndian(Len(n), 4) \o n, <<>>, nals)
AnnexbToLengthPrefixed(d) == ToLengthPrefixed(SplitAnnexB(d))

\* The length of the length-prefixed unit at an offset, 0 if it is malformed:
\* a truncated prefix, a unit that overruns the buffer, or a zero length.
UnitAt(d, at) ==
  IF ~Has(d, at, 4) THEN 0
  ELSE LET n == FromBigEndian(Slice(d, at, 4)) IN IF Has(d, at + 4, n) THEN n ELSE 0

\* from_length_prefixed.
FromLengthPrefixed(d) ==
  LET read[at \in 0..Len(d)] ==
        IF at = Len(d) THEN <<>>
        ELSE IF UnitAt(d, at) = 0 THEN None
        ELSE LET rest == read[at + 4 + UnitAt(d, at)]
             IN  IF rest = None THEN None
                 ELSE <<Slice(d, at + 4, UnitAt(d, at))>> \o rest
  IN  read[0]

\* One list of the configuration record, from its count: the first unit (None
\* if the list is empty) and where it ends (Eof if truncated).
RecordList(d, count, from) ==
  LET walk[k \in 0..count] ==
        IF k = 0 THEN from
        ELSE LET at == walk[k - 1]
             IN  IF ~Has(d, at, 2) THEN Eof
                 ELSE LET n == FromBigEndian(Slice(d, at, 2))
                      IN  IF Has(d, at + 2, n) THEN at + 2 + n ELSE Eof
  IN  [end |-> walk[count],
       unit |-> IF count = 0 \/ walk[count] = Eof THEN None
                ELSE Slice(d, from + 2, walk[1] - from - 2)]

\* extract_sps_pps_from_avcc: the first SPS and the first PPS.
ExtractFromAvcc(avcc) ==
  IF Len(avcc) < 7 \/ avcc[1] # 1 THEN None
  ELSE LET s == RecordList(avcc, avcc[6] % 32, 6)
       IN  IF ~Has(avcc, s.end, 1) THEN None
           ELSE LET p == RecordList(avcc, avcc[s.end + 1], s.end + 1)
                IN  IF None \in {s.unit, p.unit} THEN None ELSE <<s.unit, p.unit>>
=============================================================================
