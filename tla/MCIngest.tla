------------------------------ MODULE MCIngest ------------------------------
(* Encoder streams for the run of Ingest.  Parameter sets are written bit by
   bit in the syntax of H.264 7.3.2.1.1, ADTS headers in that of ISO 14496-3;
   picture sizes are those of H.264 7.4.2.1.1. *)
EXTENDS Ingest

FarPast == -100

\* Names whose characters look like AMF0 markers.
LiveApp == <<3, 8>>
StreamKey == <<0, 0, 9>>

-----------------------------------------------------------------------------
Concat(seqs) == FoldLeft(LAMBDA acc, s : acc \o s, <<>>, seqs)

u(n, v) == [i \in 1..n |-> (v \div 2^(n - i)) % 2]
ue(v) == LET zeros == CHOOSE k \in 0..16 : 2^k <= v + 1 /\ v + 1 < 2^(k + 1)
         IN  u(zeros, 0) \o u(zeros + 1, v + 1)
se(v) == ue(IF v > 0 THEN 2 * v - 1 ELSE -2 * v)

\* rbsp_trailing_bits: a 1 and zeros to the end of the byte.
Rbsp(bits) ==
  LET all == bits \o <<1>> \o [i \in 1..(7 - (Len(bits) % 8)) |-> 0]
  IN  [k \in 1..(Len(all) \div 8) |-> FoldLeft(LAMBDA acc, b : 2 * acc + b, 0, SubSeq(all, 8 * k - 7, 8 * k))]

\* s.lists: per scaling list the deltas coded for it, <<>> for an absent one.
SpsBytes(s) ==
  Rbsp(Concat(<< u(8, 103), u(8, s.profile), u(8, 0), u(8, 31), ue(0),
    IF s.profile = 66 THEN <<>>
    ELSE ue(s.chroma) \o (IF s.chroma = 3 THEN u(1, 0) ELSE <<>>) \o ue(0) \o ue(0) \o u(1, 0)
           \o (IF s.lists = <<>> THEN u(1, 0)
               ELSE u(1, 1) \o Concat([i \in 1..Len(s.lists) |->
                      IF s.lists[i] = <<>> THEN u(1, 0)
                      ELSE u(1, 1) \o Concat([k \in 1..Len(s.lists[i]) |-> se(s.lists[i][k])])])),
    ue(4), ue(s.poc),
    CASE s.poc = 0 -> ue(2)
      [] s.poc = 1 -> u(1, 1) \o se(-2) \o se(1) \o ue(2) \o se(3) \o se(-3)
      [] s.poc = 2 -> <<>>,
    ue(1), u(1, 0), ue(s.mbs[1] - 1), ue(s.mbs[2] - 1),
    u(1, s.progressive), IF s.progressive = 0 THEN u(1, 1) ELSE <<>>, u(1, 1),
    IF s.crop = <<0, 0, 0, 0>> THEN u(1, 0)
    ELSE u(1, 1) \o Concat([i \in 1..4 |-> ue(s.crop[i])]),
    u(1, 0) >>))

\* SubWidthC and SubHeightC, by chroma format.
Subsampling(chroma) == CASE chroma = 1 -> <<2, 2>> [] chroma = 2 -> <<2, 1>> [] OTHER -> <<1, 1>>

PictureSize(s) ==
  << 16 * s.mbs[1] - Subsampling(s.chroma)[1] * (s.crop[1] + s.crop[2]),
     (2 - s.progressive)
       * (16 * s.mbs[2] - Subsampling(s.chroma)[2] * (s.crop[3] + s.crop[4])) >>

Plain == [profile |-> 66, chroma |-> 1, lists |-> <<>>, poc |-> 0, mbs |-> <<80, 45>>,
          progressive |-> 1, crop |-> <<0, 0, 0, 0>>]

\* A 16-element list coded whole, one that stops early, and absent ones.
Whole == [k \in 1..16 |-> IF k % 2 = 0 THEN -1 ELSE 2]
Early == <<8, -16>>
Lists == <<Whole, <<>>, Early, <<>>, <<>>, <<>>, <<>>, Early, <<>>, <<>>, <<>>, Early>>

Encodings ==
  { Plain,
    [Plain EXCEPT !.profile = 100, !.poc = 2, !.mbs = <<120, 68>>, !.crop = <<0, 0, 0, 4>>],
    [Plain EXCEPT !.profile = 122, !.chroma = 2, !.poc = 1, !.mbs = <<120, 34>>,
                  !.progressive = 0, !.crop = <<1, 2, 0, 4>>],
    [Plain EXCEPT !.profile = 244, !.chroma = 3, !.lists = Lists, !.mbs = <<2, 3>>,
                  !.crop = <<3, 0, 1, 0>>],
    [Plain EXCEPT !.profile = 110, !.chroma = 0, !.mbs = <<1, 1>>] }

-----------------------------------------------------------------------------
Pps == <<104, 206, 60, 128>>
Idr == <<101, 0, 0, 3, 1, 9>>
Inter == <<65, 0, 0, 3, 1, 9>>
Raw == <<33, 0, 7>>

Four == <<0, 0, 0, 1>>
Three == <<0, 0, 1>>

\* Mixed start codes, trailing zeros, doubled start codes, nothing at all.
KeyFrame(sps) ==
  [kind |-> "video", nals |-> <<sps, Pps, Idr>>, offset |-> 0,
   data |-> Four \o sps \o Three \o Pps \o <<0>> \o Four \o Idr \o <<0, 0>>]
BareKey == [kind |-> "video", nals |-> <<Idr>>, offset |-> 1, data |-> Three \o Idr \o Three]
InterFrame == [kind |-> "video", nals |-> <<Inter>>, offset |-> 1,
               data |-> Three \o Four \o Inter]
NoFrame == [kind |-> "video", nals |-> <<>>, offset |-> 0, data |-> <<0, 0, 0, 1>>]
RawFrame == [kind |-> "audio", nals |-> <<Raw>>, offset |-> 0, data |-> Raw]

\* An ADTS frame of AAC-LC; `crc` is protection_absent = 0.
AdtsFrame(a, crc) ==
  [kind |-> "audio", nals |-> <<Raw>>, offset |-> 0,
   data |-> <<255, IF crc THEN 240 ELSE 241, 64 + 4 * a[1] + a[2] \div 4, 64 * (a[2] % 4),
              1, 31, 252>> \o (IF crc THEN <<18, 52>> ELSE <<>>) \o Raw]

\* The AudioSpecificConfig of AAC-LC.
LcAsc(a) == <<16 + a[1] \div 2, 128 * (a[1] % 2) + 8 * a[2]>>

Stereo == <<4, 2>>     \* sampling frequency index and channels: 44100 Hz
Surround == <<11, 6>>  \* 8000 Hz

\* An encoder that sends its configurations in band, and one that does not.
InBand(s, a, frames) ==
  [sps |-> SpsBytes(s), pps |-> Pps, size |-> PictureSize(s),
   audio |-> [rate |-> SampleRates[a[1] + 1], channels |-> a[2]],
   avcc |-> None, asc |-> None, frames |-> frames]
OutOfBand(s, a, frames) ==
  [InBand(s, a, frames) EXCEPT !.avcc = BuildAvcc(SpsBytes(s), Pps), !.asc = LcAsc(a)]

Session(stream, steps) ==
  [stream |-> stream, steps |-> steps, fuse |-> None, own |-> TRUE, acks |-> FALSE, app |-> Served]

Described ==
  {Session(InBand(s, Surround, {KeyFrame(SpsBytes(s)), InterFrame, AdtsFrame(Surround, TRUE)}), {1}) :
     s \in Encodings}
Framed == Session(OutOfBand(Plain, Stereo, {BareKey, InterFrame, NoFrame, RawFrame,
                                            AdtsFrame(Stereo, FALSE)}), {1})
Small == InBand(Plain, Stereo, {KeyFrame(SpsBytes(Plain)), AdtsFrame(Stereo, FALSE)})

Half == 2^24 + 1   \* half the range of timestamps

Drifting == {[Session(Small, {-1, Half}) EXCEPT !.own = own] : own \in BOOLEAN}
Refusing == {[Session(Small, {1}) EXCEPT !.fuse = n] : n \in 0..6}
Odd == {[Session(Small, {1}) EXCEPT !.acks = TRUE], [Session(Small, {1}) EXCEPT !.app = <<77>>]}

Sessions == Described \cup {Framed} \cup Drifting \cup Refusing \cup Odd
=============================================================================
