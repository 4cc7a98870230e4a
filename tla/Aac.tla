-------------------------------- MODULE Aac ---------------------------------
(***************************************************************************)
(* ADTS headers and the AudioSpecificConfig (src/core/src/codecs/aac.rs),  *)
(* and the parameters an output derives from the latter                    *)
(* (parse_audio_params of src/core/src/hls/mod.rs).                        *)
(***************************************************************************)
EXTENDS Bytes

\* SAMPLE_RATES.
SampleRates == <<96000, 88200, 64000, 48000, 44100, 32000, 24000, 22050, 16000,
                 12000, 11025, 8000, 7350>>

IsAdts(d) == Len(d) >= 7 /\ d[1] = 255 /\ BitField(d[2], 7, 4) = 15

HeaderLength(d) == IF BitField(d[2], 0, 0) = 1 THEN 7 ELSE 9

\* parse_adts, but for the frame length, which nobody reads.
ParseAdts(d) ==
  IF ~IsAdts(d) \/ Len(d) < HeaderLength(d) THEN None
  ELSE [object   |-> BitField(d[3], 7, 6) + 1,
        rate     |-> BitField(d[3], 5, 2),
        channels |-> 4 * BitField(d[3], 0, 0) + BitField(d[4], 7, 6)]

\* build_asc: 5 bits of object type minus one, 4 of rate index, 4 of channels.
BuildAsc(h) ==
  <<8 * ((h.object - 1) % 32) + BitField(h.rate, 3, 1),
    128 * BitField(h.rate, 0, 0) + 8 * (h.channels % 16)>>

\* adts_to_asc.
AdtsToAsc(d) == IF ParseAdts(d) = None THEN None ELSE BuildAsc(ParseAdts(d))

\* strip_adts: what is not ADTS is returned as it is.
StripAdts(d) ==
  IF ParseAdts(d) = None THEN d ELSE SubSeq(d, HeaderLength(d) + 1, Len(d))

\* parse_asc.
ParseAsc(d) ==
  IF Len(d) < 2 THEN None
  ELSE [object   |-> BitField(d[1], 7, 3) + 1,
        rate     |-> 2 * BitField(d[1], 2, 0) + BitField(d[2], 7, 7),
        channels |-> BitField(d[2], 6, 3)]

\* parse_audio_params: None for a rate index outside the table.
AudioParams(asc) ==
  LET a == ParseAsc(asc)
  IN  IF a = None THEN None
      ELSE IF a.rate >= Len(SampleRates) THEN None
      ELSE [rate |-> SampleRates[a.rate + 1], channels |-> Max({a.channels, 1})]
=============================================================================
