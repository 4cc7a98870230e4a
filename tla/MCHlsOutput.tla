---------------------------- MODULE MCHlsOutput -----------------------------
(* Packet shapes for the runs of HlsOutput. *)
EXTENDS HlsOutput

Shape(kind, key, inband, cts, size) ==
  [kind |-> kind, key |-> key, inband |-> inband, cts |-> cts, size |-> size]

\* Keyframes with and without parameter sets, inter-frames, ADTS and raw audio.
MixedShapes == {Shape("video", TRUE, TRUE, 0, 2), Shape("video", TRUE, FALSE, 0, 2),
                Shape("video", FALSE, FALSE, -1, 1),
                Shape("audio", FALSE, TRUE, 0, 1), Shape("audio", FALSE, FALSE, 0, 1)}

VideoParams == [avcc |-> <<1, 66, 0, 31>>, width |-> 1280, height |-> 720]
\* Three ticks in two units of time.
AudioParams == [asc |-> <<10, 16>>, rate |-> 3, channels |-> 2]

\* A regular frame, a gap, and a step back beyond the tolerance.
Clocks == {1, 2, -2}
=============================================================================
