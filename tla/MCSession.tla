------------------------------ MODULE MCSession -----------------------------
(* Packet shapes for the runs of Engine and Session. *)
EXTENDS Session

Shape(kind, key, dts, inband) ==
  [kind |-> kind, key |-> key, dts |-> dts, inband |-> inband]

FarPast == -100   \* below every normalised timestamp of the runs

\* A GOP with its audio: per-track monotone clocks, the video running ahead of
\* the audio so that arrival order is not time order; configurations in band.
GopShapes == {Shape("video", TRUE, 2, "c1"), Shape("video", FALSE, 2, None),
              Shape("audio", FALSE, 0, "c1")}

\* Clock trouble, with a clock that does not advance by itself: jumps beyond
\* the tolerance on video, jitter within it on audio.
ClockShapes == {Shape("video", TRUE, 0, "c1"), Shape("video", TRUE, 2, "c1"),
                Shape("audio", FALSE, 0, "c1"), Shape("audio", FALSE, 1, "c1")}

\* Configurations come from the platform, never in band.
BareShapes == {Shape("video", TRUE, 0, None), Shape("audio", FALSE, 0, None)}
=============================================================================
