--------------------------- MODULE MCChunkStream ----------------------------
(* What the peer sends in the runs of ChunkStream. *)
EXTENDS ChunkStream

Shape(kind, value, length) == [kind |-> kind, value |-> value, length |-> length]

\* Media that is empty, fits a chunk or needs several; chunk sizes that grow
\* (beyond the limit), shrink, or are no size; an abort; a window.
MixedShapes == {Shape("media", 0, 0), Shape("media", 0, 1), Shape("media", 0, 3),
                Shape("set_chunk_size", 1, 1), Shape("set_chunk_size", 5, 1),
                Shape("set_chunk_size", 0, 1),
                Shape("abort", "c4", 1), Shape("window_ack", 3, 1)}
=============================================================================
