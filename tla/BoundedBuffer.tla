--------------------------- MODULE BoundedBuffer ---------------------------
(***************************************************************************)
(* The bounded drop-oldest queue between the encoders and the network      *)
(* (src/core/src/backpressure.rs).  A buffer is a record:                  *)
(*   queue    the packets held, oldest first                               *)
(*   pushed   packets accepted since creation                              *)
(*   dropped  packets evicted, cut or recorded as dropped since creation   *)
(* The operators are the methods; who calls them, and under which lock, is *)
(* the business of module Engine.                                          *)
(***************************************************************************)
EXTENDS Integers, Sequences, FiniteSets

CONSTANT Capacity   \* the packet budget of the latency profile

ASSUME CapacityAssumption == Capacity \in Nat \ {0}

EmptyBuffer == [queue |-> <<>>, pushed |-> 0, dropped |-> 0]

\* Mutant: one packet too many is kept.
OverflowMutant(len) == IF len > Capacity + 1 THEN len - Capacity - 1 ELSE 0

\* How many of the oldest packets go when a queue of this length is cut to size.
Overflow(len) == IF len > Capacity THEN len - Capacity ELSE 0

(***************************************************************************)
(* push, applied to every item in turn: each push on a full queue evicts   *)
(* one packet from the front, so a queue that is within Capacity keeps the *)
(* newest Capacity packets of the concatenation.                           *)
(***************************************************************************)
PushAll(b, items) ==
  LET all == b.queue \o items
  IN  [queue   |-> SubSeq(all, Overflow(Len(all)) + 1, Len(all)),
       pushed  |-> b.pushed + Len(items),
       dropped |-> b.dropped + Overflow(Len(all))]

\* restore_front: back to the head of the line, no counter moves and no
\* capacity check is made.
RestoreFront(b, items) == [b EXCEPT !.queue = items \o @]

\* The greatest of a set of queue positions; 0 when there is none.
Latest(positions) ==
  IF positions = {} THEN 0
  ELSE CHOOSE i \in positions : \A j \in positions : j <= i

(***************************************************************************)
(* resync_keep_latest_keyframe: everything before the newest keyframe goes *)
(* and is counted; without a keyframe nothing changes.                     *)
(***************************************************************************)
ResyncKeepLatestKeyframe(b, keyframes) ==
  LET cut == IF keyframes = {} THEN 0 ELSE Latest(keyframes) - 1
  IN  [b EXCEPT !.queue = SubSeq(@, cut + 1, Len(@)), !.dropped = @ + cut]

\* Mutant: what the drain discards is not recorded as dropped.
TakeAllMutant(b, discarded) == [b EXCEPT !.queue = <<>>]

\* pop_oldest until the queue is empty, with record_drop for each packet the
\* drain discards.
TakeAll(b, discarded) == [b EXCEPT !.queue = <<>>, !.dropped = @ + discarded]
=============================================================================
