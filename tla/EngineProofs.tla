---------------------------- MODULE EngineProofs ---------------------------
(***************************************************************************)
(* Proofs about module Engine, for every Capacity, every packet shape and  *)
(* every bound.  The inductive invariant has a half for the queue and the  *)
(* batch (BufferInv: memory is bounded and every packet accounted for) and *)
(* a half for the muxer and the clocks (MuxInv).                           *)
(***************************************************************************)
EXTENDS Engine, FiniteSetTheorems, SequenceTheorems, TLAPS

-----------------------------------------------------------------------------
(***************************************************************************)
(* Facts about the operators of BoundedBuffer, for every queue and every   *)
(* Capacity: what each method does to the length and to the counters.      *)
(***************************************************************************)
\* A buffer of elements of S.
BufferOf(S) == [queue : Seq(S), pushed : Nat, dropped : Nat]

\* What every method of the buffer but push leaves alone when it drops
\* packets and what push keeps in balance: packets accepted and not dropped,
\* less those still held.
Gone(b) == b.pushed - b.dropped - Len(b.queue)

\* A finite set of integers that is not empty has a greatest element: among
\* the sets of members above a member, one is minimal, and it is empty.
LEMMA GreatestExists ==
  ASSUME NEW K, IsFiniteSet(K), K \in SUBSET Int, K # {}
  PROVE  \E i \in K : \A j \in K : j <= i
<1> DEFINE Above(i) == {k \in K : k > i}
           F == {Above(i) : i \in K}
<1>1. IsWellFoundedOn(StrictSubsetOrdering(K), FiniteSubsetsOf(K))
  BY FS_StrictSubsetOrderingWellFounded
<1>2. FiniteSubsetsOf(K) = SUBSET K
  BY FS_FiniteSubsetsOfFinite
<1>3. F \subseteq SUBSET K /\ F # {}
  OBVIOUS
<1> HIDE DEF F
<1>4. \E m \in F : \A y \in F : ~ (<<y, m>> \in StrictSubsetOrdering(K))
  <2>1. F \subseteq FiniteSubsetsOf(K)
    BY <1>2, <1>3
  <2> QED BY <1>1, <1>3, <2>1, WFMin, Zenon
<1>4a. PICK m \in F : \A y \in F : ~ (<<y, m>> \in StrictSubsetOrdering(K))
  BY <1>4
<1>5. PICK i \in K : m = Above(i)
  BY DEF F
<1>6. SUFFICES ASSUME NEW j \in K, ~(j <= i) PROVE FALSE
  OBVIOUS
<1>7. j > i
  BY <1>6
<1>8. Above(j) \subseteq m /\ Above(j) # m
  <2>1. j \in m /\ j \notin Above(j)
    BY <1>5, <1>7
  <2>2. \A k \in K : k > j => k > i
    BY <1>7
  <2> QED BY <2>1, <2>2, <1>5
<1>9. <<Above(j), m>> \in StrictSubsetOrdering(K)
  BY <1>5, <1>8 DEF StrictSubsetOrdering
<1> QED BY <1>4a, <1>9 DEF F

\* Latest picks the greatest of a set of positions.
LEMMA LatestIsGreatest ==
  ASSUME NEW K, IsFiniteSet(K), K \in SUBSET Int, K # {}
  PROVE  /\ Latest(K) \in K
         /\ \A j \in K : j <= Latest(K)
BY GreatestExists DEF Latest

\* Overflow is a number, and what remains fits.
LEMMA OverflowBounds ==
  ASSUME NEW n \in Nat
  PROVE  /\ Overflow(n) \in 0..n
         /\ n - Overflow(n) <= Capacity
         /\ n - Overflow(n) <= n
BY CapacityAssumption DEF Overflow

\* The part of a queue from position n + 1 on.
LEMMA SuffixProperties ==
  ASSUME NEW S, NEW q \in Seq(S), NEW n \in 0..Len(q)
  PROVE  /\ SubSeq(q, n + 1, Len(q)) \in Seq(S)
         /\ Len(SubSeq(q, n + 1, Len(q))) = Len(q) - n
<1>1. Len(q) \in Nat
  BY LenProperties
<1>2. n \in Nat /\ n <= Len(q)
  BY <1>1
<1>3. \A i \in (n + 1)..Len(q) : q[i] \in S
  <2>1. ASSUME NEW i \in (n + 1)..Len(q) PROVE i \in 1..Len(q)
    BY <1>1, <1>2
  <2> QED BY <2>1, ElementOfSeq
<1>4. n + 1 \in Int /\ Len(q) \in Int
  BY <1>1, <1>2
<1>5. /\ SubSeq(q, n + 1, Len(q)) \in Seq(S)
      /\ Len(SubSeq(q, n + 1, Len(q)))
           = IF n + 1 <= Len(q) THEN Len(q) - (n + 1) + 1 ELSE 0
  BY <1>3, <1>4, SubSeqProperties
<1> QED BY <1>1, <1>2, <1>5

\* push and push_all: the queue fits whatever it held before, and every packet
\* that is not in it any more is counted as dropped.
LEMMA PushAllProperties ==
  ASSUME NEW S, NEW b \in BufferOf(S), NEW items \in Seq(S)
  PROVE  /\ PushAll(b, items) \in BufferOf(S)
         /\ Len(PushAll(b, items).queue) <= Capacity
         /\ Gone(PushAll(b, items)) = Gone(b)
<1> DEFINE all == b.queue \o items
           n == Len(all)
           r == PushAll(b, items)
<1>1. b.queue \in Seq(S) /\ b.pushed \in Nat /\ b.dropped \in Nat
  BY DEF BufferOf
<1>2. /\ all \in Seq(S) /\ n = Len(b.queue) + Len(items)
      /\ Len(b.queue) \in Nat /\ Len(items) \in Nat /\ n \in Nat
  BY <1>1, ConcatProperties, LenProperties
<1>3. /\ Overflow(n) \in 0..n /\ n - Overflow(n) <= Capacity
  BY <1>2, OverflowBounds
<1>4. /\ r.queue \in Seq(S)
      /\ Len(r.queue) = n - Overflow(n)
  BY <1>2, <1>3, SuffixProperties DEF PushAll
<1>5. /\ r.pushed = b.pushed + Len(items)
      /\ r.dropped = b.dropped + Overflow(n)
      /\ r = [queue |-> r.queue, pushed |-> r.pushed, dropped |-> r.dropped]
  BY DEF PushAll
<1>6. r.pushed \in Nat /\ r.dropped \in Nat
  BY <1>1, <1>2, <1>3, <1>5
<1>7. r \in BufferOf(S)
  BY <1>4, <1>5, <1>6 DEF BufferOf
<1> HIDE DEF n, r
<1>8. Gone(r) = Gone(b)
  <2>1. Overflow(n) \in Nat /\ Len(r.queue) \in Nat
    BY <1>2, <1>3, <1>4
  <2>2. n = Len(b.queue) + Len(items)
    BY <1>2 DEF n
  <2>3. Len(b.queue) \in Nat /\ Len(items) \in Nat
    BY <1>2
  <2>4. r.pushed = b.pushed + Len(items) /\ r.dropped = b.dropped + Overflow(n)
    BY <1>5
  <2> QED BY <1>1, <1>4, <2>1, <2>2, <2>3, <2>4 DEF Gone
<1> QED BY <1>3, <1>4, <1>7, <1>8 DEF r

\* resync_keep_latest_keyframe never lengthens the queue, and counts what it
\* cuts.
LEMMA ResyncProperties ==
  ASSUME NEW S, NEW b \in BufferOf(S), NEW K \in SUBSET (DOMAIN b.queue)
  PROVE  /\ ResyncKeepLatestKeyframe(b, K) \in BufferOf(S)
         /\ Len(ResyncKeepLatestKeyframe(b, K).queue) <= Len(b.queue)
         /\ Gone(ResyncKeepLatestKeyframe(b, K)) = Gone(b)
<1> DEFINE cut == IF K = {} THEN 0 ELSE Latest(K) - 1
           r == ResyncKeepLatestKeyframe(b, K)
<1>1. b.queue \in Seq(S) /\ b.pushed \in Nat /\ b.dropped \in Nat
  BY DEF BufferOf
<1>2. Len(b.queue) \in Nat /\ DOMAIN b.queue = 1..Len(b.queue)
  BY <1>1, LenProperties
<1>3. cut \in 0..Len(b.queue)
  <2>1. CASE K = {}
    BY <1>2, <2>1
  <2>2. CASE K # {}
    <3>0. IsFiniteSet(1..Len(b.queue))
      BY <1>2, FS_Interval
    <3>1. IsFiniteSet(K)
      BY <1>2, <3>0, FS_Subset
    <3>2. K \in SUBSET Int
      BY <1>2
    <3>3. Latest(K) \in 1..Len(b.queue)
      BY <1>2, <2>2, <3>1, <3>2, LatestIsGreatest
    <3> QED BY <1>2, <2>2, <3>3
  <2> QED BY <2>1, <2>2
<1> HIDE DEF cut
<1>4. r = [b EXCEPT !.queue = SubSeq(@, cut + 1, Len(@)), !.dropped = @ + cut]
  BY DEF ResyncKeepLatestKeyframe, cut
<1>5. /\ SubSeq(b.queue, cut + 1, Len(b.queue)) \in Seq(S)
      /\ Len(SubSeq(b.queue, cut + 1, Len(b.queue))) = Len(b.queue) - cut
  BY <1>1, <1>3, SuffixProperties
<1>6. /\ r.queue = SubSeq(b.queue, cut + 1, Len(b.queue))
      /\ r.pushed = b.pushed /\ r.dropped = b.dropped + cut
  BY <1>4 DEF BufferOf
<1>7. r \in BufferOf(S)
  <2>1. cut \in Nat
    BY <1>2, <1>3
  <2>2. b = [queue |-> b.queue, pushed |-> b.pushed, dropped |-> b.dropped]
    BY DEF BufferOf
  <2>3. r = [queue |-> SubSeq(b.queue, cut + 1, Len(b.queue)),
             pushed |-> b.pushed, dropped |-> b.dropped + cut]
    BY <1>4, <2>2
  <2>4. b.dropped + cut \in Nat
    BY <1>1, <2>1
  <2> QED BY <1>1, <1>5, <2>3, <2>4 DEF BufferOf
<1> HIDE DEF r
<1>8. Gone(r) = Gone(b)
  BY <1>1, <1>2, <1>3, <1>5, <1>6 DEF Gone
<1> QED BY <1>2, <1>3, <1>5, <1>6, <1>7, <1>8 DEF r

-----------------------------------------------------------------------------
(***************************************************************************)
(* The inductive invariant.                                                *)
(***************************************************************************)
\* What is buffered or in the hands of a running call, and the counters.
BufferInv ==
  /\ buffer \in BufferOf(Packets)
  /\ batch \in Seq(Packets) /\ sent \in 0..Len(batch)
  /\ muxed \in Nat /\ uncounted \in Nat /\ issued \in 0..MaxPush
  /\ call = "none" => batch = <<>>
  /\ BoundedMemory
  /\ Accounting

\* The muxer, the codec caches and the saved clock.
TimebaseType == [origin : Int \cup {None}, last : [Tracks -> Int]]

MuxInv ==
  /\ muxer \in MuxerType \cup {None}
  /\ codecs \in CodecsType
  /\ timebase \in TimebaseType \cup {None}
  /\ metadata_written \in BOOLEAN /\ awaiting_keyframe \in BOOLEAN
  /\ call \in {"none", "headers", "tick", "finish"} /\ outcome \in {"ok", "err"}
  /\ fails \in 0..MaxFail /\ conn \in 0..MaxConn /\ epoch \in 0..conn
  /\ call # "none" => muxer \in MuxerType

-----------------------------------------------------------------------------
(***************************************************************************)
(* Packets and batches.                                                    *)
(***************************************************************************)

\* A packet has the fields of its shape, and an integer timestamp.
LEMMA PacketType ==
  ASSUME NEW p \in Packets
  PROVE  /\ p.kind \in Tracks /\ p.key \in BOOLEAN /\ p.dts \in Int
         /\ p.inband \in Configs \cup {None}
<1>1. PICK id \in 1..MaxPush, s \in Shapes : p = Packet(id, s)
  BY DEF Packets
<1>2. p.kind = s.kind /\ p.key = s.key /\ p.inband = s.inband /\ p.dts = Step * id + s.dts
  BY <1>1 DEF Packet
<1>3. Step * id + s.dts \in Int
  <2>1. Step \in Int /\ id \in Int /\ s.dts \in Int
    BY BoundsAssumption, ShapesAssumption
  <2> QED BY <2>1
<1> QED BY <1>2, <1>3, ShapesAssumption

\* The order of the sort: by DTS, then by arrival.
Before(q, i, j) == q[i].dts < q[j].dts \/ (q[i].dts = q[j].dts /\ i <= j)

\* The batch drain_for_mux hands out: as many packets as were kept, each of
\* them one of the queue, and in order.  Ranks in the order by (DTS, arrival)
\* are distinct, hence every rank is taken.
LEMMA SortedByDtsProperties ==
  ASSUME NEW q \in Seq(Packets), NEW kept \in SUBSET DOMAIN q
  PROVE  /\ SortedByDts(q, kept) \in Seq(Packets)
         /\ Len(SortedByDts(q, kept)) = Cardinality(kept)
         /\ Cardinality(kept) \in 0..Len(q)
         /\ \E f \in [1..Cardinality(kept) -> kept] :
              /\ \A r \in 1..Cardinality(kept) : SortedByDts(q, kept)[r] = q[f[r]]
              /\ \A i \in kept : \E r \in 1..Cardinality(kept) : f[r] = i
              /\ \A r1, r2 \in 1..Cardinality(kept) :
                   r1 < r2 => f[r1] # f[r2] /\ Before(q, f[r1], f[r2])
<1> DEFINE n == Cardinality(kept)
           upTo(i) == {j \in kept : \/ q[j].dts < q[i].dts
                                    \/ q[j].dts = q[i].dts /\ j <= i}
           rank == [i \in kept |-> Cardinality(upTo(i))]
<1>1. DOMAIN q = 1..Len(q) /\ Len(q) \in Nat
  BY LenProperties
<1>2. IsFiniteSet(DOMAIN q) /\ Cardinality(DOMAIN q) = Len(q)
  <2>1. \A k \in Nat : IsFiniteSet(1..k) /\ Cardinality(1..k) = k
    BY FS_Interval
  <2> QED BY <1>1, <2>1
<1>3. IsFiniteSet(kept) /\ n \in Nat /\ n <= Len(q)
  BY <1>2, FS_Subset, FS_CardinalityType
<1>4. \A i \in kept : q[i] \in Packets /\ q[i].dts \in Int /\ i \in Int
  BY <1>1, ElementOfSeq, PacketType
<1>5. \A i \in kept : upTo(i) \in SUBSET kept /\ i \in upTo(i)
  BY <1>4
<1>6. ASSUME NEW i \in kept PROVE IsFiniteSet(upTo(i)) /\ Cardinality(upTo(i)) \in 1..n
  <2>1. upTo(i) \in SUBSET kept /\ upTo(i) # {}
    BY <1>5
  <2> HIDE DEF upTo, n
  <2>2. IsFiniteSet(upTo(i)) /\ Cardinality(upTo(i)) <= Cardinality(kept)
    BY <1>3, <2>1, FS_Subset
  <2>3. Cardinality(upTo(i)) \in Nat /\ Cardinality(upTo(i)) # 0
    BY <2>1, <2>2, FS_CardinalityType, FS_EmptySet
  <2> QED BY <1>3, <2>2, <2>3 DEF n
<1>7. ASSUME NEW i \in kept, NEW j \in kept, Cardinality(upTo(i)) = Cardinality(upTo(j))
      PROVE  i = j
  <2>1. upTo(i) \subseteq upTo(j) \/ upTo(j) \subseteq upTo(i)
    <3>1. CASE q[i].dts < q[j].dts \/ (q[i].dts = q[j].dts /\ i <= j)
      BY <3>1, <1>4
    <3>2. CASE q[j].dts < q[i].dts \/ (q[i].dts = q[j].dts /\ j <= i)
      BY <3>2, <1>4
    <3> QED BY <3>1, <3>2, <1>4
  <2>2. upTo(i) = upTo(j)
    <3> HIDE DEF upTo
    <3> QED BY <1>6, <1>7, <2>1, FS_Subset
  <2>3. i \in upTo(j) /\ j \in upTo(i)
    BY <1>5, <2>2
  <2> QED BY <1>4, <2>3
<1>8. rank \in Injection(kept, 1..n)
  <2> HIDE DEF upTo, n
  <2> QED BY <1>6, <1>7 DEF Injection, IsInjective
<1>9. rank \in Surjection(kept, 1..n)
  <2>1. IsFiniteSet(1..n) /\ Cardinality(1..n) = n
    BY <1>3, FS_Interval
  <2> HIDE DEF rank
  <2> QED BY <1>8, <2>1, FS_Injection
<1>10. ASSUME NEW r \in 1..n
       PROVE  q[CHOOSE i \in kept : Cardinality(upTo(i)) = r] \in Packets
  <2>1. \E i \in kept : Cardinality(upTo(i)) = r
    <3> HIDE DEF upTo, n
    <3> QED BY <1>9 DEF Surjection
  <2> HIDE DEF upTo
  <2> QED BY <1>4, <2>1
<1>11. SortedByDts(q, kept) = [r \in 1..n |-> q[CHOOSE i \in kept : Cardinality(upTo(i)) = r]]
  BY DEF SortedByDts
<1> DEFINE f == [r \in 1..n |-> CHOOSE i \in kept : Cardinality(upTo(i)) = r]
<1>12. ASSUME NEW r \in 1..n PROVE f[r] \in kept /\ Cardinality(upTo(f[r])) = r
  <2>1. \E i \in kept : Cardinality(upTo(i)) = r
    <3> HIDE DEF upTo, n
    <3> QED BY <1>9 DEF Surjection
  <2> HIDE DEF upTo
  <2> QED BY <2>1
<1>13. \A i \in kept : f[Cardinality(upTo(i))] = i
  <2> HIDE DEF upTo, n, f
  <2> QED BY <1>6, <1>7, <1>12
<1>14. ASSUME NEW i \in kept, NEW j \in kept, Cardinality(upTo(i)) < Cardinality(upTo(j))
       PROVE  Before(q, i, j)
  <2>1. Before(q, i, j) \/ Before(q, j, i)
    BY <1>4 DEF Before
  <2>2. Before(q, j, i) => upTo(j) \subseteq upTo(i)
    BY <1>4 DEF Before
  <2> HIDE DEF upTo, n
  <2>3. upTo(j) \subseteq upTo(i) => Cardinality(upTo(j)) <= Cardinality(upTo(i))
    BY <1>6, FS_Subset
  <2>4. Cardinality(upTo(i)) \in Nat /\ Cardinality(upTo(j)) \in Nat
    BY <1>3, <1>6
  <2> QED BY <1>14, <2>1, <2>2, <2>3, <2>4
<1>15. SortedByDts(q, kept) = [r \in 1..n |-> q[f[r]]]
  BY <1>11
<1> HIDE DEF upTo, n, f
<1>16. ASSUME NEW r1 \in 1..n, NEW r2 \in 1..n, r1 < r2
       PROVE  f[r1] # f[r2] /\ Before(q, f[r1], f[r2])
  <2>1. /\ f[r1] \in kept /\ f[r2] \in kept
        /\ Cardinality(upTo(f[r1])) = r1 /\ Cardinality(upTo(f[r2])) = r2
    BY <1>12
  <2>2. r1 # r2
    BY <1>3, <1>16
  <2> QED BY <1>14, <1>16, <2>1, <2>2
<1>17. SortedByDts(q, kept) \in [1..n -> Packets]
  BY <1>10, <1>11
<1>18. SortedByDts(q, kept) \in Seq(Packets) /\ DOMAIN SortedByDts(q, kept) = 1..n
  BY <1>3, <1>17
<1>19. f \in [1..n -> kept] /\ \A r \in 1..n : SortedByDts(q, kept)[r] = q[f[r]]
  BY <1>12, <1>15 DEF f
<1>20. \A i \in kept : \E r \in 1..n : f[r] = i
  BY <1>6, <1>13
<1> QED BY <1>3, <1>18, <1>16, <1>19, <1>20, LenProperties DEF n

\* The packets of a batch not yet sent.
LEMMA UnsentProperties ==
  ASSUME batch \in Seq(Packets), sent \in 0..Len(batch)
  PROVE  Unsent \in Seq(Packets) /\ Len(Unsent) = Len(batch) - sent
BY SuffixProperties DEF Unsent

\* The next packet of a batch is one.
LEMMA NextPacketType ==
  ASSUME batch \in Seq(Packets), sent \in 0..Len(batch), sent < Len(batch)
  PROVE  NextPacket \in Packets
<1>1. Len(batch) \in Nat
  BY LenProperties
<1>2. sent + 1 \in 1..Len(batch)
  BY <1>1
<1> QED BY <1>2, ElementOfSeq DEF NextPacket

\* resync, detach_transport and the drop policy: the queue gets no longer.
LEMMA BufferResync ==
  ASSUME NEW b \in BufferOf(Packets)
  PROVE  /\ Resync(b) \in BufferOf(Packets)
         /\ Len(Resync(b).queue) <= Len(b.queue)
         /\ Gone(Resync(b)) = Gone(b)
<1>1. Keyframes(b.queue) \in SUBSET (DOMAIN b.queue)
  BY DEF Keyframes
<1> QED BY <1>1, ResyncProperties DEF Resync

-----------------------------------------------------------------------------
(***************************************************************************)
(* The queue and the batch.                                                *)
(***************************************************************************)
bufferVars == <<buffer, batch, sent, muxed, uncounted, issued, call>>

\* Accounting in the terms of Gone.
LEMMA AccountingAsGone ==
  ASSUME BufferInv
  PROVE  Gone(buffer) = muxed + Len(batch) + uncounted
<1>1. /\ buffer.pushed \in Nat /\ buffer.dropped \in Nat
      /\ buffer.queue \in Seq(Packets) /\ batch \in Seq(Packets)
      /\ muxed \in Nat /\ uncounted \in Nat
  BY DEF BufferInv, BufferOf
<1>2. Len(buffer.queue) \in Nat /\ Len(batch) \in Nat
  BY <1>1, LenProperties
<1> DEFINE p == buffer.pushed
           d == buffer.dropped
           n == Len(buffer.queue)
           k == Len(batch)
<1>3. p = muxed + d + n + k + uncounted
  BY DEF BufferInv, Accounting
<1>4. p \in Nat /\ d \in Nat /\ n \in Nat /\ k \in Nat /\ muxed \in Nat /\ uncounted \in Nat
  BY <1>1, <1>2
<1>5. Gone(buffer) = p - d - n
  BY DEF Gone
<1> HIDE DEF p, d, n, k
<1>6. p - d - n = muxed + k + uncounted
  BY <1>3, <1>4
<1> QED BY <1>5, <1>6 DEF k

\* A call that only replaces the buffer by one that fits and has lost nothing
\* uncounted keeps the invariant.
LEMMA BufferReplaced ==
  ASSUME BufferInv, batch = <<>>,
         buffer' \in BufferOf(Packets), Len(buffer'.queue) <= Capacity,
         Gone(buffer') = Gone(buffer), issued' \in 0..MaxPush,
         UNCHANGED <<batch, sent, muxed, uncounted, call>>
  PROVE  BufferInv'
<1>1. batch' = <<>> /\ Len(batch') = 0 /\ sent = 0 /\ sent' = 0
  BY DEF BufferInv
<1>2. /\ buffer'.pushed \in Nat /\ buffer'.dropped \in Nat /\ Len(buffer'.queue) \in Nat
      /\ muxed \in Nat /\ uncounted \in Nat
  BY LenProperties DEF BufferInv, BufferOf
<1>3. Gone(buffer') = muxed + uncounted
  BY AccountingAsGone, <1>2
<1>4. Accounting'
  <2> DEFINE p == buffer'.pushed
             d == buffer'.dropped
             n == Len(buffer'.queue)
  <2>1. p - d - n = muxed + uncounted
    BY <1>3 DEF Gone
  <2>2. muxed' = muxed /\ uncounted' = uncounted
    OBVIOUS
  <2>3. p \in Nat /\ d \in Nat /\ n \in Nat /\ muxed \in Nat /\ uncounted \in Nat
    BY <1>2
  <2> HIDE DEF p, d, n
  <2>4. p = muxed + d + n + 0 + uncounted
    BY <2>1, <2>3
  <2> QED BY <1>1, <2>2, <2>4 DEF Accounting, p, d, n
<1>5. BoundedMemory'
  BY <1>1, <1>2 DEF BoundedMemory
<1> QED BY <1>1, <1>4, <1>5 DEF BufferInv

\* A push, which evicts the oldest, keeps budget and accounting.
LEMMA PushKeepsBuffer ==
  ASSUME BufferInv, NEW shapes \in Seq(Shapes), Push(shapes)
  PROVE  BufferInv'
<1> DEFINE items == [i \in DOMAIN shapes |-> Packet(issued + i, shapes[i])]
           b == PushAll(buffer, items)
<1>1. /\ batch = <<>> /\ issued \in Nat /\ MaxPush \in Nat
      /\ buffer \in BufferOf(Packets)
  BY BoundsAssumption DEF BufferInv, Push, Unlocked
<1>2. Len(shapes) \in Nat /\ DOMAIN shapes = 1..Len(shapes)
  BY LenProperties
<1>3. ASSUME NEW i \in DOMAIN shapes PROVE Packet(issued + i, shapes[i]) \in Packets
  <2>1. shapes[i] \in Shapes
    BY <1>2, ElementOfSeq
  <2>2. issued + i \in 1..MaxPush
    BY <1>1, <1>2 DEF Push
  <2> QED BY <2>1, <2>2 DEF Packets
<1>4. items \in Seq(Packets)
  BY <1>2, <1>3, IsASeq
<1>5. /\ b \in BufferOf(Packets) /\ Len(b.queue) <= Capacity
      /\ Gone(b) = Gone(buffer)
  BY <1>1, <1>4, PushAllProperties
<1>6. buffer' = EnforceDropPolicy(b)
  BY DEF Push
<1> HIDE DEF b
<1>7. /\ buffer' \in BufferOf(Packets) /\ Len(buffer'.queue) <= Capacity
      /\ Gone(buffer') = Gone(buffer)
  <2>1. /\ Resync(b) \in BufferOf(Packets)
        /\ Len(Resync(b).queue) <= Len(b.queue) /\ Gone(Resync(b)) = Gone(b)
    BY <1>5, BufferResync
  <2>2. Len(b.queue) \in Nat /\ Len(Resync(b).queue) \in Nat /\ Capacity \in Nat
    BY <1>5, <2>1, LenProperties, CapacityAssumption DEF BufferOf
  <2> QED BY <1>5, <1>6, <2>1, <2>2 DEF EnforceDropPolicy
<1>8. issued' \in 0..MaxPush
  BY <1>1, <1>2 DEF Push
<1> QED BY <1>1, <1>7, <1>8, BufferReplaced DEF Push

\* A cut to the newest keyframe keeps budget and accounting.
LEMMA ResyncKeepsBuffer ==
  ASSUME BufferInv, Unlocked, buffer' = Resync(buffer),
         UNCHANGED <<batch, sent, muxed, uncounted, issued, call>>
  PROVE  BufferInv'
<1>1. batch = <<>> /\ buffer \in BufferOf(Packets) /\ Len(buffer.queue) <= Capacity
  BY LenProperties, CapacityAssumption DEF BufferInv, Unlocked, BoundedMemory, BufferOf
<1>2. /\ buffer' \in BufferOf(Packets) /\ Len(buffer'.queue) <= Len(buffer.queue)
      /\ Gone(buffer') = Gone(buffer)
  BY <1>1, BufferResync
<1>3. Len(buffer'.queue) \in Nat /\ Len(buffer.queue) \in Nat /\ Capacity \in Nat
  BY <1>1, <1>2, LenProperties, CapacityAssumption DEF BufferOf
<1>4. issued' \in 0..MaxPush
  BY DEF BufferInv
<1> QED BY <1>1, <1>2, <1>3, <1>4, BufferReplaced

\* tick and finish take everything that is buffered; what they discard while a
\* keyframe is awaited is counted.
LEMMA DrainKeepsBuffer ==
  ASSUME BufferInv, Unlocked, DrainForMux, call' # "none",
         UNCHANGED <<muxed, uncounted, issued>>
  PROVE  BufferInv'
<1> DEFINE q == buffer.queue
           kept == Kept(q)
           n == Cardinality(kept)
<1>1. /\ batch = <<>> /\ Len(batch) = 0 /\ sent = 0
      /\ buffer \in BufferOf(Packets) /\ q \in Seq(Packets)
      /\ buffer.pushed \in Nat /\ buffer.dropped \in Nat
      /\ muxed \in Nat /\ uncounted \in Nat
  BY DEF BufferInv, Unlocked, BufferOf
<1>2. kept \in SUBSET DOMAIN q /\ Len(q) \in Nat
  BY <1>1, LenProperties DEF Kept
<1>3. batch' = SortedByDts(q, kept) /\ sent' = 0 /\ buffer' = TakeAll(buffer, Len(q) - n)
  BY DEF DrainForMux
<1> HIDE DEF q, kept, n
<1>4. batch' \in Seq(Packets) /\ Len(batch') = n /\ n \in 0..Len(q)
  BY <1>1, <1>2, <1>3, SortedByDtsProperties DEF n
<1>5. buffer' = [queue |-> <<>>, pushed |-> buffer.pushed,
                 dropped |-> buffer.dropped + (Len(q) - n)]
  BY <1>1, <1>3 DEF TakeAll, BufferOf
<1>6. buffer.dropped + (Len(q) - n) \in Nat
  BY <1>1, <1>2, <1>4
<1>7. buffer' \in BufferOf(Packets)
  BY <1>1, <1>5, <1>6, EmptySeq DEF BufferOf
<1>8. Len(buffer'.queue) = 0
  BY <1>5, EmptySeq
<1>9. Len(q) <= Capacity /\ buffer.pushed = muxed + buffer.dropped + Len(q) + uncounted
  BY <1>1, <1>2, CapacityAssumption DEF BufferInv, BoundedMemory, Accounting, q
<1>10. BoundedMemory'
  BY <1>2, <1>3, <1>4, <1>8, <1>9, CapacityAssumption DEF BoundedMemory
<1>11. Accounting'
  BY <1>1, <1>2, <1>4, <1>5, <1>8, <1>9 DEF Accounting
<1> QED BY <1>3, <1>4, <1>7, <1>10, <1>11 DEF BufferInv

\* The batch in progress: another packet is sent, or nothing changes.
LEMMA SendKeepsBuffer ==
  ASSUME BufferInv, call' # "none" \/ call' = call,
         sent' = sent \/ (sent < Len(batch) /\ sent' = sent + 1),
         UNCHANGED <<buffer, batch, muxed, uncounted, issued>>
  PROVE  BufferInv'
<1>1. Len(batch) \in Nat /\ Len(buffer.queue) \in Nat /\ sent \in 0..Len(batch)
  BY LenProperties DEF BufferInv, BufferOf
<1>2. sent' \in 0..Len(batch) /\ Len(batch) - sent' <= Len(batch) - sent
  BY <1>1
<1>3. BoundedMemory'
  BY <1>1, <1>2, CapacityAssumption DEF BufferInv, BoundedMemory
<1> QED BY <1>2, <1>3 DEF BufferInv, Accounting

\* A tick that fails hands the unsent packets back: the queue they return to
\* has room, because nothing was pushed since they left it.
LEMMA AbortKeepsBuffer ==
  ASSUME BufferInv, AbortTick
  PROVE  BufferInv'
<1>1. /\ batch \in Seq(Packets) /\ buffer.queue \in Seq(Packets)
      /\ buffer.pushed \in Nat /\ buffer.dropped \in Nat
      /\ muxed \in Nat /\ uncounted \in Nat /\ sent \in 0..Len(batch)
  BY DEF BufferInv, BufferOf
<1>2. Len(batch) \in Nat /\ Len(buffer.queue) \in Nat
  BY <1>1, LenProperties
<1>3. Unsent \in Seq(Packets) /\ Len(Unsent) = Len(batch) - sent
  BY <1>1, UnsentProperties
<1>4. /\ Unsent \o buffer.queue \in Seq(Packets)
      /\ Len(Unsent \o buffer.queue) = (Len(batch) - sent) + Len(buffer.queue)
  <2>1. /\ Unsent \o buffer.queue \in Seq(Packets)
        /\ Len(Unsent \o buffer.queue) = Len(Unsent) + Len(buffer.queue)
    BY <1>1, <1>3, ConcatProperties
  <2> QED BY <1>3, <2>1
<1>5. buffer' = [queue |-> Unsent \o buffer.queue, pushed |-> buffer.pushed,
                 dropped |-> buffer.dropped]
  BY DEF AbortTick, RestoreFront, BufferInv, BufferOf
<1>6. buffer' \in BufferOf(Packets)
  BY <1>1, <1>4, <1>5 DEF BufferOf
<1>7. batch' = <<>> /\ sent' = 0 /\ Len(batch') = 0 /\ muxed' = muxed + sent /\ call' = "none"
  BY DEF AbortTick, Release
<1>8. BoundedMemory'
  BY <1>1, <1>2, <1>4, <1>5, <1>7 DEF BoundedMemory, BufferInv
<1>9. Accounting'
  <2>1. buffer.pushed = muxed + buffer.dropped + Len(buffer.queue) + Len(batch) + uncounted
    BY DEF BufferInv, Accounting
  <2>2. /\ buffer'.pushed = buffer.pushed /\ buffer'.dropped = buffer.dropped
        /\ Len(buffer'.queue) = (Len(batch) - sent) + Len(buffer.queue)
        /\ uncounted' = uncounted
    BY <1>4, <1>5 DEF AbortTick
  <2> QED BY <1>1, <1>2, <1>7, <2>1, <2>2 DEF Accounting
<1>10. muxed' \in Nat /\ UNCHANGED <<issued, uncounted>>
  BY <1>1, <1>2, <1>7 DEF AbortTick
<1> QED BY <1>6, <1>7, <1>8, <1>9, <1>10, EmptySeq DEF BufferInv

\* A call that ends well, or a finish that fails, accounts for its whole batch.
LEMMA ReleaseKeepsBuffer ==
  ASSUME BufferInv, NEW result, Release(result),
         \/ muxed' = muxed + Len(batch) /\ uncounted' = uncounted
         \/ uncounted' = uncounted + Len(batch) /\ muxed' = muxed,
         UNCHANGED <<buffer, issued>>
  PROVE  BufferInv'
<1>1. /\ batch \in Seq(Packets) /\ buffer.queue \in Seq(Packets)
      /\ buffer.pushed \in Nat /\ buffer.dropped \in Nat
      /\ muxed \in Nat /\ uncounted \in Nat /\ sent \in 0..Len(batch)
  BY DEF BufferInv, BufferOf
<1>2. Len(batch) \in Nat /\ Len(buffer.queue) \in Nat
  BY <1>1, LenProperties
<1>3. batch' = <<>> /\ sent' = 0 /\ Len(batch') = 0 /\ call' = "none"
  BY DEF Release
<1>4. muxed' \in Nat /\ uncounted' \in Nat
  BY <1>1, <1>2
<1>5. BoundedMemory'
  BY <1>1, <1>2, <1>3, CapacityAssumption DEF BoundedMemory, BufferInv
<1>6. Accounting'
  <2> DEFINE n == Len(batch)
             k == Len(buffer.queue)
             total == buffer.pushed
             lost == buffer.dropped
  <2>1. total = muxed + lost + k + n + uncounted
    BY DEF Accounting, BufferInv
  <2>2. /\ n \in Nat /\ k \in Nat /\ total \in Nat /\ lost \in Nat
        /\ muxed \in Nat /\ uncounted \in Nat
    BY <1>1, <1>2
  <2>3. \/ muxed' = muxed + n /\ uncounted' = uncounted
        \/ uncounted' = uncounted + n /\ muxed' = muxed
    OBVIOUS
  <2> HIDE DEF n, k, total, lost
  <2>4. total = muxed' + lost + k + 0 + uncounted'
    BY <2>1, <2>2, <2>3
  <2> QED BY <1>3, <2>4 DEF Accounting, k, total, lost
<1> QED BY <1>3, <1>4, <1>5, <1>6, EmptySeq DEF BufferInv

\* Every step keeps the queue's half: one case per kind of call.
LEMMA BufferStep ==
  ASSUME BufferInv, [EngineNext]_engineVars
  PROVE  BufferInv'
<1>1. CASE PushCall
  <2>1. ASSUME NEW s \in Shapes, Push(<<s>>) PROVE BufferInv'
    <3>1. <<s>> \in Seq(Shapes)
      OBVIOUS
    <3> QED BY <2>1, <3>1, PushKeepsBuffer
  <2>2. ASSUME NEW s1 \in Shapes, NEW s2 \in Shapes, Push(<<s1, s2>>) PROVE BufferInv'
    <3>1. <<s1, s2>> \in Seq(Shapes)
      OBVIOUS
    <3> QED BY <2>2, <3>1, PushKeepsBuffer
  <2> QED BY <1>1, <2>1, <2>2 DEF PushCall
<1>2. CASE ResyncCall
  BY <1>2, ResyncKeepsBuffer DEF ResyncCall
<1>3. CASE DetachTransport
  BY <1>3, ResyncKeepsBuffer DEF DetachTransport
<1>4. CASE Reset
  <2>1. /\ batch' = <<>> /\ Len(batch') = 0 /\ sent' = 0 /\ muxed' = 0 /\ uncounted' = 0
        /\ buffer' = [queue |-> <<>>, pushed |-> 0, dropped |-> 0]
    BY <1>4, EmptySeq DEF Reset, BufferInv, Unlocked, EmptyBuffer
  <2>2. buffer' \in BufferOf(Packets) /\ Len(buffer'.queue) = 0
    BY <2>1, EmptySeq DEF BufferOf
  <2>3. BoundedMemory' /\ Accounting'
    BY <2>1, <2>2, CapacityAssumption DEF BoundedMemory, Accounting
  <2>4. issued' \in 0..MaxPush
    BY <1>4 DEF Reset, BufferInv
  <2> QED BY <2>1, <2>2, <2>3, <2>4, EmptySeq DEF BufferInv
<1>5. CASE \/ AttachTransport \/ ConfigureCall \/ TickNoTransport \/ TickMaintainFails
           \/ FinishNoTransport \/ \E o \in Outputs : AttachOutput(o)
  <2>1. UNCHANGED <<buffer, batch, sent, muxed, uncounted, issued, call>>
    BY <1>5 DEF AttachTransport, ConfigureCall, ConfigureCodecs, TickNoTransport,
                TickMaintainFails, FinishNoTransport, AttachOutput
  <2> QED BY <2>1, SendKeepsBuffer
<1>6. CASE TickBegin \/ FinishBegin
  BY <1>6, DrainKeepsBuffer DEF TickBegin, FinishBegin
<1>7. CASE TickHeaders \/ TickSend \/ FinishSend
  <2>1. /\ call' # "none"
        /\ sent' = sent \/ (sent < Len(batch) /\ sent' = sent + 1)
        /\ UNCHANGED <<buffer, batch, muxed, uncounted, issued>>
    BY <1>7 DEF TickHeaders, TickSend, FinishSend
  <2> QED BY <2>1, SendKeepsBuffer
<1>8. CASE TickHeadersFail \/ TickNoConfig \/ TickSendFails \/ TickFlushFails
  BY <1>8, AbortKeepsBuffer DEF TickHeadersFail, TickNoConfig, TickSendFails, TickFlushFails
<1>9. CASE TickEnd
  BY <1>9, ReleaseKeepsBuffer DEF TickEnd
<1>10. CASE FinishFails
  <2>1. CASE UNCHANGED muxed
    BY <1>10, <2>1, ReleaseKeepsBuffer DEF FinishFails
  <2> QED BY <1>10, <2>1 DEF FinishFails
<1>11. CASE FinishEnd
  <2>1. PICK result : Release(result)
    BY <1>11 DEF FinishEnd
  <2> QED BY <1>11, <2>1, ReleaseKeepsBuffer DEF FinishEnd
<1>12. CASE UNCHANGED engineVars
  <2>1. UNCHANGED <<buffer, batch, sent, muxed, uncounted, issued, call>>
    BY <1>12 DEF engineVars
  <2> QED BY <2>1, SendKeepsBuffer
<1> QED BY <1>1, <1>2, <1>3, <1>4, <1>5, <1>6, <1>7, <1>8, <1>9, <1>10, <1>11, <1>12
        DEF EngineNext, OptionalCalls, Tick, Finish

-----------------------------------------------------------------------------
(***************************************************************************)
(* The muxer.                                                              *)
(***************************************************************************)
\* A new muxer, one that resumes and what it hands on have their types.
LEMMA AttachedMuxerType ==
  /\ NewMuxer \in MuxerType
  /\ \A tb \in TimebaseType : RestoreTimebase(NewMuxer, tb) \in MuxerType
  /\ \A m \in MuxerType : TimebaseOf(m) \in TimebaseType
BY NeverAssumption DEF NewMuxer, RestoreTimebase, TimebaseOf, MuxerType, TimebaseType

\* init_codecs leaves a muxer.
LEMMA InitCodecsType ==
  ASSUME NEW m \in MuxerType, NEW avcc \in Configs \cup {None}, NEW asc \in Configs \cup {None}
  PROVE  InitCodecs(m, avcc, asc) \in MuxerType
BY DEF InitCodecs, MuxerType

\* Sniffing, re-anchoring and stamping a packet keep the muxer a muxer: the
\* origin and the high-water marks stay integers.
LEMMA WriteType ==
  ASSUME NEW m \in MuxerType, NEW p \in Packets
  PROVE  /\ Sniff(m, p) \in MuxerType
         /\ Anchored(m, p) \in MuxerType
         /\ Stamped(m, p) \in MuxerType
<1>1. p.kind \in Tracks /\ p.dts \in Int /\ p.inband \in Configs \cup {None}
  BY PacketType
<1>2. /\ m.origin \in Int \cup {None} /\ m.last \in [Tracks -> Int]
      /\ m.last[p.kind] \in Int
  BY <1>1 DEF MuxerType
<1>3. Sniff(m, p) \in MuxerType
  BY <1>1 DEF Sniff, MuxerType
<1>4. OriginFor(m, p) \in Int /\ Normalized(m, p) \in Int /\ Stamp(m, p) \in Int
  BY <1>1, <1>2 DEF OriginFor, Normalized, Stamp, Larger
<1>5. Stamped(m, p) \in MuxerType
  BY <1>1, <1>2, <1>4 DEF Stamped, MuxerType
<1>6. p.dts - Larger(m.last[p.kind], 0) \in Int
  BY <1>1, <1>2 DEF Larger
<1>7. Anchored(m, p) \in MuxerType
  BY <1>6 DEF Anchored, Rebase, MuxerType
<1> QED BY <1>3, <1>5, <1>7

\* Writing packet p, or its sequence header alone, keeps the muxer a muxer.
LEMMA SendType ==
  ASSUME BufferInv, MuxInv, call # "none", sent < Len(batch)
  PROVE  /\ Sniff(muxer, NextPacket) \in MuxerType
         /\ Stamped(Sniff(muxer, NextPacket), NextPacket) \in MuxerType
         /\ Stamped(Anchored(Sniff(muxer, NextPacket), NextPacket), NextPacket) \in MuxerType
<1>1. muxer \in MuxerType /\ NextPacket \in Packets
  BY NextPacketType DEF MuxInv, BufferInv
<1> QED BY <1>1, WriteType

\* What a call has to keep of MuxInv when it leaves the clocks alone.
LEMMA MuxReplaced ==
  ASSUME MuxInv, muxer' \in MuxerType \cup {None}, codecs' \in CodecsType,
         fails' = fails \/ TransportError,
         metadata_written' \in BOOLEAN, awaiting_keyframe' \in BOOLEAN,
         call' \in {"none", "headers", "tick", "finish"}, outcome' \in {"ok", "err"},
         call' = "none" \/ muxer' \in MuxerType,
         UNCHANGED <<timebase, conn, epoch>>
  PROVE  MuxInv'
<1>1. fails' \in 0..MaxFail
  BY BoundsAssumption DEF MuxInv, TransportError
<1> QED BY <1>1 DEF MuxInv

\* harvest, as detach_transport and tick do it.
LEMMA HarvestType ==
  ASSUME NEW c \in CodecsType, NEW m \in MuxerType
  PROVE  [avcc |-> IF c.avcc = None THEN m.avcc ELSE c.avcc,
          asc  |-> IF c.asc  = None THEN m.asc  ELSE c.asc] \in CodecsType
BY DEF CodecsType, MuxerType

\* Every step keeps the muxer's half.
LEMMA MuxStep ==
  ASSUME BufferInv, MuxInv, [EngineNext]_engineVars
  PROVE  MuxInv'
<1> USE DEF Unlocked, Release
<1>0. /\ muxer \in MuxerType \cup {None} /\ codecs \in CodecsType
      /\ metadata_written \in BOOLEAN /\ awaiting_keyframe \in BOOLEAN
      /\ call \in {"none", "headers", "tick", "finish"} /\ outcome \in {"ok", "err"}
      /\ codecs.avcc \in Configs \cup {None} /\ codecs.asc \in Configs \cup {None}
      /\ call # "none" => muxer \in MuxerType
  BY DEF MuxInv, CodecsType
<1>1. CASE PushCall \/ ResyncCall \/ TickNoTransport \/ TickMaintainFails
           \/ FinishNoTransport \/ \E o \in Outputs : AttachOutput(o)
  <2>1. /\ UNCHANGED <<muxer, codecs, metadata_written, awaiting_keyframe, call,
                        timebase, conn, epoch>>
        /\ outcome' = outcome \/ outcome' \in {"ok", "err"}
        /\ fails' = fails \/ TransportError
    BY <1>1 DEF PushCall, Push, ResyncCall, TickNoTransport, TickMaintainFails,
                FinishNoTransport, AttachOutput
  <2> QED BY <1>0, <2>1, MuxReplaced
<1>2. CASE AttachTransport
  <2>1. muxer' \in MuxerType
    BY <1>2, AttachedMuxerType DEF AttachTransport, MuxInv
  <2>2. conn' \in 0..MaxConn /\ epoch' \in 0..conn'
    BY <1>2, BoundsAssumption DEF AttachTransport, MuxInv
  <2> QED BY <1>2, <2>1, <2>2 DEF AttachTransport, MuxInv
<1>3. CASE DetachTransport
  <2>1. codecs' \in CodecsType
    BY <1>0, <1>3, HarvestType DEF DetachTransport
  <2>2. timebase' \in TimebaseType \cup {None}
    BY <1>0, <1>3, AttachedMuxerType DEF DetachTransport, MuxInv
  <2>3. muxer' = None /\ awaiting_keyframe' \in BOOLEAN /\ call' = "none"
    BY <1>3 DEF DetachTransport
  <2> QED BY <1>3, <2>1, <2>2, <2>3 DEF DetachTransport, MuxInv
<1>4. CASE ConfigureCall
  <2>1. PICK avcc \in Configs \cup {None}, asc \in Configs \cup {None} :
             ConfigureCodecs(avcc, asc)
    BY <1>4 DEF ConfigureCall
  <2>2. codecs' \in CodecsType
    BY <1>0, <2>1 DEF ConfigureCodecs, CodecsType
  <2>3. muxer' \in MuxerType \cup {None} /\ (muxer' \in MuxerType \/ UNCHANGED muxer)
    <3>1. CASE UNCHANGED muxer
      BY <1>0, <3>1
    <3>2. CASE muxer # None /\ muxer' = InitCodecs(muxer, avcc, asc)
      BY <1>0, <3>2, InitCodecsType
    <3>3. CASE muxer # None /\ \E done \in {NoCodecs, [avcc |-> avcc, asc |-> None]} :
                                 muxer' = InitCodecs(muxer, done.avcc, done.asc)
      <4>1. /\ InitCodecs(muxer, None, None) \in MuxerType
            /\ InitCodecs(muxer, avcc, None) \in MuxerType
        BY <1>0, <3>3, InitCodecsType
      <4>2. \/ muxer' = InitCodecs(muxer, None, None)
            \/ muxer' = InitCodecs(muxer, avcc, None)
        BY <3>3 DEF NoCodecs
      <4> QED BY <4>1, <4>2
    <3> QED BY <2>1, <3>1, <3>2, <3>3 DEF ConfigureCodecs
  <2>4. fails' = fails \/ TransportError
    BY <2>1 DEF ConfigureCodecs, TornTag
  <2> QED BY <1>0, <2>1, <2>2, <2>3, <2>4, MuxReplaced DEF ConfigureCodecs
<1>5. CASE Reset
  <2>1. codecs' \in CodecsType
    BY <1>5 DEF Reset, NoCodecs, CodecsType
  <2> QED BY <1>0, <1>5, <2>1 DEF Reset, MuxInv
<1>6. CASE TickBegin \/ FinishBegin
  <2>1. muxer \in MuxerType /\ awaiting_keyframe' \in BOOLEAN
    BY <1>0, <1>6 DEF TickBegin, FinishBegin, DrainForMux
  <2> QED BY <1>0, <1>6, <2>1, MuxReplaced DEF TickBegin, FinishBegin
<1>7. CASE TickHeaders
  <2>1. muxer' \in MuxerType
    BY <1>0, <1>7, InitCodecsType DEF TickHeaders
  <2> QED BY <1>0, <1>7, <2>1, MuxReplaced DEF TickHeaders
<1>8. CASE TickHeadersFail
  <2>1. muxer' \in MuxerType
    BY <1>0, <1>8, InitCodecsType DEF TickHeadersFail
  <2> QED BY <1>0, <1>8, <2>1, MuxReplaced DEF TickHeadersFail, TornTag, AbortTick
<1>9. CASE TickSend
  <2>1. muxer' \in MuxerType
    BY <1>9, SendType DEF TickSend
  <2> QED BY <1>0, <1>9, <2>1, MuxReplaced DEF TickSend
<1>10. CASE TickNoConfig \/ TickFlushFails
  <2>1. UNCHANGED muxer /\ (fails' = fails \/ TransportError)
    BY <1>10 DEF TickNoConfig, TickFlushFails, TornTag
  <2> QED BY <1>0, <1>10, <2>1, MuxReplaced DEF TickNoConfig, TickFlushFails, AbortTick
<1>11. CASE TickSendFails
  <2>1. muxer' \in MuxerType
    BY <1>0, <1>11, SendType DEF TickSendFails
  <2> QED BY <1>0, <1>11, <2>1, MuxReplaced DEF TickSendFails, TornTag, AbortTick
<1>12. CASE TickEnd
  <2>1. codecs' \in CodecsType /\ muxer \in MuxerType
    BY <1>0, <1>12, HarvestType DEF TickEnd
  <2> QED BY <1>0, <1>12, <2>1, MuxReplaced DEF TickEnd
<1>13. CASE FinishSend
  <2>1. muxer' \in MuxerType
    BY <1>13, SendType DEF FinishSend
  <2> QED BY <1>0, <1>13, <2>1, MuxReplaced DEF FinishSend
<1>14. CASE FinishFails
  <2>1. muxer' \in MuxerType
    BY <1>0, <1>14, SendType DEF FinishFails
  <2>2. fails' = fails \/ TransportError
    BY <1>14 DEF FinishFails, TornTag
  <2> QED BY <1>0, <1>14, <2>1, <2>2, MuxReplaced DEF FinishFails
<1>15. CASE FinishEnd
  <2>1. fails' = fails \/ TransportError
    BY <1>15 DEF FinishEnd
  <2> QED BY <1>0, <1>15, <2>1, MuxReplaced DEF FinishEnd
<1>16. CASE UNCHANGED engineVars
  BY <1>16 DEF engineVars, MuxInv
<1> QED BY <1>1, <1>2, <1>3, <1>4, <1>5, <1>6, <1>7, <1>8, <1>9, <1>10, <1>11, <1>12,
           <1>13, <1>14, <1>15, <1>16
        DEF EngineNext, OptionalCalls, Tick, Finish

-----------------------------------------------------------------------------
(***************************************************************************)
(* Theorems.                                                               *)
(***************************************************************************)
\* A new engine has an empty buffer and a muxer of its type.
LEMMA InitEstablishes == EngineInit => BufferInv /\ MuxInv
<1> SUFFICES ASSUME EngineInit PROVE BufferInv /\ MuxInv
  OBVIOUS
<1> USE DEF EngineInit
<1>1. BufferInv
  <2>1. buffer = [queue |-> <<>>, pushed |-> 0, dropped |-> 0] /\ batch = <<>>
    BY DEF EmptyBuffer
  <2>2. buffer \in BufferOf(Packets) /\ Len(buffer.queue) = 0 /\ Len(batch) = 0
    BY <2>1, EmptySeq DEF BufferOf
  <2>3. BoundedMemory /\ Accounting
    BY <2>1, <2>2, CapacityAssumption DEF BoundedMemory, Accounting
  <2> QED BY <2>1, <2>2, <2>3, EmptySeq, BoundsAssumption DEF BufferInv
<1>2. MuxInv
  <2>1. codecs \in CodecsType
    BY DEF NoCodecs, CodecsType
  <2>2. fails \in 0..MaxFail /\ conn \in 0..MaxConn /\ epoch \in 0..conn
    BY BoundsAssumption
  <2> QED BY <2>1, <2>2 DEF MuxInv
<1> QED BY <1>1, <1>2

\* The two halves together are inductive.
THEOREM EngineInvariant == EngineSpec => [](BufferInv /\ MuxInv)
<1>1. BufferInv /\ MuxInv /\ [EngineNext]_engineVars => (BufferInv /\ MuxInv)'
  BY BufferStep, MuxStep
<1> QED BY <1>1, InitEstablishes, PTL DEF EngineSpec

\* Everything the engine keeps is well typed, in particular the clocks of the
\* muxer stay integers through every re-anchoring, and a running call always
\* has a muxer.
THEOREM EngineTypeCorrect == EngineSpec => []TypeOK
<1>1. BufferInv /\ MuxInv => TypeOK
  BY DEF BufferInv, MuxInv, TypeOK, BufferOf, TimebaseType
<1> QED BY <1>1, EngineInvariant, PTL

\* The buffer and the batch of the running call never exceed the packet budget,
\* although restore_front checks none.
THEOREM EngineBoundedMemory == EngineSpec => []BoundedMemory
<1>1. BufferInv => BoundedMemory
  BY DEF BufferInv
<1> QED BY <1>1, EngineInvariant, PTL

\* Every packet accepted is muxed, dropped, buffered, in the running batch, or
\* was lost by a finish that reported an error.
THEOREM EngineAccounting == EngineSpec => []Accounting
<1>1. BufferInv => Accounting
  BY DEF BufferInv
<1> QED BY <1>1, EngineInvariant, PTL
=============================================================================
