----------------------------- MODULE HlsProofs ------------------------------
(***************************************************************************)
(* Proofs about module HlsOutput, for every configuration, packet shape    *)
(* and clock.                                                              *)
(*                                                                         *)
(* First the window: it is numbered without gaps and stored, the last      *)
(* playlist is behind it by at most the segment just deleted, and what is  *)
(* in the open segment, and so in the stored ones, is of tracks that the   *)
(* init segment describes.  Then the files of Fmp4, whose reader finds in  *)
(* every media segment the samples that were written, with the lemmas on   *)
(* sums and joined lists that this takes.  Then what a player reads of the *)
(* window: the accepted samples, each in its place, in a row and on time.  *)
(***************************************************************************)
EXTENDS HlsOutput, SequenceTheorems, TLAPS, WellFoundedInduction

-----------------------------------------------------------------------------
(***************************************************************************)
(* Types, as far as the window and the playlist need them.                 *)
(***************************************************************************)
Listing == [name : Nat, duration : Int]

\* The storage with an init segment, media segments and a playlist.
FilesOf(i, s, p) == [init |-> i, segments |-> s, playlist |-> p]

TypeInv ==
  /\ config \subseteq Kinds
  /\ clock \in Int /\ timebase.origin \in Int \cup {None} /\ timebase.last \in Int \cup {None}
  /\ open \in [video : Seq(Sample), audio : Seq(Sample), start : Int \cup {None}]
  /\ HasSamples => open.start \in Int
  /\ accepted \in [Kinds -> Seq(Sample)]
  /\ arriving # None => arriving \in Sample
  /\ pc \in {"idle", "close", "prune", "end", "failed"}
  /\ pc = "close" => HasSamples
  /\ rolled \in [sequence : Nat, window : Seq(Listing), longest : Int]
  /\ files = FilesOf(files.init, files.segments, files.playlist)
  /\ files.playlist # None => files.playlist.window \in Seq(Listing) /\ files.playlist.first \in Int

\* Writing one of the files leaves the others.
LEMMA FilesFields ==
  ASSUME NEW f, NEW i, NEW s, NEW p, f = FilesOf(i, s, p), NEW x
  PROVE  /\ f.init = i /\ f.segments = s /\ f.playlist = p
         /\ [f EXCEPT !.init = x] = FilesOf(x, s, p)
         /\ [f EXCEPT !.segments = x] = FilesOf(i, x, p)
         /\ [f EXCEPT !.playlist = x] = FilesOf(i, s, x)
BY DEF FilesOf

\* The same for the storage itself.
LEMMA FilesWritten ==
  ASSUME TypeInv, NEW x
  PROVE  /\ [files EXCEPT !.init = x] = FilesOf(x, files.segments, files.playlist)
         /\ [files EXCEPT !.segments = x] = FilesOf(files.init, x, files.playlist)
         /\ [files EXCEPT !.playlist = x] = FilesOf(files.init, files.segments, x)
<1> DEFINE i == files.init s == files.segments p == files.playlist
<1>1. files = FilesOf(i, s, p)
  BY DEF TypeInv
<1> HIDE DEF i, s, p
<1>2. /\ [files EXCEPT !.init = x] = FilesOf(x, s, p)
      /\ [files EXCEPT !.segments = x] = FilesOf(i, x, p)
      /\ [files EXCEPT !.playlist = x] = FilesOf(i, s, x)
  BY <1>1, FilesFields
<1> QED BY <1>2 DEF i, s, p

\* The larger of two integers is one, and no less than either.
LEMMA LargerType ==
  ASSUME NEW a \in Int, NEW b \in Int
  PROVE  Larger(a, b) \in Int /\ Larger(a, b) >= a /\ Larger(a, b) >= b
BY DEF Larger

\* Reading the clock keeps the time base a pair of integers.
LEMMA NormalizeType ==
  ASSUME TypeInv, NEW dts \in Int
  PROVE  Normalize(dts).origin \in Int /\ Normalize(dts).last \in Int
<1> USE NoneAssumption, TimeAssumption
<1> DEFINE origin == IF timebase.origin = None THEN dts ELSE timebase.origin
           ts == dts - origin
<1>1. origin \in Int /\ ts \in Int
  BY DEF TypeInv
<1>2. CASE timebase.last = None \/ ts >= timebase.last
  BY <1>1, <1>2 DEF Normalize
<1>3. CASE ~(timebase.last = None \/ ts >= timebase.last)
  <2>1. timebase.last \in Int
    BY <1>3 DEF TypeInv
  <2>2. Larger(timebase.last, 0) \in Int
    <3>1. 0 \in Int
      OBVIOUS
    <3> QED BY <2>1, <3>1, LargerType
  <2>3. Normalize(dts) = IF timebase.last - ts > Tolerance
          THEN [origin |-> dts - Larger(timebase.last, 0), last |-> Larger(timebase.last, 0)]
          ELSE [origin |-> origin, last |-> timebase.last]
    BY <1>3 DEF Normalize
  <2> HIDE DEF origin, ts
  <2> QED BY <1>1, <2>1, <2>2, <2>3
<1> QED BY <1>2, <1>3

\* A record with the fields of a sample is one.
LEMMA SampleType ==
  ASSUME NEW k \in Kinds, NEW d \in Int, NEW c \in Int, NEW b \in BOOLEAN, NEW q \in Seq(Nat)
  PROVE  [kind |-> k, dts |-> d, cts |-> c, sync |-> b, payload |-> q] \in Sample
BY Zenon DEF Sample

\* A segment with one sample more.
LEMMA AppendedType ==
  ASSUME NEW seg \in [video : Seq(Sample), audio : Seq(Sample), start : Int \cup {None}],
         NEW s \in Sample
  PROVE  /\ Appended(seg, s) \in [video : Seq(Sample), audio : Seq(Sample), start : Int \cup {None}]
         /\ Appended(seg, s).start \in Int
         /\ \A t \in Kinds : Appended(seg, s)[t] # <<>> => t = s.kind \/ seg[t] # <<>>
<1> USE NoneAssumption
<1>1. s.kind \in {"video", "audio"} /\ s.dts \in Int
  BY DEF Sample, Kinds
<1>2. seg.video \in Seq(Sample) /\ seg.audio \in Seq(Sample) /\ seg.start \in Int \cup {None}
  OBVIOUS
<1>3. Append(seg.video, s) \in Seq(Sample) /\ Append(seg.audio, s) \in Seq(Sample)
  BY <1>2, AppendProperties
<1>4. CASE s.kind = "video"
  <2>1. Appended(seg, s) = [seg EXCEPT !.video = Append(seg.video, s),
                                       !.start = IF seg.start = None THEN s.dts ELSE seg.start]
    BY <1>4 DEF Appended
  <2> QED BY <1>1, <1>2, <1>3, <1>4, <2>1 DEF Kinds
<1>5. CASE s.kind = "audio"
  <2>1. Appended(seg, s) = [seg EXCEPT !.audio = Append(seg.audio, s),
                                       !.start = IF seg.start = None THEN s.dts ELSE seg.start]
    BY <1>5 DEF Appended
  <2> QED BY <1>1, <1>2, <1>3, <1>5, <2>1 DEF Kinds
<1> QED BY <1>1, <1>4, <1>5

\* The sample that a packet call makes of its packet.
SampleOf(p, dts) ==
  [kind |-> p.kind, dts |-> Normalize(dts).last, cts |-> p.cts,
   sync |-> p.kind = "audio" \/ p.key,
   payload |-> [i \in 1..p.size |-> Len(accepted[p.kind]) + 1]]

\* The fields of the packets that may arrive.
LEMMA ShapeType ==
  ASSUME NEW p \in Shapes
  PROVE  p.kind \in Kinds /\ p.key \in BOOLEAN /\ p.cts \in Int /\ p.size \in Nat
BY ShapesAssumption DEF Kinds

\* The sample of a packet has the kind of the packet.
LEMMA SampleOfType ==
  ASSUME TypeInv, NEW p \in Shapes, NEW dts \in Int
  PROVE  SampleOf(p, dts) \in Sample /\ SampleOf(p, dts).kind = p.kind
<1>1. p.kind \in Kinds /\ p.key \in BOOLEAN /\ p.cts \in Int /\ p.size \in Nat
  BY ShapeType
<1>2. Normalize(dts).last \in Int
  BY NormalizeType
<1>3. accepted[p.kind] \in Seq(Sample)
  BY <1>1 DEF TypeInv
<1>4. Len(accepted[p.kind]) + 1 \in Nat
  BY <1>3, LenProperties
<1> DEFINE q == [i \in 1..p.size |-> Len(accepted[p.kind]) + 1]
           b == p.kind = "audio" \/ p.key
<1>5. q \in Seq(Nat)
  BY <1>1, <1>4
<1>6. b \in BOOLEAN
  BY <1>1
<1>7. SampleOf(p, dts) = [kind |-> p.kind, dts |-> Normalize(dts).last, cts |-> p.cts,
                          sync |-> b, payload |-> q]
  BY DEF SampleOf
<1> HIDE DEF q, b
<1>8. SampleOf(p, dts) \in Sample
  BY <1>1, <1>2, <1>5, <1>6, <1>7, SampleType
<1>9. SampleOf(p, dts).kind = p.kind
  BY <1>7
<1> QED BY <1>8, <1>9

\* packet, taken apart.
LEMMA PacketEffect ==
  ASSUME NEW p \in Shapes, NEW dts, Packet(p, dts)
  PROVE  /\ pc = "idle" /\ ~finished /\ clock' = dts
         /\ config' = config \cup {k \in {p.kind} : p.inband}
         /\ \/ Refused(p) /\ UNCHANGED <<timebase, open, arriving, pc, accepted>>
            \/ /\ ~Refused(p) /\ timebase' = Normalize(dts)
               /\ accepted' = [accepted EXCEPT ![p.kind] = Append(@, SampleOf(p, dts))]
               /\ \/ pc' = "close" /\ arriving' = SampleOf(p, dts) /\ UNCHANGED open /\ HasSamples
                  \/ open' = Appended(open, SampleOf(p, dts)) /\ UNCHANGED <<arriving, pc>>
         /\ UNCHANGED <<init, grid, rolled, finished, files, fails>>
<1>1. CASE Refused(p)
  BY <1>1 DEF Packet, AcceptsCalls
<1>2. CASE ~Refused(p)
  BY <1>2 DEF Packet, AcceptsCalls, SampleOf, Cuts, LongEnough
<1> QED BY <1>1, <1>2

\* packet keeps the types.
LEMMA TypePacket ==
  ASSUME TypeInv, NEW p \in Shapes, NEW d \in Steps, Packet(p, clock + d)
  PROVE  TypeInv'
<1> USE DEF TypeInv
<1> DEFINE dts == clock + d
           s == SampleOf(p, dts)
<1>1. dts \in Int
  BY TimeAssumption
<1> HIDE DEF dts
<1>2. s \in Sample /\ s.kind = p.kind /\ p.kind \in Kinds
  BY <1>1, SampleOfType, ShapeType
<1>3. Normalize(dts).origin \in Int /\ Normalize(dts).last \in Int
  BY <1>1, NormalizeType
<1> HIDE DEF s
<1>4. /\ pc = "idle" /\ clock' = dts
      /\ config' = config \cup {k \in {p.kind} : p.inband}
      /\ \/ UNCHANGED <<timebase, open, arriving, pc, accepted>>
         \/ /\ timebase' = Normalize(dts)
            /\ accepted' = [accepted EXCEPT ![p.kind] = Append(@, s)]
            /\ \/ pc' = "close" /\ arriving' = s /\ UNCHANGED open /\ HasSamples
               \/ open' = Appended(open, s) /\ UNCHANGED <<arriving, pc>>
      /\ rolled' = rolled /\ files' = files
  BY PacketEffect DEF dts, s
<1>5. config' \subseteq Kinds
  BY <1>2, <1>4
<1>6. clock' \in Int /\ timebase'.origin \in Int \cup {None} /\ timebase'.last \in Int \cup {None}
  BY <1>1, <1>3, <1>4
<1>7. accepted' \in [Kinds -> Seq(Sample)]
  <2>1. Append(accepted[p.kind], s) \in Seq(Sample)
    BY <1>2, AppendProperties
  <2>2. CASE accepted' = accepted
    BY <2>2
  <2>3. CASE accepted' = [accepted EXCEPT ![p.kind] = Append(@, s)]
    BY <1>2, <2>1, <2>3
  <2> QED BY <1>4, <2>2, <2>3
<1>8. CASE UNCHANGED <<open, arriving, pc>>
  <2>1. HasSamples' = HasSamples
    BY <1>8 DEF HasSamples
  <2>2. open' = open /\ arriving' = arriving /\ pc' = pc
    BY <1>8
  <2> QED BY <1>4, <1>5, <1>6, <1>7, <2>1, <2>2
<1>9. CASE pc' = "close" /\ arriving' = s /\ UNCHANGED open /\ HasSamples
  <2>1. HasSamples' /\ open' = open
    BY <1>9 DEF HasSamples
  <2> QED BY <1>2, <1>4, <1>5, <1>6, <1>7, <1>9, <2>1
<1>10. CASE open' = Appended(open, s) /\ UNCHANGED <<arriving, pc>>
  <2>1. open' \in [video : Seq(Sample), audio : Seq(Sample), start : Int \cup {None}]
        /\ open'.start \in Int
    BY <1>2, <1>10, AppendedType
  <2>2. arriving' = arriving /\ pc' = "idle" /\ rolled' = rolled /\ files' = files
    BY <1>4, <1>10
  <2> QED BY <1>5, <1>6, <1>7, <2>1, <2>2
<1> QED BY <1>4, <1>8, <1>9, <1>10

\* EXTINF is a number.
LEMMA DurationType ==
  ASSUME TypeInv, HasSamples
  PROVE  SegmentDuration \in Int
<1> USE DEF TypeInv
<1>1. open.start \in Int /\ open.video \in Seq(Sample) /\ open.audio \in Seq(Sample)
  OBVIOUS
<1>2. \A q \in Seq(Sample) : q # <<>> => Last(q).dts \in Int
  <2> SUFFICES ASSUME NEW q \in Seq(Sample), q # <<>> PROVE Last(q).dts \in Int
    OBVIOUS
  <2>1. Len(q) \in 1..Len(q)
    BY LenProperties, EmptySeq
  <2>2. q[Len(q)] \in Sample
    BY <2>1, ElementOfSeq
  <2> QED BY <2>2 DEF Last, Sample
<1>3. VideoFrame \in Int /\ (FrameSamples * Second) \div Audio.rate \in Int
  <2> DEFINE x == FrameSamples * Second
             r == Audio.rate
  <2>1. x \in Int
    BY TimeAssumption, SMT
  <2>2. r \in Nat \ {0}
    BY RateAssumption
  <2> HIDE DEF x, r
  <2>3. x \div r \in Int
    BY <2>1, <2>2
  <2>4. VideoFrame \in Int
    BY TimeAssumption
  <2> QED BY <2>3, <2>4 DEF x, r
<1> DEFINE v == IF open.video = <<>> THEN open.start ELSE Last(open.video).dts + VideoFrame
           a == IF open.audio = <<>> THEN open.start
                ELSE Last(open.audio).dts + (FrameSamples * Second) \div Audio.rate
<1>4. v \in Int
  BY <1>1, <1>2, <1>3
<1>5. a \in Int
  <2> DEFINE f == (FrameSamples * Second) \div Audio.rate
  <2>1. f \in Int
    BY <1>3
  <2> HIDE DEF f
  <2>2. (IF open.audio = <<>> THEN open.start ELSE Last(open.audio).dts + f) \in Int
    BY <1>1, <1>2, <2>1
  <2> QED BY <2>2 DEF f
<1>6. SegmentDuration = Larger(v, a) - open.start
  BY DEF SegmentDuration
<1> HIDE DEF v, a
<1>7. Larger(v, a) \in Int
  BY <1>4, <1>5, LargerType
<1> QED BY <1>1, <1>6, <1>7

\* The open segment, emptied.
LEMMA EmptyOpen ==
  /\ [video |-> <<>>, audio |-> <<>>, start |-> None]
       \in [video : Seq(Sample), audio : Seq(Sample), start : Int \cup {None}]
  /\ \A seg \in [video : Seq(Sample), audio : Seq(Sample), start : Int \cup {None}] :
       [seg EXCEPT !.video = <<>>, !.audio = <<>>]
         \in [video : Seq(Sample), audio : Seq(Sample), start : Int \cup {None}]
<1>1. <<>> \in Seq(Sample)
  BY EmptySeq
<1> QED BY <1>1

\* The window with its newest segment, and without its oldest.
LEMMA WindowType ==
  ASSUME NEW w \in Seq(Listing), NEW l \in Listing
  PROVE  /\ Append(w, l) \in Seq(Listing) /\ Len(Append(w, l)) = Len(w) + 1
         /\ Append(w, l)[Len(w) + 1] = l
         /\ \A i \in 1..Len(w) : Append(w, l)[i] = w[i]
BY AppendProperties

\* close_segment's step that stores the segment, taken apart.
LEMMA WriteSegmentEffect ==
  ASSUME TypeInv, WriteSegment
  PROVE  /\ pc = "close" /\ init # None
         /\ \/ /\ files' = FilesOf(files.init, files.segments \cup {Segment}, files.playlist)
               /\ rolled' \in [sequence : Nat, window : Seq(Listing), longest : Int]
               /\ rolled'.sequence = rolled.sequence + 1
               /\ rolled'.window = Append(rolled.window, [name |-> Segment.name,
                                                          duration |-> SegmentDuration])
               /\ open' = [video |-> <<>>, audio |-> <<>>, start |-> None]
               /\ pc' = "prune"
            \/ /\ pc' = "failed" /\ UNCHANGED <<rolled, files>>
               /\ open' = [open EXCEPT !.video = <<>>, !.audio = <<>>]
         /\ UNCHANGED <<config, init, timebase, finished, arriving, clock, accepted>>
         /\ Segment.name = rolled.sequence
         /\ [name |-> Segment.name, duration |-> SegmentDuration] \in Listing
<1>1. Segment.name = rolled.sequence
  BY DEF Segment
<1>2. SegmentDuration \in Int
  BY DurationType DEF WriteSegment, TypeInv
<1>3. [name |-> Segment.name, duration |-> SegmentDuration] \in Listing
  BY <1>1, <1>2 DEF Listing, TypeInv
<1>4. \/ /\ files' = FilesOf(files.init, files.segments \cup {Segment}, files.playlist)
         /\ rolled' = [sequence |-> rolled.sequence + 1,
                       window |-> Append(rolled.window, [name |-> Segment.name,
                                                         duration |-> SegmentDuration]),
                       longest |-> Larger(rolled.longest, SegmentDuration)]
         /\ open' = [video |-> <<>>, audio |-> <<>>, start |-> None]
         /\ pc' = "prune"
      \/ /\ pc' = "failed" /\ UNCHANGED <<rolled, files>>
         /\ open' = [open EXCEPT !.video = <<>>, !.audio = <<>>]
  <2>1. [files EXCEPT !.segments = files.segments \cup {Segment}]
          = FilesOf(files.init, files.segments \cup {Segment}, files.playlist)
    BY FilesWritten
  <2> QED BY <2>1 DEF WriteSegment, StorageFails
<1>5. /\ pc = "close" /\ init # None
      /\ UNCHANGED <<config, init, timebase, finished, arriving, clock, accepted>>
  BY DEF WriteSegment
<1>6. Larger(rolled.longest, SegmentDuration) \in Int
  BY <1>2, LargerType DEF TypeInv
<1>7. Append(rolled.window, [name |-> Segment.name, duration |-> SegmentDuration]) \in Seq(Listing)
  BY <1>3, AppendProperties DEF TypeInv
<1>8. rolled.sequence + 1 \in Nat
  BY DEF TypeInv
<1>9. CASE UNCHANGED <<rolled, files>>
  BY <1>1, <1>3, <1>4, <1>5, <1>9
<1>10. CASE rolled' = [sequence |-> rolled.sequence + 1,
                       window |-> Append(rolled.window, [name |-> Segment.name,
                                                         duration |-> SegmentDuration]),
                       longest |-> Larger(rolled.longest, SegmentDuration)]
  BY <1>1, <1>3, <1>4, <1>5, <1>6, <1>7, <1>8, <1>10
<1> QED BY <1>4, <1>9, <1>10

\* The removal of the oldest segment, taken apart.
LEMMA PruneEffect ==
  ASSUME TypeInv, Prune
  PROVE  /\ pc = "prune" /\ WindowFull /\ rolled.window # <<>>
         /\ rolled'.sequence = rolled.sequence /\ rolled'.window = Tail(rolled.window)
         /\ rolled' \in [sequence : Nat, window : Seq(Listing), longest : Int]
         /\ rolled'.window \in Seq(Listing) /\ Len(rolled'.window) = Len(rolled.window) - 1
         /\ \A i \in 1..Len(rolled'.window) : rolled'.window[i] = rolled.window[i + 1]
         /\ \/ files' = FilesOf(files.init, {s \in files.segments : s.name # rolled.window[1].name},
                                files.playlist)
            \/ files' = files
         /\ UNCHANGED <<config, init, timebase, open, finished, arriving, pc, clock, accepted>>
<1>1. rolled.window \in Seq(Listing) /\ Len(rolled.window) \in Nat
  BY LenProperties DEF TypeInv
<1>2. pc = "prune" /\ WindowFull /\ rolled' = [rolled EXCEPT !.window = Tail(@)]
      /\ UNCHANGED <<config, init, timebase, open, finished, arriving, pc, clock, accepted>>
  BY DEF Prune
<1>3. rolled.window # <<>>
  <2>1. 1 \in Int /\ WindowSize \in Int
    BY WindowAssumption
  <2>2. Larger(WindowSize, 1) >= 1 /\ Larger(WindowSize, 1) \in Int
    BY <2>1, LargerType
  <2>3. Len(rolled.window) # 0
    BY <1>1, <1>2, <2>2 DEF WindowFull
  <2> QED BY <1>1, <2>3, EmptySeq
<1>4. rolled'.sequence = rolled.sequence /\ rolled'.window = Tail(rolled.window)
  BY <1>2 DEF TypeInv
<1>5. Pruned = rolled.window[1].name
  BY <1>1, <1>3 DEF Pruned
<1>6. \/ files' = FilesOf(files.init, {s \in files.segments : s.name # rolled.window[1].name},
                          files.playlist)
      \/ files' = files
  <2> DEFINE kept == {s \in files.segments : s.name # Pruned}
  <2>1. [files EXCEPT !.segments = kept] = FilesOf(files.init, kept, files.playlist)
    BY FilesWritten
  <2>2. files' = [files EXCEPT !.segments = kept] \/ files' = files
    BY DEF Prune
  <2> QED BY <1>5, <2>1, <2>2
<1>7. Tail(rolled.window) \in Seq(Listing) /\ Len(Tail(rolled.window)) = Len(rolled.window) - 1
      /\ \A i \in 1..Len(Tail(rolled.window)) : Tail(rolled.window)[i] = rolled.window[i + 1]
  BY <1>1, <1>3, HeadTailProperties
<1>8. rolled' \in [sequence : Nat, window : Seq(Listing), longest : Int]
  BY <1>2, <1>7 DEF TypeInv
<1> QED BY <1>2, <1>3, <1>4, <1>6, <1>7, <1>8

\* The playlist lists the window of the moment.
LEMMA PlaylistType ==
  ASSUME TypeInv, NEW ended \in BOOLEAN
  PROVE  /\ Playlist(ended).window = rolled.window
         /\ Playlist(ended).window \in Seq(Listing)
         /\ Playlist(ended).first = rolled.sequence - Len(rolled.window)
         /\ Playlist(ended).first \in Int
         /\ Playlist(ended).ended = ended
<1>1. rolled.sequence \in Nat /\ rolled.window \in Seq(Listing) /\ Len(rolled.window) \in Nat
  BY LenProperties DEF TypeInv
<1>2. rolled.sequence - Len(rolled.window) \in Int
  BY <1>1
<1> QED BY <1>1, <1>2 DEF Playlist

\* The last act of close_segment, taken apart.
LEMMA WritePlaylistEffect ==
  ASSUME TypeInv, WritePlaylist
  PROVE  /\ pc = "prune" /\ ~WindowFull
         /\ \/ /\ files' = FilesOf(files.init, files.segments, Playlist(FALSE))
               /\ \/ arriving = None /\ pc' = "end" /\ open' = open
                  \/ arriving # None /\ pc' = "idle" /\ open' = Appended(open, arriving)
               /\ arriving' = None
            \/ pc' = "failed" /\ UNCHANGED <<open, arriving, files>>
         /\ UNCHANGED <<config, init, timebase, rolled, finished, clock, accepted>>
<1>1. [files EXCEPT !.playlist = Playlist(FALSE)] = FilesOf(files.init, files.segments, Playlist(FALSE))
  BY FilesWritten
<1>2. CASE arriving = None
  BY <1>1, <1>2 DEF WritePlaylist, StorageFails
<1>3. CASE arriving # None
  BY <1>1, <1>3 DEF WritePlaylist, StorageFails
<1> QED BY <1>2, <1>3

\* The end marker, taken apart.
LEMMA WriteEndEffect ==
  ASSUME TypeInv, WriteEnd
  PROVE  /\ pc = "end"
         /\ \/ files' = FilesOf(files.init, files.segments, Playlist(TRUE)) /\ pc' = "idle"
            \/ files' = files /\ pc' = "failed"
         /\ UNCHANGED <<config, init, timebase, open, rolled, finished, arriving, clock, accepted>>
<1>1. [files EXCEPT !.playlist = Playlist(TRUE)] = FilesOf(files.init, files.segments, Playlist(TRUE))
  BY FilesWritten
<1> QED BY <1>1 DEF WriteEnd, StorageFails

\* ensure_init, taken apart.
LEMMA WriteInitEffect ==
  ASSUME TypeInv, WriteInit
  PROVE  /\ pc = "close" /\ init = None
         /\ \/ /\ init' = config
               /\ files' = FilesOf(InitFile(config), files.segments, files.playlist)
               /\ pc' = pc
            \/ pc' = "failed" /\ init' = init /\ files' = files
         /\ UNCHANGED <<config, timebase, open, rolled, finished, arriving, clock, accepted>>
<1>1. [files EXCEPT !.init = InitFile(config)] = FilesOf(InitFile(config), files.segments, files.playlist)
  BY FilesWritten
<1> QED BY <1>1 DEF WriteInit, StorageFails

-----------------------------------------------------------------------------
(***************************************************************************)
(* The types are invariant.                                                *)
(***************************************************************************)
\* Every file written keeps the storage's shape.
LEMMA FilesShape ==
  ASSUME NEW i, NEW s, NEW p, NEW f, f = FilesOf(i, s, p)
  PROVE  f = FilesOf(f.init, f.segments, f.playlist)
         /\ f.init = i /\ f.segments = s /\ f.playlist = p
BY DEF FilesOf

\* The types hold of a new output.
LEMMA TypeInit ==
  ASSUME Init
  PROVE  TypeInv
<1> USE DEF Init
<1>1. open \in [video : Seq(Sample), audio : Seq(Sample), start : Int \cup {None}]
  BY EmptyOpen
<1>2. ~HasSamples
  BY DEF HasSamples
<1>3. accepted \in [Kinds -> Seq(Sample)]
  <2>1. <<>> \in Seq(Sample)
    BY EmptySeq
  <2>2. \A S : \A e \in S : [video |-> e, audio |-> e] \in [Kinds -> S]
    BY DEF Kinds
  <2>3. accepted = [video |-> <<>>, audio |-> <<>>]
    OBVIOUS
  <2> HIDE DEF Init
  <2> QED BY <2>1, <2>2, <2>3
<1>4. rolled \in [sequence : Nat, window : Seq(Listing), longest : Int]
  <2>1. <<>> \in Seq(Listing)
    BY EmptySeq
  <2> QED BY <2>1
<1>5. files = FilesOf(files.init, files.segments, files.playlist) /\ files.playlist = None
  BY FilesShape DEF FilesOf
<1> QED BY <1>1, <1>2, <1>3, <1>4, <1>5 DEF TypeInv

\* Storing a segment, or failing to, keeps the types.
LEMMA TypeWriteSegment ==
  ASSUME TypeInv, WriteSegment
  PROVE  TypeInv'
<1>1. CASE /\ files' = FilesOf(files.init, files.segments \cup {Segment}, files.playlist)
           /\ rolled' \in [sequence : Nat, window : Seq(Listing), longest : Int]
           /\ open' = [video |-> <<>>, audio |-> <<>>, start |-> None]
           /\ pc' = "prune"
  <2>1. files' = FilesOf(files'.init, files'.segments, files'.playlist)
        /\ files'.playlist = files.playlist
    BY <1>1, FilesShape
  <2>2. open' \in [video : Seq(Sample), audio : Seq(Sample), start : Int \cup {None}]
    BY <1>1, EmptyOpen
  <2>3. ~HasSamples'
    BY <1>1 DEF HasSamples
  <2>4. UNCHANGED <<config, timebase, arriving, clock, accepted>>
    BY WriteSegmentEffect
  <2> QED BY <1>1, <2>1, <2>2, <2>3, <2>4 DEF TypeInv
<1>2. CASE /\ pc' = "failed" /\ UNCHANGED <<rolled, files>>
           /\ open' = [open EXCEPT !.video = <<>>, !.audio = <<>>]
  <2>2. open' \in [video : Seq(Sample), audio : Seq(Sample), start : Int \cup {None}]
    BY <1>2, EmptyOpen DEF TypeInv
  <2>3. ~HasSamples'
    BY <1>2 DEF HasSamples, TypeInv
  <2>4. UNCHANGED <<config, timebase, arriving, clock, accepted>>
    BY WriteSegmentEffect
  <2> QED BY <1>2, <2>2, <2>3, <2>4 DEF TypeInv
<1> QED BY <1>1, <1>2, WriteSegmentEffect

\* Writing the playlist, or failing to, keeps the types.
LEMMA TypeWritePlaylist ==
  ASSUME TypeInv, WritePlaylist
  PROVE  TypeInv'
<1>1. UNCHANGED <<config, timebase, rolled, clock, accepted>>
  BY WritePlaylistEffect
<1>2. /\ files' = FilesOf(files'.init, files'.segments, files'.playlist)
      /\ files'.playlist # None => files'.playlist.window \in Seq(Listing) /\ files'.playlist.first \in Int
  <2>1. CASE files' = FilesOf(files.init, files.segments, Playlist(FALSE))
    <3> DEFINE list == Playlist(FALSE)
    <3>1. list.window \in Seq(Listing) /\ list.first \in Int
      BY PlaylistType
    <3>2. files' = FilesOf(files.init, files.segments, list)
      BY <2>1
    <3> HIDE DEF list
    <3>3. files' = FilesOf(files'.init, files'.segments, files'.playlist) /\ files'.playlist = list
      BY <3>2, FilesShape
    <3> QED BY <3>1, <3>3
  <2>2. CASE files' = files
    BY <2>2 DEF TypeInv
  <2> QED BY <2>1, <2>2, WritePlaylistEffect
<1>3. CASE arriving # None /\ pc' = "idle" /\ open' = Appended(open, arriving) /\ arriving' = None
  <2>1. open' \in [video : Seq(Sample), audio : Seq(Sample), start : Int \cup {None}]
        /\ open'.start \in Int
    BY <1>3, AppendedType DEF TypeInv
  <2> QED BY <1>1, <1>2, <1>3, <2>1 DEF TypeInv
<1>4. CASE open' = open /\ (arriving' = None \/ arriving' = arriving) /\ pc' \in {"end", "failed"}
  <2>1. HasSamples' = HasSamples
    BY <1>4 DEF HasSamples
  <2> QED BY <1>1, <1>2, <1>4, <2>1 DEF TypeInv
<1> QED BY <1>3, <1>4, WritePlaylistEffect

\* Every step keeps the types.
LEMMA TypeStep ==
  ASSUME TypeInv, [Next]_vars
  PROVE  TypeInv'
<1>1. ASSUME NEW p \in Shapes, NEW d \in Steps, Packet(p, clock + d)
      PROVE  TypeInv'
  BY <1>1, TypePacket
<1>2. ASSUME NEW tracks \in SUBSET Kinds, Codecs(tracks)
      PROVE  TypeInv'
  <2>1. HasSamples' = HasSamples
    BY <1>2 DEF Codecs, HasSamples
  <2>2. config' = config \cup tracks
        /\ UNCHANGED <<timebase, open, rolled, arriving, pc, files, clock, accepted>>
    BY <1>2 DEF Codecs
  <2> QED BY <2>1, <2>2 DEF TypeInv
<1>3. CASE Finish
  <2>1. HasSamples' = HasSamples
    BY <1>3 DEF Finish, HasSamples
  <2>2. pc' = (IF HasSamples THEN "close" ELSE "end")
        /\ UNCHANGED <<config, timebase, open, rolled, arriving, files, clock, accepted>>
    BY <1>3 DEF Finish
  <2> QED BY <2>1, <2>2 DEF TypeInv
<1>4. CASE WriteInit
  <2>1. UNCHANGED <<config, timebase, open, rolled, arriving, clock, accepted>>
        /\ (pc' = pc \/ pc' = "failed")
    BY <1>4, WriteInitEffect
  <2>2. HasSamples' = HasSamples
    BY <2>1 DEF HasSamples
  <2>3. files' = FilesOf(files'.init, files'.segments, files'.playlist)
        /\ files'.playlist = files.playlist
    <3>1. CASE files' = files
      BY <3>1 DEF TypeInv
    <3>2. CASE files' = FilesOf(InitFile(config), files.segments, files.playlist)
      BY <3>2, FilesShape
    <3> QED BY <1>4, <3>1, <3>2, WriteInitEffect
  <2> QED BY <2>1, <2>2, <2>3 DEF TypeInv
<1>5. CASE WriteSegment
  BY <1>5, TypeWriteSegment
<1>6. CASE Prune
  <2>1. UNCHANGED <<config, timebase, open, arriving, pc, clock, accepted>>
        /\ rolled' \in [sequence : Nat, window : Seq(Listing), longest : Int]
    BY <1>6, PruneEffect
  <2>2. HasSamples' = HasSamples
    BY <2>1 DEF HasSamples
  <2>3. files' = FilesOf(files'.init, files'.segments, files'.playlist)
        /\ files'.playlist = files.playlist
    <3> DEFINE kept == {s \in files.segments : s.name # rolled.window[1].name}
    <3>1. CASE files' = files
      BY <3>1 DEF TypeInv
    <3>2. files' = files \/ files' = FilesOf(files.init, kept, files.playlist)
      BY <1>6, PruneEffect
    <3> HIDE DEF kept
    <3>3. CASE files' = FilesOf(files.init, kept, files.playlist)
      BY <3>3, FilesShape
    <3> QED BY <3>1, <3>2, <3>3
  <2> QED BY <2>1, <2>2, <2>3 DEF TypeInv
<1>7. CASE WritePlaylist
  BY <1>7, TypeWritePlaylist
<1>8. CASE WriteEnd
  <2>1. UNCHANGED <<config, timebase, open, rolled, arriving, clock, accepted>>
        /\ pc' \in {"idle", "failed"}
    BY <1>8, WriteEndEffect
  <2>2. HasSamples' = HasSamples
    BY <2>1 DEF HasSamples
  <2>3. /\ files' = FilesOf(files'.init, files'.segments, files'.playlist)
        /\ files'.playlist # None => files'.playlist.window \in Seq(Listing) /\ files'.playlist.first \in Int
    <3>1. CASE files' = FilesOf(files.init, files.segments, Playlist(TRUE))
      <4> DEFINE list == Playlist(TRUE)
      <4>1. list.window \in Seq(Listing) /\ list.first \in Int
        BY PlaylistType
      <4>2. files' = FilesOf(files.init, files.segments, list)
        BY <3>1
      <4> HIDE DEF list
      <4>3. files' = FilesOf(files'.init, files'.segments, files'.playlist) /\ files'.playlist = list
        BY <4>2, FilesShape
      <4> QED BY <4>1, <4>3
    <3>2. CASE files' = files
      BY <3>2 DEF TypeInv
    <3> QED BY <1>8, <3>1, <3>2, WriteEndEffect
  <2> QED BY <2>1, <2>2, <2>3 DEF TypeInv
<1>9. CASE UNCHANGED vars
  <2>1. UNCHANGED <<config, timebase, open, rolled, arriving, pc, files, clock, accepted>>
    BY <1>9 DEF vars
  <2>2. HasSamples' = HasSamples
    BY <2>1 DEF HasSamples
  <2> QED BY <2>1, <2>2 DEF TypeInv
<1> QED BY <1>1, <1>2, <1>3, <1>4, <1>5, <1>6, <1>7, <1>8, <1>9 DEF Next

-----------------------------------------------------------------------------
(***************************************************************************)
(* What a step does to the window and the playlist: nothing, or one of the *)
(* storage operations of close_segment and finish.                         *)
(***************************************************************************)
Keeps ==
  /\ rolled' = rolled
  /\ files'.segments = files.segments /\ files'.playlist = files.playlist
  /\ pc' \in {"idle", "close", "end"} => pc \in {"idle", "close", "end"}
  /\ pc' = "prune" => pc = "prune"
  /\ finished /\ pc = "idle" => finished' /\ pc' = "idle"
  /\ finished => finished'
  /\ pc' \in {"close", "prune"} /\ arriving' = None =>
       finished' \/ (pc \in {"close", "prune"} /\ arriving = None)
  /\ pc' = "end" => finished' \/ pc = "end"

Stores ==
  /\ pc = "close" /\ pc' = "prune"
  /\ files'.segments = files.segments \cup {Segment} /\ files'.playlist = files.playlist
  /\ rolled'.sequence = rolled.sequence + 1
  /\ rolled'.window = Append(rolled.window, [name |-> Segment.name, duration |-> SegmentDuration])
  /\ finished' = finished /\ arriving' = arriving

Removes ==
  /\ pc = "prune" /\ pc' = pc /\ WindowFull /\ rolled.window # <<>>
  /\ files'.playlist = files.playlist
  /\ \/ files'.segments = {s \in files.segments : s.name # rolled.window[1].name}
     \/ files'.segments = files.segments
  /\ rolled'.sequence = rolled.sequence /\ rolled'.window = Tail(rolled.window)
  /\ finished' = finished /\ arriving' = arriving

Lists ==
  /\ pc = "prune" /\ ~WindowFull
  /\ files'.segments = files.segments /\ files'.playlist = Playlist(FALSE)
  /\ rolled' = rolled /\ finished' = finished
  /\ \/ arriving = None /\ pc' = "end"
     \/ arriving # None /\ pc' = "idle"

Ends ==
  /\ pc = "end" /\ pc' = "idle"
  /\ files'.segments = files.segments /\ files'.playlist = Playlist(TRUE)
  /\ rolled' = rolled /\ finished' = finished

\* Every step is one of these.
LEMMA StepShape ==
  ASSUME TypeInv, [Next]_vars
  PROVE  Keeps \/ Stores \/ Removes \/ Lists \/ Ends
<1>1. ASSUME NEW p \in Shapes, NEW d \in Steps, Packet(p, clock + d)
      PROVE  Keeps
  <2> DEFINE s == SampleOf(p, clock + d)
  <2>1. s \in Sample
    <3>1. clock + d \in Int
      BY TimeAssumption DEF TypeInv
    <3> QED BY <3>1, SampleOfType
  <2>2. /\ pc = "idle" /\ ~finished
        /\ \/ UNCHANGED <<arriving, pc>>
           \/ pc' = "close" /\ arriving' = s
        /\ UNCHANGED <<rolled, finished, files>>
    BY <1>1, PacketEffect
  <2> HIDE DEF s
  <2>3. s # None
    BY <2>1, NoneAssumption
  <2> QED BY <2>2, <2>3 DEF Keeps
<1>2. ASSUME NEW tracks \in SUBSET Kinds, Codecs(tracks)
      PROVE  Keeps
  <2>1. UNCHANGED <<rolled, finished, arriving, pc, files>>
    BY <1>2 DEF Codecs
  <2> QED BY <2>1 DEF Keeps
<1>3. CASE Finish
  <2>1. pc = "idle" /\ ~finished /\ finished' /\ UNCHANGED <<rolled, arriving, files>>
        /\ pc' \in {"close", "end"}
    BY <1>3 DEF Finish, AcceptsCalls
  <2>2. Keeps
    BY <2>1 DEF Keeps
  <2> QED BY <2>2
<1>4. CASE WriteInit
  <2>1. pc = "close" /\ (pc' = pc \/ pc' = "failed") /\ UNCHANGED <<rolled, finished, arriving>>
    BY <1>4, WriteInitEffect
  <2>2. files'.segments = files.segments /\ files'.playlist = files.playlist
    <3>1. CASE files' = FilesOf(InitFile(config), files.segments, files.playlist)
      BY <3>1, FilesShape
    <3> QED BY <1>4, <3>1, WriteInitEffect
  <2>3. Keeps
    BY <2>1, <2>2 DEF Keeps
  <2> QED BY <2>3
<1>5. CASE WriteSegment
  <2>1. pc = "close" /\ UNCHANGED <<finished, arriving>>
    BY <1>5, WriteSegmentEffect
  <2>2. CASE /\ files' = FilesOf(files.init, files.segments \cup {Segment}, files.playlist)
             /\ rolled'.sequence = rolled.sequence + 1
             /\ rolled'.window = Append(rolled.window, [name |-> Segment.name,
                                                        duration |-> SegmentDuration])
             /\ pc' = "prune"
    <3>1. files'.segments = files.segments \cup {Segment} /\ files'.playlist = files.playlist
      BY <2>2, FilesShape
    <3> QED BY <2>1, <2>2, <3>1 DEF Stores
  <2>3. CASE pc' = "failed" /\ UNCHANGED <<rolled, files>>
    BY <2>1, <2>3 DEF Keeps
  <2> QED BY <1>5, <2>2, <2>3, WriteSegmentEffect
<1>6. CASE Prune
  <2>1. /\ pc = "prune" /\ WindowFull /\ rolled.window # <<>>
        /\ rolled'.sequence = rolled.sequence /\ rolled'.window = Tail(rolled.window)
        /\ UNCHANGED <<finished, arriving, pc>>
    BY <1>6, PruneEffect
  <2> DEFINE kept == {s \in files.segments : s.name # rolled.window[1].name}
  <2>2. files' = FilesOf(files.init, kept, files.playlist) \/ files' = files
    BY <1>6, PruneEffect
  <2> HIDE DEF kept
  <2>3. files'.playlist = files.playlist
        /\ (files'.segments = kept \/ files'.segments = files.segments)
    BY <2>2, FilesShape
  <2> QED BY <2>1, <2>3 DEF Removes, kept
<1>7. CASE WritePlaylist
  <2> DEFINE list == Playlist(FALSE)
  <2>1. /\ pc = "prune" /\ ~WindowFull
        /\ \/ /\ files' = FilesOf(files.init, files.segments, list)
              /\ \/ arriving = None /\ pc' = "end"
                 \/ arriving # None /\ pc' = "idle"
           \/ pc' = "failed" /\ UNCHANGED <<arriving, files>>
        /\ UNCHANGED <<rolled, finished>>
    BY <1>7, WritePlaylistEffect
  <2> HIDE DEF list
  <2>2. CASE pc' = "failed" /\ UNCHANGED <<arriving, files>>
    BY <2>1, <2>2 DEF Keeps
  <2>3. CASE /\ files' = FilesOf(files.init, files.segments, list)
             /\ \/ arriving = None /\ pc' = "end"
                \/ arriving # None /\ pc' = "idle"
    <3>1. files'.segments = files.segments /\ files'.playlist = list
      BY <2>3, FilesShape
    <3>2. files'.playlist = Playlist(FALSE)
      BY <3>1 DEF list
    <3> QED BY <2>1, <2>3, <3>1, <3>2 DEF Lists
  <2> QED BY <2>1, <2>2, <2>3
<1>8. CASE WriteEnd
  <2> DEFINE list == Playlist(TRUE)
  <2>1. /\ pc = "end"
        /\ \/ files' = FilesOf(files.init, files.segments, list) /\ pc' = "idle"
           \/ files' = files /\ pc' = "failed"
        /\ UNCHANGED <<rolled, finished, arriving>>
    BY <1>8, WriteEndEffect
  <2> HIDE DEF list
  <2>2. CASE files' = files /\ pc' = "failed"
    BY <2>1, <2>2 DEF Keeps
  <2>3. CASE files' = FilesOf(files.init, files.segments, list) /\ pc' = "idle"
    <3>1. files'.segments = files.segments /\ files'.playlist = list
      BY <2>3, FilesShape
    <3>2. files'.playlist = Playlist(TRUE)
      BY <3>1 DEF list
    <3> QED BY <2>1, <2>3, <3>1, <3>2 DEF Ends
  <2> QED BY <2>1, <2>2, <2>3
<1>9. CASE UNCHANGED vars
  <2>1. UNCHANGED <<rolled, finished, arriving, pc, files>>
    BY <1>9 DEF vars
  <2> QED BY <2>1 DEF Keeps
<1> QED BY <1>1, <1>2, <1>3, <1>4, <1>5, <1>6, <1>7, <1>8, <1>9 DEF Next

-----------------------------------------------------------------------------
(***************************************************************************)
(* The window and the playlist.                                            *)
(***************************************************************************)
\* The number of the oldest segment in the window.
Oldest == rolled.sequence - Len(rolled.window)

\* The window holds the newest segments, numbered without a gap and stored, and
\* is over its size only while a segment is being closed.
WindowInv ==
  /\ \A i \in 1..Len(rolled.window) : rolled.window[i].name = Oldest + i - 1
  /\ \A i \in 1..Len(rolled.window) : \E s \in files.segments : s.name = rolled.window[i].name
  /\ Len(rolled.window) <= Larger(WindowSize, 1) + 1
  /\ pc \in {"idle", "close", "end"} => ~WindowFull

\* A call that closes a segment without a sample of its own is finish.
EndInv ==
  /\ pc \in {"close", "prune"} /\ arriving = None => finished
  /\ pc = "end" => finished

\* The playlist starts where the window does, or at the segment just removed.
ListInv ==
  files.playlist # None =>
    /\ \A i \in 1..Len(files.playlist.window) :
         files.playlist.window[i].name = files.playlist.first + i - 1
    /\ files.playlist.first <= Oldest /\ Oldest <= files.playlist.first + 1
    /\ files.playlist.first + Len(files.playlist.window) <= rolled.sequence
    /\ pc \in {"idle", "close", "end"} => Oldest = files.playlist.first
    /\ pc = "prune" /\ WindowFull => Oldest = files.playlist.first
    /\ files.playlist.ended => finished /\ pc = "idle"

\* The numbers in play are integers, and the window may hold a segment.
LEMMA RolledType ==
  ASSUME TypeInv
  PROVE  /\ rolled.sequence \in Nat /\ rolled.window \in Seq(Listing)
         /\ Len(rolled.window) \in Nat /\ Oldest \in Int
         /\ Larger(WindowSize, 1) \in Int /\ Larger(WindowSize, 1) >= 1
<1>1. rolled.sequence \in Nat /\ rolled.window \in Seq(Listing) /\ Len(rolled.window) \in Nat
  BY LenProperties DEF TypeInv
<1>2. WindowSize \in Int /\ 1 \in Int
  BY WindowAssumption
<1>3. Larger(WindowSize, 1) \in Int /\ Larger(WindowSize, 1) >= 1
  BY <1>2, LargerType
<1> QED BY <1>1, <1>3 DEF Oldest

\* Every step keeps the end in step with finish.
LEMMA EndStep ==
  ASSUME TypeInv, EndInv, [Next]_vars
  PROVE  EndInv'
<1>1. CASE Keeps
  BY <1>1 DEF Keeps, EndInv
<1>2. CASE Stores
  BY <1>2 DEF Stores, EndInv
<1>3. CASE Removes
  BY <1>3 DEF Removes, EndInv
<1>4. CASE Lists
  BY <1>4 DEF Lists, EndInv
<1>5. CASE Ends
  BY <1>5 DEF Ends, EndInv
<1> QED BY <1>1, <1>2, <1>3, <1>4, <1>5, StepShape

\* The segment that is stored.
LEMMA StoresEffect ==
  ASSUME TypeInv, Stores
  PROVE  /\ Segment.name = rolled.sequence
         /\ rolled'.window \in Seq(Listing) /\ Len(rolled'.window) = Len(rolled.window) + 1
         /\ Oldest' = Oldest
         /\ rolled'.window[Len(rolled.window) + 1].name = rolled.sequence
         /\ \A i \in 1..Len(rolled.window) : rolled'.window[i] = rolled.window[i]
<1> DEFINE new == [name |-> Segment.name, duration |-> SegmentDuration]
<1>1. Segment.name = rolled.sequence
  BY DEF Segment
<1>2. HasSamples
  BY DEF Stores, TypeInv
<1>3. SegmentDuration \in Int
  BY <1>2, DurationType
<1>4. new \in Listing /\ new.name = rolled.sequence
  BY <1>1, <1>3, RolledType DEF Listing
<1>5. rolled'.window = Append(rolled.window, new) /\ rolled'.sequence = rolled.sequence + 1
  BY DEF Stores
<1> HIDE DEF new
<1>6. /\ rolled'.window \in Seq(Listing) /\ Len(rolled'.window) = Len(rolled.window) + 1
      /\ rolled'.window[Len(rolled.window) + 1] = new
      /\ \A i \in 1..Len(rolled.window) : rolled'.window[i] = rolled.window[i]
  BY <1>4, <1>5, RolledType, WindowType
<1>7. Oldest' = Oldest
  BY <1>5, <1>6, RolledType DEF Oldest
<1> QED BY <1>1, <1>4, <1>6, <1>7

\* The segment that leaves the window.
LEMMA RemovesEffect ==
  ASSUME TypeInv, Removes
  PROVE  /\ Len(rolled.window) >= 1
         /\ rolled'.window \in Seq(Listing) /\ Len(rolled'.window) = Len(rolled.window) - 1
         /\ Oldest' = Oldest + 1
         /\ \A i \in 1..Len(rolled'.window) : rolled'.window[i] = rolled.window[i + 1]
<1>1. rolled.window # <<>> /\ rolled'.window = Tail(rolled.window) /\ rolled'.sequence = rolled.sequence
  BY DEF Removes
<1>2. /\ rolled'.window \in Seq(Listing) /\ Len(rolled'.window) = Len(rolled.window) - 1
      /\ \A i \in 1..Len(rolled'.window) : rolled'.window[i] = rolled.window[i + 1]
  BY <1>1, RolledType, HeadTailProperties
<1>3. Len(rolled.window) # 0
  BY <1>1, RolledType, EmptySeq
<1> QED BY <1>1, <1>2, <1>3, RolledType DEF Oldest

\* Every step keeps the window numbered, stored and within its size.
LEMMA WindowStep ==
  ASSUME TypeInv, WindowInv, [Next]_vars
  PROVE  WindowInv'
<1> DEFINE Len0 == Len(rolled.window) Size == Larger(WindowSize, 1)
<1>t. /\ rolled.sequence \in Nat /\ rolled.window \in Seq(Listing)
      /\ Len0 \in Nat /\ Oldest \in Int /\ Size \in Int /\ Size >= 1
  BY RolledType
<1>0. ASSUME rolled' = rolled, files'.segments = files.segments,
             pc' \in {"idle", "close", "end"} => ~WindowFull
      PROVE  WindowInv'
  BY <1>0 DEF WindowInv, Oldest, WindowFull
<1>1. CASE Keeps
  BY <1>0, <1>1 DEF Keeps, WindowInv
<1>2. CASE Stores
  <2>1. /\ rolled'.window \in Seq(Listing) /\ Len(rolled'.window) = Len0 + 1
        /\ Oldest' = Oldest /\ Segment.name = rolled.sequence
        /\ rolled'.window[Len0 + 1].name = rolled.sequence
        /\ \A i \in 1..Len0 : rolled'.window[i] = rolled.window[i]
    BY <1>2, StoresEffect
  <2>2. pc' = "prune" /\ pc = "close" /\ files'.segments = files.segments \cup {Segment}
    BY <1>2 DEF Stores
  <2>3. ASSUME NEW i \in 1..(Len0 + 1)
        PROVE  /\ rolled'.window[i].name = Oldest + i - 1
               /\ \E s \in files'.segments : s.name = rolled'.window[i].name
    <3>1. CASE i = Len0 + 1
      <4>1. rolled'.window[i].name = rolled.sequence
        BY <2>1, <3>1
      <4>2. Oldest + i - 1 = rolled.sequence
        BY <3>1, <1>t DEF Oldest
      <4> QED BY <2>1, <2>2, <4>1, <4>2
    <3>2. CASE i \in 1..Len0
      <4>1. rolled'.window[i] = rolled.window[i]
        BY <2>1, <3>2
      <4>2. /\ rolled.window[i].name = Oldest + i - 1
            /\ \E s \in files.segments : s.name = rolled.window[i].name
        BY <3>2 DEF WindowInv
      <4> QED BY <2>2, <4>1, <4>2
    <3> QED BY <1>t, <3>1, <3>2
  <2>4. Len(rolled'.window) <= Size + 1
    <3>1. ~(Len0 > Size)
      BY <2>2 DEF WindowInv, WindowFull
    <3> QED BY <1>t, <2>1, <3>1
  <2> QED BY <2>1, <2>2, <2>3, <2>4 DEF WindowInv
<1>3. CASE Removes
  <2>1. /\ Len0 >= 1 /\ Len(rolled'.window) = Len0 - 1 /\ Oldest' = Oldest + 1
        /\ \A i \in 1..Len(rolled'.window) : rolled'.window[i] = rolled.window[i + 1]
    BY <1>3, RemovesEffect
  <2>2. /\ pc = "prune" /\ pc' = pc
        /\ \/ files'.segments = {s \in files.segments : s.name # rolled.window[1].name}
           \/ files'.segments = files.segments
    BY <1>3 DEF Removes
  <2>3. rolled.window[1].name = Oldest
    <3>1. \A m \in Nat : m >= 1 => 1 \in 1..m
      OBVIOUS
    <3>2. rolled.window[1].name = Oldest + 1 - 1
      BY <1>t, <2>1, <3>1 DEF WindowInv
    <3> QED BY <1>t, <3>2
  <2>4. ASSUME NEW i \in 1..Len(rolled'.window)
        PROVE  /\ rolled'.window[i].name = Oldest' + i - 1
               /\ \E s \in files'.segments : s.name = rolled'.window[i].name
    <3>1. i + 1 \in 1..Len0 /\ rolled'.window[i] = rolled.window[i + 1]
      BY <1>t, <2>1
    <3>2. rolled.window[i + 1].name = Oldest + (i + 1) - 1
      BY <3>1 DEF WindowInv
    <3>a. i \in Nat /\ i >= 1
      BY <1>t, <2>1
    <3>b. \A o \in Int, j \in Nat : j >= 1 => o + (j + 1) - 1 = (o + 1) + j - 1 /\ o + (j + 1) - 1 # o
      OBVIOUS
    <3>c. rolled'.window[i].name = Oldest + (i + 1) - 1
      BY <3>1, <3>2
    <3>3. rolled'.window[i].name = Oldest' + i - 1 /\ rolled'.window[i].name # Oldest
      BY <1>t, <2>1, <3>a, <3>b, <3>c
    <3>4. PICK s \in files.segments : s.name = rolled.window[i + 1].name
      BY <3>1 DEF WindowInv
    <3>5. s \in files'.segments
      BY <2>2, <2>3, <3>1, <3>3, <3>4
    <3> QED BY <3>1, <3>3, <3>4, <3>5
  <2>5. Len(rolled'.window) <= Size + 1
    BY <1>t, <2>1 DEF WindowInv
  <2> QED BY <2>2, <2>4, <2>5 DEF WindowInv
<1>4. CASE Lists
  BY <1>0, <1>4 DEF Lists
<1>5. CASE Ends
  BY <1>0, <1>5 DEF Ends, WindowInv
<1> QED BY <1>1, <1>2, <1>3, <1>4, <1>5, StepShape

\* Every step keeps the playlist at most one segment behind the window.
LEMMA ListStep ==
  ASSUME TypeInv, WindowInv, EndInv, ListInv, [Next]_vars
  PROVE  ListInv'
<1> DEFINE Len0 == Len(rolled.window) Size == Larger(WindowSize, 1)
<1>t. /\ rolled.sequence \in Nat /\ rolled.window \in Seq(Listing)
      /\ Len0 \in Nat /\ Oldest \in Int /\ Size \in Int /\ Size >= 1
  BY RolledType
<1>p. files.playlist # None =>
        /\ files.playlist.window \in Seq(Listing) /\ files.playlist.first \in Int
        /\ Len(files.playlist.window) \in Nat
  BY LenProperties DEF TypeInv
<1>1. CASE Keeps
  <2>1. Oldest' = Oldest /\ WindowFull' = WindowFull /\ rolled'.sequence = rolled.sequence
    BY <1>1 DEF Keeps, Oldest, WindowFull
  <2>2. files'.playlist = files.playlist
    BY <1>1 DEF Keeps
  <2>3. /\ pc' \in {"idle", "close", "end"} => pc \in {"idle", "close", "end"}
        /\ pc' = "prune" => pc = "prune"
        /\ finished /\ pc = "idle" => finished' /\ pc' = "idle"
    BY <1>1 DEF Keeps
  <2> QED BY <2>1, <2>2, <2>3 DEF ListInv
<1>2. CASE Stores
  <2>1. Oldest' = Oldest
    BY <1>2, StoresEffect
  <2>2. pc' = "prune" /\ pc = "close" /\ files'.playlist = files.playlist
        /\ rolled'.sequence = rolled.sequence + 1
    BY <1>2 DEF Stores
  <2>3. CASE files.playlist # None
    <3>1. files.playlist.first + Len(files.playlist.window) <= rolled.sequence + 1
      BY <1>t, <1>p, <2>3 DEF ListInv
    <3> QED BY <2>1, <2>2, <2>3, <3>1 DEF ListInv
  <2> QED BY <2>2, <2>3 DEF ListInv
<1>3. CASE Removes
  <2>1. Len0 >= 1 /\ Len(rolled'.window) = Len0 - 1 /\ Oldest' = Oldest + 1
    BY <1>3, RemovesEffect
  <2>2. pc = "prune" /\ pc' = pc /\ WindowFull /\ files'.playlist = files.playlist
        /\ rolled'.sequence = rolled.sequence
    BY <1>3 DEF Removes
  <2>3. ~WindowFull'
    <3>1. Len0 <= Size + 1
      BY DEF WindowInv
    <3> QED BY <1>t, <2>1, <3>1 DEF WindowFull
  <2>4. CASE files.playlist # None
    <3>1. Oldest = files.playlist.first
      BY <2>2, <2>4 DEF ListInv
    <3>2. files.playlist.first <= Oldest' /\ Oldest' <= files.playlist.first + 1
      BY <1>t, <2>1, <3>1
    <3>3. ~files.playlist.ended
      BY <2>2, <2>4 DEF ListInv
    <3> QED BY <2>2, <2>3, <2>4, <3>2, <3>3 DEF ListInv
  <2> QED BY <2>2, <2>4 DEF ListInv
<1>4. ASSUME rolled' = rolled, NEW e \in BOOLEAN, files'.playlist = Playlist(e),
             e => finished' /\ pc' = "idle"
      PROVE  ListInv'
  <2> DEFINE list == Playlist(e)
  <2>1. list.window = rolled.window /\ list.first = Oldest /\ list.ended = e
    BY PlaylistType DEF Oldest
  <2>2. files'.playlist = list
    BY <1>4
  <2> HIDE DEF list
  <2>3. Oldest' = Oldest /\ rolled' = rolled
    BY <1>4 DEF Oldest
  <2>4. \A i \in 1..Len(list.window) : list.window[i].name = list.first + i - 1
    BY <2>1 DEF WindowInv
  <2>5. list.first <= Oldest /\ Oldest <= list.first + 1 /\ list.first + Len(list.window) <= rolled.sequence
    BY <1>t, <2>1 DEF Oldest
  <2>6. list.ended => finished' /\ pc' = "idle"
    BY <1>4, <2>1
  <2> QED BY <2>1, <2>2, <2>3, <2>4, <2>5, <2>6 DEF ListInv
<1>5. CASE Lists
  BY <1>4, <1>5 DEF Lists
<1>6. CASE Ends
  BY <1>4, <1>6 DEF Ends, EndInv
<1> QED BY <1>1, <1>2, <1>3, <1>5, <1>6, StepShape

\* A new output has an empty window.
LEMMA WindowInit ==
  ASSUME Init
  PROVE  WindowInv
<1>1. rolled.window = <<>> /\ TypeInv
  BY TypeInit DEF Init
<1>2. Len(rolled.window) = 0
  BY <1>1, EmptySeq
<1>3. \A m \in Int : m >= 1 => 0 <= m + 1 /\ ~(0 > m)
  OBVIOUS
<1>4. \A i \in 1..0 : FALSE
  OBVIOUS
<1> QED BY <1>1, <1>2, <1>3, <1>4, RolledType DEF WindowInv, WindowFull

WindowAndList == TypeInv /\ WindowInv /\ EndInv /\ ListInv

\* The window is numbered and stored, and the playlist follows it, in every
\* reachable state.
THEOREM HlsWindowInvariant == Spec => []WindowAndList
<1>1. Init => WindowAndList
  <2> SUFFICES ASSUME Init PROVE WindowAndList
    OBVIOUS
  <2>1. TypeInv /\ WindowInv
    BY TypeInit, WindowInit
  <2>2. files.playlist = None /\ pc = "idle"
    BY DEF Init
  <2>3. EndInv /\ ListInv
    BY <2>2 DEF EndInv, ListInv
  <2> QED BY <2>1, <2>3 DEF WindowAndList
<1>2. WindowAndList /\ [Next]_vars => WindowAndList'
  BY TypeStep, WindowStep, EndStep, ListStep DEF WindowAndList
<1> QED BY <1>1, <1>2, PTL DEF Spec

\* What a player finds in the playlist is numbered without gaps and stored, but
\* for the oldest segment while the call that deleted it goes on, or once one has
\* failed: for every size of the window.
THEOREM HlsPlaylistServable == Spec => []PlaylistServable
<1>1. WindowAndList => PlaylistServable
  <2> SUFFICES ASSUME WindowAndList, files.playlist # None PROVE PlaylistServable
    BY DEF PlaylistServable
  <2> USE DEF WindowAndList
  <2> DEFINE list == files.playlist.window
             from == files.playlist.first
             n == Len(list)
             m == Len(rolled.window)
             stored == {s.name : s \in files.segments}
  <2>1. /\ from \in Int /\ n \in Nat /\ m \in Nat
        /\ rolled.sequence \in Nat /\ Oldest = rolled.sequence - m /\ list \in Seq(Listing)
    BY RolledType, LenProperties DEF TypeInv, Oldest
  <2>2. /\ \A i \in 1..n : list[i].name = from + i - 1
        /\ from <= Oldest /\ Oldest <= from + 1 /\ from + n <= rolled.sequence
        /\ pc \notin {"prune", "failed"} => Oldest = from
    BY DEF ListInv, TypeInv
  <2>3. \A j \in 1..m : Oldest + j - 1 \in stored
    <3> SUFFICES ASSUME NEW j \in 1..m PROVE Oldest + j - 1 \in stored
      OBVIOUS
    <3>1. rolled.window[j].name = Oldest + j - 1
      BY DEF WindowInv
    <3>2. PICK s \in files.segments : s.name = rolled.window[j].name
      BY DEF WindowInv
    <3> QED BY <3>1, <3>2
  <2>4. list # <<>> => n >= 1
    BY <2>1, EmptySeq
  <2>5. PlaylistServable <=>
          /\ \A i \in 1..n : list[i].name = from + i - 1
          /\ \A i \in 2..n : list[i].name \in stored
          /\ pc \notin {"prune", "failed"} /\ list # <<>> => list[1].name \in stored
    BY DEF PlaylistServable
  <2> HIDE DEF list, from, n, m, stored
  <2>6. ASSUME NEW i \in 1..n, Oldest <= from + i - 1
        PROVE  list[i].name \in stored
    <3> DEFINE j == from + i - Oldest
    <3>1. j \in 1..m /\ Oldest + j - 1 = from + i - 1
      <4> DEFINE old == Oldest
                 next == rolled.sequence
      <4>1. /\ from \in Int /\ n \in Nat /\ m \in Nat /\ next \in Nat
            /\ old = next - m /\ from + n <= next /\ i \in 1..n /\ old <= from + i - 1
        BY <2>1, <2>2, <2>6
      <4>2. j = from + i - old
        OBVIOUS
      <4> HIDE DEF old, next, j
      <4>3. j \in 1..m /\ old + j - 1 = from + i - 1
        BY <4>1, <4>2
      <4> QED BY <4>3 DEF old
    <3> HIDE DEF j
    <3>2. from + i - 1 \in stored
      BY <2>3, <3>1
    <3> QED BY <2>2, <3>2
  <2>7. \A i \in 2..n : list[i].name \in stored
    <3> SUFFICES ASSUME NEW i \in 2..n PROVE list[i].name \in stored
      OBVIOUS
    <3>1. i \in 1..n /\ Oldest <= from + i - 1
      BY <2>1, <2>2
    <3> QED BY <2>6, <3>1
  <2>8. pc \notin {"prune", "failed"} /\ list # <<>> => list[1].name \in stored
    <3> SUFFICES ASSUME pc \notin {"prune", "failed"}, list # <<>> PROVE list[1].name \in stored
      OBVIOUS
    <3>1. 1 \in 1..n /\ Oldest <= from + 1 - 1
      BY <2>1, <2>2, <2>4
    <3> QED BY <2>6, <3>1
  <2> QED BY <2>2, <2>5, <2>7, <2>8
<1> QED BY <1>1, HlsWindowInvariant, PTL

\* A playlist that players have seen is followed only by one that starts and
\* ends no earlier, and the one that has ended by none.
THEOREM HlsPlaylistMovesForward == Spec => PlaylistMovesForward
<1> DEFINE Forward ==
      files.playlist # None /\ files'.playlist # files.playlist =>
        /\ ~files.playlist.ended
        /\ files.playlist.first <= files'.playlist.first
        /\ files.playlist.first + Len(files.playlist.window)
             <= files'.playlist.first + Len(files'.playlist.window)
<1>1. WindowAndList /\ [Next]_vars => Forward
  <2> SUFFICES ASSUME WindowAndList, [Next]_vars, files.playlist # None,
                      files'.playlist # files.playlist
               PROVE  Forward
    OBVIOUS
  <2> USE DEF WindowAndList
  <2>1. /\ files.playlist.first <= Oldest
        /\ files.playlist.first + Len(files.playlist.window) <= rolled.sequence
        /\ files.playlist.ended => pc = "idle"
    BY DEF ListInv
  <2>2. Lists \/ Ends
    BY StepShape DEF Keeps, Stores, Removes
  <2>3. pc # "idle" /\ \E e \in BOOLEAN : files'.playlist = Playlist(e)
    BY <2>2 DEF Lists, Ends
  <2>4. PICK e \in BOOLEAN : files'.playlist = Playlist(e)
    BY <2>3
  <2> DEFINE next == files'.playlist
  <2>5. next.window = rolled.window /\ next.first = Oldest
    BY <2>4, PlaylistType DEF Oldest
  <2>6. next.first + Len(next.window) = rolled.sequence
    BY <2>5, RolledType DEF Oldest
  <2> QED BY <2>1, <2>3, <2>5, <2>6
<1>2. Spec => [][Forward]_vars
  BY <1>1, HlsWindowInvariant, PTL DEF Spec
<1> QED BY <1>2 DEF PlaylistMovesForward

-----------------------------------------------------------------------------
(***************************************************************************)
(* Reading boxes.                                                          *)
(***************************************************************************)
\* A box has the fields it was made with.
LEMMA BoxFields ==
  ASSUME NEW tag, NEW own, NEW val, NEW kids
  PROVE  /\ Box(tag, own, val, kids).tag = tag /\ FullBox(tag, own, val, kids).tag = tag
         /\ Box(tag, own, val, kids).val = val /\ FullBox(tag, own, val, kids).val = val
         /\ Box(tag, own, val, kids).kids = kids /\ FullBox(tag, own, val, kids).kids = kids
<1>1. \A n, v, k, s : LET b == [tag |-> n, val |-> v, kids |-> k, size |-> s]
                      IN  b.tag = n /\ b.val = v /\ b.kids = k
  OBVIOUS
<1> DEFINE size(o) == 8 + o + Total([k \in DOMAIN kids |-> kids[k].size])
<1>2. \A o : Box(tag, o, val, kids) = [tag |-> tag, val |-> val, kids |-> kids, size |-> size(o)]
  BY DEF Box
<1> HIDE DEF size
<1>3. \A o : /\ Box(tag, o, val, kids).tag = tag /\ Box(tag, o, val, kids).val = val
             /\ Box(tag, o, val, kids).kids = kids
  BY <1>1, <1>2
<1> QED BY <1>3 DEF FullBox

\* The only box with a tag is the one found.
LEMMA TheOnlyBox ==
  ASSUME NEW n \in Nat, NEW b, DOMAIN b = 1..n, NEW tag, NEW i \in 1..n, b[i].tag = tag,
         \A j \in 1..n : b[j].tag = tag => j = i
  PROVE  TheBox(b, tag) = b[i]
<1> DEFINE P(k) == k \in DOMAIN b /\ b[k].tag = tag /\ \A j \in 1..(k - 1) : b[j].tag # tag
<1>1. P(i)
  <2>1. \A j \in 1..(i - 1) : j \in 1..n /\ j # i
    OBVIOUS
  <2> QED BY <2>1
<1>2. \A k : P(k) => k = i
  OBVIOUS
<1>3. (CHOOSE k : P(k)) = i
  <2> HIDE DEF P
  <2> QED BY <1>1, <1>2
<1>4. TheBox(b, tag) = b[CHOOSE k : P(k)]
  BY Zenon DEF TheBox
<1> QED BY <1>3, <1>4

\* The box found among two or three.
LEMMA FirstOfTwo ==
  ASSUME NEW a, NEW b, NEW tag, a.tag = tag, b.tag # tag
  PROVE  TheBox(<<a, b>>, tag) = a
<1> DEFINE s == <<a, b>>
<1>1. DOMAIN s = 1..2 /\ s[1] = a /\ s[2] = b
  OBVIOUS
<1>2. 2 \in Nat /\ 1 \in 1..2 /\ \A j \in 1..2 : j = 1 \/ j = 2
  OBVIOUS
<1> HIDE DEF s
<1> DEFINE n == 2 i == 1
<1>3. n \in Nat /\ i \in 1..n /\ DOMAIN s = 1..n /\ s[i].tag = tag
  BY <1>1, <1>2
<1>4. \A j \in 1..n : s[j].tag = tag => j = i
  BY <1>1, <1>2
<1>5. TheBox(s, tag) = s[i]
  <2> HIDE DEF n, i
  <2> QED BY <1>3, <1>4, TheOnlyBox
<1>6. TheBox(s, tag) = s[1]
  BY <1>5
<1> QED BY <1>1, <1>6 DEF s

\* The second of two.
LEMMA SecondOfTwo ==
  ASSUME NEW a, NEW b, NEW tag, a.tag # tag, b.tag = tag
  PROVE  TheBox(<<a, b>>, tag) = b
<1> DEFINE s == <<a, b>>
<1>1. DOMAIN s = 1..2 /\ s[1] = a /\ s[2] = b
  OBVIOUS
<1>2. 2 \in Nat /\ 2 \in 1..2 /\ \A j \in 1..2 : j = 1 \/ j = 2
  OBVIOUS
<1> HIDE DEF s
<1> DEFINE n == 2 i == 2
<1>3. n \in Nat /\ i \in 1..n /\ DOMAIN s = 1..n /\ s[i].tag = tag
  BY <1>1, <1>2
<1>4. \A j \in 1..n : s[j].tag = tag => j = i
  BY <1>1, <1>2
<1>5. TheBox(s, tag) = s[i]
  <2> HIDE DEF n, i
  <2> QED BY <1>3, <1>4, TheOnlyBox
<1>6. TheBox(s, tag) = s[2]
  BY <1>5
<1> QED BY <1>1, <1>6 DEF s

\* The first of three.
LEMMA FirstOfThree ==
  ASSUME NEW a, NEW b, NEW c, NEW tag, a.tag = tag, b.tag # tag, c.tag # tag
  PROVE  TheBox(<<a, b, c>>, tag) = a
<1> DEFINE s == <<a, b, c>>
<1>1. DOMAIN s = 1..3 /\ s[1] = a /\ s[2] = b /\ s[3] = c
  OBVIOUS
<1>2. 3 \in Nat /\ 1 \in 1..3 /\ \A j \in 1..3 : j = 1 \/ j = 2 \/ j = 3
  OBVIOUS
<1> HIDE DEF s
<1> DEFINE n == 3 i == 1
<1>3. n \in Nat /\ i \in 1..n /\ DOMAIN s = 1..n /\ s[i].tag = tag
  BY <1>1, <1>2
<1>4. \A j \in 1..n : s[j].tag = tag => j = i
  BY <1>1, <1>2
<1>5. TheBox(s, tag) = s[i]
  <2> HIDE DEF n, i
  <2> QED BY <1>3, <1>4, TheOnlyBox
<1>6. TheBox(s, tag) = s[1]
  BY <1>5
<1> QED BY <1>1, <1>6 DEF s

\* The second of three.
LEMMA SecondOfThree ==
  ASSUME NEW a, NEW b, NEW c, NEW tag, a.tag # tag, b.tag = tag, c.tag # tag
  PROVE  TheBox(<<a, b, c>>, tag) = b
<1> DEFINE s == <<a, b, c>>
<1>1. DOMAIN s = 1..3 /\ s[1] = a /\ s[2] = b /\ s[3] = c
  OBVIOUS
<1>2. 3 \in Nat /\ 2 \in 1..3 /\ \A j \in 1..3 : j = 1 \/ j = 2 \/ j = 3
  OBVIOUS
<1> HIDE DEF s
<1> DEFINE n == 3 i == 2
<1>3. n \in Nat /\ i \in 1..n /\ DOMAIN s = 1..n /\ s[i].tag = tag
  BY <1>1, <1>2
<1>4. \A j \in 1..n : s[j].tag = tag => j = i
  BY <1>1, <1>2
<1>5. TheBox(s, tag) = s[i]
  <2> HIDE DEF n, i
  <2> QED BY <1>3, <1>4, TheOnlyBox
<1>6. TheBox(s, tag) = s[2]
  BY <1>5
<1> QED BY <1>1, <1>6 DEF s

\* A track of a segment's moof is the track of one of its fragments.
LEMMA MoofTracks ==
  ASSUME NEW n, NEW m \in Nat, NEW frs, DOMAIN frs = 1..m, NEW at, NEW id,
         NEW traf \in Inside(Moof(n, frs, at).kids, "traf"), IdOf(traf) = id
  PROVE  \E k \in 1..m : frs[k].id = id
<1> DEFINE mfhd == FullBox("mfhd", 4, n, <<>>)
           trafs == [k \in DOMAIN frs |-> Traf(frs[k], at[k])]
           S == {mfhd} \cup {trafs[k] : k \in 1..m}
           kids == Moof(n, frs, at).kids
<1>1. kids = <<mfhd>> \o trafs
  <2> DEFINE ks == <<mfhd>> \o trafs
  <2>1. Moof(n, frs, at) = Box("moof", 0, None, ks)
    BY DEF Moof
  <2> HIDE DEF ks
  <2>2. Box("moof", 0, None, ks).kids = ks
    BY BoxFields
  <2> QED BY <2>1, <2>2 DEF ks
<1>2. mfhd.tag = "mfhd"
  BY BoxFields
<1>3. DOMAIN trafs = 1..m /\ \A k \in 1..m : trafs[k] = Traf(frs[k], at[k])
  OBVIOUS
<1>4. trafs = [k \in 1..m |-> trafs[k]]
  OBVIOUS
<1>5. PICK i \in DOMAIN kids : traf = kids[i] /\ traf.tag = "traf"
  BY DEF Inside
<1> HIDE DEF mfhd, trafs, kids
<1>6. <<mfhd>> \in Seq(S) /\ Len(<<mfhd>>) = 1 /\ <<mfhd>>[1] = mfhd
  OBVIOUS
<1>7. trafs \in Seq(S) /\ Len(trafs) = m
  BY <1>3, <1>4
<1> DEFINE one == <<mfhd>>
<1>8. one \in Seq(S) /\ Len(one) = 1 /\ one[1] = mfhd /\ kids = one \o trafs
  BY <1>1, <1>6
<1> HIDE DEF one, S
<1>9. /\ kids \in Seq(S) /\ Len(kids) = 1 + m
      /\ \A j \in 1..(1 + m) : kids[j] = IF j <= 1 THEN one[j] ELSE trafs[j - 1]
  <2>1. /\ kids \in Seq(S) /\ Len(kids) = Len(one) + Len(trafs)
        /\ \A j \in 1..(Len(one) + Len(trafs)) :
             kids[j] = IF j <= Len(one) THEN one[j] ELSE trafs[j - Len(one)]
    <3>1. /\ one \o trafs \in Seq(S) /\ Len(one \o trafs) = Len(one) + Len(trafs)
          /\ \A j \in 1..(Len(one) + Len(trafs)) :
               (one \o trafs)[j] = IF j <= Len(one) THEN one[j] ELSE trafs[j - Len(one)]
      BY <1>7, <1>8, ConcatProperties
    <3> QED BY <1>8, <3>1
  <2> QED BY <1>7, <1>8, <2>1
<1>10. i \in 1..(1 + m)
  BY <1>5, <1>9, LenProperties
<1>11. i # 1
  BY <1>2, <1>5, <1>8, <1>9, <1>10
<1>12. i - 1 \in 1..m /\ kids[i] = trafs[i - 1]
  BY <1>9, <1>10, <1>11
<1> DEFINE k == i - 1
           f == frs[k]
           tfhd == FullBox("tfhd", 4, f.id, <<>>)
           tfdt == FullBox("tfdt", 8, f.base, <<>>)
           trun == FullBox("trun", 8 + 16 * Len(f.samples),
                     [at |-> at[k], entries |-> [j \in DOMAIN f.samples |-> Entry(f.samples[j])]], <<>>)
           inner == <<tfhd, tfdt, trun>>
<1>13. k \in 1..m /\ traf = Traf(f, at[k])
  BY <1>3, <1>5, <1>12
<1>14. traf.kids = inner
  BY <1>13, BoxFields DEF Traf
<1>15. tfhd.tag = "tfhd" /\ tfhd.val = f.id /\ tfdt.tag = "tfdt" /\ trun.tag = "trun"
  BY BoxFields
<1> HIDE DEF tfhd, tfdt, trun
<1>17. TheBox(inner, "tfhd") = tfhd
  <2> DEFINE tag == "tfhd"
  <2>1. tfhd.tag = tag /\ tfdt.tag # tag /\ trun.tag # tag
    BY <1>15
  <2> HIDE DEF tag
  <2>2. TheBox(<<tfhd, tfdt, trun>>, tag) = tfhd
    BY <2>1, FirstOfThree
  <2> QED BY <2>2 DEF tag
<1>18. IdOf(traf) = f.id
  BY <1>14, <1>15, <1>17 DEF IdOf
<1> QED BY <1>13, <1>18

\* A segment holds a track only if the open segment has samples of it.
LEMMA SegmentTracks ==
  ASSUME NEW t \in Kinds, HasTrack(Segment.file, TrackId(t))
  PROVE  open[t] # <<>>
<1> DEFINE V == IF open.video = <<>> THEN <<>> ELSE <<VideoFragment>>
           A == IF open.audio = <<>> THEN <<>> ELSE <<AudioFragment>>
           frs == V \o A
           S == (IF open.video = <<>> THEN {} ELSE {VideoFragment})
                  \cup (IF open.audio = <<>> THEN {} ELSE {AudioFragment})
           moof == Moof(rolled.sequence, frs, Offsets(rolled.sequence, frs))
           mdat == FlattenSeq([k \in DOMAIN frs |-> Payloads(frs[k])])
           data == Box("mdat", Len(mdat), mdat, <<>>)
           file == <<Styp, moof, data>>
<1>1. V \in Seq(S)
  <2>1. CASE open.video = <<>>
    BY <2>1, EmptySeq
  <2>2. CASE open.video # <<>>
    BY <2>2
  <2> QED BY <2>1, <2>2
<1>2. A \in Seq(S)
  <2>1. CASE open.audio = <<>>
    BY <2>1, EmptySeq
  <2>2. CASE open.audio # <<>>
    BY <2>2
  <2> QED BY <2>1, <2>2
<1>3. Segment.file = file
  BY DEF Segment, MediaSegment
<1>4. Styp.tag = "styp" /\ moof.tag = "moof" /\ data.tag = "mdat"
  <2>1. \A q, at : Moof(rolled.sequence, q, at).tag = "moof"
    BY BoxFields DEF Moof
  <2>2. Styp.tag = "styp"
    BY BoxFields DEF Styp
  <2>3. \A q : Box("mdat", Len(q), q, <<>>).tag = "mdat"
    BY BoxFields
  <2> HIDE DEF mdat, frs
  <2> QED BY <2>1, <2>2, <2>3
<1>5. VideoFragment.id = 1 /\ AudioFragment.id = 2
  BY DEF VideoFragment, AudioFragment, VideoTrackId, AudioTrackId
<1>6. \A x \in S : (x = VideoFragment /\ open.video # <<>>) \/ (x = AudioFragment /\ open.audio # <<>>)
  <2> SUFFICES ASSUME NEW x \in S
               PROVE  (x = VideoFragment /\ open.video # <<>>) \/ (x = AudioFragment /\ open.audio # <<>>)
    OBVIOUS
  <2>1. CASE open.video = <<>>
    BY <2>1, Zenon
  <2>2. CASE open.video # <<>>
    <3>1. S = {VideoFragment} \cup (IF open.audio = <<>> THEN {} ELSE {AudioFragment})
      BY <2>2
    <3> HIDE DEF S
    <3>2. CASE open.audio = <<>>
      <4>1. S = {VideoFragment}
        BY <3>1, <3>2
      <4>2. x \in {VideoFragment}
        BY <4>1
      <4> QED BY <2>2, <4>2
    <3>3. CASE open.audio # <<>>
      <4>1. S = {VideoFragment} \cup {AudioFragment}
        BY <3>1, <3>3, Zenon
      <4> QED BY <2>2, <3>3, <4>1
    <3> QED BY <3>2, <3>3
  <2> QED BY <2>1, <2>2
<1> HIDE DEF V, A, S
<1>7. frs \in Seq(S)
  BY <1>1, <1>2, ConcatProperties
<1> HIDE DEF frs
<1>8. DOMAIN frs = 1..Len(frs) /\ Len(frs) \in Nat /\ \A k \in 1..Len(frs) : frs[k] \in S
  BY <1>7, LenProperties, ElementOfSeq
<1> HIDE DEF moof, data
<1>10. TheBox(file, "moof") = moof
  <2> DEFINE tag == "moof"
  <2>1. Styp.tag # tag /\ moof.tag = tag /\ data.tag # tag
    BY <1>4
  <2> HIDE DEF tag
  <2>2. TheBox(<<Styp, moof, data>>, tag) = moof
    BY <2>1, SecondOfThree
  <2> QED BY <2>2 DEF tag
<1>11. PICK traf \in Inside(moof.kids, "traf") : IdOf(traf) = TrackId(t)
  BY <1>3, <1>10 DEF HasTrack, TrafsOf
<1>12. PICK k \in 1..Len(frs) : frs[k].id = TrackId(t)
  BY <1>8, <1>11, MoofTracks DEF moof
<1>13. frs[k] \in S
  BY <1>8
<1> QED BY <1>5, <1>6, <1>12, <1>13 DEF TrackId, Kinds, VideoTrackId, AudioTrackId

\* The boxes of a moov: one, some, some more, and one.
LEMMA MoovKids ==
  ASSUME NEW S, NEW m \in S, NEW V \in Seq(S), NEW A \in Seq(S), NEW x \in S,
         NEW k, k = <<m>> \o V \o A \o <<x>>
  PROVE  /\ k \in Seq(S) /\ DOMAIN k = 1..(Len(V) + Len(A) + 2)
         /\ Len(V) \in Nat /\ Len(A) \in Nat
         /\ k[1] = m /\ k[Len(V) + Len(A) + 2] = x
         /\ \A i \in 1..Len(V) : k[1 + i] = V[i]
         /\ \A i \in 1..Len(A) : k[1 + Len(V) + i] = A[i]
<1> DEFINE a == <<m>> z == <<x>>
           b == a \o V
           c == b \o A
<1>1. a \in Seq(S) /\ Len(a) = 1 /\ a[1] = m
  OBVIOUS
<1>2. z \in Seq(S) /\ Len(z) = 1 /\ z[1] = x
  OBVIOUS
<1>3. k = c \o z
  OBVIOUS
<1> HIDE DEF a, z
<1>4. Len(V) \in Nat /\ Len(A) \in Nat
  BY LenProperties
<1>5. /\ b \in Seq(S) /\ Len(b) = Len(a) + Len(V)
      /\ \A i \in 1..(Len(a) + Len(V)) : b[i] = IF i <= Len(a) THEN a[i] ELSE V[i - Len(a)]
  BY <1>1, ConcatProperties
<1> HIDE DEF b
<1>b. b \in Seq(S)
  BY <1>5
<1>6. /\ c \in Seq(S) /\ Len(c) = Len(b) + Len(A)
      /\ \A i \in 1..(Len(b) + Len(A)) : c[i] = IF i <= Len(b) THEN b[i] ELSE A[i - Len(b)]
  BY <1>b, ConcatProperties
<1> HIDE DEF c
<1>c. c \in Seq(S) /\ z \in Seq(S)
  BY <1>2, <1>6
<1>7. /\ c \o z \in Seq(S) /\ Len(c \o z) = Len(c) + Len(z)
      /\ \A i \in 1..(Len(c) + Len(z)) : (c \o z)[i] = IF i <= Len(c) THEN c[i] ELSE z[i - Len(c)]
  BY <1>c, ConcatProperties
<1>8. /\ k \in Seq(S) /\ Len(k) = Len(c) + Len(z)
      /\ \A i \in 1..(Len(c) + Len(z)) : k[i] = IF i <= Len(c) THEN c[i] ELSE z[i - Len(c)]
  BY <1>3, <1>7
<1> DEFINE p == Len(V) q == Len(A)
<1>9. p \in Nat /\ q \in Nat /\ Len(b) = 1 + p /\ Len(c) = 1 + p + q /\ Len(k) = 1 + p + q + 1
  BY <1>1, <1>2, <1>4, <1>5, <1>6, <1>8
<1> HIDE DEF p, q
<1>10. /\ \A i \in 1..(1 + p) : b[i] = IF i <= 1 THEN a[i] ELSE V[i - 1]
       /\ \A i \in 1..(1 + p + q) : c[i] = IF i <= 1 + p THEN b[i] ELSE A[i - (1 + p)]
       /\ \A i \in 1..(1 + p + q + 1) : k[i] = IF i <= 1 + p + q THEN c[i] ELSE z[i - (1 + p + q)]
  BY <1>1, <1>2, <1>5, <1>6, <1>8, <1>9 DEF p, q
<1>11. k[1] = m
  <2>1. 1 \in 1..(1 + p) /\ 1 \in 1..(1 + p + q) /\ 1 \in 1..(1 + p + q + 1) /\ 1 <= 1 + p /\ 1 <= 1 + p + q
    BY <1>9
  <2>2. k[1] = c[1] /\ c[1] = b[1] /\ b[1] = a[1]
    BY <1>10, <2>1
  <2> QED BY <1>1, <2>2
<1>12. k[p + q + 2] = x
  <2> DEFINE i == p + q + 2
  <2>1. i \in 1..(1 + p + q + 1) /\ ~(i <= 1 + p + q) /\ i - (1 + p + q) = 1
    BY <1>9
  <2> HIDE DEF i
  <2>2. k[i] = z[i - (1 + p + q)]
    BY <1>10, <2>1
  <2>3. k[i] = x
    BY <1>2, <2>1, <2>2
  <2> QED BY <2>3 DEF i
<1>13. ASSUME NEW i \in 1..p PROVE k[1 + i] = V[i]
  <2> DEFINE j == 1 + i
  <2>1. /\ j \in 1..(1 + p) /\ j \in 1..(1 + p + q) /\ j \in 1..(1 + p + q + 1)
        /\ j <= 1 + p /\ j <= 1 + p + q /\ ~(j <= 1) /\ j - 1 = i
    BY <1>9
  <2> HIDE DEF j
  <2>2. k[j] = c[j] /\ c[j] = b[j] /\ b[j] = V[j - 1]
    BY <1>10, <2>1
  <2>3. k[j] = V[i]
    BY <2>1, <2>2
  <2> QED BY <2>3 DEF j
<1>14. ASSUME NEW i \in 1..q PROVE k[1 + p + i] = A[i]
  <2> DEFINE j == 1 + p + i
  <2>1. /\ j \in 1..(1 + p + q) /\ j \in 1..(1 + p + q + 1)
        /\ ~(j <= 1 + p) /\ j <= 1 + p + q /\ j - (1 + p) = i
    BY <1>9
  <2> HIDE DEF j
  <2>2. k[j] = c[j] /\ c[j] = A[j - (1 + p)]
    BY <1>10, <2>1
  <2>3. k[j] = A[i]
    BY <2>1, <2>2
  <2> QED BY <2>3 DEF j
<1>15. DOMAIN k = 1..(p + q + 2)
  <2>1. \A e, f \in Nat : 1 + e + f + 1 = e + f + 2
    OBVIOUS
  <2> QED BY <1>8, <1>9, <2>1, LenProperties
<1> QED BY <1>8, <1>9, <1>11, <1>12, <1>13, <1>14, <1>15 DEF p, q

\* A trak is found by its header, and tells its timescale.
LEMMA TrakFound ==
  ASSUME NEW id, NEW w, NEW h, NEW scale, NEW handler, NEW header, NEW entry,
         NEW trak, trak = Trak(Tkhd(id, w, h), scale, handler, header, entry)
  PROVE  /\ trak.tag = "trak" /\ TheBox(trak.kids, "tkhd").val.id = id
         /\ TheBox(TheBox(trak.kids, "mdia").kids, "mdhd").val = scale
<1> DEFINE tkhd == Tkhd(id, w, h)
           own == [id |-> id, width |-> w, height |-> h]
           mdhd == Mdhd(scale)
           hdlr == Hdlr(handler)
           minf == Box("minf", 0, None, <<header, Dinf, Stbl(entry)>>)
           inner == <<mdhd, hdlr, minf>>
           mdia == Box("mdia", 0, None, inner)
           tag == "tkhd"
<1>1. tkhd.tag = "tkhd" /\ tkhd.val = own
  BY BoxFields DEF Tkhd
<1>2. own.id = id
  OBVIOUS
<1>3. trak = Box("trak", 0, None, <<tkhd, mdia>>)
  BY DEF Trak
<1>a. mdhd.tag = "mdhd" /\ mdhd.val = scale /\ hdlr.tag = "hdlr" /\ minf.tag = "minf"
  BY BoxFields DEF Mdhd, Hdlr
<1> HIDE DEF mdhd, hdlr, minf
<1>b. TheBox(inner, "mdhd") = mdhd
  <2> DEFINE name == "mdhd"
  <2>1. mdhd.tag = name /\ hdlr.tag # name /\ minf.tag # name
    BY <1>a
  <2> HIDE DEF name
  <2>2. TheBox(<<mdhd, hdlr, minf>>, name) = mdhd
    BY <2>1, FirstOfThree
  <2> QED BY <2>2 DEF name
<1> HIDE DEF tkhd, own, inner
<1>4. mdia.tag = "mdia" /\ mdia.kids = inner
  BY BoxFields
<1> HIDE DEF mdia
<1>5. trak.tag = "trak" /\ trak.kids = <<tkhd, mdia>>
  BY <1>3, BoxFields
<1>6. TheBox(<<tkhd, mdia>>, tag) = tkhd
  <2>1. tkhd.tag = tag /\ mdia.tag # tag
    BY <1>1, <1>4
  <2> HIDE DEF tag
  <2> QED BY <2>1, FirstOfTwo
<1>7. TheBox(<<tkhd, mdia>>, "mdia") = mdia
  <2> DEFINE name == "mdia"
  <2>1. tkhd.tag # name /\ mdia.tag = name
    BY <1>1, <1>4
  <2> HIDE DEF name
  <2>2. TheBox(<<tkhd, mdia>>, name) = mdia
    BY <2>1, SecondOfTwo
  <2> QED BY <2>2 DEF name
<1> QED BY <1>1, <1>2, <1>4, <1>5, <1>6, <1>7, <1>a, <1>b

\* An init segment describes and extends the tracks it is written for, each
\* with its timescale.
LEMMA InitFileTracks ==
  ASSUME NEW tracks, NEW t \in Kinds, t \in tracks
  PROVE  /\ TrackId(t) \in TracksOf(InitFile(tracks))
         /\ TimescaleOf(InitFile(tracks), TrackId(t)) = IF t = "video" THEN Second ELSE Audio.rate
<1> DEFINE video == IF "video" \in tracks THEN Video ELSE None
           audio == IF "audio" \in tracks THEN Audio ELSE None
           vt == VideoTrak(video, Second)
           at == AudioTrak(audio)
           next == IF audio # None THEN AudioTrackId + 1
                   ELSE IF video # None THEN VideoTrackId + 1 ELSE 1
           mvhd == Mvhd(next)
           V == IF video = None THEN <<>> ELSE <<vt>>
           A == IF audio = None THEN <<>> ELSE <<at>>
           XV == IF video = None THEN <<>> ELSE <<Trex(VideoTrackId)>>
           XA == IF audio = None THEN <<>> ELSE <<Trex(AudioTrackId)>>
           ext == XV \o XA
           mvex == Box("mvex", 0, None, ext)
           kids == <<mvhd>> \o V \o A \o <<mvex>>
           moov == Box("moov", 0, None, kids)
           trex == Trex(TrackId(t))
           trak == IF t = "video" THEN vt ELSE at
           S == {mvhd, vt, at, mvex}
<1>1. InitFile(tracks) = <<Ftyp, moov>>
  BY Zenon DEF InitFile, InitSegment
<1>2. t = "video" \/ t = "audio"
  BY DEF Kinds
<1>3. t = "video" => video # None
  BY TracksAssumption
<1>4. t = "audio" => audio # None
  BY TracksAssumption
<1>c. t = "audio" => audio.rate = Audio.rate
  OBVIOUS
<1> HIDE DEF video, audio
<1>5. mvhd.tag = "mvhd"
  BY BoxFields DEF Mvhd
<1>6. /\ vt.tag = "trak" /\ TheBox(vt.kids, "tkhd").val.id = VideoTrackId
      /\ TheBox(TheBox(vt.kids, "mdia").kids, "mdhd").val = Second
  BY TrakFound DEF VideoTrak
<1>7. /\ at.tag = "trak" /\ TheBox(at.kids, "tkhd").val.id = AudioTrackId
      /\ TheBox(TheBox(at.kids, "mdia").kids, "mdhd").val = audio.rate
  BY TrakFound DEF AudioTrak
<1>8. \A id : Trex(id).val = id
  BY BoxFields DEF Trex
<1>9. V \in Seq(S) /\ \A i \in 1..Len(V) : V[i] = vt
  <2>1. CASE video = None
    <3>1. V = <<>>
      BY <2>1
    <3>2. Len(V) = 0
      BY <3>1, EmptySeq
    <3> HIDE DEF V
    <3> QED BY <3>1, <3>2, EmptySeq
  <2>2. CASE video # None
    <3>1. V = <<vt>> /\ vt \in S
      BY <2>2
    <3> HIDE DEF V, S, vt
    <3> QED BY <3>1
  <2> QED BY <2>1, <2>2
<1>10. A \in Seq(S) /\ \A i \in 1..Len(A) : A[i] = at
  <2>1. CASE audio = None
    <3>1. A = <<>>
      BY <2>1
    <3>2. Len(A) = 0
      BY <3>1, EmptySeq
    <3> HIDE DEF A
    <3> QED BY <3>1, <3>2, EmptySeq
  <2>2. CASE audio # None
    <3>1. A = <<at>> /\ at \in S
      BY <2>2
    <3> HIDE DEF A, S, at
    <3> QED BY <3>1
  <2> QED BY <2>1, <2>2
<1>11. (t = "video" => 1 \in 1..Len(V)) /\ (t = "audio" => 1 \in 1..Len(A))
  <2>1. \A b : 1 \in 1..Len(<<b>>)
    OBVIOUS
  <2>2. (t = "video" => V = <<vt>>) /\ (t = "audio" => A = <<at>>)
    BY <1>3, <1>4
  <2> HIDE DEF V, A
  <2> QED BY <2>1, <2>2
<1>12. \E i \in DOMAIN ext : ext[i] = trex
  <2> DEFINE R == {Trex(VideoTrackId), Trex(AudioTrackId)}
  <2>1. XV \in Seq(R) /\ (t = "video" => Len(XV) = 1 /\ XV[1] = trex)
    <3>1. CASE video = None
      BY <1>3, <3>1, EmptySeq
    <3>2. CASE video # None
      BY <3>2 DEF TrackId
    <3> QED BY <3>1, <3>2
  <2>2. XA \in Seq(R) /\ (t = "audio" => Len(XA) = 1 /\ XA[1] = trex)
    <3>1. CASE audio = None
      BY <1>4, <3>1, EmptySeq
    <3>2. CASE audio # None
      BY <3>2 DEF TrackId
    <3> QED BY <3>1, <3>2
  <2> HIDE DEF XV, XA, R, trex
  <2>3. /\ ext \in Seq(R) /\ Len(ext) = Len(XV) + Len(XA)
        /\ \A i \in 1..(Len(XV) + Len(XA)) : ext[i] = IF i <= Len(XV) THEN XV[i] ELSE XA[i - Len(XV)]
    BY <2>1, <2>2, ConcatProperties
  <2>4. Len(XV) \in Nat /\ Len(XA) \in Nat /\ DOMAIN ext = 1..(Len(XV) + Len(XA))
    BY <2>1, <2>2, <2>3, LenProperties
  <2> DEFINE n == Len(XV) m == Len(XA)
  <2> HIDE DEF ext
  <2>5. CASE t = "video"
    <3> DEFINE i == 1
    <3>1. i \in 1..(n + m) /\ i <= n
      <4>1. \A a, b \in Nat : a = 1 => 1 \in 1..(a + b) /\ 1 <= a
        OBVIOUS
      <4>2. n \in Nat /\ m \in Nat /\ n = 1
        BY <2>1, <2>4, <2>5
      <4> HIDE DEF n, m
      <4> QED BY <4>1, <4>2
    <3>2. XV[i] = trex
      BY <2>1, <2>5
    <3> HIDE DEF i
    <3>3. ext[i] = XV[i]
      BY <2>3, <3>1
    <3> QED BY <2>4, <3>1, <3>2, <3>3
  <2>6. CASE t = "audio"
    <3> DEFINE i == n + 1
    <3>1. i \in 1..(n + m) /\ ~(i <= n) /\ i - n = 1
      BY <2>2, <2>4, <2>6
    <3>2. ext[i] = XA[i - n]
      BY <2>3, <3>1
    <3> QED BY <2>2, <2>4, <2>6, <3>1, <3>2
  <2> QED BY <1>2, <2>5, <2>6
<1>13. mvex.tag = "mvex" /\ mvex.kids = ext
  <2> HIDE DEF ext
  <2> QED BY BoxFields
<1>14. moov.tag = "moov" /\ moov.kids = kids
  <2> HIDE DEF kids
  <2> QED BY BoxFields
<1>15. mvhd \in S /\ vt \in S /\ at \in S /\ mvex \in S
  OBVIOUS
<1>16. trak = (IF t = "video" THEN vt ELSE at)
  OBVIOUS
<1>d. \A x \in S : x = mvhd \/ x = vt \/ x = at \/ x = mvex
  OBVIOUS
<1> HIDE DEF mvhd, vt, at, mvex, V, A, ext, S, moov, trex, trak
<1> DEFINE p == Len(V) q == Len(A)
<1>17. /\ DOMAIN kids = 1..(p + q + 2) /\ p \in Nat /\ q \in Nat
       /\ kids[1] = mvhd /\ kids[p + q + 2] = mvex
       /\ \A i \in 1..p : kids[1 + i] = V[i]
       /\ \A i \in 1..q : kids[1 + p + i] = A[i]
       /\ kids \in Seq(S)
  BY <1>9, <1>10, <1>15, MoovKids
<1> HIDE DEF kids, p, q
<1>18. TheBox(kids, "mvex") = mvex
  <2> DEFINE n == p + q + 2 i == p + q + 2
  <2>1. n \in Nat /\ i \in 1..n
    BY <1>17
  <2>2. \A j \in 1..n : j = 1 \/ j - 1 \in 1..p \/ j - (1 + p) \in 1..q \/ j = i
    BY <1>17
  <2>3. ASSUME NEW j \in 1..n, kids[j].tag = "mvex" PROVE j = i
    <3>1. j # 1
      BY <1>5, <1>17, <2>3
    <3>2. j - 1 \notin 1..p
      <4> DEFINE k == j - 1
      <4>1. j = 1 + k
        OBVIOUS
      <4> HIDE DEF k
      <4> SUFFICES ASSUME k \in 1..p PROVE FALSE
        BY DEF k
      <4>2. kids[j] = vt
        BY <1>9, <1>17, <4>1 DEF p
      <4> QED BY <1>6, <2>3, <4>2
    <3>3. j - (1 + p) \notin 1..q
      <4> DEFINE k == j - (1 + p)
      <4>1. j = 1 + p + k
        BY <1>17
      <4> HIDE DEF k
      <4> SUFFICES ASSUME k \in 1..q PROVE FALSE
        BY DEF k
      <4>2. kids[j] = at
        BY <1>10, <1>17, <4>1 DEF q
      <4> QED BY <1>7, <2>3, <4>2
    <3> QED BY <2>2, <3>1, <3>2, <3>3
  <2>4. DOMAIN kids = 1..n /\ kids[i].tag = "mvex" /\ kids[i] = mvex
    BY <1>13, <1>17
  <2> HIDE DEF n, i
  <2>5. TheBox(kids, "mvex") = kids[i]
    BY <2>1, <2>3, <2>4, TheOnlyBox
  <2> QED BY <2>4, <2>5
<1>19. trak \in Inside(kids, "trak")
  <2>1. \E j \in DOMAIN kids : kids[j] = trak
    <3>1. CASE t = "video"
      <4>1. 1 \in 1..p /\ 1 + 1 \in DOMAIN kids
        BY <1>11, <1>17, <3>1 DEF p
      <4>2. kids[1 + 1] = vt
        BY <1>9, <1>17, <4>1 DEF p
      <4> QED BY <1>16, <3>1, <4>1, <4>2
    <3>2. CASE t = "audio"
      <4>1. 1 \in 1..q /\ 1 + p + 1 \in DOMAIN kids
        BY <1>11, <1>17, <3>2 DEF q
      <4>2. kids[1 + p + 1] = at
        BY <1>10, <1>17, <4>1 DEF q
      <4> QED BY <1>16, <3>2, <4>1, <4>2
    <3> QED BY <1>2, <3>1, <3>2
  <2>2. trak.tag = "trak"
    BY <1>6, <1>7, <1>16
  <2> QED BY <2>1, <2>2 DEF Inside
<1>20. TheBox(trak.kids, "tkhd").val.id = TrackId(t)
  BY <1>2, <1>6, <1>7, <1>16 DEF TrackId
<1>21. TheBox(InitFile(tracks), "moov") = moov
  <2> DEFINE tag == "moov"
  <2>1. Ftyp.tag # tag
    BY BoxFields DEF Ftyp
  <2>2. moov.tag = tag
    BY <1>14
  <2> HIDE DEF tag
  <2>3. TheBox(<<Ftyp, moov>>, tag) = moov
    BY <2>1, <2>2, SecondOfTwo
  <2> QED BY <1>1, <2>3 DEF tag
<1>22. trex \in ToSet(ext) /\ trex.val = TrackId(t)
  BY <1>8, <1>12 DEF ToSet, trex
<1>23. TracksOf(InitFile(tracks)) =
         {TheBox(x.kids, "tkhd").val.id : x \in Inside(kids, "trak")} \cap {b.val : b \in ToSet(ext)}
  BY <1>13, <1>14, <1>18, <1>21 DEF TracksOf
<1>24. \A x \in Inside(kids, "trak") : TheBox(x.kids, "tkhd").val.id = TrackId(t) => x = trak
  <2> SUFFICES ASSUME NEW x \in Inside(kids, "trak"), TheBox(x.kids, "tkhd").val.id = TrackId(t)
               PROVE  x = trak
    OBVIOUS
  <2>1. PICK j \in DOMAIN kids : kids[j] = x /\ x.tag = "trak"
    BY DEF Inside
  <2>2. x \in S
    BY <1>17, <2>1
  <2>3. x = vt \/ x = at
    BY <1>5, <1>13, <1>d, <2>1, <2>2
  <2> QED BY <1>2, <1>6, <1>7, <1>16, <2>3 DEF TrackId, VideoTrackId, AudioTrackId
<1>25. TimescaleOf(InitFile(tracks), TrackId(t)) = IF t = "video" THEN Second ELSE Audio.rate
  <2>1. (CHOOSE x \in Inside(kids, "trak") : TheBox(x.kids, "tkhd").val.id = TrackId(t)) = trak
    BY <1>19, <1>20, <1>24
  <2>2. TimescaleOf(InitFile(tracks), TrackId(t)) = TheBox(TheBox(trak.kids, "mdia").kids, "mdhd").val
    BY <1>14, <1>21, <2>1 DEF TimescaleOf
  <2> QED BY <1>2, <1>6, <1>7, <1>16, <1>c, <2>2
<1> QED BY <1>19, <1>20, <1>22, <1>23, <1>25

-----------------------------------------------------------------------------
(***************************************************************************)
(* The tracks of the segments.                                             *)
(***************************************************************************)
\* A sample that waits, and so a segment, is of a track that is configured and,
\* once the init segment is written, in it.
OpenInv ==
  /\ \A t \in Kinds : open[t] # <<>> => t \in config /\ (init # None => t \in init)
  /\ arriving # None => arriving.kind \in config /\ (init # None => arriving.kind \in init)
  /\ init # None => files.init = InitFile(init)
  /\ files.segments # {} => init # None
  /\ \A s \in files.segments : \A t \in Kinds : HasTrack(s.file, TrackId(t)) => t \in init

\* The part of it about samples, when a packet is taken or not.
LEMMA OpenPacket ==
  ASSUME TypeInv, OpenInv, NEW p \in Shapes, NEW d \in Steps, Packet(p, clock + d)
  PROVE  OpenInv'
<1> DEFINE s == SampleOf(p, clock + d)
<1>1. s \in Sample /\ s.kind = p.kind
  <2>1. clock + d \in Int
    BY TimeAssumption DEF TypeInv
  <2> QED BY <2>1, SampleOfType
<1>2. /\ config' = config \cup {k \in {p.kind} : p.inband}
      /\ \/ UNCHANGED <<open, arriving>>
         \/ /\ ~Refused(p)
            /\ \/ arriving' = s /\ UNCHANGED open
               \/ open' = Appended(open, s) /\ UNCHANGED arriving
      /\ UNCHANGED <<init, files>>
  BY PacketEffect
<1> HIDE DEF s
<1>3. config \subseteq config'
  BY <1>2
<1>4. ~Refused(p) => s.kind \in config' /\ (init # None => s.kind \in init)
  BY <1>1 DEF Refused
<1>5. \A t \in Kinds : open'[t] # <<>> => t \in config' /\ (init' # None => t \in init')
  <2>1. CASE open' = open
    BY <1>2, <1>3, <2>1 DEF OpenInv
  <2>2. CASE open' = Appended(open, s) /\ ~Refused(p)
    <3>1. \A t \in Kinds : open'[t] # <<>> => t = s.kind \/ open[t] # <<>>
      BY <1>1, <2>2, AppendedType DEF TypeInv
    <3> QED BY <1>2, <1>3, <1>4, <2>2, <3>1 DEF OpenInv
  <2> QED BY <1>2, <2>1, <2>2
<1>6. arriving' # None => arriving'.kind \in config' /\ (init' # None => arriving'.kind \in init')
  BY <1>2, <1>3, <1>4 DEF OpenInv
<1>7. init' = init /\ files' = files
  BY <1>2
<1> QED BY <1>5, <1>6, <1>7 DEF OpenInv

\* Every step keeps the waiting samples within the init segment.
LEMMA OpenStep ==
  ASSUME TypeInv, OpenInv, [Next]_vars
  PROVE  OpenInv'
<1>0. ASSUME open' = open, arriving' = arriving \/ arriving' = None, init' = init,
             config \subseteq config', files'.init = files.init,
             files'.segments \subseteq files.segments
      PROVE  OpenInv'
  BY <1>0 DEF OpenInv
<1>1. ASSUME NEW p \in Shapes, NEW d \in Steps, Packet(p, clock + d)
      PROVE  OpenInv'
  BY <1>1, OpenPacket
<1>2. ASSUME NEW tracks \in SUBSET Kinds, Codecs(tracks)
      PROVE  OpenInv'
  <2>1. config' = config \cup tracks /\ UNCHANGED <<open, arriving, init, files>>
    BY <1>2 DEF Codecs
  <2> QED BY <1>0, <2>1
<1>3. CASE Finish
  <2>1. UNCHANGED <<config, open, arriving, init, files>>
    BY <1>3 DEF Finish
  <2> QED BY <1>0, <2>1
<1>4. CASE WriteInit
  <2>1. init = None /\ UNCHANGED <<config, open, arriving>>
    BY <1>4, WriteInitEffect
  <2>2. CASE init' = init /\ files' = files
    BY <1>0, <2>1, <2>2
  <2>3. CASE init' = config /\ files' = FilesOf(InitFile(config), files.segments, files.playlist)
    <3>1. files'.init = InitFile(config) /\ files'.segments = files.segments
      BY <2>3, FilesShape
    <3>2. files.segments = {}
      BY <2>1 DEF OpenInv
    <3>3. \A t \in Kinds : open'[t] # <<>> => t \in config' /\ (init' # None => t \in init')
      BY <2>1, <2>3 DEF OpenInv
    <3>4. arriving' # None => arriving'.kind \in config' /\ (init' # None => arriving'.kind \in init')
      BY <2>1, <2>3 DEF OpenInv
    <3> QED BY <2>3, <3>1, <3>2, <3>3, <3>4 DEF OpenInv
  <2> QED BY <1>4, <2>2, <2>3, WriteInitEffect
<1>5. CASE WriteSegment
  <2>1. init # None /\ UNCHANGED <<config, init, arriving>>
    BY <1>5, WriteSegmentEffect
  <2>2. ASSUME \A t \in Kinds : open'[t] = <<>>, files'.init = files.init,
               files'.segments \subseteq files.segments \cup {Segment}
        PROVE  OpenInv'
    <3>1. \A t \in Kinds : HasTrack(Segment.file, TrackId(t)) => t \in init
      BY <2>1, SegmentTracks DEF OpenInv
    <3>2. \A s \in files'.segments : \A t \in Kinds : HasTrack(s.file, TrackId(t)) => t \in init'
      BY <2>1, <2>2, <3>1 DEF OpenInv
    <3>3. \A t \in Kinds : open'[t] # <<>> => t \in config' /\ (init' # None => t \in init')
      BY <2>2
    <3> QED BY <2>1, <2>2, <3>2, <3>3 DEF OpenInv
  <2>3. CASE /\ files' = FilesOf(files.init, files.segments \cup {Segment}, files.playlist)
             /\ open' = [video |-> <<>>, audio |-> <<>>, start |-> None]
    <3>1. files'.init = files.init /\ files'.segments = files.segments \cup {Segment}
      BY <2>3, FilesShape
    <3>2. \A t \in Kinds : open'[t] = <<>>
      BY <2>3 DEF Kinds
    <3> QED BY <2>2, <3>1, <3>2
  <2>4. CASE files' = files /\ open' = [open EXCEPT !.video = <<>>, !.audio = <<>>]
    <3>1. \A t \in Kinds : open'[t] = <<>>
      BY <2>4 DEF Kinds, TypeInv
    <3> QED BY <2>2, <2>4, <3>1
  <2> QED BY <1>5, <2>3, <2>4, WriteSegmentEffect
<1>6. CASE Prune
  <2>1. UNCHANGED <<config, open, arriving, init>>
    BY <1>6, PruneEffect
  <2> DEFINE kept == {s \in files.segments : s.name # rolled.window[1].name}
  <2>2. kept \subseteq files.segments
    OBVIOUS
  <2>3. files' = FilesOf(files.init, kept, files.playlist) \/ files' = files
    BY <1>6, PruneEffect
  <2> HIDE DEF kept
  <2>4. files'.init = files.init /\ files'.segments \subseteq files.segments
    BY <2>2, <2>3, FilesShape
  <2> QED BY <1>0, <2>1, <2>4
<1>7. CASE WritePlaylist
  <2> DEFINE list == Playlist(FALSE)
  <2>1. /\ \/ /\ files' = FilesOf(files.init, files.segments, list)
              /\ \/ open' = open
                 \/ arriving # None /\ open' = Appended(open, arriving)
              /\ arriving' = None
           \/ UNCHANGED <<open, arriving, files>>
        /\ UNCHANGED <<config, init>>
    BY <1>7, WritePlaylistEffect
  <2> HIDE DEF list
  <2>2. files'.init = files.init /\ files'.segments = files.segments
    BY <2>1, FilesShape
  <2>3. CASE open' = open
    BY <1>0, <2>1, <2>2, <2>3
  <2>4. CASE arriving # None /\ open' = Appended(open, arriving) /\ arriving' = None
    <3>1. \A t \in Kinds : open'[t] # <<>> => t = arriving.kind \/ open[t] # <<>>
      BY <2>4, AppendedType DEF TypeInv
    <3>2. \A t \in Kinds : open'[t] # <<>> => t \in config' /\ (init' # None => t \in init')
      BY <2>1, <2>4, <3>1 DEF OpenInv
    <3> QED BY <2>1, <2>2, <2>4, <3>2 DEF OpenInv
  <2> QED BY <2>1, <2>3, <2>4
<1>8. CASE WriteEnd
  <2> DEFINE list == Playlist(TRUE)
  <2>1. /\ files' = FilesOf(files.init, files.segments, list) \/ files' = files
        /\ UNCHANGED <<config, open, arriving, init>>
    BY <1>8, WriteEndEffect
  <2> HIDE DEF list
  <2>2. files'.init = files.init /\ files'.segments = files.segments
    BY <2>1, FilesShape
  <2> QED BY <1>0, <2>1, <2>2
<1>9. CASE UNCHANGED vars
  <2>1. UNCHANGED <<config, open, arriving, init, files>>
    BY <1>9 DEF vars
  <2> QED BY <1>0, <2>1
<1> QED BY <1>1, <1>2, <1>3, <1>4, <1>5, <1>6, <1>7, <1>8, <1>9 DEF Next

\* No stored segment holds a track that the init segment does not describe,
\* however configurations, packets and storage failures interleave.
THEOREM HlsTracksAreInInit == Spec => []TracksAreInInit
<1>1. Init => TypeInv /\ OpenInv
  <2> SUFFICES ASSUME Init PROVE TypeInv /\ OpenInv
    OBVIOUS
  <2>1. \A t \in Kinds : open[t] = <<>>
    BY DEF Init, Kinds
  <2>2. arriving = None /\ init = None /\ files.segments = {}
    BY DEF Init
  <2> QED BY <2>1, <2>2, TypeInit DEF OpenInv
<1>2. TypeInv /\ OpenInv /\ [Next]_vars => (TypeInv /\ OpenInv)'
  BY TypeStep, OpenStep
<1>3. OpenInv => TracksAreInInit
  BY InitFileTracks DEF OpenInv, TracksAreInInit
<1> QED BY <1>1, <1>2, <1>3, PTL DEF Spec

-----------------------------------------------------------------------------
(***************************************************************************)
(* Sums and joined lists.                                                  *)
(***************************************************************************)
\* What holds of 0, and of a number's successor with the number, holds of all.
LEMMA Induction ==
  ASSUME NEW S, 0 \in S, \A n \in Nat : n \in S => n + 1 \in S
  PROVE  \A n \in Nat : n \in S
<1> DEFINE T == {n \in Nat : n \notin S}
<1>1. SUFFICES ASSUME T # {} PROVE FALSE
  OBVIOUS
<1>2. T \subseteq Nat
  OBVIOUS
<1> HIDE DEF T
<1>3. \E m \in T : \A y \in T : ~ (<<y, m>> \in OpToRel(<, Nat))
  BY <1>1, <1>2, NatLessThanWellFounded, WFMin, Zenon
<1>4. PICK m \in T : \A y \in T : ~ (<<y, m>> \in OpToRel(<, Nat))
  BY <1>3
<1>5. \A y \in T : ~(y < m)
  BY <1>2, <1>4 DEF OpToRel
<1>6. m \in Nat /\ m \notin S
  BY DEF T
<1>7. m - 1 \in Nat
  BY <1>6
<1>8. m - 1 \in S
  BY <1>5, <1>7 DEF T
<1> QED BY <1>6, <1>7, <1>8

\* Sums from the left.
IsSum(f, ns) ==
  /\ f \in [0..Len(ns) -> Int] /\ f[0] = 0
  /\ \A k \in 1..Len(ns) : f[k] = f[k - 1] + ns[k]

SumTo(m, f, ns) ==
  f \in [0..m -> Int] /\ f[0] = 0 /\ \A k \in 1..m : f[k] = f[k - 1] + ns[k]

\* Every list of numbers has its partial sums.
LEMMA SumExists ==
  ASSUME NEW ns \in Seq(Int)
  PROVE  \E f : IsSum(f, ns)
<1> DEFINE S == {m \in Nat : m <= Len(ns) => \E f : SumTo(m, f, ns)}
<1>1. 0 \in S
  <2> DEFINE none == [k \in 0..0 |-> 0]
  <2>1. none \in [0..0 -> Int] /\ none[0] = 0 /\ \A k \in 1..0 : FALSE
    OBVIOUS
  <2> HIDE DEF none
  <2>2. SumTo(0, none, ns)
    BY <2>1 DEF SumTo
  <2> QED BY <2>2
<1>2. \A n \in Nat : n \in S => n + 1 \in S
  <2> SUFFICES ASSUME NEW n \in Nat, n \in S, n + 1 <= Len(ns)
               PROVE  \E f : SumTo(n + 1, f, ns)
    OBVIOUS
  <2>1. PICK f : SumTo(n, f, ns)
    BY LenProperties
  <2> DEFINE x == f[n] + ns[n + 1]
             next == n + 1
             g == [k \in 0..next |-> IF k <= n THEN f[k] ELSE x]
  <2>2. next \in 1..Len(ns) /\ ns[next] \in Int
    BY LenProperties, ElementOfSeq
  <2>3. f \in [0..n -> Int] /\ f[0] = 0 /\ \A k \in 1..n : f[k] = f[k - 1] + ns[k]
    BY <2>1 DEF SumTo
  <2>4. x \in Int /\ x = f[n] + ns[next]
    BY <2>2, <2>3
  <2> HIDE DEF x
  <2>5. g \in [0..next -> Int] /\ g[0] = 0
    BY <2>3, <2>4
  <2>6. \A k \in 1..next : g[k] = g[k - 1] + ns[k]
    <3> SUFFICES ASSUME NEW k \in 1..next PROVE g[k] = g[k - 1] + ns[k]
      OBVIOUS
    <3>1. CASE k <= n
      <4>1. k \in 1..n /\ k \in 0..next /\ k - 1 \in 0..next /\ k - 1 <= n
        BY <3>1
      <4> QED BY <2>3, <3>1, <4>1
    <3>2. CASE ~(k <= n)
      <4>1. k = next /\ k \in 0..next /\ k - 1 = n /\ n \in 0..next /\ n <= n
        BY <3>2
      <4> QED BY <2>4, <3>2, <4>1
    <3> QED BY <3>1, <3>2
  <2> HIDE DEF g
  <2>7. SumTo(next, g, ns)
    BY <2>5, <2>6 DEF SumTo
  <2> QED BY <2>7
<1> HIDE DEF S
<1>3. \A n \in Nat : n \in S
  BY <1>1, <1>2, Induction
<1> DEFINE n == Len(ns)
<1>4. n \in Nat
  BY LenProperties
<1> HIDE DEF n
<1>5. n <= n /\ n \in S
  BY <1>3, <1>4
<1>6. \E f : SumTo(n, f, ns)
  BY <1>5 DEF S, n
<1> QED BY <1>6 DEF SumTo, IsSum, n

\* Total is the last of the sums.
LEMMA TotalIs ==
  ASSUME NEW ns \in Seq(Int), NEW f, IsSum(f, ns)
  PROVE  Total(ns) = f[Len(ns)]
<1> DEFINE n == Len(ns)
           rec(g) == [k \in 0..n |-> IF k = 0 THEN 0 ELSE g[k - 1] + ns[k]]
           sum == CHOOSE g : g = rec(g)
<1>1. n \in Nat
  BY LenProperties
<1>2. f = rec(f)
  BY <1>1 DEF IsSum
<1>3. sum = rec(sum)
  BY <1>2
<1>4. Total(ns) = sum[n]
  BY DEF Total
<1> DEFINE S == {m \in Nat : m <= n => sum[m] = f[m]}
<1> HIDE DEF n, sum
<1>5. \A k \in 0..n : sum[k] = IF k = 0 THEN 0 ELSE sum[k - 1] + ns[k]
  BY <1>3
<1>6. 0 \in S
  BY <1>1, <1>5 DEF IsSum
<1>7. \A m \in Nat : m \in S => m + 1 \in S
  <2> SUFFICES ASSUME NEW m \in Nat, m <= n => sum[m] = f[m], m + 1 <= n
               PROVE  sum[m + 1] = f[m + 1]
    OBVIOUS
  <2>1. m + 1 \in 0..n /\ m + 1 # 0 /\ (m + 1) - 1 = m /\ m <= n /\ m + 1 \in 1..n
    BY <1>1
  <2> QED BY <1>5, <2>1 DEF IsSum, n
<1> HIDE DEF S
<1>8. n \in S
  BY <1>1, <1>6, <1>7, Induction
<1> QED BY <1>4, <1>8 DEF S, n

\* Sums of what a list starts with.
LEMMA PrefixTotal ==
  ASSUME NEW ns \in Seq(Int), NEW f, IsSum(f, ns), NEW m \in 0..Len(ns)
  PROVE  Total([k \in 1..m |-> ns[k]]) = f[m] /\ f[m] \in Int
<1> DEFINE part == [k \in 1..m |-> ns[k]]
           g == [k \in 0..m |-> f[k]]
<1>1. Len(ns) \in Nat /\ m \in Nat /\ \A k \in 1..m : k \in 1..Len(ns) /\ ns[k] \in Int
  BY LenProperties, ElementOfSeq
<1>2. part \in [1..m -> Int]
  BY <1>1
<1>3. part \in Seq(Int) /\ Len(part) = m
  <2>1. part \in Seq(Int)
    BY <1>1, <1>2, SeqDef
  <2> QED BY <1>1, <1>2, <2>1, LenProperties
<1>4. f \in [0..Len(ns) -> Int] /\ f[0] = 0 /\ \A k \in 1..Len(ns) : f[k] = f[k - 1] + ns[k]
  BY DEF IsSum
<1>5. /\ m \in 0..m /\ 0 \in 0..m
      /\ \A k \in 0..m : k \in 0..Len(ns)
      /\ \A k \in 1..m : k \in 0..m /\ k - 1 \in 0..m
  BY <1>1
<1>6. g \in [0..m -> Int] /\ g[0] = 0 /\ g[m] = f[m]
  BY <1>4, <1>5
<1>7. \A k \in 1..m : g[k] = g[k - 1] + part[k]
  BY <1>1, <1>4, <1>5
<1> HIDE DEF part, g
<1>8. IsSum(g, part)
  BY <1>3, <1>6, <1>7 DEF IsSum
<1>9. Total(part) = g[Len(part)]
  BY <1>3, <1>8, TotalIs
<1> QED BY <1>3, <1>4, <1>6, <1>9 DEF part

\* Sums of nothing, and of numbers that are none negative.
LEMMA SumsGrow ==
  ASSUME NEW ns \in Seq(Nat), NEW f, IsSum(f, ns)
  PROVE  /\ \A m \in 0..Len(ns) : f[m] \in Nat /\ f[m] <= f[Len(ns)]
<1> DEFINE n == Len(ns)
           S == {m \in Nat : m <= n => f[m] \in Nat}
           T == {m \in Nat : m <= n => f[n - m] <= f[n]}
<1>1. n \in Nat /\ \A k \in 1..n : ns[k] \in Nat
  BY LenProperties, ElementOfSeq
<1>2. f \in [0..n -> Int] /\ f[0] = 0 /\ \A k \in 1..n : f[k] = f[k - 1] + ns[k]
  BY DEF IsSum
<1> HIDE DEF n
<1>3. 0 \in S
  BY <1>2
<1>4. \A m \in Nat : m \in S => m + 1 \in S
  <2> SUFFICES ASSUME NEW m \in Nat, m <= n => f[m] \in Nat, m + 1 <= n PROVE f[m + 1] \in Nat
    OBVIOUS
  <2> DEFINE next == m + 1
  <2>1. next \in 1..n /\ next - 1 = m /\ m <= n
    BY <1>1
  <2> HIDE DEF next
  <2>2. f[next] = f[m] + ns[next]
    BY <1>2, <2>1
  <2>3. f[next] \in Nat
    BY <1>1, <2>1, <2>2
  <2> QED BY <2>3 DEF next
<1>5. 0 \in T
  <2>1. n - 0 = n /\ f[n] <= f[n]
    BY <1>1, <1>2
  <2> QED BY <2>1
<1>6. \A m \in Nat : m \in T => m + 1 \in T
  <2> SUFFICES ASSUME NEW m \in Nat, m <= n => f[n - m] <= f[n], m + 1 <= n
               PROVE  f[n - (m + 1)] <= f[n]
    OBVIOUS
  <2> DEFINE k == n - m
             j == n - (m + 1)
  <2>1. k \in 1..n /\ k - 1 = j /\ j \in 0..n /\ k \in 0..n /\ n \in 0..n /\ m <= n
    BY <1>1
  <2>2. f[k] <= f[n]
    BY <2>1
  <2> HIDE DEF k, j
  <2>3. f[k] = f[j] + ns[k] /\ ns[k] \in Nat /\ f[j] \in Int /\ f[k] \in Int /\ f[n] \in Int
    BY <1>1, <1>2, <2>1
  <2>4. f[j] <= f[n]
    BY <2>2, <2>3
  <2> QED BY <2>4 DEF j
<1> HIDE DEF S, T
<1>7. \A m \in Nat : m \in S /\ m \in T
  BY <1>3, <1>4, <1>5, <1>6, Induction
<1> SUFFICES ASSUME NEW m \in 0..n PROVE f[m] \in Nat /\ f[m] <= f[n]
  BY DEF n
<1>8. f[m] \in Nat
  BY <1>1, <1>7 DEF S
<1>9. f[m] <= f[n]
  <2>1. n - m \in Nat /\ n - m <= n /\ n - (n - m) = m
    BY <1>1
  <2>2. n - m \in T
    BY <1>7, <2>1
  <2> QED BY <2>1, <2>2 DEF T
<1> QED BY <1>8, <1>9

\* Lists joined from the left.
JoinTo(m, g, ss, S) ==
  g \in [0..m -> Seq(S)] /\ g[0] = <<>> /\ \A k \in 1..m : g[k] = g[k - 1] \o ss[k]
IsJoin(g, ss, S) == JoinTo(Len(ss), g, ss, S)

\* Every list of lists has its partial joins.
LEMMA JoinExists ==
  ASSUME NEW A, NEW ss \in Seq(Seq(A))
  PROVE  \E g : IsJoin(g, ss, A)
<1> DEFINE S == {m \in Nat : m <= Len(ss) => \E g : JoinTo(m, g, ss, A)}
<1>1. 0 \in S
  <2> DEFINE none == [k \in 0..0 |-> <<>>]
  <2>1. none \in [0..0 -> Seq(A)] /\ none[0] = <<>> /\ \A k \in 1..0 : FALSE
    BY EmptySeq
  <2> HIDE DEF none
  <2>2. JoinTo(0, none, ss, A)
    BY <2>1 DEF JoinTo
  <2> QED BY <2>2
<1>2. \A n \in Nat : n \in S => n + 1 \in S
  <2> SUFFICES ASSUME NEW n \in Nat, n \in S PROVE n + 1 \in S
    OBVIOUS
  <2> DEFINE next == n + 1
  <2>0. next \in Nat /\ next = n + 1
    OBVIOUS
  <2> HIDE DEF next
  <2> SUFFICES ASSUME next <= Len(ss) PROVE \E g : JoinTo(next, g, ss, A)
    BY <2>0
  <2>1. PICK f : JoinTo(n, f, ss, A)
    BY <2>0, LenProperties
  <2> DEFINE x == f[n] \o ss[next]
             g == [k \in 0..next |-> IF k <= n THEN f[k] ELSE x]
  <2>2. next \in 1..Len(ss) /\ ss[next] \in Seq(A)
    BY <2>0, LenProperties, ElementOfSeq
  <2>3. f \in [0..n -> Seq(A)] /\ f[0] = <<>> /\ \A k \in 1..n : f[k] = f[k - 1] \o ss[k]
    BY <2>1 DEF JoinTo
  <2>4. x \in Seq(A) /\ x = f[n] \o ss[next]
    <3>1. f[n] \in Seq(A)
      BY <2>3
    <3> QED BY <2>2, <3>1, ConcatProperties
  <2> HIDE DEF x
  <2>5. g \in [0..next -> Seq(A)] /\ g[0] = <<>>
    BY <2>0, <2>3, <2>4
  <2>6. \A k \in 1..next : g[k] = g[k - 1] \o ss[k]
    <3> SUFFICES ASSUME NEW k \in 1..next PROVE g[k] = g[k - 1] \o ss[k]
      OBVIOUS
    <3>1. CASE k <= n
      <4>1. k \in 1..n /\ k \in 0..next /\ k - 1 \in 0..next /\ k - 1 <= n
        BY <2>0, <3>1
      <4> QED BY <2>3, <3>1, <4>1
    <3>2. CASE ~(k <= n)
      <4>1. k = next /\ k \in 0..next /\ k - 1 = n /\ n \in 0..next /\ n <= n
        BY <2>0, <3>2
      <4> QED BY <2>4, <3>2, <4>1
    <3> QED BY <3>1, <3>2
  <2> HIDE DEF g
  <2>7. JoinTo(next, g, ss, A)
    BY <2>5, <2>6 DEF JoinTo
  <2> QED BY <2>7
<1> HIDE DEF S
<1> DEFINE n == Len(ss)
<1>3. n \in Nat
  BY LenProperties
<1> HIDE DEF n
<1>4. n <= n /\ n \in S
  BY <1>1, <1>2, <1>3, Induction
<1>5. \E g : JoinTo(n, g, ss, A)
  BY <1>4 DEF S, n
<1> QED BY <1>5 DEF IsJoin, n

\* FlattenSeq is the last of the joins.
LEMMA FlattenIs ==
  ASSUME NEW A, NEW ss \in Seq(Seq(A)), NEW f, IsJoin(f, ss, A)
  PROVE  FlattenSeq(ss) = f[Len(ss)] /\ FlattenSeq(ss) \in Seq(A)
<1> DEFINE n == Len(ss)
           rec(g) == [k \in 1..n |-> IF k = 1 THEN ss[k] ELSE g[k - 1] \o ss[k]]
           flat == CHOOSE g : g = rec(g)
           h == [k \in 1..n |-> f[k]]
<1>1. n \in Nat /\ \A k \in 1..n : ss[k] \in Seq(A)
  BY LenProperties, ElementOfSeq
<1>2. f \in [0..n -> Seq(A)] /\ f[0] = <<>> /\ \A k \in 1..n : f[k] = f[k - 1] \o ss[k]
  BY DEF IsJoin, JoinTo
<1>3. f[n] \in Seq(A)
  BY <1>1, <1>2
<1>4. CASE n = 0
  <2>1. FlattenSeq(ss) = ss
    BY <1>4 DEF FlattenSeq
  <2>2. ss = <<>>
    BY <1>4, EmptySeq
  <2>3. f[n] = <<>>
    BY <1>2, <1>4
  <2> QED BY <1>3, <2>1, <2>2, <2>3
<1>5. CASE n # 0
  <2>1. FlattenSeq(ss) = flat[n]
    BY <1>5 DEF FlattenSeq
  <2>2. h = rec(h)
    <3>1. \A k \in 1..n : h[k] = IF k = 1 THEN ss[k] ELSE h[k - 1] \o ss[k]
      <4> SUFFICES ASSUME NEW k \in 1..n
                   PROVE  h[k] = IF k = 1 THEN ss[k] ELSE h[k - 1] \o ss[k]
        OBVIOUS
      <4>1. CASE k = 1
        <5>0. k - 1 = 0
          BY <4>1
        <5>1. f[k] = <<>> \o ss[k]
          BY <1>2, <5>0
        <5>2. <<>> \o ss[k] = ss[k]
          BY <1>1, ConcatEmptySeq
        <5> QED BY <4>1, <5>1, <5>2
      <4>2. CASE k # 1
        <5>1. k - 1 \in 1..n
          BY <1>1, <4>2
        <5> QED BY <1>2, <4>2, <5>1
      <4> QED BY <4>1, <4>2
    <3> QED BY <3>1
  <2>3. flat = rec(flat)
    BY <2>2
  <2> DEFINE S == {m \in Nat : m <= n /\ m # 0 => flat[m] = f[m]}
  <2>4. \A k \in 1..n : flat[k] = IF k = 1 THEN ss[k] ELSE flat[k - 1] \o ss[k]
    BY <2>3
  <2> HIDE DEF flat
  <2>5. 0 \in S
    OBVIOUS
  <2>6. \A m \in Nat : m \in S => m + 1 \in S
    <3> SUFFICES ASSUME NEW m \in Nat, m <= n /\ m # 0 => flat[m] = f[m], m + 1 <= n
                 PROVE  flat[m + 1] = f[m + 1]
      OBVIOUS
    <3> DEFINE next == m + 1
    <3>1. next \in 1..n /\ next - 1 = m /\ m <= n /\ (m = 0 <=> next = 1)
      BY <1>1
    <3> HIDE DEF next, n
    <3>2. f[next] = f[m] \o ss[next]
      BY <1>2, <3>1
    <3>3. CASE m = 0
      <4>1. <<>> \o ss[next] = ss[next]
        BY <1>1, <3>1, ConcatEmptySeq
      <4>2. f[m] = <<>>
        BY <1>2, <3>3
      <4> QED BY <2>4, <3>1, <3>2, <3>3, <4>1, <4>2 DEF next
    <3>4. CASE m # 0
      <4>1. flat[next] = flat[m] \o ss[next]
        BY <2>4, <3>1, <3>4
      <4> QED BY <3>1, <3>2, <3>4, <4>1 DEF next
    <3> QED BY <3>3, <3>4
  <2> HIDE DEF S
  <2>7. n \in S
    BY <1>1, <2>5, <2>6, Induction
  <2> QED BY <1>3, <1>5, <2>1, <2>7 DEF S
<1> QED BY <1>4, <1>5

\* One list more.
LEMMA FlattenAppend ==
  ASSUME NEW A, NEW ss \in Seq(Seq(A)), NEW s \in Seq(A)
  PROVE  FlattenSeq(Append(ss, s)) = FlattenSeq(ss) \o s
<1> DEFINE n == Len(ss)
           next == n + 1
           longer == Append(ss, s)
<1>1. n \in Nat /\ next \in Nat /\ n \in 0..n
  BY LenProperties
<1>2. /\ longer \in Seq(Seq(A)) /\ Len(longer) = next /\ longer[next] = s
      /\ \A k \in 1..n : longer[k] = ss[k]
  BY <1>1
<1>3. PICK f : IsJoin(f, ss, A)
  BY JoinExists
<1>4. FlattenSeq(ss) = f[n]
  BY <1>3, FlattenIs
<1>5. f \in [0..n -> Seq(A)] /\ f[0] = <<>> /\ \A k \in 1..n : f[k] = f[k - 1] \o ss[k]
  BY <1>3 DEF IsJoin, JoinTo
<1> DEFINE last == f[n] \o s
           g == [k \in 0..next |-> IF k <= n THEN f[k] ELSE last]
<1>6. last \in Seq(A)
  <2>1. f[n] \in Seq(A)
    BY <1>1, <1>5
  <2> QED BY <2>1, ConcatProperties
<1>7. /\ next \in 0..next /\ next - 1 = n /\ ~(next <= n) /\ n <= n /\ n \in 0..next
      /\ \A k \in 0..next : k \in 0..n \/ ~(k <= n)
      /\ 0 \in 0..next /\ 0 <= n
      /\ \A k \in 1..next : k = next \/ (k \in 1..n /\ k <= n /\ k - 1 <= n
                                          /\ k \in 0..next /\ k - 1 \in 0..next)
  BY <1>1
<1> HIDE DEF next, last, longer, n
<1>8. g \in [0..next -> Seq(A)] /\ g[0] = <<>> /\ g[next] = last /\ g[n] = f[n]
  BY <1>5, <1>6, <1>7
<1>9. \A k \in 1..next : g[k] = g[k - 1] \o longer[k]
  <2> SUFFICES ASSUME NEW k \in 1..next PROVE g[k] = g[k - 1] \o longer[k]
    OBVIOUS
  <2>1. CASE k = next
    BY <1>2, <1>7, <1>8, <2>1 DEF last
  <2>2. CASE k \in 1..n /\ k <= n /\ k - 1 <= n /\ k \in 0..next /\ k - 1 \in 0..next
    BY <1>2, <1>5, <2>2
  <2> QED BY <1>7, <2>1, <2>2
<1> HIDE DEF g
<1>10. IsJoin(g, longer, A)
  BY <1>2, <1>8, <1>9 DEF IsJoin, JoinTo
<1>11. FlattenSeq(longer) = g[Len(longer)]
  BY <1>2, <1>10, FlattenIs
<1> QED BY <1>2, <1>4, <1>8, <1>11 DEF longer, last, n

\* Three lists joined.
LEMMA Regroup ==
  ASSUME NEW A, NEW s \in Seq(A), NEW t \in Seq(A), NEW u \in Seq(A)
  PROVE  s \o (t \o u) = (s \o t) \o u
BY ConcatAssociative

\* One list less.
LEMMA FlattenTail ==
  ASSUME NEW A, NEW ss \in Seq(Seq(A)), ss # <<>>
  PROVE  FlattenSeq(ss) = Head(ss) \o FlattenSeq(Tail(ss))
<1> DEFINE n == Len(ss)
           less == n - 1
           rest == Tail(ss)
           first == Head(ss)
<1>1. n \in Nat \ {0} /\ less \in Nat
  BY EmptySeq
<1>2. /\ first \in Seq(A) /\ first = ss[1] /\ rest \in Seq(Seq(A)) /\ Len(rest) = less
      /\ \A i \in 1..less : rest[i] = ss[i + 1]
  BY HeadTailProperties
<1>3. PICK f : IsJoin(f, rest, A)
  BY <1>2, JoinExists
<1>4. FlattenSeq(rest) = f[less]
  BY <1>2, <1>3, FlattenIs
<1>5. f \in [0..less -> Seq(A)] /\ f[0] = <<>> /\ \A k \in 1..less : f[k] = f[k - 1] \o rest[k]
  BY <1>2, <1>3 DEF IsJoin, JoinTo
<1> DEFINE g == [k \in 0..n |-> IF k = 0 THEN <<>> ELSE first \o f[k - 1]]
<1>6. /\ 0 \in 0..n /\ n \in 0..n /\ n # 0 /\ n - 1 = less /\ 0 \in 0..less
      /\ \A k \in 1..n : k \in 0..n /\ k # 0 /\ k - 1 \in 0..n /\ k - 1 \in 0..less
      /\ \A k \in 0..n : k = 0 \/ k \in 1..n
      /\ \A k \in 1..n : k - 1 # 0 => k - 1 \in 1..less /\ (k - 1) + 1 = k
      /\ \A k \in 1..n : k - 1 = 0 => k = 1
  BY <1>1
<1> HIDE DEF n, less, rest, first
<1>7. \A k \in 1..n : first \o f[k - 1] \in Seq(A)
  <2> SUFFICES ASSUME NEW k \in 1..n PROVE first \o f[k - 1] \in Seq(A)
    OBVIOUS
  <2> DEFINE x == f[k - 1]
  <2>1. x \in Seq(A)
    BY <1>5, <1>6
  <2> HIDE DEF x
  <2>2. first \o x \in Seq(A)
    BY <1>2, <2>1, ConcatProperties
  <2> QED BY <2>2 DEF x
<1>8. /\ g \in [0..n -> Seq(A)] /\ g[0] = <<>> /\ g[n] = first \o f[less]
      /\ \A k \in 1..n : g[k] = first \o f[k - 1]
  BY <1>6, <1>7, EmptySeq
<1>9. \A k \in 1..n : g[k] = g[k - 1] \o ss[k]
  <2> SUFFICES ASSUME NEW k \in 1..n PROVE g[k] = g[k - 1] \o ss[k]
    OBVIOUS
  <2> HIDE DEF g
  <2>1. CASE k - 1 = 0
    <3>1. k = 1
      BY <1>6, <2>1
    <3>2. f[k - 1] = <<>> /\ g[k - 1] = <<>>
      BY <1>5, <1>8, <2>1
    <3>3. g[k] = first \o <<>>
      BY <1>8, <3>2
    <3>4. ss[k] = first
      BY <1>2, <3>1
    <3>5. first \o <<>> = first /\ <<>> \o first = first
      BY <1>2, ConcatEmptySeq
    <3> QED BY <3>2, <3>3, <3>4, <3>5
  <2>2. CASE k - 1 # 0
    <3> DEFINE j == k - 1
    <3>1. j \in 1..less /\ j \in 1..n /\ j + 1 = k
      BY <1>6, <2>2
    <3>2. g[k] = first \o f[j]
      BY <1>8
    <3> HIDE DEF j
    <3> DEFINE x == f[j - 1]
    <3>3. rest[j] = ss[k] /\ rest[j] \in Seq(A)
      BY <1>2, <3>1, ElementOfSeq
    <3>4. f[j] = x \o rest[j] /\ g[j] = first \o x /\ x \in Seq(A)
      BY <1>5, <1>6, <1>8, <3>1
    <3> DEFINE y == rest[j]
    <3>5. y \in Seq(A) /\ x \in Seq(A) /\ first \in Seq(A)
      BY <1>2, <3>3, <3>4
    <3>6. ss[k] = y /\ f[j] = x \o y /\ g[j] = first \o x
      BY <3>3, <3>4
    <3> HIDE DEF x, y
    <3>7. first \o (x \o y) = (first \o x) \o y
      BY <3>5, Regroup
    <3>8. g[k] = g[j] \o ss[k]
      BY <3>2, <3>6, <3>7
    <3> QED BY <3>8 DEF j
  <2> QED BY <2>1, <2>2
<1> HIDE DEF g
<1>10. IsJoin(g, ss, A)
  BY <1>8, <1>9 DEF IsJoin, JoinTo, n
<1>11. FlattenSeq(ss) = g[Len(ss)]
  BY <1>10, FlattenIs
<1> QED BY <1>4, <1>8, <1>11 DEF n, rest, first

\* How long the lists are.
Lengths(ss) == [k \in 1..Len(ss) |-> Len(ss[k])]

\* They are numbers, one for each list.
LEMMA LengthsAre ==
  ASSUME NEW A, NEW ss \in Seq(Seq(A))
  PROVE  /\ Lengths(ss) \in Seq(Nat) /\ Lengths(ss) \in Seq(Int) /\ Len(Lengths(ss)) = Len(ss)
         /\ \A k \in 1..Len(ss) : Lengths(ss)[k] = Len(ss[k])
<1> DEFINE n == Len(ss)
           x == Lengths(ss)
<1>1. n \in Nat /\ \A k \in 1..n : Len(ss[k]) \in Nat
  BY LenProperties, ElementOfSeq
<1>2. x = [k \in 1..n |-> Len(ss[k])]
  BY DEF Lengths
<1>3. x \in [1..n -> Nat]
  BY <1>1, <1>2
<1> HIDE DEF x, n
<1>4. x \in Seq(Nat)
  BY <1>1, <1>3, SeqDef
<1>5. Len(x) = n
  BY <1>1, <1>3, <1>4, LenProperties
<1>6. x \in Seq(Int)
  BY <1>4, SeqMonotonic
<1>7. \A k \in 1..n : x[k] = Len(ss[k])
  BY <1>2
<1> QED BY <1>4, <1>5, <1>6, <1>7 DEF x, n

\* Where the elements of the lists are in what they make together.
LEMMA FlattenPlaces ==
  ASSUME NEW A, NEW ss \in Seq(Seq(A)), NEW f, IsSum(f, Lengths(ss))
  PROVE  /\ Len(FlattenSeq(ss)) = f[Len(ss)]
         /\ \A k \in 1..Len(ss) : \A i \in 1..Len(ss[k]) :
              f[k - 1] + i \in 1..f[Len(ss)] /\ FlattenSeq(ss)[f[k - 1] + i] = ss[k][i]
<1> DEFINE n == Len(ss)
           Placed(m, g) == /\ Len(g[m]) = f[m]
                           /\ \A k \in 1..m : \A i \in 1..Len(ss[k]) :
                                f[k - 1] + i \in 1..f[m] /\ g[m][f[k - 1] + i] = ss[k][i]
<1>1. n \in Nat /\ \A k \in 1..n : ss[k] \in Seq(A) /\ Len(ss[k]) \in Nat
  BY LenProperties, ElementOfSeq
<1>2. PICK g : IsJoin(g, ss, A)
  BY JoinExists
<1>3. FlattenSeq(ss) = g[n]
  BY <1>2, FlattenIs
<1>4. g \in [0..n -> Seq(A)] /\ g[0] = <<>> /\ \A k \in 1..n : g[k] = g[k - 1] \o ss[k]
  BY <1>2 DEF IsJoin, JoinTo
<1>5. f \in [0..n -> Int] /\ f[0] = 0 /\ \A k \in 1..n : f[k] = f[k - 1] + Len(ss[k])
  BY LengthsAre DEF IsSum
<1>6. \A m \in 0..n : f[m] \in Nat
  <2>1. Lengths(ss) \in Seq(Nat) /\ Len(Lengths(ss)) = n
    BY LengthsAre
  <2> QED BY <2>1, SumsGrow
<1> DEFINE S == {m \in Nat : m <= n => Placed(m, g)}
<1> HIDE DEF n
<1>7. 0 \in S
  BY <1>4, <1>5, EmptySeq
<1>8. \A m \in Nat : m \in S => m + 1 \in S
  <2> SUFFICES ASSUME NEW m \in Nat, m \in S PROVE m + 1 \in S
    OBVIOUS
  <2> SUFFICES ASSUME m + 1 <= n PROVE Placed(m + 1, g)
    BY DEF S
  <2>0. m <= n => Placed(m, g)
    BY DEF S
  <2> DEFINE next == m + 1
  <2>1. next \in 1..n /\ next - 1 = m /\ m \in 0..n /\ m <= n /\ next \in 0..n
        /\ \A k \in 1..next : k = next \/ (k \in 1..m /\ k \in 1..n /\ k - 1 \in 0..n)
    BY <1>1
  <2>2. Placed(m, g)
    BY <2>0, <2>1
  <2> HIDE DEF next
  <2> DEFINE old == g[m]
             new == ss[next]
             a == f[m]
             b == Len(new)
  <2>3. g[next] = old \o new /\ f[next] = a + b /\ old \in Seq(A) /\ new \in Seq(A)
        /\ a \in Nat /\ b \in Nat /\ Len(old) = a
    BY <1>1, <1>4, <1>5, <1>6, <2>1, <2>2
  <2>4. /\ Len(old \o new) = a + b
        /\ \A i \in 1..(a + b) : (old \o new)[i] = IF i <= a THEN old[i] ELSE new[i - a]
    <3>1. old \in Seq(A) /\ new \in Seq(A) /\ Len(old) = a /\ Len(new) = b
      BY <2>3
    <3> HIDE DEF old, new, a, b
    <3> DEFINE joined == old \o new
    <3>2. /\ Len(joined) = Len(old) + Len(new)
          /\ \A i \in 1..(Len(old) + Len(new)) :
               joined[i] = IF i <= Len(old) THEN old[i] ELSE new[i - Len(old)]
      BY <3>1, ConcatProperties
    <3> QED BY <3>1, <3>2
  <2>5. \A k \in 1..m : \A i \in 1..Len(ss[k]) :
          f[k - 1] + i \in 1..a /\ old[f[k - 1] + i] = ss[k][i]
    BY <2>2
  <2> HIDE DEF old, new, a, b
  <2>6. \A k \in 1..next : \A i \in 1..Len(ss[k]) :
          f[k - 1] + i \in 1..f[next] /\ g[next][f[k - 1] + i] = ss[k][i]
    <3> SUFFICES ASSUME NEW k \in 1..next, NEW i \in 1..Len(ss[k])
                 PROVE  f[k - 1] + i \in 1..(a + b) /\ (old \o new)[f[k - 1] + i] = ss[k][i]
      BY <2>3
    <3>1. CASE k = next
      <4>1. f[k - 1] = a /\ i \in 1..b /\ ss[k] = new
        BY <2>1, <3>1 DEF a, b, new
      <4>2. a + i \in 1..(a + b) /\ ~(a + i <= a) /\ (a + i) - a = i
        BY <2>3, <4>1
      <4> QED BY <2>4, <4>1, <4>2
    <3>2. CASE k \in 1..m
      <4> DEFINE p == f[k - 1] + i
      <4>1. p \in 1..a /\ old[p] = ss[k][i]
        BY <2>5, <3>2
      <4> HIDE DEF p
      <4>2. p \in 1..(a + b) /\ p <= a
        BY <2>3, <4>1
      <4>3. (old \o new)[p] = ss[k][i]
        BY <2>4, <4>1, <4>2
      <4> QED BY <4>2, <4>3 DEF p
    <3> QED BY <2>1, <3>1, <3>2
  <2>7. Len(g[next]) = f[next]
    BY <2>3, <2>4
  <2> QED BY <2>6, <2>7 DEF next
<1> HIDE DEF S
<1>9. n \in S
  BY <1>1, <1>7, <1>8, Induction
<1>10. Placed(n, g)
  BY <1>1, <1>9 DEF S
<1> QED BY <1>3, <1>10 DEF n

\* The same without the sums: how much the lists before a list hold.
Ahead(ss, k) == Total([j \in 1..k - 1 |-> Len(ss[j])])

\* A list's elements are found past those of the lists before it.
LEMMA Located ==
  ASSUME NEW A, NEW ss \in Seq(Seq(A)), NEW k \in 1..Len(ss)
  PROVE  /\ Ahead(ss, k) \in Int /\ FlattenSeq(ss) \in Seq(A)
         /\ \A i \in 1..Len(ss[k]) : /\ Ahead(ss, k) + i \in DOMAIN FlattenSeq(ss)
                                     /\ FlattenSeq(ss)[Ahead(ss, k) + i] = ss[k][i]
<1> DEFINE ns == Lengths(ss)
           n == Len(ss)
           m == k - 1
<1>1. /\ ns \in Seq(Nat) /\ ns \in Seq(Int) /\ Len(ns) = n /\ n \in Nat
      /\ \A j \in 1..n : ns[j] = Len(ss[j])
  BY LengthsAre, LenProperties
<1>2. m \in 0..n /\ \A j \in 1..m : j \in 1..n
  BY <1>1
<1>3. PICK f : IsSum(f, ns)
  BY <1>1, SumExists
<1>4. \A i \in 1..Len(ss[k]) :
        f[m] + i \in 1..f[n] /\ FlattenSeq(ss)[f[m] + i] = ss[k][i]
  BY <1>3, FlattenPlaces
<1>5. Len(FlattenSeq(ss)) = f[n]
  BY <1>3, FlattenPlaces
<1>6. FlattenSeq(ss) \in Seq(A)
  <2>1. PICK g : IsJoin(g, ss, A)
    BY JoinExists
  <2> QED BY <2>1, FlattenIs
<1> DEFINE before == [j \in 1..m |-> ns[j]]
           lens == [j \in 1..m |-> Len(ss[j])]
<1> HIDE DEF ns, n
<1>7. before = lens
  BY <1>1, <1>2
<1>8. Total(before) = f[m] /\ f[m] \in Int
  BY <1>1, <1>2, <1>3, PrefixTotal
<1>9. Ahead(ss, k) = f[m]
  BY <1>7, <1>8 DEF Ahead
<1>10. DOMAIN FlattenSeq(ss) = 1..f[n]
  BY <1>5, <1>6, LenProperties
<1> QED BY <1>4, <1>6, <1>8, <1>9, <1>10

\* How much the lists hold together.
LEMMA FlattenLength ==
  ASSUME NEW A, NEW ss \in Seq(Seq(A))
  PROVE  Len(FlattenSeq(ss)) = Total(Lengths(ss))
<1>1. Lengths(ss) \in Seq(Int) /\ Len(Lengths(ss)) = Len(ss)
  BY LengthsAre
<1>2. PICK f : IsSum(f, Lengths(ss))
  BY <1>1, SumExists
<1>3. Len(FlattenSeq(ss)) = f[Len(ss)]
  BY <1>2, FlattenPlaces
<1>4. Total(Lengths(ss)) = f[Len(Lengths(ss))]
  BY <1>1, <1>2, TotalIs
<1> QED BY <1>1, <1>3, <1>4

\* A sum of integers is one, and the sums of what a list starts with go by its
\* elements.
LEMMA TotalType ==
  ASSUME NEW ns \in Seq(Int)
  PROVE  Total(ns) \in Int
<1>1. PICK f : IsSum(f, ns)
  BY SumExists
<1>2. Total(ns) = f[Len(ns)]
  BY <1>1, TotalIs
<1>3. Len(ns) \in 0..Len(ns) /\ f \in [0..Len(ns) -> Int]
  BY <1>1, LenProperties DEF IsSum
<1> QED BY <1>2, <1>3

\* The sum of the first m numbers.
UpTo(ns, m) == Total([j \in 1..m |-> ns[j]])

\* It grows by one number at a time, up to the total.
LEMMA UpToSteps ==
  ASSUME NEW ns \in Seq(Int)
  PROVE  /\ UpTo(ns, 0) = 0 /\ \A m \in 0..Len(ns) : UpTo(ns, m) \in Int
         /\ \A m \in 1..Len(ns) : UpTo(ns, m) = UpTo(ns, m - 1) + ns[m]
         /\ UpTo(ns, Len(ns)) = Total(ns)
<1> DEFINE n == Len(ns)
<1>1. n \in Nat /\ 0 \in 0..n /\ n \in 0..n /\ \A m \in 1..n : m \in 0..n /\ m - 1 \in 0..n
  BY LenProperties
<1>2. PICK f : IsSum(f, ns)
  BY SumExists
<1>3. \A m \in 0..n : UpTo(ns, m) = f[m] /\ f[m] \in Int
  BY <1>2, PrefixTotal DEF UpTo
<1>4. f[0] = 0 /\ \A m \in 1..n : f[m] = f[m - 1] + ns[m]
  BY <1>2 DEF IsSum
<1>5. Total(ns) = f[n]
  BY <1>2, TotalIs
<1> QED BY <1>1, <1>3, <1>4, <1>5

-----------------------------------------------------------------------------
(***************************************************************************)
(* Reading a media segment back.                                           *)
(***************************************************************************)
\* The size of a box.
LEMMA BoxSize ==
  ASSUME NEW tag, NEW own, NEW val, NEW kids
  PROVE  /\ Box(tag, own, val, kids).size = 8 + own + Total([k \in DOMAIN kids |-> kids[k].size])
         /\ FullBox(tag, own, val, kids).size
              = 8 + (4 + own) + Total([k \in DOMAIN kids |-> kids[k].size])
<1>1. \A n, v, k, s : [tag |-> n, val |-> v, kids |-> k, size |-> s].size = s
  OBVIOUS
<1> DEFINE size(o) == 8 + o + Total([k \in DOMAIN kids |-> kids[k].size])
<1>2. \A o : Box(tag, o, val, kids) = [tag |-> tag, val |-> val, kids |-> kids, size |-> size(o)]
  BY DEF Box
<1> HIDE DEF size
<1>3. \A o : Box(tag, o, val, kids).size = size(o)
  BY <1>1, <1>2
<1> QED BY <1>3 DEF FullBox, size

\* A box without boxes inside.
LEMMA LeafSize ==
  ASSUME NEW tag, NEW own \in Int, NEW val
  PROVE  /\ FullBox(tag, own, val, <<>>).size = 12 + own /\ Box(tag, own, val, <<>>).size = 8 + own
<1> DEFINE none == <<>>
           sizes == [k \in DOMAIN none |-> none[k].size]
<1>1. Len(sizes) = 0 /\ sizes \in Seq(Int)
  OBVIOUS
<1>2. Total(sizes) = 0
  <2>1. UpTo(sizes, Len(sizes)) = Total(sizes) /\ UpTo(sizes, 0) = 0
    BY <1>1, UpToSteps
  <2> QED BY <1>1, <2>1
<1> HIDE DEF none
<1>3. /\ FullBox(tag, own, val, none).size = 8 + (4 + own) + Total(sizes)
      /\ Box(tag, own, val, none).size = 8 + own + Total(sizes)
  BY BoxSize
<1> HIDE DEF sizes
<1>4. /\ FullBox(tag, own, val, none).size = 12 + own
      /\ Box(tag, own, val, none).size = 8 + own
  BY <1>2, <1>3
<1> QED BY <1>4 DEF none

\* The third of three.
LEMMA ThirdOfThree ==
  ASSUME NEW a, NEW b, NEW c, NEW tag, a.tag # tag, b.tag # tag, c.tag = tag
  PROVE  TheBox(<<a, b, c>>, tag) = c
<1> DEFINE s == <<a, b, c>>
<1>1. DOMAIN s = 1..3 /\ s[1] = a /\ s[2] = b /\ s[3] = c
  OBVIOUS
<1>2. 3 \in Nat /\ 3 \in 1..3 /\ \A j \in 1..3 : j = 1 \/ j = 2 \/ j = 3
  OBVIOUS
<1> HIDE DEF s
<1> DEFINE n == 3 i == 3
<1>3. n \in Nat /\ i \in 1..n /\ DOMAIN s = 1..n /\ s[i].tag = tag
  BY <1>1, <1>2
<1>4. \A j \in 1..n : s[j].tag = tag => j = i
  BY <1>1, <1>2
<1>5. TheBox(s, tag) = s[i]
  <2> HIDE DEF n, i
  <2> QED BY <1>3, <1>4, TheOnlyBox
<1>6. TheBox(s, tag) = s[3]
  BY <1>5
<1> QED BY <1>1, <1>6 DEF s

-----------------------------------------------------------------------------
(***************************************************************************)
(* A track of a segment.                                                   *)
(***************************************************************************)
\* The boxes of a traf.
Tfhd(f) == FullBox("tfhd", 4, f.id, <<>>)
Tfdt(f) == FullBox("tfdt", 8, f.base, <<>>)
Entries(f) == [j \in DOMAIN f.samples |-> Entry(f.samples[j])]
Trun(f, at) == FullBox("trun", 8 + 16 * Len(f.samples), [at |-> at, entries |-> Entries(f)], <<>>)

\* What is read of a traf.
TrafOf(traf, f, at) ==
  /\ traf.tag = "traf" /\ IdOf(traf) = f.id
  /\ TheBox(traf.kids, "tfdt").val = f.base
  /\ TheBox(traf.kids, "trun").val = [at |-> at, entries |-> Entries(f)]

\* A traf tells a reader its track, its base and its run.
LEMMA TrafRead ==
  ASSUME NEW f, NEW at
  PROVE  TrafOf(Traf(f, at), f, at)
<1> DEFINE run == [at |-> at, entries |-> Entries(f)]
           traf == Traf(f, at)
           a == Tfhd(f)
           b == Tfdt(f)
           c == Trun(f, at)
           inner == <<a, b, c>>
<1>1. traf = Box("traf", 0, None, inner)
  BY DEF Traf, Tfhd, Tfdt, Trun, Entries
<1>2. a.tag = "tfhd" /\ b.tag = "tfdt" /\ c.tag = "trun"
  BY BoxFields DEF Tfhd, Tfdt, Trun
<1>3. a.val = f.id /\ b.val = f.base /\ c.val = run
  BY BoxFields DEF Tfhd, Tfdt, Trun
<1> HIDE DEF a, b, c, inner, traf, run
<1>4. traf.tag = "traf" /\ traf.kids = inner
  BY <1>1, BoxFields
<1>5. "tfhd" # "tfdt" /\ "tfhd" # "trun" /\ "tfdt" # "trun"
  OBVIOUS
<1>6. TheBox(inner, "tfhd") = a
  BY <1>2, <1>5, FirstOfThree DEF inner
<1>7. TheBox(inner, "tfdt") = b
  BY <1>2, <1>5, SecondOfThree DEF inner
<1>8. TheBox(inner, "trun") = c
  BY <1>2, <1>5, ThirdOfThree DEF inner
<1> QED BY <1>3, <1>4, <1>6, <1>7, <1>8 DEF IdOf, TrafOf, traf, run

\* Its size is a number that does not depend on where its samples are.
LEMMA TrafSize ==
  ASSUME NEW f, Len(f.samples) \in Int, NEW at, NEW bt
  PROVE  Traf(f, at).size \in Int /\ Traf(f, at).size = Traf(f, bt).size
<1> DEFINE a == Tfhd(f)
           b == Tfdt(f)
           own == 8 + 16 * Len(f.samples)
           sizes == <<16, 20, 12 + own>>
<1>1. own \in Int
  OBVIOUS
<1>2. a.size = 16 /\ b.size = 20
  BY LeafSize DEF Tfhd, Tfdt
<1>3. \A x : Trun(f, x).size = 12 + own
  BY <1>1, LeafSize DEF Trun
<1> HIDE DEF own, a, b
<1>4. sizes \in Seq(Int)
  BY <1>1
<1>5. Total(sizes) \in Int
  BY <1>4, TotalType
<1>6. \A x : Traf(f, x).size = 8 + 0 + Total(sizes)
  <2> SUFFICES ASSUME NEW x PROVE Traf(f, x).size = 8 + 0 + Total(sizes)
    OBVIOUS
  <2> DEFINE c == Trun(f, x)
             inner == <<a, b, c>>
  <2>1. Traf(f, x) = Box("traf", 0, None, inner)
    BY DEF Traf, Tfhd, Tfdt, Trun, Entries, a, b
  <2>2. c.size = 12 + own
    BY <1>3
  <2> HIDE DEF c
  <2>3. [k \in DOMAIN inner |-> inner[k].size] = sizes
    BY <1>2, <2>2
  <2> HIDE DEF inner, sizes
  <2> QED BY <2>1, <2>3, BoxSize
<1> HIDE DEF sizes
<1> QED BY <1>5, <1>6

\* The boxes of a moof.
InMoof(n, m, frs, at, kids) ==
  /\ DOMAIN kids = 1..(1 + m) /\ kids[1] = FullBox("mfhd", 4, n, <<>>)
  /\ \A k \in 1..m : kids[1 + k] = Traf(frs[k], at[k])

\* A moof holds its header and then each fragment's traf.
LEMMA MoofKids ==
  ASSUME NEW n, NEW m \in Nat, NEW frs, DOMAIN frs = 1..m, NEW at
  PROVE  InMoof(n, m, frs, at, Moof(n, frs, at).kids)
<1> DEFINE mfhd == FullBox("mfhd", 4, n, <<>>)
           trafs == [k \in DOMAIN frs |-> Traf(frs[k], at[k])]
           S == {mfhd} \cup {trafs[k] : k \in 1..m}
           kids == Moof(n, frs, at).kids
<1>1. kids = <<mfhd>> \o trafs
  <2> DEFINE ks == <<mfhd>> \o trafs
  <2>1. Moof(n, frs, at) = Box("moof", 0, None, ks)
    BY DEF Moof
  <2> HIDE DEF ks
  <2>2. Box("moof", 0, None, ks).kids = ks
    BY BoxFields
  <2> QED BY <2>1, <2>2 DEF ks
<1>2. DOMAIN trafs = 1..m /\ \A k \in 1..m : trafs[k] = Traf(frs[k], at[k])
  OBVIOUS
<1>3. trafs = [k \in 1..m |-> trafs[k]]
  OBVIOUS
<1> HIDE DEF mfhd, trafs, kids
<1>4. <<mfhd>> \in Seq(S) /\ Len(<<mfhd>>) = 1 /\ <<mfhd>>[1] = mfhd
  OBVIOUS
<1>5. trafs \in Seq(S) /\ Len(trafs) = m
  BY <1>2, <1>3
<1> DEFINE one == <<mfhd>>
<1>6. one \in Seq(S) /\ Len(one) = 1 /\ one[1] = mfhd /\ kids = one \o trafs
  BY <1>1, <1>4
<1> HIDE DEF one, S
<1>7. /\ one \o trafs \in Seq(S) /\ Len(one \o trafs) = Len(one) + Len(trafs)
      /\ \A j \in 1..(Len(one) + Len(trafs)) :
           (one \o trafs)[j] = IF j <= Len(one) THEN one[j] ELSE trafs[j - Len(one)]
  BY <1>5, <1>6, ConcatProperties
<1>8. /\ kids \in Seq(S) /\ Len(kids) = 1 + m
      /\ \A j \in 1..(1 + m) : kids[j] = IF j <= 1 THEN one[j] ELSE trafs[j - 1]
  BY <1>5, <1>6, <1>7
<1>9. 1 \in 1..(1 + m) /\ \A k \in 1..m : 1 + k \in 1..(1 + m) /\ ~(1 + k <= 1) /\ (1 + k) - 1 = k
  OBVIOUS
<1>10. kids[1] = mfhd /\ \A k \in 1..m : kids[1 + k] = trafs[k]
  BY <1>6, <1>8, <1>9
<1>11. DOMAIN kids = 1..(1 + m)
  BY <1>8, LenProperties
<1>12. InMoof(n, m, frs, at, kids)
  BY <1>2, <1>10, <1>11 DEF InMoof, mfhd
<1> QED BY <1>12 DEF kids

\* The size of a moof is a number that does not depend on the data offsets.
LEMMA MoofSize ==
  ASSUME NEW n, NEW m \in Nat, NEW frs, DOMAIN frs = 1..m, NEW at, NEW bt,
         \A k \in 1..m : Len(frs[k].samples) \in Int
  PROVE  Moof(n, frs, at).size \in Int /\ Moof(n, frs, at).size = Moof(n, frs, bt).size
<1> DEFINE sizes == [j \in 1..(1 + m) |-> IF j = 1 THEN 16 ELSE Traf(frs[j - 1], at[j - 1]).size]
<1>1. \A j \in 1..(1 + m) : j # 1 => j - 1 \in 1..m /\ 1 + (j - 1) = j
  OBVIOUS
<1>2. \A j \in 1..(1 + m) : sizes[j] \in Int
  <2> SUFFICES ASSUME NEW j \in 1..(1 + m) PROVE sizes[j] \in Int
    OBVIOUS
  <2>1. CASE j = 1
    BY <2>1
  <2>2. CASE j # 1
    <3>1. Traf(frs[j - 1], at[j - 1]).size \in Int
      BY <1>1, <2>2, TrafSize
    <3> QED BY <2>2, <3>1
  <2> QED BY <2>1, <2>2
<1>3. sizes \in Seq(Int)
  BY <1>2
<1>4. Total(sizes) \in Int
  BY <1>3, TotalType
<1>5. \A x : Moof(n, frs, x).size = 8 + 0 + Total(sizes)
  <2> SUFFICES ASSUME NEW x PROVE Moof(n, frs, x).size = 8 + 0 + Total(sizes)
    OBVIOUS
  <2> DEFINE kids == Moof(n, frs, x).kids
  <2>0. InMoof(n, m, frs, x, kids)
    BY MoofKids
  <2> HIDE DEF kids
  <2>1. /\ DOMAIN kids = 1..(1 + m) /\ kids[1] = FullBox("mfhd", 4, n, <<>>)
        /\ \A k \in 1..m : kids[1 + k] = Traf(frs[k], x[k])
    BY <2>0 DEF InMoof
  <2>2. Moof(n, frs, x) = Box("moof", 0, None, kids)
    <3> DEFINE ks == <<FullBox("mfhd", 4, n, <<>>)>> \o [k \in DOMAIN frs |-> Traf(frs[k], x[k])]
    <3>1. Moof(n, frs, x) = Box("moof", 0, None, ks)
      BY DEF Moof
    <3> HIDE DEF ks
    <3>2. Box("moof", 0, None, ks).kids = ks
      BY BoxFields
    <3> QED BY <3>1, <3>2 DEF kids
  <2>3. \A j \in 1..(1 + m) : kids[j].size = sizes[j]
    <3> SUFFICES ASSUME NEW j \in 1..(1 + m) PROVE kids[j].size = sizes[j]
      OBVIOUS
    <3>1. CASE j = 1
      <4>1. FullBox("mfhd", 4, n, <<>>).size = 16
        BY LeafSize
      <4> QED BY <2>1, <3>1, <4>1
    <3>2. CASE j # 1
      <4>1. kids[j] = Traf(frs[j - 1], x[j - 1])
        BY <1>1, <2>1, <3>2
      <4>2. Traf(frs[j - 1], x[j - 1]).size = Traf(frs[j - 1], at[j - 1]).size
        BY <1>1, <3>2, TrafSize
      <4> QED BY <3>2, <4>1, <4>2
    <3> QED BY <3>1, <3>2
  <2>4. [j \in DOMAIN kids |-> kids[j].size] = sizes
    BY <2>1, <2>3
  <2> HIDE DEF sizes
  <2> QED BY <2>2, <2>4, BoxSize
<1> HIDE DEF sizes
<1> QED BY <1>4, <1>5

\* The trafs of a moof, one for each fragment.
HoldsTrafs(n, m, frs, at) ==
  /\ \A k \in 1..m : Traf(frs[k], at[k]) \in Inside(Moof(n, frs, at).kids, "traf")
  /\ \A traf \in Inside(Moof(n, frs, at).kids, "traf") :
       \E k \in 1..m : traf = Traf(frs[k], at[k])

\* The trafs in a moof are those of its fragments.
LEMMA MoofTrafs ==
  ASSUME NEW n, NEW m \in Nat, NEW frs, DOMAIN frs = 1..m, NEW at
  PROVE  HoldsTrafs(n, m, frs, at)
<1> DEFINE kids == Moof(n, frs, at).kids
<1>0. InMoof(n, m, frs, at, kids)
  BY MoofKids
<1> HIDE DEF kids
<1>1. /\ DOMAIN kids = 1..(1 + m) /\ kids[1] = FullBox("mfhd", 4, n, <<>>)
      /\ \A k \in 1..m : kids[1 + k] = Traf(frs[k], at[k])
  BY <1>0 DEF InMoof
<1>2. FullBox("mfhd", 4, n, <<>>).tag = "mfhd"
  BY BoxFields
<1>3. \A k \in 1..m : Traf(frs[k], at[k]).tag = "traf"
  BY TrafRead DEF TrafOf
<1>4. /\ \A j \in 1..(1 + m) : j # 1 => j - 1 \in 1..m /\ 1 + (j - 1) = j
      /\ \A k \in 1..m : 1 + k \in 1..(1 + m)
  OBVIOUS
<1>5. \A k \in 1..m : Traf(frs[k], at[k]) \in Inside(kids, "traf")
  BY <1>1, <1>3, <1>4 DEF Inside
<1>6. \A traf \in Inside(kids, "traf") : \E k \in 1..m : traf = Traf(frs[k], at[k])
  <2> SUFFICES ASSUME NEW traf \in Inside(kids, "traf")
               PROVE  \E k \in 1..m : traf = Traf(frs[k], at[k])
    OBVIOUS
  <2>1. PICK j \in 1..(1 + m) : traf = kids[j] /\ kids[j].tag = "traf"
    BY <1>1 DEF Inside
  <2>2. j # 1
    BY <1>1, <1>2, <2>1
  <2> QED BY <1>1, <1>4, <2>1, <2>2
<1> QED BY <1>5, <1>6 DEF HoldsTrafs, kids

-----------------------------------------------------------------------------
(***************************************************************************)
(* A player reads what was written.                                        *)
(***************************************************************************)
FragmentSample == [duration : Int, payload : Seq(Nat), offset : Int, flags : Nat]
Fragment == [id : Nat, base : Int, samples : Seq(FragmentSample)]

\* The payloads of a fragment, and the payloads of all of them.
Parts(f) == [k \in DOMAIN f.samples |-> f.samples[k].payload]
Bodies(frs) == [k \in DOMAIN frs |-> Payloads(frs[k])]

\* A fragment's payloads, one for each sample.
LEMMA PartsType ==
  ASSUME NEW f \in Fragment
  PROVE  /\ Parts(f) \in Seq(Seq(Nat)) /\ Len(Parts(f)) = Len(f.samples)
         /\ DOMAIN f.samples = 1..Len(f.samples) /\ Len(f.samples) \in Nat
         /\ \A k \in 1..Len(f.samples) : /\ Parts(f)[k] = f.samples[k].payload
                                         /\ f.samples[k] \in FragmentSample
<1> DEFINE s == f.samples
           n == Len(s)
           p == Parts(f)
<1>1. s \in Seq(FragmentSample)
  BY DEF Fragment
<1>2. n \in Nat /\ DOMAIN s = 1..n /\ \A k \in 1..n : s[k] \in FragmentSample
  BY <1>1, LenProperties, ElementOfSeq
<1>3. p = [k \in 1..n |-> s[k].payload]
  BY <1>2 DEF Parts
<1>4. \A k \in 1..n : s[k].payload \in Seq(Nat)
  BY <1>2 DEF FragmentSample
<1> HIDE DEF p, s, n
<1>5. p \in Seq(Seq(Nat)) /\ Len(p) = n
  BY <1>2, <1>3, <1>4
<1>6. \A k \in 1..n : p[k] = s[k].payload
  BY <1>3
<1> QED BY <1>2, <1>5, <1>6 DEF p, s, n

\* A fragment's payload is as long as its samples say.
LEMMA PayloadsType ==
  ASSUME NEW f \in Fragment
  PROVE  Payloads(f) \in Seq(Nat) /\ PayloadSize(f) = Len(Payloads(f))
<1> DEFINE p == Parts(f)
           sizes == [k \in DOMAIN f.samples |-> Len(f.samples[k].payload)]
<1>1. /\ p \in Seq(Seq(Nat)) /\ Len(p) = Len(f.samples) /\ DOMAIN f.samples = 1..Len(f.samples)
      /\ \A k \in 1..Len(f.samples) : p[k] = f.samples[k].payload
  BY PartsType
<1>2. Payloads(f) = FlattenSeq(p)
  BY DEF Payloads, Parts
<1> HIDE DEF p
<1>3. sizes = Lengths(p)
  BY <1>1 DEF Lengths
<1>4. PayloadSize(f) = Total(sizes)
  BY DEF PayloadSize
<1> HIDE DEF sizes
<1>5. Len(FlattenSeq(p)) = Total(Lengths(p))
  BY <1>1, FlattenLength
<1>6. FlattenSeq(p) \in Seq(Nat)
  <2>1. PICK g : IsJoin(g, p, Nat)
    BY <1>1, JoinExists
  <2> QED BY <1>1, <2>1, FlattenIs
<1> QED BY <1>2, <1>3, <1>4, <1>5, <1>6

\* So it is for each of several fragments.
LEMMA BodiesType ==
  ASSUME NEW frs \in Seq(Fragment)
  PROVE  /\ Bodies(frs) \in Seq(Seq(Nat)) /\ Len(Bodies(frs)) = Len(frs)
         /\ DOMAIN frs = 1..Len(frs) /\ Len(frs) \in Nat
         /\ \A k \in 1..Len(frs) : /\ Bodies(frs)[k] = Payloads(frs[k]) /\ frs[k] \in Fragment
                                   /\ PayloadSize(frs[k]) = Len(Bodies(frs)[k])
                                   /\ Len(frs[k].samples) \in Int
<1> DEFINE n == Len(frs)
           p == Bodies(frs)
<1>1. n \in Nat /\ DOMAIN frs = 1..n /\ \A k \in 1..n : frs[k] \in Fragment
  BY LenProperties, ElementOfSeq
<1>2. p = [k \in 1..n |-> Payloads(frs[k])]
  BY <1>1 DEF Bodies
<1>3. \A k \in 1..n : Payloads(frs[k]) \in Seq(Nat) /\ PayloadSize(frs[k]) = Len(Payloads(frs[k]))
  BY <1>1, PayloadsType
<1>4. \A k \in 1..n : Len(frs[k].samples) \in Int
  BY <1>1, PartsType
<1> HIDE DEF p, n
<1>5. p \in Seq(Seq(Nat)) /\ Len(p) = n
  BY <1>1, <1>2, <1>3
<1>6. \A k \in 1..n : p[k] = Payloads(frs[k])
  BY <1>2
<1> QED BY <1>1, <1>3, <1>4, <1>5, <1>6 DEF p, n

\* The boxes of a segment.
LEMMA SegmentBoxes ==
  ASSUME NEW n, NEW frs
  PROVE  /\ TheBox(MediaSegment(n, frs), "moof") = Moof(n, frs, Offsets(n, frs))
         /\ TheBox(MediaSegment(n, frs), "mdat").val = FlattenSeq(Bodies(frs))
<1> DEFINE moof == Moof(n, frs, Offsets(n, frs))
           mdat == FlattenSeq(Bodies(frs))
           data == Box("mdat", Len(mdat), mdat, <<>>)
           file == <<Styp, moof, data>>
<1>1. MediaSegment(n, frs) = file
  BY DEF MediaSegment, Bodies
<1>2. Styp.tag = "styp" /\ moof.tag = "moof"
  <2>1. Styp.tag = "styp"
    BY BoxFields DEF Styp
  <2>2. \A at : Moof(n, frs, at).tag = "moof"
    BY BoxFields DEF Moof
  <2> QED BY <2>1, <2>2
<1> HIDE DEF mdat, moof
<1>3. data.tag = "mdat" /\ data.val = mdat
  BY BoxFields
<1> HIDE DEF data
<1>4. "styp" # "moof" /\ "mdat" # "moof" /\ "styp" # "mdat"
  OBVIOUS
<1>5. TheBox(file, "moof") = moof
  BY <1>2, <1>3, <1>4, SecondOfThree
<1>6. TheBox(file, "mdat") = data
  BY <1>2, <1>3, <1>4, ThirdOfThree
<1> QED BY <1>1, <1>3, <1>5, <1>6 DEF moof, mdat

\* The fragment of a track, when no other is of it.
Alone(frs, k) ==
  /\ frs \in Seq(Fragment) /\ k \in 1..Len(frs)
  /\ \A j \in 1..Len(frs) : frs[j].id = frs[k].id => j = k

\* The traf that a player finds.
LEMMA TrafFound ==
  ASSUME NEW n, NEW frs, NEW k, Alone(frs, k)
  PROVE  LET file == MediaSegment(n, frs)
             id == frs[k].id
         IN  /\ HasTrack(file, id)
             /\ (CHOOSE t \in TrafsOf(file) : IdOf(t) = id) = Traf(frs[k], Offsets(n, frs)[k])
<1> DEFINE file == MediaSegment(n, frs)
           id == frs[k].id
           at == Offsets(n, frs)
           m == Len(frs)
           found == Traf(frs[k], at[k])
           S == TrafsOf(file)
<1>1. m \in Nat /\ DOMAIN frs = 1..m /\ k \in 1..m /\ \A j \in 1..m : frs[j].id = id => j = k
  BY LenProperties DEF Alone
<1>2. S = Inside(Moof(n, frs, at).kids, "traf")
  BY SegmentBoxes DEF TrafsOf
<1> HIDE DEF at, S, file, m
<1>3. /\ \A j \in 1..m : Traf(frs[j], at[j]) \in S
      /\ \A t \in S : \E j \in 1..m : t = Traf(frs[j], at[j])
  <2>1. m \in Nat /\ DOMAIN frs = 1..m
    BY <1>1
  <2>2. /\ \A j \in 1..m : Traf(frs[j], at[j]) \in Inside(Moof(n, frs, at).kids, "traf")
        /\ \A t \in Inside(Moof(n, frs, at).kids, "traf") :
             \E j \in 1..m : t = Traf(frs[j], at[j])
    <3>1. HoldsTrafs(n, m, frs, at)
      BY <2>1, MoofTrafs
    <3> QED BY <3>1 DEF HoldsTrafs
  <2> QED BY <1>2, <2>2
<1>4. found \in S
  BY <1>1, <1>3
<1>5. \A j : IdOf(Traf(frs[j], at[j])) = frs[j].id
  BY TrafRead DEF TrafOf
<1>6. IdOf(found) = id
  BY <1>5
<1>7. \A t \in S : IdOf(t) = id => t = found
  BY <1>1, <1>3, <1>5
<1> HIDE DEF found, id
<1>8. (CHOOSE t \in S : IdOf(t) = id) = found
  BY <1>4, <1>6, <1>7
<1>9. HasTrack(file, id)
  BY <1>4, <1>6 DEF HasTrack, S
<1> QED BY <1>8, <1>9 DEF file, S, id, found, at

\* Where a player looks for its samples.
LEMMA StartFound ==
  ASSUME NEW n, NEW frs, NEW k, Alone(frs, k)
  PROVE  Offsets(n, frs)[k] - TheBox(MediaSegment(n, frs), "moof").size - 8
           = Ahead(Bodies(frs), k)
<1> DEFINE m == Len(frs)
           zeros == [j \in DOMAIN frs |-> 0]
           x == Moof(n, frs, zeros).size
           y == Moof(n, frs, Offsets(n, frs)).size
           before == [j \in 1..k - 1 |-> PayloadSize(frs[j])]
           lens == [j \in 1..k - 1 |-> Len(Bodies(frs)[j])]
<1>1. /\ m \in Nat /\ DOMAIN frs = 1..m /\ k \in 1..m
      /\ \A j \in 1..m : PayloadSize(frs[j]) = Len(Bodies(frs)[j]) /\ Len(frs[j].samples) \in Int
      /\ Bodies(frs) \in Seq(Seq(Nat)) /\ Len(Bodies(frs)) = m
  BY BodiesType DEF Alone
<1>2. \A j \in 1..(k - 1) : j \in 1..m
  BY <1>1
<1>3. before = lens
  BY <1>1, <1>2
<1>4. Offsets(n, frs)[k] = x + 8 + Total(before)
  BY <1>1 DEF Offsets
<1>5. TheBox(MediaSegment(n, frs), "moof").size = y
  BY SegmentBoxes
<1>6. x \in Int /\ x = y
  <2> HIDE DEF zeros
  <2> QED BY <1>1, MoofSize
<1>7. Total(lens) = Ahead(Bodies(frs), k)
  BY DEF Ahead
<1>8. Ahead(Bodies(frs), k) \in Int
  BY <1>1, Located
<1> HIDE DEF x, y, before, lens
<1> QED BY <1>3, <1>4, <1>5, <1>6, <1>7, <1>8

\* The durations of a fragment's samples.
Durations(f) == [j \in DOMAIN f.samples |-> f.samples[j].duration]

\* How a player reads a fragment.
ReadAs(f) ==
  [k \in DOMAIN f.samples |->
     [data |-> f.samples[k].payload, first |-> k = 1,
      time |-> f.base + UpTo(Durations(f), k - 1), duration |-> f.samples[k].duration,
      sync |-> (f.samples[k].flags \div 2^16) % 2 = 0, offset |-> f.samples[k].offset]]

\* The bytes from a place on.
Cut(bytes, from, size) ==
  [i \in 1..size |-> IF from + i \in DOMAIN bytes THEN bytes[from + i] ELSE None]

\* The bytes of a sample are found where the sizes before it lead.
LEMMA DataFound ==
  ASSUME NEW frs, NEW k, Alone(frs, k), NEW f, f = frs[k], NEW j \in DOMAIN f.samples
  PROVE  LET size == Entries(f)[j].size
             from == Ahead(Bodies(frs), k) + Total([x \in 1..j - 1 |-> Entries(f)[x].size])
         IN  Cut(FlattenSeq(Bodies(frs)), from, size) = f.samples[j].payload
<1> DEFINE b == Bodies(frs)
           p == Parts(f)
           m == Len(f.samples)
           body == FlattenSeq(p)
           mdat == FlattenSeq(b)
           part == f.samples[j].payload
           u == Ahead(b, k)
           v == Ahead(p, j)
           sizes == [x \in 1..j - 1 |-> Entries(f)[x].size]
           lens == [x \in 1..j - 1 |-> Len(p[x])]
<1>1. /\ b \in Seq(Seq(Nat)) /\ k \in 1..Len(b) /\ f \in Fragment /\ b[k] = Payloads(f)
  BY BodiesType DEF Alone
<1>2. /\ p \in Seq(Seq(Nat)) /\ Len(p) = m /\ m \in Nat /\ DOMAIN f.samples = 1..m
      /\ \A x \in 1..m : p[x] = f.samples[x].payload
  BY <1>1, PartsType
<1>3. body = b[k]
  BY <1>1 DEF Payloads, Parts
<1> HIDE DEF b, p, body, mdat, part, u, v, m
<1>4. /\ u \in Int /\ mdat \in Seq(Nat)
      /\ \A i \in 1..Len(b[k]) : u + i \in DOMAIN mdat /\ mdat[u + i] = b[k][i]
  BY <1>1, Located DEF u, mdat
<1>5. j \in 1..m /\ j \in 1..Len(p)
  BY <1>2
<1>6. /\ v \in Int /\ body \in Seq(Nat)
      /\ \A i \in 1..Len(p[j]) : v + i \in DOMAIN body /\ body[v + i] = p[j][i]
  BY <1>2, <1>5, Located DEF v, body
<1>7. p[j] = part /\ part \in Seq(Nat)
  <2>1. p[j] = part
    BY <1>2, <1>5 DEF part
  <2>2. p[j] \in Seq(Nat)
    BY <1>2, <1>5, ElementOfSeq
  <2> QED BY <2>1, <2>2
<1>8. \A x \in 1..m : Entries(f)[x].size = Len(p[x])
  BY <1>2 DEF Entries, Entry
<1>9. Total(sizes) = v
  <2>1. \A x \in 1..j - 1 : x \in 1..m
    BY <1>2, <1>5
  <2>2. sizes = lens
    BY <1>8, <2>1
  <2> HIDE DEF sizes
  <2> QED BY <2>2 DEF v, Ahead
<1> DEFINE size == Len(part)
           from == u + v
<1>10. Entries(f)[j].size = size
  BY <1>5, <1>7, <1>8
<1>11. size \in Nat /\ part = [i \in 1..size |-> part[i]]
  BY <1>7, LenProperties
<1>12. \A i \in 1..size : from + i \in DOMAIN mdat /\ mdat[from + i] = part[i]
  <2> SUFFICES ASSUME NEW i \in 1..size
               PROVE  from + i \in DOMAIN mdat /\ mdat[from + i] = part[i]
    OBVIOUS
  <2> DEFINE w == v + i
  <2>1. w \in DOMAIN body /\ body[w] = part[i]
    BY <1>6, <1>7
  <2>2. DOMAIN body = 1..Len(b[k])
    BY <1>3, <1>6, LenProperties
  <2> HIDE DEF w
  <2>3. u + w \in DOMAIN mdat /\ mdat[u + w] = b[k][w]
    BY <1>4, <2>1, <2>2
  <2>4. b[k][w] = part[i]
    BY <1>3, <2>1
  <2>5. u + w = from + i
    <3>1. i \in Int
      BY <1>11
    <3> QED BY <1>4, <1>6, <3>1 DEF w
  <2> QED BY <2>3, <2>4, <2>5
<1> HIDE DEF from, size
<1>13. Cut(mdat, from, size) = [i \in 1..size |-> part[i]]
  BY <1>12 DEF Cut
<1>14. Cut(mdat, from, size) = part
  BY <1>11, <1>13
<1>15. u + Total(sizes) = from
  BY <1>9 DEF from
<1> QED BY <1>10, <1>14, <1>15 DEF mdat, u, b, part

\* The whole of it.
LEMMA SegmentRead ==
  ASSUME NEW n, NEW frs, NEW k, Alone(frs, k)
  PROVE  SamplesOf(MediaSegment(n, frs), frs[k].id) = ReadAs(frs[k])
<1> DEFINE file == MediaSegment(n, frs)
           f == frs[k]
           id == f.id
           at == Offsets(n, frs)[k]
           traf == CHOOSE t \in TrafsOf(file) : IdOf(t) = id
           base == TheBox(traf.kids, "tfdt").val
           run == TheBox(traf.kids, "trun").val
           before(j, field) == Total([x \in 1..j - 1 |-> run.entries[x][field]])
           start == run.at - TheBox(file, "moof").size - 8
           mdat == TheBox(file, "mdat").val
           data(j) == Cut(mdat, start + before(j, "size"), run.entries[j].size)
           shot(j) == [data |-> data(j), first |-> j = 1, time |-> base + before(j, "duration"),
                       duration |-> run.entries[j].duration,
                       sync |-> (run.entries[j].flags \div 2^16) % 2 = 0,
                       offset |-> run.entries[j].offset]
<1>1. SamplesOf(file, id)
        = IF ~HasTrack(file, id) THEN <<>> ELSE [j \in DOMAIN run.entries |-> shot(j)]
  BY DEF SamplesOf, Cut
<1>2. HasTrack(file, id) /\ traf = Traf(f, at)
  BY TrafFound
<1>3. base = f.base /\ run = [at |-> at, entries |-> Entries(f)]
  <2>1. TrafOf(Traf(f, at), f, at)
    BY TrafRead
  <2>2. TrafOf(traf, f, at)
    BY <1>2, <2>1
  <2> QED BY <2>2 DEF TrafOf
<1>4. at - TheBox(file, "moof").size - 8 = Ahead(Bodies(frs), k)
  BY StartFound
<1>5. mdat = FlattenSeq(Bodies(frs))
  BY SegmentBoxes
<1> HIDE DEF file, at, traf, base, run, mdat
<1>6. run.at = at /\ run.entries = Entries(f)
  BY <1>3
<1>7. start = Ahead(Bodies(frs), k)
  BY <1>4, <1>6
<1> HIDE DEF start
<1>8. DOMAIN Entries(f) = DOMAIN f.samples
  BY DEF Entries
<1>9. \A j \in DOMAIN f.samples : shot(j) = ReadAs(f)[j]
  <2> SUFFICES ASSUME NEW j \in DOMAIN f.samples PROVE shot(j) = ReadAs(f)[j]
    OBVIOUS
  <2> DEFINE s == f.samples[j]
  <2>1. data(j) = s.payload
    <3>1. before(j, "size") = Total([x \in 1..j - 1 |-> Entries(f)[x].size])
      BY <1>6
    <3> HIDE DEF before, f
    <3>2. Cut(FlattenSeq(Bodies(frs)),
              Ahead(Bodies(frs), k) + Total([x \in 1..j - 1 |-> Entries(f)[x].size]),
              Entries(f)[j].size) = s.payload
      BY DataFound DEF f
    <3> QED BY <1>5, <1>6, <1>7, <3>1, <3>2
  <2>2. before(j, "duration") = UpTo(Durations(f), j - 1)
    <3>1. DOMAIN f.samples = 1..Len(f.samples) /\ j \in 1..Len(f.samples) /\ Len(f.samples) \in Nat
      BY PartsType, ElementOfSeq DEF Alone
    <3>2. \A x \in 1..j - 1 : x \in DOMAIN f.samples
      BY <3>1
    <3>3. \A x \in 1..j - 1 : run.entries[x].duration = Durations(f)[x]
      BY <1>6, <3>2 DEF Entries, Entry, Durations
    <3> DEFINE ns == [x \in 1..j - 1 |-> run.entries[x].duration]
               ms == [x \in 1..j - 1 |-> Durations(f)[x]]
    <3>4. ns = ms
      BY <3>3
    <3>5. before(j, "duration") = Total(ns) /\ UpTo(Durations(f), j - 1) = Total(ms)
      BY DEF UpTo
    <3> HIDE DEF ns, ms, before
    <3> QED BY <3>4, <3>5
  <2>3. /\ run.entries[j].duration = s.duration /\ run.entries[j].flags = s.flags
        /\ run.entries[j].offset = s.offset
    BY <1>6 DEF Entries, Entry
  <2> HIDE DEF data, before
  <2>4. shot(j) = [data |-> s.payload, first |-> j = 1,
                   time |-> f.base + UpTo(Durations(f), j - 1), duration |-> s.duration,
                   sync |-> (s.flags \div 2^16) % 2 = 0, offset |-> s.offset]
    BY <1>3, <2>1, <2>2, <2>3
  <2> QED BY <2>4 DEF ReadAs
<1> HIDE DEF shot
<1>10. DOMAIN ReadAs(f) = DOMAIN f.samples /\ ReadAs(f) = [j \in DOMAIN f.samples |-> ReadAs(f)[j]]
  BY DEF ReadAs
<1>11. SamplesOf(file, id) = [j \in DOMAIN f.samples |-> shot(j)]
  BY <1>1, <1>2, <1>6, <1>8
<1> QED BY <1>9, <1>10, <1>11 DEF file

\* What a player reads has its type.
Shot == [data : Seq(Nat), first : BOOLEAN, time : Int, duration : Int, sync : BOOLEAN, offset : Int]

\* What a player reads of a fragment has that type, sample by sample.
LEMMA ReadType ==
  ASSUME NEW f \in Fragment
  PROVE  /\ ReadAs(f) \in Seq(Shot) /\ Len(ReadAs(f)) = Len(f.samples)
         /\ Durations(f) \in Seq(Int) /\ Len(Durations(f)) = Len(f.samples)
<1> DEFINE n == Len(f.samples)
           d == Durations(f)
           r == ReadAs(f)
<1>1. n \in Nat /\ DOMAIN f.samples = 1..n /\ \A k \in 1..n : f.samples[k] \in FragmentSample
  BY PartsType
<1>2. d = [k \in 1..n |-> f.samples[k].duration]
  BY <1>1 DEF Durations
<1>3. \A k \in 1..n : f.samples[k].duration \in Int
  BY <1>1 DEF FragmentSample
<1> HIDE DEF d, n, r
<1>4. d \in Seq(Int) /\ Len(d) = n
  BY <1>1, <1>2, <1>3
<1>5. \A k \in 1..n : UpTo(d, k - 1) \in Int
  <2>1. \A m \in 0..n : UpTo(d, m) \in Int
    BY <1>4, UpToSteps
  <2> QED BY <1>1, <2>1
<1>6. f.base \in Int
  BY DEF Fragment
<1>7. \A k \in 1..n : r[k] \in Shot
  <2> SUFFICES ASSUME NEW k \in 1..n PROVE r[k] \in Shot
    OBVIOUS
  <2> DEFINE s == f.samples[k]
             time == f.base + UpTo(d, k - 1)
             sync == (s.flags \div 2^16) % 2 = 0
             first == k = 1
  <2>1. r[k] = [data |-> s.payload, first |-> first, time |-> time, duration |-> s.duration,
                sync |-> sync, offset |-> s.offset]
    BY <1>1 DEF r, ReadAs, d
  <2>2. time \in Int
    BY <1>5, <1>6
  <2>3. first \in BOOLEAN /\ sync \in BOOLEAN
    OBVIOUS
  <2>4. s.payload \in Seq(Nat) /\ s.duration \in Int /\ s.offset \in Int
    BY <1>1 DEF FragmentSample
  <2> HIDE DEF s, time, sync, first
  <2> QED BY <2>1, <2>2, <2>3, <2>4 DEF Shot
<1>8. r = [k \in 1..n |-> r[k]]
  BY <1>1 DEF r, ReadAs
<1>9. r \in Seq(Shot) /\ Len(r) = n
  BY <1>1, <1>7, <1>8
<1> QED BY <1>4, <1>9 DEF r, d, n

-----------------------------------------------------------------------------
(***************************************************************************)
(* The fragments of the open segment.                                      *)
(***************************************************************************)
\* The flags tell whether a sample is a sync sample.
LEMMA FlagsRead ==
  ASSUME NEW d \in {1, 2}, NEW b \in BOOLEAN
  PROVE  /\ SampleFlags(d, b) \in Nat
         /\ (SampleFlags(d, b) \div 2^16) % 2 = 0 <=> b
<1> DEFINE unit == 2^16
           high == 256 * d
<1>1. d % 4 = d /\ d \in Nat
  BY SMT
<1>2. 2^24 = 256 * unit
  BY SMT
<1>3. SampleFlags(d, b) = high * unit + (IF b THEN 0 ELSE unit)
  <2>1. SampleFlags(d, b) = 2^24 * d + (IF b THEN 0 ELSE unit)
    BY <1>1, SMT DEF SampleFlags
  <2> QED BY <1>1, <1>2, <2>1, SMT
<1>4. unit = 65536
  BY SMT
<1>5. high \in Nat /\ high % 2 = 0 /\ (high + 1) % 2 = 1
  BY SMT
<1> HIDE DEF high, unit
<1>6. CASE b
  <2>1. SampleFlags(d, b) = high * 65536
    BY <1>3, <1>4, <1>5, <1>6, SMT
  <2>2. (high * 65536) \div 65536 = high
    BY <1>5, SMT
  <2>3. SampleFlags(d, b) \in Nat /\ SampleFlags(d, b) \div unit = high
    BY <1>4, <1>5, <2>1, <2>2, SMT
  <2>4. (SampleFlags(d, b) \div unit) % 2 = 0
    BY <1>5, <2>3, SMT
  <2> QED BY <1>6, <2>3, <2>4, Zenon DEF unit
<1>7. CASE ~b
  <2>1. SampleFlags(d, b) = (high + 1) * 65536
    BY <1>3, <1>4, <1>5, <1>7, SMT
  <2>2. ((high + 1) * 65536) \div 65536 = high + 1
    BY <1>5, SMT
  <2>3. SampleFlags(d, b) \in Nat /\ SampleFlags(d, b) \div unit = high + 1
    BY <1>4, <1>5, <2>1, <2>2, SMT
  <2> QED BY <1>5, <1>7, <2>3, SMT DEF unit
<1> QED BY <1>6, <1>7

GridType == grid.video \in Int /\ grid.audio \in Int

FragmentOf(t) == IF t = "video" THEN VideoFragment ELSE AudioFragment

\* How a player sees a sample that was accepted.
Shows(t, shot, s) ==
  /\ shot.data = s.payload /\ shot.sync = s.sync
  /\ shot.offset = IF t = "video" THEN s.cts ELSE 0

\* The samples of the open segment.
LEMMA OpenSamples ==
  ASSUME TypeInv, NEW t \in Kinds
  PROVE  /\ open[t] \in Seq(Sample) /\ Len(open[t]) \in Nat /\ DOMAIN open[t] = 1..Len(open[t])
         /\ \A k \in 1..Len(open[t]) :
              LET s == open[t][k]
              IN  s.dts \in Int /\ s.cts \in Int /\ s.sync \in BOOLEAN /\ s.payload \in Seq(Nat)
         /\ open[t] # <<>> => Len(open[t]) >= 1
<1> DEFINE q == open[t]
<1>1. q \in Seq(Sample)
  BY DEF TypeInv, Kinds
<1> HIDE DEF q
<1>2. Len(q) \in Nat /\ DOMAIN q = 1..Len(q) /\ \A k \in 1..Len(q) : q[k] \in Sample
  BY <1>1, LenProperties, ElementOfSeq
<1>3. q # <<>> => Len(q) # 0
  BY <1>1, EmptySeq
<1>4. \A s \in Sample : s.dts \in Int /\ s.cts \in Int /\ s.sync \in BOOLEAN /\ s.payload \in Seq(Nat)
  BY DEF Sample
<1> QED BY <1>1, <1>2, <1>3, <1>4 DEF q

VideoDuration(s, k) ==
  IF k = Len(s) THEN VideoFrame ELSE Larger(s[k + 1].dts - s[k].dts, 0)

\* The fragment of the open segment's video: it starts on the grid or, if that is
\* later, at its first sample.
LEMMA VideoFragmentType ==
  ASSUME TypeInv, GridType, open.video # <<>>
  PROVE  LET f == VideoFragment
             s == open.video
         IN  /\ f \in Fragment /\ f.id = 1 /\ Len(f.samples) = Len(s)
             /\ f.base = Larger(grid.video, Larger(s[1].dts, 0))
             /\ \A k \in 1..Len(s) : /\ f.samples[k].payload = s[k].payload
                                     /\ f.samples[k].offset = s[k].cts
                                     /\ (f.samples[k].flags \div 2^16) % 2 = 0 <=> s[k].sync
                                     /\ f.samples[k].duration = VideoDuration(s, k)
<1> DEFINE f == VideoFragment
           s == open.video
           n == Len(s)
           flags(k) == SampleFlags(IF s[k].sync THEN 2 ELSE 1, s[k].sync)
           sample(k) == [duration |-> VideoDuration(s, k), payload |-> s[k].payload,
                         offset |-> s[k].cts, flags |-> flags(k)]
           base == Larger(grid.video, Larger(s[1].dts, 0))
           samples == [k \in 1..n |-> sample(k)]
<1>1. /\ n \in Nat /\ n >= 1 /\ DOMAIN s = 1..n
      /\ \A k \in 1..n : /\ s[k].dts \in Int /\ s[k].cts \in Int /\ s[k].sync \in BOOLEAN
                         /\ s[k].payload \in Seq(Nat)
  BY OpenSamples DEF Kinds
<1>2. f = [id |-> 1, base |-> base, samples |-> samples]
  BY <1>1 DEF VideoFragment, VideoTrackId, Base, VideoDuration
<1>3. \A k \in 1..n : flags(k) \in Nat /\ ((flags(k) \div 2^16) % 2 = 0 <=> s[k].sync)
  <2> SUFFICES ASSUME NEW k \in 1..n
               PROVE  flags(k) \in Nat /\ ((flags(k) \div 2^16) % 2 = 0 <=> s[k].sync)
    OBVIOUS
  <2> DEFINE b == s[k].sync
             d == IF b THEN 2 ELSE 1
  <2>1. b \in BOOLEAN /\ d \in {1, 2}
    BY <1>1
  <2> HIDE DEF b, d
  <2>2. SampleFlags(d, b) \in Nat /\ ((SampleFlags(d, b) \div 2^16) % 2 = 0 <=> b)
    BY <2>1, FlagsRead
  <2> QED BY <2>2 DEF b, d
<1>4. \A k \in 1..n : VideoDuration(s, k) \in Int
  <2> SUFFICES ASSUME NEW k \in 1..n PROVE VideoDuration(s, k) \in Int
    OBVIOUS
  <2>1. CASE k = n
    BY <2>1, TimeAssumption DEF VideoDuration
  <2>2. CASE k # n
    <3>1. k + 1 \in 1..n
      BY <1>1, <2>2
    <3>2. s[k + 1].dts - s[k].dts \in Int /\ 0 \in Int
      BY <1>1, <3>1
    <3>3. Larger(s[k + 1].dts - s[k].dts, 0) \in Int
      BY <3>2, LargerType
    <3> QED BY <2>2, <3>3 DEF VideoDuration
  <2> QED BY <2>1, <2>2
<1>5. base \in Int
  <2>1. s[1].dts \in Int /\ 0 \in Int /\ grid.video \in Int
    BY <1>1 DEF GridType
  <2>2. Larger(s[1].dts, 0) \in Int
    BY <2>1, LargerType
  <2> QED BY <2>1, <2>2, LargerType
<1> HIDE DEF flags, base
<1>6. \A k \in 1..n : sample(k) \in FragmentSample
  BY <1>1, <1>3, <1>4 DEF FragmentSample
<1>7. \A k \in 1..n : /\ sample(k).payload = s[k].payload /\ sample(k).offset = s[k].cts
                      /\ sample(k).flags = flags(k) /\ sample(k).duration = VideoDuration(s, k)
  OBVIOUS
<1> HIDE DEF sample, s, n, f
<1>8. samples \in Seq(FragmentSample) /\ Len(samples) = n /\ \A k \in 1..n : samples[k] = sample(k)
  BY <1>1, <1>6
<1> HIDE DEF samples
<1>9. f.id = 1 /\ f.base = base /\ f.samples = samples /\ f \in Fragment
  BY <1>2, <1>5, <1>8 DEF Fragment
<1> QED BY <1>3, <1>7, <1>8, <1>9 DEF f, s, n, base

\* Scaling keeps the order.
LEMMA Scaled ==
  ASSUME NEW a \in Int, NEW b \in Int, NEW c \in Nat, a <= b
  PROVE  a * c \in Int /\ b * c \in Int /\ a * c <= b * c
<1>1. (b - a) * c >= 0
  BY SMT
<1>2. (b - a) * c = b * c - a * c
  BY SMT
<1>3. a * c \in Int /\ b * c \in Int
  BY SMT
<1> QED BY <1>1, <1>2, <1>3, SMT

\* A whole quotient is the last number whose product is reached.
LEMMA Quotient ==
  ASSUME NEW x \in Int, NEW c \in Nat \ {0}
  PROVE  /\ x \div c \in Int
         /\ (x \div c) * c <= x
         /\ x <= (x \div c) * c + c - 1
<1> DEFINE q == x \div c
           r == x % c
<1>1. q \in Int /\ r \in 0..c - 1 /\ x = c * q + r
  BY SMT
<1> HIDE DEF q, r
<1>2. c * q = q * c /\ q * c \in Int
  BY <1>1, SMT
<1>3. q * c <= x /\ x <= q * c + c - 1
  BY <1>1, <1>2
<1> QED BY <1>1, <1>3 DEF q

\* The last tick of the audio timescale by a time, and no later than a later
\* time's.
LEMMA AudioTicksType ==
  ASSUME NEW a \in Int
  PROVE  /\ AudioTicks(a) \in Int
         /\ a >= 0 => /\ a * Audio.rate \in Int
                      /\ AudioTicks(a) * Second <= a * Audio.rate
                      /\ a * Audio.rate <= AudioTicks(a) * Second + Second - 1
         /\ AudioTicks(0) = 0
         /\ \A b \in Int : a <= b => AudioTicks(a) <= AudioTicks(b)
<1> DEFINE c == Second
           r == Audio.rate
           up(m) == Larger(m, 0)
           q(m) == (up(m) * r) \div c
<1>1. c \in Nat \ {0} /\ r \in Nat \ {0}
  BY TimeAssumption, RateAssumption
<1>2. \A m : AudioTicks(m) = q(m)
  BY DEF AudioTicks
<1>3. \A m \in Int : up(m) \in Nat /\ (m >= 0 => up(m) = m)
  BY DEF Larger
<1>4. \A m, n \in Int : m <= n => up(m) <= up(n)
  BY DEF Larger
<1> HIDE DEF c, r, up
<1>5. \A m \in Int : up(m) * r \in Int
  BY <1>1, <1>3, SMT
<1>6. \A m \in Int : q(m) \in Int /\ q(m) * c <= up(m) * r /\ up(m) * r <= q(m) * c + c - 1
  BY <1>1, <1>5, Quotient
<1>7. q(0) = 0
  <2>1. up(0) = 0
    BY <1>3
  <2>2. up(0) * r = 0 /\ 0 \div c = 0
    BY <1>1, <2>1, SMT
  <2> QED BY <2>2
<1>8. ASSUME NEW b \in Int, a <= b PROVE q(a) <= q(b)
  <2> DEFINE i == q(a)
             j == q(b)
             x == up(a) * r
             y == up(b) * r
  <2>1. x \in Int /\ y \in Int /\ x <= y
    <3>1. up(a) \in Nat /\ up(b) \in Nat /\ up(a) <= up(b)
      BY <1>3, <1>4, <1>8
    <3> QED BY <1>1, <3>1, Scaled
  <2>2. i \in Int /\ j \in Int /\ i * c <= x /\ y <= j * c + c - 1
    BY <1>6
  <2> HIDE DEF i, j, x, y
  <2>3. i * c \in Int /\ j * c \in Int
    BY <1>1, <2>2, SMT
  <2>4. i * c <= j * c + c - 1
    BY <1>1, <2>1, <2>2, <2>3
  <2>5. i <= j
    <3> SUFFICES ASSUME ~(i <= j) PROVE FALSE
      OBVIOUS
    <3> DEFINE k == j + 1
    <3>1. k \in Int /\ k <= i
      BY <2>2
    <3>2. k * c = j * c + c
      BY <1>1, <2>2, SMT
    <3> HIDE DEF k
    <3>3. k * c <= i * c
      BY <1>1, <2>2, <3>1, Scaled
    <3> QED BY <1>1, <2>3, <2>4, <3>2, <3>3
  <2> QED BY <2>5 DEF i, j
<1> HIDE DEF q
<1>9. a >= 0 => up(a) = a
  BY <1>3
<1> QED BY <1>2, <1>5, <1>6, <1>7, <1>8, <1>9 DEF c, r

\* The fragment of the open segment's audio, in ticks of its clock.
LEMMA AudioFragmentType ==
  ASSUME TypeInv, GridType, open.audio # <<>>
  PROVE  LET f == AudioFragment
             s == open.audio
         IN  /\ f \in Fragment /\ f.id = 2 /\ Len(f.samples) = Len(s)
             /\ f.base = Larger(grid.audio, AudioTicks(s[1].dts))
             /\ \A k \in 1..Len(s) : /\ f.samples[k].payload = s[k].payload
                                     /\ f.samples[k].offset = 0
                                     /\ (f.samples[k].flags \div 2^16) % 2 = 0
                                     /\ f.samples[k].duration = FrameSamples
<1> DEFINE f == AudioFragment
           s == open.audio
           n == Len(s)
           flags == SampleFlags(2, TRUE)
           sample(k) == [duration |-> FrameSamples, payload |-> s[k].payload,
                         offset |-> 0, flags |-> flags]
           base == Larger(grid.audio, AudioTicks(s[1].dts))
           samples == [k \in 1..n |-> sample(k)]
<1>1. /\ n \in Nat /\ n >= 1 /\ DOMAIN s = 1..n
      /\ \A k \in 1..n : s[k].dts \in Int /\ s[k].payload \in Seq(Nat)
  BY OpenSamples DEF Kinds
<1>2. f = [id |-> 2, base |-> base, samples |-> samples]
  BY <1>1 DEF AudioFragment, AudioTrackId, Base
<1>3. flags \in Nat /\ (flags \div 2^16) % 2 = 0
  <2> DEFINE b == TRUE
             d == 2
  <2>1. b \in BOOLEAN /\ d \in {1, 2} /\ b
    OBVIOUS
  <2>2. flags = SampleFlags(d, b)
    OBVIOUS
  <2> HIDE DEF b, d, flags
  <2>3. SampleFlags(d, b) \in Nat /\ ((SampleFlags(d, b) \div 2^16) % 2 = 0 <=> b)
    BY <2>1, FlagsRead
  <2> QED BY <2>1, <2>2, <2>3
<1>4. FrameSamples \in Int
  BY TimeAssumption
<1>5. base \in Int
  <2>1. s[1].dts \in Int /\ grid.audio \in Int
    BY <1>1 DEF GridType
  <2>2. AudioTicks(s[1].dts) \in Int
    BY <2>1, AudioTicksType
  <2> QED BY <2>1, <2>2, LargerType
<1> HIDE DEF flags, base
<1>6. \A k \in 1..n : sample(k) \in FragmentSample
  BY <1>1, <1>3, <1>4 DEF FragmentSample
<1>7. \A k \in 1..n : /\ sample(k).payload = s[k].payload /\ sample(k).offset = 0
                      /\ sample(k).flags = flags /\ sample(k).duration = FrameSamples
  OBVIOUS
<1> HIDE DEF sample, s, n, f
<1>8. samples \in Seq(FragmentSample) /\ Len(samples) = n /\ \A k \in 1..n : samples[k] = sample(k)
  BY <1>1, <1>6
<1> HIDE DEF samples
<1>9. f.id = 2 /\ f.base = base /\ f.samples = samples /\ f \in Fragment
  BY <1>2, <1>5, <1>8 DEF Fragment
<1> QED BY <1>3, <1>7, <1>8, <1>9 DEF f, s, n, base

\* Two single elements joined.
LEMMA PairJoined ==
  ASSUME NEW x, NEW y
  PROVE  <<x>> \o <<y>> = <<x, y>>
<1> DEFINE a == <<x>>
           b == <<y>>
           c == <<x, y>>
           S == {x, y}
<1>1. a \in Seq(S) /\ b \in Seq(S) /\ Len(a) = 1 /\ Len(b) = 1 /\ a[1] = x /\ b[1] = y
  OBVIOUS
<1>2. c \in Seq(S) /\ Len(c) = 2 /\ c[1] = x /\ c[2] = y
  OBVIOUS
<1> HIDE DEF a, b, c, S
<1>3. /\ a \o b \in Seq(S) /\ Len(a \o b) = Len(a) + Len(b)
      /\ \A i \in 1..(Len(a) + Len(b)) : (a \o b)[i] = IF i <= Len(a) THEN a[i] ELSE b[i - Len(a)]
  BY <1>1, ConcatProperties
<1>4. Len(a \o b) = Len(c) /\ \A i \in 1..Len(c) : (a \o b)[i] = c[i]
  <2>1. Len(a) + Len(b) = 2 /\ 1 \in 1..2 /\ 2 \in 1..2 /\ (\A i \in 1..2 : i = 1 \/ i = 2)
        /\ 2 - 1 = 1 /\ ~(2 <= 1) /\ 1 <= 1
    BY <1>1
  <2>2. (a \o b)[1] = x
    BY <1>1, <1>3, <2>1
  <2>3. (a \o b)[2] = y
    BY <1>1, <1>3, <2>1
  <2> QED BY <1>2, <1>3, <2>1, <2>2, <2>3
<1>5. a \o b = c
  BY <1>2, <1>3, <1>4, SeqEqual
<1> QED BY <1>5 DEF a, b, c

\* What a player reads of a track of the segment.
NewShown(t) == SamplesOf(Segment.file, TrackId(t))

\* It is nothing when the open segment holds nothing of the track.
LEMMA NothingRead ==
  ASSUME NEW t \in Kinds, open[t] = <<>>
  PROVE  NewShown(t) = <<>>
<1>1. ~HasTrack(Segment.file, TrackId(t))
  BY SegmentTracks
<1> QED BY <1>1 DEF NewShown, SamplesOf

\* Otherwise it is what the track's fragment says, whatever else is in the file.
LEMMA FragmentRead ==
  ASSUME TypeInv, GridType, NEW t \in Kinds, open[t] # <<>>
  PROVE  NewShown(t) = ReadAs(FragmentOf(t)) /\ FragmentOf(t) \in Fragment
<1> DEFINE V == IF open.video = <<>> THEN <<>> ELSE <<VideoFragment>>
           A == IF open.audio = <<>> THEN <<>> ELSE <<AudioFragment>>
           frs == V \o A
           v == VideoFragment
           a == AudioFragment
           f == FragmentOf(t)
<1>1. Segment.file = MediaSegment(rolled.sequence, frs)
  BY DEF Segment
<1>2. /\ open.video # <<>> => v \in Fragment /\ v.id = 1
      /\ open.audio # <<>> => a \in Fragment /\ a.id = 2
  BY VideoFragmentType, AudioFragmentType
<1>3. t = "video" \/ t = "audio"
  BY DEF Kinds
<1>4. f = IF t = "video" THEN v ELSE a
  BY DEF FragmentOf
<1>5. TrackId(t) = IF t = "video" THEN 1 ELSE 2
  BY DEF TrackId, VideoTrackId, AudioTrackId
<1> HIDE DEF v, a, f
<1>6. \/ open.video # <<>> /\ open.audio # <<>> /\ frs = <<v>> \o <<a>>
      \/ open.video # <<>> /\ open.audio = <<>> /\ frs = <<v>> \o <<>>
      \/ open.video = <<>> /\ open.audio # <<>> /\ frs = <<>> \o <<a>>
  BY <1>3 DEF v, a
<1> HIDE DEF frs
<1>7. \E k : Alone(frs, k) /\ frs[k] = f /\ f.id = TrackId(t) /\ f \in Fragment
  <2>1. CASE open.video # <<>> /\ open.audio # <<>> /\ frs = <<v>> \o <<a>>
    <3>1. frs = <<v, a>>
      <4>1. \A x, y : <<x>> \o <<y>> = <<x, y>>
        BY PairJoined
      <4> QED BY <2>1, <4>1, Zenon
    <3>2. v \in Fragment /\ v.id = 1 /\ a \in Fragment /\ a.id = 2
      BY <1>2, <2>1
    <3>3. frs \in Seq(Fragment) /\ Len(frs) = 2 /\ frs[1] = v /\ frs[2] = a
      BY <3>1, <3>2
    <3>4. 1 \in 1..2 /\ 2 \in 1..2 /\ \A j \in 1..2 : j = 1 \/ j = 2
      OBVIOUS
    <3>5. Alone(frs, 1)
      BY <3>2, <3>3, <3>4 DEF Alone
    <3>6. Alone(frs, 2)
      BY <3>2, <3>3, <3>4 DEF Alone
    <3> QED BY <1>3, <1>4, <1>5, <3>2, <3>3, <3>5, <3>6
  <2>2. CASE open.video # <<>> /\ open.audio = <<>> /\ frs = <<v>> \o <<>>
    <3>1. frs = <<v>>
      BY <2>2
    <3>2. v \in Fragment /\ v.id = 1 /\ t = "video"
      BY <1>2, <1>3, <2>2
    <3>3. frs \in Seq(Fragment) /\ Len(frs) = 1 /\ frs[1] = v
      BY <3>1, <3>2
    <3>4. 1 \in 1..1 /\ \A j \in 1..1 : j = 1
      OBVIOUS
    <3>5. Alone(frs, 1)
      BY <3>2, <3>3, <3>4 DEF Alone
    <3> QED BY <1>4, <1>5, <3>2, <3>3, <3>5
  <2>3. CASE open.video = <<>> /\ open.audio # <<>> /\ frs = <<>> \o <<a>>
    <3>1. frs = <<a>>
      BY <2>3
    <3>2. a \in Fragment /\ a.id = 2 /\ t = "audio"
      BY <1>2, <1>3, <2>3
    <3>3. frs \in Seq(Fragment) /\ Len(frs) = 1 /\ frs[1] = a
      BY <3>1, <3>2
    <3>4. 1 \in 1..1 /\ \A j \in 1..1 : j = 1
      OBVIOUS
    <3>5. Alone(frs, 1)
      BY <3>2, <3>3, <3>4 DEF Alone
    <3> QED BY <1>4, <1>5, <3>2, <3>3, <3>5
  <2> QED BY <1>6, <2>1, <2>2, <2>3
<1>8. PICK k : Alone(frs, k) /\ frs[k] = f /\ f.id = TrackId(t) /\ f \in Fragment
  BY <1>7
<1>9. SamplesOf(MediaSegment(rolled.sequence, frs), frs[k].id) = ReadAs(frs[k])
  BY <1>8, SegmentRead
<1> QED BY <1>1, <1>8, <1>9 DEF NewShown, f

\* The samples of the open segment are what a player reads of the segment.
LEMMA OpenShown ==
  ASSUME TypeInv, GridType, NEW t \in Kinds
  PROVE  /\ NewShown(t) \in Seq(Shot) /\ Len(NewShown(t)) = Len(open[t])
         /\ (t = "audio" => \A k \in 1..Len(open[t]) : open[t][k].sync) =>
              \A k \in 1..Len(open[t]) : Shows(t, NewShown(t)[k], open[t][k])
<1> DEFINE n == Len(open[t])
           f == FragmentOf(t)
           r == ReadAs(f)
<1>1. CASE open[t] = <<>>
  <2>1. NewShown(t) = <<>> /\ Len(open[t]) = 0
    BY <1>1, NothingRead
  <2> QED BY <2>1, EmptySeq
<1>2. CASE open[t] # <<>>
  <2>1. NewShown(t) = r /\ f \in Fragment
    BY <1>2, FragmentRead
  <2>2. Len(f.samples) = n /\ \A k \in 1..n :
          /\ f.samples[k].payload = open[t][k].payload
          /\ f.samples[k].offset = IF t = "video" THEN open[t][k].cts ELSE 0
          /\ (t = "audio" => open[t][k].sync) =>
               ((f.samples[k].flags \div 2^16) % 2 = 0 <=> open[t][k].sync)
    <3>1. CASE t = "video"
      <4>1. f = VideoFragment /\ open[t] = open.video
        BY <3>1 DEF FragmentOf
      <4> QED BY <1>2, <3>1, <4>1, VideoFragmentType
    <3>2. CASE t = "audio"
      <4>1. f = AudioFragment /\ open[t] = open.audio
        BY <3>2 DEF FragmentOf
      <4> QED BY <1>2, <3>2, <4>1, AudioFragmentType
    <3> QED BY <3>1, <3>2 DEF Kinds
  <2>3. r \in Seq(Shot) /\ Len(r) = n /\ DOMAIN f.samples = 1..n
    BY <2>1, <2>2, ReadType, PartsType
  <2>4. ASSUME NEW k \in 1..n
        PROVE  /\ r[k].data = f.samples[k].payload /\ r[k].offset = f.samples[k].offset
               /\ r[k].sync = ((f.samples[k].flags \div 2^16) % 2 = 0)
    BY <2>3 DEF ReadAs
  <2>5. \A k \in 1..n : open[t][k].sync \in BOOLEAN
    BY OpenSamples
  <2>6. ASSUME t = "audio" => \A k \in 1..n : open[t][k].sync, NEW k \in 1..n
        PROVE  Shows(t, r[k], open[t][k])
    <3> DEFINE x == r[k].sync
               y == open[t][k].sync
               z == (f.samples[k].flags \div 2^16) % 2 = 0
    <3>1. x = z /\ y \in BOOLEAN /\ z \in BOOLEAN /\ (z <=> y)
      BY <2>2, <2>4, <2>5, <2>6
    <3> HIDE DEF x, y, z
    <3>2. x = y
      BY <3>1
    <3> QED BY <2>2, <2>4, <3>2 DEF Shows, x, y
  <2> QED BY <2>1, <2>3, <2>6
<1> QED BY <1>1, <1>2

-----------------------------------------------------------------------------
(***************************************************************************)
(* The stored segments.                                                    *)
(***************************************************************************)
\* A name stands for one segment, every stored segment is older than the next
\* one, its samples can be read, and outside of close_segment no packet waits.
SegInv ==
  /\ GridType
  /\ \A s \in files.segments : s.name \in Int /\ s.name < rolled.sequence
  /\ \A s, r \in files.segments : s.name = r.name => s = r
  /\ \A s \in files.segments : \A t \in Kinds : SamplesOf(s.file, TrackId(t)) \in Seq(Shot)
  /\ pc \in {"idle", "end"} => arriving = None

\* The tick after a fragment.
LEMMA NextTickType ==
  ASSUME NEW f \in Fragment
  PROVE  NextTick(f) = f.base + Total(Durations(f)) /\ NextTick(f) \in Int
<1>1. NextTick(f) = f.base + Total(Durations(f))
  BY DEF NextTick, Durations
<1>2. Total(Durations(f)) \in Int
  BY ReadType, TotalType
<1>3. f.base \in Int
  BY DEF Fragment
<1> QED BY <1>1, <1>2, <1>3

\* The grid moves with close_segment only.
LEMMA GridStep ==
  ASSUME TypeInv, GridType, [Next]_vars
  PROVE  GridType' /\ (grid' = grid \/ WriteSegment)
<1>1. CASE WriteSegment
  <2>1. /\ grid'.video = IF open.video = <<>> THEN grid.video ELSE NextTick(VideoFragment)
        /\ grid'.audio = IF open.audio = <<>> THEN grid.audio ELSE NextTick(AudioFragment)
    BY <1>1 DEF WriteSegment
  <2>2. grid'.video \in Int
    <3>1. CASE open.video = <<>>
      BY <2>1, <3>1 DEF GridType
    <3>2. CASE open.video # <<>>
      <4>1. VideoFragment \in Fragment
        BY <3>2, VideoFragmentType
      <4> QED BY <2>1, <3>2, <4>1, NextTickType
    <3> QED BY <3>1, <3>2
  <2>3. grid'.audio \in Int
    <3>1. CASE open.audio = <<>>
      BY <2>1, <3>1 DEF GridType
    <3>2. CASE open.audio # <<>>
      <4>1. AudioFragment \in Fragment
        BY <3>2, AudioFragmentType
      <4> QED BY <2>1, <3>2, <4>1, NextTickType
    <3> QED BY <3>1, <3>2
  <2> QED BY <1>1, <2>2, <2>3 DEF GridType
<1>2. CASE grid' = grid
  BY <1>2 DEF GridType
<1>3. grid' = grid \/ WriteSegment
  <2>1. ASSUME NEW p \in Shapes, NEW d \in Steps, Packet(p, clock + d)
        PROVE  grid' = grid
    BY <2>1 DEF Packet
  <2>2. ASSUME NEW tracks \in SUBSET Kinds, Codecs(tracks)
        PROVE  grid' = grid
    BY <2>2 DEF Codecs
  <2>3. CASE Finish \/ WriteInit \/ Prune \/ WritePlaylist \/ WriteEnd
    BY <2>3 DEF Finish, WriteInit, Prune, WritePlaylist, WriteEnd
  <2>4. CASE UNCHANGED vars
    BY <2>4 DEF vars
  <2> QED BY <2>1, <2>2, <2>3, <2>4 DEF Next
<1> QED BY <1>1, <1>2, <1>3

\* A packet waits only while a segment is being closed.
LEMMA ArrivingStep ==
  ASSUME TypeInv, pc \in {"idle", "end"} => arriving = None, [Next]_vars
  PROVE  pc' \in {"idle", "end"} => arriving' = None
<1>1. ASSUME NEW p \in Shapes, NEW d \in Steps, Packet(p, clock + d)
      PROVE  pc' \in {"idle", "end"} => arriving' = None
  <2>1. pc = "idle" /\ (UNCHANGED <<arriving, pc>> \/ pc' = "close")
    BY <1>1, PacketEffect
  <2> QED BY <2>1
<1>2. ASSUME NEW tracks \in SUBSET Kinds, Codecs(tracks)
      PROVE  pc' \in {"idle", "end"} => arriving' = None
  BY <1>2 DEF Codecs
<1>3. CASE Finish
  BY <1>3 DEF Finish, AcceptsCalls
<1>4. CASE WriteInit
  BY <1>4, WriteInitEffect
<1>5. CASE WriteSegment
  BY <1>5, WriteSegmentEffect
<1>6. CASE Prune
  BY <1>6, PruneEffect
<1>7. CASE WritePlaylist
  BY <1>7, WritePlaylistEffect
<1>8. CASE WriteEnd
  BY <1>8, WriteEndEffect
<1>9. CASE UNCHANGED vars
  BY <1>9 DEF vars
<1> QED BY <1>1, <1>2, <1>3, <1>4, <1>5, <1>6, <1>7, <1>8, <1>9 DEF Next

\* Every step keeps the stored segments apart and readable.
LEMMA SegStep ==
  ASSUME TypeInv, SegInv, [Next]_vars
  PROVE  SegInv'
<1>1. GridType' /\ (pc' \in {"idle", "end"} => arriving' = None)
  BY GridStep, ArrivingStep DEF SegInv
<1>2. rolled.sequence \in Nat
  BY RolledType
<1>3. ASSUME files'.segments \subseteq files.segments, rolled'.sequence = rolled.sequence
      PROVE  SegInv'
  BY <1>1, <1>3 DEF SegInv
<1>4. CASE Keeps
  BY <1>3, <1>4 DEF Keeps
<1>5. CASE Stores
  <2>1. files'.segments = files.segments \cup {Segment} /\ rolled'.sequence = rolled.sequence + 1
    BY <1>5 DEF Stores
  <2>2. Segment.name = rolled.sequence
    BY <1>5, StoresEffect
  <2>3. \A t \in Kinds : SamplesOf(Segment.file, TrackId(t)) \in Seq(Shot)
    BY OpenShown DEF NewShown, SegInv
  <2> DEFINE g == Segment
             n == rolled.sequence
  <2> HIDE DEF g, n
  <2>4. \A s \in files'.segments : s.name \in Int /\ s.name < rolled'.sequence
    <3>1. ASSUME NEW s \in files'.segments PROVE s.name \in Int /\ s.name < n + 1
      <4>1. CASE s = g
        BY <1>2, <2>2, <4>1 DEF g, n
      <4>2. CASE s \in files.segments
        <5>1. s.name \in Int /\ s.name < n
          BY <4>2 DEF SegInv, n
        <5> QED BY <1>2, <5>1 DEF n
      <4> QED BY <2>1, <4>1, <4>2 DEF g
    <3> QED BY <2>1, <3>1 DEF n
  <2>5. \A s, r \in files'.segments : s.name = r.name => s = r
    <3>1. g.name = n /\ files'.segments = files.segments \cup {g} /\ n \in Nat
      BY <1>2, <2>1, <2>2 DEF g, n
    <3>2. \A s \in files.segments : s.name # n
      BY <1>2 DEF SegInv, n
    <3>3. \A s, r \in files.segments : s.name = r.name => s = r
      BY DEF SegInv
    <3> QED BY <3>1, <3>2, <3>3
  <2>6. \A s \in files'.segments : \A t \in Kinds : SamplesOf(s.file, TrackId(t)) \in Seq(Shot)
    BY <2>1, <2>3 DEF SegInv
  <2> QED BY <1>1, <2>4, <2>5, <2>6 DEF SegInv
<1>6. CASE Removes
  BY <1>3, <1>6 DEF Removes
<1>7. CASE Lists
  BY <1>3, <1>7 DEF Lists
<1>8. CASE Ends
  BY <1>3, <1>8 DEF Ends
<1> QED BY <1>4, <1>5, <1>6, <1>7, <1>8, StepShape

\* A segment is found by its name.
LEMMA StoredIs ==
  ASSUME SegInv, NEW s \in files.segments
  PROVE  Stored(s.name) = s
<1>1. \A r \in files.segments : r.name = s.name => r = s
  BY DEF SegInv
<1> QED BY <1>1 DEF Stored

-----------------------------------------------------------------------------
(***************************************************************************)
(* What a player reads of the window.                                      *)
(***************************************************************************)
\* What a player reads of a track in the segments of a window.
ReadOf(window, S, id) ==
  [i \in DOMAIN window |-> SamplesOf((CHOOSE s \in S : s.name = window[i].name).file, id)]

\* A window over stored segments that can be told apart and read.
Readable(window, S, id) ==
  /\ window \in Seq(Listing)
  /\ \A s, r \in S : s.name = r.name => s = r
  /\ \A s \in S : SamplesOf(s.file, id) \in Seq(Shot)
  /\ \A i \in 1..Len(window) : \E s \in S : s.name = window[i].name

Reads(r, window, S, id) ==
  /\ r \in Seq(Seq(Shot)) /\ Len(r) = Len(window) /\ Len(window) \in Nat
  /\ \A i \in 1..Len(window) : \A s \in S : s.name = window[i].name => r[i] = SamplesOf(s.file, id)

\* Each segment of the window is found by its name.
LEMMA ReadsAre ==
  ASSUME NEW window, NEW S, NEW id, Readable(window, S, id)
  PROVE  Reads(ReadOf(window, S, id), window, S, id)
<1> DEFINE r == ReadOf(window, S, id)
           n == Len(window)
<1>1. n \in Nat /\ DOMAIN window = 1..n
  BY LenProperties DEF Readable
<1>2. ASSUME NEW i \in 1..n, NEW s \in S, s.name = window[i].name
      PROVE  r[i] = SamplesOf(s.file, id)
  <2>1. (CHOOSE x \in S : x.name = window[i].name) = s
    BY <1>2 DEF Readable
  <2>2. r[i] = SamplesOf((CHOOSE x \in S : x.name = window[i].name).file, id)
    BY <1>1 DEF ReadOf
  <2> QED BY <2>1, <2>2
<1>3. \A i \in 1..n : r[i] \in Seq(Shot)
  <2> SUFFICES ASSUME NEW i \in 1..n PROVE r[i] \in Seq(Shot)
    OBVIOUS
  <2>1. PICK s \in S : s.name = window[i].name
    BY DEF Readable
  <2>2. r[i] = SamplesOf(s.file, id)
    BY <1>2, <2>1
  <2> QED BY <2>2 DEF Readable
<1>4. r = [i \in 1..n |-> r[i]]
  BY <1>1 DEF ReadOf
<1> HIDE DEF r
<1>5. r \in Seq(Seq(Shot)) /\ Len(r) = n
  BY <1>1, <1>3, <1>4
<1> QED BY <1>1, <1>2, <1>5 DEF r, Reads

\* What is joined from lists is a list.
LEMMA FlattenType ==
  ASSUME NEW A, NEW ss \in Seq(Seq(A))
  PROVE  FlattenSeq(ss) \in Seq(A)
<1>1. PICK f : IsJoin(f, ss, A)
  BY JoinExists
<1> QED BY <1>1, FlattenIs

\* A player reads a list of samples.
LEMMA ShownType ==
  ASSUME TypeInv, WindowInv, SegInv, NEW t \in Kinds
  PROVE  /\ Readable(rolled.window, files.segments, TrackId(t))
         /\ Shown(t) = FlattenSeq(ReadOf(rolled.window, files.segments, TrackId(t)))
         /\ Shown(t) \in Seq(Shot)
<1>1. Readable(rolled.window, files.segments, TrackId(t))
  BY RolledType DEF Readable, WindowInv, SegInv
<1>2. Shown(t) = FlattenSeq(ReadOf(rolled.window, files.segments, TrackId(t)))
  BY DEF Shown, ReadOf, Stored
<1>3. ReadOf(rolled.window, files.segments, TrackId(t)) \in Seq(Seq(Shot))
  BY <1>1, ReadsAre DEF Reads
<1> QED BY <1>1, <1>2, <1>3, FlattenType

\* A segment more.
Longer(w, S, v, T, s) ==
  /\ s \in T /\ S \subseteq T
  /\ Len(v) = Len(w) + 1 /\ v[Len(w) + 1].name = s.name /\ \A i \in 1..Len(w) : v[i] = w[i]

\* A player reads the samples of one more segment.
LEMMA ReadsMore ==
  ASSUME NEW w, NEW S, NEW id, NEW v, NEW T, Readable(w, S, id), Readable(v, T, id),
         NEW s, Longer(w, S, v, T, s)
  PROVE  ReadOf(v, T, id) = Append(ReadOf(w, S, id), SamplesOf(s.file, id))
<1> DEFINE r == ReadOf(w, S, id)
           q == ReadOf(v, T, id)
           x == SamplesOf(s.file, id)
           a == Append(r, x)
           n == Len(w)
<1>r. Reads(r, w, S, id) /\ Reads(q, v, T, id)
  BY ReadsAre
<1>1. /\ r \in Seq(Seq(Shot)) /\ Len(r) = n /\ n \in Nat
      /\ \A i \in 1..n : \A p \in S : p.name = w[i].name => r[i] = SamplesOf(p.file, id)
  BY <1>r DEF Reads
<1>2. /\ q \in Seq(Seq(Shot)) /\ Len(q) = n + 1
      /\ \A i \in 1..Len(v) : \A p \in T : p.name = v[i].name => q[i] = SamplesOf(p.file, id)
  BY <1>r, <1>1 DEF Reads, Longer
<1>3. x \in Seq(Shot)
  BY DEF Readable, Longer
<1>4. \A i \in 1..n : r[i] = q[i]
  <2> SUFFICES ASSUME NEW i \in 1..n PROVE r[i] = q[i]
    OBVIOUS
  <2>1. PICK p \in S : p.name = w[i].name
    BY DEF Readable
  <2>2. r[i] = SamplesOf(p.file, id)
    BY <1>1, <2>1
  <2>3. p \in T /\ p.name = v[i].name /\ i \in 1..Len(v)
    BY <1>1, <2>1 DEF Longer
  <2>4. q[i] = SamplesOf(p.file, id)
    BY <1>2, <2>3
  <2> QED BY <2>2, <2>4
<1>5. q[n + 1] = x
  <2> DEFINE m == n + 1
  <2>1. m \in 1..Len(v) /\ s \in T /\ s.name = v[m].name
    BY <1>1 DEF Longer
  <2> HIDE DEF m
  <2>2. q[m] = x
    BY <1>2, <2>1
  <2> QED BY <2>2 DEF m
<1> HIDE DEF r, q, x
<1>6. /\ a \in Seq(Seq(Shot)) /\ Len(a) = n + 1 /\ a[n + 1] = x
      /\ \A i \in 1..n : a[i] = r[i]
  BY <1>1, <1>3, AppendProperties
<1> HIDE DEF a, n
<1>7. \A i \in 1..(n + 1) : i = n + 1 \/ i \in 1..n
  BY <1>1
<1>8. \A i \in 1..Len(q) : q[i] = a[i]
  BY <1>2, <1>4, <1>5, <1>6, <1>7
<1>9. q = a
  BY <1>2, <1>6, <1>8, SeqEqual
<1> QED BY <1>9 DEF q, a, r, x

\* A segment less.
LEMMA ReadsLess ==
  ASSUME NEW w, NEW S, NEW id, NEW v, NEW T, Readable(w, S, id), Readable(v, T, id),
         T \subseteq S, Len(v) = Len(w) - 1, \A i \in 1..Len(v) : v[i] = w[i + 1]
  PROVE  /\ ReadOf(w, S, id) # <<>>
         /\ ReadOf(v, T, id) = Tail(ReadOf(w, S, id))
<1> DEFINE r == ReadOf(w, S, id)
           q == ReadOf(v, T, id)
           n == Len(v)
<1>r. Reads(r, w, S, id) /\ Reads(q, v, T, id)
  BY ReadsAre
<1>1. /\ r \in Seq(Seq(Shot)) /\ Len(r) = Len(w) /\ Len(w) \in Nat
      /\ \A i \in 1..Len(w) : \A p \in S : p.name = w[i].name => r[i] = SamplesOf(p.file, id)
  BY <1>r DEF Reads
<1>2. /\ q \in Seq(Seq(Shot)) /\ Len(q) = n /\ n \in Nat
      /\ \A i \in 1..n : \A p \in T : p.name = v[i].name => q[i] = SamplesOf(p.file, id)
  BY <1>r DEF Reads
<1>3. Len(r) # 0 /\ Len(w) = n + 1
  BY <1>1, <1>2
<1>4. r # <<>>
  BY <1>3, EmptySeq
<1>5. Tail(r) \in Seq(Seq(Shot)) /\ Len(Tail(r)) = n /\ \A i \in 1..Len(Tail(r)) : Tail(r)[i] = r[i + 1]
  <2>1. Tail(r) \in Seq(Seq(Shot)) /\ Len(Tail(r)) = Len(r) - 1
        /\ \A i \in 1..Len(Tail(r)) : Tail(r)[i] = r[i + 1]
    BY <1>1, <1>4, HeadTailProperties
  <2> HIDE DEF r
  <2> QED BY <1>1, <1>2, <1>3, <2>1
<1>6. \A i \in 1..n : q[i] = r[i + 1]
  <2> SUFFICES ASSUME NEW i \in 1..n PROVE q[i] = r[i + 1]
    OBVIOUS
  <2> DEFINE j == i + 1
  <2>1. PICK p \in T : p.name = v[i].name
    BY DEF Readable
  <2>2. q[i] = SamplesOf(p.file, id)
    BY <1>2, <2>1
  <2>3. j \in 1..Len(w) /\ v[i] = w[j] /\ p \in S
    BY <1>2, <1>3
  <2> HIDE DEF j
  <2>4. r[j] = SamplesOf(p.file, id)
    BY <1>1, <2>1, <2>3
  <2> QED BY <2>2, <2>4 DEF j
<1> HIDE DEF r, q, n
<1>7. \A i \in 1..Len(q) : q[i] = Tail(r)[i]
  BY <1>2, <1>5, <1>6
<1>8. q = Tail(r)
  BY <1>2, <1>5, <1>7, SeqEqual
<1> QED BY <1>4, <1>8 DEF q, r

\* What a step does to what a player reads of a track in the window: nothing,
\* the samples of one more segment, or the oldest segment's less.
LEMMA ShownStep ==
  ASSUME TypeInv, WindowInv, SegInv, [Next]_vars, NEW t \in Kinds
  PROVE  /\ Shown(t) \in Seq(Shot) /\ Shown(t)' \in Seq(Shot)
         /\ \/ ~Stores /\ Shown(t)' = Shown(t)
            \/ Stores /\ Shown(t)' = Shown(t) \o NewShown(t)
            \/ Removes /\ \E head \in Seq(Shot) : Shown(t) = head \o Shown(t)'
<1> DEFINE id == TrackId(t)
           w == rolled.window
           S == files.segments
           v == rolled'.window
           T == files'.segments
           r == ReadOf(w, S, id)
           q == ReadOf(v, T, id)
<1>1. TypeInv' /\ WindowInv' /\ SegInv'
  BY TypeStep, WindowStep, SegStep
<1>2. Readable(w, S, id) /\ Shown(t) = FlattenSeq(r) /\ Shown(t) \in Seq(Shot)
  BY ShownType
<1>3. Readable(v, T, id)
  <2>1. v \in Seq(Listing)
    BY <1>1 DEF TypeInv
  <2>2. \A i \in 1..Len(v) : \E s \in T : s.name = v[i].name
    BY <1>1 DEF WindowInv
  <2>3. (\A s, p \in T : s.name = p.name => s = p) /\ \A s \in T : SamplesOf(s.file, id) \in Seq(Shot)
    BY <1>1 DEF SegInv
  <2> QED BY <2>1, <2>2, <2>3 DEF Readable
<1>4. Shown(t)' = FlattenSeq(q)
  BY DEF Shown, ReadOf, Stored
<1>5. r \in Seq(Seq(Shot)) /\ q \in Seq(Seq(Shot))
  BY <1>2, <1>3, ReadsAre DEF Reads
<1>6. Shown(t)' \in Seq(Shot)
  BY <1>4, <1>5, FlattenType
<1>7. ASSUME rolled' = rolled, files'.segments = files.segments
      PROVE  Shown(t)' = Shown(t)
  BY <1>2, <1>4, <1>7
<1>8. CASE Keeps
  <2>1. ~Stores
    <3>1. rolled'.sequence = rolled.sequence /\ rolled.sequence \in Nat
      BY <1>8, RolledType DEF Keeps
    <3> QED BY <3>1 DEF Stores
  <2> QED BY <1>2, <1>6, <1>7, <1>8, <2>1 DEF Keeps
<1>9. CASE Stores
  <2> DEFINE s == Segment
  <2>1. T = S \cup {s} /\ Longer(w, S, v, T, s)
    BY <1>9, StoresEffect DEF Stores, Longer
  <2>2. NewShown(t) = SamplesOf(s.file, id)
    BY DEF NewShown
  <2> HIDE DEF s, id, v, w, S, T
  <2>3. s \in T
    BY <2>1
  <2>4. q = Append(r, SamplesOf(s.file, id))
    <3>1. Readable(w, S, id) /\ Readable(v, T, id) /\ Longer(w, S, v, T, s)
      BY <1>2, <1>3, <2>1
    <3>2. \A a, b, c, d, e, f : Readable(a, b, c) /\ Readable(d, e, c) /\ Longer(a, b, d, e, f)
            => ReadOf(d, e, c) = Append(ReadOf(a, b, c), SamplesOf(f.file, c))
      BY ReadsMore
    <3>3. ReadOf(v, T, id) = Append(ReadOf(w, S, id), SamplesOf(s.file, id))
      BY <3>1, <3>2
    <3> QED BY <3>3
  <2>5. SamplesOf(s.file, id) \in Seq(Shot)
    BY <1>3, <2>3 DEF Readable
  <2> HIDE DEF r, q
  <2>6. FlattenSeq(q) = FlattenSeq(r) \o SamplesOf(s.file, id)
    BY <1>5, <2>4, <2>5, FlattenAppend
  <2> QED BY <1>2, <1>4, <1>6, <1>9, <2>2, <2>6
<1>10. CASE Removes
  <2>1. T \subseteq S /\ Len(v) = Len(w) - 1 /\ \A i \in 1..Len(v) : v[i] = w[i + 1]
    BY <1>10, RemovesEffect DEF Removes
  <2> HIDE DEF id, v, w, S, T
  <2>2. r # <<>> /\ q = Tail(r)
    BY <1>2, <1>3, <2>1, ReadsLess
  <2> HIDE DEF r, q
  <2>3. FlattenSeq(r) = Head(r) \o FlattenSeq(q) /\ Head(r) \in Seq(Shot)
    BY <1>5, <2>2, FlattenTail, HeadTailProperties
  <2> QED BY <1>2, <1>4, <1>6, <1>10, <2>3
<1>11. CASE Lists \/ Ends
  <2>1. rolled' = rolled /\ files'.segments = files.segments /\ ~Stores
    BY <1>11 DEF Lists, Ends, Stores
  <2> QED BY <1>2, <1>6, <1>7, <2>1
<1> QED BY <1>8, <1>9, <1>10, <1>11, StepShape

-----------------------------------------------------------------------------
(***************************************************************************)
(* The accepted samples.                                                   *)
(***************************************************************************)
\* The normalised time of the last sample.
Reached == IF timebase.last = None THEN 0 ELSE timebase.last

\* Normalised times start at 0 and never go back.
AcceptInv ==
  /\ timebase.last = None => timebase.origin = None
  /\ Reached >= 0
  /\ \A t \in Kinds : \A k \in 1..Len(accepted[t]) :
       /\ 0 <= accepted[t][k].dts /\ accepted[t][k].dts <= Reached
       /\ t = "audio" => accepted[t][k].sync
       /\ \A j \in 1..k : accepted[t][j].dts <= accepted[t][k].dts

\* Timebase::normalize never goes back.
LEMMA NormalizeGrows ==
  ASSUME TypeInv, AcceptInv, NEW dts \in Int
  PROVE  Normalize(dts).last \in Int /\ Normalize(dts).last >= Reached /\ Reached \in Int
<1> DEFINE last == timebase.last
           origin == IF timebase.origin = None THEN dts ELSE timebase.origin
           ts == dts - origin
<1>1. last \in Int \cup {None} /\ timebase.origin \in Int \cup {None} /\ origin \in Int /\ ts \in Int
  BY DEF TypeInv
<1>2. Reached = IF last = None THEN 0 ELSE last
  BY DEF Reached
<1>3. CASE last = None
  <2>1. origin = dts
    BY <1>3 DEF AcceptInv
  <2>2. ts = 0
    BY <2>1
  <2>3. Normalize(dts).last = ts
    BY <1>3 DEF Normalize
  <2> QED BY <1>2, <1>3, <2>2, <2>3
<1>4. CASE last # None
  <2>1. last \in Int /\ Reached = last
    BY <1>1, <1>2, <1>4
  <2>2. CASE ts >= last
    <3>1. Normalize(dts).last = ts
      BY <2>2 DEF Normalize
    <3> QED BY <1>1, <2>1, <2>2, <3>1
  <2>3. CASE ~(ts >= last) /\ last - ts > Tolerance
    <3>1. Normalize(dts).last = Larger(last, 0)
      BY <1>4, <2>3 DEF Normalize
    <3>2. 0 \in Int
      OBVIOUS
    <3> HIDE DEF last
    <3>3. Larger(last, 0) \in Int /\ Larger(last, 0) >= last
      BY <2>1, <3>2, LargerType
    <3> QED BY <2>1, <3>1, <3>3
  <2>4. CASE ~(ts >= last) /\ ~(last - ts > Tolerance)
    <3>1. Normalize(dts).last = last
      BY <1>4, <2>4 DEF Normalize
    <3> QED BY <2>1, <3>1
  <2> QED BY <2>2, <2>3, <2>4
<1> QED BY <1>3, <1>4

\* Only a packet is taken into account.
LEMMA OnlyPackets ==
  ASSUME [Next]_vars
  PROVE  \/ \E p \in Shapes, d \in Steps : Packet(p, clock + d)
         \/ timebase' = timebase /\ accepted' = accepted
<1>1. ASSUME NEW tracks \in SUBSET Kinds, Codecs(tracks)
      PROVE  timebase' = timebase /\ accepted' = accepted
  BY <1>1 DEF Codecs
<1>2. CASE Finish \/ WriteInit \/ WriteSegment \/ Prune \/ WritePlaylist \/ WriteEnd
  BY <1>2 DEF Finish, WriteInit, WriteSegment, Prune, WritePlaylist, WriteEnd
<1>3. CASE UNCHANGED vars
  BY <1>3 DEF vars
<1> QED BY <1>1, <1>2, <1>3 DEF Next

\* Every step keeps the accepted samples in order.
LEMMA AcceptStep ==
  ASSUME TypeInv, AcceptInv, [Next]_vars
  PROVE  AcceptInv' /\ Reached' >= Reached /\ Reached \in Int /\ Reached' \in Int
<1>0. Reached \in Int
  BY DEF Reached, TypeInv
<1>1. CASE timebase' = timebase /\ accepted' = accepted
  <2>1. Reached' = Reached
    BY <1>1 DEF Reached
  <2> QED BY <1>0, <1>1, <2>1 DEF AcceptInv
<1>2. ASSUME NEW p \in Shapes, NEW d \in Steps, Packet(p, clock + d)
      PROVE  AcceptInv' /\ Reached' >= Reached /\ Reached' \in Int
  <2> DEFINE dts == clock + d
             s == SampleOf(p, dts)
             new == Normalize(dts).last
  <2>1. dts \in Int
    BY TimeAssumption DEF TypeInv
  <2> HIDE DEF dts
  <2>2. s \in Sample /\ s.kind = p.kind /\ p.kind \in Kinds
    BY <2>1, SampleOfType, ShapeType
  <2>3. s.dts = new /\ (p.kind = "audio" => s.sync)
    BY DEF SampleOf
  <2>4. new \in Int /\ new >= Reached
    BY <2>1, NormalizeGrows
  <2>5. \/ timebase' = timebase /\ accepted' = accepted
        \/ /\ timebase' = Normalize(dts)
           /\ accepted' = [accepted EXCEPT ![p.kind] = Append(@, s)]
    BY <1>2, PacketEffect DEF dts
  <2> HIDE DEF s
  <2>6. CASE /\ timebase' = Normalize(dts)
             /\ accepted' = [accepted EXCEPT ![p.kind] = Append(@, s)]
    <3>1. timebase'.last = new
      BY <2>6
    <3> HIDE DEF new
    <3>2. new # None
      BY <2>4, NoneAssumption
    <3>3. Reached' = new
      BY <3>1, <3>2 DEF Reached
    <3>4. Reached >= 0
      BY DEF AcceptInv
    <3>5. ASSUME NEW t \in Kinds, NEW k \in 1..Len(accepted'[t])
          PROVE  /\ 0 <= accepted'[t][k].dts /\ accepted'[t][k].dts <= new
                 /\ t = "audio" => accepted'[t][k].sync
                 /\ \A j \in 1..k : accepted'[t][j].dts <= accepted'[t][k].dts
      <4> DEFINE q == accepted[t]
                 r == accepted'[t]
                 n == Len(q)
      <4>1. q \in Seq(Sample) /\ n \in Nat /\ \A i \in 1..n : q[i] \in Sample
        BY LenProperties, ElementOfSeq DEF TypeInv
      <4>2. \A i \in 1..n : /\ 0 <= q[i].dts /\ q[i].dts <= Reached
                            /\ t = "audio" => q[i].sync
                            /\ \A j \in 1..i : q[j].dts <= q[i].dts
        BY DEF AcceptInv
      <4>3. \A i \in 1..n : q[i].dts \in Int
        BY <4>1 DEF Sample
      <4>4. k \in 1..Len(r)
        OBVIOUS
      <4>5. r = IF t = p.kind THEN Append(q, s) ELSE q
        BY <2>6, <2>2 DEF TypeInv
      <4> HIDE DEF q, r, n
      <4>6. \A i \in 1..n : q[i].dts <= new
        BY <1>0, <2>4, <4>2, <4>3
      <4>7. CASE t # p.kind
        <5>1. r = q /\ k \in 1..n
          BY <4>4, <4>5, <4>7 DEF n
        <5> QED BY <4>2, <4>6, <5>1 DEF r
      <4>8. CASE t = p.kind
        <5>1. /\ Len(r) = n + 1 /\ r[n + 1] = s /\ \A i \in 1..n : r[i] = q[i]
          BY <2>2, <4>1, <4>5, <4>8, AppendProperties DEF n
        <5>2. CASE k \in 1..n
          <6>1. \A j \in 1..k : j \in 1..n
            BY <4>1, <5>2
          <6>2. r[k] = q[k] /\ \A j \in 1..k : r[j] = q[j]
            BY <5>1, <5>2, <6>1
          <6> QED BY <4>2, <4>6, <5>2, <6>2 DEF r
        <5>3. CASE k = n + 1
          <6>1. r[k] = s
            BY <5>1, <5>3
          <6>2. 0 <= new /\ new <= new
            BY <1>0, <2>4, <3>4
          <6>3. \A j \in 1..k : j \in 1..n \/ j = k
            BY <4>1, <5>3
          <6>4. \A j \in 1..k : r[j].dts <= new
            BY <2>3, <4>6, <5>1, <6>1, <6>2, <6>3
          <6> QED BY <2>3, <4>8, <6>1, <6>2, <6>4 DEF r
        <5> QED BY <4>1, <4>4, <5>1, <5>2, <5>3
      <4> QED BY <4>7, <4>8
    <3>6. new >= 0
      BY <1>0, <2>4, <3>4
    <3> QED BY <2>4, <3>1, <3>2, <3>3, <3>5, <3>6 DEF AcceptInv
  <2>7. CASE timebase' = timebase /\ accepted' = accepted
    BY <1>1, <1>0, <2>7
  <2> QED BY <2>5, <2>6, <2>7
<1> QED BY <1>0, <1>1, <1>2, OnlyPackets

-----------------------------------------------------------------------------
(***************************************************************************)
(* What waits for the next segment.                                        *)
(***************************************************************************)
OpenType == [video : Seq(Sample), audio : Seq(Sample), start : Int \cup {None}]

\* The sample that waits, when it is of the track.
Late(a, t) == IF a # None /\ a.kind = t THEN <<a>> ELSE <<>>

\* Waiting samples are samples.
LEMMA WaitingType ==
  ASSUME TypeInv, NEW t \in Kinds
  PROVE  /\ Waiting(t) \in Seq(Sample) /\ open[t] \in Seq(Sample) /\ Late(arriving, t) \in Seq(Sample)
         /\ Waiting(t) = open[t] \o Late(arriving, t)
<1>1. open[t] \in Seq(Sample)
  BY DEF TypeInv, Kinds
<1>2. Late(arriving, t) \in Seq(Sample)
  <2>1. CASE arriving # None /\ arriving.kind = t
    BY <2>1 DEF TypeInv, Late
  <2>2. CASE ~(arriving # None /\ arriving.kind = t)
    BY <2>2, EmptySeq DEF Late
  <2> QED BY <2>1, <2>2
<1>3. Waiting(t) = open[t] \o Late(arriving, t)
  BY DEF Waiting, Late
<1> QED BY <1>1, <1>2, <1>3, ConcatProperties

\* The sample that waits is added to its track's, whether it is in the open
\* segment or yet to be put there.
LEMMA LateJoins ==
  ASSUME NEW o \in OpenType, NEW s \in Sample, NEW t \in Kinds
  PROVE  /\ Appended(o, s)[t] = o[t] \o Late(s, t)
         /\ o[t] \in Seq(Sample) /\ o[t] \o Late(None, t) = o[t]
         /\ s.kind = t => o[t] \o Late(s, t) = Append(o[t], s)
         /\ s.kind # t => o[t] \o Late(s, t) = o[t]
<1>1. o[t] \in Seq(Sample)
  BY DEF OpenType, Kinds
<1>2. o[t] \o <<>> = o[t]
  BY <1>1, ConcatEmptySeq
<1>3. Append(o[t], s) = o[t] \o <<s>>
  BY <1>1, AppendIsConcat
<1>4. s # None
  BY NoneAssumption
<1>5. s.kind \in {"video", "audio"}
  BY DEF Sample, Kinds
<1>6. Appended(o, s)[t] = IF s.kind = t THEN Append(o[t], s) ELSE o[t]
  <2>1. CASE s.kind = "video"
    <3>1. Appended(o, s) = [o EXCEPT !.video = Append(o.video, s),
                                     !.start = IF o.start = None THEN s.dts ELSE o.start]
      BY <2>1 DEF Appended
    <3> QED BY <2>1, <3>1 DEF Kinds, OpenType
  <2>2. CASE s.kind = "audio"
    <3>1. Appended(o, s) = [o EXCEPT !.audio = Append(o.audio, s),
                                     !.start = IF o.start = None THEN s.dts ELSE o.start]
      BY <2>2 DEF Appended
    <3> QED BY <2>2, <3>1 DEF Kinds, OpenType
  <2> QED BY <1>5, <2>1, <2>2
<1>7. CASE s.kind = t
  BY <1>1, <1>2, <1>3, <1>4, <1>6, <1>7 DEF Late
<1>8. CASE s.kind # t
  BY <1>1, <1>2, <1>6, <1>8 DEF Late
<1> QED BY <1>7, <1>8

\* What a step does to a track's accepted samples and to those that wait.
Takes(t) ==
  \E s \in Sample : /\ Waiting(t)' = Append(Waiting(t), s)
                    /\ accepted'[t] = Append(accepted[t], s)
                    /\ s.dts >= Reached
Closes(t) ==
  /\ accepted'[t] = accepted[t]
  /\ Waiting(t)' \in Seq(Sample) /\ Waiting(t) = open[t] \o Waiting(t)'
Waits(t) == accepted'[t] = accepted[t] /\ Waiting(t)' = Waiting(t)

\* A packet is taken, or nothing changes.
LEMMA WaitPacket ==
  ASSUME TypeInv, SegInv, AcceptInv, NEW p \in Shapes, NEW d \in Steps, Packet(p, clock + d),
         NEW t \in Kinds
  PROVE  Waits(t) \/ Takes(t)
<1> DEFINE s == SampleOf(p, clock + d)
<1>1. s \in Sample /\ s.kind = p.kind /\ s.dts >= Reached
  <2>1. clock + d \in Int
    BY TimeAssumption DEF TypeInv
  <2>2. Normalize(clock + d).last >= Reached
    BY <2>1, NormalizeGrows
  <2> QED BY <2>1, <2>2, SampleOfType DEF SampleOf
<1>2. /\ pc = "idle"
      /\ \/ UNCHANGED <<open, arriving, accepted>>
         \/ /\ accepted' = [accepted EXCEPT ![p.kind] = Append(@, s)]
            /\ \/ arriving' = s /\ UNCHANGED open
               \/ open' = Appended(open, s) /\ UNCHANGED arriving
  BY PacketEffect
<1> HIDE DEF s
<1>3. arriving = None /\ open \in OpenType
  BY <1>2 DEF SegInv, TypeInv, OpenType
<1>4. Waiting(t) = open[t] \o Late(None, t) /\ Waiting(t)' = open'[t] \o Late(arriving', t)
  BY <1>3, WaitingType DEF Waiting, Late
<1>5. CASE UNCHANGED <<open, arriving, accepted>>
  BY <1>4, <1>5, <1>3 DEF Waits
<1>6. CASE accepted' = [accepted EXCEPT ![p.kind] = Append(@, s)]
            /\ \/ arriving' = s /\ UNCHANGED open
               \/ open' = Appended(open, s) /\ UNCHANGED arriving
  <2>1. accepted'[t] = IF t = p.kind THEN Append(accepted[t], s) ELSE accepted[t]
    BY <1>6 DEF TypeInv
  <2>2. Waiting(t)' = open[t] \o Late(s, t)
    <3>1. CASE arriving' = s /\ UNCHANGED open
      BY <1>4, <3>1
    <3>2. CASE open' = Appended(open, s) /\ UNCHANGED arriving
      <4>1. arriving' = None
        BY <1>3, <3>2
      <4>2. Appended(open, s)[t] = open[t] \o Late(s, t)
            /\ Appended(open, s)[t] \o Late(None, t) = Appended(open, s)[t]
        <5>1. Appended(open, s) \in OpenType
          BY <1>1, <1>3, AppendedType DEF OpenType
        <5>2. Appended(open, s)[t] \o Late(None, t) = Appended(open, s)[t]
          BY <1>1, <5>1, LateJoins
        <5> QED BY <1>1, <1>3, <5>2, LateJoins
      <4> QED BY <1>4, <3>2, <4>1, <4>2
    <3> QED BY <1>6, <3>1, <3>2
  <2>3. Waiting(t) = open[t]
    BY <1>1, <1>3, <1>4, LateJoins
  <2>4. CASE t = p.kind
    <3>1. Waiting(t)' = Append(Waiting(t), s)
      BY <1>1, <1>3, <2>2, <2>3, <2>4, LateJoins
    <3>2. accepted'[t] = Append(accepted[t], s)
      BY <2>1, <2>4
    <3> QED BY <1>1, <3>1, <3>2 DEF Takes
  <2>5. CASE t # p.kind
    <3>1. Waiting(t)' = Waiting(t)
      BY <1>1, <1>3, <2>2, <2>3, <2>5, LateJoins
    <3> QED BY <2>1, <2>5, <3>1 DEF Waits
  <2> QED BY <2>4, <2>5
<1> QED BY <1>2, <1>5, <1>6

\* Every step takes a sample, closes the open segment, leaves what waits alone
\* or fails; and what has failed remains so.
LEMMA WaitStep ==
  ASSUME TypeInv, SegInv, AcceptInv, [Next]_vars, NEW t \in Kinds
  PROVE  /\ pc = "failed" => pc' = "failed"
         /\ \/ ~Stores /\ (Waits(t) \/ Takes(t))
            \/ Stores /\ Closes(t)
            \/ ~Stores /\ pc' = "failed" /\ accepted'[t] = accepted[t]
<1> DEFINE Goal == /\ pc = "failed" => pc' = "failed"
                   /\ \/ ~Stores /\ (Waits(t) \/ Takes(t))
                      \/ Stores /\ Closes(t)
                      \/ ~Stores /\ pc' = "failed" /\ accepted'[t] = accepted[t]
<1>0. ASSUME open' = open, arriving' = arriving, accepted' = accepted
      PROVE  Waits(t)
  BY <1>0 DEF Waits, Waiting
<1>s. Stores => rolled' # rolled
  <2>1. rolled.sequence \in Nat
    BY RolledType
  <2> QED BY <2>1 DEF Stores
<1>1. ASSUME NEW p \in Shapes, NEW d \in Steps, Packet(p, clock + d)
      PROVE  Goal
  <2>1. Waits(t) \/ Takes(t)
    BY <1>1, WaitPacket
  <2>2. pc = "idle" /\ rolled' = rolled
    BY <1>1, PacketEffect
  <2> QED BY <1>s, <2>1, <2>2
<1>2. ASSUME NEW tracks \in SUBSET Kinds, Codecs(tracks)
      PROVE  Goal
  <2>1. UNCHANGED <<open, arriving, accepted, pc, rolled>>
    BY <1>2 DEF Codecs
  <2> QED BY <1>0, <1>s, <2>1
<1>3. CASE Finish
  <2>1. UNCHANGED <<open, arriving, accepted, rolled>> /\ pc = "idle"
    BY <1>3 DEF Finish, AcceptsCalls
  <2> QED BY <1>0, <1>s, <2>1
<1>4. CASE WriteInit
  <2>1. UNCHANGED <<open, arriving, accepted, rolled>> /\ pc = "close"
    BY <1>4, WriteInitEffect
  <2> QED BY <1>0, <1>s, <2>1
<1>5. CASE WriteSegment
  <2>1. /\ pc = "close" /\ UNCHANGED <<arriving, accepted>>
        /\ \/ /\ open' = [video |-> <<>>, audio |-> <<>>, start |-> None]
              /\ pc' = "prune" /\ rolled'.sequence = rolled.sequence + 1
           \/ pc' = "failed" /\ rolled' = rolled
    BY <1>5, WriteSegmentEffect
  <2>2. CASE pc' = "failed" /\ rolled' = rolled
    BY <1>s, <2>1, <2>2
  <2>3. CASE /\ open' = [video |-> <<>>, audio |-> <<>>, start |-> None]
             /\ pc' = "prune" /\ rolled'.sequence = rolled.sequence + 1
    <3>1. Stores
      <4>1. rolled' # rolled
        <5>1. rolled.sequence \in Nat
          BY RolledType
        <5> QED BY <2>3, <5>1
      <4>2. files' = FilesOf(files.init, files.segments \cup {Segment}, files.playlist)
            /\ rolled'.window = Append(rolled.window, [name |-> Segment.name,
                                                       duration |-> SegmentDuration])
            /\ finished' = finished
        BY <1>5, <4>1, WriteSegmentEffect
      <4>3. files'.segments = files.segments \cup {Segment} /\ files'.playlist = files.playlist
        BY <4>2, FilesShape
      <4> QED BY <2>1, <2>3, <4>2, <4>3 DEF Stores
    <3>2. Waiting(t) = open[t] \o Waiting(t)' /\ Waiting(t)' \in Seq(Sample)
      <4>1. open'[t] = <<>> /\ arriving' = arriving
        BY <2>1, <2>3 DEF Kinds
      <4>2. Waiting(t)' = <<>> \o Late(arriving, t)
        BY <4>1 DEF Waiting, Late
      <4>3. Late(arriving, t) \in Seq(Sample) /\ Waiting(t) = open[t] \o Late(arriving, t)
        BY WaitingType
      <4>4. <<>> \o Late(arriving, t) = Late(arriving, t)
        BY <4>3, ConcatEmptySeq
      <4> QED BY <4>2, <4>3, <4>4
    <3> QED BY <2>1, <3>1, <3>2 DEF Closes
  <2> QED BY <2>1, <2>2, <2>3
<1>6. CASE Prune
  <2>1. UNCHANGED <<open, arriving, accepted, pc>> /\ rolled'.sequence = rolled.sequence
    BY <1>6, PruneEffect
  <2>2. ~Stores
    <3>1. rolled.sequence \in Nat
      BY RolledType
    <3> QED BY <2>1, <3>1 DEF Stores
  <2> QED BY <1>0, <2>1, <2>2
<1>7. CASE WritePlaylist
  <2>1. /\ pc = "prune" /\ UNCHANGED <<accepted, rolled>>
        /\ \/ open' = open /\ arriving' = arriving
           \/ arriving # None /\ open' = Appended(open, arriving) /\ arriving' = None
    BY <1>7, WritePlaylistEffect
  <2>2. CASE open' = open /\ arriving' = arriving
    BY <1>0, <1>s, <2>1, <2>2
  <2>3. CASE arriving # None /\ open' = Appended(open, arriving) /\ arriving' = None
    <3>1. arriving \in Sample /\ open \in OpenType
      BY <2>3 DEF TypeInv, OpenType
    <3>2. Waiting(t) = open[t] \o Late(arriving, t)
      BY WaitingType
    <3>3. Waiting(t)' = Appended(open, arriving)[t] \o Late(None, t)
      BY <2>3 DEF Waiting, Late
    <3>4. Appended(open, arriving) \in OpenType
      BY <3>1, AppendedType DEF OpenType
    <3>5. Waiting(t)' = Appended(open, arriving)[t]
      BY <3>1, <3>3, <3>4, LateJoins
    <3>6. Waiting(t)' = Waiting(t)
      BY <3>1, <3>2, <3>5, LateJoins
    <3> QED BY <1>s, <2>1, <3>6 DEF Waits
  <2> QED BY <2>1, <2>2, <2>3
<1>8. CASE WriteEnd
  <2>1. UNCHANGED <<open, arriving, accepted, rolled>> /\ pc = "end"
    BY <1>8, WriteEndEffect
  <2> QED BY <1>0, <1>s, <2>1
<1>9. CASE UNCHANGED vars
  <2>1. UNCHANGED <<open, arriving, accepted, rolled, pc>>
    BY <1>9 DEF vars
  <2> QED BY <1>0, <1>s, <2>1
<1> QED BY <1>1, <1>2, <1>3, <1>4, <1>5, <1>6, <1>7, <1>8, <1>9 DEF Next

-----------------------------------------------------------------------------
(***************************************************************************)
(* What is shown, followed by what waits, is what was accepted.            *)
(***************************************************************************)
\* How many samples of a track no longer are in the window.
Gone(shown, w, acc) == Len(acc) - Len(shown) - Len(w)

Carries(t, shown, w, acc) ==
  /\ Gone(shown, w, acc) >= 0
  /\ \A k \in 1..Len(shown) : Shows(t, shown[k], acc[Gone(shown, w, acc) + k])
  /\ \A k \in 1..Len(w) : w[k] = acc[Gone(shown, w, acc) + Len(shown) + k]

\* A sample is accepted.
LEMMA CarriesMore ==
  ASSUME NEW t, NEW shown \in Seq(Shot), NEW w \in Seq(Sample), NEW acc \in Seq(Sample),
         NEW s \in Sample, Carries(t, shown, w, acc)
  PROVE  Carries(t, shown, Append(w, s), Append(acc, s))
<1> DEFINE v == Append(w, s)
           new == Append(acc, s)
           n == Len(shown)
           m == Len(w)
           a == Len(acc)
           g == a - n - m
<1>1. n \in Nat /\ m \in Nat /\ a \in Nat
  BY LenProperties
<1>2. Len(v) = m + 1 /\ v[m + 1] = s /\ \A k \in 1..m : v[k] = w[k]
  BY AppendProperties
<1>3. Len(new) = a + 1 /\ new[a + 1] = s /\ \A k \in 1..a : new[k] = acc[k]
  BY AppendProperties
<1>4. g >= 0 /\ (\A k \in 1..n : Shows(t, shown[k], acc[g + k])) /\ \A k \in 1..m : w[k] = acc[g + n + k]
  BY DEF Carries, Gone
<1> HIDE DEF v, new, n, m, a
<1>5. Len(new) - n - Len(v) = g
  BY <1>1, <1>2, <1>3
<1>6. \A k \in 1..n : g + k \in 1..a
  BY <1>1, <1>4
<1>7. \A k \in 1..m : g + n + k \in 1..a
  BY <1>1, <1>4
<1>8. g + n + (m + 1) = a + 1 /\ \A k \in 1..(m + 1) : k = m + 1 \/ k \in 1..m
  BY <1>1
<1> HIDE DEF g
<1>9. \A k \in 1..n : Shows(t, shown[k], new[g + k])
  BY <1>3, <1>4, <1>6
<1>10. \A k \in 1..(m + 1) : v[k] = new[g + n + k]
  <2> SUFFICES ASSUME NEW k \in 1..(m + 1) PROVE v[k] = new[g + n + k]
    OBVIOUS
  <2>1. CASE k = m + 1
    BY <1>2, <1>3, <1>8, <2>1
  <2>2. CASE k \in 1..m
    BY <1>2, <1>3, <1>4, <1>7, <2>2
  <2> QED BY <1>8, <2>1, <2>2
<1> QED BY <1>2, <1>4, <1>5, <1>9, <1>10 DEF Carries, Gone, v, new, n

\* The open segment is closed.
LEMMA CarriesClose ==
  ASSUME NEW t, NEW shown \in Seq(Shot), NEW acc \in Seq(Sample),
         NEW o \in Seq(Sample), NEW x \in Seq(Sample), NEW new \in Seq(Shot),
         Len(new) = Len(o), \A k \in 1..Len(o) : Shows(t, new[k], o[k]),
         Carries(t, shown, o \o x, acc)
  PROVE  /\ Carries(t, shown \o new, x, acc)
         /\ Gone(shown \o new, x, acc) = Gone(shown, o \o x, acc)
<1> DEFINE w == o \o x
           next == shown \o new
           n == Len(shown)
           m == Len(o)
           l == Len(x)
           a == Len(acc)
           g == a - n - (m + l)
<1>1. n \in Nat /\ m \in Nat /\ l \in Nat /\ a \in Nat
  BY LenProperties
<1>2. Len(w) = m + l /\ \A i \in 1..(m + l) : w[i] = IF i <= m THEN o[i] ELSE x[i - m]
  BY ConcatProperties
<1>3. Len(next) = n + m /\ \A i \in 1..(n + m) : next[i] = IF i <= n THEN shown[i] ELSE new[i - n]
  <2>1. /\ Len(next) = n + Len(new)
        /\ \A i \in 1..(n + Len(new)) : next[i] = IF i <= n THEN shown[i] ELSE new[i - n]
    BY ConcatProperties
  <2>2. Len(new) = m
    OBVIOUS
  <2> HIDE DEF next, n, m
  <2> QED BY <2>1, <2>2
<1>4. /\ g >= 0 /\ (\A k \in 1..n : Shows(t, shown[k], acc[g + k]))
      /\ \A k \in 1..(m + l) : w[k] = acc[g + n + k]
  BY <1>2 DEF Carries, Gone
<1>5. Gone(shown, w, acc) = g
  BY <1>2 DEF Gone
<1>6. \A k \in 1..m : Shows(t, new[k], o[k])
  OBVIOUS
<1> HIDE DEF w, next, n, m, l, a
<1>7. a - Len(next) - l = g
  BY <1>1, <1>3
<1>8. \A k \in 1..(n + m) : k \in 1..n \/ (~(k <= n) /\ k - n \in 1..m /\ k - n \in 1..(m + l) /\ k - n <= m
                                             /\ g + n + (k - n) = g + k)
  BY <1>1
<1>9. \A k \in 1..l : m + k \in 1..(m + l) /\ ~(m + k <= m) /\ (m + k) - m = k
                      /\ g + n + (m + k) = g + (n + m) + k
  BY <1>1
<1>10. g \in Int /\ \A k \in 1..n : k <= n
  BY <1>1
<1> HIDE DEF g
<1>11. ASSUME NEW k \in 1..(n + m) PROVE Shows(t, next[k], acc[g + k])
  <2>1. CASE k \in 1..n
    BY <1>3, <1>4, <1>10, <2>1
  <2>2. CASE /\ ~(k <= n) /\ k - n \in 1..m /\ k - n \in 1..(m + l) /\ k - n <= m
             /\ g + n + (k - n) = g + k
    <3> DEFINE j == k - n
    <3>1. next[k] = new[j] /\ j \in 1..m /\ j \in 1..(m + l) /\ j <= m /\ g + n + j = g + k
      BY <1>3, <2>2
    <3> HIDE DEF j
    <3>2. w[j] = o[j] /\ w[j] = acc[g + n + j]
      BY <1>2, <1>4, <3>1
    <3>3. Shows(t, new[j], o[j])
      BY <1>6, <3>1
    <3> QED BY <3>1, <3>2, <3>3
  <2> QED BY <1>8, <2>1, <2>2
<1>12. ASSUME NEW k \in 1..l PROVE x[k] = acc[g + (n + m) + k]
  <2> DEFINE j == m + k
  <2>1. j \in 1..(m + l) /\ ~(j <= m) /\ j - m = k /\ g + n + j = g + (n + m) + k
    BY <1>9
  <2> HIDE DEF j
  <2>2. w[j] = x[j - m] /\ w[j] = acc[g + n + j]
    BY <1>2, <1>4, <2>1
  <2> QED BY <2>1, <2>2
<1>13. Gone(next, x, acc) = g
  BY <1>7 DEF Gone, a, l
<1> QED BY <1>3, <1>4, <1>5, <1>11, <1>12, <1>13 DEF Carries, next, l, w

\* A segment leaves the window.
LEMMA CarriesLess ==
  ASSUME NEW t, NEW shown \in Seq(Shot), NEW w \in Seq(Sample), NEW acc \in Seq(Sample),
         NEW head \in Seq(Shot), NEW rest \in Seq(Shot), shown = head \o rest,
         Carries(t, shown, w, acc)
  PROVE  /\ Carries(t, rest, w, acc)
         /\ Gone(rest, w, acc) = Gone(shown, w, acc) + Len(head)
         /\ \A k \in 1..Len(rest) : Len(head) + k \in 1..Len(shown) /\ rest[k] = shown[Len(head) + k]
<1> DEFINE n == Len(rest)
           h == Len(head)
           m == Len(w)
           a == Len(acc)
           g == a - (h + n) - m
           f == g + h
<1>1. n \in Nat /\ h \in Nat /\ m \in Nat /\ a \in Nat
  BY LenProperties
<1>2. Len(shown) = h + n /\ \A i \in 1..(h + n) : shown[i] = IF i <= h THEN head[i] ELSE rest[i - h]
  BY ConcatProperties
<1>3. /\ g >= 0 /\ (\A k \in 1..(h + n) : Shows(t, shown[k], acc[g + k]))
      /\ \A k \in 1..m : w[k] = acc[g + (h + n) + k]
  BY <1>2 DEF Carries, Gone
<1>4. Gone(shown, w, acc) = g
  BY <1>2 DEF Gone
<1> HIDE DEF n, h, m, a
<1>5. f = a - n - m /\ f >= 0
  BY <1>1, <1>3
<1>6. \A k \in 1..n : h + k \in 1..(h + n) /\ ~(h + k <= h) /\ (h + k) - h = k /\ g + (h + k) = f + k
  BY <1>1
<1>7. \A k \in 1..m : g + (h + n) + k = f + n + k
  BY <1>1
<1> HIDE DEF f, g
<1>8. \A k \in 1..n : rest[k] = shown[h + k] /\ h + k \in 1..(h + n)
  BY <1>2, <1>6
<1>9. \A k \in 1..n : Shows(t, rest[k], acc[f + k])
  <2> SUFFICES ASSUME NEW k \in 1..n PROVE Shows(t, rest[k], acc[f + k])
    OBVIOUS
  <2> DEFINE j == h + k
  <2>1. j \in 1..(h + n) /\ g + j = f + k /\ rest[k] = shown[j]
    BY <1>6, <1>8
  <2> HIDE DEF j
  <2> QED BY <1>3, <2>1
<1>10. \A k \in 1..m : w[k] = acc[f + n + k]
  BY <1>3, <1>7
<1>11. Gone(rest, w, acc) = f
  BY <1>5 DEF Gone, n, m, a
<1>12. f = g + h
  BY DEF f
<1> QED BY <1>2, <1>4, <1>5, <1>8, <1>9, <1>10, <1>11, <1>12 DEF Carries, n, h, m

-----------------------------------------------------------------------------
(***************************************************************************)
(* Nothing is lost.                                                        *)
(***************************************************************************)
CarryInv ==
  pc # "failed" => \A t \in Kinds : Carries(t, Shown(t), Waiting(t), accepted[t])

\* What a sample that waits was accepted as.
LEMMA WaitingWas ==
  ASSUME TypeInv, NEW t \in Kinds, NEW shown \in Seq(Shot), Carries(t, shown, Waiting(t), accepted[t]),
         NEW k \in 1..Len(open[t])
  PROVE  \E i \in 1..Len(accepted[t]) : /\ open[t][k] = accepted[t][i]
                                        /\ i = Gone(shown, Waiting(t), accepted[t]) + Len(shown) + k
<1> DEFINE o == open[t]
           x == Late(arriving, t)
           w == Waiting(t)
           acc == accepted[t]
           g == Gone(shown, w, acc)
           n == Len(shown)
           i == g + n + k
<1>1. o \in Seq(Sample) /\ x \in Seq(Sample) /\ w = o \o x /\ acc \in Seq(Sample)
  BY WaitingType DEF TypeInv
<1>2. k \in 1..Len(o)
  OBVIOUS
<1>3. g >= 0 /\ \A j \in 1..Len(w) : w[j] = acc[g + n + j]
  BY DEF Carries
<1>4. g = Len(acc) - n - Len(w)
  BY DEF Gone
<1> HIDE DEF o, x, w, acc, g
<1>5. Len(w) = Len(o) + Len(x) /\ \A j \in 1..(Len(o) + Len(x)) : w[j] = IF j <= Len(o) THEN o[j] ELSE x[j - Len(o)]
  BY <1>1, ConcatProperties
<1>6. n \in Nat /\ Len(o) \in Nat /\ Len(x) \in Nat /\ Len(acc) \in Nat
  BY <1>1, LenProperties
<1> HIDE DEF n
<1>7. k \in 1..(Len(o) + Len(x)) /\ k <= Len(o) /\ k \in 1..Len(w)
  BY <1>2, <1>5, <1>6
<1>8. o[k] = w[k] /\ w[k] = acc[i]
  BY <1>3, <1>5, <1>7
<1>9. i \in 1..Len(acc)
  BY <1>2, <1>3, <1>4, <1>5, <1>6
<1> HIDE DEF i
<1>10. \E j \in 1..Len(acc) : o[k] = acc[j] /\ j = i
  BY <1>8, <1>9
<1> QED BY <1>10 DEF o, w, acc, g, n, i

\* Every step that does not fail keeps every accepted sample in its place.
LEMMA CarryStep ==
  ASSUME TypeInv, WindowInv, SegInv, AcceptInv, CarryInv, [Next]_vars
  PROVE  CarryInv'
<1> SUFFICES ASSUME pc' # "failed", NEW t \in Kinds
             PROVE  Carries(t, Shown(t)', Waiting(t)', accepted'[t])
  BY DEF CarryInv
<1> DEFINE shown == Shown(t)
           next == Shown(t)'
           w == Waiting(t)
           v == Waiting(t)'
           acc == accepted[t]
           new == accepted'[t]
<1>a. /\ pc = "failed" => pc' = "failed"
      /\ \/ ~Stores /\ (Waits(t) \/ Takes(t))
         \/ Stores /\ Closes(t)
         \/ ~Stores /\ pc' = "failed" /\ accepted'[t] = accepted[t]
  BY WaitStep
<1>1. pc # "failed" /\ ((~Stores /\ (Waits(t) \/ Takes(t))) \/ (Stores /\ Closes(t)))
  BY <1>a
<1>2. Carries(t, shown, w, acc)
  BY <1>1 DEF CarryInv
<1>3. shown \in Seq(Shot) /\ w \in Seq(Sample) /\ acc \in Seq(Sample)
  BY ShownStep, WaitingType DEF TypeInv
<1>4. next \in Seq(Shot) /\ v \in Seq(Sample) /\ new \in Seq(Sample)
  <2>1. TypeInv' /\ next \in Seq(Shot)
    BY ShownStep, TypeStep
  <2>2. new \in Seq(Sample)
    BY <2>1 DEF TypeInv
  <2>3. v \in Seq(Sample)
    <3>1. CASE Waits(t)
      BY <1>3, <3>1 DEF Waits
    <3>2. CASE Takes(t)
      BY <1>3, <3>2, AppendProperties DEF Takes
    <3>3. CASE Closes(t)
      BY <3>3 DEF Closes
    <3> QED BY <1>1, <3>1, <3>2, <3>3
  <2> QED BY <2>1, <2>2, <2>3
<1>5. CASE Stores /\ Closes(t)
  <2>1. next = shown \o NewShown(t)
    BY <1>5, ShownStep DEF Removes, Stores
  <2>2. w = open[t] \o v /\ new = acc
    BY <1>5 DEF Closes
  <2>3. open[t] \in Seq(Sample)
    BY WaitingType
  <2>4. t = "audio" => \A k \in 1..Len(open[t]) : open[t][k].sync
    <3> SUFFICES ASSUME t = "audio", NEW k \in 1..Len(open[t]) PROVE open[t][k].sync
      OBVIOUS
    <3>1. PICK i \in 1..Len(acc) : open[t][k] = acc[i]
      BY <1>2, <1>3, WaitingWas
    <3> QED BY <3>1 DEF AcceptInv
  <2>5. /\ NewShown(t) \in Seq(Shot) /\ Len(NewShown(t)) = Len(open[t])
        /\ \A k \in 1..Len(open[t]) : Shows(t, NewShown(t)[k], open[t][k])
    BY <2>4, OpenShown DEF SegInv
  <2> DEFINE o == open[t]
             x == NewShown(t)
  <2> HIDE DEF o, x, shown, next, w, v, acc, new
  <2>6. /\ x \in Seq(Shot) /\ Len(x) = Len(o) /\ \A k \in 1..Len(o) : Shows(t, x[k], o[k])
        /\ w = o \o v /\ o \in Seq(Sample) /\ next = shown \o x
    BY <2>1, <2>2, <2>3, <2>5 DEF o, x
  <2>7. Carries(t, shown \o x, v, acc)
    <3>1. Carries(t, shown, o \o v, acc)
      BY <1>2, <2>6
    <3> QED BY <3>1, <1>3, <1>4, <2>6, CarriesClose
  <2>8. Carries(t, next, v, new)
    BY <2>2, <2>6, <2>7
  <2> QED BY <2>8 DEF next, v, new
<1>6. CASE ~Stores /\ (Waits(t) \/ Takes(t))
  <2>1. Carries(t, next, w, acc)
    <3>1. next = shown \/ \E head \in Seq(Shot) : shown = head \o next
      BY <1>6, ShownStep
    <3>2. CASE next = shown
      BY <1>2, <3>2
    <3>3. ASSUME NEW head \in Seq(Shot), shown = head \o next
          PROVE  Carries(t, next, w, acc)
      <4> HIDE DEF shown, next, w, acc
      <4> QED BY <1>2, <1>3, <1>4, <3>3, CarriesLess
    <3> QED BY <3>1, <3>2, <3>3
  <2>2. CASE Waits(t)
    BY <2>1, <2>2 DEF Waits
  <2>3. CASE Takes(t)
    <3>1. PICK s \in Sample : v = Append(w, s) /\ new = Append(acc, s)
      BY <2>3 DEF Takes
    <3> HIDE DEF shown, next, w, v, acc, new
    <3>2. Carries(t, next, Append(w, s), Append(acc, s))
      BY <1>3, <1>4, <2>1, CarriesMore
    <3>3. Carries(t, next, v, new)
      BY <3>1, <3>2
    <3> QED BY <3>3 DEF next, v, new
  <2> QED BY <1>6, <2>2, <2>3
<1> QED BY <1>1, <1>5, <1>6

\* A list that ends another one.
LEMMA SuffixIs ==
  ASSUME NEW S, NEW w \in Seq(S), NEW acc \in Seq(S), Len(w) <= Len(acc),
         \A k \in 1..Len(w) : w[k] = acc[Len(acc) - Len(w) + k]
  PROVE  IsSuffix(w, acc)
<1> DEFINE r == Reverse(w)
           q == Reverse(acc)
           m == Len(w)
           a == Len(acc)
           x == SubSeq(r, 1, m)
           y == SubSeq(q, 1, m)
<1>1. m \in Nat /\ a \in Nat /\ m <= a
  BY LenProperties
<1>2. \A i \in 1..a : q[i] = acc[a - i + 1]
  BY DEF Reverse
<1>3. \A i \in 1..m : r[i] = w[m - i + 1]
  BY DEF Reverse
<1>4. Len(r) = m /\ Len(q) = a
  BY <1>1 DEF Reverse
<1>5. \A k \in 1..m : w[k] = acc[a - m + k] /\ w[k] \in S
  BY ElementOfSeq
<1> HIDE DEF r, q, m, a
<1>6. \A i \in 1..m : i \in 1..a /\ m - i + 1 \in 1..m /\ a - m + (m - i + 1) = a - i + 1
  BY <1>1
<1>7. \A i \in 1..m : r[i] = q[i] /\ r[i] \in S
  <2> SUFFICES ASSUME NEW i \in 1..m PROVE r[i] = q[i] /\ r[i] \in S
    OBVIOUS
  <2> DEFINE j == m - i + 1
             l == a - i + 1
  <2>1. i \in 1..a /\ j \in 1..m /\ a - m + j = l
    BY <1>6
  <2>2. r[i] = w[j] /\ q[i] = acc[l]
    BY <1>2, <1>3, <2>1
  <2> HIDE DEF j, l
  <2> QED BY <1>5, <2>1, <2>2
<1>8. 1 \in Int /\ m \in Int /\ m - 1 + 1 = m /\ \A i \in 1..m : 1 + i - 1 = i
  BY <1>1
<1>9. x \in Seq(S) /\ Len(x) = (IF 1 <= m THEN m ELSE 0) /\ \A i \in 1..m : x[i] = r[i]
  <2>1. \A i \in 1..m : r[i] \in S
    BY <1>7
  <2>2. /\ x \in Seq(S) /\ Len(x) = (IF 1 <= m THEN m - 1 + 1 ELSE 0)
        /\ \A i \in 1..(m - 1 + 1) : x[i] = r[1 + i - 1]
    BY <1>8, <2>1, SubSeqProperties
  <2> HIDE DEF x
  <2> QED BY <1>8, <2>2
<1>10. y \in Seq(S) /\ Len(y) = (IF 1 <= m THEN m ELSE 0) /\ \A i \in 1..m : y[i] = q[i]
  <2>1. \A i \in 1..m : q[i] \in S
    BY <1>7
  <2>2. /\ y \in Seq(S) /\ Len(y) = (IF 1 <= m THEN m - 1 + 1 ELSE 0)
        /\ \A i \in 1..(m - 1 + 1) : y[i] = q[1 + i - 1]
    BY <1>8, <2>1, SubSeqProperties
  <2> HIDE DEF y
  <2> QED BY <1>8, <2>2
<1>11. x = y
  <2> HIDE DEF x, y
  <2>1. Len(x) = Len(y) /\ \A i \in 1..Len(x) : i \in 1..m
    BY <1>1, <1>9, <1>10
  <2>2. \A i \in 1..Len(x) : x[i] = y[i]
    BY <1>7, <1>9, <1>10, <2>1
  <2> QED BY <1>9, <1>10, <2>1, <2>2, SeqEqual
<1>12. IsPrefix(r, q)
  BY <1>1, <1>4, <1>11 DEF IsPrefix
<1> QED BY <1>12 DEF IsSuffix, r, q

\* The invariant as the property has it.
LEMMA CarryMeans ==
  ASSUME TypeInv, WindowInv, SegInv, CarryInv
  PROVE  SegmentsCarrySamples
<1> SUFFICES ASSUME pc # "failed", NEW t \in Kinds
             PROVE  LET shown == Shown(t)
                        gone == Len(accepted[t]) - Len(shown) - Len(Waiting(t))
                    IN  /\ gone >= 0
                        /\ \A k \in DOMAIN shown :
                             LET from == accepted[t][gone + k]
                             IN  /\ shown[k].data = from.payload
                                 /\ shown[k].sync = from.sync
                                 /\ shown[k].offset = IF t = "video" THEN from.cts ELSE 0
                        /\ IsSuffix(Waiting(t), accepted[t])
  BY DEF SegmentsCarrySamples
<1> DEFINE shown == Shown(t)
           w == Waiting(t)
           acc == accepted[t]
           gone == Len(acc) - Len(shown) - Len(w)
<1>1. shown \in Seq(Shot) /\ w \in Seq(Sample) /\ acc \in Seq(Sample)
  BY ShownType, WaitingType DEF TypeInv
<1>2. Carries(t, shown, w, acc)
  BY DEF CarryInv
<1> HIDE DEF shown, w, acc
<1>3. Len(shown) \in Nat /\ Len(w) \in Nat /\ Len(acc) \in Nat /\ DOMAIN shown = 1..Len(shown)
  BY <1>1, LenProperties
<1>4. gone >= 0 /\ gone = Gone(shown, w, acc)
  BY <1>2 DEF Carries, Gone
<1>5. /\ \A k \in 1..Len(shown) : Shows(t, shown[k], acc[gone + k])
      /\ \A k \in 1..Len(w) : w[k] = acc[gone + Len(shown) + k]
  BY <1>2, <1>4 DEF Carries
<1>6. gone + Len(shown) = Len(acc) - Len(w)
  BY <1>3
<1>7. Len(w) <= Len(acc)
  BY <1>3, <1>4
<1> HIDE DEF gone
<1>8. IsSuffix(w, acc)
  <2>1. \A k \in 1..Len(w) : w[k] = acc[Len(acc) - Len(w) + k]
    BY <1>5, <1>6
  <2> QED BY <1>1, <1>7, <2>1, SuffixIs
<1>9. \A k \in DOMAIN shown : Shows(t, shown[k], acc[gone + k])
  BY <1>3, <1>5
<1> QED BY <1>4, <1>8, <1>9 DEF Shows, shown, w, acc, gone

\* What has been proved of the samples.
SamplesInv == TypeInv /\ WindowInv /\ SegInv /\ AcceptInv /\ CarryInv

\* A new output has nothing to show.
LEMMA NothingShown ==
  ASSUME Init, NEW t \in Kinds
  PROVE  Shown(t) = <<>> /\ Waiting(t) = <<>> /\ accepted[t] = <<>>
<1>1. rolled.window = <<>> /\ arriving = None /\ open[t] = <<>> /\ accepted[t] = <<>>
  BY DEF Init, Kinds
<1>2. Waiting(t) = <<>>
  BY <1>1 DEF Waiting
<1> DEFINE r == [i \in DOMAIN rolled.window |->
                   SamplesOf(Stored(rolled.window[i].name).file, TrackId(t))]
<1>3. r = <<>>
  BY <1>1
<1>4. Shown(t) = FlattenSeq(r)
  BY DEF Shown
<1> HIDE DEF r
<1>5. FlattenSeq(r) = <<>>
  <2>1. r \in Seq(Seq(Shot)) /\ Len(r) = 0
    BY <1>3
  <2>2. PICK f : IsJoin(f, r, Shot)
    BY <2>1, JoinExists
  <2>3. FlattenSeq(r) = f[0] /\ f[0] = <<>>
    BY <2>1, <2>2, FlattenIs DEF IsJoin, JoinTo
  <2> QED BY <2>3
<1> QED BY <1>1, <1>2, <1>4, <1>5

\* The samples' invariant, in every reachable state.
THEOREM HlsSamplesInvariant == Spec => []SamplesInv
<1>1. Init => SamplesInv
  <2> SUFFICES ASSUME Init PROVE SamplesInv
    OBVIOUS
  <2>1. TypeInv /\ WindowInv
    BY TypeInit, WindowInit
  <2>2. SegInv
    <3>1. files.segments = {} /\ arriving = None /\ grid = [video |-> 0, audio |-> 0]
      BY DEF Init
    <3> QED BY <3>1 DEF SegInv, GridType
  <2>3. AcceptInv
    <3>1. timebase = [origin |-> None, last |-> None] /\ accepted = [video |-> <<>>, audio |-> <<>>]
      BY DEF Init
    <3>2. \A t \in Kinds : Len(accepted[t]) = 0
      BY <3>1, EmptySeq DEF Kinds
    <3>3. Reached = 0
      BY <3>1 DEF Reached
    <3> QED BY <3>1, <3>2, <3>3 DEF AcceptInv
  <2>4. CarryInv
    <3> SUFFICES ASSUME NEW t \in Kinds PROVE Carries(t, Shown(t), Waiting(t), accepted[t])
      BY DEF CarryInv
    <3> DEFINE none == <<>>
    <3>1. Len(none) = 0
      BY EmptySeq
    <3> HIDE DEF none
    <3>2. Carries(t, none, none, none)
      BY <3>1 DEF Carries, Gone
    <3> QED BY <3>2, NothingShown DEF none
  <2> QED BY <2>1, <2>2, <2>3, <2>4 DEF SamplesInv
<1>2. SamplesInv /\ [Next]_vars => SamplesInv'
  BY TypeStep, WindowStep, SegStep, AcceptStep, CarryStep DEF SamplesInv
<1> QED BY <1>1, <1>2, PTL DEF Spec

\* What a player demuxes from the window, followed by what waits, is what was
\* accepted, from some sample on: through every file that is written, removed
\* or left behind, for every packet, clock and payload, until storage fails.
THEOREM HlsSegmentsCarrySamples == Spec => []SegmentsCarrySamples
<1>1. SamplesInv => SegmentsCarrySamples
  BY CarryMeans DEF SamplesInv
<1> QED BY <1>1, HlsSamplesInvariant, PTL

-----------------------------------------------------------------------------
(***************************************************************************)
(* The times in a fragment.                                                *)
(***************************************************************************)
\* Gaps between numbers add up to their difference.
LEMMA SumsOfGaps ==
  ASSUME NEW d \in Seq(Int), NEW x, NEW n, n = Len(d),
         \A k \in 1..n : x[k] \in Int,
         \A k \in 1..n - 1 : d[k] = x[k + 1] - x[k]
  PROVE  \A k \in 1..n : UpTo(d, k - 1) = x[k] - x[1]
<1> DEFINE S == {k \in Nat : k + 1 \in 1..n => UpTo(d, k) = x[k + 1] - x[1]}
<1>1. /\ UpTo(d, 0) = 0 /\ n \in Nat
      /\ \A m \in 1..n : UpTo(d, m) = UpTo(d, m - 1) + d[m]
      /\ \A m \in 0..n : UpTo(d, m) \in Int
  BY UpToSteps, LenProperties
<1>2. 0 \in S
  <2>1. 1 \in 1..n => x[1] - x[1] = 0
    OBVIOUS
  <2> QED BY <1>1, <2>1
<1>3. \A k \in Nat : k \in S => k + 1 \in S
  <2> SUFFICES ASSUME NEW k \in Nat, k \in S PROVE k + 1 \in S
    OBVIOUS
  <2> DEFINE j == k + 1
             i == j + 1
  <2> SUFFICES ASSUME i \in 1..n PROVE UpTo(d, j) = x[i] - x[1]
    OBVIOUS
  <2>1. j \in 1..n /\ j \in 1..n - 1 /\ j - 1 = k /\ 1 \in 1..n
    BY <1>1
  <2>2. UpTo(d, k) = x[j] - x[1]
    BY <2>1
  <2>3. d[j] = x[i] - x[j]
    BY <2>1
  <2>4. UpTo(d, j) = UpTo(d, k) + d[j]
    BY <1>1, <2>1
  <2>5. x[i] \in Int /\ x[j] \in Int /\ x[1] \in Int
    BY <2>1
  <2> HIDE DEF i, j
  <2> QED BY <2>2, <2>3, <2>4, <2>5
<1> HIDE DEF S
<1>4. \A k \in Nat : k \in S
  BY <1>2, <1>3, Induction
<1>5. ASSUME NEW k \in 1..n PROVE UpTo(d, k - 1) = x[k] - x[1]
  <2> DEFINE j == k - 1
  <2>1. j \in Nat /\ j + 1 = k
    BY <1>1
  <2> HIDE DEF j
  <2>2. j \in S
    BY <1>4, <2>1
  <2>3. UpTo(d, j) = x[j + 1] - x[1]
    BY <2>1, <2>2 DEF S
  <2> QED BY <2>1, <2>3 DEF j
<1> QED BY <1>5

\* Equal numbers add up to a product.
LEMMA SumsOfSame ==
  ASSUME NEW d \in Seq(Int), NEW c \in Int, \A k \in 1..Len(d) : d[k] = c
  PROVE  UpTo(d, Len(d)) = c * Len(d)
<1> DEFINE n == Len(d)
           S == {k \in Nat : k <= n => UpTo(d, k) = c * k}
<1>1. /\ UpTo(d, 0) = 0 /\ n \in Nat
      /\ \A m \in 1..n : UpTo(d, m) = UpTo(d, m - 1) + d[m]
  BY UpToSteps, LenProperties
<1>2. 0 \in S
  <2>1. c * 0 = 0
    BY SMT
  <2> QED BY <1>1, <2>1
<1>3. \A k \in Nat : k \in S => k + 1 \in S
  <2> SUFFICES ASSUME NEW k \in Nat, k \in S PROVE k + 1 \in S
    OBVIOUS
  <2> DEFINE j == k + 1
  <2> SUFFICES ASSUME j <= n PROVE UpTo(d, j) = c * j
    OBVIOUS
  <2>1. j \in 1..n /\ j - 1 = k /\ k <= n
    BY <1>1
  <2>2. UpTo(d, k) = c * k
    BY <2>1
  <2>3. UpTo(d, j) = UpTo(d, k) + d[j] /\ d[j] = c
    BY <1>1, <2>1
  <2>4. c * j = c * k + c
    BY SMT
  <2> HIDE DEF j
  <2> QED BY <2>2, <2>3, <2>4
<1> HIDE DEF S
<1>4. n \in S
  BY <1>1, <1>2, <1>3, Induction
<1> QED BY <1>1, <1>4 DEF S

\* The samples of a fragment follow each other, from its base to the tick after
\* it.
LEMMA ReadTimes ==
  ASSUME NEW f \in Fragment
  PROVE  LET r == ReadAs(f)
             d == Durations(f)
         IN  \A k \in 1..Len(f.samples) :
               /\ r[k].time = f.base + UpTo(d, k - 1) /\ r[k].first = (k = 1)
               /\ r[k].time + r[k].duration = f.base + UpTo(d, k)
               /\ d[k] = f.samples[k].duration /\ d[k] \in Int
<1> DEFINE r == ReadAs(f)
           d == Durations(f)
           n == Len(f.samples)
<1>1. DOMAIN f.samples = 1..n /\ n \in Nat
  BY PartsType
<1>2. d \in Seq(Int) /\ Len(d) = n
  BY ReadType
<1>3. /\ \A m \in 1..n : UpTo(d, m) = UpTo(d, m - 1) + d[m]
      /\ \A m \in 0..n : UpTo(d, m) \in Int
  BY <1>2, UpToSteps
<1>4. f.base \in Int
  BY DEF Fragment
<1> SUFFICES ASSUME NEW k \in 1..n
             PROVE  /\ r[k].time = f.base + UpTo(d, k - 1) /\ r[k].first = (k = 1)
                    /\ r[k].time + r[k].duration = f.base + UpTo(d, k)
                    /\ d[k] = f.samples[k].duration /\ d[k] \in Int
  OBVIOUS
<1>5. r[k].time = f.base + UpTo(d, k - 1) /\ r[k].duration = f.samples[k].duration
      /\ r[k].first = (k = 1)
  BY <1>1 DEF ReadAs
<1>6. d[k] = f.samples[k].duration
  BY <1>1 DEF Durations
<1>7. d[k] \in Int
  BY <1>2, ElementOfSeq
<1>8. k - 1 \in 0..n
  BY <1>1
<1> HIDE DEF d, r, n
<1>9. UpTo(d, k - 1) \in Int /\ UpTo(d, k) = UpTo(d, k - 1) + d[k]
  BY <1>3, <1>8
<1>10. r[k].time + r[k].duration = f.base + UpTo(d, k)
  BY <1>4, <1>5, <1>6, <1>7, <1>9
<1> QED BY <1>5, <1>6, <1>7, <1>10

-----------------------------------------------------------------------------
(***************************************************************************)
(* The times in the segment that is closed.                                *)
(***************************************************************************)
\* A time that is not negative, in whole ticks of a track's clock.
Ticks(t, ms) == IF t = "video" THEN ms ELSE AudioTicks(ms)

\* Ticks are numbers that grow with the time.
LEMMA TicksGrow ==
  ASSUME NEW t \in Kinds, NEW a \in Int
  PROVE  /\ Ticks(t, a) \in Int /\ Ticks(t, 0) = 0
         /\ t = "video" => Ticks(t, a) = a
         /\ \A b \in Int : a <= b => Ticks(t, a) <= Ticks(t, b)
<1>1. CASE t = "video"
  BY <1>1 DEF Ticks
<1>2. CASE t = "audio"
  <2>1. \A m : Ticks(t, m) = AudioTicks(m)
    BY <1>2 DEF Ticks
  <2>2. t # "video"
    BY <1>2
  <2> QED BY <2>1, <2>2, AudioTicksType
<1> QED BY <1>1, <1>2 DEF Kinds

\* The tick after what a player reads of the segment.
NextOf(t) == IF open[t] = <<>> THEN grid[t] ELSE NextTick(FragmentOf(t))

\* Samples in the order of their times.
InOrder(o) ==
  \A k \in 1..Len(o) : o[k].dts >= 0 /\ \A j \in 1..k : o[j].dts <= o[k].dts

\* What a player reads follows on from a tick, or from the first sample's time
\* where that is later, in a row and up to the next tick: video by its samples'
\* times, audio by nominal frames.
FollowsOn(t, o, new, tick, base, next) ==
  /\ base \in Int /\ next \in Int
  /\ base >= tick /\ base >= Ticks(t, o[1].dts) /\ (base = tick \/ base = Ticks(t, o[1].dts))
  /\ new[1].time = base /\ next >= base
  /\ \A k \in 1..Len(new) - 1 : new[k].time + new[k].duration <= new[k + 1].time
  /\ new[Len(new)].time + new[Len(new)].duration = next
  /\ \A k \in 1..Len(new) : new[k].first = (k = 1)
  /\ t = "video" => \A k \in 1..Len(o) : new[k].time = base + (o[k].dts - o[1].dts)
  /\ t = "video" => next = base + (o[Len(o)].dts - o[1].dts) + VideoFrame
  /\ t = "audio" => next = base + FrameSamples * Len(o)

\* What a player reads of a fragment, in general.
LEMMA FragmentRow ==
  ASSUME NEW f \in Fragment, Len(f.samples) >= 1
  PROVE  LET r == ReadAs(f)
             d == Durations(f)
             n == Len(f.samples)
         IN  /\ n \in Nat /\ Len(r) = n /\ d \in Seq(Int) /\ Len(d) = n
             /\ r[1].time = f.base /\ f.base \in Int /\ NextTick(f) \in Int
             /\ \A k \in 1..n - 1 : r[k].time + r[k].duration <= r[k + 1].time
             /\ r[n].time + r[n].duration = NextTick(f)
             /\ NextTick(f) = f.base + UpTo(d, n)
             /\ \A k \in 1..n : r[k].first = (k = 1) /\ r[k].time = f.base + UpTo(d, k - 1)
             /\ \A k \in 1..n : d[k] = f.samples[k].duration /\ d[k] \in Int
             /\ UpTo(d, n) = UpTo(d, n - 1) + d[n] /\ UpTo(d, n - 1) \in Int
<1> DEFINE r == ReadAs(f)
           d == Durations(f)
           n == Len(f.samples)
<1>1. n \in Nat /\ n >= 1
  BY PartsType
<1>2. Len(r) = n /\ d \in Seq(Int) /\ Len(d) = n
  BY ReadType
<1>3. /\ UpTo(d, 0) = 0 /\ UpTo(d, n) = Total(d)
      /\ \A m \in 0..n : UpTo(d, m) \in Int
      /\ \A m \in 1..n : UpTo(d, m) = UpTo(d, m - 1) + d[m]
  BY <1>2, UpToSteps
<1>4. \A k \in 1..n : /\ r[k].time = f.base + UpTo(d, k - 1) /\ r[k].first = (k = 1)
                      /\ r[k].time + r[k].duration = f.base + UpTo(d, k)
                      /\ d[k] = f.samples[k].duration /\ d[k] \in Int
  BY ReadTimes
<1>5. NextTick(f) = f.base + Total(d) /\ NextTick(f) \in Int /\ f.base \in Int
  BY NextTickType DEF Fragment
<1> HIDE DEF r, d, n
<1>6. 1 \in 1..n /\ n \in 1..n /\ 1 - 1 = 0 /\ n - 1 \in 0..n
  BY <1>1
<1>7. r[1].time = f.base
  <2>1. r[1].time = f.base + UpTo(d, 1 - 1)
    BY <1>4, <1>6
  <2> QED BY <1>3, <1>5, <1>6, <2>1
<1>8. r[n].time + r[n].duration = NextTick(f)
  BY <1>3, <1>4, <1>5, <1>6
<1>9. \A k \in 1..n - 1 : r[k].time + r[k].duration <= r[k + 1].time
  <2> SUFFICES ASSUME NEW k \in 1..n - 1
               PROVE  r[k].time + r[k].duration <= r[k + 1].time
    OBVIOUS
  <2> DEFINE j == k + 1
             a == r[k].time + r[k].duration
             b == r[j].time
  <2>1. k \in 1..n /\ j \in 1..n /\ j - 1 = k /\ k \in 0..n
    BY <1>1
  <2> HIDE DEF j
  <2>2. b = f.base + UpTo(d, j - 1) /\ a = f.base + UpTo(d, k)
    BY <1>4, <2>1
  <2>3. a = b /\ a \in Int
    BY <1>3, <1>5, <2>1, <2>2
  <2> HIDE DEF a, b
  <2>4. a <= b
    BY <2>3
  <2> QED BY <2>4 DEF a, b, j
<1> QED BY <1>1, <1>2, <1>3, <1>4, <1>5, <1>6, <1>7, <1>8, <1>9 DEF r, d, n

\* What a player reads of the segment's video.
LEMMA VideoTimes ==
  ASSUME TypeInv, GridType, open.video # <<>>, InOrder(open.video)
  PROVE  FollowsOn("video", open.video, ReadAs(VideoFragment), grid.video, VideoFragment.base,
                   NextTick(VideoFragment))
<1> DEFINE f == VideoFragment
           o == open.video
           r == ReadAs(f)
           d == Durations(f)
           n == Len(o)
           base == f.base
           next == NextTick(f)
           tick == grid.video
           x == [k \in 1..n |-> o[k].dts]
           u == 1
           t == "video"
<1>1. f \in Fragment /\ Len(f.samples) = n /\ base = Larger(tick, Larger(o[1].dts, 0))
      /\ \A k \in 1..n : f.samples[k].duration = VideoDuration(o, k)
  BY VideoFragmentType
<1>2. n \in Nat /\ n >= 1 /\ \A k \in 1..n : o[k].dts \in Int
  BY OpenSamples DEF Kinds
<1>3. /\ Len(r) = n /\ d \in Seq(Int) /\ Len(d) = n
      /\ r[1].time = base /\ base \in Int /\ next \in Int
      /\ \A k \in 1..n - 1 : r[k].time + r[k].duration <= r[k + 1].time
      /\ r[n].time + r[n].duration = next
      /\ next = base + UpTo(d, n)
      /\ \A k \in 1..n : r[k].first = (k = 1) /\ r[k].time = base + UpTo(d, k - 1)
      /\ \A k \in 1..n : d[k] = f.samples[k].duration /\ d[k] \in Int
      /\ UpTo(d, n) = UpTo(d, n - 1) + d[n] /\ UpTo(d, n - 1) \in Int
  BY <1>1, <1>2, FragmentRow
<1>4. \A k \in 1..n : o[k].dts >= 0 /\ \A j \in 1..k : o[j].dts <= o[k].dts
  BY DEF InOrder
<1>5. 1 \in 1..n /\ n \in 1..n /\ (\A k \in 1..n - 1 : k \in 1..n /\ k + 1 \in 1..n /\ k \in 1..k + 1 /\ k # n)
      /\ 1 \in 1..n
  BY <1>2
<1>6. tick \in Int
  BY DEF GridType
<1> HIDE DEF f, o, r, d, n, base, next, tick
<1>7. \A k \in 1..n : x[k] = o[k].dts
  OBVIOUS
<1> HIDE DEF x
<1>8. Larger(o[1].dts, 0) = o[1].dts
  <2>1. o[1].dts >= 0
    BY <1>4, <1>5
  <2> QED BY <2>1 DEF Larger
<1>9. base >= tick /\ base >= o[1].dts /\ (base = tick \/ base = o[1].dts)
  <2>1. o[1].dts \in Int
    BY <1>2, <1>5
  <2> DEFINE a == o[1].dts
  <2>2. base = Larger(tick, a) /\ a \in Int
    BY <1>1, <1>8, <2>1
  <2> HIDE DEF a
  <2>3. base >= tick /\ base >= a /\ (base = tick \/ base = a)
    BY <1>6, <2>2 DEF Larger
  <2> QED BY <2>3 DEF a
<1>10. \A k \in 1..n - 1 : d[k] = x[k + 1] - x[k]
  <2> SUFFICES ASSUME NEW k \in 1..n - 1 PROVE d[k] = x[k + 1] - x[k]
    OBVIOUS
  <2> DEFINE j == k + 1
  <2>1. k \in 1..n /\ j \in 1..n /\ k \in 1..j /\ k # n
    BY <1>5
  <2>2. d[k] = VideoDuration(o, k)
    BY <1>1, <1>3, <2>1
  <2>3. VideoDuration(o, k) = Larger(o[j].dts - o[k].dts, 0)
    BY <2>1 DEF VideoDuration, n
  <2> HIDE DEF j
  <2>4. o[k].dts <= o[j].dts /\ o[k].dts \in Int /\ o[j].dts \in Int
    BY <1>2, <1>4, <2>1
  <2>5. o[j].dts - o[k].dts >= 0
    BY <2>4
  <2>6. Larger(o[j].dts - o[k].dts, 0) = o[j].dts - o[k].dts
    BY <2>5 DEF Larger
  <2>7. d[k] = x[j] - x[k]
    BY <1>7, <2>1, <2>2, <2>3, <2>6
  <2> QED BY <2>7 DEF j
<1>11. \A k \in 1..n : UpTo(d, k - 1) = x[k] - x[1]
  <2>1. n = Len(d) /\ d \in Seq(Int) /\ \A k \in 1..n : x[k] \in Int
    BY <1>2, <1>3, <1>7
  <2> QED BY <1>10, <2>1, SumsOfGaps
<1>12. \A k \in 1..n : r[k].time = base + (o[k].dts - o[1].dts)
  BY <1>3, <1>5, <1>7, <1>11
<1>13. d[n] = VideoFrame
  BY <1>1, <1>3, <1>5 DEF VideoDuration, n
<1>14. next = base + (o[n].dts - o[1].dts) + VideoFrame
  <2>1. UpTo(d, n - 1) = o[n].dts - o[1].dts
    BY <1>5, <1>7, <1>11
  <2>2. VideoFrame \in Int /\ o[n].dts \in Int /\ o[1].dts \in Int
    BY <1>2, <1>5, TimeAssumption
  <2> QED BY <1>3, <1>13, <2>1, <2>2
<1>15. next >= base
  <2>1. o[1].dts <= o[n].dts /\ o[1].dts \in Int /\ o[n].dts \in Int
    <3>1. 1 \in 1..n
      BY <1>5
    <3> QED BY <1>2, <1>4, <1>5, <3>1
  <2>2. VideoFrame \in Int /\ VideoFrame >= 0
    BY TimeAssumption
  <2> QED BY <1>3, <1>14, <2>1, <2>2
<1>16. Ticks(t, o[1].dts) = o[1].dts
  BY DEF Ticks
<1>17. base >= Ticks(t, o[1].dts) /\ (base = tick \/ base = Ticks(t, o[1].dts))
  BY <1>9, <1>16
<1>18. t = "audio" => next = base + FrameSamples * Len(o)
  OBVIOUS
<1>19. FollowsOn(t, o, r, tick, base, next)
  BY <1>3, <1>9, <1>12, <1>14, <1>15, <1>17, <1>18 DEF FollowsOn, n
<1> QED BY <1>19 DEF f, o, r, tick, base, next

\* What a player reads of the segment's audio.
LEMMA AudioTimes ==
  ASSUME TypeInv, GridType, open.audio # <<>>, InOrder(open.audio)
  PROVE  FollowsOn("audio", open.audio, ReadAs(AudioFragment), grid.audio, AudioFragment.base,
                   NextTick(AudioFragment))
<1> DEFINE f == AudioFragment
           o == open.audio
           r == ReadAs(f)
           d == Durations(f)
           n == Len(o)
           base == f.base
           next == NextTick(f)
           tick == grid.audio
           t == "audio"
<1>1. f \in Fragment /\ Len(f.samples) = n /\ base = Larger(tick, AudioTicks(o[1].dts))
      /\ \A k \in 1..n : f.samples[k].duration = FrameSamples
  BY AudioFragmentType
<1>2. n \in Nat /\ n >= 1 /\ \A k \in 1..n : o[k].dts \in Int
  BY OpenSamples DEF Kinds
<1>3. /\ Len(r) = n /\ d \in Seq(Int) /\ Len(d) = n
      /\ r[1].time = base /\ base \in Int /\ next \in Int
      /\ \A k \in 1..n - 1 : r[k].time + r[k].duration <= r[k + 1].time
      /\ r[n].time + r[n].duration = next
      /\ next = base + UpTo(d, n)
      /\ \A k \in 1..n : r[k].first = (k = 1) /\ r[k].time = base + UpTo(d, k - 1)
      /\ \A k \in 1..n : d[k] = f.samples[k].duration /\ d[k] \in Int
  BY <1>1, <1>2, FragmentRow
<1>4. o[1].dts >= 0 /\ o[1].dts \in Int
  <2>1. 1 \in 1..Len(o)
    BY <1>2
  <2> QED BY <1>2, <2>1 DEF InOrder
<1>5. tick \in Int /\ FrameSamples \in Nat
  BY TimeAssumption DEF GridType
<1> HIDE DEF f, o, r, d, n, base, next, tick
<1> DEFINE a == AudioTicks(o[1].dts)
<1>8. base = Larger(tick, a) /\ a \in Int
  BY <1>1, <1>4, AudioTicksType
<1>9. base >= tick /\ base >= a /\ (base = tick \/ base = a)
  <2> HIDE DEF a
  <2> QED BY <1>5, <1>8 DEF Larger
<1>10. base >= Ticks(t, o[1].dts) /\ (base = tick \/ base = Ticks(t, o[1].dts))
  BY <1>9 DEF Ticks
<1>11. UpTo(d, n) = FrameSamples * n
  <2>1. \A k \in 1..Len(d) : d[k] = FrameSamples
    BY <1>1, <1>3
  <2>2. d \in Seq(Int) /\ Len(d) = n /\ FrameSamples \in Int
    BY <1>3, <1>5
  <2>3. UpTo(d, Len(d)) = FrameSamples * Len(d)
    BY <2>1, <2>2, SumsOfSame
  <2> QED BY <2>2, <2>3
<1>12. FrameSamples * n \in Int /\ FrameSamples * n >= 0
  <2> DEFINE c == FrameSamples
  <2>1. c \in Nat /\ n \in Nat
    BY <1>2, <1>5
  <2> HIDE DEF c
  <2> QED BY <2>1, SMT DEF c
<1>13. next = base + FrameSamples * n /\ next >= base
  BY <1>3, <1>11, <1>12
<1>14. t # "video"
  OBVIOUS
<1>15. FollowsOn(t, o, r, tick, base, next)
  BY <1>3, <1>9, <1>10, <1>13, <1>14 DEF FollowsOn, n
<1> QED BY <1>15 DEF f, o, r, tick, base, next

\* What a player reads of a track of the segment, when it holds any.
LEMMA OpenTimes ==
  ASSUME TypeInv, GridType, NEW t \in Kinds, open[t] # <<>>, InOrder(open[t])
  PROVE  \E base : FollowsOn(t, open[t], NewShown(t), grid[t], base, NextOf(t))
<1>1. NewShown(t) = ReadAs(FragmentOf(t)) /\ NextOf(t) = NextTick(FragmentOf(t))
  BY FragmentRead DEF NextOf
<1>2. CASE t = "video"
  <2>1. FragmentOf(t) = VideoFragment
    BY <1>2 DEF FragmentOf
  <2>2. FollowsOn("video", open.video, ReadAs(VideoFragment), grid.video, VideoFragment.base,
                  NextTick(VideoFragment))
    BY <1>2, VideoTimes
  <2> QED BY <1>1, <1>2, <2>1, <2>2
<1>3. CASE t = "audio"
  <2>1. FragmentOf(t) = AudioFragment
    BY <1>3 DEF FragmentOf
  <2>2. FollowsOn("audio", open.audio, ReadAs(AudioFragment), grid.audio, AudioFragment.base,
                  NextTick(AudioFragment))
    BY <1>3, AudioTimes
  <2> QED BY <1>1, <1>3, <2>1, <2>2
<1> QED BY <1>2, <1>3 DEF Kinds

-----------------------------------------------------------------------------
(***************************************************************************)
(* The grid: the tick after the last segment.                              *)
(***************************************************************************)
\* The grid moves when the open segment is taken, and only then.
LEMMA GridMoves ==
  ASSUME TypeInv, GridType, [Next]_vars, NEW t \in Kinds
  PROVE  /\ grid[t] \in Int /\ grid'[t] \in Int
         /\ \/ ~Stores /\ grid'[t] = grid[t]
            \/ pc = "close" /\ grid'[t] = NextOf(t) /\ (Stores \/ pc' = "failed")
<1>1. GridType' /\ (grid' = grid \/ WriteSegment)
  BY GridStep
<1>2. grid[t] \in Int /\ grid'[t] \in Int
  BY <1>1 DEF GridType, Kinds
<1>3. CASE WriteSegment
  <2>1. pc = "close" /\ (pc' = "prune" \/ pc' = "failed")
    BY <1>3, WriteSegmentEffect
  <2>2. grid'[t] = NextOf(t)
    BY <1>3 DEF WriteSegment, NextOf, FragmentOf, Kinds
  <2>3. pc' = "prune" => Stores
    <3>1. SUFFICES ASSUME pc' = "prune" PROVE Stores
      OBVIOUS
    <3>2. /\ files' = FilesOf(files.init, files.segments \cup {Segment}, files.playlist)
          /\ rolled'.window = Append(rolled.window, [name |-> Segment.name,
                                                     duration |-> SegmentDuration])
          /\ rolled'.sequence = rolled.sequence + 1
          /\ finished' = finished /\ arriving' = arriving
      BY <1>3, <3>1, WriteSegmentEffect
    <3>3. files'.segments = files.segments \cup {Segment} /\ files'.playlist = files.playlist
      BY <3>2, FilesShape
    <3> QED BY <2>1, <3>1, <3>2, <3>3 DEF Stores
  <2> QED BY <1>2, <2>1, <2>2, <2>3
<1>4. CASE ~WriteSegment
  <2>1. ASSUME NEW p \in Shapes, NEW d \in Steps, Packet(p, clock + d)
        PROVE  ~Stores
    BY <2>1 DEF Packet, AcceptsCalls, Stores
  <2>2. ASSUME NEW tracks \in SUBSET Kinds, Codecs(tracks)
        PROVE  ~Stores
    BY <2>2 DEF Codecs, Stores
  <2>3. ASSUME Finish \/ Prune \/ WritePlaylist \/ WriteEnd
        PROVE  ~Stores
    BY <2>3 DEF Finish, AcceptsCalls, Prune, WritePlaylist, WriteEnd, Stores
  <2>4. ASSUME WriteInit \/ UNCHANGED vars
        PROVE  ~Stores
    BY <2>4 DEF WriteInit, StorageFails, vars, Stores
  <2>5. ~Stores
    BY <1>4, <2>1, <2>2, <2>3, <2>4 DEF Next
  <2> QED BY <1>1, <1>2, <1>4, <2>5
<1> QED BY <1>3, <1>4

\* How many samples of a track have left for a segment.
Sent(w, acc) == Len(acc) - Len(w)

\* The open samples are the accepted ones after those, in the order of their
\* times.
OpenAre(o, w, acc) ==
  /\ Sent(w, acc) \in Nat /\ Len(o) \in Nat /\ Sent(w, acc) + Len(o) <= Len(acc)
  /\ \A k \in 1..Len(o) : o[k] = acc[Sent(w, acc) + k] /\ o[k].dts \in Int
  /\ InOrder(o)

\* So they are, before anything failed.
LEMMA OpenInOrder ==
  ASSUME TypeInv, WindowInv, SegInv, AcceptInv, CarryInv, pc # "failed", NEW t \in Kinds
  PROVE  OpenAre(open[t], Waiting(t), accepted[t])
<1> DEFINE o == open[t]
           w == Waiting(t)
           acc == accepted[t]
           shown == Shown(t)
           n == Sent(w, acc)
<1>1. shown \in Seq(Shot) /\ w \in Seq(Sample) /\ o \in Seq(Sample) /\ acc \in Seq(Sample)
  BY ShownType, WaitingType DEF TypeInv
<1>2. Carries(t, shown, w, acc)
  BY DEF CarryInv
<1>3. /\ Len(o) \in Nat /\ Len(acc) \in Nat /\ Len(w) \in Nat /\ Len(shown) \in Nat
      /\ \A i \in 1..Len(acc) : acc[i] \in Sample
  BY <1>1, LenProperties, ElementOfSeq
<1>4. Gone(shown, w, acc) + Len(shown) = n /\ n \in Nat
  <2>1. Gone(shown, w, acc) >= 0 /\ Gone(shown, w, acc) = Len(acc) - Len(shown) - Len(w)
    BY <1>2 DEF Carries, Gone
  <2> QED BY <1>3, <2>1 DEF Sent
<1>5. \A k \in 1..Len(o) : n + k \in 1..Len(acc) /\ o[k] = acc[n + k]
  <2> SUFFICES ASSUME NEW k \in 1..Len(o) PROVE n + k \in 1..Len(acc) /\ o[k] = acc[n + k]
    OBVIOUS
  <2>1. PICK i \in 1..Len(acc) : o[k] = acc[i] /\ i = Gone(shown, w, acc) + Len(shown) + k
    BY <1>1, <1>2, WaitingWas
  <2> QED BY <1>4, <2>1
<1>6. \A i \in 1..Len(acc) : /\ 0 <= acc[i].dts /\ acc[i].dts \in Int
                             /\ \A j \in 1..i : acc[j].dts <= acc[i].dts
  BY <1>3 DEF AcceptInv, Sample
<1> HIDE DEF o, w, acc, shown, n
<1>7. \A k \in 1..Len(o) : \A j \in 1..k : j \in 1..Len(o) /\ n + j \in 1..n + k
  BY <1>3, <1>4
<1>8. n + Len(o) <= Len(acc)
  <2>1. CASE Len(o) = 0
    BY <1>3, <1>4, <2>1 DEF n, Sent
  <2>2. CASE Len(o) # 0
    <3>1. Len(o) \in 1..Len(o)
      BY <1>3, <2>2
    <3> QED BY <1>3, <1>4, <1>5, <3>1
  <2> QED BY <2>1, <2>2
<1>9. \A k \in 1..Len(o) : o[k].dts \in Int /\ o[k].dts >= 0
  BY <1>5, <1>6
<1>10. \A k \in 1..Len(o) : \A j \in 1..k : o[j].dts <= o[k].dts
  BY <1>5, <1>6, <1>7
<1>11. InOrder(o)
  BY <1>9, <1>10 DEF InOrder
<1> QED BY <1>3, <1>4, <1>5, <1>8, <1>9, <1>11 DEF OpenAre, o, w, acc, n

\* The next tick is not before the grid's.
LEMMA NextLater ==
  ASSUME TypeInv, WindowInv, SegInv, AcceptInv, CarryInv, pc # "failed", NEW t \in Kinds
  PROVE  NextOf(t) >= grid[t]
<1>1. grid[t] \in Int
  BY DEF SegInv, GridType, Kinds
<1>2. CASE open[t] = <<>>
  BY <1>1, <1>2 DEF NextOf
<1>3. CASE open[t] # <<>>
  <2>1. InOrder(open[t])
    BY OpenInOrder DEF OpenAre
  <2>2. PICK base : FollowsOn(t, open[t], NewShown(t), grid[t], base, NextOf(t))
    BY <1>3, <2>1, OpenTimes DEF SegInv
  <2>3. base \in Int /\ NextOf(t) \in Int /\ base >= grid[t] /\ NextOf(t) >= base
    BY <2>2 DEF FollowsOn
  <2> QED BY <1>1, <2>3
<1> QED BY <1>2, <1>3

-----------------------------------------------------------------------------
(***************************************************************************)
(* No sample overlaps the next one.                                        *)
(***************************************************************************)
\* Samples in a row that ends by a tick.
InRow(q, to) ==
  /\ \A k \in 1..Len(q) - 1 : q[k].time + q[k].duration <= q[k + 1].time
  /\ \A k \in 1..Len(q) : k = Len(q) => q[k].time + q[k].duration <= to

RowInv == \A t \in Kinds : InRow(Shown(t), grid[t])

\* A row that ends by a tick ends by a later one.
LEMMA RowLater ==
  ASSUME NEW q \in Seq(Shot), NEW a \in Int, NEW b \in Int, a <= b, InRow(q, a)
  PROVE  InRow(q, b)
<1>1. \A k \in 1..Len(q) : q[k].time + q[k].duration \in Int
  <2>1. \A k \in 1..Len(q) : q[k] \in Shot
    BY ElementOfSeq
  <2> QED BY <2>1 DEF Shot
<1>2. \A k \in 1..Len(q) : k = Len(q) => q[k].time + q[k].duration <= a
  BY DEF InRow
<1>3. \A k \in 1..Len(q) : k = Len(q) => q[k].time + q[k].duration <= b
  BY <1>1, <1>2
<1> QED BY <1>3 DEF InRow

\* A row that starts where another one has ended continues it.
LEMMA RowJoin ==
  ASSUME NEW q \in Seq(Shot), NEW new \in Seq(Shot), NEW tick \in Int, NEW next \in Int,
         InRow(q, tick), InRow(new, next), Len(new) >= 1, new[1].time >= tick
  PROVE  InRow(q \o new, next)
<1> DEFINE j == q \o new
           n == Len(q)
           m == Len(new)
           end(r, k) == r[k].time + r[k].duration
<1>1. n \in Nat /\ m \in Nat /\ m >= 1
  BY LenProperties
<1>2. Len(j) = n + m /\ \A i \in 1..(n + m) : j[i] = IF i <= n THEN q[i] ELSE new[i - n]
  BY ConcatProperties
<1>3. (\A k \in 1..n - 1 : end(q, k) <= q[k + 1].time) /\ \A k \in 1..n : k = n => end(q, k) <= tick
  BY DEF InRow
<1>4. (\A k \in 1..m - 1 : end(new, k) <= new[k + 1].time) /\ \A k \in 1..m : k = m => end(new, k) <= next
  BY DEF InRow
<1>5. \A k \in 1..n : q[k].time \in Int /\ q[k].duration \in Int
  <2>1. \A k \in 1..n : q[k] \in Shot
    BY ElementOfSeq
  <2> QED BY <2>1 DEF Shot
<1>6. new[1].time \in Int /\ new[1].time >= tick
  <2>1. 1 \in 1..m
    BY <1>1
  <2>2. new[1] \in Shot
    BY <2>1, ElementOfSeq
  <2> QED BY <2>2 DEF Shot
<1> HIDE DEF j, n, m
<1>7. ASSUME NEW k \in 1..(n + m) - 1 PROVE end(j, k) <= j[k + 1].time
  <2> DEFINE l == k + 1
  <2>1. CASE k < n
    <3>1. k \in 1..n - 1 /\ k \in 1..(n + m) /\ l \in 1..(n + m) /\ k <= n /\ l <= n
      BY <1>1, <2>1
    <3> HIDE DEF l
    <3>2. j[k] = q[k] /\ j[l] = q[l]
      BY <1>2, <3>1
    <3>3. end(q, k) <= q[l].time
      BY <1>3, <3>1 DEF l
    <3> QED BY <3>2, <3>3 DEF l
  <2>2. CASE k = n
    <3>1. k \in 1..n /\ k \in 1..(n + m) /\ l \in 1..(n + m) /\ k <= n /\ ~(l <= n) /\ l - n = 1
      BY <1>1, <2>2
    <3> HIDE DEF l
    <3>2. j[k] = q[k] /\ j[l] = new[1]
      BY <1>2, <3>1
    <3>3. end(q, k) <= tick /\ end(q, k) \in Int
      BY <1>3, <1>5, <2>2, <3>1
    <3>4. end(q, k) <= new[1].time
      BY <1>6, <3>3
    <3> QED BY <3>2, <3>4 DEF l
  <2>3. CASE k > n
    <3> DEFINE a == k - n
               b == a + 1
    <3>1. /\ k \in 1..(n + m) /\ l \in 1..(n + m) /\ ~(k <= n) /\ ~(l <= n)
          /\ l - n = b /\ a \in 1..m - 1
      BY <1>1, <2>3
    <3>2. j[k] = new[a]
      BY <1>2, <3>1
    <3> HIDE DEF l, b
    <3>3. j[l] = new[b]
      BY <1>2, <3>1
    <3> HIDE DEF a
    <3>4. end(new, a) <= new[b].time
      BY <1>4, <3>1 DEF b
    <3> QED BY <3>2, <3>3, <3>4 DEF l
  <2> QED BY <1>1, <2>1, <2>2, <2>3
<1>8. ASSUME NEW k \in 1..(n + m), k = n + m PROVE end(j, k) <= next
  <2>1. ~(k <= n) /\ k - n = m /\ m \in 1..m
    BY <1>1, <1>8
  <2>2. j[k] = new[m]
    BY <1>2, <2>1
  <2>3. end(new, m) <= next
    BY <1>4, <2>1
  <2> QED BY <2>2, <2>3
<1> QED BY <1>2, <1>7, <1>8 DEF InRow, j

\* What is left of a row is one.
LEMMA RowRest ==
  ASSUME NEW head \in Seq(Shot), NEW rest \in Seq(Shot), NEW to, InRow(head \o rest, to)
  PROVE  InRow(rest, to)
<1> DEFINE q == head \o rest
           h == Len(head)
           n == Len(rest)
           end(r, k) == r[k].time + r[k].duration
<1>1. h \in Nat /\ n \in Nat
  BY LenProperties
<1>2. Len(q) = h + n /\ \A i \in 1..(h + n) : q[i] = IF i <= h THEN head[i] ELSE rest[i - h]
  BY ConcatProperties
<1>3. (\A k \in 1..Len(q) - 1 : end(q, k) <= q[k + 1].time) /\ \A k \in 1..Len(q) : k = Len(q) => end(q, k) <= to
  BY DEF InRow
<1> HIDE DEF q, h, n
<1>4. \A k \in 1..n : h + k \in 1..(h + n) /\ ~(h + k <= h) /\ (h + k) - h = k
  BY <1>1
<1>5. \A k \in 1..n : q[h + k] = rest[k]
  BY <1>2, <1>4
<1>6. ASSUME NEW k \in 1..n - 1 PROVE end(rest, k) <= rest[k + 1].time
  <2> DEFINE l == k + 1
             a == h + k
             b == h + l
  <2>1. k \in 1..n /\ l \in 1..n /\ a \in 1..(h + n) - 1 /\ a + 1 = b
    BY <1>1
  <2>2. q[a] = rest[k] /\ q[b] = rest[l]
    BY <1>5, <2>1
  <2> HIDE DEF l, a, b
  <2>3. end(q, a) <= q[b].time
    BY <1>2, <1>3, <2>1
  <2> QED BY <2>2, <2>3 DEF l
<1>7. ASSUME NEW k \in 1..n, k = n PROVE end(rest, k) <= to
  <2> DEFINE a == h + k
  <2>1. a \in 1..(h + n) /\ a = h + n
    BY <1>1, <1>7
  <2>2. q[a] = rest[k]
    BY <1>5
  <2> HIDE DEF a
  <2>3. end(q, a) <= to
    BY <1>2, <1>3, <2>1
  <2> QED BY <2>2, <2>3
<1> QED BY <1>6, <1>7 DEF InRow, n

\* Every step keeps the samples in a row.
LEMMA RowStep ==
  ASSUME TypeInv, WindowInv, SegInv, AcceptInv, CarryInv, RowInv, [Next]_vars
  PROVE  RowInv'
<1> SUFFICES ASSUME NEW t \in Kinds PROVE InRow(Shown(t)', grid'[t])
  BY DEF RowInv
<1> DEFINE shown == Shown(t)
           next == Shown(t)'
           tick == grid[t]
           to == grid'[t]
<1>1. InRow(shown, tick)
  BY DEF RowInv
<1>2. /\ tick \in Int /\ to \in Int
      /\ \/ ~Stores /\ to = tick
         \/ pc = "close" /\ to = NextOf(t) /\ (Stores \/ pc' = "failed")
  BY GridMoves DEF SegInv
<1>3. /\ shown \in Seq(Shot) /\ next \in Seq(Shot)
      /\ \/ ~Stores /\ next = shown
         \/ Stores /\ next = shown \o NewShown(t)
         \/ Removes /\ \E head \in Seq(Shot) : shown = head \o next
  BY ShownStep
<1>4. tick <= to
  <2>1. CASE to = tick
    BY <1>2, <2>1
  <2>2. CASE pc = "close" /\ to = NextOf(t)
    BY <2>2, NextLater
  <2> QED BY <1>2, <2>1, <2>2
<1>5. InRow(shown, to)
  <2> HIDE DEF shown, tick, to
  <2> QED BY <1>1, <1>2, <1>3, <1>4, RowLater
<1>6. CASE ~Stores /\ next = shown
  BY <1>5, <1>6
<1>7. CASE Removes
  <2>1. rolled'.sequence = rolled.sequence /\ rolled.sequence \in Nat
    BY <1>7, RolledType DEF Removes
  <2>2. ~Stores
    BY <2>1 DEF Stores
  <2>3. ASSUME NEW head \in Seq(Shot), shown = head \o next PROVE InRow(next, to)
    <3> HIDE DEF shown, next, tick, to
    <3>1. InRow(head \o next, to)
      BY <1>5, <2>3
    <3> QED BY <1>3, <3>1, RowRest
  <2> QED BY <1>3, <1>6, <2>2, <2>3
<1>8. CASE Stores /\ next = shown \o NewShown(t)
  <2>1. pc = "close" /\ to = NextOf(t)
    BY <1>2, <1>8 DEF Stores
  <2>2. CASE open[t] = <<>>
    <3>1. NewShown(t) = <<>>
      BY <2>2, NothingRead
    <3>2. next = shown
      BY <1>3, <1>8, <3>1, ConcatEmptySeq
    <3> QED BY <1>5, <3>2
  <2>3. CASE open[t] # <<>>
    <3>1. InOrder(open[t])
      BY <2>1, OpenInOrder DEF OpenAre
    <3>2. PICK base : FollowsOn(t, open[t], NewShown(t), grid[t], base, NextOf(t))
      BY <2>3, <3>1, OpenTimes DEF SegInv
    <3> DEFINE new == NewShown(t)
    <3>3. new \in Seq(Shot) /\ Len(new) = Len(open[t]) /\ Len(new) >= 1
      <4>1. /\ NewShown(t) \in Seq(Shot) /\ Len(NewShown(t)) = Len(open[t])
        BY OpenShown DEF SegInv
      <4>2. Len(open[t]) >= 1
        BY <2>3, OpenSamples
      <4> QED BY <4>1, <4>2
    <3>4. /\ base \in Int /\ base >= tick /\ new[1].time = base
          /\ \A k \in 1..Len(new) - 1 : new[k].time + new[k].duration <= new[k + 1].time
          /\ new[Len(new)].time + new[Len(new)].duration = NextOf(t)
      BY <3>2 DEF FollowsOn
    <3>5. InRow(new, to)
      <4> HIDE DEF new, to
      <4> QED BY <1>2, <2>1, <3>4 DEF InRow
    <3> HIDE DEF new, shown, next, tick, to
    <3>6. InRow(shown \o new, to)
      BY <1>1, <1>2, <1>3, <3>3, <3>4, <3>5, RowJoin
    <3> QED BY <1>8, <3>6 DEF new, shown, next, to
  <2> QED BY <2>2, <2>3
<1> QED BY <1>3, <1>6, <1>7, <1>8

-----------------------------------------------------------------------------
(***************************************************************************)
(* The clock.                                                              *)
(***************************************************************************)
\* What the guesses made so far may add to a timestamp: a default frame for each
\* segment of video, a nominal frame for each sample of audio before.
Guessed(t, segments, before) ==
  IF t = "video" THEN VideoFrame * segments ELSE FrameSamples * before

OnTime(t, shot, s, segments, before) ==
  /\ Ticks(t, s.dts) <= shot.time
  /\ shot.time <= Ticks(t, s.dts) + Guessed(t, segments, before)

\* Each sample that is shown, but for audio inside its segment, is on time.
Punctual(t, shown, g, acc, segments) ==
  \A k \in 1..Len(shown) :
    t = "video" \/ shown[k].first => OnTime(t, shown[k], acc[g + k], segments, g + k - 1)

\* The time of the last of a track's first samples.
TimeOf(acc, n) == IF n = 0 THEN 0 ELSE acc[n].dts

\* The grid is ahead of the samples that have left by no more than the guesses.
NotAhead(t, tick, n, acc, segments) ==
  tick <= Ticks(t, TimeOf(acc, n)) + Guessed(t, segments, n)

ClockInv ==
  pc # "failed" => \A t \in Kinds :
    LET w == Waiting(t)
        acc == accepted[t]
    IN  /\ Punctual(t, Shown(t), Gone(Shown(t), w, acc), acc, rolled.sequence)
        /\ NotAhead(t, grid[t], Sent(w, acc), acc, rolled.sequence)

\* Guesses only grow, by a frame for each segment of video.
LEMMA GuessedGrows ==
  ASSUME NEW t \in Kinds, NEW segments \in Nat, NEW n \in Nat
  PROVE  /\ Guessed(t, segments, n) \in Int /\ Guessed(t, segments, n) >= 0
         /\ Guessed(t, segments + 1, n) \in Int
         /\ Guessed(t, segments + 1, n) >= Guessed(t, segments, n)
         /\ t = "video" => \A i \in Nat : Guessed(t, segments + 1, i) = Guessed(t, segments, n) + VideoFrame
         /\ t = "video" => \A i \in Nat : Guessed(t, segments, i) = Guessed(t, segments, n)
         /\ t = "audio" => \A i \in Nat : Guessed(t, i, n) = Guessed(t, segments, n)
<1>1. VideoFrame \in Nat /\ FrameSamples \in Nat
  BY TimeAssumption
<1> DEFINE v == VideoFrame
           f == FrameSamples
<1>3. v \in Nat /\ f \in Nat
  BY <1>1
<1> HIDE DEF v, f
<1>4. v * segments \in Nat /\ v * (segments + 1) = v * segments + v
  BY <1>3, SMT
<1>5. f * n \in Nat
  BY <1>3, SMT
<1>6. CASE t = "video"
  <2>1. \A i, k : Guessed(t, i, k) = v * i
    BY <1>6 DEF Guessed, v
  <2>2. v * (segments + 1) >= v * segments
    BY <1>3, <1>4
  <2>3. t # "audio"
    BY <1>6
  <2> QED BY <1>3, <1>4, <2>1, <2>2, <2>3 DEF v
<1>7. CASE t = "audio"
  <2>1. \A i, k : Guessed(t, i, k) = f * k
    BY <1>7 DEF Guessed, f
  <2>2. t # "video"
    BY <1>7
  <2>3. f * n \in Int /\ f * n >= 0
    BY <1>5
  <2> QED BY <1>5, <2>1, <2>2, <2>3 DEF f
<1> QED BY <1>6, <1>7 DEF Kinds

\* On time is on time when more guesses are allowed.
LEMMA PunctualLater ==
  ASSUME NEW t \in Kinds, NEW shown \in Seq(Shot), NEW g \in Nat, NEW acc \in Seq(Sample),
         NEW segments \in Nat, g + Len(shown) <= Len(acc), Punctual(t, shown, g, acc, segments)
  PROVE  Punctual(t, shown, g, acc, segments + 1)
<1> SUFFICES ASSUME NEW k \in 1..Len(shown), t = "video" \/ shown[k].first
             PROVE  OnTime(t, shown[k], acc[g + k], segments + 1, g + k - 1)
  BY DEF Punctual
<1> DEFINE s == acc[g + k]
           r == shown[k]
           i == g + k
           m == i - 1
           x == Ticks(t, s.dts)
           a == Guessed(t, segments, m)
           b == Guessed(t, segments + 1, m)
<1>1. Len(shown) \in Nat /\ Len(acc) \in Nat
  BY LenProperties
<1>2. i \in 1..Len(acc) /\ m \in Nat
  BY <1>1
<1>3. s.dts \in Int /\ r.time \in Int
  <2>1. s \in Sample
    <3> HIDE DEF i
    <3> QED BY <1>2, ElementOfSeq DEF i
  <2>2. r \in Shot
    BY ElementOfSeq
  <2> QED BY <2>1, <2>2 DEF Sample, Shot
<1>4. OnTime(t, r, s, segments, m)
  BY DEF Punctual
<1> HIDE DEF m, s, r, i
<1>5. a \in Int /\ b \in Int /\ b >= a
  BY <1>2, GuessedGrows
<1>6. x \in Int
  BY <1>3, TicksGrow
<1>7. x <= r.time /\ r.time <= x + a
  BY <1>4 DEF OnTime
<1> HIDE DEF x, a, b
<1>8. r.time <= x + b
  BY <1>3, <1>5, <1>6, <1>7
<1>9. OnTime(t, r, s, segments + 1, m)
  BY <1>7, <1>8 DEF OnTime, x, b
<1> QED BY <1>9 DEF r, s, m, i

\* A sample is accepted.
LEMMA PunctualMore ==
  ASSUME NEW t, NEW shown \in Seq(Shot), NEW g \in Nat, NEW acc \in Seq(Sample), NEW s \in Sample,
         NEW segments, g + Len(shown) <= Len(acc), Punctual(t, shown, g, acc, segments)
  PROVE  Punctual(t, shown, g, Append(acc, s), segments)
<1> DEFINE new == Append(acc, s)
<1>1. Len(shown) \in Nat /\ Len(acc) \in Nat
  BY LenProperties
<1>2. \A k \in 1..Len(acc) : new[k] = acc[k]
  BY AppendProperties
<1> HIDE DEF new
<1>3. \A k \in 1..Len(shown) : g + k \in 1..Len(acc)
  BY <1>1
<1>4. \A k \in 1..Len(shown) : new[g + k] = acc[g + k]
  BY <1>2, <1>3
<1> QED BY <1>4 DEF Punctual, new

\* A segment leaves the window.
LEMMA PunctualLess ==
  ASSUME NEW t, NEW shown, NEW rest \in Seq(Shot), NEW h \in Nat, NEW g \in Nat, NEW acc, NEW segments,
         \A k \in 1..Len(rest) : h + k \in 1..Len(shown) /\ rest[k] = shown[h + k],
         Punctual(t, shown, g, acc, segments)
  PROVE  Punctual(t, rest, g + h, acc, segments)
<1> SUFFICES ASSUME NEW k \in 1..Len(rest), t = "video" \/ rest[k].first
             PROVE  OnTime(t, rest[k], acc[(g + h) + k], segments, (g + h) + k - 1)
  BY DEF Punctual
<1> DEFINE j == h + k
           i == g + j
           l == (g + h) + k
<1>1. j \in 1..Len(shown) /\ rest[k] = shown[j]
  OBVIOUS
<1>2. i = l
  BY LenProperties
<1> HIDE DEF j
<1>3. OnTime(t, shown[j], acc[i], segments, i - 1)
  BY <1>1 DEF Punctual
<1> HIDE DEF i, l
<1>4. OnTime(t, rest[k], acc[l], segments, l - 1)
  BY <1>1, <1>2, <1>3
<1> QED BY <1>4 DEF l

\* A segment is closed.
LEMMA PunctualJoin ==
  ASSUME NEW t \in Kinds, NEW shown \in Seq(Shot), NEW new \in Seq(Shot), NEW g \in Nat,
         NEW acc \in Seq(Sample), NEW segments \in Nat, g + Len(shown) <= Len(acc),
         Punctual(t, shown, g, acc, segments),
         \A k \in 1..Len(new) : t = "video" \/ new[k].first =>
           OnTime(t, new[k], acc[g + Len(shown) + k], segments + 1, g + Len(shown) + k - 1)
  PROVE  Punctual(t, shown \o new, g, acc, segments + 1)
<1> DEFINE j == shown \o new
           n == Len(shown)
           m == Len(new)
<1>1. n \in Nat /\ m \in Nat
  BY LenProperties
<1>2. Len(j) = n + m /\ \A i \in 1..(n + m) : j[i] = IF i <= n THEN shown[i] ELSE new[i - n]
  BY ConcatProperties
<1>3. Punctual(t, shown, g, acc, segments + 1)
  BY PunctualLater
<1>4. \A k \in 1..m : t = "video" \/ new[k].first =>
        OnTime(t, new[k], acc[g + n + k], segments + 1, g + n + k - 1)
  OBVIOUS
<1> HIDE DEF j, m
<1> SUFFICES ASSUME NEW k \in 1..(n + m), t = "video" \/ j[k].first
             PROVE  OnTime(t, j[k], acc[g + k], segments + 1, g + k - 1)
  BY <1>2 DEF Punctual, j
<1>5. CASE k <= n
  <2>1. k \in 1..n /\ j[k] = shown[k]
    BY <1>1, <1>2, <1>5
  <2> QED BY <1>3, <2>1 DEF Punctual
<1>6. CASE ~(k <= n)
  <2> DEFINE l == k - n
             i == g + n + l
             p == g + k
  <2>1. l \in 1..m /\ j[k] = new[l] /\ i = p
    BY <1>1, <1>2, <1>6
  <2> HIDE DEF l
  <2>2. OnTime(t, new[l], acc[i], segments + 1, i - 1)
    BY <1>4, <2>1
  <2> HIDE DEF i, p
  <2>3. OnTime(t, j[k], acc[p], segments + 1, p - 1)
    BY <2>1, <2>2
  <2> QED BY <2>3 DEF p
<1> QED BY <1>5, <1>6

\* A product of a sum.
LEMMA Distributes ==
  ASSUME NEW a \in Nat, NEW b \in Nat, NEW c \in Nat
  PROVE  a * (b + c) = a * b + a * c
BY SMT

\* What a player reads of the segment that is closed is on time, and the grid
\* remains no further ahead than the guesses.
LEMMA FreshOnTime ==
  ASSUME NEW t \in Kinds, NEW o, NEW new, NEW tick \in Int, NEW base, NEW next,
         FollowsOn(t, o, new, tick, base, next), InOrder(o),
         NEW acc, NEW n \in Nat, NEW m \in Nat, m = Len(o), m >= 1, NEW segments \in Nat,
         \A k \in 1..m : o[k] = acc[n + k] /\ o[k].dts \in Int,
         TimeOf(acc, n) \in Int, TimeOf(acc, n) <= o[1].dts,
         NotAhead(t, tick, n, acc, segments)
  PROVE  /\ \A k \in 1..m : t = "video" \/ (new[k].first /\ k = 1) =>
              OnTime(t, new[k], acc[n + k], segments + 1, n + k - 1)
         /\ NotAhead(t, next, n + m, acc, segments + 1)
<1> DEFINE x == o[1].dts
           y == o[m].dts
           z == TimeOf(acc, n)
           a == Guessed(t, segments, n)
           all == n + m
<1>1. a \in Int /\ a >= 0
  BY GuessedGrows
<1>2. 1 \in 1..m /\ m \in 1..m
  OBVIOUS
<1>3. x \in Int /\ y \in Int /\ z \in Int /\ z <= x /\ x <= y
  <2>1. x \in Int /\ y \in Int
    BY <1>2
  <2>2. x <= y
    BY <1>2 DEF InOrder
  <2> QED BY <2>1, <2>2
<1>4. Ticks(t, z) \in Int /\ Ticks(t, x) \in Int /\ Ticks(t, y) \in Int /\ Ticks(t, z) <= Ticks(t, x) /\ Ticks(t, x) <= Ticks(t, y)
  <2> HIDE DEF x, y, z
  <2> QED BY <1>3, TicksGrow
<1>5. tick <= Ticks(t, z) + a
  BY DEF NotAhead
<1>6. base \in Int /\ next \in Int /\ base >= Ticks(t, x) /\ (base = tick \/ base = Ticks(t, x))
  BY DEF FollowsOn
<1>7. base <= Ticks(t, x) + a
  <2> DEFINE c == Ticks(t, x)
             d == Ticks(t, z)
  <2>1. c \in Int /\ d \in Int /\ d <= c /\ tick <= d + a /\ (base = tick \/ base = c)
    BY <1>4, <1>5, <1>6
  <2> HIDE DEF c, d, a
  <2>2. base <= c + a
    BY <1>1, <1>6, <2>1
  <2> QED BY <2>2 DEF c
<1>8. TimeOf(acc, all) = y /\ all \in Nat
  <2>1. all # 0 /\ all \in Nat
    OBVIOUS
  <2>2. o[m] = acc[n + m]
    BY <1>2
  <2> QED BY <2>1, <2>2 DEF TimeOf
<1>9. CASE t = "video"
  <2>1. \A i : Ticks(t, i) = i
    BY <1>9 DEF Ticks
  <2>2. /\ \A i \in Nat : Guessed(t, segments + 1, i) = a + VideoFrame
        /\ VideoFrame \in Nat
    BY <1>9, GuessedGrows, TimeAssumption
  <2>3. /\ \A k \in 1..m : new[k].time = base + (o[k].dts - x)
        /\ next = base + (y - x) + VideoFrame
    BY <1>9 DEF FollowsOn
  <2>4. ASSUME NEW k \in 1..m
        PROVE  OnTime(t, new[k], acc[n + k], segments + 1, n + k - 1)
    <3> DEFINE before == n + k - 1
               b == Guessed(t, segments + 1, before)
               v == VideoFrame
               d == o[k].dts
               w == new[k].time
    <3>1. before \in Nat
      OBVIOUS
    <3>2. b = a + v /\ v \in Nat
      <4> HIDE DEF before, a
      <4> QED BY <2>2, <3>1
    <3>3. d \in Int /\ w = base + (d - x)
      BY <2>3
    <3>4. Ticks(t, d) = d
      BY <2>1
    <3>5. base >= x /\ base <= x + a
      BY <1>6, <1>7, <2>1
    <3>6. acc[n + k] = o[k]
      OBVIOUS
    <3> HIDE DEF before, b, v, d, w, x, a
    <3>7. d <= w /\ w <= d + b
      BY <1>1, <1>3, <1>6, <3>2, <3>3, <3>5
    <3>8. Ticks(t, d) <= w /\ w <= Ticks(t, d) + b
      BY <3>4, <3>7
    <3> QED BY <3>6, <3>8 DEF OnTime, before, b, d, w
  <2>5. NotAhead(t, next, all, acc, segments + 1)
    <3> DEFINE b == Guessed(t, segments + 1, all)
               v == VideoFrame
    <3>1. b = a + v /\ v \in Nat
      <4> HIDE DEF all, a
      <4> QED BY <1>8, <2>2
    <3>2. next = base + (y - x) + v /\ base <= x + a
      BY <1>7, <2>1, <2>3
    <3> HIDE DEF all, b, v, x, y, a
    <3>3. next <= y + b
      BY <1>1, <1>3, <1>6, <3>1, <3>2
    <3>4. next <= Ticks(t, y) + b
      BY <2>1, <3>3
    <3>5. Ticks(t, TimeOf(acc, all)) + b = Ticks(t, y) + b
      BY <1>8
    <3> QED BY <3>4, <3>5 DEF NotAhead, b
  <2> QED BY <2>4, <2>5
<1>10. CASE t = "audio"
  <2> DEFINE f == FrameSamples * m
  <2>1. /\ Guessed(t, segments + 1, all) = a + f
        /\ Guessed(t, segments + 1, n) = a
    <3>1. segments + 1 \in Nat
      OBVIOUS
    <3>2. (\A i \in Nat : Guessed(t, i, n + m) = a + f) /\ \A i \in Nat : Guessed(t, i, n) = a
      <4> HIDE DEF a, f
      <4>1. \A i \in Nat : Guessed(t, i, n + m) = Guessed(t, segments, n) + FrameSamples * m
        <5>1. \A i, k : Guessed(t, i, k) = FrameSamples * k
          BY <1>10 DEF Guessed
        <5>2. FrameSamples \in Nat
          BY TimeAssumption
        <5>3. FrameSamples * (n + m) = FrameSamples * n + FrameSamples * m
          BY <5>2, Distributes
        <5> QED BY <5>1, <5>3
      <4>2. \A i \in Nat : Guessed(t, i, n) = Guessed(t, segments, n)
        BY <1>10, GuessedGrows
      <4> QED BY <4>1, <4>2 DEF a, f
    <3> HIDE DEF a, f
    <3> QED BY <3>1, <3>2
  <2>2. f \in Int
    <3>1. FrameSamples \in Nat
      BY TimeAssumption
    <3> QED BY <3>1, SMT
  <2>3. next = base + f /\ new[1].time = base
    BY <1>10 DEF FollowsOn
  <2>4. t # "video"
    BY <1>10
  <2>5. OnTime(t, new[1], acc[n + 1], segments + 1, n)
    <3>1. acc[n + 1] = o[1]
      BY <1>2
    <3> HIDE DEF a
    <3>2. Ticks(t, x) <= new[1].time /\ new[1].time <= Ticks(t, x) + Guessed(t, segments + 1, n)
      BY <1>6, <1>7, <2>1, <2>3
    <3> QED BY <3>1, <3>2 DEF OnTime
  <2>6. ASSUME NEW k \in 1..m, k = 1
        PROVE  OnTime(t, new[k], acc[n + k], segments + 1, n + k - 1)
    <3>1. n + k - 1 = n
      BY <2>6
    <3> QED BY <2>5, <2>6, <3>1
  <2>7. NotAhead(t, next, all, acc, segments + 1)
    <3> DEFINE b == Guessed(t, segments + 1, all)
               c == Ticks(t, x)
               d == Ticks(t, y)
    <3>1. b = a + f /\ c \in Int /\ d \in Int /\ c <= d /\ base <= c + a /\ next = base + f
      BY <1>4, <1>7, <2>1, <2>3
    <3>2. Ticks(t, TimeOf(acc, all)) + b = d + b
      BY <1>8
    <3> HIDE DEF all, b, c, d, a, f
    <3>3. next <= d + b
      BY <1>1, <1>6, <2>2, <3>1
    <3> QED BY <3>2, <3>3 DEF NotAhead, b
  <2> QED BY <2>4, <2>6, <2>7
<1> QED BY <1>9, <1>10 DEF Kinds

\* Only a segment that is stored is numbered.
LEMMA SequenceStep ==
  ASSUME TypeInv, [Next]_vars
  PROVE  /\ rolled.sequence \in Nat
         /\ Stores => rolled'.sequence = rolled.sequence + 1
         /\ ~Stores => rolled'.sequence = rolled.sequence
<1>1. rolled.sequence \in Nat
  BY RolledType
<1>2. Keeps \/ Removes \/ Lists \/ Ends => rolled'.sequence = rolled.sequence
  BY DEF Keeps, Removes, Lists, Ends
<1> QED BY <1>1, <1>2, StepShape DEF Stores

\* The numbers of samples that left and that are gone.
LEMMA Counts ==
  ASSUME NEW t, NEW shown \in Seq(Shot), NEW w \in Seq(Sample), NEW acc \in Seq(Sample),
         Carries(t, shown, w, acc)
  PROVE  /\ Gone(shown, w, acc) \in Nat /\ Len(shown) \in Nat /\ Len(acc) \in Nat
         /\ Sent(w, acc) = Gone(shown, w, acc) + Len(shown)
         /\ Sent(w, acc) \in Nat /\ Sent(w, acc) <= Len(acc)
<1>1. Len(shown) \in Nat /\ Len(w) \in Nat /\ Len(acc) \in Nat
  BY LenProperties
<1>2. Gone(shown, w, acc) >= 0 /\ Gone(shown, w, acc) = Len(acc) - Len(shown) - Len(w)
  BY DEF Carries, Gone
<1> QED BY <1>1, <1>2 DEF Sent

\* The accepted samples' times.
LEMMA TimesOf ==
  ASSUME TypeInv, AcceptInv, NEW t \in Kinds, NEW n \in Nat, n <= Len(accepted[t])
  PROVE  /\ TimeOf(accepted[t], n) \in Int
         /\ \A k \in 1..Len(accepted[t]) :
              n < k => TimeOf(accepted[t], n) <= accepted[t][k].dts
         /\ \A s : TimeOf(Append(accepted[t], s), n) = TimeOf(accepted[t], n)
<1> DEFINE acc == accepted[t]
<1>1. acc \in Seq(Sample)
  BY DEF TypeInv
<1>2. Len(acc) \in Nat /\ \A i \in 1..Len(acc) : acc[i] \in Sample
  BY <1>1, LenProperties, ElementOfSeq
<1>3. \A i \in 1..Len(acc) : /\ 0 <= acc[i].dts /\ acc[i].dts \in Int
                             /\ \A j \in 1..i : acc[j].dts <= acc[i].dts
  BY <1>2 DEF AcceptInv, Sample
<1> HIDE DEF acc
<1>4. n = 0 \/ n \in 1..Len(acc)
  BY DEF acc
<1>5. TimeOf(acc, n) \in Int
  BY <1>3, <1>4 DEF TimeOf
<1>6. ASSUME NEW k \in 1..Len(acc), n < k PROVE TimeOf(acc, n) <= acc[k].dts
  <2>1. CASE n = 0
    BY <1>3, <2>1 DEF TimeOf
  <2>2. CASE n # 0
    <3>1. n \in 1..k
      BY <1>6, <2>2
    <3> QED BY <1>3, <2>2, <3>1 DEF TimeOf
  <2> QED BY <2>1, <2>2
<1>7. ASSUME NEW s PROVE TimeOf(Append(acc, s), n) = TimeOf(acc, n)
  <2>1. CASE n = 0
    BY <2>1 DEF TimeOf
  <2>2. CASE n # 0
    <3>1. n \in 1..Len(acc)
      BY <1>4, <2>2
    <3>2. Append(acc, s)[n] = acc[n]
      BY <1>1, <3>1
    <3> QED BY <2>2, <3>2 DEF TimeOf
  <2> QED BY <2>1, <2>2
<1> QED BY <1>5, <1>6, <1>7 DEF acc

\* The clock of a track, on its parts.
OnClock(t, shown, tick, w, acc, segments) ==
  /\ Punctual(t, shown, Gone(shown, w, acc), acc, segments)
  /\ NotAhead(t, tick, Sent(w, acc), acc, segments)

\* A step that stores no segment leaves the shown samples on time.
LEMMA ClockKept ==
  ASSUME TypeInv, AcceptInv, NEW t \in Kinds, NEW tick, NEW segments,
         NEW shown \in Seq(Shot), NEW next \in Seq(Shot),
         next = shown \/ \E head \in Seq(Shot) : shown = head \o next,
         Carries(t, shown, Waiting(t), accepted[t]),
         OnClock(t, shown, tick, Waiting(t), accepted[t], segments)
  PROVE  /\ OnClock(t, next, tick, Waiting(t), accepted[t], segments)
         /\ \A s \in Sample :
              OnClock(t, next, tick, Append(Waiting(t), s), Append(accepted[t], s), segments)
<1> DEFINE w == Waiting(t)
           acc == accepted[t]
           g == Gone(next, w, acc)
           n == Sent(w, acc)
<1>1. w \in Seq(Sample) /\ acc \in Seq(Sample)
  BY WaitingType DEF TypeInv
<1>2. Carries(t, shown, w, acc) /\ OnClock(t, shown, tick, w, acc, segments)
  OBVIOUS
<1>a. n \in Nat /\ n <= Len(acc) => \A s : TimeOf(Append(acc, s), n) = TimeOf(acc, n)
  BY TimesOf
<1> HIDE DEF w, acc
<1>3. Carries(t, next, w, acc) /\ Punctual(t, next, g, acc, segments)
  <2>1. CASE next = shown
    BY <1>2, <2>1 DEF OnClock
  <2>2. ASSUME NEW head \in Seq(Shot), shown = head \o next
        PROVE  Carries(t, next, w, acc) /\ Punctual(t, next, g, acc, segments)
    <3> DEFINE h == Len(head)
               b == Gone(shown, w, acc)
    <3>1. /\ Carries(t, next, w, acc) /\ g = b + h
          /\ \A k \in 1..Len(next) : h + k \in 1..Len(shown) /\ next[k] = shown[h + k]
      <4> HIDE DEF h, b, g
      <4>1. Carries(t, next, w, acc)
        BY <1>1, <1>2, <2>2, CarriesLess
      <4>2. Gone(next, w, acc) = Gone(shown, w, acc) + Len(head)
        <5>1. Len(shown) = Len(head) + Len(next)
          BY <2>2, ConcatProperties
        <5>2. Len(head) \in Nat /\ Len(next) \in Nat /\ Len(w) \in Nat /\ Len(acc) \in Nat
          BY <1>1, LenProperties
        <5> QED BY <5>1, <5>2 DEF Gone
      <4>3. \A k \in 1..Len(next) : Len(head) + k \in 1..Len(shown) /\ next[k] = shown[Len(head) + k]
        BY <1>1, <1>2, <2>2, CarriesLess
      <4> QED BY <4>1, <4>2, <4>3 DEF h, b, g
    <3>2. h \in Nat /\ b \in Nat
      BY <1>1, <1>2, Counts, LenProperties
    <3>3. Punctual(t, shown, b, acc, segments)
      BY <1>2 DEF OnClock
    <3> HIDE DEF h, b, g
    <3>4. Punctual(t, next, b + h, acc, segments)
      BY <3>1, <3>2, <3>3, PunctualLess
    <3> QED BY <3>1, <3>4
  <2> QED BY <2>1, <2>2
<1>4. NotAhead(t, tick, n, acc, segments)
  BY <1>2 DEF OnClock
<1>5. /\ g \in Nat /\ n \in Nat /\ n = g + Len(next) /\ n <= Len(acc)
  BY <1>1, <1>3, Counts
<1>6. ASSUME NEW s \in Sample
      PROVE  OnClock(t, next, tick, Append(w, s), Append(acc, s), segments)
  <2> DEFINE v == Append(w, s)
             new == Append(acc, s)
  <2>1. Len(v) = Len(w) + 1 /\ Len(new) = Len(acc) + 1 /\ Len(w) \in Nat /\ Len(acc) \in Nat
        /\ Len(next) \in Nat
    BY <1>1, AppendProperties, LenProperties
  <2>2. Gone(next, v, new) = g /\ Sent(v, new) = n
    <3> HIDE DEF v, new
    <3> QED BY <2>1 DEF Gone, Sent
  <2>3. g + Len(next) <= Len(acc) /\ g \in Nat
    BY <1>5
  <2>4. TimeOf(new, n) = TimeOf(acc, n)
    BY <1>5, <1>a
  <2> HIDE DEF g, n
  <2>5. Punctual(t, next, g, new, segments)
    BY <1>1, <1>3, <2>3, PunctualMore
  <2> HIDE DEF v, new
  <2>6. NotAhead(t, tick, n, new, segments)
    BY <1>4, <2>4 DEF NotAhead
  <2>7. OnClock(t, next, tick, v, new, segments)
    BY <2>2, <2>5, <2>6 DEF OnClock
  <2> QED BY <2>7 DEF v, new
<1>7. OnClock(t, next, tick, w, acc, segments)
  BY <1>3, <1>4 DEF OnClock
<1> QED BY <1>6, <1>7 DEF w, acc

\* A segment without samples of the track leaves them on time.
LEMMA NoneClosed ==
  ASSUME TypeInv, AcceptInv, NEW t \in Kinds, NEW tick \in Int, NEW segments \in Nat,
         NEW shown \in Seq(Shot), Carries(t, shown, Waiting(t), accepted[t]),
         OnClock(t, shown, tick, Waiting(t), accepted[t], segments)
  PROVE  OnClock(t, shown, tick, Waiting(t), accepted[t], segments + 1)
<1> DEFINE w == Waiting(t)
           acc == accepted[t]
           g == Gone(shown, w, acc)
           n == Sent(w, acc)
           z == TimeOf(acc, n)
           a == Guessed(t, segments, n)
           b == Guessed(t, segments + 1, n)
           c == Ticks(t, z)
<1>1. w \in Seq(Sample) /\ acc \in Seq(Sample)
  BY WaitingType DEF TypeInv
<1>2. Carries(t, shown, w, acc) /\ OnClock(t, shown, tick, w, acc, segments)
  OBVIOUS
<1>a. n \in Nat /\ n <= Len(acc) => TimeOf(acc, n) \in Int
  BY TimesOf
<1> HIDE DEF w, acc
<1>3. g \in Nat /\ n \in Nat /\ n = g + Len(shown) /\ n <= Len(acc)
  BY <1>1, <1>2, Counts
<1>4. Punctual(t, shown, g, acc, segments + 1)
  <2>1. g + Len(shown) <= Len(acc) /\ g \in Nat
    BY <1>3
  <2>2. Punctual(t, shown, g, acc, segments)
    BY <1>2 DEF OnClock
  <2> HIDE DEF g
  <2> QED BY <1>1, <2>1, <2>2, PunctualLater
<1>5. z \in Int
  BY <1>3, <1>a
<1>6. a \in Int /\ b \in Int /\ b >= a
  BY <1>3, GuessedGrows
<1>7. c \in Int
  BY <1>5, TicksGrow
<1>8. tick <= c + a
  BY <1>2 DEF OnClock, NotAhead
<1>9. tick <= c + b
  <2> HIDE DEF a, b, c
  <2> QED BY <1>6, <1>7, <1>8
<1>10. NotAhead(t, tick, n, acc, segments + 1)
  BY <1>9 DEF NotAhead
<1> QED BY <1>4, <1>10 DEF OnClock, w, acc

\* A segment with samples of the track leaves them on time.
LEMMA SomeClosed ==
  ASSUME TypeInv, WindowInv, SegInv, AcceptInv, CarryInv, pc # "failed", NEW t \in Kinds,
         open[t] # <<>>, NEW v \in Seq(Sample), Waiting(t) = open[t] \o v,
         OnClock(t, Shown(t), grid[t], Waiting(t), accepted[t], rolled.sequence)
  PROVE  OnClock(t, Shown(t) \o NewShown(t), NextOf(t), v, accepted[t], rolled.sequence + 1)
<1> DEFINE shown == Shown(t)
           new == NewShown(t)
           w == Waiting(t)
           acc == accepted[t]
           o == open[t]
           tick == grid[t]
           next == NextOf(t)
           segments == rolled.sequence
           m == Len(o)
           n == Sent(w, acc)
           g == Gone(shown, w, acc)
<1>1. shown \in Seq(Shot) /\ w \in Seq(Sample) /\ o \in Seq(Sample) /\ acc \in Seq(Sample)
  BY ShownType, WaitingType DEF TypeInv
<1>2. Carries(t, shown, w, acc) /\ OnClock(t, shown, tick, w, acc, segments)
  BY DEF CarryInv
<1>3. OpenAre(o, w, acc)
  BY OpenInOrder
<1>4. m \in Nat /\ m >= 1
  BY OpenSamples
<1>5. PICK base : FollowsOn(t, o, new, tick, base, next)
  <2>1. InOrder(open[t])
    BY <1>3 DEF OpenAre
  <2>2. \E base : FollowsOn(t, open[t], NewShown(t), grid[t], base, NextOf(t))
    BY <2>1, OpenTimes DEF SegInv
  <2> QED BY <2>2
<1>6. new \in Seq(Shot) /\ Len(new) = m
  BY OpenShown DEF SegInv
<1>7. tick \in Int /\ segments \in Nat
  BY RolledType DEF SegInv, GridType, Kinds
<1>8. n \in Nat /\ n <= Len(acc) =>
        /\ TimeOf(acc, n) \in Int
        /\ \A k \in 1..Len(acc) : n < k => TimeOf(acc, n) <= acc[k].dts
  BY TimesOf
<1>9. w = o \o v
  OBVIOUS
<1> HIDE DEF shown, new, w, acc, o, tick, next, segments
<1>10. g \in Nat /\ n \in Nat /\ n = g + Len(shown) /\ n <= Len(acc) /\ Len(acc) \in Nat /\ Len(shown) \in Nat
  BY <1>1, <1>2, Counts
<1>11. /\ n + m <= Len(acc) /\ InOrder(o)
       /\ \A k \in 1..m : o[k] = acc[n + k] /\ o[k].dts \in Int
  BY <1>3 DEF OpenAre
<1>12. /\ TimeOf(acc, n) \in Int /\ TimeOf(acc, n) <= o[1].dts
  <2> DEFINE i == n + 1
  <2>1. i \in 1..Len(acc) /\ n < i /\ 1 \in 1..m
    BY <1>4, <1>10, <1>11
  <2>2. o[1] = acc[i]
    BY <1>11, <2>1
  <2> HIDE DEF i
  <2> QED BY <1>8, <1>10, <2>1, <2>2
<1>13. NotAhead(t, tick, n, acc, segments) /\ Punctual(t, shown, g, acc, segments)
  BY <1>2 DEF OnClock
<1>14. /\ \A k \in 1..m : t = "video" \/ (new[k].first /\ k = 1) =>
            OnTime(t, new[k], acc[n + k], segments + 1, n + k - 1)
       /\ NotAhead(t, next, n + m, acc, segments + 1)
  <2> DEFINE l == Len(o)
  <2>1. l = m /\ m >= 1
    BY <1>4
  <2> HIDE DEF m, n
  <2>2. \A k \in 1..m : o[k] = acc[n + k] /\ o[k].dts \in Int
    BY <1>11
  <2> QED BY <1>4, <1>5, <1>7, <1>10, <1>11, <1>12, <1>13, <2>1, <2>2, FreshOnTime
<1>15. \A k \in 1..m : new[k].first = (k = 1)
  BY <1>5, <1>6 DEF FollowsOn
<1>16. Punctual(t, shown \o new, g, acc, segments + 1)
  <2>1. \A k \in 1..Len(new) : t = "video" \/ new[k].first =>
          OnTime(t, new[k], acc[g + Len(shown) + k], segments + 1, g + Len(shown) + k - 1)
    <3> SUFFICES ASSUME NEW k \in 1..Len(new), t = "video" \/ new[k].first
                 PROVE  OnTime(t, new[k], acc[g + Len(shown) + k], segments + 1, g + Len(shown) + k - 1)
      OBVIOUS
    <3> HIDE DEF m, n, g
    <3>1. k \in 1..m /\ (t = "video" \/ (new[k].first /\ k = 1))
      <4>1. k \in 1..m
        BY <1>6
      <4>2. new[k].first = (k = 1)
        BY <1>15, <4>1
      <4> QED BY <4>1, <4>2
    <3>2. OnTime(t, new[k], acc[n + k], segments + 1, n + k - 1)
      BY <1>14, <3>1
    <3> QED BY <1>10, <3>2
  <2>2. g + Len(shown) <= Len(acc) /\ g \in Nat
    BY <1>10
  <2> HIDE DEF m, n, g
  <2> QED BY <1>1, <1>6, <1>7, <1>13, <2>1, <2>2, PunctualJoin
<1>17. Gone(shown \o new, v, acc) = g /\ Sent(v, acc) = n + m
  <2>1. Len(w) = m + Len(v)
    BY <1>1, <1>9, ConcatProperties
  <2>2. Len(shown \o new) = Len(shown) + m
    <3>1. Len(shown \o new) = Len(shown) + Len(new)
      BY <1>1, <1>6, ConcatProperties
    <3> QED BY <1>6, <3>1
  <2>3. Len(v) \in Nat
    BY LenProperties
  <2> QED BY <1>4, <1>10, <2>1, <2>2, <2>3 DEF Gone, Sent
<1>18. OnClock(t, shown \o new, next, v, acc, segments + 1)
  BY <1>14, <1>16, <1>17 DEF OnClock
<1> QED BY <1>18 DEF shown, new, next, acc, segments

\* Every step that does not fail keeps the clock.
LEMMA ClockStep ==
  ASSUME TypeInv, WindowInv, SegInv, AcceptInv, CarryInv, ClockInv, [Next]_vars
  PROVE  ClockInv'
<1> SUFFICES ASSUME pc' # "failed", NEW t \in Kinds
             PROVE  OnClock(t, Shown(t)', grid'[t], Waiting(t)', accepted'[t], rolled'.sequence)
  BY DEF ClockInv, OnClock
<1> DEFINE shown == Shown(t)
           next == Shown(t)'
           w == Waiting(t)
           v == Waiting(t)'
           acc == accepted[t]
           new == accepted'[t]
           tick == grid[t]
           to == grid'[t]
           n == rolled.sequence
<1>1. /\ pc # "failed"
      /\ (~Stores /\ (Waits(t) \/ Takes(t))) \/ (Stores /\ Closes(t))
  BY WaitStep
<1>2. Carries(t, shown, w, acc) /\ OnClock(t, shown, tick, w, acc, n)
  BY <1>1 DEF CarryInv, ClockInv, OnClock
<1>3. /\ shown \in Seq(Shot) /\ next \in Seq(Shot)
      /\ \/ ~Stores /\ next = shown
         \/ Stores /\ next = shown \o NewShown(t)
         \/ Removes /\ \E head \in Seq(Shot) : shown = head \o next
  BY ShownStep
<1>4. /\ tick \in Int
      /\ \/ ~Stores /\ to = tick
         \/ Stores /\ to = NextOf(t)
  BY GridMoves DEF SegInv
<1>5. n \in Nat /\ (Stores => rolled'.sequence = n + 1) /\ (~Stores => rolled'.sequence = n)
  BY SequenceStep
<1>6. CASE ~Stores
  <2>1. next = shown \/ \E head \in Seq(Shot) : shown = head \o next
    BY <1>3, <1>6
  <2>2. /\ OnClock(t, next, tick, w, acc, n)
        /\ \A s \in Sample : OnClock(t, next, tick, Append(w, s), Append(acc, s), n)
    BY <1>2, <1>3, <2>1, ClockKept
  <2>3. to = tick /\ rolled'.sequence = n
    BY <1>4, <1>5, <1>6
  <2>4. CASE Waits(t)
    BY <2>2, <2>3, <2>4 DEF Waits
  <2>5. CASE Takes(t)
    <3>1. PICK s \in Sample : v = Append(w, s) /\ new = Append(acc, s)
      BY <2>5 DEF Takes
    <3>2. OnClock(t, next, tick, Append(w, s), Append(acc, s), n)
      BY <2>2
    <3> HIDE DEF next, tick, w, v, acc, new, to, n
    <3>3. OnClock(t, next, to, v, new, rolled'.sequence)
      BY <2>3, <3>1, <3>2
    <3> QED BY <3>3 DEF next, to, v, new
  <2> QED BY <1>1, <1>6, <2>4, <2>5
<1>7. CASE Stores
  <2>1. next = shown \o NewShown(t) /\ to = NextOf(t) /\ rolled'.sequence = n + 1
    <3>1. ~Removes
      <4>1. rolled.sequence \in Nat
        BY RolledType
      <4> QED BY <1>7, <4>1 DEF Removes, Stores
    <3> QED BY <1>3, <1>4, <1>5, <1>7, <3>1
  <2>2. new = acc /\ v \in Seq(Sample) /\ w = open[t] \o v
    BY <1>1, <1>7 DEF Closes
  <2>3. CASE open[t] = <<>>
    <3>1. NewShown(t) = <<>> /\ NextOf(t) = tick
      BY <2>3, NothingRead DEF NextOf
    <3>2. next = shown /\ w = v
      BY <1>3, <2>1, <2>2, <2>3, <3>1, ConcatEmptySeq
    <3>3. OnClock(t, shown, tick, w, acc, n + 1)
      BY <1>2, <1>3, <1>4, <1>5, NoneClosed
    <3> HIDE DEF next, tick, w, v, acc, new, to, n, shown
    <3>4. OnClock(t, next, to, v, new, rolled'.sequence)
      BY <2>1, <2>2, <3>1, <3>2, <3>3
    <3> QED BY <3>4 DEF next, to, v, new
  <2>4. CASE open[t] # <<>>
    <3>1. OnClock(t, shown \o NewShown(t), NextOf(t), v, acc, n + 1)
      BY <1>1, <1>2, <2>2, <2>4, SomeClosed
    <3> HIDE DEF next, tick, w, v, acc, new, to, n, shown
    <3>2. OnClock(t, next, to, v, new, rolled'.sequence)
      BY <2>1, <2>2, <3>1
    <3> QED BY <3>2 DEF next, to, v, new
  <2> QED BY <2>3, <2>4
<1> QED BY <1>6, <1>7

-----------------------------------------------------------------------------
(***************************************************************************)
(* The timescales.                                                         *)
(***************************************************************************)
\* Nothing is joined from empty lists.
LEMMA FlattenNothing ==
  ASSUME NEW A, NEW ss \in Seq(Seq(A)), \A i \in 1..Len(ss) : ss[i] = <<>>
  PROVE  FlattenSeq(ss) = <<>>
<1> DEFINE n == Len(ss)
<1>1. n \in Nat
  BY LenProperties
<1>2. PICK f : IsJoin(f, ss, A)
  BY JoinExists
<1>3. FlattenSeq(ss) = f[n]
  BY <1>2, FlattenIs
<1>4. f[0] = <<>> /\ \A k \in 1..n : f[k] = f[k - 1] \o ss[k]
  BY <1>2 DEF IsJoin, JoinTo
<1> DEFINE S == {k \in Nat : k <= n => f[k] = <<>>}
<1> HIDE DEF n
<1>5. 0 \in S
  BY <1>4
<1>6. \A k \in Nat : k \in S => k + 1 \in S
  <2> SUFFICES ASSUME NEW k \in Nat, k \in S PROVE k + 1 \in S
    OBVIOUS
  <2> DEFINE j == k + 1
  <2> SUFFICES ASSUME j <= n PROVE f[j] = <<>>
    OBVIOUS
  <2>1. j \in 1..n /\ j - 1 = k /\ k <= n
    BY <1>1
  <2> HIDE DEF j
  <2>2. f[j] = f[k] \o ss[j] /\ ss[j] = <<>>
    BY <1>4, <2>1 DEF n
  <2>3. f[k] = <<>>
    BY <2>1
  <2> QED BY <2>2, <2>3, ConcatEmptySeq
<1> HIDE DEF S
<1>7. n \in S
  BY <1>1, <1>5, <1>6, Induction
<1>8. f[n] = <<>>
  BY <1>1, <1>7 DEF S
<1> QED BY <1>3, <1>8

\* The init segment tells the clock of a track that is shown.
LEMMA ScaleIs ==
  ASSUME TypeInv, WindowInv, SegInv, OpenInv, NEW t \in Kinds, Shown(t) # <<>>
  PROVE  TimescaleOf(files.init, TrackId(t)) = IF t = "video" THEN Second ELSE Audio.rate
<1> DEFINE id == TrackId(t)
           r == ReadOf(rolled.window, files.segments, id)
<1>1. Readable(rolled.window, files.segments, id) /\ Shown(t) = FlattenSeq(r)
  BY ShownType
<1>2. Reads(r, rolled.window, files.segments, id)
  BY <1>1, ReadsAre
<1>3. \E s \in files.segments : HasTrack(s.file, id)
  <2> SUFFICES ASSUME \A s \in files.segments : ~HasTrack(s.file, id) PROVE FALSE
    OBVIOUS
  <2>1. \A s \in files.segments : SamplesOf(s.file, id) = <<>>
    BY DEF SamplesOf
  <2> HIDE DEF r, id
  <2>2. \A i \in 1..Len(r) : r[i] = <<>>
    BY <1>1, <1>2, <2>1 DEF Reads, Readable
  <2>3. FlattenSeq(r) = <<>>
    BY <1>2, <2>2, FlattenNothing DEF Reads
  <2> QED BY <1>1, <2>3
<1>4. t \in init /\ files.init = InitFile(init)
  BY <1>3 DEF OpenInv
<1> QED BY <1>4, InitFileTracks

\* The invariant as the property has it.
LEMMA ClockMeans ==
  ASSUME TypeInv, WindowInv, SegInv, AcceptInv, CarryInv, OpenInv, RowInv, ClockInv
  PROVE  TimelineFollowsClock
<1> SUFFICES ASSUME NEW t \in Kinds
             PROVE  LET shown == Shown(t)
                        gone == Len(accepted[t]) - Len(shown) - Len(Waiting(t))
                        scale == TimescaleOf(files.init, TrackId(t))
                        guessed(k) == IF t = "video" THEN VideoFrame * rolled.sequence * scale
                                      ELSE FrameSamples * (gone + k - 1) * Second
                    IN  /\ \A k \in 1..Len(shown) - 1 :
                             shown[k].time + shown[k].duration <= shown[k + 1].time
                        /\ pc # "failed" => \A k \in DOMAIN shown : (t = "video" \/ shown[k].first) =>
                             LET stamp == accepted[t][gone + k].dts * scale
                             IN  shown[k].time * Second \in stamp - Second + 1..stamp + guessed(k)
  BY DEF TimelineFollowsClock
<1> DEFINE shown == Shown(t)
           acc == accepted[t]
           w == Waiting(t)
           gone == Len(acc) - Len(shown) - Len(w)
           scale == TimescaleOf(files.init, TrackId(t))
           segments == rolled.sequence
           guessed(k) == IF t = "video" THEN VideoFrame * segments * scale
                         ELSE FrameSamples * (gone + k - 1) * Second
<1>1. shown \in Seq(Shot) /\ w \in Seq(Sample) /\ acc \in Seq(Sample)
  BY ShownType, WaitingType DEF TypeInv
<1>2. \A k \in 1..Len(shown) - 1 : shown[k].time + shown[k].duration <= shown[k + 1].time
  BY DEF RowInv, InRow
<1>3. ASSUME pc # "failed", NEW k \in DOMAIN shown, t = "video" \/ shown[k].first
      PROVE  LET stamp == acc[gone + k].dts * scale
             IN  shown[k].time * Second \in stamp - Second + 1..stamp + guessed(k)
  <2> DEFINE i == gone + k
             d == acc[i].dts
             x == shown[k].time
             u == Ticks(t, d)
             m == i - 1
             a == Guessed(t, segments, m)
             c == Second
             stamp == d * scale
  <2>1. scale = IF t = "video" THEN c ELSE Audio.rate
    <3>1. shown # <<>>
      BY <1>3
    <3> QED BY <3>1, ScaleIs
  <2>2. Carries(t, shown, w, acc) /\ Punctual(t, shown, Gone(shown, w, acc), acc, segments)
    BY <1>3 DEF CarryInv, ClockInv
  <2>3. gone = Gone(shown, w, acc)
    BY DEF Gone
  <2>4. segments \in Nat /\ c \in Nat \ {0}
    BY RolledType, TimeAssumption
  <2> HIDE DEF shown, w, acc, gone, segments, scale
  <2>5. gone \in Nat /\ gone + Len(shown) <= Len(acc) /\ Len(shown) \in Nat /\ Len(acc) \in Nat
    <3>1. /\ Gone(shown, w, acc) \in Nat /\ Len(shown) \in Nat /\ Len(acc) \in Nat
          /\ Sent(w, acc) = Gone(shown, w, acc) + Len(shown) /\ Sent(w, acc) <= Len(acc)
      BY <1>1, <2>2, Counts
    <3> QED BY <2>3, <3>1
  <2>6. k \in 1..Len(shown)
    BY <1>1, <1>3, LenProperties
  <2>7. i \in 1..Len(acc) /\ m \in Nat
    BY <2>5, <2>6
  <2>8. OnTime(t, shown[k], acc[i], segments, m)
    <3>1. Punctual(t, shown, gone, acc, segments)
      BY <2>2, <2>3
    <3>2. t = "video" \/ shown[k].first
      BY <1>3
    <3>3. OnTime(t, shown[k], acc[gone + k], segments, gone + k - 1)
      BY <2>6, <3>1, <3>2 DEF Punctual
    <3>4. gone + k - 1 = m
      BY <2>5, <2>6
    <3> QED BY <3>3, <3>4
  <2>9. d \in Int /\ x \in Int /\ d >= 0
    <3>0. \A j \in 1..Len(acc) : 0 <= acc[j].dts
      BY DEF AcceptInv, acc
    <3>1. acc[i] \in Sample
      <4> HIDE DEF i
      <4> QED BY <1>1, <2>7, ElementOfSeq
    <3>2. shown[k] \in Shot
      BY <1>1, <2>6, ElementOfSeq
    <3>3. acc[i].dts >= 0
      <4> HIDE DEF i
      <4> QED BY <1>1, <2>7, <3>0
    <3> QED BY <3>1, <3>2, <3>3 DEF Sample, Shot
  <2>10. u <= x /\ x <= u + a
    BY <2>8 DEF OnTime
  <2>11. u \in Int /\ a \in Int
    BY <2>4, <2>7, <2>9, GuessedGrows, TicksGrow
  <2>12. guessed(k) = a * c
    <3>1. VideoFrame \in Nat /\ FrameSamples \in Nat
      BY TimeAssumption
    <3>2. CASE t = "video"
      <4> DEFINE f == VideoFrame * segments
      <4>1. f \in Nat
        BY <2>4, <3>1, SMT
      <4>2. guessed(k) = f * scale /\ a = f /\ scale = c
        BY <2>1, <3>2 DEF Guessed
      <4> QED BY <4>2
    <3>3. CASE t = "audio"
      <4>1. gone + k - 1 = m
        BY <2>5, <2>6
      <4>3. t # "video"
        BY <3>3
      <4>2. guessed(k) = FrameSamples * m * c /\ a = FrameSamples * m
        <5> HIDE DEF c
        <5> QED BY <4>1, <4>3 DEF Guessed, c
      <4> QED BY <4>2
    <3> QED BY <3>2, <3>3 DEF Kinds
  <2>13. stamp \in Int /\ u * c \in Int /\ u * c <= stamp /\ stamp <= u * c + c - 1
    <3>1. CASE t = "video"
      <4>1. u = d /\ scale = c
        BY <2>1, <3>1 DEF Ticks
      <4>2. d * c \in Int /\ d * c <= d * c + c - 1
        <5> HIDE DEF d, c
        <5>1. d * c \in Int
          BY <2>4, <2>9, SMT
        <5> QED BY <2>4, <5>1
      <4>3. d * c <= d * c
        <5> HIDE DEF d, c
        <5> QED BY <4>2
      <4> HIDE DEF d, c, u
      <4> QED BY <4>1, <4>2, <4>3
    <3>2. CASE t = "audio"
      <4>1. u = AudioTicks(d) /\ scale = Audio.rate
        BY <2>1, <3>2 DEF Ticks
      <4> DEFINE q == AudioTicks(d)
                 z == d * Audio.rate
      <4>2. q \in Int /\ z \in Int /\ q * c <= z /\ z <= q * c + c - 1
        <5> HIDE DEF d
        <5> QED BY <2>9, AudioTicksType
      <4>3. q * c \in Int
        BY <2>4, <4>2, SMT
      <4>4. stamp = z /\ u * c = q * c
        BY <4>1
      <4> HIDE DEF q, z, u, stamp, c
      <4> QED BY <4>2, <4>3, <4>4
    <3> QED BY <3>1, <3>2 DEF Kinds
  <2> DEFINE g == guessed(k)
  <2>14. x * c \in Int /\ u * c <= x * c /\ x * c <= u * c + a * c /\ a * c \in Int
    <3> HIDE DEF u, x, a, c
    <3>1. x * c \in Int /\ u * c <= x * c
      BY <2>4, <2>9, <2>10, <2>11, Scaled
    <3> DEFINE y == u + a
    <3>2. y \in Int /\ x <= y
      BY <2>10, <2>11
    <3>3. y * c = u * c + a * c /\ a * c \in Int
      BY <2>4, <2>11, SMT
    <3> HIDE DEF y
    <3>4. x * c <= y * c
      BY <2>4, <2>9, <3>2, Scaled
    <3> QED BY <3>1, <3>3, <3>4
  <2>16. x * c \in stamp - c + 1..stamp + g
    <3> DEFINE p == x * c
               q == u * c
               l == a * c
    <3>1. p \in Int /\ q \in Int /\ l \in Int /\ q <= p /\ p <= q + l /\ g = l
          /\ stamp \in Int /\ q <= stamp /\ stamp <= q + c - 1
      BY <2>12, <2>13, <2>14
    <3> HIDE DEF p, q, l, g, stamp, c
    <3>2. p \in stamp - c + 1..stamp + l
      BY <2>4, <3>1
    <3>3. p \in stamp - c + 1..stamp + g
      BY <3>1, <3>2
    <3> QED BY <3>3 DEF p
  <2> QED BY <2>16
<1> QED BY <1>2, <1>3

\* What has been proved of the times.
TimeInv == OpenInv /\ RowInv /\ ClockInv

\* A player that reads the window by the timescales of the init segment finds
\* no sample that overlaps the next and, until storage fails, none decoded a
\* whole tick before its timestamp (audio behind a gap in its segment apart) and
\* none later than the guesses made so far allow: for every sample rate, whole
\* ticks per unit of time or not, and every jump of the clock.
THEOREM HlsTimelineFollowsClock == Spec => []TimelineFollowsClock
<1>1. Init => TimeInv
  <2> SUFFICES ASSUME Init PROVE TimeInv
    OBVIOUS
  <2>1. OpenInv
    <3>1. \A t \in Kinds : open[t] = <<>>
      BY DEF Init, Kinds
    <3>2. arriving = None /\ init = None /\ files.segments = {}
      BY DEF Init
    <3> QED BY <3>1, <3>2 DEF OpenInv
  <2>2. RowInv
    <3> SUFFICES ASSUME NEW t \in Kinds PROVE InRow(Shown(t), grid[t])
      BY DEF RowInv
    <3>1. Len(Shown(t)) = 0
      BY NothingShown, EmptySeq
    <3> QED BY <3>1 DEF InRow
  <2>3. ClockInv
    <3> SUFFICES ASSUME NEW t \in Kinds
                 PROVE  OnClock(t, Shown(t), grid[t], Waiting(t), accepted[t], rolled.sequence)
      BY DEF ClockInv, OnClock
    <3> DEFINE none == <<>>
    <3>1. Len(none) = 0
      BY EmptySeq
    <3>2. grid[t] = 0 /\ rolled.sequence = 0
      BY DEF Init, Kinds
    <3> HIDE DEF none
    <3>3. Punctual(t, none, Gone(none, none, none), none, 0)
      BY <3>1 DEF Punctual
    <3>4. NotAhead(t, 0, Sent(none, none), none, 0)
      <4>1. Sent(none, none) = 0 /\ TimeOf(none, 0) = 0
        BY <3>1 DEF Sent, TimeOf
      <4>2. Guessed(t, 0, 0) \in Int /\ Guessed(t, 0, 0) >= 0
        BY GuessedGrows
      <4>3. Ticks(t, 0) = 0
        BY TicksGrow
      <4> QED BY <4>1, <4>2, <4>3 DEF NotAhead
    <3>5. OnClock(t, none, 0, none, none, 0)
      BY <3>3, <3>4 DEF OnClock
    <3>6. Shown(t) = none /\ Waiting(t) = none /\ accepted[t] = none
      BY NothingShown DEF none
    <3> QED BY <3>2, <3>5, <3>6
  <2> QED BY <2>1, <2>2, <2>3 DEF TimeInv
<1>2. SamplesInv /\ TimeInv /\ [Next]_vars => TimeInv'
  BY OpenStep, RowStep, ClockStep DEF SamplesInv, TimeInv
<1>3. SamplesInv /\ TimeInv => TimelineFollowsClock
  BY ClockMeans DEF SamplesInv, TimeInv
<1> QED BY <1>1, <1>2, <1>3, HlsSamplesInvariant, PTL DEF Spec
=============================================================================
