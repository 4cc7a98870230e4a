----------------------------- MODULE WireProofs ----------------------------
(***************************************************************************)
(* Proofs about what an Engine puts on the wire, for every Capacity, every *)
(* packet shape and every bound: headers go before the media that need     *)
(* them, the media of a timestamp series never go backwards, outputs are   *)
(* fed what was sent, and, when the encoders' clocks are monotone, packets *)
(* leave in order and a resumed stream starts on a keyframe.               *)
(***************************************************************************)
EXTENDS EngineProofs

-----------------------------------------------------------------------------
(***************************************************************************)
(* The inductive invariant, one part per property.                         *)
(***************************************************************************)
TornStates == {"intact", "other call", "first tick", "late tick"}
HeaderTypes == {"script", "avcc", "asc"}
TagType ==
  [conn : 0..MaxConn, epoch : 0..MaxConn, type : HeaderTypes \cup Tracks,
   id : Nat, key : BOOLEAN, ts : Int, torn : TornStates]

\* What is on the wire belongs to a connection and a series that have begun.
WireInv ==
  /\ wire \in Seq(TagType)
  /\ resume \in [gated : BOOLEAN, evicted : BOOLEAN, torn : TornStates]
  /\ \A i \in DOMAIN wire : wire[i].conn <= conn /\ wire[i].epoch <= epoch

OnWire(n, type) == \E i \in DOMAIN wire : wire[i].conn = n /\ wire[i].type = type

\* What the muxer and the engine take for written has been written, on this
\* connection; while a tick sends, nothing the engine holds is still to come.
HeaderInv ==
  /\ muxer # None =>
       /\ muxer.avcc # None => OnWire(conn, "avcc")
       /\ muxer.asc # None => OnWire(conn, "asc")
  /\ metadata_written => OnWire(conn, "script")
  /\ call = "tick" =>
       /\ OnWire(conn, "script")
       /\ codecs.avcc # None => muxer.avcc # None
       /\ codecs.asc # None => muxer.asc # None

\* The high-water marks that the next packet of the current series will meet:
\* the muxer's, or the ones saved for the connection to come.
Marks == IF muxer # None THEN muxer.last ELSE timebase.last
InSeries == muxer # None \/ timebase # None

ClockInv ==
  /\ muxer # None => timebase = None
  /\ InSeries =>
       \A i \in Media : wire[i].epoch = epoch => wire[i].ts <= Larger(Marks[wire[i].type], 0)

\* What a tick has sent and not fed yet.
SentIds == IF call = "finish" THEN <<>> ELSE Ids(SubSeq(batch, 1, sent))
EndsWith(s, t) == Len(t) <= Len(s) /\ t = SubSeq(s, Len(s) - Len(t) + 1, Len(s))

OutputsType ==
  [live : SUBSET Outputs, told : [Outputs -> CodecsType], fed : [Outputs -> Seq(Nat)],
   from : [Outputs -> Nat], in_force : CodecsType, finalized : SUBSET Outputs]

\* What output o was fed and what it is owed: all of the wire since its place.
Mirrors(o) ==
  /\ EndsWith(MediaIds, outputs.fed[o] \o SentIds)
  /\ outputs.from[o] + Len(outputs.fed[o] \o SentIds) = Len(MediaIds)

MirrorInv ==
  /\ outputs \in OutputsType
  /\ \A o \in outputs.live : Mirrors(o)

\* The packets that may still be sent, oldest first; pushes wait for the mutex,
\* so the queue is empty as long as a call has its batch in hand.
Pending == IF Unlocked THEN buffer.queue ELSE Unsent
Ascending(q) ==
  \A i, j \in DOMAIN q : (i < j /\ q[i].kind = q[j].kind) => q[i].id < q[j].id

\* The clock of each encoder goes forward from packet to packet.
MonotoneClock ==
  /\ Step \in Nat
  /\ \A s1, s2 \in Shapes : s1.kind = s2.kind => s1.dts <= s2.dts + Step

OrderInv ==
  /\ ~Unlocked => buffer.queue = <<>>
  /\ Ascending(Pending)
  /\ \A j \in DOMAIN Pending : Pending[j].id <= issued
  /\ \A i \in Media : wire[i].id <= issued
  /\ \A i \in Media, j \in DOMAIN Pending :
       wire[i].type = Pending[j].kind => wire[i].id < Pending[j].id

\* A stream with known video that is being resumed, with nothing lost from the
\* buffer since the transport was: it is held until a keyframe comes, or the
\* next video to be sent is a keyframe, or the first one sent was.
OpensOnKeyframe(q) ==
  \E i \in DOMAIN q : IsKeyframe(q[i]) /\ \A j \in 1..(i - 1) : q[j].kind = "audio"
Resumed == resume.gated /\ ~resume.evicted /\ uncounted = 0 /\ InSeries

Held == awaiting_keyframe /\ (~Unlocked => \A i \in DOMAIN Unsent : Unsent[i].kind = "audio")
Waiting == Held \/ OpensOnKeyframe(Pending)

KeyInv ==
  Resumed =>
    \/ (muxer = None \/ VideoOf(conn) = {}) /\ Waiting
    \/ muxer # None /\ VideoOf(conn) # {} /\ StartsOnKeyframe(conn)

-----------------------------------------------------------------------------
(***************************************************************************)
(* Tags.                                                                   *)
(***************************************************************************)
\* Tags of the connection and the series in progress that carry no media.
HeaderTagsNow ==
  {t \in TagType : /\ t.conn = conn /\ t.epoch = epoch /\ t.torn = resume.torn
                   /\ t.type \in HeaderTypes}

Mentions(tags, type) == \E i \in DOMAIN tags : tags[i].type = type

\* A header carries the timestamp both tracks have reached: an integer.
LEMMA HeaderTagType ==
  ASSUME MuxInv, WireInv, muxer \in MuxerType, NEW type \in HeaderTypes
  PROVE  HeaderTag(type) \in HeaderTagsNow /\ HeaderTag(type).type = type
<1>1. muxer.last["video"] \in Int /\ muxer.last["audio"] \in Int
  BY DEF MuxerType, Tracks
<1>2. ClampTs(HeaderTs(muxer)) \in Int
  BY <1>1 DEF ClampTs, HeaderTs, Larger
<1>3. conn \in 0..MaxConn /\ epoch \in 0..MaxConn /\ resume.torn \in TornStates
  BY BoundsAssumption DEF MuxInv, WireInv
<1> QED BY <1>2, <1>3 DEF HeaderTag, Tag, HeaderTagsNow, TagType

\* The tag of a packet: its track, its id, and a timestamp no lower than what
\* its track has reached.
LEMMA MediaTagType ==
  ASSUME MuxInv, WireInv, NEW m \in MuxerType, NEW p \in Packets
  PROVE  /\ MediaTag(p, m) \in TagType
         /\ MediaTag(p, m).conn = conn /\ MediaTag(p, m).epoch = epoch
         /\ MediaTag(p, m).torn = resume.torn
         /\ MediaTag(p, m).type = p.kind /\ p.kind \in Tracks
         /\ MediaTag(p, m).id = p.id /\ p.id \in 1..MaxPush
         /\ MediaTag(p, m).key = p.key
         /\ MediaTag(p, m).ts = Larger(Stamped(m, p).last[p.kind], 0)
         /\ \A t \in Tracks : /\ m.last[t] \in Int
                              /\ Stamped(m, p).last[t] \in Int
                              /\ Stamped(m, p).last[t] >= m.last[t]
<1>1. p.kind \in Tracks /\ p.key \in BOOLEAN /\ p.dts \in Int
  BY PacketType
<1>2. p.id \in 1..MaxPush
  BY DEF Packets, Packet
<1>3. m.origin \in Int \cup {None} /\ m.last \in [Tracks -> Int]
  BY DEF MuxerType
<1>4. OriginFor(m, p) \in Int /\ Normalized(m, p) \in Int /\ m.last[p.kind] \in Int
  BY <1>1, <1>3 DEF OriginFor, Normalized
<1>5. Stamp(m, p) \in Int /\ Stamp(m, p) >= m.last[p.kind]
  BY <1>4 DEF Stamp, Larger
<1>6. Stamped(m, p).last = [m.last EXCEPT ![p.kind] = Stamp(m, p)]
  BY DEF Stamped, MuxerType
<1>7. ClampTs(Stamp(m, p)) \in Int
  BY <1>5 DEF ClampTs, Larger
<1>8. conn \in 0..MaxConn /\ epoch \in 0..MaxConn /\ resume.torn \in TornStates
  BY BoundsAssumption DEF MuxInv, WireInv
<1>9. p.id \in Nat
  BY <1>2, BoundsAssumption
<1>10. MediaTag(p, m) \in TagType
  BY <1>1, <1>7, <1>8, <1>9 DEF MediaTag, Tag, TagType
<1>11. MediaTag(p, m).ts = Larger(Stamped(m, p).last[p.kind], 0)
  BY <1>1, <1>3, <1>6 DEF MediaTag, Tag, ClampTs
<1>12. \A t \in Tracks : /\ m.last[t] \in Int /\ Stamped(m, p).last[t] \in Int
                         /\ Stamped(m, p).last[t] >= m.last[t]
  BY <1>1, <1>3, <1>5, <1>6
<1> QED BY <1>1, <1>2, <1>10, <1>11, <1>12 DEF MediaTag, Tag

\* What one of two sequences of tags mentions, the two in a row mention.
LEMMA MentionsConcat ==
  ASSUME NEW S, NEW s \in Seq(S), NEW t \in Seq(S), NEW type,
         Mentions(s, type) \/ Mentions(t, type)
  PROVE  Mentions(s \o t, type)
<1>1. /\ s \o t \in Seq(S) /\ Len(s \o t) = Len(s) + Len(t)
      /\ \A i \in 1..(Len(s) + Len(t)) :
           (s \o t)[i] = IF i <= Len(s) THEN s[i] ELSE t[i - Len(s)]
  BY ConcatProperties
<1>2. /\ Len(s) \in Nat /\ Len(t) \in Nat
      /\ DOMAIN s = 1..Len(s) /\ DOMAIN t = 1..Len(t)
      /\ DOMAIN (s \o t) = 1..(Len(s) + Len(t))
  BY <1>1, LenProperties
<1>3. CASE Mentions(s, type)
  <2>1. PICK i \in 1..Len(s) : s[i].type = type
    BY <1>2, <1>3 DEF Mentions
  <2>2. i \in 1..(Len(s) + Len(t)) /\ i <= Len(s)
    BY <1>2
  <2>3. (s \o t)[i] = s[i]
    BY <1>1, <2>2
  <2> QED BY <1>2, <2>1, <2>2, <2>3 DEF Mentions
<1>4. CASE Mentions(t, type)
  <2>1. PICK i \in 1..Len(t) : t[i].type = type
    BY <1>2, <1>4 DEF Mentions
  <2>2. /\ Len(s) + i \in 1..(Len(s) + Len(t)) /\ ~(Len(s) + i <= Len(s))
        /\ (Len(s) + i) - Len(s) = i
    BY <1>2
  <2>3. (s \o t)[Len(s) + i] = t[i]
    BY <1>1, <2>2
  <2> QED BY <1>2, <2>1, <2>2, <2>3 DEF Mentions
<1> QED BY <1>3, <1>4

\* The tags of a tick's or a configuration's sequence headers.
LEMMA SequenceTagsProperties ==
  ASSUME MuxInv, WireInv, muxer \in MuxerType, NEW m
  PROVE  /\ SequenceTags(muxer, m) \in Seq(HeaderTagsNow)
         /\ muxer.avcc # m.avcc => Mentions(SequenceTags(muxer, m), "avcc")
         /\ muxer.asc # m.asc => Mentions(SequenceTags(muxer, m), "asc")
<1> DEFINE v == IF muxer.avcc # m.avcc THEN <<HeaderTag("avcc")>> ELSE <<>>
           a == IF muxer.asc # m.asc THEN <<HeaderTag("asc")>> ELSE <<>>
<1>1. /\ HeaderTag("avcc") \in HeaderTagsNow /\ HeaderTag("avcc").type = "avcc"
      /\ HeaderTag("asc") \in HeaderTagsNow /\ HeaderTag("asc").type = "asc"
  BY HeaderTagType DEF HeaderTypes
<1>2. v \in Seq(HeaderTagsNow) /\ a \in Seq(HeaderTagsNow)
  BY <1>1
<1>3. SequenceTags(muxer, m) = v \o a
  BY DEF SequenceTags
<1>4. muxer.avcc # m.avcc => Mentions(v, "avcc")
  BY <1>1 DEF Mentions
<1>5. muxer.asc # m.asc => Mentions(a, "asc")
  BY <1>1 DEF Mentions
<1> HIDE DEF v, a
<1>6. v \o a \in Seq(HeaderTagsNow)
  BY <1>2, ConcatProperties
<1> QED BY <1>2, <1>3, <1>4, <1>5, <1>6, MentionsConcat

-----------------------------------------------------------------------------
(***************************************************************************)
(* What a step does to the wire: nothing, or it appends headers, or it     *)
(* appends headers and then one packet.                                    *)
(***************************************************************************)
Quiet == UNCHANGED <<wire, muxer, conn, epoch, timebase>>

\* The tags t account for every configuration the muxer has gained.
Announces(t) ==
  /\ muxer'.avcc # muxer.avcc => Mentions(t, "avcc")
  /\ muxer'.asc # muxer.asc => Mentions(t, "asc")

Writing ==
  /\ muxer \in MuxerType /\ muxer' \in MuxerType /\ muxer # None /\ muxer' # None
  /\ UNCHANGED <<conn, epoch, timebase>>
  /\ \A t \in Tracks : /\ muxer.last[t] \in Int /\ muxer'.last[t] \in Int
                       /\ muxer'.last[t] >= muxer.last[t]

HeaderStep ==
  Writing /\ \E tags \in Seq(HeaderTagsNow) : wire' = wire \o tags /\ Announces(tags)

\* new is the tag of the packet p, stamped with what its track then stands at.
MediaTagOf(new, p) ==
  /\ p \in Packets /\ new \in TagType
  /\ new.conn = conn /\ new.epoch = epoch /\ new.torn = resume.torn
  /\ new.type = p.kind /\ p.kind \in Tracks
  /\ new.id = p.id /\ p.id \in 1..MaxPush /\ new.key = p.key
  /\ new.ts = Larger(muxer'.last[p.kind], 0)

MediaStep ==
  /\ Writing
  /\ call \in {"tick", "finish"} /\ call' = call
  /\ sent < Len(batch) /\ sent' = sent + 1
  /\ NextPacket.kind = "video" /\ NextPacket.key => muxer'.avcc # None
  /\ NextPacket.kind = "audio" => muxer'.asc # None
  /\ muxer.avcc # None => muxer'.avcc = muxer.avcc
  /\ muxer.asc # None => muxer'.asc = muxer.asc
  /\ \E tags \in Seq(HeaderTagsNow), new \in TagType :
       /\ MediaTagOf(new, NextPacket)
       /\ wire' = wire \o (tags \o <<new>>) /\ Announces(tags)

\* Sniffing leaves the clocks alone and provides the configuration the packet
\* needs; re-anchoring touches the origin only; stamping keeps the codecs.
LEMMA WriteEffect ==
  ASSUME NEW m \in MuxerType, NEW p \in Packets
  PROVE  /\ Sniff(m, p).last = m.last
         /\ Anchored(m, p).last = m.last
         /\ Anchored(m, p).avcc = m.avcc /\ Anchored(m, p).asc = m.asc
         /\ Stamped(m, p).avcc = m.avcc /\ Stamped(m, p).asc = m.asc
         /\ m.avcc # None => Sniff(m, p).avcc = m.avcc
         /\ m.asc # None => Sniff(m, p).asc = m.asc
         /\ ~NoConfig(m, p) =>
              /\ p.kind = "video" /\ p.key => Sniff(m, p).avcc # None
              /\ p.kind = "audio" => Sniff(m, p).asc # None
BY PacketType DEF Sniff, Anchored, Stamped, Rebase, NoConfig, NeedsSequence, MuxerType

\* init_codecs forgets no configuration and moves no clock.
LEMMA InitCodecsEffect ==
  ASSUME NEW m \in MuxerType, NEW avcc, NEW asc
  PROVE  /\ InitCodecs(m, avcc, asc).last = m.last
         /\ (avcc # None \/ m.avcc # None) => InitCodecs(m, avcc, asc).avcc # None
         /\ (asc # None \/ m.asc # None) => InitCodecs(m, avcc, asc).asc # None
BY DEF InitCodecs, MuxerType

\* Writing sequence headers up to those of muxer m2.
LEMMA HeadersOnly ==
  ASSUME MuxInv, WireInv, muxer \in MuxerType, muxer' \in MuxerType,
         UNCHANGED <<conn, epoch, timebase>>,
         \A t \in Tracks : /\ muxer.last[t] \in Int /\ muxer'.last[t] \in Int
                           /\ muxer'.last[t] >= muxer.last[t],
         NEW m2, m2.avcc = muxer'.avcc, m2.asc = muxer'.asc,
         wire' = wire \o SequenceTags(muxer, m2)
  PROVE  HeaderStep
<1>1. SequenceTags(muxer, m2) \in Seq(HeaderTagsNow) /\ Announces(SequenceTags(muxer, m2))
  BY SequenceTagsProperties DEF Announces
<1>2. Writing
  BY NoMuxerAssumption DEF Writing
<1> QED BY <1>1, <1>2 DEF HeaderStep

\* The muxer's marks are integers.
LEMMA LastType ==
  ASSUME NEW m \in MuxerType
  PROVE  \A t \in Tracks : m.last[t] \in Int /\ m.last[t] >= m.last[t]
BY DEF MuxerType

\* configure_codecs writes at most the headers of what it is given.
LEMMA ConfigureWrites ==
  ASSUME MuxInv, WireInv, ConfigureCall
  PROVE  Quiet \/ HeaderStep
<1>1. PICK avcc \in Configs \cup {None}, asc \in Configs \cup {None} :
           ConfigureCodecs(avcc, asc)
  BY DEF ConfigureCall
<1>2. UNCHANGED <<conn, epoch, timebase>>
  BY <1>1 DEF ConfigureCodecs
<1>3. CASE muxer = None
  BY <1>1, <1>2, <1>3 DEF ConfigureCodecs, Quiet
<1>4. CASE muxer # None
  <2>1. muxer \in MuxerType
    BY <1>4 DEF MuxInv
  <2>2. PICK v \in Configs \cup {None}, a \in Configs \cup {None} :
             muxer' = InitCodecs(muxer, v, a) /\ wire' = wire \o SequenceTags(muxer, muxer')
    <3>1. CASE muxer' = InitCodecs(muxer, avcc, asc) /\ wire' = wire \o SequenceTags(muxer, muxer')
      BY <3>1
    <3>2. CASE \E done \in {NoCodecs, [avcc |-> avcc, asc |-> None]} :
                 /\ muxer' = InitCodecs(muxer, done.avcc, done.asc)
                 /\ wire' = wire \o SequenceTags(muxer, muxer')
      <4>1. PICK done \in {NoCodecs, [avcc |-> avcc, asc |-> None]} :
                 /\ muxer' = InitCodecs(muxer, done.avcc, done.asc)
                 /\ wire' = wire \o SequenceTags(muxer, muxer')
        BY <3>2
      <4>2. /\ done.avcc \in Configs \cup {None} /\ done.asc \in Configs \cup {None}
        BY DEF NoCodecs
      <4> QED BY <4>1, <4>2
    <3> QED BY <1>1, <1>4, <3>1, <3>2 DEF ConfigureCodecs
  <2>3. muxer' \in MuxerType /\ muxer'.last = muxer.last
    BY <2>1, <2>2, InitCodecsType, InitCodecsEffect
  <2> QED BY <1>2, <2>1, <2>2, <2>3, LastType, HeadersOnly
<1> QED BY <1>3, <1>4

\* A tick's headers: the metadata first, if this connection has not had it.
LEMMA TickHeadersWrites ==
  ASSUME MuxInv, WireInv, muxer \in MuxerType, muxer' \in MuxerType,
         UNCHANGED <<conn, epoch, timebase>>, muxer'.last = muxer.last,
         wire' = wire \o MetadataTags \o SequenceTags(muxer, muxer')
  PROVE  /\ HeaderStep
         /\ ~metadata_written => OnWire(conn, "script")'
<1> DEFINE seq == SequenceTags(muxer, muxer')
<1>1. seq \in Seq(HeaderTagsNow) /\ Announces(seq)
  BY SequenceTagsProperties DEF Announces
<1>2. /\ MetadataTags \in Seq(HeaderTagsNow)
      /\ ~metadata_written => Mentions(MetadataTags, "script")
  <2>1. HeaderTag("script") \in HeaderTagsNow /\ HeaderTag("script").type = "script"
    BY HeaderTagType DEF HeaderTypes
  <2> QED BY <2>1 DEF MetadataTags, Mentions
<1>3. wire \in Seq(TagType) /\ HeaderTagsNow \subseteq TagType
  BY DEF WireInv, HeaderTagsNow
<1> HIDE DEF seq
<1>4. seq \in Seq(TagType) /\ MetadataTags \in Seq(TagType)
  BY <1>1, <1>2, <1>3, SeqMonotonic
<1>5. wire' = wire \o (MetadataTags \o seq)
  BY <1>3, <1>4, ConcatAssociative DEF seq
<1>6. MetadataTags \o seq \in Seq(HeaderTagsNow)
  BY <1>1, <1>2, ConcatProperties
<1>7. Announces(MetadataTags \o seq)
  BY <1>1, <1>2, MentionsConcat DEF Announces
<1>8. Writing
  BY LastType, NoMuxerAssumption DEF Writing
<1>9. HeaderStep
  BY <1>5, <1>6, <1>7, <1>8 DEF HeaderStep
<1>10. ASSUME ~metadata_written PROVE OnWire(conn, "script")'
  <2>1. Mentions(MetadataTags \o seq, "script")
    BY <1>1, <1>2, <1>10, MentionsConcat
  <2> DEFINE tags == MetadataTags \o seq
  <2>2. PICK i \in DOMAIN tags : tags[i].type = "script"
    BY <2>1 DEF Mentions
  <2> HIDE DEF tags
  <2>3. tags \in Seq(HeaderTagsNow) /\ tags \in Seq(TagType) /\ wire' = wire \o tags
    BY <1>3, <1>5, <1>6, SeqMonotonic DEF tags
  <2>4. /\ Len(wire) \in Nat /\ Len(tags) \in Nat /\ DOMAIN tags = 1..Len(tags)
        /\ wire' \in Seq(TagType) /\ Len(wire') = Len(wire) + Len(tags)
        /\ \A j \in 1..(Len(wire) + Len(tags)) :
             wire'[j] = IF j <= Len(wire) THEN wire[j] ELSE tags[j - Len(wire)]
    BY <1>3, <2>3, ConcatProperties, LenProperties
  <2>5. DOMAIN wire' = 1..(Len(wire) + Len(tags))
    BY <2>4, LenProperties
  <2>6. /\ Len(wire) + i \in DOMAIN wire' /\ ~(Len(wire) + i <= Len(wire))
        /\ (Len(wire) + i) - Len(wire) = i
    BY <2>2, <2>4, <2>5
  <2>7. wire'[Len(wire) + i] = tags[i] /\ tags[i].conn = conn
    BY <2>2, <2>3, <2>4, <2>5, <2>6, ElementOfSeq DEF HeaderTagsNow
  <2> QED BY <2>2, <2>6, <2>7 DEF OnWire
<1> QED BY <1>9, <1>10

\* Writing the next packet, its headers before it.
LEMMA WriteStep ==
  ASSUME BufferInv, MuxInv, WireInv, muxer \in MuxerType,
         call \in {"tick", "finish"}, call' = call, sent < Len(batch), sent' = sent + 1,
         UNCHANGED <<conn, epoch, timebase>>, ~NoConfig(muxer, NextPacket),
         NEW m \in MuxerType, m.last = muxer.last,
         m.avcc = Sniff(muxer, NextPacket).avcc, m.asc = Sniff(muxer, NextPacket).asc,
         muxer' = Stamped(m, NextPacket),
         wire' = wire \o (SequenceTags(muxer, Sniff(muxer, NextPacket))
                          \o <<MediaTag(NextPacket, m)>>)
  PROVE  MediaStep
<1> DEFINE p == NextPacket
           sm == Sniff(muxer, p)
           tags == SequenceTags(muxer, sm)
           new == MediaTag(p, m)
<1>1. p \in Packets
  BY NextPacketType DEF BufferInv
<1>2. /\ p.kind = "video" /\ p.key => sm.avcc # None
      /\ p.kind = "audio" => sm.asc # None
      /\ muxer.avcc # None => sm.avcc = muxer.avcc
      /\ muxer.asc # None => sm.asc = muxer.asc
  BY <1>1, WriteEffect
<1>3. /\ tags \in Seq(HeaderTagsNow)
      /\ muxer.avcc # sm.avcc => Mentions(tags, "avcc")
      /\ muxer.asc # sm.asc => Mentions(tags, "asc")
  BY SequenceTagsProperties
<1> HIDE DEF sm, tags
<1>4. muxer' \in MuxerType /\ muxer'.avcc = sm.avcc /\ muxer'.asc = sm.asc
  BY <1>1, WriteType, WriteEffect DEF sm
<1>5. Announces(tags)
  BY <1>3, <1>4 DEF Announces
<1>6. /\ MediaTagOf(new, p) /\ new \in TagType
      /\ \A t \in Tracks : /\ muxer.last[t] \in Int /\ muxer'.last[t] \in Int
                           /\ muxer'.last[t] >= muxer.last[t]
  BY <1>1, MediaTagType DEF MediaTagOf
<1>7. Writing
  BY <1>4, <1>6, NoMuxerAssumption DEF Writing
<1>8. wire' = wire \o (tags \o <<new>>)
  BY DEF tags, sm
<1> QED BY <1>2, <1>3, <1>4, <1>5, <1>6, <1>7, <1>8 DEF MediaStep

\* The steps that neither send a packet nor change the connection.
Still ==
  \/ PushCall \/ ResyncCall \/ ConfigureCall \/ (\E o \in Outputs : AttachOutput(o))
  \/ TickNoTransport \/ TickMaintainFails \/ TickBegin \/ TickHeaders \/ TickHeadersFail
  \/ TickNoConfig \/ TickSendFails \/ TickFlushFails \/ TickEnd
  \/ FinishNoTransport \/ FinishBegin \/ FinishFails
  \/ UNCHANGED engineVars

\* The other calls write at most headers.
LEMMA StillWrites ==
  ASSUME BufferInv, MuxInv, WireInv, Still
  PROVE  Quiet \/ HeaderStep
<1>0. call # "none" => muxer \in MuxerType /\ muxer # None
  BY NoMuxerAssumption DEF MuxInv
<1>1. CASE \/ PushCall \/ ResyncCall \/ (\E o \in Outputs : AttachOutput(o))
           \/ TickNoTransport \/ TickMaintainFails \/ TickBegin \/ TickNoConfig
           \/ TickFlushFails \/ TickEnd \/ FinishNoTransport \/ FinishBegin
           \/ UNCHANGED engineVars
  BY <1>1 DEF Quiet, PushCall, Push, ResyncCall, AttachOutput, TickNoTransport,
              TickMaintainFails, TickBegin, TickNoConfig, TickFlushFails, TickEnd,
              FinishNoTransport, FinishBegin, AbortTick, engineVars
<1>2. CASE ConfigureCall
  BY <1>2, ConfigureWrites
<1>3. CASE TickHeaders
  <2>1. muxer \in MuxerType /\ codecs \in CodecsType
    BY <1>0, <1>3 DEF TickHeaders, MuxInv
  <2>2. muxer' \in MuxerType /\ muxer'.last = muxer.last
    BY <1>3, <2>1, InitCodecsType, InitCodecsEffect DEF TickHeaders, CodecsType
  <2> QED BY <1>3, <2>1, <2>2, TickHeadersWrites DEF TickHeaders
<1>4. CASE TickHeadersFail
  <2>1. muxer \in MuxerType /\ codecs \in CodecsType
    BY <1>0, <1>4 DEF TickHeadersFail, MuxInv
  <2>2. UNCHANGED <<conn, epoch, timebase>>
    BY <1>4 DEF TickHeadersFail, AbortTick
  <2>3. CASE UNCHANGED <<muxer, wire>>
    BY <2>2, <2>3 DEF Quiet
  <2>4. CASE \E m \in {muxer, InitCodecs(muxer, codecs.avcc, None)} :
               muxer' = m /\ wire' = wire \o MetadataTags \o SequenceTags(muxer, m)
    <3>1. wire' = wire \o MetadataTags \o SequenceTags(muxer, muxer')
      BY <2>4
    <3>2. muxer' \in MuxerType /\ muxer'.last = muxer.last
      BY <2>1, <2>4, InitCodecsType, InitCodecsEffect DEF CodecsType
    <3> QED BY <2>1, <2>2, <3>1, <3>2, TickHeadersWrites
  <2> QED BY <1>4, <2>3, <2>4 DEF TickHeadersFail
<1>5. CASE TickSendFails
  <2> DEFINE p == NextPacket
             sm == Sniff(muxer, p)
             m == Anchored(sm, p)
  <2>1. muxer \in MuxerType /\ p \in Packets
    BY <1>0, <1>5, NextPacketType DEF TickSendFails, BufferInv
  <2>2. UNCHANGED <<conn, epoch, timebase>>
    BY <1>5 DEF TickSendFails, AbortTick
  <2>3. CASE UNCHANGED <<muxer, wire>>
    BY <2>2, <2>3 DEF Quiet
  <2>4. CASE muxer' = Stamped(m, p) /\ wire' = wire \o SequenceTags(muxer, sm)
    <3>1. sm \in MuxerType /\ sm.last = muxer.last
      BY <2>1, WriteType, WriteEffect
    <3>2. m \in MuxerType /\ m.last = sm.last /\ m.avcc = sm.avcc /\ m.asc = sm.asc
      BY <2>1, <3>1, WriteType, WriteEffect
    <3> HIDE DEF m, sm, p
    <3>3. muxer' \in MuxerType /\ muxer'.avcc = sm.avcc /\ muxer'.asc = sm.asc
      BY <2>1, <2>4, <3>2, WriteType, WriteEffect
    <3>4. \A t \in Tracks : /\ muxer.last[t] \in Int /\ muxer'.last[t] \in Int
                            /\ muxer'.last[t] >= muxer.last[t]
      BY <2>1, <2>4, <3>1, <3>2, MediaTagType
    <3> QED BY <2>1, <2>2, <2>4, <3>3, <3>4, HeadersOnly
  <2> QED BY <1>5, <2>3, <2>4 DEF TickSendFails
<1>6. CASE FinishFails
  <2> DEFINE p == NextPacket
             m == Sniff(muxer, p)
  <2>1. UNCHANGED <<conn, epoch, timebase>> /\ muxer \in MuxerType
    BY <1>0, <1>6 DEF FinishFails
  <2>2. CASE UNCHANGED <<muxer, wire>>
    BY <2>1, <2>2 DEF Quiet
  <2>3. CASE /\ sent < Len(batch) /\ muxer' \in {m, Stamped(m, p)}
             /\ wire' = wire \o SequenceTags(muxer, m)
    <3>1. p \in Packets
      BY <2>3, NextPacketType DEF BufferInv
    <3>2. m \in MuxerType /\ m.last = muxer.last
      BY <2>1, <3>1, WriteType, WriteEffect
    <3> HIDE DEF m, p
    <3>3. muxer' \in MuxerType /\ muxer'.avcc = m.avcc /\ muxer'.asc = m.asc
      <4>1. CASE muxer' = m
        BY <3>2, <4>1
      <4>2. CASE muxer' = Stamped(m, p)
        <5>1. Stamped(m, p) \in MuxerType
          BY <3>1, <3>2, WriteType
        <5>2. Stamped(m, p).avcc = m.avcc /\ Stamped(m, p).asc = m.asc
          BY <3>1, <3>2, WriteEffect
        <5> QED BY <4>2, <5>1, <5>2
      <4> QED BY <2>3, <4>1, <4>2
    <3>4. \A t \in Tracks : /\ muxer.last[t] \in Int /\ muxer'.last[t] \in Int
                            /\ muxer'.last[t] >= muxer.last[t]
      BY <2>3, <3>1, <3>2, MediaTagType
    <3> QED BY <2>1, <2>3, <3>3, <3>4, HeadersOnly
  <2> QED BY <1>6, <2>2, <2>3 DEF FinishFails
<1> QED BY <1>1, <1>2, <1>3, <1>4, <1>5, <1>6 DEF Still

\* A packet counts as sent in no such step.
LEMMA StillSendsNone ==
  ASSUME BufferInv, Still
  PROVE  ~MediaStep
<1>1. sent \in Nat
  BY LenProperties DEF BufferInv
<1>2. sent' = sent \/ sent' = 0 \/ call' = "none"
  BY DEF Still, PushCall, Push, ResyncCall, ConfigureCall, ConfigureCodecs, AttachOutput,
         TickNoTransport, TickMaintainFails, TickBegin, DrainForMux, TickHeaders,
         TickHeadersFail, TickNoConfig, TickSendFails, TickFlushFails, TickEnd, AbortTick,
         Release, FinishNoTransport, FinishBegin, FinishFails, engineVars
<1> QED BY <1>1, <1>2 DEF MediaStep

\* Sending the next packet of a batch.
LEMMA SendWrites ==
  ASSUME BufferInv, MuxInv, WireInv, TickSend \/ FinishSend
  PROVE  MediaStep
<1> DEFINE p == NextPacket
           sm == Sniff(muxer, p)
           m == IF TickSend THEN Anchored(sm, p) ELSE sm
<1>1. muxer \in MuxerType /\ p \in Packets
  BY NextPacketType DEF TickSend, FinishSend, BufferInv, MuxInv
<1>2. /\ muxer' = Stamped(m, p) /\ ~NoConfig(muxer, p)
      /\ wire' = wire \o (SequenceTags(muxer, sm) \o <<MediaTag(p, m)>>)
  BY DEF TickSend, FinishSend, PacketTags
<1>3. sm \in MuxerType /\ sm.last = muxer.last
  BY <1>1, WriteType, WriteEffect
<1>4. m \in MuxerType /\ m.last = sm.last /\ m.avcc = sm.avcc /\ m.asc = sm.asc
  BY <1>1, <1>3, WriteType, WriteEffect
<1>5. /\ call \in {"tick", "finish"} /\ call' = call /\ sent < Len(batch) /\ sent' = sent + 1
      /\ UNCHANGED <<conn, epoch, timebase>>
  BY DEF TickSend, FinishSend
<1> HIDE DEF m
<1> QED BY <1>1, <1>2, <1>3, <1>4, <1>5, WriteStep

\* Every step is one of these.
LEMMA StepKinds ==
  ASSUME [EngineNext]_engineVars
  PROVE  \/ Still \/ TickSend \/ FinishSend
         \/ AttachTransport \/ DetachTransport \/ Reset \/ FinishEnd
BY DEF EngineNext, OptionalCalls, Tick, Finish, Still

\* What a step does to the wire: nothing, headers, or one packet.
LEMMA WireEffect ==
  ASSUME BufferInv, MuxInv, WireInv, [EngineNext]_engineVars
  PROVE  \/ Quiet \/ HeaderStep \/ MediaStep
         \/ AttachTransport \/ DetachTransport \/ Reset \/ FinishEnd
BY StepKinds, StillWrites, SendWrites

-----------------------------------------------------------------------------
(***************************************************************************)
(* The wire only grows.                                                    *)
(***************************************************************************)
\* What is appended to the wire leaves what was there.
LEMMA Appended ==
  ASSUME NEW w \in Seq(TagType), NEW t \in Seq(TagType), NEW r, r = w \o t
  PROVE  /\ Len(w) \in Nat /\ Len(t) \in Nat /\ Len(r) = Len(w) + Len(t)
         /\ r \in Seq(TagType)
         /\ DOMAIN w = 1..Len(w) /\ DOMAIN t = 1..Len(t) /\ DOMAIN r = 1..Len(r)
         /\ \A i \in DOMAIN w : i \in DOMAIN r /\ r[i] = w[i]
         /\ \A k \in DOMAIN t : Len(w) + k \in DOMAIN r /\ r[Len(w) + k] = t[k]
         /\ \A i \in DOMAIN r \ DOMAIN w :
              i - Len(w) \in DOMAIN t /\ r[i] = t[i - Len(w)]
<1>1. /\ r \in Seq(TagType) /\ Len(r) = Len(w) + Len(t)
      /\ \A i \in 1..(Len(w) + Len(t)) : r[i] = IF i <= Len(w) THEN w[i] ELSE t[i - Len(w)]
  BY ConcatProperties
<1>2. /\ Len(w) \in Nat /\ Len(t) \in Nat /\ DOMAIN w = 1..Len(w) /\ DOMAIN t = 1..Len(t)
      /\ DOMAIN r = 1..Len(r)
  BY <1>1, LenProperties
<1>3. ASSUME NEW i \in DOMAIN w PROVE i \in DOMAIN r /\ r[i] = w[i]
  <2>1. i \in 1..(Len(w) + Len(t)) /\ i <= Len(w)
    BY <1>2
  <2> QED BY <1>1, <1>2, <2>1
<1>4. ASSUME NEW k \in DOMAIN t PROVE Len(w) + k \in DOMAIN r /\ r[Len(w) + k] = t[k]
  <2>1. /\ Len(w) + k \in 1..(Len(w) + Len(t)) /\ ~(Len(w) + k <= Len(w))
        /\ (Len(w) + k) - Len(w) = k
    BY <1>2
  <2> QED BY <1>1, <1>2, <2>1
<1>5. ASSUME NEW i \in DOMAIN r \ DOMAIN w
      PROVE  i - Len(w) \in DOMAIN t /\ r[i] = t[i - Len(w)]
  <2>1. i \in 1..(Len(w) + Len(t)) /\ ~(i <= Len(w)) /\ i - Len(w) \in 1..Len(t)
    BY <1>1, <1>2
  <2> QED BY <1>1, <1>2, <2>1
<1> QED BY <1>1, <1>2, <1>3, <1>4, <1>5

WireKept ==
  /\ wire' \in Seq(TagType) /\ DOMAIN wire \subseteq DOMAIN wire'
  /\ DOMAIN wire \subseteq Nat /\ DOMAIN wire' \subseteq Nat
  /\ \A i \in DOMAIN wire : wire'[i] = wire[i]
  /\ \A i \in DOMAIN wire, j \in DOMAIN wire' \ DOMAIN wire : i < j

\* What the muxer has gained is on the wire, before position n.
Announced(n) ==
  /\ muxer'.avcc # muxer.avcc =>
       \E i \in DOMAIN wire' : i < n /\ wire'[i].conn = conn /\ wire'[i].type = "avcc"
  /\ muxer'.asc # muxer.asc =>
       \E i \in DOMAIN wire' : i < n /\ wire'[i].conn = conn /\ wire'[i].type = "asc"

\* A step that writes headers adds only headers.
LEMMA HeaderStepWire ==
  ASSUME WireInv, HeaderStep
  PROVE  /\ WireKept
         /\ \A i \in DOMAIN wire' \ DOMAIN wire : wire'[i] \in HeaderTagsNow
         /\ Announced(Len(wire') + 1)
         /\ Media' = Media
<1>1. PICK tags \in Seq(HeaderTagsNow) : wire' = wire \o tags /\ Announces(tags)
  BY DEF HeaderStep
<1>2. wire \in Seq(TagType) /\ HeaderTagsNow \subseteq TagType
  BY DEF WireInv, HeaderTagsNow
<1>3. tags \in Seq(TagType)
  BY <1>2, SeqMonotonic
<1>4. /\ Len(wire) \in Nat /\ Len(tags) \in Nat /\ Len(wire') = Len(wire) + Len(tags)
      /\ wire' \in Seq(TagType)
      /\ DOMAIN wire = 1..Len(wire) /\ DOMAIN tags = 1..Len(tags)
      /\ DOMAIN wire' = 1..Len(wire')
      /\ \A i \in DOMAIN wire : i \in DOMAIN wire' /\ wire'[i] = wire[i]
      /\ \A k \in DOMAIN tags :
           Len(wire) + k \in DOMAIN wire' /\ wire'[Len(wire) + k] = tags[k]
      /\ \A i \in DOMAIN wire' \ DOMAIN wire :
           i - Len(wire) \in DOMAIN tags /\ wire'[i] = tags[i - Len(wire)]
  BY <1>1, <1>2, <1>3, Appended
<1>5. \A k \in DOMAIN tags : tags[k] \in HeaderTagsNow
  BY <1>4, ElementOfSeq
<1>6. WireKept
  BY <1>4 DEF WireKept
<1>7. \A i \in DOMAIN wire' \ DOMAIN wire : wire'[i] \in HeaderTagsNow
  BY <1>4, <1>5
<1>8. ASSUME NEW type, Mentions(tags, type)
      PROVE  \E i \in DOMAIN wire' : /\ i < Len(wire') + 1 /\ wire'[i].conn = conn
                                     /\ wire'[i].type = type
  <2>1. PICK k \in DOMAIN tags : tags[k].type = type
    BY <1>8 DEF Mentions
  <2>2. tags[k].conn = conn
    BY <1>5 DEF HeaderTagsNow
  <2>3. Len(wire) + k \in DOMAIN wire' /\ wire'[Len(wire) + k] = tags[k]
    BY <1>4
  <2>4. Len(wire) + k < Len(wire') + 1
    BY <1>4
  <2> QED BY <2>1, <2>2, <2>3, <2>4
<1>9. Announced(Len(wire') + 1)
  BY <1>1, <1>8 DEF Announced, Announces
<1>10. Media' = Media
  BY <1>4, <1>7 DEF Media, HeaderTagsNow, HeaderTypes, Tracks
<1> QED BY <1>6, <1>7, <1>9, <1>10

\* A step that writes a packet adds it last, behind the headers it needs.
LEMMA MediaStepWire ==
  ASSUME WireInv, MediaStep
  PROVE  LET n == Len(wire')
         IN  /\ WireKept
             /\ n \in DOMAIN wire' \ DOMAIN wire /\ MediaTagOf(wire'[n], NextPacket)
             /\ \A i \in (DOMAIN wire' \ DOMAIN wire) \ {n} : i < n /\ wire'[i] \in HeaderTagsNow
             /\ Announced(n)
             /\ Media' = Media \cup {n}
<1>1. PICK tags \in Seq(HeaderTagsNow), new \in TagType :
             /\ MediaTagOf(new, NextPacket)
             /\ wire' = wire \o (tags \o <<new>>) /\ Announces(tags)
  BY DEF MediaStep
<1> DEFINE ext == tags \o <<new>>
           n == Len(wire')
<1>2. wire \in Seq(TagType) /\ HeaderTagsNow \subseteq TagType
  BY DEF WireInv, HeaderTagsNow
<1>3. tags \in Seq(TagType) /\ <<new>> \in Seq(TagType) /\ Len(<<new>>) = 1 /\ <<new>>[1] = new
  BY <1>2, SeqMonotonic
<1>4. /\ Len(tags) \in Nat /\ Len(ext) = Len(tags) + 1 /\ ext \in Seq(TagType)
      /\ DOMAIN tags = 1..Len(tags) /\ DOMAIN ext = 1..Len(ext)
      /\ \A k \in DOMAIN tags : k \in DOMAIN ext /\ ext[k] = tags[k]
      /\ Len(tags) + 1 \in DOMAIN ext /\ ext[Len(tags) + 1] = new
  <2> DEFINE one == <<new>>
  <2>1. one \in Seq(TagType) /\ Len(one) = 1 /\ one[1] = new
    BY <1>3
  <2> DEFINE both == tags \o one
  <2> HIDE DEF one
  <2>2. /\ Len(tags) \in Nat /\ Len(one) \in Nat /\ Len(tags \o one) = Len(tags) + Len(one)
        /\ tags \o one \in Seq(TagType)
        /\ DOMAIN tags = 1..Len(tags) /\ DOMAIN one = 1..Len(one)
        /\ DOMAIN (tags \o one) = 1..Len(tags \o one)
        /\ \A i \in DOMAIN tags : i \in DOMAIN (tags \o one) /\ (tags \o one)[i] = tags[i]
        /\ \A k \in DOMAIN one : /\ Len(tags) + k \in DOMAIN (tags \o one)
                                 /\ (tags \o one)[Len(tags) + k] = one[k]
    <3>1. tags \in Seq(TagType) /\ one \in Seq(TagType) /\ both = tags \o one
      BY <1>3, <2>1
    <3> HIDE DEF both
    <3>2. /\ Len(tags) \in Nat /\ Len(one) \in Nat /\ Len(both) = Len(tags) + Len(one)
          /\ both \in Seq(TagType)
          /\ DOMAIN tags = 1..Len(tags) /\ DOMAIN one = 1..Len(one)
          /\ DOMAIN both = 1..Len(both)
          /\ \A i \in DOMAIN tags : i \in DOMAIN both /\ both[i] = tags[i]
          /\ \A k \in DOMAIN one : Len(tags) + k \in DOMAIN both /\ both[Len(tags) + k] = one[k]
      BY <3>1, Appended
    <3> QED BY <3>2 DEF both
  <2>3. 1 \in DOMAIN one
    BY <2>1, <2>2
  <2> QED BY <2>1, <2>2, <2>3 DEF one
<1> HIDE DEF ext
<1>5. /\ Len(wire) \in Nat /\ Len(ext) \in Nat /\ n = Len(wire) + Len(ext)
      /\ wire' \in Seq(TagType)
      /\ DOMAIN wire = 1..Len(wire) /\ DOMAIN wire' = 1..n
      /\ \A i \in DOMAIN wire : i \in DOMAIN wire' /\ wire'[i] = wire[i]
      /\ \A k \in DOMAIN ext : Len(wire) + k \in DOMAIN wire' /\ wire'[Len(wire) + k] = ext[k]
      /\ \A i \in DOMAIN wire' \ DOMAIN wire :
           i - Len(wire) \in DOMAIN ext /\ wire'[i] = ext[i - Len(wire)]
  <2>1. wire' = wire \o ext
    BY <1>1 DEF ext
  <2>2. wire \in Seq(TagType) /\ ext \in Seq(TagType)
    BY <1>2, <1>4
  <2> QED BY <2>1, <2>2, Appended
<1> HIDE DEF n
<1>6. WireKept
  BY <1>5 DEF WireKept
<1>7. n \in DOMAIN wire' \ DOMAIN wire /\ wire'[n] = new
  <2>1. n = Len(wire) + (Len(tags) + 1)
    BY <1>4, <1>5
  <2> QED BY <1>4, <1>5, <2>1
<1>8. \A k \in DOMAIN tags : tags[k] \in HeaderTagsNow
  BY <1>4, ElementOfSeq
<1>9. ASSUME NEW i \in (DOMAIN wire' \ DOMAIN wire) \ {n}
      PROVE  i < n /\ wire'[i] \in HeaderTagsNow
  <2>1. i - Len(wire) \in DOMAIN tags /\ i < n
    BY <1>4, <1>5
  <2> QED BY <1>4, <1>5, <1>8, <2>1
<1>10. ASSUME NEW type, Mentions(tags, type)
       PROVE  \E i \in DOMAIN wire' : i < n /\ wire'[i].conn = conn /\ wire'[i].type = type
  <2>1. PICK k \in DOMAIN tags : tags[k].type = type
    BY <1>10 DEF Mentions
  <2>2. tags[k].conn = conn
    BY <1>8 DEF HeaderTagsNow
  <2>3. Len(wire) + k \in DOMAIN wire' /\ wire'[Len(wire) + k] = tags[k]
    BY <1>4, <1>5
  <2>4. Len(wire) + k < n
    BY <1>4, <1>5
  <2> QED BY <2>1, <2>2, <2>3, <2>4
<1>11. Announced(n)
  BY <1>1, <1>10 DEF Announced, Announces
<1>12. Media' = Media \cup {n}
  <2>1. wire'[n].type \in Tracks
    BY <1>1, <1>7 DEF MediaTagOf
  <2>2. \A i \in (DOMAIN wire' \ DOMAIN wire) \ {n} : wire'[i].type \notin Tracks
    BY <1>9 DEF HeaderTagsNow, HeaderTypes, Tracks
  <2> QED BY <1>5, <1>7, <2>1, <2>2 DEF Media
<1> QED BY <1>1, <1>6, <1>7, <1>9, <1>11, <1>12 DEF n

-----------------------------------------------------------------------------
(***************************************************************************)
(* Connections, series and headers.                                        *)
(***************************************************************************)
\* What a connection resumes with keeps its type.
LEMMA ResumeType ==
  ASSUME WireInv, [EngineNext]_engineVars
  PROVE  resume' \in [gated : BOOLEAN, evicted : BOOLEAN, torn : TornStates]
<1>0. /\ resume \in [gated : BOOLEAN, evicted : BOOLEAN, torn : TornStates]
      /\ [resume EXCEPT !.torn = "intact"]
           \in [gated : BOOLEAN, evicted : BOOLEAN, torn : TornStates]
  BY DEF WireInv, TornStates
<1>1. CASE PushCall
  BY <1>0, <1>1 DEF PushCall, Push
<1>2. CASE AttachTransport
  <2>1. \E b \in BOOLEAN : resume' = [resume EXCEPT !.torn = "intact", !.gated = b]
    BY <1>2 DEF AttachTransport
  <2> QED BY <1>0, <2>1 DEF TornStates
<1>3. CASE DetachTransport \/ Reset
  <2>1. \E b \in BOOLEAN : resume' = [gated |-> b, evicted |-> FALSE, torn |-> "intact"]
    BY <1>3 DEF DetachTransport, Reset
  <2> QED BY <2>1 DEF TornStates
<1>4. CASE TornTag
  BY <1>0, <1>4 DEF TornTag, TornStates
<1>5. CASE UNCHANGED resume
  BY <1>0, <1>5
<1>6. TornTag \/ UNCHANGED resume \/ PushCall \/ AttachTransport \/ DetachTransport \/ Reset
  BY DEF EngineNext, OptionalCalls, Tick, Finish, ResyncCall, ConfigureCall, ConfigureCodecs,
         AttachOutput, TickNoTransport, TickMaintainFails, TickBegin, TickHeaders,
         TickHeadersFail, TickSend, TickNoConfig, TickSendFails, TickFlushFails, TickEnd,
         FinishNoTransport, FinishBegin, FinishSend, FinishFails, FinishEnd, engineVars
<1> QED BY <1>1, <1>2, <1>3, <1>4, <1>5, <1>6

\* Every step keeps the wire a log of this and earlier connections.
LEMMA WireInvStep ==
  ASSUME BufferInv, MuxInv, WireInv, [EngineNext]_engineVars
  PROVE  WireInv'
<1>0. /\ resume' \in [gated : BOOLEAN, evicted : BOOLEAN, torn : TornStates]
      /\ wire \in Seq(TagType) /\ conn \in Nat /\ epoch \in Nat
      /\ \A i \in DOMAIN wire : /\ wire[i].conn <= conn /\ wire[i].epoch <= epoch
                                /\ wire[i].conn \in Nat /\ wire[i].epoch \in Nat
  <2>1. \A i \in DOMAIN wire : wire[i] \in TagType
    BY LenProperties, ElementOfSeq DEF WireInv
  <2> QED BY <2>1, ResumeType, BoundsAssumption DEF WireInv, MuxInv, TagType
<1>1. CASE wire' = wire /\ conn' \in {conn, conn + 1} /\ epoch' \in {epoch, epoch + 1}
  BY <1>0, <1>1 DEF WireInv
<1>2. CASE HeaderStep
  <2>1. /\ WireKept /\ conn' = conn /\ epoch' = epoch
        /\ \A i \in DOMAIN wire' \ DOMAIN wire : wire'[i] \in HeaderTagsNow
    BY <1>2, HeaderStepWire DEF HeaderStep, Writing
  <2>2. ASSUME NEW i \in DOMAIN wire'
        PROVE  wire'[i].conn <= conn /\ wire'[i].epoch <= epoch
    BY <1>0, <2>1 DEF WireKept, HeaderTagsNow
  <2> QED BY <1>0, <2>1, <2>2 DEF WireInv, WireKept
<1>3. CASE MediaStep
  <2>1. /\ WireKept /\ conn' = conn /\ epoch' = epoch
        /\ \A i \in (DOMAIN wire' \ DOMAIN wire) \ {Len(wire')} : wire'[i] \in HeaderTagsNow
        /\ MediaTagOf(wire'[Len(wire')], NextPacket)
    BY <1>3, MediaStepWire DEF MediaStep, Writing
  <2>2. ASSUME NEW i \in DOMAIN wire'
        PROVE  wire'[i].conn <= conn /\ wire'[i].epoch <= epoch
    BY <1>0, <2>1 DEF WireKept, HeaderTagsNow, MediaTagOf
  <2> QED BY <1>0, <2>1, <2>2 DEF WireInv, WireKept
<1>4. CASE Quiet \/ AttachTransport \/ DetachTransport \/ Reset \/ FinishEnd
  BY <1>1, <1>4 DEF Quiet, AttachTransport, DetachTransport, Reset, FinishEnd
<1> QED BY <1>2, <1>3, <1>4, WireEffect

\* What is on the wire stays on it.
LEMMA OnWireKept ==
  ASSUME WireInv, WireKept \/ wire' = wire, NEW n, NEW type, OnWire(n, type)
  PROVE  OnWire(n, type)'
BY DEF OnWire, WireKept

\* The log only grows.
LEMMA WireKeptOrSame ==
  ASSUME BufferInv, MuxInv, WireInv, [EngineNext]_engineVars
  PROVE  /\ WireKept \/ wire' = wire
         /\ AttachTransport \/ conn' = conn
<1>1. CASE HeaderStep
  BY <1>1, HeaderStepWire DEF HeaderStep, Writing
<1>2. CASE MediaStep
  BY <1>2, MediaStepWire DEF MediaStep, Writing
<1>3. CASE Quiet \/ AttachTransport \/ DetachTransport \/ Reset \/ FinishEnd
  BY <1>3 DEF Quiet, AttachTransport, DetachTransport, Reset, FinishEnd
<1> QED BY <1>1, <1>2, <1>3, WireEffect

\* A muxer on a new transport has written nothing.
LEMMA AttachedMuxer ==
  ASSUME MuxInv, AttachTransport
  PROVE  /\ muxer' \in MuxerType /\ muxer'.avcc = None /\ muxer'.asc = None
         /\ timebase # None => muxer'.last = timebase.last
         /\ metadata_written' = FALSE
BY AttachedMuxerType DEF AttachTransport, MuxInv, NewMuxer, RestoreTimebase

\* What the muxer takes for written is on the wire.
MuxerHeaders ==
  muxer # None =>
    /\ muxer.avcc # None => OnWire(conn, "avcc")
    /\ muxer.asc # None => OnWire(conn, "asc")

\* Every step keeps what the muxer has written on the wire.
LEMMA MuxerHeadersStep ==
  ASSUME BufferInv, MuxInv, WireInv, MuxerHeaders, [EngineNext]_engineVars
  PROVE  MuxerHeaders'
<1>1. WireKept \/ wire' = wire
  BY WireKeptOrSame
<1>2. ASSUME HeaderStep \/ MediaStep PROVE MuxerHeaders'
  <2>1. PICK n : Announced(n)
    BY <1>2, HeaderStepWire, MediaStepWire
  <2>2. conn' = conn /\ muxer # None
    BY <1>2 DEF HeaderStep, MediaStep, Writing
  <2>3. ASSUME muxer'.avcc # None PROVE OnWire(conn, "avcc")'
    <3>1. CASE muxer'.avcc = muxer.avcc
      BY <1>1, <2>2, <2>3, <3>1, OnWireKept DEF MuxerHeaders
    <3>2. CASE muxer'.avcc # muxer.avcc
      BY <2>1, <2>2, <3>2 DEF Announced, OnWire
    <3> QED BY <3>1, <3>2
  <2>4. ASSUME muxer'.asc # None PROVE OnWire(conn, "asc")'
    <3>1. CASE muxer'.asc = muxer.asc
      BY <1>1, <2>2, <2>4, <3>1, OnWireKept DEF MuxerHeaders
    <3>2. CASE muxer'.asc # muxer.asc
      BY <2>1, <2>2, <3>2 DEF Announced, OnWire
    <3> QED BY <3>1, <3>2
  <2> QED BY <2>2, <2>3, <2>4 DEF MuxerHeaders
<1>3. CASE Quiet
  BY <1>3 DEF Quiet, MuxerHeaders, OnWire
<1>4. CASE AttachTransport
  BY <1>4, AttachedMuxer DEF MuxerHeaders
<1>5. CASE DetachTransport \/ Reset \/ FinishEnd
  BY <1>5 DEF DetachTransport, Reset, FinishEnd, MuxerHeaders
<1> QED BY <1>2, <1>3, <1>4, <1>5, WireEffect

\* The step by which a tick comes to send, or goes on sending.
LEMMA TickCall ==
  ASSUME [EngineNext]_engineVars, call' = "tick"
  PROVE  TickHeaders \/ TickSend \/ UNCHANGED engineVars
BY DEF EngineNext, OptionalCalls, Tick, Finish, PushCall, Push, ResyncCall, ConfigureCall,
       ConfigureCodecs, AttachOutput, Reset, AttachTransport, DetachTransport, Unlocked,
       TickNoTransport, TickMaintainFails, TickBegin, TickHeadersFail, TickNoConfig,
       TickSendFails, TickFlushFails, TickEnd, AbortTick, Release, FinishNoTransport,
       FinishBegin, FinishSend, FinishFails, FinishEnd

\* The metadata is taken for written only at the end of a tick.
LEMMA MetadataStep ==
  ASSUME [EngineNext]_engineVars
  PROVE  metadata_written' = metadata_written \/ metadata_written' = FALSE \/ call = "tick"
BY DEF EngineNext, OptionalCalls, Tick, Finish, PushCall, Push, ResyncCall, ConfigureCall,
       ConfigureCodecs, AttachOutput, Reset, AttachTransport, DetachTransport,
       TickNoTransport, TickMaintainFails, TickBegin, TickHeaders, TickHeadersFail, TickSend,
       TickNoConfig, TickSendFails, TickFlushFails, TickEnd, AbortTick, FinishNoTransport,
       FinishBegin, FinishSend, FinishFails, FinishEnd, engineVars

\* Every step keeps the headers of the connection on its wire.
LEMMA HeaderInvStep ==
  ASSUME BufferInv, MuxInv, WireInv, HeaderInv, [EngineNext]_engineVars
  PROVE  HeaderInv'
<1>1. WireKept \/ wire' = wire
  BY WireKeptOrSame
<1>2. MuxerHeaders'
  BY MuxerHeadersStep DEF HeaderInv, MuxerHeaders
<1>3. metadata_written' => OnWire(conn, "script")'
  <2>1. CASE AttachTransport
    BY <2>1, AttachedMuxer
  <2>2. CASE conn' = conn /\ metadata_written'
    <3>1. OnWire(conn, "script")
      BY <2>2, MetadataStep DEF HeaderInv
    <3> QED BY <1>1, <2>2, <3>1, OnWireKept
  <2> QED BY <2>1, <2>2, WireKeptOrSame
<1>4. ASSUME call' = "tick"
      PROVE  /\ OnWire(conn, "script")'
             /\ codecs'.avcc # None => muxer'.avcc # None
             /\ codecs'.asc # None => muxer'.asc # None
  <2>1. CASE UNCHANGED engineVars
    BY <1>4, <2>1 DEF engineVars, HeaderInv, OnWire
  <2>2. CASE TickHeaders
    <3>1. /\ muxer \in MuxerType /\ codecs \in CodecsType
          /\ codecs' = codecs /\ conn' = conn
          /\ muxer' = InitCodecs(muxer, codecs.avcc, codecs.asc)
      BY <2>2 DEF TickHeaders, MuxInv
    <3>2. muxer' \in MuxerType /\ muxer'.last = muxer.last
      BY <3>1, InitCodecsType, InitCodecsEffect DEF CodecsType
    <3>3. ~metadata_written => OnWire(conn, "script")'
      BY <2>2, <3>1, <3>2, TickHeadersWrites DEF TickHeaders
    <3>4. metadata_written => OnWire(conn, "script")'
      BY <1>1, <3>1, OnWireKept DEF HeaderInv
    <3> QED BY <3>1, <3>3, <3>4, InitCodecsEffect
  <2>3. CASE TickSend
    <3>1. codecs' = codecs /\ conn' = conn /\ call = "tick" /\ sent < Len(batch)
      BY <2>3 DEF TickSend
    <3>2. OnWire(conn, "script")'
      BY <1>1, <3>1, OnWireKept DEF HeaderInv
    <3>3. muxer \in MuxerType /\ NextPacket \in Packets
      BY <3>1, NextPacketType DEF MuxInv, BufferInv
    <3> DEFINE sm == Sniff(muxer, NextPacket)
               m == Anchored(sm, NextPacket)
    <3>4. /\ sm \in MuxerType
          /\ muxer.avcc # None => sm.avcc # None
          /\ muxer.asc # None => sm.asc # None
      BY <3>3, WriteType, WriteEffect
    <3>5. muxer' = Stamped(m, NextPacket)
      BY <2>3 DEF TickSend
    <3> HIDE DEF sm
    <3>6. m \in MuxerType /\ m.avcc = sm.avcc /\ m.asc = sm.asc
      BY <3>3, <3>4, WriteType, WriteEffect
    <3> HIDE DEF m
    <3>7. muxer'.avcc = sm.avcc /\ muxer'.asc = sm.asc
      BY <3>3, <3>5, <3>6, WriteEffect
    <3> QED BY <3>1, <3>2, <3>4, <3>7 DEF HeaderInv
  <2> QED BY <1>4, <2>1, <2>2, <2>3, TickCall
<1> QED BY <1>2, <1>3, <1>4 DEF HeaderInv, MuxerHeaders

\* The tags in the log are tags, of tracks known to the muxer when they carry media.
LEMMA TagsOfWire ==
  ASSUME WireInv
  PROVE  /\ DOMAIN wire \subseteq Nat \ {0}
         /\ \A i \in DOMAIN wire : wire[i] \in TagType /\ 1..i \subseteq DOMAIN wire
         /\ \A i \in Media : i \in DOMAIN wire /\ wire[i].type \in Tracks
<1>1. wire \in Seq(TagType) /\ DOMAIN wire = 1..Len(wire) /\ Len(wire) \in Nat
  BY LenProperties DEF WireInv
<1>2. \A i \in DOMAIN wire : wire[i] \in TagType
  BY <1>1, ElementOfSeq
<1> QED BY <1>1, <1>2 DEF Media

\* Every step keeps sequence headers before the media that need them.
LEMMA SequenceStep ==
  ASSUME BufferInv, MuxInv, WireInv, HeaderInv, SequenceBeforeMedia, [EngineNext]_engineVars
  PROVE  SequenceBeforeMedia'
<1>1. CASE wire' = wire
  BY <1>1 DEF SequenceBeforeMedia, Media
<1>2. ASSUME WireKept, NEW j \in Media, wire'[j].key \/ wire'[j].type = "audio"
      PROVE  \E i \in 1..(j - 1) :
               /\ wire'[i].conn = wire'[j].conn
               /\ wire'[i].type = (IF wire'[j].type = "video" THEN "avcc" ELSE "asc")
  <2>1. j \in DOMAIN wire /\ j \in Nat /\ 1..j \subseteq DOMAIN wire /\ wire'[j] = wire[j]
    BY <1>2, TagsOfWire DEF WireKept
  <2>2. PICK i \in 1..(j - 1) :
               /\ wire[i].conn = wire[j].conn
               /\ wire[i].type = (IF wire[j].type = "video" THEN "avcc" ELSE "asc")
    BY <1>2, <2>1 DEF SequenceBeforeMedia
  <2>3. i \in 1..j
    BY <2>1
  <2>4. wire'[i] = wire[i]
    BY <1>2, <2>1, <2>3 DEF WireKept
  <2> QED BY <2>1, <2>2, <2>4
<1>3. CASE HeaderStep
  <2>1. WireKept /\ Media' = Media
    BY <1>3, HeaderStepWire
  <2> QED BY <1>2, <2>1 DEF SequenceBeforeMedia
<1>4. CASE MediaStep
  <2> DEFINE n == Len(wire')
             type == IF NextPacket.kind = "video" THEN "avcc" ELSE "asc"
  <2>1. /\ WireKept /\ Media' = Media \cup {n} /\ n \in DOMAIN wire' \ DOMAIN wire
        /\ MediaTagOf(wire'[n], NextPacket) /\ Announced(n)
    BY <1>4, MediaStepWire
  <2>2. WireInv'
    BY WireInvStep
  <2> HIDE DEF n
  <2>3. ASSUME wire'[n].key \/ wire'[n].type = "audio"
        PROVE  \E i \in DOMAIN wire' : /\ i < n /\ wire'[i].conn = conn
                                       /\ wire'[i].type = type
    <3>1. /\ wire'[n].key = NextPacket.key /\ wire'[n].type = NextPacket.kind
          /\ NextPacket.kind \in Tracks
      BY <2>1 DEF MediaTagOf
    <3>2. \A i \in DOMAIN wire : i \in DOMAIN wire' /\ i < n /\ wire'[i] = wire[i]
      BY <2>1 DEF WireKept
    <3>3. muxer # None
      BY <1>4 DEF MediaStep, Writing
    <3>4. CASE NextPacket.kind = "video"
      <4>1. muxer'.avcc # None
        BY <1>4, <2>3, <3>1, <3>4 DEF MediaStep
      <4>2. CASE muxer.avcc = None
        BY <2>1, <3>4, <4>1, <4>2 DEF Announced
      <4>3. CASE muxer.avcc # None
        BY <3>2, <3>3, <3>4, <4>3 DEF HeaderInv, OnWire
      <4> QED BY <4>2, <4>3
    <3>5. CASE NextPacket.kind = "audio"
      <4>1. muxer'.asc # None
        BY <1>4, <3>5 DEF MediaStep
      <4>2. CASE muxer.asc = None
        BY <2>1, <3>5, <4>1, <4>2 DEF Announced
      <4>3. CASE muxer.asc # None
        BY <3>2, <3>3, <3>5, <4>3 DEF HeaderInv, OnWire
      <4> QED BY <4>2, <4>3
    <3> QED BY <3>1, <3>4, <3>5 DEF Tracks
  <2>4. \A i \in DOMAIN wire' : i < n => i \in 1..(n - 1)
    <3>1. DOMAIN wire' \subseteq Nat \ {0}
      BY <2>2, LenProperties DEF WireInv
    <3> QED BY <2>1, <3>1
  <2>5. wire'[n].conn = conn /\ wire'[n].type = NextPacket.kind
    BY <2>1 DEF MediaTagOf
  <2> QED BY <1>2, <2>1, <2>3, <2>4, <2>5 DEF SequenceBeforeMedia
<1> QED BY <1>1, <1>3, <1>4, WireEffect
        DEF Quiet, AttachTransport, DetachTransport, Reset, FinishEnd

-----------------------------------------------------------------------------
(***************************************************************************)
(* Timestamps.                                                             *)
(***************************************************************************)
\* A clamped mark follows the mark.
LEMMA LargerGrows ==
  ASSUME NEW a \in Int, NEW b \in Int, a <= b
  PROVE  Larger(a, 0) \in Int /\ Larger(b, 0) \in Int /\ Larger(a, 0) <= Larger(b, 0)
BY DEF Larger

\* While packets are written the marks of the series bound its media from above.
LEMMA WritingMarks ==
  ASSUME MuxInv, WireInv, ClockInv, Writing
  PROVE  /\ timebase = None /\ timebase' = None /\ muxer # None /\ muxer' # None
         /\ \A i \in Media : wire[i].epoch = epoch =>
              /\ wire[i].ts \in Int /\ Larger(muxer'.last[wire[i].type], 0) \in Int
              /\ wire[i].ts <= Larger(muxer'.last[wire[i].type], 0)
<1>1. /\ muxer # None /\ muxer' # None /\ timebase = None /\ timebase' = None
      /\ \A t \in Tracks : /\ muxer.last[t] \in Int /\ muxer'.last[t] \in Int
                           /\ muxer'.last[t] >= muxer.last[t]
  BY DEF Writing, ClockInv
<1>2. ASSUME NEW i \in Media, wire[i].epoch = epoch
      PROVE  /\ wire[i].ts \in Int /\ Larger(muxer'.last[wire[i].type], 0) \in Int
             /\ wire[i].ts <= Larger(muxer'.last[wire[i].type], 0)
  <2> DEFINE t == wire[i].type
  <2>1. t \in Tracks /\ wire[i].ts \in Int
    BY TagsOfWire DEF TagType
  <2>2. wire[i].ts <= Larger(muxer.last[t], 0)
    BY <1>1, <1>2 DEF ClockInv, InSeries, Marks
  <2>3. muxer.last[t] \in Int /\ muxer'.last[t] \in Int /\ muxer.last[t] <= muxer'.last[t]
    BY <1>1, <2>1
  <2> HIDE DEF t
  <2>4. /\ Larger(muxer.last[t], 0) \in Int /\ Larger(muxer'.last[t], 0) \in Int
        /\ Larger(muxer.last[t], 0) <= Larger(muxer'.last[t], 0)
    BY <2>3, LargerGrows
  <2> QED BY <2>1, <2>2, <2>4 DEF t
<1> QED BY <1>1, <1>2

\* Every step keeps the muxer's marks above what its series has carried.
LEMMA ClockStep ==
  ASSUME BufferInv, MuxInv, WireInv, ClockInv, [EngineNext]_engineVars
  PROVE  ClockInv'
<1>1. CASE HeaderStep
  <2>1. Media' = Media /\ WireKept /\ Writing /\ epoch' = epoch
    BY <1>1, HeaderStepWire DEF HeaderStep, Writing
  <2>2. \A i \in Media : wire'[i] = wire[i]
    BY <2>1 DEF WireKept, Media
  <2> QED BY <2>1, <2>2, WritingMarks DEF ClockInv, InSeries, Marks
<1>2. CASE MediaStep
  <2> DEFINE n == Len(wire')
  <2>1. /\ WireKept /\ Media' = Media \cup {n} /\ Writing /\ epoch' = epoch
        /\ MediaTagOf(wire'[n], NextPacket)
    BY <1>2, MediaStepWire DEF MediaStep, Writing
  <2>2. \A i \in Media : wire'[i] = wire[i]
    BY <2>1 DEF WireKept, Media
  <2> HIDE DEF n
  <2>3. /\ wire'[n].type = NextPacket.kind
        /\ wire'[n].ts = Larger(muxer'.last[NextPacket.kind], 0)
        /\ muxer'.last[NextPacket.kind] \in Int
    BY <2>1 DEF MediaTagOf, Writing
  <2>4. wire'[n].ts <= Larger(muxer'.last[wire'[n].type], 0)
    BY <2>3 DEF Larger
  <2> QED BY <2>1, <2>2, <2>4, WritingMarks DEF ClockInv, InSeries, Marks
<1>3. CASE Quiet
  BY <1>3 DEF Quiet, ClockInv, InSeries, Marks, Media
<1>4. CASE AttachTransport
  <2>1. CASE timebase = None
    <3>1. wire' = wire /\ epoch' = epoch + 1 /\ timebase' = None
      BY <1>4, <2>1 DEF AttachTransport
    <3>2. \A i \in DOMAIN wire : wire[i].epoch # epoch + 1
      BY TagsOfWire, BoundsAssumption DEF WireInv, MuxInv, TagType
    <3> QED BY <3>1, <3>2 DEF ClockInv, Media
  <2>2. CASE timebase # None
    <3>1. /\ wire' = wire /\ epoch' = epoch /\ timebase' = None /\ muxer = None
          /\ muxer' # None /\ muxer'.last = timebase.last
      BY <1>4, <2>2, AttachedMuxer, NoMuxerAssumption DEF AttachTransport, ClockInv
    <3> QED BY <2>2, <3>1 DEF ClockInv, InSeries, Marks, Media
  <2> QED BY <2>1, <2>2
<1>5. CASE DetachTransport
  <2>1. /\ wire' = wire /\ epoch' = epoch /\ muxer' = None
        /\ timebase' = IF muxer = None THEN timebase ELSE TimebaseOf(muxer)
    BY <1>5 DEF DetachTransport
  <2> QED BY <2>1 DEF ClockInv, InSeries, Marks, Media, TimebaseOf
<1>6. CASE Reset \/ FinishEnd
  <2>1. muxer' = None /\ timebase' = None
    BY <1>6, NoMuxerAssumption DEF Reset, FinishEnd, ClockInv, MuxInv
  <2> QED BY <2>1 DEF ClockInv, InSeries
<1> QED BY <1>1, <1>2, <1>3, <1>4, <1>5, <1>6, WireEffect

\* Every step keeps the media of a series in order.
LEMMA MonotoneStep ==
  ASSUME BufferInv, MuxInv, WireInv, ClockInv, MediaMonotone, [EngineNext]_engineVars
  PROVE  MediaMonotone'
<1>1. CASE wire' = wire
  BY <1>1 DEF MediaMonotone, Media
<1>2. CASE HeaderStep
  <2>1. Media' = Media /\ \A i \in Media : wire'[i] = wire[i]
    BY <1>2, HeaderStepWire DEF WireKept, Media
  <2> QED BY <2>1 DEF MediaMonotone
<1>3. CASE MediaStep
  <2> DEFINE n == Len(wire')
  <2>1. /\ WireKept /\ Media' = Media \cup {n} /\ n \in DOMAIN wire' \ DOMAIN wire
        /\ MediaTagOf(wire'[n], NextPacket) /\ Writing
    BY <1>3, MediaStepWire DEF MediaStep
  <2> HIDE DEF n
  <2>2. \A i \in Media : wire'[i] = wire[i] /\ i < n /\ i \in Nat
    BY <2>1 DEF WireKept, Media
  <2>3. n \in Nat
    BY <2>1 DEF WireKept
  <2>4. ASSUME NEW i \in Media, wire[i].type = wire'[n].type, wire[i].epoch = wire'[n].epoch
        PROVE  wire[i].ts <= wire'[n].ts
    <3>1. /\ wire'[n].epoch = epoch /\ wire'[n].type = NextPacket.kind
          /\ wire'[n].ts = Larger(muxer'.last[NextPacket.kind], 0)
      BY <2>1 DEF MediaTagOf
    <3> QED BY <2>1, <2>4, <3>1, WritingMarks
  <2> QED BY <2>1, <2>2, <2>3, <2>4 DEF MediaMonotone
<1> QED BY <1>1, <1>2, <1>3, WireEffect
        DEF Quiet, AttachTransport, DetachTransport, Reset, FinishEnd

-----------------------------------------------------------------------------
(***************************************************************************)
(* Theorems that hold whatever the encoders' clocks do.                    *)
(***************************************************************************)
\* A new engine has written nothing.
LEMMA WireInit ==
  ASSUME EngineInit
  PROVE  WireInv /\ HeaderInv /\ ClockInv /\ SequenceBeforeMedia /\ MediaMonotone
<1>1. /\ wire = <<>> /\ DOMAIN wire = {} /\ muxer = None /\ timebase = None
      /\ metadata_written = FALSE /\ call = "none"
      /\ resume = [gated |-> FALSE, evicted |-> FALSE, torn |-> "intact"]
  BY DEF EngineInit
<1>2. WireInv
  BY <1>1, EmptySeq DEF WireInv, TornStates
<1> QED BY <1>1, <1>2 DEF HeaderInv, ClockInv, InSeries, SequenceBeforeMedia, MediaMonotone, Media

\* The headers' and the clocks' parts, each with the parts it rests on.
THEOREM WireInvariant ==
  EngineSpec => [](WireInv /\ HeaderInv /\ ClockInv)
<1>1. BufferInv /\ MuxInv /\ WireInv /\ HeaderInv /\ ClockInv /\ [EngineNext]_engineVars
        => (WireInv /\ HeaderInv /\ ClockInv)'
  BY WireInvStep, HeaderInvStep, ClockStep
<1>2. EngineInit => WireInv /\ HeaderInv /\ ClockInv
  BY WireInit
<1> QED BY <1>1, <1>2, EngineInvariant, PTL DEF EngineSpec

\* No tick sends media on a connection that has not had its metadata and every
\* configuration the engine holds.
THEOREM EngineTickSendsAfterHeaders == EngineSpec => []TickSendsAfterHeaders
<1>1. HeaderInv /\ MuxInv => TickSendsAfterHeaders
  <2> SUFFICES ASSUME HeaderInv, MuxInv, call = "tick",
                      NEW type \in {"script"} \cup {c \in {"avcc", "asc"} : codecs[c] # None}
               PROVE  OnWire(conn, type)
    BY DEF TickSendsAfterHeaders, OnWire
  <2>1. muxer # None
    BY NoMuxerAssumption DEF MuxInv
  <2>2. CASE type = "script"
    BY <2>2 DEF HeaderInv
  <2>3. CASE type = "avcc" /\ codecs.avcc # None
    BY <2>1, <2>3 DEF HeaderInv
  <2>4. CASE type = "asc" /\ codecs.asc # None
    BY <2>1, <2>4 DEF HeaderInv
  <2>5. codecs["avcc"] = codecs.avcc /\ codecs["asc"] = codecs.asc
    OBVIOUS
  <2> QED BY <2>2, <2>3, <2>4, <2>5
<1> QED BY <1>1, WireInvariant, EngineInvariant, PTL

\* A keyframe or an audio frame on the wire has its sequence header before it,
\* on its own connection: through sniffing, configuring, failing and resuming.
THEOREM EngineSequenceBeforeMedia == EngineSpec => []SequenceBeforeMedia
<1>1. BufferInv /\ MuxInv /\ WireInv /\ HeaderInv /\ SequenceBeforeMedia
        /\ [EngineNext]_engineVars => SequenceBeforeMedia'
  BY SequenceStep
<1>2. EngineInit => SequenceBeforeMedia
  BY WireInit
<1> QED BY <1>1, <1>2, WireInvariant, EngineInvariant, PTL DEF EngineSpec

\* Within a timestamp series no track goes backwards, whatever the capture
\* clock does and however often the transport is lost.
THEOREM EngineMediaMonotone == EngineSpec => []MediaMonotone
<1>1. BufferInv /\ MuxInv /\ WireInv /\ ClockInv /\ MediaMonotone /\ [EngineNext]_engineVars
        => MediaMonotone'
  BY MonotoneStep
<1>2. EngineInit => MediaMonotone
  BY WireInit
<1> QED BY <1>1, <1>2, WireInvariant, EngineInvariant, PTL DEF EngineSpec

-----------------------------------------------------------------------------
(***************************************************************************)
(* Outputs.                                                                *)
(***************************************************************************)
UpTo(M, i) == {j \in M : j <= i}

\* The members of a finite set of integers are numbered from 1 by how many of
\* them there are up to each.
LEMMA Ranks ==
  ASSUME NEW M, IsFiniteSet(M), M \in SUBSET Int
  PROVE  /\ Cardinality(M) \in Nat
         /\ \A i \in M : Cardinality(UpTo(M, i)) \in 1..Cardinality(M)
         /\ \A i, j \in M : Cardinality(UpTo(M, i)) = Cardinality(UpTo(M, j)) => i = j
         /\ \A r \in 1..Cardinality(M) : \E i \in M : Cardinality(UpTo(M, i)) = r
<1> DEFINE n == Cardinality(M)
           rank == [i \in M |-> Cardinality(UpTo(M, i))]
<1>1. n \in Nat
  BY FS_CardinalityType
<1>2. \A i \in M : UpTo(M, i) \in SUBSET M /\ i \in UpTo(M, i)
  BY DEF UpTo
<1>3. ASSUME NEW i \in M
      PROVE  IsFiniteSet(UpTo(M, i)) /\ Cardinality(UpTo(M, i)) \in 1..n
  <2>1. IsFiniteSet(UpTo(M, i)) /\ Cardinality(UpTo(M, i)) <= Cardinality(M)
    BY <1>2, FS_Subset
  <2>2. Cardinality(UpTo(M, i)) \in Nat /\ Cardinality(UpTo(M, i)) # 0
    BY <1>2, <2>1, FS_CardinalityType, FS_EmptySet
  <2> QED BY <1>1, <2>1, <2>2
<1>4. ASSUME NEW i \in M, NEW j \in M,
             Cardinality(UpTo(M, i)) = Cardinality(UpTo(M, j))
      PROVE  i = j
  <2>1. UpTo(M, i) \subseteq UpTo(M, j) \/ UpTo(M, j) \subseteq UpTo(M, i)
    <3>0. \A k \in M : k \in Int
      OBVIOUS
    <3>1. \A a, b, c \in Int : a <= b /\ b <= c => a <= c
      OBVIOUS
    <3>2. \A a, b \in Int : a <= b \/ b <= a
      OBVIOUS
    <3>3. ASSUME NEW a \in M, NEW b \in M, a <= b PROVE UpTo(M, a) \subseteq UpTo(M, b)
      <4>1. ASSUME NEW k \in M, k <= a PROVE k <= b
        BY <3>0, <3>1, <3>3, <4>1
      <4> QED BY <4>1 DEF UpTo
    <3> QED BY <3>0, <3>2, <3>3
  <2>2. UpTo(M, i) = UpTo(M, j)
    BY <1>3, <1>4, <2>1, FS_Subset
  <2>3. i \in UpTo(M, j) /\ j \in UpTo(M, i)
    BY <1>2, <2>2
  <2> QED BY <2>3 DEF UpTo
<1> HIDE DEF n
<1>5. rank \in Injection(M, 1..n)
  BY <1>3, <1>4 DEF Injection, IsInjective
<1>6. rank \in Surjection(M, 1..n)
  <2>1. IsFiniteSet(1..n) /\ Cardinality(1..n) = n
    BY <1>1, FS_Interval
  <2> HIDE DEF rank
  <2> QED BY <1>5, <2>1, FS_Injection DEF n
<1>7. \A r \in 1..n : \E i \in M : Cardinality(UpTo(M, i)) = r
  BY <1>6 DEF Surjection
<1> QED BY <1>1, <1>3, <1>4, <1>7 DEF n

\* The media tags are finitely many.
LEMMA MediaFinite ==
  ASSUME WireInv
  PROVE  IsFiniteSet(Media) /\ Media \in SUBSET Int
<1>1. DOMAIN wire = 1..Len(wire) /\ Len(wire) \in Nat
  BY LenProperties DEF WireInv
<1>2. IsFiniteSet(1..Len(wire))
  BY <1>1, FS_Interval
<1>3. Media \in SUBSET (1..Len(wire))
  BY <1>1 DEF Media
<1>4. IsFiniteSet(Media)
  BY <1>2, <1>3, FS_Subset
<1>5. Media \in SUBSET Int
  BY <1>3
<1> QED BY <1>4, <1>5

\* MediaIds, with the numbering of lemma Ranks.
LEMMA MediaIdsType ==
  ASSUME WireInv
  PROVE  /\ MediaIds \in Seq(Nat) /\ Len(MediaIds) = Cardinality(Media)
         /\ \A i \in Media : MediaIds[Cardinality(UpTo(Media, i))] = wire[i].id
<1> DEFINE n == Cardinality(Media)
           at(r) == CHOOSE i \in Media : Cardinality(UpTo(Media, i)) = r
<1>1. /\ n \in Nat
      /\ \A i \in Media : Cardinality(UpTo(Media, i)) \in 1..n
      /\ \A i, j \in Media : Cardinality(UpTo(Media, i)) = Cardinality(UpTo(Media, j)) => i = j
      /\ \A r \in 1..n : \E i \in Media : Cardinality(UpTo(Media, i)) = r
  BY MediaFinite, Ranks
<1>2. \A r \in 1..n : at(r) \in Media /\ Cardinality(UpTo(Media, at(r))) = r
  BY <1>1
<1>3. MediaIds = [r \in 1..n |-> wire[at(r)].id]
  BY DEF MediaIds, UpTo
<1>4. \A i \in Media : wire[i].id \in Nat
  BY TagsOfWire DEF TagType
<1> HIDE DEF at, n
<1>5. MediaIds \in [1..n -> Nat]
  BY <1>2, <1>3, <1>4
<1>6. MediaIds \in Seq(Nat) /\ Len(MediaIds) = n
  BY <1>1, <1>5
<1>7. ASSUME NEW i \in Media PROVE MediaIds[Cardinality(UpTo(Media, i))] = wire[i].id
  <2>1. Cardinality(UpTo(Media, i)) \in 1..n
    BY <1>1
  <2>2. at(Cardinality(UpTo(Media, i))) = i
    BY <1>1, <1>2, <2>1
  <2> QED BY <1>3, <2>1, <2>2
<1> QED BY <1>6, <1>7 DEF n

\* Headers are not media, and a packet adds its id at the end.
LEMMA MediaIdsKept ==
  ASSUME Media' = Media, \A i \in Media : wire'[i] = wire[i], WireInv, WireInv'
  PROVE  MediaIds' = MediaIds
<1> DEFINE at(r) == CHOOSE i \in Media : Cardinality(UpTo(Media, i)) = r
           n == Cardinality(Media)
<1>1. MediaIds = [r \in 1..n |-> wire[at(r)].id]
  BY DEF MediaIds, UpTo
<1>2. MediaIds' = [r \in 1..n |-> wire'[at(r)].id]
  BY DEF MediaIds, UpTo
<1>3. \A r \in 1..n : at(r) \in Media
  BY MediaFinite, Ranks
<1> HIDE DEF at, n
<1> QED BY <1>1, <1>2, <1>3

\* One more packet on the wire is one more at the end of its list.
LEMMA MediaIdsAppended ==
  ASSUME WireInv, WireInv', NEW k \in Int, k \notin Media, Media' = Media \cup {k},
         \A i \in Media : wire'[i] = wire[i] /\ i < k
  PROVE  MediaIds' = MediaIds \o <<wire'[k].id>>
<1> DEFINE n == Cardinality(Media)
           s == MediaIds
           t == MediaIds'
           x == wire'[k].id
<1>1. /\ IsFiniteSet(Media) /\ Media \in SUBSET Int /\ n \in Nat
      /\ \A r \in 1..n : \E i \in Media : Cardinality(UpTo(Media, i)) = r
      /\ \A i \in Media : Cardinality(UpTo(Media, i)) \in 1..n
  BY MediaFinite, Ranks
<1>2. Cardinality(Media') = n + 1
  BY <1>1, FS_AddElement
<1>3. /\ s \in Seq(Nat) /\ Len(s) = n
      /\ \A i \in Media : s[Cardinality(UpTo(Media, i))] = wire[i].id
  BY MediaIdsType
<1>4. /\ t \in Seq(Nat) /\ Len(t) = n + 1
      /\ \A i \in Media' : t[Cardinality(UpTo(Media', i))] = wire'[i].id
  <2>1. (WireInv => /\ MediaIds \in Seq(Nat) /\ Len(MediaIds) = Cardinality(Media)
                    /\ \A i \in Media : MediaIds[Cardinality(UpTo(Media, i))] = wire[i].id)'
    BY MediaIdsType, PTL
  <2>2. \A i : UpTo(Media, i)' = UpTo(Media', i)
    BY DEF UpTo
  <2> QED BY <1>2, <2>1, <2>2
<1>5. \A i \in Media : UpTo(Media', i) = UpTo(Media, i)
  BY <1>1 DEF UpTo
<1>6. UpTo(Media', k) = Media'
  <2>1. \A j \in Media' : j <= k
    BY <1>1
  <2> QED BY <2>1 DEF UpTo
<1> HIDE DEF n, s, t, x
<1>7. t[n + 1] = x
  BY <1>2, <1>4, <1>6 DEF x
<1>8. ASSUME NEW r \in 1..n PROVE t[r] = s[r]
  <2>1. PICK i \in Media : Cardinality(UpTo(Media, i)) = r
    BY <1>1
  <2>2. s[r] = wire[i].id
    BY <1>3, <2>1
  <2>3. i \in Media' /\ wire'[i] = wire[i] /\ UpTo(Media', i) = UpTo(Media, i)
    BY <1>5
  <2>4. t[r] = wire'[i].id
    BY <1>4, <2>1, <2>3
  <2> QED BY <2>2, <2>3, <2>4
<1>9. x \in Nat
  <2>1. n + 1 \in 1..Len(t)
    BY <1>1, <1>4
  <2> QED BY <1>4, <1>7, <2>1, ElementOfSeq
<1>10. /\ s \o <<x>> \in Seq(Nat) /\ Len(s \o <<x>>) = n + 1
       /\ \A r \in 1..n : (s \o <<x>>)[r] = s[r]
       /\ (s \o <<x>>)[n + 1] = x
  <2>1. s \o <<x>> = Append(s, x)
    BY <1>3, <1>9, AppendIsConcat
  <2> QED BY <1>3, <1>9, <2>1, AppendProperties
<1>11. \A r \in 1..(n + 1) : t[r] = (s \o <<x>>)[r]
  BY <1>1, <1>7, <1>8, <1>10
<1>12. t = s \o <<x>>
  BY <1>4, <1>10, <1>11, SeqEqual
<1> QED BY <1>12 DEF s, t, x

\* Ending with a sequence, element by element.
LEMMA EndsWithAt ==
  ASSUME NEW s \in Seq(Nat), NEW t \in Seq(Nat)
  PROVE  EndsWith(s, t) <=>
           /\ Len(t) <= Len(s)
           /\ \A i \in 1..Len(t) : t[i] = s[(Len(s) - Len(t)) + i]
<1>1. Len(s) \in Nat /\ Len(t) \in Nat
  BY LenProperties
<1>2. CASE ~(Len(t) <= Len(s))
  BY <1>2 DEF EndsWith
<1>3. CASE Len(t) <= Len(s)
  <2> DEFINE k == Len(s) - Len(t)
             u == SubSeq(s, k + 1, Len(s))
  <2>1. k \in 0..Len(s) /\ k + 1 \in Int
    BY <1>1, <1>3
  <2>2. \A i \in (k + 1)..Len(s) : s[i] \in Nat
    BY <1>1, <2>1, ElementOfSeq
  <2>3. /\ u \in Seq(Nat)
        /\ Len(u) = IF k + 1 <= Len(s) THEN Len(s) - (k + 1) + 1 ELSE 0
        /\ \A i \in 1..(Len(s) - (k + 1) + 1) : u[i] = s[(k + 1) + i - 1]
    BY <1>1, <2>1, <2>2, SubSeqProperties
  <2> HIDE DEF u
  <2>4. Len(u) = Len(t) /\ \A i \in 1..Len(t) : u[i] = s[k + i]
    BY <1>1, <1>3, <2>1, <2>3
  <2>5. t = u <=> \A i \in 1..Len(t) : t[i] = s[k + i]
    BY <2>3, <2>4, SeqEqual
  <2> QED BY <1>3, <2>5 DEF EndsWith, u
<1> QED BY <1>2, <1>3

\* Every sequence ends with the empty one, and one more element at the end of
\* both leaves it so.
LEMMA EndsWithStep ==
  ASSUME NEW s \in Seq(Nat), NEW t \in Seq(Nat), NEW x \in Nat, EndsWith(s, t)
  PROVE  EndsWith(s \o <<x>>, t \o <<x>>)
<1> DEFINE s2 == Append(s, x)
           t2 == Append(t, x)
<1>1. s \o <<x>> = s2 /\ t \o <<x>> = t2
  BY AppendIsConcat
<1>2. /\ Len(s) \in Nat /\ Len(t) \in Nat
      /\ s2 \in Seq(Nat) /\ t2 \in Seq(Nat)
      /\ Len(s2) = Len(s) + 1 /\ Len(t2) = Len(t) + 1
      /\ \A i \in 1..Len(s) : s2[i] = s[i]
      /\ \A i \in 1..Len(t) : t2[i] = t[i]
      /\ s2[Len(s) + 1] = x /\ t2[Len(t) + 1] = x
  BY LenProperties, AppendProperties
<1> HIDE DEF s2, t2
<1>3. Len(t) <= Len(s) /\ \A i \in 1..Len(t) : t[i] = s[(Len(s) - Len(t)) + i]
  BY EndsWithAt
<1>4. ASSUME NEW i \in 1..Len(t2) PROVE t2[i] = s2[(Len(s2) - Len(t2)) + i]
  <2>1. CASE i = Len(t) + 1
    BY <1>2, <1>3, <2>1
  <2>2. CASE i \in 1..Len(t)
    <3>1. (Len(s2) - Len(t2)) + i = (Len(s) - Len(t)) + i /\ (Len(s) - Len(t)) + i \in 1..Len(s)
      BY <1>2, <1>3, <2>2
    <3> QED BY <1>2, <1>3, <2>2, <3>1
  <2> QED BY <1>2, <2>1, <2>2
<1>5. EndsWith(s2, t2)
  <2>1. Len(t2) <= Len(s2)
    BY <1>2, <1>3
  <2> QED BY <1>2, <1>4, <2>1, EndsWithAt
<1> QED BY <1>1, <1>5

\* Every sequence ends with the empty one.
LEMMA EndsWithEmpty ==
  ASSUME NEW s \in Seq(Nat)
  PROVE  EndsWith(s, <<>>)
<1>1. <<>> \in Seq(Nat) /\ Len(<<>>) = 0 /\ Len(s) \in Nat
  BY EmptySeq, LenProperties
<1> DEFINE t == <<>>
<1>2. t \in Seq(Nat) /\ Len(t) = 0 /\ Len(t) <= Len(s)
  BY <1>1
<1> HIDE DEF t
<1>3. \A i \in 1..Len(t) : t[i] = s[(Len(s) - Len(t)) + i]
  BY <1>2
<1>4. EndsWith(s, t)
  BY <1>2, <1>3, EndsWithAt
<1> QED BY <1>4 DEF t

\* The ids of a sequence of packets are numbers, one for each.
LEMMA IdsProperties ==
  ASSUME NEW q \in Seq(Packets)
  PROVE  /\ Ids(q) \in Seq(Nat) /\ Len(Ids(q)) = Len(q)
         /\ \A i \in 1..Len(q) : Ids(q)[i] = q[i].id
<1>1. Len(q) \in Nat /\ DOMAIN q = 1..Len(q)
  BY LenProperties
<1>2. ASSUME NEW i \in 1..Len(q) PROVE q[i].id \in Nat
  <2>1. q[i] \in Packets
    BY ElementOfSeq
  <2> QED BY <2>1, BoundsAssumption DEF Packets, Packet
<1>3. Ids(q) = [i \in 1..Len(q) |-> q[i].id]
  BY <1>1 DEF Ids
<1>4. Ids(q) \in [1..Len(q) -> Nat]
  BY <1>2, <1>3
<1> QED BY <1>1, <1>3, <1>4

\* The first k packets of a batch, and one more.
LEMMA SentOneMore ==
  ASSUME NEW q \in Seq(Packets), NEW k \in 0..Len(q)
  PROVE  /\ Ids(SubSeq(q, 1, k)) \in Seq(Nat) /\ SubSeq(q, 1, k) \in Seq(Packets)
         /\ Len(SubSeq(q, 1, k)) = k
         /\ k = 0 => Ids(SubSeq(q, 1, k)) = <<>>
         /\ k < Len(q) => Ids(SubSeq(q, 1, k + 1)) = Ids(SubSeq(q, 1, k)) \o <<q[k + 1].id>>
<1>1. Len(q) \in Nat /\ k \in Nat
  BY LenProperties
<1>2. ASSUME NEW n \in 0..Len(q)
      PROVE  /\ SubSeq(q, 1, n) \in Seq(Packets) /\ Len(SubSeq(q, 1, n)) = n
             /\ Ids(SubSeq(q, 1, n)) \in Seq(Nat) /\ Len(Ids(SubSeq(q, 1, n))) = n
             /\ \A i \in 1..n : Ids(SubSeq(q, 1, n))[i] = q[i].id
  <2> DEFINE u == SubSeq(q, 1, n)
  <2>1. n \in Int /\ \A i \in 1..n : q[i] \in Packets
    BY <1>1, ElementOfSeq
  <2>2. /\ u \in Seq(Packets) /\ Len(u) = IF 1 <= n THEN n - 1 + 1 ELSE 0
        /\ \A i \in 1..(n - 1 + 1) : u[i] = q[1 + i - 1]
    BY <2>1, SubSeqProperties
  <2> HIDE DEF u
  <2>3. Len(u) = n /\ \A i \in 1..n : u[i] = q[i]
    BY <1>1, <2>2
  <2>4. /\ Ids(u) \in Seq(Nat) /\ Len(Ids(u)) = n
        /\ \A i \in 1..n : Ids(u)[i] = u[i].id
    BY <2>2, <2>3, IdsProperties
  <2> QED BY <2>2, <2>3, <2>4 DEF u
<1>3. k = 0 => Ids(SubSeq(q, 1, k)) = <<>>
  BY <1>2, EmptySeq
<1>4. ASSUME k < Len(q) PROVE Ids(SubSeq(q, 1, k + 1)) = Ids(SubSeq(q, 1, k)) \o <<q[k + 1].id>>
  <2> DEFINE s == Ids(SubSeq(q, 1, k))
             t == Ids(SubSeq(q, 1, k + 1))
             x == q[k + 1].id
  <2>1. k + 1 \in 0..Len(q) /\ k + 1 \in 1..(k + 1)
    BY <1>1, <1>4
  <2>2. /\ s \in Seq(Nat) /\ t \in Seq(Nat) /\ Len(s) = k /\ Len(t) = k + 1
        /\ \A i \in 1..k : s[i] = q[i].id
        /\ \A i \in 1..(k + 1) : t[i] = q[i].id
    BY <1>2, <2>1
  <2> HIDE DEF s, t
  <2>3. x = t[k + 1] /\ x \in Nat
    BY <2>1, <2>2, ElementOfSeq
  <2> HIDE DEF x
  <2>4. /\ Append(s, x) \in Seq(Nat) /\ Len(Append(s, x)) = k + 1
        /\ \A i \in 1..k : Append(s, x)[i] = s[i]
        /\ Append(s, x)[k + 1] = x
    BY <2>2, <2>3, AppendProperties
  <2>5. \A i \in 1..(k + 1) : t[i] = Append(s, x)[i]
    <3>1. \A i \in 1..k : t[i] = s[i]
      <4>1. \A i \in 1..k : i \in 1..(k + 1)
        BY <1>1
      <4> QED BY <2>2, <4>1
    <3>2. \A i \in 1..(k + 1) : i \in 1..k \/ i = k + 1
      BY <1>1
    <3> QED BY <2>3, <2>4, <3>1, <3>2
  <2>6. t = Append(s, x) /\ Append(s, x) = s \o <<x>>
    BY <2>2, <2>3, <2>4, <2>5, SeqEqual, AppendIsConcat
  <2> QED BY <2>6 DEF s, t, x
<1> QED BY <1>2, <1>3, <1>4

\* Feeding packets: an output that stays alive has been given all of them, in
\* order, after what it had.
LEMMA Fed ==
  ASSUME outputs \in OutputsType, NEW ps \in Seq(Packets), NEW cut \in FeedsOf(ps)
  PROVE  LET out == FeedOutputs(ps, cut)
         IN  /\ out \in OutputsType /\ out.live \subseteq outputs.live
             /\ \A o \in out.live : out.fed[o] = outputs.fed[o] \o Ids(ps)
             /\ out.from = outputs.from
<1> DEFINE live == {o \in outputs.live : cut[o] = Len(ps)}
           fed == [o \in Outputs |->
                     IF o \in outputs.live THEN outputs.fed[o] \o SubSeq(Ids(ps), 1, cut[o])
                     ELSE outputs.fed[o]]
           out == FeedOutputs(ps, cut)
<1>1. /\ outputs.live \in SUBSET Outputs /\ outputs.fed \in [Outputs -> Seq(Nat)]
      /\ outputs.told \in [Outputs -> CodecsType] /\ outputs.in_force \in CodecsType
      /\ outputs.finalized \in SUBSET Outputs /\ outputs.from \in [Outputs -> Nat]
  BY DEF OutputsType
<1>2. out = [outputs EXCEPT !.live = live, !.fed = fed]
  BY DEF FeedOutputs
<1>3. /\ Ids(ps) \in Seq(Nat) /\ Len(Ids(ps)) = Len(ps) /\ Len(ps) \in Nat
  BY IdsProperties, LenProperties
<1>4. ASSUME NEW o \in Outputs PROVE fed[o] \in Seq(Nat)
  <2>1. cut[o] \in 0..Len(ps) /\ cut[o] \in Int
    BY <1>3 DEF FeedsOf
  <2>2. \A i \in 1..cut[o] : Ids(ps)[i] \in Nat
    <3>1. ASSUME NEW i \in 1..cut[o] PROVE i \in 1..Len(Ids(ps))
      BY <1>3, <2>1
    <3> QED BY <1>3, <3>1, ElementOfSeq
  <2>3. SubSeq(Ids(ps), 1, cut[o]) \in Seq(Nat)
    BY <2>1, <2>2, SubSeqProperties
  <2>4. outputs.fed[o] \in Seq(Nat)
    BY <1>1
  <2> QED BY <2>3, <2>4, ConcatProperties
<1>5. ASSUME NEW o \in live PROVE fed[o] = outputs.fed[o] \o Ids(ps)
  <2>1. SubSeq(Ids(ps), 1, cut[o]) = Ids(ps)
    BY <1>3, SubSeqFull
  <2> QED BY <1>1, <2>1
<1>6. fed \in [Outputs -> Seq(Nat)] /\ live \in SUBSET Outputs
  BY <1>1, <1>4
<1> HIDE DEF fed, live
<1>7. /\ out.live = live /\ out.fed = fed /\ out.told = outputs.told
      /\ out.from = outputs.from
      /\ out.in_force = outputs.in_force /\ out.finalized = outputs.finalized
      /\ out = [live |-> live, told |-> outputs.told, fed |-> fed,
                from |-> outputs.from, in_force |-> outputs.in_force, finalized |-> outputs.finalized]
  BY <1>2 DEF OutputsType
<1>8. out \in OutputsType
  BY <1>1, <1>6, <1>7 DEF OutputsType
<1>9. live \subseteq outputs.live
  BY DEF live
<1> QED BY <1>5, <1>7, <1>8, <1>9 DEF live

\* Telling the outputs new configurations feeds them nothing.
LEMMA Synced ==
  ASSUME NEW out \in OutputsType, NEW now \in CodecsType
  PROVE  LET r == SyncOutputCodecs(out, now)
         IN  r \in OutputsType /\ r.live = out.live /\ r.fed = out.fed /\ r.from = out.from
BY DEF SyncOutputCodecs, OutputsType

\* new: the ids of the packets a step writes.
FeedKept(new) ==
  /\ outputs' \in OutputsType
  /\ SentIds' \in Seq(Nat)
  /\ \A o \in outputs'.live :
       \/ /\ o \in outputs.live /\ outputs'.from[o] = outputs.from[o]
          /\ outputs'.fed[o] \o SentIds' = (outputs.fed[o] \o SentIds) \o new
       \/ /\ outputs'.fed[o] \o SentIds' = <<>> /\ new = <<>>
          /\ outputs'.from[o] = Cardinality(Media)

\* What a running tick has sent, as a sequence of ids.
LEMMA SentIdsType ==
  ASSUME BufferInv
  PROVE  SentIds \in Seq(Nat) /\ (Unlocked => SentIds = <<>>)
<1>1. batch \in Seq(Packets) /\ sent \in 0..Len(batch)
  BY DEF BufferInv
<1>2. Ids(SubSeq(batch, 1, sent)) \in Seq(Nat) /\ (sent = 0 => Ids(SubSeq(batch, 1, sent)) = <<>>)
  BY <1>1, SentOneMore
<1>3. Unlocked => sent = 0
  BY <1>1, EmptySeq DEF Unlocked, BufferInv
<1> QED BY <1>2, <1>3, EmptySeq DEF SentIds

\* A call that ends feeds what it has sent, and then holds nothing.
LEMMA FeedAtEnd ==
  ASSUME BufferInv, MirrorInv, BufferInv', call # "finish", Unlocked',
         NEW cut \in FeedsOf(SubSeq(batch, 1, sent)),
         outputs' \in OutputsType, outputs'.from = outputs.from,
         outputs'.live = FeedOutputs(SubSeq(batch, 1, sent), cut).live,
         outputs'.fed = FeedOutputs(SubSeq(batch, 1, sent), cut).fed
  PROVE  FeedKept(<<>>)
<1> DEFINE ps == SubSeq(batch, 1, sent)
           out == FeedOutputs(ps, cut)
<1>1. ps \in Seq(Packets) /\ SentIds = Ids(ps) /\ SentIds \in Seq(Nat)
  BY SentOneMore DEF BufferInv, SentIds
<1>2. SentIds' = <<>>
  <2>1. (BufferInv => SentIds \in Seq(Nat) /\ (Unlocked => SentIds = <<>>))'
    BY SentIdsType, PTL
  <2> QED BY <2>1
<1>3. \A o \in out.live : out.fed[o] = outputs.fed[o] \o SentIds /\ o \in outputs.live
  BY <1>1, Fed DEF MirrorInv
<1>4. ASSUME NEW o \in outputs'.live
      PROVE  /\ o \in outputs.live
             /\ outputs'.fed[o] \o SentIds' = (outputs.fed[o] \o SentIds) \o <<>>
  <2>1. outputs'.fed[o] = outputs.fed[o] \o SentIds /\ o \in outputs.live
    BY <1>3, <1>4
  <2>2. outputs'.fed[o] \in Seq(Nat)
    BY DEF OutputsType
  <2> QED BY <1>2, <2>1, <2>2
<1>5. <<>> \in Seq(Nat)
  BY EmptySeq
<1> QED BY <1>2, <1>4, <1>5 DEF FeedKept

\* A packet goes onto the wire when a tick or a finish sends it, and then only.
LEMMA SendsOnly ==
  ASSUME BufferInv, MuxInv, WireInv, [EngineNext]_engineVars
  PROVE  /\ MediaStep => TickSend \/ FinishSend
         /\ TickSend \/ FinishSend => MediaStep
<1>1. AttachTransport \/ DetachTransport \/ Reset \/ FinishEnd => ~MediaStep
  BY DEF AttachTransport, DetachTransport, Reset, FinishEnd, Release, Unlocked, MediaStep
<1> QED BY <1>1, StepKinds, StillSendsNone, SendWrites

\* A step that feeds no one and whose calls stand where they stood.
LEMMA FeedsNone ==
  ASSUME BufferInv, MirrorInv, BufferInv', outputs' \in OutputsType,
         outputs'.from = outputs.from, outputs'.live = outputs.live, outputs'.fed = outputs.fed, SentIds' = SentIds
  PROVE  FeedKept(<<>>)
<1>1. SentIds \in Seq(Nat)
  BY SentIdsType
<1>2. \A o \in outputs.live : outputs.fed[o] \in Seq(Nat)
  BY DEF MirrorInv, OutputsType
<1>3. \A o \in outputs.live : outputs.fed[o] \o SentIds \in Seq(Nat)
  BY <1>1, <1>2, ConcatProperties
<1>4. \A o \in outputs.live : (outputs.fed[o] \o SentIds) \o <<>> = outputs.fed[o] \o SentIds
  BY <1>3, ConcatEmptySeq
<1> QED BY <1>1, <1>4 DEF FeedKept

\* A step that sends no packet leaves what outputs are owed.
LEMMA FeedQuiet ==
  ASSUME BufferInv, MuxInv, MirrorInv, BufferInv', [EngineNext]_engineVars,
         ~TickSend, ~FinishSend, Cardinality(Media) \in Nat
  PROVE  FeedKept(<<>>)
<1>0. /\ batch \in Seq(Packets) /\ sent \in 0..Len(batch) /\ outputs \in OutputsType
      /\ codecs \in CodecsType
      /\ Unlocked => SentIds = <<>>
      /\ Unlocked' => SentIds' = <<>>
  <2>1. (BufferInv => SentIds \in Seq(Nat) /\ (Unlocked => SentIds = <<>>))'
    BY SentIdsType, PTL
  <2> QED BY <2>1, SentIdsType DEF BufferInv, MirrorInv, MuxInv
<1>1. CASE \/ PushCall \/ ResyncCall \/ ConfigureCall \/ AttachTransport \/ DetachTransport
           \/ TickNoTransport \/ TickMaintainFails \/ FinishNoTransport \/ TickHeaders
           \/ UNCHANGED engineVars
  <2>1. /\ UNCHANGED <<outputs, batch, sent>>
        /\ call = "finish" <=> call' = "finish"
    BY <1>1 DEF PushCall, Push, ResyncCall, ConfigureCall, ConfigureCodecs, AttachTransport,
                DetachTransport, TickNoTransport, TickMaintainFails, FinishNoTransport,
                TickHeaders, engineVars
  <2>2. SentIds' = SentIds
    BY <2>1 DEF SentIds, Ids
  <2> QED BY <1>0, <2>1, <2>2, FeedsNone
<1>2. CASE Reset
  <2>1. /\ UNCHANGED <<batch, sent, call>>
        /\ outputs' = [outputs EXCEPT !.in_force = NoCodecs]
    BY <1>2 DEF Reset
  <2>2. /\ outputs' \in OutputsType /\ outputs'.live = outputs.live
        /\ outputs'.fed = outputs.fed /\ outputs'.from = outputs.from
    BY <1>0, <2>1 DEF OutputsType, NoCodecs, CodecsType
  <2>3. SentIds' = SentIds
    BY <2>1 DEF SentIds, Ids
  <2> QED BY <2>2, <2>3, FeedsNone
<1>3. CASE \E o \in Outputs : AttachOutput(o)
  <2>1. PICK o \in Outputs : AttachOutput(o)
    BY <1>3
  <2>2. /\ UNCHANGED <<batch, sent, call>> /\ Unlocked /\ outputs.fed[o] = <<>>
        /\ outputs' = [outputs EXCEPT !.live = @ \cup {o}, !.told[o] = codecs,
                                      !.from[o] = Cardinality(Media), !.in_force = codecs]
    BY <2>1 DEF AttachOutput
  <2>3. /\ outputs' \in OutputsType /\ outputs'.live = outputs.live \cup {o}
        /\ outputs'.fed = outputs.fed /\ outputs'.from[o] = Cardinality(Media)
        /\ \A u \in Outputs \ {o} : outputs'.from[u] = outputs.from[u]
    BY <1>0, <2>2 DEF OutputsType
  <2>4. SentIds' = <<>> /\ SentIds = <<>>
    BY <1>0, <2>2 DEF Unlocked
  <2>5. ASSUME NEW u \in outputs'.live
        PROVE  \/ /\ u \in outputs.live /\ outputs'.from[u] = outputs.from[u]
                  /\ outputs'.fed[u] \o SentIds' = (outputs.fed[u] \o SentIds) \o <<>>
               \/ /\ outputs'.fed[u] \o SentIds' = <<>> /\ <<>> = <<>>
                  /\ outputs'.from[u] = Cardinality(Media)
    <3>1. u \in Outputs /\ outputs.fed[u] \in Seq(Nat)
      BY <1>0, <2>3 DEF OutputsType
    <3>2. outputs.fed[u] \o <<>> = outputs.fed[u]
      BY <3>1, ConcatEmptySeq
    <3>3. CASE u # o
      BY <3>1, <2>3, <2>4, <3>2, <3>3
    <3>4. CASE u = o
      BY <2>2, <2>3, <2>4, <3>2, <3>4
    <3> QED BY <2>3, <3>3, <3>4
  <2>6. <<>> \in Seq(Nat)
    BY EmptySeq
  <2> QED BY <2>3, <2>4, <2>5, <2>6 DEF FeedKept
<1>4. CASE TickBegin \/ FinishBegin
  <2>1. sent' = 0 /\ Unlocked /\ outputs' = outputs
    BY <1>4 DEF TickBegin, FinishBegin, DrainForMux
  <2>2. batch' \in Seq(Packets) /\ sent' \in 0..Len(batch')
    BY DEF BufferInv
  <2>3. Ids(SubSeq(batch', 1, sent')) = <<>>
    BY <2>1, <2>2, SentOneMore
  <2>4. SentIds' = <<>>
    BY <2>3 DEF SentIds, Ids
  <2> QED BY <1>0, <2>1, <2>4, FeedsNone
<1>5. CASE TickHeadersFail \/ TickNoConfig \/ TickSendFails \/ TickFlushFails
  <2>1. AbortTick /\ call # "finish"
    BY <1>5 DEF TickHeadersFail, TickNoConfig, TickSendFails, TickFlushFails
  <2>2. PICK cut \in FeedsOf(SubSeq(batch, 1, sent)) :
               outputs' = FeedOutputs(SubSeq(batch, 1, sent), cut)
    BY <2>1 DEF AbortTick
  <2>3. outputs' \in OutputsType /\ outputs'.from = outputs.from
    BY <1>0, <2>2, SentOneMore, Fed
  <2>4. Unlocked'
    BY <2>1 DEF AbortTick, Release, Unlocked
  <2> QED BY <2>1, <2>2, <2>3, <2>4, FeedAtEnd
<1>6. CASE TickEnd
  <2> DEFINE harvested == [avcc |-> IF codecs.avcc = None THEN muxer.avcc ELSE codecs.avcc,
                           asc  |-> IF codecs.asc  = None THEN muxer.asc  ELSE codecs.asc]
  <2>1. SubSeq(batch, 1, sent) = batch /\ call = "tick" /\ Unlocked'
    BY <1>0, <1>6, SubSeqFull DEF TickEnd, Release, Unlocked
  <2>2. PICK cut \in FeedsOf(batch) :
               outputs' = SyncOutputCodecs(FeedOutputs(batch, cut), harvested)
    BY <1>6 DEF TickEnd
  <2>3. muxer \in MuxerType
    BY <2>1 DEF MuxInv
  <2>4. harvested \in CodecsType
    BY <1>0, <2>3, HarvestType
  <2>5. /\ FeedOutputs(batch, cut) \in OutputsType
        /\ FeedOutputs(batch, cut).from = outputs.from
    BY <1>0, Fed
  <2> HIDE DEF harvested
  <2>6. /\ outputs' \in OutputsType
        /\ outputs'.live = FeedOutputs(batch, cut).live
        /\ outputs'.fed = FeedOutputs(batch, cut).fed
        /\ outputs'.from = outputs.from
    BY <2>2, <2>4, <2>5, Synced
  <2> QED BY <2>1, <2>6, FeedAtEnd
<1>7. CASE FinishFails \/ FinishEnd
  <2>1. SentIds = <<>> /\ Unlocked'
    BY <1>7 DEF FinishFails, FinishEnd, SentIds, Release, Unlocked
  <2>2. /\ outputs' \in OutputsType /\ outputs'.live = outputs.live
        /\ outputs'.fed = outputs.fed /\ outputs'.from = outputs.from
    <3>1. outputs' = outputs \/ outputs' = [outputs EXCEPT !.finalized = outputs.live]
      BY <1>7 DEF FinishFails, FinishEnd
    <3> QED BY <1>0, <3>1 DEF OutputsType
  <2>3. SentIds' = SentIds
    BY <1>0, <2>1
  <2> QED BY <2>2, <2>3, FeedsNone
<1> QED BY <1>1, <1>2, <1>3, <1>4, <1>5, <1>6, <1>7
        DEF EngineNext, OptionalCalls, Tick, Finish

\* A sent packet is owed to every live output.
LEMMA FeedSend ==
  ASSUME BufferInv, MuxInv, MirrorInv, BufferInv', TickSend \/ FinishSend
  PROVE  FeedKept(<<NextPacket.id>>) /\ NextPacket.id \in Nat
<1> DEFINE p == NextPacket
<1>0. /\ batch \in Seq(Packets) /\ sent \in 0..Len(batch) /\ outputs \in OutputsType
      /\ sent < Len(batch) /\ sent' = sent + 1 /\ batch' = batch /\ call' = call
  BY DEF BufferInv, MirrorInv, TickSend, FinishSend
<1>1. p \in Packets /\ p.id \in Nat
  <2>1. p \in Packets
    BY <1>0, NextPacketType
  <2> HIDE DEF p
  <2>2. PICK id \in 1..MaxPush, s \in Shapes : p = Packet(id, s)
    BY <2>1 DEF Packets
  <2>3. p.id = id
    BY <2>2 DEF Packet
  <2> QED BY <2>1, <2>3, BoundsAssumption
<1>2. CASE TickSend
  <2>1. outputs' = outputs /\ call # "finish"
    BY <1>2 DEF TickSend
  <2>2. SentIds' = SentIds \o <<p.id>>
    <3>1. Ids(SubSeq(batch, 1, sent + 1)) = Ids(SubSeq(batch, 1, sent)) \o <<p.id>>
      BY <1>0, SentOneMore DEF NextPacket
    <3> QED BY <1>0, <2>1, <3>1 DEF SentIds, Ids
  <2>3. SentIds \in Seq(Nat) /\ <<p.id>> \in Seq(Nat)
    BY <1>1, SentIdsType
  <2>4. ASSUME NEW o \in outputs.live
        PROVE  outputs.fed[o] \o SentIds' = (outputs.fed[o] \o SentIds) \o <<p.id>>
    <3> DEFINE s == outputs.fed[o]
               t == SentIds
               u == <<p.id>>
               joined == (s \o t) \o u
    <3>1. s \in Seq(Nat) /\ t \in Seq(Nat) /\ u \in Seq(Nat)
      BY <1>0, <2>3 DEF OutputsType
    <3>2. t \o u = SentIds'
      BY <2>2
    <3>3. outputs.fed[o] = s /\ (outputs.fed[o] \o SentIds) \o <<p.id>> = joined
      OBVIOUS
    <3> HIDE DEF s, t, u
    <3>4. joined = s \o (t \o u)
      BY <3>1, ConcatAssociative
    <3> HIDE DEF joined
    <3> QED BY <3>2, <3>3, <3>4
  <2>5. SentIds' \in Seq(Nat)
    BY <2>2, <2>3, ConcatProperties
  <2> QED BY <1>0, <1>1, <2>1, <2>4, <2>5 DEF FeedKept
<1>3. CASE FinishSend
  <2>1. SentIds = <<>> /\ SentIds' = <<>>
    BY <1>0, <1>3 DEF FinishSend, SentIds
  <2>2. PICK cut \in FeedsOf(<<p>>) : outputs' = FeedOutputs(<<p>>, cut)
    BY <1>3 DEF FinishSend
  <2>3. <<p>> \in Seq(Packets) /\ Ids(<<p>>) = <<p.id>>
    BY <1>1 DEF Ids
  <2>4. /\ outputs' \in OutputsType /\ outputs'.live \subseteq outputs.live
        /\ \A o \in outputs'.live : outputs'.fed[o] = outputs.fed[o] \o <<p.id>>
        /\ outputs'.from = outputs.from
    BY <1>0, <2>2, <2>3, Fed
  <2>5. ASSUME NEW o \in outputs'.live
        PROVE  /\ o \in outputs.live
               /\ outputs'.fed[o] \o SentIds' = (outputs.fed[o] \o SentIds) \o <<p.id>>
    <3>1. o \in outputs.live /\ outputs.fed[o] \in Seq(Nat) /\ outputs'.fed[o] \in Seq(Nat)
      BY <1>0, <2>4 DEF OutputsType
    <3>2. outputs'.fed[o] \o <<>> = outputs'.fed[o] /\ outputs.fed[o] \o <<>> = outputs.fed[o]
      BY <3>1, ConcatEmptySeq
    <3> QED BY <2>1, <2>4, <3>1, <3>2
  <2> QED BY <1>1, <2>1, <2>4, <2>5, EmptySeq DEF FeedKept
<1> QED BY <1>2, <1>3

\* Every step keeps what the outputs have been fed the end of the wire.
LEMMA MirrorStep ==
  ASSUME BufferInv, MuxInv, WireInv, MirrorInv, [EngineNext]_engineVars
  PROVE  MirrorInv'
<1>0. /\ BufferInv' /\ WireInv' /\ MediaIds \in Seq(Nat)
      /\ Len(MediaIds) = Cardinality(Media) /\ Len(MediaIds) \in Nat
  BY BufferStep, WireInvStep, MediaIdsType, LenProperties
<1>1. MediaIds' \in Seq(Nat)
  <2>1. (WireInv => /\ MediaIds \in Seq(Nat) /\ Len(MediaIds) = Cardinality(Media)
                    /\ \A i \in Media : MediaIds[Cardinality(UpTo(Media, i))] = wire[i].id)'
    BY MediaIdsType, PTL
  <2> QED BY <1>0, <2>1
<1>2. SentIds \in Seq(Nat) /\ \A o \in outputs.live : outputs.fed[o] \o SentIds \in Seq(Nat)
  <2>1. \A o \in outputs.live : outputs.fed[o] \in Seq(Nat)
    BY DEF MirrorInv, OutputsType
  <2> QED BY <2>1, SentIdsType, ConcatProperties
<1>3. CASE MediaStep /\ (TickSend \/ FinishSend)
  <2> DEFINE n == Len(wire')
             x == NextPacket.id
  <2>1. /\ WireKept /\ n \in DOMAIN wire' \ DOMAIN wire /\ wire'[n].id = x
        /\ Media' = Media \cup {n}
    BY <1>3, MediaStepWire DEF MediaTagOf
  <2>2. /\ n \in Int /\ n \notin Media
        /\ \A i \in Media : wire'[i] = wire[i] /\ i < n
    BY <2>1 DEF WireKept, Media
  <2> HIDE DEF n
  <2>3. MediaIds' = MediaIds \o <<x>>
    BY <1>0, <2>1, <2>2, MediaIdsAppended
  <2>4. FeedKept(<<x>>) /\ x \in Nat
    BY <1>0, <1>3, FeedSend
  <2>6. <<x>> # <<>>
    OBVIOUS
  <2> HIDE DEF x
  <2>5. ASSUME NEW o \in outputs'.live
        PROVE  Mirrors(o)'
    <3> DEFINE s == outputs.fed[o] \o SentIds
    <3>1. /\ o \in outputs.live /\ outputs'.from[o] = outputs.from[o]
          /\ outputs'.fed[o] \o SentIds' = s \o <<x>>
      BY <2>4, <2>6 DEF FeedKept
    <3>2. s \in Seq(Nat) /\ EndsWith(MediaIds, s) /\ outputs.from[o] + Len(s) = Len(MediaIds)
      BY <1>2, <3>1 DEF MirrorInv, Mirrors
    <3>3. outputs.from[o] \in Nat
      BY <3>1 DEF MirrorInv, OutputsType
    <3> HIDE DEF s
    <3>4. EndsWith(MediaIds \o <<x>>, s \o <<x>>)
      BY <1>0, <2>4, <3>2, EndsWithStep
    <3>5. outputs.from[o] + Len(s \o <<x>>) = Len(MediaIds \o <<x>>)
      <4>1. <<x>> \in Seq(Nat) /\ Len(<<x>>) = 1
        BY <2>4
      <4>2. Len(s \o <<x>>) = Len(s) + 1 /\ Len(MediaIds \o <<x>>) = Len(MediaIds) + 1
        BY <1>0, <3>2, <4>1, ConcatProperties
      <4>3. Len(s) \in Nat
        BY <3>2, LenProperties
      <4> QED BY <1>0, <3>2, <3>3, <4>2, <4>3
    <3> QED BY <2>3, <3>1, <3>4, <3>5 DEF Mirrors, EndsWith
  <2> QED BY <2>4, <2>5 DEF MirrorInv, FeedKept
<1>4. CASE ~(TickSend \/ FinishSend)
  <2>1. FeedKept(<<>>)
    BY <1>0, <1>4, FeedQuiet
  <2>2. MediaIds' = MediaIds
    <3>1. CASE wire' = wire
      BY <3>1 DEF MediaIds, Media
    <3>2. CASE HeaderStep
      <4>1. WireKept /\ Media' = Media
        BY <3>2, HeaderStepWire
      <4>2. \A i \in Media : wire'[i] = wire[i]
        BY <4>1 DEF WireKept, Media
      <4> QED BY <1>0, <4>1, <4>2, MediaIdsKept
    <3>3. ~MediaStep \/ wire' = wire
      BY <1>4, SendsOnly
    <3>4. Quiet \/ AttachTransport \/ DetachTransport \/ Reset \/ FinishEnd => wire' = wire
      BY DEF Quiet, AttachTransport, DetachTransport, Reset, FinishEnd
    <3> QED BY <3>1, <3>2, <3>3, <3>4, WireEffect
  <2>3. ASSUME NEW o \in outputs'.live
        PROVE  Mirrors(o)'
    <3>1. CASE /\ o \in outputs.live /\ outputs'.from[o] = outputs.from[o]
               /\ outputs'.fed[o] \o SentIds' = (outputs.fed[o] \o SentIds) \o <<>>
      <4>1. (outputs.fed[o] \o SentIds) \o <<>> = outputs.fed[o] \o SentIds
        BY <1>2, <3>1, ConcatEmptySeq
      <4>2. /\ EndsWith(MediaIds, outputs.fed[o] \o SentIds)
            /\ outputs.from[o] + Len(outputs.fed[o] \o SentIds) = Len(MediaIds)
        BY <3>1 DEF MirrorInv, Mirrors
      <4> QED BY <2>2, <3>1, <4>1, <4>2 DEF Mirrors, EndsWith
    <3>2. CASE /\ outputs'.fed[o] \o SentIds' = <<>>
               /\ outputs'.from[o] = Cardinality(Media)
      <4>1. EndsWith(MediaIds', <<>>)
        BY <1>1, EndsWithEmpty
      <4>2. Cardinality(Media) + Len(<<>>) = Len(MediaIds')
        BY <1>0, <2>2, EmptySeq
      <4> QED BY <3>2, <4>1, <4>2 DEF Mirrors, EndsWith
    <3> QED BY <2>1, <3>1, <3>2 DEF FeedKept
  <2> QED BY <2>1, <2>3 DEF MirrorInv, FeedKept
<1>5. TickSend \/ FinishSend => MediaStep
  BY SendsOnly
<1> QED BY <1>3, <1>4, <1>5

\* No output is attached to a new engine.
LEMMA MirrorInit ==
  ASSUME EngineInit
  PROVE  MirrorInv
<1>1. outputs.live = {} /\ outputs \in OutputsType
  BY EmptySeq DEF EngineInit, OutputsType, NoCodecs, CodecsType
<1> QED BY <1>1 DEF MirrorInv

\* Between calls a live output has been fed exactly what the wire has carried
\* since the output was attached, whichever sends, ticks and finishes failed.
THEOREM EngineOutputsMirrorWire == EngineSpec => []OutputsMirrorWire
<1>1. BufferInv /\ MuxInv /\ WireInv /\ MirrorInv /\ [EngineNext]_engineVars => MirrorInv'
  BY MirrorStep
<1>2. EngineInit => MirrorInv
  BY MirrorInit
<1>3. BufferInv /\ WireInv /\ MirrorInv => OutputsMirrorWire
  <2> SUFFICES ASSUME BufferInv, WireInv, MirrorInv, Unlocked, NEW o \in outputs.live
               PROVE  outputs.fed[o] = SubSeq(MediaIds, outputs.from[o] + 1, Len(MediaIds))
    BY DEF OutputsMirrorWire
  <2> DEFINE s == outputs.fed[o]
             from == outputs.from[o]
             n == Len(MediaIds)
  <2>1. SentIds = <<>> /\ s \in Seq(Nat) /\ from \in Nat
    BY SentIdsType DEF MirrorInv, OutputsType
  <2>2. s \o SentIds = s
    BY <2>1, ConcatEmptySeq
  <2>3. s = SubSeq(MediaIds, n - Len(s) + 1, n) /\ from + Len(s) = n
    BY <2>2 DEF MirrorInv, Mirrors, EndsWith
  <2>4. n \in Nat /\ Len(s) \in Nat
    BY <2>1, MediaIdsType, LenProperties
  <2> HIDE DEF s, from, n
  <2>5. n - Len(s) + 1 = from + 1
    BY <2>1, <2>3, <2>4
  <2>6. s = SubSeq(MediaIds, from + 1, n)
    BY <2>3, <2>5
  <2> QED BY <2>6 DEF s, from, n
<1> QED BY <1>1, <1>2, <1>3, WireInvariant, EngineInvariant, PTL DEF EngineSpec

-----------------------------------------------------------------------------
(***************************************************************************)
(* Order.  Packets wait in the queue or in the batch of the running call;  *)
(* what a step does to them is to take some away.                          *)
(***************************************************************************)
\* q without some of its packets, those of each track in the order they had.
Thinned(q, r) ==
  \E f \in [DOMAIN r -> DOMAIN q] :
    /\ \A i \in DOMAIN r : r[i] = q[f[i]]
    /\ \A i, j \in DOMAIN r : (i < j /\ r[i].kind = r[j].kind) => f[i] < f[j]

\* The packets of q may follow what is on the wire; n packets were ever pushed.
InLine(q, n) ==
  /\ Ascending(q)
  /\ \A j \in DOMAIN q : q[j].id <= n
  /\ \A i \in Media, j \in DOMAIN q : wire[i].type = q[j].kind => wire[i].id < q[j].id

\* A queue stays in line when packets are taken out of it.
LEMMA ThinnedInLine ==
  ASSUME NEW q \in Seq(Packets), NEW r \in Seq(Packets), NEW n, Thinned(q, r), InLine(q, n)
  PROVE  InLine(r, n)
<1>1. PICK f \in [DOMAIN r -> DOMAIN q] :
           /\ \A i \in DOMAIN r : r[i] = q[f[i]]
           /\ \A i, j \in DOMAIN r : (i < j /\ r[i].kind = r[j].kind) => f[i] < f[j]
  BY DEF Thinned
<1>2. ASSUME NEW i \in DOMAIN r, NEW j \in DOMAIN r, i < j, r[i].kind = r[j].kind
      PROVE  r[i].id < r[j].id
  <2>1. f[i] \in DOMAIN q /\ f[j] \in DOMAIN q /\ f[i] < f[j]
    BY <1>1, <1>2
  <2> QED BY <1>1, <1>2, <2>1 DEF InLine, Ascending
<1>3. \A j \in DOMAIN r : f[j] \in DOMAIN q /\ r[j] = q[f[j]]
  BY <1>1
<1> QED BY <1>2, <1>3 DEF InLine, Ascending

\* Cutting a sequence from the front.
LEMMA Suffix ==
  ASSUME NEW q \in Seq(Packets), NEW k \in 0..Len(q)
  PROVE  LET r == SubSeq(q, k + 1, Len(q))
         IN  /\ r \in Seq(Packets) /\ Len(r) = Len(q) - k /\ DOMAIN r = 1..(Len(q) - k)
             /\ \A i \in DOMAIN r : r[i] = q[k + i] /\ k + i \in DOMAIN q
             /\ Thinned(q, r)
<1> DEFINE r == SubSeq(q, k + 1, Len(q))
<1>1. Len(q) \in Nat /\ k \in Nat /\ DOMAIN q = 1..Len(q)
  BY LenProperties
<1>2. \A i \in (k + 1)..Len(q) : q[i] \in Packets
  BY <1>1, ElementOfSeq
<1>3. /\ r \in Seq(Packets) /\ Len(r) = IF k + 1 <= Len(q) THEN Len(q) - (k + 1) + 1 ELSE 0
      /\ \A i \in 1..(Len(q) - (k + 1) + 1) : r[i] = q[(k + 1) + i - 1]
  <2>1. k + 1 \in Int /\ Len(q) \in Int
    BY <1>1
  <2> QED BY <1>2, <2>1, SubSeqProperties
<1>4. DOMAIN r = 1..Len(r)
  BY <1>3, LenProperties
<1> HIDE DEF r
<1>5. Len(r) = Len(q) - k
  <2>1. CASE k + 1 <= Len(q)
    <3>1. Len(r) = Len(q) - (k + 1) + 1
      BY <1>3, <2>1
    <3>2. \A l, m \in Int : l - (m + 1) + 1 = l - m
      OBVIOUS
    <3> QED BY <1>1, <3>1, <3>2
  <2>2. CASE ~(k + 1 <= Len(q))
    <3>1. \A m, l \in Nat : m <= l /\ ~(m + 1 <= l) => l - m = 0
      OBVIOUS
    <3>2. Len(r) = 0
      BY <1>3, <2>2
    <3>3. k <= Len(q)
      BY <1>1
    <3> QED BY <1>1, <2>2, <3>1, <3>2, <3>3
  <2> QED BY <2>1, <2>2
<1>6. ASSUME NEW i \in DOMAIN r PROVE r[i] = q[k + i] /\ k + i \in DOMAIN q
  <2>1. /\ i \in 1..(Len(q) - (k + 1) + 1) /\ (k + 1) + i - 1 = k + i
        /\ k + i \in 1..Len(q)
    BY <1>1, <1>4, <1>5
  <2> QED BY <1>1, <1>3, <2>1
<1>7. Thinned(q, r)
  <2> DEFINE f == [i \in DOMAIN r |-> k + i]
  <2>1. f \in [DOMAIN r -> DOMAIN q]
    BY <1>6
  <2>2. \A i, j \in DOMAIN r : i < j => f[i] < f[j]
    BY <1>1, <1>4
  <2>3. \A i \in DOMAIN r : r[i] = q[f[i]]
    BY <1>6
  <2> HIDE DEF f
  <2> QED BY <2>1, <2>2, <2>3 DEF Thinned
<1> QED BY <1>3, <1>4, <1>5, <1>6, <1>7 DEF r

\* A queue from which nothing, or all, is taken out.
LEMMA ThinnedSame ==
  ASSUME NEW q \in Seq(Packets)
  PROVE  Thinned(q, q) /\ Thinned(q, <<>>)
<1>1. Len(q) \in Nat /\ DOMAIN q = 1..Len(q)
  BY LenProperties
<1>2. Thinned(q, q)
  <2> DEFINE f == [i \in DOMAIN q |-> i]
  <2>1. f \in [DOMAIN q -> DOMAIN q] /\ \A i \in DOMAIN q : f[i] = i
    OBVIOUS
  <2> HIDE DEF f
  <2> QED BY <2>1 DEF Thinned
<1>3. SubSeq(q, Len(q) + 1, Len(q)) = <<>>
  BY <1>1, SubSeqEmpty
<1>4. Len(q) \in 0..Len(q)
  BY <1>1
<1> QED BY <1>2, <1>3, <1>4, Suffix

\* The cut to the newest keyframe: the queue then begins with it.
LEMMA ResyncCut ==
  ASSUME NEW b \in BufferOf(Packets)
  PROVE  \E k \in 0..Len(b.queue) :
           /\ Resync(b).queue = SubSeq(b.queue, k + 1, Len(b.queue))
           /\ Keyframes(b.queue) # {} => k + 1 \in Keyframes(b.queue)
           /\ Keyframes(b.queue) = {} => k = 0
<1> DEFINE q == b.queue
           K == Keyframes(q)
           cut == IF K = {} THEN 0 ELSE Latest(K) - 1
<1>1. q \in Seq(Packets) /\ Len(q) \in Nat /\ DOMAIN q = 1..Len(q)
  BY LenProperties DEF BufferOf
<1>2. K \in SUBSET (1..Len(q))
  BY <1>1 DEF Keyframes
<1>3. ASSUME K # {} PROVE Latest(K) \in K
  <2>1. IsFiniteSet(1..Len(q)) /\ K \in SUBSET Int
    BY <1>1, <1>2, FS_Interval
  <2>2. IsFiniteSet(K)
    BY <1>2, <2>1, FS_Subset
  <2> QED BY <1>3, <2>1, <2>2, LatestIsGreatest
<1>4. cut \in 0..Len(q) /\ (K # {} => cut + 1 \in K) /\ (K = {} => cut = 0)
  BY <1>1, <1>2, <1>3
<1>5. Resync(b).queue = SubSeq(q, cut + 1, Len(q))
  BY DEF Resync, ResyncKeepLatestKeyframe, BufferOf
<1> QED BY <1>4, <1>5

\* Under a monotone clock a later packet of a track is stamped no earlier.
LEMMA PacketClock ==
  ASSUME MonotoneClock, NEW p \in Packets, NEW r \in Packets, p.kind = r.kind, p.id < r.id
  PROVE  p.dts <= r.dts
<1>1. PICK i \in 1..MaxPush, s \in Shapes : p = Packet(i, s)
  BY DEF Packets
<1>2. PICK j \in 1..MaxPush, t \in Shapes : r = Packet(j, t)
  BY DEF Packets
<1>3. /\ p.kind = s.kind /\ p.id = i /\ p.dts = Step * i + s.dts
      /\ r.kind = t.kind /\ r.id = j /\ r.dts = Step * j + t.dts
  BY <1>1, <1>2 DEF Packet
<1>4. /\ s.dts \in Int /\ t.dts \in Int /\ Step \in Nat /\ i \in Int /\ j \in Int
      /\ s.dts <= t.dts + Step /\ i + 1 <= j
  <2>1. s.kind = t.kind /\ i < j
    BY <1>3
  <2>2. s.dts <= t.dts + Step /\ Step \in Nat
    BY <2>1 DEF MonotoneClock
  <2>3. i \in Int /\ j \in Int /\ i + 1 <= j
    BY <2>1
  <2> QED BY <2>2, <2>3, ShapesAssumption
<1>5. /\ Step * i \in Int /\ Step * j \in Int
      /\ Step * j = Step * i + Step + Step * (j - i - 1)
      /\ Step * (j - i - 1) \in Nat
  <2>1. \A a, b \in Nat : a * b \in Nat
    OBVIOUS
  <2>2. j - i - 1 \in Nat
    BY <1>4
  <2>3. \A a, b, c \in Int : a * c = a * b + a + a * (c - b - 1) /\ a * b \in Int /\ a * c \in Int
    OBVIOUS
  <2> QED BY <1>4, <2>1, <2>2, <2>3
<1> QED BY <1>3, <1>4, <1>5

\* Sorting by timestamp leaves each track in the order it was pushed.
LEMMA SortedThinned ==
  ASSUME MonotoneClock, NEW q \in Seq(Packets), Ascending(q), NEW kept \in SUBSET DOMAIN q
  PROVE  LET r == SortedByDts(q, kept)
             n == Cardinality(kept)
         IN  /\ r \in Seq(Packets) /\ DOMAIN r = 1..n /\ n \in Nat
             /\ Thinned(q, r)
             /\ \E f \in [1..n -> kept] :
                  /\ \A i \in 1..n : r[i] = q[f[i]]
                  /\ \A i \in kept : \E j \in 1..n : f[j] = i
                  /\ \A i, j \in 1..n : (i < j /\ r[i].kind = r[j].kind) => f[i] < f[j]
<1> DEFINE r == SortedByDts(q, kept)
           n == Cardinality(kept)
<1>1. /\ r \in Seq(Packets) /\ Len(r) = n /\ n \in 0..Len(q)
      /\ \E f \in [1..n -> kept] :
           /\ \A i \in 1..n : r[i] = q[f[i]]
           /\ \A i \in kept : \E j \in 1..n : f[j] = i
           /\ \A i, j \in 1..n : i < j => f[i] # f[j] /\ Before(q, f[i], f[j])
  BY SortedByDtsProperties
<1> HIDE DEF r, n
<1>2. DOMAIN r = 1..n /\ n \in Nat /\ Len(q) \in Nat /\ DOMAIN q = 1..Len(q)
  BY <1>1, LenProperties
<1>3. PICK f \in [1..n -> kept] :
           /\ \A i \in 1..n : r[i] = q[f[i]]
           /\ \A i \in kept : \E j \in 1..n : f[j] = i
           /\ \A i, j \in 1..n : i < j => f[i] # f[j] /\ Before(q, f[i], f[j])
  BY <1>1
<1>4. ASSUME NEW i \in 1..n, NEW j \in 1..n, i < j, r[i].kind = r[j].kind
      PROVE  f[i] < f[j]
  <2> DEFINE a == f[i]
             b == f[j]
  <2>1. /\ a \in DOMAIN q /\ b \in DOMAIN q /\ a \in Int /\ b \in Int /\ a # b
        /\ Before(q, a, b) /\ q[a].kind = q[b].kind
    BY <1>2, <1>3, <1>4
  <2>2. q[a] \in Packets /\ q[b] \in Packets /\ q[a].dts \in Int /\ q[b].dts \in Int
    BY <1>2, <2>1, ElementOfSeq, PacketType
  <2> HIDE DEF a, b
  <2>3. b < a => q[b].dts <= q[a].dts
    <3>1. b < a => q[b].id < q[a].id
      BY <2>1 DEF Ascending
    <3> QED BY <2>1, <2>2, <3>1, PacketClock
  <2>4. a < b
    BY <2>1, <2>2, <2>3 DEF Before
  <2> QED BY <2>4 DEF a, b
<1>5. Thinned(q, r)
  <2>1. f \in [DOMAIN r -> DOMAIN q]
    BY <1>2
  <2> QED BY <1>2, <1>3, <1>4, <2>1 DEF Thinned
<1> QED BY <1>1, <1>2, <1>3, <1>4, <1>5 DEF r, n

\* What a step that pushes nothing does to the packets that wait.
CutStep == Unlocked /\ Unlocked' /\ buffer' = Resync(buffer)
DrainStep == Unlocked /\ ~Unlocked' /\ DrainForMux /\ Unsent' = batch'
SendStep ==
  /\ ~Unlocked /\ ~Unlocked' /\ MediaStep
  /\ Unsent # <<>> /\ NextPacket = Unsent[1]
  /\ Unsent' = SubSeq(Unsent, 1 + 1, Len(Unsent))

\* What waits is a sequence of packets.
LEMMA PendingType ==
  ASSUME BufferInv
  PROVE  /\ Pending \in Seq(Packets) /\ buffer \in BufferOf(Packets)
         /\ buffer.queue \in Seq(Packets) /\ Unsent \in Seq(Packets)
         /\ Len(Unsent) = Len(batch) - sent
         /\ batch \in Seq(Packets) /\ sent \in 0..Len(batch) /\ Len(batch) \in Nat
BY UnsentProperties, LenProperties DEF Pending, BufferInv, BufferOf

\* A sending step takes the next packet from what waits.
LEMMA SendEffect ==
  ASSUME BufferInv, MuxInv, WireInv, [EngineNext]_engineVars, TickSend \/ FinishSend
  PROVE  SendStep /\ issued' = issued /\ buffer' = buffer
<1>1. /\ batch \in Seq(Packets) /\ sent \in 0..Len(batch) /\ Len(batch) \in Nat
      /\ Unsent \in Seq(Packets) /\ Len(Unsent) = Len(batch) - sent
  BY PendingType
<1>2. /\ ~Unlocked /\ ~Unlocked' /\ issued' = issued /\ buffer' = buffer /\ batch' = batch
      /\ sent < Len(batch) /\ sent' = sent + 1
  BY DEF TickSend, FinishSend, Unlocked
<1>3. MediaStep
  BY SendsOnly
<1>4. sent + 1 \in 1..Len(batch) /\ Len(batch) \in (sent + 1)..Len(batch)
  BY <1>1, <1>2
<1>5. /\ Head(Unsent) = batch[sent + 1]
      /\ Tail(Unsent) = SubSeq(batch, (sent + 1) + 1, Len(batch))
  BY <1>1, <1>4, HeadTailOfSubSeq DEF Unsent
<1>6. Unsent # <<>>
  <2>1. Len(Unsent) # 0
    BY <1>1, <1>2
  <2> QED BY <1>1, <2>1, EmptySeq
<1>7. Tail(Unsent) = SubSeq(Unsent, 2, Len(Unsent)) /\ Head(Unsent) = Unsent[1]
  BY <1>1, <1>6, TailIsSubSeq
<1>8. Unsent' = Tail(Unsent)
  BY <1>2, <1>5 DEF Unsent
<1>9. NextPacket = Unsent[1]
  BY <1>5, <1>7 DEF NextPacket
<1>10. SubSeq(Unsent, 2, Len(Unsent)) = SubSeq(Unsent, 1 + 1, Len(Unsent))
  OBVIOUS
<1> QED BY <1>2, <1>3, <1>6, <1>7, <1>8, <1>9, <1>10 DEF SendStep

\* The steps after which the same packets wait: those that leave the queue and
\* the batch alone, a tick that hands its batch back, and a call that sent all.
Resting ==
  \/ ConfigureCall \/ AttachTransport \/ (\E o \in Outputs : AttachOutput(o))
  \/ TickNoTransport \/ TickMaintainFails \/ TickHeaders \/ TickHeadersFail
  \/ TickNoConfig \/ TickSendFails \/ TickFlushFails \/ TickEnd
  \/ FinishNoTransport \/ FinishEnd \/ UNCHANGED engineVars

\* A step that moves no packet leaves what waits.
LEMMA RestingEffect ==
  ASSUME BufferInv, ~Unlocked => buffer.queue = <<>>, Resting
  PROVE  /\ Pending' = Pending /\ issued' = issued
         /\ ~Unlocked' => ~Unlocked /\ buffer'.queue = <<>>
<1>0. /\ batch \in Seq(Packets) /\ sent \in 0..Len(batch) /\ Len(batch) \in Nat
      /\ buffer \in BufferOf(Packets)
      /\ Unsent \in Seq(Packets) /\ Len(Unsent) = Len(batch) - sent
  BY PendingType
<1>1. CASE \/ ConfigureCall \/ AttachTransport \/ (\E o \in Outputs : AttachOutput(o))
           \/ TickNoTransport \/ TickMaintainFails \/ FinishNoTransport \/ TickHeaders
           \/ UNCHANGED engineVars
  <2>1. /\ UNCHANGED <<buffer, batch, sent, issued>>
        /\ Unlocked <=> Unlocked'
    BY <1>1 DEF ConfigureCall, ConfigureCodecs, AttachTransport, AttachOutput, TickNoTransport,
                TickMaintainFails, FinishNoTransport, TickHeaders, engineVars, Unlocked
  <2>2. Unsent' = Unsent
    BY <2>1 DEF Unsent
  <2> QED BY <2>1, <2>2 DEF Pending
<1>2. CASE TickHeadersFail \/ TickNoConfig \/ TickSendFails \/ TickFlushFails
  <2>1. AbortTick /\ ~Unlocked
    BY <1>2 DEF TickHeadersFail, TickNoConfig, TickSendFails, TickFlushFails, Unlocked
  <2>2. buffer'.queue = Unsent \o buffer.queue /\ Unlocked' /\ issued' = issued
    BY <1>0, <2>1 DEF AbortTick, RestoreFront, BufferOf, Release, Unlocked
  <2>3. buffer'.queue = Unsent
    BY <1>0, <2>1, <2>2, ConcatEmptySeq
  <2> QED BY <2>1, <2>2, <2>3 DEF Pending
<1>3. CASE TickEnd \/ FinishEnd
  <2>1. ~Unlocked /\ Unlocked' /\ issued' = issued /\ buffer' = buffer /\ sent = Len(batch)
    BY <1>3 DEF TickEnd, FinishEnd, Release, Unlocked
  <2>2. Unsent = <<>>
    BY <1>0, <2>1, EmptySeq
  <2> QED BY <2>1, <2>2 DEF Pending
<1> QED BY <1>1, <1>2, <1>3 DEF Resting

\* A drain hands the whole queue to a call, sorted and without what is discarded.
LEMMA DrainEffect ==
  ASSUME BufferInv, BufferInv', TickBegin \/ FinishBegin
  PROVE  DrainStep /\ issued' = issued /\ buffer'.queue = <<>>
<1>1. /\ Unlocked /\ ~Unlocked' /\ DrainForMux /\ issued' = issued /\ sent' = 0
      /\ buffer' = TakeAll(buffer, Len(buffer.queue) - Cardinality(Kept(buffer.queue)))
  BY DEF TickBegin, FinishBegin, DrainForMux, Unlocked
<1>2. buffer \in BufferOf(Packets) /\ batch' \in Seq(Packets)
  BY DEF BufferInv
<1>3. buffer'.queue = <<>>
  BY <1>1, <1>2 DEF TakeAll, BufferOf
<1>4. Unsent' = SubSeq(batch', 1, Len(batch'))
  BY <1>1 DEF Unsent
<1>5. Unsent' = batch'
  BY <1>2, <1>4, SubSeqFull
<1> QED BY <1>1, <1>3, <1>5 DEF DrainStep

\* What a step other than push does to what waits.
LEMMA PendingEffect ==
  ASSUME BufferInv, MuxInv, WireInv, BufferInv', ~Unlocked => buffer.queue = <<>>,
         [EngineNext]_engineVars, ~PushCall
  PROVE  /\ issued' = issued
         /\ ~Unlocked' => buffer'.queue = <<>>
         /\ \/ Pending' = Pending \/ Pending' = <<>>
            \/ CutStep \/ DrainStep \/ SendStep
<1>1. CASE Resting
  BY <1>1, RestingEffect
<1>2. CASE FinishFails
  <2>1. ~Unlocked /\ Unlocked' /\ issued' = issued /\ buffer' = buffer
    BY <1>2 DEF FinishFails, Release, Unlocked
  <2> QED BY <2>1 DEF Pending
<1>3. CASE Reset
  <2>1. Unlocked /\ Unlocked' /\ issued' = issued /\ buffer'.queue = <<>>
    BY <1>3 DEF Reset, EmptyBuffer, Unlocked
  <2> QED BY <2>1 DEF Pending
<1>4. CASE ResyncCall \/ DetachTransport
  BY <1>4 DEF ResyncCall, DetachTransport, CutStep, Unlocked
<1>5. CASE TickBegin \/ FinishBegin
  BY <1>5, DrainEffect
<1>6. CASE TickSend \/ FinishSend
  <2>1. ~Unlocked
    BY <1>6 DEF TickSend, FinishSend, Unlocked
  <2> QED BY <1>6, <2>1, SendEffect
<1> QED BY <1>1, <1>2, <1>3, <1>4, <1>5, <1>6
        DEF EngineNext, OptionalCalls, Tick, Finish, Resting

\* push and push_all: new packets at the end, then the oldest evicted as far as
\* the capacity asks, then the latency policy's cut.
PushStep(items, ov, b) ==
  LET all == buffer.queue \o items
  IN  /\ issued' = issued + Len(items)
      /\ \A i \in 1..Len(items) : items[i].id = issued + i
      /\ b.queue = SubSeq(all, ov + 1, Len(all))
      /\ buffer' = b \/ buffer' = Resync(b)
      /\ resume'.gated = resume.gated
      /\ resume'.evicted <=> (resume.evicted \/ ov # 0)

\* The queue after a push is cut from the old one with the items behind it.
LEMMA PushedItems ==
  ASSUME BufferInv, WireInv, NEW shapes \in Seq(Shapes), Push(shapes)
  PROVE  \E items \in Seq(Packets), b \in BufferOf(Packets) :
           \E ov \in 0..Len(buffer.queue \o items) : PushStep(items, ov, b)
<1> DEFINE items == [i \in DOMAIN shapes |-> Packet(issued + i, shapes[i])]
           all == buffer.queue \o items
           ov == Overflow(Len(all))
           b == PushAll(buffer, items)
<1>1. /\ issued \in Nat /\ MaxPush \in Nat /\ buffer \in BufferOf(Packets)
      /\ Len(shapes) \in Nat /\ DOMAIN shapes = 1..Len(shapes)
  BY BoundsAssumption, LenProperties DEF BufferInv
<1>2. ASSUME NEW i \in DOMAIN shapes PROVE Packet(issued + i, shapes[i]) \in Packets
  <2>1. shapes[i] \in Shapes
    BY <1>1, ElementOfSeq
  <2>2. issued + i \in 1..MaxPush
    BY <1>1 DEF Push
  <2> QED BY <2>1, <2>2 DEF Packets
<1>3. items \in [1..Len(shapes) -> Packets]
  BY <1>1, <1>2
<1>4. items \in Seq(Packets) /\ Len(items) = Len(shapes)
  <2> HIDE DEF items
  <2> QED BY <1>1, <1>3
<1>5. \A i \in 1..Len(items) : items[i].id = issued + i
  BY <1>1, <1>4 DEF Packet
<1>6. issued' = issued + Len(items)
  BY <1>4 DEF Push
<1>7. /\ buffer' = EnforceDropPolicy(b)
      /\ resume' = [resume EXCEPT !.evicted = @ \/ b.dropped > buffer.dropped]
  BY DEF Push
<1> HIDE DEF items
<1>8. b \in BufferOf(Packets)
  BY <1>1, <1>4, PushAllProperties
<1>9. Len(all) \in Nat
  <2>1. buffer.queue \in Seq(Packets)
    BY <1>1 DEF BufferOf
  <2>2. all \in Seq(Packets)
    BY <1>4, <2>1, ConcatProperties
  <2> QED BY <2>2, LenProperties
<1>10. ov \in 0..Len(all)
  BY <1>9, OverflowBounds
<1>11. b.queue = SubSeq(all, ov + 1, Len(all)) /\ b.dropped = buffer.dropped + ov
  BY DEF PushAll
<1> HIDE DEF b, ov
<1>12. buffer' = b \/ buffer' = Resync(b)
  BY <1>7 DEF EnforceDropPolicy
<1>13. b.dropped > buffer.dropped <=> ov # 0
  BY <1>1, <1>9, <1>10, <1>11 DEF BufferOf
<1>14. resume'.gated = resume.gated /\ (resume'.evicted <=> (resume.evicted \/ ov # 0))
  <2>1. PICK e \in BOOLEAN : (e <=> (resume.evicted \/ ov # 0)) /\ resume' = [resume EXCEPT !.evicted = e]
    BY <1>7, <1>13 DEF WireInv
  <2> QED BY <2>1 DEF WireInv
<1>15. PushStep(items, ov, b)
  BY <1>5, <1>6, <1>11, <1>12, <1>14 DEF PushStep
<1> QED BY <1>4, <1>8, <1>10, <1>15

\* What a push does to what waits.
LEMMA PushEffect ==
  ASSUME BufferInv, WireInv, PushCall
  PROVE  /\ Unlocked /\ Unlocked'
         /\ UNCHANGED <<wire, muxer, conn, epoch, timebase, awaiting_keyframe, uncounted>>
         /\ \E items \in Seq(Packets), b \in BufferOf(Packets) :
              \E ov \in 0..Len(buffer.queue \o items) : PushStep(items, ov, b)
<1>1. PICK shapes \in Seq(Shapes) : Push(shapes)
  <2>1. \A s, t \in Shapes : <<s>> \in Seq(Shapes) /\ <<s, t>> \in Seq(Shapes)
    OBVIOUS
  <2> QED BY <2>1 DEF PushCall
<1>2. /\ Unlocked /\ Unlocked'
      /\ UNCHANGED <<wire, muxer, conn, epoch, timebase, awaiting_keyframe, uncounted>>
  BY <1>1 DEF Push, Unlocked
<1> QED BY <1>1, <1>2, PushedItems

\* Only SendStep sends a packet, and a push is none.
LEMMA SendIsSend ==
  ASSUME BufferInv, MuxInv, WireInv, [EngineNext]_engineVars
  PROVE  /\ MediaStep => SendStep /\ issued' = issued /\ buffer' = buffer
         /\ SendStep => ~PushCall
<1>1. SendStep => ~PushCall
  BY PushEffect DEF SendStep
<1> QED BY <1>1, SendsOnly, SendEffect

\* New packets are numbered past everything there is.
LEMMA PushInLine ==
  ASSUME InLine(buffer.queue, issued), issued \in Nat, buffer.queue \in Seq(Packets),
         \A i \in Media : wire[i].id <= issued /\ wire[i].id \in Nat,
         NEW items \in Seq(Packets), \A i \in 1..Len(items) : items[i].id = issued + i
  PROVE  /\ buffer.queue \o items \in Seq(Packets)
         /\ InLine(buffer.queue \o items, issued + Len(items))
<1> DEFINE q == buffer.queue
           all == q \o items
<1>1. /\ all \in Seq(Packets) /\ Len(all) = Len(q) + Len(items)
      /\ \A i \in 1..(Len(q) + Len(items)) : all[i] = IF i <= Len(q) THEN q[i] ELSE items[i - Len(q)]
      /\ Len(q) \in Nat /\ Len(items) \in Nat /\ DOMAIN q = 1..Len(q)
  BY ConcatProperties, LenProperties
<1>2. DOMAIN all = 1..(Len(q) + Len(items))
  BY <1>1, LenProperties
<1>3. ASSUME NEW i \in DOMAIN q PROVE q[i].id \in Nat /\ q[i].id <= issued
  <2>1. q[i] \in Packets
    BY <1>1, ElementOfSeq
  <2> QED BY <2>1, BoundsAssumption DEF Packets, Packet, InLine
<1> HIDE DEF all, q
<1>4. ASSUME NEW i \in DOMAIN all
      PROVE  \/ i \in DOMAIN q /\ all[i] = q[i]
             \/ i \notin DOMAIN q /\ i > Len(q) /\ all[i].id = issued + (i - Len(q))
                /\ i - Len(q) \in 1..Len(items)
  BY <1>1, <1>2
<1>5. ASSUME NEW i \in DOMAIN all, NEW j \in DOMAIN all, i < j, all[i].kind = all[j].kind
      PROVE  all[i].id < all[j].id
  <2>1. i \in Nat /\ j \in Nat
    BY <1>1, <1>2
  <2>2. CASE i \in DOMAIN q /\ j \in DOMAIN q
    <3>1. all[i] = q[i] /\ all[j] = q[j]
      BY <1>4, <2>2
    <3> QED BY <1>5, <2>2, <3>1 DEF q, InLine, Ascending
  <2>3. CASE i \in DOMAIN q /\ j \notin DOMAIN q
    <3>1. all[i] = q[i] /\ all[j].id = issued + (j - Len(q)) /\ j > Len(q)
      BY <1>4, <2>3
    <3> QED BY <1>1, <1>3, <2>1, <2>3, <3>1
  <2>4. CASE i \notin DOMAIN q
    <3>1. all[i].id = issued + (i - Len(q)) /\ i > Len(q)
      BY <1>4, <2>4
    <3>2. j \notin DOMAIN q
      BY <1>1, <1>5, <2>1, <3>1
    <3>3. all[j].id = issued + (j - Len(q))
      BY <1>4, <3>2
    <3> QED BY <1>1, <1>5, <2>1, <3>1, <3>3
  <2> QED BY <2>2, <2>3, <2>4
<1>6. \A j \in DOMAIN all : all[j].id <= issued + Len(items)
  <2> SUFFICES ASSUME NEW j \in DOMAIN all PROVE all[j].id <= issued + Len(items)
    OBVIOUS
  <2>1. CASE j \in DOMAIN q /\ all[j] = q[j]
    BY <1>1, <1>3, <2>1
  <2>2. CASE j \notin DOMAIN q
    BY <1>1, <1>4, <2>2
  <2> QED BY <1>4, <2>1, <2>2
<1>7. ASSUME NEW i \in Media, NEW j \in DOMAIN all, wire[i].type = all[j].kind
      PROVE  wire[i].id < all[j].id
  <2>1. CASE j \in DOMAIN q /\ all[j] = q[j]
    BY <1>7, <2>1 DEF q, InLine
  <2>2. CASE j \notin DOMAIN q
    BY <1>1, <1>4, <2>2
  <2> QED BY <1>4, <2>1, <2>2
<1> QED BY <1>1, <1>5, <1>6, <1>7 DEF all, q, InLine, Ascending

\* The wire and what waits behind it, after a step that sends nothing.
LEMMA OrderKept ==
  ASSUME Media' = Media, \A i \in Media : wire'[i] = wire[i],
         ~Unlocked' => buffer'.queue = <<>>, InLine(Pending', issued'),
         \A i \in Media : wire[i].id <= issued'
  PROVE  OrderInv'
BY DEF OrderInv, InLine, Ascending

\* A step that writes no packet leaves those on the wire.
LEMMA MediaKept ==
  ASSUME BufferInv, MuxInv, WireInv, [EngineNext]_engineVars, ~MediaStep
  PROVE  /\ Media' = Media /\ \A i \in Media : wire'[i] = wire[i]
         /\ WireKept \/ wire' = wire
<1>1. CASE wire' = wire
  BY <1>1 DEF Media
<1>2. CASE HeaderStep
  BY <1>2, HeaderStepWire DEF WireKept, Media
<1>3. Quiet \/ AttachTransport \/ DetachTransport \/ Reset \/ FinishEnd => wire' = wire
  BY DEF Quiet, AttachTransport, DetachTransport, Reset, FinishEnd
<1> QED BY <1>1, <1>2, <1>3, WireEffect

\* Every step keeps wire, batch and queue in one order.
LEMMA OrderStep ==
  ASSUME MonotoneClock, BufferInv, MuxInv, WireInv, OrderInv, [EngineNext]_engineVars
  PROVE  OrderInv'
<1>0. /\ BufferInv' /\ WireInv'
      /\ ~Unlocked => buffer.queue = <<>>
      /\ InLine(Pending, issued) /\ issued \in Nat
      /\ \A i \in Media : wire[i].id <= issued /\ wire[i].id \in Nat
      /\ Pending \in Seq(Packets) /\ buffer.queue \in Seq(Packets) /\ buffer \in BufferOf(Packets)
  <2>1. issued \in Nat
    BY BoundsAssumption DEF BufferInv
  <2>2. \A i \in Media : wire[i].id \in Nat
    BY TagsOfWire DEF TagType
  <2> QED BY <2>1, <2>2, BufferStep, WireInvStep, PendingType DEF OrderInv, InLine
<1>1. CASE PushCall
  <2>1. /\ Unlocked /\ Unlocked' /\ wire' = wire
        /\ \E items \in Seq(Packets), b \in BufferOf(Packets) :
             \E ov \in 0..Len(buffer.queue \o items) : PushStep(items, ov, b)
    BY <1>1, PushEffect
  <2>2. PICK items \in Seq(Packets), b \in BufferOf(Packets) :
               \E ov \in 0..Len(buffer.queue \o items) : PushStep(items, ov, b)
    BY <2>1
  <2> DEFINE all == buffer.queue \o items
  <2>3. PICK ov \in 0..Len(all) : PushStep(items, ov, b)
    BY <2>2
  <2>4. /\ issued' = issued + Len(items) /\ \A i \in 1..Len(items) : items[i].id = issued + i
        /\ b.queue = SubSeq(all, ov + 1, Len(all))
        /\ buffer' = b \/ buffer' = Resync(b)
    BY <2>3 DEF PushStep
  <2>5. InLine(buffer.queue, issued) /\ Len(items) \in Nat
    BY <1>0, <2>1, LenProperties DEF Pending
  <2>6. all \in Seq(Packets) /\ InLine(all, issued')
    BY <1>0, <2>4, <2>5, PushInLine
  <2> HIDE DEF all
  <2>7. b.queue \in Seq(Packets) /\ InLine(b.queue, issued')
    <3>1. b.queue \in Seq(Packets) /\ Thinned(all, b.queue)
      BY <2>4, <2>6, Suffix
    <3> QED BY <2>6, <3>1, ThinnedInLine
  <2>8. InLine(buffer'.queue, issued')
    <3>1. CASE buffer' = Resync(b)
      <4>1. PICK k \in 0..Len(b.queue) : buffer'.queue = SubSeq(b.queue, k + 1, Len(b.queue))
        BY <3>1, ResyncCut
      <4>2. buffer'.queue \in Seq(Packets) /\ Thinned(b.queue, buffer'.queue)
        BY <2>7, <4>1, Suffix
      <4> QED BY <2>7, <4>2, ThinnedInLine
    <3> QED BY <2>4, <2>7, <3>1
  <2>9. \A i \in Media : wire[i].id <= issued'
    BY <1>0, <2>4, <2>5
  <2>10. Media' = Media /\ \A i \in Media : wire'[i] = wire[i]
    BY <2>1 DEF Media
  <2> QED BY <2>1, <2>8, <2>9, <2>10, OrderKept DEF Pending
<1>2. CASE ~PushCall /\ ~SendStep
  <2>1. /\ issued' = issued /\ (~Unlocked' => buffer'.queue = <<>>)
        /\ Pending' = Pending \/ Pending' = <<>> \/ CutStep \/ DrainStep
    BY <1>0, <1>2, PendingEffect
  <2>2. Thinned(Pending, Pending')
    <3>1. CASE Pending' = Pending \/ Pending' = <<>>
      BY <1>0, <3>1, ThinnedSame
    <3>2. CASE CutStep
      <4>1. Pending = buffer.queue /\ Pending' = Resync(buffer).queue
        BY <3>2 DEF CutStep, Pending
      <4>2. PICK k \in 0..Len(buffer.queue) :
                 Resync(buffer).queue = SubSeq(buffer.queue, k + 1, Len(buffer.queue))
        BY <1>0, ResyncCut
      <4> QED BY <1>0, <4>1, <4>2, Suffix
    <3>3. CASE DrainStep
      <4>1. /\ Pending = buffer.queue
            /\ Pending' = SortedByDts(buffer.queue, Kept(buffer.queue))
        BY <3>3 DEF DrainStep, DrainForMux, Pending
      <4>2. Kept(buffer.queue) \in SUBSET DOMAIN buffer.queue /\ Ascending(buffer.queue)
        BY <1>0, <4>1 DEF Kept, InLine
      <4> QED BY <1>0, <4>1, <4>2, SortedThinned
    <3> QED BY <2>1, <3>1, <3>2, <3>3
  <2>3. InLine(Pending', issued')
    <3>0. (BufferInv =>
             /\ Pending \in Seq(Packets) /\ buffer \in BufferOf(Packets)
             /\ buffer.queue \in Seq(Packets) /\ Unsent \in Seq(Packets)
             /\ Len(Unsent) = Len(batch) - sent
             /\ batch \in Seq(Packets) /\ sent \in 0..Len(batch) /\ Len(batch) \in Nat)'
      BY PendingType, PTL
    <3>1. Pending' \in Seq(Packets)
      BY <1>0, <3>0
    <3> QED BY <1>0, <2>1, <2>2, <3>1, ThinnedInLine
  <2>4. Media' = Media /\ \A i \in Media : wire'[i] = wire[i]
    <3>1. CASE ~MediaStep
      BY <3>1, MediaKept
    <3>2. CASE MediaStep
      BY <1>2, <3>2, SendIsSend
    <3> QED BY <3>1, <3>2
  <2> QED BY <1>0, <2>1, <2>3, <2>4, OrderKept
<1>3. CASE SendStep
  <2> DEFINE n == Len(wire')
             q == Unsent
             r == SubSeq(q, 1 + 1, Len(q))
             x == wire'[n]
  <2>1. /\ Pending = q /\ Pending' = r /\ q # <<>> /\ NextPacket = q[1]
        /\ MediaStep /\ ~Unlocked /\ ~Unlocked'
    BY <1>3 DEF SendStep, Pending
  <2>2. /\ WireKept /\ n \in DOMAIN wire' \ DOMAIN wire
        /\ MediaTagOf(x, NextPacket) /\ Media' = Media \cup {n}
    BY <2>1, MediaStepWire
  <2>3. x.type = q[1].kind /\ x.id = q[1].id
    BY <2>1, <2>2 DEF MediaTagOf
  <2>4. issued' = issued /\ buffer'.queue = <<>>
    BY <1>0, <2>1, SendIsSend
  <2>5. Len(q) \in Nat \ {0} /\ DOMAIN q = 1..Len(q) /\ q \in Seq(Packets)
    BY <1>0, <2>1, EmptySeq, LenProperties
  <2>6. 1 \in 0..Len(q) /\ 1 \in DOMAIN q
    BY <2>5
  <2>7. /\ r \in Seq(Packets) /\ DOMAIN r = 1..(Len(q) - 1) /\ Thinned(q, r)
        /\ \A i \in DOMAIN r : r[i] = q[1 + i] /\ 1 + i \in DOMAIN q
    BY <2>5, <2>6, Suffix
  <2> HIDE DEF q, r, n, x
  <2>8. InLine(q, issued)
    BY <1>0, <2>1
  <2>9. InLine(r, issued)
    BY <2>5, <2>7, <2>8, ThinnedInLine
  <2>10. \A j \in DOMAIN r : x.type = r[j].kind => x.id < r[j].id
    <3> SUFFICES ASSUME NEW j \in DOMAIN r, x.type = r[j].kind PROVE x.id < r[j].id
      OBVIOUS
    <3>1. r[j] = q[1 + j] /\ 1 + j \in DOMAIN q /\ 1 < 1 + j
      BY <2>5, <2>7
    <3> QED BY <2>3, <2>6, <2>8, <3>1 DEF InLine, Ascending
  <2>11. x.id <= issued
    BY <2>3, <2>6, <2>8 DEF InLine
  <2>12. \A i \in Media : wire'[i] = wire[i]
    BY <2>2 DEF WireKept, Media
  <2>13. \A i \in Media' : wire'[i].id <= issued
    BY <1>0, <2>2, <2>11, <2>12 DEF x
  <2>14. \A i \in Media', j \in DOMAIN r : wire'[i].type = r[j].kind => wire'[i].id < r[j].id
    BY <2>2, <2>9, <2>10, <2>12 DEF x, InLine
  <2> QED BY <2>1, <2>4, <2>9, <2>13, <2>14 DEF OrderInv, InLine, Ascending
<1> QED BY <1>1, <1>2, <1>3

\* Nothing waits in a new engine.
LEMMA OrderInit ==
  ASSUME EngineInit
  PROVE  OrderInv /\ DecodeOrder
<1>1. Media = {} /\ Pending = <<>> /\ Len(<<>>) = 0
  BY DEF EngineInit, Media, Pending, Unlocked, EmptyBuffer
<1> QED BY <1>1 DEF OrderInv, Ascending, DecodeOrder, EngineInit, Unlocked, EmptyBuffer

\* The packet sent is newer than everything of its track that was sent before.
LEMMA DecodeOrderStep ==
  ASSUME BufferInv, MuxInv, WireInv, OrderInv, DecodeOrder, [EngineNext]_engineVars
  PROVE  DecodeOrder'
<1>1. CASE ~MediaStep
  BY <1>1, MediaKept DEF DecodeOrder
<1>2. CASE MediaStep
  <2> DEFINE n == Len(wire')
             x == wire'[n]
  <2>1. /\ WireKept /\ n \in DOMAIN wire' \ DOMAIN wire
        /\ MediaTagOf(x, NextPacket) /\ Media' = Media \cup {n}
    BY <1>2, MediaStepWire
  <2>2. SendStep
    BY <1>2, SendIsSend
  <2>3. /\ Pending = Unsent /\ 1 \in DOMAIN Unsent /\ NextPacket = Unsent[1]
    <3>1. Len(Unsent) \in Nat \ {0} /\ DOMAIN Unsent = 1..Len(Unsent)
      BY <2>2, EmptySeq, PendingType, LenProperties DEF SendStep
    <3> QED BY <2>2, <3>1 DEF SendStep, Pending
  <2>4. \A i \in Media : wire[i].type = x.type => wire[i].id < x.id
    BY <2>1, <2>3 DEF OrderInv, MediaTagOf
  <2>5. /\ \A i \in Media : wire'[i] = wire[i] /\ i \in Nat /\ i < n
        /\ n \in Nat
    BY <2>1 DEF WireKept, Media
  <2> HIDE DEF n
  <2>6. ASSUME NEW i \in Media', NEW j \in Media', i < j, wire'[i].type = wire'[j].type
        PROVE  wire'[i].id < wire'[j].id
    <3>1. CASE i \in Media /\ j \in Media
      BY <2>5, <2>6, <3>1 DEF DecodeOrder
    <3>2. CASE i \in Media /\ j = n
      BY <2>4, <2>5, <2>6, <3>2
    <3>3. CASE i = n
      BY <2>1, <2>5, <2>6, <3>3
    <3> QED BY <2>1, <3>1, <3>2, <3>3
  <2> QED BY <2>6 DEF DecodeOrder
<1> QED BY <1>1, <1>2

\* When the encoders' clocks are monotone, the packets of a track leave in the
\* order they were pushed and none leaves twice, through sorting, failing,
\* handing back and reconnecting.
THEOREM EngineDecodeOrder ==
  ASSUME MonotoneClock
  PROVE  EngineSpec => []DecodeOrder
<1>1. BufferInv /\ MuxInv /\ WireInv /\ OrderInv /\ DecodeOrder /\ [EngineNext]_engineVars
        => OrderInv' /\ DecodeOrder'
  BY OrderStep, DecodeOrderStep
<1>2. EngineInit => OrderInv /\ DecodeOrder
  BY OrderInit
<1> QED BY <1>1, <1>2, WireInvariant, EngineInvariant, PTL DEF EngineSpec

-----------------------------------------------------------------------------
(***************************************************************************)
(* Keyframes.                                                              *)
(***************************************************************************)
\* A finite set of numbers has a least one.
LEMMA LeastExists ==
  ASSUME NEW K, IsFiniteSet(K), K \in SUBSET Int, K # {}
  PROVE  \E i \in K : \A j \in K : i <= j
<1>1. /\ Cardinality(K) \in Nat
      /\ \A i \in K : Cardinality(UpTo(K, i)) \in 1..Cardinality(K)
      /\ \A i, j \in K : Cardinality(UpTo(K, i)) = Cardinality(UpTo(K, j)) => i = j
      /\ \A r \in 1..Cardinality(K) : \E i \in K : Cardinality(UpTo(K, i)) = r
  BY Ranks
<1>2. Cardinality(K) # 0
  BY FS_EmptySet
<1>3. PICK i \in K : Cardinality(UpTo(K, i)) = 1
  BY <1>1, <1>2
<1>4. ASSUME NEW j \in K, j < i PROVE FALSE
  <2>1. UpTo(K, j) \subseteq UpTo(K, i) /\ UpTo(K, i) \subseteq K
    <3>0. i \in Int /\ j \in Int /\ \A k \in K : k \in Int
      OBVIOUS
    <3>1. \A k \in K : k <= j => k <= i
      BY <1>4, <3>0
    <3> QED BY <3>1 DEF UpTo
  <2>2. IsFiniteSet(UpTo(K, i))
    BY <2>1, FS_Subset
  <2>3. Cardinality(UpTo(K, j)) <= 1 /\ Cardinality(UpTo(K, j)) \in 1..Cardinality(K)
    BY <1>1, <1>3, <2>1, <2>2, FS_Subset
  <2>4. Cardinality(UpTo(K, j)) = 1
    BY <1>1, <2>3
  <2> QED BY <1>1, <1>3, <1>4, <2>4
<1>5. \A j \in K : i <= j
  BY <1>4
<1> QED BY <1>5

\* A queue with a keyframe at its head opens on one.
LEMMA OpensHead ==
  ASSUME NEW q \in Seq(Packets), 1 \in DOMAIN q, IsKeyframe(q[1])
  PROVE  OpensOnKeyframe(q)
BY DEF OpensOnKeyframe

\* Packets pushed behind do not change what comes first.
LEMMA OpensExtend ==
  ASSUME NEW q \in Seq(Packets), NEW items \in Seq(Packets), OpensOnKeyframe(q)
  PROVE  OpensOnKeyframe(q \o items)
<1>1. PICK i \in DOMAIN q : IsKeyframe(q[i]) /\ \A j \in 1..(i - 1) : q[j].kind = "audio"
  BY DEF OpensOnKeyframe
<1> DEFINE all == q \o items
<1>2. /\ all \in Seq(Packets) /\ Len(all) = Len(q) + Len(items)
      /\ \A j \in 1..(Len(q) + Len(items)) : all[j] = IF j <= Len(q) THEN q[j] ELSE items[j - Len(q)]
      /\ Len(q) \in Nat /\ Len(items) \in Nat /\ DOMAIN q = 1..Len(q)
  BY ConcatProperties, LenProperties
<1>3. DOMAIN all = 1..(Len(q) + Len(items))
  BY <1>2, LenProperties
<1> HIDE DEF all
<1>4. \A j \in 1..i : j \in DOMAIN all /\ all[j] = q[j]
  BY <1>2, <1>3
<1>5. i \in 1..i /\ \A j \in 1..(i - 1) : j \in 1..i
  BY <1>2
<1>6. OpensOnKeyframe(all)
  BY <1>1, <1>4, <1>5 DEF OpensOnKeyframe
<1> QED BY <1>6 DEF all

\* A cut that finds a keyframe leaves one in front, and one that finds none
\* leaves everything.
LEMMA OpensCut ==
  ASSUME NEW b \in BufferOf(Packets)
  PROVE  /\ Resync(b).queue \in Seq(Packets)
         /\ OpensOnKeyframe(b.queue) => OpensOnKeyframe(Resync(b).queue)
<1> DEFINE q == b.queue
           r == Resync(b).queue
<1>1. PICK k \in 0..Len(q) :
           /\ r = SubSeq(q, k + 1, Len(q))
           /\ Keyframes(q) # {} => k + 1 \in Keyframes(q)
  BY ResyncCut
<1>2. q \in Seq(Packets) /\ Len(q) \in Nat /\ DOMAIN q = 1..Len(q)
  BY LenProperties DEF BufferOf
<1>3. /\ r \in Seq(Packets) /\ DOMAIN r = 1..(Len(q) - k)
      /\ \A i \in DOMAIN r : r[i] = q[k + i]
  BY <1>1, <1>2, Suffix
<1>4. ASSUME OpensOnKeyframe(q) PROVE OpensOnKeyframe(r)
  <2>1. k + 1 \in DOMAIN q /\ IsKeyframe(q[k + 1])
    BY <1>1, <1>4 DEF OpensOnKeyframe, Keyframes
  <2>2. 1 \in DOMAIN r
    BY <1>2, <1>3, <2>1
  <2> QED BY <1>3, <2>1, <2>2, OpensHead
<1> QED BY <1>3, <1>4

\* Sorting leaves the first keyframe before every other video packet.
LEMMA OpensSorted ==
  ASSUME MonotoneClock, NEW q \in Seq(Packets), Ascending(q), NEW kept \in SUBSET DOMAIN q,
         NEW k \in kept, IsKeyframe(q[k]), \A i \in kept : i < k => q[i].kind = "audio"
  PROVE  OpensOnKeyframe(SortedByDts(q, kept))
<1> DEFINE r == SortedByDts(q, kept)
           n == Cardinality(kept)
<1>1. /\ r \in Seq(Packets) /\ DOMAIN r = 1..n /\ n \in Nat
      /\ \E f \in [1..n -> kept] :
           /\ \A i \in 1..n : r[i] = q[f[i]]
           /\ \A i \in kept : \E j \in 1..n : f[j] = i
           /\ \A i, j \in 1..n : (i < j /\ r[i].kind = r[j].kind) => f[i] < f[j]
  BY SortedThinned
<1> HIDE DEF r, n
<1>2. PICK f \in [1..n -> kept] :
           /\ \A i \in 1..n : r[i] = q[f[i]]
           /\ \A i \in kept : \E j \in 1..n : f[j] = i
           /\ \A i, j \in 1..n : (i < j /\ r[i].kind = r[j].kind) => f[i] < f[j]
  BY <1>1
<1>3. PICK j0 \in 1..n : f[j0] = k
  BY <1>2
<1>4. IsKeyframe(r[j0])
  BY <1>2, <1>3
<1>5. ASSUME NEW j \in 1..(j0 - 1) PROVE r[j].kind = "audio"
  <2>1. j \in 1..n /\ j < j0
    BY <1>1
  <2>2. r[j] \in Packets /\ r[j] = q[f[j]] /\ f[j] \in kept
    <3>1. j \in 1..Len(r)
      BY <1>1, <2>1, LenProperties
    <3> QED BY <1>1, <1>2, <2>1, <3>1, ElementOfSeq
  <2>3. r[j].kind \in {"video", "audio"}
    BY <2>2, PacketType DEF Tracks
  <2>4. r[j].kind = "video" => f[j] < k
    BY <1>2, <1>3, <1>4, <2>1 DEF IsKeyframe
  <2> QED BY <2>2, <2>3, <2>4
<1>6. OpensOnKeyframe(r)
  BY <1>1, <1>4, <1>5 DEF OpensOnKeyframe
<1> QED BY <1>6 DEF r

\* What drain_for_mux hands out opens on a keyframe when the queue did, or when
\* one was awaited and came; if none came, there is only audio.
LEMMA OpensDrained ==
  ASSUME MonotoneClock, BufferInv, MuxInv, Ascending(buffer.queue), DrainStep,
         awaiting_keyframe \/ OpensOnKeyframe(buffer.queue)
  PROVE  Waiting'
<1> DEFINE q == buffer.queue
           kept == Kept(q)
           K == Keyframes(q)
<1>1. /\ q \in Seq(Packets) /\ Len(q) \in Nat /\ DOMAIN q = 1..Len(q)
      /\ kept \in SUBSET DOMAIN q /\ K \in SUBSET DOMAIN q
      /\ \A i \in DOMAIN q : q[i] \in Packets /\ q[i].kind \in {"video", "audio"}
  <2>1. q \in Seq(Packets) /\ Len(q) \in Nat /\ DOMAIN q = 1..Len(q)
    BY PendingType, LenProperties
  <2> QED BY <2>1, ElementOfSeq, PacketType DEF Kept, Keyframes, Tracks
<1>2. /\ batch' = SortedByDts(q, kept) /\ Pending' = batch' /\ Unsent' = batch'
      /\ awaiting_keyframe' = (awaiting_keyframe /\ K = {})
      /\ ~Unlocked'
  BY DEF DrainStep, DrainForMux, Pending
<1>3. CASE awaiting_keyframe /\ K = {}
  <2>1. \A i \in kept : q[i].kind = "audio"
    BY <1>1, <1>3 DEF Kept
  <2> HIDE DEF kept, q
  <2>2. \E f \in [1..Cardinality(kept) -> kept] :
          \A i \in 1..Cardinality(kept) : batch'[i] = q[f[i]]
    <3>1. \E f \in [1..Cardinality(kept) -> kept] :
             /\ \A r \in 1..Cardinality(kept) : SortedByDts(q, kept)[r] = q[f[r]]
             /\ \A i \in kept : \E r \in 1..Cardinality(kept) : f[r] = i
             /\ \A r1, r2 \in 1..Cardinality(kept) :
                  r1 < r2 => f[r1] # f[r2] /\ Before(q, f[r1], f[r2])
      BY <1>1, SortedByDtsProperties
    <3>2. PICK f \in [1..Cardinality(kept) -> kept] :
             \A r \in 1..Cardinality(kept) : SortedByDts(q, kept)[r] = q[f[r]]
      BY <3>1
    <3> QED BY <1>2, <3>2
  <2>3. DOMAIN batch' = 1..Cardinality(kept)
    BY <1>1, <1>2, SortedByDtsProperties, LenProperties
  <2>4. \A i \in DOMAIN batch' : batch'[i].kind = "audio"
    BY <2>1, <2>2, <2>3
  <2>5. awaiting_keyframe'
    BY <1>2, <1>3
  <2> QED BY <1>2, <2>4, <2>5 DEF Waiting, Held
<1>4. CASE K # {} /\ awaiting_keyframe
  <2>1. IsFiniteSet(1..Len(q)) /\ K \in SUBSET Int
    BY <1>1, FS_Interval
  <2>2. IsFiniteSet(K)
    BY <1>1, <2>1, FS_Subset
  <2>3. PICK k \in K : \A j \in K : k <= j
    BY <1>4, <2>1, <2>2, LeastExists
  <2>4. k \in kept /\ IsKeyframe(q[k])
    BY <1>1, <2>1, <2>3 DEF Kept, Keyframes
  <2>5. ASSUME NEW i \in kept, i < k PROVE q[i].kind = "audio"
    <3>1. \A j \in K : ~(j <= i)
      BY <1>1, <2>1, <2>3, <2>5
    <3> QED BY <1>4, <3>1 DEF Kept
  <2>6. OpensOnKeyframe(SortedByDts(q, kept))
    BY <1>1, <2>4, <2>5, OpensSorted
  <2> QED BY <1>2, <2>6 DEF Waiting
<1>5. CASE ~awaiting_keyframe
  <2>1. PICK k \in DOMAIN q : IsKeyframe(q[k]) /\ \A j \in 1..(k - 1) : q[j].kind = "audio"
    BY <1>5 DEF OpensOnKeyframe
  <2>2. kept = DOMAIN q
    BY <1>5 DEF Kept
  <2>3. \A i \in kept : i < k => q[i].kind = "audio"
    BY <1>1, <2>1, <2>2
  <2>4. OpensOnKeyframe(SortedByDts(q, kept))
    BY <1>1, <2>1, <2>2, <2>3, OpensSorted
  <2> QED BY <1>2, <2>4 DEF Waiting
<1> QED BY <1>3, <1>4, <1>5 DEF MuxInv

\* The video of a connection, after a step that sends none.
LEMMA VideoKept ==
  ASSUME BufferInv, MuxInv, WireInv, [EngineNext]_engineVars, ~MediaStep, conn' = conn
  PROVE  /\ VideoOf(conn)' = VideoOf(conn)
         /\ StartsOnKeyframe(conn) => StartsOnKeyframe(conn)'
<1>1. Media' = Media /\ \A i \in Media : wire'[i] = wire[i]
  BY MediaKept
<1> QED BY <1>1 DEF VideoOf, StartsOnKeyframe

\* A step that leaves the connection what it was keeps KeyInv when it keeps
\* what is waiting behind a keyframe, and heals nothing.
LEMMA KeySteady ==
  ASSUME BufferInv, MuxInv, WireInv, KeyInv, [EngineNext]_engineVars, ~MediaStep,
         Quiet \/ HeaderStep,
         Resumed' => /\ resume.gated /\ ~resume.evicted /\ uncounted = 0
                     /\ Waiting => Waiting'
  PROVE  KeyInv'
<1>1. /\ conn' = conn /\ timebase' = timebase
      /\ muxer' = None <=> muxer = None
  BY DEF Quiet, HeaderStep, Writing
<1>2. Resumed' => Resumed /\ (Waiting => Waiting')
  BY <1>1 DEF Resumed, InSeries
<1>3. /\ VideoOf(conn)' = VideoOf(conn)
      /\ StartsOnKeyframe(conn) => StartsOnKeyframe(conn)'
  BY <1>1, VideoKept
<1> QED BY <1>1, <1>2, <1>3 DEF KeyInv


\* Steps after which the same packets wait on the same connection.
LEMMA KeyResting ==
  ASSUME BufferInv, MuxInv, WireInv, OrderInv, KeyInv, [EngineNext]_engineVars,
         Resting, ~AttachTransport, ~FinishEnd
  PROVE  KeyInv'
<1>1. Still
  BY DEF Resting, Still
<1>2. /\ Pending' = Pending
      /\ ~Unlocked' => ~Unlocked
  BY RestingEffect DEF OrderInv
<1>3. awaiting_keyframe' = awaiting_keyframe /\ uncounted' = uncounted
  BY DEF Resting, ConfigureCall, ConfigureCodecs, AttachOutput, TickNoTransport,
         TickMaintainFails, TickHeaders, TickHeadersFail, TickNoConfig, TickSendFails,
         TickFlushFails, TickEnd, AbortTick, FinishNoTransport, engineVars
<1>4. resume'.gated = resume.gated /\ resume'.evicted = resume.evicted
  <2>1. TornTag \/ UNCHANGED resume
    BY DEF Resting, ConfigureCall, ConfigureCodecs, AttachOutput, TickNoTransport,
           TickMaintainFails, TickHeaders, TickHeadersFail, TickNoConfig, TickSendFails,
           TickFlushFails, TickEnd, FinishNoTransport, engineVars
  <2> QED BY <2>1 DEF TornTag, WireInv
<1>5. Waiting => Waiting'
  <2>1. ~Unlocked' => Unsent' = Unsent
    BY <1>2 DEF Pending
  <2>2. Held => Held'
    BY <1>2, <1>3, <2>1 DEF Held
  <2> QED BY <1>2, <2>2 DEF Waiting
<1>6. Resumed' => resume.gated /\ ~resume.evicted /\ uncounted = 0
  BY <1>3, <1>4 DEF Resumed
<1> QED BY <1>1, <1>5, <1>6, StillWrites, StillSendsNone, KeySteady

\* A cut leaves the newest keyframe the first video of the queue.
LEMMA KeyResync ==
  ASSUME BufferInv, MuxInv, WireInv, KeyInv, [EngineNext]_engineVars, ResyncCall
  PROVE  KeyInv'
<1>1. Still
  BY DEF Still
<1>2. /\ Unlocked /\ Unlocked' /\ buffer' = Resync(buffer)
      /\ UNCHANGED <<awaiting_keyframe, uncounted, resume>>
  BY DEF ResyncCall, Unlocked
<1>3. Waiting => Waiting'
  BY <1>2, OpensCut, PendingType DEF Waiting, Held, Pending
<1>4. Resumed' => resume.gated /\ ~resume.evicted /\ uncounted = 0
  BY <1>2 DEF Resumed
<1> QED BY <1>1, <1>3, <1>4, StillWrites, StillSendsNone, KeySteady

\* Draining keeps a keyframe the first video of the batch, or the gate shut.
LEMMA KeyDrain ==
  ASSUME MonotoneClock, BufferInv, MuxInv, WireInv, OrderInv, KeyInv,
         [EngineNext]_engineVars, TickBegin \/ FinishBegin
  PROVE  KeyInv'
<1>1. Still
  BY DEF Still
<1>2. DrainStep
  BY DrainEffect, BufferStep
<1>3. UNCHANGED <<resume, uncounted>>
  BY DEF TickBegin, FinishBegin, DrainForMux
<1>4. Waiting => Waiting'
  <2>1. Pending = buffer.queue
    BY <1>2 DEF DrainStep, Pending
  <2> QED BY <1>2, <2>1, OpensDrained DEF Waiting, Held, OrderInv
<1>5. Resumed' => resume.gated /\ ~resume.evicted /\ uncounted = 0
  BY <1>3 DEF Resumed
<1> QED BY <1>1, <1>4, <1>5, StillWrites, StillSendsNone, KeySteady

\* A push that evicts nothing keeps the front of the queue, or cuts to a keyframe.
LEMMA KeyPush ==
  ASSUME BufferInv, MuxInv, WireInv, KeyInv, [EngineNext]_engineVars, PushCall
  PROVE  KeyInv'
<1>1. Still
  BY DEF Still
<1>2. /\ Unlocked /\ Unlocked' /\ UNCHANGED <<awaiting_keyframe, uncounted>>
      /\ \E items \in Seq(Packets), b \in BufferOf(Packets) :
           \E ov \in 0..Len(buffer.queue \o items) : PushStep(items, ov, b)
  BY PushEffect
<1>3. PICK items \in Seq(Packets), b \in BufferOf(Packets) :
             \E ov \in 0..Len(buffer.queue \o items) : PushStep(items, ov, b)
  BY <1>2
<1> DEFINE all == buffer.queue \o items
<1>4. PICK ov \in 0..Len(all) : PushStep(items, ov, b)
  BY <1>3
<1>5. /\ b.queue = SubSeq(all, ov + 1, Len(all)) /\ (buffer' = b \/ buffer' = Resync(b))
      /\ resume'.gated = resume.gated /\ (resume'.evicted <=> (resume.evicted \/ ov # 0))
  BY <1>4 DEF PushStep
<1>6. all \in Seq(Packets) /\ buffer.queue \in Seq(Packets)
  BY PendingType, ConcatProperties
<1> HIDE DEF all
<1>7. ASSUME Resumed' PROVE resume.gated /\ ~resume.evicted /\ uncounted = 0 /\ ov = 0
  BY <1>2, <1>5, <1>7 DEF Resumed
<1>8. ASSUME Resumed', Waiting PROVE Waiting'
  <2>1. CASE awaiting_keyframe
    BY <1>2, <2>1 DEF Waiting, Held
  <2>2. CASE OpensOnKeyframe(buffer.queue)
    <3>1. b.queue = SubSeq(all, 1, Len(all))
      BY <1>5, <1>7, <1>8
    <3>2. b.queue = all
      BY <1>6, <3>1, SubSeqFull
    <3>3. OpensOnKeyframe(all)
      BY <1>6, <2>2, OpensExtend DEF all
    <3>4. OpensOnKeyframe(buffer'.queue)
      BY <1>5, <3>2, <3>3, OpensCut
    <3> QED BY <1>2, <3>4 DEF Waiting, Pending
  <2> QED BY <1>2, <1>8, <2>1, <2>2 DEF Waiting, Held, Pending
<1> QED BY <1>1, <1>7, <1>8, StillWrites, StillSendsNone, KeySteady

\* A finish that fails throws its batch away and counts it in uncounted.
LEMMA KeyFinishFails ==
  ASSUME BufferInv, MuxInv, WireInv, OrderInv, KeyInv, [EngineNext]_engineVars, FinishFails
  PROVE  KeyInv'
<1>1. Still
  BY DEF Still
<1>2. /\ batch \in Seq(Packets) /\ sent \in 0..Len(batch) /\ Len(batch) \in Nat
      /\ Unsent \in Seq(Packets) /\ Len(Unsent) = Len(batch) - sent /\ uncounted \in Nat
  BY PendingType DEF BufferInv
<1>3. /\ ~Unlocked /\ Unlocked' /\ buffer' = buffer /\ uncounted' = uncounted + Len(batch)
      /\ awaiting_keyframe' = awaiting_keyframe
      /\ buffer.queue = <<>>
  BY DEF FinishFails, Release, Unlocked, OrderInv
<1>4. resume'.gated = resume.gated /\ resume'.evicted = resume.evicted
  BY DEF FinishFails, TornTag, WireInv
<1>5. ASSUME Resumed' PROVE /\ resume.gated /\ ~resume.evicted /\ uncounted = 0
                            /\ Waiting => Waiting'
  <2>1. uncounted' = 0 /\ resume.gated /\ ~resume.evicted
    BY <1>4, <1>5 DEF Resumed
  <2>2. uncounted = 0 /\ Len(batch) = 0
    BY <1>2, <1>3, <2>1
  <2>3. Unsent = <<>>
    BY <1>2, <2>2, EmptySeq
  <2>4. Pending' = Pending
    BY <1>3, <2>3 DEF Pending
  <2> QED BY <1>3, <2>1, <2>2, <2>4 DEF Waiting, Held
<1> QED BY <1>1, <1>5, StillWrites, StillSendsNone, KeySteady

\* The first video packet of a resumed connection is the keyframe in front.
LEMMA KeySend ==
  ASSUME BufferInv, MuxInv, WireInv, KeyInv, [EngineNext]_engineVars, SendStep
  PROVE  KeyInv'
<1> DEFINE n == Len(wire')
           q == Unsent
           r == SubSeq(q, 1 + 1, Len(q))
           x == wire'[n]
<1>1. /\ WireKept /\ n \in DOMAIN wire' \ DOMAIN wire
      /\ MediaTagOf(x, NextPacket) /\ Media' = Media \cup {n}
  BY MediaStepWire DEF SendStep
<1>2. /\ Pending = q /\ Pending' = r /\ Unsent' = r /\ NextPacket = q[1]
      /\ ~Unlocked /\ ~Unlocked' /\ muxer # None /\ muxer' # None
      /\ conn' = conn /\ timebase' = timebase
  BY DEF SendStep, Pending, MediaStep, Writing
<1>3. UNCHANGED <<awaiting_keyframe, uncounted, resume>>
  BY SendsOnly DEF SendStep, TickSend, FinishSend
<1>4. Resumed' <=> Resumed
  BY <1>2, <1>3 DEF Resumed, InSeries
<1>5. q \in Seq(Packets) /\ Len(q) \in Nat \ {0} /\ DOMAIN q = 1..Len(q)
  BY PendingType, EmptySeq, LenProperties DEF SendStep
<1>6. 1 \in 0..Len(q) /\ 1 \in DOMAIN q
  BY <1>5
<1>7. /\ r \in Seq(Packets) /\ DOMAIN r = 1..(Len(q) - 1)
      /\ \A i \in DOMAIN r : r[i] = q[1 + i] /\ 1 + i \in DOMAIN q
  BY <1>5, <1>6, Suffix
<1>8. x.conn = conn /\ x.type = q[1].kind /\ x.key = q[1].key /\ q[1].kind \in {"video", "audio"}
  BY <1>1, <1>2 DEF MediaTagOf, Tracks
<1> HIDE DEF q, r, x, n
<1>9. /\ \A i \in Media : wire'[i] = wire[i] /\ i < n /\ i \in Nat
      /\ n \in Nat
  BY <1>1 DEF WireKept, Media
<1>10. VideoOf(conn)' = VideoOf(conn) \cup (IF q[1].kind = "video" THEN {n} ELSE {})
  BY <1>1, <1>2, <1>8, <1>9 DEF VideoOf, x
<1>11. CASE q[1].kind = "audio"
  <2>1. VideoOf(conn)' = VideoOf(conn)
    BY <1>10, <1>11
  <2>2. StartsOnKeyframe(conn) => StartsOnKeyframe(conn)'
    BY <1>2, <1>9, <2>1 DEF StartsOnKeyframe, VideoOf
  <2>3. OpensOnKeyframe(q) => OpensOnKeyframe(r)
    <3> SUFFICES ASSUME OpensOnKeyframe(q) PROVE OpensOnKeyframe(r)
      OBVIOUS
    <3>1. PICK i \in DOMAIN q : IsKeyframe(q[i]) /\ \A j \in 1..(i - 1) : q[j].kind = "audio"
      BY DEF OpensOnKeyframe
    <3>2. i # 1
      BY <1>11, <3>1 DEF IsKeyframe
    <3>3. i - 1 \in DOMAIN r /\ 1 + (i - 1) = i
      BY <1>5, <1>7, <3>2
    <3>4. \A j \in 1..((i - 1) - 1) : j \in DOMAIN r /\ 1 + j \in 1..(i - 1)
      BY <1>5, <1>7, <3>3
    <3> QED BY <1>7, <3>1, <3>3, <3>4 DEF OpensOnKeyframe
  <2>4. Held => Held'
    BY <1>2, <1>3, <1>7 DEF Held, q
  <2>5. Waiting => Waiting'
    BY <1>2, <2>3, <2>4 DEF Waiting
  <2> QED BY <1>2, <1>4, <2>1, <2>2, <2>5 DEF KeyInv
<1>12. CASE q[1].kind = "video"
  <2>1. VideoOf(conn)' = VideoOf(conn) \cup {n} /\ VideoOf(conn)' # {}
    BY <1>10, <1>12
  <2>2. VideoOf(conn) \subseteq Media
    BY DEF VideoOf
  <2>3. ASSUME VideoOf(conn) # {}, StartsOnKeyframe(conn) PROVE StartsOnKeyframe(conn)'
    <3>1. PICK i0 \in VideoOf(conn) : TRUE
      BY <2>3
    <3>2. ASSUME NEW i \in VideoOf(conn)', \A j \in VideoOf(conn)' : i <= j
          PROVE  i \in VideoOf(conn) /\ wire[i].key
      <4>1. i # n
        BY <1>9, <2>1, <2>2, <3>1, <3>2
      <4> QED BY <2>1, <2>3, <3>2, <4>1 DEF StartsOnKeyframe
    <3> QED BY <1>2, <1>9, <2>2, <3>2 DEF StartsOnKeyframe
  <2>4. ASSUME Waiting, VideoOf(conn) = {} PROVE StartsOnKeyframe(conn)'
    <3>1. ~Held
      BY <1>2, <1>6, <1>12 DEF Held, q
    <3>2. OpensOnKeyframe(q)
      BY <1>2, <2>4, <3>1 DEF Waiting
    <3>3. PICK i \in DOMAIN q : IsKeyframe(q[i]) /\ \A j \in 1..(i - 1) : q[j].kind = "audio"
      BY <3>2 DEF OpensOnKeyframe
    <3>4. i = 1
      BY <1>5, <1>12, <3>3
    <3>5. x.key
      BY <1>8, <3>3, <3>4 DEF IsKeyframe
    <3> QED BY <2>1, <2>4, <3>5 DEF StartsOnKeyframe, x
  <2> QED BY <1>2, <1>4, <2>1, <2>3, <2>4 DEF KeyInv
<1> QED BY <1>8, <1>11, <1>12

\* Losing the transport: what is left opens on a keyframe, or one is awaited.
LEMMA KeyDetach ==
  ASSUME BufferInv, MuxInv, WireInv, DetachTransport
  PROVE  KeyInv'
<1>1. /\ muxer' = None /\ Unlocked /\ Unlocked'
      /\ buffer' = Resync(buffer)
      /\ \E known \in BOOLEAN :
           /\ awaiting_keyframe' = (known /\ ~(buffer'.queue # <<>> /\ IsKeyframe(Head(buffer'.queue))))
           /\ resume' = [gated |-> known, evicted |-> FALSE, torn |-> "intact"]
  BY DEF DetachTransport, Unlocked
<1>2. PICK known \in BOOLEAN :
           /\ awaiting_keyframe' = (known /\ ~(buffer'.queue # <<>> /\ IsKeyframe(Head(buffer'.queue))))
           /\ resume' = [gated |-> known, evicted |-> FALSE, torn |-> "intact"]
  BY <1>1
<1>3. buffer'.queue \in Seq(Packets)
  BY <1>1, OpensCut, PendingType
<1>4. ASSUME known, ~awaiting_keyframe' PROVE OpensOnKeyframe(buffer'.queue)
  <2>1. buffer'.queue # <<>> /\ IsKeyframe(Head(buffer'.queue))
    BY <1>2, <1>4
  <2>2. Head(buffer'.queue) = buffer'.queue[1]
    BY <2>1
  <2>3. 1 \in DOMAIN buffer'.queue
    BY <1>3, <2>1, EmptySeq, LenProperties
  <2> QED BY <1>3, <2>1, <2>2, <2>3, OpensHead
<1>5. Resumed' => known
  BY <1>2 DEF Resumed
<1> QED BY <1>1, <1>4, <1>5 DEF KeyInv, Waiting, Held, Pending

\* The new connection takes over what was waiting; nothing is on it yet.
LEMMA KeyAttach ==
  ASSUME BufferInv, MuxInv, WireInv, ClockInv, OrderInv, KeyInv, AttachTransport
  PROVE  KeyInv'
<1>1. /\ Unlocked /\ Unlocked' /\ conn' = conn + 1 /\ timebase' = None
      /\ UNCHANGED <<wire, buffer, awaiting_keyframe, uncounted>>
      /\ resume' = [resume EXCEPT !.torn = "intact", !.gated = @ /\ timebase # None]
  BY DEF AttachTransport, Unlocked
<1>2. resume'.evicted = resume.evicted /\ (resume'.gated => resume.gated /\ timebase # None)
  <2>1. PICK g \in BOOLEAN : (g <=> resume.gated /\ timebase # None)
                             /\ resume' = [resume EXCEPT !.torn = "intact", !.gated = g]
    BY <1>1 DEF WireInv
  <2> QED BY <2>1 DEF WireInv
<1>3. VideoOf(conn)' = {}
  <2>1. \A i \in DOMAIN wire : wire[i].conn # conn + 1
    <3>1. conn \in Nat /\ \A i \in DOMAIN wire : wire[i].conn \in Nat
      BY TagsOfWire, BoundsAssumption DEF MuxInv, TagType
    <3>2. \A i \in DOMAIN wire : wire[i].conn <= conn
      BY DEF WireInv
    <3> QED BY <3>1, <3>2
  <2>2. \A i \in DOMAIN wire' : wire'[i].conn # conn'
    BY <1>1, <2>1
  <2> QED BY <2>2 DEF VideoOf, Media
<1>4. Resumed' => Resumed /\ muxer = None
  BY <1>1, <1>2 DEF Resumed, InSeries, ClockInv
<1>5. Waiting => Waiting'
  BY <1>1 DEF Waiting, Held, Pending
<1> QED BY <1>3, <1>4, <1>5 DEF KeyInv

\* Outside a series nothing is resumed.
LEMMA KeyNotResumed ==
  ASSUME ~Resumed'
  PROVE  KeyInv'
BY DEF KeyInv

\* Every step keeps a keyframe first on a resumed connection, or first to come.
LEMMA KeyStep ==
  ASSUME MonotoneClock, BufferInv, MuxInv, WireInv, ClockInv, OrderInv, KeyInv,
         [EngineNext]_engineVars
  PROVE  KeyInv'
<1>1. CASE PushCall
  BY <1>1, KeyPush
<1>2. CASE ResyncCall
  BY <1>2, KeyResync
<1>3. CASE TickBegin \/ FinishBegin
  BY <1>3, KeyDrain
<1>4. CASE FinishFails
  BY <1>4, KeyFinishFails
<1>5. CASE Resting /\ ~AttachTransport /\ ~FinishEnd
  BY <1>5, KeyResting
<1>6. CASE TickSend \/ FinishSend
  BY <1>6, SendEffect, KeySend
<1>7. CASE AttachTransport
  BY <1>7, KeyAttach
<1>8. CASE DetachTransport
  BY <1>8, KeyDetach
<1>9. CASE Reset
  <2>1. ~resume'.gated
    BY <1>9 DEF Reset
  <2> QED BY <2>1, KeyNotResumed DEF Resumed
<1>10. CASE FinishEnd
  <2>1. muxer # None /\ muxer' = None /\ timebase' = timebase
    BY <1>10, NoMuxerAssumption DEF FinishEnd, MuxInv
  <2> QED BY <2>1, KeyNotResumed DEF Resumed, InSeries, ClockInv
<1> QED BY <1>1, <1>2, <1>3, <1>4, <1>5, <1>6, <1>7, <1>8, <1>9, <1>10, StepKinds
        DEF Still, Resting

\* The first connection of an engine resumes nothing.
LEMMA KeyInit ==
  ASSUME EngineInit
  PROVE  KeyInv
BY DEF EngineInit, KeyInv, Resumed

\* A connection that resumes a stream with known video starts it on a keyframe,
\* whatever was pushed, drained, refused and lost meanwhile, as long as no packet
\* was evicted behind the gate and no failed finish threw any away.
THEOREM EngineResumesOnKeyframe ==
  ASSUME MonotoneClock
  PROVE  EngineSpec => []ResumesOnKeyframe
<1>1. BufferInv /\ MuxInv /\ WireInv /\ ClockInv /\ OrderInv /\ KeyInv
        /\ [EngineNext]_engineVars => OrderInv' /\ KeyInv'
  BY OrderStep, KeyStep
<1>2. EngineInit => OrderInv /\ KeyInv
  BY OrderInit, KeyInit
<1>3. KeyInv => ResumesOnKeyframe
  BY DEF KeyInv, ResumesOnKeyframe, Resumed, InSeries, StartsOnKeyframe
<1> QED BY <1>1, <1>2, <1>3, WireInvariant, EngineInvariant, PTL DEF EngineSpec
=============================================================================
