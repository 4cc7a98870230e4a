------------------------------- MODULE Engine ------------------------------
(***************************************************************************)
(* The media engine of src/core/src/engine.rs: a bounded buffer drained    *)
(* into the muxer of the current transport.                                *)
(*                                                                         *)
(* Every call takes the engine's mutex.  Calls that touch no transport     *)
(* (push, attach, detach, ...) are one action.  tick and finish write one  *)
(* packet after the other to a transport that may block or fail, so they   *)
(* are split at each packet; `call` names the call that holds the mutex    *)
(* meanwhile, and nothing else runs until it is "none" again.              *)
(*                                                                         *)
(* wire is the log of complete FLV tags handed to transports, over all     *)
(* connections: a history variable the code does not keep.                 *)
(***************************************************************************)
EXTENDS BoundedBuffer, FlvMuxer

CONSTANTS
  Shapes,         \* packets the encoders produce: [kind, key, dts, inband]
  Step,           \* how far the capture clock moves from packet to packet
  Configs,        \* codec configurations (avcC and AudioSpecificConfig alike)
  CutThreshold,   \* LatencyProfile::cut_threshold, or None
  Outputs,        \* the packet sinks that may be attached
  MaxPush,        \* bound: packets ever pushed
  MaxConn,        \* bound: transports ever attached
  ApiCalls,       \* optional calls the application makes (see OptionalCalls)
  MaxFail         \* bound: transport errors (maintain, write, flush, shutdown)

ASSUME CutThresholdAssumption ==
  CutThreshold = None \/ CutThreshold \in 1..Capacity
ASSUME BoundsAssumption == Step \in Int /\ MaxPush \in Nat /\ MaxConn \in Nat /\ MaxFail \in Nat
ASSUME ShapesAssumption ==
  \A s \in Shapes : /\ s.kind \in Tracks /\ s.key \in BOOLEAN /\ s.dts \in Int
                    /\ s.inband \in Configs \cup {None}

VARIABLES
  buffer,             \* Inner.buffer
  muxer,              \* Inner.muxer: a muxer record, or None
  metadata_written,   \* Inner.metadata_written
  muxed,              \* Inner.muxed
  codecs,             \* Inner.avcc and Inner.asc
  timebase,           \* Inner.timebase, or None
  awaiting_keyframe,  \* Inner.awaiting_keyframe
  outputs,            \* Inner.outputs with output_codecs, and history: what each
                      \* was fed and how much media was on the wire before it (from)
  call, batch, sent,  \* the running tick or finish: its name and its locals
  outcome,            \* what the last tick or finish returned: "ok" or "err"
  wire, conn, epoch,  \* history: tags, connections, timestamp series so far
  issued,             \* history: packets ever pushed (numbers them)
  fails,              \* history: transport errors so far
  uncounted,          \* history: packets a failed finish drained and never counted
  resume              \* history: how the current connection came to be

engineVars == <<buffer, muxer, metadata_written, muxed, codecs, timebase,
                awaiting_keyframe, outputs, call, batch, sent, outcome,
                wire, conn, epoch, issued, fails, uncounted, resume>>

\* The id-th packet pushed.  The capture clock advances by Step per packet; a
\* shape's dts is the jitter, lead or jump of that packet.
Packet(id, s) ==
  [id |-> id, kind |-> s.kind, key |-> s.key, dts |-> Step * id + s.dts,
   inband |-> s.inband]
Packets == {Packet(id, s) : id \in 1..MaxPush, s \in Shapes}

IsKeyframe(p) == p.kind = "video" /\ p.key
Keyframes(q) == {i \in DOMAIN q : IsKeyframe(q[i])}
Resync(b) == ResyncKeepLatestKeyframe(b, Keyframes(b.queue))

NoCodecs == [avcc |-> None, asc |-> None]

EngineInit ==
  /\ buffer = EmptyBuffer
  /\ muxer = None
  /\ metadata_written = FALSE
  /\ muxed = 0
  /\ codecs = NoCodecs
  /\ timebase = None
  /\ awaiting_keyframe = FALSE
  /\ outputs = [live |-> {}, told |-> [o \in Outputs |-> NoCodecs],
                fed |-> [o \in Outputs |-> <<>>],
                from |-> [o \in Outputs |-> 0], in_force |-> NoCodecs,
                finalized |-> {}]
  /\ call = "none" /\ batch = <<>> /\ sent = 0 /\ outcome = "ok"
  /\ wire = <<>> /\ conn = 0 /\ epoch = 0 /\ issued = 0 /\ fails = 0 /\ uncounted = 0
  /\ resume = [gated |-> FALSE, evicted |-> FALSE, torn |-> "intact"]

Unlocked == call = "none"

\* The transport returns an error; with TornTag it happens inside a tag or a
\* flush, so what the peer has received no longer ends at a tag boundary.  The
\* history remembers the first tick that did so on a connection, or that only
\* other calls did.
TransportError == fails < MaxFail /\ fails' = fails + 1
TornTag ==
  /\ TransportError
  /\ resume' = [resume EXCEPT !.torn =
                  IF @ \in {"first tick", "late tick"} THEN @
                  ELSE IF call \notin {"headers", "tick"} THEN "other call"
                  ELSE IF metadata_written THEN "late tick" ELSE "first tick"]

(***************************************************************************)
(* Tags on the wire.                                                       *)
(***************************************************************************)
Tag(type, id, key, ts) ==
  [conn |-> conn, epoch |-> epoch, type |-> type, id |-> id, key |-> key,
   ts |-> ClampTs(ts), torn |-> resume.torn]

Media == {i \in DOMAIN wire : wire[i].type \in Tracks}

HeaderTag(type) == Tag(type, 0, FALSE, HeaderTs(muxer))
MediaTag(p, m) == Tag(p.kind, p.id, p.key, Stamp(m, p))

\* The sequence headers by which muxer m2 is ahead of muxer m1.
SequenceTags(m1, m2) ==
  (IF m1.avcc # m2.avcc THEN <<HeaderTag("avcc")>> ELSE <<>>)
  \o (IF m1.asc # m2.asc THEN <<HeaderTag("asc")>> ELSE <<>>)

(***************************************************************************)
(* Feeding packets and configurations to the packet-level outputs.         *)
(***************************************************************************)
Ids(packets) == [i \in DOMAIN packets |-> packets[i].id]

\* feed_outputs for every packet of ps: an output that fails on a packet is
\* retired there; cut[o] is how many packets output o takes.
FeedOutputs(ps, cut) ==
  [outputs EXCEPT
     !.live = {o \in @ : cut[o] = Len(ps)},
     !.fed  = [o \in Outputs |->
                 IF o \in outputs.live THEN @[o] \o SubSeq(Ids(ps), 1, cut[o])
                 ELSE @[o]]]

\* sync_output_codecs
SyncOutputCodecs(out, now) ==
  IF out.in_force = now THEN out
  ELSE [out EXCEPT !.in_force = now,
                   !.told = [o \in Outputs |-> IF o \in out.live THEN now ELSE @[o]]]

(***************************************************************************)
(* Calls that hold the mutex for one step.                                 *)
(***************************************************************************)
EnforceDropPolicy(b) ==
  IF CutThreshold # None /\ Len(b.queue) >= CutThreshold THEN Resync(b) ELSE b

\* push (one packet) and push_all (two): all packets enter, then one check.
Push(shapes) ==
  LET items == [i \in DOMAIN shapes |-> Packet(issued + i, shapes[i])]
      b == PushAll(buffer, items)
  IN  /\ Unlocked
      /\ issued + Len(shapes) <= MaxPush
      /\ issued' = issued + Len(shapes)
      /\ buffer' = EnforceDropPolicy(b)
      /\ resume' = [resume EXCEPT !.evicted = @ \/ b.dropped > buffer.dropped]
      /\ UNCHANGED <<muxer, metadata_written, muxed, codecs, timebase,
                     awaiting_keyframe, outputs, call, batch, sent, outcome,
                     wire, conn, epoch, fails, uncounted>>

ResyncCall ==
  /\ Unlocked
  /\ buffer' = Resync(buffer)
  /\ UNCHANGED <<muxer, metadata_written, muxed, codecs, timebase,
                 awaiting_keyframe, outputs, call, batch, sent, outcome,
                 wire, conn, epoch, issued, fails, uncounted, resume>>

\* Mutant: the metadata is taken for written on the new connection too.
AttachTransportMutant ==
  /\ Unlocked
  /\ conn < MaxConn
  /\ muxer' = IF timebase = None THEN NewMuxer ELSE RestoreTimebase(NewMuxer, timebase)
  /\ epoch' = IF timebase = None THEN epoch + 1 ELSE epoch
  /\ timebase' = None
  /\ conn' = conn + 1
  /\ resume' = [resume EXCEPT !.torn = "intact", !.gated = @ /\ timebase # None]
  /\ UNCHANGED <<buffer, metadata_written, muxed, codecs, awaiting_keyframe,
                 outputs, call, batch, sent, outcome, wire, issued, fails, uncounted>>

\* attach_transport: a timebase left by detach_transport is consumed; without
\* one the new connection starts a timestamp series of its own.
AttachTransport ==
  /\ Unlocked
  /\ conn < MaxConn
  /\ muxer' = IF timebase = None THEN NewMuxer ELSE RestoreTimebase(NewMuxer, timebase)
  /\ epoch' = IF timebase = None THEN epoch + 1 ELSE epoch
  /\ timebase' = None
  /\ metadata_written' = FALSE
  /\ conn' = conn + 1
  /\ resume' = [resume EXCEPT !.torn = "intact", !.gated = @ /\ timebase # None]
  /\ UNCHANGED <<buffer, muxed, codecs, awaiting_keyframe, outputs, call,
                 batch, sent, outcome, wire, issued, fails, uncounted>>

\* detach_transport: snapshot, harvest, cut to the newest keyframe, and hold
\* media back when the cut did not leave one in front.
DetachTransport ==
  LET harvested ==
        IF muxer = None THEN codecs
        ELSE [avcc |-> IF codecs.avcc = None THEN muxer.avcc ELSE codecs.avcc,
              asc  |-> IF codecs.asc  = None THEN muxer.asc  ELSE codecs.asc]
      b == Resync(buffer)
  IN  /\ Unlocked
      /\ timebase' = IF muxer = None THEN timebase ELSE TimebaseOf(muxer)
      /\ codecs' = harvested
      /\ muxer' = None
      /\ buffer' = b
      /\ awaiting_keyframe' =
           (harvested.avcc # None /\ ~(b.queue # <<>> /\ IsKeyframe(Head(b.queue))))
      /\ resume' = [gated |-> harvested.avcc # None, evicted |-> FALSE, torn |-> "intact"]
      /\ UNCHANGED <<metadata_written, muxed, outputs, call, batch, sent,
                     outcome, wire, conn, epoch, issued, fails, uncounted>>

\* configure_codecs: cached, and written at once when a transport is there.
\* A write that fails leaves the caches set and the later headers unwritten.
ConfigureCodecs(avcc, asc) ==
  LET update(c) == [avcc |-> IF avcc # None THEN avcc ELSE c.avcc,
                    asc  |-> IF asc  # None THEN asc  ELSE c.asc]
  IN  /\ Unlocked
      /\ codecs' = update(codecs)
      /\ \/ muxer = None /\ UNCHANGED <<muxer, wire, resume, fails>>
         \/ /\ muxer # None
            /\ muxer' = InitCodecs(muxer, avcc, asc)
            /\ wire' = wire \o SequenceTags(muxer, muxer')
            /\ UNCHANGED <<resume, fails>>
         \/ /\ muxer # None /\ TornTag
            /\ \E done \in {NoCodecs, [avcc |-> avcc, asc |-> None]} :
                 /\ InitCodecs(muxer, done.avcc, done.asc) # InitCodecs(muxer, avcc, asc)
                 /\ muxer' = InitCodecs(muxer, done.avcc, done.asc)
                 /\ wire' = wire \o SequenceTags(muxer, muxer')
      /\ UNCHANGED <<buffer, metadata_written, muxed, timebase, awaiting_keyframe,
                     outputs, call, batch, sent, outcome, conn, epoch, issued,
                     uncounted>>

\* attach_output: the sink learns the configurations in force, and they become
\* the ones every output is taken to know.
AttachOutput(o) ==
  /\ Unlocked
  /\ o \notin outputs.live /\ outputs.fed[o] = <<>>
  /\ outputs' = [outputs EXCEPT !.live = @ \cup {o}, !.told[o] = codecs,
                                !.from[o] = Cardinality(Media), !.in_force = codecs]
  /\ UNCHANGED <<buffer, muxer, metadata_written, muxed, codecs, timebase,
                 awaiting_keyframe, call, batch, sent, outcome, wire, conn,
                 epoch, issued, fails, uncounted, resume>>

\* reset: everything but the attached outputs and the QoS collector's sinks.
Reset ==
  /\ Unlocked
  /\ buffer' = EmptyBuffer
  /\ muxer' = None
  /\ metadata_written' = FALSE
  /\ muxed' = 0 /\ uncounted' = 0
  /\ codecs' = NoCodecs
  /\ timebase' = None
  /\ awaiting_keyframe' = FALSE
  /\ outputs' = [outputs EXCEPT !.in_force = NoCodecs]
  /\ resume' = [gated |-> FALSE, evicted |-> FALSE, torn |-> "intact"]
  /\ UNCHANGED <<call, batch, sent, outcome, wire, conn, epoch, issued, fails>>

(***************************************************************************)
(* drain_for_mux: while a keyframe is awaited, video inter-frames ahead of *)
(* the first keyframe are dropped; what is kept is put in DTS order, equal *)
(* timestamps in arrival order.                                            *)
(***************************************************************************)

\* Mutant: one keyframe anywhere in the batch lifts the gate for all of it.
KeptMutant(q) ==
  {i \in DOMAIN q : \/ ~awaiting_keyframe
                    \/ q[i].kind = "audio"
                    \/ Keyframes(q) # {}}

Kept(q) ==
  {i \in DOMAIN q : \/ ~awaiting_keyframe
                    \/ q[i].kind = "audio"
                    \/ \E j \in Keyframes(q) : j <= i}

\* Mutant: the comparison the wrong way round, the freshest packet first.
SortedByDtsMutant(q, kept) ==
  LET upTo(i) == {j \in kept : \/ q[j].dts > q[i].dts
                               \/ q[j].dts = q[i].dts /\ j <= i}
  IN  [r \in 1..Cardinality(kept) |->
         q[CHOOSE i \in kept : Cardinality(upTo(i)) = r]]

SortedByDts(q, kept) ==
  LET upTo(i) == {j \in kept : \/ q[j].dts < q[i].dts
                               \/ q[j].dts = q[i].dts /\ j <= i}
  IN  [r \in 1..Cardinality(kept) |->
         q[CHOOSE i \in kept : Cardinality(upTo(i)) = r]]

DrainForMux ==
  LET q == buffer.queue
      kept == Kept(q)
  IN  /\ batch' = SortedByDts(q, kept)
      /\ sent' = 0
      /\ buffer' = TakeAll(buffer, Len(q) - Cardinality(kept))
      /\ awaiting_keyframe' = (awaiting_keyframe /\ Keyframes(q) = {})

(***************************************************************************)
(* write_packet, as the callers see it.                                    *)
(***************************************************************************)
NextPacket == batch[sent + 1]

Unsent == SubSeq(batch, sent + 1, Len(batch))

\* The muxer ready to stamp p, its clock re-anchored when p is out of order.
Anchored(m, p) == IF OutOfOrder(m, p) THEN Rebase(m, p) ELSE m

\* The header of p's track, if it is written now, and then p itself.
PacketTags(m, p) ==
  SequenceTags(muxer, Sniff(muxer, p)) \o <<MediaTag(p, m)>>

(***************************************************************************)
(* tick.                                                                   *)
(***************************************************************************)
Release(result) ==
  /\ call' = "none" /\ batch' = <<>> /\ sent' = 0
  /\ outcome' = result

\* Some outputs may fail on the packets they are fed, and are retired.
FeedsOf(ps) == {cut \in [Outputs -> 0..Len(ps)] :
                  \A o \in Outputs \ outputs.live : cut[o] = Len(ps)}

\* Mutant: the packets sent before the failure are not fed.
AbortTickMutant ==
  /\ buffer' = RestoreFront(buffer, Unsent)
  /\ UNCHANGED outputs
  /\ muxed' = muxed + sent
  /\ Release("err")
  /\ UNCHANGED <<metadata_written, codecs, timebase, awaiting_keyframe, conn,
                 epoch, issued, uncounted>>

\* The error path shared by every failure after the drain: the unsent packets
\* go back, the sent prefix is fed and counted.
AbortTick ==
  /\ buffer' = RestoreFront(buffer, Unsent)
  /\ \E cut \in FeedsOf(SubSeq(batch, 1, sent)) :
       outputs' = FeedOutputs(SubSeq(batch, 1, sent), cut)
  /\ muxed' = muxed + sent
  /\ Release("err")
  /\ UNCHANGED <<metadata_written, codecs, timebase, awaiting_keyframe, conn,
                 epoch, issued, uncounted>>

TickNoTransport ==
  /\ Unlocked /\ muxer = None
  /\ outcome' = "ok"
  /\ UNCHANGED <<buffer, muxer, metadata_written, muxed, codecs, timebase,
                 awaiting_keyframe, outputs, call, batch, sent, wire, conn,
                 epoch, issued, fails, uncounted, resume>>

\* maintain() fails before anything is drained.
TickMaintainFails ==
  /\ Unlocked /\ muxer # None /\ TransportError
  /\ outcome' = "err"
  /\ UNCHANGED <<buffer, muxer, metadata_written, muxed, codecs, timebase,
                 awaiting_keyframe, outputs, call, batch, sent, wire, conn,
                 epoch, issued, uncounted, resume>>

TickBegin ==
  /\ Unlocked /\ muxer # None
  /\ DrainForMux
  /\ call' = "headers"
  /\ UNCHANGED <<muxer, metadata_written, muxed, codecs, timebase, outputs,
                 outcome, wire, conn, epoch, issued, fails, uncounted, resume>>

MetadataTags == IF metadata_written THEN <<>> ELSE <<HeaderTag("script")>>

TickHeaders ==
  LET m == InitCodecs(muxer, codecs.avcc, codecs.asc)
  IN  /\ call = "headers"
      /\ muxer' = m
      /\ wire' = wire \o MetadataTags \o SequenceTags(muxer, m)
      /\ call' = "tick"
      /\ UNCHANGED <<buffer, metadata_written, muxed, codecs, timebase,
                     awaiting_keyframe, outputs, batch, sent, outcome, conn,
                     epoch, issued, fails, uncounted, resume>>

\* The metadata, the video header or the audio header does not get through.
TickHeadersFail ==
  LET full == InitCodecs(muxer, codecs.avcc, codecs.asc)
  IN  /\ call = "headers" /\ TornTag
      /\ \/ ~metadata_written /\ UNCHANGED <<muxer, wire>>
         \/ \E m \in {muxer, InitCodecs(muxer, codecs.avcc, None)} :
              /\ m # full
              /\ muxer' = m
              /\ wire' = wire \o MetadataTags \o SequenceTags(muxer, m)
      /\ AbortTick

TickSend ==
  LET p == NextPacket
      m == Anchored(Sniff(muxer, p), p)
  IN  /\ call = "tick" /\ sent < Len(batch)
      /\ ~NoConfig(muxer, p)
      /\ muxer' = Stamped(m, p)
      /\ wire' = wire \o PacketTags(m, p)
      /\ sent' = sent + 1
      /\ UNCHANGED <<buffer, metadata_written, muxed, codecs, timebase,
                     awaiting_keyframe, outputs, call, batch, outcome, conn,
                     epoch, issued, fails, uncounted, resume>>

\* A packet that needs a sequence header nobody knows: a configuration error,
\* which the engine treats like any other failure.
TickNoConfig ==
  /\ call = "tick" /\ sent < Len(batch)
  /\ NoConfig(muxer, NextPacket)
  /\ AbortTick
  /\ UNCHANGED <<muxer, wire, resume, fails>>

\* The write fails on the sniffed sequence header, or on the packet's own tag
\* (whose timestamp the muxer has already taken as written).
TickSendFails ==
  LET p == NextPacket
      m == Anchored(Sniff(muxer, p), p)
  IN  /\ call = "tick" /\ sent < Len(batch) /\ TornTag
      /\ ~NoConfig(muxer, p)
      /\ \/ NeedsSequence(muxer, p) /\ UNCHANGED <<muxer, wire>>
         \/ /\ muxer' = Stamped(m, p)
            /\ wire' = wire \o SequenceTags(muxer, Sniff(muxer, p))
      /\ AbortTick

\* Everything is written but the final flush fails: nothing is handed back.
TickFlushFails ==
  /\ call = "tick" /\ sent = Len(batch) /\ TornTag
  /\ AbortTick
  /\ UNCHANGED <<muxer, wire>>

TickEnd ==
  LET harvested == [avcc |-> IF codecs.avcc = None THEN muxer.avcc ELSE codecs.avcc,
                    asc  |-> IF codecs.asc  = None THEN muxer.asc  ELSE codecs.asc]
  IN  /\ call = "tick" /\ sent = Len(batch)
      /\ metadata_written' = TRUE
      /\ codecs' = harvested
      /\ \E cut \in FeedsOf(batch) :
           outputs' = SyncOutputCodecs(FeedOutputs(batch, cut), harvested)
      /\ muxed' = muxed + Len(batch)
      /\ Release("ok")
      /\ UNCHANGED <<buffer, muxer, timebase, awaiting_keyframe, wire, conn,
                     epoch, issued, fails, uncounted, resume>>

(***************************************************************************)
(* finish: drain, write, flush, shut the transport down, finalise outputs. *)
(* It re-anchors nothing, writes no metadata and no cached headers, and    *)
(* an error returns at once with the drained packets gone.                 *)
(***************************************************************************)
FinishNoTransport ==
  /\ Unlocked /\ muxer = None
  /\ outcome' = "ok"
  /\ UNCHANGED <<buffer, muxer, metadata_written, muxed, codecs, timebase,
                 awaiting_keyframe, outputs, call, batch, sent, wire, conn,
                 epoch, issued, fails, uncounted, resume>>

FinishBegin ==
  /\ Unlocked /\ muxer # None
  /\ DrainForMux
  /\ call' = "finish"
  /\ UNCHANGED <<muxer, metadata_written, muxed, codecs, timebase, outputs,
                 outcome, wire, conn, epoch, issued, fails, uncounted, resume>>

FinishSend ==
  LET p == NextPacket
      m == Sniff(muxer, p)
  IN  /\ call = "finish" /\ sent < Len(batch)
      /\ ~NoConfig(muxer, p) /\ ~OutOfOrder(m, p)
      /\ muxer' = Stamped(m, p)
      /\ wire' = wire \o PacketTags(m, p)
      /\ \E cut \in FeedsOf(<<p>>) : outputs' = FeedOutputs(<<p>>, cut)
      /\ sent' = sent + 1
      /\ UNCHANGED <<buffer, metadata_written, muxed, codecs, timebase,
                     awaiting_keyframe, call, batch, outcome, conn, epoch,
                     issued, fails, uncounted, resume>>

\* A packet that cannot be written, for want of a configuration, because its
\* clock went backwards, or because the transport failed, or a failing flush.
FinishFails ==
  LET p == NextPacket
      m == Sniff(muxer, p)
  IN  /\ call = "finish"
      /\ \/ /\ sent < Len(batch) /\ NoConfig(muxer, p)
            /\ UNCHANGED <<muxer, wire, resume, fails>>
         \/ /\ sent < Len(batch) /\ ~NoConfig(muxer, p) /\ OutOfOrder(m, p)
            /\ muxer' = m
            /\ wire' = wire \o SequenceTags(muxer, m)
            /\ UNCHANGED <<resume, fails>>
         \/ /\ sent < Len(batch) /\ ~NoConfig(muxer, p) /\ TornTag
            /\ \/ NeedsSequence(muxer, p) /\ UNCHANGED <<muxer, wire>>
               \/ /\ ~OutOfOrder(m, p)
                  /\ muxer' = Stamped(m, p)
                  /\ wire' = wire \o SequenceTags(muxer, m)
         \/ /\ sent = Len(batch) /\ TornTag
            /\ UNCHANGED <<muxer, wire>>
      /\ uncounted' = uncounted + Len(batch)
      /\ Release("err")
      /\ UNCHANGED <<buffer, metadata_written, muxed, codecs, timebase,
                     awaiting_keyframe, outputs, conn, epoch, issued>>

\* Flushed and counted; the transport is gone whatever shutdown() says, and
\* the outputs are finalised only when it succeeded.
FinishEnd ==
  /\ call = "finish" /\ sent = Len(batch)
  /\ muxed' = muxed + Len(batch)
  /\ muxer' = None
  /\ \/ /\ outputs' = [outputs EXCEPT !.finalized = outputs.live]
        /\ UNCHANGED fails
        /\ Release("ok")
     \/ /\ TransportError /\ UNCHANGED outputs
        /\ Release("err")
  /\ UNCHANGED <<buffer, metadata_written, codecs, timebase, awaiting_keyframe,
                 wire, conn, epoch, issued, uncounted, resume>>

-----------------------------------------------------------------------------
Tick == \/ TickNoTransport \/ TickMaintainFails \/ TickBegin \/ TickHeaders
        \/ TickHeadersFail \/ TickSend \/ TickNoConfig \/ TickSendFails
        \/ TickFlushFails \/ TickEnd

Finish == \/ FinishNoTransport \/ FinishBegin \/ FinishSend \/ FinishFails
          \/ FinishEnd

\* push and push_all, from the encoder threads.
PushCall ==
  \/ \E s \in Shapes : Push(<<s>>)
  \/ \E s1, s2 \in Shapes : Push(<<s1, s2>>)

ConfigureCall ==
  \E avcc, asc \in Configs \cup {None} : ConfigureCodecs(avcc, asc)

\* Calls a program may or may not make beside its pump and its encoders.
OptionalCalls ==
  \/ "resync" \in ApiCalls /\ ResyncCall
  \/ "configure" \in ApiCalls /\ ConfigureCall
  \/ "reset" \in ApiCalls /\ Reset
  \/ \E o \in Outputs : AttachOutput(o)

\* The engine driven directly, its transport calls in any order.
EngineNext ==
  \/ PushCall \/ OptionalCalls
  \/ AttachTransport \/ DetachTransport
  \/ Tick \/ Finish

EngineSpec == EngineInit /\ [][EngineNext]_engineVars

-----------------------------------------------------------------------------
(***************************************************************************)
(* Properties.                                                             *)
(***************************************************************************)
MuxerType ==
  [origin : Int \cup {None}, last : [Tracks -> Int],
   avcc : Configs \cup {None}, asc : Configs \cup {None}]
CodecsType == [avcc : Configs \cup {None}, asc : Configs \cup {None}]

\* None stands for the absent muxer too.
ASSUME NoMuxerAssumption == None \notin MuxerType

\* Types of everything the code keeps, and of the locals of a running call.
TypeOK ==
  /\ buffer \in [queue : Seq(Packets), pushed : Nat, dropped : Nat]
  /\ muxer \in MuxerType \cup {None}
  /\ metadata_written \in BOOLEAN /\ awaiting_keyframe \in BOOLEAN
  /\ muxed \in Nat /\ issued \in 0..MaxPush /\ fails \in 0..MaxFail /\ uncounted \in Nat
  /\ codecs \in CodecsType
  /\ timebase \in [origin : Int \cup {None}, last : [Tracks -> Int]] \cup {None}
  /\ call \in {"none", "headers", "tick", "finish"}
  /\ batch \in Seq(Packets) /\ sent \in 0..Len(batch)
  /\ outcome \in {"ok", "err"}
  /\ conn \in 0..MaxConn /\ epoch \in 0..conn
  /\ (call # "none" => muxer \in MuxerType)

\* What is buffered, together with what a running call may still hand back,
\* never exceeds the packet budget: restore_front checks no capacity, and is
\* safe only because the mutex keeps every push out while a batch is drained.
BoundedMemory == Len(buffer.queue) + (Len(batch) - sent) <= Capacity

\* Every packet accepted is accounted for exactly once: muxed, dropped, still
\* buffered, or in the batch of the running call; only a finish that returned
\* an error leaves packets uncounted.
Accounting ==
  buffer.pushed = muxed + buffer.dropped + Len(buffer.queue) + Len(batch) + uncounted

\* Within one timestamp series no track's media goes backwards on the wire:
\* through clock jumps (rebase), jitter (clamp), failed sends and reconnects.
MediaMonotone ==
  \A i, j \in Media :
    (i < j /\ wire[i].type = wire[j].type /\ wire[i].epoch = wire[j].epoch)
      => wire[i].ts <= wire[j].ts

\* Packets of a track leave in the order they were pushed and none leaves twice,
\* through sorting, failing, restoring and reconnecting, as long as the
\* encoder's own clock is monotone.
DecodeOrder ==
  \A i, j \in Media :
    (i < j /\ wire[i].type = wire[j].type) => wire[i].id < wire[j].id

\* A keyframe or an audio frame is preceded, on its own connection, by the
\* sequence header a server needs to decode it.
SequenceBeforeMedia ==
  \A j \in Media :
    (wire[j].key \/ wire[j].type = "audio") =>
      \E i \in 1..(j - 1) : /\ wire[i].conn = wire[j].conn
                            /\ wire[i].type = (IF wire[j].type = "video" THEN "avcc" ELSE "asc")

\* While a tick sends packets, this connection has had its metadata and every
\* configuration the engine holds: a fresh muxer is never taken for the old one.
TickSendsAfterHeaders ==
  call = "tick" =>
    \A type \in {"script"} \cup {c \in {"avcc", "asc"} : codecs[c] # None} :
      \E i \in DOMAIN wire : wire[i].conn = conn /\ wire[i].type = type

VideoOf(c) == {i \in Media : wire[i].conn = c /\ wire[i].type = "video"}
StartsOnKeyframe(c) ==
  \A i \in VideoOf(c) : (\A j \in VideoOf(c) : i <= j) => wire[i].key

\* A connection that resumes a stream with known video starts on a keyframe,
\* unless the buffer overflowed after the transport was lost or a failing
\* finish threw packets away.
ResumesOnKeyframe ==
  (muxer # None /\ resume.gated /\ ~resume.evicted /\ uncounted = 0) => StartsOnKeyframe(conn)

\* The packets on the wire in the order they were written: the r-th media tag
\* is the one with r media tags up to it.
MediaIds ==
  LET upTo(i) == {j \in Media : j <= i}
  IN  [r \in 1..Cardinality(Media) |->
         wire[CHOOSE i \in Media : Cardinality(upTo(i)) = r].id]

\* Between calls a live output has been fed exactly the packets that reached
\* the wire since it was attached, each once and in that order: through ticks
\* and finishes that fail half way, batches handed back, resets and reconnects.
OutputsMirrorWire ==
  Unlocked => \A o \in outputs.live :
    outputs.fed[o] = SubSeq(MediaIds, outputs.from[o] + 1, Len(MediaIds))
=============================================================================
