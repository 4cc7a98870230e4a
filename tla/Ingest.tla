------------------------------- MODULE Ingest -------------------------------
(***************************************************************************)
(* One publish session over RTMP, end to end, with the payloads that       *)
(* RtmpLink and ChunkStream leave out: the client negotiates in AMF0,      *)
(* muxes encoder packets into FLV, parses the FLV back into tags and sends *)
(* them as messages; the server (PublishSession of                         *)
(* src/core/src/rtmp/server.rs) decodes them and drives two recordings     *)
(* behind a MultiSinkHandler, one of whose files may refuse a write.       *)
(*                                                                         *)
(* Messages are delivered whole and in order until the connection ends     *)
(* (ChunkStream); handshake, chunk sizes, acknowledgements and pings are   *)
(* RtmpLink's, but for the writes that make the server give up.            *)
(***************************************************************************)
EXTENDS Recording, Amf0

CONSTANTS
  Cases,      \* what varies between sessions: see given
  Served,     \* ServerConfig.app
  Key,        \* the stream key
  Cuts,       \* how many bytes one write may carry to the transport
  MaxFrames,  \* bound: packets published
  MaxFlight   \* bound: messages under way to the server

ASSUME CutsAssumption == Cuts \subseteq Nat \ {0} /\ {MaxFrames, MaxFlight} \subseteq Nat

VARIABLES
  given,    \* this session: the encoder's stream and how its clock moves, the
            \* app asked for, whether the publisher is this crate's, whether
            \* it asks for acknowledgements, the first file's fuse
  client,   \* where the publisher is, and the message stream it was granted
  mux,      \* its muxer
  clock,    \* DTS of the last packet
  sent,     \* the packets published, as a receiver should see them
  writes,   \* byte strings the muxer has yet to write to the transport
  parser,   \* the transport's FlvTagParser
  c2s, s2c, \* messages under way
  line,     \* "up", "shut" in order, "closed" by the peer's end, "silent"
  server,   \* how far the session is, what it was asked, the last configurations
  sinks,    \* the SinkHandlers
  calls     \* what the handler was given: configurations and packets

vars == <<given, client, mux, clock, sent, writes, parser, c2s, s2c, line, server,
          sinks, calls>>

Negotiating == <<mux, clock, sent, writes, parser, sinks, calls>>

-----------------------------------------------------------------------------
(***************************************************************************)
(* Commands.  Names stand for the strings of the code.                     *)
(***************************************************************************)
Connect == <<1>>
ReleaseStream == <<2>>
FCPublish == <<3>>
CreateStream == <<4>>
Publish == <<5>>
FCUnpublish == <<6>>
CloseStream == <<7>>
DeleteStream == <<8>>
Result == <<11>>
Error == <<12>>
OnStatus == <<13>>
SetDataFrame == <<14>>
OnMetaData == <<15>>
App == <<0, 9>>
Code == <<22>>
Live == <<23>>
PublishStart == <<24>>
Rejected == <<25>>
Width == <<31>>
Height == <<32>>

PublishStreamId == 1

\* The message type of a command; media and metadata have those of their tags.
Amf0Command == 20

\* on_metadata: the fields that a receiver checks stand for the thirteen.
OnMetadata(size) ==
  Write(<<Str(OnMetaData)>>)
    \o EcmaArray(<< <<Width, Num(size[1])>>, <<Height, Num(size[2])>> >>)

Command(vals) == [type |-> Amf0Command, ts |-> 0, payload |-> Write(vals)]

\* connect_app, the setup before createStream, do_publish, shutdown.
ConnectCommand(app) ==
  Command(<<Str(Connect), Num(1), Obj(<< <<Code, Num(15)>>, <<App, Str(app)>>,
                                        <<Live, Bool(FALSE)>> >>)>>)
CreateCommands ==
  << Command(<<Str(ReleaseStream), Num(2), Null, Str(Key)>>),
     Command(<<Str(FCPublish), Num(3), Null, Str(Key)>>),
     Command(<<Str(CreateStream), Num(4), Null>>) >>
PublishCommand == Command(<<Str(Publish), Num(5), Null, Str(Key), Str(Live)>>)
CloseCommands ==
  << Command(<<Str(FCUnpublish), Num(4), Null, Str(Key), Str(Live)>>),
     Command(<<Str(CloseStream), Num(5), Null>>) >>

Init ==
  /\ given \in Cases
  /\ client = [pc |-> "connect", pid |-> 0]
  /\ mux = M!NewMuxer /\ clock = 0 /\ sent = <<>> /\ writes = <<>>
  /\ parser = NewParser
  /\ c2s = <<ConnectCommand(given.app)>> /\ s2c = <<>>
  /\ line = "up"
  /\ server = [pc |-> "negotiate", app |-> <<>>, key |-> None, avcc |-> None, asc |-> None]
  /\ sinks = [i \in 1..2 |->
                [avcc |-> None, asc |-> None, retired |-> FALSE,
                 sink |-> NewRecording(IF i = 1 THEN given.fuse ELSE None)]]
  /\ calls = <<>>

\* Mutant: any _result is taken for the awaited one.
AnswersMutant(vals, txn) == CommandName(vals) = Result

\* await_result.
Answers(vals, txn) == CommandName(vals) = Result /\ TxnOf(vals) = txn

ClientWaits == client.pc \in {"connect", "create", "publish"}

\* What the publisher makes of the next message while it negotiates: the
\* messages it sends, and where it is then.
Heard(vals) ==
  LET here == <<<<>>, client>>
      go(pc, out) == <<out, [client EXCEPT !.pc = pc]>>
  IN  CASE CommandName(vals) = Error -> go("failed", <<>>)
        [] client.pc = "connect" /\ Answers(vals, 1) -> go("create", CreateCommands)
        [] client.pc = "create" /\ Answers(vals, 4) ->
             IF Len(vals) >= 4 /\ vals[4].t = "number"
             THEN <<<<PublishCommand>>, [pc |-> "publish", pid |-> vals[4].v]>>
             ELSE go("failed", <<>>)
        [] client.pc = "publish" /\ CommandName(vals) = OnStatus ->
             go(IF StrField(ObjectOf(vals), Code) = PublishStart THEN "live" ELSE "failed", <<>>)
        [] OTHER -> here

\* Neither end has closed, and nothing between them has failed.
Connected == line = "up" /\ server.pc \in {"negotiate", "pump"}

\* read_command on the publisher's side.
ClientHears ==
  /\ ClientWaits /\ s2c # <<>>
  /\ LET heard == Heard(ReadAll(Head(s2c).payload))
     IN  /\ c2s' = IF Connected THEN c2s \o heard[1] ELSE c2s
         /\ client' = heard[2]
  /\ s2c' = Tail(s2c)
  /\ UNCHANGED <<given, line, server, Negotiating>>

\* A negotiating publisher reads to the end of a lost connection.
ClientLoses ==
  /\ ClientWaits /\ s2c = <<>> /\ ~Connected
  /\ client' = [client EXCEPT !.pc = "failed"]
  /\ UNCHANGED <<given, c2s, s2c, line, server, Negotiating>>

\* answer_connect, answer_empty_transaction, answer_create_stream and
\* answer_publish: the reply and the server after it.
Answer(name, vals) ==
  LET txn(default) == IF TxnOf(vals) = None THEN default ELSE TxnOf(vals)
      app == StrField(ObjectOf(vals), App)
      stay(reply) == <<<<Command(reply)>>, server>>
  IN  CASE name = Connect ->
             IF app # Served
             THEN <<<<Command(<<Str(Error), Num(txn(1)), Null, Obj(<< <<Code, Str(Rejected)>> >>)>>)>>,
                    [server EXCEPT !.pc = "err"]>>
             ELSE <<<<Command(<<Str(Result), Num(txn(1)), Null, Obj(<< <<Code, Num(31)>> >>)>>)>>,
                    [server EXCEPT !.app = app]>>
        [] name \in {ReleaseStream, FCPublish} ->
             stay(<<Str(Result), Num(txn(1)), Null, Null>>)
        [] name = CreateStream -> stay(<<Str(Result), Num(txn(2)), Null, Num(PublishStreamId)>>)
        [] name = Publish ->
             IF Len(vals) < 4 \/ vals[4].t # "string"
             THEN <<<<>>, [server EXCEPT !.pc = "err"]>>
             ELSE <<<<Command(<<Str(OnStatus), Num(0), Null,
                                Obj(<< <<Live, Str(Live)>>, <<Code, Str(PublishStart)>> >>)>>)>>,
                    [server EXCEPT !.pc = "pump", !.key = vals[4].v]>>
        [] OTHER -> <<<<>>, server>>

\* negotiate: one message of the publisher's.  A reply that cannot be sent ends
\* the session; on a broken connection the socket may take it all the same.
ServerHears ==
  /\ server.pc = "negotiate" /\ c2s # <<>>
  /\ LET vals == ReadAll(Head(c2s).payload)
         answer == Answer(CommandName(vals), vals)
     IN  \/ /\ s2c' = IF line = "up" THEN s2c \o answer[1] ELSE s2c
            /\ server' = answer[2]
         \/ /\ line # "up" /\ answer[1] # <<>>
            /\ server' = [server EXCEPT !.pc = "err"]
            /\ UNCHANGED s2c
  /\ c2s' = Tail(c2s)
  /\ UNCHANGED <<given, client, line, Negotiating>>

\* A connection that is lost, or silent past the timeout, before a publish.
ServerLosesPublisher ==
  /\ server.pc = "negotiate" /\ c2s = <<>> /\ line # "up"
  /\ server' = [server EXCEPT !.pc = "err"]
  /\ UNCHANGED <<given, client, c2s, s2c, line, Negotiating>>

-----------------------------------------------------------------------------
(***************************************************************************)
(* Publishing.                                                             *)
(***************************************************************************)
\* The timestamp on the wire.  This crate's muxer stops at the highest one;
\* another publisher's clock wraps around, as RTMP has it.
WireTs(ts) == IF given.own THEN Min({ts, MaxTs}) ELSE ts % (MaxTs + 1)

AllWrites(tags) ==
  FoldLeft(LAMBDA acc, tag : acc \o Writes([tag EXCEPT !.ts = WireTs(@)]), <<>>, tags)

\* attach_transport: metadata first, then the configurations known by then.
Attach ==
  /\ client.pc = "live"
  /\ client' = [client EXCEPT !.pc = "media"]
  /\ LET avcc == given.stream.avcc
         asc == given.stream.asc
         metadata == Tag(Script, 0, OnMetadata(given.stream.size))
     IN  /\ mux' = M!InitCodecs(mux, avcc, asc)
         /\ writes' = <<FileHeader>> \o AllWrites(<<metadata>> \o InitTags(mux, avcc, asc))
  /\ UNCHANGED <<given, clock, sent, parser, c2s, s2c, line, server, sinks, calls>>

IsKey(nals) == \E k \in 1..Len(nals) : NalType(nals[k][1]) = IDR

\* What the encoder hands over, and what a receiver should get for it.
Encoded(f, dts) ==
  [kind |-> f.kind, key |-> f.kind = "video" /\ ContainsKeyframe(f.data),
   dts |-> dts, pts |-> dts + f.offset, data |-> f.data]

Expected(f, p) ==
  LET ts == M!Stamp(mux, p)
      dts == WireTs(M!ClampTs(ts))
      shown == IF f.kind = "audio" THEN ts ELSE p.pts - M!OriginFor(mux, p)
  IN  [kind |-> f.kind, key |-> f.kind = "video" /\ IsKey(f.nals), dts |-> dts,
       pts |-> dts + shown - ts, nals |-> f.nals]

\* write_packet, for a packet that does not fail: it has the configuration it
\* needs and no clock reset.  An inter-frame needs none, also as the first.
PublishFrame(f, dts) ==
  /\ client.pc = "media" /\ writes = <<>> /\ Len(sent) < MaxFrames
  /\ \E p \in {AsPacket(Encoded(f, dts))} :
       /\ ~M!NoConfig(mux, p) /\ ~M!OutOfOrder(mux, p)
       /\ sent' = Append(sent, Expected(f, p))
       /\ writes' = AllWrites(PacketTags(mux, p))
       /\ mux' = AfterPacket(mux, p)
  /\ clock' = dts
  /\ UNCHANGED <<given, client, parser, c2s, s2c, line, server, sinks, calls>>

\* emit_tag: the message a tag becomes; a script tag that does not begin with a
\* name and a value becomes none.
Emitted(tag) ==
  LET rest == 3 + FromBigEndian(SubSeq(tag.body, 2, 3))
  IN  IF tag.type \in {Video, Audio}
      THEN <<[type |-> tag.type, ts |-> tag.ts, payload |-> tag.body]>>
      ELSE IF tag.type = Script /\ Len(tag.body) > 3 /\ tag.body[1] = 2 /\ Len(tag.body) > rest
      THEN <<[type |-> Script, ts |-> tag.ts,
              payload |-> Write(<<Str(SetDataFrame), Str(OnMetaData)>>)
                            \o Dropped(tag.body, rest)]>>
      ELSE <<>>

EmittedAll(tags) == FoldLeft(LAMBDA acc, tag : acc \o Emitted(tag), <<>>, tags)

\* RtmpTransport::write, of part of what the muxer has to write.  On an error
\* the engine drops the transport.
TransportWrites(n) ==
  LET fed == Feed(parser, SubSeq(Head(writes), 1, Min({n, Len(Head(writes))})))
      left == Dropped(Head(writes), n)
  IN  /\ writes # <<>> /\ client.pc = "media" /\ Len(c2s) < MaxFlight
      /\ IF Connected /\ fed.ok
         THEN /\ parser' = fed.parser
              /\ c2s' = c2s \o EmittedAll(fed.tags)
              /\ writes' = IF left = <<>> THEN Tail(writes) ELSE <<left>> \o Tail(writes)
              /\ UNCHANGED client
         ELSE /\ writes' = <<>>
              /\ client' = [client EXCEPT !.pc = "failed"]
              /\ UNCHANGED <<parser, c2s>>
      /\ UNCHANGED <<given, mux, clock, sent, s2c, line, server, sinks, calls>>

\* shutdown, and the socket is closed.
Close ==
  /\ client.pc = "media" /\ writes = <<>> /\ Connected
  /\ client' = [client EXCEPT !.pc = "closed"]
  /\ c2s' = c2s \o CloseCommands
  /\ line' = "shut"
  /\ UNCHANGED <<given, mux, clock, sent, writes, parser, s2c, server, sinks, calls>>

\* The publisher or the network goes away: what is under way may be lost.
Break ==
  /\ line = "up"
  /\ line' \in {"closed", "silent"}
  /\ \E n \in 0..Len(c2s) : c2s' = SubSeq(c2s, 1, n)
  /\ \E n \in 0..Len(s2c) : s2c' = SubSeq(s2c, 1, n)
  /\ UNCHANGED <<given, client, mux, clock, sent, writes, parser, server, sinks, calls>>

-----------------------------------------------------------------------------
(***************************************************************************)
(* Ingest.                                                                 *)
(***************************************************************************)
\* SinkHandler: configurations are merged, a failing sink is retired.
Configure(h, avcc, asc) ==
  LET video == IF avcc = None THEN h.avcc ELSE avcc
      audio == IF asc = None THEN h.asc ELSE asc
  IN  IF h.retired THEN h
      ELSE [h EXCEPT !.avcc = video, !.asc = audio,
                     !.sink = RecordCodecs(@, video, audio)]

HandlePacket(h, p) ==
  LET after == RecordPacket(h.sink, AsPacket(p))
  IN  IF h.retired THEN h ELSE [h EXCEPT !.sink = after, !.retired = ~after.ok]

Finished(h) ==
  IF h.retired THEN h ELSE [h EXCEPT !.retired = TRUE, !.sink = RecordFinish(@)]

\* dispatch_media.
Dispatch(msg) ==
  \E decoded \in {DecodeTag(msg.type, msg.ts, msg.payload)} :
    LET avcc == IF decoded.what = "avcc" THEN decoded.bytes ELSE server.avcc
        asc == IF decoded.what = "asc" THEN decoded.bytes ELSE server.asc
    IN  IF decoded = None THEN UNCHANGED <<server, sinks, calls>>
        ELSE /\ server' = [server EXCEPT !.avcc = avcc, !.asc = asc]
             /\ IF decoded.what = "packet"
                THEN /\ sinks' = [i \in 1..2 |-> HandlePacket(sinks[i], decoded)]
                     /\ calls' = Append(calls, decoded)
                ELSE /\ sinks' = [i \in 1..2 |-> Configure(sinks[i], avcc, asc)]
                     /\ calls' = Append(calls, [what |-> "config", avcc |-> avcc, asc |-> asc])

\* handle_stream_command: what ends a publish.
EndsPublish(msg) ==
  CommandName(ReadAll(msg.payload)) \in {DeleteStream, CloseStream, FCUnpublish}

\* The end of pump that tells the handler.
EndWith(outcome) ==
  /\ server' = [server EXCEPT !.pc = outcome]
  /\ sinks' = [i \in 1..2 |-> Finished(sinks[i])]
  /\ UNCHANGED calls

\* Mutant: a publisher that unpublishes is not told to the handler.
PumpMutant ==
  /\ server.pc = "pump" /\ c2s # <<>>
  /\ c2s' = Tail(c2s)
  /\ CASE Head(c2s).type \in {Video, Audio} -> Dispatch(Head(c2s))
       [] Head(c2s).type = Amf0Command /\ EndsPublish(Head(c2s)) ->
            server' = [server EXCEPT !.pc = "ok"] /\ UNCHANGED <<sinks, calls>>
       [] OTHER -> UNCHANGED <<server, sinks, calls>>
  /\ UNCHANGED <<given, client, mux, clock, sent, writes, parser, s2c, line>>

\* pump, one message; messages of other types change nothing here.  An
\* acknowledgement that is due and cannot be written ends the session at once.
Pump ==
  /\ server.pc = "pump" /\ c2s # <<>>
  /\ c2s' = Tail(c2s)
  /\ \/ /\ given.acks /\ line # "up"
        /\ server' = [server EXCEPT !.pc = "err"] /\ UNCHANGED <<sinks, calls>>
     \/ CASE Head(c2s).type \in {Video, Audio} -> Dispatch(Head(c2s))
          [] Head(c2s).type = Amf0Command /\ EndsPublish(Head(c2s)) -> EndWith("ok")
          [] OTHER -> UNCHANGED <<server, sinks, calls>>
  /\ UNCHANGED <<given, client, mux, clock, sent, writes, parser, s2c, line>>

\* The publisher's end of the connection is closed.
PumpEnds ==
  /\ server.pc = "pump" /\ c2s = <<>> /\ line \in {"shut", "closed"}
  /\ EndWith("ok")
  /\ UNCHANGED <<given, client, mux, clock, sent, writes, parser, c2s, s2c, line>>

\* Nothing has come for the length of the timeout: the handler is not told.
PumpTimesOut ==
  /\ server.pc = "pump" /\ c2s = <<>> /\ line \in {"up", "silent"}
  /\ server' = [server EXCEPT !.pc = "err"]
  /\ UNCHANGED <<given, client, mux, clock, sent, writes, parser, c2s, s2c, line,
                 sinks, calls>>

\* The session is over.
Over == server.pc \in {"ok", "err"} /\ UNCHANGED vars

Next ==
  \/ ClientHears \/ ClientLoses \/ Attach \/ Close \/ Break
  \/ \E f \in given.stream.frames, d \in given.steps : PublishFrame(f, clock + d)
  \/ \E n \in Cuts : TransportWrites(n)
  \/ ServerHears \/ ServerLosesPublisher \/ Pump \/ PumpEnds \/ PumpTimesOut
  \/ Over

\* Whether the server gets to a session's end is RtmpLink's question; that it
\* always can is the check for deadlock.
Spec == Init /\ [][Next]_vars

-----------------------------------------------------------------------------
(***************************************************************************)
(* Properties.                                                             *)
(***************************************************************************)
IsPacket(call) == call.what = "packet"
Packets == SelectSeq(calls, IsPacket)

\* What of the published packets can be told apart: one without NAL units is
\* dropped by decode_video.
Receivable == SelectSeq(sent, LAMBDA e : e.nals # <<>>)

Matches(p, e) ==
  /\ p.kind = e.kind /\ p.key = e.key
  /\ p.data = IF e.kind = "video" THEN ToAnnexB(e.nals) ELSE e.nals[1]

\* Every packet comes out of the server as it went into the muxer: the same NAL
\* units or AAC frame, key flag and timestamps, in order, none lost or made up,
\* however the encoder framed it and however the FLV bytes were cut.
PacketsSurvive ==
  /\ Len(Packets) <= Len(Receivable)
  /\ \A k \in 1..Len(Packets) :
       /\ Matches(Packets[k], Receivable[k])
       /\ Packets[k].dts = Receivable[k].dts /\ Packets[k].pts = Receivable[k].pts

\* An inter-frame that the encoder hands over before its first keyframe goes out
\* without a configuration, unless one was known up front.
Headless(key, keysBefore) == given.stream.avcc = None /\ ~key /\ keysBefore = {}

\* configure comes before the first audio packet and the first keyframe, and
\* whatever a sink derives from the configuration is what the encoder was set
\* to: parameter sets, picture size, sampling rate, channels.  Only inter-frames
\* before the first keyframe come undescribed.  The metadata say the same.
StreamDescribed ==
  /\ \A k \in 1..Len(calls) :
       \/ ~IsPacket(calls[k])
       \/ /\ calls[k].kind = "video"
          /\ Headless(calls[k].key, {j \in 1..k - 1 : IsPacket(calls[j]) /\ calls[j].key})
       \/ \E j \in 1..k - 1 :
         /\ calls[j].what = "config"
         /\ IF calls[k].kind = "video"
            THEN /\ calls[j].avcc # None
                 /\ ExtractFromAvcc(calls[j].avcc) = <<given.stream.sps, given.stream.pps>>
                 /\ SpsDimensions(ExtractFromAvcc(calls[j].avcc)[1]) = given.stream.size
            ELSE /\ calls[j].asc # None
                 /\ AudioParams(calls[j].asc) = given.stream.audio
  /\ \A k \in 1..Len(c2s) : c2s[k].type = Script =>
       LET vals == ReadAll(c2s[k].payload)
       IN  /\ Len(vals) = 3 /\ CommandName(vals) = SetDataFrame
           /\ vals[3] = Obj(<< <<Width, Num(given.stream.size[1])>>,
                              <<Height, Num(given.stream.size[2])>> >>)

\* What is on a recording's tape, but for the file header.
TapeMedia(r) ==
  SelectSeq([k \in 1..Len(r.tape) |-> DecodeTag(r.tape[k].type, r.tape[k].ts, r.tape[k].body)],
            LAMBDA d : d # None /\ d.what = "packet")

\* The times of a track's media.
TrackTimes(r, type) ==
  LET on == SelectSeq(r.tape, LAMBDA tag : tag.type = type /\ tag.body[2] = 1)
  IN  [k \in 1..Len(on) |-> on[k].ts]

KeyTag(tag) == tag.type = Video /\ tag.body[1] \div 16 = 1

\* A recording is one playable file whatever the publisher's clock and the file
\* do: the header and the metadata once and first, each track's configuration
\* before its audio and its keyframes, timestamps that do not go back, and the
\* packets the handler was given, all of them unless the file refused one.
RecordingPlays ==
  \A i \in 1..2 :
    LET r == sinks[i].sink
        media == TapeMedia(r)
        config(type) == {k \in 1..Len(r.tape) : r.tape[k].type = type /\ r.tape[k].body[2] = 0}
    IN  /\ \A k \in 1..Len(r.tape) : k = 1 <=> r.tape[k] = FileStart
        /\ \A k \in 1..Len(r.tape) : k = 2 <=> r.tape[k].type = Script
        /\ \A type \in {Video, Audio} :
             /\ \A k, j \in 1..Len(TrackTimes(r, type)) :
                  k < j => TrackTimes(r, type)[k] <= TrackTimes(r, type)[j]
             /\ Cardinality(config(type)) <= 1
             /\ \A k \in 1..Len(r.tape) :
                  \/ r.tape[k].type # type
                  \/ \E j \in config(type) : j <= k
                  \/ type = Video /\ Headless(KeyTag(r.tape[k]), {j \in 1..k : KeyTag(r.tape[j])})
        /\ Len(media) <= Len(Packets)
        /\ \A k \in 1..Len(media) : Matches(media[k], Receivable[k])
        /\ i = 2 \/ given.fuse = None => Len(media) = Len(Packets)

\* The two ends agree on what was negotiated, and a publisher gives up only for
\* a cause: its app is not served, the server has left or the connection is lost.
SessionAsAsked ==
  /\ server.pc \in {"pump", "ok"} => server.app = given.app /\ server.key = Key
  /\ client.pc \in {"live", "media", "closed"} =>
       server.key = Key /\ client.pid = PublishStreamId
  /\ client.pc = "failed" /\ line = "up" =>
       server.pc = "err" /\ (given.app # Served \/ server.key = Key)

\* A session that ends well has delivered everything published before an
\* orderly close, and has finished every handler; none is finished before that;
\* an orderly close ends well unless an acknowledgement is due.
EndsFinished ==
  /\ \A i \in 1..2 : sinks[i].sink.finished => server.pc = "ok"
  /\ server.pc = "ok" =>
       /\ \A i \in 1..2 : sinks[i].retired
       /\ sinks[2].sink.closed
       /\ line = "shut" => Len(Packets) = Len(Receivable)
  /\ line = "shut" /\ ~given.acks => server.pc # "err"
=============================================================================
