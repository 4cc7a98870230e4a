------------------------------ MODULE RtmpLink ------------------------------
(***************************************************************************)
(* A publish over RTMP, message by message: RtmpTransport, the client      *)
(* (src/core/src/rtmp/mod.rs), against PublishSession, the ingest server   *)
(* (src/core/src/rtmp/server.rs), each on a thread of its own.             *)
(*                                                                         *)
(* The connection may be reset ("cut") or fall silent, so that what either *)
(* end sends is accepted and gone ("void").  A write to a dead connection  *)
(* may still succeed.  On a sound one ("up") an answer takes less than a   *)
(* quarter of the watchdog's budget, the unit of time here.                *)
(*                                                                         *)
(* Framing is the subject of ChunkStream.  Acknowledgements are left out:  *)
(* no handler looks at them.                                               *)
(***************************************************************************)
EXTENDS Integers, SequencesExt

CONSTANTS
  None,
  MaxPending,    \* MAX_PENDING_MESSAGES
  MaxUnanswered, \* MAX_UNANSWERED_PINGS
  Budget,        \* watchdog_idle, in quarters of itself: 4
  MaxMedia       \* bound: media messages written

ASSUME LinkAssumption ==
  /\ {MaxPending, MaxUnanswered, Budget} \subseteq Nat \ {0}
  /\ MaxMedia \in Nat
  /\ None # "watchdog"  \* no reason is not one of the reasons

VARIABLES
  link,    \* the connection: "up", "cut" or "void"
  app,     \* the application the client asks for: "served" or "other"
  up,      \* messages from client to server
  down,    \* messages from server to client
  arrived, \* how many of `down` have surely arrived
  cpc,     \* client: what it waits for, or "live", "failed", "closed"
  pending, \* client: commands read in this wait
  reason,  \* client: why it failed
  dog,     \* client: the watchdog
  spc,     \* server: what it waits for, or "pump", "ended", "failed"
  media,   \* media messages written, and those given to the handler
  fins     \* how often handler.finished() was called

clientVars == <<cpc, pending, reason, dog>>
serverVars == <<spc, fins>>
vars == <<link, app, up, down, arrived, clientVars, serverVars, media>>

Msg(name) == [name |-> name, txn |-> None]
Result(txn) == [name |-> "_result", txn |-> txn]
Eof == Msg("eof")
Msgs(names) == [i \in DOMAIN names |-> Msg(names[i])]

\* Commands are counted by a wait, protocol control is not.
IsCommand(m) == m.name \in {"_result", "_error", "onStatus"}

\* Just sent nothing, just heard: silent, unanswered pings, time to the next.
Heard == [silent |-> 0, unanswered |-> 0, wait |-> 1]

Init ==
  /\ link = "up" /\ app \in {"served", "other"}
  /\ up = Msgs(<<"c0c1">>) /\ down = <<>> /\ arrived = 0
  /\ cpc = "s0" /\ pending = 0 /\ reason = None /\ dog = Heard
  /\ spc = "c0c1" /\ fins = 0
  /\ media = [written |-> 0, handled |-> 0]

Negotiating == {"s0", "connect", "create", "publish"}

Sent(channel, ms) == IF link = "up" THEN channel \o ms ELSE channel
\* What is left of a channel when its end is reached.
Lost(channel) ==
  \/ channel = <<>> /\ link = "cut"
  \/ channel # <<>> /\ Head(channel) = Eof

-----------------------------------------------------------------------------
(***************************************************************************)
(* The client connects.                                                    *)
(***************************************************************************)
Received ==
  /\ down # <<>> /\ Head(down) # Eof
  /\ down' = Tail(down)
  /\ dog' = Heard
  /\ UNCHANGED arrived

\* The transport is dropped, and with it the socket.
ClientFails(why) ==
  /\ cpc' = "failed" /\ reason' = why /\ up' = Sent(up, <<Eof>>)

ClientWaits(for, ms) ==
  /\ cpc' = for /\ pending' = 0 /\ up' = Sent(up, ms)
  /\ UNCHANGED reason

ClientUnchanged == UNCHANGED <<link, app, serverVars, media>>

ClientHandshake ==
  /\ cpc = "s0" /\ Received /\ Head(down).name = "s0s1s2"
  /\ ClientWaits("connect", Msgs(<<"c2", "setChunkSize", "connect">>))
  /\ ClientUnchanged

Txn == [connect |-> 1, create |-> 4]

\* txn_of: is this the answer to the command with this transaction id?
Answers(m, txn) == m.name = "_result" /\ m.txn = txn

\* await_result, await_publish_status: what was awaited.  Only the answer to
\* createStream has a stream id.
AwaitedComes ==
  /\ Received
  /\ LET m == Head(down)
     IN  \/ /\ cpc = "connect" /\ Answers(m, Txn.connect)
            /\ ClientWaits("create", Msgs(<<"releaseStream", "FCPublish", "createStream">>))
         \/ /\ cpc = "create" /\ Answers(m, Txn.create)
            /\ IF m.txn = Txn.create THEN ClientWaits("publish", Msgs(<<"publish">>))
               ELSE ClientFails("no stream id") /\ UNCHANGED pending
         \/ /\ cpc = "publish" /\ m.name = "onStatus"
            /\ ClientWaits("rtt", Msgs(<<"ping">>))
  /\ ClientUnchanged

\* Anything else is skipped, an error or one command too many ends the wait.
OtherComes ==
  /\ cpc \in {"connect", "create", "publish"} /\ Received
  /\ LET m == Head(down)
         more == IF IsCommand(m) THEN pending + 1 ELSE pending
     IN  /\ ~ (cpc = "connect" /\ Answers(m, Txn.connect))
         /\ ~ (cpc = "create" /\ Answers(m, Txn.create))
         /\ ~ (cpc = "publish" /\ m.name = "onStatus")
         /\ pending' = more
         /\ IF m.name = "_error" THEN ClientFails("refused")
            ELSE IF more = MaxPending THEN ClientFails("no reply")
            ELSE UNCHANGED <<cpc, reason, up>>
  /\ ClientUnchanged

\* Once published, connect_tcp measures the round trip.  It makes do without.
MeasureRtt ==
  /\ cpc = "rtt" /\ cpc' = "live"
  /\ \/ Received
     \/ UNCHANGED <<down, arrived, dog>>
  /\ UNCHANGED <<up, pending, reason>> /\ ClientUnchanged

ClientLoses ==
  /\ cpc \in Negotiating /\ Lost(down)
  /\ ClientFails("closed")
  /\ UNCHANGED <<down, arrived, pending, dog>> /\ ClientUnchanged

\* The read timeout.  (A sound server answers in time.)
ClientTimesOut ==
  /\ cpc \in Negotiating /\ down = <<>> /\ link = "void"
  /\ ClientFails("timeout")
  /\ UNCHANGED <<down, arrived, pending, dog>> /\ ClientUnchanged

ClientConnects ==
  ClientHandshake \/ AwaitedComes \/ OtherComes \/ MeasureRtt \/ ClientLoses \/ ClientTimesOut

-----------------------------------------------------------------------------
(***************************************************************************)
(* The client publishes.                                                   *)
(***************************************************************************)
Gone == link = "cut" \/ spc \in {"ended", "failed"}

WriteMedia ==
  /\ cpc = "live" /\ media.written < MaxMedia
  /\ \/ /\ up' = Sent(up, Msgs(<<"media">>))
        /\ media' = [media EXCEPT !.written = @ + 1]
        /\ UNCHANGED <<cpc, reason>>
     \/ /\ Gone /\ ClientFails("closed") /\ UNCHANGED media
  /\ UNCHANGED <<link, app, down, arrived, pending, dog, serverVars>>

\* Mutant: an answer does not clear the count of pings.
InboundMutant(n) == IF n = 0 THEN dog ELSE [dog EXCEPT !.silent = 0, !.wait = 1]

\* note_inbound, for each of n messages drained.
Inbound(n) == IF n = 0 THEN dog ELSE Heard

\* Mutant: off by one, where probing stops.
TrippedMutant(d) == d.unanswered > MaxUnanswered /\ d.silent >= Budget

Tripped(d) == d.unanswered >= MaxUnanswered /\ d.silent >= Budget

\* maintain: drain what has arrived, then ask the watchdog.
Maintain ==
  /\ cpc = "live"
  /\ \E n \in arrived..Len(down) :
       LET eof == \E i \in 1..n : down[i] = Eof
           d == Inbound(n)
       IN  /\ down' = SubSeq(down, n + 1, Len(down)) /\ arrived' = 0
           /\ IF eof \/ (link = "cut" /\ n = Len(down))
              THEN ClientFails("closed") /\ UNCHANGED dog
              ELSE IF d.silent >= 1 /\ Tripped(d)
              THEN ClientFails("watchdog") /\ dog' = d
              ELSE IF d.silent >= 1 /\ d.unanswered < MaxUnanswered /\ d.wait = 0
              THEN \/ /\ up' = Sent(up, Msgs(<<"ping">>))
                      /\ dog' = [d EXCEPT !.unanswered = @ + 1, !.wait = 1]
                      /\ UNCHANGED <<cpc, reason>>
                   \/ Gone /\ ClientFails("closed") /\ dog' = d
              ELSE dog' = d /\ UNCHANGED <<up, cpc, reason>>
  /\ UNCHANGED pending /\ ClientUnchanged

\* shutdown; its write errors are ignored.  The transport is dropped.
Shutdown ==
  /\ cpc = "live" /\ cpc' = "closed"
  /\ up' = Sent(up, Msgs(<<"FCUnpublish", "closeStream", "eof">>))
  /\ UNCHANGED <<down, arrived, pending, reason, dog>> /\ ClientUnchanged

-----------------------------------------------------------------------------
(***************************************************************************)
(* The server.                                                             *)
(***************************************************************************)
ServerUnchanged == UNCHANGED <<link, app, arrived, clientVars>>
\* The session is dropped, and with it the socket.
ServerStops(how, ms) == spc' = how /\ down' = Sent(down, ms \o <<Eof>>)

ServerHandshake ==
  /\ up # <<>> /\ up' = Tail(up)
  /\ \/ /\ spc = "c0c1" /\ Head(up).name = "c0c1" /\ spc' = "c2"
        /\ down' = Sent(down, Msgs(<<"s0s1s2">>))
     \/ /\ spc = "c2" /\ Head(up).name = "c2" /\ spc' = "command"
        /\ down' = Sent(down, Msgs(<<"setChunkSize", "windowAck", "setPeerBw">>))
  /\ UNCHANGED <<fins, media>> /\ ServerUnchanged

\* What negotiate answers, with the transaction id of the command.
Reply(m) ==
  CASE m.name = "connect" -> <<Result(1)>>
    [] m.name = "releaseStream" -> <<Result(2)>>
    [] m.name = "FCPublish" -> <<Result(3)>>
    [] m.name = "createStream" -> <<Result(4)>>
    [] m.name = "publish" -> Msgs(<<"onStatus">>)
    [] OTHER -> <<>>

\* Mutant: the answer to publish does not end the negotiation.
AcceptsMutant(m) == FALSE

Accepts(m) == m.name = "publish"

ServerNegotiates ==
  /\ spc = "command" /\ up # <<>> /\ Head(up) # Eof /\ up' = Tail(up)
  /\ LET m == Head(up)
     IN  IF m.name = "connect" /\ app # "served"
         THEN ServerStops("failed", Msgs(<<"_error">>))
         ELSE /\ down' = Sent(down, Reply(m))
              /\ spc' = IF Accepts(m) THEN "pump" ELSE spc
  /\ UNCHANGED <<fins, media>> /\ ServerUnchanged

\* Mutant: the handler is told, and the loop goes on.
EndsMutant(m) == m.name = "closeStream"

\* handle_stream_command: does the command end the publish?
Ends(m) == m.name \in {"FCUnpublish", "closeStream"}

\* pump, per message.  An answer that cannot be sent ends it without a word to
\* the handler.
ServerPumps ==
  /\ spc = "pump" /\ up # <<>> /\ Head(up) # Eof /\ up' = Tail(up)
  /\ LET m == Head(up)
     IN  /\ fins' = IF m.name \in {"FCUnpublish", "closeStream"} THEN fins + 1 ELSE fins
         /\ media' = IF m.name = "media" THEN [media EXCEPT !.handled = @ + 1] ELSE media
         /\ \/ Ends(m) /\ ServerStops("ended", <<>>)
            \/ m.name = "ping" /\ down' = Sent(down, Msgs(<<"pong">>)) /\ UNCHANGED spc
            \/ /\ m.name = "ping" /\ (link = "cut" \/ cpc \in {"failed", "closed"})
               /\ ServerStops("failed", <<>>)
            \/ ~ Ends(m) /\ m.name # "ping" /\ UNCHANGED <<down, spc>>
  /\ ServerUnchanged

\* A closed connection is how a publish ends; before it began, it is an error.
ServerLoses ==
  /\ spc \notin {"ended", "failed"} /\ Lost(up)
  /\ ServerStops(IF spc = "pump" THEN "ended" ELSE "failed", <<>>)
  /\ fins' = IF spc = "pump" THEN fins + 1 ELSE fins
  /\ UNCHANGED <<up, media>> /\ ServerUnchanged

\* Mutant: the socket has no read timeout once it streams.
SilenceMutant == spc \in {"c0c1", "c2", "command"}

\* for_tcp: who reads gives up on silence.
Silence == spc \in {"c0c1", "c2", "command", "pump"}

\* The read timeout.  The handler is not told.
ServerTimesOut ==
  /\ Silence /\ up = <<>> /\ link = "void"
  /\ ServerStops("failed", <<>>)
  /\ UNCHANGED <<up, fins, media>> /\ ServerUnchanged

ServerStep ==
  ServerHandshake \/ ServerNegotiates \/ ServerPumps \/ ServerLoses \/ ServerTimesOut

-----------------------------------------------------------------------------
(***************************************************************************)
(* The connection, and time.                                               *)
(***************************************************************************)
\* What is on its way may be lost with the connection.
ConnectionFails ==
  /\ link = "up" /\ link' \in {"cut", "void"}
  /\ \E n \in 0..Len(up) : up' = SubSeq(up, 1, n)
  /\ \E n \in arrived..Len(down) : down' = SubSeq(down, 1, n)
  /\ UNCHANGED <<app, arrived, clientVars, serverVars, media>>

\* A quarter of the budget: time enough for a ping on a sound connection.
Tick ==
  /\ link = "up" /\ spc = "pump" => \A i \in DOMAIN up : up[i].name # "ping"
  /\ cpc = "live"
  /\ arrived' = Len(down)
  /\ dog' = [dog EXCEPT !.silent = IF @ = Budget THEN @ ELSE @ + 1,
                       !.wait = IF @ = 0 THEN 0 ELSE @ - 1]
  /\ UNCHANGED <<link, app, up, down, cpc, pending, reason, serverVars, media>>

Next ==
  \/ ClientConnects
  \/ WriteMedia
  \/ Maintain
  \/ Shutdown
  \/ ServerStep
  \/ ConnectionFails
  \/ Tick

Spec == Init /\ [][Next]_vars

\* Both threads read until they have an answer or a timeout; the pump of the
\* session maintains its transport; time passes.
FairSpec ==
  Spec /\ WF_vars(ClientConnects) /\ WF_vars(ServerStep) /\ WF_vars(Maintain) /\ WF_vars(Tick)

-----------------------------------------------------------------------------
(***************************************************************************)
(* Properties.                                                             *)
(***************************************************************************)
\* A client that believes it publishes has been accepted: the server pumps, or
\* did until the connection ended.
LivePublishing ==
  cpc \in {"rtt", "live"} => spc = "pump" \/ Gone \/ link = "void"

\* The handler is told exactly once that the publish has ended, and all that was
\* written over a connection that lasted has been handed to it before.
PublishEndsOnce ==
  /\ fins = (IF spc = "ended" THEN 1 ELSE 0)
  /\ media.handled <= media.written
  /\ spc = "ended" /\ cpc = "closed" /\ link = "up" => media.handled = media.written

\* On a sound connection to a server of this repository only a wrong
\* application fails, and the client is told so.  The watchdog gives up only on
\* a peer that is really gone, however late maintain is called: a server that
\* answers within a quarter is never dropped.
FailsForCause ==
  /\ cpc = "failed" /\ link = "up" => app = "other" /\ reason = "refused"
  /\ reason = "watchdog" => link = "void"

\* A peer that vanished without closing is given up.
VanishedDetected == link = "void" ~> cpc \in {"failed", "closed"}

\* Nobody waits for ever: connecting ends one way or the other, and a server is
\* not left behind by a client that is gone.
NobodyWaits ==
  /\ <>(cpc \notin Negotiating)
  /\ cpc \in {"failed", "closed"} ~> spc \in {"ended", "failed"}
=============================================================================
