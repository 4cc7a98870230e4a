---------------------------- MODULE ChunkStream -----------------------------
(***************************************************************************)
(* RTMP chunk streams, as framed by frame_message and other peers and      *)
(* reassembled by ChunkReader (src/core/src/rtmp/mod.rs).  A message rides *)
(* one chunk stream; it is cut into chunks, and the chunks of messages on  *)
(* different streams interleave.  Chunk sizes change under way, headers    *)
(* are compressed against the last one of the stream, and a message may be *)
(* aborted half way.                                                       *)
(*                                                                         *)
(* The wire is a queue of units: a basic header, a message header with the *)
(* extended timestamp where it has one, or one byte of payload, named by   *)
(* its message and position.  The reader reads unit by unit, and how much  *)
(* of what was written has arrived is open: a read may time out between    *)
(* any two units.  A unit counts as one byte.                              *)
(*                                                                         *)
(* The peer sends a full header after an abort and on a new stream, as     *)
(* frame_message always does.  Header format 3 may start a message only    *)
(* where it repeats type, length and time.  A peer that keeps to the       *)
(* protocol repeats an extended timestamp behind each basic header of      *)
(* format 3; frame_message does not, and ChunkReader takes the repeated    *)
(* field for payload.  The peer may do either here, `repeated` tells       *)
(* whether it ever did, and the properties promise nothing from then on.   *)
(***************************************************************************)
EXTENDS Integers, SequencesExt

CONSTANTS
  None,
  Cids,         \* chunk stream ids in use
  Shapes,       \* what is sent: kind, value, length
  Formats,      \* header formats a message may start with, of 0..3
  DefaultChunk, \* CHUNK_SIZE, before anyone changes it
  MaxChunk,     \* MAX_CHUNK_SIZE, not below the longest message
  TsMod,        \* timestamps are 32 bits wide: modulo TsMod
  TsLimit,      \* 0xFFFFFF: from here on a timestamp is extended
  Resumes,      \* does the caller read on after a timeout?  maintain does
  MaxMessages,  \* bound: messages sent
  MaxTimeouts   \* bound: reads that time out

Kinds == {"media", "set_chunk_size", "abort", "window_ack"}

ASSUME FormatsAssumption == 0 \in Formats /\ Formats \subseteq 0..3
ASSUME SizesAssumption ==
  /\ {DefaultChunk, MaxChunk, TsMod} \subseteq Nat \ {0}
  /\ {TsLimit, MaxMessages, MaxTimeouts} \subseteq Nat /\ Resumes \in BOOLEAN

Unit == [unit : {"basic"}, fmt : 0..3, cid : Cids]
          \cup [unit : {"head"}, ts : Int, extended : Int \cup {None},
              kind : Kinds \cup {None}, length : Nat \cup {None}]
          \cup [unit : {"extended"}]
          \cup [unit : {"byte"}, id : Nat, pos : Int]

\* ChunkState: what the last header of a stream said, and the payload so far.
State == [ts : Int, length : Nat, kind : Kinds \cup {None}, payload : Seq(Unit)]

\* How far a message is cut.
Progress == [id : Nat, done : Nat]

ASSUME NoneAssumption == None \notin Nat /\ None \notin State /\ None \notin Progress
\* The value is a chunk size, a window or a stream to abort.
ASSUME ShapesAssumption ==
  \A s \in Shapes : /\ s.kind \in Kinds /\ s.length \in 0..MaxChunk
                    /\ s.kind = "abort" => s.value \in Cids
                    /\ s.kind # "media" => s.length > 0
                    /\ s.kind \in {"set_chunk_size", "window_ack"} => s.value \in Nat

VARIABLES
  sent,      \* peer: all messages begun, with stream, shape and time
  writing,   \* peer: per stream, the message being cut and what is written of it
  lastSent,  \* peer: per stream, the message its next header refers to
  peerChunk, \* peer: the chunk size in force
  finished,  \* peer: the messages written whole, in the order they were
  extended,  \* peer: per stream, did its last header have an extended timestamp?
  repeated,  \* peer: was one repeated behind a basic header of format 3?
  wire,      \* units written and not read
  states,    \* ChunkReader.states
  chunk,     \* ChunkReader.read_chunk_size
  at,        \* where read_message is: "basic", "head", "data", or "failed"
  received,  \* ChunkReader.bytes_read
  window,    \* window_ack
  acked,     \* last_ack_at
  delivered, \* the messages returned by read_message
  timeouts   \* reads that timed out

peerVars == <<sent, writing, lastSent, peerChunk, finished, extended, repeated>>
readerVars == <<states, chunk, at, received, window, acked, delivered>>
vars == <<peerVars, wire, readerVars, timeouts>>

Smaller(a, b) == IF a <= b THEN a ELSE b

Init ==
  /\ sent = <<>> /\ finished = <<>> /\ peerChunk = DefaultChunk
  /\ writing = [c \in Cids |-> None] /\ lastSent = [c \in Cids |-> None]
  /\ extended = [c \in Cids |-> FALSE] /\ repeated = FALSE
  /\ wire = <<>>
  /\ states = [c \in Cids |-> None]
  /\ chunk = DefaultChunk
  /\ at = [pos |-> "basic", cid |-> None, fmt |-> None]
  /\ received = 0 /\ window = 0 /\ acked = 0
  /\ delivered = <<>> /\ timeouts = 0

-----------------------------------------------------------------------------
(***************************************************************************)
(* The writing side.                                                       *)
(***************************************************************************)
Basic(fmt, c) == [unit |-> "basic", fmt |-> fmt, cid |-> c]
Bytes(id, first, last) ==
  [k \in 1..(last - first + 1) |-> [unit |-> "byte", id |-> id, pos |-> first + k - 1]]

\* Formats 1 to 3 leave out what the stream's last header said: the stream id,
\* then length and type, then the time.
MayCompress(fmt, m) ==
  fmt = 0 \/
    /\ lastSent[m.cid] # None
    /\ LET l == sent[lastSent[m.cid]]
       IN  /\ fmt >= 2 => l.kind = m.kind /\ l.length = m.length
           /\ fmt = 3 => l.ts = m.ts

\* The time a header has: the message's own, or what passed since the last.
Field(fmt, m) == IF fmt = 0 THEN m.ts ELSE (m.ts - sent[lastSent[m.cid]].ts) % TsMod

Extends(fmt, m) == Field(fmt, m) >= TsLimit

Header(fmt, m) ==
  IF fmt = 3 THEN <<>>
  ELSE <<[unit |-> "head",
          ts |-> Smaller(Field(fmt, m), TsLimit),
          extended |-> IF Extends(fmt, m) THEN Field(fmt, m) ELSE None,
          kind |-> IF fmt = 2 THEN None ELSE m.kind,
          length |-> IF fmt = 2 THEN None ELSE m.length]>>

\* Behind a basic header of format 3 an extended timestamp may be repeated.
\* What a peer writes after that is not followed.
Repeats(again, c) ==
  /\ ~repeated /\ repeated' = again
  /\ again => extended[c]

Repetition(again) == IF again THEN <<[unit |-> "extended"]>> ELSE <<>>

\* A chunk of message m is written up to byte `done`.  A control message takes
\* effect for the peer once it is written whole.
Written(id, m, done) ==
  LET whole == done = m.length
      aborts == whole /\ m.kind = "abort"
  IN  /\ writing' = [c \in Cids |->
           IF c = m.cid THEN (IF whole THEN None ELSE [id |-> id, done |-> done])
           ELSE IF aborts /\ c = m.value THEN None ELSE writing[c]]
      /\ lastSent' = [c \in Cids |->
           IF aborts /\ c = m.value THEN None
           ELSE IF c = m.cid THEN id ELSE lastSent[c]]
      /\ finished' = IF whole /\ m.length > 0 THEN Append(finished, id) ELSE finished
      /\ peerChunk' = IF whole /\ m.kind = "set_chunk_size" THEN m.value ELSE peerChunk

\* A message begins: its header and its first chunk.
Begin(m, fmt, again) ==
  /\ Len(sent) < MaxMessages
  /\ writing[m.cid] = None /\ peerChunk > 0 /\ MayCompress(fmt, m)
  /\ m.kind = "abort" => m.value # m.cid
  /\ again => fmt = 3
  /\ Repeats(again, m.cid)
  /\ extended' = IF fmt = 3 THEN extended ELSE [extended EXCEPT ![m.cid] = Extends(fmt, m)]
  /\ LET id == Len(sent) + 1
         done == Smaller(m.length, peerChunk)
     IN  /\ sent' = Append(sent, m)
         /\ wire' = wire \o <<Basic(fmt, m.cid)>> \o Header(fmt, m) \o Repetition(again)
                          \o Bytes(id, 1, done)
         /\ Written(id, m, done)
  /\ UNCHANGED <<readerVars, timeouts>>

\* The next chunk of a message, under a bare basic header.
Continue(c, again) ==
  /\ writing[c] # None /\ peerChunk > 0
  /\ Repeats(again, c)
  /\ LET id == writing[c].id
         m == sent[id]
         done == Smaller(m.length, writing[c].done + peerChunk)
     IN  /\ wire' = wire \o <<Basic(3, c)>> \o Repetition(again) \o Bytes(id, writing[c].done + 1, done)
         /\ Written(id, m, done)
  /\ UNCHANGED <<sent, extended, readerVars, timeouts>>

-----------------------------------------------------------------------------
(***************************************************************************)
(* The reading side.                                                       *)
(***************************************************************************)
NewState == [ts |-> 0, length |-> 0, kind |-> None, payload |-> <<>>]
AtBasic == [pos |-> "basic", cid |-> None, fmt |-> None]

Consume(n) ==
  /\ wire' = SubSeq(wire, n + 1, Len(wire))
  /\ received' = received + n

\* An empty message, or a continuation of nothing, is skipped.
AfterHeader(c, st) ==
  /\ states' = [states EXCEPT ![c] = st]
  /\ at' = IF Len(st.payload) >= st.length THEN AtBasic
           ELSE [pos |-> "data", cid |-> c, fmt |-> None]

ReadBasic ==
  /\ at.pos = "basic" /\ wire # <<>> /\ Head(wire).unit = "basic"
  /\ LET c == Head(wire).cid
         fmt == Head(wire).fmt
         st == IF states[c] = None THEN NewState ELSE states[c]
     IN  IF fmt = 3 THEN AfterHeader(c, st)
         ELSE /\ states' = [states EXCEPT ![c] = st]
              /\ at' = [pos |-> "head", cid |-> c, fmt |-> fmt]
  /\ Consume(1)
  /\ UNCHANGED <<peerVars, chunk, window, acked, delivered, timeouts>>

\* The largest value of the short field says that the extended one follows.
FieldRead(h) == IF h.ts = TsLimit THEN h.extended ELSE h.ts

\* Mutant: a delta is taken for a time.
TimeMutant(h, st) == FieldRead(h)

\* Format 0 has the time, formats 1 and 2 what has passed since.
Time(h, st) == IF at.fmt = 0 THEN FieldRead(h) ELSE (st.ts + FieldRead(h)) % TsMod

ReadHead ==
  /\ at.pos = "head" /\ wire # <<>> /\ Head(wire).unit = "head"
  /\ LET h == Head(wire)
         st == states[at.cid]
     IN  AfterHeader(at.cid,
           [ts |-> Time(h, st),
            kind |-> IF at.fmt = 2 THEN st.kind ELSE h.kind,
            length |-> IF at.fmt = 2 THEN st.length ELSE h.length,
            payload |-> <<>>])
  /\ Consume(1)
  /\ UNCHANGED <<peerVars, chunk, window, acked, delivered, timeouts>>

\* Mutant: what is already there is forgotten.
NeedMutant(st) == Smaller(st.length, chunk)

\* How much of the message this chunk holds.
Need(st) == Smaller(st.length - Len(st.payload), chunk)

\* Mutant: the window is added to the last acknowledgement.
AckedMutant(now) ==
  IF window # 0 /\ now >= acked + window THEN acked + window ELSE acked

\* maybe_send_ack: a window has been received since the last acknowledgement.
Acked(now) ==
  IF window # 0 /\ now >= acked + window THEN now ELSE acked

\* set_chunk_size: no message is longer than MaxChunk.
Clamped(size) == Smaller(size, MaxChunk)

\* handle_control, after the acknowledgement.  A chunk size of 0 is refused.
Handle(kind, value, sts) ==
  /\ chunk' = IF kind = "set_chunk_size" /\ value > 0 THEN Clamped(value) ELSE chunk
  /\ at' = IF kind = "set_chunk_size" /\ value = 0 THEN [AtBasic EXCEPT !.pos = "failed"]
           ELSE AtBasic
  /\ states' = IF kind = "abort" THEN [sts EXCEPT ![value] = None] ELSE sts
  /\ window' = IF kind = "window_ack" THEN value ELSE window

\* The payload of one chunk.  A message that is complete is returned, and the
\* caller acknowledges and handles it.
ReadData ==
  /\ at.pos = "data"
  /\ LET st == states[at.cid]
         need == Need(st)
         all == st.payload \o SubSeq(wire, 1, need)
     IN  /\ need <= Len(wire) /\ \A k \in 1..need : wire[k].unit = "byte"
         /\ Consume(need)
         /\ IF Len(all) = st.length
            THEN /\ delivered' = Append(delivered, [kind |-> st.kind, ts |-> st.ts,
                                                    payload |-> all])
                 /\ acked' = Acked(received + need)
                 /\ Handle(st.kind, sent[all[1].id].value,
                           [states EXCEPT ![at.cid].payload = <<>>])
            ELSE /\ states' = [states EXCEPT ![at.cid].payload = all]
                 /\ at' = AtBasic
                 /\ UNCHANGED <<chunk, window, acked, delivered>>
  /\ UNCHANGED <<peerVars, timeouts>>

Zeros(n) == [k \in 1..n |-> [unit |-> "byte", id |-> 0, pos |-> 0]]

\* The rest is late.  The payload is extended before it is read, and what has
\* come of it is gone from the wire but not counted.  The server, and the client
\* while it connects, give the connection up; maintain and measure_rtt do not:
\* read_message is called again later and starts with a basic header, wherever
\* it had come to.
TimeOut ==
  /\ at.pos # "failed" /\ timeouts < MaxTimeouts
  /\ timeouts' = timeouts + 1
  /\ at' = IF Resumes THEN AtBasic ELSE [AtBasic EXCEPT !.pos = "failed"]
  /\ IF at.pos = "data"
     THEN LET need == Need(states[at.cid])
          IN  \E n \in 0..(need - 1) :
                /\ n <= Len(wire)
                /\ wire' = SubSeq(wire, n + 1, Len(wire))
                /\ states' = [states EXCEPT ![at.cid].payload =
                                @ \o SubSeq(wire, 1, n) \o Zeros(need - n)]
     ELSE UNCHANGED <<wire, states>>
  /\ UNCHANGED <<peerVars, chunk, received, window, acked, delivered>>

Messages ==
  {[cid |-> c, kind |-> s.kind, value |-> s.value, length |-> s.length, ts |-> t] :
     c \in Cids, s \in Shapes, t \in 0..(TsMod - 1)}

Next ==
  \/ \E m \in Messages, fmt \in Formats, again \in BOOLEAN : Begin(m, fmt, again)
  \/ \E c \in Cids, again \in BOOLEAN : Continue(c, again)
  \/ ReadBasic
  \/ ReadHead
  \/ ReadData
  \/ TimeOut

Spec == Init /\ [][Next]_vars

-----------------------------------------------------------------------------
(***************************************************************************)
(* Properties.                                                             *)
(***************************************************************************)
\* As long as the peer repeats no extended timestamp, the reader is never out of
\* step with the writer: what it is about to read is what was written there,
\* through chunk sizes that change in the middle of messages on other streams.
InStep ==
  ~repeated =>
    /\ at.pos = "basic" /\ wire # <<>> => Head(wire).unit = "basic"
    /\ at.pos = "head" => wire # <<>> /\ Head(wire).unit = "head"
    /\ at.pos = "data" => LET need == Need(states[at.cid])
                         IN  need <= Len(wire) /\ \A k \in 1..need : wire[k].unit = "byte"

Whole(id) == [kind |-> sent[id].kind, ts |-> sent[id].ts,
              payload |-> Bytes(id, 1, sent[id].length)]

\* As long as the peer repeats no extended timestamp, read_message returns whole
\* messages, each with its own bytes, type and time, in the order in which they
\* were completed; and none is missing once the reader has caught up, whatever
\* was aborted or interleaved.
DeliveredWhole ==
  ~repeated =>
    /\ Len(delivered) <= Len(finished)
    /\ \A i \in DOMAIN delivered : delivered[i] = Whole(finished[i])
    /\ at.pos = "basic" /\ wire = <<>> => Len(delivered) = Len(finished)

\* The peer's window is acknowledged up to the message at hand whenever one is
\* returned, so that no full window is outstanding between messages.
AckCurrent ==
  [][~repeated /\ delivered' # delivered => window = 0 \/ received' - acked' < window]_vars
=============================================================================
