---------------------------- MODULE ChunkProofs -----------------------------
(***************************************************************************)
(* Proofs about module ChunkStream, for every set of streams and messages, *)
(* every chunk size and every bound, where a reader that times out does    *)
(* not read on, and as long as the peer repeats no extended timestamp.     *)
(* The units on the wire do not tell by themselves what the reader will    *)
(* take them for, so the invariant foretells it: there is a course of the  *)
(* reader, from where it stands now through everything that is written, at *)
(* whose end it knows what the writer takes it to know.                    *)
(* The reader moves along its course; the writer makes it longer.          *)
(***************************************************************************)
EXTENDS ChunkStream, SequenceTheorems, TLAPS

-----------------------------------------------------------------------------
(***************************************************************************)
(* The course of a reader.                                                 *)
(***************************************************************************)

\* read_message returns a message.
Message == [kind : Kinds \cup {None}, ts : Int, payload : Seq(Unit)]

Place == [pos : {"basic", "head", "data", "failed"}, cid : Cids \cup {None},
          fmt : 0..3 \cup {None}]

\* What the reader is at some time, and how many units it has read by then.
Reader == [pos : Nat, at : Place, states : [Cids -> State \cup {None}], chunk : Nat,
           window : Nat, delivered : Seq(Message)]

\* In the middle of a chunk the stream is known.
Placed(c) ==
  /\ c.at.pos \in {"head", "data"} => c.at.cid \in Cids /\ c.states[c.at.cid] # None
  /\ c.at.pos = "head" => c.at.fmt \in 0..2
  /\ c.at.pos = "data" =>
       Len(c.states[c.at.cid].payload) < c.states[c.at.cid].length

\* Where the reader goes on after a header.
Onward(cid, st) ==
  IF Len(st.payload) >= st.length THEN AtBasic
  ELSE [pos |-> "data", cid |-> cid, fmt |-> None]

\* The steps of the reader, from c to d, along what is written: log[n] is the
\* n-th unit ever written, s the messages sent.
ReadsBasic(log, c, d) ==
  LET u == log[c.pos + 1]
      st == IF c.states[u.cid] = None THEN NewState ELSE c.states[u.cid]
  IN  /\ c.at.pos = "basic" /\ u.unit = "basic" /\ u.cid \in Cids
      /\ d.pos = c.pos + 1
      /\ d.states = [c.states EXCEPT ![u.cid] = st]
      /\ d.at = IF u.fmt = 3 THEN Onward(u.cid, st)
                ELSE [pos |-> "head", cid |-> u.cid, fmt |-> u.fmt]
      /\ d.chunk = c.chunk /\ d.window = c.window /\ d.delivered = c.delivered

\* The state of a stream after a header of format fmt.
HeaderOf(fmt, h, st) ==
  [ts |-> IF fmt = 0 THEN FieldRead(h) ELSE (st.ts + FieldRead(h)) % TsMod,
   kind |-> IF fmt = 2 THEN st.kind ELSE h.kind,
   length |-> IF fmt = 2 THEN st.length ELSE h.length,
   payload |-> <<>>]

ReadsHead(log, c, d) ==
  LET h == log[c.pos + 1]
      st == HeaderOf(c.at.fmt, h, c.states[c.at.cid])
  IN  /\ c.at.pos = "head" /\ h.unit = "head"
      /\ d.pos = c.pos + 1
      /\ d.states = [c.states EXCEPT ![c.at.cid] = st]
      /\ d.at = Onward(c.at.cid, st)
      /\ d.chunk = c.chunk /\ d.window = c.window /\ d.delivered = c.delivered

\* How much the reader takes of a chunk, and the payload it has then.
Taken(c) == Smaller(c.states[c.at.cid].length - Len(c.states[c.at.cid].payload), c.chunk)
Extended(log, c) ==
  c.states[c.at.cid].payload \o [k \in 1..Taken(c) |-> log[c.pos + k]]

ReadsPart(log, c, d) ==
  /\ Len(Extended(log, c)) # c.states[c.at.cid].length
  /\ d.states = [c.states EXCEPT ![c.at.cid].payload = Extended(log, c)]
  /\ d.at = AtBasic
  /\ d.chunk = c.chunk /\ d.window = c.window /\ d.delivered = c.delivered

ReadsLast(s, log, c, d) ==
  LET st == c.states[c.at.cid]
      all == Extended(log, c)
      sts == [c.states EXCEPT ![c.at.cid].payload = <<>>]
  IN  /\ Len(all) = st.length
      /\ d.delivered = Append(c.delivered, [kind |-> st.kind, ts |-> st.ts, payload |-> all])
      /\ \E id \in DOMAIN s :
           /\ all[1].id = id
           /\ d.chunk = IF st.kind = "set_chunk_size" /\ s[id].value > 0
                        THEN Clamped(s[id].value) ELSE c.chunk
           /\ d.at = IF st.kind = "set_chunk_size" /\ s[id].value = 0
                     THEN [AtBasic EXCEPT !.pos = "failed"] ELSE AtBasic
           /\ d.states = IF st.kind = "abort" THEN [sts EXCEPT ![s[id].value] = None] ELSE sts
           /\ d.window = IF st.kind = "window_ack" THEN s[id].value ELSE c.window

ReadsData(s, log, c, d) ==
  /\ c.at.pos = "data"
  /\ d.pos = c.pos + Taken(c)
  /\ \A k \in 1..Taken(c) : log[c.pos + k].unit = "byte"
  /\ ReadsPart(log, c, d) \/ ReadsLast(s, log, c, d)

Reads(s, log, c, d) ==
  ReadsBasic(log, c, d) \/ ReadsHead(log, c, d) \/ ReadsData(s, log, c, d)

\* The message with a number, as read_message should return it.
WholeOf(s, id) ==
  [kind |-> s[id].kind, ts |-> s[id].ts, payload |-> Bytes(id, 1, s[id].length)]

\* What has been returned is the messages f, so far.
Fine(s, f, returned) ==
  /\ Len(returned) <= Len(f)
  /\ \A i \in 1..Len(returned) : returned[i] = WholeOf(s, f[i])

\* The reader's course, run[lo] to run[hi].
Course(s, f, log, run, lo, hi) ==
  /\ lo \in Nat /\ hi \in Nat /\ lo <= hi
  /\ \A k \in lo..hi : /\ run[k] \in Reader /\ Placed(run[k])
                       /\ run[k].pos <= run[hi].pos
                       /\ Fine(s, f, run[k].delivered)
  /\ \A k \in lo..(hi - 1) : Reads(s, log, run[k], run[k + 1])

-----------------------------------------------------------------------------
(***************************************************************************)
(* The invariant.                                                          *)
(***************************************************************************)

\* A message of the peer.
IsMessage(m) ==
  /\ m.cid \in Cids /\ m.kind \in Kinds /\ m.length \in 0..MaxChunk /\ m.ts \in 0..(TsMod - 1)
  /\ m.kind = "abort" => m.value \in Cids
  /\ m.kind # "media" => m.length > 0
  /\ m.kind \in {"set_chunk_size", "window_ack"} => m.value \in Nat

\* The writer: what it cuts is the last message of its stream.
WriterInv ==
  /\ sent \in Seq(Messages) /\ finished \in Seq(Nat)
  /\ writing \in [Cids -> Progress \cup {None}] /\ lastSent \in [Cids -> Nat \cup {None}]
  /\ peerChunk \in Nat
  /\ \A i \in 1..Len(finished) : finished[i] \in 1..Len(sent)
  /\ \A i \in 1..Len(sent) : sent[i].kind = "abort" => sent[i].value # sent[i].cid
  /\ \A c \in Cids : lastSent[c] # None => lastSent[c] \in 1..Len(sent)
  /\ \A c \in Cids : writing[c] # None =>
       /\ writing[c].id = lastSent[c] /\ sent[lastSent[c]].cid = c
       /\ writing[c].done < sent[lastSent[c]].length
  /\ wire \in Seq(Unit)

\* What is written of the last message of a stream, unless all of it is.
PartOf(w, l, c) == IF w[c] = None THEN <<>> ELSE Bytes(l[c], 1, w[c].done)

\* What a reader should know of the last message of a stream.
StateOf(s, w, l, c) ==
  [ts |-> s[l[c]].ts, length |-> s[l[c]].length, kind |-> s[l[c]].kind,
   payload |-> PartOf(w, l, c)]

\* Reader and writer cut chunks alike: no message is longer than MaxChunk.
SameSize(a, b) == \A n \in 0..MaxChunk : Smaller(n, a) = Smaller(n, b)

\* A reader that has read everything knows what the writer takes it to know,
\* and has returned every message that is written whole.
CaughtUp(s, f, w, l, size, d) ==
  /\ Len(d.delivered) = Len(f)
  /\ size = 0 => d.at.pos = "failed"
  /\ size > 0 => d.at = AtBasic /\ SameSize(d.chunk, size)
  /\ \A c \in Cids : l[c] # None => d.states[c] = StateOf(s, w, l, c)

\* The reader is where its course starts, and reads what is written next.
Here(log, c) ==
  /\ c.at = at /\ c.states = states /\ c.chunk = chunk /\ c.window = window
  /\ c.delivered = delivered
  /\ \A i \in 1..Len(wire) : wire[i] = log[c.pos + i]

OnCourse ==
  \E log, run, lo, hi :
    /\ Course(sent, finished, log, run, lo, hi)
    /\ Here(log, run[lo])
    /\ run[hi].pos = run[lo].pos + Len(wire)
    /\ CaughtUp(sent, finished, writing, lastSent, peerChunk, run[hi])

\* A reader that failed stays where it is.
ReaderInv ==
  /\ at.pos \in {"basic", "head", "data", "failed"}
  /\ delivered \in Seq(Message) /\ Fine(sent, finished, delivered)
  /\ received \in Nat /\ acked \in Nat /\ window \in Nat
  /\ at.pos # "failed" => OnCourse

CourseInv == WriterInv /\ ReaderInv

\* A peer that repeats an extended timestamp leads the reader off its course.
ChunkInv == ~repeated => CourseInv

-----------------------------------------------------------------------------
(***************************************************************************)
(* Operators.                                                              *)
(***************************************************************************)

\* What the messages of the model are.
LEMMA MessagesAre ==
  ASSUME NEW m \in Messages
  PROVE  IsMessage(m)
<1>1. PICK c \in Cids, s \in Shapes, t \in 0..(TsMod - 1) :
        m = [cid |-> c, kind |-> s.kind, value |-> s.value, length |-> s.length, ts |-> t]
  BY DEF Messages
<1> QED BY <1>1, ShapesAssumption DEF IsMessage

\* The bytes of a message, from one position to another.
LEMMA BytesAre ==
  ASSUME NEW id \in Nat, NEW first \in Int, NEW last \in Int, first <= last + 1
  PROVE  /\ Bytes(id, first, last) \in Seq(Unit)
         /\ Len(Bytes(id, first, last)) = last - first + 1
         /\ \A k \in 1..(last - first + 1) :
              Bytes(id, first, last)[k] = [unit |-> "byte", id |-> id, pos |-> first + k - 1]
<1> DEFINE n == last - first + 1
           e(k) == [unit |-> "byte", id |-> id, pos |-> first + k - 1]
<1>1. n \in Nat
  OBVIOUS
<1>2. \A k \in 1..n : e(k) \in Unit
  BY DEF Unit
<1>3. [k \in 1..n |-> e(k)] \in [1..n -> Unit]
  BY <1>2
<1> HIDE DEF e, n
<1>4. [k \in 1..n |-> e(k)] \in Seq(Unit)
  BY <1>1, <1>3, SeqDef
<1>5. Len([k \in 1..n |-> e(k)]) = n
  BY <1>1, <1>4, LenProperties
<1>6. Bytes(id, first, last) = [k \in 1..n |-> e(k)]
  BY DEF Bytes, e, n
<1> QED BY <1>4, <1>5, <1>6 DEF e, n

\* The bytes of a message after position a, up to b.
LEMMA BytesAfter ==
  ASSUME NEW id \in Nat, NEW a \in Nat, NEW b \in Nat, a <= b
  PROVE  /\ Bytes(id, a + 1, b) \in Seq(Unit)
         /\ Len(Bytes(id, a + 1, b)) = b - a
         /\ \A k \in 1..(b - a) :
              Bytes(id, a + 1, b)[k] = [unit |-> "byte", id |-> id, pos |-> a + k]
<1>1. a + 1 \in Int /\ b \in Int /\ a + 1 <= b + 1 /\ b - (a + 1) + 1 = b - a
  OBVIOUS
<1>2. \A k \in 1..(b - a) : (a + 1) + k - 1 = a + k
  OBVIOUS
<1> DEFINE first == a + 1
<1> HIDE DEF first
<1>3. /\ Bytes(id, first, b) \in Seq(Unit) /\ Len(Bytes(id, first, b)) = b - first + 1
      /\ \A k \in 1..(b - first + 1) :
           Bytes(id, first, b)[k] = [unit |-> "byte", id |-> id, pos |-> first + k - 1]
  BY <1>1, BytesAre DEF first
<1> QED BY <1>1, <1>2, <1>3 DEF first

\* The first bytes of a message.
LEMMA BytesUpTo ==
  ASSUME NEW id \in Nat, NEW b \in Nat
  PROVE  /\ Bytes(id, 1, b) \in Seq(Unit) /\ Len(Bytes(id, 1, b)) = b
         /\ \A k \in 1..b : Bytes(id, 1, b)[k] = [unit |-> "byte", id |-> id, pos |-> k]
<1>1. b - 1 + 1 = b /\ 1 <= b + 1 /\ 1 \in Int /\ b \in Int
  OBVIOUS
<1>2. \A k \in 1..b : 1 + k - 1 = k
  OBVIOUS
<1> DEFINE first == 1
<1> HIDE DEF first
<1>3. /\ Bytes(id, first, b) \in Seq(Unit) /\ Len(Bytes(id, first, b)) = b - first + 1
      /\ \A k \in 1..(b - first + 1) :
           Bytes(id, first, b)[k] = [unit |-> "byte", id |-> id, pos |-> first + k - 1]
  BY <1>1, BytesAre DEF first
<1> QED BY <1>1, <1>2, <1>3 DEF first

\* Two stretches of a message that meet are one.
LEMMA BytesJoin ==
  ASSUME NEW id \in Nat, NEW a \in Nat, NEW b \in Nat, a <= b
  PROVE  Bytes(id, 1, a) \o Bytes(id, a + 1, b) = Bytes(id, 1, b)
<1> DEFINE p == Bytes(id, 1, a)
           q == Bytes(id, a + 1, b)
           r == Bytes(id, 1, b)
<1>1. p \in Seq(Unit) /\ Len(p) = a
        /\ \A k \in 1..a : p[k] = [unit |-> "byte", id |-> id, pos |-> k]
  BY BytesUpTo
<1>2. q \in Seq(Unit) /\ Len(q) = b - a
        /\ \A k \in 1..(b - a) : q[k] = [unit |-> "byte", id |-> id, pos |-> a + k]
  BY BytesAfter
<1>3. r \in Seq(Unit) /\ Len(r) = b
        /\ \A k \in 1..b : r[k] = [unit |-> "byte", id |-> id, pos |-> k]
  BY BytesUpTo
<1> HIDE DEF p, q, r
<1>4. /\ p \o q \in Seq(Unit) /\ Len(p \o q) = a + (b - a)
      /\ \A i \in 1..(a + (b - a)) : (p \o q)[i] = IF i <= a THEN p[i] ELSE q[i - a]
  BY <1>1, <1>2, ConcatProperties
<1>5. \A i \in 1..b : (p \o q)[i] = r[i]
  <2> SUFFICES ASSUME NEW i \in 1..b PROVE (p \o q)[i] = r[i]
    OBVIOUS
  <2>1. CASE i <= a
    BY <1>1, <1>3, <1>4, <2>1
  <2>2. CASE ~(i <= a)
    <3>1. i - a \in 1..(b - a) /\ a + (i - a) = i
      BY <2>2
    <3>2. (p \o q)[i] = q[i - a]
      BY <1>4, <2>2
    <3>3. q[i - a] = [unit |-> "byte", id |-> id, pos |-> a + (i - a)]
      BY <1>2, <3>1
    <3> QED BY <1>3, <3>1, <3>2, <3>3
  <2> QED BY <2>1, <2>2
<1>6. Len(p \o q) = Len(r)
  BY <1>3, <1>4
<1>7. p \o q = r
  BY <1>3, <1>4, <1>5, <1>6, SeqEqual
<1> QED BY <1>7 DEF p, q, r

\* No bytes.
LEMMA NoBytes ==
  ASSUME NEW id \in Nat, NEW n \in Nat
  PROVE  Bytes(id, n + 1, n) = <<>>
<1>1. Bytes(id, n + 1, n) \in Seq(Unit) /\ Len(Bytes(id, n + 1, n)) = 0
  BY BytesAfter
<1> QED BY <1>1, EmptySeq

\* The time a header leaves out is recovered: differences are taken, and
\* added, modulo the same number.
LEMMA TimeRecovered ==
  ASSUME NEW a \in 0..(TsMod - 1), NEW b \in 0..(TsMod - 1)
  PROVE  (a + ((b - a) % TsMod)) % TsMod = b
<1>1. TsMod \in Nat /\ TsMod > 0
  BY SizesAssumption
<1>2. CASE b >= a
  <2>1. (b - a) % TsMod = b - a
    BY <1>1, <1>2
  <2> QED BY <1>1, <2>1
<1>3. CASE b < a
  <2>1. (b - a) % TsMod = b - a + TsMod
    BY <1>1, <1>3
  <2>2. (b + TsMod) % TsMod = b
    BY <1>1
  <2> QED BY <1>1, <2>1, <2>2
<1> QED BY <1>2, <1>3

-----------------------------------------------------------------------------
(***************************************************************************)
(* The reader moves along its course.                                      *)
(***************************************************************************)

\* What is left of the wire after n units.
LEMMA ConsumeLeaves ==
  ASSUME wire \in Seq(Unit), NEW n \in 0..Len(wire), Consume(n)
  PROVE  /\ wire' \in Seq(Unit) /\ Len(wire') = Len(wire) - n
         /\ \A i \in 1..(Len(wire) - n) : wire'[i] = wire[n + i]
         /\ received' = received + n
<1>1. Len(wire) \in Nat /\ \A i \in 1..Len(wire) : wire[i] \in Unit
  BY LenProperties, ElementOfSeq
<1> DEFINE first == n + 1
           last == Len(wire)
<1>2. first \in Int /\ last \in Int /\ (\A i \in first..last : wire[i] \in Unit)
  BY <1>1
<1>3. /\ last - first + 1 = last - n /\ (first <= last <=> n < last)
      /\ \A i \in 1..(last - n) : first + i - 1 = n + i
  BY <1>1
<1>4. wire' = SubSeq(wire, first, last)
  BY DEF Consume
<1> HIDE DEF first, last
<1>5. /\ wire' \in Seq(Unit)
      /\ Len(wire') = IF first <= last THEN last - first + 1 ELSE 0
      /\ \A i \in 1..(last - first + 1) : wire'[i] = wire[first + i - 1]
  BY <1>2, <1>4, SubSeqProperties
<1>6. Len(wire') = last - n
  BY <1>1, <1>3, <1>5 DEF last
<1> QED BY <1>3, <1>5, <1>6 DEF last, Consume

\* While there is something to read, or a chunk is being read, the course goes
\* on.
LEMMA CourseGoesOn ==
  ASSUME NEW log, NEW run, NEW lo, NEW hi, WriterInv,
         Course(sent, finished, log, run, lo, hi), Here(log, run[lo]),
         run[hi].pos = run[lo].pos + Len(wire),
         CaughtUp(sent, finished, writing, lastSent, peerChunk, run[hi]),
         at.pos # "failed", wire # <<>> \/ at.pos # "basic"
  PROVE  /\ lo \in Nat /\ hi \in Nat /\ lo < hi
         /\ run[lo] \in Reader /\ Placed(run[lo])
         /\ run[lo + 1] \in Reader /\ Placed(run[lo + 1])
         /\ Fine(sent, finished, run[lo + 1].delivered)
         /\ Reads(sent, log, run[lo], run[lo + 1])
         /\ run[lo + 1].pos <= run[lo].pos + Len(wire)
<1>1. lo \in Nat /\ hi \in Nat /\ lo <= hi /\ Len(wire) \in Nat /\ peerChunk \in Nat
  BY LenProperties DEF Course, WriterInv
<1>2. run[lo] \in Reader /\ run[lo].at = at
  BY <1>1 DEF Course, Here
<1>3. lo # hi
  <2> SUFFICES ASSUME lo = hi PROVE FALSE
    OBVIOUS
  <2>1. run[lo].pos \in Nat
    BY <1>2 DEF Reader
  <2>2. Len(wire) = 0
    BY <1>1, <2>1
  <2>3. wire = <<>>
    BY <2>2, EmptySeq DEF WriterInv
  <2>4. at.pos = "basic"
    BY <1>1, <1>2 DEF CaughtUp, AtBasic
  <2> QED BY <2>3, <2>4
<1>4. lo < hi /\ lo + 1 \in lo..hi /\ lo \in lo..(hi - 1) /\ lo \in lo..hi
  BY <1>1, <1>3
<1> QED BY <1>1, <1>4 DEF Course

\* Having made the first step of its course the reader is on the rest of it.
LEMMA StillOnCourse ==
  ASSUME NEW log, NEW run, NEW lo, NEW hi, WriterInv, lo < hi,
         Course(sent, finished, log, run, lo, hi),
         run[hi].pos = run[lo].pos + Len(wire),
         CaughtUp(sent, finished, writing, lastSent, peerChunk, run[hi]),
         UNCHANGED peerVars,
         Here(log, run[lo + 1])', run[hi].pos = run[lo + 1].pos + Len(wire')
  PROVE  OnCourse'
<1>1. Course(sent, finished, log, run, lo + 1, hi)
  <2>1. lo \in Nat /\ hi \in Nat /\ lo + 1 <= hi /\ lo + 1 \in Nat
    BY DEF Course
  <2>2. \A k : (k \in (lo + 1)..hi => k \in lo..hi)
               /\ (k \in (lo + 1)..(hi - 1) => k \in lo..(hi - 1))
    BY <2>1
  <2> QED BY <2>1, <2>2 DEF Course
<1>2. /\ sent' = sent /\ finished' = finished /\ writing' = writing
      /\ lastSent' = lastSent /\ peerChunk' = peerChunk
  BY DEF peerVars
<1> DEFINE next == lo + 1
<1>3. /\ Course(sent', finished', log, run, next, hi) /\ Here(log, run[next])'
      /\ run[hi].pos = run[next].pos + Len(wire')
      /\ CaughtUp(sent', finished', writing', lastSent', peerChunk', run[hi])
  BY <1>1, <1>2
<1> HIDE DEF next
<1> QED BY <1>3 DEF OnCourse

\* Where the reader stands, it reads what its course says.
LEMMA FirstUnit ==
  ASSUME NEW log, NEW c, wire \in Seq(Unit), wire # <<>>, Here(log, c)
  PROVE  Len(wire) >= 1 /\ Head(wire) = log[c.pos + 1]
<1>1. Len(wire) \in Nat \ {0}
  BY EmptySeq
<1>2. Head(wire) = wire[1]
  OBVIOUS
<1> QED BY <1>1, <1>2 DEF Here

\* The reader is again on its course after a step that leads to d, having taken
\* n units.
LEMMA ReaderStep ==
  ASSUME NEW log, NEW run, NEW lo, NEW hi, CourseInv,
         Course(sent, finished, log, run, lo, hi), Here(log, run[lo]),
         run[hi].pos = run[lo].pos + Len(wire),
         CaughtUp(sent, finished, writing, lastSent, peerChunk, run[hi]),
         lo < hi, run[lo] \in Reader, run[lo + 1] \in Reader,
         Fine(sent, finished, run[lo + 1].delivered),
         NEW n \in 0..Len(wire), run[lo + 1].pos = run[lo].pos + n,
         Consume(n), UNCHANGED peerVars, acked' \in Nat,
         at' = run[lo + 1].at, states' = run[lo + 1].states, chunk' = run[lo + 1].chunk,
         window' = run[lo + 1].window, delivered' = run[lo + 1].delivered
  PROVE  CourseInv'
<1> DEFINE c == run[lo]
           d == run[lo + 1]
<1>1. /\ wire' \in Seq(Unit) /\ Len(wire') = Len(wire) - n
      /\ \A i \in 1..(Len(wire) - n) : wire'[i] = wire[n + i]
      /\ received' = received + n
  BY ConsumeLeaves DEF CourseInv, WriterInv
<1>2. WriterInv'
  BY <1>1 DEF CourseInv, WriterInv, peerVars
<1>3. c.pos \in Nat /\ d.pos \in Nat /\ Len(wire) \in Nat /\ d.pos = c.pos + n
  BY LenProperties DEF Reader, CourseInv, WriterInv
<1>4. run[hi].pos = d.pos + Len(wire')
  BY <1>1, <1>3
<1>5. \A i \in 1..Len(wire') : wire'[i] = log[d.pos + i]
  <2> SUFFICES ASSUME NEW i \in 1..Len(wire') PROVE wire'[i] = log[d.pos + i]
    OBVIOUS
  <2>1. n + i \in 1..Len(wire) /\ c.pos + (n + i) = d.pos + i /\ i \in 1..(Len(wire) - n)
    BY <1>1, <1>3
  <2> HIDE DEF c, d
  <2>2. wire[n + i] = log[c.pos + (n + i)]
    BY <2>1 DEF Here, c
  <2> QED BY <1>1, <2>1, <2>2
<1>6. Here(log, d)'
  BY <1>5 DEF Here
<1>7. OnCourse'
  BY <1>4, <1>6, StillOnCourse DEF CourseInv
<1>8. /\ at'.pos \in {"basic", "head", "data", "failed"} /\ delivered' \in Seq(Message)
      /\ window' \in Nat
  BY DEF Reader, Place
<1>9. Fine(sent, finished, delivered)'
  BY DEF Fine, WholeOf, peerVars
<1>10. received' \in Nat
  BY <1>1 DEF CourseInv, ReaderInv
<1> QED BY <1>2, <1>7, <1>8, <1>9, <1>10 DEF CourseInv, ReaderInv

\* A basic header is read as one.
LEMMA ReadBasicStep ==
  ASSUME CourseInv, ReadBasic
  PROVE  CourseInv'
<1>1. at.pos = "basic" /\ wire # <<>> /\ wire \in Seq(Unit) /\ at.pos # "failed"
  BY DEF ReadBasic, CourseInv, WriterInv
<1>2. PICK log, run, lo, hi :
        /\ Course(sent, finished, log, run, lo, hi)
        /\ Here(log, run[lo])
        /\ run[hi].pos = run[lo].pos + Len(wire)
        /\ CaughtUp(sent, finished, writing, lastSent, peerChunk, run[hi])
  BY <1>1 DEF CourseInv, ReaderInv, OnCourse
<1> DEFINE c == run[lo]
           d == run[lo + 1]
<1>3. /\ lo < hi /\ c \in Reader /\ d \in Reader
      /\ Fine(sent, finished, d.delivered) /\ Reads(sent, log, c, d)
  BY <1>1, <1>2, CourseGoesOn DEF CourseInv
<1>4. Len(wire) >= 1 /\ Head(wire) = log[c.pos + 1] /\ Len(wire) \in Nat
  BY <1>1, <1>2, FirstUnit, LenProperties
<1>5. /\ c.at = at /\ c.states = states /\ c.chunk = chunk /\ c.window = window
      /\ c.delivered = delivered
  BY <1>2 DEF Here
<1> HIDE DEF c, d
<1>6. ReadsBasic(log, c, d)
  BY <1>1, <1>3, <1>5 DEF Reads, ReadsHead, ReadsData
<1> DEFINE u == Head(wire)
           st == IF states[u.cid] = None THEN NewState ELSE states[u.cid]
<1>7. /\ d.pos = c.pos + 1 /\ d.states = [states EXCEPT ![u.cid] = st]
      /\ d.at = IF u.fmt = 3 THEN Onward(u.cid, st)
                ELSE [pos |-> "head", cid |-> u.cid, fmt |-> u.fmt]
      /\ d.chunk = chunk /\ d.window = window /\ d.delivered = delivered
  BY <1>4, <1>5, <1>6 DEF ReadsBasic
<1>8. /\ states' = [states EXCEPT ![u.cid] = st]
      /\ at' = IF u.fmt = 3 THEN Onward(u.cid, st)
               ELSE [pos |-> "head", cid |-> u.cid, fmt |-> u.fmt]
      /\ Consume(1) /\ UNCHANGED peerVars
      /\ chunk' = chunk /\ window' = window /\ acked' = acked /\ delivered' = delivered
  BY DEF ReadBasic, AfterHeader, Onward
<1>9. acked' \in Nat
  BY <1>8 DEF CourseInv, ReaderInv
<1> DEFINE n == 1
<1>10. n \in 0..Len(wire) /\ d.pos = c.pos + n /\ Consume(n)
  BY <1>4, <1>7, <1>8
<1> HIDE DEF n, u, st
<1>11. /\ at' = d.at /\ states' = d.states /\ chunk' = d.chunk
       /\ window' = d.window /\ delivered' = d.delivered
  BY <1>7, <1>8
<1>12. /\ lo < hi /\ run[lo] \in Reader /\ run[lo + 1] \in Reader
       /\ Fine(sent, finished, run[lo + 1].delivered)
       /\ n \in 0..Len(wire) /\ run[lo + 1].pos = run[lo].pos + n
       /\ Consume(n) /\ UNCHANGED peerVars /\ acked' \in Nat
       /\ at' = run[lo + 1].at /\ states' = run[lo + 1].states
       /\ chunk' = run[lo + 1].chunk /\ window' = run[lo + 1].window
       /\ delivered' = run[lo + 1].delivered
  BY <1>3, <1>8, <1>9, <1>10, <1>11 DEF c, d
<1> QED BY <1>2, <1>12, ReaderStep

\* A message header is read as one.
LEMMA ReadHeadStep ==
  ASSUME CourseInv, ReadHead
  PROVE  CourseInv'
<1>1. at.pos = "head" /\ wire # <<>> /\ wire \in Seq(Unit) /\ at.pos # "failed" /\ at.pos # "basic"
  BY DEF ReadHead, CourseInv, WriterInv
<1>2. PICK log, run, lo, hi :
        /\ Course(sent, finished, log, run, lo, hi)
        /\ Here(log, run[lo])
        /\ run[hi].pos = run[lo].pos + Len(wire)
        /\ CaughtUp(sent, finished, writing, lastSent, peerChunk, run[hi])
  BY <1>1 DEF CourseInv, ReaderInv, OnCourse
<1> DEFINE c == run[lo]
           d == run[lo + 1]
<1>3. /\ lo < hi /\ c \in Reader /\ d \in Reader
      /\ Fine(sent, finished, d.delivered) /\ Reads(sent, log, c, d)
  BY <1>1, <1>2, CourseGoesOn DEF CourseInv
<1>4. Len(wire) >= 1 /\ Head(wire) = log[c.pos + 1] /\ Len(wire) \in Nat
  BY <1>1, <1>2, FirstUnit, LenProperties
<1>5. /\ c.at = at /\ c.states = states /\ c.chunk = chunk /\ c.window = window
      /\ c.delivered = delivered
  BY <1>2 DEF Here
<1> HIDE DEF c, d
<1>6. ReadsHead(log, c, d)
  BY <1>1, <1>3, <1>5 DEF Reads, ReadsBasic, ReadsData
<1> DEFINE st == HeaderOf(at.fmt, Head(wire), states[at.cid])
<1>7. /\ d.pos = c.pos + 1 /\ d.states = [states EXCEPT ![at.cid] = st]
      /\ d.at = Onward(at.cid, st)
      /\ d.chunk = chunk /\ d.window = window /\ d.delivered = delivered
  BY <1>4, <1>5, <1>6 DEF ReadsHead
<1>8. /\ states' = [states EXCEPT ![at.cid] = st]
      /\ at' = Onward(at.cid, st)
      /\ Consume(1) /\ UNCHANGED peerVars
      /\ chunk' = chunk /\ window' = window /\ acked' = acked /\ delivered' = delivered
  BY DEF ReadHead, AfterHeader, Onward, HeaderOf, Time
<1>9. acked' \in Nat
  BY <1>8 DEF CourseInv, ReaderInv
<1> DEFINE n == 1
<1>10. n \in 0..Len(wire) /\ d.pos = c.pos + n /\ Consume(n)
  BY <1>4, <1>7, <1>8
<1> HIDE DEF n, st
<1>11. /\ at' = d.at /\ states' = d.states /\ chunk' = d.chunk
       /\ window' = d.window /\ delivered' = d.delivered
  BY <1>7, <1>8
<1>12. /\ lo < hi /\ run[lo] \in Reader /\ run[lo + 1] \in Reader
       /\ Fine(sent, finished, run[lo + 1].delivered)
       /\ n \in 0..Len(wire) /\ run[lo + 1].pos = run[lo].pos + n
       /\ Consume(n) /\ UNCHANGED peerVars /\ acked' \in Nat
       /\ at' = run[lo + 1].at /\ states' = run[lo + 1].states
       /\ chunk' = run[lo + 1].chunk /\ window' = run[lo + 1].window
       /\ delivered' = run[lo + 1].delivered
  BY <1>3, <1>8, <1>9, <1>10, <1>11 DEF c, d
<1> QED BY <1>2, <1>12, ReaderStep

\* What is taken of a chunk is a number.
LEMMA TakenIs ==
  ASSUME NEW c \in Reader, Placed(c), c.at.pos = "data"
  PROVE  Taken(c) \in Nat
<1>1. c.states[c.at.cid] \in State /\ c.chunk \in Nat
  BY DEF Placed, Reader
<1>2. c.states[c.at.cid].length \in Nat /\ Len(c.states[c.at.cid].payload) \in Nat
  BY <1>1, LenProperties DEF State
<1> DEFINE a == c.states[c.at.cid].length
           b == Len(c.states[c.at.cid].payload)
<1>3. Taken(c) = IF a - b <= c.chunk THEN a - b ELSE c.chunk
  BY DEF Taken, Smaller
<1>4. a \in Nat /\ b \in Nat /\ a > b
  BY <1>2 DEF Placed
<1> HIDE DEF a, b
<1> QED BY <1>1, <1>3, <1>4

\* A stretch of the wire is the same stretch of what was ever written.
LEMMA SameStretch ==
  ASSUME NEW log, NEW c, wire \in Seq(Unit), Here(log, c), NEW n \in 0..Len(wire)
  PROVE  SubSeq(wire, 1, n) = [k \in 1..n |-> log[c.pos + k]]
<1>1. Len(wire) \in Nat /\ \A k \in 1..Len(wire) : wire[k] \in Unit /\ wire[k] = log[c.pos + k]
  BY LenProperties, ElementOfSeq DEF Here
<1>2. \A k \in 1..n : k \in 1..Len(wire)
  BY <1>1
<1>3. 1..n = 1..(n - 1 + 1) /\ \A k \in 1..n : 1 + k - 1 = k
  OBVIOUS
<1> DEFINE e == [k \in 1..n |-> log[c.pos + k]]
           p == SubSeq(wire, 1, n)
           first == 1
<1>4. first \in Int /\ n \in Int /\ (\A i \in first..n : wire[i] \in Unit)
  BY <1>1, <1>2
<1>5. (first <= n => n - first + 1 = n) /\ (~(first <= n) => n = 0) /\ n - first + 1 = n
  OBVIOUS
<1>6. \A k \in 1..n : first + k - 1 = k
  OBVIOUS
<1> HIDE DEF first
<1>7. /\ SubSeq(wire, first, n) \in Seq(Unit)
      /\ Len(SubSeq(wire, first, n)) = IF first <= n THEN n - first + 1 ELSE 0
      /\ \A i \in 1..(n - first + 1) : SubSeq(wire, first, n)[i] = wire[first + i - 1]
  BY <1>4, SubSeqProperties
<1>8. /\ p \in Seq(Unit) /\ Len(p) = n /\ \A i \in 1..n : p[i] = wire[i]
  BY <1>5, <1>6, <1>7 DEF first
<1>9. e \in [1..n -> Unit] /\ \A k \in 1..n : e[k] = wire[k]
  BY <1>1, <1>2
<1> HIDE DEF e, p
<1>10. e \in Seq(Unit)
  BY <1>9, SeqDef
<1>11. Len(e) = n
  BY <1>9, <1>10, LenProperties
<1>12. p = e
  BY <1>8, <1>9, <1>10, <1>11, SeqEqual
<1> QED BY <1>12 DEF p, e

\* The payload of a chunk is read as that.
LEMMA ReadDataStep ==
  ASSUME CourseInv, ReadData
  PROVE  CourseInv'
<1>1. at.pos = "data" /\ wire \in Seq(Unit) /\ at.pos # "failed" /\ at.pos # "basic"
  BY DEF ReadData, CourseInv, WriterInv
<1>2. PICK log, run, lo, hi :
        /\ Course(sent, finished, log, run, lo, hi)
        /\ Here(log, run[lo])
        /\ run[hi].pos = run[lo].pos + Len(wire)
        /\ CaughtUp(sent, finished, writing, lastSent, peerChunk, run[hi])
  BY <1>1 DEF CourseInv, ReaderInv, OnCourse
<1> DEFINE c == run[lo]
           d == run[lo + 1]
<1>3. /\ lo < hi /\ c \in Reader /\ Placed(c) /\ d \in Reader
      /\ Fine(sent, finished, d.delivered) /\ Reads(sent, log, c, d)
      /\ d.pos <= c.pos + Len(wire)
  BY <1>1, <1>2, CourseGoesOn DEF CourseInv
<1>4. Len(wire) \in Nat /\ Here(log, c)
  BY <1>1, <1>2, LenProperties
<1>5. /\ c.at = at /\ c.states = states /\ c.chunk = chunk /\ c.window = window
      /\ c.delivered = delivered
  BY <1>4 DEF Here
<1> HIDE DEF c, d
<1>6. ReadsData(sent, log, c, d)
  BY <1>1, <1>3, <1>5 DEF Reads, ReadsBasic, ReadsHead
<1> DEFINE n == Taken(c)
           all == Extended(log, c)
<1>7. n = Need(states[at.cid])
  BY <1>5 DEF Taken, Need
<1>8. n \in Nat /\ d.pos = c.pos + n /\ c.pos \in Nat
  BY <1>1, <1>3, <1>5, <1>6, TakenIs DEF ReadsData, Reader
<1>9. n \in 0..Len(wire)
  BY <1>3, <1>4, <1>8
<1> HIDE DEF n
<1>10. all = states[at.cid].payload \o SubSeq(wire, 1, n)
  <2>1. SubSeq(wire, 1, n) = [k \in 1..n |-> log[c.pos + k]]
    BY <1>1, <1>4, <1>9, SameStretch
  <2> QED BY <2>1, <1>5 DEF Extended, n
<1> HIDE DEF all
<1>11. Consume(n) /\ UNCHANGED peerVars
  BY <1>7 DEF ReadData
<1>12. /\ at' = d.at /\ states' = d.states /\ chunk' = d.chunk
       /\ window' = d.window /\ delivered' = d.delivered /\ acked' \in Nat
  <2> DEFINE st == states[at.cid]
  <2>1. CASE Len(all) # st.length
    <3>1. /\ states' = [states EXCEPT ![at.cid].payload = all] /\ at' = AtBasic
          /\ chunk' = chunk /\ window' = window /\ acked' = acked /\ delivered' = delivered
      BY <1>7, <1>10, <2>1 DEF ReadData
    <3>2. ReadsPart(log, c, d)
      BY <1>5, <1>6, <2>1 DEF ReadsData, ReadsLast, all
    <3> QED BY <1>5, <3>1, <3>2 DEF ReadsPart, all, CourseInv, ReaderInv
  <2>2. CASE Len(all) = st.length
    <3> DEFINE sts == [states EXCEPT ![at.cid].payload = <<>>]
               value == sent[all[1].id].value
    <3>1. /\ delivered' = Append(delivered, [kind |-> st.kind, ts |-> st.ts, payload |-> all])
          /\ acked' = Acked(received + n)
          /\ Handle(st.kind, value, sts)
      BY <1>7, <1>10, <2>2 DEF ReadData
    <3>2. ReadsLast(sent, log, c, d)
      BY <1>5, <1>6, <2>2 DEF ReadsData, ReadsPart, all
    <3>3. /\ d.delivered = Append(delivered, [kind |-> st.kind, ts |-> st.ts, payload |-> all])
          /\ d.chunk = IF st.kind = "set_chunk_size" /\ value > 0 THEN Clamped(value) ELSE chunk
          /\ d.at = IF st.kind = "set_chunk_size" /\ value = 0
                    THEN [AtBasic EXCEPT !.pos = "failed"] ELSE AtBasic
          /\ d.states = IF st.kind = "abort" THEN [sts EXCEPT ![value] = None] ELSE sts
          /\ d.window = IF st.kind = "window_ack" THEN value ELSE window
      BY <1>5, <3>2 DEF ReadsLast, all
    <3>4. acked' \in Nat
      BY <1>8, <3>1 DEF Acked, CourseInv, ReaderInv
    <3> HIDE DEF st, sts, value
    <3> QED BY <3>1, <3>3, <3>4 DEF Handle
  <2> QED BY <2>1, <2>2
<1>13. /\ run[lo] \in Reader /\ run[lo + 1] \in Reader
       /\ Fine(sent, finished, run[lo + 1].delivered)
       /\ run[lo + 1].pos = run[lo].pos + n
       /\ at' = run[lo + 1].at /\ states' = run[lo + 1].states
       /\ chunk' = run[lo + 1].chunk /\ window' = run[lo + 1].window
       /\ delivered' = run[lo + 1].delivered /\ acked' \in Nat
  BY <1>3, <1>8, <1>12 DEF c, d
<1> QED BY <1>2, <1>3, <1>9, <1>11, <1>13, ReaderStep

-----------------------------------------------------------------------------
(***************************************************************************)
(* The writer makes the course longer.                                     *)
(***************************************************************************)

\* A course leads from c to d.
Leads(s, f, log, c, d) ==
  \E run, lo, hi : Course(s, f, log, run, lo, hi) /\ run[lo] = c /\ run[hi] = d

\* One more step at the end of a course.
LEMMA LeadsOn ==
  ASSUME NEW s, NEW f, NEW log, NEW c, NEW d, Leads(s, f, log, c, d),
         NEW e \in Reader, Placed(e), Fine(s, f, e.delivered), Reads(s, log, d, e),
         d.pos <= e.pos
  PROVE  Leads(s, f, log, c, e)
<1>1. PICK run, lo, hi : Course(s, f, log, run, lo, hi) /\ run[lo] = c /\ run[hi] = d
  BY DEF Leads
<1>2. /\ lo \in Nat /\ hi \in Nat /\ lo <= hi
      /\ \A k \in lo..hi : /\ run[k] \in Reader /\ Placed(run[k]) /\ run[k].pos <= d.pos
                           /\ Fine(s, f, run[k].delivered)
      /\ \A k \in lo..(hi - 1) : Reads(s, log, run[k], run[k + 1])
  BY <1>1 DEF Course
<1> DEFINE go == [k \in Nat |-> IF k <= hi THEN run[k] ELSE e]
           next == hi + 1
<1>3. /\ go[lo] = c /\ go[next] = e
      /\ \A k \in lo..hi : go[k] = run[k]
  BY <1>1, <1>2
<1>4. /\ next \in Nat /\ lo <= next /\ next - 1 = hi
      /\ \A k \in lo..next : k \in lo..hi \/ k = next
      /\ \A k \in lo..hi : k = hi \/ (k \in lo..(hi - 1) /\ k + 1 \in lo..hi)
      /\ hi \in lo..hi /\ hi + 1 = next
  BY <1>2
<1> HIDE DEF go, next
<1>5. \A k \in lo..next : /\ go[k] \in Reader /\ Placed(go[k])
                          /\ go[k].pos <= go[next].pos /\ Fine(s, f, go[k].delivered)
  <2> SUFFICES ASSUME NEW k \in lo..next
               PROVE  /\ go[k] \in Reader /\ Placed(go[k])
                      /\ go[k].pos <= go[next].pos /\ Fine(s, f, go[k].delivered)
    OBVIOUS
  <2>1. e.pos \in Nat /\ d.pos \in Nat
    BY <1>1, <1>2, <1>4 DEF Reader
  <2>2. CASE k = next
    BY <1>3, <2>1, <2>2
  <2>3. CASE k \in lo..hi
    <3>1. run[k].pos \in Nat
      BY <1>2, <2>3 DEF Reader
    <3> QED BY <1>2, <1>3, <2>1, <2>3, <3>1
  <2> QED BY <1>4, <2>2, <2>3
<1>6. \A k \in lo..(next - 1) : Reads(s, log, go[k], go[k + 1])
  <2> SUFFICES ASSUME NEW k \in lo..hi PROVE Reads(s, log, go[k], go[k + 1])
    BY <1>4
  <2>1. CASE k = hi
    BY <1>1, <1>3, <1>4, <2>1
  <2>2. CASE k \in lo..(hi - 1) /\ k + 1 \in lo..hi
    BY <1>2, <1>3, <2>2
  <2> QED BY <1>4, <2>1, <2>2
<1>7. Course(s, f, log, go, lo, next)
  BY <1>2, <1>4, <1>5, <1>6 DEF Course
<1> QED BY <1>3, <1>7 DEF Leads

\* A step reads nothing beyond the place it leads to.
LEMMA ReadsKept ==
  ASSUME NEW s, NEW log, NEW c \in Reader, NEW d \in Reader, Placed(c), Reads(s, log, c, d),
         NEW t, DOMAIN s \subseteq DOMAIN t, \A i \in DOMAIN s : t[i] = s[i],
         NEW text, \A p \in Nat : p <= d.pos => text[p] = log[p]
  PROVE  Reads(t, text, c, d)
<1>1. c.pos \in Nat /\ d.pos \in Nat
  BY DEF Reader
<1>2. CASE ReadsBasic(log, c, d)
  <2>1. text[c.pos + 1] = log[c.pos + 1]
    <3>1. c.pos + 1 \in Nat /\ d.pos = c.pos + 1
      BY <1>1, <1>2 DEF ReadsBasic
    <3> QED BY <1>1, <3>1
  <2> QED BY <1>2, <2>1 DEF Reads, ReadsBasic
<1>3. CASE ReadsHead(log, c, d)
  <2>1. text[c.pos + 1] = log[c.pos + 1]
    <3>1. c.pos + 1 \in Nat /\ d.pos = c.pos + 1
      BY <1>1, <1>3 DEF ReadsHead
    <3> QED BY <1>1, <3>1
  <2> QED BY <1>3, <2>1 DEF Reads, ReadsHead
<1>4. CASE ReadsData(s, log, c, d)
  <2>1. Taken(c) \in Nat /\ d.pos = c.pos + Taken(c)
    BY <1>4, TakenIs DEF ReadsData
  <2> DEFINE n == Taken(c)
  <2>2. \A k \in 1..n : c.pos + k \in Nat /\ c.pos + k <= d.pos
    <3> HIDE DEF n
    <3> QED BY <1>1, <2>1 DEF n
  <2>3. \A k \in 1..n : text[c.pos + k] = log[c.pos + k]
    BY <2>2
  <2>4. [k \in 1..n |-> text[c.pos + k]] = [k \in 1..n |-> log[c.pos + k]]
    BY <2>3
  <2>5. Extended(text, c) = Extended(log, c)
    BY <2>4 DEF Extended
  <2>6. CASE ReadsPart(log, c, d)
    <3>1. ReadsPart(text, c, d)
      BY <2>5, <2>6 DEF ReadsPart
    <3> QED BY <1>4, <2>3, <3>1 DEF Reads, ReadsData
  <2>7. CASE ReadsLast(s, log, c, d)
    <3>1. ReadsLast(t, text, c, d)
      BY <2>5, <2>7 DEF ReadsLast
    <3> QED BY <1>4, <2>3, <3>1 DEF Reads, ReadsData
  <2> QED BY <1>4, <2>6, <2>7 DEF ReadsData
<1> QED BY <1>2, <1>3, <1>4 DEF Reads

\* What is sent and written later changes nothing of a course.
LEMMA LeadsKept ==
  ASSUME NEW s, NEW f, NEW log, NEW c, NEW d, Leads(s, f, log, c, d),
         NEW t, DOMAIN s \subseteq DOMAIN t, \A i \in DOMAIN s : t[i] = s[i],
         NEW g, Len(f) \in Nat, Len(g) \in Nat, Len(f) <= Len(g),
         \A i \in 1..Len(f) : g[i] = f[i] /\ f[i] \in DOMAIN s,
         NEW text, \A p \in Nat : p <= d.pos => text[p] = log[p]
  PROVE  Leads(t, g, text, c, d)
<1>1. PICK run, lo, hi : Course(s, f, log, run, lo, hi) /\ run[lo] = c /\ run[hi] = d
  BY DEF Leads
<1>2. /\ lo \in Nat /\ hi \in Nat /\ lo <= hi
      /\ \A k \in lo..hi : /\ run[k] \in Reader /\ Placed(run[k]) /\ run[k].pos <= d.pos
                           /\ Fine(s, f, run[k].delivered)
      /\ \A k \in lo..(hi - 1) : Reads(s, log, run[k], run[k + 1])
  BY <1>1 DEF Course
<1>3. \A k \in lo..hi : Fine(t, g, run[k].delivered)
  <2> SUFFICES ASSUME NEW k \in lo..hi PROVE Fine(t, g, run[k].delivered)
    OBVIOUS
  <2> DEFINE r == run[k].delivered
  <2>1. Len(r) \in Nat /\ Fine(s, f, r)
    BY <1>2, LenProperties DEF Reader
  <2> HIDE DEF r
  <2>2. Len(r) <= Len(f) /\ \A i \in 1..Len(r) : i \in 1..Len(f) /\ r[i] = WholeOf(s, f[i])
    BY <2>1 DEF Fine
  <2>3. \A i \in 1..Len(r) : r[i] = WholeOf(t, g[i])
    BY <2>2 DEF WholeOf
  <2>4. Len(r) <= Len(g)
    BY <2>1, <2>2
  <2> QED BY <2>3, <2>4 DEF Fine, r
<1>4. \A k \in lo..(hi - 1) : Reads(t, text, run[k], run[k + 1])
  <2> SUFFICES ASSUME NEW k \in lo..(hi - 1) PROVE Reads(t, text, run[k], run[k + 1])
    OBVIOUS
  <2>1. k \in lo..hi /\ k + 1 \in lo..hi /\ hi \in lo..hi
    BY <1>2
  <2> DEFINE x == run[k]
             y == run[k + 1]
  <2>2. x \in Reader /\ y \in Reader /\ d \in Reader /\ Placed(x) /\ y.pos <= d.pos
          /\ Reads(s, log, x, y)
    BY <1>1, <1>2, <2>1
  <2> HIDE DEF x, y
  <2>3. y.pos \in Nat /\ d.pos \in Nat
    BY <2>2 DEF Reader
  <2>4. \A p \in Nat : p <= y.pos => text[p] = log[p]
    BY <2>2, <2>3
  <2>5. Reads(t, text, x, y)
    BY <2>2, <2>4, ReadsKept
  <2> QED BY <2>5 DEF x, y
<1>5. Course(t, g, text, run, lo, hi)
  BY <1>1, <1>2, <1>3, <1>4 DEF Course
<1> QED BY <1>1, <1>5 DEF Leads

\* What is written after pos is the bytes of a message after a, up to b.
Carries(log, pos, id, a, b) ==
  \A k \in 1..(b - a) : log[pos + k] = [unit |-> "byte", id |-> id, pos |-> a + k]

\* What carries bytes of a message is bytes.
LEMMA CarriesBytes ==
  ASSUME NEW log, NEW pos, NEW id, NEW a, NEW b, Carries(log, pos, id, a, b)
  PROVE  \A k \in 1..(b - a) : log[pos + k].unit = "byte"
<1> SUFFICES ASSUME NEW k \in 1..(b - a) PROVE log[pos + k].unit = "byte"
  OBVIOUS
<1>1. log[pos + k] = [unit |-> "byte", id |-> id, pos |-> a + k]
  BY DEF Carries
<1> QED BY <1>1

\* The bytes of a message, wherever they are read.
LEMMA BytesRead ==
  ASSUME NEW id \in Nat, NEW a \in Nat, NEW b \in Nat, a <= b, NEW log, NEW pos,
         Carries(log, pos, id, a, b)
  PROVE  Bytes(id, a + 1, b) = [k \in 1..(b - a) |-> log[pos + k]]
<1> DEFINE q == Bytes(id, a + 1, b)
<1>1. q \in Seq(Unit) /\ Len(q) = b - a
        /\ \A k \in 1..(b - a) : q[k] = [unit |-> "byte", id |-> id, pos |-> a + k]
  BY BytesAfter
<1>2. DOMAIN q = 1..(b - a) /\ q = [k \in 1..(b - a) |-> q[k]]
  BY <1>1, LenProperties
<1> HIDE DEF q
<1>3. \A k \in 1..(b - a) : q[k] = log[pos + k]
  BY <1>1 DEF Carries
<1>4. q = [k \in 1..(b - a) |-> log[pos + k]]
  BY <1>2, <1>3
<1> QED BY <1>4 DEF q

\* Before the payload of a chunk: bytes a + 1 to b of a message are next, and the
\* reader has the ones before them, the length, and a chunk size that will do.
Ready(c, id, length, a, size, log, b) ==
  /\ c \in Reader /\ c.at.pos = "data"
  /\ id \in Nat /\ length \in 0..MaxChunk /\ a \in Nat /\ a < length
  /\ size \in Nat /\ SameSize(c.chunk, size)
  /\ c.states[c.at.cid].length = length /\ c.states[c.at.cid].payload = Bytes(id, 1, a)
  /\ b = Smaller(length, a + size) /\ Carries(log, c.pos, id, a, b)

\* The payload of a chunk is what the writer cut: the reader is told the length
\* and has the same chunk size.
LEMMA ChunkTaken ==
  ASSUME NEW c, NEW id, NEW length, NEW a, NEW size, NEW log, NEW b,
         Ready(c, id, length, a, size, log, b)
  PROVE  /\ b \in Nat /\ a <= b /\ b <= length /\ (size > 0 => a < b)
         /\ Taken(c) = b - a /\ Extended(log, c) = Bytes(id, 1, b)
<1> USE DEF Ready
<1>1. c.chunk \in Nat /\ MaxChunk \in Nat
  BY SizesAssumption DEF Reader
<1>2. b \in Nat /\ a <= b /\ b <= length /\ (size > 0 => a < b)
  BY DEF Smaller
<1>3. Len(Bytes(id, 1, a)) = a /\ Bytes(id, 1, a) \in Seq(Unit)
  BY BytesUpTo
<1>4. Taken(c) = Smaller(length - a, c.chunk)
  BY <1>3 DEF Taken
<1>5. Smaller(length - a, c.chunk) = Smaller(length - a, size)
  <2>1. length - a \in 0..MaxChunk
    BY <1>1
  <2> QED BY <2>1 DEF SameSize
<1>6. Smaller(length - a, size) = b - a
  BY DEF Smaller
<1>7. Taken(c) = b - a
  BY <1>4, <1>5, <1>6
<1> DEFINE q == Bytes(id, a + 1, b)
<1>9. q = [k \in 1..(b - a) |-> log[c.pos + k]]
  BY <1>2, BytesRead
<1>10. Extended(log, c) = Bytes(id, 1, a) \o q
  BY <1>7, <1>9 DEF Extended
<1> QED BY <1>2, <1>7, <1>10, BytesJoin

\* What the writer takes the reader to know, but for one stream.
KnowsOthers(s, w, l, cid, sts) ==
  \A x \in Cids : x # cid /\ l[x] # None => sts[x] = StateOf(s, w, l, x)

\* Written, as a relation on what it changes.
Notes(id, m, b, w, l, f, size, w2, l2, f2, size2) ==
  LET whole == b = m.length
      aborts == whole /\ m.kind = "abort"
  IN  /\ w2 = [x \in Cids |->
                 IF x = m.cid THEN (IF whole THEN None ELSE [id |-> id, done |-> b])
                 ELSE IF aborts /\ x = m.value THEN None ELSE w[x]]
      /\ l2 = [x \in Cids |->
                 IF aborts /\ x = m.value THEN None
                 ELSE IF x = m.cid THEN id ELSE l[x]]
      /\ f2 = IF whole /\ m.length > 0 THEN Append(f, id) ELSE f
      /\ size2 = IF whole /\ m.kind = "set_chunk_size" THEN m.value ELSE size

\* Before the body of a chunk of message id, from byte a + 1 to b; what the writer
\* notes then has a 2 to its name.
Body(s, id, m, f, w, l, size, log, c, a, b, w2, l2, f2, size2) ==
  /\ s \in Seq(Messages) /\ id \in 1..Len(s) /\ m = s[id] /\ IsMessage(m)
  /\ m.kind = "abort" => m.value # m.cid
  /\ f \in Seq(Nat) /\ size \in Nat /\ size > 0
  /\ c \in Reader /\ Placed(c) /\ c.at = [pos |-> "data", cid |-> m.cid, fmt |-> None]
  /\ Fine(s, f, c.delivered) /\ Len(c.delivered) = Len(f) /\ SameSize(c.chunk, size)
  /\ KnowsOthers(s, w, l, m.cid, c.states)
  /\ a \in Nat /\ a < m.length
  /\ c.states[m.cid] = [ts |-> m.ts, length |-> m.length, kind |-> m.kind,
                        payload |-> Bytes(id, 1, a)]
  /\ b = Smaller(m.length, a + size) /\ Carries(log, c.pos, id, a, b)
  /\ Notes(id, m, b, w, l, f, size, w2, l2, f2, size2)

\* A stream's state with another payload.
LEMMA PayloadSet ==
  ASSUME NEW r, NEW ts, NEW length, NEW kind, NEW old, NEW p,
         r = [ts |-> ts, length |-> length, kind |-> kind, payload |-> old]
  PROVE  [r EXCEPT !.payload = p] = [ts |-> ts, length |-> length, kind |-> kind, payload |-> p]
OBVIOUS

\* A chunk that is not the last of its message.
LEMMA PartRead ==
  ASSUME NEW s, NEW id, NEW m, NEW f, NEW w, NEW l, NEW size, NEW log, NEW c, NEW a, NEW b,
         NEW w2, NEW l2, NEW f2, NEW size2,
         Body(s, id, m, f, w, l, size, log, c, a, b, w2, l2, f2, size2), b # m.length
  PROVE  \E d \in Reader :
           /\ Placed(d) /\ Reads(s, log, c, d) /\ d.pos = c.pos + (b - a)
           /\ Fine(s, f2, d.delivered) /\ CaughtUp(s, f2, w2, l2, size2, d)
<1> USE DEF Body
<1>1. /\ m.cid \in Cids /\ m.length \in 0..MaxChunk /\ m.kind \in Kinds /\ m.ts \in Int /\ id \in Nat
      /\ Len(s) \in Nat
  BY SizesAssumption, LenProperties DEF IsMessage
<1>2. c.at.pos = "data" /\ c.at.cid = m.cid
  OBVIOUS
<1> DEFINE st == c.states[m.cid]
<1>3. st.length = m.length /\ st.payload = Bytes(id, 1, a)
  OBVIOUS
<1> HIDE DEF st
<1>3a. c.states[c.at.cid].length = m.length /\ c.states[c.at.cid].payload = Bytes(id, 1, a)
  BY <1>2, <1>3 DEF st
<1>3b. /\ b \in Nat /\ a <= b /\ b <= m.length /\ (size > 0 => a < b)
       /\ Taken(c) = b - a /\ Extended(log, c) = Bytes(id, 1, b)
  <2>1. Ready(c, id, m.length, a, size, log, b)
    BY <1>1, <1>2, <1>3a DEF Ready
  <2> QED BY <2>1, ChunkTaken
<1>4. /\ b \in Nat /\ a < b /\ b < m.length
      /\ Taken(c) = b - a /\ Extended(log, c) = Bytes(id, 1, b)
  BY <1>1, <1>3b
<1>5. Bytes(id, 1, b) \in Seq(Unit) /\ Len(Bytes(id, 1, b)) = b
  BY <1>1, <1>4, BytesUpTo
<1> DEFINE new == [ts |-> m.ts, length |-> m.length, kind |-> m.kind,
                   payload |-> Bytes(id, 1, b)]
           sts == [c.states EXCEPT ![m.cid] = new]
           d == [pos |-> c.pos + (b - a), at |-> AtBasic, states |-> sts, chunk |-> c.chunk,
                 window |-> c.window, delivered |-> c.delivered]
<1>6. new \in State
  BY <1>1, <1>5, SizesAssumption DEF State
<1>7. [c.states EXCEPT ![m.cid].payload = Bytes(id, 1, b)] = sts
  <2>1. [c.states[m.cid] EXCEPT !.payload = Bytes(id, 1, b)] = new
    BY PayloadSet
  <2> HIDE DEF new
  <2> QED BY <2>1
<1>8. sts \in [Cids -> State \cup {None}] /\ sts[m.cid] = new
        /\ \A x \in Cids : x # m.cid => sts[x] = c.states[x]
  BY <1>1, <1>6 DEF Reader
<1>9. c.pos \in Nat /\ c.chunk \in Nat /\ c.window \in Nat /\ c.delivered \in Seq(Message)
  BY DEF Reader
<1>10. c.pos + (b - a) \in Nat
  BY <1>4, <1>9
<1>11. AtBasic \in Place /\ AtBasic.pos = "basic"
  BY DEF AtBasic, Place
<1> HIDE DEF new, sts
<1>12. d \in Reader /\ Placed(d)
  BY <1>8, <1>9, <1>10, <1>11 DEF Reader, Placed
<1>13. Reads(s, log, c, d)
  <2>1. ReadsPart(log, c, d)
    BY <1>2, <1>3, <1>4, <1>5, <1>7 DEF ReadsPart, st
  <2>2. \A k \in 1..(b - a) : log[c.pos + k].unit = "byte"
    BY CarriesBytes
  <2> QED BY <1>2, <1>4, <2>1, <2>2 DEF Reads, ReadsData
<1>14. /\ f2 = f /\ size2 = size
       /\ w2[m.cid] = [id |-> id, done |-> b] /\ l2[m.cid] = id
       /\ \A x \in Cids : x # m.cid => w2[x] = w[x] /\ l2[x] = l[x]
  BY <1>1 DEF Notes
<1>15. w2[m.cid] # None
  BY <1>1, <1>4, <1>14, NoneAssumption DEF Progress
<1>16. \A x \in Cids : l2[x] # None => sts[x] = StateOf(s, w2, l2, x)
  <2> SUFFICES ASSUME NEW x \in Cids, l2[x] # None PROVE sts[x] = StateOf(s, w2, l2, x)
    OBVIOUS
  <2>1. CASE x = m.cid
    BY <1>8, <1>14, <1>15, <2>1 DEF StateOf, PartOf, new
  <2>2. CASE x # m.cid
    BY <1>8, <1>14, <2>2 DEF KnowsOthers, StateOf, PartOf
  <2> QED BY <2>1, <2>2
<1>17. CaughtUp(s, f2, w2, l2, size2, d)
  BY <1>14, <1>16 DEF CaughtUp
<1> QED BY <1>12, <1>13, <1>14, <1>17

\* One message more returned, and it is the next one finished.
LEMMA FineMore ==
  ASSUME NEW s, NEW f \in Seq(Nat), NEW r \in Seq(Message), Fine(s, f, r), Len(r) = Len(f),
         NEW id \in Nat, NEW e, e = WholeOf(s, id), e \in Message
  PROVE  /\ Fine(s, Append(f, id), Append(r, e)) /\ Len(Append(r, e)) = Len(Append(f, id))
         /\ Append(r, e) \in Seq(Message)
<1>1. Len(f) \in Nat /\ Len(r) \in Nat
  BY LenProperties
<1>2. /\ Len(Append(f, id)) = Len(f) + 1 /\ Append(f, id)[Len(f) + 1] = id
      /\ \A i \in 1..Len(f) : Append(f, id)[i] = f[i]
  BY <1>1
<1>3. /\ Len(Append(r, e)) = Len(r) + 1 /\ Append(r, e)[Len(r) + 1] = e
      /\ \A i \in 1..Len(r) : Append(r, e)[i] = r[i]
      /\ Append(r, e) \in Seq(Message)
  BY <1>1
<1> DEFINE g == Append(f, id)
           q == Append(r, e)
<1> HIDE DEF g, q
<1>4. \A i \in 1..(Len(r) + 1) : i = Len(r) + 1 \/ i \in 1..Len(r)
  BY <1>1
<1>5. \A i \in 1..(Len(r) + 1) : q[i] = WholeOf(s, g[i])
  <2> SUFFICES ASSUME NEW i \in 1..(Len(r) + 1) PROVE q[i] = WholeOf(s, g[i])
    OBVIOUS
  <2>1. CASE i = Len(r) + 1
    BY <1>2, <1>3, <2>1 DEF g, q
  <2>2. CASE i \in 1..Len(r)
    <3>1. q[i] = r[i] /\ g[i] = f[i]
      BY <1>2, <1>3, <2>2 DEF g, q
    <3> QED BY <2>2, <3>1 DEF Fine
  <2> QED BY <1>4, <2>1, <2>2
<1>6. Len(q) = Len(r) + 1 /\ Len(g) = Len(r) + 1
  BY <1>2, <1>3 DEF g, q
<1>7. Fine(s, g, q)
  BY <1>1, <1>5, <1>6 DEF Fine
<1> QED BY <1>3, <1>6, <1>7 DEF g, q

\* The message is written up to its end.
Ends(m, b) == b = m.length

\* The last chunk of a message: it is returned and takes effect.
LEMMA LastRead ==
  ASSUME NEW s, NEW id, NEW m, NEW f, NEW w, NEW l, NEW size, NEW log, NEW c, NEW a, NEW b,
         NEW w2, NEW l2, NEW f2, NEW size2,
         Body(s, id, m, f, w, l, size, log, c, a, b, w2, l2, f2, size2)
  PROVE  Ends(m, b) =>
           \E d \in Reader :
             /\ Placed(d) /\ Reads(s, log, c, d) /\ d.pos = c.pos + (b - a)
             /\ Fine(s, f2, d.delivered) /\ CaughtUp(s, f2, w2, l2, size2, d)
<1> SUFFICES ASSUME b = m.length
             PROVE  \E d \in Reader :
                      /\ Placed(d) /\ Reads(s, log, c, d) /\ d.pos = c.pos + (b - a)
                      /\ Fine(s, f2, d.delivered) /\ CaughtUp(s, f2, w2, l2, size2, d)
  BY DEF Ends
<1> USE DEF Body
<1>1. /\ m.cid \in Cids /\ m.length \in 0..MaxChunk /\ m.kind \in Kinds /\ m.ts \in Int /\ id \in Nat
      /\ Len(s) \in Nat /\ id \in DOMAIN s
  BY SizesAssumption, LenProperties DEF IsMessage
<1>2. c.at.pos = "data" /\ c.at.cid = m.cid
  OBVIOUS
<1> DEFINE st == c.states[m.cid]
<1>3. /\ st.length = m.length /\ st.payload = Bytes(id, 1, a) /\ st.kind = m.kind /\ st.ts = m.ts
  OBVIOUS
<1> HIDE DEF st
<1>4. c.states[c.at.cid].length = m.length /\ c.states[c.at.cid].payload = Bytes(id, 1, a)
        /\ c.states[c.at.cid].kind = m.kind /\ c.states[c.at.cid].ts = m.ts
  BY <1>2, <1>3 DEF st
<1>5. /\ b \in Nat /\ a < b /\ Taken(c) = b - a /\ Extended(log, c) = Bytes(id, 1, b)
  <2>1. Ready(c, id, m.length, a, size, log, b)
    BY <1>1, <1>2, <1>4 DEF Ready
  <2> QED BY <2>1, ChunkTaken
<1> DEFINE all == Bytes(id, 1, b)
<1>6. all \in Seq(Unit) /\ Len(all) = b /\ all[1].id = id
  <2>1. /\ all \in Seq(Unit) /\ Len(all) = b
        /\ \A k \in 1..b : all[k] = [unit |-> "byte", id |-> id, pos |-> k]
    BY <1>1, <1>5, BytesUpTo
  <2> HIDE DEF all
  <2>2. 1 \in 1..b
    BY <1>5
  <2> QED BY <2>1, <2>2
<1> DEFINE new == [ts |-> m.ts, length |-> m.length, kind |-> m.kind, payload |-> <<>>]
           cut == [c.states EXCEPT ![m.cid] = new]
           sts == IF m.kind = "abort" THEN [cut EXCEPT ![m.value] = None] ELSE cut
           done == [kind |-> m.kind, ts |-> m.ts, payload |-> all]
           place == IF m.kind = "set_chunk_size" /\ m.value = 0
                    THEN [AtBasic EXCEPT !.pos = "failed"] ELSE AtBasic
           resized == IF m.kind = "set_chunk_size" /\ m.value > 0 THEN Clamped(m.value)
                      ELSE c.chunk
           windowed == IF m.kind = "window_ack" THEN m.value ELSE c.window
           d == [pos |-> c.pos + (b - a), at |-> place, states |-> sts, chunk |-> resized,
                 window |-> windowed, delivered |-> Append(c.delivered, done)]
<1>7. new \in State
  BY <1>1, EmptySeq DEF State
<1>8. [c.states EXCEPT ![m.cid].payload = <<>>] = cut
  <2>1. [c.states[m.cid] EXCEPT !.payload = <<>>] = new
    OBVIOUS
  <2> HIDE DEF new
  <2> QED BY <2>1
<1>9. done = WholeOf(s, id) /\ done \in Message
  BY <1>1, <1>6 DEF WholeOf, Message
<1> HIDE DEF new
<1>10. /\ cut \in [Cids -> State \cup {None}] /\ cut[m.cid] = new
       /\ \A x \in Cids : x # m.cid => cut[x] = c.states[x]
  BY <1>1, <1>7 DEF Reader
<1> HIDE DEF cut
<1>11. /\ sts \in [Cids -> State \cup {None}] /\ sts[m.cid] = new
       /\ \A x \in Cids : x # m.cid /\ ~(m.kind = "abort" /\ x = m.value) => sts[x] = c.states[x]
  BY <1>1, <1>10 DEF IsMessage
<1>12. place \in Place /\ place.pos \in {"basic", "failed"}
  BY DEF AtBasic, Place
<1>13. /\ resized \in Nat /\ windowed \in Nat /\ c.pos + (b - a) \in Nat
  <2>1. c.chunk \in Nat /\ c.window \in Nat /\ c.pos \in Nat /\ MaxChunk \in Nat
    BY SizesAssumption DEF Reader
  <2>2. m.kind \in {"set_chunk_size", "window_ack"} => m.value \in Nat
    BY DEF IsMessage
  <2> QED BY <1>5, <2>1, <2>2 DEF Clamped, Smaller
<1>14. c.delivered \in Seq(Message)
  BY DEF Reader
<1> HIDE DEF sts, place, resized, windowed, done, all
<1>15. /\ Fine(s, Append(f, id), Append(c.delivered, done))
       /\ Len(Append(c.delivered, done)) = Len(Append(f, id))
       /\ Append(c.delivered, done) \in Seq(Message)
  <2> DEFINE r == c.delivered
  <2>1. f \in Seq(Nat) /\ Fine(s, f, r) /\ Len(r) = Len(f) /\ r \in Seq(Message)
    BY <1>14
  <2>2. id \in Nat /\ done = WholeOf(s, id) /\ done \in Message
    BY <1>1, <1>9
  <2> HIDE DEF Body, r
  <2>3. /\ Fine(s, Append(f, id), Append(r, done))
        /\ Len(Append(r, done)) = Len(Append(f, id)) /\ Append(r, done) \in Seq(Message)
    BY <2>1, <2>2, FineMore
  <2> QED BY <2>3 DEF r
<1>16. d \in Reader /\ Placed(d)
  BY <1>11, <1>12, <1>13, <1>15 DEF Reader, Placed
<1>17. Reads(s, log, c, d)
  <2>1. ReadsLast(s, log, c, d)
    BY <1>1, <1>2, <1>4, <1>5, <1>6, <1>8
       DEF ReadsLast, all, done, sts, place, resized, windowed
  <2>2. \A k \in 1..(b - a) : log[c.pos + k].unit = "byte"
    BY CarriesBytes
  <2> QED BY <1>2, <1>5, <2>1, <2>2 DEF Reads, ReadsData
<1>18. f2 = Append(f, id) /\ size2 = IF m.kind = "set_chunk_size" THEN m.value ELSE size
  BY <1>1 DEF Notes
<1>19. /\ w2[m.cid] = None /\ l2[m.cid] = id
       /\ \A x \in Cids : x # m.cid => /\ m.kind = "abort" /\ x = m.value => l2[x] = None
                                       /\ ~(m.kind = "abort" /\ x = m.value) =>
                                            w2[x] = w[x] /\ l2[x] = l[x]
  BY <1>1 DEF Notes
<1>20. \A x \in Cids : l2[x] # None => sts[x] = StateOf(s, w2, l2, x)
  <2> SUFFICES ASSUME NEW x \in Cids, l2[x] # None PROVE sts[x] = StateOf(s, w2, l2, x)
    OBVIOUS
  <2>1. CASE x = m.cid
    BY <1>11, <1>19, <2>1 DEF StateOf, PartOf, new
  <2>2. CASE x # m.cid
    <3> DEFINE cleared == m.kind = "abort" /\ x = m.value
    <3>1. KnowsOthers(s, w, l, m.cid, c.states)
      OBVIOUS
    <3> HIDE DEF Body
    <3>2. ~cleared /\ w2[x] = w[x] /\ l2[x] = l[x]
      BY <1>19, <2>2
    <3>3. sts[x] = c.states[x]
      BY <1>11, <2>2, <3>2
    <3>4. c.states[x] = StateOf(s, w, l, x)
      BY <2>2, <3>1, <3>2 DEF KnowsOthers
    <3> QED BY <3>2, <3>3, <3>4 DEF StateOf, PartOf
  <2> QED BY <2>1, <2>2
<1>21. size2 = 0 => place.pos = "failed"
  BY <1>18 DEF place
<1>22. size2 > 0 => place = AtBasic /\ SameSize(resized, size2)
  <2>1. CASE m.kind = "set_chunk_size"
    <3>1. m.value \in Nat /\ size2 = m.value /\ MaxChunk \in Nat
      BY <1>18, <2>1, SizesAssumption DEF IsMessage
    <3> QED BY <2>1, <3>1 DEF place, resized, SameSize, Clamped, Smaller
  <2>2. CASE m.kind # "set_chunk_size"
    BY <1>18, <2>2 DEF place, resized
  <2> QED BY <2>1, <2>2
<1>23. CaughtUp(s, f2, w2, l2, size2, d)
  BY <1>15, <1>18, <1>20, <1>21, <1>22 DEF CaughtUp
<1> QED BY <1>15, <1>16, <1>17, <1>18, <1>23

\* The reader has caught up, and the next unit is u.
UpTo(c, log, u) ==
  /\ WriterInv /\ peerChunk > 0 /\ c \in Reader
  /\ CaughtUp(sent, finished, writing, lastSent, peerChunk, c)
  /\ log[c.pos + 1] = u

\* A stream whose last message the reader has taken in.
LEMMA KnownStream ==
  ASSUME WriterInv, NEW c \in Reader, NEW cid \in Cids,
         CaughtUp(sent, finished, writing, lastSent, peerChunk, c),
         writing[cid] = None, lastSent[cid] # None
  PROVE  /\ lastSent[cid] \in 1..Len(sent)
         /\ c.states[cid] # None
         /\ c.states[cid] = [ts |-> sent[lastSent[cid]].ts, length |-> sent[lastSent[cid]].length,
                             kind |-> sent[lastSent[cid]].kind, payload |-> <<>>]
<1>1. lastSent[cid] \in 1..Len(sent) /\ sent \in Seq(Messages) /\ Len(sent) \in Nat
  BY LenProperties DEF WriterInv
<1>2. sent[lastSent[cid]] \in Messages
  BY <1>1, ElementOfSeq
<1>3. IsMessage(sent[lastSent[cid]])
  BY <1>2, MessagesAre
<1> DEFINE st == [ts |-> sent[lastSent[cid]].ts, length |-> sent[lastSent[cid]].length,
                  kind |-> sent[lastSent[cid]].kind, payload |-> <<>>]
<1>4. c.states[cid] = st
  BY DEF CaughtUp, StateOf, PartOf
<1>5. st \in State
  BY <1>3, EmptySeq, SizesAssumption DEF State, IsMessage
<1> HIDE DEF st
<1>6. st # None
  BY <1>5, NoneAssumption
<1> QED BY <1>1, <1>4, <1>6 DEF st

\* After the header of a message the reader knows its type, length and time,
\* whatever the header left out.
AfterHeaderOf(m, n, c, e) ==
  /\ e.pos = c.pos + n
  /\ e.at = IF m.length = 0 THEN AtBasic ELSE [pos |-> "data", cid |-> m.cid, fmt |-> None]
  /\ e.states[m.cid] = [ts |-> m.ts, length |-> m.length, kind |-> m.kind, payload |-> <<>>]
  /\ \A x \in Cids : x # m.cid => e.states[x] = c.states[x]
  /\ e.chunk = c.chunk /\ e.window = c.window /\ e.delivered = c.delivered

\* The reader has caught up, and message m starts, with a header of format fmt.
Opens(fmt, m, c, log) ==
  /\ WriterInv /\ IsMessage(m) /\ MayCompress(fmt, m) /\ writing[m.cid] = None
  /\ peerChunk > 0 /\ c \in Reader
  /\ CaughtUp(sent, finished, writing, lastSent, peerChunk, c)
  /\ log[c.pos + 1] = Basic(fmt, m.cid)
  /\ fmt # 3 => log[c.pos + 2] = Header(fmt, m)[1]

\* A message that starts under a bare basic header.
LEMMA BareHeaderRead ==
  ASSUME NEW m, NEW fmt \in 0..3, ~(fmt \in 0..2), NEW c, NEW log, Opens(fmt, m, c, log), NEW s
  PROVE  \E e \in Reader : Placed(e) /\ Reads(s, log, c, e) /\ AfterHeaderOf(m, 1, c, e)
<1> USE DEF Opens
<1>0. fmt = 3
  OBVIOUS
<1>1. m.cid \in Cids /\ m.length \in 0..MaxChunk
  BY DEF IsMessage
<1> DEFINE l == sent[lastSent[m.cid]]
           st == [ts |-> m.ts, length |-> m.length, kind |-> m.kind, payload |-> <<>>]
<1>2. lastSent[m.cid] # None /\ l.kind = m.kind /\ l.length = m.length /\ l.ts = m.ts
  <2>1. fmt # 0 /\ fmt >= 2 /\ fmt = 3 /\ MayCompress(fmt, m)
    BY <1>0
  <2> QED BY <2>1 DEF MayCompress
<1>3. c.states[m.cid] = st /\ c.states[m.cid] # None
  BY <1>1, <1>2, KnownStream
<1>4. c.at = AtBasic
  BY DEF CaughtUp
<1>5. c.pos \in Nat /\ c.states \in [Cids -> State \cup {None}] /\ c.states[m.cid] \in State
  BY <1>1, <1>3 DEF Reader
<1> DEFINE place == IF m.length = 0 THEN AtBasic
                    ELSE [pos |-> "data", cid |-> m.cid, fmt |-> None]
           e == [pos |-> c.pos + 1, at |-> place, states |-> c.states, chunk |-> c.chunk,
                 window |-> c.window, delivered |-> c.delivered]
<1>6. Len(st.payload) = 0 /\ st.length = m.length
  BY EmptySeq
<1>7. place = Onward(m.cid, st)
  BY <1>1, <1>6 DEF Onward
<1>8. place \in Place /\ (place.pos = "basic" \/ (place.pos = "data" /\ m.length > 0 /\ place.cid = m.cid))
  BY <1>1 DEF Place, AtBasic
<1> HIDE DEF place, st
<1>9. e \in Reader
  BY <1>5, <1>8 DEF Reader
<1>10. Placed(e)
  BY <1>1, <1>3, <1>6, <1>8 DEF Placed
<1>11. ReadsBasic(log, c, e)
  <2> DEFINE u == log[c.pos + 1]
  <2>1. u.unit = "basic" /\ u.cid = m.cid /\ u.fmt = 3
    BY <1>0 DEF Basic
  <2>2. c.at.pos = "basic"
    BY <1>4 DEF AtBasic
  <2>3. [c.states EXCEPT ![m.cid] = st] = c.states
    BY <1>3, <1>5
  <2> HIDE DEF u
  <2>4. (IF c.states[u.cid] = None THEN NewState ELSE c.states[u.cid]) = st
    BY <1>3, <2>1
  <2> QED BY <1>1, <1>7, <2>1, <2>2, <2>3, <2>4 DEF ReadsBasic, u
<1>12. AfterHeaderOf(m, 1, c, e)
  BY <1>3 DEF AfterHeaderOf, place, st
<1> QED BY <1>9, <1>10, <1>11, <1>12 DEF Reads

\* The time a header has is a number.
LEMMA FieldIs ==
  ASSUME WriterInv, NEW m, IsMessage(m), NEW fmt \in 0..3, MayCompress(fmt, m)
  PROVE  Field(fmt, m) \in Int
<1> DEFINE l == sent[lastSent[m.cid]]
           x == m.ts - l.ts
<1>1. m.cid \in Cids /\ m.ts \in Int
  BY SizesAssumption DEF IsMessage
<1>2. CASE fmt = 0
  BY <1>1, <1>2 DEF Field
<1>3. CASE fmt # 0
  <2>1. lastSent[m.cid] \in 1..Len(sent) /\ sent \in Seq(Messages)
    BY <1>1, <1>3 DEF MayCompress, WriterInv
  <2>2. l \in Messages
    BY <2>1, ElementOfSeq
  <2>3. IsMessage(l)
    BY <2>2, MessagesAre
  <2>4. x \in Int /\ TsMod \in Nat \ {0}
    BY <1>1, <2>3, SizesAssumption DEF IsMessage
  <2>5. Field(fmt, m) = x % TsMod
    BY <1>3 DEF Field
  <2> HIDE DEF x
  <2> QED BY <2>4, <2>5
<1> QED BY <1>2, <1>3

\* What a header says and what the reader knows make the message.
LEMMA HeaderMeans ==
  ASSUME WriterInv, NEW m, IsMessage(m), NEW fmt \in 0..2, MayCompress(fmt, m),
         writing[m.cid] = None, NEW c \in Reader,
         CaughtUp(sent, finished, writing, lastSent, peerChunk, c),
         NEW st, fmt # 0 => st = c.states[m.cid]
  PROVE  HeaderOf(fmt, Header(fmt, m)[1], st)
           = [ts |-> m.ts, length |-> m.length, kind |-> m.kind, payload |-> <<>>]
<1> DEFINE l == sent[lastSent[m.cid]]
           field == Field(fmt, m)
           h == [unit |-> "head", ts |-> Smaller(field, TsLimit),
                 extended |-> IF Extends(fmt, m) THEN field ELSE None,
                 kind |-> IF fmt = 2 THEN None ELSE m.kind,
                 length |-> IF fmt = 2 THEN None ELSE m.length]
<1>1. Header(fmt, m)[1] = h
  BY DEF Header
<1>2. fmt # 0 => lastSent[m.cid] # None /\ (fmt >= 2 => l.kind = m.kind /\ l.length = m.length)
  BY DEF MayCompress
<1>3. fmt # 0 => lastSent[m.cid] \in 1..Len(sent) /\ st.ts = l.ts /\ st.length = l.length
                   /\ st.kind = l.kind
  <2> SUFFICES ASSUME fmt # 0
               PROVE  lastSent[m.cid] \in 1..Len(sent) /\ st.ts = l.ts /\ st.length = l.length
                        /\ st.kind = l.kind
    OBVIOUS
  <2>1. m.cid \in Cids /\ lastSent[m.cid] # None
    BY <1>2 DEF IsMessage
  <2>2. /\ lastSent[m.cid] \in 1..Len(sent)
        /\ c.states[m.cid] = [ts |-> l.ts, length |-> l.length, kind |-> l.kind, payload |-> <<>>]
    BY <2>1, KnownStream
  <2> HIDE DEF l
  <2>3. st = [ts |-> l.ts, length |-> l.length, kind |-> l.kind, payload |-> <<>>]
    BY <2>2
  <2> QED BY <2>2, <2>3
<1>4. fmt # 0 => (l.ts + ((m.ts - l.ts) % TsMod)) % TsMod = m.ts
  <2> SUFFICES ASSUME fmt # 0 PROVE (l.ts + ((m.ts - l.ts) % TsMod)) % TsMod = m.ts
    OBVIOUS
  <2>1. l \in Messages
    BY <1>3, ElementOfSeq DEF WriterInv
  <2>2. IsMessage(l)
    BY <2>1, MessagesAre
  <2>3. l.ts \in 0..(TsMod - 1) /\ m.ts \in 0..(TsMod - 1)
    BY <2>2 DEF IsMessage
  <2> HIDE DEF l
  <2> QED BY <2>3, TimeRecovered
<1>5. HeaderOf(fmt, h, st) = [ts |-> IF fmt = 0 THEN FieldRead(h)
                                    ELSE (st.ts + FieldRead(h)) % TsMod,
                              kind |-> IF fmt = 2 THEN st.kind ELSE h.kind,
                              length |-> IF fmt = 2 THEN st.length ELSE h.length,
                              payload |-> <<>>]
  BY DEF HeaderOf
<1>6. (IF fmt = 0 THEN FieldRead(h) ELSE (st.ts + FieldRead(h)) % TsMod) = m.ts
  <2>0. FieldRead(h) = field
    <3>1. field \in Int
      BY FieldIs
    <3>2. h.ts = Smaller(field, TsLimit) /\ (field >= TsLimit => h.extended = field)
      BY DEF Extends
    <3> HIDE DEF h, field
    <3> QED BY <3>1, <3>2, SizesAssumption DEF FieldRead, Smaller
  <2>1. CASE fmt = 0
    <3>1. field = m.ts
      BY <2>1 DEF Field
    <3> QED BY <2>0, <2>1, <3>1
  <2>2. CASE fmt # 0
    <3>1. field = (m.ts - l.ts) % TsMod
      BY <2>2 DEF Field
    <3> HIDE DEF h, l, field
    <3> QED BY <1>3, <1>4, <2>0, <2>2, <3>1
  <2> QED BY <2>1, <2>2
<1>7. (IF fmt = 2 THEN st.kind ELSE h.kind) = m.kind
        /\ (IF fmt = 2 THEN st.length ELSE h.length) = m.length
  BY <1>2, <1>3
<1> HIDE DEF h
<1> QED BY <1>1, <1>5, <1>6, <1>7

\* A message that starts under a header of its own.
LEMMA HeaderRead ==
  ASSUME NEW m, NEW fmt \in 0..2, NEW c, NEW log, Opens(fmt, m, c, log), NEW s
  PROVE  \E d, e \in Reader :
           /\ Placed(d) /\ Reads(s, log, c, d) /\ d.pos = c.pos + 1 /\ d.delivered = c.delivered
           /\ Placed(e) /\ Reads(s, log, d, e) /\ AfterHeaderOf(m, 2, c, e)
<1> USE DEF Opens
<1>1. m.cid \in Cids /\ m.length \in 0..MaxChunk /\ m.kind \in Kinds /\ m.ts \in Int
  BY SizesAssumption DEF IsMessage
<1>2. c.at = AtBasic /\ c.at.pos = "basic"
  BY DEF CaughtUp, AtBasic
<1>3. c.pos \in Nat /\ c.states \in [Cids -> State \cup {None}]
  BY DEF Reader
<1> DEFINE old == IF c.states[m.cid] = None THEN NewState ELSE c.states[m.cid]
           st == [ts |-> m.ts, length |-> m.length, kind |-> m.kind, payload |-> <<>>]
           place == IF m.length = 0 THEN AtBasic
                    ELSE [pos |-> "data", cid |-> m.cid, fmt |-> None]
           head == [pos |-> "head", cid |-> m.cid, fmt |-> fmt]
           mid == [c.states EXCEPT ![m.cid] = old]
           new == [c.states EXCEPT ![m.cid] = st]
           d == [pos |-> c.pos + 1, at |-> head, states |-> mid, chunk |-> c.chunk,
                 window |-> c.window, delivered |-> c.delivered]
           e == [pos |-> c.pos + 2, at |-> place, states |-> new, chunk |-> c.chunk,
                 window |-> c.window, delivered |-> c.delivered]
<1>4. old \in State /\ old # None
  <2>1. NewState \in State
    BY EmptySeq DEF NewState, State
  <2> QED BY <1>1, <1>3, <2>1, NoneAssumption
<1>5. fmt # 0 => old = c.states[m.cid]
  <2>1. fmt # 0 => lastSent[m.cid] # None
    BY DEF MayCompress
  <2>2. fmt # 0 => c.states[m.cid] # None
    BY <1>1, <2>1, KnownStream
  <2> QED BY <2>2
<1>6. st \in State /\ st # None
  <2>1. st \in State
    BY <1>1, EmptySeq DEF State
  <2> HIDE DEF st
  <2> QED BY <2>1, NoneAssumption
<1>7. Len(st.payload) = 0 /\ st.length = m.length
  BY EmptySeq
<1>8. place = Onward(m.cid, st)
  BY <1>1, <1>7 DEF Onward
<1>9. place \in Place /\ (place.pos = "basic" \/ (place.pos = "data" /\ m.length > 0 /\ place.cid = m.cid))
  BY <1>1 DEF Place, AtBasic
<1>10. head \in Place /\ head.pos = "head" /\ head.cid = m.cid /\ head.fmt = fmt
  BY <1>1 DEF Place
<1>11. HeaderOf(fmt, Header(fmt, m)[1], old) = st
  BY <1>5, HeaderMeans
<1> HIDE DEF place, st, old, head
<1>12. /\ mid \in [Cids -> State \cup {None}] /\ mid[m.cid] = old
       /\ new \in [Cids -> State \cup {None}] /\ new[m.cid] = st
       /\ \A x \in Cids : x # m.cid => new[x] = c.states[x]
       /\ [mid EXCEPT ![m.cid] = st] = new
  BY <1>1, <1>3, <1>4, <1>6
<1> HIDE DEF mid, new
<1>13. d \in Reader /\ e \in Reader
  BY <1>3, <1>9, <1>10, <1>12 DEF Reader
<1>14. Placed(d) /\ Placed(e)
  BY <1>1, <1>4, <1>6, <1>7, <1>9, <1>10, <1>12 DEF Placed
<1>15. ReadsBasic(log, c, d)
  <2> DEFINE u == log[c.pos + 1]
  <2>1. u.unit = "basic" /\ u.cid = m.cid /\ u.fmt = fmt /\ u.fmt # 3
    BY DEF Basic
  <2> HIDE DEF u
  <2> QED BY <1>1, <1>2, <2>1 DEF ReadsBasic, u, old, mid, head
<1>16. ReadsHead(log, d, e)
  <2>1. d.pos + 1 = c.pos + 2 /\ d.pos + 1 = e.pos
    BY <1>3
  <2>2. log[d.pos + 1] = Header(fmt, m)[1]
    BY <2>1
  <2>3. Header(fmt, m)[1].unit = "head"
    BY DEF Header
  <2>4. d.at.pos = "head" /\ d.at.cid = m.cid /\ d.at.fmt = fmt /\ d.states = mid
    BY <1>10
  <2>5. e.states = [d.states EXCEPT ![m.cid] = st] /\ e.at = Onward(m.cid, st)
    BY <1>8, <1>12
  <2>6. /\ e.chunk = d.chunk /\ e.window = d.window /\ e.delivered = d.delivered
    OBVIOUS
  <2> HIDE DEF d, e
  <2> QED BY <1>11, <1>12, <2>1, <2>2, <2>3, <2>4, <2>5, <2>6 DEF ReadsHead
<1>17. AfterHeaderOf(m, 2, c, e)
  BY <1>12 DEF AfterHeaderOf, place, st
<1> QED BY <1>13, <1>14, <1>15, <1>16, <1>17 DEF Reads

\* How many units come before the payload of a message.
HeaderLength(fmt) == IF fmt = 3 THEN 1 ELSE 2

\* A course that leads to where the reader has caught up leads on to where it
\* has read the header.
LEMMA HeaderLeads ==
  ASSUME NEW m, NEW fmt \in 0..3, NEW c, NEW log, Opens(fmt, m, c, log), NEW s, NEW f, NEW start,
         Leads(s, f, log, start, c), Fine(s, f, c.delivered)
  PROVE  \E e \in Reader :
           /\ Placed(e) /\ Leads(s, f, log, start, e)
           /\ AfterHeaderOf(m, HeaderLength(fmt), c, e)
<1>1. c.pos \in Nat /\ c \in Reader
  BY DEF Opens, Reader
<1>2. CASE fmt \in 0..2
  <2>1. PICK d, e \in Reader :
          /\ Placed(d) /\ Reads(s, log, c, d) /\ d.pos = c.pos + 1 /\ d.delivered = c.delivered
          /\ Placed(e) /\ Reads(s, log, d, e) /\ AfterHeaderOf(m, 2, c, e)
    BY <1>2, HeaderRead
  <2>2. e.pos = c.pos + 2 /\ e.delivered = c.delivered
    BY <2>1 DEF AfterHeaderOf
  <2>3. c.pos <= d.pos /\ d.pos <= e.pos
    BY <1>1, <2>1, <2>2
  <2>4. Leads(s, f, log, start, d)
    BY <2>1, <2>3, LeadsOn
  <2>5. Leads(s, f, log, start, e)
    BY <2>1, <2>2, <2>3, <2>4, LeadsOn
  <2>6. HeaderLength(fmt) = 2
    BY <1>2 DEF HeaderLength
  <2> QED BY <2>1, <2>5, <2>6
<1>3. CASE ~(fmt \in 0..2)
  <2>1. PICK e \in Reader : Placed(e) /\ Reads(s, log, c, e) /\ AfterHeaderOf(m, 1, c, e)
    BY <1>3, BareHeaderRead
  <2>2. e.pos = c.pos + 1 /\ e.delivered = c.delivered
    BY <2>1 DEF AfterHeaderOf
  <2>3. c.pos <= e.pos
    BY <1>1, <2>2
  <2>4. Leads(s, f, log, start, e)
    BY <2>1, <2>2, <2>3, LeadsOn
  <2>5. HeaderLength(fmt) = 1
    BY <1>3 DEF HeaderLength
  <2> QED BY <2>1, <2>4, <2>5
<1> QED BY <1>2, <1>3

\* The header of a message, if it has one.
LEMMA HeaderUnits ==
  ASSUME WriterInv, NEW m, IsMessage(m), NEW fmt \in 0..3, MayCompress(fmt, m)
  PROVE  /\ Header(fmt, m) \in Seq(Unit) /\ Len(Header(fmt, m)) = HeaderLength(fmt) - 1
         /\ <<Basic(fmt, m.cid)>> \in Seq(Unit)
<1>1. m.cid \in Cids /\ m.kind \in Kinds /\ m.length \in Nat /\ m.ts \in Int
  BY SizesAssumption DEF IsMessage
<1>2. <<Basic(fmt, m.cid)>> \in Seq(Unit)
  <2>1. Basic(fmt, m.cid) \in Unit
    BY <1>1 DEF Basic, Unit
  <2> QED BY <2>1
<1>3. CASE fmt = 3
  BY <1>3, <1>2, EmptySeq DEF Header, HeaderLength
<1>4. CASE fmt # 3
  <2> DEFINE ts == Field(fmt, m)
             h == [unit |-> "head", ts |-> Smaller(ts, TsLimit),
                   extended |-> IF Extends(fmt, m) THEN ts ELSE None,
                   kind |-> IF fmt = 2 THEN None ELSE m.kind,
                   length |-> IF fmt = 2 THEN None ELSE m.length]
  <2>1. Header(fmt, m) = <<h>>
    BY <1>4 DEF Header
  <2>2. ts \in Int
    BY FieldIs
  <2> HIDE DEF ts
  <2>3. Smaller(ts, TsLimit) \in Int
    BY <2>2, SizesAssumption DEF Smaller
  <2>4. h \in Unit
    BY <1>1, <2>2, <2>3 DEF Unit
  <2> HIDE DEF h
  <2>5. <<h>> \in Seq(Unit) /\ Len(<<h>>) = 1
    BY <2>4
  <2> QED BY <1>4, <1>2, <2>1, <2>5 DEF HeaderLength
<1> QED BY <1>3, <1>4

\* The units of a message that begins.
Opening(fmt, m, id, b) == <<Basic(fmt, m.cid)>> \o Header(fmt, m) \o Bytes(id, 1, b)

IsOpening(units, fmt, m, id, b) ==
  /\ units \in Seq(Unit) /\ Len(units) = HeaderLength(fmt) + b
  /\ units[1] = Basic(fmt, m.cid)
  /\ fmt # 3 => units[2] = Header(fmt, m)[1]
  /\ \A k \in 1..b : units[HeaderLength(fmt) + k] = [unit |-> "byte", id |-> id, pos |-> k]

\* That is what they are.
LEMMA OpeningIs ==
  ASSUME WriterInv, NEW m, IsMessage(m), NEW fmt \in 0..3, MayCompress(fmt, m),
         NEW id \in Nat, NEW b \in Nat
  PROVE  IsOpening(Opening(fmt, m, id, b), fmt, m, id, b)
<1> DEFINE basic == Basic(fmt, m.cid)
           header == Header(fmt, m)
           body == Bytes(id, 1, b)
           front == <<basic>> \o header
           n == HeaderLength(fmt)
<1>1. m.cid \in Cids /\ m.kind \in Kinds /\ m.length \in Nat /\ m.ts \in Int
  BY SizesAssumption DEF IsMessage
<1>2. basic \in Unit
  BY <1>1 DEF Basic, Unit
<1>3. header \in Seq(Unit) /\ Len(header) = n - 1
  BY HeaderUnits
<1>4. n \in {1, 2} /\ (fmt # 3 => n = 2)
  BY DEF HeaderLength
<1>5. /\ body \in Seq(Unit) /\ Len(body) = b
      /\ \A k \in 1..b : body[k] = [unit |-> "byte", id |-> id, pos |-> k]
  BY BytesUpTo
<1> HIDE DEF basic, header, body, n
<1>6. <<basic>> \in Seq(Unit) /\ Len(<<basic>>) = 1 /\ <<basic>>[1] = basic
  BY <1>2
<1>7. /\ front \in Seq(Unit) /\ Len(front) = 1 + (n - 1)
      /\ \A i \in 1..(1 + (n - 1)) : front[i] = IF i <= 1 THEN <<basic>>[i] ELSE header[i - 1]
  BY <1>3, <1>6, ConcatProperties
<1> HIDE DEF front
<1>8. /\ front \in Seq(Unit) /\ Len(front) = n /\ front[1] = basic
      /\ fmt # 3 => front[2] = header[1]
  <2>1. 1 \in 1..(1 + (n - 1)) /\ (fmt # 3 => 2 \in 1..(1 + (n - 1)) /\ ~(2 <= 1) /\ 2 - 1 = 1)
          /\ 1 + (n - 1) = n
    BY <1>4
  <2> QED BY <1>6, <1>7, <2>1
<1> DEFINE units == front \o body
<1>9. /\ units \in Seq(Unit) /\ Len(units) = n + b
      /\ \A i \in 1..(n + b) : units[i] = IF i <= n THEN front[i] ELSE body[i - n]
  BY <1>5, <1>8, ConcatProperties
<1> HIDE DEF units
<1>10. units[1] = basic /\ (fmt # 3 => units[2] = header[1])
  <2>1. 1 \in 1..(n + b) /\ 1 <= n /\ (fmt # 3 => 2 \in 1..(n + b) /\ 2 <= n)
    BY <1>4
  <2> QED BY <1>8, <1>9, <2>1
<1>11. \A k \in 1..b : units[n + k] = [unit |-> "byte", id |-> id, pos |-> k]
  <2> SUFFICES ASSUME NEW k \in 1..b
               PROVE  units[n + k] = [unit |-> "byte", id |-> id, pos |-> k]
    OBVIOUS
  <2>1. n + k \in 1..(n + b) /\ ~(n + k <= n) /\ (n + k) - n = k
    BY <1>4
  <2>2. units[n + k] = body[(n + k) - n]
    BY <1>9, <2>1
  <2> QED BY <1>5, <2>1, <2>2
<1>12. Opening(fmt, m, id, b) = units
  BY DEF Opening, units, front, basic, header, body
<1> QED BY <1>9, <1>10, <1>11, <1>12 DEF IsOpening, basic, header, n

\* A bare basic header.
Bare(cid) == Basic(3, cid)

\* The rest of a message under way starts with a bare basic header.
LEMMA NextChunkRead ==
  ASSUME NEW cid \in Cids, writing[cid] # None, NEW c, NEW s, NEW log,
         UpTo(c, log, Bare(cid))
  PROVE  \E e \in Reader :
           /\ Placed(e) /\ Reads(s, log, c, e) /\ e.pos = c.pos + 1
           /\ e.at = [pos |-> "data", cid |-> cid, fmt |-> None]
           /\ e.states = c.states /\ e.chunk = c.chunk /\ e.delivered = c.delivered
<1> USE DEF UpTo, Bare
<1> DEFINE id == writing[cid].id
           a == writing[cid].done
           m == sent[id]
           st == [ts |-> m.ts, length |-> m.length, kind |-> m.kind, payload |-> Bytes(id, 1, a)]
<1>1. /\ id = lastSent[cid] /\ lastSent[cid] # None /\ id \in 1..Len(sent) /\ id \in Nat
      /\ a \in Nat /\ a < m.length /\ m.cid = cid
  BY NoneAssumption DEF WriterInv, Progress
<1>2. m \in Messages
  BY <1>1, ElementOfSeq DEF WriterInv
<1>3. IsMessage(m)
  BY <1>2, MessagesAre
<1>4. c.states[cid] = st
  BY <1>1 DEF CaughtUp, StateOf, PartOf
<1>5. Bytes(id, 1, a) \in Seq(Unit) /\ Len(Bytes(id, 1, a)) = a
  BY <1>1, BytesUpTo
<1> HIDE DEF id, a
<1>6. st \in State
  BY <1>3, <1>5, SizesAssumption DEF State, IsMessage
<1>7. Len(st.payload) = a /\ st.length = m.length
  BY <1>5
<1> HIDE DEF st, m
<1>8. c.states[cid] # None
  BY <1>4, <1>6, NoneAssumption
<1>9. c.at.pos = "basic"
  BY DEF CaughtUp, AtBasic
<1>10. c.pos \in Nat /\ c.states \in [Cids -> State \cup {None}]
  BY DEF Reader
<1> DEFINE place == [pos |-> "data", cid |-> cid, fmt |-> None]
           e == [pos |-> c.pos + 1, at |-> place, states |-> c.states, chunk |-> c.chunk,
                 window |-> c.window, delivered |-> c.delivered]
<1>11. a \in Nat /\ m.length \in Nat /\ a < m.length
  BY <1>1, <1>3, SizesAssumption DEF IsMessage
<1>12. place = Onward(cid, st)
  BY <1>7, <1>11 DEF Onward
<1>13. place \in Place /\ place.pos = "data" /\ place.cid = cid
  BY DEF Place
<1> HIDE DEF place
<1>14. e \in Reader
  BY <1>10, <1>13 DEF Reader
<1>15. Placed(e)
  BY <1>4, <1>7, <1>8, <1>11, <1>13 DEF Placed
<1>16. ReadsBasic(log, c, e)
  <2> DEFINE u == log[c.pos + 1]
  <2>1. u.unit = "basic" /\ u.cid = cid /\ u.fmt = 3
    BY DEF Basic
  <2>2. [c.states EXCEPT ![cid] = st] = c.states
    BY <1>4, <1>10
  <2> HIDE DEF u
  <2>3. (IF c.states[u.cid] = None THEN NewState ELSE c.states[u.cid]) = st
    BY <1>4, <1>8, <2>1
  <2> QED BY <1>9, <1>12, <2>1, <2>2, <2>3 DEF ReadsBasic, u
<1> QED BY <1>14, <1>15, <1>16 DEF Reads, place

\* A chunk, the last of its message or not.
LEMMA BodyRead ==
  ASSUME NEW s, NEW id, NEW m, NEW f, NEW w, NEW l, NEW size, NEW log, NEW c, NEW a, NEW b,
         NEW w2, NEW l2, NEW f2, NEW size2,
         Body(s, id, m, f, w, l, size, log, c, a, b, w2, l2, f2, size2)
  PROVE  \E d \in Reader :
           /\ Placed(d) /\ Reads(s, log, c, d) /\ d.pos = c.pos + (b - a)
           /\ Fine(s, f2, d.delivered) /\ CaughtUp(s, f2, w2, l2, size2, d)
<1> DEFINE Led ==
      \E d \in Reader :
        /\ Placed(d) /\ Reads(s, log, c, d) /\ d.pos = c.pos + (b - a)
        /\ Fine(s, f2, d.delivered) /\ CaughtUp(s, f2, w2, l2, size2, d)
<1>1. Ends(m, b) => Led
  BY LastRead
<1>2. b # m.length => Led
  BY PartRead
<1> QED BY <1>1, <1>2 DEF Ends

\* An empty message is all header.
LEMMA EmptyRead ==
  ASSUME NEW s, NEW id \in Nat, NEW m, m = s[id], IsMessage(m), m.length = 0,
         NEW f, NEW w, NEW l, NEW size \in Nat, size > 0, NEW c, NEW n, NEW e,
         AfterHeaderOf(m, n, c, e), Len(e.delivered) = Len(f), SameSize(e.chunk, size),
         KnowsOthers(s, w, l, m.cid, e.states),
         NEW w2, NEW l2, NEW f2, NEW size2, Notes(id, m, 0, w, l, f, size, w2, l2, f2, size2)
  PROVE  f2 = f /\ CaughtUp(s, f2, w2, l2, size2, e)
<1>1. m.cid \in Cids /\ m.kind = "media"
  BY DEF IsMessage, Kinds
<1>2. /\ f2 = f /\ size2 = size /\ w2[m.cid] = None /\ l2[m.cid] = id
      /\ \A x \in Cids : x # m.cid => w2[x] = w[x] /\ l2[x] = l[x]
  BY <1>1 DEF Notes
<1>3. e.at = AtBasic
        /\ e.states[m.cid] = [ts |-> m.ts, length |-> m.length, kind |-> m.kind, payload |-> <<>>]
  BY DEF AfterHeaderOf
<1>4. \A x \in Cids : l2[x] # None => e.states[x] = StateOf(s, w2, l2, x)
  <2> SUFFICES ASSUME NEW x \in Cids, l2[x] # None PROVE e.states[x] = StateOf(s, w2, l2, x)
    OBVIOUS
  <2>1. CASE x = m.cid
    BY <1>2, <1>3, <2>1 DEF StateOf, PartOf
  <2>2. CASE x # m.cid
    BY <1>2, <2>2 DEF KnowsOthers, StateOf, PartOf
  <2> QED BY <2>1, <2>2
<1> QED BY <1>2, <1>3, <1>4 DEF CaughtUp

\* What the writer notes of a chunk.
LEMMA WrittenNotes ==
  ASSUME NEW id, NEW m, NEW b, Written(id, m, b)
  PROVE  Notes(id, m, b, writing, lastSent, finished, peerChunk,
               writing', lastSent', finished', peerChunk')
BY DEF Written, Notes

\* More is written, and the reader stands where it did.
Writes(units) ==
  /\ wire \in Seq(Unit) /\ units \in Seq(Unit) /\ wire' = wire \o units
  /\ UNCHANGED readerVars
Until(log, c, d) ==
  c \in Reader /\ d \in Reader /\ Here(log, c) /\ d.pos = c.pos + Len(wire)

\* What is written next is found after what is on the wire.
LEMMA MoreOnWire ==
  ASSUME NEW units, Writes(units), NEW log, NEW c, NEW d, Until(log, c, d)
  PROVE  /\ wire' \in Seq(Unit) /\ c.pos + Len(wire') = d.pos + Len(units)
         /\ \E text : /\ Here(text, c)'
                      /\ \A p \in Nat : p <= d.pos => text[p] = log[p]
                      /\ \A k \in 1..Len(units) : text[d.pos + k] = units[k]
<1> DEFINE end == d.pos
<1>1. /\ Len(wire) \in Nat /\ Len(units) \in Nat /\ c.pos \in Nat /\ end \in Nat
      /\ end = c.pos + Len(wire) /\ wire' = wire \o units
  BY LenProperties DEF Reader, Writes, Until
<1> HIDE DEF end
<1>2. /\ wire \o units \in Seq(Unit) /\ Len(wire \o units) = Len(wire) + Len(units)
      /\ \A i \in 1..(Len(wire) + Len(units)) :
           (wire \o units)[i] = IF i <= Len(wire) THEN wire[i] ELSE units[i - Len(wire)]
  BY ConcatProperties DEF Writes
<1> DEFINE text == [p \in Nat |-> IF p <= end THEN log[p] ELSE units[p - end]]
<1>3. \A p \in Nat : p <= end => text[p] = log[p]
  OBVIOUS
<1>4. \A k \in 1..Len(units) : text[end + k] = units[k]
  <2> SUFFICES ASSUME NEW k \in 1..Len(units) PROVE text[end + k] = units[k]
    OBVIOUS
  <2>1. end + k \in Nat /\ ~(end + k <= end) /\ (end + k) - end = k
    BY <1>1
  <2> QED BY <2>1
<1> HIDE DEF text
<1>5. \A i \in 1..Len(wire') : wire'[i] = text[c.pos + i]
  <2> SUFFICES ASSUME NEW i \in 1..(Len(wire) + Len(units)) PROVE wire'[i] = text[c.pos + i]
    BY <1>1, <1>2
  <2>1. CASE i <= Len(wire)
    <3>1. i \in 1..Len(wire) /\ c.pos + i \in Nat /\ c.pos + i <= end
      BY <1>1, <2>1
    <3>2. wire'[i] = wire[i] /\ wire[i] = log[c.pos + i]
      BY <1>1, <1>2, <2>1, <3>1 DEF Here, Until
    <3> QED BY <1>3, <3>1, <3>2
  <2>2. CASE ~(i <= Len(wire))
    <3>1. i - Len(wire) \in 1..Len(units) /\ end + (i - Len(wire)) = c.pos + i
      BY <1>1, <2>2
    <3> QED BY <1>1, <1>2, <1>4, <2>2, <3>1
  <2> QED BY <2>1, <2>2
<1>6. Here(text, c)'
  BY <1>5 DEF Here, Until, Writes, readerVars
<1>7. c.pos + Len(wire') = end + Len(units)
  BY <1>1, <1>2
<1> QED BY <1>1, <1>2, <1>3, <1>4, <1>6, <1>7 DEF end

-----------------------------------------------------------------------------
(***************************************************************************)
(* The writer's steps.                                                     *)
(***************************************************************************)

\* The messages sent are at least those sent before.
SentKept ==
  /\ sent' \in Seq(Messages) /\ Len(sent) <= Len(sent')
  /\ \A i \in 1..Len(sent) : sent'[i] = sent[i]
  /\ \A i \in 1..Len(sent') : sent'[i].kind = "abort" => sent'[i].value # sent'[i].cid

\* A chunk of message id up to byte b is noted.
Noted(id, b) ==
  /\ id \in 1..Len(sent') /\ b \in Nat /\ b <= sent'[id].length
  /\ Notes(id, sent'[id], b, writing, lastSent, finished, peerChunk,
           writing', lastSent', finished', peerChunk')

\* What is finished stays so.
LEMMA FinishedKept ==
  ASSUME WriterInv, SentKept, NEW id, NEW b, Noted(id, b)
  PROVE  /\ finished' \in Seq(Nat) /\ Len(finished) \in Nat /\ Len(finished') \in Nat
         /\ Len(finished) <= Len(finished')
         /\ \A i \in 1..Len(finished) : finished'[i] = finished[i] /\ finished[i] \in DOMAIN sent
         /\ \A i \in 1..Len(finished') : finished'[i] \in 1..Len(sent')
         /\ DOMAIN sent \subseteq DOMAIN sent' /\ \A i \in DOMAIN sent : sent'[i] = sent[i]
<1>1. /\ Len(sent) \in Nat /\ Len(sent') \in Nat /\ finished \in Seq(Nat)
      /\ DOMAIN sent = 1..Len(sent) /\ DOMAIN sent' = 1..Len(sent')
  BY LenProperties DEF WriterInv, SentKept
<1>2. Len(finished) \in Nat /\ \A i \in 1..Len(finished) : finished[i] \in 1..Len(sent)
  BY <1>1, LenProperties DEF WriterInv
<1>3. id \in Nat /\ id \in 1..Len(sent')
  BY <1>1 DEF Noted
<1>4. finished' = finished \/ finished' = Append(finished, id)
  BY DEF Noted, Notes
<1>5. /\ Append(finished, id) \in Seq(Nat) /\ Len(Append(finished, id)) = Len(finished) + 1
      /\ Append(finished, id)[Len(finished) + 1] = id
      /\ \A i \in 1..Len(finished) : Append(finished, id)[i] = finished[i]
  BY <1>1, <1>2, <1>3
<1>6. \A i \in 1..Len(sent) : i \in 1..Len(sent')
  BY <1>1 DEF SentKept
<1>7. \A i \in 1..(Len(finished) + 1) : i = Len(finished) + 1 \/ i \in 1..Len(finished)
  BY <1>2
<1>8. CASE finished' = finished
  BY <1>1, <1>2, <1>6, <1>8 DEF SentKept
<1>9. CASE finished' = Append(finished, id)
  <2> DEFINE g == Append(finished, id)
  <2> HIDE DEF g
  <2>1. \A i \in 1..Len(g) : g[i] \in 1..Len(sent')
    BY <1>2, <1>3, <1>5, <1>6, <1>7 DEF g
  <2> QED BY <1>1, <1>2, <1>5, <1>6, <1>9, <2>1 DEF SentKept, g
<1> QED BY <1>4, <1>8, <1>9

\* The writer's records stay consistent.
LEMMA WriterKept ==
  ASSUME WriterInv, SentKept, NEW id, NEW b, Noted(id, b), wire' \in Seq(Unit)
  PROVE  WriterInv'
<1> DEFINE m == sent'[id]
<1>1. /\ Len(sent) \in Nat /\ Len(sent') \in Nat
      /\ \A i \in 1..Len(sent) : i \in 1..Len(sent') /\ sent'[i] = sent[i]
  BY LenProperties DEF WriterInv, SentKept
<1>2. /\ id \in 1..Len(sent') /\ id \in Nat /\ b \in Nat /\ b <= m.length
      /\ Notes(id, m, b, writing, lastSent, finished, peerChunk,
               writing', lastSent', finished', peerChunk')
  BY <1>1 DEF Noted
<1>3. m \in Messages
  BY <1>2, ElementOfSeq DEF SentKept
<1>4. IsMessage(m)
  BY <1>3, MessagesAre
<1> HIDE DEF m
<1>5. id # None /\ [id |-> id, done |-> b] \in Progress
  BY <1>2, NoneAssumption DEF Progress
<1>6. /\ writing' \in [Cids -> Progress \cup {None}] /\ lastSent' \in [Cids -> Nat \cup {None}]
      /\ peerChunk' \in Nat
  BY <1>2, <1>4, <1>5 DEF Notes, WriterInv, IsMessage
<1>7. \A c \in Cids : lastSent'[c] # None => lastSent'[c] \in 1..Len(sent')
  <2> SUFFICES ASSUME NEW c \in Cids, lastSent'[c] # None PROVE lastSent'[c] \in 1..Len(sent')
    OBVIOUS
  <2>1. lastSent'[c] = id \/ lastSent'[c] = lastSent[c]
    BY <1>2 DEF Notes
  <2> QED BY <1>1, <1>2, <2>1 DEF WriterInv
<1>8. \A c \in Cids : writing'[c] # None =>
        /\ writing'[c].id = lastSent'[c] /\ sent'[lastSent'[c]].cid = c
        /\ writing'[c].done < sent'[lastSent'[c]].length
  <2> SUFFICES ASSUME NEW c \in Cids, writing'[c] # None
               PROVE  /\ writing'[c].id = lastSent'[c] /\ sent'[lastSent'[c]].cid = c
                      /\ writing'[c].done < sent'[lastSent'[c]].length
    OBVIOUS
  <2>1. CASE c = m.cid
    <3>1. b # m.length /\ writing'[c] = [id |-> id, done |-> b] /\ lastSent'[c] = id
      BY <1>2, <2>1 DEF Notes
    <3>2. m.length \in Nat /\ b < m.length
      BY <1>2, <1>4, <3>1, SizesAssumption DEF IsMessage
    <3> QED BY <2>1, <3>1, <3>2 DEF m
  <2>2. CASE c # m.cid
    <3>1. writing'[c] = writing[c] /\ lastSent'[c] = lastSent[c]
      BY <1>2, <2>2 DEF Notes
    <3>2. /\ writing[c].id = lastSent[c] /\ sent[lastSent[c]].cid = c
          /\ writing[c].done < sent[lastSent[c]].length
      BY <3>1 DEF WriterInv
    <3>3. lastSent[c] # None
      BY <3>1, NoneAssumption DEF WriterInv, Progress
    <3>4. sent'[lastSent[c]] = sent[lastSent[c]]
      BY <1>1, <3>3 DEF WriterInv
    <3> QED BY <3>1, <3>2, <3>4
  <2> QED BY <2>1, <2>2
<1> QED BY <1>6, <1>7, <1>8, FinishedKept DEF WriterInv, SentKept

\* What was returned is still what was finished.
LEMMA FineKept ==
  ASSUME WriterInv, SentKept, NEW id, NEW b, Noted(id, b), NEW r \in Seq(Message),
         Fine(sent, finished, r)
  PROVE  Fine(sent', finished', r)
<1>1. /\ Len(finished) \in Nat /\ Len(finished') \in Nat /\ Len(finished) <= Len(finished')
      /\ \A i \in 1..Len(finished) : finished'[i] = finished[i] /\ finished[i] \in DOMAIN sent
      /\ \A i \in DOMAIN sent : sent'[i] = sent[i]
  BY FinishedKept
<1>2. Len(r) \in Nat
  BY LenProperties
<1>3. Len(r) <= Len(finished) /\ \A i \in 1..Len(r) : i \in 1..Len(finished) /\ r[i] = WholeOf(sent, finished[i])
  BY <1>1, <1>2 DEF Fine
<1>4. Len(r) <= Len(finished')
  BY <1>1, <1>2, <1>3
<1> QED BY <1>1, <1>3, <1>4 DEF Fine, WholeOf

\* What the reader knew of the other streams, it knows with what is sent now.
LEMMA OthersKept ==
  ASSUME WriterInv, SentKept, NEW c, NEW cid, NEW sts,
         CaughtUp(sent, finished, writing, lastSent, peerChunk, c),
         \A x \in Cids : x # cid => sts[x] = c.states[x]
  PROVE  KnowsOthers(sent', writing, lastSent, cid, sts)
<1> SUFFICES ASSUME NEW x \in Cids, x # cid, lastSent[x] # None
             PROVE  sts[x] = StateOf(sent', writing, lastSent, x)
  BY DEF KnowsOthers
<1>1. sent'[lastSent[x]] = sent[lastSent[x]]
  BY DEF WriterInv, SentKept
<1> QED BY <1>1 DEF CaughtUp, StateOf

\* The writer has written, and the reader's course leads to where it has caught
\* up again.
LEMMA WriterStep ==
  ASSUME CourseInv, SentKept, NEW id, NEW b, Noted(id, b), wire' \in Seq(Unit),
         UNCHANGED readerVars,
         at.pos # "failed" =>
           \E text, c, e : /\ Leads(sent', finished', text, c, e) /\ Here(text, c)'
                           /\ e.pos = c.pos + Len(wire')
                           /\ CaughtUp(sent', finished', writing', lastSent', peerChunk', e)
  PROVE  CourseInv'
<1>1. WriterInv'
  BY WriterKept DEF CourseInv
<1>2. Fine(sent', finished', delivered)
  BY FineKept DEF CourseInv, ReaderInv
<1>3. at.pos # "failed" => OnCourse'
  <2> SUFFICES ASSUME at.pos # "failed" PROVE OnCourse'
    OBVIOUS
  <2>1. PICK text, c, e :
           /\ Leads(sent', finished', text, c, e) /\ Here(text, c)'
           /\ e.pos = c.pos + Len(wire')
           /\ CaughtUp(sent', finished', writing', lastSent', peerChunk', e)
    OBVIOUS
  <2>2. PICK run, lo, hi :
           Course(sent', finished', text, run, lo, hi) /\ run[lo] = c /\ run[hi] = e
    BY <2>1 DEF Leads
  <2>3. Here(text, run[lo])'
    BY <2>1, <2>2
  <2> QED BY <2>1, <2>2, <2>3 DEF OnCourse
<1>4. /\ at' = at /\ delivered' = delivered /\ received' = received /\ acked' = acked
      /\ window' = window
  BY DEF readerVars
<1> QED BY <1>1, <1>2, <1>3, <1>4 DEF CourseInv, ReaderInv

\* The reader's course leads from c to d, where it has caught up with what was
\* written before; the units are next.
Ahead(text, c, d, units) ==
  /\ c \in Reader /\ d \in Reader /\ Fine(sent, finished, d.delivered)
  /\ CaughtUp(sent, finished, writing, lastSent, peerChunk, d)
  /\ Leads(sent', finished', text, c, d) /\ Here(text, c)'
  /\ c.pos + Len(wire') = d.pos + Len(units)
  /\ \A k \in 1..Len(units) : text[d.pos + k] = units[k]

\* When more is written, the reader is on course for it.
LEMMA AheadOf ==
  ASSUME CourseInv, SentKept, NEW id, NEW b, Noted(id, b), UNCHANGED readerVars,
         NEW units \in Seq(Unit), wire' = wire \o units, at.pos # "failed"
  PROVE  \E text, c, d : Ahead(text, c, d, units)
<1>1. PICK log, run, lo, hi :
        /\ Course(sent, finished, log, run, lo, hi)
        /\ Here(log, run[lo])
        /\ run[hi].pos = run[lo].pos + Len(wire)
        /\ CaughtUp(sent, finished, writing, lastSent, peerChunk, run[hi])
  BY DEF CourseInv, ReaderInv, OnCourse
<1> DEFINE c == run[lo]
           d == run[hi]
<1>2. lo \in lo..hi /\ hi \in lo..hi
  BY <1>1 DEF Course
<1>3. c \in Reader /\ d \in Reader /\ Fine(sent, finished, d.delivered)
  BY <1>1, <1>2 DEF Course
<1>4. Leads(sent, finished, log, c, d)
  BY <1>1 DEF Leads
<1>5. /\ Here(log, c) /\ d.pos = c.pos + Len(wire)
      /\ CaughtUp(sent, finished, writing, lastSent, peerChunk, d)
  BY <1>1
<1> HIDE DEF c, d
<1>6. WriterInv /\ wire \in Seq(Unit)
  BY DEF CourseInv, WriterInv
<1>7. /\ c.pos + Len(wire') = d.pos + Len(units)
      /\ \E text : /\ Here(text, c)'
                   /\ \A p \in Nat : p <= d.pos => text[p] = log[p]
                   /\ \A k \in 1..Len(units) : text[d.pos + k] = units[k]
  <2>1. Writes(units) /\ Until(log, c, d)
    BY <1>3, <1>5, <1>6 DEF Writes, Until
  <2> QED BY <2>1, MoreOnWire
<1>8. PICK text : /\ Here(text, c)'
                  /\ \A p \in Nat : p <= d.pos => text[p] = log[p]
                  /\ \A k \in 1..Len(units) : text[d.pos + k] = units[k]
  BY <1>7
<1>9. /\ Len(finished) \in Nat /\ Len(finished') \in Nat /\ Len(finished) <= Len(finished')
      /\ \A i \in 1..Len(finished) : finished'[i] = finished[i] /\ finished[i] \in DOMAIN sent
      /\ DOMAIN sent \subseteq DOMAIN sent' /\ \A i \in DOMAIN sent : sent'[i] = sent[i]
  BY <1>6, FinishedKept
<1>10. Leads(sent', finished', text, c, d)
  <2> DEFINE s == sent
             t == sent'
             f == finished
             g == finished'
  <2>1. /\ Leads(s, f, log, c, d) /\ DOMAIN s \subseteq DOMAIN t /\ \A i \in DOMAIN s : t[i] = s[i]
        /\ Len(f) \in Nat /\ Len(g) \in Nat /\ Len(f) <= Len(g)
        /\ \A i \in 1..Len(f) : g[i] = f[i] /\ f[i] \in DOMAIN s
    BY <1>4, <1>9
  <2> HIDE DEF s, t, f, g
  <2>2. Leads(t, g, text, c, d)
    BY <1>8, <2>1, LeadsKept
  <2> QED BY <2>2 DEF t, g
<1> QED BY <1>3, <1>5, <1>7, <1>8, <1>10 DEF Ahead

\* From the place of a header's end the body of the chunk is read, and the reader
\* has caught up.
LEMMA BodyEnds ==
  ASSUME CourseInv, SentKept, NEW id, NEW a, NEW b, Noted(id, b), NEW text, NEW c, NEW e,
         Leads(sent', finished', text, c, e),
         Body(sent', id, sent'[id], finished, writing, lastSent, peerChunk, text, e, a, b,
              writing', lastSent', finished', peerChunk')
  PROVE  \E g \in Reader :
           /\ Leads(sent', finished', text, c, g) /\ g.pos = e.pos + (b - a)
           /\ CaughtUp(sent', finished', writing', lastSent', peerChunk', g)
<1> DEFINE m == sent'[id]
           s == sent'
           f == finished'
           w == writing'
           l == lastSent'
           size == peerChunk'
<1>1. Body(s, id, m, finished, writing, lastSent, peerChunk, text, e, a, b, w, l, f, size)
  OBVIOUS
<1>2. Leads(s, f, text, c, e)
  OBVIOUS
<1> HIDE DEF m, s, f, w, l, size
<1>3. PICK g \in Reader :
        /\ Placed(g) /\ Reads(s, text, e, g) /\ g.pos = e.pos + (b - a)
        /\ Fine(s, f, g.delivered) /\ CaughtUp(s, f, w, l, size, g)
  BY <1>1, BodyRead
<1>4. e.pos <= g.pos
  <2> DEFINE length == m.length
             taken == peerChunk
             at2 == e.pos
  <2>1. length \in Nat /\ a \in Nat /\ a < length /\ taken \in Nat /\ b = Smaller(length, a + taken)
        /\ at2 \in Nat
    <3>1. /\ IsMessage(m) /\ a \in Nat /\ a < length /\ taken \in Nat
          /\ b = Smaller(length, a + taken) /\ e \in Reader
      BY <1>1, SizesAssumption DEF Body
    <3> QED BY <3>1, SizesAssumption DEF IsMessage, Reader
  <2> HIDE DEF length, taken, at2
  <2>2. b \in Nat /\ b >= a
    BY <2>1 DEF Smaller
  <2>3. at2 <= at2 + (b - a)
    BY <2>1, <2>2
  <2> QED BY <1>3, <2>3 DEF at2
<1>5. Leads(s, f, text, c, g)
  BY <1>2, <1>3, <1>4, LeadsOn
<1> QED BY <1>3, <1>5 DEF s, f, w, l, size

\* Nothing is added where no extended timestamp is repeated.
LEMMA NothingMore ==
  ASSUME NEW p \in Seq(Unit), NEW q \in Seq(Unit)
  PROVE  (p \o q) \o <<>> = p \o q /\ p \o <<>> = p /\ p \o q \in Seq(Unit)
<1>1. p \o q \in Seq(Unit)
  BY ConcatProperties
<1> DEFINE r == p \o q
<1> HIDE DEF r
<1>2. r \o <<>> = r /\ p \o <<>> = p
  BY <1>1, ConcatEmptySeq DEF r
<1> QED BY <1>1, <1>2 DEF r

\* A chunk that repeats no extended timestamp.
ContinuePlain(cid) == Continue(cid, FALSE)

\* The next chunk of a message.
LEMMA ContinueStep ==
  ASSUME CourseInv, NEW cid \in Cids, ContinuePlain(cid)
  PROVE  CourseInv'
<1> DEFINE id == writing[cid].id
           a == writing[cid].done
           m == sent[id]
           b == Smaller(m.length, a + peerChunk)
           head == Basic(3, cid)
           body == Bytes(id, a + 1, b)
           units == <<head>> \o body
<1>1. /\ writing[cid] # None /\ peerChunk > 0 /\ peerChunk \in Nat
      /\ wire' = wire \o <<head>> \o <<>> \o body
      /\ Written(id, m, b) /\ sent' = sent /\ UNCHANGED readerVars
  BY DEF ContinuePlain, Continue, Repetition, CourseInv, WriterInv
<1>2. WriterInv /\ wire \in Seq(Unit)
  BY DEF CourseInv, WriterInv
<1>3. /\ id = lastSent[cid] /\ lastSent[cid] # None /\ id \in 1..Len(sent) /\ id \in Nat
      /\ a \in Nat /\ a < m.length /\ m.cid = cid
  BY <1>1, <1>2, NoneAssumption DEF WriterInv, Progress
<1>4. m \in Messages
  BY <1>2, <1>3, ElementOfSeq DEF WriterInv
<1>5. IsMessage(m)
  BY <1>4, MessagesAre
<1> HIDE DEF id, a, m, b
<1>6. b \in Nat /\ a <= b /\ b <= m.length
  <2> DEFINE length == m.length
             size == peerChunk
  <2>1. length \in Nat /\ a \in Nat /\ a < length /\ size \in Nat /\ b = Smaller(length, a + size)
    BY <1>1, <1>3, <1>5, SizesAssumption DEF IsMessage, b
  <2> HIDE DEF length, size
  <2>2. b \in Nat /\ a <= b /\ b <= length
    BY <2>1 DEF Smaller
  <2> QED BY <2>2 DEF length
<1>7. SentKept /\ m = sent'[id]
  BY <1>1, <1>2, LenProperties DEF SentKept, WriterInv, m
<1>8. Noted(id, b)
  <2>1. Notes(id, m, b, writing, lastSent, finished, peerChunk,
              writing', lastSent', finished', peerChunk')
    BY <1>1, WrittenNotes
  <2> QED BY <1>1, <1>3, <1>6, <1>7, <2>1 DEF Noted
<1>9. head \in Unit /\ <<head>> \in Seq(Unit) /\ Len(<<head>>) = 1 /\ <<head>>[1] = head
  BY DEF Basic, Unit
<1>10. body \in Seq(Unit) /\ Len(body) = b - a
         /\ \A k \in 1..(b - a) : body[k] = [unit |-> "byte", id |-> id, pos |-> a + k]
  BY <1>3, <1>6, BytesAfter
<1> HIDE DEF head, body
<1>11. /\ units \in Seq(Unit) /\ Len(units) = 1 + (b - a) /\ units[1] = head
       /\ \A k \in 1..(b - a) : units[1 + k] = body[k]
  <2>1. /\ units \in Seq(Unit) /\ Len(units) = 1 + (b - a)
        /\ \A i \in 1..(1 + (b - a)) : units[i] = IF i <= 1 THEN <<head>>[i] ELSE body[i - 1]
    BY <1>9, <1>10, ConcatProperties
  <2> HIDE DEF units
  <2>2. 1 \in 1..(1 + (b - a)) /\ \A k \in 1..(b - a) :
          1 + k \in 1..(1 + (b - a)) /\ ~(1 + k <= 1) /\ (1 + k) - 1 = k
    BY <1>3, <1>6
  <2> QED BY <1>9, <2>1, <2>2
<1>12. wire' = wire \o units
  <2> DEFINE front == <<head>>
  <2>1. wire \in Seq(Unit) /\ front \in Seq(Unit) /\ wire' = ((wire \o front) \o <<>>) \o body
    BY <1>1, <1>2, <1>9
  <2> HIDE DEF front
  <2>2. wire' = (wire \o front) \o body
    BY <2>1, NothingMore
  <2>3. body \in Seq(Unit)
    BY <1>10
  <2>4. (wire \o front) \o body = wire \o (front \o body)
    BY <2>1, <2>3, ConcatAssociative
  <2> QED BY <2>2, <2>4 DEF front
<1> HIDE DEF units
<1>13. wire' \in Seq(Unit)
  BY <1>2, <1>11, <1>12, ConcatProperties
<1>14. at.pos # "failed" =>
         \E text, c, e : /\ Leads(sent', finished', text, c, e) /\ Here(text, c)'
                         /\ e.pos = c.pos + Len(wire')
                         /\ CaughtUp(sent', finished', writing', lastSent', peerChunk', e)
  <2> SUFFICES ASSUME at.pos # "failed"
               PROVE  \E text, c, e :
                        /\ Leads(sent', finished', text, c, e) /\ Here(text, c)'
                        /\ e.pos = c.pos + Len(wire')
                        /\ CaughtUp(sent', finished', writing', lastSent', peerChunk', e)
    OBVIOUS
  <2>1. PICK text, c, d : Ahead(text, c, d, units)
    BY <1>7, <1>8, <1>1, <1>11, <1>12, AheadOf
  <2>2. /\ c \in Reader /\ d \in Reader /\ Fine(sent, finished, d.delivered)
        /\ CaughtUp(sent, finished, writing, lastSent, peerChunk, d)
    BY <2>1 DEF Ahead
  <2>3. /\ Here(text, c)' /\ \A k \in 1..Len(units) : text[d.pos + k] = units[k]
    BY <2>1 DEF Ahead
  <2>4. c.pos + Len(wire') = d.pos + Len(units)
    BY <2>1 DEF Ahead
  <2>5. Leads(sent', finished', text, c, d)
    BY <2>1 DEF Ahead
  <2>6. text[d.pos + 1] = Basic(3, cid)
    <3>1. 1 \in 1..Len(units)
      BY <1>6, <1>3, <1>11
    <3> QED BY <1>11, <2>3, <3>1 DEF head
  <2>7. PICK e \in Reader :
          /\ Placed(e) /\ Reads(sent', text, d, e) /\ e.pos = d.pos + 1
          /\ e.at = [pos |-> "data", cid |-> cid, fmt |-> None]
          /\ e.states = d.states /\ e.chunk = d.chunk /\ e.delivered = d.delivered
    <3> DEFINE s == sent'
    <3> HIDE DEF s
    <3>1. \E e \in Reader :
            /\ Placed(e) /\ Reads(s, text, d, e) /\ e.pos = d.pos + 1
            /\ e.at = [pos |-> "data", cid |-> cid, fmt |-> None]
            /\ e.states = d.states /\ e.chunk = d.chunk /\ e.delivered = d.delivered
      <4>1. UpTo(d, text, Bare(cid))
        BY <1>1, <1>2, <2>2, <2>6 DEF UpTo, Bare
      <4>2. writing[cid] # None
        BY <1>1
      <4> QED BY <4>1, <4>2, NextChunkRead
    <3> QED BY <3>1 DEF s
  <2>8. d.pos \in Nat /\ d.delivered \in Seq(Message)
    BY <2>2 DEF Reader
  <2>9. Fine(sent', finished', e.delivered) /\ Fine(sent', finished, e.delivered)
    BY <1>1, <1>2, <1>7, <1>8, <2>2, <2>7, <2>8, FineKept
  <2>10. Leads(sent', finished', text, c, e)
    BY <2>5, <2>7, <2>8, <2>9, LeadsOn
  <2>11. KnowsOthers(sent', writing, lastSent, cid, e.states)
    BY <1>2, <1>7, <2>2, <2>7, OthersKept
  <2>12. Carries(text, e.pos, id, a, b)
    <3> SUFFICES ASSUME NEW k \in 1..(b - a)
                 PROVE  text[e.pos + k] = [unit |-> "byte", id |-> id, pos |-> a + k]
      BY DEF Carries
    <3>1. 1 + k \in 1..Len(units) /\ e.pos + k = d.pos + (1 + k)
      <4> DEFINE n == b - a
                 from == d.pos
      <4>1. n \in Nat /\ k \in 1..n /\ Len(units) = 1 + n /\ from \in Nat /\ e.pos = from + 1
        BY <1>3, <1>6, <1>11, <2>7, <2>8
      <4> HIDE DEF n, from
      <4>2. 1 + k \in 1..(1 + n) /\ (from + 1) + k = from + (1 + k)
        BY <4>1
      <4> QED BY <4>1, <4>2 DEF from
    <3>2. text[d.pos + (1 + k)] = units[1 + k]
      BY <2>3, <3>1
    <3> QED BY <1>10, <1>11, <3>1, <3>2
  <2>13. e.states[cid] = [ts |-> m.ts, length |-> m.length, kind |-> m.kind,
                          payload |-> Bytes(id, 1, a)]
    BY <1>1, <1>3, <2>2, <2>7 DEF CaughtUp, StateOf, PartOf, m, a
  <2>14. Body(sent', id, sent'[id], finished, writing, lastSent, peerChunk, text, e, a, b,
              writing', lastSent', finished', peerChunk')
    <3>1. sent' \in Seq(Messages) /\ id \in 1..Len(sent') /\ finished \in Seq(Nat)
            /\ (m.kind = "abort" => m.value # m.cid)
      BY <1>2, <1>3, <1>7, <1>1 DEF WriterInv, SentKept
    <3>2. Len(e.delivered) = Len(finished) /\ SameSize(e.chunk, peerChunk)
      BY <1>1, <2>2, <2>7 DEF CaughtUp
    <3>3. b = Smaller(m.length, a + peerChunk)
      BY DEF b
    <3>4. Notes(id, m, b, writing, lastSent, finished, peerChunk,
                writing', lastSent', finished', peerChunk')
      BY <1>1, WrittenNotes
    <3> QED BY <1>1, <1>3, <1>5, <1>7, <2>7, <2>9, <2>11, <2>12, <2>13, <3>1, <3>2, <3>3, <3>4
            DEF Body
  <2>15. PICK g \in Reader :
           /\ Leads(sent', finished', text, c, g) /\ g.pos = e.pos + (b - a)
           /\ CaughtUp(sent', finished', writing', lastSent', peerChunk', g)
    BY <1>7, <1>8, <2>10, <2>14, BodyEnds
  <2>16. g.pos = c.pos + Len(wire')
    BY <1>3, <1>6, <1>11, <2>4, <2>7, <2>8, <2>15
  <2> QED BY <2>3, <2>15, <2>16
<1> QED BY <1>1, <1>7, <1>8, <1>13, <1>14, WriterStep

\* A message begins.
LEMMA BeginStep ==
  ASSUME CourseInv, NEW m \in Messages, NEW fmt \in 0..3, Begin(m, fmt, FALSE)
  PROVE  CourseInv'
<1> DEFINE id == Len(sent) + 1
           b == Smaller(m.length, peerChunk)
           units == Opening(fmt, m, id, b)
           n == HeaderLength(fmt)
<1>1. IsMessage(m)
  BY MessagesAre
<1>2. /\ WriterInv /\ wire \in Seq(Unit) /\ sent \in Seq(Messages) /\ Len(sent) \in Nat
      /\ peerChunk \in Nat
  BY LenProperties DEF CourseInv, WriterInv
<1>3. /\ writing[m.cid] = None /\ peerChunk > 0 /\ MayCompress(fmt, m)
      /\ m.kind = "abort" => m.value # m.cid
      /\ sent' = Append(sent, m) /\ Written(id, m, b) /\ UNCHANGED readerVars
      /\ wire' = wire \o <<Basic(fmt, m.cid)>> \o Header(fmt, m) \o <<>> \o Bytes(id, 1, b)
  BY DEF Begin, Repetition
<1>4. /\ m.cid \in Cids /\ m.length \in Nat /\ m.length \in 0..MaxChunk
      /\ b \in Nat /\ b <= m.length /\ (m.length > 0 => b > 0)
      /\ (m.length = 0 => b = 0)
  BY <1>1, <1>2, <1>3, SizesAssumption DEF IsMessage, Smaller
<1>5. id \in Nat
  BY <1>2
<1>6. /\ sent' \in Seq(Messages) /\ Len(sent') = id /\ sent'[id] = m
      /\ \A i \in 1..Len(sent) : sent'[i] = sent[i]
  BY <1>2, <1>3
<1>7. \A i \in 1..id : i = id \/ i \in 1..Len(sent)
  BY <1>2
<1>8. SentKept /\ id \in 1..Len(sent')
  <2>1. Len(sent) <= id /\ id \in 1..id
    BY <1>2
  <2> HIDE DEF id
  <2>2. \A i \in 1..Len(sent') : sent'[i].kind = "abort" => sent'[i].value # sent'[i].cid
    BY <1>2, <1>3, <1>6, <1>7 DEF WriterInv
  <2> QED BY <1>6, <2>1, <2>2 DEF SentKept
<1> HIDE DEF id, b
<1>9. Notes(id, m, b, writing, lastSent, finished, peerChunk,
            writing', lastSent', finished', peerChunk')
  BY <1>3, WrittenNotes
<1>10. Noted(id, b)
  BY <1>4, <1>6, <1>8, <1>9 DEF Noted
<1>11. /\ units \in Seq(Unit) /\ Len(units) = n + b /\ units[1] = Basic(fmt, m.cid)
       /\ fmt # 3 => units[2] = Header(fmt, m)[1]
       /\ \A k \in 1..b : units[n + k] = [unit |-> "byte", id |-> id, pos |-> k]
  <2>1. WriterInv /\ IsMessage(m) /\ MayCompress(fmt, m) /\ id \in Nat /\ b \in Nat
    BY <1>1, <1>2, <1>3, <1>4, <1>5
  <2>2. IsOpening(units, fmt, m, id, b)
    BY <2>1, OpeningIs
  <2> HIDE DEF units
  <2> QED BY <2>2 DEF IsOpening
<1>12. n \in {1, 2} /\ (fmt # 3 => n = 2)
  BY DEF HeaderLength
<1>13. wire' = wire \o units
  <2> DEFINE x == <<Basic(fmt, m.cid)>>
             y == Header(fmt, m)
             z == Bytes(id, 1, b)
  <2>1. x \in Seq(Unit) /\ y \in Seq(Unit) /\ z \in Seq(Unit)
    BY <1>1, <1>2, <1>3, <1>4, <1>5, HeaderUnits, BytesUpTo
  <2>2. wire' = (((wire \o x) \o y) \o <<>>) \o z /\ units = (x \o y) \o z
    BY <1>3 DEF Opening
  <2> HIDE DEF x, y, z, units
  <2>6. ((wire \o x) \o y) \o <<>> = (wire \o x) \o y
    BY <1>2, <2>1, NothingMore, ConcatProperties
  <2>3. (wire \o x) \o y = wire \o (x \o y) /\ x \o y \in Seq(Unit)
    BY <1>2, <2>1, ConcatAssociative, ConcatProperties
  <2> DEFINE front == x \o y
  <2>4. (wire \o front) \o z = wire \o (front \o z)
    <3>1. wire \in Seq(Unit) /\ front \in Seq(Unit) /\ z \in Seq(Unit)
      BY <1>2, <2>1, <2>3
    <3> HIDE DEF front
    <3> QED BY <3>1, ConcatAssociative
  <2> QED BY <2>2, <2>3, <2>4, <2>6
<1> HIDE DEF units, n
<1>14. wire' \in Seq(Unit)
  BY <1>2, <1>11, <1>13, ConcatProperties
<1>15. at.pos # "failed" =>
         \E text, c, e : /\ Leads(sent', finished', text, c, e) /\ Here(text, c)'
                         /\ e.pos = c.pos + Len(wire')
                         /\ CaughtUp(sent', finished', writing', lastSent', peerChunk', e)
  <2> SUFFICES ASSUME at.pos # "failed"
               PROVE  \E text, c, e :
                        /\ Leads(sent', finished', text, c, e) /\ Here(text, c)'
                        /\ e.pos = c.pos + Len(wire')
                        /\ CaughtUp(sent', finished', writing', lastSent', peerChunk', e)
    OBVIOUS
  <2>1. PICK text, c, d : Ahead(text, c, d, units)
    BY <1>3, <1>8, <1>10, <1>11, <1>13, AheadOf
  <2>2. /\ c \in Reader /\ d \in Reader /\ Fine(sent, finished, d.delivered)
        /\ CaughtUp(sent, finished, writing, lastSent, peerChunk, d)
    BY <2>1 DEF Ahead
  <2>3. /\ Here(text, c)' /\ \A k \in 1..Len(units) : text[d.pos + k] = units[k]
    BY <2>1 DEF Ahead
  <2>4. c.pos + Len(wire') = d.pos + Len(units)
    BY <2>1 DEF Ahead
  <2>5. Leads(sent', finished', text, c, d)
    BY <2>1 DEF Ahead
  <2>6. Opens(fmt, m, d, text)
    <3>1. text[d.pos + 1] = Basic(fmt, m.cid)
      <4>1. 1 \in 1..Len(units)
        BY <1>4, <1>11, <1>12
      <4> QED BY <1>11, <2>3, <4>1
    <3>2. fmt # 3 => text[d.pos + 2] = Header(fmt, m)[1]
      <4>1. fmt # 3 => 2 \in 1..Len(units)
        BY <1>4, <1>11, <1>12
      <4> QED BY <1>11, <2>3, <4>1
    <3> QED BY <1>1, <1>2, <1>3, <2>2, <3>1, <3>2 DEF Opens
  <2>7. d.pos \in Nat /\ d.delivered \in Seq(Message) /\ Fine(sent', finished', d.delivered)
    BY <1>2, <1>8, <1>10, <2>2, FineKept DEF Reader
  <2>8. PICK e \in Reader :
          /\ Placed(e) /\ Leads(sent', finished', text, c, e) /\ AfterHeaderOf(m, n, d, e)
    <3> DEFINE s == sent'
               f == finished'
    <3>1. Leads(s, f, text, c, d) /\ Fine(s, f, d.delivered)
      BY <2>5, <2>7
    <3> HIDE DEF s, f
    <3>2. \E e \in Reader :
            /\ Placed(e) /\ Leads(s, f, text, c, e) /\ AfterHeaderOf(m, n, d, e)
      BY <2>6, <3>1, HeaderLeads DEF n
    <3> QED BY <3>2 DEF s, f
  <2>9. /\ e.pos = d.pos + n /\ e.chunk = d.chunk /\ e.delivered = d.delivered
        /\ e.states[m.cid] = [ts |-> m.ts, length |-> m.length, kind |-> m.kind, payload |-> <<>>]
        /\ \A x \in Cids : x # m.cid => e.states[x] = d.states[x]
    BY <2>8 DEF AfterHeaderOf
  <2>10. KnowsOthers(sent', writing, lastSent, m.cid, e.states)
    BY <1>2, <1>8, <2>2, <2>9, OthersKept
  <2>11. /\ Len(e.delivered) = Len(finished) /\ SameSize(e.chunk, peerChunk)
    BY <1>3, <2>2, <2>9 DEF CaughtUp
  <2>12. CASE m.length = 0
    <3>1. b = 0
      BY <1>4, <2>12
    <3>2. CaughtUp(sent', finished', writing', lastSent', peerChunk', e)
      <4> DEFINE s == sent'
                 f2 == finished'
                 w2 == writing'
                 l2 == lastSent'
                 size2 == peerChunk'
      <4>1. /\ m = s[id] /\ KnowsOthers(s, writing, lastSent, m.cid, e.states)
            /\ Notes(id, m, 0, writing, lastSent, finished, peerChunk, w2, l2, f2, size2)
        BY <1>6, <1>9, <2>10, <3>1
      <4> HIDE DEF s, f2, w2, l2, size2
      <4>2. CaughtUp(s, f2, w2, l2, size2, e)
        BY <1>1, <1>2, <1>3, <1>5, <2>8, <2>11, <2>12, <4>1, EmptyRead
      <4> QED BY <4>2 DEF s, f2, w2, l2, size2
    <3>3. e.pos = c.pos + Len(wire')
      BY <1>11, <2>4, <2>7, <2>9, <3>1, <1>12
    <3> QED BY <2>3, <2>8, <3>2, <3>3
  <2>13. CASE m.length # 0
    <3>1. e.at = [pos |-> "data", cid |-> m.cid, fmt |-> None]
      BY <2>8, <2>13 DEF AfterHeaderOf
    <3>2. Carries(text, e.pos, id, 0, b)
      <4> SUFFICES ASSUME NEW k \in 1..(b - 0)
                   PROVE  text[e.pos + k] = [unit |-> "byte", id |-> id, pos |-> 0 + k]
        BY DEF Carries
      <4>1. k \in 1..b /\ n + k \in 1..Len(units) /\ e.pos + k = d.pos + (n + k) /\ 0 + k = k
        <5> DEFINE from == d.pos
        <5>1. b \in Nat /\ Len(units) = n + b /\ from \in Nat /\ e.pos = from + n /\ n \in {1, 2}
          BY <1>4, <1>11, <1>12, <2>7, <2>9
        <5> HIDE DEF from
        <5>2. k \in 1..b /\ n + k \in 1..(n + b) /\ (from + n) + k = from + (n + k) /\ 0 + k = k
          BY <5>1
        <5> QED BY <5>1, <5>2 DEF from
      <4>2. text[d.pos + (n + k)] = units[n + k]
        BY <2>3, <4>1
      <4> QED BY <1>11, <4>1, <4>2
    <3>3. Bytes(id, 1, 0) = <<>>
      <4>1. Bytes(id, 1, 0) \in Seq(Unit) /\ Len(Bytes(id, 1, 0)) = 0
        BY <1>5, BytesUpTo
      <4> QED BY <4>1, EmptySeq
    <3>4. Body(sent', id, sent'[id], finished, writing, lastSent, peerChunk, text, e, 0, b,
               writing', lastSent', finished', peerChunk')
      <4>1. sent' \in Seq(Messages) /\ id \in 1..Len(sent') /\ finished \in Seq(Nat)
        BY <1>2, <1>6, <1>8 DEF WriterInv
      <4>2. Fine(sent', finished, e.delivered)
        <5>1. \A i \in 1..Len(finished) : sent'[finished[i]] = sent[finished[i]]
          BY <1>2, <1>6 DEF WriterInv
        <5>2. Len(d.delivered) = Len(finished)
          BY <2>2 DEF CaughtUp
        <5> QED BY <2>2, <2>9, <5>1, <5>2 DEF Fine, WholeOf
      <4>3. b = Smaller(m.length, 0 + peerChunk)
        BY <1>2 DEF b
      <4>4. 0 \in Nat /\ 0 < m.length
        BY <1>4, <2>13
      <4>5. e.states[m.cid] = [ts |-> m.ts, length |-> m.length, kind |-> m.kind,
                               payload |-> Bytes(id, 1, 0)]
        BY <2>9, <3>3
      <4> QED BY <1>1, <1>2, <1>3, <1>6, <1>9, <2>8, <2>10, <2>11, <3>1, <3>2,
                 <4>1, <4>2, <4>3, <4>4, <4>5 DEF Body
    <3>5. PICK g \in Reader :
            /\ Leads(sent', finished', text, c, g) /\ g.pos = e.pos + (b - 0)
            /\ CaughtUp(sent', finished', writing', lastSent', peerChunk', g)
      BY <1>8, <1>10, <2>8, <3>4, BodyEnds
    <3>6. g.pos = c.pos + Len(wire')
      BY <1>4, <1>11, <1>12, <2>4, <2>7, <2>9, <3>5
    <3> QED BY <2>3, <3>5, <3>6
  <2> QED BY <2>12, <2>13
<1> QED BY <1>3, <1>8, <1>10, <1>14, <1>15, WriterStep

-----------------------------------------------------------------------------
(***************************************************************************)
(* The invariant holds.                                                    *)
(***************************************************************************)

\* At first nothing is written, and the reader is at the end of its course.
LEMMA ChunkInit ==
  ASSUME Init
  PROVE  CourseInv
<1>1. <<>> \in Seq(Messages) /\ <<>> \in Seq(Nat) /\ <<>> \in Seq(Unit) /\ <<>> \in Seq(Message)
      /\ Len(<<>>) = 0
  BY EmptySeq
<1>2. DefaultChunk \in Nat /\ DefaultChunk > 0
  BY SizesAssumption
<1>3. WriterInv
  <2>1. writing \in [Cids -> Progress \cup {None}] /\ lastSent \in [Cids -> Nat \cup {None}]
        /\ peerChunk \in Nat /\ \A c \in Cids : writing[c] = None /\ lastSent[c] = None
    BY <1>2 DEF Init
  <2>2. sent = <<>> /\ finished = <<>> /\ wire = <<>>
    BY DEF Init
  <2> QED BY <1>1, <2>1, <2>2 DEF WriterInv
<1> DEFINE c == [pos |-> 0, at |-> AtBasic, states |-> states, chunk |-> chunk,
                 window |-> window, delivered |-> delivered]
           run == [k \in Nat |-> c]
           zero == 0
<1>4. /\ c.pos = 0 /\ c.at = AtBasic /\ c.states = states /\ c.chunk = chunk
      /\ c.window = window /\ c.delivered = delivered
  OBVIOUS
<1>5. c \in Reader
  <2>1. AtBasic \in Place
    BY DEF AtBasic, Place
  <2>2. states \in [Cids -> State \cup {None}] /\ chunk \in Nat /\ window \in Nat
        /\ delivered \in Seq(Message)
    BY <1>1, <1>2 DEF Init
  <2> QED BY <2>1, <2>2 DEF Reader
<1>6. zero \in Nat /\ run[zero] = c /\ zero <= zero /\ (\A k \in zero..zero : k = zero)
        /\ (\A k \in zero..(zero - 1) : FALSE)
  OBVIOUS
<1> HIDE DEF c, run, zero
<1>7. Placed(c)
  BY <1>4 DEF Placed, AtBasic
<1>8. Fine(sent, finished, c.delivered) /\ Fine(sent, finished, delivered)
  BY <1>1, <1>4 DEF Fine, Init
<1>9. c.pos <= c.pos
  BY <1>4
<1>10. Course(sent, finished, zero, run, zero, zero)
  BY <1>5, <1>6, <1>7, <1>8, <1>9 DEF Course
<1>11. at = AtBasic /\ wire = <<>> /\ delivered = <<>> /\ finished = <<>>
       /\ chunk = DefaultChunk /\ peerChunk = DefaultChunk /\ \A x \in Cids : lastSent[x] = None
  BY DEF Init, AtBasic
<1>12. Here(zero, run[zero])
  BY <1>1, <1>4, <1>6, <1>11 DEF Here
<1>13. run[zero].pos = run[zero].pos + Len(wire)
  BY <1>1, <1>4, <1>6, <1>11
<1>14. CaughtUp(sent, finished, writing, lastSent, peerChunk, run[zero])
  BY <1>2, <1>4, <1>6, <1>11 DEF CaughtUp, SameSize
<1>15. OnCourse
  BY <1>10, <1>12, <1>13, <1>14 DEF OnCourse
<1>16. at.pos = "basic" /\ delivered \in Seq(Message)
  BY <1>1, <1>11 DEF AtBasic
<1>17. received \in Nat /\ acked \in Nat /\ window \in Nat
  BY DEF Init
<1> QED BY <1>3, <1>8, <1>15, <1>16, <1>17 DEF CourseInv, ReaderInv

\* A chunk's need is a number.
LEMMA NeedIs ==
  ASSUME CourseInv, at.pos = "data"
  PROVE  Need(states[at.cid]) \in Nat
<1>1. PICK log, run, lo, hi :
        Course(sent, finished, log, run, lo, hi) /\ Here(log, run[lo])
  BY DEF CourseInv, ReaderInv, OnCourse
<1> DEFINE c == run[lo]
<1>2. lo \in lo..hi
  BY <1>1 DEF Course
<1>3. c \in Reader /\ Placed(c) /\ c.at = at /\ c.states = states /\ c.chunk = chunk
  BY <1>1, <1>2 DEF Course, Here
<1> HIDE DEF c
<1>4. Taken(c) \in Nat
  BY <1>3, TakenIs
<1> QED BY <1>3, <1>4 DEF Taken, Need

\* A reader that times out has failed.
LEMMA TimeOutStep ==
  ASSUME ~Resumes, CourseInv, TimeOut
  PROVE  CourseInv'
<1>1. /\ at'.pos = "failed" /\ UNCHANGED peerVars
      /\ delivered' = delivered /\ received' = received /\ window' = window /\ acked' = acked
  BY DEF TimeOut, AtBasic
<1>2. wire \in Seq(Unit) /\ Len(wire) \in Nat
  BY LenProperties DEF CourseInv, WriterInv
<1>3. wire' \in Seq(Unit)
  <2>1. CASE at.pos = "data"
    <3> DEFINE need == Need(states[at.cid])
    <3>1. need \in Nat
      BY <2>1, NeedIs
    <3>2. PICK n \in 0..(need - 1) : n <= Len(wire) /\ wire' = SubSeq(wire, n + 1, Len(wire))
      BY <2>1 DEF TimeOut
    <3> HIDE DEF need
    <3> DEFINE first == n + 1
               last == Len(wire)
    <3>3. first \in 1..(last + 1) /\ last \in Nat
      BY <1>2, <3>1, <3>2
    <3>4. first \in Int /\ last \in Int /\ \A i \in first..last : wire[i] \in Unit
      BY <1>2, <3>3, ElementOfSeq
    <3>5. wire' = SubSeq(wire, first, last)
      BY <3>2
    <3> HIDE DEF first, last
    <3> QED BY <3>4, <3>5, SubSeqProperties
  <2>2. CASE at.pos # "data"
    BY <1>2, <2>2 DEF TimeOut
  <2> QED BY <2>1, <2>2
<1>4. WriterInv'
  BY <1>1, <1>3 DEF CourseInv, WriterInv, peerVars
<1>5. Fine(sent, finished, delivered)'
  BY <1>1 DEF CourseInv, ReaderInv, Fine, WholeOf, peerVars
<1> QED BY <1>1, <1>4, <1>5 DEF CourseInv, ReaderInv

\* Nothing happens.
LEMMA ChunkStutter ==
  ASSUME CourseInv, UNCHANGED vars
  PROVE  CourseInv'
<1>1. /\ UNCHANGED peerVars /\ UNCHANGED readerVars /\ wire' = wire
  BY DEF vars
<1>2. WriterInv'
  BY <1>1 DEF CourseInv, WriterInv, peerVars
<1>3. Fine(sent, finished, delivered)'
  BY <1>1 DEF CourseInv, ReaderInv, Fine, WholeOf, peerVars, readerVars
<1>4. /\ at' = at /\ delivered' = delivered /\ received' = received /\ acked' = acked
      /\ window' = window
  BY <1>1 DEF readerVars
<1>5. at.pos # "failed" => OnCourse'
  <2> SUFFICES ASSUME at.pos # "failed" PROVE OnCourse'
    OBVIOUS
  <2>1. PICK log, run, lo, hi :
          /\ Course(sent, finished, log, run, lo, hi)
          /\ Here(log, run[lo])
          /\ run[hi].pos = run[lo].pos + Len(wire)
          /\ CaughtUp(sent, finished, writing, lastSent, peerChunk, run[hi])
    BY DEF CourseInv, ReaderInv, OnCourse
  <2>2. /\ sent' = sent /\ finished' = finished /\ writing' = writing
        /\ lastSent' = lastSent /\ peerChunk' = peerChunk
    BY <1>1 DEF peerVars
  <2>3. Here(log, run[lo])'
    BY <1>1, <2>1 DEF Here, readerVars
  <2> QED BY <1>1, <2>1, <2>2, <2>3 DEF OnCourse
<1> QED BY <1>2, <1>3, <1>4, <1>5 DEF CourseInv, ReaderInv

\* Every step keeps the reader on course that repeats no extended timestamp.
LEMMA CourseStep ==
  ASSUME ~Resumes, CourseInv, [Next]_vars, ~repeated'
  PROVE  CourseInv'
<1>1. CASE \E m \in Messages, fmt \in Formats, again \in BOOLEAN : Begin(m, fmt, again)
  <2>1. PICK m \in Messages, fmt \in Formats, again \in BOOLEAN : Begin(m, fmt, again)
    BY <1>1
  <2>2. fmt \in 0..3
    BY FormatsAssumption
  <2>3. again = FALSE
    BY <2>1 DEF Begin, Repeats
  <2>4. Begin(m, fmt, FALSE)
    BY <2>1, <2>3
  <2> QED BY <2>2, <2>4, BeginStep
<1>2. CASE \E c \in Cids, again \in BOOLEAN : Continue(c, again)
  <2>1. PICK c \in Cids, again \in BOOLEAN : Continue(c, again)
    BY <1>2
  <2>2. again = FALSE
    BY <2>1 DEF Continue, Repeats
  <2>3. ContinuePlain(c)
    BY <2>1, <2>2 DEF ContinuePlain
  <2> QED BY <2>3, ContinueStep
<1>3. CASE ReadBasic
  BY <1>3, ReadBasicStep
<1>4. CASE ReadHead
  BY <1>4, ReadHeadStep
<1>5. CASE ReadData
  BY <1>5, ReadDataStep
<1>6. CASE TimeOut
  BY <1>6, TimeOutStep
<1>7. CASE UNCHANGED vars
  BY <1>7, ChunkStutter
<1> QED BY <1>1, <1>2, <1>3, <1>4, <1>5, <1>6, <1>7 DEF Next

\* What was repeated stays so, and nothing is promised from then on.
LEMMA ChunkStep ==
  ASSUME ~Resumes, ChunkInv, [Next]_vars
  PROVE  ChunkInv'
<1>1. repeated => repeated'
  BY DEF Next, Begin, Continue, Repeats, ReadBasic, ReadHead, ReadData, TimeOut, peerVars, vars
<1> QED BY <1>1, CourseStep DEF ChunkInv

\* As long as the peer repeats no extended timestamp, and where a reader that
\* timed out does not read on, the reader is on a course that leads it to
\* everything the writer takes it to know.
THEOREM ChunkOnCourse == ASSUME ~Resumes PROVE Spec => []ChunkInv
<1>1. Init => ChunkInv
  BY ChunkInit DEF ChunkInv
<1>2. ChunkInv /\ [Next]_vars => ChunkInv'
  BY ChunkStep
<1> QED BY <1>1, <1>2, PTL DEF Spec

-----------------------------------------------------------------------------
(***************************************************************************)
(* What it is for.                                                         *)
(***************************************************************************)

\* On its course the reader is in step.
LEMMA OnCourseInStep ==
  ASSUME ChunkInv
  PROVE  InStep
<1> SUFFICES ASSUME CourseInv, at.pos \in {"basic", "head", "data"}, wire # <<>> \/ at.pos # "basic"
             PROVE  InStep
  BY DEF InStep, ChunkInv
<1>1. wire \in Seq(Unit) /\ Len(wire) \in Nat /\ at.pos # "failed"
  BY LenProperties DEF CourseInv, WriterInv
<1>2. PICK log, run, lo, hi :
        /\ Course(sent, finished, log, run, lo, hi)
        /\ Here(log, run[lo])
        /\ run[hi].pos = run[lo].pos + Len(wire)
        /\ CaughtUp(sent, finished, writing, lastSent, peerChunk, run[hi])
  BY <1>1 DEF CourseInv, ReaderInv, OnCourse
<1> DEFINE c == run[lo]
           d == run[lo + 1]
<1>3. c \in Reader /\ Placed(c) /\ Reads(sent, log, c, d) /\ d.pos <= c.pos + Len(wire)
  BY <1>1, <1>2, CourseGoesOn DEF CourseInv
<1>4. /\ c.at = at /\ c.states = states /\ c.chunk = chunk /\ Here(log, c)
      /\ \A i \in 1..Len(wire) : wire[i] = log[c.pos + i]
  BY <1>2 DEF Here
<1> HIDE DEF c, d
<1>5. c.pos \in Nat
  BY <1>3 DEF Reader
<1>6. CASE at.pos = "basic"
  <2>1. log[c.pos + 1].unit = "basic"
    BY <1>3, <1>4, <1>6 DEF Reads, ReadsBasic, ReadsHead, ReadsData
  <2>2. Head(wire) = log[c.pos + 1]
    BY <1>1, <1>4, <1>6, FirstUnit
  <2> QED BY <1>6, <2>1, <2>2 DEF InStep
<1>7. CASE at.pos = "head"
  <2>1. log[c.pos + 1].unit = "head" /\ d.pos = c.pos + 1
    BY <1>3, <1>4, <1>7 DEF Reads, ReadsBasic, ReadsHead, ReadsData
  <2>2. Len(wire) # 0
    BY <1>1, <1>3, <1>5, <2>1
  <2>3. wire # <<>>
    BY <2>2, EmptySeq
  <2>4. Head(wire) = log[c.pos + 1]
    BY <1>1, <1>4, <2>3, FirstUnit
  <2> QED BY <1>7, <2>1, <2>3, <2>4 DEF InStep
<1>8. CASE at.pos = "data"
  <2> DEFINE need == Need(states[at.cid])
  <2>1. need = Taken(c)
    BY <1>4 DEF Taken, Need
  <2>2. need \in Nat
    BY <1>8, NeedIs
  <2>3. d.pos = c.pos + need /\ \A k \in 1..need : log[c.pos + k].unit = "byte"
    BY <1>3, <1>4, <1>8, <2>1 DEF Reads, ReadsBasic, ReadsHead, ReadsData
  <2> HIDE DEF need
  <2>4. need <= Len(wire) /\ \A k \in 1..need : k \in 1..Len(wire)
    BY <1>1, <1>3, <1>5, <2>2, <2>3
  <2>5. \A k \in 1..need : wire[k].unit = "byte"
    BY <1>4, <2>3, <2>4
  <2> QED BY <1>8, <2>4, <2>5 DEF InStep, need
<1> QED BY <1>6, <1>7, <1>8

\* A reader between messages that has read everything is at the end of its
\* course.
LEMMA OnCourseWhole ==
  ASSUME ChunkInv
  PROVE  DeliveredWhole
<1> SUFFICES ASSUME CourseInv PROVE DeliveredWhole
  BY DEF DeliveredWhole, ChunkInv
<1>1. Fine(sent, finished, delivered) /\ delivered \in Seq(Message) /\ Len(delivered) \in Nat
      /\ DOMAIN delivered = 1..Len(delivered)
  BY LenProperties DEF CourseInv, ReaderInv
<1>2. \A id : WholeOf(sent, id) = Whole(id)
  BY DEF WholeOf, Whole
<1>3. Len(delivered) <= Len(finished) /\ \A i \in DOMAIN delivered : delivered[i] = Whole(finished[i])
  BY <1>1, <1>2 DEF Fine
<1>4. at.pos = "basic" /\ wire = <<>> => Len(delivered) = Len(finished)
  <2> SUFFICES ASSUME at.pos = "basic", wire = <<>> PROVE Len(delivered) = Len(finished)
    OBVIOUS
  <2>1. PICK log, run, lo, hi :
          /\ Course(sent, finished, log, run, lo, hi)
          /\ Here(log, run[lo])
          /\ run[hi].pos = run[lo].pos + Len(wire)
          /\ CaughtUp(sent, finished, writing, lastSent, peerChunk, run[hi])
    BY DEF CourseInv, ReaderInv, OnCourse
  <2>2. Len(wire) = 0
    BY EmptySeq
  <2>3. lo \in Nat /\ hi \in Nat /\ lo <= hi
    BY <2>1 DEF Course
  <2>4. lo = hi
    <3> SUFFICES ASSUME lo # hi PROVE FALSE
      OBVIOUS
    <3>1. lo \in lo..hi /\ lo + 1 \in lo..hi /\ lo \in lo..(hi - 1)
      BY <2>3
    <3> DEFINE c == run[lo]
               d == run[lo + 1]
    <3>2. /\ c \in Reader /\ d.pos <= run[hi].pos /\ Reads(sent, log, c, d)
          /\ c.at.pos = "basic" /\ run[hi].pos = c.pos + 0
      BY <2>1, <2>2, <3>1 DEF Course, Here
    <3> HIDE DEF c, d
    <3>3. d.pos = c.pos + 1 /\ c.pos \in Nat
      BY <3>2 DEF Reads, ReadsBasic, ReadsHead, ReadsData, Reader
    <3> QED BY <3>2, <3>3
  <2>5. run[hi].delivered = delivered
    BY <2>1, <2>4 DEF Here
  <2> QED BY <2>1, <2>5 DEF CaughtUp
<1> QED BY <1>3, <1>4 DEF DeliveredWhole

\* The window is acknowledged with the message that fills it.
LEMMA AckStep ==
  ASSUME ChunkInv, [Next]_vars, ~repeated, delivered' # delivered
  PROVE  window = 0 \/ received' - acked' < window
<1> USE DEF ChunkInv
<1>1. ReadData
  BY DEF Next, Begin, Continue, ReadBasic, ReadHead, TimeOut, readerVars, vars
<1> DEFINE need == Need(states[at.cid])
           now == received + need
<1>2. need \in Nat /\ received \in Nat /\ acked \in Nat /\ window \in Nat
  BY <1>1, NeedIs DEF ReadData, CourseInv, ReaderInv
<1>3. received' = now
  BY <1>1 DEF ReadData, Consume
<1>4. acked' = Acked(now)
  BY <1>1 DEF ReadData
<1> HIDE DEF need
<1>5. now \in Nat
  BY <1>2
<1> HIDE DEF now
<1> QED BY <1>2, <1>3, <1>4, <1>5 DEF Acked

\* As long as the peer repeats no extended timestamp, ChunkReader is never out of
\* step with the writer: what it is about to read is what was written there,
\* whatever interleaves, changes the chunk size, has an extended timestamp or is
\* aborted.
THEOREM ChunkInStep == ASSUME ~Resumes PROVE Spec => []InStep
<1>1. ChunkInv => InStep
  BY OnCourseInStep
<1> QED BY <1>1, ChunkOnCourse, PTL

\* As long as the peer repeats no extended timestamp, read_message returns the
\* messages written whole, each as it was sent, in the order in which they were
\* completed, and none is missing.
THEOREM ChunkDeliveredWhole == ASSUME ~Resumes PROVE Spec => []DeliveredWhole
<1>1. ChunkInv => DeliveredWhole
  BY OnCourseWhole
<1> QED BY <1>1, ChunkOnCourse, PTL

\* As long as the peer repeats no extended timestamp, its window is acknowledged
\* whenever a message is returned.
THEOREM ChunkAckCurrent == ASSUME ~Resumes PROVE Spec => AckCurrent
<1>1. ChunkInv /\ [Next]_vars
        => [~repeated /\ delivered' # delivered => window = 0 \/ received' - acked' < window]_vars
  BY AckStep
<1> QED BY <1>1, ChunkOnCourse, PTL DEF Spec, AckCurrent

=============================================================================
