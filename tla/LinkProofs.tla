----------------------------- MODULE LinkProofs -----------------------------
(***************************************************************************)
(* Proofs about module RtmpLink, for every bound.  On a connection that is *)
(* up, the negotiation follows a script: what is under way in either       *)
(* direction is a stretch of what the two ends say in all, and where each  *)
(* of them stands follows from how much of it is consumed.  Once live, the *)
(* media under way are those written and not handled, and a ping that is   *)
(* out has its answer under way.                                           *)
(***************************************************************************)
EXTENDS RtmpLink, FiniteSets, FiniteSetTheorems, SequenceTheorems, TLAPS

-----------------------------------------------------------------------------
(***************************************************************************)
(* Types.                                                                  *)
(***************************************************************************)
Names == {"c0c1", "c2", "setChunkSize", "connect", "releaseStream", "FCPublish",
          "createStream", "publish", "ping", "media", "FCUnpublish", "closeStream", "eof",
          "s0s1s2", "windowAck", "setPeerBw", "_result", "_error", "onStatus", "pong"}
Txns == Int \cup {None}
Message == [name : Names, txn : Txns]
Reasons == {"closed", "timeout", "refused", "no reply", "no stream id", "watchdog"}
ClientStates == Negotiating \cup {"rtt", "live", "failed", "closed"}
ServerStates == {"c0c1", "c2", "command", "pump", "ended", "failed"}

TypeInv ==
  /\ link \in {"up", "cut", "void"} /\ app \in {"served", "other"}
  /\ up \in Seq(Message) /\ down \in Seq(Message)
  /\ arrived \in 0..Len(down)
  /\ cpc \in ClientStates /\ pending \in Nat
  /\ dog \in [silent : Nat, unanswered : Nat, wait : Nat]
  /\ spc \in ServerStates /\ fins \in Nat
  /\ media \in [written : Nat, handled : Nat]

\* A message without a transaction.
LEMMA MsgType ==
  ASSUME NEW n \in Names
  PROVE  Msg(n) \in Message /\ Msg(n).name = n
BY DEF Msg, Message, Txns

\* A _result carries the transaction it answers.
LEMMA ResultType ==
  ASSUME NEW t \in Int
  PROVE  Result(t) \in Message /\ Result(t).name = "_result" /\ Result(t).txn = t
BY DEF Result, Message, Txns, Names

\* Messages by their names.
LEMMA MsgsType ==
  ASSUME NEW names \in Seq(Names)
  PROVE  /\ Msgs(names) \in Seq(Message)
         /\ Len(Msgs(names)) = Len(names)
         /\ \A i \in 1..Len(names) : Msgs(names)[i] = Msg(names[i]) /\ Msgs(names)[i].name = names[i]
<1>1. Len(names) \in Nat /\ DOMAIN names = 1..Len(names) /\ \A i \in 1..Len(names) : names[i] \in Names
  BY LenProperties, ElementOfSeq
<1>2. Msgs(names) \in [1..Len(names) -> Message]
  BY <1>1, MsgType DEF Msgs
<1>3. Msgs(names) \in Seq(Message) /\ Len(Msgs(names)) = Len(names)
  <2>1. \A S, n : n \in Nat => \A q \in [1..n -> S] : q \in Seq(S) /\ Len(q) = n
    OBVIOUS
  <2> QED BY <1>1, <1>2, <2>1
<1> QED BY <1>1, <1>3, MsgType DEF Msgs

\* What is sent arrives on a connection that is up and nowhere else.
LEMMA SentType ==
  ASSUME NEW q \in Seq(Message), NEW ms \in Seq(Message)
  PROVE  /\ Sent(q, ms) \in Seq(Message)
         /\ Len(q) <= Len(Sent(q, ms))
         /\ \A i \in 1..Len(q) : Sent(q, ms)[i] = q[i]
         /\ link = "up" => Sent(q, ms) = q \o ms
         /\ link # "up" => Sent(q, ms) = q
<1>1. Len(q) \in Nat /\ Len(ms) \in Nat
  BY LenProperties
<1> QED BY <1>1, ConcatProperties DEF Sent

\* The first n messages of a channel, and what is left of it.
LEMMA CutType ==
  ASSUME NEW q \in Seq(Message), NEW n \in 0..Len(q)
  PROVE  /\ SubSeq(q, 1, n) \in Seq(Message) /\ Len(SubSeq(q, 1, n)) = n
         /\ \A i \in 1..n : SubSeq(q, 1, n)[i] = q[i]
         /\ SubSeq(q, n + 1, Len(q)) \in Seq(Message)
         /\ Len(SubSeq(q, n + 1, Len(q))) = Len(q) - n
         /\ \A i \in 1..(Len(q) - n) : SubSeq(q, n + 1, Len(q))[i] = q[n + i]
<1>1. Len(q) \in Nat /\ \A i \in 1..Len(q) : q[i] \in Message
  BY LenProperties, ElementOfSeq
<1>2. \A i \in 1..n : q[i] \in Message
  BY <1>1
<1>3. \A i \in (n + 1)..Len(q) : q[i] \in Message
  BY <1>1
<1>4. /\ SubSeq(q, 1, n) \in Seq(Message) /\ Len(SubSeq(q, 1, n)) = n
      /\ \A i \in 1..n : SubSeq(q, 1, n)[i] = q[i]
  BY <1>1, <1>2, SubSeqProperties
<1>5. /\ SubSeq(q, n + 1, Len(q)) \in Seq(Message)
      /\ Len(SubSeq(q, n + 1, Len(q))) = (IF n + 1 <= Len(q) THEN Len(q) - (n + 1) + 1 ELSE 0)
      /\ \A i \in 1..(Len(q) - (n + 1) + 1) : SubSeq(q, n + 1, Len(q))[i] = q[(n + 1) + i - 1]
  BY <1>1, <1>3, SubSeqProperties
<1>6. \A l, m, i \in Int : l - (m + 1) + 1 = l - m /\ (m + 1) + i - 1 = m + i
  OBVIOUS
<1>7. Len(q) \in Int /\ n \in Int /\ n <= Len(q)
  BY <1>1
<1>8. Len(q) - (n + 1) + 1 = Len(q) - n /\ \A i \in Int : (n + 1) + i - 1 = n + i
  BY <1>6, <1>7
<1>9. \A i \in 1..(Len(q) - n) : SubSeq(q, n + 1, Len(q))[i] = q[n + i]
  <2> SUFFICES ASSUME NEW i \in 1..(Len(q) - n)
               PROVE  SubSeq(q, n + 1, Len(q))[i] = q[n + i]
    OBVIOUS
  <2>1. i \in Int
    OBVIOUS
  <2> QED BY <1>5, <1>8, <2>1
<1>10. Len(SubSeq(q, n + 1, Len(q))) = Len(q) - n
  <2>1. CASE n + 1 <= Len(q)
    BY <1>5, <1>8, <2>1
  <2>2. CASE ~(n + 1 <= Len(q))
    BY <1>5, <1>7, <2>2
  <2> QED BY <2>1, <2>2
<1> QED BY <1>4, <1>5, <1>9, <1>10

\* What the two ends say, by name.
LEMMA Sayings ==
  /\ <<"c2", "setChunkSize", "connect">> \in Seq(Names)
  /\ <<"releaseStream", "FCPublish", "createStream">> \in Seq(Names)
  /\ <<"FCUnpublish", "closeStream", "eof">> \in Seq(Names)
  /\ <<"setChunkSize", "windowAck", "setPeerBw">> \in Seq(Names)
  /\ \A n \in Names : <<n>> \in Seq(Names)
BY DEF Names

\* The end of the stream is a message of its own.
LEMMA EofType == Eof \in Message /\ Eof.name = "eof" /\ <<Eof>> \in Seq(Message)
BY MsgType DEF Eof, Names

\* The last words of a server.
LEMMA StopType ==
  ASSUME NEW ms \in Seq(Message)
  PROVE  ms \o <<Eof>> \in Seq(Message)
BY EofType, ConcatProperties

-----------------------------------------------------------------------------
(***************************************************************************)
(* Media under way.                                                        *)
(***************************************************************************)
MediaAt(q) == {i \in 1..Len(q) : q[i].name = "media"}
MediaIn(q) == Cardinality(MediaAt(q))

\* The media in a queue can be counted.
LEMMA MediaFinite ==
  ASSUME NEW q \in Seq(Message)
  PROVE  IsFiniteSet(MediaAt(q)) /\ MediaIn(q) \in Nat
<1>1. Len(q) \in Nat
  BY LenProperties
<1>2. IsFiniteSet(1..Len(q))
  BY <1>1, FS_Interval
<1>3. MediaAt(q) \in SUBSET (1..Len(q))
  BY DEF MediaAt
<1>4. IsFiniteSet(MediaAt(q))
  BY <1>2, <1>3, FS_Subset
<1> QED BY <1>4, FS_CardinalityType DEF MediaIn

\* A queue without media holds none.
LEMMA MediaInNone ==
  ASSUME NEW q \in Seq(Message), \A i \in 1..Len(q) : q[i].name # "media"
  PROVE  MediaIn(q) = 0
<1>1. MediaAt(q) = {}
  BY DEF MediaAt
<1> QED BY <1>1, FS_EmptySet DEF MediaIn

\* Two channels with media in the same places.
LEMMA MediaInSame ==
  ASSUME NEW p \in Seq(Message), NEW q \in Seq(Message), Len(p) <= Len(q),
         \A i \in 1..Len(p) : q[i] = p[i],
         \A i \in (Len(p) + 1)..Len(q) : q[i].name # "media"
  PROVE  MediaIn(q) = MediaIn(p)
<1>1. Len(p) \in Nat /\ Len(q) \in Nat
  BY LenProperties
<1>2. \A i : i \in 1..Len(q) <=> i \in 1..Len(p) \/ i \in (Len(p) + 1)..Len(q)
  BY <1>1
<1>3. MediaAt(q) = MediaAt(p)
  BY <1>2 DEF MediaAt
<1> QED BY <1>3 DEF MediaIn

\* A written message is one more.
LEMMA MediaInAppended ==
  ASSUME NEW q \in Seq(Message), NEW m \in Message, m.name = "media"
  PROVE  MediaIn(q \o <<m>>) = MediaIn(q) + 1
<1>1. Len(q) \in Nat /\ <<m>> \in Seq(Message) /\ Len(<<m>>) = 1 /\ <<m>>[1] = m
  BY LenProperties
<1>2. /\ Len(q \o <<m>>) = Len(q) + 1
      /\ \A i \in 1..(Len(q) + 1) : (q \o <<m>>)[i] = IF i <= Len(q) THEN q[i] ELSE <<m>>[i - Len(q)]
  BY <1>1, ConcatProperties
<1>3. /\ \A i \in 1..Len(q) : (q \o <<m>>)[i] = q[i]
      /\ (q \o <<m>>)[Len(q) + 1] = m
  BY <1>1, <1>2
<1>4. \A i : i \in 1..(Len(q) + 1) <=> i \in 1..Len(q) \/ i = Len(q) + 1
  BY <1>1
<1>5. Len(q) + 1 \notin MediaAt(q)
  BY <1>1 DEF MediaAt
<1>6. MediaAt(q \o <<m>>) = MediaAt(q) \cup {Len(q) + 1}
  BY <1>2, <1>3, <1>4 DEF MediaAt
<1> QED BY <1>5, <1>6, MediaFinite, FS_AddElement DEF MediaIn

\* Losing the end of a channel loses media at most.
LEMMA MediaInPrefix ==
  ASSUME NEW q \in Seq(Message), NEW n \in 0..Len(q)
  PROVE  MediaIn(SubSeq(q, 1, n)) <= MediaIn(q)
<1>1. Len(q) \in Nat /\ \A i \in 1..n : i \in 1..Len(q)
  BY LenProperties
<1>2. MediaAt(SubSeq(q, 1, n)) \in SUBSET MediaAt(q)
  BY <1>1, CutType DEF MediaAt
<1> QED BY <1>2, MediaFinite, FS_Subset DEF MediaIn

\* Reading one message.
LEMMA MediaInTail ==
  ASSUME NEW q \in Seq(Message), q # <<>>
  PROVE  MediaIn(q) = MediaIn(Tail(q)) + (IF Head(q).name = "media" THEN 1 ELSE 0)
<1> DEFINE K == MediaAt(Tail(q))
           J == MediaAt(q) \ {1}
           f == [i \in K |-> i + 1]
<1>1. Len(q) \in Nat /\ Len(q) # 0 /\ Head(q) = q[1]
  BY LenProperties, EmptySeq
<1>2. /\ Tail(q) \in Seq(Message) /\ Len(Tail(q)) = Len(q) - 1
      /\ \A i \in 1..Len(Tail(q)) : Tail(q)[i] = q[i + 1]
  BY HeadTailProperties
<1>3. K \subseteq Nat /\ \A i \in K : i + 1 \in J
  <2> SUFFICES ASSUME NEW i \in K PROVE i \in Nat /\ i + 1 \in J
    OBVIOUS
  <2>1. i \in 1..(Len(q) - 1) /\ Tail(q)[i].name = "media"
    BY <1>2 DEF MediaAt
  <2>2. i + 1 \in 1..Len(q) /\ i + 1 # 1 /\ i \in Nat
    BY <1>1, <2>1
  <2>3. q[i + 1].name = "media"
    BY <1>2, <2>1
  <2> QED BY <2>2, <2>3 DEF MediaAt
<1>4. \A j \in J : j \in Nat /\ j - 1 \in K /\ (j - 1) + 1 = j
  <2> SUFFICES ASSUME NEW j \in J PROVE j \in Nat /\ j - 1 \in K /\ (j - 1) + 1 = j
    OBVIOUS
  <2>1. j \in 1..Len(q) /\ j # 1 /\ q[j].name = "media"
    BY DEF MediaAt
  <2>2. j - 1 \in 1..(Len(q) - 1) /\ (j - 1) + 1 = j /\ j \in Nat
    BY <1>1, <2>1
  <2>3. Tail(q)[j - 1].name = "media"
    BY <1>2, <2>1, <2>2
  <2> QED BY <1>2, <2>2, <2>3 DEF MediaAt
<1>5. f \in Bijection(K, J)
  <2>1. \A i, j \in Nat : i + 1 = j + 1 => i = j
    OBVIOUS
  <2> HIDE DEF K, J
  <2>2. f \in [K -> J]
    BY <1>3
  <2>3. \A i, j \in K : f[i] = f[j] => i = j
    BY <1>3, <2>1
  <2>4. \A j \in J : \E i \in K : f[i] = j
    BY <1>4
  <2> HIDE DEF f
  <2> QED BY <2>2, <2>3, <2>4 DEF Bijection, Injection, Surjection, IsInjective
<1> HIDE DEF f
<1>6. Cardinality(J) = Cardinality(K)
  <2> HIDE DEF J
  <2>1. IsFiniteSet(K)
    BY <1>2, MediaFinite
  <2>2. ExistsBijection(K, J)
    BY <1>5 DEF ExistsBijection
  <2> QED BY <2>1, <2>2, FS_Bijection
<1>7. 1 \in MediaAt(q) <=> Head(q).name = "media"
  BY <1>1 DEF MediaAt
<1>8. Cardinality(J) = IF 1 \in MediaAt(q) THEN MediaIn(q) - 1 ELSE MediaIn(q)
  BY MediaFinite, FS_RemoveElement DEF MediaIn
<1>9. MediaIn(Tail(q)) = Cardinality(K)
  BY DEF MediaIn
<1> HIDE DEF J, K
<1> QED BY <1>6, <1>7, <1>8, <1>9, MediaFinite

-----------------------------------------------------------------------------
(***************************************************************************)
(* Every step keeps the types.                                             *)
(***************************************************************************)
\* One more ping without an answer, the next one a quarter later.
LEMMA ProbedType ==
  ASSUME NEW d \in [silent : Nat, unanswered : Nat, wait : Nat]
  PROVE  [d EXCEPT !.unanswered = @ + 1, !.wait = 1] \in [silent : Nat, unanswered : Nat, wait : Nat]
<1>1. d.unanswered + 1 \in Nat /\ 1 \in Nat
  OBVIOUS
<1> QED BY <1>1, Zenon

\* The dog after something was heard.
LEMMA HeardType == Heard \in [silent : Nat, unanswered : Nat, wait : Nat]
BY DEF Heard

\* Receiving takes the first message under way and calms the dog.
LEMMA ReceivedType ==
  ASSUME TypeInv, Received
  PROVE  /\ down' \in Seq(Message) /\ dog' = Heard /\ Len(down') = Len(down) - 1
         /\ Head(down) \in Message /\ arrived' = arrived
         /\ \A i \in 1..Len(down') : down'[i] = down[i + 1]
BY HeadTailProperties DEF Received, TypeInv

\* Until it is live, a client has answered whatever it has heard.
Quiet ==
  cpc \in Negotiating \cup {"rtt"} => arrived = 0 /\ dog = Heard /\ reason = None

\* The negotiating client keeps the types.
LEMMA TypeClient ==
  ASSUME TypeInv, ClientConnects, Quiet
  PROVE  TypeInv'
<1> USE DEF TypeInv, ClientUnchanged, clientVars, serverVars, ClientStates, Negotiating, Quiet
<1>1. CASE ClientHandshake
  <2>1. Msgs(<<"c2", "setChunkSize", "connect">>) \in Seq(Message)
    BY MsgsType, Sayings
  <2>2. up' = Sent(up, Msgs(<<"c2", "setChunkSize", "connect">>)) /\ cpc' = "connect" /\ pending' = 0
        /\ Received /\ cpc = "s0" /\ UNCHANGED <<link, app, spc, fins, media>>
    BY <1>1 DEF ClientHandshake, ClientWaits
  <2>3. up' \in Seq(Message)
    BY <2>1, <2>2, SentType
  <2>4. arrived' \in 0..Len(down')
    BY <2>2, ReceivedType, LenProperties
  <2> QED BY <2>2, <2>3, <2>4, ReceivedType, HeardType
<1>2. CASE AwaitedComes
  <2>1. Msgs(<<"releaseStream", "FCPublish", "createStream">>) \in Seq(Message)
        /\ Msgs(<<"publish">>) \in Seq(Message) /\ Msgs(<<"ping">>) \in Seq(Message)
        /\ <<Eof>> \in Seq(Message)
    BY MsgsType, Sayings, EofType DEF Names
  <2>2. Received /\ UNCHANGED <<link, app, spc, fins, media>>
        /\ cpc \in {"connect", "create", "publish"}
    BY <1>2 DEF AwaitedComes
  <2>3. \E ms \in Seq(Message) : up' = Sent(up, ms)
    BY <1>2, <2>1 DEF AwaitedComes, ClientWaits, ClientFails
  <2>4. cpc' \in ClientStates /\ pending' \in Nat
    <3>1. (\E for \in {"create", "publish", "rtt"}, ms \in Seq(Message) : ClientWaits(for, ms))
          \/ (ClientFails("no stream id") /\ UNCHANGED pending)
      BY <1>2, <2>1 DEF AwaitedComes
    <3>2. (\E for \in {"create", "publish", "rtt"} : cpc' = for /\ pending' = 0)
          \/ (cpc' = "failed" /\ pending' = pending)
      BY <3>1 DEF ClientWaits, ClientFails
    <3> QED BY <3>2
  <2>5. up' \in Seq(Message)
    BY <2>3, SentType
  <2>6. arrived' \in 0..Len(down')
    BY <2>2, ReceivedType, LenProperties
  <2> QED BY <2>2, <2>4, <2>5, <2>6, ReceivedType, HeardType
<1>3. CASE OtherComes
  <2>1. <<Eof>> \in Seq(Message)
    BY EofType
  <2>2. Received /\ UNCHANGED <<link, app, spc, fins, media>>
        /\ cpc \in {"connect", "create", "publish"}
    BY <1>3 DEF OtherComes
  <2>3. up' = Sent(up, <<Eof>>) \/ up' = up
    BY <1>3 DEF OtherComes, ClientFails
  <2>4. cpc' \in ClientStates /\ pending' \in Nat
    <3>1. pending' \in {pending, pending + 1}
      BY <1>3 DEF OtherComes
    <3>2. cpc' = "failed" \/ cpc' = cpc
      BY <1>3 DEF OtherComes, ClientFails
    <3> QED BY <3>1, <3>2
  <2>5. up' \in Seq(Message)
    <3>1. Sent(up, <<Eof>>) \in Seq(Message)
      BY <2>1, SentType
    <3> QED BY <2>3, <3>1
  <2>6. arrived' \in 0..Len(down')
    BY <2>2, ReceivedType, LenProperties
  <2> QED BY <2>2, <2>4, <2>5, <2>6, ReceivedType, HeardType
<1>4. CASE MeasureRtt
  <2>1. cpc = "rtt" /\ cpc' = "live" /\ UNCHANGED <<link, app, spc, fins, media, up, pending>>
    BY <1>4 DEF MeasureRtt
  <2>2. CASE Received
    <3>1. arrived' \in 0..Len(down')
      BY <2>1, <2>2, ReceivedType, LenProperties
    <3> QED BY <2>1, <2>2, <3>1, ReceivedType, HeardType
  <2>3. CASE UNCHANGED <<down, arrived, dog>>
    BY <2>1, <2>3
  <2> QED BY <1>4, <2>2, <2>3 DEF MeasureRtt
<1>5. CASE ClientLoses \/ ClientTimesOut
  <2>1. cpc' = "failed" /\ up' = Sent(up, <<Eof>>)
        /\ UNCHANGED <<link, app, spc, fins, media, down, arrived, pending, dog>>
    BY <1>5 DEF ClientLoses, ClientTimesOut, ClientFails
  <2>2. up' \in Seq(Message)
    BY <2>1, EofType, SentType
  <2> QED BY <2>1, <2>2
<1> QED BY <1>1, <1>2, <1>3, <1>4, <1>5 DEF ClientConnects

\* What one call of maintain can do.
LEMMA MaintainEffect ==
  ASSUME TypeInv, Maintain
  PROVE  /\ cpc = "live" /\ UNCHANGED <<link, app, spc, fins, media, pending>>
         /\ \E n \in arrived..Len(down) :
              /\ down' = SubSeq(down, n + 1, Len(down)) /\ arrived' = 0
              /\ \/ /\ \/ \E i \in 1..n : down[i] = Eof
                       \/ link = "cut" /\ n = Len(down)
                    /\ ClientFails("closed") /\ dog' = dog
                 \/ /\ ClientFails("watchdog") /\ dog' = Inbound(n) /\ Tripped(Inbound(n))
                    /\ ~(link = "cut" /\ n = Len(down))
                 \/ /\ ~(link = "cut" /\ n = Len(down)) /\ Inbound(n).silent >= 1
                    /\ Inbound(n).wait = 0 /\ dog' = [Inbound(n) EXCEPT !.unanswered = @ + 1, !.wait = 1]
                    /\ up' = Sent(up, Msgs(<<"ping">>)) /\ UNCHANGED <<cpc, reason>>
                 \/ Gone /\ ClientFails("closed") /\ dog' = Inbound(n)
                 \/ /\ ~(link = "cut" /\ n = Len(down))
                    /\ dog' = Inbound(n) /\ UNCHANGED <<up, cpc, reason>>
<1>1. cpc = "live" /\ UNCHANGED <<link, app, spc, fins, media, pending>>
  BY DEF Maintain, ClientUnchanged, serverVars
<1>2. PICK n \in arrived..Len(down) :
       LET eof == \E i \in 1..n : down[i] = Eof
           d == Inbound(n)
       IN  /\ down' = SubSeq(down, n + 1, Len(down)) /\ arrived' = 0
           /\ IF eof \/ (link = "cut" /\ n = Len(down))
              THEN ClientFails("closed") /\ UNCHANGED dog
              ELSE IF d.silent >= 1 /\ Tripped(d)
              THEN ClientFails("watchdog") /\ dog' = d
              ELSE IF d.silent >= 1 /\ d.unanswered < MaxUnanswered /\ d.wait = 0
              THEN \/ /\ up' = Sent(up, Msgs(<<"ping">>))
                      /\ dog' = [d EXCEPT !.unanswered = @ + 1, !.wait = 1]
                      /\ UNCHANGED <<cpc, reason>>
                   \/ Gone /\ ClientFails("closed") /\ dog' = d
              ELSE dog' = d /\ UNCHANGED <<up, cpc, reason>>
  BY DEF Maintain
<1>3. CASE (\E i \in 1..n : down[i] = Eof) \/ (link = "cut" /\ n = Len(down))
  BY <1>1, <1>2, <1>3
<1>4. CASE ~((\E i \in 1..n : down[i] = Eof) \/ (link = "cut" /\ n = Len(down)))
  <2>1. CASE Inbound(n).silent >= 1 /\ Tripped(Inbound(n))
    BY <1>1, <1>2, <1>4, <2>1
  <2>2. CASE ~(Inbound(n).silent >= 1 /\ Tripped(Inbound(n)))
    BY <1>1, <1>2, <1>4, <2>2
  <2> QED BY <2>1, <2>2
<1> QED BY <1>3, <1>4

\* What the server's steps do to the channels: it reads one message or none,
\* and sends.
LEMMA ServerEffect ==
  ASSUME TypeInv, ServerStep
  PROVE  /\ UNCHANGED <<link, app, arrived, cpc, pending, reason, dog>>
         /\ spc \notin {"ended", "failed"} /\ spc' \in ServerStates
         /\ up' = up \/ (up # <<>> /\ up' = Tail(up) /\ Head(up) # Eof)
         /\ \E ms \in Seq(Message) : down' = Sent(down, ms)
<1> USE DEF TypeInv, ServerUnchanged, clientVars, ServerStates
<1>1. CASE ServerHandshake
  <2>1. UNCHANGED <<link, app, arrived, cpc, pending, reason, dog>> /\ up # <<>> /\ up' = Tail(up)
    BY <1>1 DEF ServerHandshake
  <2>2. \/ spc = "c0c1" /\ Head(up).name = "c0c1" /\ spc' = "c2"
           /\ down' = Sent(down, Msgs(<<"s0s1s2">>))
        \/ spc = "c2" /\ Head(up).name = "c2" /\ spc' = "command"
           /\ down' = Sent(down, Msgs(<<"setChunkSize", "windowAck", "setPeerBw">>))
    BY <1>1 DEF ServerHandshake
  <2>3. Msgs(<<"s0s1s2">>) \in Seq(Message) /\ Head(up) # Eof
        /\ Msgs(<<"setChunkSize", "windowAck", "setPeerBw">>) \in Seq(Message)
    <3>1. Msgs(<<"s0s1s2">>) \in Seq(Message) /\ Msgs(<<"setChunkSize", "windowAck", "setPeerBw">>) \in Seq(Message)
      BY MsgsType, Sayings DEF Names
    <3> QED BY <2>2, <3>1, EofType
  <2> QED BY <2>1, <2>2, <2>3
<1>2. CASE ServerNegotiates
  <2>1. UNCHANGED <<link, app, arrived, cpc, pending, reason, dog>> /\ up # <<>> /\ up' = Tail(up)
        /\ spc = "command" /\ Head(up) # Eof
    BY <1>2 DEF ServerNegotiates
  <2>2. Reply(Head(up)) \in Seq(Message)
    <3>1. \A t \in 1..4 : <<Result(t)>> \in Seq(Message)
      BY ResultType
    <3>2. Msgs(<<"publish">>) \in Seq(Message) /\ Msgs(<<"onStatus">>) \in Seq(Message)
      BY MsgsType, Sayings DEF Names
    <3> QED BY <3>1, <3>2 DEF Reply
  <2>3. Msgs(<<"_error">>) \o <<Eof>> \in Seq(Message)
    BY MsgsType, Sayings, StopType DEF Names
  <2>4. (spc' = "failed" /\ down' = Sent(down, Msgs(<<"_error">>) \o <<Eof>>))
        \/ (down' = Sent(down, Reply(Head(up))) /\ spc' \in {"pump", spc})
    BY <1>2 DEF ServerNegotiates, ServerStops
  <2> QED BY <2>1, <2>2, <2>3, <2>4
<1>3. CASE ServerPumps
  <2>1. UNCHANGED <<link, app, arrived, cpc, pending, reason, dog>> /\ up # <<>> /\ up' = Tail(up)
        /\ spc = "pump" /\ Head(up) # Eof
    BY <1>3 DEF ServerPumps
  <2>2. <<>> \o <<Eof>> \in Seq(Message) /\ Msgs(<<"pong">>) \in Seq(Message) /\ <<>> \in Seq(Message)
    BY MsgsType, Sayings, StopType, EmptySeq DEF Names
  <2>3. \/ spc' \in {"ended", "failed"} /\ down' = Sent(down, <<>> \o <<Eof>>)
        \/ spc' = spc /\ down' = Sent(down, Msgs(<<"pong">>))
        \/ spc' = spc /\ down' = down
    BY <1>3 DEF ServerPumps, ServerStops
  <2>4. down = Sent(down, <<>>)
    BY ConcatEmptySeq DEF Sent
  <2> QED BY <2>1, <2>2, <2>3, <2>4
<1>4. CASE ServerLoses \/ ServerTimesOut
  <2>1. UNCHANGED <<link, app, arrived, cpc, pending, reason, dog, up>> /\ spc \notin {"ended", "failed"}
        /\ down' = Sent(down, <<>> \o <<Eof>>) /\ spc' \in {"ended", "failed"}
    BY <1>4 DEF ServerLoses, ServerTimesOut, ServerStops, Silence
  <2>2. <<>> \o <<Eof>> \in Seq(Message)
    BY StopType, EmptySeq
  <2> QED BY <2>1, <2>2
<1> QED BY <1>1, <1>2, <1>3, <1>4 DEF ServerStep

\* The server keeps the types.
LEMMA TypeServer ==
  ASSUME TypeInv, ServerStep
  PROVE  TypeInv'
<1>1. UNCHANGED <<link, app, arrived, cpc, pending, reason, dog>> /\ spc' \in ServerStates
  BY ServerEffect
<1>2. up' \in Seq(Message)
  <2>1. up = <<>> \/ Tail(up) \in Seq(Message)
    BY HeadTailProperties DEF TypeInv
  <2>2. up' = up \/ (up # <<>> /\ up' = Tail(up))
    BY ServerEffect
  <2> QED BY <2>1, <2>2 DEF TypeInv
<1>3. down' \in Seq(Message) /\ Len(down) <= Len(down')
  BY ServerEffect, SentType DEF TypeInv
<1>4. arrived' \in 0..Len(down')
  BY <1>1, <1>3, LenProperties DEF TypeInv
<1>5. fins' \in Nat /\ media' \in [written : Nat, handled : Nat]
  BY DEF TypeInv, ServerStep, ServerHandshake, ServerNegotiates, ServerPumps, ServerLoses, ServerTimesOut
<1> QED BY <1>1, <1>2, <1>3, <1>4, <1>5 DEF TypeInv

\* The live client, the network and time keep the types.
LEMMA TypeLive ==
  ASSUME TypeInv, WriteMedia \/ Maintain \/ Shutdown \/ ConnectionFails \/ Tick
  PROVE  TypeInv'
<1> USE DEF TypeInv, ClientStates
<1>0. /\ <<Eof>> \in Seq(Message) /\ Msgs(<<"media">>) \in Seq(Message)
      /\ Msgs(<<"ping">>) \in Seq(Message)
      /\ Msgs(<<"FCUnpublish", "closeStream", "eof">>) \in Seq(Message)
  BY EofType, MsgsType, Sayings DEF Names
<1>1. CASE WriteMedia
  <2>1. UNCHANGED <<link, app, down, arrived, pending, dog, spc, fins>>
    BY <1>1 DEF WriteMedia, serverVars
  <2>2. \/ up' = Sent(up, Msgs(<<"media">>)) /\ media' = [media EXCEPT !.written = @ + 1] /\ cpc' = cpc
        \/ up' = Sent(up, <<Eof>>) /\ cpc' = "failed" /\ media' = media
    BY <1>1 DEF WriteMedia, ClientFails
  <2>3. up' \in Seq(Message)
    <3>1. Sent(up, <<Eof>>) \in Seq(Message) /\ Sent(up, Msgs(<<"media">>)) \in Seq(Message)
      BY <1>0, SentType
    <3> QED BY <2>2, <3>1
  <2>4. media' \in [written : Nat, handled : Nat]
    BY <2>2
  <2> QED BY <2>1, <2>2, <2>3, <2>4
<1>2. CASE Maintain
  <2>1. UNCHANGED <<link, app, spc, fins, media, pending>>
    BY <1>2, MaintainEffect
  <2>2. PICK n \in arrived..Len(down) : down' = SubSeq(down, n + 1, Len(down)) /\ arrived' = 0
          /\ dog' \in {dog, Inbound(n), [Inbound(n) EXCEPT !.unanswered = @ + 1, !.wait = 1]}
          /\ cpc' \in {cpc, "failed"}
          /\ (up' = up \/ up' = Sent(up, <<Eof>>) \/ up' = Sent(up, Msgs(<<"ping">>)))
    <3>1. \A why : ClientFails(why) => cpc' = "failed" /\ up' = Sent(up, <<Eof>>)
      BY DEF ClientFails
    <3> QED BY <1>2, <3>1, MaintainEffect
  <2>3. n \in 0..Len(down)
    BY <2>2, LenProperties
  <2>4. down' \in Seq(Message) /\ arrived' \in 0..Len(down')
    BY <2>2, <2>3, CutType, LenProperties
  <2>5. Inbound(n) \in [silent : Nat, unanswered : Nat, wait : Nat]
    BY HeardType DEF Inbound
  <2>6. \A d \in [silent : Nat, unanswered : Nat, wait : Nat] :
           [d EXCEPT !.unanswered = @ + 1, !.wait = 1] \in [silent : Nat, unanswered : Nat, wait : Nat]
    BY ProbedType
  <2>7. dog' \in [silent : Nat, unanswered : Nat, wait : Nat]
    BY <2>2, <2>5, <2>6
  <2>8. up' \in Seq(Message)
    <3>1. Sent(up, <<Eof>>) \in Seq(Message) /\ Sent(up, Msgs(<<"ping">>)) \in Seq(Message)
      BY <1>0, SentType
    <3> QED BY <2>2, <3>1
  <2> QED BY <2>1, <2>2, <2>4, <2>7, <2>8
<1>3. CASE Shutdown
  <2>1. UNCHANGED <<link, app, down, arrived, pending, dog, spc, fins, media>> /\ cpc' = "closed"
        /\ up' = Sent(up, Msgs(<<"FCUnpublish", "closeStream", "eof">>))
    BY <1>3 DEF Shutdown, ClientUnchanged, serverVars
  <2>2. up' \in Seq(Message)
    BY <1>0, <2>1, SentType
  <2> QED BY <2>1, <2>2
<1>4. CASE ConnectionFails
  <2>1. link' \in {"cut", "void"} /\ UNCHANGED <<app, arrived, cpc, pending, dog, spc, fins, media>>
    BY <1>4 DEF ConnectionFails, clientVars, serverVars
  <2>2. PICK m \in 0..Len(up), n \in arrived..Len(down) :
          up' = SubSeq(up, 1, m) /\ down' = SubSeq(down, 1, n)
    BY <1>4 DEF ConnectionFails
  <2>3. n \in 0..Len(down) /\ arrived \in 0..n
    BY <2>2, LenProperties
  <2>4. up' \in Seq(Message) /\ down' \in Seq(Message) /\ Len(down') = n
    BY <2>2, <2>3, CutType
  <2> QED BY <2>1, <2>3, <2>4
<1>5. CASE Tick
  <2>1. UNCHANGED <<link, app, up, down, cpc, pending, spc, fins, media>> /\ arrived' = Len(down)
    BY <1>5 DEF Tick, serverVars
  <2>2. dog' \in [silent : Nat, unanswered : Nat, wait : Nat]
    <3>1. \A s, b, w \in Nat : (IF s = b THEN s ELSE s + 1) \in Nat /\ (IF w = 0 THEN 0 ELSE w - 1) \in Nat
      OBVIOUS
    <3>2. dog' = [dog EXCEPT !.silent = IF @ = Budget THEN @ ELSE @ + 1,
                             !.wait = IF @ = 0 THEN 0 ELSE @ - 1]
      BY <1>5 DEF Tick
    <3> QED BY <3>1, <3>2, LinkAssumption
  <2>3. arrived' \in 0..Len(down')
    BY <2>1, LenProperties
  <2> QED BY <2>1, <2>2, <2>3
<1> QED BY <1>1, <1>2, <1>3, <1>4, <1>5

\* Every step keeps the watchdog of a negotiating client at rest.
LEMMA QuietStep ==
  ASSUME TypeInv, Quiet, [Next]_vars
  PROVE  Quiet'
<1> USE DEF TypeInv, Quiet, ClientUnchanged, Negotiating
<1>1. CASE ClientConnects
  <2>1. CASE cpc' \in Negotiating \cup {"rtt"}
    <3>1. cpc \in Negotiating /\ Received /\ reason' = reason
      BY <1>1, <2>1 DEF ClientConnects, ClientHandshake, AwaitedComes, OtherComes, MeasureRtt,
             ClientLoses, ClientTimesOut, ClientWaits, ClientFails
    <3> QED BY <3>1 DEF Received
  <2> QED BY <2>1
<1>2. CASE ServerStep
  BY <1>2, ServerEffect
<1>3. CASE WriteMedia \/ Maintain \/ Shutdown \/ Tick
  <2>1. cpc' \in {"live", "failed", "closed"}
    BY <1>3 DEF WriteMedia, Maintain, Shutdown, Tick, ClientFails
  <2> QED BY <2>1
<1>4. CASE ConnectionFails \/ UNCHANGED vars
  BY <1>4 DEF ConnectionFails, vars, clientVars
<1> QED BY <1>1, <1>2, <1>3, <1>4 DEF Next

\* Every step keeps the types.
LEMMA TypeStep ==
  ASSUME TypeInv, Quiet, [Next]_vars
  PROVE  TypeInv'
<1>1. CASE UNCHANGED vars
  BY <1>1 DEF vars, TypeInv, clientVars, serverVars
<1> QED BY <1>1, TypeClient, TypeServer, TypeLive DEF Next

\* The types hold before the connection.
LEMMA TypeInit ==
  ASSUME Init
  PROVE  TypeInv /\ Quiet
<1>1. up \in Seq(Message) /\ down = <<>>
  BY MsgsType, Sayings DEF Init, Names
<1>2. down \in Seq(Message) /\ Len(down) = 0
  BY <1>1, EmptySeq
<1> QED BY <1>1, <1>2, HeardType DEF Init, TypeInv, Quiet, ClientStates, ServerStates, Negotiating

-----------------------------------------------------------------------------
(***************************************************************************)
(* How a publish ends.                                                     *)
(***************************************************************************)
\* The handler hears of the end once; nothing it is given was not written.
EndInv ==
  /\ fins = IF spc = "ended" THEN 1 ELSE 0
  /\ media.handled + MediaIn(up) <= media.written

\* Other messages do not change the count of media.
LEMMA MediaInSent ==
  ASSUME NEW q \in Seq(Message), NEW ms \in Seq(Message),
         \A i \in 1..Len(ms) : ms[i].name # "media"
  PROVE  MediaIn(Sent(q, ms)) = MediaIn(q)
<1>1. Len(q) \in Nat /\ Len(ms) \in Nat
  BY LenProperties
<1>2. CASE link = "up"
  <2>1. /\ Sent(q, ms) \in Seq(Message) /\ Len(Sent(q, ms)) = Len(q) + Len(ms)
        /\ \A i \in 1..Len(q) + Len(ms) :
             Sent(q, ms)[i] = IF i <= Len(q) THEN q[i] ELSE ms[i - Len(q)]
    BY <1>2, ConcatProperties DEF Sent
  <2>2. \A i \in (Len(q) + 1)..(Len(q) + Len(ms)) :
           i \in 1..Len(q) + Len(ms) /\ ~(i <= Len(q)) /\ i - Len(q) \in 1..Len(ms)
    BY <1>1
  <2>3. \A i \in (Len(q) + 1)..Len(Sent(q, ms)) : Sent(q, ms)[i].name # "media"
    BY <2>1, <2>2
  <2>4. \A i \in 1..Len(q) : Sent(q, ms)[i] = q[i]
    BY SentType
  <2>5. Len(q) <= Len(Sent(q, ms))
    BY SentType
  <2> QED BY <2>1, <2>3, <2>4, <2>5, MediaInSame
<1>3. CASE link # "up"
  BY <1>3 DEF Sent
<1> QED BY <1>2, <1>3

\* Words other than media add none.
LEMMA MediaInSaid ==
  ASSUME NEW q \in Seq(Message), NEW names \in Seq(Names),
         \A i \in 1..Len(names) : names[i] # "media"
  PROVE  MediaIn(Sent(q, Msgs(names))) = MediaIn(q)
<1>1. Msgs(names) \in Seq(Message) /\ \A i \in 1..Len(Msgs(names)) : Msgs(names)[i].name # "media"
  BY MsgsType
<1> QED BY <1>1, MediaInSent

\* Nor does the end of the stream.
LEMMA MediaInEof ==
  ASSUME NEW q \in Seq(Message)
  PROVE  MediaIn(Sent(q, <<Eof>>)) = MediaIn(q)
<1>1. <<Eof>> \in Seq(Message) /\ \A i \in 1..Len(<<Eof>>) : <<Eof>>[i].name # "media"
  BY EofType
<1> QED BY <1>1, MediaInSent

\* A client that does not write media adds none.
LEMMA MediaInClient ==
  ASSUME TypeInv, Quiet, ClientConnects \/ Maintain \/ Shutdown
  PROVE  MediaIn(up') = MediaIn(up) /\ UNCHANGED <<spc, fins, media, link, app>>
<1>1. UNCHANGED <<spc, fins, media, link, app>>
  BY DEF ClientConnects, ClientHandshake, AwaitedComes, OtherComes, MeasureRtt, ClientLoses,
         ClientTimesOut, Maintain, Shutdown, ClientUnchanged, serverVars
<1>2. \/ up' = up
      \/ up' = Sent(up, <<Eof>>)
      \/ up' = Sent(up, Msgs(<<"c2", "setChunkSize", "connect">>))
      \/ up' = Sent(up, Msgs(<<"releaseStream", "FCPublish", "createStream">>))
      \/ up' = Sent(up, Msgs(<<"FCUnpublish", "closeStream", "eof">>))
      \/ up' = Sent(up, Msgs(<<"publish">>))
      \/ up' = Sent(up, Msgs(<<"ping">>))
  <2>1. \A why : ClientFails(why) => up' = Sent(up, <<Eof>>)
    BY DEF ClientFails
  <2>2. \A for, ms : ClientWaits(for, ms) => up' = Sent(up, ms)
    BY DEF ClientWaits
  <2>3. CASE ClientConnects
    BY <2>1, <2>2, <2>3 DEF ClientConnects, ClientHandshake, AwaitedComes, OtherComes, MeasureRtt,
           ClientLoses, ClientTimesOut
  <2>4. CASE Maintain
    <3>1. up' = up \/ up' = Sent(up, Msgs(<<"ping">>)) \/ up' = Sent(up, <<Eof>>)
      BY <2>1, <2>4, MaintainEffect
    <3> QED BY <3>1
  <2>5. CASE Shutdown
    BY <2>5 DEF Shutdown
  <2> QED BY <2>3, <2>4, <2>5
<1>3. up \in Seq(Message)
  BY DEF TypeInv
<1>4. MediaIn(Sent(up, <<Eof>>)) = MediaIn(up)
  BY <1>3, MediaInEof
<1>5. MediaIn(Sent(up, Msgs(<<"c2", "setChunkSize", "connect">>))) = MediaIn(up)
  <2>1. \A i \in 1..Len(<<"c2", "setChunkSize", "connect">>) :
           <<"c2", "setChunkSize", "connect">>[i] # "media"
    OBVIOUS
  <2> QED BY <1>3, <2>1, Sayings, MediaInSaid
<1>6. MediaIn(Sent(up, Msgs(<<"releaseStream", "FCPublish", "createStream">>))) = MediaIn(up)
  <2>1. \A i \in 1..Len(<<"releaseStream", "FCPublish", "createStream">>) :
           <<"releaseStream", "FCPublish", "createStream">>[i] # "media"
    OBVIOUS
  <2> QED BY <1>3, <2>1, Sayings, MediaInSaid
<1>7. MediaIn(Sent(up, Msgs(<<"FCUnpublish", "closeStream", "eof">>))) = MediaIn(up)
  <2>1. \A i \in 1..Len(<<"FCUnpublish", "closeStream", "eof">>) :
           <<"FCUnpublish", "closeStream", "eof">>[i] # "media"
    OBVIOUS
  <2> QED BY <1>3, <2>1, Sayings, MediaInSaid
<1>8. /\ MediaIn(Sent(up, Msgs(<<"publish">>))) = MediaIn(up)
      /\ MediaIn(Sent(up, Msgs(<<"ping">>))) = MediaIn(up)
  <2>1. <<"publish">> \in Seq(Names) /\ <<"ping">> \in Seq(Names)
    BY DEF Names
  <2>2. /\ \A i \in 1..Len(<<"publish">>) : <<"publish">>[i] # "media"
        /\ \A i \in 1..Len(<<"ping">>) : <<"ping">>[i] # "media"
    OBVIOUS
  <2>3. MediaIn(Sent(up, Msgs(<<"publish">>))) = MediaIn(up)
    BY <1>3, <2>1, <2>2, MediaInSaid
  <2>4. MediaIn(Sent(up, Msgs(<<"ping">>))) = MediaIn(up)
    BY <1>3, <2>1, <2>2, MediaInSaid
  <2> QED BY <2>3, <2>4
<1> QED BY <1>1, <1>2, <1>4, <1>5, <1>6, <1>7, <1>8

\* A written message is under way if the connection is up.
LEMMA MediaInWritten ==
  ASSUME TypeInv, up' = Sent(up, Msgs(<<"media">>))
  PROVE  MediaIn(up') = MediaIn(up) + (IF link = "up" THEN 1 ELSE 0)
<1>1. Msgs(<<"media">>) = <<Msg("media")>>
  BY DEF Msgs
<1>2. up \in Seq(Message) /\ MediaIn(up) \in Nat
  BY MediaFinite DEF TypeInv
<1>3. Msg("media") \in Message /\ Msg("media").name = "media"
  BY MsgType DEF Names
<1> QED BY <1>1, <1>2, <1>3, MediaInAppended DEF Sent

\* A server that reads one message, and counts what it hands on.
LEMMA MediaInServer ==
  ASSUME TypeInv, ServerStep
  PROVE  /\ media'.handled + MediaIn(up') <= media.handled + MediaIn(up)
         /\ media'.written = media.written
         /\ spc \in {"command", "pump"} \/ ServerHandshake \/ ServerLoses \/ ServerTimesOut
         /\ spc = "pump" => media'.handled + MediaIn(up') = media.handled + MediaIn(up)
<1> USE DEF TypeInv
<1>1. up \in Seq(Message) /\ MediaIn(up) \in Nat /\ media.handled \in Nat /\ media.written \in Nat
  BY MediaFinite
<1>2. ASSUME up # <<>>, up' = Tail(up)
      PROVE  MediaIn(up') \in Nat
             /\ MediaIn(up) = MediaIn(up') + (IF Head(up).name = "media" THEN 1 ELSE 0)
  <2>1. Tail(up) \in Seq(Message)
    BY <1>1, <1>2, HeadTailProperties
  <2> QED BY <1>1, <1>2, <2>1, MediaFinite, MediaInTail
<1>3. CASE ServerHandshake \/ ServerNegotiates
  <2>1. up # <<>> /\ up' = Tail(up) /\ media' = media /\ spc # "pump"
    BY <1>3 DEF ServerHandshake, ServerNegotiates
  <2>2. spc = "command" \/ ServerHandshake
    BY <1>3 DEF ServerNegotiates
  <2> QED BY <1>1, <1>2, <2>1, <2>2
<1>4. CASE ServerPumps
  <2>1. up # <<>> /\ up' = Tail(up) /\ spc = "pump"
        /\ media' = IF Head(up).name = "media" THEN [media EXCEPT !.handled = @ + 1] ELSE media
    BY <1>4 DEF ServerPumps
  <2>2. media'.handled = media.handled + (IF Head(up).name = "media" THEN 1 ELSE 0)
        /\ media'.written = media.written
    BY <1>1, <2>1
  <2> QED BY <1>1, <1>2, <2>1, <2>2
<1>5. CASE ServerLoses \/ ServerTimesOut
  <2>1. up' = up /\ media' = media
    BY <1>5 DEF ServerLoses, ServerTimesOut
  <2> QED BY <1>1, <1>5, <2>1
<1> QED BY <1>3, <1>4, <1>5 DEF ServerStep

\* Every step keeps the count of media and of ends.
LEMMA EndStep ==
  ASSUME TypeInv, Quiet, EndInv, [Next]_vars
  PROVE  EndInv'
<1> USE DEF TypeInv, EndInv
<1>0. up \in Seq(Message) /\ MediaIn(up) \in Nat /\ media.handled \in Nat /\ media.written \in Nat
  BY MediaFinite
<1>1. CASE ClientConnects \/ Maintain \/ Shutdown
  BY <1>1, MediaInClient
<1>2. CASE WriteMedia
  <2>1. UNCHANGED <<spc, fins, link>>
    BY <1>2 DEF WriteMedia, serverVars
  <2>2. \/ up' = Sent(up, Msgs(<<"media">>)) /\ media' = [media EXCEPT !.written = @ + 1]
        \/ up' = Sent(up, <<Eof>>) /\ media' = media
    BY <1>2 DEF WriteMedia, ClientFails
  <2>3. CASE up' = Sent(up, Msgs(<<"media">>)) /\ media' = [media EXCEPT !.written = @ + 1]
    <3>1. MediaIn(up') <= MediaIn(up) + 1 /\ MediaIn(up') \in Nat
      BY <1>0, <2>3, MediaInWritten
    <3>2. media'.handled = media.handled /\ media'.written = media.written + 1
      BY <2>3
    <3> QED BY <1>0, <2>1, <3>1, <3>2
  <2>4. CASE up' = Sent(up, <<Eof>>) /\ media' = media
    BY <1>0, <2>1, <2>4, MediaInEof
  <2> QED BY <2>2, <2>3, <2>4
<1>3. CASE ServerStep
  <2>1. up' \in Seq(Message) /\ media' \in [written : Nat, handled : Nat]
    BY <1>3, TypeServer
  <2>2. MediaIn(up') \in Nat /\ media'.handled \in Nat /\ media'.written \in Nat
    BY <2>1, MediaFinite
  <2>3. media'.handled + MediaIn(up') <= media'.written
    BY <1>0, <1>3, <2>2, MediaInServer
  <2>4. fins' = IF spc' = "ended" THEN 1 ELSE 0
    <3>1. spc \notin {"ended", "failed"} /\ fins = 0
      BY <1>3, ServerEffect
    <3>2. CASE ServerPumps
      BY <3>1, <3>2 DEF ServerPumps, ServerStops, Ends
    <3>3. CASE ServerHandshake \/ ServerNegotiates \/ ServerLoses \/ ServerTimesOut
      BY <3>1, <3>3 DEF ServerHandshake, ServerNegotiates, ServerLoses, ServerTimesOut, ServerStops
    <3> QED BY <1>3, <3>2, <3>3 DEF ServerStep
  <2> QED BY <2>3, <2>4
<1>4. CASE ConnectionFails
  <2>1. UNCHANGED <<spc, fins, media>>
    BY <1>4 DEF ConnectionFails, serverVars
  <2>2. PICK n \in 0..Len(up) : up' = SubSeq(up, 1, n)
    BY <1>4 DEF ConnectionFails
  <2>3. MediaIn(up') <= MediaIn(up) /\ MediaIn(up') \in Nat
    <3>1. SubSeq(up, 1, n) \in Seq(Message)
      BY <1>0, CutType
    <3> QED BY <1>0, <2>2, <3>1, MediaInPrefix, MediaFinite
  <2> QED BY <1>0, <2>1, <2>3
<1>5. CASE Tick \/ UNCHANGED vars
  <2>1. UNCHANGED <<up, spc, fins, media>>
    BY <1>5 DEF Tick, vars, serverVars
  <2> QED BY <2>1
<1> QED BY <1>1, <1>2, <1>3, <1>4, <1>5 DEF Next

-----------------------------------------------------------------------------
(***************************************************************************)
(* The negotiation on a connection that is up.                             *)
(***************************************************************************)
\* All that a client says until it publishes, and what a server answers.
ClientScript ==
  <<Msg("c0c1"), Msg("c2"), Msg("setChunkSize"), Msg("connect"),
    Msg("releaseStream"), Msg("FCPublish"), Msg("createStream"), Msg("publish")>>

ServerScript(a) ==
  IF a = "served"
  THEN <<Msg("s0s1s2"), Msg("setChunkSize"), Msg("windowAck"), Msg("setPeerBw"),
         Result(1), Result(2), Result(3), Result(4), Msg("onStatus")>>
  ELSE <<Msg("s0s1s2"), Msg("setChunkSize"), Msg("windowAck"), Msg("setPeerBw"),
         Msg("_error"), Eof>>

\* A channel holds what a script says after the first `from` messages, up to `to`.
Window(q, script, from, to) ==
  /\ Len(q) = to - from
  /\ \A j \in 1..Len(q) : q[j] = script[from + j]

\* How much the server has said, and where it stands, when it has consumed the
\* first n messages of the client.
Out(a, n) ==
  IF n <= 1 THEN n
  ELSE IF n <= 3 THEN 4
  ELSE IF a = "served" THEN n + 1 ELSE 6

ServerPhase(a, n) ==
  IF n = 0 THEN "c0c1"
  ELSE IF n = 1 THEN "c2"
  ELSE IF n <= 3 \/ (a = "served" /\ n <= 7) THEN "command"
  ELSE IF a = "served" THEN "pump" ELSE "failed"

\* How much the client has said, and where it stands, when it has consumed the
\* first k messages of the server.
Asked ==
  IF cpc = "s0" THEN 1
  ELSE IF cpc = "connect" THEN 4
  ELSE IF cpc = "create" THEN 7
  ELSE 8

Hears(k) ==
  \/ cpc = "s0" /\ k = 0
  \/ cpc = "connect" /\ k \in 1..4 /\ pending = 0
  \/ cpc = "create" /\ k \in 5..7 /\ pending = k - 5 /\ app = "served"
  \/ cpc = "publish" /\ k = 8 /\ app = "served"

Met(i, k) ==
  /\ Hears(k) /\ i <= Asked /\ k <= Out(app, i)
  /\ app = "other" => i <= 4
  /\ spc = ServerPhase(app, i)
  /\ Window(up, ClientScript, i, Asked)
  /\ Window(down, ServerScript(app), k, Out(app, i))

Negotiated == \E i, k \in 0..8 : Met(i, k)

\* Reading takes the next message of the script.
LEMMA WindowTail ==
  ASSUME NEW q \in Seq(Message), NEW script, NEW from \in Nat, NEW to \in Nat,
         Window(q, script, from, to), q # <<>>
  PROVE  /\ from < to
         /\ Head(q) = script[from + 1]
         /\ Window(Tail(q), script, from + 1, to)
<1>1. Len(q) \in Nat /\ Len(q) # 0 /\ Head(q) = q[1]
  BY LenProperties, EmptySeq
<1>2. /\ Tail(q) \in Seq(Message) /\ Len(Tail(q)) = Len(q) - 1
      /\ \A j \in 1..Len(Tail(q)) : Tail(q)[j] = q[j + 1]
  BY HeadTailProperties
<1>3. Len(q) = to - from /\ \A j \in 1..Len(q) : q[j] = script[from + j]
  BY DEF Window
<1>4. from < to /\ Len(Tail(q)) = to - (from + 1) /\ 1 \in 1..Len(q)
  BY <1>1, <1>2, <1>3
<1>5. \A j \in 1..Len(Tail(q)) : Tail(q)[j] = script[(from + 1) + j]
  <2> SUFFICES ASSUME NEW j \in 1..Len(Tail(q)) PROVE Tail(q)[j] = script[(from + 1) + j]
    OBVIOUS
  <2>1. j + 1 \in 1..Len(q) /\ from + (j + 1) = (from + 1) + j
    BY <1>1, <1>2
  <2> QED BY <1>2, <1>3, <2>1
<1> QED BY <1>1, <1>3, <1>4, <1>5 DEF Window

\* A channel is empty when all that was said was read.
LEMMA WindowEmpty ==
  ASSUME NEW q \in Seq(Message), NEW script, NEW from \in Nat, NEW to \in Nat,
         Window(q, script, from, to)
  PROVE  q = <<>> <=> from = to
<1>1. Len(q) \in Nat /\ (q = <<>> <=> Len(q) = 0) /\ Len(q) = to - from
  BY LenProperties, EmptySeq DEF Window
<1> QED BY <1>1

\* Speaking is saying the next messages of the script.
LEMMA WindowSent ==
  ASSUME NEW q \in Seq(Message), NEW script, NEW from \in Nat, NEW to \in Nat,
         Window(q, script, from, to), link = "up",
         NEW ms \in Seq(Message), \A j \in 1..Len(ms) : ms[j] = script[to + j]
  PROVE  Window(Sent(q, ms), script, from, to + Len(ms))
<1>1. Len(q) \in Nat /\ Len(ms) \in Nat
  BY LenProperties
<1>2. /\ Sent(q, ms) \in Seq(Message) /\ Len(Sent(q, ms)) = Len(q) + Len(ms)
      /\ \A j \in 1..Len(q) + Len(ms) :
           Sent(q, ms)[j] = IF j <= Len(q) THEN q[j] ELSE ms[j - Len(q)]
  BY ConcatProperties DEF Sent
<1>3. Len(q) = to - from /\ \A j \in 1..Len(q) : q[j] = script[from + j]
  BY DEF Window
<1>4. \A j \in 1..Len(Sent(q, ms)) : Sent(q, ms)[j] = script[from + j]
  <2> SUFFICES ASSUME NEW j \in 1..Len(Sent(q, ms)) PROVE Sent(q, ms)[j] = script[from + j]
    OBVIOUS
  <2>1. j \in 1..Len(q) + Len(ms)
    BY <1>2
  <2>2. CASE j <= Len(q)
    <3>1. j \in 1..Len(q)
      BY <1>1, <2>1, <2>2
    <3> QED BY <1>2, <1>3, <2>1, <2>2, <3>1
  <2>3. CASE ~(j <= Len(q))
    <3>1. j - Len(q) \in 1..Len(ms) /\ to + (j - Len(q)) = from + j
      BY <1>1, <1>3, <2>1, <2>3
    <3>2. Sent(q, ms)[j] = ms[j - Len(q)]
      BY <1>2, <2>1, <2>3
    <3>3. ms[j - Len(q)] = script[to + (j - Len(q))]
      BY <3>1
    <3> QED BY <3>1, <3>2, <3>3
  <2> QED BY <2>2, <2>3
<1>5. Len(Sent(q, ms)) = (to + Len(ms)) - from
  BY <1>1, <1>2, <1>3
<1> QED BY <1>4, <1>5 DEF Window

\* What the client says, word by word.
LEMMA ClientSays ==
  /\ ClientScript[1] = Msg("c0c1") /\ ClientScript[2] = Msg("c2")
  /\ ClientScript[3] = Msg("setChunkSize") /\ ClientScript[4] = Msg("connect")
  /\ ClientScript[5] = Msg("releaseStream") /\ ClientScript[6] = Msg("FCPublish")
  /\ ClientScript[7] = Msg("createStream") /\ ClientScript[8] = Msg("publish")
BY DEF ClientScript

\* What the server says, word by word.
LEMMA ServerSays ==
  ASSUME NEW a
  PROVE  /\ ServerScript(a)[1] = Msg("s0s1s2") /\ ServerScript(a)[2] = Msg("setChunkSize")
         /\ ServerScript(a)[3] = Msg("windowAck") /\ ServerScript(a)[4] = Msg("setPeerBw")
         /\ a = "served" => /\ ServerScript(a)[5] = Result(1) /\ ServerScript(a)[6] = Result(2)
                            /\ ServerScript(a)[7] = Result(3) /\ ServerScript(a)[8] = Result(4)
                            /\ ServerScript(a)[9] = Msg("onStatus")
         /\ a # "served" => ServerScript(a)[5] = Msg("_error") /\ ServerScript(a)[6] = Eof
BY DEF ServerScript

\* The client's and the server's own words are those of the scripts.
LEMMA ClientWords ==
  /\ Msgs(<<"c2", "setChunkSize", "connect">>) = <<ClientScript[2], ClientScript[3], ClientScript[4]>>
  /\ Msgs(<<"releaseStream", "FCPublish", "createStream">>)
       = <<ClientScript[5], ClientScript[6], ClientScript[7]>>
  /\ Msgs(<<"publish">>) = <<ClientScript[8]>>
BY DEF Msgs, ClientScript

\* Three words of the script at once.
LEMMA ThreeWords ==
  ASSUME NEW a \in Nat
  PROVE  LET ms == <<ClientScript[a + 1], ClientScript[a + 2], ClientScript[a + 3]>>
         IN  Len(ms) = 3 /\ \A j \in 1..Len(ms) : ms[j] = ClientScript[a + j]
<1> DEFINE ms == <<ClientScript[a + 1], ClientScript[a + 2], ClientScript[a + 3]>>
<1>1. Len(ms) = 3 /\ ms[1] = ClientScript[a + 1] /\ ms[2] = ClientScript[a + 2]
      /\ ms[3] = ClientScript[a + 3]
  OBVIOUS
<1> HIDE DEF ms
<1>2. \A j \in 1..Len(ms) : j = 1 \/ j = 2 \/ j = 3
  BY <1>1
<1>3. \A j \in 1..Len(ms) : ms[j] = ClientScript[a + j]
  BY <1>1, <1>2
<1> QED BY <1>1, <1>3 DEF ms

\* What a client of the script reads next.
LEMMA NextHeard ==
  ASSUME TypeInv, NEW i \in 0..8, NEW k \in 0..8, Met(i, k), Received
  PROVE  /\ k + 1 <= Out(app, i)
         /\ Head(down) = ServerScript(app)[k + 1]
         /\ Window(down', ServerScript(app), k + 1, Out(app, i))
         /\ cpc = "publish" => i = 8 /\ spc = "pump" /\ up = <<>> /\ down' = <<>>
<1>1. down \in Seq(Message) /\ down # <<>> /\ down' = Tail(down) /\ up \in Seq(Message)
  BY DEF TypeInv, Received
<1>2. Out(app, i) \in Nat /\ Window(down, ServerScript(app), k, Out(app, i))
  BY DEF Met, Out
<1>3. /\ k < Out(app, i) /\ Head(down) = ServerScript(app)[k + 1]
      /\ Window(down', ServerScript(app), k + 1, Out(app, i))
  BY <1>1, <1>2, WindowTail
<1>4. ASSUME cpc = "publish" PROVE i = 8 /\ spc = "pump" /\ up = <<>> /\ down' = <<>>
  <2>1. k = 8 /\ app = "served" /\ Asked = 8
    BY <1>4 DEF Met, Hears, Asked
  <2>2. i = 8 /\ Out(app, i) = 9
    BY <1>3, <2>1 DEF Out
  <2>3. spc = "pump" /\ Window(up, ClientScript, 8, 8)
    BY <2>1, <2>2 DEF Met, ServerPhase
  <2>4. up = <<>>
    BY <1>1, <2>3, WindowEmpty
  <2>5. down' \in Seq(Message) /\ Window(down', ServerScript(app), 9, 9)
    BY <1>1, <1>3, <2>1, <2>2, HeadTailProperties
  <2> QED BY <2>2, <2>3, <2>4, <2>5, WindowEmpty
<1> QED BY <1>2, <1>3, <1>4

\* The next state of a script, the client having read.
LEMMA MetHeard ==
  ASSUME NEW i \in 0..8, NEW k \in 0..7, Met(i, k), k + 1 <= Out(app, i),
         UNCHANGED <<app, spc>>, Hears(k + 1)',
         Window(down', ServerScript(app), k + 1, Out(app, i)),
         Window(up', ClientScript, i, Asked'), Asked <= Asked'
  PROVE  Negotiated'
<1>1. /\ Hears(k + 1)' /\ i <= Asked' /\ k + 1 <= Out(app', i)
      /\ app' = "other" => i <= 4
      /\ spc' = ServerPhase(app', i)
      /\ Window(up', ClientScript, i, Asked')
      /\ Window(down', ServerScript(app'), k + 1, Out(app', i))
  BY DEF Met, Asked
<1>2. k + 1 \in 0..8
  OBVIOUS
<1> QED BY <1>1, <1>2 DEF Negotiated, Met

\* The client says its next words.
LEMMA AskedNext ==
  ASSUME TypeInv, NEW i \in 0..8, NEW k \in 0..8, Met(i, k), link = "up",
         NEW ms \in Seq(Message), up' = Sent(up, ms), Asked' = Asked + Len(ms),
         \A j \in 1..Len(ms) : ms[j] = ClientScript[Asked + j]
  PROVE  Window(up', ClientScript, i, Asked')
<1>1. up \in Seq(Message) /\ Asked \in Nat /\ Window(up, ClientScript, i, Asked) /\ i \in Nat
  BY DEF TypeInv, Met, Asked
<1>2. Window(Sent(up, ms), ClientScript, i, Asked + Len(ms))
  <2> DEFINE a == Asked
  <2>1. a \in Nat /\ Window(up, ClientScript, i, a) /\ \A j \in 1..Len(ms) : ms[j] = ClientScript[a + j]
    BY <1>1
  <2> HIDE DEF a
  <2>2. Window(Sent(up, ms), ClientScript, i, a + Len(ms))
    BY <1>1, <2>1, WindowSent
  <2> QED BY <2>2 DEF a
<1> QED BY <1>2

\* The bound on what a client skips is above what this server says before it answers.
Roomy == MaxPending >= 3 /\ MaxUnanswered >= 2

\* A negotiating client follows the script to its end, or is refused.
LEMMA NegotiatedClient ==
  ASSUME TypeInv, Quiet, link = "up", Negotiated, ClientConnects
  PROVE  \/ cpc' \in Negotiating /\ Negotiated'
         \/ cpc' = "rtt" /\ spc = "pump" /\ up = <<>> /\ down' = <<>> /\ up' = Sent(up, Msgs(<<"ping">>))
         \/ cpc' = "failed" /\ (Roomy => app = "other" /\ reason' = "refused")
<1> USE DEF Negotiating
<1>1. PICK i \in 0..8, k \in 0..8 : Met(i, k)
  BY DEF Negotiated
<1>2. cpc \in Negotiating /\ Hears(k) /\ pending \in Nat /\ app \in {"served", "other"}
  BY <1>1 DEF Met, Hears, TypeInv
<1>3. UNCHANGED <<app, spc>>
  BY DEF ClientConnects, ClientHandshake, AwaitedComes, OtherComes, MeasureRtt, ClientLoses,
         ClientTimesOut, ClientUnchanged, serverVars
<1>4. \A n \in Names : Msg(n).name = n
  BY MsgType
<1>5. \A t \in Int : Result(t).name = "_result" /\ Result(t).txn = t
  BY ResultType
<1>6. CASE ClientHandshake
  <2>1. Received /\ cpc = "s0" /\ cpc' = "connect" /\ pending' = 0 /\ k = 0
        /\ up' = Sent(up, Msgs(<<"c2", "setChunkSize", "connect">>))
    BY <1>2, <1>6 DEF ClientHandshake, ClientWaits, Hears
  <2>2. Hears(k + 1)' /\ Asked = 1 /\ Asked' = 4
    BY <2>1 DEF Hears, Asked
  <2>3. Window(up', ClientScript, i, Asked')
    <3>1. Msgs(<<"c2", "setChunkSize", "connect">>) \in Seq(Message)
      BY MsgsType, Sayings
    <3>2. /\ Len(Msgs(<<"c2", "setChunkSize", "connect">>)) = 3
          /\ \A j \in 1..Len(Msgs(<<"c2", "setChunkSize", "connect">>)) :
               Msgs(<<"c2", "setChunkSize", "connect">>)[j] = ClientScript[Asked + j]
      <4>1. 1 + 1 = 2 /\ 1 + 2 = 3 /\ 1 + 3 = 4 /\ 1 \in Nat
        OBVIOUS
      <4> QED BY <2>2, <4>1, ClientWords, ThreeWords
    <3> DEFINE ms == Msgs(<<"c2", "setChunkSize", "connect">>)
    <3>3. ms \in Seq(Message) /\ up' = Sent(up, ms) /\ Asked' = Asked + Len(ms)
          /\ \A j \in 1..Len(ms) : ms[j] = ClientScript[Asked + j]
      BY <2>1, <2>2, <3>1, <3>2
    <3> HIDE DEF ms
    <3> QED BY <1>1, <3>3, AskedNext
  <2> QED BY <1>1, <1>3, <2>1, <2>2, <2>3, NextHeard, MetHeard
<1>7. CASE AwaitedComes
  <2>1. Received /\ Head(down) = ServerScript(app)[k + 1] /\ k + 1 <= Out(app, i)
    BY <1>1, <1>7, NextHeard DEF AwaitedComes
  <2>2. CASE cpc = "connect"
    <3>1. cpc' = "create" /\ pending' = 0 /\ Head(down).name = "_result"
          /\ up' = Sent(up, Msgs(<<"releaseStream", "FCPublish", "createStream">>))
      BY <1>7, <2>2 DEF AwaitedComes, ClientWaits, Answers
    <3>2. k \in 1..4 /\ (k = 1 \/ k = 2 \/ k = 3 \/ k = 4)
      BY <1>2, <2>2 DEF Hears
    <3>3. k = 4 /\ app = "served"
      BY <1>2, <1>4, <2>1, <3>1, <3>2, ServerSays DEF Names
    <3>4. Hears(k + 1)' /\ Asked = 4 /\ Asked' = 7
      BY <1>3, <2>2, <3>1, <3>3 DEF Hears, Asked
    <3>5. Window(up', ClientScript, i, Asked')
      <4>1. Msgs(<<"releaseStream", "FCPublish", "createStream">>) \in Seq(Message)
        BY MsgsType, Sayings
      <4>2. /\ Len(Msgs(<<"releaseStream", "FCPublish", "createStream">>)) = 3
            /\ \A j \in 1..Len(Msgs(<<"releaseStream", "FCPublish", "createStream">>)) :
                 Msgs(<<"releaseStream", "FCPublish", "createStream">>)[j] = ClientScript[Asked + j]
        BY <3>4, ClientWords, ThreeWords
      <4> DEFINE ms == Msgs(<<"releaseStream", "FCPublish", "createStream">>)
      <4>3. ms \in Seq(Message) /\ up' = Sent(up, ms) /\ Asked' = Asked + Len(ms)
            /\ \A j \in 1..Len(ms) : ms[j] = ClientScript[Asked + j]
        <5>1. Asked = 4 /\ Asked' = 7 /\ 7 = 4 + 3
          BY <3>4
        <5>2. Asked' = Asked + Len(ms)
          BY <4>2, <5>1
        <5> QED BY <3>1, <4>1, <4>2, <5>2
      <4> HIDE DEF ms
      <4> QED BY <1>1, <4>3, AskedNext
    <3> QED BY <1>1, <1>3, <2>1, <3>1, <3>3, <3>4, <3>5, NextHeard, MetHeard
  <2>3. CASE cpc = "create"
    <3>1. Head(down).name = "_result" /\ Head(down).txn = 4
      BY <1>7, <2>3 DEF AwaitedComes, Answers, Txn
    <3>2. cpc' = "publish" /\ pending' = 0 /\ up' = Sent(up, Msgs(<<"publish">>))
      BY <1>7, <2>3, <3>1 DEF AwaitedComes, ClientWaits, Txn
    <3>3. app = "served" /\ k \in 5..7 /\ (k = 5 \/ k = 6 \/ k = 7)
      BY <1>2, <2>3 DEF Hears
    <3>4. k = 7
      BY <1>5, <2>1, <3>1, <3>3, ServerSays
    <3>5. Hears(k + 1)' /\ Asked = 7 /\ Asked' = 8
      BY <1>3, <2>3, <3>2, <3>3, <3>4 DEF Hears, Asked
    <3>6. Window(up', ClientScript, i, Asked')
      <4>1. Msgs(<<"publish">>) \in Seq(Message)
        BY MsgsType, Sayings DEF Names
      <4>2. /\ Len(Msgs(<<"publish">>)) = 1
            /\ \A j \in 1..Len(Msgs(<<"publish">>)) : Msgs(<<"publish">>)[j] = ClientScript[Asked + j]
        BY <3>5, ClientWords
      <4> DEFINE ms == Msgs(<<"publish">>)
      <4>3. ms \in Seq(Message) /\ up' = Sent(up, ms) /\ Asked' = Asked + Len(ms)
            /\ \A j \in 1..Len(ms) : ms[j] = ClientScript[Asked + j]
        <5>1. Asked = 7 /\ Asked' = 8 /\ 8 = 7 + 1
          BY <3>5
        <5>2. Asked' = Asked + Len(ms)
          BY <4>2, <5>1
        <5> QED BY <3>2, <4>1, <4>2, <5>2
      <4> HIDE DEF ms
      <4> QED BY <1>1, <4>3, AskedNext
    <3> QED BY <1>1, <1>3, <2>1, <3>2, <3>4, <3>5, <3>6, NextHeard, MetHeard
  <2>4. CASE cpc = "publish"
    <3>1. cpc' = "rtt" /\ up' = Sent(up, Msgs(<<"ping">>))
      BY <1>7, <2>4 DEF AwaitedComes, ClientWaits
    <3> QED BY <1>1, <2>1, <2>4, <3>1, NextHeard
  <2> QED BY <1>7, <2>2, <2>3, <2>4 DEF AwaitedComes
<1>8. CASE OtherComes
  <2>1. Received /\ Head(down) = ServerScript(app)[k + 1] /\ k + 1 <= Out(app, i)
        /\ cpc \in {"connect", "create", "publish"}
    BY <1>1, <1>8, NextHeard DEF OtherComes
  <2>2. \/ cpc' = "failed" /\ Head(down).name = "_error" /\ reason' = "refused"
        \/ cpc' = "failed" /\ pending' = MaxPending
        \/ cpc' = cpc /\ up' = up /\ Head(down).name # "_error"
    BY <1>8 DEF OtherComes, ClientFails
  <2>3. pending' = IF Head(down).name \in {"_result", "_error", "onStatus"} THEN pending + 1 ELSE pending
    BY <1>8 DEF OtherComes, IsCommand
  <2>4. k <= 7 /\ Asked \in Nat
    <3>1. cpc = "publish" => i = 8
      BY <1>1, <2>1, NextHeard
    <3>2. cpc = "publish" => k = 8 /\ app = "served" /\ Head(down).name # "onStatus"
      BY <1>2, <1>8 DEF Hears, OtherComes
    <3>3. cpc # "publish"
      BY <1>4, <2>1, <3>2, ServerSays DEF Names
    <3> QED BY <1>2, <2>1, <3>3 DEF Hears, Asked
  <2>5. CASE cpc = "connect"
    <3>1. (k = 1 \/ k = 2 \/ k = 3 \/ k = 4) /\ pending = 0
          /\ ~(Head(down).name = "_result" /\ Head(down).txn = 1)
      <4>1. k \in 1..4 /\ pending = 0
        BY <1>2, <2>5 DEF Hears
      <4>2. ~Answers(Head(down), Txn.connect)
        BY <1>8, <2>5 DEF OtherComes
      <4>3. ~(Head(down).name = "_result" /\ Head(down).txn = 1)
        BY <4>2 DEF Answers, Txn
      <4> QED BY <4>1, <4>3
    <3>2. CASE k = 4
      <4>1. app = "other" /\ Head(down).name = "_error"
        BY <1>2, <1>4, <1>5, <2>1, <3>1, <3>2, ServerSays DEF Names
      <4>2. cpc' = "failed" /\ pending' = 1
        BY <2>2, <2>3, <3>1, <4>1
      <4>3. reason' = "refused"
        BY <1>8, <4>1 DEF OtherComes, ClientFails
      <4> QED BY <4>1, <4>2, <4>3
    <3>3. CASE k # 4
      <4>1. Head(down).name \in {"setChunkSize", "windowAck", "setPeerBw"}
        BY <1>4, <2>1, <3>1, <3>3, ServerSays DEF Names
      <4>2. pending' = 0
        BY <2>3, <3>1, <4>1
      <4>3. CASE cpc' = "failed"
        <5>1. pending' = MaxPending
          BY <2>1, <2>2, <4>1, <4>3
        <5>2. ~Roomy
          BY <4>2, <5>1 DEF Roomy
        <5> QED BY <4>3, <5>2
      <4>4. CASE cpc' = cpc /\ up' = up
        <5>1. Hears(k + 1)' /\ Asked' = Asked
          BY <2>5, <3>1, <3>3, <4>2, <4>4 DEF Hears, Asked
        <5>2. Window(up', ClientScript, i, Asked')
          BY <1>1, <4>4, <5>1 DEF Met
        <5> QED BY <1>1, <1>3, <2>1, <2>4, <2>5, <4>4, <5>1, <5>2, NextHeard, MetHeard
      <4> QED BY <2>2, <4>3, <4>4
    <3> QED BY <3>2, <3>3
  <2>6. CASE cpc = "create"
    <3>1. (k = 5 \/ k = 6 \/ k = 7) /\ pending = k - 5 /\ app = "served"
          /\ ~(Head(down).name = "_result" /\ Head(down).txn = 4)
      <4>1. k \in 5..7 /\ pending = k - 5 /\ app = "served"
        BY <1>2, <2>6 DEF Hears
      <4>2. ~Answers(Head(down), Txn.create)
        BY <1>8, <2>6 DEF OtherComes
      <4>3. ~(Head(down).name = "_result" /\ Head(down).txn = 4)
        BY <4>2 DEF Answers, Txn
      <4> QED BY <4>1, <4>3
    <3>2. k # 7 /\ Head(down).name = "_result"
      BY <1>5, <2>1, <3>1, ServerSays
    <3>3. pending' = (k + 1) - 5 /\ k + 1 \in 5..7
      BY <2>3, <3>1, <3>2
    <3>4. CASE cpc' = "failed"
      <4>1. pending' = MaxPending
        BY <2>2, <2>6, <3>2, <3>4
      <4>2. pending' \in {0, 1, 2}
        BY <3>3
      <4> QED BY <3>4, <4>1, <4>2 DEF Roomy
    <3>5. CASE cpc' = cpc /\ up' = up
      <4>1. Hears(k + 1)' /\ Asked' = Asked
        BY <1>3, <2>6, <3>1, <3>3, <3>5 DEF Hears, Asked
      <4>2. Window(up', ClientScript, i, Asked')
        BY <1>1, <3>5, <4>1 DEF Met
      <4> QED BY <1>1, <1>3, <2>1, <2>4, <2>6, <3>5, <4>1, <4>2, NextHeard, MetHeard
    <3> QED BY <2>2, <3>4, <3>5
  <2>7. CASE cpc = "publish"
    BY <1>2, <2>4, <2>7 DEF Hears
  <2> QED BY <2>1, <2>5, <2>6, <2>7
<1>9. CASE MeasureRtt
  BY <1>2, <1>9 DEF MeasureRtt
<1>10. CASE ClientLoses
  <2>1. down # <<>> /\ Head(down) = Eof /\ down \in Seq(Message)
    BY <1>10 DEF ClientLoses, Lost, TypeInv
  <2>2. Out(app, i) \in Nat /\ Window(down, ServerScript(app), k, Out(app, i))
    BY <1>1 DEF Met, Out
  <2>3. k < Out(app, i) /\ ServerScript(app)[k + 1] = Eof
    BY <2>1, <2>2, WindowTail
  <2>4. ServerScript(app)[k + 1].name = "eof"
    BY <2>3, EofType
  <2>5. k = 0 \/ k = 1 \/ k = 2 \/ k = 3 \/ k = 4 \/ (app = "served" /\ (k = 5 \/ k = 6 \/ k = 7 \/ k = 8))
    BY <1>2 DEF Hears
  <2>6. FALSE
    <3>1. CASE k \in {0, 1, 2, 3}
      BY <1>4, <2>4, <3>1, ServerSays DEF Names
    <3>2. CASE k = 4
      BY <1>2, <1>4, <1>5, <2>4, <3>2, ServerSays DEF Names
    <3>3. CASE app = "served" /\ (k = 5 \/ k = 6 \/ k = 7 \/ k = 8)
      BY <1>4, <1>5, <2>4, <3>3, ServerSays DEF Names
    <3> QED BY <2>5, <3>1, <3>2, <3>3
  <2> QED BY <2>6
<1>11. CASE ClientTimesOut
  BY <1>11 DEF ClientTimesOut
<1> QED BY <1>6, <1>7, <1>8, <1>9, <1>10, <1>11 DEF ClientConnects

\* Two words said one after the other.
LEMMA TwoWords ==
  ASSUME NEW p \in Seq(Message), NEW q \in Seq(Message), Len(p) = 1, Len(q) = 1
  PROVE  p \o q \in Seq(Message) /\ Len(p \o q) = 2 /\ (p \o q)[1] = p[1] /\ (p \o q)[2] = q[1]
<1>1. p \o q \in Seq(Message) /\ Len(p \o q) = Len(p) + Len(q)
      /\ \A i \in 1..(Len(p) + Len(q)) : (p \o q)[i] = IF i <= Len(p) THEN p[i] ELSE q[i - Len(p)]
  BY ConcatProperties
<1>2. 1 \in 1..(Len(p) + Len(q)) /\ 2 \in 1..(Len(p) + Len(q)) /\ 1 <= Len(p) /\ ~(2 <= Len(p))
      /\ 2 - Len(p) = 1 /\ Len(p) + Len(q) = 2
  OBVIOUS
<1> QED BY <1>1, <1>2

\* Where a server stands, by what it has read.
LEMMA PhaseAt ==
  ASSUME NEW a \in {"served", "other"}, NEW n \in 0..8, a = "other" => n <= 4
  PROVE  /\ ServerPhase(a, n) = "c0c1" => n = 0
         /\ ServerPhase(a, n) = "c2" => n = 1
         /\ ServerPhase(a, n) = "command" =>
              n = 2 \/ n = 3 \/ (a = "served" /\ (n = 4 \/ n = 5 \/ n = 6 \/ n = 7))
         /\ ServerPhase(a, n) = "pump" => a = "served" /\ n = 8
<1>1. n = 0 \/ n = 1 \/ n = 2 \/ n = 3 \/ n = 4 \/ n = 5 \/ n = 6 \/ n = 7 \/ n = 8
  OBVIOUS
<1>2. CASE a = "served"
  BY <1>1, <1>2 DEF ServerPhase
<1>3. CASE a = "other"
  <2>1. a # "served" /\ n <= 4
    BY <1>3
  <2> QED BY <1>1, <2>1 DEF ServerPhase
<1> QED BY <1>2, <1>3

\* The next state of a script, the server having read one message and answered.
LEMMA MetServed ==
  ASSUME TypeInv, NEW i \in 0..7, NEW k \in 0..8, Met(i, k), link = "up",
         UNCHANGED <<app, cpc, pending>>, up # <<>>, up' = Tail(up),
         NEW ms \in Seq(Message), down' = Sent(down, ms),
         Out(app, i + 1) = Out(app, i) + Len(ms),
         \A j \in 1..Len(ms) : ms[j] = ServerScript(app)[Out(app, i) + j],
         spc' = ServerPhase(app, i + 1), app = "other" => i + 1 <= 4
  PROVE  Negotiated'
<1>1. /\ up \in Seq(Message) /\ down \in Seq(Message) /\ Asked \in Nat /\ Asked' = Asked
      /\ i \in Nat /\ k \in Nat
  BY DEF TypeInv, Asked
<1>2. /\ Window(up, ClientScript, i, Asked) /\ Window(down, ServerScript(app), k, Out(app, i))
      /\ Hears(k) /\ k <= Out(app, i)
  BY DEF Met
<1>3. i < Asked /\ Window(up', ClientScript, i + 1, Asked)
  BY <1>1, <1>2, WindowTail
<1>4. Len(ms) \in Nat /\ Out(app, i) \in Nat
  BY LenProperties DEF Out
<1>5. Window(down', ServerScript(app), k, Out(app, i + 1))
  <2> DEFINE o == Out(app, i)
             script == ServerScript(app)
  <2>1. o \in Nat /\ Window(down, script, k, o) /\ \A j \in 1..Len(ms) : ms[j] = script[o + j]
    BY <1>2, <1>4
  <2> HIDE DEF o, script
  <2>2. Window(Sent(down, ms), script, k, o + Len(ms))
    BY <1>1, <2>1, WindowSent
  <2> QED BY <2>2 DEF o, script
<1>6. k <= Out(app, i + 1) /\ i + 1 <= Asked /\ i + 1 \in 0..8
  BY <1>1, <1>2, <1>3, <1>4
<1>7. Hears(k)'
  BY <1>2 DEF Hears
<1>8. /\ Hears(k)' /\ i + 1 <= Asked' /\ k <= Out(app', i + 1)
      /\ app' = "other" => i + 1 <= 4
      /\ spc' = ServerPhase(app', i + 1)
      /\ Window(up', ClientScript, i + 1, Asked')
      /\ Window(down', ServerScript(app'), k, Out(app', i + 1))
  BY <1>1, <1>3, <1>5, <1>6, <1>7
<1> QED BY <1>6, <1>8 DEF Negotiated, Met

\* What a server of the script reads next.
LEMMA NextAsked ==
  ASSUME TypeInv, NEW i \in 0..8, NEW k \in 0..8, Met(i, k), up # <<>>
  PROVE  i \in 0..7 /\ i < Asked /\ Head(up) = ClientScript[i + 1]
<1>1. up \in Seq(Message) /\ Asked \in Nat /\ Asked <= 8 /\ Window(up, ClientScript, i, Asked) /\ i \in Nat
  BY DEF TypeInv, Met, Asked
<1>2. i < Asked /\ Head(up) = ClientScript[i + 1]
  BY <1>1, WindowTail
<1> QED BY <1>1, <1>2

\* A negotiating server follows the script.
LEMMA NegotiatedServer ==
  ASSUME TypeInv, link = "up", Negotiated, ServerStep
  PROVE  Negotiated'
<1>1. PICK i \in 0..8, k \in 0..8 : Met(i, k)
  BY DEF Negotiated
<1>2. /\ UNCHANGED <<link, app, cpc, pending>> /\ app \in {"served", "other"}
      /\ spc = ServerPhase(app, i)
      /\ app = "other" => i <= 4
  BY <1>1, ServerEffect DEF Met, TypeInv
<1>3. up # <<>> => i \in 0..7 /\ i < Asked /\ Head(up) = ClientScript[i + 1]
  BY <1>1, NextAsked
<1>4. \A n \in Names : Msg(n).name = n /\ Msg(n) \in Message
  BY MsgType
<1>5. CASE ServerHandshake
  <2>1. up # <<>> /\ up' = Tail(up)
    BY <1>5 DEF ServerHandshake
  <2>2. \/ spc = "c0c1" /\ spc' = "c2" /\ down' = Sent(down, Msgs(<<"s0s1s2">>))
        \/ spc = "c2" /\ spc' = "command"
           /\ down' = Sent(down, Msgs(<<"setChunkSize", "windowAck", "setPeerBw">>))
    BY <1>5 DEF ServerHandshake
  <2>3. CASE spc = "c0c1"
    <3> DEFINE ms == Msgs(<<"s0s1s2">>)
    <3>1. i = 0 /\ spc' = "c2" /\ down' = Sent(down, ms)
      BY <1>2, <2>2, <2>3, PhaseAt
    <3>2. ms \in Seq(Message) /\ Len(ms) = 1 /\ ms[1] = ServerScript(app)[1]
      <4>1. ms = <<Msg("s0s1s2")>>
        BY DEF Msgs
      <4>2. Msg("s0s1s2") \in Message
        BY <1>4 DEF Names
      <4> HIDE DEF ms
      <4> QED BY <4>1, <4>2, ServerSays
    <3> HIDE DEF ms
    <3>3. Out(app, 0) = 0 /\ Out(app, 0 + 1) = 1 /\ spc' = ServerPhase(app, 0 + 1)
      BY <3>1 DEF Out, ServerPhase
    <3>4. \A j \in 1..Len(ms) : ms[j] = ServerScript(app)[0 + j]
      BY <3>2
    <3>5. /\ Out(app, i + 1) = Out(app, i) + Len(ms) /\ spc' = ServerPhase(app, i + 1)
          /\ \A j \in 1..Len(ms) : ms[j] = ServerScript(app)[Out(app, i) + j]
          /\ i \in 0..7
          /\ app = "other" => i + 1 <= 4
      BY <3>1, <3>2, <3>3, <3>4
    <3> QED BY <1>1, <1>2, <2>1, <3>1, <3>2, <3>5, MetServed
  <2>4. CASE spc = "c2"
    <3> DEFINE ms == Msgs(<<"setChunkSize", "windowAck", "setPeerBw">>)
    <3>1. i = 1 /\ spc' = "command" /\ down' = Sent(down, ms)
      BY <1>2, <2>2, <2>4, PhaseAt
    <3>2. ms \in Seq(Message) /\ Len(ms) = 3 /\ ms[1] = ServerScript(app)[2]
          /\ ms[2] = ServerScript(app)[3] /\ ms[3] = ServerScript(app)[4]
      <4>1. ms = <<Msg("setChunkSize"), Msg("windowAck"), Msg("setPeerBw")>>
        BY DEF Msgs
      <4>2. Msg("setChunkSize") \in Message /\ Msg("windowAck") \in Message /\ Msg("setPeerBw") \in Message
        BY <1>4 DEF Names
      <4> HIDE DEF ms
      <4> QED BY <4>1, <4>2, ServerSays
    <3> HIDE DEF ms
    <3>3. Out(app, 1) = 1 /\ Out(app, 1 + 1) = 4 /\ spc' = ServerPhase(app, 1 + 1)
      BY <3>1 DEF Out, ServerPhase
    <3>4. \A j \in 1..Len(ms) : ms[j] = ServerScript(app)[1 + j]
      BY <3>2
    <3>5. /\ Out(app, i + 1) = Out(app, i) + Len(ms) /\ spc' = ServerPhase(app, i + 1)
          /\ \A j \in 1..Len(ms) : ms[j] = ServerScript(app)[Out(app, i) + j]
          /\ i \in 0..7
          /\ app = "other" => i + 1 <= 4
      BY <3>1, <3>2, <3>3, <3>4
    <3> QED BY <1>1, <1>2, <2>1, <3>1, <3>2, <3>5, MetServed
  <2> QED BY <2>2, <2>3, <2>4
<1>6. CASE ServerNegotiates
  <2>1. up # <<>> /\ up' = Tail(up) /\ spc = "command" /\ Head(up) = ClientScript[i + 1] /\ i \in 0..7
    BY <1>3, <1>6 DEF ServerNegotiates
  <2>2. i = 2 \/ i = 3 \/ (app = "served" /\ (i = 4 \/ i = 5 \/ i = 6 \/ i = 7))
    BY <1>2, <2>1, PhaseAt
  <2>3. CASE i = 3 /\ app # "served"
    <3> DEFINE ms == Msgs(<<"_error">>) \o <<Eof>>
    <3>1. Head(up).name = "connect"
      BY <1>4, <2>1, <2>3, ClientSays DEF Names
    <3>2. spc' = "failed" /\ down' = Sent(down, ms)
      BY <1>6, <2>3, <3>1 DEF ServerNegotiates, ServerStops
    <3>3. ms \in Seq(Message) /\ Len(ms) = 2 /\ ms[1] = ServerScript(app)[5] /\ ms[2] = ServerScript(app)[6]
      <4>1. Msgs(<<"_error">>) = <<Msg("_error")>>
        BY DEF Msgs
      <4>2. Msg("_error") \in Message
        BY <1>4 DEF Names
      <4> DEFINE p == Msgs(<<"_error">>)
      <4>6. ms = p \o <<Eof>>
        OBVIOUS
      <4> HIDE DEF ms
      <4>7. p = <<Msg("_error")>>
        BY <4>1
      <4> HIDE DEF p
      <4>3. p \in Seq(Message) /\ Len(p) = 1 /\ p[1] = Msg("_error") /\ ms = p \o <<Eof>>
        BY <4>2, <4>6, <4>7
      <4>4. <<Eof>> \in Seq(Message) /\ Len(<<Eof>>) = 1 /\ <<Eof>>[1] = Eof
        BY EofType
      <4>5. ms \in Seq(Message) /\ Len(ms) = 2 /\ ms[1] = p[1] /\ ms[2] = <<Eof>>[1]
        BY <4>3, <4>4, TwoWords
      <4> QED BY <2>3, <4>3, <4>4, <4>5, ServerSays
    <3> HIDE DEF ms
    <3>4. Out(app, 3) = 4 /\ Out(app, 3 + 1) = 6 /\ spc' = ServerPhase(app, 3 + 1)
      BY <2>3, <3>2 DEF Out, ServerPhase
    <3>5. \A j \in 1..Len(ms) : ms[j] = ServerScript(app)[4 + j]
      BY <3>3
    <3>6. /\ Out(app, i + 1) = Out(app, i) + Len(ms) /\ spc' = ServerPhase(app, i + 1)
          /\ \A j \in 1..Len(ms) : ms[j] = ServerScript(app)[Out(app, i) + j]
          /\ i \in 0..7
          /\ app = "other" => i + 1 <= 4
      BY <2>3, <3>3, <3>4, <3>5
    <3> QED BY <1>1, <1>2, <2>1, <3>2, <3>3, <3>6, MetServed
  <2>4. CASE ~(i = 3 /\ app # "served")
    <3> DEFINE ms == Reply(Head(up))
    <3>1. i = 2 \/ (app = "served" /\ (i = 3 \/ i = 4 \/ i = 5 \/ i = 6 \/ i = 7))
      BY <2>2, <2>4
    <3>2. Head(up).name = IF i = 2 THEN "setChunkSize" ELSE IF i = 3 THEN "connect"
                          ELSE IF i = 4 THEN "releaseStream" ELSE IF i = 5 THEN "FCPublish"
                          ELSE IF i = 6 THEN "createStream" ELSE "publish"
      BY <1>4, <2>1, <3>1, ClientSays DEF Names
    <3>3. down' = Sent(down, ms) /\ spc' = IF i = 7 THEN "pump" ELSE "command"
      BY <1>6, <2>1, <3>1, <3>2 DEF ServerNegotiates, Accepts
    <3>4. CASE i = 2
      <4>1. ms = <<>>
        BY <3>2, <3>4 DEF Reply
      <4>2. ms \in Seq(Message) /\ Len(ms) = 0
        BY <4>1, EmptySeq
      <4> HIDE DEF ms
      <4>3. Out(app, 2) = 4 /\ Out(app, 2 + 1) = 4 /\ spc' = ServerPhase(app, 2 + 1)
        BY <3>3, <3>4 DEF Out, ServerPhase
      <4>4. \A j \in 1..Len(ms) : ms[j] = ServerScript(app)[4 + j]
        BY <4>2
      <4>5. /\ Out(app, i + 1) = Out(app, i) + Len(ms) /\ spc' = ServerPhase(app, i + 1)
            /\ \A j \in 1..Len(ms) : ms[j] = ServerScript(app)[Out(app, i) + j]
            /\ i \in 0..7
            /\ app = "other" => i + 1 <= 4
        BY <3>4, <4>2, <4>3, <4>4
      <4> QED BY <1>1, <1>2, <2>1, <3>3, <4>2, <4>5, MetServed
    <3>5. CASE i # 2
      <4>1. ms = <<ServerScript(app)[i + 2]>>
        <5>1. Msgs(<<"onStatus">>) = <<Msg("onStatus")>>
          BY DEF Msgs
        <5>2. ms = IF i = 3 THEN <<Result(1)>> ELSE IF i = 4 THEN <<Result(2)>>
                   ELSE IF i = 5 THEN <<Result(3)>> ELSE IF i = 6 THEN <<Result(4)>>
                   ELSE <<Msg("onStatus")>>
          BY <3>1, <3>2, <3>5, <5>1 DEF Reply
        <5> QED BY <3>1, <3>5, <5>2, ServerSays
      <4>2. ServerScript(app)[i + 2] \in Message
        BY <1>4, <3>1, <3>5, ServerSays, ResultType DEF Names
      <4> HIDE DEF ms
      <4>3. ms \in Seq(Message) /\ Len(ms) = 1 /\ ms[1] = ServerScript(app)[i + 2]
        BY <4>1, <4>2
      <4>4. Out(app, i) = i + 1 /\ Out(app, i + 1) = (i + 1) + 1 /\ spc' = ServerPhase(app, i + 1)
        BY <3>1, <3>3, <3>5 DEF Out, ServerPhase
      <4>5. \A j \in 1..Len(ms) : ms[j] = ServerScript(app)[(i + 1) + j]
        BY <3>1, <4>3
      <4> QED BY <1>1, <1>2, <2>1, <3>1, <3>3, <3>5, <4>3, <4>4, <4>5, MetServed
    <3> QED BY <3>4, <3>5
  <2> QED BY <2>3, <2>4
<1>7. CASE ServerPumps
  <2>1. spc = "pump" /\ up # <<>>
    BY <1>7 DEF ServerPumps
  <2>2. i = 8
    BY <1>2, <2>1, PhaseAt
  <2> QED BY <1>3, <2>1, <2>2
<1>8. CASE ServerLoses
  <2>1. up # <<>> /\ Head(up) = Eof
    BY <1>8 DEF ServerLoses, Lost
  <2>2. ClientScript[i + 1].name = "eof" /\ i \in 0..7
    BY <1>3, <2>1, EofType
  <2>3. i = 0 \/ i = 1 \/ i = 2 \/ i = 3 \/ i = 4 \/ i = 5 \/ i = 6 \/ i = 7
    BY <2>2
  <2> QED BY <1>4, <2>2, <2>3, ClientSays DEF Names
<1>9. CASE ServerTimesOut
  BY <1>9 DEF ServerTimesOut
<1> QED BY <1>5, <1>6, <1>7, <1>8, <1>9 DEF ServerStep

-----------------------------------------------------------------------------
(***************************************************************************)
(* A connection that is up, from its first message to its last.            *)
(***************************************************************************)
Only(q, names) == \A i \in 1..Len(q) : q[i].name \in names
AllCounted == media.handled + MediaIn(up) = media.written

\* The server pumps what the client streams.
Streaming ==
  /\ spc = "pump" /\ AllCounted
  /\ Only(up, {"media", "ping"}) /\ Only(down, {"pong"})

\* The client has said goodbye, and the server has not come to it.
Leaving ==
  /\ spc = "pump" /\ AllCounted
  /\ Len(up) >= 3
  /\ \A i \in 1..(Len(up) - 3) : up[i].name \in {"media", "ping"}
  /\ up[Len(up) - 2].name = "FCUnpublish"
  /\ \A i \in (Len(up) - 1)..Len(up) : up[i].name # "media"

Left == (spc = "ended" /\ media.handled = media.written) \/ spc = "failed"

Coupled ==
  link = "up" =>
    \/ cpc \in Negotiating /\ Negotiated /\ media.handled = media.written
    \/ cpc \in {"rtt", "live"} /\ Streaming
    \/ cpc = "closed" /\ (Leaving \/ Left)
    \/ cpc = "failed"

\* Sending allowed messages leaves only allowed ones under way.
LEMMA OnlySent ==
  ASSUME NEW q \in Seq(Message), NEW ms \in Seq(Message), NEW names, Only(q, names), Only(ms, names)
  PROVE  Only(Sent(q, ms), names)
<1>1. Len(q) \in Nat /\ Len(ms) \in Nat
  BY LenProperties
<1>2. CASE link = "up"
  <2>1. /\ Len(Sent(q, ms)) = Len(q) + Len(ms)
        /\ \A j \in 1..Len(q) + Len(ms) :
             Sent(q, ms)[j] = IF j <= Len(q) THEN q[j] ELSE ms[j - Len(q)]
    BY <1>2, ConcatProperties DEF Sent
  <2>2. \A j \in 1..Len(q) + Len(ms) : ~(j <= Len(q)) => j - Len(q) \in 1..Len(ms)
    BY <1>1
  <2>3. \A j \in 1..Len(q) + Len(ms) : j <= Len(q) => j \in 1..Len(q)
    BY <1>1
  <2> QED BY <2>1, <2>2, <2>3 DEF Only
<1>3. CASE link # "up"
  BY <1>3 DEF Sent
<1> QED BY <1>2, <1>3

\* So does receiving one,
LEMMA OnlyTail ==
  ASSUME NEW q \in Seq(Message), NEW names, Only(q, names), q # <<>>
  PROVE  Only(Tail(q), names) /\ Head(q).name \in names
<1>1. Len(q) \in Nat /\ Len(q) # 0 /\ Head(q) = q[1]
  BY LenProperties, EmptySeq
<1>2. /\ Len(Tail(q)) = Len(q) - 1
      /\ \A i \in 1..Len(Tail(q)) : Tail(q)[i] = q[i + 1]
  BY HeadTailProperties
<1>3. \A i \in 1..(Len(q) - 1) : i + 1 \in 1..Len(q)
  BY <1>1
<1> QED BY <1>1, <1>2, <1>3 DEF Only

\* or reading all that has arrived.
LEMMA OnlyRest ==
  ASSUME NEW q \in Seq(Message), NEW names, Only(q, names), NEW n \in 0..Len(q)
  PROVE  Only(SubSeq(q, n + 1, Len(q)), names)
<1>1. Len(q) \in Nat
  BY LenProperties
<1>2. \A i \in 1..(Len(q) - n) : n + i \in 1..Len(q)
  BY <1>1
<1> QED BY <1>2, CutType DEF Only

\* One word is of its kind.
LEMMA OnlyWords ==
  /\ Msgs(<<"media">>) \in Seq(Message) /\ Only(Msgs(<<"media">>), {"media", "ping"})
  /\ Msgs(<<"ping">>) \in Seq(Message) /\ Only(Msgs(<<"ping">>), {"media", "ping"})
  /\ Msgs(<<"pong">>) \in Seq(Message) /\ Only(Msgs(<<"pong">>), {"pong"})
<1>1. \A n \in Names : Msg(n) \in Message /\ Msg(n).name = n
  BY MsgType
<1>2. \A m \in Message : <<m>> \in Seq(Message) /\ Len(<<m>>) = 1 /\ <<m>>[1] = m
  OBVIOUS
<1>3. \A m \in Message : \A names : m.name \in names => Only(<<m>>, names)
  BY <1>2 DEF Only
<1>4. /\ Msgs(<<"media">>) = <<Msg("media")>> /\ Msgs(<<"ping">>) = <<Msg("ping")>>
      /\ Msgs(<<"pong">>) = <<Msg("pong")>>
  BY DEF Msgs
<1>5. /\ Msg("media") \in Message /\ Msg("media").name \in {"media", "ping"}
      /\ Msg("ping") \in Message /\ Msg("ping").name \in {"media", "ping"}
      /\ Msg("pong") \in Message /\ Msg("pong").name \in {"pong"}
  BY <1>1 DEF Names
<1> QED BY <1>2, <1>3, <1>4, <1>5

\* Negotiating, nothing but the scripts is under way, and no media are in them.
LEMMA CoupledClient ==
  ASSUME TypeInv, Quiet, link = "up", cpc \in Negotiating \cup {"rtt"}, Coupled, ClientConnects
  PROVE  Coupled'
<1> USE DEF Negotiating
<1>1. UNCHANGED <<link, app, spc, fins, media>> /\ MediaIn(up') = MediaIn(up)
  BY MediaInClient
<1>2. CASE cpc \in Negotiating
  <2>1. Negotiated /\ media.handled = media.written
    BY <1>2 DEF Coupled
  <2>2. CASE cpc' \in Negotiating /\ Negotiated'
    BY <1>1, <2>1, <2>2 DEF Coupled
  <2>3. CASE cpc' = "rtt" /\ spc = "pump" /\ up = <<>> /\ down' = <<>> /\ up' = Sent(up, Msgs(<<"ping">>))
    <3>1. up \in Seq(Message) /\ Len(up) = 0 /\ Len(down') = 0
      BY <2>3, EmptySeq DEF TypeInv
    <3>2. Only(up, {"media", "ping"}) /\ Only(down', {"pong"})
      BY <3>1 DEF Only
    <3>3. Only(up', {"media", "ping"})
      BY <2>3, <3>1, <3>2, OnlySent, OnlyWords
    <3>4. MediaIn(up) = 0
      <4>1. \A i \in 1..Len(up) : up[i].name # "media"
        BY <3>1
      <4> QED BY <3>1, <4>1, MediaInNone
    <3>5. spc' = "pump" /\ AllCounted'
      BY <1>1, <2>1, <2>3, <3>4 DEF AllCounted, TypeInv
    <3>6. Streaming'
      BY <3>2, <3>3, <3>5 DEF Streaming
    <3> QED BY <2>3, <3>6 DEF Coupled
  <2>4. CASE cpc' = "failed"
    BY <2>4 DEF Coupled
  <2> QED BY <2>1, <2>2, <2>3, <2>4, NegotiatedClient
<1>3. CASE cpc = "rtt"
  <2>1. Streaming
    BY <1>3 DEF Coupled
  <2>2. cpc' = "live" /\ up' = up /\ (down' = down \/ (down # <<>> /\ down' = Tail(down)))
    BY <1>3 DEF ClientConnects, ClientHandshake, AwaitedComes, OtherComes, MeasureRtt, ClientLoses,
                ClientTimesOut, Received
  <2>3. Only(down', {"pong"})
    BY <2>1, <2>2, OnlyTail DEF Streaming, TypeInv
  <2>4. Only(up', {"media", "ping"}) /\ AllCounted' /\ spc' = "pump"
    BY <1>1, <2>1, <2>2 DEF Streaming, AllCounted
  <2> QED BY <2>2, <2>3, <2>4 DEF Coupled, Streaming
<1> QED BY <1>2, <1>3

\* While the client streams, the server hands on and answers.
LEMMA CoupledServed ==
  ASSUME TypeInv, link = "up", cpc \in {"rtt", "live"}, Streaming, ServerStep
  PROVE  Streaming'
<1> USE DEF TypeInv
<1>1. UNCHANGED <<link, cpc>> /\ spc = "pump" /\ up \in Seq(Message) /\ down \in Seq(Message)
      /\ Only(up, {"media", "ping"}) /\ Only(down, {"pong"})
  BY ServerEffect DEF Streaming
<1>2. up # <<>> => Only(Tail(up), {"media", "ping"}) /\ Head(up).name \in {"media", "ping"}
  BY <1>1, OnlyTail
<1>3. CASE ServerPumps
  <2>1. up # <<>> /\ up' = Tail(up)
    BY <1>3 DEF ServerPumps
  <2>2. spc' = spc /\ (down' = down \/ down' = Sent(down, Msgs(<<"pong">>)))
    <3>1. ~Ends(Head(up))
      BY <1>2, <2>1 DEF Ends
    <3>2. ~(link = "cut" \/ cpc \in {"failed", "closed"})
      OBVIOUS
    <3> QED BY <1>3, <3>1, <3>2 DEF ServerPumps
  <2>3. Only(down', {"pong"})
    <3>1. Only(Sent(down, Msgs(<<"pong">>)), {"pong"})
      BY <1>1, OnlySent, OnlyWords
    <3> QED BY <1>1, <2>2, <3>1
  <2>4. AllCounted'
    BY <1>1, <1>3, MediaInServer DEF AllCounted, Streaming
  <2> QED BY <1>1, <1>2, <2>1, <2>2, <2>3, <2>4 DEF Streaming
<1>4. CASE ServerLoses
  <2>1. up # <<>> /\ Head(up).name = "eof"
    BY <1>4, EofType DEF ServerLoses, Lost
  <2> QED BY <1>2, <2>1
<1>5. CASE ServerHandshake \/ ServerNegotiates \/ ServerTimesOut
  BY <1>1, <1>5 DEF ServerHandshake, ServerNegotiates, ServerTimesOut
<1> QED BY <1>3, <1>4, <1>5 DEF ServerStep

\* Once the client has closed, the server comes to its goodbye, or fails answering
\* a ping of a client that is gone.
LEMMA CoupledLeaving ==
  ASSUME TypeInv, link = "up", Leaving, ServerStep
  PROVE  Leaving' \/ Left'
<1> USE DEF TypeInv
<1>1. spc = "pump" /\ up \in Seq(Message) /\ Len(up) \in Nat /\ Len(up) >= 3 /\ up # <<>>
      /\ Head(up) = up[1]
  BY LenProperties, EmptySeq DEF Leaving
<1>2. /\ Tail(up) \in Seq(Message) /\ Len(Tail(up)) = Len(up) - 1
      /\ \A i \in 1..Len(Tail(up)) : Tail(up)[i] = up[i + 1]
  BY <1>1, HeadTailProperties
<1>3. Head(up).name \in {"media", "ping", "FCUnpublish"}
      /\ (Head(up).name # "FCUnpublish" => Len(up) > 3)
  <2>1. CASE Len(up) = 3
    <3>1. Len(up) - 2 = 1
      BY <2>1
    <3> QED BY <1>1, <2>1, <3>1 DEF Leaving
  <2>2. CASE Len(up) # 3
    <3>1. 1 \in 1..(Len(up) - 3) /\ Len(up) > 3
      <4>1. \A n \in Nat : n >= 3 /\ n # 3 => 1 \in 1..(n - 3) /\ n > 3
        OBVIOUS
      <4> QED BY <1>1, <2>2, <4>1
    <3> QED BY <1>1, <3>1 DEF Leaving
  <2> QED BY <2>1, <2>2
<1>4. CASE ServerPumps
  <2>1. up' = Tail(up) /\ AllCounted'
    BY <1>1, <1>4, MediaInServer DEF ServerPumps, AllCounted, Leaving
  <2>2. CASE Len(up) > 3
    <3>1. /\ Len(up') = Len(up) - 1 /\ Len(up') >= 3
          /\ \A i \in 1..(Len(up') - 3) : i + 1 \in 1..(Len(up) - 3) /\ i \in 1..Len(up')
          /\ \A i \in (Len(up') - 1)..Len(up') : i + 1 \in (Len(up) - 1)..Len(up) /\ i \in 1..Len(up')
          /\ Len(up') - 2 \in 1..Len(up') /\ (Len(up') - 2) + 1 = Len(up) - 2
      BY <1>1, <1>2, <2>1, <2>2
    <3>2. \A i \in 1..Len(up') : up'[i] = up[i + 1]
      BY <1>2, <2>1
    <3>3. CASE spc' = spc
      <4>1. \A i \in 1..(Len(up') - 3) : up'[i].name \in {"media", "ping"}
        BY <3>1, <3>2 DEF Leaving
      <4>2. \A i \in (Len(up') - 1)..Len(up') : up'[i].name # "media"
        BY <3>1, <3>2 DEF Leaving
      <4>3. up'[Len(up') - 2].name = "FCUnpublish"
        BY <3>1, <3>2 DEF Leaving
      <4> QED BY <1>1, <2>1, <3>1, <3>3, <4>1, <4>2, <4>3 DEF Leaving
    <3>4. CASE spc' = "failed"
      BY <3>4 DEF Left
    <3>5. CASE Ends(Head(up))
      <4>1. 1 \in 1..(Len(up) - 3)
        BY <1>1, <2>2
      <4>2. up[1].name \in {"media", "ping"}
        BY <4>1 DEF Leaving
      <4> QED BY <1>1, <3>5, <4>2 DEF Ends
    <3> QED BY <1>4, <3>3, <3>4, <3>5 DEF ServerPumps, ServerStops
  <2>3. CASE Len(up) = 3
    <3>1. Head(up).name = "FCUnpublish"
      BY <1>3, <2>3
    <3>2. spc' = "ended"
      BY <1>4, <3>1 DEF ServerPumps, ServerStops, Ends
    <3>3. MediaIn(up') = 0
      <4>1. \A i \in 1..Len(up') : i \in 1..2 /\ i + 1 \in (Len(up) - 1)..Len(up)
        BY <1>2, <2>1, <2>3
      <4>2. \A i \in 1..Len(up') : up'[i].name # "media"
        BY <1>2, <2>1, <4>1 DEF Leaving
      <4> QED BY <1>2, <2>1, <4>2, MediaInNone
    <3>4. media'.handled \in Nat
      BY <1>4 DEF ServerPumps
    <3>5. media'.handled = media'.written
      BY <2>1, <3>3, <3>4 DEF AllCounted
    <3> QED BY <3>2, <3>5 DEF Left
  <2>4. \A n \in Nat : n >= 3 => n = 3 \/ n > 3
    OBVIOUS
  <2> QED BY <1>1, <2>2, <2>3, <2>4
<1>5. CASE ServerLoses
  <2>1. Head(up).name = "eof"
    BY <1>1, <1>5, EofType DEF ServerLoses, Lost
  <2> QED BY <1>3, <2>1
<1>6. CASE ServerHandshake \/ ServerNegotiates \/ ServerTimesOut
  BY <1>1, <1>6 DEF ServerHandshake, ServerNegotiates, ServerTimesOut
<1> QED BY <1>4, <1>5, <1>6 DEF ServerStep

\* A client that is live streams, until it says goodbye.
LEMMA CoupledLive ==
  ASSUME TypeInv, Quiet, link = "up", cpc = "live", Streaming, WriteMedia \/ Maintain \/ Shutdown
  PROVE  \/ cpc' = "live" /\ Streaming'
         \/ cpc' = "failed"
         \/ cpc' = "closed" /\ Leaving'
<1> USE DEF TypeInv
<1>1. spc = "pump" /\ up \in Seq(Message) /\ down \in Seq(Message) /\ Len(up) \in Nat
      /\ Only(up, {"media", "ping"}) /\ Only(down, {"pong"}) /\ AllCounted
  BY LenProperties DEF Streaming
<1>2. \A why : ClientFails(why) => cpc' = "failed"
  BY DEF ClientFails
<1>3. CASE WriteMedia
  <2>1. \/ cpc' = cpc /\ up' = Sent(up, Msgs(<<"media">>)) /\ media' = [media EXCEPT !.written = @ + 1]
        \/ cpc' = "failed"
    BY <1>2, <1>3 DEF WriteMedia
  <2>2. UNCHANGED <<down, spc>>
    BY <1>3 DEF WriteMedia, serverVars
  <2>3. CASE cpc' = cpc /\ up' = Sent(up, Msgs(<<"media">>)) /\ media' = [media EXCEPT !.written = @ + 1]
    <3>1. Only(up', {"media", "ping"})
      BY <1>1, <2>3, OnlySent, OnlyWords
    <3>2. MediaIn(up') = MediaIn(up) + 1 /\ MediaIn(up) \in Nat
      BY <1>1, <2>3, MediaInWritten, MediaFinite
    <3>3. media'.written = media.written + 1 /\ media'.handled = media.handled
          /\ media.handled \in Nat
      BY <2>3
    <3>4. AllCounted'
      BY <1>1, <3>2, <3>3 DEF AllCounted
    <3> QED BY <1>1, <2>2, <2>3, <3>1, <3>4 DEF Streaming
  <2> QED BY <2>1, <2>3
<1>4. CASE Maintain
  <2>1. UNCHANGED <<spc, media>> /\ MediaIn(up') = MediaIn(up)
    BY <1>4, MediaInClient
  <2>2. PICK n \in arrived..Len(down) : down' = SubSeq(down, n + 1, Len(down))
    BY <1>4, MaintainEffect
  <2>3. Only(down', {"pong"})
    <3>1. n \in 0..Len(down)
      BY <2>2, LenProperties
    <3> QED BY <1>1, <2>2, <3>1, OnlyRest
  <2>4. cpc' = "failed" \/ (cpc' = cpc /\ (up' = up \/ up' = Sent(up, Msgs(<<"ping">>))))
    BY <1>2, <1>4, MaintainEffect
  <2>5. cpc' = "failed" \/ (cpc' = cpc /\ Only(up', {"media", "ping"}))
    <3>1. Only(Sent(up, Msgs(<<"ping">>)), {"media", "ping"})
      BY <1>1, OnlySent, OnlyWords
    <3> QED BY <1>1, <2>4, <3>1
  <2>6. AllCounted'
    BY <1>1, <2>1 DEF AllCounted
  <2> QED BY <1>1, <2>1, <2>3, <2>5, <2>6 DEF Streaming
<1>5. CASE Shutdown
  <2> DEFINE bye == Msgs(<<"FCUnpublish", "closeStream", "eof">>)
  <2>1. UNCHANGED <<spc, media>> /\ MediaIn(up') = MediaIn(up) /\ cpc' = "closed" /\ up' = Sent(up, bye)
    BY <1>5, MediaInClient DEF Shutdown
  <2>2. /\ bye \in Seq(Message) /\ Len(bye) = 3 /\ bye[1].name = "FCUnpublish"
        /\ bye[2].name # "media" /\ bye[3].name # "media"
    <3>1. bye = <<Msg("FCUnpublish"), Msg("closeStream"), Msg("eof")>>
      BY DEF Msgs
    <3>2. bye \in Seq(Message)
      BY MsgsType, Sayings
    <3>3. \A n \in Names : Msg(n).name = n
      BY MsgType
    <3>4. Msg("FCUnpublish").name = "FCUnpublish" /\ Msg("closeStream").name = "closeStream"
          /\ Msg("eof").name = "eof"
      BY <3>3 DEF Names
    <3> HIDE DEF bye
    <3> QED BY <3>1, <3>2, <3>4
  <2> HIDE DEF bye
  <2>3. /\ Len(up') = Len(up) + 3
        /\ \A i \in 1..(Len(up) + 3) : up'[i] = IF i <= Len(up) THEN up[i] ELSE bye[i - Len(up)]
    <3>1. up' = up \o bye
      BY <2>1 DEF Sent
    <3>2. /\ Len(up \o bye) = Len(up) + Len(bye)
          /\ \A i \in 1..(Len(up) + Len(bye)) : (up \o bye)[i] = IF i <= Len(up) THEN up[i] ELSE bye[i - Len(up)]
      <4>1. up \in Seq(Message) /\ bye \in Seq(Message)
        BY <2>2
      <4> QED BY <4>1, ConcatProperties
    <3> QED BY <2>2, <3>1, <3>2
  <2>4. \A i \in 1..(Len(up') - 3) : up'[i].name \in {"media", "ping"}
    <3>1. \A i \in 1..(Len(up') - 3) : i \in 1..Len(up) /\ i \in 1..(Len(up) + 3) /\ i <= Len(up)
      BY <1>1, <2>3
    <3> QED BY <1>1, <2>3, <3>1 DEF Only
  <2>5. /\ Len(up) + 1 \in 1..(Len(up) + 3) /\ ~(Len(up) + 1 <= Len(up)) /\ (Len(up) + 1) - Len(up) = 1
        /\ Len(up) + 2 \in 1..(Len(up) + 3) /\ ~(Len(up) + 2 <= Len(up)) /\ (Len(up) + 2) - Len(up) = 2
        /\ Len(up) + 3 \in 1..(Len(up) + 3) /\ ~(Len(up) + 3 <= Len(up)) /\ (Len(up) + 3) - Len(up) = 3
    BY <1>1
  <2>6. up'[Len(up) + 1] = bye[1] /\ up'[Len(up) + 2] = bye[2] /\ up'[Len(up) + 3] = bye[3]
    BY <2>3, <2>5
  <2>7. /\ Len(up') >= 3 /\ Len(up') - 2 = Len(up) + 1
        /\ \A i \in (Len(up') - 1)..Len(up') : i = Len(up) + 2 \/ i = Len(up) + 3
    BY <1>1, <2>3
  <2>8. up'[Len(up') - 2].name = "FCUnpublish"
    BY <2>2, <2>6, <2>7
  <2>9. \A i \in (Len(up') - 1)..Len(up') : up'[i].name # "media"
    BY <2>2, <2>6, <2>7
  <2>10. AllCounted' /\ spc' = "pump"
    BY <1>1, <2>1 DEF AllCounted
  <2> QED BY <2>1, <2>4, <2>7, <2>8, <2>9, <2>10 DEF Leaving
<1> QED BY <1>3, <1>4, <1>5

\* Every step keeps the two ends coupled.
LEMMA CoupledStep ==
  ASSUME TypeInv, Quiet, Coupled, [Next]_vars
  PROVE  Coupled'
<1> SUFFICES ASSUME link' = "up" PROVE Coupled'
  BY DEF Coupled
<1>1. link = "up"
  <2>1. CASE ConnectionFails
    BY <2>1 DEF ConnectionFails
  <2>2. CASE ClientConnects \/ Maintain \/ Shutdown
    BY <2>2, MediaInClient
  <2>3. CASE ServerStep
    BY <2>3, ServerEffect
  <2>4. CASE WriteMedia \/ Tick \/ UNCHANGED vars
    BY <2>4 DEF WriteMedia, Tick, vars
  <2> QED BY <2>1, <2>2, <2>3, <2>4 DEF Next
<1>2. CASE cpc = "failed"
  <2>1. cpc' = "failed"
    <3>1. CASE ServerStep
      BY <1>2, <3>1, ServerEffect
    <3>2. CASE ConnectionFails \/ UNCHANGED vars
      BY <1>2, <3>2 DEF ConnectionFails, vars, clientVars
    <3> QED BY <1>2, <3>1, <3>2 DEF Next, ClientConnects, ClientHandshake, AwaitedComes, OtherComes,
                MeasureRtt, ClientLoses, ClientTimesOut, Negotiating, WriteMedia, Maintain, Shutdown, Tick
  <2> QED BY <2>1 DEF Coupled
<1>3. CASE ClientConnects
  <2>1. cpc \in Negotiating \cup {"rtt"}
    BY <1>3 DEF ClientConnects, ClientHandshake, AwaitedComes, OtherComes, MeasureRtt, ClientLoses,
                ClientTimesOut, Negotiating
  <2> QED BY <1>1, <1>3, <2>1, CoupledClient
<1>4. CASE WriteMedia \/ Maintain \/ Shutdown
  <2>1. cpc = "live"
    BY <1>4 DEF WriteMedia, Maintain, Shutdown
  <2>2. Streaming
    BY <1>1, <2>1 DEF Coupled, Negotiating
  <2>3. \/ cpc' = "live" /\ Streaming'
        \/ cpc' = "failed"
        \/ cpc' = "closed" /\ Leaving'
    BY <1>1, <1>4, <2>1, <2>2, CoupledLive
  <2> QED BY <2>3 DEF Coupled
<1>5. CASE ServerStep
  <2>1. cpc' = cpc /\ link' = link /\ spc \notin {"ended", "failed"}
    BY <1>5, ServerEffect
  <2>2. CASE cpc \in Negotiating
    <3>1. Negotiated /\ media.handled = media.written
      BY <1>1, <2>2 DEF Coupled, Negotiating
    <3>2. Negotiated'
      BY <1>1, <1>5, <3>1, NegotiatedServer
    <3>3. media' = media
      <4>1. CASE ServerPumps
        <5>1. PICK i \in 0..8, k \in 0..8 : Met(i, k)
          BY <3>1 DEF Negotiated
        <5>2. spc = "pump" /\ up # <<>>
          BY <4>1 DEF ServerPumps
        <5>3. spc = ServerPhase(app, i) /\ (app = "other" => i <= 4) /\ app \in {"served", "other"}
          BY <5>1 DEF Met, TypeInv
        <5>4. i = 8
          BY <5>2, <5>3, PhaseAt
        <5>5. i \in 0..7
          BY <5>1, <5>2, NextAsked
        <5> QED BY <5>4, <5>5
      <4> QED BY <1>5, <4>1 DEF ServerStep, ServerHandshake, ServerNegotiates, ServerLoses, ServerTimesOut
    <3> QED BY <2>1, <2>2, <3>1, <3>2, <3>3 DEF Coupled
  <2>3. CASE cpc \in {"rtt", "live"}
    <3>1. Streaming
      BY <1>1, <2>3 DEF Coupled, Negotiating
    <3>2. Streaming'
      BY <1>1, <1>5, <2>3, <3>1, CoupledServed
    <3> QED BY <2>1, <2>3, <3>2 DEF Coupled
  <2>4. CASE cpc = "closed"
    <3>1. Leaving
      BY <1>1, <2>1, <2>4 DEF Coupled, Negotiating, Left
    <3>2. Leaving' \/ Left'
      BY <1>1, <1>5, <3>1, CoupledLeaving
    <3> QED BY <2>1, <2>4, <3>2 DEF Coupled
  <2> QED BY <1>2, <2>2, <2>3, <2>4 DEF TypeInv, ClientStates
<1>6. CASE ConnectionFails
  BY <1>6 DEF ConnectionFails
<1>7. CASE Tick \/ UNCHANGED vars
  <2>1. UNCHANGED <<link, app, up, down, cpc, pending, spc, media>>
    BY <1>7 DEF Tick, vars, clientVars, serverVars
  <2>3. Negotiated' = Negotiated
    BY <2>1 DEF Negotiated, Met, Hears, Asked
  <2>4. Streaming' = Streaming /\ Leaving' = Leaving /\ Left' = Left
    BY <2>1 DEF Streaming, Leaving, Left, AllCounted
  <2> QED BY <1>1, <2>1, <2>3, <2>4 DEF Coupled
<1> QED BY <1>3, <1>4, <1>5, <1>6, <1>7 DEF Next

\* They are before the first word.
LEMMA CoupledInit ==
  ASSUME Init
  PROVE  Coupled /\ EndInv
<1>1. TypeInv /\ Quiet
  BY TypeInit
<1>2. up = <<Msg("c0c1")>> /\ down = <<>> /\ app \in {"served", "other"} /\ spc = "c0c1" /\ cpc = "s0"
      /\ media = [written |-> 0, handled |-> 0] /\ fins = 0
  <2>1. Msgs(<<"c0c1">>) = <<Msg("c0c1")>>
    BY DEF Msgs
  <2> QED BY <2>1 DEF Init
<1>3. Msg("c0c1").name = "c0c1" /\ Len(up) = 1 /\ up[1] = Msg("c0c1")
  BY <1>2, MsgType DEF Names
<1>4. MediaIn(up) = 0
  <2>1. \A i \in 1..Len(up) : up[i].name # "media"
    BY <1>3
  <2> QED BY <1>1, <2>1, MediaInNone DEF TypeInv
<1>5. Window(up, ClientScript, 0, 1)
  BY <1>3, ClientSays DEF Window
<1>6. Window(down, ServerScript(app), 0, 0)
  <2>1. Len(down) = 0
    BY <1>2
  <2> QED BY <2>1 DEF Window
<1>7. Hears(0) /\ Asked = 1 /\ Out(app, 0) = 0 /\ ServerPhase(app, 0) = "c0c1"
  BY <1>2 DEF Hears, Asked, Out, ServerPhase
<1>8. Met(0, 0)
  BY <1>2, <1>5, <1>6, <1>7 DEF Met
<1>9. Negotiated
  <2>1. 0 \in 0..8
    OBVIOUS
  <2> QED BY <1>8, <2>1 DEF Negotiated
<1> QED BY <1>2, <1>4, <1>9 DEF Coupled, EndInv, Negotiating

-----------------------------------------------------------------------------
(***************************************************************************)
(* The watchdog of a client that is live.                                  *)
(***************************************************************************)
Pinged(q) == \E i \in 1..Len(q) : q[i].name = "ping"

\* A ping without an answer is the only one, has been out for less than a quarter,
\* and on a connection that is up either it or its answer is under way; a client
\* whose count of pings is stale has input to drain that clears it.
DogInv ==
  cpc = "live" /\ link # "void" =>
    \/ arrived > 0
    \/ dog.unanswered = 0
    \/ link = "cut" /\ down = <<>>
    \/ /\ dog.unanswered = 1 /\ dog.wait = 1
       /\ link = "up" => down # <<>> \/ Pinged(up)

\* A ping under way stays under way when more is sent,
LEMMA PingedSent ==
  ASSUME NEW q \in Seq(Message), NEW ms \in Seq(Message), Pinged(q)
  PROVE  Pinged(Sent(q, ms))
<1>1. PICK i \in 1..Len(q) : q[i].name = "ping"
  BY DEF Pinged
<1>2. Len(q) \in Nat /\ Len(Sent(q, ms)) \in Nat /\ Len(q) <= Len(Sent(q, ms))
      /\ Sent(q, ms)[i] = q[i]
  BY SentType, LenProperties
<1>3. i \in 1..Len(Sent(q, ms))
  BY <1>2
<1> QED BY <1>1, <1>2, <1>3 DEF Pinged

\* is under way once it is sent,
LEMMA PingedPing ==
  ASSUME NEW q \in Seq(Message), link = "up"
  PROVE  Pinged(Sent(q, Msgs(<<"ping">>)))
<1>1. Msg("ping") \in Message /\ Msg("ping").name = "ping"
  BY MsgType DEF Names
<1>2. Msgs(<<"ping">>) = <<Msg("ping")>>
  BY DEF Msgs
<1> DEFINE p == <<Msg("ping")>>
<1>3. p \in Seq(Message) /\ Len(p) = 1 /\ p[1] = Msg("ping")
  BY <1>1
<1>4. Sent(q, Msgs(<<"ping">>)) = q \o p
  BY <1>2 DEF Sent
<1> HIDE DEF p
<1>5. /\ Len(q) \in Nat /\ Len(q \o p) = Len(q) + Len(p)
      /\ \A i \in 1..(Len(q) + Len(p)) : (q \o p)[i] = IF i <= Len(q) THEN q[i] ELSE p[i - Len(q)]
  BY <1>3, ConcatProperties, LenProperties
<1>6. Len(q) + 1 \in 1..(Len(q) + 1) /\ ~(Len(q) + 1 <= Len(q)) /\ (Len(q) + 1) - Len(q) = 1
  BY <1>5
<1>7. (q \o p)[Len(q) + 1].name = "ping" /\ Len(q) + 1 \in 1..Len(q \o p)
  BY <1>1, <1>3, <1>5, <1>6
<1> QED BY <1>4, <1>7 DEF Pinged

\* and stays so while others are received.
LEMMA PingedTail ==
  ASSUME NEW q \in Seq(Message), Pinged(q), q # <<>>, Head(q).name # "ping"
  PROVE  Pinged(Tail(q))
<1>1. PICK i \in 1..Len(q) : q[i].name = "ping"
  BY DEF Pinged
<1>2. Len(q) \in Nat /\ Head(q) = q[1] /\ Len(Tail(q)) = Len(q) - 1
      /\ \A j \in 1..Len(Tail(q)) : Tail(q)[j] = q[j + 1]
  BY HeadTailProperties, LenProperties
<1>3. i # 1
  BY <1>1, <1>2
<1>4. i - 1 \in 1..Len(Tail(q)) /\ (i - 1) + 1 = i
  BY <1>2, <1>3
<1>5. Tail(q)[i - 1].name = "ping"
  BY <1>1, <1>2, <1>4
<1> QED BY <1>4, <1>5 DEF Pinged

\* What is sent on a connection that is up leaves the channel with something in it.
LEMMA SentSome ==
  ASSUME NEW q \in Seq(Message), NEW ms \in Seq(Message)
  PROVE  /\ q # <<>> => Sent(q, ms) # <<>>
         /\ link = "up" /\ Len(ms) = 1 => Sent(q, ms) # <<>>
<1>1. Sent(q, ms) \in Seq(Message) /\ Len(q) <= Len(Sent(q, ms)) /\ Len(q) \in Nat
      /\ (q = <<>> <=> Len(q) = 0) /\ (link = "up" => Sent(q, ms) = q \o ms)
      /\ Len(q \o ms) = Len(q) + Len(ms)
  BY SentType, LenProperties, EmptySeq, ConcatProperties
<1>2. Len(Sent(q, ms)) \in Nat /\ (Sent(q, ms) = <<>> <=> Len(Sent(q, ms)) = 0)
  BY <1>1, LenProperties, EmptySeq
<1> QED BY <1>1, <1>2

\* Every step keeps a pending ping, or its answer, under way.
LEMMA DogStep ==
  ASSUME TypeInv, Quiet, Coupled, DogInv, [Next]_vars
  PROVE  DogInv'
<1> USE DEF TypeInv
<1> SUFFICES ASSUME cpc' = "live", link' # "void" PROVE DogInv'
  BY DEF DogInv
<1>0. up \in Seq(Message) /\ down \in Seq(Message)
  OBVIOUS
<1>1. CASE ClientConnects
  <2>1. MeasureRtt
    BY <1>1 DEF ClientConnects, ClientHandshake, AwaitedComes, OtherComes, MeasureRtt, ClientLoses,
                ClientTimesOut, ClientWaits, ClientFails
  <2>2. cpc = "rtt" /\ (dog' = Heard \/ dog' = dog)
    BY <2>1 DEF MeasureRtt, Received
  <2>3. dog'.unanswered = 0
    BY <2>2 DEF Quiet, Heard
  <2> QED BY <2>3 DEF DogInv
<1>2. CASE WriteMedia
  <2>1. cpc = "live" /\ UNCHANGED <<link, down, arrived, dog>> /\ up' = Sent(up, Msgs(<<"media">>))
    BY <1>2 DEF WriteMedia, ClientFails, serverVars
  <2>2. Pinged(up) => Pinged(up')
    BY <1>0, <2>1, PingedSent, OnlyWords
  <2> QED BY <2>1, <2>2 DEF DogInv
<1>3. CASE Maintain
  <2>1. cpc = "live" /\ link' = link /\ arrived' = 0
    BY <1>3 DEF Maintain, ClientUnchanged
  <2>2. PICK n \in arrived..Len(down) :
          /\ down' = SubSeq(down, n + 1, Len(down))
          /\ ~(link = "cut" /\ n = Len(down))
          /\ \/ dog' = Inbound(n)
             \/ /\ Inbound(n).silent >= 1 /\ Inbound(n).wait = 0
                /\ up' = Sent(up, Msgs(<<"ping">>))
                /\ dog' = [Inbound(n) EXCEPT !.unanswered = @ + 1, !.wait = 1]
          /\ up' = up \/ up' = Sent(up, Msgs(<<"ping">>))
    <3>1. \A why : ClientFails(why) => cpc' # "live"
      BY DEF ClientFails
    <3> QED BY <1>3, <3>1, MaintainEffect
  <2>3. n \in 0..Len(down) /\ n \in Nat /\ arrived \in Nat /\ arrived <= n /\ Len(down) \in Nat
    BY <2>2, LenProperties
  <2>4. CASE n # 0
    <3>1. Inbound(n).unanswered = 0 /\ Inbound(n).silent = 0
      BY <2>4 DEF Inbound, Heard
    <3>2. dog'.unanswered = 0
      BY <2>2, <3>1
    <3> QED BY <3>2 DEF DogInv
  <2>5. CASE n = 0
    <3>1. Inbound(n) = dog /\ arrived = 0
      BY <2>3, <2>5 DEF Inbound
    <3>2. Len(down') = Len(down) /\ down' \in Seq(Message)
      BY <1>0, <2>2, <2>3, <2>5, CutType
    <3>3. down # <<>> => down' # <<>>
      BY <1>0, <3>2, EmptySeq, LenProperties
    <3>4. ~(link = "cut" /\ down = <<>>)
      BY <2>2, <2>5, EmptySeq
    <3>5. dog.unanswered = 0 \/ (dog.unanswered = 1 /\ dog.wait = 1 /\ (link = "up" => down # <<>> \/ Pinged(up)))
      BY <2>1, <3>1, <3>4 DEF DogInv
    <3>6. CASE dog' = dog
      <4>1. Pinged(up) => Pinged(up')
        BY <1>0, <2>2, PingedSent, OnlyWords
      <4> QED BY <2>1, <3>3, <3>5, <3>6, <4>1 DEF DogInv
    <3>7. CASE /\ dog.wait = 0 /\ up' = Sent(up, Msgs(<<"ping">>))
               /\ dog' = [dog EXCEPT !.unanswered = @ + 1, !.wait = 1]
      <4>1. dog.unanswered = 0
        BY <3>5, <3>7
      <4>2. dog'.unanswered = 1 /\ dog'.wait = 1
        BY <3>7, <4>1
      <4>3. link = "up" => Pinged(up')
        BY <1>0, <3>7, PingedPing
      <4> QED BY <2>1, <4>2, <4>3 DEF DogInv
    <3> QED BY <2>2, <3>1, <3>6, <3>7
  <2> QED BY <2>4, <2>5
<1>4. CASE ServerStep
  <2>1. UNCHANGED <<link, cpc, arrived, dog>>
    BY <1>4, ServerEffect
  <2>2. CASE link = "up"
    <3>1. Streaming
      BY <2>1, <2>2 DEF Coupled, Negotiating
    <3>2. down # <<>> => down' # <<>>
      BY <1>0, <1>4, ServerEffect, SentSome
    <3>3. Pinged(up) => down' # <<>> \/ Pinged(up')
      <4> HAVE Pinged(up)
      <4>1. CASE ServerPumps
        <5>1. up # <<>> /\ up' = Tail(up) /\ (Head(up).name = "ping" =>
                 \/ down' = Sent(down, Msgs(<<"pong">>))
                 \/ down' = Sent(down, <<>> \o <<Eof>>))
          BY <4>1 DEF ServerPumps, ServerStops, Ends
        <5>2. CASE Head(up).name = "ping"
          <6>1. Msgs(<<"pong">>) \in Seq(Message) /\ Len(Msgs(<<"pong">>)) = 1
            <7>1. Msgs(<<"pong">>) = <<Msg("pong")>>
              BY DEF Msgs
            <7> QED BY <7>1, OnlyWords
          <6>2. <<>> \o <<Eof>> \in Seq(Message) /\ Len(<<>> \o <<Eof>>) = 1
            <7>1. <<>> \o <<Eof>> = <<Eof>>
              BY EofType, ConcatEmptySeq
            <7> QED BY <7>1, EofType
          <6> QED BY <1>0, <2>2, <5>1, <5>2, <6>1, <6>2, SentSome
        <5>3. CASE Head(up).name # "ping"
          BY <1>0, <5>1, <5>3, PingedTail
        <5> QED BY <5>2, <5>3
      <4>2. CASE ServerLoses
        BY <4>2 DEF ServerLoses
      <4>3. CASE ServerHandshake \/ ServerNegotiates \/ ServerTimesOut
        BY <2>2, <3>1, <4>3 DEF ServerHandshake, ServerNegotiates, ServerTimesOut, Streaming
      <4> QED BY <1>4, <4>1, <4>2, <4>3 DEF ServerStep
    <3> QED BY <2>1, <2>2, <3>2, <3>3 DEF DogInv
  <2>3. CASE link # "up"
    <3>1. down' = down
      BY <1>4, <2>3, ServerEffect DEF Sent
    <3> QED BY <2>1, <2>3, <3>1 DEF DogInv
  <2> QED BY <2>2, <2>3
<1>5. CASE ConnectionFails
  <2>1. UNCHANGED <<cpc, arrived, dog>> /\ link = "up" /\ link' # "up"
    BY <1>5 DEF ConnectionFails, clientVars
  <2> QED BY <2>1 DEF DogInv
<1>6. CASE Tick
  <2>1. /\ cpc = "live" /\ UNCHANGED <<link, up, down>> /\ arrived' = Len(down)
        /\ dog'.unanswered = dog.unanswered
        /\ link = "up" /\ spc = "pump" => ~Pinged(up)
    <3>1. DOMAIN up = 1..Len(up)
      BY LenProperties
    <3> QED BY <1>6, <3>1 DEF Tick, Pinged
  <2>2. CASE down # <<>>
    <3>1. arrived' > 0
      BY <1>0, <2>1, <2>2, LenProperties, EmptySeq
    <3> QED BY <3>1 DEF DogInv
  <2>3. CASE down = <<>>
    <3>1. arrived = 0
      BY <2>3, EmptySeq
    <3>2. link = "up" => ~Pinged(up)
      BY <2>1 DEF Coupled, Negotiating, Streaming
    <3>3. dog.unanswered = 0 \/ (link = "cut" /\ down = <<>>)
          \/ (dog.unanswered = 1 /\ dog.wait = 1 /\ (link = "up" => down # <<>> \/ Pinged(up)))
      BY <2>1, <3>1 DEF DogInv
    <3>4. dog.unanswered = 0 \/ link = "cut"
      BY <2>1, <2>3, <3>2, <3>3
    <3> QED BY <2>1, <2>3, <3>4 DEF DogInv
  <2> QED BY <2>2, <2>3
<1>7. CASE Shutdown
  BY <1>7 DEF Shutdown
<1>8. CASE UNCHANGED vars
  BY <1>8 DEF vars, clientVars, DogInv
<1> QED BY <1>1, <1>2, <1>3, <1>4, <1>5, <1>6, <1>7, <1>8 DEF Next

-----------------------------------------------------------------------------
(***************************************************************************)
(* Why a client fails.                                                     *)
(***************************************************************************)
\* A client that fails while it connects has a cause.
LEMMA CauseClient ==
  ASSUME TypeInv, Quiet, Roomy, Coupled, FailsForCause, ClientConnects
  PROVE  FailsForCause'
<1>1. UNCHANGED <<link, app>> /\ cpc \in Negotiating \cup {"rtt"}
  BY DEF ClientConnects, ClientHandshake, AwaitedComes, OtherComes, MeasureRtt, ClientLoses,
         ClientTimesOut, ClientUnchanged, Negotiating
<1>2. reason = None /\ cpc # "failed"
  BY <1>1 DEF Quiet, Negotiating
<1>3. reason' # "watchdog"
  <2>1. reason' \in {None, "closed", "timeout", "refused", "no reply", "no stream id"}
    BY <1>2 DEF ClientConnects, ClientHandshake, AwaitedComes, OtherComes, MeasureRtt, ClientLoses,
                ClientTimesOut, ClientWaits, ClientFails
  <2> QED BY <2>1, LinkAssumption
<1>4. ASSUME link = "up", cpc' = "failed" PROVE app = "other" /\ reason' = "refused"
  <2>1. cpc # "rtt"
    BY <1>4 DEF ClientConnects, ClientHandshake, AwaitedComes, OtherComes, MeasureRtt, ClientLoses,
                ClientTimesOut, Negotiating
  <2>2. Negotiated
    BY <1>1, <1>4, <2>1 DEF Coupled, Negotiating
  <2> QED BY <1>4, <2>2, NegotiatedClient DEF Negotiating
<1> QED BY <1>1, <1>3, <1>4 DEF FailsForCause

\* A live client fails only for a cause.
LEMMA CauseLive ==
  ASSUME TypeInv, Quiet, Roomy, Coupled, DogInv, FailsForCause, WriteMedia \/ Maintain \/ Shutdown
  PROVE  FailsForCause'
<1> USE DEF TypeInv
<1>1. cpc = "live" /\ UNCHANGED <<link, app>>
  BY DEF WriteMedia, Maintain, Shutdown, ClientUnchanged
<1>2. reason = "watchdog" => link = "void"
  BY DEF FailsForCause
<1>3. link = "up" => Streaming
  BY <1>1 DEF Coupled, Negotiating
<1>4. link = "up" => ~Gone
  BY <1>3 DEF Streaming, Gone
<1>5. CASE Shutdown
  BY <1>1, <1>2, <1>5 DEF Shutdown, FailsForCause
<1>6. CASE WriteMedia
  <2>1. \/ cpc' = cpc /\ reason' = reason
        \/ Gone /\ reason' = "closed"
    BY <1>6 DEF WriteMedia, ClientFails
  <2> QED BY <1>1, <1>2, <1>4, <2>1 DEF FailsForCause
<1>7. CASE Maintain
  <2>1. PICK n \in arrived..Len(down) :
          \/ ((\E i \in 1..n : down[i] = Eof) \/ link = "cut") /\ ClientFails("closed")
          \/ /\ ClientFails("watchdog") /\ Tripped(Inbound(n)) /\ ~(link = "cut" /\ n = Len(down))
          \/ Gone /\ ClientFails("closed")
          \/ UNCHANGED <<cpc, reason>>
    BY <1>7, MaintainEffect
  <2>2. n \in 0..Len(down) /\ Len(down) \in Nat /\ arrived \in Nat /\ arrived <= n
    BY <2>1, LenProperties
  <2>3. link = "up" => ~\E i \in 1..n : down[i] = Eof
    <3> SUFFICES ASSUME link = "up", NEW i \in 1..n, down[i] = Eof PROVE FALSE
      OBVIOUS
    <3>1. i \in 1..Len(down)
      BY <2>2
    <3>2. down[i].name = "pong"
      BY <1>3, <3>1 DEF Streaming, Only
    <3> QED BY <3>2, EofType
  <2>4. CASE ClientFails("closed") /\ link # "up"
    BY <1>1, <2>4 DEF ClientFails, FailsForCause
  <2>5. CASE ClientFails("watchdog") /\ Tripped(Inbound(n)) /\ ~(link = "cut" /\ n = Len(down))
    <3>1. Inbound(n).unanswered >= 2
      BY <2>5, LinkAssumption DEF Tripped, Roomy, Inbound, Heard
    <3>2. n = 0
      BY <3>1 DEF Inbound, Heard
    <3>3. dog.unanswered >= 2 /\ arrived = 0
      BY <2>2, <3>1, <3>2 DEF Inbound
    <3>4. ~(link = "cut" /\ down = <<>>)
      BY <2>5, <3>2, EmptySeq
    <3>5. link = "void"
      BY <1>1, <3>3, <3>4 DEF DogInv
    <3> QED BY <1>1, <2>5, <3>5 DEF ClientFails, FailsForCause
  <2>6. CASE UNCHANGED <<cpc, reason>>
    BY <1>1, <1>2, <2>6 DEF FailsForCause
  <2> QED BY <1>4, <2>1, <2>3, <2>4, <2>5, <2>6
<1> QED BY <1>5, <1>6, <1>7

\* Every step keeps failures to their causes.
LEMMA CauseStep ==
  ASSUME TypeInv, Quiet, Roomy, Coupled, DogInv, FailsForCause, [Next]_vars
  PROVE  FailsForCause'
<1>1. CASE ServerStep
  <2>1. UNCHANGED <<link, app, cpc, reason>>
    BY <1>1, ServerEffect
  <2> QED BY <2>1 DEF FailsForCause
<1>2. CASE ConnectionFails
  <2>1. link = "up" /\ link' # "up" /\ UNCHANGED <<cpc, reason>>
    BY <1>2 DEF ConnectionFails, clientVars
  <2> QED BY <2>1 DEF FailsForCause
<1>3. CASE Tick \/ UNCHANGED vars
  <2>1. UNCHANGED <<link, app, cpc, reason>>
    BY <1>3 DEF Tick, vars, clientVars
  <2> QED BY <2>1 DEF FailsForCause
<1> QED BY <1>1, <1>2, <1>3, CauseClient, CauseLive DEF Next

-----------------------------------------------------------------------------
(***************************************************************************)
(* The theorems.                                                           *)
(***************************************************************************)
\* What every reachable state satisfies, whatever the bounds.
LinkInv == TypeInv /\ Quiet /\ EndInv /\ Coupled /\ DogInv

\* The types, the script, the count of media and the watchdog's count are kept by
\* every step of client, server and connection.
THEOREM LinkInvariant == Spec => []LinkInv
<1>1. Init => LinkInv
  <2> HAVE Init
  <2>1. cpc = "s0"
    BY DEF Init
  <2> QED BY <2>1, TypeInit, CoupledInit DEF LinkInv, DogInv
<1>2. LinkInv /\ [Next]_vars => LinkInv'
  BY TypeStep, QuietStep, EndStep, CoupledStep, DogStep DEF LinkInv
<1> QED BY <1>1, <1>2, PTL DEF Spec

\* A client for which connect has returned has been accepted by the server, which
\* pumps unless the connection has ended.
THEOREM LinkLivePublishing == Spec => []LivePublishing
<1>1. LinkInv => LivePublishing
  <2> SUFFICES ASSUME LinkInv, cpc \in {"rtt", "live"}, link \notin {"cut", "void"}
               PROVE  spc = "pump"
    BY DEF LivePublishing, Gone
  <2>1. link = "up"
    BY DEF LinkInv, TypeInv
  <2>2. Streaming
    BY <2>1 DEF LinkInv, Coupled, Negotiating
  <2> QED BY <2>2 DEF Streaming
<1> QED BY <1>1, LinkInvariant, PTL

\* The handler hears of the end exactly once, is never given media that was not
\* written, and has all of it when a client closed over a connection that lasted.
THEOREM LinkPublishEndsOnce == Spec => []PublishEndsOnce
<1>1. LinkInv => PublishEndsOnce
  <2> SUFFICES ASSUME LinkInv PROVE PublishEndsOnce
    OBVIOUS
  <2>1. MediaIn(up) \in Nat /\ media.handled \in Nat /\ media.written \in Nat
    BY MediaFinite DEF LinkInv, TypeInv
  <2>2. fins = (IF spc = "ended" THEN 1 ELSE 0) /\ media.handled <= media.written
    BY <2>1 DEF LinkInv, EndInv
  <2>3. spc = "ended" /\ cpc = "closed" /\ link = "up" => media.handled = media.written
    BY DEF LinkInv, Coupled, Negotiating, Leaving, Left
  <2> QED BY <2>2, <2>3 DEF PublishEndsOnce
<1> QED BY <1>1, LinkInvariant, PTL

\* With the bounds above what this server and a sound connection need, a client
\* fails on a connection that is up only for a wrong application, and the watchdog
\* gives up nobody but a peer that is gone.
THEOREM LinkFailsForCause ==
  ASSUME Roomy
  PROVE  Spec => []FailsForCause
<1>1. Init => FailsForCause
  BY LinkAssumption DEF Init, FailsForCause
<1>2. LinkInv /\ FailsForCause /\ [Next]_vars => FailsForCause'
  BY CauseStep DEF LinkInv
<1> QED BY <1>1, <1>2, LinkInvariant, PTL DEF Spec
=============================================================================
