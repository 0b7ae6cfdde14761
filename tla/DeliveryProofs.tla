--------------------------- MODULE DeliveryProofs ---------------------------
(***************************************************************************)
(* Who owes the vehicle the answer to a message, for every instance of     *)
(* Streaming: that an error means nothing was dispatched, that a message   *)
(* is answered at most once over all connections, and that the server      *)
(* implements ReliableDelivery.                                            *)
(***************************************************************************)
EXTENDS StreamingProofs, SequenceTheorems

(* The inductive invariant *)

\* Session s works on a message it has read.
Busy(s) ==
  /\ pc[s] \in {"dispatch", "ackwait", "reject", "guess", "respond"}
  /\ cur[s].body = "data"

\* The session works on a connectivity event, whose Txid is written 0.
OnEvent(s) ==
  /\ pc[s] \in {"dispatch", "ackwait", "reject", "guess", "respond"}
  /\ cur[s].body # "data"

\* The message is the last one read; a record without a type has no
\* dispatchers, and no dispatcher is called twice.
OwnInv ==
  \A s \in Sessions :
    /\ pc[s] \in {"reject", "guess"} => cur[s].body = "data"
    /\ OnEvent(s) => cur[s].seq = 0
    /\ Busy(s) => /\ nread[s] >= 1
                  /\ cur[s].seq \in {0, nread[s]}
                  /\ cur[s].txType # NoTopic => cur[s].seq = nread[s]
                  /\ todo[s] # << >> => cur[s].txType # NoTopic
                  /\ \A i, j \in 1..Len(todo[s]) : todo[s][i] = todo[s][j] => i = j

\* The records of messages that a dispatcher has published or Kafka has queued.
Handed == {r \in {p[2] : p \in accepted} \cup inflight : r.body = "data"}

\* A record that was handed on is of a message that was read; while that
\* message is the session's current one, it is its record, and not rejected.
HandedInv ==
  /\ \A r \in Handed :
       /\ r.txType # NoTopic /\ r.seq >= 1 /\ r.seq <= nread[r.sess]
       /\ Busy(r.sess) /\ r.seq = nread[r.sess] => r = cur[r.sess] /\ pc[r.sess] # "reject"
  /\ \A r, q \in Handed : r.sess = q.sess /\ r.seq = q.seq => r = q

AllResponses == UNION {ResponsesAt(s) : s \in Sessions}

\* A response is to a message that was read, and an error to one that was
\* given up without being handed on.
ErrorInv ==
  \A x \in AllResponses :
    /\ x.seq <= nread[x.sess]
    /\ x.kind = "error" => /\ Busy(x.sess) => x.seq < nread[x.sess]
                           /\ \A r \in Handed : r.sess = x.sess => r.seq # x.seq

\* The dispatcher that acks the record of session s has yet to be called.
SourceAhead(s) ==
  /\ ReliableAck(cur[s].txType)
  /\ ReliableAckSources[cur[s].txType] \in InSeq(todo[s])

\* Nothing is published by the dispatcher that acks it before that
\* dispatcher is called, nor by Kafka while it is in Kafka's queue.
PublishInv ==
  /\ \A s \in Sessions :
       Busy(s) /\ pc[s] = "dispatch" /\ SourceAhead(s) =>
          /\ ~Published(cur[s])
          /\ AckedBy(Kafka, cur[s].txType) => cur[s] \notin inflight
  /\ \A r \in inflight : AckedBy(Kafka, r.txType) => ~Published(r)

\* Session s will answer message n itself, or hand it to a dispatcher that will.
Owes(s, n) ==
  /\ Busy(s) /\ cur[s].seq = n /\ cur[s].txType # NoTopic
  /\ pc[s] = "dispatch" /\ ReliableAck(cur[s].txType) => SourceAhead(s)

\* The ack of r answers message n of session s, and is Kafka's to give.
KafkaOwes(r, s, n) == r.sess = s /\ r.seq = n /\ AckedBy(Kafka, r.txType)

Answered(x, s, n) == x.sess = s /\ x.seq = n /\ x.txType # NoTopic

\* Where the answer to message n of session s can be: with the session, in
\* Kafka's queue, in a delivery report, with Kafka's goroutine, with
\* handleAcks, in the channel of session p, with its writer, on its wire.
Kinds == {"session", "queue", "report", "poller", "acks", "chan", "writer", "wire"}

Place(k, p, s, n) ==
  \/ k = "session" /\ p = s /\ Owes(s, n)
  \/ k = "queue"   /\ p = s /\ \E r \in inflight : KafkaOwes(r, s, n)
  \/ k = "report"  /\ p = s /\ \E rp \in reports : rp.ok /\ KafkaOwes(rp.rec, s, n)
  \/ k = "poller"  /\ p = s /\ poller # NoRecord /\ KafkaOwes(poller, s, n)
  \/ k = "acks"    /\ p = s /\ ackPc # "recv" /\ ackRec.sess = s /\ ackRec.seq = n
  \/ k = "chan"    /\ Answers(writeChan[p], s, n) # {}
  \/ k = "writer"  /\ writing[p] # NoResponse /\ Answered(writing[p], s, n)
  \/ k = "wire"    /\ Answers(wire[p], s, n) # {}

\* It is in one place at a time.
OnePlace(s, n) ==
  \A k, l \in Kinds, p, q \in Sessions :
     Place(k, p, s, n) /\ Place(l, q, s, n) => k = l /\ p = q

\* And there it is once.
Single(q, s, n) == \A i, j \in Answers(q, s, n) : i = j

PlaceInv ==
  \A s \in Sessions, n \in 1..MaxMessages :
    /\ OnePlace(s, n)
    /\ \A p \in Sessions : Single(writeChan[p], s, n) /\ Single(wire[p], s, n)

DInv == OwnInv /\ HandedInv /\ ErrorInv /\ PublishInv /\ PlaceInv
-----------------------------------------------------------------------------
(* Facts about the operators *)

\* A record without a type has no dispatchers, and none is listed twice.
LEMMA RulesOnce ==
  ASSUME NEW t
  PROVE  /\ RulesFor(t) # << >> => t # NoTopic
         /\ \A i, j \in 1..Len(RulesFor(t)) : RulesFor(t)[i] = RulesFor(t)[j] => i = j
  BY RulesAssumption, TopicAssumption, OncePerRecordAssumption DEF RulesFor

\* A record of a reliable type is one of a message.
LEMMA ReliableIsData ==
  ASSUME NEW r \in Records, ReliableAck(r.txType)
  PROVE  r.body = "data" /\ r.txType # NoTopic
  BY ReliableTopics DEF Records

\* What is behind the first element of a list without duplicates.
LEMMA BehindHead ==
  ASSUME NEW S, NEW q \in Seq(S), q # << >>,
         \A i, j \in 1..Len(q) : q[i] = q[j] => i = j
  PROVE  /\ Head(q) \in InSeq(q)
         /\ Head(q) \notin InSeq(Tail(q))
         /\ InSeq(Tail(q)) \subseteq InSeq(q)
         /\ \A i, j \in 1..Len(Tail(q)) : Tail(q)[i] = Tail(q)[j] => i = j
<1>1. /\ Len(q) \in Nat /\ Len(q) >= 1 /\ Head(q) = q[1] /\ Len(Tail(q)) = Len(q) - 1
      /\ \A i \in 1..Len(Tail(q)) : i + 1 \in 1..Len(q) /\ Tail(q)[i] = q[i + 1]
  OBVIOUS
<1>2. 1 \in 1..Len(q) /\ \A i \in 1..Len(Tail(q)) : i + 1 # 1
  BY <1>1
<1>3. \A i, j \in 1..Len(Tail(q)) : Tail(q)[i] = Tail(q)[j] => i = j
  BY <1>1
<1>4. Head(q) \in InSeq(q) /\ InSeq(Tail(q)) \subseteq InSeq(q)
  BY <1>1, <1>2 DEF InSeq
<1>5. Head(q) \notin InSeq(Tail(q))
  BY <1>1, <1>2 DEF InSeq
<1> QED
  BY <1>3, <1>4, <1>5

\* The answers in a channel to which x is appended.
LEMMA AnswersAppend ==
  ASSUME NEW q \in Seq(Responses), NEW x \in Responses, NEW s, NEW n
  PROVE  Answers(Append(q, x), s, n)
            = Answers(q, s, n) \cup (IF Answered(x, s, n) THEN {Len(q) + 1} ELSE {})
  BY DEF Answers, Answered

\* The answers in a channel whose first response is taken.
LEMMA AnswersTail ==
  ASSUME NEW q \in Seq(Responses), q # << >>, NEW s, NEW n
  PROVE  /\ Answered(Head(q), s, n) <=> 1 \in Answers(q, s, n)
         /\ \A i \in Answers(Tail(q), s, n) : i \in Nat \ {0} /\ i + 1 \in Answers(q, s, n)
<1>1. /\ Len(q) \in Nat /\ Len(q) >= 1 /\ Head(q) = q[1] /\ Len(Tail(q)) = Len(q) - 1
      /\ \A i \in 1..Len(Tail(q)) : i + 1 \in 1..Len(q) /\ Tail(q)[i] = q[i + 1]
  OBVIOUS
<1> QED
  BY <1>1 DEF Answers, Answered

\* Which records have been handed on.
LEMMA HandedMember ==
  ASSUME ProducersTypeOK
  PROVE  /\ Handed \subseteq Records
         /\ \A d, r : <<d, r>> \in accepted /\ r.body = "data" => r \in Handed
         /\ \A r \in inflight : r.body = "data" => r \in Handed
  BY DEF ProducersTypeOK, Handed

\* The responses of a session, one by one.
LEMMA ResponseMember ==
  ASSUME SocketTypeOK
  PROVE  /\ AllResponses \subseteq Responses
         /\ \A s \in Sessions, i \in Nat : i \in 1..Len(writeChan[s]) => writeChan[s][i] \in AllResponses
         /\ \A s \in Sessions, i \in Nat : i \in 1..Len(wire[s]) => wire[s][i] \in AllResponses
         /\ \A s \in Sessions : writing[s] # NoResponse => writing[s] \in AllResponses
<1>1. \A s \in Sessions : /\ InSeq(writeChan[s]) \subseteq Responses
                          /\ InSeq(wire[s]) \subseteq Responses
                          /\ {writing[s]} \ {NoResponse} \subseteq Responses
  BY DEF SocketTypeOK, InSeq
<1>2. AllResponses \subseteq Responses
  BY <1>1 DEF AllResponses, ResponsesAt
<1> QED
  BY <1>2 DEF AllResponses, ResponsesAt, InSeq

\* Every place by itself.
LEMMA Places ==
  ASSUME NEW p, NEW s, NEW n
  PROVE  /\ Place("session", p, s, n) <=> p = s /\ Owes(s, n)
         /\ Place("queue", p, s, n) <=> p = s /\ \E r \in inflight : KafkaOwes(r, s, n)
         /\ Place("report", p, s, n) <=> p = s /\ \E rp \in reports : rp.ok /\ KafkaOwes(rp.rec, s, n)
         /\ Place("poller", p, s, n) <=> p = s /\ poller # NoRecord /\ KafkaOwes(poller, s, n)
         /\ Place("acks", p, s, n) <=> p = s /\ ackPc # "recv" /\ ackRec.sess = s /\ ackRec.seq = n
         /\ Place("chan", p, s, n) <=> Answers(writeChan[p], s, n) # {}
         /\ Place("writer", p, s, n) <=> writing[p] # NoResponse /\ Answered(writing[p], s, n)
         /\ Place("wire", p, s, n) <=> Answers(wire[p], s, n) # {}
  BY DEF Place

\* The same in the state after a step.
LEMMA PlacesNext ==
  ASSUME NEW p, NEW s, NEW n
  PROVE  /\ Place("session", p, s, n)' <=> p = s /\ Owes(s, n)'
         /\ Place("queue", p, s, n)' <=> p = s /\ \E r \in inflight' : KafkaOwes(r, s, n)
         /\ Place("report", p, s, n)' <=> p = s /\ \E rp \in reports' : rp.ok /\ KafkaOwes(rp.rec, s, n)
         /\ Place("poller", p, s, n)' <=> p = s /\ poller' # NoRecord /\ KafkaOwes(poller', s, n)
         /\ Place("acks", p, s, n)' <=> p = s /\ ackPc' # "recv" /\ ackRec'.sess = s /\ ackRec'.seq = n
         /\ Place("chan", p, s, n)' <=> Answers(writeChan'[p], s, n) # {}
         /\ Place("writer", p, s, n)' <=> writing'[p] # NoResponse /\ Answered(writing'[p], s, n)
         /\ Place("wire", p, s, n)' <=> Answers(wire'[p], s, n) # {}
  BY DEF Place, KafkaOwes, AckedBy, ReliableAck, Answers, Answered

\* The places a step does not touch.
LEMMA SamePlaces ==
  ASSUME NEW p, NEW s, NEW n
  PROVE  /\ UNCHANGED <<pc, cur, todo>> => (Place("session", p, s, n)' <=> Place("session", p, s, n))
         /\ UNCHANGED inflight => (Place("queue", p, s, n)' <=> Place("queue", p, s, n))
         /\ UNCHANGED reports => (Place("report", p, s, n)' <=> Place("report", p, s, n))
         /\ UNCHANGED poller => (Place("poller", p, s, n)' <=> Place("poller", p, s, n))
         /\ UNCHANGED <<ackPc, ackRec>> => (Place("acks", p, s, n)' <=> Place("acks", p, s, n))
         /\ UNCHANGED writeChan => (Place("chan", p, s, n)' <=> Place("chan", p, s, n))
         /\ UNCHANGED writing => (Place("writer", p, s, n)' <=> Place("writer", p, s, n))
         /\ UNCHANGED wire => (Place("wire", p, s, n)' <=> Place("wire", p, s, n))
<1>1. UNCHANGED <<pc, cur, todo>> => (Owes(s, n)' <=> Owes(s, n))
  BY DEF Owes, Busy, SourceAhead, ReliableAck
<1>2. UNCHANGED <<pc, cur, todo>> => (Place("session", p, s, n)' <=> Place("session", p, s, n))
  BY <1>1, Places, PlacesNext
<1>3. /\ UNCHANGED inflight => (Place("queue", p, s, n)' <=> Place("queue", p, s, n))
      /\ UNCHANGED reports => (Place("report", p, s, n)' <=> Place("report", p, s, n))
      /\ UNCHANGED poller => (Place("poller", p, s, n)' <=> Place("poller", p, s, n))
  BY Places, PlacesNext
<1>4. UNCHANGED <<ackPc, ackRec>> => (Place("acks", p, s, n)' <=> Place("acks", p, s, n))
  BY Places, PlacesNext
<1>5. /\ UNCHANGED writeChan => (Place("chan", p, s, n)' <=> Place("chan", p, s, n))
      /\ UNCHANGED writing => (Place("writer", p, s, n)' <=> Place("writer", p, s, n))
      /\ UNCHANGED wire => (Place("wire", p, s, n)' <=> Place("wire", p, s, n))
  BY DEF Place, Answers, Answered
<1> QED
  BY <1>2, <1>3, <1>4, <1>5

\* A step moves the answer to message n of session s from the place k of p to
\* the place l of q, or drops it, or makes the session owe it.
Moves(s, n, k, p, l, q) ==
  /\ \A a \in Kinds, b \in Sessions : Place(a, b, s, n)' => Place(a, b, s, n) \/ (a = l /\ b = q)
  /\ Place(l, q, s, n)' => \/ Place(l, q, s, n)
                           \/ Place(k, p, s, n) /\ ~Place(k, p, s, n)'
                           \/ \A a \in Kinds, b \in Sessions : ~Place(a, b, s, n)

\* After such a step it is still in one place.
LEMMA MovesOne ==
  ASSUME NEW s \in Sessions, NEW n \in 1..MaxMessages, OnePlace(s, n),
         NEW k \in Kinds, NEW l \in Kinds, NEW p \in Sessions, NEW q \in Sessions,
         Moves(s, n, k, p, l, q)
  PROVE  OnePlace(s, n)'
  BY DEF OnePlace, Moves
-----------------------------------------------------------------------------
(* Steps that only drop what a session owes *)

Quiet ==
  /\ UNCHANGED <<inflight, reports, poller, accepted, writeChan, wire>>
  /\ \A s \in Sessions : writing'[s] \in {writing[s], NoResponse}
  /\ \A s \in Sessions : nread'[s] >= nread[s]
  /\ ackPc' # "recv" => ackPc # "recv" /\ ackRec' = ackRec
  /\ \A s \in Sessions : pc'[s] \in {"reject", "guess"} => pc[s] = pc'[s] /\ cur'[s] = cur[s]
  /\ \A s \in Sessions : OnEvent(s)' => cur'[s].seq = 0 \/ (OnEvent(s) /\ cur'[s] = cur[s])
  /\ \A s \in Sessions :
       Busy(s)' =>
         /\ Busy(s) /\ nread'[s] = nread[s] /\ cur'[s] = cur[s]
         /\ todo'[s] = todo[s] \/ (todo[s] # << >> /\ todo'[s] = Tail(todo[s]))
         /\ pc'[s] = pc[s] \/ (pc[s] = "dispatch" /\ pc'[s] = "respond" /\ ~ReliableAck(cur[s].txType))

\* A list that only lost its first element.
LEMMA QuietTodo ==
  ASSUME IInv, OwnInv, Quiet, NEW s \in Sessions, Busy(s)'
  PROVE  /\ todo[s] # << >> \/ todo'[s] = << >>
         /\ InSeq(todo'[s]) \subseteq InSeq(todo[s])
         /\ \A i, j \in 1..Len(todo'[s]) : todo'[s][i] = todo'[s][j] => i = j
<1>1. todo[s] \in Seq(Dispatchers) /\ \A i, j \in 1..Len(todo[s]) : todo[s][i] = todo[s][j] => i = j
  BY DEF IInv, TypeOK, SessionTypeOK, OwnInv, Quiet
<1>2. CASE todo'[s] = todo[s]
  BY <1>1, <1>2
<1>3. CASE todo[s] # << >> /\ todo'[s] = Tail(todo[s])
  BY <1>1, <1>3, BehindHead
<1> QED
  BY <1>2, <1>3 DEF Quiet

LEMMA QuietStep ==
  ASSUME IInv, DInv, Quiet, IInv'
  PROVE  DInv'
<1>0. OwnInv /\ HandedInv /\ ErrorInv /\ PublishInv /\ PlaceInv
  BY DEF DInv
<1>1. OwnInv'
  <2> SUFFICES ASSUME NEW s \in Sessions, Busy(s)'
               PROVE  /\ nread'[s] >= 1
                      /\ cur'[s].seq \in {0, nread'[s]}
                      /\ cur'[s].txType # NoTopic => cur'[s].seq = nread'[s]
                      /\ todo'[s] # << >> => cur'[s].txType # NoTopic
                      /\ \A i, j \in 1..Len(todo'[s]) : todo'[s][i] = todo'[s][j] => i = j
    BY <1>0 DEF OwnInv, Quiet
  <2> QED
    BY <1>0, QuietTodo DEF OwnInv, Quiet
<1>2. Handed' = Handed
  BY DEF Handed, Quiet
<1>3. Handed \subseteq Records /\ \A r \in Handed : r.sess \in Sessions
  BY HandedMember DEF IInv, TypeOK, Records
<1>4. \A s \in Sessions : nread[s] \in Nat /\ nread'[s] \in Nat
  BY LimitAssumption DEF IInv, TypeOK, SessionTypeOK
<1>5. HandedInv'
  <2>1. ASSUME NEW r \in Handed
        PROVE  /\ r.txType # NoTopic /\ r.seq >= 1 /\ r.seq <= nread'[r.sess]
               /\ Busy(r.sess)' /\ r.seq = nread'[r.sess] => r = cur'[r.sess] /\ pc'[r.sess] # "reject"
    <3>1. r.seq \in Nat /\ r.sess \in Sessions
      BY <1>3 DEF Records
    <3>2. r.txType # NoTopic /\ r.seq >= 1 /\ r.seq <= nread'[r.sess]
      BY <1>0, <1>4, <3>1 DEF HandedInv, Quiet
    <3>3. Busy(r.sess)' /\ r.seq = nread'[r.sess] => r = cur'[r.sess] /\ pc'[r.sess] # "reject"
      BY <1>0, <3>1 DEF HandedInv, Quiet
    <3> QED
      BY <3>2, <3>3
  <2> QED
    BY <1>0, <1>2, <2>1 DEF HandedInv
<1>6. AllResponses' \subseteq AllResponses
  BY DEF AllResponses, ResponsesAt, Quiet
<1>7. AllResponses \subseteq Responses
  BY ResponseMember DEF IInv, TypeOK
<1>8. ErrorInv'
  <2> SUFFICES ASSUME NEW x \in AllResponses
               PROVE  /\ x.seq <= nread'[x.sess]
                      /\ x.kind = "error" => /\ Busy(x.sess)' => x.seq < nread'[x.sess]
                                             /\ \A r \in Handed : r.sess = x.sess => r.seq # x.seq
    BY <1>2, <1>6 DEF ErrorInv
  <2>1. x.sess \in Sessions /\ x.seq \in Nat
    BY <1>7 DEF Responses
  <2> QED
    BY <1>0, <1>4, <2>1 DEF ErrorInv, Quiet
<1>9. PublishInv'
  <2>1. ASSUME NEW s \in Sessions, Busy(s)', pc'[s] = "dispatch", SourceAhead(s)'
        PROVE  /\ Busy(s) /\ pc[s] = "dispatch" /\ SourceAhead(s)
               /\ cur'[s] = cur[s]
    BY <1>0, <2>1, QuietTodo DEF Quiet, SourceAhead, ReliableAck
  <2>2. \A r : Published(r)' <=> Published(r)
    BY DEF Published, Quiet
  <2>3. \A r : AckedBy(Kafka, r.txType)' <=> AckedBy(Kafka, r.txType)
    BY DEF AckedBy, ReliableAck
  <2> QED
    BY <1>0, <2>1, <2>2, <2>3 DEF PublishInv, Quiet, Published, AckedBy, ReliableAck
<1>10. ASSUME NEW s \in Sessions, NEW n \in 1..MaxMessages
       PROVE  OnePlace(s, n)' /\ \A p \in Sessions : Single(writeChan'[p], s, n) /\ Single(wire'[p], s, n)
  <2>1. Owes(s, n)' => Owes(s, n)
    <3> SUFFICES ASSUME Owes(s, n)' PROVE Owes(s, n)
      OBVIOUS
    <3>1. Busy(s)' /\ cur'[s].seq = n /\ cur'[s].txType # NoTopic
      BY DEF Owes
    <3>2. Busy(s) /\ cur[s].seq = n /\ cur[s].txType # NoTopic
      BY <3>1 DEF Quiet
    <3>3. ASSUME pc[s] = "dispatch", ReliableAck(cur[s].txType) PROVE SourceAhead(s)
      <4>1. pc'[s] = "dispatch" /\ cur'[s] = cur[s]
        BY <3>1, <3>3 DEF Quiet
      <4>2. SourceAhead(s)'
        BY <3>3, <4>1 DEF Owes, ReliableAck
      <4> QED
        BY <1>0, <3>1, <4>1, <4>2, QuietTodo DEF SourceAhead, ReliableAck
    <3> QED
      BY <3>2, <3>3 DEF Owes
  <2>2. \A b \in Sessions :
           /\ Place("session", b, s, n)' => Place("session", b, s, n)
           /\ Place("acks", b, s, n)' => Place("acks", b, s, n)
           /\ Place("writer", b, s, n)' => Place("writer", b, s, n)
    BY <2>1, Places, PlacesNext DEF Quiet
  <2>3. Moves(s, n, "wire", s, "wire", s)
    BY <2>2, SamePlaces DEF Quiet, Moves, Kinds
  <2>4. OnePlace(s, n)'
    BY <1>0, <2>3, MovesOne DEF PlaceInv, Kinds
  <2> QED
    BY <1>0, <2>4 DEF PlaceInv, Quiet
<1>11. PlaceInv'
  BY <1>10 DEF PlaceInv, Single, Answers
<1> QED
  BY <1>1, <1>5, <1>8, <1>9, <1>11 DEF DInv

\* The steps that are quiet.
LEMMA SessionQuiet ==
  ASSUME IInv, NEW s \in Sessions,
         \/ Accept(s) \/ RefuseIdentity(s) \/ ReadError(s) \/ ReadNotBinary(s)
         \/ ProduceSyncError(s) \/ StartTelemetry(s) \/ Dispatched(s)
         \/ CloseSocket(s) \/ CloseStopChan(s) \/ Deregister(s) \/ Finish(s)
  PROVE  Quiet
<1> USE DEF IInv, TypeOK, SessionTypeOK, socketVars, producerVars, ackVars, Quiet, Busy, OnEvent
<1>0. \A t \in Sessions : nread[t] \in Nat
  BY LimitAssumption
<1>1. CASE Accept(s)
  BY <1>0, <1>1 DEF Accept, DispatchConnectivityEvent
<1>2. CASE Deregister(s)
  BY <1>0, <1>2 DEF Deregister, DispatchConnectivityEvent
<1>3. CASE RefuseIdentity(s) \/ ReadError(s) \/ ReadNotBinary(s)
  BY <1>0, <1>3 DEF RefuseIdentity, ReadError, ReadNotBinary
<1>4. CASE ProduceSyncError(s)
  BY <1>0, <1>4 DEF ProduceSyncError
<1>5. CASE StartTelemetry(s) \/ CloseSocket(s) \/ CloseStopChan(s) \/ Finish(s)
  BY <1>0, <1>5 DEF StartTelemetry, CloseSocket, CloseStopChan, Finish
<1>6. CASE Dispatched(s)
  <2>1. CASE ReliableAck(cur[s].txType)
    <3>1. pc' = [pc EXCEPT ![s] = "read"]
      BY <1>6, <2>1 DEF Dispatched
    <3> QED
      BY <1>0, <1>6, <3>1 DEF Dispatched
  <2>2. CASE ~ReliableAck(cur[s].txType)
    <3>1. pc' = [pc EXCEPT ![s] = "respond"]
      BY <1>6, <2>2 DEF Dispatched
    <3> QED
      BY <1>0, <1>6, <2>2, <3>1 DEF Dispatched
  <2> QED
    BY <2>1, <2>2
<1> QED
  BY <1>1, <1>2, <1>3, <1>4, <1>5, <1>6

LEMMA OtherQuiet ==
  ASSUME IInv,
         \/ UNCHANGED vars \/ AckLookup
         \/ \E s \in Sessions : Leave(s)
         \/ \E s \in Sessions : (WriteError(s) \/ WriterStop(s)) /\ WriterStep(s)
         \/ \E s \in Sessions, m \in Messages : RateLimitEnabled /\ ReadLimited(s, m)
  PROVE  Quiet
<1> USE DEF IInv, TypeOK, SessionTypeOK, registryVars, socketVars, producerVars, sessionVars, ackVars, Quiet, Busy, OnEvent
<1>0. \A t \in Sessions : nread[t] \in Nat
  BY LimitAssumption
<1>1. CASE UNCHANGED vars
  BY <1>0, <1>1 DEF vars
<1>2. CASE AckLookup
  BY <1>0, <1>2 DEF AckLookup
<1>3. CASE \E s \in Sessions : Leave(s)
  BY <1>0, <1>3 DEF Leave, VehicleLeaves
<1>4. CASE \E s \in Sessions : (WriteError(s) \/ WriterStop(s)) /\ WriterStep(s)
  BY <1>0, <1>4 DEF WriterStep, WriteError, WriterStop, WriterExit, SocketTypeOK
<1>5. CASE \E s \in Sessions, m \in Messages : RateLimitEnabled /\ ReadLimited(s, m)
  BY <1>0, <1>5 DEF ReadLimited
<1> QED
  BY <1>1, <1>2, <1>3, <1>4, <1>5
-----------------------------------------------------------------------------
(* Reading a message *)

\* The answer to a message exists only once it has been read.
LEMMA PlaceRead ==
  ASSUME IInv, DInv, NEW s \in Sessions, NEW n \in 1..MaxMessages,
         NEW k \in Kinds, NEW p \in Sessions, Place(k, p, s, n)
  PROVE  n <= nread[s]
<1>0. OwnInv /\ HandedInv /\ ErrorInv /\ SocketTypeOK /\ ProducersTypeOK /\ nread[s] \in Nat
  BY LimitAssumption DEF DInv, IInv, TypeOK, SessionTypeOK
<1>1. \A d, r : <<d, r>> \in accepted /\ ReliableAck(r.txType) => r \in Handed
  BY <1>0, HandedMember, ReliableIsData DEF ProducersTypeOK
<1>2. CASE k = "session"
  BY <1>0, <1>2, Places DEF Owes, OwnInv
<1>3. CASE k = "queue"
  <2>1. PICK r \in inflight : KafkaOwes(r, s, n)
    BY <1>3, Places
  <2>2. r \in Handed
    BY <1>0, <2>1, HandedMember, ReliableIsData DEF ProducersTypeOK, KafkaOwes, AckedBy
  <2> QED
    BY <1>0, <2>1, <2>2 DEF HandedInv, KafkaOwes
<1>4. CASE k = "report"
  <2>1. PICK rp \in reports : rp.ok /\ KafkaOwes(rp.rec, s, n)
    BY <1>4, Places
  <2>2. rp.rec \in Handed
    BY <1>1, <2>1 DEF IInv, KafkaInv, KafkaOwes, AckedBy
  <2> QED
    BY <1>0, <2>1, <2>2 DEF HandedInv, KafkaOwes
<1>5. CASE k = "poller"
  <2>1. poller # NoRecord /\ KafkaOwes(poller, s, n)
    BY <1>5, Places
  <2>2. poller \in Handed
    BY <1>1, <2>1 DEF IInv, KafkaInv, KafkaOwes, AckedBy
  <2> QED
    BY <1>0, <2>1, <2>2 DEF HandedInv, KafkaOwes
<1>6. CASE k = "acks"
  <2>1. ackPc # "recv" /\ ackRec.sess = s /\ ackRec.seq = n
    BY <1>6, Places
  <2>2. ackRec \in Handed
    BY <1>1, <2>1 DEF IInv, AckInv, Published
  <2> QED
    BY <1>0, <2>1, <2>2 DEF HandedInv
<1>7. CASE k \in {"chan", "writer", "wire"}
  <2>1. PICK x \in AllResponses : Answered(x, s, n)
    <3>1. CASE k = "chan"
      <4>1. PICK i \in Answers(writeChan[p], s, n) : TRUE
        BY <3>1, Places
      <4> QED
        BY <1>0, <4>1, ResponseMember DEF Answers, Answered, SocketTypeOK
    <3>2. CASE k = "wire"
      <4>1. PICK i \in Answers(wire[p], s, n) : TRUE
        BY <3>2, Places
      <4> QED
        BY <1>0, <4>1, ResponseMember DEF Answers, Answered, SocketTypeOK
    <3>3. CASE k = "writer"
      BY <1>0, <3>3, Places, ResponseMember
    <3> QED
      BY <1>7, <3>1, <3>2, <3>3
  <2> QED
    BY <1>0, <2>1 DEF ErrorInv, Answered
<1> QED
  BY <1>2, <1>3, <1>4, <1>5, <1>6, <1>7 DEF Kinds

\* What NewRecord and the dispatch rules make of the n-th message.
LEMMA ReadRecord ==
  ASSUME NEW s \in Sessions, NEW n \in Nat, NEW m \in Messages, NEW r, r = RecordOf(s, n, m)
  PROVE  /\ r \in Records /\ r.sess = s /\ r.body = "data" /\ r.seq \in {0, n}
         /\ r.txType # NoTopic => r.seq = n
  BY RecordOfType DEF RecordOf, TxTypeOf, TxidKnown

LEMMA ParsedDelivery ==
  ASSUME IInv, DInv, IInv', NEW s \in Sessions, NEW m \in Messages,
         pc[s] = "read", nread[s] < MaxMessages, ParseAndProcessRecord(s, m),
         nread' = [nread EXCEPT ![s] = @ + 1],
         UNCHANGED <<inflight, reports, poller, accepted, writeChan, writing, wire, ackPc, ackRec>>
  PROVE  DInv'
<1>0. OwnInv /\ HandedInv /\ ErrorInv /\ PublishInv /\ PlaceInv
  BY DEF DInv
<1> DEFINE N == nread[s] + 1
           r == RecordOf(s, N, m)
<1>1. /\ N \in Nat /\ N >= 1 /\ nread'[s] = N /\ \A t \in Sessions : nread[t] \in Nat /\ nread'[t] \in Nat
      /\ \A t \in Sessions \ {s} : nread'[t] = nread[t]
  BY LimitAssumption DEF IInv, TypeOK, SessionTypeOK
<1>2. /\ r \in Records /\ r.sess = s /\ r.body = "data" /\ r.seq \in {0, N}
      /\ r.txType # NoTopic => r.seq = N
  BY <1>1, ReadRecord
<1>3. /\ cur' = [cur EXCEPT ![s] = r]
      /\ todo' = [todo EXCEPT ![s] = RulesFor(r.txType)]
      /\ pc' = [pc EXCEPT ![s] = CASE NewRecordError(m) = "none"         -> "dispatch"
                                   [] NewRecordError(m) = "unknown_type" -> "guess"
                                   [] OTHER                              -> "reject"]
  BY DEF ParseAndProcessRecord
<1> HIDE DEF r, N
<1>4. /\ cur'[s] = r /\ todo'[s] = RulesFor(r.txType)
      /\ pc'[s] \in {"dispatch", "guess", "reject"} /\ ~Busy(s)
      /\ \A t \in Sessions \ {s} : cur'[t] = cur[t] /\ todo'[t] = todo[t] /\ pc'[t] = pc[t]
  BY <1>3 DEF IInv, TypeOK, SessionTypeOK, Busy
<1> HIDE DEF r, N
<1>5. \A t \in Sessions \ {s} : Busy(t)' <=> Busy(t)
  BY <1>4 DEF Busy
<1>6. OwnInv'
  <2> SUFFICES ASSUME NEW t \in Sessions
               PROVE  /\ pc'[t] \in {"reject", "guess"} => cur'[t].body = "data"
                      /\ OnEvent(t)' => cur'[t].seq = 0
                      /\ Busy(t)' => /\ nread'[t] >= 1
                                     /\ cur'[t].seq \in {0, nread'[t]}
                                     /\ cur'[t].txType # NoTopic => cur'[t].seq = nread'[t]
                                     /\ todo'[t] # << >> => cur'[t].txType # NoTopic
                                     /\ \A i, j \in 1..Len(todo'[t]) : todo'[t][i] = todo'[t][j] => i = j
    BY DEF OwnInv
  <2>1. CASE t = s
    BY <1>1, <1>2, <1>4, <2>1, RulesOnce DEF OnEvent
  <2>2. CASE t # s
    BY <1>0, <1>1, <1>4, <1>5, <2>2 DEF OwnInv, OnEvent
  <2> QED
    BY <2>1, <2>2
<1>7. Handed' = Handed /\ AllResponses' = AllResponses
  BY DEF Handed, AllResponses, ResponsesAt
<1>8. \A q \in Handed : q.sess \in Sessions /\ q.seq \in Nat
  BY HandedMember DEF IInv, TypeOK, Records
<1>9. \A q \in Handed : q.sess = s => q.seq < nread'[s]
  BY <1>0, <1>1, <1>8 DEF HandedInv, N
<1>10. HandedInv'
  <2> SUFFICES ASSUME NEW q \in Handed
               PROVE  /\ q.txType # NoTopic /\ q.seq >= 1 /\ q.seq <= nread'[q.sess]
                      /\ Busy(q.sess)' /\ q.seq = nread'[q.sess] => q = cur'[q.sess] /\ pc'[q.sess] # "reject"
    BY <1>0, <1>7 DEF HandedInv
  <2>1. CASE q.sess = s
    BY <1>0, <1>1, <1>8, <1>9, <2>1 DEF HandedInv
  <2>2. CASE q.sess # s
    BY <1>0, <1>1, <1>4, <1>5, <1>8, <2>2 DEF HandedInv
  <2> QED
    BY <2>1, <2>2
<1>11. ErrorInv'
  <2> SUFFICES ASSUME NEW x \in AllResponses
               PROVE  /\ x.seq <= nread'[x.sess]
                      /\ x.kind = "error" => /\ Busy(x.sess)' => x.seq < nread'[x.sess]
                                             /\ \A q \in Handed : q.sess = x.sess => q.seq # x.seq
    BY <1>7 DEF ErrorInv
  <2>1. x.sess \in Sessions /\ x.seq \in Nat
    BY ResponseMember DEF IInv, TypeOK, Responses
  <2>2. CASE x.sess = s
    BY <1>0, <1>1, <2>1, <2>2 DEF ErrorInv, N
  <2>3. CASE x.sess # s
    BY <1>0, <1>1, <1>5, <2>1, <2>3 DEF ErrorInv
  <2> QED
    BY <2>2, <2>3
<1>12. PublishInv'
  <2>1. ASSUME NEW t \in Sessions, Busy(t)', pc'[t] = "dispatch", SourceAhead(t)'
        PROVE  /\ ~Published(cur'[t])
               /\ AckedBy(Kafka, cur'[t].txType) => cur'[t] \notin inflight
    <3>1. CASE t = s
      <4>1. ReliableAck(r.txType) /\ r.seq = nread'[s]
        BY <1>1, <1>2, <1>4, <2>1, <3>1, ReliableIsData DEF SourceAhead, ReliableAck
      <4>2. r \notin Handed
        BY <1>1, <1>2, <1>9, <4>1
      <4> QED
        BY <1>2, <1>4, <3>1, <4>2, HandedMember DEF Published, IInv, TypeOK
    <3>2. CASE t # s
      <4>1. Busy(t) /\ pc[t] = "dispatch" /\ SourceAhead(t) /\ cur'[t] = cur[t]
        BY <1>4, <1>5, <2>1, <3>2 DEF SourceAhead, ReliableAck
      <4> QED
        BY <1>0, <4>1 DEF PublishInv
    <3> QED
      BY <3>1, <3>2
  <2> QED
    BY <1>0, <2>1 DEF PublishInv, Published, AckedBy, ReliableAck
<1>13. ASSUME NEW t \in Sessions, NEW n \in 1..MaxMessages
       PROVE  Moves(t, n, "session", s, "session", s)
  <2>1. \A b \in Sessions : b # s => (Place("session", b, t, n)' => Place("session", b, t, n))
    <3> SUFFICES ASSUME t # s PROVE Owes(t, n)' => Owes(t, n)
      BY Places, PlacesNext
    <3> QED
      BY <1>4, <1>5 DEF Owes, SourceAhead, ReliableAck
  <2>2. Place("session", s, t, n)' => t = s /\ n = N
    BY <1>2, <1>4, PlacesNext DEF Owes
  <2>3. t = s /\ n = N => \A a \in Kinds, b \in Sessions : ~Place(a, b, t, n)
    BY <1>1, PlaceRead DEF N
  <2> QED
    BY <2>1, <2>2, <2>3, SamePlaces DEF Moves, Kinds
<1>14. PlaceInv'
  <2>1. \A t \in Sessions, n \in 1..MaxMessages : OnePlace(t, n)'
    BY <1>0, <1>13, MovesOne DEF PlaceInv, Kinds
  <2> QED
    BY <1>0, <2>1 DEF PlaceInv, Single, Answers
<1> QED
  BY <1>6, <1>10, <1>11, <1>12, <1>14 DEF DInv
-----------------------------------------------------------------------------
(* Steps that move an answer *)

\* Steps that hand no record on and make no response, and let no session
\* reject what it works on.
LEMMA HandedKept ==
  ASSUME IInv, HandedInv, ErrorInv, Handed' \subseteq Handed, AllResponses' \subseteq AllResponses,
         UNCHANGED <<cur, nread>>,
         \A s \in Sessions : Busy(s)' => Busy(s) /\ (pc'[s] = "reject" => pc[s] = "reject")
  PROVE  HandedInv' /\ ErrorInv'
<1>1. \A q \in Handed : q.sess \in Sessions
  BY HandedMember DEF IInv, TypeOK, Records
<1>2. \A x \in AllResponses : x.sess \in Sessions
  BY ResponseMember DEF IInv, TypeOK, Responses
<1>3. HandedInv'
  BY <1>1 DEF HandedInv
<1>4. ErrorInv'
  BY <1>2 DEF ErrorInv
<1> QED
  BY <1>3, <1>4

\* Nothing about what a session works on has changed.
LEMMA SessionSame ==
  ASSUME UNCHANGED <<pc, cur, todo, nread>>
  PROVE  /\ OwnInv => OwnInv'
         /\ \A s : (Busy(s)' <=> Busy(s)) /\ (SourceAhead(s)' <=> SourceAhead(s))
  BY DEF OwnInv, Busy, OnEvent, SourceAhead, ReliableAck

\* Nothing about what is published has changed.
LEMMA PublishSame ==
  ASSUME PublishInv, UNCHANGED <<inflight, accepted, cur>>,
         \A s \in Sessions : Busy(s)' /\ pc'[s] = "dispatch" /\ SourceAhead(s)' =>
                             Busy(s) /\ pc[s] = "dispatch" /\ SourceAhead(s)
  PROVE  PublishInv'
  BY DEF PublishInv, Published, AckedBy, ReliableAck

\* The sequences of responses stay as they are.
LEMMA SingleSame ==
  ASSUME PlaceInv, UNCHANGED <<writeChan, wire>>, \A s \in Sessions, n \in 1..MaxMessages : OnePlace(s, n)'
  PROVE  PlaceInv'
  BY DEF PlaceInv, Single, Answers

\* handleAcks takes the record a session holds, and the session no longer owes it.
LEMMA AckFromSessionDelivery ==
  ASSUME IInv, DInv, IInv', NEW s \in Sessions, AckFromSession(s)
  PROVE  DInv'
<1>0. OwnInv /\ HandedInv /\ ErrorInv /\ PublishInv /\ PlaceInv
  BY DEF DInv
<1>1. /\ ackPc = "recv" /\ pc[s] = "ackwait" /\ ackRec' = cur[s] /\ ackPc' = "lookup"
      /\ pc' = [pc EXCEPT ![s] = "dispatch"] /\ todo' = [todo EXCEPT ![s] = Tail(@)]
      /\ UNCHANGED <<inflight, reports, poller, accepted, writeChan, writing, wire, cur, nread>>
  BY DEF AckFromSession, producerVars, socketVars
<1>2. /\ cur[s] \in Records /\ cur[s].sess = s /\ todo[s] # << >> /\ todo[s] \in Seq(Dispatchers)
      /\ ReliableAck(cur[s].txType) /\ ReliableAckSources[cur[s].txType] = Head(todo[s])
  BY <1>1 DEF IInv, TypeOK, SessionTypeOK, SessionInv, AckedBy
<1>3. Busy(s) /\ cur[s].txType # NoTopic
  BY <1>1, <1>2, ReliableIsData DEF Busy
<1>4. /\ pc'[s] = "dispatch" /\ todo'[s] = Tail(todo[s])
      /\ \A t \in Sessions \ {s} : pc'[t] = pc[t] /\ todo'[t] = todo[t]
  BY <1>1 DEF IInv, TypeOK, SessionTypeOK
<1>5. \A t \in Sessions : (Busy(t)' <=> Busy(t)) /\ (OnEvent(t)' <=> OnEvent(t))
  BY <1>1, <1>4 DEF Busy, OnEvent
<1>6. /\ Head(todo[s]) \notin InSeq(todo'[s])
      /\ \A i, j \in 1..Len(todo'[s]) : todo'[s][i] = todo'[s][j] => i = j
  BY <1>0, <1>2, <1>3, <1>4, BehindHead DEF OwnInv
<1>7. OwnInv'
  <2> SUFFICES ASSUME NEW t \in Sessions
               PROVE  /\ pc'[t] \in {"reject", "guess"} => cur[t].body = "data"
                      /\ OnEvent(t)' => cur[t].seq = 0
                      /\ Busy(t)' => /\ nread[t] >= 1
                                     /\ cur[t].seq \in {0, nread[t]}
                                     /\ cur[t].txType # NoTopic => cur[t].seq = nread[t]
                                     /\ todo'[t] # << >> => cur[t].txType # NoTopic
                                     /\ \A i, j \in 1..Len(todo'[t]) : todo'[t][i] = todo'[t][j] => i = j
    BY <1>1 DEF OwnInv
  <2>1. CASE t = s
    BY <1>0, <1>3, <1>4, <1>5, <1>6, <2>1 DEF OwnInv
  <2>2. CASE t # s
    BY <1>0, <1>4, <1>5, <2>2 DEF OwnInv
  <2> QED
    BY <2>1, <2>2
<1>8. Handed' = Handed /\ AllResponses' = AllResponses
  BY <1>1 DEF Handed, AllResponses, ResponsesAt
<1>9. HandedInv' /\ ErrorInv'
  BY <1>0, <1>1, <1>4, <1>5, <1>8, HandedKept
<1>10. ~SourceAhead(s)' /\ \A t \in Sessions \ {s} : SourceAhead(t)' <=> SourceAhead(t)
  BY <1>1, <1>2, <1>4, <1>6 DEF SourceAhead, ReliableAck
<1>11. PublishInv'
  BY <1>0, <1>1, <1>4, <1>5, <1>10, PublishSame
<1>12. ASSUME NEW t \in Sessions, NEW n \in 1..MaxMessages
       PROVE  Moves(t, n, "session", s, "acks", s)
  <2>1. /\ ~Owes(s, n)'
        /\ cur[s].seq = n => Owes(s, n)
        /\ t # s => (Owes(t, n)' <=> Owes(t, n))
    BY <1>1, <1>2, <1>3, <1>4, <1>5, <1>10 DEF Owes, ReliableAck
  <2>2. \A b \in Sessions : Place("acks", b, t, n)' => b = s /\ t = s /\ cur[s].seq = n
    BY <1>1, <1>2, PlacesNext
  <2>3. \A b \in Sessions : Place("session", b, t, n)' => Place("session", b, t, n)
    BY <2>1, Places, PlacesNext
  <2>4. Place("acks", s, t, n)' => Place("session", s, t, n) /\ ~Place("session", s, t, n)'
    BY <2>1, <2>2, Places, PlacesNext
  <2> QED
    BY <1>1, <2>2, <2>3, <2>4, SamePlaces DEF Moves, Kinds
<1>13. PlaceInv'
  BY <1>0, <1>1, <1>12, MovesOne, SingleSame DEF PlaceInv, Kinds
<1> QED
  BY <1>7, <1>9, <1>11, <1>13 DEF DInv

\* handleAcks takes the record Kafka's goroutine holds.
LEMMA AckFromKafkaDelivery ==
  ASSUME IInv, DInv, IInv', AckFromKafka
  PROVE  DInv'
<1>0. OwnInv /\ HandedInv /\ ErrorInv /\ PublishInv /\ PlaceInv
  BY DEF DInv
<1>1. /\ ackPc = "recv" /\ poller # NoRecord /\ ackRec' = poller /\ poller' = NoRecord /\ ackPc' = "lookup"
      /\ UNCHANGED <<inflight, reports, accepted, writeChan, writing, wire, pc, cur, todo, nread>>
  BY DEF AckFromKafka, sessionVars, socketVars
<1>2. Handed' = Handed /\ AllResponses' = AllResponses
  BY <1>1 DEF Handed, AllResponses, ResponsesAt
<1>3. OwnInv' /\ HandedInv' /\ ErrorInv' /\ PublishInv'
  BY <1>0, <1>1, <1>2, SessionSame, HandedKept, PublishSame
<1>4. AckedBy(Kafka, poller.txType)
  BY <1>1 DEF IInv, KafkaInv
<1>5. ASSUME NEW t \in Sessions, NEW n \in 1..MaxMessages
      PROVE  Moves(t, n, "poller", t, "acks", t)
  <2>1. \A b \in Sessions : /\ ~Place("poller", b, t, n)'
                            /\ Place("acks", b, t, n)' => b = t /\ Place("poller", t, t, n)
    BY <1>1, <1>4, Places, PlacesNext DEF KafkaOwes
  <2> QED
    BY <1>1, <2>1, SamePlaces DEF Moves, Kinds
<1>6. PlaceInv'
  BY <1>0, <1>1, <1>5, MovesOne, SingleSame DEF PlaceInv, Kinds
<1> QED
  BY <1>3, <1>6 DEF DInv

\* Kafka's goroutine takes a delivery report.
LEMMA KafkaEventsDelivery ==
  ASSUME IInv, DInv, IInv', KafkaEvents
  PROVE  DInv'
<1>0. OwnInv /\ HandedInv /\ ErrorInv /\ PublishInv /\ PlaceInv
  BY DEF DInv
<1>1. PICK rp \in reports :
        /\ poller = NoRecord
        /\ reports' = reports \ {rp}
        /\ poller' = IF rp.ok /\ AckedBy(Kafka, rp.rec.txType) THEN rp.rec ELSE NoRecord
        /\ UNCHANGED <<inflight, accepted>>
  BY DEF KafkaEvents, HandleProducerEvent
<1>2. UNCHANGED <<writeChan, writing, wire, pc, cur, todo, nread, ackPc, ackRec>>
  BY DEF KafkaEvents, sessionVars, socketVars, ackVars
<1>3. Handed' = Handed /\ AllResponses' = AllResponses
  BY <1>1, <1>2 DEF Handed, AllResponses, ResponsesAt
<1>4. OwnInv' /\ HandedInv' /\ ErrorInv' /\ PublishInv'
  BY <1>0, <1>1, <1>2, <1>3, SessionSame, HandedKept, PublishSame
<1>5. \A a, b \in reports :
         a.ok /\ b.ok /\ AckedBy(Kafka, a.rec.txType) /\ AckedBy(Kafka, b.rec.txType)
         /\ a.rec.sess = b.rec.sess /\ a.rec.seq = b.rec.seq => a = b
  <2> SUFFICES ASSUME NEW a \in reports, NEW b \in reports, a.ok, b.ok,
                      AckedBy(Kafka, a.rec.txType), AckedBy(Kafka, b.rec.txType),
                      a.rec.sess = b.rec.sess, a.rec.seq = b.rec.seq
               PROVE  a = b
    OBVIOUS
  <2>1. a \in Reports /\ b \in Reports /\ a.rec \in Records /\ b.rec \in Records
    BY DEF IInv, TypeOK, ProducersTypeOK, Reports
  <2>2. a.rec \in Handed /\ b.rec \in Handed
    BY <2>1, ReliableIsData, HandedMember DEF IInv, TypeOK, KafkaInv, AckedBy
  <2>3. a.rec = b.rec
    BY <1>0, <2>2 DEF HandedInv
  <2>4. a.ok = TRUE /\ b.ok = TRUE
    BY <2>1 DEF Reports
  <2> QED
    BY <2>1, <2>3, <2>4 DEF Reports
<1>6. ASSUME NEW t \in Sessions, NEW n \in 1..MaxMessages
      PROVE  Moves(t, n, "report", t, "poller", t)
  <2>1. \A b \in Sessions : Place("report", b, t, n)' => Place("report", b, t, n)
    BY <1>1, Places, PlacesNext
  <2>2. ASSUME NEW b \in Sessions, Place("poller", b, t, n)'
        PROVE  b = t /\ Place("report", t, t, n) /\ ~Place("report", t, t, n)'
    <3>1. b = t /\ rp.ok /\ KafkaOwes(rp.rec, t, n)
      BY <1>1, <2>2, PlacesNext DEF KafkaOwes
    <3>2. Place("report", t, t, n)
      BY <3>1, Places
    <3>3. ~Place("report", t, t, n)'
      BY <1>1, <1>5, <3>1, PlacesNext DEF KafkaOwes
    <3> QED
      BY <3>1, <3>2, <3>3
  <2> QED
    BY <1>1, <1>2, <2>1, <2>2, SamePlaces DEF Moves, Kinds
<1>7. PlaceInv'
  BY <1>0, <1>2, <1>6, MovesOne, SingleSame DEF PlaceInv, Kinds
<1> QED
  BY <1>4, <1>7 DEF DInv

\* The broker stores a record, or gives it up.
LEMMA KafkaBrokerDelivery ==
  ASSUME IInv, DInv, IInv', KafkaBroker
  PROVE  DInv'
<1>0. OwnInv /\ HandedInv /\ ErrorInv /\ PublishInv /\ PlaceInv
  BY DEF DInv
<1>1. PICK r \in inflight, ok \in BOOLEAN :
        /\ inflight' = inflight \ {r}
        /\ reports' = reports \cup {[rec |-> r, ok |-> ok]}
        /\ accepted' = IF ok THEN accepted \cup {<<Kafka, r>>} ELSE accepted
        /\ UNCHANGED poller
  BY DEF KafkaBroker, BrokerResult
<1>2. UNCHANGED <<writeChan, writing, wire, pc, cur, todo, nread, ackPc, ackRec>>
  BY DEF KafkaBroker, sessionVars, socketVars, ackVars
<1>3. Handed' \subseteq Handed /\ AllResponses' = AllResponses
  BY <1>1, <1>2 DEF Handed, AllResponses, ResponsesAt
<1>4. OwnInv' /\ HandedInv' /\ ErrorInv'
  BY <1>0, <1>2, <1>3, SessionSame, HandedKept
<1>5. \A q : Published(q)' /\ ~Published(q) => (q = r /\ AckedBy(Kafka, r.txType)) \/ ~ReliableAck(q.txType)
  BY <1>1 DEF Published, AckedBy
<1>6. PublishInv'
  <2>1. ASSUME NEW t \in Sessions, Busy(t)', pc'[t] = "dispatch", SourceAhead(t)'
        PROVE  /\ ~Published(cur[t])'
               /\ AckedBy(Kafka, cur[t].txType) => cur[t] \notin inflight'
    <3>1. Busy(t) /\ pc[t] = "dispatch" /\ SourceAhead(t) /\ cur'[t] = cur[t]
      BY <1>2, <2>1, SessionSame
    <3> QED
      BY <1>0, <1>1, <1>2, <1>5, <3>1 DEF PublishInv, SourceAhead, Published
  <2>2. \A q \in inflight' : AckedBy(Kafka, q.txType) => ~Published(q)'
    BY <1>0, <1>1, <1>5 DEF PublishInv, AckedBy, Published
  <2> QED
    BY <1>2, <2>1, <2>2 DEF PublishInv, AckedBy, ReliableAck
<1>7. \A q \in inflight : AckedBy(Kafka, q.txType) /\ AckedBy(Kafka, r.txType)
                          /\ q.sess = r.sess /\ q.seq = r.seq => q = r
  BY <1>0, <1>1, HandedMember, ReliableIsData DEF IInv, TypeOK, ProducersTypeOK, HandedInv, AckedBy
<1>8. ASSUME NEW t \in Sessions, NEW n \in 1..MaxMessages
      PROVE  Moves(t, n, "queue", t, "report", t)
  <2>1. \A b \in Sessions : Place("queue", b, t, n)' => Place("queue", b, t, n)
    BY <1>1, Places, PlacesNext
  <2>2. ASSUME NEW b \in Sessions, Place("report", b, t, n)', ~Place("report", b, t, n)
        PROVE  b = t /\ Place("queue", t, t, n) /\ ~Place("queue", t, t, n)'
    <3>1. b = t /\ KafkaOwes(r, t, n)
      BY <1>1, <2>2, Places, PlacesNext
    <3>2. Place("queue", t, t, n)
      BY <3>1, Places
    <3>3. ~Place("queue", t, t, n)'
      BY <1>1, <1>7, <3>1, PlacesNext DEF KafkaOwes
    <3> QED
      BY <3>1, <3>2, <3>3
  <2> QED
    BY <1>1, <1>2, <2>1, <2>2, SamePlaces DEF Moves, Kinds
<1>9. PlaceInv'
  BY <1>0, <1>2, <1>8, MovesOne, SingleSame DEF PlaceInv, Kinds
<1> QED
  BY <1>4, <1>6, <1>9 DEF DInv

\* The writer takes a response from its channel.
LEMMA WriterTakeDelivery ==
  ASSUME IInv, DInv, IInv', NEW s \in Sessions, WriterTake(s), WriterStep(s)
  PROVE  DInv'
<1>0. OwnInv /\ HandedInv /\ ErrorInv /\ PublishInv /\ PlaceInv
  BY DEF DInv
<1> DEFINE c == writeChan[s]
<1>1. /\ c # << >> /\ writer[s] = "select"
      /\ writing' = [writing EXCEPT ![s] = Head(c)] /\ writeChan' = [writeChan EXCEPT ![s] = Tail(c)]
      /\ UNCHANGED wire
  BY DEF WriterTake
<1>2. UNCHANGED <<inflight, reports, poller, accepted, pc, cur, todo, nread, ackPc, ackRec>>
  BY DEF WriterStep, producerVars, sessionVars, ackVars
<1>3. /\ c \in Seq(Responses) /\ writing'[s] = Head(c) /\ writeChan'[s] = Tail(c)
      /\ \A t \in Sessions \ {s} : writing'[t] = writing[t] /\ writeChan'[t] = writeChan[t]
  BY <1>1 DEF IInv, TypeOK, SocketTypeOK
<1> HIDE DEF c
<1>4. Head(c) \in InSeq(c) /\ InSeq(Tail(c)) \subseteq InSeq(c)
  <2>1. /\ Len(c) \in Nat /\ Len(c) >= 1 /\ Head(c) = c[1]
        /\ \A i \in 1..Len(Tail(c)) : i + 1 \in 1..Len(c) /\ Tail(c)[i] = c[i + 1]
    BY <1>1, <1>3
  <2> QED
    BY <2>1 DEF InSeq
<1>5. Handed' = Handed
  BY <1>2 DEF Handed
<1>6. AllResponses' \subseteq AllResponses
  <2>1. \A t \in Sessions : ResponsesAt(t)' \subseteq ResponsesAt(t)
    BY <1>1, <1>3, <1>4 DEF ResponsesAt, c
  <2> QED
    BY <2>1 DEF AllResponses
<1>7. OwnInv' /\ HandedInv' /\ ErrorInv' /\ PublishInv'
  BY <1>0, <1>2, <1>5, <1>6, SessionSame, HandedKept, PublishSame
<1>8. ASSUME NEW t \in Sessions, NEW n \in 1..MaxMessages
      PROVE  OnePlace(t, n)' /\ \A p \in Sessions : Single(writeChan'[p], t, n) /\ Single(wire'[p], t, n)
  <2>1. /\ Answered(Head(c), t, n) <=> 1 \in Answers(c, t, n)
        /\ \A i \in Answers(Tail(c), t, n) : i \in Nat \ {0} /\ i + 1 \in Answers(c, t, n)
    BY <1>1, <1>3, AnswersTail
  <2>2. Single(c, t, n)
    BY <1>0 DEF PlaceInv, c
  <2>3. Single(Tail(c), t, n)
    BY <2>1, <2>2 DEF Single
  <2>4. Answered(Head(c), t, n) => Answers(Tail(c), t, n) = {} /\ Answers(c, t, n) # {}
    BY <2>1, <2>2 DEF Single
  <2>5. \A b \in Sessions : Place("chan", b, t, n)' => Place("chan", b, t, n)
    <3>1. Answers(writeChan'[s], t, n) # {} => Answers(writeChan[s], t, n) # {}
      BY <1>3, <2>1 DEF c
    <3>2. \A b \in Sessions \ {s} : Answers(writeChan'[b], t, n) = Answers(writeChan[b], t, n)
      BY <1>3
    <3> QED
      BY <3>1, <3>2, Places, PlacesNext
  <2>6. \A b \in Sessions : b # s => (Place("writer", b, t, n)' => Place("writer", b, t, n))
    BY <1>3, Places, PlacesNext
  <2>7. Place("writer", s, t, n)' => Place("chan", s, t, n) /\ ~Place("chan", s, t, n)'
    <3>1. Place("writer", s, t, n)' => Answered(Head(c), t, n)
      BY <1>3, PlacesNext
    <3>2. Answers(Tail(c), t, n) = {} => ~Place("chan", s, t, n)'
      <4>1. Answers(writeChan'[s], t, n) = Answers(Tail(c), t, n)
        BY <1>3
      <4> QED
        BY <4>1, PlacesNext
    <3>3. Answers(c, t, n) # {} => Place("chan", s, t, n)
      BY Places DEF c
    <3> QED
      BY <2>4, <3>1, <3>2, <3>3
  <2>8. Moves(t, n, "chan", s, "writer", s)
    BY <1>1, <1>2, <2>5, <2>6, <2>7, SamePlaces DEF Moves, Kinds
  <2>9. OnePlace(t, n)'
    BY <1>0, <2>8, MovesOne DEF PlaceInv, Kinds
  <2> QED
    BY <1>0, <1>1, <1>3, <2>3, <2>9 DEF PlaceInv
<1>9. PlaceInv'
  BY <1>8 DEF PlaceInv, Single, Answers
<1> QED
  BY <1>7, <1>9 DEF DInv

\* The writer writes its response, or what it writes is lost.
LEMMA WriteMessageDelivery ==
  ASSUME IInv, DInv, IInv', NEW s \in Sessions, WriteMessage(s), WriterStep(s)
  PROVE  DInv'
<1>0. OwnInv /\ HandedInv /\ ErrorInv /\ PublishInv /\ PlaceInv
  BY DEF DInv
<1> DEFINE x == writing[s]
<1>1. /\ writer[s] = "writing" /\ UNCHANGED writeChan
      /\ writing' = [writing EXCEPT ![s] = NoResponse]
      /\ wire' = IF conn[s] = "open" THEN [wire EXCEPT ![s] = Append(@, x)] ELSE wire
  BY DEF WriteMessage
<1>2. UNCHANGED <<inflight, reports, poller, accepted, pc, cur, todo, nread, ackPc, ackRec>>
  BY DEF WriterStep, producerVars, sessionVars, ackVars
<1>3. x \in Responses /\ x # NoResponse
  BY <1>1, NoResponseAssumption DEF IInv, WriterInv
<1>4. /\ wire[s] \in Seq(Responses) /\ wire'[s] \in {wire[s], Append(wire[s], x)} /\ writing'[s] = NoResponse
      /\ \A t \in Sessions \ {s} : writing'[t] = writing[t] /\ wire'[t] = wire[t]
  BY <1>1 DEF IInv, TypeOK, SocketTypeOK
<1> HIDE DEF x
<1>5. Handed' = Handed
  BY <1>2 DEF Handed
<1>6. AllResponses' \subseteq AllResponses
  <2>1. InSeq(Append(wire[s], x)) \subseteq InSeq(wire[s]) \cup {x}
    BY <1>3, <1>4 DEF InSeq
  <2>2. \A t \in Sessions : ResponsesAt(t)' \subseteq ResponsesAt(t)
    BY <1>1, <1>3, <1>4, <2>1 DEF ResponsesAt, x
  <2> QED
    BY <2>2 DEF AllResponses
<1>7. OwnInv' /\ HandedInv' /\ ErrorInv' /\ PublishInv'
  BY <1>0, <1>2, <1>5, <1>6, SessionSame, HandedKept, PublishSame
<1>8. ASSUME NEW t \in Sessions, NEW n \in 1..MaxMessages
      PROVE  OnePlace(t, n)' /\ \A p \in Sessions : Single(writeChan'[p], t, n) /\ Single(wire'[p], t, n)
  <2>1. \/ wire'[s] = wire[s]
        \/ Answers(wire'[s], t, n) = Answers(wire[s], t, n)
                                     \cup (IF Answered(x, t, n) THEN {Len(wire[s]) + 1} ELSE {})
    <3>1. CASE wire'[s] = wire[s]
      BY <3>1
    <3>2. CASE wire'[s] = Append(wire[s], x)
      BY <1>3, <1>4, <3>2, AnswersAppend
    <3> QED
      BY <1>4, <3>1, <3>2
  <2>2. Single(wire[s], t, n)
    BY <1>0 DEF PlaceInv
  <2>3. Answered(x, t, n) => Place("writer", s, t, n)
    BY <1>3, Places DEF x
  <2>4. Answered(x, t, n) => ~Place("wire", s, t, n)
    BY <1>0, <2>3 DEF PlaceInv, OnePlace, Kinds
  <2>5. Answered(x, t, n) => Answers(wire[s], t, n) = {}
    BY <2>4, Places
  <2>6. Single(wire'[s], t, n)
    BY <2>1, <2>2, <2>5 DEF Single
  <2>7. \A b \in Sessions : Place("writer", b, t, n)' => Place("writer", b, t, n)
    BY <1>4, Places, PlacesNext
  <2>8. ~Place("writer", s, t, n)'
    BY <1>4, PlacesNext
  <2>9. \A b \in Sessions : b # s => (Place("wire", b, t, n)' => Place("wire", b, t, n))
    BY <1>4, Places, PlacesNext
  <2>10. Place("wire", s, t, n)' => Place("wire", s, t, n) \/ Answered(x, t, n)
    BY <2>1, Places, PlacesNext
  <2>11. Moves(t, n, "writer", s, "wire", s)
    BY <1>1, <1>2, <2>3, <2>7, <2>8, <2>9, <2>10, SamePlaces DEF Moves, Kinds
  <2>12. OnePlace(t, n)'
    BY <1>0, <2>11, MovesOne DEF PlaceInv, Kinds
  <2> QED
    BY <1>0, <1>1, <1>4, <2>6, <2>12 DEF PlaceInv
<1>9. PlaceInv'
  BY <1>8 DEF PlaceInv, Single, Answers
<1> QED
  BY <1>7, <1>9 DEF DInv

\* A response is queued for session p: it is one more in its channel.
LEMMA QueuedOnce ==
  ASSUME IInv, NEW p \in Sessions, NEW r \in Records, NEW kind \in {"ack", "error"},
         RespondToVehicle(p, r, kind)
  PROVE  /\ AllResponses' \subseteq AllResponses \cup {ResponseOf(r, kind)}
         /\ \A t, n : /\ Answers(writeChan'[p], t, n) = Answers(writeChan[p], t, n) \cup
                           (IF Answered(ResponseOf(r, kind), t, n) THEN {Len(writeChan[p]) + 1} ELSE {})
                      /\ Answered(ResponseOf(r, kind), t, n) <=> r.sess = t /\ r.seq = n /\ r.txType # NoTopic
         /\ \A b \in Sessions \ {p} : writeChan'[b] = writeChan[b]
         /\ UNCHANGED <<writing, wire>>
<1> DEFINE x == ResponseOf(r, kind)
<1>1. x \in Responses /\ \A t, n : Answered(x, t, n) <=> r.sess = t /\ r.seq = n /\ r.txType # NoTopic
  BY ResponseOfType DEF Answered, ResponseOf
<1>2. writeChan' = [writeChan EXCEPT ![p] = Append(@, x)] /\ UNCHANGED <<writing, wire>>
  BY DEF RespondToVehicle
<1> HIDE DEF x
<1>3. /\ writeChan[p] \in Seq(Responses) /\ writeChan'[p] = Append(writeChan[p], x)
      /\ \A b \in Sessions \ {p} : writeChan'[b] = writeChan[b]
  BY <1>2 DEF IInv, TypeOK, SocketTypeOK
<1>4. \A t, n : Answers(writeChan'[p], t, n) = Answers(writeChan[p], t, n) \cup
                           (IF Answered(x, t, n) THEN {Len(writeChan[p]) + 1} ELSE {})
  BY <1>1, <1>3, AnswersAppend
<1>5. AllResponses' \subseteq AllResponses \cup {x}
  <2>1. InSeq(Append(writeChan[p], x)) \subseteq InSeq(writeChan[p]) \cup {x}
    BY <1>1, <1>3 DEF InSeq
  <2>2. \A t \in Sessions : ResponsesAt(t)' \subseteq ResponsesAt(t) \cup {x}
    BY <1>2, <1>3, <2>1 DEF ResponsesAt
  <2> QED
    BY <2>2 DEF AllResponses
<1> QED
  BY <1>1, <1>2, <1>3, <1>4, <1>5 DEF x

\* handleAcks queues the ack of the record it holds.
LEMMA AckRespondDelivery ==
  ASSUME IInv, DInv, IInv', AckRespond
  PROVE  DInv'
<1>0. OwnInv /\ HandedInv /\ ErrorInv /\ PublishInv /\ PlaceInv
  BY DEF DInv
<1>1. PICK p \in Sessions :
        /\ ackPc = "send" /\ RespondToVehicle(p, ackRec, "ack") /\ ackPc' = "recv"
        /\ UNCHANGED <<inflight, reports, poller, accepted, pc, cur, todo, nread>>
  BY DEF AckRespond, producerVars, sessionVars, IInv, AckInv
<1>2. ackRec \in Records /\ ReliableAck(ackRec.txType) /\ Published(ackRec)
  BY <1>1 DEF IInv, AckInv
<1> DEFINE x == ResponseOf(ackRec, "ack")
<1> HIDE DEF x
<1>3. /\ AllResponses' \subseteq AllResponses \cup {x}
      /\ \A t, n : /\ Answers(writeChan'[p], t, n) = Answers(writeChan[p], t, n) \cup
                           (IF Answered(x, t, n) THEN {Len(writeChan[p]) + 1} ELSE {})
                   /\ Answered(x, t, n) => ackRec.sess = t /\ ackRec.seq = n
      /\ \A b \in Sessions \ {p} : writeChan'[b] = writeChan[b]
      /\ UNCHANGED <<writing, wire>>
  BY <1>1, <1>2, QueuedOnce DEF x
<1>4. Handed' = Handed
  BY <1>1 DEF Handed
<1>5. ackRec \in Handed
  BY <1>2, HandedMember, ReliableIsData DEF IInv, TypeOK, Published
<1>6. x.kind = "ack" /\ x.seq <= nread[x.sess]
  BY <1>0, <1>5 DEF HandedInv, x, ResponseOf
<1>7. OwnInv' /\ PublishInv'
  BY <1>0, <1>1, SessionSame, PublishSame
<1>8. HandedInv' /\ ErrorInv'
  <2>1. \A t : Busy(t)' <=> Busy(t)
    BY <1>1, SessionSame
  <2> QED
    BY <1>0, <1>1, <1>3, <1>4, <1>6, <2>1 DEF HandedInv, ErrorInv
<1>9. ASSUME NEW t \in Sessions, NEW n \in 1..MaxMessages
      PROVE  OnePlace(t, n)' /\ \A b \in Sessions : Single(writeChan'[b], t, n) /\ Single(wire'[b], t, n)
  <2>1. Answered(x, t, n) => Place("acks", t, t, n)
    BY <1>1, <1>3, Places
  <2>2. Answered(x, t, n) => ~Place("chan", p, t, n)
    BY <1>0, <1>2, <2>1 DEF PlaceInv, OnePlace, Kinds
  <2>3. Single(writeChan'[p], t, n)
    <3>1. Answered(x, t, n) => Answers(writeChan[p], t, n) = {}
      BY <2>2, Places
    <3>2. Single(writeChan[p], t, n)
      BY <1>0, <1>2 DEF PlaceInv
    <3> QED
      BY <1>3, <3>1, <3>2 DEF Single
  <2>4. \A b \in Sessions : ~Place("acks", b, t, n)'
    BY <1>1, PlacesNext
  <2>5. \A b \in Sessions : b # p => (Place("chan", b, t, n)' => Place("chan", b, t, n))
    BY <1>3, Places, PlacesNext
  <2>6. Place("chan", p, t, n)' => Place("chan", p, t, n) \/ Answered(x, t, n)
    <3>1. ~Answered(x, t, n) => Answers(writeChan'[p], t, n) = Answers(writeChan[p], t, n)
      BY <1>3
    <3> QED
      BY <3>1, Places, PlacesNext
  <2>7. Moves(t, n, "acks", t, "chan", p)
    BY <1>1, <1>3, <2>1, <2>4, <2>5, <2>6, SamePlaces DEF Moves, Kinds
  <2>8. OnePlace(t, n)'
    BY <1>0, <1>2, <2>7, MovesOne DEF PlaceInv, Kinds
  <2> QED
    BY <1>0, <1>3, <2>3, <2>8 DEF PlaceInv
<1>10. PlaceInv'
  BY <1>9 DEF PlaceInv, Single, Answers
<1> QED
  BY <1>7, <1>8, <1>10 DEF DInv

\* What a session works on is a record of its own.
LEMMA OwnRecord ==
  ASSUME IInv, NEW s \in Sessions
  PROVE  /\ nread[s] \in Nat /\ todo[s] \in Seq(Dispatchers)
         /\ pc[s] \in {"dispatch", "ackwait", "reject", "guess", "respond"} =>
               cur[s] \in Records /\ cur[s].sess = s /\ cur[s].seq \in Nat
         /\ pc[s] = "guess" => cur[s].txType = NoTopic
<1>1. nread[s] \in Nat /\ todo[s] \in Seq(Dispatchers)
  BY LimitAssumption DEF IInv, TypeOK, SessionTypeOK
<1>2. \A r \in Records : r.seq \in Nat
  BY DEF Records
<1> QED
  BY <1>1, <1>2 DEF IInv, SessionInv

\* A session queues its own answer, and no longer owes one.
LEMMA RespondDelivery ==
  ASSUME IInv, DInv, IInv', NEW s \in Sessions, Respond(s)
  PROVE  DInv'
<1>0. OwnInv /\ HandedInv /\ ErrorInv /\ PublishInv /\ PlaceInv
  BY DEF DInv
<1>1. PICK kind \in {"ack", "error"} :
        /\ pc[s] \in {"reject", "guess", "respond"} /\ kind = "error" => pc[s] = "reject"
        /\ RespondToVehicle(s, cur[s], kind)
        /\ pc' = [pc EXCEPT ![s] = IF pc[s] = "guess" THEN "dispatch" ELSE "read"]
        /\ UNCHANGED <<inflight, reports, poller, accepted, cur, todo, nread, ackPc, ackRec>>
  BY DEF Respond, producerVars, ackVars
<1>2. /\ pc[s] \in {"reject", "guess", "respond"} /\ cur[s] \in Records /\ cur[s].sess = s
      /\ pc[s] = "guess" => cur[s].txType = NoTopic
      /\ nread[s] \in Nat /\ cur[s].seq \in Nat
  BY OwnRecord DEF Respond
<1>3. /\ pc'[s] = IF pc[s] = "guess" THEN "dispatch" ELSE "read"
      /\ \A t \in Sessions \ {s} : pc'[t] = pc[t]
  BY <1>1 DEF IInv, TypeOK, SessionTypeOK
<1> DEFINE x == ResponseOf(cur[s], kind)
<1>4. x.sess = s /\ x.seq = cur[s].seq /\ x.txType = cur[s].txType /\ x.kind = kind
  BY <1>2 DEF ResponseOf
<1> HIDE DEF x
<1>5. /\ AllResponses' \subseteq AllResponses \cup {x}
      /\ \A t, n : /\ Answers(writeChan'[s], t, n) = Answers(writeChan[s], t, n) \cup
                           (IF Answered(x, t, n) THEN {Len(writeChan[s]) + 1} ELSE {})
                   /\ Answered(x, t, n) => t = s /\ cur[s].seq = n /\ cur[s].txType # NoTopic
      /\ \A b \in Sessions \ {s} : writeChan'[b] = writeChan[b]
      /\ UNCHANGED <<writing, wire>>
  <2>1. \A t, n : Answered(x, t, n) => t = s /\ cur[s].seq = n /\ cur[s].txType # NoTopic
    BY <1>4 DEF Answered
  <2>2. /\ AllResponses' \subseteq AllResponses \cup {x}
        /\ \A t, n : Answers(writeChan'[s], t, n) = Answers(writeChan[s], t, n) \cup
                           (IF Answered(x, t, n) THEN {Len(writeChan[s]) + 1} ELSE {})
        /\ \A b \in Sessions \ {s} : writeChan'[b] = writeChan[b]
        /\ UNCHANGED <<writing, wire>>
    <3>1. PICK r \in Records : r = cur[s]
      BY <1>2
    <3>2. RespondToVehicle(s, r, kind)
      BY <1>1, <3>1
    <3>3. x = ResponseOf(r, kind)
      BY <3>1 DEF x
    <3> HIDE DEF x
    <3> QED
      BY <3>2, <3>3, QueuedOnce
  <2> QED
    BY <2>1, <2>2
<1>6. /\ \A t \in Sessions : (Busy(t)' => Busy(t)) /\ (OnEvent(t)' => OnEvent(t))
      /\ \A t \in Sessions : pc'[t] \in {"reject", "guess"} => pc'[t] = pc[t]
  BY <1>1, <1>2, <1>3 DEF Busy, OnEvent
<1>7. OwnInv'
  BY <1>0, <1>1, <1>6 DEF OwnInv
<1>8. Handed' = Handed /\ \A q \in Handed : q.sess \in Sessions /\ q.seq \in Nat
  BY <1>1, HandedMember DEF Handed, IInv, TypeOK, Records
<1>9. HandedInv'
  BY <1>0, <1>1, <1>6, <1>8 DEF HandedInv
<1>10. /\ x.seq <= nread[s]
       /\ kind = "error" => \A q \in Handed : q.sess = s => q.seq # x.seq
  <2>1. CASE Busy(s)
    BY <1>0, <1>1, <1>2, <1>4, <1>8, <2>1 DEF OwnInv, HandedInv
  <2>2. CASE ~Busy(s)
    BY <1>0, <1>1, <1>2, <1>4, <1>8, <2>2 DEF OwnInv, HandedInv, Busy, OnEvent
  <2> QED
    BY <2>1, <2>2
<1>11. ErrorInv'
  <2> SUFFICES ASSUME NEW y \in AllResponses \cup {x}
               PROVE  /\ y.seq <= nread[y.sess]
                      /\ y.kind = "error" => /\ Busy(y.sess)' => y.seq < nread[y.sess]
                                             /\ \A q \in Handed : q.sess = y.sess => q.seq # y.seq
    BY <1>1, <1>5, <1>8 DEF ErrorInv
  <2>1. CASE y \in AllResponses
    <3>1. y.sess \in Sessions
      BY <2>1, ResponseMember DEF IInv, TypeOK, Responses
    <3> QED
      BY <1>0, <1>6, <2>1, <3>1 DEF ErrorInv
  <2>2. CASE y = x
    <3>1. kind = "error" => ~Busy(s)'
      BY <1>1, <1>3 DEF Busy
    <3> QED
      BY <1>4, <1>10, <2>2, <3>1
  <2> QED
    BY <2>1, <2>2
<1>12. PublishInv'
  <2>1. ASSUME NEW t \in Sessions, Busy(t)', pc'[t] = "dispatch", SourceAhead(t)'
        PROVE  Busy(t) /\ pc[t] = "dispatch" /\ SourceAhead(t)
    <3>1. SourceAhead(t) /\ ReliableAck(cur[t].txType)
      BY <1>1, <2>1 DEF SourceAhead, ReliableAck
    <3>2. t # s
      BY <1>2, <1>3, <2>1, <3>1, ReliableTopics
    <3> QED
      BY <1>3, <1>6, <2>1, <3>1, <3>2
  <2> QED
    BY <1>0, <1>1, <2>1, PublishSame
<1>13. ASSUME NEW t \in Sessions, NEW n \in 1..MaxMessages
       PROVE  OnePlace(t, n)' /\ \A b \in Sessions : Single(writeChan'[b], t, n) /\ Single(wire'[b], t, n)
  <2>1. ~Owes(s, n)'
    BY <1>1, <1>2, <1>3 DEF Owes, Busy
  <2>2. t # s => (Owes(t, n)' => Owes(t, n))
    BY <1>1, <1>3 DEF Owes, Busy, SourceAhead, ReliableAck
  <2>3. Answered(x, t, n) => Place("session", s, t, n)
    <3> SUFFICES ASSUME Answered(x, t, n) PROVE Owes(s, n) /\ t = s
      BY Places
    <3>1. t = s /\ cur[s].seq = n /\ cur[s].txType # NoTopic /\ n # 0
      BY <1>5
    <3>2. Busy(s)
      BY <1>0, <1>2, <3>1 DEF OwnInv, Busy, OnEvent
    <3> QED
      BY <1>2, <3>1, <3>2 DEF Owes
  <2>4. Answered(x, t, n) => ~Place("chan", s, t, n)
    BY <1>0, <2>3 DEF PlaceInv, OnePlace, Kinds
  <2>5. Single(writeChan'[s], t, n)
    <3>1. Answered(x, t, n) => Answers(writeChan[s], t, n) = {}
      BY <2>4, Places
    <3>2. Single(writeChan[s], t, n)
      BY <1>0 DEF PlaceInv
    <3> QED
      BY <1>5, <3>1, <3>2 DEF Single
  <2>6. \A b \in Sessions : Place("session", b, t, n)' => Place("session", b, t, n)
    BY <2>1, <2>2, Places, PlacesNext
  <2>7. ~Place("session", s, t, n)'
    BY <2>1, PlacesNext
  <2>8. \A b \in Sessions : b # s => (Place("chan", b, t, n)' => Place("chan", b, t, n))
    BY <1>5, Places, PlacesNext
  <2>9. Place("chan", s, t, n)' => Place("chan", s, t, n) \/ Answered(x, t, n)
    <3>1. ~Answered(x, t, n) => Answers(writeChan'[s], t, n) = Answers(writeChan[s], t, n)
      BY <1>5
    <3> QED
      BY <3>1, Places, PlacesNext
  <2>10. Moves(t, n, "session", s, "chan", s)
    BY <1>1, <1>5, <2>3, <2>6, <2>7, <2>8, <2>9, SamePlaces DEF Moves, Kinds
  <2>11. OnePlace(t, n)'
    BY <1>0, <2>10, MovesOne DEF PlaceInv, Kinds
  <2> QED
    BY <1>0, <1>5, <2>5, <2>11 DEF PlaceInv
<1>14. PlaceInv'
  BY <1>13 DEF PlaceInv, Single, Answers
<1> QED
  BY <1>7, <1>9, <1>11, <1>12, <1>14 DEF DInv

\* The session hands its record on: it is of the last message read, and no
\* other record of that message is or will be handed on.
LEMMA HandedOn ==
  ASSUME IInv, OwnInv, HandedInv, ErrorInv, NEW s \in Sessions, pc[s] = "dispatch", todo[s] # << >>,
         \A r \in Handed' : r \in Handed \/ (r = cur[s] /\ r.body = "data"),
         AllResponses' = AllResponses, UNCHANGED <<cur, nread>>,
         pc'[s] \in {"dispatch", "ackwait"}, \A t \in Sessions \ {s} : pc'[t] = pc[t]
  PROVE  HandedInv' /\ ErrorInv'
<1>1. \A q \in Handed : q.sess \in Sessions /\ q.seq \in Nat
  BY HandedMember DEF IInv, TypeOK, Records
<1>2. \A x \in AllResponses : x.sess \in Sessions /\ x.seq \in Nat
  BY ResponseMember DEF IInv, TypeOK, Responses
<1>3. \A t \in Sessions : Busy(t)' <=> Busy(t)
  BY DEF Busy
<1>4. cur[s].sess = s /\ nread[s] \in Nat
  BY OwnRecord
<1>5. cur[s].body = "data" =>
        Busy(s) /\ cur[s].txType # NoTopic /\ cur[s].seq = nread[s] /\ nread[s] >= 1
  BY DEF Busy, OwnInv
<1>6. \A q \in Handed : cur[s].body = "data" /\ q.sess = s /\ q.seq = cur[s].seq => q = cur[s]
  BY <1>5 DEF HandedInv
<1>7. HandedInv'
  <2>1. ASSUME NEW r \in Handed'
        PROVE  /\ r.txType # NoTopic /\ r.seq >= 1 /\ r.seq <= nread'[r.sess]
               /\ Busy(r.sess)' /\ r.seq = nread'[r.sess] => r = cur'[r.sess] /\ pc'[r.sess] # "reject"
    <3>1. CASE r \in Handed
      BY <1>1, <1>3, <3>1 DEF HandedInv
    <3>2. CASE r = cur[s] /\ r.body = "data"
      BY <1>4, <1>5, <3>2
    <3> QED
      BY <3>1, <3>2
  <2>2. ASSUME NEW r \in Handed', NEW q \in Handed', r.sess = q.sess, r.seq = q.seq
        PROVE  r = q
    BY <1>4, <1>6, <2>2 DEF HandedInv
  <2> QED
    BY <2>1, <2>2 DEF HandedInv
<1>8. ErrorInv'
  <2> SUFFICES ASSUME NEW x \in AllResponses
               PROVE  /\ x.seq <= nread[x.sess]
                      /\ x.kind = "error" => /\ Busy(x.sess)' => x.seq < nread[x.sess]
                                             /\ \A r \in Handed' : r.sess = x.sess => r.seq # x.seq
    BY DEF ErrorInv
  <2>1. x.seq <= nread[x.sess] /\ (x.kind = "error" => (Busy(x.sess)' => x.seq < nread[x.sess]))
    BY <1>2, <1>3 DEF ErrorInv
  <2>2. ASSUME x.kind = "error", NEW r \in Handed', r.sess = x.sess
        PROVE  r.seq # x.seq
    <3>1. CASE r \in Handed
      BY <2>2, <3>1 DEF ErrorInv
    <3>2. CASE r = cur[s] /\ r.body = "data"
      BY <1>2, <1>4, <1>5, <2>2, <3>2 DEF ErrorInv
    <3> QED
      BY <2>2, <3>1, <3>2
  <2> QED
    BY <2>1, <2>2
<1> QED
  BY <1>7, <1>8

\* A dispatcher published the record of a session: either it acks it and the
\* session holds it, or it is done with.
LEMMA ProduceSyncDelivery ==
  ASSUME IInv, DInv, IInv', NEW s \in Sessions, ProduceSync(s)
  PROVE  DInv'
<1>0. OwnInv /\ HandedInv /\ ErrorInv /\ PublishInv /\ PlaceInv
  BY DEF DInv
<1> DEFINE d == Head(todo[s])
<1>1. /\ pc[s] = "dispatch" /\ todo[s] # << >> /\ d # Kafka
      /\ accepted' = accepted \cup {<<d, cur[s]>>}
      /\ UNCHANGED <<inflight, reports, poller, writeChan, writing, wire, cur, nread, ackPc, ackRec>>
      /\ \/ AckedBy(d, cur[s].txType) /\ pc' = [pc EXCEPT ![s] = "ackwait"] /\ UNCHANGED todo
         \/ ~AckedBy(d, cur[s].txType) /\ todo' = [todo EXCEPT ![s] = Tail(@)] /\ UNCHANGED pc
  BY DEF ProduceSync, SyncProduced, socketVars, ackVars
<1>2. cur[s] \in Records /\ cur[s].sess = s /\ todo[s] \in Seq(Dispatchers) /\ nread[s] \in Nat
  BY <1>1, OwnRecord
<1> HIDE DEF d
<1>3. /\ \/ AckedBy(d, cur[s].txType) /\ pc'[s] = "ackwait" /\ todo'[s] = todo[s]
         \/ ~AckedBy(d, cur[s].txType) /\ pc'[s] = "dispatch" /\ todo'[s] = Tail(todo[s])
      /\ \A t \in Sessions \ {s} : pc'[t] = pc[t] /\ todo'[t] = todo[t]
  BY <1>1 DEF IInv, TypeOK, SessionTypeOK
<1>4. \A t \in Sessions : (Busy(t)' <=> Busy(t)) /\ (OnEvent(t)' <=> OnEvent(t))
  BY <1>1, <1>3 DEF Busy, OnEvent
<1>5. Busy(s) => /\ d \in InSeq(todo[s]) /\ InSeq(todo'[s]) \subseteq InSeq(todo[s])
                 /\ \A i, j \in 1..Len(todo'[s]) : todo'[s][i] = todo'[s][j] => i = j
  <2> SUFFICES ASSUME Busy(s)
               PROVE  /\ d \in InSeq(todo[s]) /\ InSeq(todo'[s]) \subseteq InSeq(todo[s])
                      /\ \A i, j \in 1..Len(todo'[s]) : todo'[s][i] = todo'[s][j] => i = j
    OBVIOUS
  <2>1. \A i, j \in 1..Len(todo[s]) : todo[s][i] = todo[s][j] => i = j
    BY <1>0 DEF OwnInv
  <2>2. /\ d \in InSeq(todo[s]) /\ InSeq(Tail(todo[s])) \subseteq InSeq(todo[s])
        /\ \A i, j \in 1..Len(Tail(todo[s])) : Tail(todo[s])[i] = Tail(todo[s])[j] => i = j
    BY <1>1, <1>2, <2>1, BehindHead DEF d
  <2> QED
    BY <1>3, <2>1, <2>2
<1>6. OwnInv'
  <2> SUFFICES ASSUME NEW t \in Sessions
               PROVE  /\ pc'[t] \in {"reject", "guess"} => cur[t].body = "data"
                      /\ OnEvent(t)' => cur[t].seq = 0
                      /\ Busy(t)' => /\ nread[t] >= 1
                                     /\ cur[t].seq \in {0, nread[t]}
                                     /\ cur[t].txType # NoTopic => cur[t].seq = nread[t]
                                     /\ todo'[t] # << >> => cur[t].txType # NoTopic
                                     /\ \A i, j \in 1..Len(todo'[t]) : todo'[t][i] = todo'[t][j] => i = j
    BY <1>1 DEF OwnInv
  <2>1. CASE t = s
    BY <1>0, <1>1, <1>3, <1>4, <1>5, <2>1 DEF OwnInv
  <2>2. CASE t # s
    BY <1>0, <1>3, <1>4, <2>2 DEF OwnInv
  <2> QED
    BY <2>1, <2>2
<1>7. /\ \A r \in Handed' : r \in Handed \/ (r = cur[s] /\ r.body = "data")
      /\ AllResponses' = AllResponses
  BY <1>1 DEF Handed, AllResponses, ResponsesAt
<1>8. HandedInv' /\ ErrorInv'
  BY <1>0, <1>1, <1>3, <1>7, HandedOn
<1>9. ASSUME NEW t \in Sessions, Busy(t)', SourceAhead(t)' PROVE SourceAhead(t)
  BY <1>1, <1>3, <1>4, <1>5, <1>9 DEF SourceAhead, ReliableAck
<1>10. PublishInv'
  <2>1. ASSUME NEW t \in Sessions, Busy(t)', pc'[t] = "dispatch", SourceAhead(t)'
        PROVE  /\ ~Published(cur[t])'
               /\ AckedBy(Kafka, cur[t].txType) => cur[t] \notin inflight'
    <3>1. Busy(t) /\ pc[t] = "dispatch" /\ SourceAhead(t)
      BY <1>1, <1>3, <1>4, <1>9, <2>1
    <3>2. ~Published(cur[t]) /\ (AckedBy(Kafka, cur[t].txType) => cur[t] \notin inflight)
      BY <1>0, <3>1 DEF PublishInv
    <3>3. <<ReliableAckSources[cur[t].txType], cur[t]>> # <<d, cur[s]>>
      <4>1. CASE t = s
        BY <1>3, <2>1, <3>1, <4>1 DEF AckedBy, SourceAhead
      <4>2. CASE t # s
        BY <1>2, <3>1, <4>2, OwnRecord
      <4> QED
        BY <4>1, <4>2
    <3> QED
      BY <1>1, <3>2, <3>3 DEF Published
  <2>2. \A r \in inflight : AckedBy(Kafka, r.txType) => ~Published(r)'
    BY <1>0, <1>1 DEF PublishInv, AckedBy, Published
  <2> QED
    BY <1>1, <2>1, <2>2 DEF PublishInv, AckedBy, ReliableAck
<1>11. ASSUME NEW t \in Sessions, NEW n \in 1..MaxMessages
       PROVE  Moves(t, n, "session", s, "session", s)
  <2>1. Owes(t, n)' => Owes(t, n)
    <3> SUFFICES ASSUME Owes(t, n)' PROVE Owes(t, n)
      OBVIOUS
    <3>1. Busy(t) /\ Busy(t)' /\ cur[t].seq = n /\ cur[t].txType # NoTopic
      BY <1>1, <1>4 DEF Owes
    <3>2. ASSUME pc[t] = "dispatch", ReliableAck(cur[t].txType) PROVE SourceAhead(t)
      <4>1. CASE pc'[t] = "dispatch"
        <5>1. SourceAhead(t)'
          BY <1>1, <3>2, <4>1 DEF Owes, ReliableAck
        <5> QED
          BY <1>9, <3>1, <5>1
      <4>2. CASE pc'[t] # "dispatch"
        BY <1>3, <1>5, <3>1, <3>2, <4>2 DEF SourceAhead, AckedBy
      <4> QED
        BY <4>1, <4>2
    <3> QED
      BY <3>1, <3>2 DEF Owes
  <2>2. \A b \in Sessions : Place("session", b, t, n)' => Place("session", b, t, n)
    BY <2>1, Places, PlacesNext
  <2> QED
    BY <1>1, <2>2, SamePlaces DEF Moves, Kinds
<1>12. PlaceInv'
  BY <1>0, <1>1, <1>11, MovesOne, SingleSame DEF PlaceInv, Kinds
<1> QED
  BY <1>6, <1>8, <1>10, <1>12 DEF DInv

\* A session queues its record for Kafka: if Kafka acks it, the session no
\* longer owes an answer.
LEMMA ProduceKafkaDelivery ==
  ASSUME IInv, DInv, IInv', NEW s \in Sessions, ProduceKafka(s)
  PROVE  DInv'
<1>0. OwnInv /\ HandedInv /\ ErrorInv /\ PublishInv /\ PlaceInv
  BY DEF DInv
<1>1. /\ pc[s] = "dispatch" /\ todo[s] # << >> /\ Head(todo[s]) = Kafka
      /\ inflight' = inflight \cup {cur[s]} \/ UNCHANGED inflight
      /\ todo' = [todo EXCEPT ![s] = Tail(@)]
      /\ UNCHANGED <<reports, poller, accepted, writeChan, writing, wire, pc, cur, nread, ackPc, ackRec>>
  BY DEF ProduceKafka, KafkaProduce, socketVars, ackVars
<1>2. cur[s] \in Records /\ cur[s].sess = s /\ todo[s] \in Seq(Dispatchers) /\ nread[s] \in Nat
  BY <1>1, OwnRecord
<1>3. todo'[s] = Tail(todo[s]) /\ \A t \in Sessions \ {s} : todo'[t] = todo[t]
  BY <1>1 DEF IInv, TypeOK, SessionTypeOK
<1>4. \A t \in Sessions : (Busy(t)' <=> Busy(t)) /\ (OnEvent(t)' <=> OnEvent(t))
  BY <1>1 DEF Busy, OnEvent
<1>5. Busy(s) => /\ Kafka \in InSeq(todo[s]) /\ Kafka \notin InSeq(todo'[s])
                 /\ InSeq(todo'[s]) \subseteq InSeq(todo[s])
                 /\ \A i, j \in 1..Len(todo'[s]) : todo'[s][i] = todo'[s][j] => i = j
  <2>1. Busy(s) => \A i, j \in 1..Len(todo[s]) : todo[s][i] = todo[s][j] => i = j
    BY <1>0 DEF OwnInv
  <2> QED
    BY <1>1, <1>2, <1>3, <2>1, BehindHead
<1>6. OwnInv'
  <2> SUFFICES ASSUME NEW t \in Sessions
               PROVE  /\ pc[t] \in {"reject", "guess"} => cur[t].body = "data"
                      /\ OnEvent(t)' => cur[t].seq = 0
                      /\ Busy(t)' => /\ nread[t] >= 1
                                     /\ cur[t].seq \in {0, nread[t]}
                                     /\ cur[t].txType # NoTopic => cur[t].seq = nread[t]
                                     /\ todo'[t] # << >> => cur[t].txType # NoTopic
                                     /\ \A i, j \in 1..Len(todo'[t]) : todo'[t][i] = todo'[t][j] => i = j
    BY <1>1 DEF OwnInv
  <2>1. CASE t = s
    BY <1>0, <1>1, <1>4, <1>5, <2>1 DEF OwnInv
  <2>2. CASE t # s
    BY <1>0, <1>3, <1>4, <2>2 DEF OwnInv
  <2> QED
    BY <2>1, <2>2
<1>7. /\ \A r \in Handed' : r \in Handed \/ (r = cur[s] /\ r.body = "data")
      /\ AllResponses' = AllResponses
  BY <1>1 DEF Handed, AllResponses, ResponsesAt
<1>8. HandedInv' /\ ErrorInv'
  BY <1>0, <1>1, <1>7, HandedOn
<1>9. \A t \in Sessions : Busy(t) /\ SourceAhead(t)' => SourceAhead(t)
  BY <1>1, <1>3, <1>5 DEF SourceAhead, ReliableAck
<1>10. AckedBy(Kafka, cur[s].txType) =>
         Busy(s) /\ SourceAhead(s) /\ ~SourceAhead(s)' /\ cur[s].txType # NoTopic
  <2> SUFFICES ASSUME AckedBy(Kafka, cur[s].txType)
               PROVE  Busy(s) /\ SourceAhead(s) /\ ~SourceAhead(s)' /\ cur[s].txType # NoTopic
    OBVIOUS
  <2>1. Busy(s) /\ cur[s].txType # NoTopic
    BY <1>1, <1>2, ReliableIsData DEF AckedBy, Busy
  <2> QED
    BY <1>1, <1>5, <2>1 DEF AckedBy, SourceAhead, ReliableAck
<1>11. PublishInv'
  <2>1. ASSUME NEW t \in Sessions, Busy(t)', pc[t] = "dispatch", SourceAhead(t)'
        PROVE  /\ ~Published(cur[t])
               /\ AckedBy(Kafka, cur[t].txType) => cur[t] \notin inflight'
    <3>1. Busy(t) /\ SourceAhead(t)
      BY <1>4, <1>9, <2>1
    <3>2. ~Published(cur[t]) /\ (AckedBy(Kafka, cur[t].txType) => cur[t] \notin inflight)
      BY <1>0, <2>1, <3>1 DEF PublishInv
    <3>3. CASE t = s
      BY <1>10, <2>1, <3>2, <3>3
    <3>4. CASE t # s
      BY <1>1, <1>2, <2>1, <3>2, <3>4, OwnRecord
    <3> QED
      BY <3>3, <3>4
  <2>2. ASSUME NEW r \in inflight', AckedBy(Kafka, r.txType) PROVE ~Published(r)
    <3>1. CASE r \in inflight
      BY <1>0, <2>2, <3>1 DEF PublishInv
    <3>2. CASE r = cur[s]
      BY <1>0, <1>1, <1>10, <2>2, <3>2 DEF PublishInv
    <3> QED
      BY <1>1, <3>1, <3>2
  <2> QED
    BY <1>1, <2>1, <2>2 DEF PublishInv, Published, AckedBy, ReliableAck
<1>12. ASSUME NEW t \in Sessions, NEW n \in 1..MaxMessages
       PROVE  Moves(t, n, "session", s, "queue", s)
  <2>1. Owes(t, n)' => Owes(t, n)
    BY <1>1, <1>4, <1>9 DEF Owes, ReliableAck
  <2>2. KafkaOwes(cur[s], t, n) => t = s /\ Owes(s, n) /\ ~Owes(s, n)'
    <3> SUFFICES ASSUME KafkaOwes(cur[s], t, n) PROVE t = s /\ Owes(s, n) /\ ~Owes(s, n)'
      OBVIOUS
    <3>1. t = s /\ cur[s].seq = n /\ AckedBy(Kafka, cur[s].txType) /\ ReliableAck(cur[s].txType)
      BY <1>2 DEF KafkaOwes, AckedBy
    <3>2. Busy(s) /\ SourceAhead(s) /\ ~SourceAhead(s)' /\ cur[s].txType # NoTopic
      BY <1>10, <3>1
    <3> QED
      BY <1>1, <3>1, <3>2 DEF Owes, ReliableAck
  <2>3. \A b \in Sessions : Place("session", b, t, n)' => Place("session", b, t, n)
    BY <2>1, Places, PlacesNext
  <2>4. ASSUME NEW b \in Sessions, Place("queue", b, t, n)', ~Place("queue", b, t, n)
        PROVE  b = s /\ Place("session", s, t, n) /\ ~Place("session", s, t, n)'
    <3>1. b = t /\ KafkaOwes(cur[s], t, n)
      BY <1>1, <2>4, Places, PlacesNext
    <3> QED
      BY <2>2, <3>1, Places, PlacesNext
  <2> QED
    BY <1>1, <2>3, <2>4, SamePlaces DEF Moves, Kinds
<1>13. PlaceInv'
  BY <1>0, <1>1, <1>12, MovesOne, SingleSame DEF PlaceInv, Kinds
<1> QED
  BY <1>6, <1>8, <1>11, <1>13 DEF DInv
-----------------------------------------------------------------------------
(* The invariant *)

LEMMA InitDInv == Init => DInv
<1> SUFFICES ASSUME Init PROVE DInv
  OBVIOUS
<1> USE DEF Init, SocketInit, ProducersInit
<1>1. \A s \in Sessions : ~Busy(s) /\ ~OnEvent(s)
  BY DEF Busy, OnEvent
<1>2. Handed = {} /\ AllResponses = {}
  BY DEF Handed, AllResponses, ResponsesAt, InSeq
<1>3. OwnInv /\ HandedInv /\ ErrorInv /\ PublishInv
  BY <1>1, <1>2 DEF OwnInv, HandedInv, ErrorInv, PublishInv
<1>4. \A s, n : \A p \in Sessions : Answers(writeChan[p], s, n) = {} /\ Answers(wire[p], s, n) = {}
  BY DEF Answers
<1>5. \A s \in Sessions : \A n : \A k \in Kinds, p \in Sessions : ~Place(k, p, s, n)
  BY <1>1, <1>4 DEF Place, Owes
<1>6. PlaceInv
  BY <1>4, <1>5 DEF PlaceInv, OnePlace, Single
<1> QED
  BY <1>3, <1>6 DEF DInv

LEMMA ReadDelivery ==
  ASSUME IInv, DInv, IInv', NEW s \in Sessions, NEW m \in Inputs, ReadMessage(s, m) \/ ReadLimited(s, m)
  PROVE  DInv'
<1>1. m \in Messages
  BY InputsAssumption
<1>2. CASE RateLimitEnabled /\ ReadLimited(s, m)
  BY <1>1, <1>2, OtherQuiet, QuietStep
<1>3. CASE ReadMessage(s, m) \/ ~RateLimitEnabled
  <2>1. /\ pc[s] = "read" /\ nread[s] < MaxMessages /\ ParseAndProcessRecord(s, m)
        /\ nread' = [nread EXCEPT ![s] = @ + 1]
        /\ UNCHANGED <<inflight, reports, poller, accepted, writeChan, writing, wire, ackPc, ackRec>>
    BY <1>3 DEF ReadMessage, ReadLimited, producerVars, socketVars, ackVars
  <2> QED
    BY <1>1, <2>1, ParsedDelivery
<1> QED
  BY <1>2, <1>3

\* Every step keeps the answer to a message in one place.
LEMMA NextDInv == IInv /\ DInv /\ [Next]_vars => DInv'
<1> SUFFICES ASSUME IInv, DInv, [Next]_vars PROVE DInv'
  OBVIOUS
<1>0. IInv'
  BY NextIInv
<1>1. ASSUME NEW s \in Sessions, NEW m \in Inputs, ReadMessage(s, m) \/ ReadLimited(s, m)
      PROVE  DInv'
  BY <1>0, <1>1, ReadDelivery
<1>2. ASSUME NEW s \in Sessions,
             \/ Accept(s) \/ RefuseIdentity(s) \/ ReadError(s) \/ ReadNotBinary(s)
             \/ ProduceSyncError(s) \/ StartTelemetry(s) \/ Dispatched(s)
             \/ CloseSocket(s) \/ CloseStopChan(s) \/ Deregister(s) \/ Finish(s)
      PROVE  DInv'
  BY <1>0, <1>2, SessionQuiet, QuietStep
<1>3. ASSUME NEW s \in Sessions, Respond(s) \/ ProduceSync(s) \/ ProduceKafka(s) \/ AckFromSession(s)
      PROVE  DInv'
  BY <1>0, <1>3, RespondDelivery, ProduceSyncDelivery, ProduceKafkaDelivery, AckFromSessionDelivery
<1>4. ASSUME NEW s \in Sessions, WriterStep(s)
      PROVE  DInv'
  <2>1. CASE WriteError(s) \/ WriterStop(s)
    BY <1>0, <1>4, <2>1, OtherQuiet, QuietStep
  <2> QED
    BY <1>0, <1>4, <2>1, WriterTakeDelivery, WriteMessageDelivery DEF WriterStep, Writer
<1>5. CASE AckFromKafka \/ AckRespond \/ KafkaBroker \/ KafkaEvents
  BY <1>0, <1>5, AckFromKafkaDelivery, AckRespondDelivery, KafkaBrokerDelivery, KafkaEventsDelivery
<1>6. CASE AckLookup \/ UNCHANGED vars \/ \E s \in Sessions : Leave(s)
  BY <1>0, <1>6, OtherQuiet, QuietStep
<1> QED
  BY <1>1, <1>2, <1>3, <1>4, <1>5, <1>6 DEF Next, SessionStep, AckStep, Quiescent

\* The answer to a message is owed in one place, in every reachable state.
THEOREM DeliveryInvariance == Spec => [](IInv /\ DInv)
  BY InitIInv, NextIInv, InitDInv, NextDInv, PTL DEF Spec

\* A message the vehicle is told was in error reached no dispatcher and is
\* not in Kafka's queue (the early returns of ParseAndProcessRecord), for any
\* number of sessions and any dispatch configuration.
THEOREM ErrorsCorrect == Spec => []ErrorNotDispatched
<1>1. IInv /\ DInv => ErrorNotDispatched
  <2> SUFFICES ASSUME IInv, DInv, NEW s \in Sessions, NEW x \in ResponsesAt(s), x.kind = "error"
               PROVE  /\ \A d \in Dispatchers : <<d, AnsweredRecord(x)>> \notin accepted
                      /\ AnsweredRecord(x) \notin inflight
    BY DEF ErrorNotDispatched
  <2>1. x \in AllResponses
    BY DEF AllResponses
  <2>2. AnsweredRecord(x) \notin Handed
    BY <2>1 DEF DInv, ErrorInv, AnsweredRecord
  <2>3. AnsweredRecord(x).body = "data"
    BY DEF AnsweredRecord
  <2> QED
    BY <2>2, <2>3, HandedMember DEF IInv, TypeOK
<1> QED
  BY <1>1, DeliveryInvariance, PTL

\* A decoded message is answered at most once over all connections, by its
\* session or by handleAcks (reliableAck), wherever on a connection the
\* answer is (queued, with the writer, written) and whatever the interleaving
\* of the sessions, the writers, Kafka's goroutine and handleAcks.
THEOREM AnsweredOnceCorrect == Spec => []AnsweredAtMostOnce
<1>1. IInv /\ DInv => AnsweredAtMostOnce
  <2> SUFFICES ASSUME IInv, DInv, NEW s \in Sessions, NEW n \in 1..MaxMessages,
                      NEW a \in AnswersTo(s, n), NEW b \in AnswersTo(s, n)
               PROVE  a = b
    BY DEF AnsweredAtMostOnce
  <2>1. /\ \A r \in Sessions : Single(writeChan[r], s, n) /\ Single(wire[r], s, n)
        /\ OnePlace(s, n)
    BY DEF DInv, PlaceInv
  <2>0. \A q : Answers(q, s, n) \subseteq Nat
    BY DEF Answers
  <2>2. \A c \in AnswersTo(s, n) : \E p \in Sessions : \E i \in Nat :
           \/ c = <<p, "written", i>> /\ i \in Answers(wire[p], s, n)
           \/ c = <<p, "queued", i>> /\ i \in Answers(writeChan[p], s, n)
           \/ c = <<p, "writing", i>> /\ writing[p] # NoResponse /\ i \in Answers(<<writing[p]>>, s, n)
    BY <2>0 DEF AnswersTo
  <2>3. \A p : \A i \in Answers(<<writing[p]>>, s, n) : i = 1 /\ Answered(writing[p], s, n)
    <3>1. ASSUME NEW p, NEW i \in Answers(<<writing[p]>>, s, n)
          PROVE  i = 1 /\ Answered(writing[p], s, n)
      <4>1. i = 1
        BY DEF Answers
      <4> QED
        BY <4>1 DEF Answers, Answered
    <3> QED
      BY <3>1
  <2> DEFINE At(c, r, k) ==
        \/ c = <<r, "written", k>> /\ k \in Answers(wire[r], s, n) /\ Place("wire", r, s, n)
        \/ c = <<r, "queued", k>> /\ k \in Answers(writeChan[r], s, n) /\ Place("chan", r, s, n)
        \/ c = <<r, "writing", 1>> /\ Place("writer", r, s, n)
  <2>3a. ASSUME NEW c \in AnswersTo(s, n)
         PROVE  \E r \in Sessions : \E k \in Nat : At(c, r, k)
    <3>1. PICK r \in Sessions : \E k \in Nat :
             \/ c = <<r, "written", k>> /\ k \in Answers(wire[r], s, n)
             \/ c = <<r, "queued", k>> /\ k \in Answers(writeChan[r], s, n)
             \/ c = <<r, "writing", k>> /\ writing[r] # NoResponse /\ k \in Answers(<<writing[r]>>, s, n)
      BY <2>2
    <3>2. PICK k \in Nat :
             \/ c = <<r, "written", k>> /\ k \in Answers(wire[r], s, n)
             \/ c = <<r, "queued", k>> /\ k \in Answers(writeChan[r], s, n)
             \/ c = <<r, "writing", k>> /\ writing[r] # NoResponse /\ k \in Answers(<<writing[r]>>, s, n)
      BY <3>1
    <3>3. CASE c = <<r, "written", k>> /\ k \in Answers(wire[r], s, n)
      BY <3>3 DEF Place
    <3>4. CASE c = <<r, "queued", k>> /\ k \in Answers(writeChan[r], s, n)
      BY <3>4 DEF Place
    <3>5. CASE c = <<r, "writing", k>> /\ writing[r] # NoResponse /\ k \in Answers(<<writing[r]>>, s, n)
      BY <2>3, <3>5 DEF Place
    <3> QED
      BY <3>2, <3>3, <3>4, <3>5
  <2>4. PICK p \in Sessions : \E i \in Nat : At(a, p, i)
    BY <2>3a
  <2>4a. PICK i \in Nat : At(a, p, i)
    BY <2>4
  <2>5. PICK q \in Sessions : \E j \in Nat : At(b, q, j)
    BY <2>3a
  <2>5a. PICK j \in Nat : At(b, q, j)
    BY <2>5
  <2>6. \A k, l \in {"wire", "chan", "writer"} : Place(k, p, s, n) /\ Place(l, q, s, n) => k = l /\ p = q
    BY <2>1 DEF OnePlace, Kinds
  <2>7. CASE Place("wire", p, s, n)
    BY <2>1, <2>4a, <2>5a, <2>6, <2>7 DEF Single
  <2>8. CASE Place("chan", p, s, n)
    BY <2>1, <2>4a, <2>5a, <2>6, <2>8 DEF Single
  <2>9. CASE Place("writer", p, s, n)
    BY <2>1, <2>4a, <2>5a, <2>6, <2>9 DEF Single
  <2> QED
    BY <2>4a, <2>7, <2>8, <2>9
<1> QED
  BY <1>1, DeliveryInvariance, PTL
-----------------------------------------------------------------------------
(* The server implements ReliableDelivery *)

\* The abstract history of what was written.
AllTold == [s \in Sessions |-> Told(s)]

\* What is published by the dispatcher that acks it.
LEMMA ItemsAdded ==
  ASSUME NEW d, NEW r \in Records, accepted' = accepted \cup {<<d, r>>}
  PROVE  PublishedItems' = IF AckedBy(d, r.txType) THEN PublishedItems \cup {ItemOf(r)} ELSE PublishedItems
<1> DEFINE S == {q \in accepted : q[2].body = "data" /\ AckedBy(q[1], q[2].txType)}
<1>1. AckedBy(d, r.txType) => r.body = "data"
  BY ReliableIsData DEF AckedBy
<1>2. S' = IF AckedBy(d, r.txType) THEN S \cup {<<d, r>>} ELSE S
  BY <1>1 DEF AckedBy, ReliableAck
<1>3. PublishedItems = {ItemOf(p[2]) : p \in S}
  BY DEF PublishedItems
<1>4. PublishedItems' = {ItemOf(p[2]) : p \in S'}
  BY DEF PublishedItems, ItemOf
<1> HIDE DEF S
<1>5. CASE AckedBy(d, r.txType)
  <2>1. {ItemOf(p[2]) : p \in S \cup {<<d, r>>}} = {ItemOf(p[2]) : p \in S} \cup {ItemOf(r)}
    <3>1. <<d, r>>[2] = r
      OBVIOUS
    <3> QED
      BY <3>1, Zenon
  <2> QED
    BY <1>2, <1>3, <1>4, <1>5, <2>1
<1>6. CASE ~AckedBy(d, r.txType)
  BY <1>2, <1>3, <1>4, <1>6
<1> QED
  BY <1>5, <1>6

\* A published item is of a record that was handed on.
LEMMA ItemHanded ==
  ASSUME IInv, NEW i \in PublishedItems
  PROVE  \E q \in Handed : i = ItemOf(q) /\ Published(q) /\ ReliableAck(q.txType)
<1>1. PICK p \in accepted : p[2].body = "data" /\ AckedBy(p[1], p[2].txType) /\ i = ItemOf(p[2])
  BY DEF PublishedItems
<1>2. p = <<p[1], p[2]>>
  BY <1>1 DEF IInv, TypeOK, ProducersTypeOK
<1>3. p[2] \in Handed
  BY <1>1, <1>2, HandedMember DEF IInv, TypeOK
<1> QED
  BY <1>1, <1>2, <1>3 DEF AckedBy, Published

\* A reliable record that is published is an item.
LEMMA PublishedIsItem ==
  ASSUME IInv, NEW r \in Records, ReliableAck(r.txType), Published(r)
  PROVE  ItemOf(r) \in PublishedItems
<1>1. r.body = "data"
  BY ReliableIsData
<1> DEFINE p == <<ReliableAckSources[r.txType], r>>
<1>2. p \in accepted /\ p[2] = r /\ AckedBy(p[1], p[2].txType)
  BY DEF Published, AckedBy
<1> QED
  BY <1>1, <1>2 DEF PublishedItems

\* The dispatcher that acks it publishes a record for the first time.
LEMMA PublishStep ==
  ASSUME IInv, NEW d, NEW r \in Records, AckedBy(d, r.txType), ~Published(r),
         r.seq \in 1..nread[r.sess],
         \A q \in Handed : q.sess = r.sess /\ q.seq = r.seq => q = r,
         accepted' = accepted \cup {<<d, r>>}, UNCHANGED <<nread, wire>>
  PROVE  Delivery!DeliveryNext
<1>1. PublishedItems' = PublishedItems \cup {[sess |-> r.sess, seq |-> r.seq, txType |-> r.txType]}
  BY ItemsAdded DEF ItemOf
<1>2. \A i \in PublishedItems : i.sess = r.sess => i.seq # r.seq
  <2> SUFFICES ASSUME NEW i \in PublishedItems, i.sess = r.sess, i.seq = r.seq PROVE FALSE
    OBVIOUS
  <2>1. PICK q \in Handed : i = ItemOf(q) /\ Published(q)
    BY ItemHanded
  <2>2. q.sess = r.sess /\ q.seq = r.seq
    BY <2>1 DEF ItemOf
  <2> QED
    BY <2>1, <2>2
<1>3. r.sess \in Sessions /\ r.txType \in DOMAIN ReliableAckSources
  BY DEF Records, AckedBy, ReliableAck
<1>4. UNCHANGED AllTold
  BY DEF AllTold, Told, AckedItems, ItemOf, ReliableAck
<1>5. Delivery!Publish(r.sess, r.seq, r.txType)
  BY <1>1, <1>2, <1>4 DEF Delivery!Publish, AllTold
<1> QED
  BY <1>3, <1>5 DEF Delivery!DeliveryNext

\* Steps that receive, publish and write nothing.
LEMMA DeliveryStutter ==
  ASSUME UNCHANGED <<nread, accepted, wire>>
  PROVE  UNCHANGED Delivery!deliveryVars
<1>1. UNCHANGED AllTold
  BY DEF AllTold, Told, AckedItems, ItemOf, ReliableAck
<1>2. UNCHANGED PublishedItems
  BY DEF PublishedItems, ItemOf, AckedBy, ReliableAck
<1> QED
  BY <1>1, <1>2 DEF Delivery!deliveryVars, AllTold

LEMMA ReadRefines ==
  ASSUME IInv, NEW s \in Sessions, nread' = [nread EXCEPT ![s] = @ + 1], UNCHANGED <<accepted, wire>>
  PROVE  Delivery!DeliveryNext
<1>1. UNCHANGED AllTold
  BY DEF AllTold, Told, AckedItems, ItemOf, ReliableAck
<1>2. UNCHANGED PublishedItems
  BY DEF PublishedItems, ItemOf, AckedBy, ReliableAck
<1>3. Delivery!Receive(s)
  BY <1>1, <1>2 DEF Delivery!Receive, AllTold
<1> QED
  BY <1>3 DEF Delivery!DeliveryNext

LEMMA ProduceSyncRefines ==
  ASSUME IInv, DInv, NEW s \in Sessions, ProduceSync(s)
  PROVE  Delivery!DeliveryNext \/ UNCHANGED Delivery!deliveryVars
<1>0. OwnInv /\ HandedInv /\ PublishInv
  BY DEF DInv
<1>1. /\ pc[s] = "dispatch" /\ todo[s] # << >>
      /\ accepted' = accepted \cup {<<Head(todo[s]), cur[s]>>}
      /\ UNCHANGED <<nread, wire>>
  BY DEF ProduceSync, SyncProduced, socketVars
<1>2. PICK d \in Dispatchers, r \in Records : d = Head(todo[s]) /\ r = cur[s]
  <2>1. todo[s] \in Seq(Dispatchers) /\ cur[s] \in Records
    BY <1>1, OwnRecord
  <2>2. Head(todo[s]) \in Dispatchers
    BY <1>1, <2>1
  <2> QED
    BY <2>1, <2>2
<1>3. r.sess = s /\ todo[s] \in Seq(Dispatchers) /\ nread[s] \in Nat
  BY <1>1, <1>2, OwnRecord
<1>4. CASE AckedBy(d, r.txType)
  <2>1. Busy(s) /\ r.txType # NoTopic
    BY <1>1, <1>2, <1>4, ReliableIsData DEF Busy, AckedBy
  <2>2. r.seq = nread[s] /\ nread[s] >= 1
    BY <1>0, <1>2, <2>1 DEF OwnInv
  <2>3. d \in InSeq(todo[s])
    BY <1>1, <1>2, <1>3 DEF InSeq
  <2>4. ~Published(r)
    BY <1>0, <1>1, <1>2, <1>4, <2>1, <2>3 DEF PublishInv, SourceAhead, AckedBy
  <2>5. \A q \in Handed : q.sess = r.sess /\ q.seq = r.seq => q = r
    BY <1>0, <1>2, <1>3, <2>1, <2>2 DEF HandedInv
  <2> QED
    BY <1>1, <1>2, <1>3, <1>4, <2>2, <2>4, <2>5, PublishStep
<1>5. CASE ~AckedBy(d, r.txType)
  <2>1. UNCHANGED PublishedItems
    BY <1>1, <1>2, <1>5, ItemsAdded
  <2>2. UNCHANGED AllTold
    BY <1>1 DEF AllTold, Told, AckedItems, ItemOf, ReliableAck
  <2> QED
    BY <1>1, <2>1, <2>2 DEF Delivery!deliveryVars, AllTold
<1> QED
  BY <1>4, <1>5

LEMMA KafkaBrokerRefines ==
  ASSUME IInv, DInv, KafkaBroker
  PROVE  Delivery!DeliveryNext \/ UNCHANGED Delivery!deliveryVars
<1>0. HandedInv /\ PublishInv
  BY DEF DInv
<1>1. PICK r \in inflight, ok \in BOOLEAN :
        accepted' = IF ok THEN accepted \cup {<<Kafka, r>>} ELSE accepted
  BY DEF KafkaBroker, BrokerResult
<1>2. UNCHANGED <<nread, wire>> /\ r \in Records
  BY DEF KafkaBroker, sessionVars, socketVars, IInv, TypeOK, ProducersTypeOK
<1>3. CASE ok /\ AckedBy(Kafka, r.txType)
  <2>1. r \in Handed
    BY <1>2, <1>3, HandedMember, ReliableIsData DEF IInv, TypeOK, AckedBy
  <2>2. ~Published(r)
    BY <1>0, <1>3 DEF PublishInv
  <2>3. r.seq \in 1..nread[r.sess]
    BY <1>0, <1>2, <2>1, OwnRecord DEF HandedInv, Records
  <2> QED
    BY <1>0, <1>1, <1>2, <1>3, <2>1, <2>2, <2>3, PublishStep DEF HandedInv
<1>4. CASE ok /\ ~AckedBy(Kafka, r.txType)
  <2>1. UNCHANGED PublishedItems
    BY <1>1, <1>2, <1>4, ItemsAdded
  <2>2. UNCHANGED AllTold
    BY <1>2 DEF AllTold, Told, AckedItems, ItemOf, ReliableAck
  <2> QED
    BY <1>2, <2>1, <2>2 DEF Delivery!deliveryVars, AllTold
<1>5. CASE ~ok
  BY <1>1, <1>2, <1>5, DeliveryStutter
<1> QED
  BY <1>3, <1>4, <1>5

\* A function on 1..n is a list of length n.
LEMMA FunctionIsSeq ==
  ASSUME NEW X, NEW n \in Nat, NEW f \in [1..n -> X]
  PROVE  f \in Seq(X) /\ Len(f) = n
  OBVIOUS

\* A list that agrees with q up to its last element, x, is Append(q, x).
LEMMA AppendIs ==
  ASSUME NEW X, NEW q \in Seq(X), NEW x \in X, NEW g \in [1..(Len(q) + 1) -> X],
         \A k \in 1..Len(q) : g[k] = q[k], g[Len(q) + 1] = x
  PROVE  g = Append(q, x)
<1>1. Len(q) + 1 \in Nat
  OBVIOUS
<1>2. g \in Seq(X) /\ Len(g) = Len(q) + 1
  BY <1>1, FunctionIsSeq
<1>3. Append(q, x) \in Seq(X) /\ Len(Append(q, x)) = Len(q) + 1
  OBVIOUS
<1>4. \A k \in 1..Len(g) : g[k] = Append(q, x)[k]
  BY <1>2
<1> QED
  BY <1>2, <1>3, <1>4, SeqEqual

\* One more response written is one more answer.
LEMMA ToldAppend ==
  ASSUME NEW q \in Seq(Responses), NEW x \in Responses
  PROVE  [k \in 1..Len(Append(q, x)) |-> AckedItems(Append(q, x)[k])]
            = Append([k \in 1..Len(q) |-> AckedItems(q[k])], AckedItems(x))
<1> DEFINE f == [k \in 1..Len(q) |-> AckedItems(q[k])]
           g == [k \in 1..Len(Append(q, x)) |-> AckedItems(Append(q, x)[k])]
           T == {AckedItems(y) : y \in Responses}
<1>1. /\ Len(q) \in Nat /\ Len(Append(q, x)) = Len(q) + 1 /\ Append(q, x)[Len(q) + 1] = x
      /\ \A k \in 1..Len(q) : q[k] \in Responses /\ Append(q, x)[k] = q[k]
  OBVIOUS
<1>2. \A y \in Responses : AckedItems(y) \in T
  OBVIOUS
<1>3. f \in [1..Len(q) -> T]
  BY <1>1, <1>2
<1> HIDE DEF T
<1>4. f \in Seq(T) /\ Len(f) = Len(q)
  <2> HIDE DEF f
  <2> QED
    BY <1>1, <1>3, FunctionIsSeq
<1>5. AckedItems(x) \in T
  BY <1>2
<1>6. /\ g \in [1..(Len(q) + 1) -> T]
      /\ \A k \in 1..Len(q) : g[k] = f[k]
      /\ g[Len(q) + 1] = AckedItems(x)
  BY <1>1, <1>2, <1>5
<1> HIDE DEF f, g
<1>7. g = Append(f, AckedItems(x))
  BY <1>4, <1>5, <1>6, AppendIs
<1> QED
  BY <1>7 DEF f, g

\* A response reaches the vehicle: an ack of a record that was published and
\* of which no connection was told, or another answer.
LEMMA WriteMessageRefines ==
  ASSUME IInv, DInv, NEW s \in Sessions, WriteMessage(s), WriterStep(s)
  PROVE  Delivery!DeliveryNext \/ UNCHANGED Delivery!deliveryVars
<1>0. HandedInv /\ PlaceInv
  BY DEF DInv
<1>1. PICK x \in Responses :
        /\ x = writing[s]
        /\ wire' = IF conn[s] = "open" THEN [wire EXCEPT ![s] = Append(@, x)] ELSE wire
  BY DEF WriteMessage, IInv, WriterInv
<1>2. UNCHANGED <<nread, accepted>> /\ x # NoResponse
  BY <1>1, NoResponseAssumption DEF WriterStep, producerVars, sessionVars
<1>3. CASE conn[s] # "open"
  BY <1>1, <1>2, <1>3, DeliveryStutter
<1>4. CASE conn[s] = "open"
  <2>1. /\ wire[s] \in Seq(Responses) /\ wire'[s] = Append(wire[s], x)
        /\ \A t \in Sessions \ {s} : wire'[t] = wire[t]
    BY <1>1, <1>4 DEF IInv, TypeOK, SocketTypeOK
  <2>2. AllTold' = [AllTold EXCEPT ![s] = Append(@, AckedItems(x))]
    <3>1. \A y : AckedItems(y)' = AckedItems(y)
      BY DEF AckedItems, ItemOf, ReliableAck
    <3>2. \A t \in Sessions : Told(t)' = [k \in 1..Len(wire'[t]) |-> AckedItems(wire'[t][k])]
      BY <3>1 DEF Told, AckedItems, ItemOf, ReliableAck
    <3>3. Told(s)' = Append(Told(s), AckedItems(x))
      BY <2>1, <3>2, ToldAppend DEF Told
    <3>4. \A t \in Sessions \ {s} : Told(t)' = Told(t)
      BY <2>1, <3>2 DEF Told
    <3> HIDE DEF Told
    <3> QED
      BY <3>3, <3>4 DEF AllTold
  <2>3. UNCHANGED PublishedItems
    BY <1>2 DEF PublishedItems, ItemOf, AckedBy, ReliableAck
  <2>4. CASE x.kind = "ack" /\ ReliableAck(x.txType)
    <3>1. AckedItems(x) = {ItemOf(x)}
      BY <2>4 DEF AckedItems
    <3>2. PICK r \in Records : r = AnsweredRecord(x) /\ Published(r)
      <4>1. AnsweredRecord(x) \in Records
        BY DEF AnsweredRecord, Records, Responses, Bodies
      <4>2. Published(AnsweredRecord(x))
        BY <1>1, <1>2, <2>4 DEF IInv, ResponseInv, Proper
      <4> QED
        BY <4>1, <4>2
    <3>3. r.sess = x.sess /\ r.seq = x.seq /\ r.txType = x.txType /\ ItemOf(r) = ItemOf(x)
      BY <3>2 DEF AnsweredRecord, ItemOf
    <3>4. ItemOf(x) \in PublishedItems
      BY <2>4, <3>2, <3>3, PublishedIsItem
    <3>5. x.sess \in Sessions /\ x.seq \in 1..MaxMessages /\ x.txType # NoTopic
      <4>1. r \in Handed
        BY <2>4, <3>2, <3>3, HandedMember, ReliableIsData DEF IInv, TypeOK, Published
      <4>2. x.sess \in Sessions /\ x.seq \in Nat /\ nread[x.sess] \in 0..MaxMessages
        BY DEF Responses, IInv, TypeOK, SessionTypeOK
      <4>3. r.txType # NoTopic /\ r.seq >= 1 /\ r.seq <= nread[r.sess]
        BY <1>0, <4>1 DEF HandedInv
      <4> QED
        BY <3>3, <4>2, <4>3, LimitAssumption
    <3>6. \A w \in Sessions : ~Place("wire", w, x.sess, x.seq)
      <4>1. Place("writer", s, x.sess, x.seq)
        BY <1>1, <1>2, <3>5, Places DEF Answered
      <4>2. OnePlace(x.sess, x.seq)
        BY <1>0, <3>5 DEF PlaceInv
      <4> QED
        BY <4>1, <4>2 DEF OnePlace, Kinds
    <3>7. ASSUME NEW w \in Sessions, NEW k \in 1..Len(wire[w])
          PROVE  ItemOf(x) \notin AckedItems(wire[w][k])
      <4>1. wire[w] \in Seq(Responses)
        BY DEF IInv, TypeOK, SocketTypeOK
      <4>2. ~(wire[w][k].sess = x.sess /\ wire[w][k].seq = x.seq /\ wire[w][k].txType # NoTopic)
        BY <3>6, Places DEF Answers
      <4> QED
        BY <3>5, <4>2 DEF AckedItems, ItemOf
    <3>8. \A w \in Sessions : ItemOf(x) \notin Delivery!AckedOn(w)
      <4> SUFFICES ASSUME NEW w \in Sessions, ItemOf(x) \in Delivery!AckedOn(w) PROVE FALSE
        OBVIOUS
      <4>1. [t \in Sessions |-> Told(t)][w] = [k \in 1..Len(wire[w]) |-> AckedItems(wire[w][k])]
        BY DEF Told
      <4>2. Len(wire[w]) \in Nat
        BY DEF IInv, TypeOK, SocketTypeOK
      <4>3. Len([t \in Sessions |-> Told(t)][w]) = Len(wire[w])
        BY <4>1, <4>2
      <4>4. PICK k \in 1..Len(wire[w]) : ItemOf(x) \in [t \in Sessions |-> Told(t)][w][k]
        BY <4>3 DEF Delivery!AckedOn
      <4> QED
        BY <3>7, <4>1, <4>4
    <3>9. PICK i \in PublishedItems : i = ItemOf(x)
      BY <3>4
    <3>10. Delivery!Ack(s, i)
      BY <1>2, <2>2, <2>3, <3>1, <3>8, <3>9 DEF Delivery!Ack, AllTold
    <3> QED
      BY <3>10 DEF Delivery!DeliveryNext
  <2>5. CASE ~(x.kind = "ack" /\ ReliableAck(x.txType))
    <3>1. AckedItems(x) = {}
      BY <2>5 DEF AckedItems
    <3>2. Delivery!Answer(s)
      BY <1>2, <2>2, <2>3, <3>1 DEF Delivery!Answer, AllTold
    <3> QED
      BY <3>2 DEF Delivery!DeliveryNext
  <2> QED
    BY <2>4, <2>5
<1> QED
  BY <1>3, <1>4

\* Every step is one of ReliableDelivery, or leaves its state alone.
LEMMA NextRefines ==
  ASSUME IInv, DInv, [Next]_vars
  PROVE  Delivery!DeliveryNext \/ UNCHANGED Delivery!deliveryVars
<1>1. ASSUME NEW s \in Sessions, NEW m \in Inputs, ReadMessage(s, m) \/ ReadLimited(s, m)
      PROVE  Delivery!DeliveryNext
  <2>1. nread' = [nread EXCEPT ![s] = @ + 1] /\ UNCHANGED <<accepted, wire>>
    BY <1>1 DEF ReadMessage, ReadLimited, producerVars, socketVars
  <2> QED
    BY <2>1, ReadRefines
<1>2. ASSUME NEW s \in Sessions,
             \/ Accept(s) \/ RefuseIdentity(s) \/ ReadError(s) \/ ReadNotBinary(s) \/ Respond(s)
             \/ ProduceSyncError(s) \/ ProduceKafka(s) \/ StartTelemetry(s) \/ Dispatched(s)
             \/ CloseSocket(s) \/ CloseStopChan(s) \/ Deregister(s) \/ Finish(s)
             \/ AckFromSession(s) \/ Leave(s)
      PROVE  UNCHANGED <<nread, accepted, wire>>
  BY <1>2 DEF Accept, RefuseIdentity, ReadError, ReadNotBinary, Respond, RespondToVehicle,
     ProduceSyncError, ProduceKafka, KafkaProduce, StartTelemetry, Dispatched, CloseSocket,
     CloseStopChan, Deregister, Finish, AckFromSession, Leave, VehicleLeaves,
     producerVars, socketVars, sessionVars
<1>3. ASSUME NEW s \in Sessions, WriterStep(s), ~WriteMessage(s)
      PROVE  UNCHANGED <<nread, accepted, wire>>
  BY <1>3 DEF WriterStep, Writer, WriterTake, WriteError, WriterStop, WriterExit, producerVars, sessionVars
<1>4. CASE AckFromKafka \/ AckLookup \/ AckRespond \/ KafkaEvents \/ UNCHANGED vars
  <2>1. UNCHANGED <<nread, accepted, wire>>
    BY <1>4 DEF AckFromKafka, AckLookup, AckRespond, RespondToVehicle, KafkaEvents, HandleProducerEvent,
       vars, producerVars, socketVars, sessionVars
  <2> QED
    BY <2>1, DeliveryStutter
<1>5. CASE KafkaBroker
  BY <1>5, KafkaBrokerRefines
<1> QED
  BY <1>1, <1>2, <1>3, <1>4, <1>5, ProduceSyncRefines, WriteMessageRefines, DeliveryStutter
     DEF Next, SessionStep, AckStep, Quiescent

LEMMA InitRefines == Init => Delivery!DeliveryInit
<1> SUFFICES ASSUME Init PROVE Delivery!DeliveryInit
  OBVIOUS
<1>1. PublishedItems = {}
  BY DEF Init, ProducersInit, PublishedItems
<1>2. \A s \in Sessions : Told(s) = << >>
  <2> SUFFICES ASSUME NEW s \in Sessions PROVE Told(s) = << >>
    OBVIOUS
  <2> DEFINE T == {AckedItems(y) : y \in Responses}
  <2>1. Len(wire[s]) = 0
    BY DEF Init, SocketInit
  <2>2. Told(s) \in [1..0 -> T]
    BY <2>1 DEF Told
  <2> HIDE DEF T
  <2>3. Told(s) \in Seq(T) /\ Len(Told(s)) = 0
    BY <2>2, FunctionIsSeq
  <2> QED
    BY <2>3, EmptySeq
<1> QED
  BY <1>1, <1>2 DEF Init, Delivery!DeliveryInit

\* The streaming server implements ReliableDelivery for every instance: a
\* message is published by the dispatcher that acks it at most once, as one
\* record, and the vehicle is told so at most once, afterwards.
THEOREM ReliableDeliveryImplemented == Spec => ImplementsReliableDelivery
<1>1. IInv /\ DInv /\ [Next]_vars => [Delivery!DeliveryNext]_(Delivery!deliveryVars)
  BY NextRefines
<1> QED
  BY <1>1, InitRefines, DeliveryInvariance, PTL DEF Spec, ImplementsReliableDelivery, Delivery!DeliverySpec
=============================================================================
