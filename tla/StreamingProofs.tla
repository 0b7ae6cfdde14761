-------------------------- MODULE StreamingProofs --------------------------
(***************************************************************************)
(* Proofs about Streaming for every set of sessions, every assignment of   *)
(* UUIDs, every dispatch configuration and every channel capacity.         *)
(***************************************************************************)
EXTENDS Streaming, FiniteSetTheorems, TLAPS

(* The inductive invariant: what each goroutine holds while it is blocked. *)

\* A session that works on a record works on one of its own; it only answers
\* at once what no dispatcher acks, and only holds for handleAcks what the
\* dispatcher has published.
SessionInv ==
  \A s \in Sessions :
    /\ pc[s] \in {"dispatch", "ackwait", "reject", "guess", "respond"} =>
          cur[s] \in Records /\ cur[s].sess = s
    /\ pc[s] = "guess" => cur[s].txType = NoTopic
    /\ pc[s] = "respond" => ~ReliableAck(cur[s].txType)
    /\ pc[s] = "ackwait" => /\ todo[s] # << >>
                            /\ AckedBy(Head(todo[s]), cur[s].txType)
                            /\ <<Head(todo[s]), cur[s]>> \in accepted

\* A successful delivery report, and the record handleProducerEvents acks,
\* are of records the broker has stored.
KafkaInv ==
  /\ \A rp \in reports : rp.ok => <<Kafka, rp.rec>> \in accepted
  /\ poller # NoRecord => /\ AckedBy(Kafka, poller.txType)
                          /\ <<Kafka, poller>> \in accepted

\* handleAcks holds a published record of a reliable type and, once it has
\* looked it up, a socket of the same UUID.
AckInv ==
  /\ ackPc # "recv" => /\ ackRec \in Records
                       /\ ReliableAck(ackRec.txType)
                       /\ Published(ackRec)
  /\ ackPc = "send" => /\ ackSock \in Sessions
                       /\ UUID[ackSock] = UUID[ackRec.sess]

\* An entry of the registry is under the UUID of its session.
RoutingInv == \A u \in UUIDs : sockets[u] # NoSession => UUID[sockets[u]] = u

WriterInv == \A s \in Sessions : writer[s] = "writing" => writing[s] \in Responses

\* What may be queued for or written to session s.
Proper(x, s) ==
  /\ x.kind = "ack" /\ ReliableAck(x.txType) => Published(AnsweredRecord(x))
  /\ UUID[x.sess] = UUID[s]

ResponseInv ==
  \A s \in Sessions :
    /\ \A i \in 1..Len(writeChan[s]) : Proper(writeChan[s][i], s)
    /\ \A i \in 1..Len(wire[s]) : Proper(wire[s][i], s)
    /\ writing[s] # NoResponse => Proper(writing[s], s)

IInv == TypeOK /\ SessionInv /\ KafkaInv /\ AckInv /\ RoutingInv /\ WriterInv /\ ResponseInv
-----------------------------------------------------------------------------
(* Facts about the operators *)

\* The dispatchers of a record type are a list of dispatchers.
LEMMA RulesForType == \A t : RulesFor(t) \in Seq(Dispatchers)
  BY RulesAssumption DEF RulesFor

\* Nobody acks a record without a type, or a connectivity record.
LEMMA ReliableTopics ==
  \A t : ReliableAck(t) => t \in Topics /\ t # Connectivity /\ t # NoTopic
  BY RulesAssumption, ReliableAssumption, TopicAssumption DEF ReliableAck

\* NewRecord makes a record of the session that read the message.
LEMMA RecordOfType ==
  ASSUME NEW s \in Sessions, NEW n \in Nat, NEW m \in Messages
  PROVE  /\ RecordOf(s, n, m) \in Records
         /\ RecordOf(s, n, m).sess = s
         /\ NewRecordError(m) = "unknown_type" => RecordOf(s, n, m).txType = NoTopic
  BY DEF RecordOf, Records, Messages, TxTypes, Bodies, TxTypeOf, NewRecordError,
     DeserializeError, TransformError

\* respondToVehicle builds a response, and one of a reliable record names it.
LEMMA ResponseOfType ==
  ASSUME NEW r \in Records, NEW kind \in {"ack", "error"}
  PROVE  /\ ResponseOf(r, kind) \in Responses
         /\ ResponseOf(r, kind).sess = r.sess
         /\ ResponseOf(r, kind).kind = kind
         /\ ResponseOf(r, kind).txType = r.txType
         /\ ReliableAck(r.txType) => AnsweredRecord(ResponseOf(r, kind)) = r
  BY ReliableTopics DEF ResponseOf, Responses, Records, AnsweredRecord, Bodies
-----------------------------------------------------------------------------
(* Parts of the invariant and the variables they depend on *)

\* Publishing is never undone, so responses stay proper.
LEMMA ResponsesKept ==
  ASSUME ResponseInv, accepted \subseteq accepted', UNCHANGED <<writeChan, wire, writing>>
  PROVE  ResponseInv'
  BY DEF ResponseInv, Proper, Published, AnsweredRecord

\* What a goroutine holds stays published.
LEMMA KafkaKept ==
  ASSUME KafkaInv, accepted \subseteq accepted', UNCHANGED <<reports, poller>>
  PROVE  KafkaInv'
  BY DEF KafkaInv, AckedBy, ReliableAck

LEMMA AckKept ==
  ASSUME AckInv, accepted \subseteq accepted', UNCHANGED ackVars
  PROVE  AckInv'
  BY DEF AckInv, ackVars, Published, ReliableAck

LEMMA SessionKept ==
  ASSUME SessionInv, accepted \subseteq accepted', UNCHANGED <<pc, cur, todo>>
  PROVE  SessionInv'
  BY DEF SessionInv, AckedBy, ReliableAck

\* A proper response may be queued.
LEMMA Queued ==
  ASSUME TypeOK, ResponseInv, NEW s \in Sessions, NEW r \in Records, NEW kind \in {"ack", "error"},
         RespondToVehicle(s, r, kind), Proper(ResponseOf(r, kind), s), UNCHANGED accepted
  PROVE  SocketTypeOK' /\ ResponseInv'
<1> DEFINE x == ResponseOf(r, kind)
<1>1. x \in Responses
  BY ResponseOfType
<1> HIDE DEF x
<1>2. writeChan' = [writeChan EXCEPT ![s] = Append(@, x)] /\ UNCHANGED <<conn, writer, writing, stopped, deadline, wire>>
  BY DEF RespondToVehicle, x
<1>3. Proper(x, s)
  BY DEF x
<1>4. SocketTypeOK'
  BY <1>1, <1>2 DEF TypeOK, SocketTypeOK
<1>5. ResponseInv'
  <2> SUFFICES ASSUME NEW t \in Sessions
               PROVE  /\ (\A i \in 1..Len(writeChan[t]) : Proper(writeChan[t][i], t))'
                      /\ (\A i \in 1..Len(wire[t]) : Proper(wire[t][i], t))'
                      /\ (writing[t] # NoResponse => Proper(writing[t], t))'
    BY DEF ResponseInv
  <2>1. \A y : Proper(y, t)' <=> Proper(y, t)
    BY DEF Proper, Published, AnsweredRecord
  <2>2. writeChan \in [Sessions -> Seq(Responses)]
    BY DEF TypeOK, SocketTypeOK
  <2>3. \A i \in 1..Len(writeChan'[t]) : Proper(writeChan'[t][i], t)
    BY <1>1, <1>2, <1>3, <2>2 DEF ResponseInv
  <2> QED
    BY <1>2, <2>1, <2>3 DEF ResponseInv
<1> QED
  BY <1>4, <1>5
-----------------------------------------------------------------------------
(* Every step preserves the invariant *)

\* A new session is registered under its own UUID.
LEMMA AcceptStep ==
  ASSUME IInv, NEW s \in Sessions, Accept(s)
  PROVE  IInv'
<1> USE DEF IInv, TypeOK
<1>1. RegistryTypeOK' /\ RoutingInv'
  BY UUIDAssumption, SessionsAssumption DEF Accept, RegisterSocket, RegistryTypeOK, RoutingInv
<1>2. SocketTypeOK' /\ WriterInv'
  BY DEF Accept, SocketTypeOK, WriterInv
<1>3. ResponseInv'
  BY ResponsesKept DEF Accept, socketVars, producerVars
<1>4. ProducersTypeOK' /\ KafkaInv'
  BY KafkaKept DEF Accept, ProducersTypeOK, producerVars
<1>5. AckTypeOK' /\ AckInv'
  BY AckKept DEF Accept, AckTypeOK, ackVars, producerVars
<1>6. /\ cur'[s] \in Records /\ cur'[s].sess = s
     /\ cur' = [cur EXCEPT ![s] = cur'[s]]
     /\ pc' = [pc EXCEPT ![s] = "dispatch"]
  BY TopicAssumption DEF Accept, DispatchConnectivityEvent, SessionTypeOK, Records, TxTypes, Bodies
<1>7. SessionTypeOK'
  BY <1>6, RulesForType DEF Accept, DispatchConnectivityEvent, SessionTypeOK, PCs, Phases
<1>8. SessionInv'
  BY <1>6 DEF Accept, DispatchConnectivityEvent, SessionInv, SessionTypeOK, AckedBy, ReliableAck, producerVars
<1> QED
  BY <1>1, <1>2, <1>3, <1>4, <1>5, <1>6, <1>7, <1>8

\* A session without an identity never gets a record.
LEMMA RefuseIdentityStep ==
  ASSUME IInv, NEW s \in Sessions, RefuseIdentity(s)
  PROVE  IInv'
<1> USE DEF IInv, TypeOK
<1>1. RegistryTypeOK' /\ RoutingInv'
  BY DEF RefuseIdentity, RegistryTypeOK, RoutingInv, registryVars
<1>2. SocketTypeOK' /\ WriterInv'
  BY DEF RefuseIdentity, SocketTypeOK, WriterInv
<1>3. ResponseInv'
  BY ResponsesKept DEF RefuseIdentity, socketVars, producerVars
<1>4. ProducersTypeOK' /\ KafkaInv'
  BY KafkaKept DEF RefuseIdentity, ProducersTypeOK, producerVars
<1>5. AckTypeOK' /\ AckInv'
  BY AckKept DEF RefuseIdentity, AckTypeOK, ackVars, producerVars
<1>6. SessionTypeOK'
  BY DEF RefuseIdentity, SessionTypeOK, PCs, Phases
<1>7. SessionInv'
  BY DEF RefuseIdentity, SessionInv, SessionTypeOK, AckedBy, ReliableAck, producerVars
<1> QED
  BY <1>1, <1>2, <1>3, <1>4, <1>5, <1>6, <1>7

\* What ParseAndProcessRecord leaves behind when it first blocks.
LEMMA Parsed ==
  ASSUME IInv, NEW s \in Sessions, NEW m \in Messages, pc[s] = "read",
         ParseAndProcessRecord(s, m), UNCHANGED accepted
  PROVE  /\ pc' \in [Sessions -> PCs]
         /\ cur' \in [Sessions -> Records \cup {NoRecord}]
         /\ todo' \in [Sessions -> Seq(Dispatchers)]
         /\ SessionInv'
<1> DEFINE r == RecordOf(s, nread[s] + 1, m)
<1>1. nread[s] + 1 \in Nat
  BY LimitAssumption DEF IInv, TypeOK, SessionTypeOK
<1>2. r \in Records /\ r.sess = s /\ (NewRecordError(m) = "unknown_type" => r.txType = NoTopic)
  BY <1>1, RecordOfType
<1>3. /\ cur' = [cur EXCEPT ![s] = r]
      /\ todo' = [todo EXCEPT ![s] = RulesFor(r.txType)]
      /\ pc' = [pc EXCEPT ![s] = CASE NewRecordError(m) = "none"         -> "dispatch"
                                   [] NewRecordError(m) = "unknown_type" -> "guess"
                                   [] OTHER                              -> "reject"]
  BY DEF ParseAndProcessRecord
<1> HIDE DEF r
<1>4. /\ pc'[s] \in {"dispatch", "guess", "reject"}
      /\ pc'[s] = "guess" => NewRecordError(m) = "unknown_type"
      /\ pc' = [pc EXCEPT ![s] = pc'[s]]
  BY <1>3 DEF IInv, TypeOK, SessionTypeOK
<1>5. /\ pc' \in [Sessions -> PCs]
      /\ cur' \in [Sessions -> Records \cup {NoRecord}]
      /\ todo' \in [Sessions -> Seq(Dispatchers)]
  BY <1>2, <1>3, <1>4, RulesForType DEF IInv, TypeOK, SessionTypeOK, PCs
<1>6. SessionInv'
  BY <1>2, <1>3, <1>4 DEF IInv, TypeOK, SessionTypeOK, SessionInv, AckedBy, ReliableAck
<1> QED
  BY <1>5, <1>6

\* Reading a message gives the session a record of its own.
LEMMA ReadMessageStep ==
  ASSUME IInv, NEW s \in Sessions, NEW m \in Messages, ReadMessage(s, m)
  PROVE  IInv'
<1> USE DEF IInv, TypeOK
<1>1. RegistryTypeOK' /\ RoutingInv'
  BY DEF ReadMessage, RegistryTypeOK, RoutingInv, registryVars
<1>2. SocketTypeOK' /\ WriterInv'
  BY DEF ReadMessage, SocketTypeOK, WriterInv, socketVars
<1>3. ResponseInv'
  BY ResponsesKept DEF ReadMessage, socketVars, producerVars
<1>4. ProducersTypeOK' /\ KafkaInv'
  BY KafkaKept DEF ReadMessage, ProducersTypeOK, producerVars
<1>5. AckTypeOK' /\ AckInv'
  BY AckKept DEF ReadMessage, AckTypeOK, ackVars, producerVars
<1>6. pc[s] = "read" /\ ParseAndProcessRecord(s, m) /\ UNCHANGED accepted
  BY DEF ReadMessage, producerVars
<1>7. SessionTypeOK'
  <2>1. times' \in [Sessions -> 0..MessageLimit]
    BY LimitAssumption DEF ReadMessage, Try, SessionTypeOK
  <2>2. nread' \in [Sessions -> 0..MaxMessages]
    BY LimitAssumption DEF ReadMessage, SessionTypeOK
  <2> QED
    BY <1>6, <2>1, <2>2, Parsed DEF ReadMessage, SessionTypeOK
<1>8. SessionInv'
  BY <1>6, Parsed
<1> QED
  BY <1>1, <1>2, <1>3, <1>4, <1>5, <1>6, <1>7, <1>8

\* A message over the rate limit is dropped or processed like any other.
LEMMA ReadLimitedStep ==
  ASSUME IInv, NEW s \in Sessions, NEW m \in Messages, ReadLimited(s, m)
  PROVE  IInv'
<1> USE DEF IInv, TypeOK
<1>1. RegistryTypeOK' /\ RoutingInv'
  BY DEF ReadLimited, RegistryTypeOK, RoutingInv, registryVars
<1>2. SocketTypeOK' /\ WriterInv'
  BY DEF ReadLimited, SocketTypeOK, WriterInv, socketVars
<1>3. ResponseInv'
  BY ResponsesKept DEF ReadLimited, socketVars, producerVars
<1>4. ProducersTypeOK' /\ KafkaInv'
  BY KafkaKept DEF ReadLimited, ProducersTypeOK, producerVars
<1>5. AckTypeOK' /\ AckInv'
  BY AckKept DEF ReadLimited, AckTypeOK, ackVars, producerVars
<1>6. SessionTypeOK' /\ SessionInv'
  <2>1. nread' \in [Sessions -> 0..MaxMessages] /\ tracked' \subseteq Sessions \X (1..MaxMessages)
    BY LimitAssumption DEF ReadLimited, TrackSignalUsage, SessionTypeOK
  <2>2. CASE RateLimitEnabled
    BY <2>1, <2>2, SessionKept DEF ReadLimited, SessionTypeOK, producerVars
  <2>3. CASE ~RateLimitEnabled
    <3>1. pc[s] = "read" /\ ParseAndProcessRecord(s, m) /\ UNCHANGED accepted
      BY <2>3 DEF ReadLimited, producerVars
    <3> QED
      BY <2>1, <3>1, Parsed DEF ReadLimited, SessionTypeOK
  <2> QED
    BY <2>2, <2>3
<1> QED
  BY <1>1, <1>2, <1>3, <1>4, <1>5, <1>6

\* A failed read ends the loop.
LEMMA ReadErrorStep ==
  ASSUME IInv, NEW s \in Sessions, ReadError(s)
  PROVE  IInv'
<1> USE DEF IInv, TypeOK
<1>1. RegistryTypeOK' /\ RoutingInv'
  BY DEF ReadError, RegistryTypeOK, RoutingInv, registryVars
<1>2. SocketTypeOK' /\ WriterInv'
  BY DEF ReadError, SocketTypeOK, WriterInv, socketVars
<1>3. ResponseInv'
  BY ResponsesKept DEF ReadError, socketVars, producerVars
<1>4. ProducersTypeOK' /\ KafkaInv'
  BY KafkaKept DEF ReadError, ProducersTypeOK, producerVars
<1>5. AckTypeOK' /\ AckInv'
  BY AckKept DEF ReadError, AckTypeOK, ackVars, producerVars
<1>6. SessionTypeOK'
  BY DEF ReadError, SessionTypeOK, PCs, Phases
<1>7. SessionInv'
  BY DEF ReadError, SessionInv, SessionTypeOK, AckedBy, ReliableAck, producerVars
<1> QED
  BY <1>1, <1>2, <1>3, <1>4, <1>5, <1>6, <1>7

\* A message that is not binary ends the loop.
LEMMA ReadNotBinaryStep ==
  ASSUME IInv, NEW s \in Sessions, ReadNotBinary(s)
  PROVE  IInv'
<1> USE DEF IInv, TypeOK
<1>1. RegistryTypeOK' /\ RoutingInv'
  BY DEF ReadNotBinary, RegistryTypeOK, RoutingInv, registryVars
<1>2. SocketTypeOK' /\ WriterInv'
  BY DEF ReadNotBinary, SocketTypeOK, WriterInv, socketVars
<1>3. ResponseInv'
  BY ResponsesKept DEF ReadNotBinary, socketVars, producerVars
<1>4. ProducersTypeOK' /\ KafkaInv'
  BY KafkaKept DEF ReadNotBinary, ProducersTypeOK, producerVars
<1>5. AckTypeOK' /\ AckInv'
  BY AckKept DEF ReadNotBinary, AckTypeOK, ackVars, producerVars
<1>6. SessionTypeOK'
  BY DEF ReadNotBinary, SessionTypeOK, PCs, Phases
<1>7. SessionInv'
  BY DEF ReadNotBinary, SessionInv, SessionTypeOK, AckedBy, ReliableAck, producerVars
<1> QED
  BY <1>1, <1>2, <1>3, <1>4, <1>5, <1>6, <1>7

\* Closing the websocket.
LEMMA CloseSocketStep ==
  ASSUME IInv, NEW s \in Sessions, CloseSocket(s)
  PROVE  IInv'
<1> USE DEF IInv, TypeOK
<1>1. RegistryTypeOK' /\ RoutingInv'
  BY DEF CloseSocket, RegistryTypeOK, RoutingInv, registryVars
<1>2. SocketTypeOK' /\ WriterInv'
  BY DEF CloseSocket, SocketTypeOK, WriterInv, socketVars
<1>3. ResponseInv'
  BY ResponsesKept DEF CloseSocket, socketVars, producerVars
<1>4. ProducersTypeOK' /\ KafkaInv'
  BY KafkaKept DEF CloseSocket, ProducersTypeOK, producerVars
<1>5. AckTypeOK' /\ AckInv'
  BY AckKept DEF CloseSocket, AckTypeOK, ackVars, producerVars
<1>6. SessionTypeOK'
  BY DEF CloseSocket, SessionTypeOK, PCs, Phases
<1>7. SessionInv'
  BY DEF CloseSocket, SessionInv, SessionTypeOK, AckedBy, ReliableAck, producerVars
<1> QED
  BY <1>1, <1>2, <1>3, <1>4, <1>5, <1>6, <1>7

\* Closing the stop channel.
LEMMA CloseStopChanStep ==
  ASSUME IInv, NEW s \in Sessions, CloseStopChan(s)
  PROVE  IInv'
<1> USE DEF IInv, TypeOK
<1>1. RegistryTypeOK' /\ RoutingInv'
  BY DEF CloseStopChan, RegistryTypeOK, RoutingInv, registryVars
<1>2. SocketTypeOK' /\ WriterInv'
  BY DEF CloseStopChan, SocketTypeOK, WriterInv, socketVars
<1>3. ResponseInv'
  BY ResponsesKept DEF CloseStopChan, socketVars, producerVars
<1>4. ProducersTypeOK' /\ KafkaInv'
  BY KafkaKept DEF CloseStopChan, ProducersTypeOK, producerVars
<1>5. AckTypeOK' /\ AckInv'
  BY AckKept DEF CloseStopChan, AckTypeOK, ackVars, producerVars
<1>6. SessionTypeOK'
  BY DEF CloseStopChan, SessionTypeOK, PCs, Phases
<1>7. SessionInv'
  BY DEF CloseStopChan, SessionInv, SessionTypeOK, AckedBy, ReliableAck, producerVars
<1> QED
  BY <1>1, <1>2, <1>3, <1>4, <1>5, <1>6, <1>7

\* The handler returns.
LEMMA FinishStep ==
  ASSUME IInv, NEW s \in Sessions, Finish(s)
  PROVE  IInv'
<1> USE DEF IInv, TypeOK
<1>1. RegistryTypeOK' /\ RoutingInv'
  BY DEF Finish, RegistryTypeOK, RoutingInv, registryVars
<1>2. SocketTypeOK' /\ WriterInv'
  BY DEF Finish, SocketTypeOK, WriterInv, socketVars
<1>3. ResponseInv'
  BY ResponsesKept DEF Finish, socketVars, producerVars
<1>4. ProducersTypeOK' /\ KafkaInv'
  BY KafkaKept DEF Finish, ProducersTypeOK, producerVars
<1>5. AckTypeOK' /\ AckInv'
  BY AckKept DEF Finish, AckTypeOK, ackVars, producerVars
<1>6. SessionTypeOK'
  BY DEF Finish, SessionTypeOK, PCs, Phases
<1>7. SessionInv'
  BY DEF Finish, SessionInv, SessionTypeOK, AckedBy, ReliableAck, producerVars
<1> QED
  BY <1>1, <1>2, <1>3, <1>4, <1>5, <1>6, <1>7

\* The writer starts.
LEMMA StartTelemetryStep ==
  ASSUME IInv, NEW s \in Sessions, StartTelemetry(s)
  PROVE  IInv'
<1> USE DEF IInv, TypeOK
<1>1. RegistryTypeOK' /\ RoutingInv'
  BY DEF StartTelemetry, RegistryTypeOK, RoutingInv, registryVars
<1>2. SocketTypeOK' /\ WriterInv'
  BY DEF StartTelemetry, SocketTypeOK, WriterInv, socketVars
<1>3. ResponseInv'
  BY ResponsesKept DEF StartTelemetry, socketVars, producerVars
<1>4. ProducersTypeOK' /\ KafkaInv'
  BY KafkaKept DEF StartTelemetry, ProducersTypeOK, producerVars
<1>5. AckTypeOK' /\ AckInv'
  BY AckKept DEF StartTelemetry, AckTypeOK, ackVars, producerVars
<1>6. SessionTypeOK'
  BY DEF StartTelemetry, SessionTypeOK, PCs, Phases
<1>7. SessionInv'
  BY DEF StartTelemetry, SessionInv, SessionTypeOK, AckedBy, ReliableAck, producerVars
<1> QED
  BY <1>1, <1>2, <1>3, <1>4, <1>5, <1>6, <1>7

\* Only a record that no dispatcher acks is answered at once.
LEMMA DispatchedStep ==
  ASSUME IInv, NEW s \in Sessions, Dispatched(s)
  PROVE  IInv'
<1> USE DEF IInv, TypeOK
<1>1. RegistryTypeOK' /\ RoutingInv'
  BY DEF Dispatched, RegistryTypeOK, RoutingInv, registryVars
<1>2. SocketTypeOK' /\ WriterInv'
  BY DEF Dispatched, SocketTypeOK, WriterInv, socketVars
<1>3. ResponseInv'
  BY ResponsesKept DEF Dispatched, socketVars, producerVars
<1>4. ProducersTypeOK' /\ KafkaInv'
  BY KafkaKept DEF Dispatched, ProducersTypeOK, producerVars
<1>5. AckTypeOK' /\ AckInv'
  BY AckKept DEF Dispatched, AckTypeOK, ackVars, producerVars
<1>6. SessionTypeOK'
  BY DEF Dispatched, SessionTypeOK, PCs, Phases
<1>7. SessionInv'
  BY DEF Dispatched, SessionInv, SessionTypeOK, AckedBy, ReliableAck, producerVars
<1> QED
  BY <1>1, <1>2, <1>3, <1>4, <1>5, <1>6, <1>7

\* The session queues an error, or an ack that needs no dispatcher.
LEMMA RespondStep ==
  ASSUME IInv, NEW s \in Sessions, Respond(s)
  PROVE  IInv'
<1> USE DEF IInv, TypeOK
<1>1. RegistryTypeOK' /\ RoutingInv'
  BY DEF Respond, RegistryTypeOK, RoutingInv, registryVars
<1>2. cur[s] \in Records /\ cur[s].sess = s
  BY DEF Respond, SessionInv
<1>3. PICK k \in {"ack", "error"} :
       /\ RespondToVehicle(s, cur[s], k)
       /\ k = "ack" => ~ReliableAck(cur[s].txType)
  BY ReliableTopics DEF Respond, SessionInv
<1>4. Proper(ResponseOf(cur[s], k), s)
  BY <1>2, <1>3, ResponseOfType DEF Proper
<1>5. SocketTypeOK' /\ ResponseInv'
  BY <1>2, <1>3, <1>4, Queued DEF Respond, producerVars
<1>6. WriterInv'
  BY DEF Respond, RespondToVehicle, WriterInv
<1>7. ProducersTypeOK' /\ KafkaInv'
  BY KafkaKept DEF Respond, ProducersTypeOK, producerVars
<1>8. AckTypeOK' /\ AckInv'
  BY AckKept DEF Respond, AckTypeOK, ackVars, producerVars
<1>9. SessionTypeOK'
  BY DEF Respond, SessionTypeOK, PCs, Phases
<1>10. SessionInv'
  BY DEF Respond, SessionInv, SessionTypeOK, AckedBy, ReliableAck, producerVars
<1> QED
  BY <1>1, <1>2, <1>3, <1>4, <1>5, <1>6, <1>7, <1>8, <1>9, <1>10

\* A published record of a reliable type is held for handleAcks.
LEMMA ProduceSyncStep ==
  ASSUME IInv, NEW s \in Sessions, ProduceSync(s)
  PROVE  IInv'
<1> USE DEF IInv, TypeOK
<1>1. RegistryTypeOK' /\ RoutingInv'
  BY DEF ProduceSync, RegistryTypeOK, RoutingInv, registryVars
<1>2. SocketTypeOK' /\ WriterInv'
  BY DEF ProduceSync, SocketTypeOK, WriterInv, socketVars
<1>3. cur[s] \in Records /\ Head(todo[s]) \in Dispatchers /\ Tail(todo[s]) \in Seq(Dispatchers)
  <2>1. todo[s] \in Seq(Dispatchers) /\ todo[s] # << >>
    BY DEF ProduceSync, SessionTypeOK
  <2>2. cur[s] \in Records
    BY DEF ProduceSync, SessionInv
  <2> QED
    BY <2>1, <2>2
<1>4. accepted' = accepted \cup {<<Head(todo[s]), cur[s]>>}
  BY DEF ProduceSync, SyncProduced
<1>5. ResponseInv'
  BY <1>4, ResponsesKept DEF ProduceSync, socketVars
<1>6. ProducersTypeOK' /\ KafkaInv'
  BY <1>3, <1>4, KafkaKept DEF ProduceSync, SyncProduced, ProducersTypeOK
<1>7. AckTypeOK' /\ AckInv'
  BY <1>4, AckKept DEF ProduceSync, AckTypeOK, ackVars
<1>8. SessionTypeOK'
  BY <1>3 DEF ProduceSync, SessionTypeOK, PCs
<1>9. SessionInv'
  <2>1. CASE AckedBy(Head(todo[s]), cur[s].txType)
    <3>1. /\ pc' = [pc EXCEPT ![s] = "ackwait"] /\ UNCHANGED <<todo, cur>>
          /\ pc[s] = "dispatch" /\ todo[s] # << >>
      BY <2>1 DEF ProduceSync
    <3> QED
      BY <1>4, <2>1, <3>1 DEF SessionInv, SessionTypeOK, AckedBy, ReliableAck
  <2>2. CASE ~AckedBy(Head(todo[s]), cur[s].txType)
    <3>1. /\ todo' = [todo EXCEPT ![s] = Tail(@)] /\ UNCHANGED <<pc, cur>>
          /\ pc[s] = "dispatch"
      BY <2>2 DEF ProduceSync
    <3> QED
      BY <1>4, <3>1 DEF SessionInv, SessionTypeOK, AckedBy, ReliableAck
  <2> QED
    BY <2>1, <2>2
<1> QED
  BY <1>1, <1>2, <1>3, <1>4, <1>5, <1>6, <1>7, <1>8, <1>9

\* A failed publish leaves nothing to ack.
LEMMA ProduceSyncErrorStep ==
  ASSUME IInv, NEW s \in Sessions, ProduceSyncError(s)
  PROVE  IInv'
<1> USE DEF IInv, TypeOK
<1>1. RegistryTypeOK' /\ RoutingInv'
  BY DEF ProduceSyncError, RegistryTypeOK, RoutingInv, registryVars
<1>2. SocketTypeOK' /\ WriterInv'
  BY DEF ProduceSyncError, SocketTypeOK, WriterInv, socketVars
<1>3. ResponseInv'
  BY ResponsesKept DEF ProduceSyncError, socketVars, producerVars
<1>4. ProducersTypeOK' /\ KafkaInv'
  BY KafkaKept DEF ProduceSyncError, ProducersTypeOK, producerVars
<1>5. AckTypeOK' /\ AckInv'
  BY AckKept DEF ProduceSyncError, AckTypeOK, ackVars, producerVars
<1>6. SessionTypeOK'
  BY DEF ProduceSyncError, SessionTypeOK, PCs, Phases
<1>7. SessionInv'
  BY DEF ProduceSyncError, SessionInv, SessionTypeOK, AckedBy, ReliableAck, producerVars
<1> QED
  BY <1>1, <1>2, <1>3, <1>4, <1>5, <1>6, <1>7

\* A record is queued for Kafka.
LEMMA ProduceKafkaStep ==
  ASSUME IInv, NEW s \in Sessions, ProduceKafka(s)
  PROVE  IInv'
<1> USE DEF IInv, TypeOK
<1>1. RegistryTypeOK' /\ RoutingInv'
  BY DEF ProduceKafka, RegistryTypeOK, RoutingInv, registryVars
<1>2. SocketTypeOK' /\ WriterInv'
  BY DEF ProduceKafka, SocketTypeOK, WriterInv, socketVars
<1>3. UNCHANGED <<reports, poller, accepted>>
  BY DEF ProduceKafka, KafkaProduce
<1>4. ResponseInv'
  BY <1>3, ResponsesKept DEF ProduceKafka, socketVars
<1>5. ProducersTypeOK' /\ KafkaInv'
  BY <1>3, KafkaKept DEF ProduceKafka, KafkaProduce, ProducersTypeOK, SessionInv
<1>6. AckTypeOK' /\ AckInv'
  BY <1>3, AckKept DEF ProduceKafka, AckTypeOK, ackVars
<1>7. SessionTypeOK'
  BY DEF ProduceKafka, SessionTypeOK
<1>8. SessionInv'
  BY <1>3 DEF ProduceKafka, SessionInv, SessionTypeOK, AckedBy, ReliableAck
<1> QED
  BY <1>1, <1>2, <1>3, <1>4, <1>5, <1>6, <1>7, <1>8

\* Deregistration removes the entry and starts the DISCONNECTED event.
LEMMA DeregisterStep ==
  ASSUME IInv, NEW s \in Sessions, Deregister(s)
  PROVE  IInv'
<1> USE DEF IInv, TypeOK
<1>1. RegistryTypeOK' /\ RoutingInv'
  BY UUIDAssumption, SessionsAssumption DEF Deregister, DeregisterSocket, RegistryTypeOK, RoutingInv
<1>2. SocketTypeOK' /\ WriterInv'
  BY DEF Deregister, SocketTypeOK, WriterInv, socketVars
<1>3. ResponseInv'
  BY ResponsesKept DEF Deregister, socketVars, producerVars
<1>4. ProducersTypeOK' /\ KafkaInv'
  BY KafkaKept DEF Deregister, ProducersTypeOK, producerVars
<1>5. AckTypeOK' /\ AckInv'
  BY AckKept DEF Deregister, AckTypeOK, ackVars, producerVars
<1>6. /\ cur'[s] \in Records /\ cur'[s].sess = s
     /\ cur' = [cur EXCEPT ![s] = cur'[s]]
     /\ pc' = [pc EXCEPT ![s] = "dispatch"]
  BY TopicAssumption DEF Deregister, DispatchConnectivityEvent, SessionTypeOK, Records, TxTypes, Bodies
<1>7. SessionTypeOK'
  BY <1>6, RulesForType DEF Deregister, DispatchConnectivityEvent, SessionTypeOK, PCs, Phases
<1>8. SessionInv'
  BY <1>6 DEF Deregister, DispatchConnectivityEvent, SessionInv, SessionTypeOK, AckedBy, ReliableAck, producerVars
<1> QED
  BY <1>1, <1>2, <1>3, <1>4, <1>5, <1>6, <1>7, <1>8

\* handleAcks takes a published record from a session.
LEMMA AckFromSessionStep ==
  ASSUME IInv, NEW s \in Sessions, AckFromSession(s)
  PROVE  IInv'
<1> USE DEF IInv, TypeOK
<1>1. RegistryTypeOK' /\ RoutingInv'
  BY DEF AckFromSession, RegistryTypeOK, RoutingInv, registryVars
<1>2. SocketTypeOK' /\ WriterInv'
  BY DEF AckFromSession, SocketTypeOK, WriterInv, socketVars
<1>3. ResponseInv'
  BY ResponsesKept DEF AckFromSession, socketVars, producerVars
<1>4. ProducersTypeOK' /\ KafkaInv'
  BY KafkaKept DEF AckFromSession, ProducersTypeOK, producerVars
<1>5. /\ cur[s] \in Records /\ ReliableAck(cur[s].txType) /\ Published(cur[s])
     /\ Tail(todo[s]) \in Seq(Dispatchers)
  <2>1. /\ cur[s] \in Records /\ todo[s] # << >>
        /\ AckedBy(Head(todo[s]), cur[s].txType)
        /\ <<Head(todo[s]), cur[s]>> \in accepted
    BY DEF AckFromSession, SessionInv
  <2>2. todo[s] \in Seq(Dispatchers)
    BY DEF SessionTypeOK
  <2>3. Tail(todo[s]) \in Seq(Dispatchers)
    BY <2>1, <2>2
  <2> QED
    BY <2>1, <2>3 DEF AckedBy, Published
<1>6. AckTypeOK' /\ AckInv'
  BY <1>5 DEF AckFromSession, AckTypeOK, AckInv, Published, ReliableAck, producerVars
<1>7. SessionTypeOK'
  BY <1>5 DEF AckFromSession, SessionTypeOK, PCs
<1>8. SessionInv'
  BY DEF AckFromSession, SessionInv, SessionTypeOK, AckedBy, ReliableAck, producerVars
<1> QED
  BY <1>1, <1>2, <1>3, <1>4, <1>5, <1>6, <1>7, <1>8

\* handleAcks takes a stored record from the Kafka goroutine.
LEMMA AckFromKafkaStep ==
  ASSUME IInv, AckFromKafka
  PROVE  IInv'
<1> USE DEF IInv, TypeOK
<1>1. RegistryTypeOK' /\ RoutingInv'
  BY DEF AckFromKafka, RegistryTypeOK, RoutingInv, registryVars
<1>2. SocketTypeOK' /\ WriterInv'
  BY DEF AckFromKafka, SocketTypeOK, WriterInv, socketVars
<1>3. ResponseInv'
  BY ResponsesKept DEF AckFromKafka, socketVars, producerVars
<1>4. ProducersTypeOK' /\ KafkaInv'
  BY DEF AckFromKafka, ProducersTypeOK, KafkaInv
<1>5. AckTypeOK' /\ AckInv'
  BY DEF AckFromKafka, ProducersTypeOK, KafkaInv, AckTypeOK, AckInv, Published, AckedBy, ReliableAck
<1>6. SessionTypeOK'
  BY DEF AckFromKafka, SessionTypeOK, sessionVars
<1>7. SessionInv'
  BY SessionKept DEF AckFromKafka, sessionVars
<1> QED
  BY <1>1, <1>2, <1>3, <1>4, <1>5, <1>6, <1>7

\* The registry returns a socket of the record's UUID.
LEMMA AckLookupStep ==
  ASSUME IInv, AckLookup
  PROVE  IInv'
<1> USE DEF IInv, TypeOK
<1>1. RegistryTypeOK' /\ RoutingInv'
  BY DEF AckLookup, RegistryTypeOK, RoutingInv, registryVars
<1>2. SocketTypeOK' /\ WriterInv'
  BY DEF AckLookup, SocketTypeOK, WriterInv, socketVars
<1>3. ResponseInv'
  BY ResponsesKept DEF AckLookup, socketVars, producerVars
<1>4. ProducersTypeOK' /\ KafkaInv'
  BY KafkaKept DEF AckLookup, ProducersTypeOK, producerVars
<1>5. /\ ackRec \in Records /\ ackRec.sess \in Sessions
     /\ ReliableAck(ackRec.txType) /\ Published(ackRec)
  BY DEF AckLookup, AckInv, Records
<1>6. UUID[ackRec.sess] \in UUIDs
  BY <1>5, UUIDAssumption
<1>7. AckTypeOK' /\ AckInv'
  BY <1>5, <1>6 DEF AckLookup, GetSocket, RegistryTypeOK, RoutingInv, AckTypeOK, AckInv, Published, ReliableAck, producerVars
<1>8. SessionTypeOK'
  BY DEF AckLookup, SessionTypeOK, sessionVars
<1>9. SessionInv'
  BY SessionKept DEF AckLookup, sessionVars, producerVars
<1> QED
  BY <1>1, <1>2, <1>3, <1>4, <1>5, <1>6, <1>7, <1>8, <1>9

\* handleAcks queues an ack the dispatcher stands behind.
LEMMA AckRespondStep ==
  ASSUME IInv, AckRespond
  PROVE  IInv'
<1> USE DEF IInv, TypeOK
<1>1. RegistryTypeOK' /\ RoutingInv'
  BY DEF AckRespond, RegistryTypeOK, RoutingInv, registryVars
<1>2. /\ ackRec \in Records /\ ackSock \in Sessions /\ UUID[ackRec.sess] = UUID[ackSock]
     /\ ReliableAck(ackRec.txType) /\ Published(ackRec)
  BY DEF AckRespond, AckInv
<1>3. Proper(ResponseOf(ackRec, "ack"), ackSock)
  BY <1>2, ResponseOfType DEF Proper
<1>4. SocketTypeOK' /\ ResponseInv'
  BY <1>2, <1>3, Queued DEF AckRespond, producerVars
<1>5. WriterInv'
  BY DEF AckRespond, RespondToVehicle, WriterInv
<1>6. ProducersTypeOK' /\ KafkaInv'
  BY KafkaKept DEF AckRespond, ProducersTypeOK, producerVars
<1>7. AckTypeOK' /\ AckInv'
  BY DEF AckRespond, AckTypeOK, AckInv
<1>8. SessionTypeOK'
  BY DEF AckRespond, SessionTypeOK, sessionVars
<1>9. SessionInv'
  BY SessionKept DEF AckRespond, sessionVars, producerVars
<1> QED
  BY <1>1, <1>2, <1>3, <1>4, <1>5, <1>6, <1>7, <1>8, <1>9

\* A report is successful only if the broker stored the record.
LEMMA KafkaBrokerStep ==
  ASSUME IInv, KafkaBroker
  PROVE  IInv'
<1> USE DEF IInv, TypeOK
<1>1. RegistryTypeOK' /\ RoutingInv'
  BY DEF KafkaBroker, RegistryTypeOK, RoutingInv, registryVars
<1>2. SocketTypeOK' /\ WriterInv'
  BY DEF KafkaBroker, SocketTypeOK, WriterInv, socketVars
<1>3. PICK r \in inflight, ok \in BOOLEAN : BrokerResult(r, ok)
  BY DEF KafkaBroker
<1>4. accepted \subseteq accepted' /\ r \in Records /\ (ok => <<Kafka, r>> \in accepted')
  BY <1>3 DEF BrokerResult, ProducersTypeOK
<1>5. ResponseInv'
  BY <1>4, ResponsesKept DEF KafkaBroker, socketVars
<1>6. ProducersTypeOK'
  BY <1>3, <1>4, KafkaAssumption DEF BrokerResult, ProducersTypeOK, Reports
<1>7. KafkaInv'
  BY <1>3, <1>4 DEF BrokerResult, KafkaInv, AckedBy, ReliableAck
<1>8. AckTypeOK' /\ AckInv'
  BY <1>4, AckKept DEF KafkaBroker, AckTypeOK, ackVars
<1>9. SessionTypeOK'
  BY DEF KafkaBroker, SessionTypeOK, sessionVars
<1>10. SessionInv'
  BY <1>4, SessionKept DEF KafkaBroker, sessionVars
<1> QED
  BY <1>1, <1>2, <1>3, <1>4, <1>5, <1>6, <1>7, <1>8, <1>9, <1>10

\* The Kafka goroutine only acks successful reports.
LEMMA KafkaEventsStep ==
  ASSUME IInv, KafkaEvents
  PROVE  IInv'
<1> USE DEF IInv, TypeOK
<1>1. RegistryTypeOK' /\ RoutingInv'
  BY DEF KafkaEvents, RegistryTypeOK, RoutingInv, registryVars
<1>2. SocketTypeOK' /\ WriterInv'
  BY DEF KafkaEvents, SocketTypeOK, WriterInv, socketVars
<1>3. PICK rp \in reports : HandleProducerEvent(rp)
  BY DEF KafkaEvents
<1>4. UNCHANGED <<inflight, accepted>>
  BY <1>3 DEF HandleProducerEvent
<1>5. ResponseInv'
  BY <1>4, ResponsesKept DEF KafkaEvents, socketVars
<1>6. ProducersTypeOK' /\ KafkaInv'
  BY <1>3, <1>4 DEF HandleProducerEvent, ProducersTypeOK, Reports, KafkaInv, AckedBy, ReliableAck
<1>7. AckTypeOK' /\ AckInv'
  BY <1>4, AckKept DEF KafkaEvents, AckTypeOK, ackVars
<1>8. SessionTypeOK'
  BY DEF KafkaEvents, SessionTypeOK, sessionVars
<1>9. SessionInv'
  BY <1>4, SessionKept DEF KafkaEvents, sessionVars
<1> QED
  BY <1>1, <1>2, <1>3, <1>4, <1>5, <1>6, <1>7, <1>8, <1>9

\* The vehicle leaves.
LEMMA LeaveStep ==
  ASSUME IInv, NEW s \in Sessions, Leave(s)
  PROVE  IInv'
<1> USE DEF IInv, TypeOK
<1>1. RegistryTypeOK' /\ RoutingInv'
  BY DEF Leave, RegistryTypeOK, RoutingInv, registryVars
<1>2. SocketTypeOK' /\ WriterInv'
  BY DEF Leave, VehicleLeaves, SocketTypeOK, WriterInv
<1>3. ResponseInv'
  BY ResponsesKept DEF Leave, VehicleLeaves, producerVars
<1>4. ProducersTypeOK' /\ KafkaInv'
  BY KafkaKept DEF Leave, ProducersTypeOK, producerVars
<1>5. AckTypeOK' /\ AckInv'
  BY AckKept DEF Leave, AckTypeOK, ackVars, producerVars
<1>6. SessionTypeOK'
  BY DEF Leave, SessionTypeOK, sessionVars
<1>7. SessionInv'
  BY SessionKept DEF Leave, sessionVars, producerVars
<1> QED
  BY <1>1, <1>2, <1>3, <1>4, <1>5, <1>6, <1>7

\* The writer only moves responses from the channel to the wire.
LEMMA WriterStepStep ==
  ASSUME IInv, NEW s \in Sessions, WriterStep(s)
  PROVE  IInv'
<1> USE DEF IInv, TypeOK
<1>1. RegistryTypeOK' /\ RoutingInv'
  BY DEF WriterStep, RegistryTypeOK, RoutingInv, registryVars
<1>2. SocketTypeOK' /\ WriterInv' /\ ResponseInv'
  <2> USE DEF SocketTypeOK
  <2>1. \A x, t : Proper(x, t)' <=> Proper(x, t)
    BY DEF WriterStep, producerVars, Proper, Published
  <2>2. CASE WriterTake(s)
    <3>1. /\ Head(writeChan[s]) \in Responses /\ Tail(writeChan[s]) \in Seq(Responses)
          /\ Head(writeChan[s]) = writeChan[s][1] /\ 1 \in 1..Len(writeChan[s])
          /\ \A i \in 1..Len(Tail(writeChan[s])) :
                i + 1 \in 1..Len(writeChan[s]) /\ Tail(writeChan[s])[i] = writeChan[s][i + 1]
      BY <2>2 DEF WriterTake
    <3>2. SocketTypeOK' /\ WriterInv'
      BY <2>2, <3>1 DEF WriterTake, WriterInv
    <3>3. ResponseInv'
      BY <2>1, <2>2, <3>1 DEF WriterTake, ResponseInv
    <3> QED
      BY <3>2, <3>3
  <2>3. CASE WriteMessage(s)
    <3>1. writing[s] \in Responses /\ Proper(writing[s], s)
      BY <2>3, NoResponseAssumption DEF WriteMessage, WriterInv, ResponseInv
    <3>2. SocketTypeOK' /\ WriterInv'
      BY <2>3, <3>1 DEF WriteMessage, WriterInv
    <3>3. ResponseInv'
      BY <2>1, <2>3, <3>1 DEF WriteMessage, ResponseInv
    <3> QED
      BY <3>2, <3>3
  <2>4. CASE WriteError(s) \/ WriterStop(s)
    <3>1. WriterExit(s)
      BY <2>4 DEF WriteError, WriterStop
    <3>2. SocketTypeOK' /\ WriterInv'
      BY <3>1 DEF WriterExit, WriterInv
    <3>3. ResponseInv'
      BY <2>1, <3>1 DEF WriterExit, ResponseInv
    <3> QED
      BY <3>2, <3>3
  <2> QED
    BY <2>2, <2>3, <2>4 DEF WriterStep, Writer
<1>3. ProducersTypeOK' /\ KafkaInv'
  BY KafkaKept DEF WriterStep, ProducersTypeOK, producerVars
<1>4. AckTypeOK' /\ AckInv'
  BY AckKept DEF WriterStep, AckTypeOK, ackVars, producerVars
<1>5. SessionTypeOK'
  BY DEF WriterStep, SessionTypeOK, sessionVars
<1>6. SessionInv'
  BY SessionKept DEF WriterStep, sessionVars, producerVars
<1> QED
  BY <1>1, <1>2, <1>3, <1>4, <1>5, <1>6

-----------------------------------------------------------------------------
(* The theorems *)

\* The initial state satisfies the invariant.
LEMMA InitIInv == Init => IInv
<1> SUFFICES ASSUME Init PROVE IInv
  OBVIOUS
<1> USE DEF Init, RegistryInit, SocketInit, ProducersInit
<1>1. TypeOK
  BY LimitAssumption DEF TypeOK, RegistryTypeOK, SocketTypeOK, ProducersTypeOK,
     SessionTypeOK, AckTypeOK, PCs, Phases
<1>2. SessionInv /\ KafkaInv /\ AckInv /\ RoutingInv /\ WriterInv /\ ResponseInv
  BY DEF SessionInv, KafkaInv, AckInv, RoutingInv, WriterInv, ResponseInv
<1> QED
  BY <1>1, <1>2 DEF IInv

\* Every step of every goroutine preserves the invariant.
LEMMA NextIInv == IInv /\ [Next]_vars => IInv'
<1> SUFFICES ASSUME IInv, [Next]_vars PROVE IInv'
  OBVIOUS
<1>1. ASSUME NEW s \in Sessions, Accept(s) \/ RefuseIdentity(s) \/ Leave(s) \/ ReadNotBinary(s)
      PROVE  IInv'
  BY <1>1, AcceptStep, RefuseIdentityStep, LeaveStep, ReadNotBinaryStep
<1>2. ASSUME NEW s \in Sessions, NEW m \in Inputs, ReadMessage(s, m) \/ ReadLimited(s, m)
      PROVE  IInv'
  BY <1>2, InputsAssumption, ReadMessageStep, ReadLimitedStep
<1>3. ASSUME NEW s \in Sessions, SessionStep(s)
      PROVE  IInv'
  BY <1>3, ReadErrorStep, RespondStep, ProduceSyncStep, ProduceSyncErrorStep,
     ProduceKafkaStep, StartTelemetryStep, DispatchedStep, CloseSocketStep,
     CloseStopChanStep, DeregisterStep, FinishStep DEF SessionStep
<1>4. ASSUME NEW s \in Sessions, WriterStep(s) PROVE IInv'
  BY <1>4, WriterStepStep
<1>5. CASE AckStep
  BY <1>5, AckFromSessionStep, AckFromKafkaStep, AckLookupStep, AckRespondStep DEF AckStep
<1>6. CASE KafkaBroker \/ KafkaEvents
  BY <1>6, KafkaBrokerStep, KafkaEventsStep
<1>7. CASE UNCHANGED vars
  <2> USE <1>7 DEF vars, registryVars, socketVars, producerVars, sessionVars, ackVars
  <2>1. TypeOK'
    BY DEF IInv, TypeOK, RegistryTypeOK, SocketTypeOK, ProducersTypeOK, SessionTypeOK, AckTypeOK
  <2>2. SessionInv' /\ KafkaInv' /\ AckInv' /\ ResponseInv'
    BY SessionKept, KafkaKept, AckKept, ResponsesKept DEF IInv
  <2>3. RoutingInv' /\ WriterInv'
    BY DEF IInv, RoutingInv, WriterInv
  <2> QED
    BY <2>1, <2>2, <2>3 DEF IInv
<1> QED
  BY <1>1, <1>2, <1>3, <1>4, <1>5, <1>6, <1>7 DEF Next, Quiescent

\* The invariant holds in every reachable state.
THEOREM Invariance == Spec => []IInv
  BY InitIInv, NextIInv, PTL DEF Spec

\* Every variable of the server keeps its type, whatever the interleaving.
THEOREM TypeCorrect == Spec => []TypeOK
<1>1. IInv => TypeOK
  BY DEF IInv
<1> QED
  BY <1>1, Invariance, PTL

\* An ack of a reliable record type only ever leaves for a vehicle after the
\* configured dispatcher has published the record, through a synchronous
\* Produce as well as through Kafka's delivery reports and handleAcks.
THEOREM ReliableAckCorrect == Spec => []ReliableAckAfterPublish
<1>1. IInv => ReliableAckAfterPublish
  BY DEF IInv, ResponseInv, Proper, ReliableAckAfterPublish, ResponsesAt, InSeq
<1> QED
  BY <1>1, Invariance, PTL

\* A response only ever goes to a session with the UUID of the session whose
\* record it answers, also when handleAcks uses a lookup that has gone stale.
THEOREM AnswersOnOwnUUID == Spec => []AnsweredOnOwnUUID
<1>1. IInv => AnsweredOnOwnUUID
  BY DEF IInv, ResponseInv, Proper, AnsweredOnOwnUUID, ResponsesAt, InSeq
<1> QED
  BY <1>1, Invariance, PTL
-----------------------------------------------------------------------------
(* The registry *)

\* The handler of a session runs ServeBinaryWs once, in order.
PhaseInv ==
  \A s \in Sessions :
    /\ pc[s] = "unborn" => phase[s] = "none"
    /\ pc[s] \in {"read", "reject", "guess", "respond", "closing", "stopping", "deregister"} =>
          phase[s] = "serve"

RegInv == PhaseInv /\ RegistryConsistent

\* The sessions between RegisterSocket and DeregisterSocket.
LEMMA RegisteredFinite ==
  /\ IsFiniteSet({s \in Sessions : Registered(s)})
  /\ Cardinality({s \in Sessions : Registered(s)}) \in Nat
<1>1. IsFiniteSet({s \in Sessions : Registered(s)})
  BY SessionsAssumption, FS_Subset
<1> QED
  BY <1>1, FS_CardinalityType

\* Steps that register nobody leave the registry as it is.
LEMMA RegistryKept ==
  ASSUME RegistryConsistent, UNCHANGED registryVars,
         \A s \in Sessions : Registered(s)' <=> Registered(s),
         RegistryTypeOK
  PROVE  RegistryConsistent'
<1>1. {s \in Sessions : Registered(s)}' = {s \in Sessions : Registered(s)}
  OBVIOUS
<1>2. counter' = Cardinality({s \in Sessions : Registered(s)}')
  BY <1>1 DEF RegistryConsistent, registryVars
<1>3. \A u \in UUIDs : sockets[u] # NoSession => sockets[u] \in Sessions
  BY DEF RegistryTypeOK
<1>4. \A u \in UUIDs : sockets'[u] # NoSession => Registered(sockets[u])' /\ UUID[sockets'[u]] = u
  BY <1>3 DEF RegistryConsistent, registryVars
<1> QED
  BY <1>2, <1>4 DEF RegistryConsistent, registryVars, Registered

LEMMA AcceptRegistry ==
  ASSUME IInv, RegInv, NEW s \in Sessions, Accept(s)
  PROVE  RegInv'
<1> DEFINE R == {t \in Sessions : Registered(t)}
<1>1. /\ pc' = [pc EXCEPT ![s] = "dispatch"] /\ phase' = [phase EXCEPT ![s] = "up"]
      /\ sockets' = [sockets EXCEPT ![UUID[s]] = s] /\ counter' = counter + 1
      /\ phase[s] = "none"
  BY DEF Accept, DispatchConnectivityEvent, RegisterSocket, RegInv, PhaseInv
<1>2. PhaseInv'
  BY <1>1 DEF RegInv, PhaseInv, IInv, TypeOK, SessionTypeOK
<1>3. s \notin R /\ R' = R \cup {s}
  BY <1>1 DEF Registered, IInv, TypeOK, SessionTypeOK
<1>4. Cardinality(R') = Cardinality(R) + 1
  BY <1>3, RegisteredFinite, FS_AddElement
<1>5. \A u \in UUIDs : sockets'[u] # NoSession => sockets'[u] \in R' /\ UUID[sockets'[u]] = u
  BY <1>1, <1>3, UUIDAssumption DEF RegInv, RegistryConsistent, IInv, TypeOK, RegistryTypeOK
<1>6. RegistryConsistent'
  BY <1>1, <1>4, <1>5 DEF RegInv, RegistryConsistent
<1> QED
  BY <1>2, <1>6 DEF RegInv

LEMMA DeregisterRegistry ==
  ASSUME IInv, RegInv, NEW s \in Sessions, Deregister(s)
  PROVE  RegInv'
<1> DEFINE R == {t \in Sessions : Registered(t)}
<1>1. /\ pc' = [pc EXCEPT ![s] = "dispatch"] /\ phase' = [phase EXCEPT ![s] = "down"]
      /\ sockets' = [sockets EXCEPT ![UUID[s]] = NoSession]
      /\ counter' = IF counter > 0 THEN counter - 1 ELSE counter
      /\ phase[s] = "serve"
  BY DEF Deregister, DispatchConnectivityEvent, DeregisterSocket, RegInv, PhaseInv
<1>2. PhaseInv'
  BY <1>1 DEF RegInv, PhaseInv, IInv, TypeOK, SessionTypeOK
<1>3. s \in R /\ R' = R \ {s}
  BY <1>1 DEF Registered, IInv, TypeOK, SessionTypeOK
<1>4. Cardinality(R') = Cardinality(R) - 1 /\ Cardinality(R) \in Nat /\ Cardinality(R) # 0
  <2>1. IsFiniteSet(R) /\ Cardinality(R) \in Nat
    BY RegisteredFinite
  <2>2. Cardinality(R \ {s}) = Cardinality(R) - 1
    BY <1>3, <2>1, FS_RemoveElement
  <2>3. Cardinality(R) # 0
    BY <1>3, <2>1, FS_EmptySet
  <2> QED
    BY <1>3, <2>1, <2>2, <2>3
<1>5. \A u \in UUIDs : sockets'[u] # NoSession => sockets'[u] \in R' /\ UUID[sockets'[u]] = u
  BY <1>1, <1>3, UUIDAssumption DEF RegInv, RegistryConsistent, IInv, TypeOK, RegistryTypeOK
<1>6. counter' = Cardinality(R')
  BY <1>1, <1>4 DEF RegInv, RegistryConsistent
<1>7. RegistryConsistent'
  BY <1>5, <1>6 DEF RegistryConsistent
<1> QED
  BY <1>2, <1>7 DEF RegInv

\* No other step touches the registry or moves a session in or out of it.
LEMMA OtherRegistry ==
  ASSUME IInv, RegInv, [Next]_vars,
         \A s \in Sessions : ~Accept(s) /\ ~Deregister(s)
  PROVE  RegInv'
<1> USE DEF IInv, TypeOK, SessionTypeOK, RegInv, PhaseInv
<1> DEFINE Kept == /\ UNCHANGED registryVars
                   /\ \A s \in Sessions : Registered(s)' <=> Registered(s)
                   /\ PhaseInv'
<1>1. ASSUME NEW s \in Sessions, RefuseIdentity(s) \/ ReadNotBinary(s) \/ ReadError(s) \/ Respond(s)
      PROVE  Kept
  BY <1>1 DEF RefuseIdentity, ReadNotBinary, ReadError, Respond, Registered
<1>2. ASSUME NEW s \in Sessions, NEW m \in Inputs, ReadMessage(s, m)
      PROVE  Kept
  BY <1>2 DEF ReadMessage, ParseAndProcessRecord, Registered
<1>3. ASSUME NEW s \in Sessions, NEW m \in Inputs, ReadLimited(s, m)
      PROVE  Kept
  BY <1>3 DEF ReadLimited, ParseAndProcessRecord, Registered
<1>4. ASSUME NEW s \in Sessions, ProduceSync(s) \/ ProduceSyncError(s) \/ ProduceKafka(s)
      PROVE  Kept
  BY <1>4 DEF ProduceSync, ProduceSyncError, ProduceKafka, Registered
<1>5. ASSUME NEW s \in Sessions,
             StartTelemetry(s) \/ Dispatched(s) \/ CloseSocket(s) \/ CloseStopChan(s) \/ Finish(s)
      PROVE  Kept
  BY <1>5 DEF StartTelemetry, Dispatched, CloseSocket, CloseStopChan, Finish, Registered
<1>6. ASSUME NEW s \in Sessions, Leave(s) \/ WriterStep(s)
      PROVE  Kept
  BY <1>6 DEF Leave, WriterStep, sessionVars, Registered
<1>7. ASSUME NEW s \in Sessions, AckFromSession(s)
      PROVE  Kept
  BY <1>7 DEF AckFromSession, Registered
<1>8. CASE AckFromKafka \/ AckLookup \/ AckRespond \/ KafkaBroker \/ KafkaEvents
  <2>1. Kept
    BY <1>8 DEF AckFromKafka, AckLookup, AckRespond, KafkaBroker, KafkaEvents, sessionVars, Registered
  <2> QED
    BY <2>1, RegistryKept
<1>9. CASE UNCHANGED vars
  <2>1. Kept
    BY <1>9 DEF vars, registryVars, sessionVars, Registered
  <2> QED
    BY <2>1, RegistryKept
<1> HIDE DEF IInv, RegInv, PhaseInv, SessionTypeOK
<1>10. Kept => RegInv'
  BY RegistryKept DEF RegInv, IInv
<1> HIDE DEF Kept
<1> QED
  BY <1>1, <1>2, <1>3, <1>4, <1>5, <1>6, <1>7, <1>8, <1>9, <1>10
     DEF Next, SessionStep, AckStep, Quiescent

\* NumConnectedSockets is the number of sessions inside their handler, and
\* GetSocket only returns such sessions, for any number of sessions and also
\* when clients choose the same UUID.
THEOREM RegistryCorrect == Spec => []RegistryConsistent
<1>1. Init => RegInv
  <2> SUFFICES ASSUME Init PROVE RegInv
    OBVIOUS
  <2>1. {s \in Sessions : Registered(s)} = {}
    BY DEF Init, Registered
  <2> QED
    BY <2>1, FS_EmptySet DEF Init, RegistryInit, RegInv, PhaseInv, RegistryConsistent
<1>2. IInv /\ RegInv /\ [Next]_vars => RegInv'
  BY AcceptRegistry, DeregisterRegistry, OtherRegistry
<1>3. RegInv => RegistryConsistent
  BY DEF RegInv
<1> QED
  BY <1>1, <1>2, <1>3, Invariance, PTL DEF Spec
=============================================================================
