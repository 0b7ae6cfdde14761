------------------------------ MODULE Streaming ------------------------------
(***************************************************************************)
(* The streaming server: the goroutine of each session (ServeBinaryWs and  *)
(* ProcessTelemetry), its writer, the registry, the dispatchers and the    *)
(* single goroutine handleAcks that routes reliable acks back to sessions. *)
(*                                                                         *)
(* A session goroutine can block in three places: in ReadMessage, in the   *)
(* send of respondToVehicle on a full writeChan, and in the send of        *)
(* ProcessReliableAck on the unbuffered ackChan.  handleAcks blocks on the *)
(* writeChan of the session it answers.                                    *)
(***************************************************************************)
EXTENDS SocketRegistry, SocketManager, Producers

CONSTANTS Inputs,            \* the messages the vehicles send
          MaxMessages,       \* bound: messages a vehicle sends on one session
          RateLimitEnabled,  \* config.RateLimit.Enabled
          MessageLimit       \* limit of the session's rate limiter

ASSUME InputsAssumption == Inputs \subseteq Messages
ASSUME LimitAssumption ==
  /\ MaxMessages \in Nat
  /\ RateLimitEnabled \in BOOLEAN
  /\ MessageLimit \in Nat \ {0}

VARIABLES pc,       \* where the goroutine of each session stands
          phase,    \* before, inside and after ProcessTelemetry
          cur,      \* the record it works on
          todo,     \* the dispatchers it has still to call
          nread,    \* messages read
          times,    \* timestamps kept by the rate limiter
          tracked,  \* <<session, n>>: message n was counted by trackSignalUsage
          ackPc,    \* where handleAcks stands
          ackRec,   \* the record it took from ackChan
          ackSock   \* the socket GetSocket returned

sessionVars == <<pc, phase, cur, todo, nread, times, tracked>>
ackVars == <<ackPc, ackRec, ackSock>>
vars == <<registryVars, socketVars, producerVars, sessionVars, ackVars>>

PCs == {"unborn", "dispatch", "ackwait", "read", "reject", "guess", "respond",
        "closing", "stopping", "deregister", "done"}
Phases == {"none", "up", "serve", "down"}

SessionTypeOK ==
  /\ pc \in [Sessions -> PCs]
  /\ phase \in [Sessions -> Phases]
  /\ cur \in [Sessions -> Records \cup {NoRecord}]
  /\ todo \in [Sessions -> Seq(Dispatchers)]
  /\ nread \in [Sessions -> 0..MaxMessages]
  /\ times \in [Sessions -> 0..MessageLimit]
  /\ tracked \subseteq Sessions \X (1..MaxMessages)

AckTypeOK ==
  /\ ackPc \in {"recv", "lookup", "send"}
  /\ ackRec \in Records \cup {NoRecord}
  /\ ackSock \in Sessions \cup {NoSession}

TypeOK == RegistryTypeOK /\ SocketTypeOK /\ ProducersTypeOK /\ SessionTypeOK /\ AckTypeOK

Init ==
  /\ RegistryInit
  /\ SocketInit
  /\ ProducersInit
  /\ pc = [s \in Sessions |-> "unborn"]
  /\ phase = [s \in Sessions |-> "none"]
  /\ cur = [s \in Sessions |-> NoRecord]
  /\ todo = [s \in Sessions |-> << >>]
  /\ nread = [s \in Sessions |-> 0]
  /\ times = [s \in Sessions |-> 0]
  /\ tracked = {}
  /\ ackPc = "recv"
  /\ ackRec = NoRecord
  /\ ackSock = NoSession
-----------------------------------------------------------------------------
(* Connecting and the connectivity events *)

\* dispatchConnectivityEvent: the event record and the dispatchers it goes
\* to.  Its Txid is the UUID of the socket, written 0 here.
DispatchConnectivityEvent(s, event) ==
  /\ cur' = [cur EXCEPT ![s] = [sess |-> s, seq |-> 0, txType |-> Connectivity, body |-> event]]
  /\ todo' = [todo EXCEPT ![s] = RulesFor(Connectivity)]
  /\ pc' = [pc EXCEPT ![s] = "dispatch"]

\* ServeBinaryWs: upgrade, identity from the certificate, new socket manager,
\* RegisterSocket, and on to the CONNECTED event.
Accept(s) ==
  /\ pc[s] = "unborn"
  /\ conn' = [conn EXCEPT ![s] = "open"]
  /\ RegisterSocket(s)
  /\ DispatchConnectivityEvent(s, "CONNECTED")
  /\ phase' = [phase EXCEPT ![s] = "up"]
  /\ UNCHANGED <<writeChan, writer, writing, stopped, deadline, wire,
                 producerVars, nread, times, tracked, ackVars>>

\* ServeBinaryWs when no identity can be read from the certificate.
RefuseIdentity(s) ==
  /\ pc[s] = "unborn"
  /\ conn' = [conn EXCEPT ![s] = "closed"]
  /\ pc' = [pc EXCEPT ![s] = "done"]
  /\ UNCHANGED <<registryVars, writeChan, writer, writing, stopped, deadline, wire,
                 producerVars, phase, cur, todo, nread, times, tracked, ackVars>>
-----------------------------------------------------------------------------
(* Reading a message *)

\* The record NewRecord makes of the n-th message of session s.
RecordOf(s, n, m) ==
  [sess |-> s, seq |-> IF TxidKnown(m) THEN n ELSE 0, txType |-> TxTypeOf(m), body |-> "data"]

\* ParseAndProcessRecord up to its first blocking call: the error response,
\* the ack of an unknown message type, or the dispatch.
ParseAndProcessRecord(s, m) ==
  LET r == RecordOf(s, nread[s] + 1, m)
      e == NewRecordError(m)
  IN /\ cur' = [cur EXCEPT ![s] = r]
     /\ todo' = [todo EXCEPT ![s] = RulesFor(r.txType)]
     /\ pc' = [pc EXCEPT ![s] = CASE e = "none"         -> "dispatch"
                                  [] e = "unknown_type" -> "guess"
                                  [] OTHER              -> "reject"]

\* trackSignalUsage counts the signals of a decoded record.
TrackSignalUsage(s, m) ==
  tracked' = IF NewRecordError(m) = "none" /\ m.topic \in SignalTopics
             THEN tracked \cup {<<s, nread[s] + 1>>} ELSE tracked

\* rl.Try(): there is room for one more timestamp, or the oldest one has left
\* the interval (time is not modelled: it may have).
Try(s) ==
  times' = [times EXCEPT ![s] = IF @ < MessageLimit THEN @ + 1 ELSE @]

\* ReadMessage returns a binary message and the limiter admits it.
ReadMessage(s, m) ==
  /\ pc[s] = "read"
  /\ conn[s] \in {"open", "lost"}
  /\ nread[s] < MaxMessages
  /\ Try(s)
  /\ ParseAndProcessRecord(s, m)
  /\ nread' = [nread EXCEPT ![s] = @ + 1]
  /\ UNCHANGED <<registryVars, socketVars, producerVars, phase, tracked, ackVars>>

\* The limiter refuses the message: its signals are counted, and it is
\* dropped when rate limiting is enabled and processed otherwise.
ReadLimited(s, m) ==
  /\ pc[s] = "read"
  /\ conn[s] \in {"open", "lost"}
  /\ nread[s] < MaxMessages
  /\ times[s] = MessageLimit
  /\ TrackSignalUsage(s, m)
  /\ IF RateLimitEnabled THEN UNCHANGED <<pc, cur, todo>> ELSE ParseAndProcessRecord(s, m)
  /\ nread' = [nread EXCEPT ![s] = @ + 1]
  /\ UNCHANGED <<registryVars, socketVars, producerVars, phase, times, ackVars>>

\* ReadMessage fails: the vehicle is gone, or the deadline the writer set
\* has passed.
ReadError(s) ==
  /\ pc[s] = "read"
  /\ conn[s] = "lost" \/ deadline[s]
  /\ pc' = [pc EXCEPT ![s] = "closing"]
  /\ UNCHANGED <<registryVars, socketVars, producerVars, phase, cur, todo, nread,
                 times, tracked, ackVars>>

\* ReadMessage returns a message that is not binary.
ReadNotBinary(s) ==
  /\ pc[s] = "read"
  /\ conn[s] \in {"open", "lost"}
  /\ pc' = [pc EXCEPT ![s] = "closing"]
  /\ UNCHANGED <<registryVars, socketVars, producerVars, phase, cur, todo, nread,
                 times, tracked, ackVars>>
-----------------------------------------------------------------------------
(* Answering and dispatching *)

\* Respond without the return after the error response.
RespondFallsThrough(s) ==
  /\ pc[s] \in {"reject", "guess", "respond"}
  /\ RespondToVehicle(s, cur[s], IF pc[s] = "reject" THEN "error" ELSE "ack")
  /\ pc' = [pc EXCEPT ![s] = IF @ \in {"guess", "reject"} THEN "dispatch" ELSE "read"]
  /\ UNCHANGED <<registryVars, producerVars, phase, cur, todo, nread, times,
                 tracked, ackVars>>

\* respondToVehicle, called from the session: an error and an ack end the
\* message, the ack of an unknown type falls through to the dispatch.
Respond(s) ==
  /\ pc[s] \in {"reject", "guess", "respond"}
  /\ RespondToVehicle(s, cur[s], IF pc[s] = "reject" THEN "error" ELSE "ack")
  /\ pc' = [pc EXCEPT ![s] = IF @ = "guess" THEN "dispatch" ELSE "read"]
  /\ UNCHANGED <<registryVars, producerVars, phase, cur, todo, nread, times,
                 tracked, ackVars>>

\* Dispatch calls Produce of a synchronous dispatcher and it publishes; a
\* reliable record is then held until handleAcks takes it.
ProduceSync(s) ==
  /\ pc[s] = "dispatch"
  /\ todo[s] # << >>
  /\ Head(todo[s]) # Kafka
  /\ SyncProduced(Head(todo[s]), cur[s])
  /\ IF AckedBy(Head(todo[s]), cur[s].txType)
     THEN /\ pc' = [pc EXCEPT ![s] = "ackwait"]
          /\ UNCHANGED todo
     ELSE /\ todo' = [todo EXCEPT ![s] = Tail(@)]
          /\ UNCHANGED pc
  /\ UNCHANGED <<registryVars, socketVars, phase, cur, nread, times, tracked, ackVars>>

\* Produce of a synchronous dispatcher fails: it logs the error and returns.
ProduceSyncError(s) ==
  /\ pc[s] = "dispatch"
  /\ todo[s] # << >>
  /\ Head(todo[s]) # Kafka
  /\ todo' = [todo EXCEPT ![s] = Tail(@)]
  /\ UNCHANGED <<registryVars, socketVars, producerVars, pc, phase, cur, nread,
                 times, tracked, ackVars>>

ProduceKafka(s) ==
  /\ pc[s] = "dispatch"
  /\ todo[s] # << >>
  /\ Head(todo[s]) = Kafka
  /\ KafkaProduce(cur[s])
  /\ todo' = [todo EXCEPT ![s] = Tail(@)]
  /\ UNCHANGED <<registryVars, socketVars, pc, phase, cur, nread, times, tracked, ackVars>>

\* registerSocket returns: ProcessTelemetry starts the writer and the loop.
StartTelemetry(s) ==
  /\ pc[s] = "dispatch"
  /\ todo[s] = << >>
  /\ phase[s] = "up"
  /\ phase' = [phase EXCEPT ![s] = "serve"]
  /\ pc' = [pc EXCEPT ![s] = "read"]
  /\ writer' = [writer EXCEPT ![s] = "select"]
  /\ UNCHANGED <<registryVars, conn, writeChan, writing, stopped, deadline, wire,
                 producerVars, cur, todo, nread, times, tracked, ackVars>>

\* The end of ParseAndProcessRecord without the test of reliableAck.
DispatchedAlwaysAck(s) ==
  /\ pc[s] = "dispatch"
  /\ todo[s] = << >>
  /\ phase[s] = "serve"
  /\ pc' = [pc EXCEPT ![s] = "respond"]
  /\ UNCHANGED <<registryVars, socketVars, producerVars, phase, cur, todo, nread,
                 times, tracked, ackVars>>

\* The end of ParseAndProcessRecord: ack at once unless a dispatcher does.
Dispatched(s) ==
  /\ pc[s] = "dispatch"
  /\ todo[s] = << >>
  /\ phase[s] = "serve"
  /\ pc' = [pc EXCEPT ![s] = IF ReliableAck(cur[s].txType) THEN "read" ELSE "respond"]
  /\ UNCHANGED <<registryVars, socketVars, producerVars, phase, cur, todo, nread,
                 times, tracked, ackVars>>
-----------------------------------------------------------------------------
(* Leaving: the deferred calls of ProcessTelemetry and ServeBinaryWs *)

\* Close: Ws.Close()
CloseSocket(s) ==
  /\ pc[s] = "closing"
  /\ conn' = [conn EXCEPT ![s] = "closed"]
  /\ pc' = [pc EXCEPT ![s] = "stopping"]
  /\ UNCHANGED <<registryVars, writeChan, writer, writing, stopped, deadline, wire,
                 producerVars, phase, cur, todo, nread, times, tracked, ackVars>>

\* close(sm.stopChan)
CloseStopChan(s) ==
  /\ pc[s] = "stopping"
  /\ stopped' = [stopped EXCEPT ![s] = TRUE]
  /\ pc' = [pc EXCEPT ![s] = "deregister"]
  /\ UNCHANGED <<registryVars, conn, writeChan, writer, writing, deadline, wire,
                 producerVars, phase, cur, todo, nread, times, tracked, ackVars>>

\* deregisterSocket: out of the registry, and on to the DISCONNECTED event.
Deregister(s) ==
  /\ pc[s] = "deregister"
  /\ DeregisterSocket(s)
  /\ DispatchConnectivityEvent(s, "DISCONNECTED")
  /\ phase' = [phase EXCEPT ![s] = "down"]
  /\ UNCHANGED <<socketVars, producerVars, nread, times, tracked, ackVars>>

\* The handler returns once the event is dispatched.
Finish(s) ==
  /\ pc[s] = "dispatch"
  /\ todo[s] = << >>
  /\ phase[s] = "down"
  /\ pc' = [pc EXCEPT ![s] = "done"]
  /\ UNCHANGED <<registryVars, socketVars, producerVars, phase, cur, todo, nread,
                 times, tracked, ackVars>>
-----------------------------------------------------------------------------
(* handleAcks *)

\* The record a synchronous dispatcher holds is taken from ackChan, and its
\* Produce returns.
AckFromSession(s) ==
  /\ ackPc = "recv"
  /\ pc[s] = "ackwait"
  /\ ackRec' = cur[s]
  /\ ackPc' = "lookup"
  /\ pc' = [pc EXCEPT ![s] = "dispatch"]
  /\ todo' = [todo EXCEPT ![s] = Tail(@)]
  /\ UNCHANGED <<registryVars, socketVars, producerVars, phase, cur, nread, times,
                 tracked, ackSock>>

\* The record handleProducerEvents of Kafka holds is taken from ackChan.
AckFromKafka ==
  /\ ackPc = "recv"
  /\ poller # NoRecord
  /\ ackRec' = poller
  /\ poller' = NoRecord
  /\ ackPc' = "lookup"
  /\ UNCHANGED <<registryVars, socketVars, inflight, reports, accepted, sessionVars, ackSock>>

\* registry.GetSocket(record.SocketID): a miss is only counted.
AckLookup ==
  /\ ackPc = "lookup"
  /\ ackSock' = GetSocket(UUID[ackRec.sess])
  /\ ackPc' = IF ackSock' = NoSession THEN "recv" ELSE "send"
  /\ ackRec' = IF ackSock' = NoSession THEN NoRecord ELSE ackRec
  /\ UNCHANGED <<registryVars, socketVars, producerVars, sessionVars>>

\* socket.respondToVehicle(record, nil), on the goroutine of handleAcks.
AckRespond ==
  /\ ackPc = "send"
  /\ RespondToVehicle(ackSock, ackRec, "ack")
  /\ ackPc' = "recv"
  /\ ackRec' = NoRecord
  /\ ackSock' = NoSession
  /\ UNCHANGED <<registryVars, producerVars, sessionVars>>
-----------------------------------------------------------------------------
KafkaBroker ==
  /\ \E r \in inflight, ok \in BOOLEAN : BrokerResult(r, ok)
  /\ UNCHANGED <<registryVars, socketVars, sessionVars, ackVars>>

KafkaEvents ==
  /\ \E rp \in reports : HandleProducerEvent(rp)
  /\ UNCHANGED <<registryVars, socketVars, sessionVars, ackVars>>

WriterStep(s) ==
  /\ Writer(s)
  /\ UNCHANGED <<registryVars, producerVars, sessionVars, ackVars>>

Leave(s) ==
  /\ VehicleLeaves(s)
  /\ UNCHANGED <<registryVars, producerVars, sessionVars, ackVars>>

\* What the goroutine of a session does on its own, once it has something to do.
SessionStep(s) ==
  \/ ReadError(s) \/ Respond(s)
  \/ ProduceSync(s) \/ ProduceSyncError(s) \/ ProduceKafka(s)
  \/ StartTelemetry(s) \/ Dispatched(s)
  \/ CloseSocket(s) \/ CloseStopChan(s) \/ Deregister(s) \/ Finish(s)

AckStep == (\E s \in Sessions : AckFromSession(s)) \/ AckFromKafka \/ AckLookup \/ AckRespond

\* Every connection has ended and nothing is on its way.
Quiescent ==
  /\ \A s \in Sessions : pc[s] = "done" /\ writer[s] \in {"none", "exited"}
  /\ ackPc = "recv" /\ poller = NoRecord /\ inflight = {} /\ reports = {}
  /\ UNCHANGED vars

Next ==
  \/ \E s \in Sessions :
       \/ Accept(s) \/ RefuseIdentity(s) \/ Leave(s) \/ ReadNotBinary(s)
       \/ \E m \in Inputs : ReadMessage(s, m) \/ ReadLimited(s, m)
       \/ SessionStep(s) \/ WriterStep(s)
  \/ AckStep
  \/ KafkaBroker \/ KafkaEvents
  \/ Quiescent

(***************************************************************************)
(* Goroutines that can run do run; a write ends within WriteLoopDeadline;  *)
(* Produce of a synchronous dispatcher returns (they all carry timeouts or *)
(* retry limits); librdkafka reports on every message within its           *)
(* message timeout.  handleAcks serves the senders blocked on ackChan in   *)
(* their order of arrival, so each of them is served: hence the fairness   *)
(* on each rendezvous.  Nothing obliges a vehicle to connect, send, or go. *)
(***************************************************************************)
Fairness ==
  /\ \A s \in Sessions : /\ WF_vars(SessionStep(s))
                         /\ WF_vars(WriterStep(s))
                         /\ SF_vars(AckFromSession(s))
  /\ SF_vars(AckFromKafka)
  /\ WF_vars(AckLookup) /\ WF_vars(AckRespond)
  /\ WF_vars(KafkaBroker) /\ WF_vars(KafkaEvents)

Spec == Init /\ [][Next]_vars
FairSpec == Spec /\ Fairness
-----------------------------------------------------------------------------
(* Safety *)

InSeq(q) == {q[i] : i \in 1..Len(q)}

\* The responses of session s: queued, being written, and written.
ResponsesAt(s) ==
  InSeq(writeChan[s]) \cup InSeq(wire[s]) \cup ({writing[s]} \ {NoResponse})

\* The record a response answers.
AnsweredRecord(x) == [sess |-> x.sess, seq |-> x.seq, txType |-> x.txType, body |-> "data"]

\* The dispatcher that acks this type of record has published it.
Published(r) == <<ReliableAckSources[r.txType], r>> \in accepted

\* The vehicle is never told that a record of a reliable type was received
\* before the dispatcher named in reliable_ack_sources has published it
\* (processRecord, ProcessReliableAck and handleAcks).
ReliableAckAfterPublish ==
  \A s \in Sessions : \A x \in ResponsesAt(s) :
     x.kind = "ack" /\ ReliableAck(x.txType) => Published(AnsweredRecord(x))

\* A response only goes to a session with the UUID of the session whose
\* record it answers, whatever connected or left while the ack was under way
\* (record.SocketID, GetSocket in handleAcks).
AnsweredOnOwnUUID ==
  \A s \in Sessions : \A x \in ResponsesAt(s) : UUID[x.sess] = UUID[s]

\* A message answered with an error (the early returns of
\* ParseAndProcessRecord) has reached no dispatcher.
ErrorNotDispatched ==
  \A s \in Sessions : \A x \in ResponsesAt(s) :
     x.kind = "error" =>
        /\ \A d \in Dispatchers : <<d, AnsweredRecord(x)>> \notin accepted
        /\ AnsweredRecord(x) \notin inflight

Registered(s) == phase[s] \in {"up", "serve"}

\* The counter NumConnectedSockets returns is the number of sessions between
\* RegisterSocket and DeregisterSocket, and handleAcks can only be given a
\* session that is still registered, under its own UUID.
RegistryConsistent ==
  /\ counter = Cardinality({s \in Sessions : Registered(s)})
  /\ \A u \in UUIDs : sockets[u] # NoSession =>
        Registered(sockets[u]) /\ UUID[sockets[u]] = u

\* Positions of q that answer message n of session s.
Answers(q, s, n) ==
  {i \in 1..Len(q) : q[i].sess = s /\ q[i].seq = n /\ q[i].txType # NoTopic}

\* Every answer to message n of session s, by the connection p it is on and
\* where it is there: written, queued, or with the writer.
AnswersTo(s, n) ==
  UNION {({p} \X {"written"} \X Answers(wire[p], s, n))
           \cup ({p} \X {"queued"} \X Answers(writeChan[p], s, n))
           \cup ({p} \X {"writing"} \X (IF writing[p] = NoResponse THEN {} ELSE Answers(<<writing[p]>>, s, n)))
         : p \in Sessions}

\* A message that was decoded is answered at most once over all the
\* connections, by its own session or by handleAcks, never by both
\* (reliableAck).  A message that could not be decoded has no type; one of
\* an unknown type is answered twice by ParseAndProcessRecord.
AnsweredAtMostOnce ==
  \A s \in Sessions, n \in 1..MaxMessages : \A a, b \in AnswersTo(s, n) : a = b

\* "Total number of signals received per record type" (socket.go, the help of
\* signals_count): the signals of every published record have been counted.
SignalsCounted ==
  \A p \in accepted :
     p[2].body = "data" /\ p[2].txType \in SignalTopics => <<p[2].sess, p[2].seq>> \in tracked
-----------------------------------------------------------------------------
(* Liveness *)

\* When the vehicle has gone, or its writer has given up on a write, the
\* handler returns and the DISCONNECTED event has been handed to the
\* dispatchers (writer's read deadline, ProcessTelemetry's deferred calls).
TornDown ==
  \A s \in Sessions : conn[s] = "lost" \/ writer[s] = "exited" ~> pc[s] = "done"

\* Session s no longer answers.
Ended(s) == conn[s] # "open" \/ writer[s] = "exited"

\* What the dispatcher of a reliable record has published is acked to the
\* vehicle, unless its session ends first (handleAcks).
PublishedIsAcked ==
  \A s \in Sessions, n \in 1..MaxMessages, t \in DOMAIN ReliableAckSources :
     LET r == [sess |-> s, seq |-> n, txType |-> t, body |-> "data"]
     IN  Published(r) ~> Ended(s) \/ ResponseOf(r, "ack") \in InSeq(wire[s])
-----------------------------------------------------------------------------
(* Refinement *)

\* The record of a reliable type that a record or a response speaks of.
ItemOf(x) == [sess |-> x.sess, seq |-> x.seq, txType |-> x.txType]

\* What the dispatcher that acks it has published.
PublishedItems ==
  {ItemOf(p[2]) : p \in {q \in accepted : q[2].body = "data" /\ AckedBy(q[1], q[2].txType)}}

\* The records a response acks.
AckedItems(x) == IF x.kind = "ack" /\ ReliableAck(x.txType) THEN {ItemOf(x)} ELSE {}

\* What was written to session s.
Told(s) == [k \in 1..Len(wire[s]) |-> AckedItems(wire[s][k])]

Delivery == INSTANCE ReliableDelivery WITH
  Vehicles <- Sessions, Types <- DOMAIN ReliableAckSources,
  received <- nread, published <- PublishedItems, told <- [s \in Sessions |-> Told(s)]

\* Sessions, writers, Kafka's goroutine and handleAcks together keep the
\* promise of ReliableDelivery: a message is published at most once, as one
\* record, and acked at most once, after that, on any of the connections.
ImplementsReliableDelivery == Delivery!DeliverySpec
=============================================================================
