----------------------------- MODULE Producers -----------------------------
(***************************************************************************)
(* The dispatchers behind telemetry.Producer as the streaming server sees  *)
(* them.  Kafka is asynchronous: Produce only enqueues, a delivery report  *)
(* comes later on deliveryChan, and the goroutine handleProducerEvents     *)
(* turns a successful report into a reliable ack.  Every other dispatcher  *)
(* (kinesis, pubsub, zmq, mqtt, redis, logger) publishes inside Produce,   *)
(* on the goroutine of the session, and acks from there.                   *)
(*                                                                         *)
(* The ack channel is unbuffered: a send is a rendezvous with handleAcks,  *)
(* modelled in Streaming.  Here a dispatcher that has an ack to send       *)
(* simply holds the record.                                                *)
(***************************************************************************)
EXTENDS Record

CONSTANTS Kafka,      \* the asynchronous dispatcher
          NoRecord    \* handleProducerEvents holds no record

\* A dispatcher appears at most once in the list of a record type.
ASSUME OncePerRecordAssumption ==
  \A t \in DOMAIN DispatchRules : \A i, j \in 1..Len(DispatchRules[t]) :
     DispatchRules[t][i] = DispatchRules[t][j] => i = j

ASSUME KafkaAssumption == Kafka \in Dispatchers
ASSUME NoRecordAssumption == NoRecord \notin Records

VARIABLES inflight,   \* records in librdkafka's queue
          reports,    \* delivery reports waiting on deliveryChan
          poller,     \* the record handleProducerEvents is acking
          accepted    \* <<dispatcher, record>>: published without an error

producerVars == <<inflight, reports, poller, accepted>>

Reports == [rec : Records, ok : BOOLEAN]

ProducersTypeOK ==
  /\ inflight \subseteq Records
  /\ reports \subseteq Reports
  /\ poller \in Records \cup {NoRecord}
  /\ accepted \subseteq Dispatchers \X Records

ProducersInit ==
  /\ inflight = {}
  /\ reports = {}
  /\ poller = NoRecord
  /\ accepted = {}

\* Kafka's Produce: the message is queued, or the local queue refuses it and
\* the error is only logged.
KafkaProduce(r) ==
  /\ inflight' = inflight \cup {r} \/ UNCHANGED inflight
  /\ UNCHANGED <<reports, poller, accepted>>

\* Produce of a synchronous dispatcher: published, or the error is logged.
SyncProduced(d, r) ==
  /\ accepted' = accepted \cup {<<d, r>>}
  /\ UNCHANGED <<inflight, reports, poller>>

\* librdkafka and the broker: a queued message is stored or given up, and
\* its report is put on deliveryChan.
BrokerResult(r, ok) ==
  /\ r \in inflight
  /\ inflight' = inflight \ {r}
  /\ reports' = reports \cup {[rec |-> r, ok |-> ok]}
  /\ accepted' = IF ok THEN accepted \cup {<<Kafka, r>>} ELSE accepted
  /\ UNCHANGED poller

\* handleProducerEvents without the look at TopicPartition.Error.
HandleProducerEventAnyReport(rp) ==
  /\ poller = NoRecord
  /\ rp \in reports
  /\ reports' = reports \ {rp}
  /\ poller' = IF AckedBy(Kafka, rp.rec.txType) THEN rp.rec ELSE NoRecord
  /\ UNCHANGED <<inflight, accepted>>

\* handleProducerEvents without the call of ProcessReliableAck.
HandleProducerEventNoAck(rp) ==
  /\ poller = NoRecord
  /\ rp \in reports
  /\ reports' = reports \ {rp}
  /\ UNCHANGED <<inflight, poller, accepted>>

\* One turn of handleProducerEvents up to the send in ProcessReliableAck.
HandleProducerEvent(rp) ==
  /\ poller = NoRecord
  /\ rp \in reports
  /\ reports' = reports \ {rp}
  /\ poller' = IF rp.ok /\ AckedBy(Kafka, rp.rec.txType) THEN rp.rec ELSE NoRecord
  /\ UNCHANGED <<inflight, accepted>>
=============================================================================
