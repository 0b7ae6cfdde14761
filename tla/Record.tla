------------------------------- MODULE Record -------------------------------
(***************************************************************************)
(* From the bytes of a websocket message to a telemetry record, and the    *)
(* dispatch configuration the server runs with (telemetry/record.go,       *)
(* telemetry/serializer.go, messages/stream_message.go, config/config.go). *)
(* Only what decides the fate of a message is kept of its bytes: whether   *)
(* it fits SizeLimit, whether it parses, its topic, its sender, and        *)
(* whether the protobuf payload unmarshals.                                *)
(***************************************************************************)
EXTENDS Naturals, Sequences

CONSTANTS Sessions,            \* the accepted connections
          Topics,              \* the record types a message may carry
          NoTopic,             \* TxType "" of a record that was never decoded
          Connectivity,        \* connectitivityTopic
          ProtoTopics,         \* types whose payload applyProtoRecordTransforms unmarshals
          SignalTopics,        \* types SignalsCount counts signals of: V and alerts
          Dispatchers,         \* kafka, kinesis, pubsub, zmq, mqtt, redis, logger
          DispatchRules,       \* record type -> dispatchers, in order
          ReliableAckSources   \* record type -> the one dispatcher that acks it

(***************************************************************************)
(* What configureReliableAckSources and ConfigureProducers let through:    *)
(* every configured record has a non-empty list, and a reliable source is  *)
(* one of the dispatchers of its record, never of the connectivity record. *)
(***************************************************************************)
ASSUME TopicAssumption ==
  /\ NoTopic \notin Topics
  /\ Connectivity \in Topics
  /\ SignalTopics \subseteq ProtoTopics
  /\ ProtoTopics \subseteq Topics

ASSUME RulesAssumption ==
  /\ DOMAIN DispatchRules \subseteq Topics
  /\ \A t \in DOMAIN DispatchRules :
        DispatchRules[t] \in Seq(Dispatchers) /\ DispatchRules[t] # << >>

ASSUME ReliableAssumption ==
  /\ DOMAIN ReliableAckSources \subseteq DOMAIN DispatchRules \ {Connectivity}
  /\ \A t \in DOMAIN ReliableAckSources :
        \E i \in 1..Len(DispatchRules[t]) : DispatchRules[t][i] = ReliableAckSources[t]

TxTypes == Topics \cup {NoTopic}

(***************************************************************************)
(* The forms of a message: above SizeLimit; bytes FlatBuffers panics on;   *)
(* bytes without an envelope; an envelope of another type than a stream    *)
(* message; a stream message.                                              *)
(***************************************************************************)
Forms == {"too_big", "panics", "no_envelope", "other_envelope", "stream"}

Messages == [form : Forms, topic : Topics, sender : BOOLEAN, payload : BOOLEAN]

\* A record: the session whose serializer made it (its SocketID is that
\* session's UUID), its Txid (0 for the empty one), its type, and its body,
\* a connectivity event only in a record of that type.
Bodies == {"data", "CONNECTED", "DISCONNECTED"}
Records ==
  {r \in [sess : Sessions, seq : Nat, txType : TxTypes, body : Bodies] :
     r.body # "data" => r.txType = Connectivity}

\* The list of dispatchers of a record type: a lookup in the Go map yields
\* the empty list for a type that is not configured.
RulesFor(t) == IF t \in DOMAIN DispatchRules THEN DispatchRules[t] ELSE << >>

\* reliableAck: is the ack of this record type tied to a dispatcher?
ReliableAck(t) == t \in DOMAIN ReliableAckSources

\* reliableAckTxTypes of dispatcher d holds record type t.
AckedBy(d, t) == ReliableAck(t) /\ ReliableAckSources[t] = d

\* Deserialize of a stream message: a configured topic is taken without a
\* look at the sender, any other only from the sender of the certificate.
SenderAccepted(m) == m.topic \in DOMAIN DispatchRules \/ m.sender

\* The record type NewRecord leaves in the record.
TxTypeOf(m) == IF m.form = "stream" THEN m.topic ELSE NoTopic

\* Is record.Txid set? guessError still finds it in a foreign envelope.
TxidKnown(m) == m.form \in {"stream", "other_envelope"}

\* The error Deserialize returns: a recovered panic, guessError, or a sender
\* that is not the one of the certificate.
DeserializeError(m) ==
  CASE m.form \in {"no_envelope", "other_envelope"} -> "unknown_type"
    [] m.form = "panics"                            -> "rejected"
    [] m.form = "stream" /\ ~SenderAccepted(m)      -> "rejected"
    [] OTHER                                        -> "none"

\* The error of applyRecordTransforms: the payload of a known type does not
\* unmarshal.
TransformError(m) == IF m.topic \in ProtoTopics /\ ~m.payload THEN "rejected" ELSE "none"

\* The error NewRecord returns.
NewRecordError(m) ==
  IF m.form = "too_big" THEN "too_big"
  ELSE IF DeserializeError(m) # "none" THEN DeserializeError(m) ELSE TransformError(m)
=============================================================================
