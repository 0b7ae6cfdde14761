------------------------------ MODULE DataPath ------------------------------
(***************************************************************************)
(* One message on its way from the vehicle to the consumers of the data    *)
(* and back: the client composes an envelope, the session knows the        *)
(* vehicle by its certificate, NewRecord decodes and transforms, Dispatch  *)
(* hands the one record to the dispatchers of its type one after the       *)
(* other, and the vehicle gets a reply.  The dispatchers are told apart by *)
(* what they read of the record: "bytes" for those that publish Payload()  *)
(* (kafka, kinesis, pubsub, zmq, redis), and "logger" and "mqtt", which    *)
(* convert the decoded message.                                            *)
(*                                                                         *)
(* Nothing of a message outlives it in the session but the identity, so    *)
(* one message shows what any number would.                                *)
(***************************************************************************)
EXTENDS Transformers

CONSTANTS Connections,   \* TLS states a client may arrive with
          Inputs,        \* the <<topic, payload>> a vehicle may send, as a sequence
          Foreign,       \* bytes that are not a stream message, or not an intact one
          Strangers,     \* sender IDs other than the vehicle's own
          Dispatchers,   \* the dispatchers of every configured topic, in order
          Decoded        \* the values of transmit_decoded_records

\* A timestamp that means this second: in seconds, or past the bound in
\* milliseconds.
Means(t, second) ==
  \/ t.seconds = second /\ second < MaxSecondsInDuration
  \/ t.seconds \in (1000 * second)..(1000 * second + 999) /\ MaxSecondsInDuration <= t.seconds

\* What a vehicle encodes is a message of the type that the generated code of
\* protos/ has for its topic; the instant of an alert is the second that its
\* start means.
Encodes(topic, payload) ==
  LET m == payload[2] IN
  payload[1] = "proto" =>
    \/ topic = "V" /\ IsPayload(m)
    \/ /\ topic = "alerts" /\ IsVehicleAlerts(m)
       /\ \A i \in DOMAIN m.alerts :
            /\ "instant" \in DOMAIN m.alerts[i] /\ m.alerts[i].instant \in Nat
            /\ m.alerts[i].startedAt # << >> => Means(m.alerts[i].startedAt[1], m.alerts[i].instant)
    \/ topic = "errors" /\ IsVehicleErrors(m)
    \/ topic = "connectivity" /\ IsVehicleConnectivity(m)

ASSUME InputsAssumption ==
  /\ \A i \in DOMAIN Inputs : Encodes(Inputs[i][1], Inputs[i][2])
  /\ \A b \in Foreign : Broken(b) \/ ~IsStreamMessage(b)

VARIABLES stage,     \* offline, refused, open, composing, sent, dispatching, answered, panicked
          tls,       \* the TLS state of the connection
          ident,     \* requestIdentity
          decoded,   \* transmitDecodedRecords
          msg,       \* the StreamMessage the client is composing
          wire,      \* the bytes the server received
          rec,       \* the Record
          todo,      \* the dispatchers still to be called
          out,       \* dispatcher -> what it was given to send, if anything
          reply      \* the bytes of the reply

pathVars == <<stage, tls, ident, decoded, msg, wire, rec, todo, out, reply>>

Txid == <<"txid">>
Now == 1
NoMessage == NewStreamMessage("", NoString, <<"none">>)
Nowhere == [d \in {"bytes", "logger", "mqtt"} |-> << >>]

PathInit ==
  /\ stage = "offline"
  /\ tls = << >>
  /\ ident = Refused("none")
  /\ decoded \in Decoded
  /\ msg = NoMessage
  /\ wire = NoBytes
  /\ rec = EmptyRecord
  /\ todo = << >>
  /\ out = Nowhere
  /\ reply = NoBytes

\* ServeBinaryWs: the connection is upgraded, and the websocket closed again if
\* the certificate gives no identity.
Connect(c) ==
  /\ stage = "offline"
  /\ tls' = <<c>>
  /\ ident' = ExtractIdentityFromConnection(c)
  /\ stage' = IF ident'.err = "none" THEN "open" ELSE "refused"
  /\ UNCHANGED <<decoded, msg, wire, rec, todo, out, reply>>

\* The client starts a message of its own.
Compose(i) ==
  /\ stage = "open"
  /\ msg' = NewStreamMessage(i[1], Txid, i[2])
  /\ stage' = "composing"
  /\ UNCHANGED <<tls, ident, decoded, wire, rec, todo, out, reply>>

\* What a client may do with a message before it sends it: set its identity
\* in either way, its message ID, or take it up again from its bytes.
Amend ==
  /\ stage = "composing"
  /\ \/ msg' = SetIdentity(msg, ident.clientType, ident.deviceID)
     \/ \E s \in Strangers \cup {SenderIDOf(ident)} : msg' = SetSenderID(msg, s)
     \/ msg' = SetMessageID(msg, <<"id">>)
     \/ msg' = StreamMessageFromBytes(ToBytes(msg))
  /\ UNCHANGED <<stage, tls, ident, decoded, wire, rec, todo, out, reply>>

Send ==
  /\ stage = "composing"
  /\ wire' = ToBytes(msg)
  /\ stage' = "sent"
  /\ msg' = NoMessage
  /\ UNCHANGED <<tls, ident, decoded, rec, todo, out, reply>>

SendForeign(b) ==
  /\ stage = "open"
  /\ wire' = b
  /\ stage' = "sent"
  /\ UNCHANGED <<tls, ident, decoded, msg, rec, todo, out, reply>>

\* dispatchConnectivityEvent: the server's own message takes the same way,
\* without a reply; an error of NewRecord is only logged.
ConnectivityMessage(event) ==
  [SetIdentity(NewStreamMessage("connectivity", <<"uuid">>,
                 <<"proto", [vin |-> ident.deviceID, connectionId |-> <<"uuid">>, status |-> event,
                             createdAt |-> <<[seconds |-> Now, millis |-> 0]>>]>>),
               ident.clientType, ident.deviceID)
     EXCEPT !.deviceType = <<Label("vehicle_device")>>, !.createdAt = Now]

DispatchConnectivity(event) ==
  /\ stage = "open"
  /\ "connectivity" \in ConfiguredTopics
  /\ wire' = ToBytes(ConnectivityMessage(event))
  /\ rec' = NewRecord(ident, wire', Now, decoded)
  /\ todo' = IF rec'.err = "none" THEN Dispatchers ELSE << >>
  /\ stage' = IF rec'.err = "none" THEN "dispatching" ELSE "answered"
  /\ UNCHANGED <<tls, ident, decoded, msg, out, reply>>

\* ParseAndProcessRecord up to Dispatch.  A message that is too big or does not
\* decode is answered by an error; an unknown one is acked, and acked again
\* after a Dispatch without dispatchers.
Parse ==
  /\ stage = "sent"
  /\ rec' = NewRecord(ident, wire, Now, decoded)
  /\ LET refused == rec'.err \in {"too_big", "rejected"} IN
     /\ reply' = IF refused THEN ErrorOf(rec')
                 ELSE IF rec'.err = "unknown_type" THEN AckOf(rec') ELSE NoBytes
     /\ stage' = IF refused THEN "answered" ELSE "dispatching"
     /\ todo' = IF ~refused /\ rec'.txType \in ConfiguredTopics THEN Dispatchers ELSE << >>
  /\ UNCHANGED <<tls, ident, decoded, msg, wire, out>>

\* Produce of the next dispatcher.  A panic ends the session: net/http
\* recovers it, and the deferred functions deregister the socket.
Panics(d) == /\ rec.txType = "V" /\ rec.proto # << >>
             /\ \/ d = "logger" /\ PayloadPanics(rec.proto[1], rec.vin)
                \/ d = "mqtt" /\ MqttPanics(rec.proto[1])

Produced(d) ==
  CASE d = "bytes"                        -> <<rec.payload>>
    [] d # "bytes" /\ rec.proto = << >>   -> << >>       \* "unknown txType" is only logged
    [] d = "logger" /\ rec.proto # << >>  -> <<RecordToLogMap(rec.txType, rec.proto[1], rec.vin)>>
    [] d = "mqtt" /\ rec.proto # << >>    -> <<RecordToMqtt(rec.txType, rec.proto[1])>>

Produce ==
  /\ stage = "dispatching" /\ todo # << >>
  /\ IF Panics(Head(todo))
     THEN stage' = "panicked" /\ UNCHANGED <<todo, out>>
     ELSE /\ out' = [out EXCEPT ![Head(todo)] = Produced(Head(todo))]
          /\ todo' = Tail(todo)
          /\ UNCHANGED stage
  /\ UNCHANGED <<tls, ident, decoded, msg, wire, rec, reply>>

\* The ack, at once or through ackChan; a connectivity event has none.
Answer ==
  /\ stage = "dispatching" /\ todo = << >>
  /\ reply' = IF rec.txid = <<"uuid">> THEN NoBytes ELSE AckOf(rec)
  /\ stage' = "answered"
  /\ UNCHANGED <<tls, ident, decoded, msg, wire, rec, todo, out>>

PathNext ==
  \/ \E c \in Connections : Connect(c)
  \/ \E i \in DOMAIN Inputs : Compose(Inputs[i])
  \/ Amend
  \/ Send
  \/ \E b \in Foreign : SendForeign(b)
  \/ \E e \in ConnectivityEvent \ {0} : DispatchConnectivity(e)
  \/ Parse
  \/ Produce
  \/ Answer

PathSpec == PathInit /\ [][PathNext]_pathVars
-----------------------------------------------------------------------------
\* The message in what a dispatcher published.
MessageIn(bytes) == bytes[2]

Known == rec.txType \in ProtoTypes /\ rec.err = "none"

\* Data are published under the vehicle of the certificate, whatever VIN or
\* sender the message names and in whichever encoding: in the message itself
\* as well as in the record (Deserialize, applyProtoRecordTransforms).
VinIsCertified ==
  out["bytes"] # << >> /\ Known =>
     /\ MessageIn(out["bytes"][1]).vin = ident.deviceID
     /\ rec.vin = DeviceIDOf(tls[1].cert)

\* Consumers of the published bytes and readers of the log see one message:
\* to convert what was published gives what the logger and mqtt converted
\* (applyProtoRecordTransforms keeps bytes and message in step).
ConsumersAgree ==
  out["bytes"] # << >> /\ Known =>
    LET m == MessageIn(out["bytes"][1]) IN
    /\ out["logger"] # << >> => out["logger"][1] = RecordToLogMap(rec.txType, m, ident.deviceID)
    /\ out["mqtt"] # << >> => out["mqtt"][1] = RecordToMqtt(rec.txType, m)

\* One value shown by logger and mqtt: the same, but for an enum number
\* without a name, which mqtt may leave a number, and tires, of which mqtt has
\* those that are TRUE and the log those that model has.
SameShown(l, m, vin) ==
  CASE l[1] = "decimal" -> m \in {l, <<"number", l[2]>>}
    [] l[1] = "tires"   -> {TiresOf(vin)[n] : n \in {x \in DOMAIN l[2] : l[2][x]}}
                             = DOMAIN m[2] \cap {TiresOf(vin)[n] : n \in DOMAIN l[2]}
    [] OTHER            -> l = m

\* No signal is lost or shown differently between the two conversions, which
\* are separate switches over 53 kinds of value: a field all of whose data the
\* logger has a case for is in the log and, with the same value, in mqtt
\* (transformValue, getDatumValue, getProtoValue).
ViewsAgree ==
  out["logger"] # << >> /\ out["mqtt"] # << >> /\ rec.txType = "V" =>
    \A i \in DOMAIN rec.proto[1].data :
      LET key == rec.proto[1].data[i].key IN
      /\ key \in DOMAIN out["mqtt"][1]
      /\ key \in Field /\ (\A j \in DOMAIN rec.proto[1].data : rec.proto[1].data[j].key = key => Shown(rec.proto[1].data[j]))
           => /\ key \in DOMAIN out["logger"][1].data
              /\ SameShown(out["logger"][1].data[key], out["mqtt"][1][key], rec.vin)

\* An alert leaves the server with the second it started at, in whichever unit
\* the vehicle sent it, so that consumers may compare start times
\* (convertTimestamp; the field instant of an alert is the time that is meant).
InstantsKept ==
  rec.proto # << >> /\ rec.txType = "alerts" =>
    \A i \in DOMAIN rec.proto[1].alerts :
      LET a == rec.proto[1].alerts[i] IN a.startedAt # << >> => a.startedAt[1].seconds = a.instant

\* Whatever setters are called, and however often a message is taken up again
\* from its bytes, ToBytes encodes its present fields (the setters drop fsm).
EncodedIsCurrent ==
  LET read == StreamMessageFromBytes(ToBytes(msg)) IN
  [read EXCEPT !.fsm = NoBytes] = [msg EXCEPT !.fsm = NoBytes]

\* The server can tell which message these bytes are.
Readable(b) == ~TooBig(b) /\ ~Broken(b) /\ HasEnvelope(b)

\* Ack or error, the vehicle can tell which message a reply is for whenever the
\* server could read the envelope, also if its type is unknown, its sender
\* refused, or its payload does not unmarshal or marshal again; no other reply
\* names a message, and one that was too big or broken is never acked
\* (NewRecord, guessError, Ack, Error).
ReplyNamesMessage ==
  reply # NoBytes =>
    /\ HasEnvelope(reply)
    /\ EnvelopeTxid(reply) = IF Readable(wire) THEN EnvelopeTxid(wire) ELSE NoString
    /\ TooBig(wire) \/ Broken(wire) => IsStreamMessage(reply)
=============================================================================
