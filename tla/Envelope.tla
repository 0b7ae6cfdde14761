------------------------------ MODULE Envelope ------------------------------
(***************************************************************************)
(* The FlatBuffers envelopes between vehicle and server (messages/         *)
(* stream_message.go, stream_ack_message.go, messages/tesla).              *)
(*                                                                         *)
(* Bytes are what a reader gets out of them: nothing, or the fields of an  *)
(* envelope and of the stream message in it, unless they point outside the *)
(* bytes, where FlatBuffers panics.  A StreamMessage made from             *)
(* bytes keeps them (fsm), and ToBytes encodes those instead of the fields *)
(* of the struct; every setter has to drop them.                           *)
(***************************************************************************)
EXTENDS Identity

NONE == 0
FlatbuffersStream == 4
FlatbuffersStreamAck == 5

NoBytes == << >>
NoString == << >>

\* FlatbuffersStreamToBytes, FlatbuffersEnvelopeToBytes: every field is
\* written, absent ones as empty.
StreamToBytes(m) ==
  <<[type |-> FlatbuffersStream, message |-> TRUE, intact |-> TRUE, topic |-> m.topic, txid |-> m.txid, messageId |-> m.messageId,
     senderId |-> m.senderId, deviceType |-> m.deviceType, deviceId |-> m.deviceId,
     deliveredAt |-> m.deliveredAt, createdAt |-> m.createdAt, payload |-> m.payload]>>

\* An ack carries no stream message, only an empty vector in its place.
StreamAckToBytes(a) ==
  <<[type |-> FlatbuffersStreamAck, message |-> TRUE, intact |-> TRUE, topic |-> a.topic, txid |-> a.txid, messageId |-> a.messageId,
     senderId |-> NoString, deviceType |-> NoString, deviceId |-> NoString,
     deliveredAt |-> 0, createdAt |-> 0, payload |-> << >>]>>

\* Reading these bytes panics.
Broken(b) == b # NoBytes /\ ~b[1].intact

\* FlatbuffersEnvelopeFromBytes finds an envelope with a message in it.
HasEnvelope(b) == b # NoBytes /\ b[1].message
EnvelopeType(b) == b[1].type
EnvelopeTxid(b) == b[1].txid
EnvelopeTopic(b) == b[1].topic

\* The struct as its users build it, without bytes behind it.
NewStreamMessage(topic, txid, payload) ==
  [fsm |-> NoBytes, topic |-> topic, txid |-> txid, messageId |-> NoString, senderId |-> NoString,
   deviceType |-> NoString, deviceId |-> NoString, deliveredAt |-> 0, createdAt |-> 0, payload |-> payload]

IsStreamMessage(b) == HasEnvelope(b) /\ EnvelopeType(b) = FlatbuffersStream

StreamMessageFromBytes(b) ==
  [fsm |-> b, topic |-> EnvelopeTopic(b), txid |-> EnvelopeTxid(b), messageId |-> b[1].messageId,
   senderId |-> b[1].senderId, deviceType |-> b[1].deviceType, deviceId |-> b[1].deviceId,
   deliveredAt |-> b[1].deliveredAt, createdAt |-> b[1].createdAt, payload |-> b[1].payload]

\* fsm.ToBytes(envelope) writes what it reads from the old bytes.
ToBytes(m) == IF m.fsm = NoBytes THEN StreamToBytes(m) ELSE StreamToBytes(m.fsm[1])

SetSenderID(m, senderID) ==
  [m EXCEPT !.senderId = senderID, !.deviceType = <<ParseSenderID(senderID)[1]>>,
            !.deviceId = ParseSenderID(senderID)[2], !.fsm = NoBytes]

SetIdentity(m, deviceType, deviceID) ==
  [m EXCEPT !.senderId = BuildClientID(deviceType, deviceID), !.deviceType = <<deviceType>>,
            !.deviceId = deviceID, !.fsm = NoBytes]

\* SetMessageID that keeps the bytes the message was made from.
SetMessageIDKeepsBytes(m, messageID) == [m EXCEPT !.messageId = messageID]
SetMessageID(m, messageID) == [m EXCEPT !.messageId = messageID, !.fsm = NoBytes]

SetDeliveredAt(m, t) == [m EXCEPT !.deliveredAt = t, !.fsm = NoBytes]
=============================================================================
