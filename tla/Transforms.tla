----------------------------- MODULE Transforms -----------------------------
(***************************************************************************)
(* What NewRecord makes of a message (telemetry/serializer.go Deserialize, *)
(* telemetry/record.go applyRecordTransforms).                             *)
(*                                                                         *)
(* A payload is bytes as a pair: how they are encoded ("proto", "json",    *)
(* "opaque" or "garbage") and the message in them.                         *)
(***************************************************************************)
EXTENDS Envelope, VehicleData

CONSTANTS MaxSecondsInDuration,   \* 315576000000 in the code
          JSONSeconds,            \* the seconds of a timestamp that protojson marshals
          SizeLimit,              \* 1000000 in the code
          Size(_),                \* the length of bytes
          ConfiguredTopics,       \* the domain of DispatchRules
          EmptyMessage            \* what protojson makes of no message: {}

ASSUME MaxSecondsAssumption == MaxSecondsInDuration \in Nat

ProtoTypes == {"V", "alerts", "errors", "connectivity"}

-----------------------------------------------------------------------------
\* Seconds above the bound are taken for milliseconds (time.UnixMilli).
ConvertTimestampAlways(t) == [seconds |-> t.seconds \div 1000, millis |-> t.seconds % 1000]
ConvertTimestamp(t) ==
  IF t.seconds < MaxSecondsInDuration THEN t
  ELSE [seconds |-> t.seconds \div 1000, millis |-> t.seconds % 1000]

ConvertOptional(o) == IF o = << >> THEN << >> ELSE <<ConvertTimestamp(o[1])>>

ConvertAlert(a) == [a EXCEPT !.startedAt = ConvertOptional(a.startedAt), !.endedAt = ConvertOptional(a.endedAt)]

TransformTimestamp(m) == [m EXCEPT !.alerts = [i \in DOMAIN m.alerts |-> ConvertAlert(m.alerts[i])]]

\* ParseLocation: degrees and quadrants; 1 for N and E, -1 for S and W, and 0
\* for a letter that is no quadrant.
LocationParses(text) == text.form = "location" /\ text.args[2] # 0 /\ text.args[4] # 0
ParseLocation(text) == [latitude |-> text.args[1] * text.args[2], longitude |-> text.args[3] * text.args[4]]

IsText(d, form) == /\ d.value # << >> /\ d.value[1].kind = "StringValue"
                   /\ d.value[1].content.form = form

\* Only the first datum of the key is looked at.
TransformLocation(m) ==
  LET located == {i \in DOMAIN m.data : m.data[i].key = Location}
      first   == Min(located)
      parses  == located # {} /\ IsText(m.data[first], "location") /\ LocationParses(m.data[first].value[1].content)
  IN  IF ~parses THEN m
      ELSE [m EXCEPT !.data[first].value =
              <<[kind |-> "LocationValue", content |-> ParseLocation(m.data[first].value[1].content)]>>]

\* "%.5f" of a number in units of 10^-6 (a tie is decided by its binary form).
FiveDecimals(n) == [form |-> "decimal", args |-> <<(n + 5) \div 10>>]

TransformScientificNotation(m) ==
  [m EXCEPT !.data = [i \in DOMAIN @ |->
     IF IsText(@[i], "scientific")
     THEN [@[i] EXCEPT !.value = <<[kind |-> "StringValue", content |-> FiveDecimals(m.data[i].value[1].content.args[1])]>>]
     ELSE @[i]]]

-----------------------------------------------------------------------------
\* Deserialize: the record and its error.  The VIN is the device of the
\* certificate; the sender is only compared for topics without a rule.
SenderMatches(m, ident) == m.senderId \in {SenderIDOf(ident), ident.deviceID}

EmptyRecord == [txid |-> NoString, txType |-> "", vin |-> NoString, payload |-> <<"none">>,
                raw |-> NoBytes, proto |-> << >>, err |-> "none"]

\* guessError without the txid.
GuessErrorNoTxid(b) == [EmptyRecord EXCEPT !.raw = b, !.err = "unknown_type"]

\* guessError: the txid is read from a foreign envelope if there is one.
GuessError(b) ==
  [EmptyRecord EXCEPT !.raw = b, !.err = "unknown_type",
                      !.txid = IF HasEnvelope(b) THEN EnvelopeTxid(b) ELSE NoString]

\* A panic is recovered; nothing of the message is in the record by then but
\* its bytes.
Deserialize(ident, b, now) ==
  IF Broken(b) THEN [EmptyRecord EXCEPT !.raw = b, !.err = "rejected"]
  ELSE IF ~IsStreamMessage(b) THEN GuessError(b)
  ELSE LET m == StreamMessageFromBytes(b) IN
       [txid |-> m.txid, txType |-> m.topic, vin |-> ident.deviceID, payload |-> m.payload,
        raw |-> ToBytes(SetDeliveredAt(m, now)), proto |-> << >>,
        err |-> IF m.topic \in ConfiguredTopics \/ SenderMatches(m, ident) THEN "none" ELSE "rejected"]

\* The transforms of each record type.
Transformed(txType, m) ==
  CASE txType = "alerts" -> TransformTimestamp(m)
    [] txType = "V"      -> TransformScientificNotation(TransformLocation(m))
    [] OTHER             -> m

\* applyProtoRecordTransforms that marshals before it sets the VIN.
ApplyProtoRecordTransformsVinLate(rec) ==
  IF rec.txType \notin ProtoTypes THEN rec
  ELSE IF rec.payload[1] # "proto" THEN [rec EXCEPT !.err = "rejected"]
  ELSE LET m == Transformed(rec.txType, rec.payload[2]) IN
       [rec EXCEPT !.payload = <<"proto", m>>, !.proto = <<[m EXCEPT !.vin = rec.vin]>>]

\* applyProtoRecordTransforms that forgets to marshal what it transformed.
ApplyProtoRecordTransformsOldBytes(rec) ==
  IF rec.txType \notin ProtoTypes THEN rec
  ELSE IF rec.payload[1] # "proto" THEN [rec EXCEPT !.err = "rejected"]
  ELSE LET m == [rec.payload[2] EXCEPT !.vin = rec.vin] IN
       [rec EXCEPT !.payload = <<"proto", m>>, !.proto = <<Transformed(rec.txType, m)>>]

\* applyProtoRecordTransforms: unmarshal, set the VIN, transform, marshal.
ApplyProtoRecordTransforms(rec) ==
  IF rec.txType \notin ProtoTypes THEN rec
  ELSE IF rec.payload[1] # "proto" THEN [rec EXCEPT !.err = "rejected"]
  ELSE LET m == Transformed(rec.txType, [rec.payload[2] EXCEPT !.vin = rec.vin]) IN
       [rec EXCEPT !.payload = <<"proto", m>>, !.proto = <<m>>]

\* toJSON: protojson marshals no message as {}, and refuses one with a
\* timestamp out of its range.
TimestampsIn(txType, m) ==
  CASE txType = "alerts" -> UNION {Range(m.alerts[i].startedAt) \cup Range(m.alerts[i].endedAt) : i \in DOMAIN m.alerts}
    [] txType = "errors" -> UNION {Range(m.errors[i].createdAt) : i \in DOMAIN m.errors}
    [] OTHER             -> Range(m.createdAt)

Marshals(rec) == \A m \in Range(rec.proto) : \A t \in TimestampsIn(rec.txType, m) : t.seconds \in JSONSeconds
ToJSON(rec) == <<"json", IF rec.proto = << >> THEN EmptyMessage ELSE rec.proto[1]>>

\* applyRecordTransforms
ApplyRecordTransforms(rec, transmitDecodedRecords) ==
  LET r == ApplyProtoRecordTransforms(rec) IN
  IF r.err # "none" \/ ~transmitDecodedRecords THEN r
  ELSE IF Marshals(r) THEN [r EXCEPT !.payload = ToJSON(r)]
  ELSE [r EXCEPT !.payload = <<"none">>, !.err = "rejected"]

TooBig(b) == Size(b) > SizeLimit

NewRecord(ident, b, now, transmitDecodedRecords) ==
  LET rec == Deserialize(ident, b, now) IN
  IF TooBig(b) THEN [EmptyRecord EXCEPT !.err = "too_big"]
  ELSE IF rec.err # "none" THEN rec
  ELSE ApplyRecordTransforms(rec, transmitDecodedRecords)

\* BinarySerializer.Ack and Error
AckOf(rec) == StreamAckToBytes([topic |-> rec.txType, txid |-> rec.txid, messageId |-> NoString])
ErrorOf(rec) == StreamToBytes(NewStreamMessage("", rec.txid, <<"opaque", "incorrect message format">>))
=============================================================================
