---------------------------- MODULE Transformers ----------------------------
(***************************************************************************)
(* How a decoded message is shown by the dispatchers that convert it: the  *)
(* logger (datastore/simple) and mqtt (mqtt_payload.go).  A shown value is *)
(* a pair: how it is written, and what of it.                              *)
(***************************************************************************)
EXTENDS Transforms

CONSTANTS ModelLetter     \* VIN -> its fourth character; "" for a shorter VIN

SemiModelLetter == "T"

\* String() of an enum: its name, or the number in decimal.
EnumString(kind, n) == IF n \in EnumOf[kind] THEN <<"name", n>> ELSE <<"decimal", n>>

\* AsTime() of a timestamp that may be nil, in whole seconds: both Unix() and
\* the RFC3339 layout drop the fraction.
Seconds(o) == IF o = << >> THEN 0 ELSE o[1].seconds

\* transformValue has a case for each of these.
LoggerCases == Kinds \ {"ChargingValue"}

\* The name in the log -> the flag of the message.
CarTires == [FrontLeft |-> "FrontLeft", FrontRight |-> "FrontRight", RearLeft |-> "RearLeft", RearRight |-> "RearRight"]
SemiTires ==
  [FrontLeft |-> "FrontLeft", FrontRight |-> "FrontRight",
   SemiMiddleAxleLeft |-> "RearLeft", SemiMiddleAxleRight |-> "RearRight",
   SemiMiddleAxleLeft2 |-> "SemiMiddleAxleLeft_2", SemiMiddleAxleRight2 |-> "SemiMiddleAxleRight_2",
   SemiRearAxleLeft |-> "SemiRearAxleLeft", SemiRearAxleRight |-> "SemiRearAxleRight",
   SemiRearAxleLeft2 |-> "SemiRearAxleLeft_2", SemiRearAxleRight2 |-> "SemiRearAxleRight_2"]
TiresOf(vin) == IF ModelLetter[vin] = SemiModelLetter THEN SemiTires ELSE CarTires

\* The cases the logger and mqtt share.
PlainValue(value) ==
  CASE value.kind \in DOMAIN EnumOf     -> EnumString(value.kind, value.content)
    [] value.kind \in NumberKinds       -> <<"number", value.content>>
    [] value.kind = "StringValue"       -> <<"text", value.content>>
    [] value.kind = "BooleanValue"      -> <<"bool", value.content>>
    [] value.kind = "LocationValue"     -> <<"location", value.content>>
    [] value.kind = "DoorValue"         -> <<"doors", value.content>>
    [] value.kind = "TimeValue"         -> <<"clock", value.content>>

\* transformValue, of a value with one of the LoggerCases.
TransformValue(value, vin) ==
  CASE value.kind = "Invalid"           -> <<"invalid", TRUE>>
    [] value.kind = "TireLocationValue" ->
         <<"tires", [n \in DOMAIN TiresOf(vin) |-> TiresOf(vin)[n] \in value.content]>>
    [] OTHER                            -> PlainValue(value)

\* The name of a field in the log: "" for a number without a name.
FieldName(key) == IF key \in Field THEN key ELSE -1

Shown(d) == d.value # << >> /\ d.value[1].kind \in LoggerCases

\* vin[3] of a VIN that has no fourth character.
PayloadPanics(m, vin) ==
  ModelLetter[vin] = "" /\ \E i \in DOMAIN m.data :
     m.data[i].value # << >> /\ m.data[i].value[1].kind = "TireLocationValue"

\* PayloadToMap: data that are not shown are logged and skipped; the last of
\* the data with one name stays.
LogData(m, vin) ==
  LET shown    == {i \in DOMAIN m.data : Shown(m.data[i])}
      named(k) == {i \in shown : FieldName(m.data[i].key) = k}
  IN  [k \in {FieldName(m.data[i].key) : i \in shown} |-> TransformValue(m.data[Max(named(k))].value[1], vin)]

VehicleAlertToMap(a) ==
  [name |-> a.name, startedAt |-> IF a.startedAt = << >> THEN << >> ELSE <<Seconds(a.startedAt)>>,
   endedAt |-> IF a.endedAt = << >> THEN << >> ELSE <<Seconds(a.endedAt)>>,
   audiences |-> IF a.audiences = << >> THEN << >>
                 ELSE [i \in DOMAIN a.audiences[1] |->
                         <<IF a.audiences[1][i] \in Audience THEN "name" ELSE "decimal", a.audiences[1][i]>>]]

VehicleErrorToMap(e) ==
  [name |-> e.name, body |-> e.body, createdAt |-> IF e.createdAt = << >> THEN << >> ELSE <<Seconds(e.createdAt)>>]

VehicleConnectivityToMap(m) ==
  [vin |-> m.vin, connectionId |-> m.connectionId, createdAt |-> Seconds(m.createdAt),
   status |-> <<IF m.status \in ConnectivityEvent THEN "name" ELSE "decimal", m.status>>]

\* recordToLogMap
RecordToLogMap(txType, m, vin) ==
  CASE txType = "V"            -> [vin |-> m.vin, createdAt |-> Seconds(m.createdAt), isResend |-> m.isResend,
                                   data |-> LogData(m, vin)]
    [] txType = "alerts"       -> [i \in DOMAIN m.alerts |-> VehicleAlertToMap(m.alerts[i])]
    [] txType = "errors"       -> [i \in DOMAIN m.errors |-> VehicleErrorToMap(m.errors[i])]
    [] txType = "connectivity" -> VehicleConnectivityToMap(m)

-----------------------------------------------------------------------------
\* getDatumValue has a case of its own for these.
MqttCases ==
  NumberKinds \cup
  {"StringValue", "LocationValue", "BooleanValue", "Invalid", "DoorValue", "TimeValue", "ShiftStateValue",
   "LaneAssistLevelValue", "ScheduledChargingModeValue", "SentryModeStateValue", "SpeedAssistLevelValue",
   "BmsStateValue", "BuckleStatusValue", "CarTypeValue", "ChargePortValue", "ChargePortLatchValue",
   "DriveInverterStateValue", "HvilStatusValue", "WindowStateValue", "SeatFoldPositionValue",
   "TractorAirStatusValue", "FollowDistanceValue", "ForwardCollisionSensitivityValue",
   "GuestModeMobileAccessValue", "TrailerAirStatusValue", "DetailedChargeStateValue",
   "SunroofInstalledStateValue", "TurnSignalStateValue", "MediaStatusValue"}

\* getProtoValue that converts an enum by its number alone.
GetProtoValueNumbers(value) ==
  CASE value = NoKind                   -> <<"empty", TRUE>>
    [] value.kind \in DOMAIN EnumOf     -> <<"number", value.content>>
    [] OTHER                            -> <<"tires", [f \in value.content |-> TRUE]>>

\* getProtoValue, by reflection: a number without a name stays a number, and
\* flags that are FALSE are not there.
GetProtoValue(value) ==
  CASE value = NoKind                   -> <<"empty", TRUE>>
    [] value.kind \in DOMAIN EnumOf     -> IF value.content \in EnumOf[value.kind] THEN <<"name", value.content>>
                                           ELSE <<"number", value.content>>
    [] OTHER                            -> <<"tires", [f \in value.content |-> TRUE]>>

GetDatumValue(value) ==
  CASE value.kind = "Invalid"           -> <<"invalid", TRUE>>
    [] value.kind \in MqttCases \ {"Invalid"} -> PlainValue(value)
    [] OTHER                            -> GetProtoValue(value)

\* getDatumValue of a nil value.
MqttPanics(m) == \E i \in DOMAIN m.data : m.data[i].value = << >>

\* payloadToMap: one topic per key, numbers without a name in decimal; the last
\* of the data with one key stays.
MqttData(m) ==
  LET keyed(k) == {i \in DOMAIN m.data : m.data[i].key = k}
  IN  [k \in {m.data[i].key : i \in DOMAIN m.data} |-> GetDatumValue(m.data[Max(keyed(k))].value[1])]

\* vehicleAlertToMqttMap, vehicleErrorToMqttMap and processVehicleConnectivity
\* show the same fields, the name and the VIN in the topic.
RecordToMqtt(txType, m) ==
  CASE txType = "V"            -> MqttData(m)
    [] txType = "alerts"       -> [i \in DOMAIN m.alerts |-> VehicleAlertToMap(m.alerts[i])]
    [] txType = "errors"       -> [i \in DOMAIN m.errors |-> VehicleErrorToMap(m.errors[i])]
    [] txType = "connectivity" -> VehicleConnectivityToMap(m)
=============================================================================
