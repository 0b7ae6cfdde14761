---------------------------- MODULE VehicleData ----------------------------
(***************************************************************************)
(* The messages vehicles send, as the generated code of protos/ declares   *)
(* them.  An enum is a 32-bit number of which some have a name: a vehicle  *)
(* with newer firmware may send others, and they survive decoding.  Here   *)
(* an enum is the set of its named numbers; the names themselves are       *)
(* wording.                                                                *)
(***************************************************************************)
EXTENDS Integers, Sequences

Field == 0..259
Location == 21

ChargingState == 0..6
DetailedChargeStateValue == 0..6
ShiftState == 0..6
FollowDistance == 0..7
ForwardCollisionSensitivity == 0..4
GuestModeMobileAccess == 0..18
LaneAssistLevel == 0..3
ScheduledChargingModeValue == 0..3
SentryModeState == 0..6
SpeedAssistLevel == 0..3
BMSStateValue == 0..10
BuckleStatus == 0..3
CarTypeValue == 0..6
ChargePortValue == 0..4
ChargePortLatchValue == 0..4
DriveInverterState == 0..5
HvilStatus == 0..2
WindowState == 0..3
SeatFoldPosition == 0..5
TractorAirStatus == 0..6
TrailerAirStatus == 0..7
HvacAutoModeState == 0..2
CabinOverheatProtectionModeState == 0..3
ClimateOverheatProtectionTempLimit == 0..3
DefrostModeState == 0..4
ClimateKeeperModeState == 0..4
HvacPowerState == 0..4
FastCharger == 0..8
CableType == 0..5
TonneauTentModeState == 0..4
TonneauPositionState == 0..4
PowershareState == 0..6
PowershareStopReasonStatus == 0..7
PowershareTypeStatus == 0..3
DisplayState == 0..10
DistanceUnit == 0..2
TemperatureUnit == 0..2
PressureUnit == 0..2
ChargeUnitPreference == 0..2
SunroofInstalledState == 0..3
TurnSignalState == 0..4
MediaStatus == 0..3

\* The kinds of the oneof of a Value that hold an enum.
EnumOf ==
  [ChargingValue |-> ChargingState, ShiftStateValue |-> ShiftState,
   LaneAssistLevelValue |-> LaneAssistLevel,
   ScheduledChargingModeValue |-> ScheduledChargingModeValue,
   SentryModeStateValue |-> SentryModeState, SpeedAssistLevelValue |-> SpeedAssistLevel,
   BmsStateValue |-> BMSStateValue, BuckleStatusValue |-> BuckleStatus,
   CarTypeValue |-> CarTypeValue, ChargePortValue |-> ChargePortValue,
   ChargePortLatchValue |-> ChargePortLatchValue,
   DriveInverterStateValue |-> DriveInverterState, HvilStatusValue |-> HvilStatus,
   WindowStateValue |-> WindowState, SeatFoldPositionValue |-> SeatFoldPosition,
   TractorAirStatusValue |-> TractorAirStatus, FollowDistanceValue |-> FollowDistance,
   ForwardCollisionSensitivityValue |-> ForwardCollisionSensitivity,
   GuestModeMobileAccessValue |-> GuestModeMobileAccess,
   TrailerAirStatusValue |-> TrailerAirStatus,
   DetailedChargeStateValue |-> DetailedChargeStateValue,
   HvacAutoModeValue |-> HvacAutoModeState,
   CabinOverheatProtectionModeValue |-> CabinOverheatProtectionModeState,
   CabinOverheatProtectionTemperatureLimitValue |-> ClimateOverheatProtectionTempLimit,
   DefrostModeValue |-> DefrostModeState,
   ClimateKeeperModeValue |-> ClimateKeeperModeState, HvacPowerValue |-> HvacPowerState,
   FastChargerValue |-> FastCharger, CableTypeValue |-> CableType,
   TonneauTentModeValue |-> TonneauTentModeState,
   TonneauPositionValue |-> TonneauPositionState,
   PowershareTypeValue |-> PowershareTypeStatus, PowershareStateValue |-> PowershareState,
   PowershareStopReasonValue |-> PowershareStopReasonStatus,
   DisplayStateValue |-> DisplayState, DistanceUnitValue |-> DistanceUnit,
   TemperatureUnitValue |-> TemperatureUnit, PressureUnitValue |-> PressureUnit,
   ChargeUnitPreferenceValue |-> ChargeUnitPreference,
   TurnSignalStateValue |-> TurnSignalState, MediaStatusValue |-> MediaStatus,
   SunroofInstalledStateValue |-> SunroofInstalledState]

\* vehicle_alert.pb.go and vehicle_connectivity.pb.go
Audience == 0..3
ConnectivityEvent == 0..2

-----------------------------------------------------------------------------
\* The messages.  A nil pointer is the empty sequence, a present value a
\* sequence of one; a message of flags is the set of those that are TRUE.
IsOptional(o, S) == o = << >> \/ (Len(o) = 1 /\ o[1] \in S)

LocationValue == [latitude : Int, longitude : Int]
Doors == SUBSET {"DriverFront", "DriverRear", "PassengerFront", "PassengerRear", "TrunkFront", "TrunkRear"}
TireLocation ==
  SUBSET {"FrontLeft", "FrontRight", "RearLeft", "RearRight", "SemiMiddleAxleLeft_2",
          "SemiMiddleAxleRight_2", "SemiRearAxleLeft", "SemiRearAxleRight", "SemiRearAxleLeft_2",
          "SemiRearAxleRight_2"}
Time == [hour : Int, minute : Int, second : Int]

\* A string as far as the server looks into it: empty, a number in scientific
\* notation (in units of 10^-6) or with five decimals (of 10^-5), degrees with
\* their quadrants, or anything else.
TextForms == {"empty", "plain", "scientific", "decimal", "location"}
Text == [form : TextForms, args : Seq(Int)]

NumberKinds == {"IntValue", "LongValue", "FloatValue", "DoubleValue"}

\* What a kind of the oneof holds.  Int for an enum: any number can be sent.
ValueOf(kind) ==
  CASE kind = "StringValue"                 -> Text
    [] kind \in {"BooleanValue", "Invalid"} -> BOOLEAN
    [] kind = "LocationValue"               -> LocationValue
    [] kind = "DoorValue"                   -> Doors
    [] kind = "TimeValue"                   -> Time
    [] kind = "TireLocationValue"           -> TireLocation
    [] OTHER                                -> Int

Kinds == DOMAIN EnumOf \cup NumberKinds \cup
         {"StringValue", "BooleanValue", "Invalid", "LocationValue", "DoorValue", "TimeValue",
          "TireLocationValue"}

\* A value with a kind of the oneof, or with none.
NoKind == [kind |-> "none"]
IsValue(v) == v = NoKind \/ (v.kind \in Kinds /\ v.content \in ValueOf(v.kind))

\* A datum: a key, which may have no name, and a value, which may be nil.
IsDatum(d) == d.key \in Int /\ (d.value = << >> \/ IsValue(d.value[1]))

\* A timestamp, to the millisecond.
Timestamp == [seconds : Int, millis : 0..999]

IsPayload(p) == /\ {"vin", "data"} \subseteq DOMAIN p
                /\ Len(p.data) \in Nat /\ DOMAIN p.data = 1..Len(p.data)
                /\ \A i \in DOMAIN p.data : IsDatum(p.data[i])
                /\ IsOptional(p.createdAt, Timestamp)
                /\ p.isResend \in BOOLEAN
IsVehicleAlerts(p) == /\ {"vin", "alerts"} \subseteq DOMAIN p
                      /\ \A i \in DOMAIN p.alerts :
                           /\ {"startedAt", "endedAt"} \subseteq DOMAIN p.alerts[i]
                           /\ IsOptional(p.alerts[i].audiences, Seq(Int))
                           /\ IsOptional(p.alerts[i].startedAt, Timestamp)
                           /\ IsOptional(p.alerts[i].endedAt, Timestamp)
IsVehicleErrors(p) == /\ {"vin", "errors"} \subseteq DOMAIN p
                      /\ \A i \in DOMAIN p.errors : IsOptional(p.errors[i].createdAt, Timestamp)
IsVehicleConnectivity(p) == /\ "vin" \in DOMAIN p
                            /\ p.status \in Int
                            /\ IsOptional(p.createdAt, Timestamp)
=============================================================================
