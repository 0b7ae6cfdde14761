---------------------------- MODULE MCDeployment ----------------------------
(***************************************************************************)
(* A bundle for one server, a device, a device with the same file name, a  *)
(* board and a client whose name ends in " CA"; vehicles with Tesla's      *)
(* certificates, of each kind CreateIdentityFromCert tells apart; messages *)
(* of each record type with each kind of value.                            *)
(***************************************************************************)
EXTENDS Deployment

Car == <<<<"5YJ3E1">>>>
Dotted == <<<<"LRW3", "x">>, <<"F7">>>>     \* a common name with a dot and a dash
Semi == <<<<"7G2TEKED">>>>
Short == <<<<"AB">>>>                       \* too short to have a model letter
Device == <<<<"device">>, <<"1">>>>
Board == <<<<"board", "1">>>>

Dashed == <<<<"device", "1">>>>
NamedCA == <<<<"Other CA">>>>

Servers == <<<<<<"app">>>>>>
Clients == <<Dashed, Device, Board, NamedCA>>
Boards == {Board}

Certified(issuer, cn, ou, oids) == [issuer |-> issuer, cn |-> cn, ou |-> ou, oids |-> oids]
OIDIssuer == "Tesla Motors Product Issuing CA"
MCConnections ==
  {[cert |-> Certified("Tesla Motors Products CA", Board, <<"Tesla Motors SN">>, << >>), verified |-> TRUE],
   [cert |-> Certified("TeslaMotors", Dotted, << >>, << >>), verified |-> TRUE],
   [cert |-> Certified("Tesla Issuing CA", Car, << >>, << >>), verified |-> FALSE],
   [cert |-> Certified("Unknown CA", Car, << >>, << >>), verified |-> TRUE],
   [cert |-> Certified(OIDIssuer, Semi, << >>, << <<5, 99>>, <<5, 1>> >>), verified |-> TRUE],
   [cert |-> Certified(OIDIssuer, Short, <<"Other", "Gen3 Wall Connector">>, << <<4, 28>> >>), verified |-> TRUE],
   [cert |-> Certified(OIDIssuer, Car, << >>, << <<5, 1, 1>>, <<5, 1>> >>), verified |-> TRUE],
   [cert |-> Certified(OIDIssuer, Car, << >>, << <<5, 99>> >>), verified |-> TRUE]}

Names == {Car, Dotted, Semi, Short, Device, Board}
VINs == Names \cup {DeviceIDOf([cn |-> c]) : c \in Names} \cup {<< >>}
MCModelLetter == [v \in VINs |-> IF v = Semi THEN "T" ELSE IF v = Short THEN "" ELSE "3"]

Stranger == <<Label("vehicle_device"), <<"OTHER">>>>
MCStrangers == {Stranger}

-----------------------------------------------------------------------------
\* Messages.  The time that is meant is 7 seconds, sent as seconds or, past
\* the bound of 5000, as milliseconds.  JSON has timestamps up to 4000 only, as
\* the year 9999 is before the bound of the code.
At(seconds) == <<[seconds |-> seconds, millis |-> 0]>>
Claimed == <<<<"OTHER">>>>     \* a VIN that is not the vehicle's

PayloadOf(data) == <<"proto", [vin |-> Claimed, createdAt |-> At(7), isResend |-> FALSE, data |-> data]>>
Datum(key, kind, v) == [key |-> key, value |-> <<[kind |-> kind, content |-> v]>>]

\* Every number of an enum and two without a name, each under a key of its own.
EnumData(kind) ==
  [i \in 1..(Cardinality(EnumOf[kind]) + 2) |-> Datum(i, kind, IF i = Cardinality(EnumOf[kind]) + 2 THEN -1 ELSE i - 1)]

TextOf(form, args) == [form |-> form, args |-> args]
Home == TextOf("location", <<37, 1, 122, -1>>)
SomeTires == {"FrontLeft", "RearLeft", "SemiMiddleAxleRight_2", "SemiRearAxleLeft"}
PlainData ==
  <<Datum(Location, "StringValue", Home),
    Datum(Location, "StringValue", TextOf("location", <<37, 0, 122, -1>>)),
    Datum(Location, "LocationValue", [latitude |-> -33, longitude |-> 151]),
    Datum(5, "StringValue", TextOf("scientific", <<1234>>)),
    Datum(5, "StringValue", Home),
    Datum(5, "FloatValue", 12),
    Datum(300, "BooleanValue", TRUE),
    Datum(301, "Invalid", TRUE),
    Datum(6, "ChargingValue", 3),
    Datum(6, "TireLocationValue", SomeTires),
    [key |-> 6, value |-> << >>],
    [key |-> 6, value |-> <<NoKind>>]>>

\* F(x) for every x of a set, and F(x, y) for every two elements of s, in sequence.
Each(S, F(_)) == FoldSet(LAMBDA x, acc : Append(acc, F(x)), << >>, S)
Pairs(s, F(_, _)) ==
  LET n == Len(s) IN [i \in 1..(n * n) |-> F(s[1 + ((i - 1) \div n)], s[1 + ((i - 1) % n)])]

VPayloads ==
  Each(DOMAIN EnumOf, LAMBDA k : PayloadOf(EnumData(k)))
  \o Each(NumberKinds, LAMBDA k : PayloadOf(<<Datum(7, k, -3)>>))
  \o Each({{}, {"FrontRight"}, {"RearRight"}, {"SemiRearAxleRight_2"}},
          LAMBDA t : PayloadOf(<<Datum(8, "TireLocationValue", t)>>))
  \o Pairs(PlainData, LAMBDA d, e : PayloadOf(<<d, e>>))
  \o <<PayloadOf(<< >>),
       PayloadOf(<<Datum(5, "StringValue", TextOf("empty", << >>)), Datum(6, "DoorValue", {"TrunkRear"}),
                   Datum(7, "TimeValue", [hour |-> 23, minute |-> 0, second |-> 59])>>)>>

Alert(started, instant, ended, audiences) ==
  [name |-> "alert", startedAt |-> started, endedAt |-> ended, audiences |-> audiences, instant |-> instant]
Alerts ==
  <<Alert(At(7), 7, << >>, << >>), Alert(At(7000), 7, At(9001), << <<1, 9>> >>),
    Alert(At(4999), 4999, At(8), << << >> >>), Alert(At(5000), 5, << >>, << <<0>> >>), Alert(<< >>, 0, << >>, << >>)>>

ErrorsOf(body, at) == <<"errors", <<"proto", [vin |-> Claimed, errors |-> <<[name |-> "error", body |-> body, createdAt |-> at]>>]>> >>

MCInputs ==
  [i \in 1..Len(VPayloads) |-> <<"V", VPayloads[i]>>]
  \o Pairs(Alerts, LAMBDA a, b : <<"alerts", <<"proto", [vin |-> Claimed, alerts |-> <<a, b>>]>> >>)
  \o <<ErrorsOf("", << >>), ErrorsOf("body", At(7)), ErrorsOf("body", At(4999))>>
  \o Each({1, 9}, LAMBDA s :
        <<"connectivity", <<"proto", [vin |-> Claimed, connectionId |-> <<"c">>, status |-> s, createdAt |-> At(7)]>> >>)
  \o Each(ProtoTypes, LAMBDA t : <<t, <<"garbage", "bytes">> >>)
  \o Each({"custom", "unconfigured"}, LAMBDA t : <<t, <<"opaque", "bytes">> >>)
  \o Each({"limit", "over"}, LAMBDA x : <<"custom", <<"opaque", x>> >>)

\* A message at the limit, and one above it.
MCSize(b) ==
  IF b = NoBytes THEN 0
  ELSE IF b[1].payload = <<"opaque", "limit">> THEN 2
  ELSE IF b[1].payload = <<"opaque", "over">> THEN 3 ELSE 1

\* No bytes, an ack, an envelope without a message, and a stream message and an
\* ack that point outside their bytes.
MCForeign ==
  {NoBytes,
   <<[StreamToBytes(NewStreamMessage("V", Txid, <<"opaque", "bytes">>))[1] EXCEPT !.intact = FALSE]>>,
   <<[StreamAckToBytes([topic |-> "V", txid |-> Txid, messageId |-> NoString])[1] EXCEPT !.intact = FALSE]>>,
   StreamAckToBytes([topic |-> "V", txid |-> Txid, messageId |-> NoString]),
   <<[StreamAckToBytes([topic |-> "V", txid |-> Txid, messageId |-> NoString])[1] EXCEPT !.message = FALSE]>>}

MCJSONSeconds == 0..4000
MCConfigured == {"V", "alerts", "errors", "connectivity", "custom"}
MCEmptyMessage == [vin |-> NoString]
MCDispatchers == <<"bytes", "logger", "mqtt">>
=============================================================================
