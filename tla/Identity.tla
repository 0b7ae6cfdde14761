------------------------------ MODULE Identity ------------------------------
(***************************************************************************)
(* Who a client certificate belongs to (messages/identity.go).             *)
(*                                                                         *)
(* A string that the code takes apart at its dots is the sequence of its   *)
(* dot-free labels; a label is the sequence of its parts between dashes.   *)
(* A certificate is what CreateIdentityFromCert reads of it: the common    *)
(* names of issuer and subject, the organizational units, and the          *)
(* extended key usages, as the arcs below 1.3.6.1.4.1.49279.2.             *)
(***************************************************************************)
EXTENDS Naturals, SequencesExt

knownIssuers == {"TeslaMotors", "Tesla Issuing CA", "Tesla Motors Products CA"}

knownOIDIssuers ==
  {"Tesla Motors Product Issuing CA", "Tesla Motors Product RSA Issuing CA",
   "Tesla Motors GF3 Product Issuing CA", "Tesla Motors GF3 Product RSA Issuing CA",
   "Tesla Energy Product Issuing CA", "Tesla Energy GF0 Product Issuing CA",
   "Tesla Motors GF0 Product Issuing CA", "Tesla Motors GF Austin Product Issuing CA",
   "Tesla Motors GF Berlin Product Issuing CA", "Tesla Product Access Issuing CA",
   "Tesla China Product Access Issuing CA", "Tesla GF0 Product Access Issuing CA",
   "Tesla GF3 Product Access Issuing CA", "Tesla GF Austin Product Access Issuing CA",
   "Tesla GF Berlin Product Access Issuing CA"}

\* The same eight usages under Eng (4) and Prod (5).
oidMap ==
  LET usage == {<<1, "vehicle_device">>, <<11, "vehicle_board_device">>, <<2, "energy_device">>,
                <<12, "das_device">>, <<14, "vehicle_service">>, <<15, "das_service">>,
                <<16, "energy_service">>, <<28, "robotics_device">>}
  IN  [oid \in {4, 5} \X {u[1] : u \in usage} |-> (CHOOSE u \in usage : u[1] = oid[2])[2]]

ouMap == [ou \in {"Solar Inverter", "Gen3 Wall Connector"} |->
            IF ou = "Solar Inverter" THEN "solar_inverter_device" ELSE "wall_connector_device"]

excludedOIDs == {<<5, 1, 1>>}    \* WifiEapCertOID

Identified(clientType, deviceID) == [clientType |-> clientType, deviceID |-> deviceID, err |-> "none"]
Refused(err) == [clientType |-> << >>, deviceID |-> << >>, err |-> err]

\* A dot-free string of one part.
Label(s) == <<s>>

\* createIdentityFromOU: the first organizational unit with a type of its own.
OUTypes(cert) == {i \in DOMAIN cert.ou : cert.ou[i] \in DOMAIN ouMap}

\* createIdentifyFromOID: the first usage that either table names decides.
CreateIdentityFromOID(cert, deviceID) ==
  LET named == {i \in DOMAIN cert.oids : cert.oids[i] \in excludedOIDs \cup DOMAIN oidMap}
      first == cert.oids[Min(named)]
  IN  IF named = {} THEN Refused("unauthorized")
      ELSE IF first \in excludedOIDs THEN Refused("excluded")
      ELSE IF OUTypes(cert) # {} THEN Identified(Label(ouMap[cert.ou[Min(OUTypes(cert))]]), deviceID)
      ELSE Identified(Label(oidMap[first]), deviceID)

\* strings.ReplaceAll(CommonName, ".", "-"): all labels become one.
DeviceIDOf(cert) == <<FlattenSeq(cert.cn)>>

CreateIdentityFromCert(cert) ==
  CASE cert.issuer \in knownOIDIssuers  -> CreateIdentityFromOID(cert, DeviceIDOf(cert))
    [] cert.issuer \notin knownIssuers \cup knownOIDIssuers -> Refused("unauthorized")
    [] /\ cert.issuer = "Tesla Motors Products CA"
       /\ cert.ou # << >> /\ cert.ou[1] = "Tesla Motors SN" ->
         Identified(Label("vehicle_board_device"), DeviceIDOf(cert))
    [] OTHER -> Identified(Label("vehicle_device"), DeviceIDOf(cert))

\* fmt.Sprintf("%s.%s", clientType, deviceID)
BuildClientID(clientType, deviceID) == <<clientType>> \o deviceID

\* strings.SplitN(senderID, ".", 2): the first label, and the rest.
ParseSenderID(senderID) == <<Head(senderID), Tail(senderID)>>

\* extractIdentityFromConnection that takes the common name as it stands.
ExtractIdentityCommonName(tls) ==
  IF tls.verified THEN [CreateIdentityFromCert(tls.cert) EXCEPT !.deviceID = tls.cert.cn]
  ELSE Refused("missing_verified_client_certificate")

\* extractIdentityFromConnection: only a verified chain has an identity.
ExtractIdentityFromConnection(tls) ==
  IF tls.verified THEN CreateIdentityFromCert(tls.cert) ELSE Refused("missing_verified_client_certificate")

SenderIDOf(ident) == BuildClientID(ident.clientType, ident.deviceID)
=============================================================================
