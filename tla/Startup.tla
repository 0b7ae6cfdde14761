------------------------------ MODULE Startup ------------------------------
(***************************************************************************)
(* The start of the server: LoadApplicationConfiguration, ValidateRuntime  *)
(* and startServer up to Serve (config/config_initializer.go,              *)
(* config/config.go, server/certificates/acme.go, cmd/main.go).            *)
(*                                                                         *)
(* Each stage either hands the configuration on, changed, or ends the      *)
(* start with an error.  Whether files, certificates, brokers and ports    *)
(* are usable is open: every stage that touches them may also fail.        *)
(***************************************************************************)
EXTENDS Integers, Sequences, FiniteSets, Functions

CONSTANTS Found,        \* what the start may find: a configuration file and an environment
          Datastores    \* the dispatchers ConfigureProducers can build

\* No number at all, and something that is none.
Unset == 100000
NotANumber == 100001

\* The text of a port variable: blanks around it, a sign, and then digits (by
\* the number they stand for), nothing (Unset) or anything else (NotANumber).
NoText == [blanks |-> FALSE, sign |-> "", digits |-> Unset]
Digits(text) == ~text.blanks /\ text.sign = ""
IsEmpty(text) == Digits(text) /\ text.digits = Unset

\* TrimSpace and Atoi: blanks alone count as not set, a sign is read.
Atoi(text) ==
  IF text.digits \in {Unset, NotANumber}
  THEN IF text.digits = Unset /\ text.sign = "" THEN Unset ELSE NotANumber
  ELSE IF text.sign = "-" THEN -text.digits ELSE text.digits

DefaultPort == 443
DefaultStatusPort == 8080
MaxPort == 65535
Logger == "logger"
Connectivity == "connectivity"

MaxVinsToTrack == 20

\* tls holds where the certificate, the key and the client CA come from, ""
\* when they are not set; present is FALSE for a nil pointer.
NoTLS == [present |-> FALSE, cert |-> "", key |-> "", ca |-> ""]

\* A Config as allocated: sections are the datastores it configures, vins the
\* number of different VINs whose signals it tracks.
EmptyConfig == [port |-> 0, statusPort |-> 0, tls |-> NoTLS, records |-> <<>>, acks |-> <<>>,
                sections |-> {}, vins |-> 0, airbrake |-> FALSE]

\* A file is unreadable, malformed, missing, or parsed to the fields of a Config.
Parsed(f) == [k \in DOMAIN EmptyConfig |-> f[k]]

ASSUME FoundAssumption ==
  \A f \in {x.file : x \in Found} :
    /\ f.state \in {"ok", "missing", "malformed", "unreadable"}
    /\ f.state # "ok" => Parsed(f) = EmptyConfig
    /\ ~f.tls.present => f.tls = NoTLS
ASSUME LoggerAssumption == Logger \notin Datastores

VARIABLES stage,        \* the stage startup has come to
          file, env,    \* what was found
          config,       \* the Config under construction
          clientCA,     \* ClientAuth is RequireAndVerifyClientCert
          certificate,  \* "none", "static" or "acme"
          producers,    \* the dispatchers built
          ackTypes,     \* dispatcher -> record types it was told to ack
          listening,    \* the telemetry port is bound
          healthy       \* the status server answers

startVars == <<stage, file, env, config, clientCA, certificate, producers, ackTypes,
               listening, healthy>>

StartInit ==
  /\ stage = "load"
  /\ \E x \in Found : file = x.file /\ env = x.env
  /\ config = EmptyConfig
  /\ clientCA = FALSE
  /\ certificate = "none"
  /\ producers = {}
  /\ ackTypes = <<>>
  /\ listening = FALSE
  /\ healthy = FALSE

-----------------------------------------------------------------------------
\* An error ends the start.
Fail ==
  /\ stage' = "failed"
  /\ listening' = FALSE
  /\ UNCHANGED <<file, env, config, clientCA, certificate, producers, ackTypes, healthy>>

\* A stage that only changes the configuration.
Configured(next, c) ==
  /\ stage' = next
  /\ config' = c
  /\ UNCHANGED <<file, env, clientCA, certificate, producers, ackTypes, listening, healthy>>

\* Every record type goes to the logger when none is configured.
DefaultRecords ==
  [t \in {"alerts", "errors", "V", Connectivity} |-> <<Logger>>]

\* applySafeDefaults: what is zero in the file gets its default.
ApplySafeDefaults(c) ==
  [c EXCEPT !.port = IF @ = 0 THEN DefaultPort ELSE @,
            !.statusPort = IF @ = 0 THEN DefaultStatusPort ELSE @,
            !.records = IF DOMAIN @ = {} THEN DefaultRecords ELSE @]

\* loadApplicationConfig reads the file; one that does not exist is no error.
LoadFile ==
  /\ stage = "load"
  /\ \/ file.state \in {"malformed", "unreadable"} /\ Fail
     \/ /\ file.state \in {"ok", "missing"}
        /\ Configured("override", ApplySafeDefaults(Parsed(file)))

\* overrideInt that only fills what is still zero.
OverrideIntIfZero(var, value) == IF Atoi(var) = Unset \/ value # 0 THEN value ELSE Atoi(var)

\* overrideInt that takes a zero for a variable that is not set.
OverrideIntNonZero(var, value) == IF Atoi(var) \in {Unset, 0} THEN value ELSE Atoi(var)

Override(var, value) == IF var = "" THEN value ELSE var
OverrideInt(var, value) == IF Atoi(var) = Unset THEN value ELSE Atoi(var)

StaticPaths == env.certPath # "" \/ env.keyPath # ""
InlinePEM == env.certPEM # "" \/ env.keyPEM # ""

\* The paths only fill what the file leaves empty.
TLSOverridesIfEmpty(tls) ==
  [present |-> tls.present \/ env.acmeDomain # "" \/ StaticPaths \/ env.caPath # "",
   cert |-> Override(tls.cert, env.certPath),
   key  |-> Override(tls.key, env.keyPath),
   ca   |-> Override(tls.ca, env.caPath)]

\* ACME_DOMAIN and each of the three path variables make TLS non-nil.
TLSOverrides(tls) ==
  [present |-> tls.present \/ env.acmeDomain # "" \/ StaticPaths \/ env.caPath # "",
   cert |-> Override(env.certPath, tls.cert),
   key  |-> Override(env.keyPath, tls.key),
   ca   |-> Override(env.caPath, tls.ca)]

\* applyEnvironmentOverrides.
ApplyEnvironmentOverrides ==
  /\ stage = "override"
  /\ IF NotANumber \in {Atoi(env.port), Atoi(env.statusPort)} \/ env.tlsEnabled \in {"false", "invalid"}
     THEN Fail
     ELSE Configured("inline", [config EXCEPT !.port = OverrideInt(env.port, @),
                                              !.statusPort = OverrideInt(env.statusPort, @),
                                              !.tls = TLSOverrides(@)])

\* materializeInlineTLSSecrets: both PEM variables or neither, written to files
\* that replace the paths.
MaterializeInlineTLSSecrets ==
  /\ stage = "inline"
  /\ \/ ~InlinePEM /\ Configured("validate", config)
     \/ InlinePEM /\ Fail
     \/ /\ env.certPEM # "" /\ env.keyPEM # ""
        /\ Configured("validate", [config EXCEPT !.tls = [present |-> TRUE, cert |-> env.certPEM,
                                                          key |-> env.keyPEM, ca |-> @.ca]])

\* validateConfig; host, namespace and records cannot be empty after the defaults.
ValidateConfig ==
  /\ stage = "validate"
  /\ IF config.port \in 1..MaxPort /\ config.statusPort \in 0..MaxPort /\ config.vins <= MaxVinsToTrack
     THEN Configured("runtime", config)
     ELSE Fail

\* ValidateRuntime: without ACME_DOMAIN a certificate and a key must be named.
ValidateRuntime ==
  /\ stage = "runtime"
  /\ IF env.acmeDomain # "" \/ (config.tls.present /\ config.tls.cert # "" /\ config.tls.key # "")
     THEN Configured("airbrake", config)
     ELSE Fail

\* CreateAirbrakeNotifier, whose certificates may not load.
CreateAirbrakeNotifier ==
  /\ stage = "airbrake"
  /\ \/ config.airbrake /\ Fail
     \/ Configured("clientCA", config)

-----------------------------------------------------------------------------
\* ExtractServiceTLSConfig: the CA of Tesla, and the additional one if named.
ExtractServiceTLSConfig ==
  /\ stage = "clientCA"
  /\ \/ (~config.tls.present \/ config.tls.ca # "") /\ Fail
     \/ /\ config.tls.present
        /\ clientCA' = TRUE
        /\ stage' = "certificate"
        /\ UNCHANGED <<file, env, config, certificate, producers, ackTypes, listening, healthy>>

\* ACMEOptionsFromEnvironment: any of the four variables requests ACME.
ACMERequested ==
  env.acmeDomain # "" \/ env.acmeEmail # "" \/ env.apiToken \/ env.storage # ""

\* ... and then domain, email and token must be there and well formed.
ACMEValid ==
  /\ env.acmeDomain = "host"
  /\ env.acmeEmail = "address"
  /\ env.apiToken
  /\ env.storage \in {"", "absolute"}

Certified(c) ==
  /\ certificate' = c
  /\ stage' = "acks"
  /\ UNCHANGED <<file, env, config, clientCA, producers, ackTypes, listening, healthy>>

\* configureServerCertificate that goes on when ACME gives no certificate.
ConfigureServerCertificateGoesOn ==
  /\ stage = "certificate"
  /\ \/ Fail
     \/ ACMERequested /\ ACMEValid /\ ~StaticPaths /\ ~InlinePEM /\ Certified("none")
     \/ config.tls.cert # "" /\ config.tls.key # "" /\ Certified("static")

\* configureServerCertificate: the options are checked before it is decided
\* whether they are used.  Obtaining the certificate or loading the pair may
\* fail; a pair with an unnamed half always does.
ConfigureServerCertificate ==
  /\ stage = "certificate"
  /\ LET useACME == ACMERequested /\ ~StaticPaths /\ ~InlinePEM
     IN  \/ Fail
         \/ ACMEValid /\ useACME /\ Certified("acme")
         \/ /\ ACMERequested => ACMEValid
            /\ ~useACME
            /\ config.tls.cert # "" /\ config.tls.key # ""
            /\ Certified("static")

-----------------------------------------------------------------------------
\* configureReliableAckSources: what is asked of one entry.
ValidAckSource(t, d) ==
  /\ t # Connectivity
  /\ d # Logger
  /\ t \in DOMAIN config.records
  /\ d \in Range(config.records[t])

\* configureReliableAckSources: the record types each dispatcher is to ack.
ConfigureReliableAckSources ==
  /\ stage = "acks"
  /\ IF \A t \in DOMAIN config.acks : ValidAckSource(t, config.acks[t])
     THEN /\ ackTypes' = [d \in Range(config.acks) |-> {t \in DOMAIN config.acks : config.acks[t] = d}]
          /\ stage' = "producers"
          /\ UNCHANGED <<file, env, config, clientCA, certificate, producers, listening, healthy>>
     ELSE Fail

RequiredDispatchers == UNION {Range(config.records[t]) : t \in DOMAIN config.records}

\* ConfigureProducers that passes over a datastore without its section.
BuildProducersConfigured ==
  /\ stage = "producers"
  /\ \/ RequiredDispatchers \cap Datastores # {} /\ Fail
     \/ /\ producers' = {Logger} \cup (RequiredDispatchers \cap Datastores \cap config.sections)
        /\ stage' = "rules"
        /\ UNCHANGED <<file, env, config, clientCA, certificate, ackTypes, listening, healthy>>

\* ConfigureProducers: the logger, and every datastore the records name,
\* which must be configured and must connect.
BuildProducers ==
  /\ stage = "producers"
  /\ \/ RequiredDispatchers \cap Datastores # {} /\ Fail
     \/ /\ RequiredDispatchers \cap Datastores \subseteq config.sections
        /\ producers' = {Logger} \cup (RequiredDispatchers \cap Datastores)
        /\ stage' = "rules"
        /\ UNCHANGED <<file, env, config, clientCA, certificate, ackTypes, listening, healthy>>

\* The dispatch rules, the pubsub topics and the mqtt connection.
DispatchProducerRules ==
  /\ stage = "rules"
  /\ \/ /\ \/ \E t \in DOMAIN config.records : config.records[t] = <<>>
           \/ {"pubsub", "mqtt"} \cap producers # {}
        /\ Fail
     \/ /\ \A t \in DOMAIN config.records : config.records[t] # <<>>
        /\ Configured("listen", config)

\* The port is left to Serve to bind.
ListenLater ==
  /\ stage = "listen"
  /\ Configured("status", config)

\* net.Listen on the telemetry port.
Listen ==
  /\ stage = "listen"
  /\ \/ Fail
     \/ /\ listening' = TRUE
        /\ stage' = "status"
        /\ UNCHANGED <<file, env, config, clientCA, certificate, producers, ackTypes, healthy>>

\* StartStatusServer, unless STATUS_PORT is 0; its failure closes the listener.
StartStatusServer ==
  /\ stage = "status"
  /\ \/ config.statusPort > 0 /\ Fail
     \/ /\ healthy' = (config.statusPort > 0)
        /\ stage' = "serving"
        /\ UNCHANGED <<file, env, config, clientCA, certificate, producers, ackTypes, listening>>

\* The health check command, run in the container of the server: it never
\* reads the file, and puts the text of STATUS_PORT into a URL as it is, which
\* is refused unless that text is digits alone.
HealthCheckPort ==
  IF IsEmpty(env.statusPort) THEN DefaultStatusPort
  ELSE IF Digits(env.statusPort) THEN env.statusPort.digits ELSE NotANumber
HealthCheck == healthy /\ HealthCheckPort = config.statusPort

StartNext ==
  \/ LoadFile
  \/ ApplyEnvironmentOverrides
  \/ MaterializeInlineTLSSecrets
  \/ ValidateConfig
  \/ ValidateRuntime
  \/ CreateAirbrakeNotifier
  \/ ExtractServiceTLSConfig
  \/ ConfigureServerCertificate
  \/ ConfigureReliableAckSources
  \/ BuildProducers
  \/ DispatchProducerRules
  \/ Listen
  \/ StartStatusServer

StartSpec == StartInit /\ [][StartNext]_startVars

-----------------------------------------------------------------------------
\* A server that serves has a certificate of its own and verifies that of the
\* vehicle, whichever of the file, the paths, the inline secrets and ACME
\* the operator used (main.go:109 "tls_enabled": true).
ServesMutualTLS ==
  stage = "serving" =>
    /\ clientCA
    /\ \/ certificate = "acme"
       \/ certificate = "static" /\ config.tls.cert # "" /\ config.tls.key # ""

\* What is served is what README.md:26 ranks first: environment, file, default;
\* inline secrets come before paths.
EnvironmentFirst ==
  stage = "serving" =>
    /\ config.port = IF Atoi(env.port) # Unset THEN Atoi(env.port)
                     ELSE IF file.port # 0 THEN file.port ELSE DefaultPort
    /\ config.statusPort = IF Atoi(env.statusPort) # Unset THEN Atoi(env.statusPort)
                           ELSE IF file.statusPort # 0 THEN file.statusPort ELSE DefaultStatusPort
    /\ config.tls.cert = Override(env.certPEM, Override(env.certPath, file.tls.cert))
    /\ config.tls.key = Override(env.keyPEM, Override(env.keyPath, file.tls.key))
    /\ config.tls.ca = Override(env.caPath, file.tls.ca)

\* A server that serves has a status server unless STATUS_PORT is zero: a
\* zero in the file is only a value that was not given (applySafeDefaults),
\* and blanks in the variable are no zero (overrideInt).
StatusServerUnlessZero ==
  stage = "serving" => (healthy <=> Atoi(env.statusPort) # 0)

\* The health endpoint answers only once dispatchers and the mTLS listener are
\* ready (README.md:56 "becomes healthy only after configuration, dispatchers,
\* and the mTLS listener are initialized").
HealthyOnlyWhenReady ==
  healthy => listening /\ clientCA /\ certificate # "none" /\ RequiredDispatchers \cap Datastores \subseteq producers

\* Server and health check read STATUS_PORT each for itself, the server with
\* TrimSpace and Atoi, the check as it is.  The check finds a healthy server
\* exactly if the variable is digits alone, or is not set and the file does
\* not move the port: " 8081", "+8081" and " " make it fail.
HealthCheckFindsServer ==
  healthy =>
    (HealthCheck <=> IF IsEmpty(env.statusPort) THEN file.statusPort \in {0, DefaultStatusPort}
                     ELSE Digits(env.statusPort))

\* The producers that ack records of type t.
Ackers(t) == {d \in producers \cap DOMAIN ackTypes : t \in ackTypes[d]}

\* Every record type of a server that serves is acked from one place.  A
\* reliable type has one producer to ack it: it was built, though acks,
\* records and datastore sections are three parts of the file, and it is
\* handed the records.  Any other type is acked by the session, and no
\* producer acks it a second time.  A misspelled dispatcher is never built.
AckedFromOnePlace ==
  stage = "serving" =>
    \A t \in DOMAIN config.records :
      /\ Ackers(t) \subseteq Range(config.records[t])
      /\ Ackers(t) = IF t \in DOMAIN config.acks THEN {config.acks[t]} \cap Datastores ELSE {}

=============================================================================
