--------------------------- MODULE StartupProofs ---------------------------
(***************************************************************************)
(* Proofs about Startup, for any configuration file and any environment.   *)
(***************************************************************************)
EXTENDS Startup, TLAPS

BeforeClientCA == {"load", "override", "inline", "validate", "runtime", "airbrake", "clientCA"}
AfterCertificate == {"acks", "producers", "rules", "listen", "status", "serving"}
AfterProducers == {"rules", "listen", "status", "serving"}

\* What a server certificate must be, and when there is one.
Certificate ==
  \/ certificate = "acme"
  \/ certificate = "static" /\ config.tls.cert # "" /\ config.tls.key # ""

\* Every datastore the records name has been built, and nothing else.
BuiltAll ==
  /\ RequiredDispatchers \cap Datastores \subseteq producers
  /\ producers \subseteq {Logger} \cup Datastores

\* The stages come in order, and each leaves behind what it is there for.
IInv ==
  /\ stage \in BeforeClientCA \cup {"certificate"} \cup AfterCertificate \cup {"failed"}
  /\ stage \in {"certificate"} \cup AfterCertificate => clientCA
  /\ stage \in BeforeClientCA \cup {"certificate"} => certificate = "none"
  /\ stage \in AfterCertificate => Certificate
  /\ stage \in AfterProducers => BuiltAll
  /\ stage \in {"status", "serving"} => listening
  /\ healthy => stage = "serving"

LEMMA StartInitIInv == StartInit => IInv
BY DEF StartInit, IInv, BeforeClientCA, AfterCertificate, AfterProducers

\* A step that fails keeps the invariant: only the listener is closed.
LEMMA FailStep == ASSUME IInv, stage # "serving", Fail PROVE IInv'
BY DEF Fail, IInv, BeforeClientCA, AfterCertificate, AfterProducers

\* A step among the stages that only work on the configuration.
LEMMA EarlyStep ==
  ASSUME IInv, stage \in BeforeClientCA, stage' \in BeforeClientCA,
         UNCHANGED <<env, clientCA, certificate, listening, healthy>>
  PROVE  IInv'
BY DEF IInv, BeforeClientCA, AfterCertificate, AfterProducers

\* A step among the stages that follow the certificate.
LEMMA LateStep ==
  ASSUME IInv, stage \in AfterCertificate, stage' \in AfterCertificate,
         UNCHANGED <<env, config, clientCA, certificate>>,
         BuiltAll' \/ stage' \notin AfterProducers,
         listening' \/ stage' \notin {"status", "serving"},
         healthy' => stage' = "serving"
  PROVE  IInv'
<1>1. Certificate'
  BY DEF IInv, AfterCertificate, Certificate
<1> QED
  BY <1>1 DEF IInv, BeforeClientCA, AfterCertificate

LEMMA StartNextIInv == IInv /\ [StartNext]_startVars => IInv'
<1> SUFFICES ASSUME IInv, [StartNext]_startVars PROVE IInv'
  OBVIOUS
<1>0. CASE Fail /\ stage # "serving"
  BY <1>0, FailStep
<1>1. CASE LoadFile \/ ApplyEnvironmentOverrides \/ MaterializeInlineTLSSecrets
           \/ ValidateConfig \/ ValidateRuntime \/ CreateAirbrakeNotifier
  <2>1. stage \in BeforeClientCA /\ stage # "serving"
    BY <1>1 DEF LoadFile, ApplyEnvironmentOverrides, MaterializeInlineTLSSecrets, ValidateConfig,
       ValidateRuntime, CreateAirbrakeNotifier, BeforeClientCA
  <2>2. ASSUME NEW next \in BeforeClientCA, NEW c, Configured(next, c)
        PROVE  IInv'
    <3>1. stage' = next /\ UNCHANGED <<env, clientCA, certificate, listening, healthy>>
      BY <2>2 DEF Configured
    <3> QED
      BY <2>1, <2>2, <3>1, EarlyStep
  <2> USE DEF BeforeClientCA
  <2>3. CASE LoadFile
    BY <1>0, <2>1, <2>2, <2>3, Zenon DEF LoadFile
  <2>4. CASE ApplyEnvironmentOverrides
    BY <1>0, <2>1, <2>2, <2>4, Zenon DEF ApplyEnvironmentOverrides
  <2>5. CASE MaterializeInlineTLSSecrets
    BY <1>0, <2>1, <2>2, <2>5, Zenon DEF MaterializeInlineTLSSecrets
  <2>6. CASE ValidateConfig
    BY <1>0, <2>1, <2>2, <2>6, Zenon DEF ValidateConfig
  <2>7. CASE ValidateRuntime
    BY <1>0, <2>1, <2>2, <2>7, Zenon DEF ValidateRuntime
  <2>8. CASE CreateAirbrakeNotifier
    BY <1>0, <2>1, <2>2, <2>8, Zenon DEF CreateAirbrakeNotifier
  <2> QED
    BY <1>1, <2>3, <2>4, <2>5, <2>6, <2>7, <2>8
<1>2. CASE ExtractServiceTLSConfig
  <2>1. CASE Fail
    BY <1>0, <1>2, <2>1 DEF ExtractServiceTLSConfig
  <2>2. CASE ~Fail
    <3>1. clientCA'
      BY <1>2, <2>2, Zenon DEF ExtractServiceTLSConfig
    <3>2. /\ stage = "clientCA" /\ stage' = "certificate"
          /\ UNCHANGED <<env, certificate, healthy>>
      BY <1>2, <2>2 DEF ExtractServiceTLSConfig
    <3> QED
      BY <3>1, <3>2 DEF IInv, BeforeClientCA, AfterCertificate, AfterProducers
  <2> QED
    BY <2>1, <2>2
<1>3. CASE ConfigureServerCertificate
  <2> USE DEF BeforeClientCA, AfterCertificate, AfterProducers
  <2>1. CASE Fail
    BY <1>0, <1>3, <2>1 DEF ConfigureServerCertificate
  <2>2. CASE Certified("acme")
    BY <1>3, <2>2 DEF IInv, Certificate, ConfigureServerCertificate, Certified
  <2>3. CASE config.tls.cert # "" /\ config.tls.key # "" /\ Certified("static")
    BY <1>3, <2>3 DEF IInv, Certificate, ConfigureServerCertificate, Certified
  <2> QED
    BY <1>3, <2>1, <2>2, <2>3 DEF ConfigureServerCertificate
<1>4. CASE ConfigureReliableAckSources
  <2>1. CASE Fail
    BY <1>0, <1>4, <2>1 DEF ConfigureReliableAckSources
  <2>2. CASE ~Fail
    <3>1. /\ stage = "acks" /\ stage' = "producers"
          /\ UNCHANGED <<env, config, clientCA, certificate, healthy>>
      BY <1>4, <2>2 DEF ConfigureReliableAckSources
    <3> QED
      BY <3>1, LateStep DEF IInv, AfterCertificate, AfterProducers
  <2> QED
    BY <2>1, <2>2
<1>5. CASE BuildProducers
  <2>1. CASE Fail
    BY <1>0, <1>5, <2>1 DEF BuildProducers
  <2>2. CASE ~Fail
    <3>1. /\ stage = "producers" /\ stage' = "rules"
          /\ UNCHANGED <<env, config, clientCA, certificate, healthy>>
          /\ producers' = {Logger} \cup (RequiredDispatchers \cap Datastores)
      BY <1>5, <2>2 DEF BuildProducers
    <3>2. RequiredDispatchers' = RequiredDispatchers
      BY <3>1 DEF RequiredDispatchers
    <3> QED
      BY <3>1, <3>2, LateStep DEF IInv, AfterCertificate, BuiltAll
  <2> QED
    BY <2>1, <2>2
<1>6. CASE DispatchProducerRules \/ Listen \/ StartStatusServer
  <2>1. stage \in {"rules", "listen", "status"}
    BY <1>6 DEF DispatchProducerRules, Listen, StartStatusServer
  <2>2. CASE Fail
    BY <1>0, <2>1, <2>2
  <2>3. CASE ~Fail
    <3>1. UNCHANGED <<env, config, clientCA, certificate, producers>>
      BY <1>6, <2>3 DEF DispatchProducerRules, Listen, StartStatusServer, Configured
    <3>2. \/ stage = "rules" /\ stage' = "listen" /\ UNCHANGED healthy
          \/ stage = "listen" /\ stage' = "status" /\ listening' /\ UNCHANGED healthy
          \/ stage = "status" /\ stage' = "serving" /\ UNCHANGED listening
      BY <1>6, <2>3 DEF DispatchProducerRules, Listen, StartStatusServer, Configured
    <3>3. RequiredDispatchers' = RequiredDispatchers
      BY <3>1 DEF RequiredDispatchers
    <3>4. BuiltAll'
      BY <2>1, <3>1, <3>3 DEF IInv, AfterProducers, BuiltAll
    <3> QED
      BY <3>1, <3>2, <3>4, LateStep DEF IInv, AfterCertificate
  <2> QED
    BY <2>2, <2>3
<1>7. CASE UNCHANGED startVars
  <2>1. RequiredDispatchers' = RequiredDispatchers
    BY <1>7 DEF startVars, RequiredDispatchers
  <2> QED
    BY <1>7, <2>1 DEF IInv, Certificate, BuiltAll, startVars
<1> QED
  BY <1>1, <1>2, <1>3, <1>4, <1>5, <1>6, <1>7 DEF StartNext

\* The inductive invariant holds at every stage.
THEOREM StartupInvariance == StartSpec => []IInv
<1>1. StartInit => IInv
  BY StartInitIInv
<1>2. IInv /\ [StartNext]_startVars => IInv'
  BY StartNextIInv
<1> QED
  BY <1>1, <1>2, PTL DEF StartSpec

\* No configuration leads to a server that serves without a certificate or
\* without verifying the vehicle's.
THEOREM MutualTLS == StartSpec => []ServesMutualTLS
<1>1. IInv => ServesMutualTLS
  BY DEF IInv, ServesMutualTLS, Certificate, AfterCertificate
<1> QED
  BY <1>1, StartupInvariance, PTL

\* The health endpoint never answers before the server is ready.
THEOREM HealthAfterReady == StartSpec => []HealthyOnlyWhenReady
<1>1. IInv => HealthyOnlyWhenReady
  BY DEF IInv, HealthyOnlyWhenReady, Certificate, BuiltAll, AfterCertificate, AfterProducers
<1> QED
  BY <1>1, StartupInvariance, PTL

-----------------------------------------------------------------------------
\* Where the values of the configuration come from, stage by stage.
Overridden == {"inline", "validate", "runtime", "airbrake", "clientCA", "certificate"} \cup AfterCertificate
AfterInline == {"validate", "runtime", "airbrake", "clientCA", "certificate"} \cup AfterCertificate
AfterValidate == {"runtime", "airbrake", "clientCA", "certificate"} \cup AfterCertificate
AfterAcks == {"producers", "rules", "listen", "status", "serving"}

FilePort == IF file.port = 0 THEN DefaultPort ELSE file.port
FileStatusPort == IF file.statusPort = 0 THEN DefaultStatusPort ELSE file.statusPort

\* The file with the defaults, which only ever fill a zero.
FromFile ==
  /\ config.port = FilePort
  /\ config.statusPort = FileStatusPort
  /\ config.tls = file.tls

\* The environment over the file.
FromEnvironment ==
  /\ config.port = OverrideInt(env.port, FilePort)
  /\ config.statusPort = OverrideInt(env.statusPort, FileStatusPort)
  /\ config.tls.ca = Override(env.caPath, file.tls.ca)

\* The path variables over the file, and then the inline secrets over both.
FromPaths ==
  /\ config.tls.cert = Override(env.certPath, file.tls.cert)
  /\ config.tls.key = Override(env.keyPath, file.tls.key)
FromSecrets ==
  /\ config.tls.cert = Override(env.certPEM, Override(env.certPath, file.tls.cert))
  /\ config.tls.key = Override(env.keyPEM, Override(env.keyPath, file.tls.key))

\* What configureReliableAckSources leaves behind.
AcksSourced ==
  /\ \A t \in DOMAIN config.acks : ValidAckSource(t, config.acks[t])
  /\ ackTypes = [d \in Range(config.acks) |-> {t \in DOMAIN config.acks : config.acks[t] = d}]

SourceInv ==
  /\ DOMAIN config = DOMAIN EmptyConfig
  /\ stage = "override" => FromFile
  /\ stage \in Overridden => FromEnvironment
  /\ stage = "inline" => FromPaths
  /\ stage \in AfterInline => FromSecrets
  /\ stage \in AfterValidate => config.statusPort \in 0..MaxPort
  /\ stage = "serving" => healthy = (config.statusPort > 0)
  /\ stage \in AfterAcks => AcksSourced

LEMMA StartInitSource == StartInit => SourceInv
BY DEF StartInit, SourceInv, Overridden, AfterInline, AfterValidate, AfterAcks, AfterCertificate

\* A step that fails leaves the configuration as it is.
LEMMA FailSource == ASSUME SourceInv, Fail PROVE SourceInv'
BY DEF Fail, SourceInv, Overridden, AfterInline, AfterValidate, AfterAcks, AfterCertificate

\* A step that goes on to a later stage with the configuration as it is.
LEMMA CarriedOn ==
  ASSUME SourceInv, stage \in AfterInline, stage' \in AfterInline,
         UNCHANGED <<file, env, config>>,
         stage' \in AfterAcks => AcksSourced',
         stage = "validate" => config.statusPort \in 0..MaxPort,
         stage' = "serving" => healthy' = (config.statusPort > 0)
  PROVE  SourceInv'
<1>1. FromEnvironment' /\ FromSecrets'
  BY DEF SourceInv, AfterInline, Overridden, FromEnvironment, FromSecrets, FilePort, FileStatusPort,
     OverrideInt, Override
<1>2. config'.statusPort \in 0..MaxPort
  BY DEF SourceInv, AfterInline, AfterValidate
<1> QED
  BY <1>1, <1>2 DEF SourceInv, AfterInline, AfterValidate, Overridden, AfterCertificate, AfterAcks

\* The same, when the dispatchers to ack were settled before.
LEMMA AcksCarriedOn ==
  ASSUME SourceInv, stage \in AfterAcks, stage' \in AfterAcks, UNCHANGED <<file, env, config, ackTypes>>,
         stage' = "serving" => healthy' = (config.statusPort > 0)
  PROVE  SourceInv'
<1>1. AcksSourced'
  BY DEF SourceInv, AcksSourced, ValidAckSource
<1> QED
  BY <1>1, CarriedOn DEF AfterAcks, AfterInline, AfterCertificate

LEMMA TLSFields ==
  ASSUME NEW b, NEW c, NEW k, NEW a
  PROVE  LET tls == [present |-> b, cert |-> c, key |-> k, ca |-> a]
         IN  tls.cert = c /\ tls.key = k /\ tls.ca = a
OBVIOUS

LEMMA LoadSource == ASSUME SourceInv, LoadFile PROVE SourceInv'
<1>1. CASE Fail
  BY <1>1, FailSource
<1>2. CASE Configured("override", ApplySafeDefaults(Parsed(file)))
  <2> DEFINE p == Parsed(file)
  <2>1. /\ DOMAIN p = DOMAIN EmptyConfig
        /\ p.port = file.port /\ p.statusPort = file.statusPort /\ p.tls = file.tls
    BY DEF Parsed, EmptyConfig
  <2>2. /\ config' = ApplySafeDefaults(p) /\ stage' = "override" /\ file' = file
    BY <1>2 DEF Configured
  <2> HIDE DEF p
  <2>3. DOMAIN config' = DOMAIN p
    BY <2>2 DEF ApplySafeDefaults
  <2>4. /\ config'.port = IF p.port = 0 THEN DefaultPort ELSE p.port
        /\ config'.statusPort = IF p.statusPort = 0 THEN DefaultStatusPort ELSE p.statusPort
        /\ config'.tls = p.tls
    BY <2>1, <2>2 DEF ApplySafeDefaults, EmptyConfig
  <2>5. FromFile'
    BY <2>1, <2>2, <2>4 DEF FromFile, FilePort, FileStatusPort
  <2> QED
    BY <2>1, <2>2, <2>3, <2>5 DEF SourceInv, Overridden, AfterInline, AfterValidate, AfterAcks, AfterCertificate
<1> QED
  BY <1>1, <1>2 DEF LoadFile

LEMMA OverrideSource == ASSUME SourceInv, ApplyEnvironmentOverrides PROVE SourceInv'
<1>1. CASE Fail
  BY <1>1, FailSource
<1>2. CASE ~Fail
  <2>1. /\ stage = "override" /\ stage' = "inline" /\ UNCHANGED <<file, env>>
        /\ config' = [config EXCEPT !.port = OverrideInt(env.port, @),
                                    !.statusPort = OverrideInt(env.statusPort, @),
                                    !.tls = TLSOverrides(@)]
    BY <1>2 DEF ApplyEnvironmentOverrides, Configured
  <2>2. DOMAIN config = DOMAIN EmptyConfig /\ FromFile
    BY <2>1 DEF SourceInv
  <2>3. DOMAIN config' = DOMAIN config
    BY <2>1
  <2>4. /\ config'.port = OverrideInt(env.port, config.port)
        /\ config'.statusPort = OverrideInt(env.statusPort, config.statusPort)
        /\ config'.tls = TLSOverrides(config.tls)
    BY <2>1, <2>2 DEF EmptyConfig
  <2>5. /\ config'.tls.cert = Override(env.certPath, file.tls.cert)
        /\ config'.tls.key = Override(env.keyPath, file.tls.key)
        /\ config'.tls.ca = Override(env.caPath, file.tls.ca)
    <3>1. \E b : config'.tls = [present |-> b, cert |-> Override(env.certPath, config.tls.cert),
                                key |-> Override(env.keyPath, config.tls.key),
                                ca |-> Override(env.caPath, config.tls.ca)]
      BY <2>4, Zenon DEF TLSOverrides
    <3> QED
      BY <2>2, <3>1, TLSFields DEF FromFile
  <2>6. FromEnvironment' /\ FromPaths'
    BY <2>1, <2>2, <2>4, <2>5 DEF FromEnvironment, FromPaths, FromFile, FilePort, FileStatusPort,
       OverrideInt, Override
  <2> QED
    BY <2>1, <2>2, <2>3, <2>6 DEF SourceInv, Overridden, AfterInline, AfterValidate, AfterAcks, AfterCertificate
<1> QED
  BY <1>1, <1>2

LEMMA InlineSource == ASSUME SourceInv, MaterializeInlineTLSSecrets PROVE SourceInv'
<1> USE DEF AfterInline, AfterValidate, AfterAcks, AfterCertificate
<1>0. stage = "inline" /\ DOMAIN config = DOMAIN EmptyConfig /\ FromEnvironment /\ FromPaths
  BY DEF MaterializeInlineTLSSecrets, SourceInv, Overridden
<1>1. CASE Fail
  BY <1>1, FailSource
<1>2. CASE ~InlinePEM /\ Configured("validate", config)
  <2>1. stage' = "validate" /\ UNCHANGED <<file, env, config>>
    BY <1>2 DEF Configured
  <2>2. FromEnvironment'
    BY <1>0, <2>1 DEF FromEnvironment, FilePort, FileStatusPort, OverrideInt, Override
  <2>3. FromSecrets'
    BY <1>0, <1>2, <2>1 DEF FromPaths, FromSecrets, Override, InlinePEM
  <2> QED
    BY <1>0, <2>1, <2>2, <2>3 DEF SourceInv
<1>3. CASE /\ env.certPEM # "" /\ env.keyPEM # ""
           /\ Configured("validate", [config EXCEPT !.tls = [present |-> TRUE, cert |-> env.certPEM,
                                                             key |-> env.keyPEM, ca |-> @.ca]])
  <2>1. /\ stage' = "validate" /\ UNCHANGED <<file, env>>
        /\ config' = [config EXCEPT !.tls = [present |-> TRUE, cert |-> env.certPEM,
                                             key |-> env.keyPEM, ca |-> @.ca]]
    BY <1>3 DEF Configured
  <2>2. DOMAIN config' = DOMAIN config
    BY <2>1
  <2>3. /\ config'.port = config.port
        /\ config'.statusPort = config.statusPort
        /\ config'.tls = [present |-> TRUE, cert |-> env.certPEM, key |-> env.keyPEM, ca |-> config.tls.ca]
    BY <1>0, <2>1 DEF EmptyConfig
  <2>6. config'.tls.cert = env.certPEM /\ config'.tls.key = env.keyPEM /\ config'.tls.ca = config.tls.ca
    BY <2>3, TLSFields
  <2>4. FromEnvironment'
    BY <1>0, <2>1, <2>3, <2>6 DEF FromEnvironment, FilePort, FileStatusPort, OverrideInt, Override
  <2>5. FromSecrets'
    BY <1>3, <2>1, <2>6 DEF FromSecrets, Override
  <2> QED
    BY <1>0, <2>1, <2>2, <2>4, <2>5 DEF SourceInv
<1> QED
  BY <1>1, <1>2, <1>3 DEF MaterializeInlineTLSSecrets

LEMMA AcksSource == ASSUME SourceInv, ConfigureReliableAckSources PROVE SourceInv'
<1>1. CASE Fail
  BY <1>1, FailSource
<1>2. CASE ~Fail
  <2>1. /\ stage = "acks" /\ stage' = "producers" /\ UNCHANGED <<file, env, config>>
        /\ \A t \in DOMAIN config.acks : ValidAckSource(t, config.acks[t])
        /\ ackTypes' = [d \in Range(config.acks) |-> {t \in DOMAIN config.acks : config.acks[t] = d}]
    BY <1>2 DEF ConfigureReliableAckSources
  <2>2. AcksSourced'
    BY <2>1 DEF AcksSourced, ValidAckSource
  <2> QED
    BY <2>1, <2>2, CarriedOn DEF AfterInline, AfterCertificate
<1> QED
  BY <1>1, <1>2

LEMMA StartNextSource == SourceInv /\ [StartNext]_startVars => SourceInv'
<1> SUFFICES ASSUME SourceInv, [StartNext]_startVars PROVE SourceInv'
  OBVIOUS
<1>0. CASE Fail
  BY <1>0, FailSource
<1>1. CASE LoadFile \/ ApplyEnvironmentOverrides \/ MaterializeInlineTLSSecrets
           \/ ConfigureReliableAckSources
  BY <1>1, LoadSource, OverrideSource, InlineSource, AcksSource
<1>2. CASE (ValidateConfig \/ ValidateRuntime \/ CreateAirbrakeNotifier \/ ExtractServiceTLSConfig
            \/ ConfigureServerCertificate) /\ ~Fail
  <2>1. UNCHANGED <<file, env, config>>
    BY <1>2 DEF ValidateConfig, ValidateRuntime, CreateAirbrakeNotifier, ExtractServiceTLSConfig,
       ConfigureServerCertificate, Certified, Configured
  <2>2. /\ stage \in {"validate", "runtime", "airbrake", "clientCA", "certificate"}
        /\ stage' \in {"runtime", "airbrake", "clientCA", "certificate", "acks"}
    BY <1>2 DEF ValidateConfig, ValidateRuntime, CreateAirbrakeNotifier, ExtractServiceTLSConfig,
       ConfigureServerCertificate, Certified, Configured
  <2>3. stage = "validate" => config.statusPort \in 0..MaxPort
    BY <1>2 DEF ValidateConfig, ValidateRuntime, CreateAirbrakeNotifier, ExtractServiceTLSConfig,
       ConfigureServerCertificate
  <2> QED
    BY <2>1, <2>2, <2>3, CarriedOn DEF AfterInline, AfterCertificate, AfterAcks
<1>3. CASE (BuildProducers \/ DispatchProducerRules \/ Listen \/ StartStatusServer) /\ ~Fail
  <2>1. UNCHANGED <<file, env, config, ackTypes>> /\ stage \in AfterAcks /\ stage' \in AfterAcks
    BY <1>3 DEF BuildProducers, DispatchProducerRules, Listen, StartStatusServer, Configured, AfterAcks
  <2>2. stage' = "serving" => healthy' = (config.statusPort > 0)
    BY <1>3, Zenon DEF BuildProducers, DispatchProducerRules, Listen, StartStatusServer, Configured
  <2> QED
    BY <2>1, <2>2, AcksCarriedOn
<1>4. CASE UNCHANGED startVars
  BY <1>4 DEF startVars, SourceInv, FromFile, FromEnvironment, FromPaths, FromSecrets, AcksSourced,
     FilePort, FileStatusPort, OverrideInt, Override, ValidAckSource
<1> QED
  BY <1>0, <1>1, <1>2, <1>3, <1>4 DEF StartNext

\* Every stage leaves the values where the earlier ones put them.
THEOREM SourceInvariance == StartSpec => []SourceInv
<1>1. StartInit => SourceInv
  BY StartInitSource
<1>2. SourceInv /\ [StartNext]_startVars => SourceInv'
  BY StartNextSource
<1> QED
  BY <1>1, <1>2, PTL DEF StartSpec

\* Whatever the file and the environment say, the port and the certificate
\* served are those that the ranking environment, file, default picks.
THEOREM EnvironmentRanksFirst == StartSpec => []EnvironmentFirst
<1>1. SourceInv => EnvironmentFirst
  <2> SUFFICES ASSUME SourceInv, stage = "serving" PROVE EnvironmentFirst
    BY DEF EnvironmentFirst
  <2>1. FromEnvironment /\ FromSecrets
    BY DEF SourceInv, Overridden, AfterInline, AfterCertificate
  <2> QED
    BY <2>1 DEF EnvironmentFirst, FromEnvironment, FromSecrets, FilePort, FileStatusPort, OverrideInt
<1> QED
  BY <1>1, SourceInvariance, PTL

\* Only a STATUS_PORT of zero leaves a server without its status server, for
\* any file and any text of the variable.
THEOREM StatusServerCorrect == StartSpec => []StatusServerUnlessZero
<1>1. SourceInv => StatusServerUnlessZero
  <2> SUFFICES ASSUME SourceInv, stage = "serving" PROVE healthy <=> Atoi(env.statusPort) # 0
    BY DEF StatusServerUnlessZero
  <2>1. config.statusPort = OverrideInt(env.statusPort, FileStatusPort) /\ config.statusPort \in 0..MaxPort
    BY DEF SourceInv, FromEnvironment, Overridden, AfterValidate, AfterCertificate
  <2>2. healthy = (config.statusPort > 0)
    BY Zenon DEF SourceInv
  <2>3. FileStatusPort # 0 /\ Unset # 0
    BY DEF FileStatusPort, DefaultStatusPort, Unset
  <2>4. config.statusPort # 0 <=> Atoi(env.statusPort) # 0
    BY <2>1, <2>3 DEF OverrideInt
  <2>5. config.statusPort > 0 <=> config.statusPort # 0
    BY <2>1
  <2> QED
    BY <2>2, <2>4, <2>5, Zenon
<1> QED
  BY <1>1, SourceInvariance, PTL

\* No port is NotANumber.
LEMMA PortIsNumber == \A p \in 0..MaxPort : p # NotANumber
BY DEF MaxPort, NotANumber

\* The health check asks at the port the healthy server listens at exactly if
\* STATUS_PORT is digits alone, or is not set and the file leaves the port
\* alone, for any file and any text of the variable.
THEOREM HealthCheckAgrees == StartSpec => []HealthCheckFindsServer
<1>1. IInv /\ SourceInv => HealthCheckFindsServer
  <2> SUFFICES ASSUME IInv, SourceInv, healthy
               PROVE  HealthCheck <=> IF IsEmpty(env.statusPort) THEN file.statusPort \in {0, DefaultStatusPort}
                                      ELSE Digits(env.statusPort)
    BY DEF HealthCheckFindsServer
  <2>0. stage = "serving"
    BY DEF IInv
  <2>1. config.statusPort = OverrideInt(env.statusPort, FileStatusPort) /\ config.statusPort \in 0..MaxPort
    BY <2>0 DEF SourceInv, FromEnvironment, Overridden, AfterValidate, AfterCertificate
  <2>2. HealthCheck <=> HealthCheckPort = config.statusPort
    BY DEF HealthCheck
  <2>3. config.statusPort # NotANumber
    BY <2>1, PortIsNumber
  <2>4. CASE IsEmpty(env.statusPort)
    <3>1. Atoi(env.statusPort) = Unset
      BY <2>4, Zenon DEF IsEmpty, Digits, Atoi
    <3>2. HealthCheckPort = DefaultStatusPort /\ config.statusPort = FileStatusPort
      BY <2>1, <2>4, <3>1 DEF OverrideInt, HealthCheckPort
    <3> QED
      BY <2>2, <2>4, <3>2 DEF FileStatusPort, DefaultStatusPort
  <2>5. CASE ~Digits(env.statusPort)
    BY <2>2, <2>3, <2>5 DEF HealthCheckPort, IsEmpty
  <2>6. CASE Digits(env.statusPort) /\ ~IsEmpty(env.statusPort)
    <3>1. HealthCheckPort = env.statusPort.digits
      BY <2>6 DEF HealthCheckPort
    <3>2. Atoi(env.statusPort) = env.statusPort.digits /\ Atoi(env.statusPort) # Unset
      BY <2>6, Zenon DEF IsEmpty, Digits, Atoi
    <3> QED
      BY <2>1, <2>2, <2>6, <3>1, <3>2 DEF OverrideInt
  <2> QED
    BY <2>4, <2>5, <2>6
<1> QED
  BY <1>1, StartupInvariance, SourceInvariance, PTL

\* Every record type of a server that serves is acked from one place: by the
\* one producer its ack source names, which was built and receives it, or by
\* the session, for any file.
THEOREM OnePlaceToAck == StartSpec => []AckedFromOnePlace
<1>1. IInv /\ SourceInv => AckedFromOnePlace
  <2> SUFFICES ASSUME IInv, SourceInv, stage = "serving", NEW t \in DOMAIN config.records
               PROVE  /\ Ackers(t) \subseteq Range(config.records[t])
                      /\ Ackers(t) = IF t \in DOMAIN config.acks THEN {config.acks[t]} \cap Datastores ELSE {}
    BY DEF AckedFromOnePlace
  <2>1. AcksSourced /\ BuiltAll
    BY DEF SourceInv, AfterAcks, IInv, AfterProducers
  <2>2. \A d : d \in DOMAIN ackTypes /\ t \in ackTypes[d] <=> t \in DOMAIN config.acks /\ d = config.acks[t]
    BY <2>1 DEF AcksSourced, Range
  <2>3. t \in DOMAIN config.acks =>
           config.acks[t] \in Range(config.records[t]) /\ config.acks[t] # Logger
    BY <2>1 DEF AcksSourced, ValidAckSource
  <2>4. t \in DOMAIN config.acks /\ config.acks[t] \in Datastores => config.acks[t] \in producers
    BY <2>1, <2>3 DEF BuiltAll, RequiredDispatchers
  <2>5. \A d \in producers : d = Logger \/ d \in Datastores
    BY <2>1 DEF BuiltAll
  <2> QED
    BY <2>2, <2>3, <2>4, <2>5 DEF Ackers
<1> QED
  BY <1>1, StartupInvariance, SourceInvariance, PTL
=============================================================================
