---------------------------- MODULE MCProcess ----------------------------
(***************************************************************************)
(* A server whose records and connectivity events go to kafka and to the   *)
(* logger, without monitoring and with prometheus; and one with statsd and *)
(* a profiler, whose kafka section is missing, so that its start fails.    *)
(* The profiler shares nothing with sessions and dispatchers.              *)
(***************************************************************************)
EXTENDS Process, TLC

LifeFile ==
  [state |-> "ok", vins |-> 0, airbrake |-> FALSE, port |-> 443, statusPort |-> 8080,
   tls |-> [present |-> TRUE, cert |-> "file", key |-> "file", ca |-> ""],
   records |-> ("V" :> <<"kafka">>) @@ (Connectivity :> <<"kafka", Logger>>),
   acks |-> "V" :> "kafka", sections |-> {"kafka"}]

NoKafka == [LifeFile EXCEPT !.sections = {}]

LifeEnvironment ==
  [port |-> NoText, statusPort |-> NoText, tlsEnabled |-> "unset",
   certPath |-> "", keyPath |-> "", caPath |-> "", certPEM |-> "", keyPEM |-> "",
   acmeDomain |-> "", acmeEmail |-> "", apiToken |-> FALSE, storage |-> ""]

LifeFound == {[file |-> f, env |-> LifeEnvironment] : f \in {LifeFile, NoKafka}}

LifeMonitoring ==
  {NoMonitoring,
   [NoMonitoring EXCEPT !.present = TRUE, !.prometheus = TRUE],
   [NoMonitoring EXCEPT !.present = TRUE, !.statsd = TRUE, !.profilerPort = TRUE, !.profilingPath = TRUE]}

LifeInit == ProcessInit /\ (monitoring.profilerPort <=> file = NoKafka)
LifeSpec == LifeInit /\ [][ProcessNext]_allVars /\ ProcessFairness
=============================================================================
