----------------------------- MODULE MCStartup -----------------------------
(***************************************************************************)
(* Files and environments for Startup.                                     *)
(***************************************************************************)
EXTENDS Startup, TLC

EmptyFile == ("state" :> "missing") @@ EmptyConfig
EmptyEnv == [port |-> NoText, statusPort |-> NoText, tlsEnabled |-> "unset",
             certPath |-> "", keyPath |-> "", caPath |-> "", certPEM |-> "", keyPEM |-> "",
             acmeDomain |-> "", acmeEmail |-> "", apiToken |-> FALSE, storage |-> ""]
FileTLS == [present |-> TRUE, cert |-> "file", key |-> "file", ca |-> ""]

\* Files that differ in what they say of TLS and the port, or are not usable.
TLSFiles ==
  {[EmptyFile EXCEPT !.state = s] : s \in {"missing", "malformed", "unreadable"}}
  \cup {[EmptyFile EXCEPT !.state = "ok", !.tls = t, !.port = 8443] :
          t \in {NoTLS, FileTLS, [FileTLS EXCEPT !.key = ""], [FileTLS EXCEPT !.ca = "file"]}}
  \cup {[EmptyFile EXCEPT !.state = "ok", !.tls = FileTLS, !.vins = v, !.airbrake = TRUE] :
          v \in {MaxVinsToTrack, MaxVinsToTrack + 1}}
  \cup {[EmptyFile EXCEPT !.state = "ok", !.tls = FileTLS, !.statusPort = 9000]}

\* Every combination of the certificate variables, and odd values of the others.
TLSEnvironments ==
  [port : {NoText}, statusPort : {NoText}, tlsEnabled : {"unset"},
   certPath : {"", "path"}, keyPath : {"", "path"}, caPath : {"", "path"},
   certPEM : {"", "pem"}, keyPEM : {"", "pem"},
   acmeDomain : {"", "host", "url"}, acmeEmail : {"", "address"}, apiToken : BOOLEAN,
   storage : {"", "absolute", "relative"}]
  \cup {[EmptyEnv EXCEPT !.port = p, !.statusPort = q, !.tlsEnabled = e] :
          p \in [blanks : {FALSE}, sign : {""}, digits : {Unset, NotANumber, 0, 443, MaxPort + 1}],
          q \in [blanks : BOOLEAN, sign : {"", "+", "-"}, digits : {Unset, NotANumber, 0, 8081, MaxPort}],
          e \in {"unset", "true", "false", "invalid"}}

\* Files that differ in records, reliable acks and datastores.
RecordFiles ==
  {[EmptyFile EXCEPT !.state = "ok", !.tls = FileTLS, !.acks = a, !.sections = s,
                     !.records = ("V" :> v) @@ ("errors" :> e) @@ (Connectivity :> <<Logger>>)] :
     v \in {<<>>, <<"kafka">>, <<Logger, "mqtt">>, <<"mqtt", "kafka">>, <<"misspelt", "kafka">>},
     e \in {<<Logger>>, <<"kafka">>},
     a \in {<<>>} \cup {t :> d : t \in {"V", "alerts", Connectivity}, d \in {"kafka", "mqtt", "misspelt", Logger}}
           \cup {("V" :> "mqtt") @@ ("errors" :> "kafka")},
     s \in SUBSET {"kafka", "mqtt"}}

\* TLS in every combination, and records in every combination with plain TLS.
UsableFound == [file : TLSFiles, env : TLSEnvironments] \cup [file : RecordFiles, env : {EmptyEnv}]
=============================================================================
