------------------------------- MODULE MCMqtt -------------------------------
(***************************************************************************)
(* Small instances of MqttProducer.                                        *)
(***************************************************************************)
EXTENDS MqttProducer

\* Lists of up to n items with the given contents, numbered by position.
Lists(contents, n) ==
  {[j \in DOMAIN q |-> [id |-> j] @@ q[j]] : q \in BoundedSeq(contents, n)}

\* Alerts of two names, in lists long enough for a tie beside a newer alert.
AlertPayloads ==
  {[kind |-> "alerts", items |-> q] :
     q \in Lists([name : {"a"}, startedAt : {NoTime, 1, 2}], 3)
           \cup Lists([name : {"a", "b"}, startedAt : {NoTime, 1}], 3)}

\* Fields with a repeated key, a value JSON cannot express and one sent as
\* invalid; errors of one name and of two; connectivity; a foreign type.
MixedPayloads ==
  {[kind |-> "fields", items |-> q] :
     q \in Lists([key : {"x", "y"}, value : {"plain", "invalid", "nan"}], 2)}
  \cup {[kind |-> "errors", items |-> q] : q \in Lists([name : {"e", "f"}], 3)}
  \cup {[kind |-> k, items |-> <<>>] : k \in {"connectivity", "unknown"}}

EveryPayload == AlertPayloads \cup MixedPayloads
=============================================================================
