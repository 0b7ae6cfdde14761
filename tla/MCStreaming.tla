---------------------------- MODULE MCStreaming ----------------------------
(***************************************************************************)
(* Small instances of Streaming.  "V" is acked by kinesis (synchronous),   *)
(* "alerts" by kafka (asynchronous), "errors" by nobody; "custom" is not   *)
(* configured.                                                             *)
(***************************************************************************)
EXTENDS Streaming, TLC

CONSTANTS s1, s2, u1, u2

MCTopics == {"V", "alerts", "errors", "connectivity", "custom"}
MCProtoTopics == {"V", "alerts", "errors", "connectivity"}
MCSignalTopics == {"V", "alerts"}
MCDispatchers == {"kafka", "kinesis", "logger"}

MCDispatchRules ==
  [t \in MCTopics \ {"custom"} |->
     CASE t = "V"            -> <<"kinesis", "kafka">>
       [] t = "alerts"       -> <<"kafka">>
       [] t = "errors"       -> <<"logger">>
       [] t = "connectivity" -> <<"logger">>]

MCReliableAckSources ==
  [t \in {"V", "alerts"} |-> IF t = "V" THEN "kinesis" ELSE "kafka"]

\* A server with kinesis only and no connectivity record.
KinesisRules == [t \in {"V"} |-> <<"kinesis">>]
KinesisAcks == [t \in {"V"} |-> "kinesis"]

Stream(t) == [form |-> "stream", topic |-> t, sender |-> TRUE, payload |-> TRUE]

\* One message of every fate NewRecord tells apart.
EveryKind ==
  {Stream(t) : t \in {"V", "alerts", "errors", "custom"}}
  \cup {[Stream("V") EXCEPT !.form = f] : f \in Forms \ {"stream"}}
  \cup {[Stream("V") EXCEPT !.payload = FALSE], [Stream("custom") EXCEPT !.sender = FALSE]}

\* One synchronous and one asynchronous reliable record.
ReliableKinds == {Stream("V"), Stream("alerts")}

VehicleDataKinds == {Stream("V")}

Distinct == (s1 :> u1) @@ (s2 :> u2)
One == s1 :> u1

\* Renaming both sessions together with their UUIDs changes nothing.
SwapDistinct ==
  {p \in Permutations({s1, s2, u1, u2}) : {p[s1], p[s2]} = {s1, s2} /\ (p[s1] = s1) = (p[u1] = u1)}
=============================================================================
