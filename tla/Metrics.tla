------------------------------ MODULE Metrics ------------------------------
(***************************************************************************)
(* The metrics of the server: which package declares which names with      *)
(* which labels, how they are registered once per package with the         *)
(* collector the configuration selects (metrics/, metrics/adapter/), and   *)
(* what their users pass.                                                  *)
(*                                                                         *)
(* The prometheus client panics when a name is registered twice and when   *)
(* the labels of a use are not those declared; a metric used before its    *)
(* package has registered it is a nil interface, and panics as well.       *)
(***************************************************************************)
EXTENDS Naturals, FiniteSets

\* Metrics of these names with these labels, declared or used.
All(names, labels) == {[name |-> n, labels |-> labels] : n \in names}
NamesOf(metrics) == {m.name : m \in metrics}

RecordType == {"record_type"}

KafkaMetrics ==
  All({"kafka_produce_total", "kafka_produce_total_bytes", "kafka_produce_ack_total",
       "kafka_produce_ack_total_bytes", "kafka_reliable_ack_total"}, RecordType)
  \cup All({"kafka_err"}, {})
  \cup All({"kafka_produce_queue_size"}, {"type"})

KinesisMetrics ==
  All({"kinesis_err", "kinesis_publish_total", "kinesis_publish_total_bytes",
       "kinesis_reliable_ack_total"}, RecordType)

PubsubMetrics ==
  All({"pubsub_not_connected_total", "pubsub_publish_total", "pubsub_publish_total_bytes",
       "pubsub_err", "pubsub_reliable_ack_total"}, RecordType)

ZmqMetrics ==
  All({"zmq_err", "zmq_publish_total", "zmq_publish_total_bytes", "zmq_reliable_ack_total"}, RecordType)

MqttMetrics ==
  All({"mqtt_err", "mqtt_publish_total", "mqtt_publish_total_bytes", "mqtt_reliable_ack_total"}, RecordType)

RedisMetrics ==
  All({"redis_publish_total", "redis_publish_total_bytes", "redis_err", "redis_reliable_ack_total"}, RecordType)

SocketMetrics ==
  All({"record_too_big_total", "unauthorized_sender_id_total", "unexpected_record_err_total",
       "socket_err_total"}, {})
  \cup All({"dispatch_total", "record_size_bytes_total", "record_total", "signal_count"}, RecordType)
  \cup All({"rate_limit_exceeded_total"}, {"device_id", "txtype"})
  \cup All({"unknown_message_type_error_total"}, {"msg_type"})
  \cup All({"vin_signal_count"}, {"record_type", "vin"})

ServerMetrics == All({"reliable_ack", "reliable_ack_miss"}, {"record_type", "dispatcher"})

MonitoringMetrics == All({"uptime_sec", "num_connections"}, {})

UsageMetrics ==
  All({"num_goroutine", "memory_allocated_bytes", "memory_heap", "memory_stack",
       "gc_total_pause", "gc_pause_per_second", "gc_per_second"}, {})

\* What registerMetrics of each package declares.
Declared ==
  [kafka |-> KafkaMetrics, kinesis |-> KinesisMetrics, pubsub |-> PubsubMetrics,
   zmq |-> ZmqMetrics, mqtt |-> MqttMetrics, redis |-> RedisMetrics, socket |-> SocketMetrics,
   server |-> ServerMetrics, monitoring |-> MonitoringMetrics, usage |-> UsageMetrics]

Packages == DOMAIN Declared

\* The labels with which the code of each package calls Inc, Add and Set.
DatastoreUses(p) == All(NamesOf(Declared[p]), RecordType)

KafkaUses ==
  All({"kafka_produce_total", "kafka_produce_total_bytes", "kafka_produce_ack_total",
       "kafka_produce_ack_total_bytes", "kafka_reliable_ack_total"}, RecordType)
  \cup All({"kafka_err"}, {})
  \cup All({"kafka_produce_queue_size"}, {"type"})

SocketUses ==
  All({"record_too_big_total", "unauthorized_sender_id_total", "unexpected_record_err_total",
       "socket_err_total"}, {})
  \cup All({"dispatch_total", "record_size_bytes_total", "record_total", "signal_count"}, RecordType)
  \cup All({"rate_limit_exceeded_total"}, {"device_id", "txtype"})
  \cup All({"unknown_message_type_error_total"}, {"msg_type"})
  \cup All({"vin_signal_count"}, {"record_type", "vin"})

ServerUses == All({"reliable_ack", "reliable_ack_miss"}, {"record_type", "dispatcher"})

\* customStats sets the two metrics of monitoring among those of the usage.
UsageUses == All(NamesOf(UsageMetrics) \cup {"uptime_sec", "num_connections"}, {})

Uses(p) ==
  CASE p = "kafka"  -> KafkaUses
    [] p = "socket" -> SocketUses
    [] p = "server" -> ServerUses
    [] p = "usage"  -> UsageUses
    [] OTHER        -> DatastoreUses(p)

-----------------------------------------------------------------------------
VARIABLES collector,   \* prometheus, statsd or noop
          down,        \* the collector has been shut down
          registry,    \* the names in the prometheus registry
          once,        \* package -> new, running or done, its sync.Once
          handles,     \* the metrics whose metricsRegistry field is set
          panicked     \* the goroutines that panicked over a metric

metricsVars == <<collector, down, registry, once, handles, panicked>>

\* NewCollector: prometheus if it has a port, else statsd if it has a section.
NewCollector(monitoring) ==
  CASE monitoring.prometheus -> "prometheus" [] monitoring.statsd -> "statsd" [] OTHER -> "noop"

MetricsInit(monitoring) ==
  /\ collector = NewCollector(monitoring)
  /\ down = FALSE
  /\ registry = {}
  /\ once = [p \in Packages |-> "new"]
  /\ handles = {}
  /\ panicked = {}

\* registerMetricsOnce: the first caller starts, others wait until it is done.
BeginOnce(p) ==
  /\ once[p] = "new"
  /\ once' = [once EXCEPT ![p] = "running"]
  /\ UNCHANGED <<collector, down, registry, handles, panicked>>

\* What registering the declared metrics of packages ps does: a name that is
\* registered already panics.
Registered(ps, goroutine) ==
  LET declared == UNION {Declared[p] : p \in ps}
      names    == NamesOf(declared)
      twice    == \/ names \cap registry # {}
                  \/ \E p, q \in ps : p # q /\ NamesOf(Declared[p]) \cap NamesOf(Declared[q]) # {}
  IN  /\ handles' = {m \in handles : m.name \notin names} \cup declared
      /\ registry' = IF collector = "prometheus" THEN registry \cup names ELSE registry
      /\ panicked' = IF collector = "prometheus" /\ twice THEN panicked \cup {goroutine} ELSE panicked
      /\ UNCHANGED <<collector, down>>

EndOnce(p, goroutine) ==
  /\ once[p] = "running"
  /\ once' = [once EXCEPT ![p] = "done"]
  /\ Registered({p}, goroutine)

\* Once.Do for packages no other goroutine registers, in one step.
RegisterOnce(ps, goroutine) ==
  LET new == {p \in ps : once[p] = "new"}
  IN  /\ once' = [p \in Packages |-> IF p \in new THEN "done" ELSE once[p]]
      /\ Registered(new, goroutine)

\* A use that is not as declared panics if the metric is nil, and with
\* prometheus if it has other labels; statsd and noop take any.
Panics(u) ==
  /\ u \notin handles
  /\ collector = "prometheus" \/ u.name \notin NamesOf(handles)

Use(ps, goroutine) ==
  /\ panicked' = IF \E p \in ps : \E u \in Uses(p) : Panics(u) THEN panicked \cup {goroutine} ELSE panicked
  /\ UNCHANGED <<collector, down, registry, once, handles>>

\* MetricCollector.Shutdown: prometheus unregisters what was registered, statsd
\* closes its client.  Metrics used later are updated and served by no one.
ShutdownCollector ==
  /\ ~down
  /\ down' = TRUE
  /\ registry' = {}
  /\ UNCHANGED <<collector, once, handles, panicked>>

-----------------------------------------------------------------------------
\* No goroutine panics over a metric: each is registered, once, before anyone
\* uses it, and with the labels of every use, whichever dispatchers, sessions
\* and background goroutines there are and in whatever order they run.
NoMetricPanics == panicked = {}
=============================================================================
