# TLA+ models of Fleet Telemetry

Fleet Telemetry accepts websocket connections from vehicles over mutual TLS,
decodes the records they send, hands each record to the dispatchers configured
for its type, and answers the vehicle. This directory models that program:
modules that follow its source, TLC configurations that check them on small
instances, and TLAPS proofs of the properties that matter most. Paths below are
relative to the repository.

## 1. The system

### Parts, state and operations

| Part | Source | State | Operations |
|---|---|---|---|
| Streaming server | `server/streaming/server.go` | dispatch rules, registry, `ackChan` | `ServeBinaryWs`, `registerSocket`, `deregisterSocket`, `dispatchConnectivityEvent`, `handleAcks` |
| Socket manager | `server/streaming/socket.go` | websocket, `writeChan` (1000), `stopChan`, rate limiter | `ProcessTelemetry`, `ParseAndProcessRecord`, `respondToVehicle`, `writer`, `Close` |
| Socket registry | `server/streaming/socket_registry.go` | UUID to socket, counter | `RegisterSocket`, `DeregisterSocket`, `GetSocket` |
| Record, serializer, envelope | `telemetry/`, `messages/` | one record | `NewRecord`, `Deserialize`, `applyRecordTransforms`, `Dispatch`, `Ack`, `Error` |
| Producers | `datastore/kafka`, `kinesis`, `googlepubsub`, `zmq`, `mqtt`, `redis`, `simple` | client, queues, record types to ack | `Produce`, `ProcessReliableAck`, `Close` |
| Configuration | `config/` | `Config` | file, defaults, environment, inline secrets, validation, `ConfigureProducers`, `ExtractServiceTLSConfig` |
| Certificates | `server/certificates/acme.go` | certmagic | `ACMEOptionsFromEnvironment`, `Manage` |
| Process | `cmd/main.go` | listener, dispatchers | `run`, `startServer`, shutdown |
| Monitoring | `server/monitoring`, `metrics/` | registered metrics, profiler switch, time of the last sample | status, metrics and profiler servers, `EnableProfiler`, `ReportServerUsage` |
| Logger and transformers | `datastore/simple` | none | conversion of a record to log fields |
| Generated code | `protos/`, `messages/tesla` | none | messages, enums, envelopes |
| Control plane | `cmd/controlplane` | requests under way | health probe of the public endpoint, shutdown |
| Health check | `cmd/healthcheck` | none | one request to the status server |
| Certificate tools | `tools/` | files of a bundle | `generateCertificateBundle` |

### How the parts interact

Every connection has two goroutines: the request handler, which registers the
socket, reads messages and calls `Produce` of each dispatcher in turn, and the
writer, which drains `writeChan`. A third goroutine, `handleAcks`, is shared by
all connections: it receives from the unbuffered `ackChan` the records whose
ack is tied to a dispatcher, looks their socket up in the registry by UUID and
sends the ack into that socket's `writeChan`. Kafka adds a fourth,
`handleProducerEvents`, which turns delivery reports into such acks; the other
dispatchers send to `ackChan` from inside `Produce`, on the session's goroutine.
Each package registers its metrics once; a goroutine of its own samples the
usage of the process at every tick. Control plane, health check and certificate
tools are separate processes: they meet the server at its port, at its status
port and in the files it is started with.

### What is hard

* **Blocking.** The reader and `handleAcks` both send on a bounded channel
  without a way out; `ackChan` is unbuffered, so whoever has an ack to send
  waits for `handleAcks`.
* **Late answers.** Delivery reports and MQTT tokens come after the session or
  the wait for them has ended; `handleAcks` uses the socket it looked up some
  time before.
* **Identity of a session.** The UUID is taken from the client's `X-TXID`
  header, so two live sessions may share one.
* **Partial failure.** One of several publishes of a record fails after others
  succeeded, in the redis and mqtt dispatchers.
* **Shared leases.** Concurrent redis calls purge and list one sorted set with
  clocks they read at different times.
* **One socket for all.** The zmq dispatcher sends a message as two frames on a
  socket that all sessions share without a lock, and `Close` takes it away
  while sessions go on.
* **Two views of one message.** Dispatchers publish the bytes of a record or
  convert the decoded message, with two separate switches over 53 kinds of
  value; VIN, times and locations are replaced on the way.
* **Clocks.** A late sample shortens the time to the next, by which the usage
  report divides without looking; the control plane's probe, response and shutdown have
  different timeouts.
* **Start and stop.** Five sources of TLS settings are merged in three
  packages; at shutdown the upgraded connections outlive `Shutdown`.

`PROJECT.json` lists these as hazards, each at its line, with the properties
that would catch it going wrong.

### What makes each part correct

* streaming server: no ack before the publish it stands for; an answer goes to
  its own UUID; a message is answered at most once and never both refused and
  dispatched; sessions end with their event; published records get acked;
* registry: the counter and the entries are those of registered sessions;
* redis: no live lease is purged, and an acked record reached all who were
  entitled to it;
* mqtt: acked means published in full; the newest alert is the current one;
  the waits for its tokens share one timeout;
* start: a serving server has mutual TLS from the source ranked first, acks
  every record type from one place and reports healthy last, at a port its check
  can find;
* process: dispatchers are open while connections are accepted, handlers report
  departures until they are closed, no metric is used before it is registered or
  with other labels, only a very late sample crashes it, the profiler knows
  whether it traces, and a signal ends it;
* zmq: an acked record left in full, a bound socket has its authentication,
  construction ends, and only calls with an ack can be held up by `handleAcks`;
* records: data go out under the VIN of the certificate, all consumers see the
  same message, times keep their meaning, a reply names the message it answers
  if the server could read that message's envelope;
* control plane: "healthy" was seen, and every request is answered;
* certificate tools: the files of a finished bundle that are whole go together,
  and the devices that have them connect.

## 2. The modules

```
ReliableDelivery <- refined by - Streaming
Record ─┬─ SocketRegistry ─┐
        ├─ SocketManager ──┼─ Streaming ── MCStreaming, StreamingProofs ── DeliveryProofs
        └─ Producers ──────┘
RedisProducer ── RedisProofs
MqttProducer ── MCMqtt, MqttProofs
ZmqProducer ── ZmqProofs
Startup ─┬─ MCStartup, StartupProofs
         └─ Lifecycle ─┐
            Metrics ───┼─ Process ── MCProcess, ProcessProofs
            Monitoring ┘
VehicleData ─┐
Identity ────┼─ Transforms ── Transformers ── DataPath ─┐
Envelope ────┘                           CertTools ─────┼─ Deployment ── MCDeployment, DeploymentProofs
                                         ControlPlane ──┘
```

**Record** has the constants of the dispatch configuration and the outcome of
`NewRecord` for every form of message: too big, unparsable, a foreign envelope,
a stream message with a known or unknown topic, a sender that is or is not the
one of the certificate, and a payload that does or does not decode. The
assumptions on the rules are what `configureReliableAckSources` and
`ConfigureProducers` let through; `Startup` checks that they do
(`AckedFromOnePlace`), with two exceptions: a
misspelled dispatcher (a deviation below) and a dispatcher named twice for one
record type, which `OncePerRecordAssumption` excludes. The branch of
`ParseAndProcessRecord` for an unauthorized sender is never taken, since
`Deserialize` reports a wrong sender by another error; the model has no such step.

**SocketRegistry**, **SocketManager** and **Producers** are the parts, one
action per operation. `accepted` in Producers is the history of publishes that
ended without an error. **Streaming** composes them with the session goroutine
(`pc`, `phase`, `cur`, `todo`) and `handleAcks` (`ackPc`, `ackRec`, `ackSock`).
A step ends where the code may block or where another goroutine can see the
state: each message read, each `Produce`, each send on a channel, lookup and
use of the socket in `handleAcks`, each deferred call at the end. A message of
unknown type gets the ack of `guessError` and then goes on to the dispatch, as
in the code; with a Txid but no topic it is left out of `AnsweredAtMostOnce`.
The rate limiter keeps the number of timestamps, and time may or may not
have passed.

**RedisProducer** has concurrent calls of `Produce` for one VIN, with the purge,
the listing and each publish as steps, subscribers that renew leases, and the
clock. `entitled` is history: the subscribers whose lease has been live since
the call began. Redis executes a command at once; a command that times out may
or may not have been executed. The clock of the server is taken to be monotonic
and a renewal to extend to a time not yet past.

**MqttProducer** turns one decoded record into messages, hands them to the
client and waits for their tokens under the common timeout. The loop over the
alerts is an action for each turn (`Gather`). Messages made from
a Go map go out in any order. Alerts, errors and data carry their position in
the record, which stands for their content; of values only "invalid" and those
JSON cannot express are told apart. `p.ctx` is `context.Background()` in the
server, so its early return is not modelled.

**Startup** is a sequence of stages, from the file to `Serve`; each changes the
configuration or fails. Sources of certificates are values ("file", "path",
"pem"), so that a property can say which one was used; the text of a port variable
is blanks, sign and digits, which the server and the health check read
differently. Anything outside the
process (ports, brokers, certificates on disk, ACME) may fail. **Lifecycle**
continues it: sessions, signal, `Shutdown`, closing of the dispatchers, exit or
crash. `Shutdown` neither closes nor waits for hijacked connections. A vehicle
leaves in one step and its handler reports it in a later one, so that the
dispatchers may be closed in between.

**ReliableDelivery** is the abstract specification: messages are received, a
record is published at most once and as one type, and its ack reaches one
connection, at most once and later; other answers say nothing of a publish.
`Streaming` implements it with `nread` as the messages received, the publishes of
the acking dispatcher as the published records, and each `wire` as what the
vehicle was told: for each response the set of the reliable records it acks, one
or none.

**ZmqProducer** has `NewProducer` as a sequence of steps each of which may fail,
the monitor's goroutine, `Produce` as two frames and an ack, and `Close` as two
steps. The socket joins the frames it gets into messages, whoever sent them.

**Metrics** lists which package declares which metrics with which labels and what
its users pass; registering twice, using before registering, and other labels
are panics. **Monitoring** is `EnableProfiler` against the runtime's trace, which
`/debug/pprof/trace` switches too, and the sampling goroutine with its ticker,
which may take a tick any time after it fired and read the clock any time later.
Times are counted up to one interval, which is all the properties tell apart.
**Process** composes both with `Lifecycle`: `main`, sessions, `handleAcks`,
Kafka's goroutines, the profiler server and the usage goroutine, each of which
registers or uses metrics at its time.

**VehicleData** and **Envelope** are the generated messages: kinds of value, enums
with their numbers, fields. **Identity** reads type and device from a
certificate by issuer, OID, unit and name. **Transforms** is `Deserialize` and
`applyRecordTransforms`, **Transformers** the two conversions of logger and mqtt.
**DataPath** takes one message through all of them: connection, composing by the
client, record, dispatchers in turn, reply. Texts are what they parse to
(a location with its quadrants, a number in scientific notation), bytes are what
they decode to, or what FlatBuffers panics on. **CertTools** is the bundle
generator, which overwrites the files it finds one by one, so that what runs cut
short left behind matters; a copy whose write or close fails unnoticed leaves a
file that is not whole. **ControlPlane** has the probe with its three timeouts.
**Deployment** puts these together: an endpoint with certificates of its own and
either a vehicle or an operator, or an endpoint with a finished bundle and a
device of it.

A definition whose comment describes a plausible mistake (an inclusive limit, a
dropped return, a swapped order) stands beside the one it distorts: with it in
place of the original TLC must find the property violated, which shows that the
property depends on that code. `PROJECT.json` pairs them under "mutants".

## 3. What is checked

Passing runs:

| Run | Instance | Shows |
|---|---|---|
| `session_safety` | one session, two messages of every fate, rate limiter counting, `writeChan` of 4 | a refused message is not dispatched; no decoded message is answered twice; the session implements `ReliableDelivery` |
| `session_liveness` | one session, enforced limit, room in `writeChan` | a session whose vehicle left or whose writer failed ends with its event; a published record is acked |
| `two_sessions` | two sessions, kinesis and kafka acks, different UUIDs | acks are backed by a publish and reach the right UUID; the registry is right |
| `redis_subscribers` | two calls, two subscribers, clock to 2 | no live lease is purged; an acked record reached everyone entitled to it |
| `mqtt_produce` | up to three alerts of one name with three start times or of two names with two, all pairs of fields, up to three errors, connectivity, a foreign type; a timeout of 2 | the newest alert is the current one; acked means published in full; one timeout for all waits |
| `startup` | all combinations of certificate and ACME variables, ten files, odd ports and spellings of `STATUS_PORT`; record maps, ack sources and sections | mutual TLS, precedence, health, when the health check finds the server, one place to ack each type |
| `process` | two sessions, connectivity events to kafka and the logger, without monitoring and with prometheus; a start that fails, with statsd and a profiler; a tick every 3 units, seconds of 2 | open while listening; a handler that returns before the dispatchers are closed has reported; no metric panics; a division by zero only after a sample almost a period late; the profiler knows its trace; a signal ends the process |
| `zmq_produce` | every configuration, every failing step, two sessions, three records, `Close` at any moment | acked means sent in full; bound means authenticated; a panic leaves nothing; construction ends, and so do calls unless `handleAcks` has stopped receiving their ack |
| `deployment` | a bundle of a server and four clients, two of which share a file and one of which is named like a CA, in up to two runs that may lose writes; certificates of every issuer and sort; every enum number, pairs of data, pairs of alerts, garbage, foreign and broken envelopes, messages at and above the size limit; two health requests | VIN of the certificate, agreement of all consumers, instants, encoding, replies; bundles and their devices; the control plane's answers |

**Bounds.** `MaxMessages`, `WriteChanCap`, `MessageLimit`, `MaxTime`,
`MaxElapsed` and `Timeout` bound the instances. Two sessions are enough for
every conflict over `handleAcks`, a registry entry or a UUID, as each involves
one session that holds and one that waits. In the runs that pass, `writeChan`
has room for every response the bounded number of messages can cause; that a
full channel matters is the subject of a violation run, with a capacity of 1 in
place of 1000. Two messages suffice to go over a limit of one, two clocks
apart for a lease to expire during a call, three alerts for a tie beside a
newer one. `SwapDistinct` exchanges sessions whose code is the same, together
with their UUIDs; it is used with invariants only. In `deployment` one message
is enough, since a session keeps nothing of it but the identity; pairs of data
show what the first does to the second; the bound between seconds and
milliseconds is 5000, with times on both sides and at it, and JSON's timestamps
end at 4000, below it as in the code; `SizeLimit` is 2, with messages of 2 and 3. The control plane's
timeouts keep their order (2, 3, 4, 4 for 5, 7, 10, 10 seconds). In `process` a
period of 3 with a second of 2 has samples that are late without harm, late
enough to crash and later than a period; the profiler, which shares no state
with sessions and dispatchers, is checked beside a start that fails.

**Fairness.** Goroutines that can run do run (the Go scheduler); a write ends
by `WriteLoopDeadline`; `Produce` of a synchronous dispatcher returns (timeouts
or retry limits); librdkafka reports on every message within its timeout.
Senders blocked on `ackChan` are queued by the Go runtime in order of arrival,
which is strong fairness of each rendezvous. Nothing is asked of
vehicles. In `Lifecycle` `Shutdown` returns by its deadline of ten
seconds and `Close` of a dispatcher is taken to return; in `Process` main also
comes to the end of its deferred calls. In `ZmqProducer` construction, the
monitor and the calls run on; sessions need not call and main need not close, and
`handleAcks` may stop receiving for good (`AcksStall`), which is what
`full_channel_stall` shows it can do. The
other specifications have safety properties only and state no fairness.

**Deadlock** is checked in the session runs that pass: `Quiescent` is the only
state in which nothing is left to do. It is switched off where the system really
stops: a start that failed or serves, an mqtt call that returned, a process that
ended; and in the run that shows a blocked goroutine.

### Disagreements found

| Run | What it shows |
|---|---|
| `full_channel_stall` | `handleAcks` blocks on the full channel of a dead session and no session gets its reliable acks any more |
| `signal_count` | signals are only counted for messages the limiter refuses |
| `zmq_shared_socket` | the frames of two records join on the shared socket into messages a consumer cannot read |

Each finding in `PROJECT.json` quotes the line it disagrees with.

### Deviations

Behaviour that a reader of the repository's documents or of a property above may
not expect. The models contain it; where a property excludes it, that is said.

* Of two sessions with one `X-TXID`, the older removes the registry entry of the
  newer when it leaves, and acks for the newer miss from then on
  (`socket_registry.go:33`); `PublishedIsAcked` is checked of different UUIDs.
* The reader of a session whose writer failed blocks on a full `writeChan` too,
  so that the session never ends (`socket.go:310`).
* A message over an enforced rate limit gets no response (`socket.go:216`).
* A dispatcher named twice for one record type gets each record twice and acks
  it twice (`config.go:464`); `OncePerRecordAssumption` excludes it.
* A misspelled dispatcher passes the check for unknown ones and leaves a nil
  producer in the rules (`config.go:469`, `config.go:474`); the session models
  have known ones only.
* A record that mqtt does not ack may have updated some of its topics, although
  `datastore/mqtt/README.md:19` speaks of the record as a whole.
* Redis acks a record that had no channel to be published to (`redis.go:119`).
* An incomplete set of ACME variables stops a start that names a complete
  static pair, since it is checked first (`cmd/main.go:147`).
* With `status_port` in the file and no `STATUS_PORT`, the health check asks at
  8080 and not at the server's port (`cmd/healthcheck/main.go:11`). A
  `STATUS_PORT` with blanks or a plus sign, or of blanks alone, is read by the
  server (`config_initializer.go:260`), while the check cannot make a URL of it
  and reports a healthy server as failed. `HealthCheckFindsServer` states
  exactly these exceptions.
* A mode other than on and off, or a trace of pprof, parts `profilerOn` from the
  trace (`metrics/monitoring.go:27`; `foreign` in `Monitoring`).
* A usage sample more than 59 seconds late may be followed by a division by zero
  that ends the process (`metrics.go:126`); `CrashNeedsLateSample` says that
  nothing less leads to it.
* The logger has no case for a `ChargingValue` and leaves the datum out; all
  unknown fields share one key of the log (`payload.go`). `ViewsAgree` is about
  known fields and kinds with a case.
* With `transmit_decoded_records`, a record type without a protobuf message is
  published as an empty object (`record.go`, `ToJSON`).
* With `transmit_decoded_records`, a record with a timestamp after the year 9999
  that is still taken for seconds is refused, because protojson does not marshal
  it (`record.go:210`).
* The error that answers a message above the size limit (`record.go:56`), or one
  on which FlatBuffers panics (`serializer.go:38`), has an empty txid, so that the
  vehicle cannot tell which message it is for; `ReplyNamesMessage` states exactly
  these exceptions.
* The certificate tool ignores the errors of `pem.Encode` and `Close`
  (`certs.go:198`, `certs.go:242`): a run that ended may leave files that are
  empty or cut off. `BundleConsistent` is about those that are whole.
* A client whose name ends in " CA" gets the file of the CA (`main.go:64`), and so
  its certificate is replaced by the CA's at the end of the same run.
* The logger panics on tires of a VIN shorter than four characters, and mqtt on
  a datum without a value; the session ends (`Panics` in `DataPath`).
* Vehicles connected when the process ends stay reported as CONNECTED
  (`cmd/main.go:127`), and so do those that leave shortly before it if their
  handlers come to report it after the dispatchers are closed;
  `DepartureReported` is about the handlers that return before that.

## 4. What is proved

TLAPS proves, for any values of the constants that satisfy the named
assumptions, every safety invariant and every safety action property of the
passing runs, and the refinement of `ReliableDelivery`. Each proof module has an
inductive invariant, a lemma per action, and a theorem per property.

* **StreamingProofs**: `TypeCorrect`, `ReliableAckCorrect`, `AnswersOnOwnUUID`,
  `RegistryCorrect`. None of the properties is inductive: an ack is queued by
  `handleAcks` from a record it holds, which it took from a session or from
  Kafka's goroutine, which got it from a report. `IInv` therefore adds to the
  types what each holder may hold: the record of a session between publish and
  rendezvous has been published (`SessionInv`), a positive report is of a
  published record (`KafkaInv`), so is the record in `handleAcks`, and the
  socket looked up has the record's UUID (`AckInv`); registry entries are under
  their own UUID (`RoutingInv`), a writer that writes holds a response
  (`WriterInv`), and what is queued or written satisfies the property
  (`ResponseInv`). `RegistryCorrect` adds `PhaseInv`, which ties a session's
  program counter to its registration, because the counter is a cardinality that
  one session's step must change by one.
* **DeliveryProofs**: `ErrorsCorrect`, `AnsweredOnceCorrect`,
  `ReliableDeliveryImplemented`. That no message is answered twice is a fact
  about the whole server: the answer may be with the session, in Kafka's queue,
  in a delivery report, with Kafka's goroutine, with `handleAcks`, in some
  session's `writeChan`, with its writer or on its wire, and with colliding
  UUIDs that session need not be its own. `PlaceInv` says that it is in one of
  these eight places at a time and there once; every action moves it from one to
  the next or drops it. `OwnInv` and `HandedInv` tie message numbers to the
  record a session works on, `ErrorInv` says that a message refused was not
  handed on, and `PublishInv` that the dispatcher that acks a record has not
  published it before its turn. The refinement follows: a publish is of a
  message not published before (`HandedInv`), and an ack that is written leaves
  the writer, so it is on no wire (`PlaceInv`).
* **RedisProofs**: `RedisAckCorrect`, `RedisPurgeCorrect`. A purge removes
  scores below the clock the call read; `ClockRead` says that it is not ahead of
  the present, so what is purged has expired. An entitled subscriber therefore stays in
  the set (`EntitledLive`), hence in the listing, and from then on is either
  already served or still to be published to (`EntitledListed`); when the list
  is empty all are served (`AckedServed`).
* **MqttProofs**: `MqttTypeCorrect`, `AckedWasPublished`, `WaitsShareTimeout`,
  `CurrentCorrect`, for any record, any timeout and any behaviour of the client.
  For the ack what the messages say does not matter: `BatchesList` shows
  that they are a list of sets, whatever it holds. A message is then still to be
  handed over or has a token (`NoneLost`), and as long as no wait failed the
  tokens before `index` were sent (`WaitedSent`), so an ack after the last of
  them (`AckedClean`) covers them all. `Held` bounds the time blocked by the time
  since the first wait, and that by the timeout whenever a wait blocks.
  `GatherInv` is the invariant of the gathering loop: of the alerts before `at`,
  the current one of a name is the first with the latest start time.
* **ZmqProofs**: `ZmqTypeCorrect`, `AckImpliesSent`, `BoundSocketAuthenticates`,
  `PanicIsClean`, for any number of sessions and records. `SetupInv` says at each
  stage of `NewProducer` what CURVE has been given, so that a bind is only
  reached with all of it. Since frames of other sessions may come in between,
  the topic of a record is either still among the frames under way or in some
  message that left, as long as the socket is open (`FramesUnderWay`); no two
  calls have the same record (`CallsApart`), hence nothing other sessions send is
  of the record a call panicked with (`NothingOfPanicked`).
* **StartupProofs**: `MutualTLS`, `StatusServerCorrect`, `HealthAfterReady`,
  `EnvironmentRanksFirst`, `HealthCheckAgrees`, `OnePlaceToAck`, for any file and
  environment. `IInv` says for each group of stages what the stages
  before it have established. `SourceInv` follows the values: at each stage the
  ports and certificates are a function of the file and the environment
  (`FromFile`, `FromEnvironment`, `FromPaths`, `FromSecrets`), and after
  `configureReliableAckSources` each ack source is valid (`AcksSourced`).
* **ProcessProofs**: `ProcessImplementsMonitoring`, `CrashOnlyWhenLate`,
  `ProfilerIsTruthful`, for every period and length of a second. The first shows
  that a step of the whole process is
  a step of `Monitoring` or leaves it alone, so that the others follow for the
  process from `MonInvariance`. The tick that a sample belongs to comes at least a
  period after that of the sample before, so the time between the two samples and
  the lateness of the first make up a period (`ClocksAgree`); a tick that waits
  while another is being served means that the other is a period late already.
  `ListensOnlyWhileOpen` and `DeparturesReported` rest on `LifeInv`: until they
  are being closed, the open dispatchers are those built, so what took a
  vehicle's CONNECTED event takes its DISCONNECTED event too, and a dispatcher
  that is closed stays closed. `MetricsNeverPanic`
  rests on `MetricsInv`: a package that is done has all its metrics, one that is
  not has no name in the registry, and whoever may use metrics (a session,
  `handleAcks`, a dispatcher, the usage goroutine) runs only after their package
  is done; that no two packages declare one name, and that uses have the declared
  labels, is decided package by package. `DatastoresAssumption` names the
  dispatchers that have metrics.
* **DeploymentProofs**: of the control plane `DeploymentImplementsPlane`,
  `PlaneTypeCorrect`, `HealthyIsTrusted`, `RequestsAnswered`, for any set of
  requests and any timeouts in the order of the code's. The invariant bounds the
  age of a request by the probe's timeout and, in a shutdown, the time it has
  drained by the age of what it waits for. Of the certificate tools
  `BundlesConsistent` and `BundleDevicesCorrect`, for any IDs, also ones that share
  a file. Of a pair of files, what is whole was made by one job of this run (`Own`);
  `Progress` says that this holds of the jobs done, except for the files of the one
  at hand, and that the jobs left are the end of the list, so that when none is
  left (`ToolInv`) nothing of an earlier run remains. `DeviceInv` ties a connected
  device to such files. Of the way of a message `VinCorrect`, `ConsumersCorrect`,
  `InstantsCorrect`, `EncodingCorrect`, `RepliesCorrect` and `ViewsCorrect`, for any
  certificate and any message that decodes to what its topic says
  (`InputsAssumption`; bytes FlatBuffers panics on are among the messages):
  `WayInv` says that the identity is that of the
  certificate, that the bytes kept in a message being composed are those of its
  fields, that the record was made from what arrived, and that every output and
  the reply were made from that record (`MadeFrom`, `AnswerInv`), which has a txid
  if and only if the envelope was readable. `ViewsCorrect` then takes the kinds of
  value one by one; that both maps keep the last datum of a repeated field needs
  the existence of a last position, which is taken from the well-foundedness of
  the natural numbers (`LastPosition`).

The assumptions on the constants are stated in the modules that declare them, and
TLC evaluates them in the runs. The type invariants are proved and not among the
runs' properties, which are kept for what takes several steps to go wrong.

Only model-checked: liveness under fairness, which TLAPS does not handle
(`TornDown` and `PublishedIsAcked` of sessions, `ShutdownStops` of the process,
`ConstructionEnds` and `ProduceReturns` of zmq), and the absence of deadlock, which
is about what is enabled.

## 5. What is not modelled

The byte formats (FlatBuffers, protobuf, JSON) and the reflection tables of the
generated code; log lines and the values of counters; the airbrake and
middleware wrappers and the log library, which keep no state that another part
reads; `protos/vehicle_metric.pb.go`, which no code of the server uses; the
clock of the rate limiter, of which only the number of timestamps is kept; the
names of Kinesis streams, Pub/Sub topics and Redis channels, which are values;
the environment of the control plane; cryptography. Listed with the reason in
`PROJECT.json`.

## 6. Plan

Done: `Record`, the parts and `Streaming` with its refinement; `RedisProducer`,
`MqttProducer`, `ZmqProducer`, `Startup`; `Lifecycle`, `Metrics`, `Monitoring` and
`Process`; the data path, certificate tools and control plane in `Deployment`; the
safety properties of all of them, proved.

Left, in this order:

1. proofs: that a session's writer and reader keep the order of its responses;
   type correctness of `Startup`, `RedisProducer` and `Process` as theorems of
   their own; the shared lemmas on sequences of `MqttProofs` and `DeliveryProofs`;
2. the rate limiter with time (the configured interval is not what the
   limiter is built with) and signal counting per VIN;
3. Kinesis stream names and the Redis options of the configuration.
