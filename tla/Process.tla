------------------------------ MODULE Process ------------------------------
(***************************************************************************)
(* The whole process: its life (Lifecycle) together with its metrics and   *)
(* its monitoring.  Main registers the metrics of monitoring, of the       *)
(* dispatchers and of the server as it starts, the goroutine of            *)
(* ReportServerUsage and the first session register theirs beside it, and  *)
(* all goroutines use them until the process ends, also after main has     *)
(* shut the collector down.                                                *)
(***************************************************************************)
EXTENDS Lifecycle, Metrics, Monitoring

CONSTANTS MonitoringConfigs   \* the monitoring sections of the configuration

NoMonitoring == [present |-> FALSE, prometheus |-> FALSE, statsd |-> FALSE,
                 profilerPort |-> FALSE, profilingPath |-> FALSE]

ASSUME MonitoringAssumption == \A m \in MonitoringConfigs : m.present \/ m = NoMonitoring

\* The dispatchers that ConfigureProducers knows beside the logger.
ASSUME DatastoresAssumption == Datastores \subseteq {"kafka", "kinesis", "pubsub", "zmq", "mqtt", "redis"}

VARIABLES monitoring,       \* Config.Monitoring
          profiling,        \* ProfilingPath is set and its file was made
          profilerListens,  \* the profiler server listens
          registrar         \* the session that runs the Once of its package, or nobody

procVars == <<monitoring, profiling, profilerListens, registrar>>
allVars  == <<vars, metricsVars, monVars, procVars>>

ProcessInit ==
  /\ Init
  /\ monitoring \in MonitoringConfigs
  /\ MetricsInit(monitoring)
  /\ MonInit
  /\ profiling = FALSE
  /\ profilerListens = FALSE
  /\ registrar = "nobody"

Alive == stage \notin {"stopped", "failed"}

-----------------------------------------------------------------------------
\* The packages whose metrics main registers at a stage of the start; a stage
\* that fails may have come to some of them only.
MainRegisters ==
  LET ps == CASE stage = "clientCA"  -> IF monitoring.present THEN {"monitoring"} ELSE {}
              [] stage = "producers" -> RequiredDispatchers \cap Datastores
              [] stage = "listen"    -> {"server"}
              [] OTHER               -> {}
  IN  \E done \in SUBSET ps :
        /\ stage' = "failed" \/ done = ps
        /\ RegisterOnce(done, "main")

\* Before the notifier main makes the profiling file; an error clears the path.
ProfilingFile ==
  profiling' \in IF stage = "airbrake" /\ monitoring.profilingPath THEN BOOLEAN ELSE {profiling}

MainStarts ==
  /\ Start
  /\ MainRegisters
  /\ ProfilingFile
  /\ UNCHANGED <<monVars, monitoring, profilerListens, registrar>>

\* Serving, the shutdown and the closing of dispatchers.
MainGoesOn ==
  /\ ServeFails \/ ReceiveSignal \/ ShutdownReturns \/ \E d \in producers : CloseDispatcher(d)
  /\ UNCHANGED <<metricsVars, monVars, procVars>>

\* The deferred Shutdown of the collector, when main returns; a start that
\* fails before it is deferred has registered nothing.
MainShutsCollectorDown ==
  /\ stage = "failed" \/ (stage = "closing" /\ open = {})
  /\ ShutdownCollector
  /\ UNCHANGED <<vars, monVars, procVars>>

MainExits ==
  /\ down
  /\ Exit
  /\ UNCHANGED <<metricsVars, monVars, procVars>>

-----------------------------------------------------------------------------
\* StartServerMetrics starts the server of /metrics, which only reads the
\* registry, the profiler server, and the goroutine of the usage.  A server
\* that cannot listen is logged and missed.
MonitoringStarted == Alive /\ once["monitoring"] = "done"

ProfilerListens ==
  /\ MonitoringStarted
  /\ monitoring.profilerPort /\ ~profilerListens
  /\ profilerListens' = TRUE
  /\ UNCHANGED <<vars, metricsVars, monVars, monitoring, profiling, registrar>>

UsageRegisters ==
  /\ MonitoringStarted /\ once["usage"] = "new"
  /\ RegisterOnce({"usage"}, "usage")
  /\ UNCHANGED <<vars, monVars, procVars>>

UsageStarts ==
  /\ MonitoringStarted /\ once["usage"] = "done"
  /\ NewTicker \/ StartSampling
  /\ UNCHANGED <<vars, metricsVars, procVars>>

ClockTicks ==
  /\ Alive
  /\ TimePasses
  /\ UNCHANGED <<vars, metricsVars, procVars>>

UsageTakesTick ==
  /\ Alive
  /\ TakeTick
  /\ UNCHANGED <<vars, metricsVars, procVars>>

\* A sample sets the metrics of the usage and, by customStats, of monitoring,
\* unless it panics.
UsageSamples ==
  /\ Alive
  /\ Sample
  /\ Use({"usage"}, "usage")
  /\ IF usage' = "crashed" THEN Crash ELSE UNCHANGED vars
  /\ UNCHANGED procVars

\* Requests to the profiler server; /live_profiler needs the profiling path.
ProfilerServes ==
  /\ Alive /\ profilerListens
  /\ \/ profiling /\ \E mode \in {"on", "off"} \cup Modes : LiveProfiler(mode)
     \/ PprofTraceStart
     \/ PprofTraceStop
  /\ UNCHANGED <<vars, metricsVars, procVars>>

-----------------------------------------------------------------------------
SessionAccepted(s) ==
  /\ AcceptConnection(s)
  /\ UNCHANGED <<metricsVars, monVars, procVars>>

\* NewSocketManager: the first session registers the metrics of its package,
\* and the others wait for it.
SessionBeginsOnce(s) ==
  /\ Alive /\ session[s] = "upgrading"
  /\ BeginOnce("socket")
  /\ registrar' = s
  /\ UNCHANGED <<vars, monVars, monitoring, profiling, profilerListens>>

SessionEndsOnce(s) ==
  /\ Alive /\ registrar = s
  /\ EndOnce("socket", s)
  /\ registrar' = "nobody"
  /\ UNCHANGED <<vars, monVars, monitoring, profiling, profilerListens>>

\* SessionConnects that goes on while another session is still registering.
SessionConnectsAtOnce(s) ==
  /\ once["socket"] # "new"
  /\ Connect(s)
  /\ UNCHANGED <<metricsVars, monVars, procVars>>

SessionConnects(s) ==
  /\ once["socket"] = "done"
  /\ Connect(s)
  /\ UNCHANGED <<metricsVars, monVars, procVars>>

SessionLeaves(s) ==
  /\ VehicleLeaves(s)
  /\ UNCHANGED <<metricsVars, monVars, procVars>>

SessionDeregisters(s) ==
  /\ DeregisterSocket(s)
  /\ UNCHANGED <<metricsVars, monVars, procVars>>

\* A session counts what it reads, and what the dispatchers do with it.
SessionCounts(s) ==
  /\ Alive /\ session[s] \in {"connected", "leaving"}
  /\ Use({"socket"} \cup (producers \ {Logger}), s)
  /\ UNCHANGED <<vars, monVars, procVars>>

\* handleAcks, started with the server, counts acks and misses.
AcksCount ==
  /\ Alive /\ listening
  /\ Use({"server"}, "acks")
  /\ UNCHANGED <<vars, monVars, procVars>>

\* The goroutines of the kafka producer count deliveries and queue lengths.
KafkaCounts ==
  /\ Alive /\ "kafka" \in producers
  /\ Use({"kafka"}, "kafka")
  /\ UNCHANGED <<vars, monVars, procVars>>

-----------------------------------------------------------------------------
ProcessNext ==
  \/ MainStarts \/ MainGoesOn \/ MainShutsCollectorDown \/ MainExits
  \/ ProfilerListens
  \/ UsageRegisters \/ UsageStarts \/ ClockTicks \/ UsageTakesTick \/ UsageSamples
  \/ ProfilerServes
  \/ \E s \in Sessions :
       \/ SessionAccepted(s) \/ SessionBeginsOnce(s) \/ SessionEndsOnce(s)
       \/ SessionConnects(s) \/ SessionLeaves(s) \/ SessionDeregisters(s) \/ SessionCounts(s)
  \/ AcksCount
  \/ KafkaCounts

\* As in Lifecycle, and main also gets to the end of its deferred calls.
ProcessFairness ==
  /\ WF_allVars(ShutdownReturns /\ UNCHANGED <<metricsVars, monVars, procVars>>)
  /\ WF_allVars((\E d \in producers : CloseDispatcher(d)) /\ UNCHANGED <<metricsVars, monVars, procVars>>)
  /\ WF_allVars(MainShutsCollectorDown)
  /\ WF_allVars(MainExits)

ProcessSpec == ProcessInit /\ [][ProcessNext]_allVars /\ ProcessFairness
=============================================================================
