----------------------------- MODULE Monitoring -----------------------------
(***************************************************************************)
(* The monitoring of the server: the profiler that /live_profiler switches *)
(* beside the trace endpoint of net/http/pprof (metrics/monitoring.go,     *)
(* server/monitoring/), and the goroutine that samples the usage of the    *)
(* process once per interval (metrics/metrics.go, ReportServerUsage).      *)
(*                                                                         *)
(* Time passes in steps of one unit.  The ticker fires every Interval      *)
(* units into a channel of one place and drops a tick that finds it full.  *)
(* Nothing bounds how late the goroutine takes a tick, or reads the clock  *)
(* after it.  Times longer than an interval are not told apart.            *)
(***************************************************************************)
EXTENDS Naturals

CONSTANTS Interval,   \* the period of the ticker, one minute
          Second,     \* one second
          Modes       \* what /live_profiler may be asked for, beside on and off

ASSUME UsageAssumption ==
  /\ Interval \in Nat /\ Second \in Nat \ {0}
  /\ Second <= Interval

VARIABLES usage,        \* off, starting, on, woken by a tick, or crashed: ReportServerUsage
          phase,        \* time since the ticker last fired, or since it was made
          pending,      \* a tick is in the channel
          tickAge,      \* time since that tick fired
          takenAge,     \* time since the tick fired that the goroutine has taken
          sinceSample,  \* time since lastSampleTime
          gcSeen,       \* lastPauseNs > 0
          late,         \* history: how late lastSampleTime was for its tick
          profilerOn,   \* the variable of that name
          trace,        \* who started the trace that runs: none, live or pprof
          pprofTrace,   \* a request of /debug/pprof/trace waits to stop the trace
          foreign       \* history: pprof traced, or a mode other than on and off was asked for

clockVars    == <<phase, pending, tickAge, takenAge, sinceSample>>
usageVars    == <<usage, clockVars, gcSeen, late>>
profilerVars == <<profilerOn, trace, pprofTrace, foreign>>
monVars      == <<usageVars, profilerVars>>

MonTypeOK ==
  /\ usage \in {"off", "starting", "on", "woken", "crashed"}
  /\ phase \in 0..(Interval - 1)
  /\ pending \in BOOLEAN
  /\ tickAge \in 0..Interval /\ takenAge \in 0..Interval
  /\ sinceSample \in 0..Interval /\ late \in 0..Interval
  /\ gcSeen \in BOOLEAN
  /\ profilerOn \in BOOLEAN
  /\ trace \in {"none", "live", "pprof"}
  /\ pprofTrace \in BOOLEAN
  /\ foreign \in BOOLEAN

MonInit ==
  /\ usage = "off"
  /\ phase = 0
  /\ pending = FALSE
  /\ tickAge = 0 /\ takenAge = 0
  /\ sinceSample = 0 /\ late = 0
  /\ gcSeen = FALSE
  /\ profilerOn = FALSE
  /\ trace = "none"
  /\ pprofTrace = FALSE
  /\ foreign = FALSE

-----------------------------------------------------------------------------
\* ReportServerUsage: NewTicker starts the clock of the ticker.
NewTicker ==
  /\ usage = "off"
  /\ usage' = "starting"
  /\ UNCHANGED <<clockVars, gcSeen, late, profilerVars>>

\* lastSampleTime := time.Now().
StartSampling ==
  /\ usage = "starting"
  /\ usage' = "on"
  /\ sinceSample' = 0
  /\ UNCHANGED <<phase, pending, tickAge, takenAge, gcSeen, late, profilerVars>>

Later(time) == IF time < Interval THEN time + 1 ELSE time

\* A unit of time passes.
TimePasses ==
  /\ usage \in {"starting", "on", "woken"}
  /\ IF phase + 1 = Interval
     THEN phase' = 0 /\ pending' = TRUE
     ELSE phase' = phase + 1 /\ pending' = pending
  /\ tickAge' = IF pending THEN Later(tickAge) ELSE 0
  /\ takenAge' = IF usage = "woken" THEN Later(takenAge) ELSE 0
  /\ sinceSample' = IF usage \in {"on", "woken"} THEN Later(sinceSample) ELSE sinceSample
  /\ UNCHANGED <<usage, gcSeen, late, profilerVars>>

\* The loop receives a tick.
TakeTick ==
  /\ usage = "on" /\ pending
  /\ usage' = "woken"
  /\ pending' = FALSE
  /\ takenAge' = tickAge
  /\ tickAge' = 0
  /\ UNCHANGED <<phase, sinceSample, gcSeen, late, profilerVars>>

\* The whole units of time per sample, which a sample divides by once it has
\* seen a collection; the panic of a division by zero ends the process.
SampleEvery(unit) ==
  /\ usage = "woken"
  /\ gcSeen' \in {gcSeen, TRUE}
  /\ IF gcSeen /\ sinceSample \div unit = 0
     THEN usage' = "crashed" /\ UNCHANGED <<sinceSample, late, takenAge>>
     ELSE usage' = "on" /\ sinceSample' = 0 /\ late' = takenAge /\ takenAge' = 0
  /\ UNCHANGED <<phase, pending, tickAge, profilerVars>>

\* Sample that counts minutes where it should count seconds.
SampleCoarse == SampleEvery(Interval)

\* A turn of the loop: now is read, compared with lastSampleTime in seconds,
\* and becomes lastSampleTime.
Sample == SampleEvery(Second)

-----------------------------------------------------------------------------
\* EnableProfiler that does not stop the trace.
EnableProfilerNoStop(mode) ==
  LET on == mode = "on"
  IN  IF on = profilerOn
      THEN UNCHANGED <<profilerOn, trace>>
      ELSE /\ profilerOn' = on
           /\ trace' = IF on /\ trace = "none" THEN "live" ELSE trace

\* EnableProfiler, under its mutex.  The error of trace.Start, which refuses a
\* second trace, is dropped; trace.Stop stops whatever trace there is.
EnableProfiler(mode) ==
  LET on == mode = "on"
  IN  IF on = profilerOn
      THEN UNCHANGED <<profilerOn, trace>>
      ELSE /\ profilerOn' = on
           /\ trace' = IF mode = "off" THEN "none" ELSE IF trace = "none" THEN "live" ELSE trace

\* /live_profiler, with a profiling path and a mode; without them the request
\* is refused and nothing changes.
LiveProfiler(mode) ==
  /\ EnableProfiler(mode)
  /\ foreign' = (foreign \/ mode \notin {"on", "off"})
  /\ UNCHANGED <<pprofTrace, usageVars>>

\* /debug/pprof/trace starts a trace, unless there is one, and stops it later.
PprofTraceStart ==
  /\ trace = "none" /\ ~pprofTrace
  /\ trace' = "pprof"
  /\ pprofTrace' = TRUE
  /\ foreign' = TRUE
  /\ UNCHANGED <<profilerOn, usageVars>>

PprofTraceStop ==
  /\ pprofTrace
  /\ trace' = "none"
  /\ pprofTrace' = FALSE
  /\ UNCHANGED <<profilerOn, foreign, usageVars>>

ProfilerRequest ==
  (\E mode \in {"on", "off"} \cup Modes : LiveProfiler(mode)) \/ PprofTraceStart \/ PprofTraceStop

MonNext == NewTicker \/ StartSampling \/ TimePasses \/ TakeTick \/ Sample \/ ProfilerRequest

MonSpec == MonInit /\ [][MonNext]_monVars

-----------------------------------------------------------------------------
\* The division by the seconds since the last sample (metrics.go:122-127) has no
\* guard, and it can be a division by zero that ends the process; but only if
\* the sample before was almost a whole interval late for its tick.
CrashNeedsLateSample == usage = "crashed" => late > Interval - Second

\* A process in which only /live_profiler traces, asked for on and off in any
\* order, traces exactly when it says so (monitoring.go:18-35).
ProfilerTellsTrace == ~foreign => (profilerOn <=> trace # "none")
=============================================================================
