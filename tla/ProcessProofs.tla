---------------------------- MODULE ProcessProofs ----------------------------
(***************************************************************************)
(* Proofs about the process, for every configuration, environment and set  *)
(* of sessions, every period of the ticker and every set of modes: its     *)
(* monitoring, which is also treated by itself (MonSpec), its life from    *)
(* the start to the exit of main, for which the invariant of Startup is    *)
(* carried over, and its metrics.                                          *)
(***************************************************************************)
EXTENDS Process, StartupProofs, TLAPS

\* How the clocks relate.  A tick that waits or was taken fired at the last tick
\* of the clock or before it, and before it if another waits behind it.  From
\* the first collection on, the tick that ends a sample comes an interval after
\* the one the sample before it belonged to.
ClocksAgree ==
  /\ gcSeen => usage \in {"on", "woken", "crashed"}
  /\ pending => phase <= tickAge
  /\ usage = "woken" => phase <= takenAge
  /\ usage = "woken" /\ pending => takenAge = Interval
  /\ gcSeen /\ usage = "on" /\ ~pending => phase <= sinceSample + late
  /\ gcSeen /\ usage = "on" /\ pending => Interval <= sinceSample + late
  /\ gcSeen /\ usage = "woken" => Interval <= sinceSample + late

\* Without a foreign request no trace but the live one runs, and profilerOn
\* tells whether it does.
LiveOnly ==
  ~foreign => /\ ~pprofTrace
              /\ trace # "pprof"
              /\ profilerOn <=> trace = "live"

MonInv == MonTypeOK /\ ClocksAgree /\ CrashNeedsLateSample /\ LiveOnly

-----------------------------------------------------------------------------
\* A quotient is zero only if the divisor exceeds the dividend.
LEMMA QuotientNotZero ==
  ASSUME NEW a \in Nat, NEW b \in Nat \ {0}, b <= a
  PROVE  a \div b # 0
  <1>1. a = b * (a \div b) + (a % b) /\ a % b < b /\ a \div b \in Nat
    BY SMT
  <1>2. b * 0 = 0
    BY SMT
  <1> QED
    BY <1>1, <1>2, SMT

\* Time that is not told apart beyond an interval.
LEMMA LaterIs ==
  ASSUME NEW t \in 0..Interval
  PROVE  /\ Later(t) \in 0..Interval
         /\ t <= Later(t)
         /\ Later(t) = t + 1 \/ Later(t) = Interval
  BY UsageAssumption DEF Later

\* The sum of the time since a sample, from t to u, and of its lateness d.
LEMMA SumGrows ==
  ASSUME NEW t \in Nat, NEW u \in Nat, NEW d \in Nat, NEW n \in Nat, NEW p \in Nat,
         t <= u, u = t + 1 \/ u = n
  PROVE  /\ n <= t + d => n <= u + d
         /\ p <= t + d /\ p + 1 <= n => p + 1 <= u + d
  BY SMT

\* The invariant holds when the process starts.
LEMMA MonInitHolds == MonInit => MonInv
  <1> SUFFICES ASSUME MonInit PROVE MonInv
    OBVIOUS
  <1>1. 0 \in 0..(Interval - 1) /\ 0 \in 0..Interval
    BY UsageAssumption, SMT
  <1>2. MonTypeOK
    BY <1>1, Zenon DEF MonInit, MonTypeOK
  <1>3. ClocksAgree /\ CrashNeedsLateSample /\ LiveOnly
    BY Zenon DEF MonInit, ClocksAgree, CrashNeedsLateSample, LiveOnly
  <1> QED
    BY <1>2, <1>3 DEF MonInv

\* The steps of the goroutine of ReportServerUsage and of time keep it.
LEMMA UsageSteps ==
  ASSUME MonInv, NewTicker \/ StartSampling \/ TimePasses \/ TakeTick \/ Sample
  PROVE  MonInv'
  <1> USE UsageAssumption
  <1>1. profilerVars' = profilerVars
    BY DEF NewTicker, StartSampling, TimePasses, TakeTick, Sample, SampleEvery, profilerVars
  <1>2. LiveOnly' /\ profilerOn' \in BOOLEAN /\ trace' \in {"none", "live", "pprof"}
          /\ pprofTrace' \in BOOLEAN /\ foreign' \in BOOLEAN
    BY <1>1 DEF profilerVars, LiveOnly, MonInv, MonTypeOK
  <1>3. /\ phase \in 0..(Interval - 1) /\ pending \in BOOLEAN /\ gcSeen \in BOOLEAN
        /\ tickAge \in 0..Interval /\ takenAge \in 0..Interval
        /\ sinceSample \in 0..Interval /\ late \in 0..Interval
    BY DEF MonInv, MonTypeOK
  <1>4. ClocksAgree /\ CrashNeedsLateSample
    BY DEF MonInv
  <1>5. SUFFICES /\ usage' \in {"off", "starting", "on", "woken", "crashed"}
                 /\ phase' \in 0..(Interval - 1) /\ pending' \in BOOLEAN /\ gcSeen' \in BOOLEAN
                 /\ tickAge' \in 0..Interval /\ takenAge' \in 0..Interval
                 /\ sinceSample' \in 0..Interval /\ late' \in 0..Interval
                 /\ ClocksAgree' /\ CrashNeedsLateSample'
    BY <1>2 DEF MonInv, MonTypeOK
  <1>6. CASE NewTicker
    BY <1>3, <1>4, <1>6 DEF NewTicker, clockVars, ClocksAgree, CrashNeedsLateSample
  <1>7. CASE StartSampling
    BY <1>3, <1>4, <1>7 DEF StartSampling, ClocksAgree, CrashNeedsLateSample
  <1>8. CASE TimePasses
    <2>1. usage' = usage /\ gcSeen' = gcSeen /\ late' = late /\ usage \in {"starting", "on", "woken"}
      BY <1>8 DEF TimePasses
    <2>2. /\ tickAge' \in 0..Interval
          /\ pending => tickAge' = tickAge + 1 \/ tickAge' = Interval
      BY <1>3, <1>8, LaterIs DEF TimePasses
    <2>3. /\ takenAge' \in 0..Interval
          /\ usage = "woken" => takenAge <= takenAge' /\ (takenAge' = takenAge + 1 \/ takenAge' = Interval)
      BY <1>3, <1>8, LaterIs DEF TimePasses
    <2>4. /\ sinceSample' \in 0..Interval
          /\ usage \in {"on", "woken"} =>
               sinceSample <= sinceSample' /\ (sinceSample' = sinceSample + 1 \/ sinceSample' = Interval)
      BY <1>3, <1>8, LaterIs DEF TimePasses
    <2>5. usage \in {"on", "woken"} =>
            /\ Interval <= sinceSample + late => Interval <= sinceSample' + late
            /\ phase <= sinceSample + late => phase + 1 <= sinceSample' + late
      <3>1. /\ sinceSample \in Nat /\ sinceSample' \in Nat /\ late \in Nat /\ phase \in Nat
            /\ Interval \in Nat /\ phase + 1 <= Interval
        BY <1>3, <2>4
      <3> QED
        BY <2>4, <3>1, SumGrows
    <2>6. CASE phase + 1 = Interval
      <3>1. phase' = 0 /\ pending' = TRUE
        BY <1>8, <2>6 DEF TimePasses
      <3>2. usage = "woken" => takenAge' = Interval
        BY <1>3, <1>4, <2>3, <2>6 DEF ClocksAgree
      <3>3. gcSeen /\ usage \in {"on", "woken"} => Interval <= sinceSample' + late
        BY <1>4, <2>6, <2>5, Zenon DEF ClocksAgree
      <3>4. gcSeen => usage \in {"on", "woken"}
        BY <1>4, <2>1 DEF ClocksAgree
      <3>5. ClocksAgree'
        BY <2>1, <2>2, <3>1, <3>2, <3>3, <3>4 DEF ClocksAgree
      <3> QED
        BY <1>3, <2>1, <2>2, <2>3, <2>4, <2>6, <3>1, <3>5 DEF CrashNeedsLateSample
    <2>7. CASE phase + 1 # Interval
      <3>1. phase' = phase + 1 /\ pending' = pending
        BY <1>8, <2>7 DEF TimePasses
      <3>2. phase + 1 \in 0..(Interval - 1)
        BY <1>3, <2>7
      <3>3. gcSeen /\ usage = "on" /\ ~pending => phase + 1 <= sinceSample' + late
        BY <1>4, <2>5, Zenon DEF ClocksAgree
      <3>4. gcSeen /\ ((usage = "on" /\ pending) \/ usage = "woken") => Interval <= sinceSample' + late
        BY <1>4, <2>5, Zenon DEF ClocksAgree
      <3>5. (pending => phase + 1 <= tickAge') /\ (usage = "woken" => phase + 1 <= takenAge')
        BY <1>3, <1>4, <2>2, <2>3, <3>2 DEF ClocksAgree
      <3>6. usage = "woken" /\ pending => takenAge' = Interval
        BY <1>3, <1>4, <2>3 DEF ClocksAgree
      <3>7. gcSeen => usage \in {"on", "woken"}
        BY <1>4, <2>1 DEF ClocksAgree
      <3>8. ClocksAgree'
        BY <2>1, <3>1, <3>3, <3>4, <3>5, <3>6, <3>7 DEF ClocksAgree
      <3> QED
        BY <1>3, <2>1, <2>2, <2>3, <2>4, <3>1, <3>2, <3>8 DEF CrashNeedsLateSample
    <2> QED
      BY <2>6, <2>7
  <1>9. CASE TakeTick
    <2>1. /\ usage = "on" /\ pending /\ usage' = "woken" /\ pending' = FALSE /\ takenAge' = tickAge
          /\ tickAge' = 0 /\ UNCHANGED <<phase, sinceSample, gcSeen, late>>
      BY <1>9 DEF TakeTick
    <2>2. phase <= tickAge /\ (gcSeen => Interval <= sinceSample + late)
      BY <1>4, <2>1 DEF ClocksAgree
    <2>3. ClocksAgree'
      BY <2>1, <2>2 DEF ClocksAgree
    <2>4. gcSeen' \in BOOLEAN /\ CrashNeedsLateSample'
      BY <1>3, <2>1, Zenon DEF CrashNeedsLateSample
    <2>5. tickAge' \in 0..Interval
      BY <2>1
    <2> QED
      BY <1>3, <2>1, <2>3, <2>4, <2>5, Zenon
  <1>10. CASE Sample
    <2>1. usage = "woken" /\ gcSeen' \in BOOLEAN /\ UNCHANGED <<phase, pending, tickAge>>
      BY <1>3, <1>10 DEF Sample, SampleEvery
    <2>2. CASE gcSeen /\ sinceSample \div Second = 0
      <3>1. usage' = "crashed" /\ UNCHANGED <<sinceSample, late, takenAge>>
        BY <1>10, <2>2 DEF Sample, SampleEvery
      <3>2. sinceSample < Second
        BY <1>3, <2>2, QuotientNotZero
      <3>3. late > Interval - Second
        BY <1>3, <1>4, <2>1, <2>2, <3>2 DEF ClocksAgree
      <3>4. ClocksAgree'
        BY <1>4, <2>1, <3>1 DEF ClocksAgree
      <3> QED
        BY <1>3, <2>1, <3>1, <3>3, <3>4 DEF CrashNeedsLateSample
    <2>3. CASE ~(gcSeen /\ sinceSample \div Second = 0)
      <3>1. usage' = "on" /\ sinceSample' = 0 /\ late' = takenAge /\ takenAge' = 0
        BY <1>10, <2>3 DEF Sample, SampleEvery
      <3>2. phase <= takenAge /\ (pending => takenAge = Interval) /\ (pending => phase <= tickAge)
        BY <1>4, <2>1 DEF ClocksAgree
      <3>3. ClocksAgree'
        BY <1>3, <2>1, <3>1, <3>2 DEF ClocksAgree
      <3> QED
        BY <1>3, <2>1, <3>1, <3>3 DEF CrashNeedsLateSample
    <2> QED
      BY <2>2, <2>3
  <1> QED
    BY <1>6, <1>7, <1>8, <1>9, <1>10

\* So do the requests of the profiler.
LEMMA ProfilerSteps ==
  ASSUME MonInv, ProfilerRequest
  PROVE  MonInv'
  <1> USE DEF MonInv, MonTypeOK, CrashNeedsLateSample
  <1>1. usageVars' = usageVars
    BY DEF ProfilerRequest, LiveProfiler, PprofTraceStart, PprofTraceStop, usageVars
  <1>2. ClocksAgree' /\ CrashNeedsLateSample'
          /\ usage' \in {"off", "starting", "on", "woken", "crashed"} /\ phase' \in 0..(Interval - 1)
          /\ pending' \in BOOLEAN /\ gcSeen' \in BOOLEAN
          /\ tickAge' \in 0..Interval /\ takenAge' \in 0..Interval
          /\ sinceSample' \in 0..Interval /\ late' \in 0..Interval
    BY <1>1 DEF usageVars, clockVars, ClocksAgree
  <1>3. ASSUME NEW mode \in {"on", "off"} \cup Modes, LiveProfiler(mode)
        PROVE  MonInv'
    <2>1. CASE (mode = "on") = profilerOn
      BY <1>2, <1>3, <2>1 DEF LiveProfiler, EnableProfiler, LiveOnly
    <2>2. CASE (mode = "on") # profilerOn
      <3>1. profilerOn' = (mode = "on")
        BY <1>3, <2>2 DEF LiveProfiler, EnableProfiler
      <3>2. trace' = IF mode = "off" THEN "none" ELSE IF trace = "none" THEN "live" ELSE trace
        BY <1>3, <2>2 DEF LiveProfiler, EnableProfiler
      <3>3. foreign' = (foreign \/ mode \notin {"on", "off"}) /\ pprofTrace' = pprofTrace
        BY <1>3 DEF LiveProfiler
      <3>4. LiveOnly'
        BY <2>2, <3>1, <3>2, <3>3 DEF LiveOnly
      <3> QED
        BY <1>2, <3>1, <3>2, <3>3, <3>4
    <2> QED
      BY <2>1, <2>2
  <1>4. CASE PprofTraceStart
    BY <1>2, <1>4 DEF PprofTraceStart, LiveOnly
  <1>5. CASE PprofTraceStop
    BY <1>2, <1>5 DEF PprofTraceStop, LiveOnly
  <1> QED
    BY <1>3, <1>4, <1>5 DEF ProfilerRequest

-----------------------------------------------------------------------------
\* The invariant is kept by every step of the monitoring.
THEOREM MonInvariance == MonSpec => []MonInv
  <1>1. MonInit => MonInv
    BY MonInitHolds
  <1>2. MonInv /\ [MonNext]_monVars => MonInv'
    <2> SUFFICES ASSUME MonInv, [MonNext]_monVars PROVE MonInv'
      OBVIOUS
    <2>1. CASE MonNext
      BY <2>1, UsageSteps, ProfilerSteps DEF MonNext
    <2>2. CASE UNCHANGED monVars
      BY <2>2 DEF monVars, usageVars, clockVars, profilerVars, MonInv, MonTypeOK, ClocksAgree,
                  CrashNeedsLateSample, LiveOnly
    <2> QED
      BY <2>1, <2>2
  <1> QED
    BY <1>1, <1>2, PTL DEF MonSpec

\* A step of the process is a step of its monitoring or leaves it alone.
LEMMA ProcessStepIsMonStep == [ProcessNext]_allVars => [MonNext]_monVars
  <1> SUFFICES ASSUME [ProcessNext]_allVars PROVE [MonNext]_monVars
    OBVIOUS
  <1>1. CASE MainStarts \/ MainGoesOn \/ MainShutsCollectorDown \/ MainExits
    BY <1>1, Zenon DEF MainStarts, MainGoesOn, MainShutsCollectorDown, MainExits
  <1>2. CASE ProfilerListens \/ UsageRegisters \/ AcksCount \/ KafkaCounts
    BY <1>2, Zenon DEF ProfilerListens, UsageRegisters, AcksCount, KafkaCounts
  <1>3. CASE UsageStarts \/ ClockTicks \/ UsageTakesTick \/ UsageSamples
    BY <1>3, Zenon DEF UsageStarts, ClockTicks, UsageTakesTick, UsageSamples, MonNext
  <1>4. CASE ProfilerServes
    BY <1>4, Zenon DEF ProfilerServes, ProfilerRequest, MonNext
  <1>5. ASSUME NEW s \in Sessions,
               \/ SessionAccepted(s) \/ SessionBeginsOnce(s) \/ SessionEndsOnce(s)
               \/ SessionConnects(s) \/ SessionLeaves(s) \/ SessionDeregisters(s) \/ SessionCounts(s)
        PROVE  UNCHANGED monVars
    BY <1>5, Zenon DEF SessionAccepted, SessionBeginsOnce, SessionEndsOnce, SessionConnects,
                       SessionLeaves, SessionDeregisters, SessionCounts
  <1>6. CASE UNCHANGED allVars
    BY <1>6 DEF allVars
  <1> QED
    BY <1>1, <1>2, <1>3, <1>4, <1>5, <1>6, Zenon DEF ProcessNext

\* The whole process does to its monitoring only what Monitoring allows.
THEOREM ProcessImplementsMonitoring == ProcessSpec => MonSpec
  <1>1. ProcessInit => MonInit
    BY DEF ProcessInit
  <1> QED
    BY <1>1, ProcessStepIsMonStep, PTL DEF ProcessSpec, MonSpec

\* Whatever the period of the ticker and however late the goroutine is for its
\* ticks, the unguarded division by the seconds since the last sample
\* (metrics.go:122-127) is a division by zero only after a sample that was more
\* than an interval less a second late.
THEOREM CrashOnlyWhenLate == ProcessSpec => []CrashNeedsLateSample
  <1>1. MonInv => CrashNeedsLateSample
    BY DEF MonInv
  <1> QED
    BY <1>1, MonInvariance, ProcessImplementsMonitoring, PTL

\* While only /live_profiler traces, with on and off, profilerOn tells whether
\* a trace runs (monitoring.go:18-35).
THEOREM ProfilerIsTruthful == ProcessSpec => []ProfilerTellsTrace
  <1>1. MonInv => ProfilerTellsTrace
    BY DEF MonInv, MonTypeOK, LiveOnly, ProfilerTellsTrace
  <1> QED
    BY <1>1, MonInvariance, ProcessImplementsMonitoring, PTL

-----------------------------------------------------------------------------
\* The life of the process.  What Startup guarantees holds until the server
\* stops to serve; from then on the stages are those of the shutdown.
Ending == {"shutdown", "closing", "stopped"}

\* The dispatchers that were built stay open until they are being closed, and
\* connections are accepted only while the server is about to serve or serves.
OpenInv ==
  /\ stage \notin Ending => IInv /\ open = producers
  /\ listening => stage \in {"status", "serving"}

\* A session that was reported CONNECTED is reported when its handler returns,
\* because what took the first event still takes the second, until it is closed.
ReportInv ==
  /\ DOMAIN session = Sessions /\ DOMAIN reported = Sessions
  /\ \A s \in Sessions :
       /\ reported[s] = "CONNECTED" => stage \in {"serving"} \cup Ending
       /\ reported[s] = "CONNECTED" /\ stage \in {"serving", "shutdown"} => Reachable
       /\ reported[s] = "CONNECTED" /\ session[s] = "gone" => stage \in {"closing", "stopped"} /\ ~Reachable

LifeInv == OpenInv /\ ReportInv

LEMMA InitLife == Init => LifeInv
<1> SUFFICES ASSUME Init PROVE LifeInv
  OBVIOUS
<1>1. IInv
  BY StartInitIInv DEF Init
<1>2. stage = "load" /\ listening = FALSE /\ open = producers
  BY DEF Init, StartInit
<1>3. OpenInv
  BY <1>1, <1>2 DEF OpenInv
<1>4. ReportInv
  BY DEF Init, ReportInv
<1> QED
  BY <1>3, <1>4 DEF LifeInv

\* A stage of the start comes before the server serves.
LEMMA StartsBefore ==
  ASSUME StartNext
  PROVE  /\ stage \notin {"serving"} \cup Ending
         /\ stage' \notin Ending
         /\ \/ ~listening'
            \/ stage' = "status"
            \/ stage = "status" /\ stage' = "serving"
            \/ stage # "status" /\ listening' = listening
<1> USE DEF Ending
<1>1. stage \notin {"serving"} \cup Ending
  BY DEF StartNext, LoadFile, ApplyEnvironmentOverrides, MaterializeInlineTLSSecrets, ValidateConfig,
     ValidateRuntime, CreateAirbrakeNotifier, ExtractServiceTLSConfig, ConfigureServerCertificate,
     ConfigureReliableAckSources, BuildProducers, DispatchProducerRules, Listen, StartStatusServer
<1>2. CASE Fail
  BY <1>1, <1>2 DEF Fail
<1>3. CASE ~Fail /\ stage \notin {"listen", "status"}
  <2>1. stage' \notin Ending /\ listening' = listening
    BY <1>3 DEF StartNext, LoadFile, ApplyEnvironmentOverrides, MaterializeInlineTLSSecrets, ValidateConfig,
       ValidateRuntime, CreateAirbrakeNotifier, ExtractServiceTLSConfig, ConfigureServerCertificate,
       ConfigureReliableAckSources, BuildProducers, DispatchProducerRules, Listen, StartStatusServer,
       Configured, Certified
  <2> QED
    BY <1>1, <1>3, <2>1
<1>4. CASE ~Fail /\ stage \in {"listen", "status"}
  <2>1. \/ stage = "listen" /\ stage' = "status"
        \/ stage = "status" /\ stage' = "serving"
    BY <1>4 DEF StartNext, LoadFile, ApplyEnvironmentOverrides, MaterializeInlineTLSSecrets, ValidateConfig,
       ValidateRuntime, CreateAirbrakeNotifier, ExtractServiceTLSConfig, ConfigureServerCertificate,
       ConfigureReliableAckSources, BuildProducers, DispatchProducerRules, Listen, StartStatusServer
  <2> QED
    BY <1>1, <2>1
<1> QED
  BY <1>2, <1>3, <1>4

\* A step that leaves the server where it is leaves what is open as well.
LEMMA StillOpen == ASSUME OpenInv, UNCHANGED <<startVars, open>> PROVE OpenInv'
<1>1. stage \notin Ending => IInv'
  BY StartNextIInv DEF OpenInv
<1> QED
  BY <1>1 DEF OpenInv, startVars

LEMMA StartLife == ASSUME LifeInv, Start PROVE LifeInv'
<1>1. StartNext /\ open' = producers' /\ UNCHANGED <<session, reported>>
  BY DEF Start
<1>2. stage \notin {"serving"} \cup Ending /\ stage' \notin Ending
  BY <1>1, StartsBefore
<1>3. IInv'
  BY <1>1, <1>2, StartNextIInv DEF LifeInv, OpenInv
<1>4. listening' => stage' \in {"status", "serving"}
  BY <1>1, <1>2, StartsBefore DEF LifeInv, OpenInv
<1>5. \A s \in Sessions : reported[s] # "CONNECTED"
  BY <1>2 DEF LifeInv, ReportInv
<1>6. OpenInv'
  BY <1>1, <1>3, <1>4 DEF OpenInv
<1>7. ReportInv'
  BY <1>1, <1>5 DEF LifeInv, ReportInv
<1> QED
  BY <1>6, <1>7 DEF LifeInv

\* The steps of main once the server serves, and the end of the process.
LEMMA MainLife ==
  ASSUME LifeInv, ServeFails \/ ReceiveSignal \/ ShutdownReturns
                  \/ (\E d \in producers : CloseDispatcher(d)) \/ Exit \/ Crash
  PROVE  LifeInv'
<1>1. /\ stage' \in Ending /\ config' = config /\ UNCHANGED reported
      /\ stage' = "shutdown" => stage = "serving" /\ open' = open
      /\ stage \in {"closing", "stopped"} => stage' \in {"closing", "stopped"}
      /\ open' \subseteq open
  BY DEF ServeFails, ReceiveSignal, ShutdownReturns, CloseDispatcher, Exit, Crash, Goto, lifeVars, startVars, Ending
<1>2. ~listening'
  BY DEF LifeInv, OpenInv, ServeFails, ReceiveSignal, ShutdownReturns, CloseDispatcher, Exit, Crash, Goto, startVars
<1>3. session' = session \/ session' = Killed
  BY DEF Exit, Crash, ServeFails, ReceiveSignal, ShutdownReturns, CloseDispatcher, lifeVars
<1>4. DOMAIN session' = Sessions /\ \A s \in Sessions : session'[s] = "gone" => session[s] = "gone"
  BY <1>3 DEF LifeInv, ReportInv, Killed
<1>5. OpenInv'
  BY <1>1, <1>2 DEF OpenInv
<1>6. /\ stage' = "shutdown" => Reachable' = Reachable
      /\ ~Reachable => ~Reachable'
  BY <1>1 DEF Reachable
<1>7. ReportInv'
  BY <1>1, <1>4, <1>6 DEF LifeInv, ReportInv, Ending
<1> QED
  BY <1>5, <1>7 DEF LifeInv

\* The steps of a session, which run beside the shutdown too.
LEMMA SessionLife ==
  ASSUME LifeInv, NEW s \in Sessions,
         AcceptConnection(s) \/ Connect(s) \/ VehicleLeaves(s) \/ DeregisterSocket(s)
  PROVE  LifeInv'
<1>1. /\ UNCHANGED <<startVars, open>> /\ stage \in {"serving", "shutdown", "closing"}
  BY DEF AcceptConnection, Connect, VehicleLeaves, DeregisterSocket, Running
<1>2. OpenInv'
  BY <1>1, StillOpen DEF LifeInv
<1>3. Reachable' = Reachable /\ stage' = stage
  BY <1>1 DEF Reachable, startVars
<1>4. CASE AcceptConnection(s) \/ VehicleLeaves(s)
  <2>1. /\ reported' = reported
        /\ session' = [session EXCEPT ![s] = "upgrading"] \/ session' = [session EXCEPT ![s] = "leaving"]
    BY <1>4 DEF AcceptConnection, VehicleLeaves
  <2> QED
    BY <1>2, <1>3, <2>1 DEF LifeInv, ReportInv
<1>5. CASE Connect(s)
  <2>1. /\ session' = [session EXCEPT ![s] = "connected"]
        /\ reported' = IF Reachable THEN [reported EXCEPT ![s] = "CONNECTED"] ELSE reported
    BY <1>5 DEF Connect, Report
  <2> QED
    BY <1>1, <1>2, <1>3, <2>1 DEF LifeInv, ReportInv, Ending
<1>6. CASE DeregisterSocket(s)
  <2>1. /\ session' = [session EXCEPT ![s] = "gone"]
        /\ reported' = IF Reachable THEN [reported EXCEPT ![s] = "DISCONNECTED"] ELSE reported
    BY <1>6 DEF DeregisterSocket, Report
  <2> QED
    BY <1>1, <1>2, <1>3, <2>1 DEF LifeInv, ReportInv
<1> QED
  BY <1>4, <1>5, <1>6

LEMMA NextLife == LifeInv /\ [ProcessNext]_allVars => LifeInv'
<1> SUFFICES ASSUME LifeInv, [ProcessNext]_allVars PROVE LifeInv'
  OBVIOUS
<1>0. CASE UNCHANGED vars
  <2>1. OpenInv'
    BY <1>0, StillOpen DEF vars, LifeInv
  <2>2. Reachable' = Reachable
    BY <1>0 DEF vars, startVars, Reachable
  <2>3. ReportInv'
    BY <1>0, <2>2 DEF vars, startVars, LifeInv, ReportInv
  <2> QED
    BY <2>1, <2>3 DEF LifeInv
<1>1. CASE MainStarts
  BY <1>1, StartLife DEF MainStarts
<1>2. CASE MainGoesOn \/ MainExits
  BY <1>2, MainLife DEF MainGoesOn, MainExits
<1>3. CASE \/ MainShutsCollectorDown \/ ProfilerListens \/ UsageRegisters \/ UsageStarts \/ ClockTicks
           \/ UsageTakesTick \/ ProfilerServes \/ AcksCount \/ KafkaCounts \/ UNCHANGED allVars
  BY <1>0, <1>3, Zenon DEF MainShutsCollectorDown, ProfilerListens, UsageRegisters, UsageStarts, ClockTicks,
     UsageTakesTick, ProfilerServes, AcksCount, KafkaCounts, allVars
<1>4. CASE UsageSamples
  <2>1. Crash \/ UNCHANGED vars
    BY <1>4, Zenon DEF UsageSamples
  <2> QED
    BY <1>0, <2>1, MainLife
<1>5. ASSUME NEW s \in Sessions,
             SessionAccepted(s) \/ SessionConnects(s) \/ SessionLeaves(s) \/ SessionDeregisters(s)
      PROVE  LifeInv'
  BY <1>5, SessionLife DEF SessionAccepted, SessionConnects, SessionLeaves, SessionDeregisters
<1>6. ASSUME NEW s \in Sessions, SessionBeginsOnce(s) \/ SessionEndsOnce(s) \/ SessionCounts(s)
      PROVE  LifeInv'
  BY <1>0, <1>6 DEF SessionBeginsOnce, SessionEndsOnce, SessionCounts
<1> QED
  BY <1>1, <1>2, <1>3, <1>4, <1>5, <1>6, Zenon DEF ProcessNext

\* The invariant of the life of the process.
THEOREM LifeInvariance == ProcessSpec => []LifeInv
<1>1. ProcessInit => LifeInv
  BY InitLife DEF ProcessInit
<1>2. LifeInv /\ [ProcessNext]_allVars => LifeInv'
  BY NextLife
<1> QED
  BY <1>1, <1>2, PTL DEF ProcessSpec

\* No connection is accepted while a dispatcher that the records name has been
\* closed or was never built (main.go, startServer).
THEOREM ListensOnlyWhileOpen == ProcessSpec => []OpenWhileListening
<1>1. LifeInv => OpenWhileListening
  BY DEF LifeInv, OpenInv, OpenWhileListening, IInv, AfterProducers, BuiltAll, Ending
<1> QED
  BY <1>1, LifeInvariance, PTL

\* A handler whose vehicle was reported CONNECTED returns without reporting its
\* departure only once all dispatchers of connectivity events are closed.
THEOREM DeparturesReported == ProcessSpec => []DepartureReported
<1>1. LifeInv => DepartureReported
  BY DEF LifeInv, ReportInv, DepartureReported
<1> QED
  BY <1>1, LifeInvariance, PTL

-----------------------------------------------------------------------------
\* The metrics.  First what the declarations are: no two packages declare the
\* same name, and every use is as declared.
LEMMA NamesOfAll == ASSUME NEW S, NEW l PROVE NamesOf(All(S, l)) = S
<1>1. \A m \in All(S, l) : m.name \in S
  BY DEF All
<1>2. \A n \in S : \E m \in All(S, l) : m.name = n
  <2> TAKE n \in S
  <2>1. [name |-> n, labels |-> l] \in All(S, l)
    BY DEF All
  <2> QED
    BY <2>1
<1> QED
  BY <1>1, <1>2 DEF NamesOf

LEMMA PackageNames ==
  Packages = {"kafka", "kinesis", "pubsub", "zmq", "mqtt", "redis", "socket", "server", "monitoring", "usage"}
BY DEF Packages, Declared

LEMMA DeclaredNames ==
  /\ NamesOf(Declared["kafka"]) \subseteq
       {"kafka_produce_total", "kafka_produce_total_bytes", "kafka_produce_ack_total",
        "kafka_produce_ack_total_bytes", "kafka_reliable_ack_total", "kafka_err", "kafka_produce_queue_size"}
  /\ NamesOf(Declared["kinesis"]) \subseteq
       {"kinesis_err", "kinesis_publish_total", "kinesis_publish_total_bytes", "kinesis_reliable_ack_total"}
  /\ NamesOf(Declared["pubsub"]) \subseteq
       {"pubsub_not_connected_total", "pubsub_publish_total", "pubsub_publish_total_bytes",
        "pubsub_err", "pubsub_reliable_ack_total"}
  /\ NamesOf(Declared["zmq"]) \subseteq
       {"zmq_err", "zmq_publish_total", "zmq_publish_total_bytes", "zmq_reliable_ack_total"}
  /\ NamesOf(Declared["mqtt"]) \subseteq
       {"mqtt_err", "mqtt_publish_total", "mqtt_publish_total_bytes", "mqtt_reliable_ack_total"}
  /\ NamesOf(Declared["redis"]) \subseteq
       {"redis_publish_total", "redis_publish_total_bytes", "redis_err", "redis_reliable_ack_total"}
  /\ NamesOf(Declared["socket"]) \subseteq
       {"record_too_big_total", "unauthorized_sender_id_total", "unexpected_record_err_total", "socket_err_total",
        "dispatch_total", "record_size_bytes_total", "record_total", "signal_count",
        "rate_limit_exceeded_total", "unknown_message_type_error_total", "vin_signal_count"}
  /\ NamesOf(Declared["server"]) \subseteq {"reliable_ack", "reliable_ack_miss"}
  /\ NamesOf(Declared["monitoring"]) \subseteq {"uptime_sec", "num_connections"}
  /\ NamesOf(Declared["usage"]) \subseteq
       {"num_goroutine", "memory_allocated_bytes", "memory_heap", "memory_stack",
        "gc_total_pause", "gc_pause_per_second", "gc_per_second"}
<1> USE DEF NamesOf
<1>1. /\ Declared["kafka"] = KafkaMetrics /\ Declared["kinesis"] = KinesisMetrics
      /\ Declared["pubsub"] = PubsubMetrics /\ Declared["zmq"] = ZmqMetrics
      /\ Declared["mqtt"] = MqttMetrics /\ Declared["redis"] = RedisMetrics
      /\ Declared["socket"] = SocketMetrics /\ Declared["server"] = ServerMetrics
      /\ Declared["monitoring"] = MonitoringMetrics /\ Declared["usage"] = UsageMetrics
  BY DEF Declared
<1>2. \A m \in KafkaMetrics :
        m.name \in {"kafka_produce_total", "kafka_produce_total_bytes", "kafka_produce_ack_total",
          "kafka_produce_ack_total_bytes", "kafka_reliable_ack_total", "kafka_err", "kafka_produce_queue_size"}
  BY DEF KafkaMetrics, All
<1>3. \A m \in SocketMetrics :
        m.name \in {"record_too_big_total", "unauthorized_sender_id_total", "unexpected_record_err_total",
          "socket_err_total", "dispatch_total", "record_size_bytes_total", "record_total", "signal_count",
          "rate_limit_exceeded_total", "unknown_message_type_error_total", "vin_signal_count"}
  BY DEF SocketMetrics, All
<1> QED
  BY <1>1, <1>2, <1>3 DEF KinesisMetrics, PubsubMetrics, ZmqMetrics, MqttMetrics,
     RedisMetrics, ServerMetrics, MonitoringMetrics, UsageMetrics, All

LEMMA NamesDisjoint ==
  \A p, q \in Packages : p # q => NamesOf(Declared[p]) \cap NamesOf(Declared[q]) = {}
BY PackageNames, DeclaredNames

LEMMA DatastoresUseAsDeclared ==
  ASSUME NEW p \in {"kafka", "kinesis", "pubsub", "zmq", "mqtt", "redis"}
  PROVE  Uses(p) = Declared[p]
<1>1. CASE p = "kafka"
  <2>1. Uses(p) = KafkaUses /\ Declared[p] = KafkaMetrics
    BY <1>1, Zenon DEF Uses, Declared
  <2> QED
    BY <2>1 DEF KafkaUses, KafkaMetrics
<1>2. CASE p # "kafka"
  <2>1. Uses(p) = All(NamesOf(Declared[p]), RecordType)
    BY <1>2, Zenon DEF Uses, DatastoreUses
  <2>2. PICK S : Declared[p] = All(S, RecordType)
    BY <1>2 DEF Declared, KinesisMetrics, PubsubMetrics, ZmqMetrics, MqttMetrics, RedisMetrics
  <2> QED
    BY <2>1, <2>2, NamesOfAll
<1> QED
  BY <1>1, <1>2

LEMMA ServerUsesAsDeclared == Uses("socket") = Declared["socket"] /\ Uses("server") = Declared["server"]
BY Zenon DEF Uses, SocketUses, Declared, SocketMetrics, ServerUses, ServerMetrics

LEMMA UsageUsesAsDeclared == Uses("usage") = Declared["usage"] \cup Declared["monitoring"]
<1>1. Uses("usage") = UsageUses
  BY Zenon DEF Uses
<1>2. Declared["usage"] = UsageMetrics /\ Declared["monitoring"] = MonitoringMetrics
  BY DEF Declared
<1>3. ASSUME NEW A, NEW B, NEW l PROVE All(A \cup B, l) = All(A, l) \cup All(B, l)
  BY DEF All
<1> QED
  BY <1>1, <1>2, <1>3, NamesOfAll DEF UsageUses, UsageMetrics, MonitoringMetrics

-----------------------------------------------------------------------------
\* A package that is done has set its handles, and one that is not has no name
\* in the registry.
RegisteredInv ==
  /\ once \in [Packages -> {"new", "running", "done"}]
  /\ \A p \in Packages : once[p] = "running" => p = "socket"
  /\ \A p \in Packages : once[p] = "done" => Declared[p] \subseteq handles
  /\ \A p \in Packages : once[p] # "done" => NamesOf(Declared[p]) \cap registry = {}

\* The session has been set up and its handler has not returned.
InSession(s) == session[s] \in {"connected", "leaving"}

\* Whoever may use metrics runs only once their packages are done.
UsersInv ==
  /\ producers \ {Logger} \subseteq Datastores
  /\ \A d \in producers \ {Logger} : once[d] = "done"
  /\ listening => once["server"] = "done"
  /\ \A s \in Sessions : InSession(s) => once["socket"] = "done"
  /\ usage # "off" => once["usage"] = "done" /\ once["monitoring"] = "done"

MetricsInv == RegisteredInv /\ UsersInv /\ NoMetricPanics

\* Registering packages that are not done yet panics for none of their names.
LEMMA RegisteredStep ==
  ASSUME RegisteredInv, NEW ps, ps \subseteq Packages, \A p \in ps : once[p] # "done",
         NEW goroutine, Registered(ps, goroutine),
         once' = [p \in Packages |-> IF p \in ps THEN "done" ELSE once[p]]
  PROVE  RegisteredInv' /\ panicked' = panicked
<1> DEFINE declared == UNION {Declared[p] : p \in ps}
           names == NamesOf(declared)
<1>1. \A n \in names : \E p \in ps : n \in NamesOf(Declared[p])
  BY DEF NamesOf
<1>2. names \cap registry = {}
  BY <1>1 DEF RegisteredInv
<1>3. ~ \E p, q \in ps : p # q /\ NamesOf(Declared[p]) \cap NamesOf(Declared[q]) # {}
  BY NamesDisjoint
<1>4. /\ handles' = {m \in handles : m.name \notin names} \cup declared
      /\ registry' \subseteq registry \cup names
  BY DEF Registered
<1>5. panicked' = panicked
  BY <1>2, <1>3 DEF Registered
<1>6. \A p \in Packages : p \notin ps => NamesOf(Declared[p]) \cap names = {}
  BY <1>1, NamesDisjoint
<1> HIDE DEF names
<1>7. ASSUME NEW p \in Packages, once'[p] = "done" PROVE Declared[p] \subseteq handles'
  <2>1. CASE p \in ps
    BY <1>4, <2>1
  <2>2. CASE p \notin ps
    <3>1. Declared[p] \subseteq handles
      BY <1>7, <2>2 DEF RegisteredInv
    <3>2. \A m \in Declared[p] : m.name \notin names
      BY <1>6, <2>2 DEF NamesOf
    <3> QED
      BY <1>4, <3>1, <3>2
  <2> QED
    BY <2>1, <2>2
<1>8. ASSUME NEW p \in Packages, once'[p] # "done" PROVE NamesOf(Declared[p]) \cap registry' = {}
  <2>1. p \notin ps /\ once[p] # "done"
    BY <1>8
  <2> QED
    BY <1>4, <1>6, <2>1 DEF RegisteredInv
<1>9. once' \in [Packages -> {"new", "running", "done"}]
      /\ \A p \in Packages : once'[p] = "running" => p = "socket"
  BY DEF RegisteredInv
<1> QED
  BY <1>5, <1>7, <1>8, <1>9 DEF RegisteredInv

\* Uses of packages that are done do not panic.
LEMMA UseStep ==
  ASSUME NEW ps, NEW goroutine, Use(ps, goroutine), \A p \in ps : Uses(p) \subseteq handles
  PROVE  panicked' = panicked /\ UNCHANGED <<collector, down, registry, once, handles>>
<1>1. ~ \E p \in ps : \E u \in Uses(p) : Panics(u)
  BY DEF Panics
<1> QED
  BY <1>1 DEF Use

\* What Once has done stays done.
OnceKept == \A p \in Packages : once[p] = "done" => once'[p] = "done"

LEMMA UsersKept ==
  ASSUME UsersInv, OnceKept,
         \/ producers' = producers
         \/ /\ producers' \ {Logger} \subseteq Datastores
            /\ \A d \in producers' \ {Logger} : once'[d] = "done",
         listening' => listening \/ once'["server"] = "done",
         \A s \in Sessions : InSession(s)' => InSession(s) \/ once'["socket"] = "done",
         usage' # "off" => usage # "off" \/ (once'["usage"] = "done" /\ once'["monitoring"] = "done")
  PROVE  UsersInv'
<1>1. Datastores \subseteq Packages /\ {"server", "socket", "usage", "monitoring"} \subseteq Packages
  BY DatastoresAssumption, PackageNames
<1>2. producers' \ {Logger} \subseteq Datastores /\ \A d \in producers' \ {Logger} : once'[d] = "done"
  BY <1>1 DEF UsersInv, OnceKept
<1>3. listening' => once'["server"] = "done"
  BY <1>1 DEF UsersInv, OnceKept
<1>4. \A s \in Sessions : InSession(s)' => once'["socket"] = "done"
  BY <1>1 DEF UsersInv, OnceKept
<1>5. usage' # "off" => once'["usage"] = "done" /\ once'["monitoring"] = "done"
  BY <1>1 DEF UsersInv, OnceKept
<1> QED
  BY <1>2, <1>3, <1>4, <1>5 DEF UsersInv

\* Once.Do for several packages.
LEMMA RegisterOnceStep ==
  ASSUME RegisteredInv, NEW ps, ps \subseteq Packages, NEW goroutine, RegisterOnce(ps, goroutine),
         "socket" \notin ps
  PROVE  /\ RegisteredInv' /\ panicked' = panicked
         /\ OnceKept
         /\ \A p \in ps : once'[p] = "done"
<1> DEFINE new == {p \in ps : once[p] = "new"}
<1>1. /\ once' = [p \in Packages |-> IF p \in new THEN "done" ELSE once[p]]
      /\ Registered(new, goroutine)
  BY DEF RegisterOnce
<1>2. new \subseteq Packages /\ \A p \in new : once[p] # "done"
  OBVIOUS
<1>3. OnceKept /\ \A p \in ps : once'[p] = "done"
  BY <1>1 DEF RegisteredInv, OnceKept
<1> HIDE DEF new
<1>4. RegisteredInv' /\ panicked' = panicked
  BY <1>1, <1>2, RegisteredStep
<1> QED
  BY <1>3, <1>4

\* A stage of the start changes the dispatchers only when it builds them, and
\* opens the listener only when it listens.
LEMMA StartChanges ==
  ASSUME StartNext
  PROVE  /\ \/ producers' = producers
            \/ /\ stage = "producers" /\ stage' # "failed"
               /\ producers' = {Logger} \cup (RequiredDispatchers \cap Datastores)
         /\ listening' => listening \/ (stage = "listen" /\ stage' # "failed")
<1>1. CASE Fail
  BY <1>1 DEF Fail
<1>2. CASE ~Fail /\ BuildProducers
  BY <1>2 DEF BuildProducers
<1>3. CASE ~Fail /\ Listen
  BY <1>3 DEF Listen
<1>4. CASE ~Fail /\ ~BuildProducers /\ ~Listen
  <2>1. producers' = producers /\ listening' = listening
    BY <1>4 DEF StartNext, LoadFile, ApplyEnvironmentOverrides, MaterializeInlineTLSSecrets, ValidateConfig,
       ValidateRuntime, CreateAirbrakeNotifier, ExtractServiceTLSConfig, ConfigureServerCertificate,
       ConfigureReliableAckSources, DispatchProducerRules, StartStatusServer, Configured, Certified
  <2> QED
    BY <2>1
<1> QED
  BY <1>1, <1>2, <1>3, <1>4

\* The packages that a stage registers, all of them unless it fails.
LEMMA MainRegistersWhat ==
  ASSUME MainRegisters
  PROVE  \E ps \in SUBSET ({"monitoring", "server"} \cup Datastores) :
           /\ RegisterOnce(ps, "main")
           /\ stage = "producers" /\ stage' # "failed" => RequiredDispatchers \cap Datastores \subseteq ps
           /\ stage = "listen" /\ stage' # "failed" => "server" \in ps
<1> DEFINE all == CASE stage = "clientCA"  -> IF monitoring.present THEN {"monitoring"} ELSE {}
                    [] stage = "producers" -> RequiredDispatchers \cap Datastores
                    [] stage = "listen"    -> {"server"}
                    [] OTHER               -> {}
<1>1. PICK ps \in SUBSET all : (stage' = "failed" \/ ps = all) /\ RegisterOnce(ps, "main")
  BY Zenon DEF MainRegisters
<1>2. stage = "producers" => all = RequiredDispatchers \cap Datastores
  BY Zenon
<1>3. stage = "listen" => all = {"server"}
  BY Zenon
<1>4. stage = "clientCA" => all \subseteq {"monitoring"}
  BY Zenon
<1>5. stage \notin {"clientCA", "producers", "listen"} => all = {}
  BY Zenon
<1> HIDE DEF all
<1>6. ps \in SUBSET ({"monitoring", "server"} \cup Datastores)
  BY <1>1, <1>2, <1>3, <1>4, <1>5
<1>7. stage = "producers" /\ stage' # "failed" => RequiredDispatchers \cap Datastores \subseteq ps
  BY <1>1, <1>2
<1>8. stage = "listen" /\ stage' # "failed" => "server" \in ps
  BY <1>1, <1>3
<1> QED
  BY <1>1, <1>6, <1>7, <1>8

LEMMA MainStartsMetrics == ASSUME MetricsInv, MainStarts PROVE MetricsInv'
<1>1. StartNext /\ MainRegisters /\ session' = session /\ usage' = usage
  BY DEF MainStarts, Start, monVars, usageVars
<1>2. PICK ps \in SUBSET ({"monitoring", "server"} \cup Datastores) :
           /\ RegisterOnce(ps, "main")
           /\ stage = "producers" /\ stage' # "failed" => RequiredDispatchers \cap Datastores \subseteq ps
           /\ stage = "listen" /\ stage' # "failed" => "server" \in ps
  BY <1>1, MainRegistersWhat
<1>3. ps \subseteq Packages /\ "socket" \notin ps
  BY DatastoresAssumption, PackageNames
<1>4. /\ RegisteredInv' /\ panicked' = panicked
      /\ OnceKept
      /\ \A p \in ps : once'[p] = "done"
  BY <1>2, <1>3, RegisterOnceStep DEF MetricsInv
<1>5. \/ producers' = producers
      \/ /\ producers' \ {Logger} \subseteq Datastores
         /\ \A d \in producers' \ {Logger} : once'[d] = "done"
  BY <1>1, <1>2, <1>4, StartChanges
<1>6. listening' => listening \/ once'["server"] = "done"
  BY <1>1, <1>2, <1>4, StartChanges
<1>7. UsersInv'
  BY <1>1, <1>4, <1>5, <1>6, UsersKept DEF MetricsInv, InSession
<1> QED
  BY <1>4, <1>7 DEF MetricsInv, NoMetricPanics

\* Steps that leave the metrics alone, and start no one who uses them early.
LEMMA MetricsAlone ==
  ASSUME MetricsInv, UNCHANGED metricsVars, producers' = producers, listening' => listening,
         \A s \in Sessions : InSession(s)' => InSession(s) \/ once["socket"] = "done",
         usage' # "off" => usage # "off" \/ (once["usage"] = "done" /\ once["monitoring"] = "done")
  PROVE  MetricsInv'
<1>1. UNCHANGED <<registry, once, handles, panicked>>
  BY DEF metricsVars
<1>2. OnceKept
  BY <1>1 DEF OnceKept
<1>3. UsersInv'
  BY <1>1, <1>2, UsersKept DEF MetricsInv
<1> QED
  BY <1>1, <1>3 DEF MetricsInv, RegisteredInv, NoMetricPanics

\* Steps in which only metrics change, by packages that become done.
LEMMA MetricsOnly ==
  ASSUME MetricsInv, UNCHANGED <<vars, usage>>, RegisteredInv', OnceKept, panicked' = panicked
  PROVE  MetricsInv'
<1>1. UNCHANGED <<producers, listening, session>>
  BY DEF vars, startVars
<1>2. UsersInv'
  BY <1>1, UsersKept DEF MetricsInv, InSession
<1> QED
  BY <1>2 DEF MetricsInv, NoMetricPanics

\* The end of the process ends the sessions.
LEMMA KilledLeave == ASSUME session' = Killed PROVE \A s \in Sessions : InSession(s)' => InSession(s)
BY DEF Killed, InSession

LEMMA MainMetrics ==
  ASSUME MetricsInv, MainGoesOn \/ MainShutsCollectorDown \/ MainExits
  PROVE  MetricsInv'
<1>1. CASE MainGoesOn \/ MainExits
  <2>1. UNCHANGED <<metricsVars, usage>>
    BY <1>1 DEF MainGoesOn, MainExits, monVars, usageVars
  <2>2. producers' = producers /\ (listening' => listening)
    BY <1>1 DEF MainGoesOn, MainExits, ServeFails, ReceiveSignal, ShutdownReturns, CloseDispatcher, Exit,
       Goto, startVars
  <2>3. \A s \in Sessions : InSession(s)' => InSession(s)
    <3>1. CASE MainExits
      BY <3>1, KilledLeave DEF MainExits, Exit
    <3>2. CASE MainGoesOn
      BY <3>2 DEF MainGoesOn, ServeFails, ReceiveSignal, ShutdownReturns, CloseDispatcher, lifeVars, InSession
    <3> QED
      BY <1>1, <3>1, <3>2
  <2> QED
    BY <2>1, <2>2, <2>3, MetricsAlone
<1>2. CASE MainShutsCollectorDown
  <2>1. UNCHANGED <<vars, usage, once, handles, panicked>> /\ registry' = {}
    BY <1>2 DEF MainShutsCollectorDown, ShutdownCollector, monVars, usageVars
  <2>2. RegisteredInv' /\ OnceKept
    BY <2>1 DEF MetricsInv, RegisteredInv, OnceKept
  <2> QED
    BY <2>1, <2>2, MetricsOnly
<1> QED
  BY <1>1, <1>2

\* The goroutines of the monitoring.
LEMMA MonitoringMetricsKept ==
  ASSUME MetricsInv, \/ ProfilerListens \/ UsageRegisters \/ UsageStarts \/ ClockTicks
                     \/ UsageTakesTick \/ UsageSamples \/ ProfilerServes
  PROVE  MetricsInv'
<1>1. CASE ProfilerListens \/ UsageStarts \/ ClockTicks \/ UsageTakesTick \/ ProfilerServes
  <2>1. UNCHANGED <<vars, metricsVars>>
    BY <1>1 DEF ProfilerListens, UsageStarts, ClockTicks, UsageTakesTick, ProfilerServes
  <2>2. usage' # "off" => usage # "off" \/ (once["usage"] = "done" /\ once["monitoring"] = "done")
    <3>1. CASE UsageStarts
      BY <3>1 DEF UsageStarts, MonitoringStarted
    <3>2. CASE ProfilerListens \/ ClockTicks \/ UsageTakesTick \/ ProfilerServes
      BY <3>2 DEF ProfilerListens, ClockTicks, TimePasses, UsageTakesTick, TakeTick, ProfilerServes, LiveProfiler, PprofTraceStart,
         PprofTraceStop, monVars, usageVars
    <3> QED
      BY <1>1, <3>1, <3>2
  <2> QED
    BY <2>1, <2>2, MetricsAlone DEF vars, startVars, InSession
<1>2. CASE UsageRegisters
  <2>1. RegisterOnce({"usage"}, "usage") /\ UNCHANGED <<vars, usage>>
    BY <1>2 DEF UsageRegisters, monVars, usageVars
  <2>2. {"usage"} \subseteq Packages
    BY PackageNames
  <2> QED
    BY <2>1, <2>2, RegisterOnceStep, MetricsOnly DEF MetricsInv
<1>3. CASE UsageSamples
  <2>1. usage = "woken" /\ Use({"usage"}, "usage") /\ (Crash \/ UNCHANGED vars)
    BY <1>3, Zenon DEF UsageSamples, Sample, SampleEvery
  <2>2. Uses("usage") \subseteq handles
    BY <2>1, UsageUsesAsDeclared, PackageNames DEF MetricsInv, UsersInv, RegisteredInv
  <2>3. panicked' = panicked /\ UNCHANGED <<collector, down, registry, once, handles>>
    BY <2>1, <2>2, UseStep
  <2>4. producers' = producers /\ (listening' => listening)
    BY <2>1 DEF Crash, vars, startVars
  <2>5. \A s \in Sessions : InSession(s)' => InSession(s)
    BY <2>1, KilledLeave DEF Crash, vars, InSession
  <2> QED
    BY <2>1, <2>3, <2>4, <2>5, MetricsAlone DEF metricsVars
<1> QED
  BY <1>1, <1>2, <1>3

\* Counting with the metrics of packages that are done.
LEMMA CountsStep ==
  ASSUME MetricsInv, NEW ps, NEW goroutine, Use(ps, goroutine), \A p \in ps : Uses(p) \subseteq handles,
         UNCHANGED <<vars, usage>>
  PROVE  MetricsInv'
<1>1. panicked' = panicked /\ UNCHANGED <<collector, down, registry, once, handles>>
  BY UseStep
<1> QED
  BY <1>1, MetricsAlone DEF vars, startVars, metricsVars, InSession

LEMMA DatastoreCounts ==
  ASSUME MetricsInv, NEW d \in producers \ {Logger}
  PROVE  Uses(d) \subseteq handles
<1>1. d \in {"kafka", "kinesis", "pubsub", "zmq", "mqtt", "redis"} /\ d \in Packages /\ once[d] = "done"
  BY DatastoresAssumption, PackageNames DEF MetricsInv, UsersInv
<1> QED
  BY <1>1, DatastoresUseAsDeclared DEF MetricsInv, RegisteredInv

LEMMA SessionMetrics ==
  ASSUME MetricsInv, LifeInv, NEW s \in Sessions,
         \/ SessionAccepted(s) \/ SessionBeginsOnce(s) \/ SessionEndsOnce(s)
         \/ SessionConnects(s) \/ SessionLeaves(s) \/ SessionDeregisters(s) \/ SessionCounts(s)
  PROVE  MetricsInv'
<1>0. DOMAIN session = Sessions /\ "socket" \in Packages
  BY PackageNames DEF LifeInv, ReportInv
<1>1. CASE SessionAccepted(s) \/ SessionConnects(s) \/ SessionLeaves(s) \/ SessionDeregisters(s)
  <2> USE DEF SessionAccepted, SessionConnects, SessionLeaves, SessionDeregisters,
              AcceptConnection, Connect, VehicleLeaves, DeregisterSocket
  <2>1. UNCHANGED <<metricsVars, usage, producers, listening>>
    BY <1>1 DEF startVars, monVars, usageVars
  <2>2. \A t \in Sessions : InSession(t)' => InSession(t) \/ once["socket"] = "done"
    BY <1>0, <1>1 DEF InSession
  <2> QED
    BY <2>1, <2>2, MetricsAlone
<1>2. CASE SessionBeginsOnce(s)
  <2>1. /\ once["socket"] = "new" /\ once' = [once EXCEPT !["socket"] = "running"]
        /\ UNCHANGED <<vars, usage, registry, handles, panicked>>
    BY <1>2 DEF SessionBeginsOnce, BeginOnce, monVars, usageVars
  <2>2. RegisteredInv' /\ OnceKept
    BY <1>0, <2>1 DEF MetricsInv, RegisteredInv, OnceKept
  <2> QED
    BY <2>1, <2>2, MetricsOnly
<1>3. CASE SessionEndsOnce(s)
  <2>1. /\ once["socket"] = "running" /\ once' = [once EXCEPT !["socket"] = "done"]
        /\ Registered({"socket"}, s) /\ UNCHANGED <<vars, usage>>
    BY <1>3 DEF SessionEndsOnce, EndOnce, monVars, usageVars
  <2>2. once' = [p \in Packages |-> IF p \in {"socket"} THEN "done" ELSE once[p]]
    BY <1>0, <2>1 DEF MetricsInv, RegisteredInv
  <2>3. RegisteredInv' /\ panicked' = panicked
    BY <1>0, <2>1, <2>2, RegisteredStep DEF MetricsInv
  <2>4. OnceKept
    BY <2>2 DEF OnceKept
  <2> QED
    BY <2>1, <2>3, <2>4, MetricsOnly
<1>4. CASE SessionCounts(s)
  <2>1. /\ InSession(s) /\ Use({"socket"} \cup (producers \ {Logger}), s)
        /\ UNCHANGED <<vars, usage>>
    BY <1>4 DEF SessionCounts, monVars, usageVars, InSession
  <2>2. Uses("socket") \subseteq handles
    BY <1>0, <2>1, ServerUsesAsDeclared DEF MetricsInv, UsersInv, RegisteredInv
  <2>3. \A p \in {"socket"} \cup (producers \ {Logger}) : Uses(p) \subseteq handles
    BY <2>2, DatastoreCounts
  <2> QED
    BY <2>1, <2>3, CountsStep
<1> QED
  BY <1>1, <1>2, <1>3, <1>4

\* The goroutines of the server and of the kafka producer.
LEMMA BackgroundMetrics == ASSUME MetricsInv, AcksCount \/ KafkaCounts PROVE MetricsInv'
<1>1. CASE AcksCount
  <2>1. listening /\ Use({"server"}, "acks") /\ UNCHANGED <<vars, usage>>
    BY <1>1 DEF AcksCount, monVars, usageVars
  <2>2. Uses("server") \subseteq handles
    BY <2>1, ServerUsesAsDeclared, PackageNames DEF MetricsInv, UsersInv, RegisteredInv
  <2> QED
    BY <2>1, <2>2, CountsStep
<1>2. CASE KafkaCounts
  <2>1. "kafka" \in producers \ {Logger} /\ Use({"kafka"}, "kafka") /\ UNCHANGED <<vars, usage>>
    BY <1>2 DEF KafkaCounts, monVars, usageVars, Logger
  <2>2. Uses("kafka") \subseteq handles
    BY <2>1, DatastoreCounts
  <2> QED
    BY <2>1, <2>2, CountsStep
<1> QED
  BY <1>1, <1>2

LEMMA InitMetrics == ProcessInit => MetricsInv
<1> SUFFICES ASSUME ProcessInit PROVE MetricsInv
  OBVIOUS
<1>1. /\ registry = {} /\ once = [p \in Packages |-> "new"] /\ panicked = {}
      /\ producers = {} /\ listening = FALSE /\ session = [s \in Sessions |-> "none"] /\ usage = "off"
  BY DEF ProcessInit, MetricsInit, Init, StartInit, MonInit
<1>2. RegisteredInv
  BY <1>1 DEF RegisteredInv
<1>3. UsersInv
  BY <1>1 DEF UsersInv, InSession
<1> QED
  BY <1>1, <1>2, <1>3 DEF MetricsInv, NoMetricPanics

LEMMA NextMetrics == MetricsInv /\ LifeInv /\ [ProcessNext]_allVars => MetricsInv'
<1> SUFFICES ASSUME MetricsInv, LifeInv, [ProcessNext]_allVars PROVE MetricsInv'
  OBVIOUS
<1>1. CASE UNCHANGED allVars
  <2>1. UNCHANGED <<metricsVars, producers, listening, session, usage>>
    BY <1>1 DEF allVars, vars, startVars, monVars, usageVars
  <2> QED
    BY <2>1, MetricsAlone DEF InSession
<1>2. CASE ProcessNext
  BY <1>2, MainStartsMetrics, MainMetrics, MonitoringMetricsKept, SessionMetrics, BackgroundMetrics
     DEF ProcessNext
<1> QED
  BY <1>1, <1>2

\* The invariant of the metrics.
THEOREM MetricsInvariance == ProcessSpec => []MetricsInv
<1>1. ProcessInit => MetricsInv
  BY InitMetrics
<1>2. MetricsInv /\ LifeInv /\ [ProcessNext]_allVars => MetricsInv'
  BY NextMetrics
<1> QED
  BY <1>1, <1>2, LifeInvariance, PTL DEF ProcessSpec

\* Whatever dispatchers are configured, however many sessions there are, and in
\* whatever order the goroutines run, none panics over a metric that is nil,
\* registered twice or used with labels it was not declared with.
THEOREM MetricsNeverPanic == ProcessSpec => []NoMetricPanics
<1>1. MetricsInv => NoMetricPanics
  BY DEF MetricsInv
<1> QED
  BY <1>1, MetricsInvariance, PTL
=============================================================================
