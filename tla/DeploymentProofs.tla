-------------------------- MODULE DeploymentProofs --------------------------
(***************************************************************************)
(* Proofs about what surrounds the server: the control plane, for any      *)
(* number of requests and any timeouts in the order that the code has      *)
(* them, the bundle of certificates, for any IDs and any number of runs    *)
(* that are cut short, and the way of a message, for any message and any   *)
(* client.  The theorems of the three parts hold of DeploymentSpec, which  *)
(* puts them together.                                                     *)
(***************************************************************************)
EXTENDS Deployment, WellFoundedInduction, TLAPS

-----------------------------------------------------------------------------
\* The control plane.

\* A dial starts with its request and does not outlast its timeout.
DialInv ==
  \A r \in Requests : /\ phase[r] = "idle" => age[r] = 0
                      /\ phase[r] = "dial" => age[r] <= DialTimeout

\* Requests are only read while the server serves: those it still handles are
\* at least as old as the signal.
DrainInv ==
  /\ plane = "serving" => drain = 0
  /\ plane = "draining" => \A r \in Requests : phase[r] \in Handled => drain <= age[r]

\* What a probe has seen so far.
WitnessInv ==
  \A r \in Requests :
    /\ phase[r] \in {"idle", "dial", "handshake"} => status[r] = 0
    /\ phase[r] \in {"dial", "handshake"} /\ endpoint = "trusted" => witness[r]

PlaneInv == PlaneTypeOK /\ DialInv /\ DrainInv /\ WitnessInv /\ HealthyMeansTrusted /\ NoRequestLost

-----------------------------------------------------------------------------
\* The initial states satisfy the invariant.
LEMMA InitInv == PlaneInit => PlaneInv
<1> SUFFICES ASSUME PlaneInit PROVE PlaneInv
  OBVIOUS
<1>1. PlaneTypeOK
  BY TimeoutsAssumption DEF PlaneInit, PlaneTypeOK, Handled
<1>2. DialInv /\ DrainInv
  BY TimeoutsAssumption DEF PlaneInit, DialInv, DrainInv, Handled
<1>3. WitnessInv /\ HealthyMeansTrusted /\ NoRequestLost
  BY DEF PlaneInit, WitnessInv, HealthyMeansTrusted, NoRequestLost
<1> QED
  BY <1>1, <1>2, <1>3 DEF PlaneInv

\* A request is read (newHandler).
LEMMA HealthRequestInv ==
  ASSUME PlaneInv, NEW r \in Requests, HealthRequest(r)
  PROVE  PlaneInv'
<1> USE DEF PlaneInv, HealthRequest
<1>1. phase' \in [Requests -> Handled \cup {"idle", "answered", "lost"}]
  BY DEF PlaneTypeOK, Handled
<1>2. witness' \in [Requests -> BOOLEAN]
  BY Zenon DEF PlaneTypeOK
<1>3. PlaneTypeOK'
  BY <1>1, <1>2 DEF PlaneTypeOK
<1>4. DialInv'
  BY TimeoutsAssumption DEF PlaneTypeOK, DialInv
<1>5. DrainInv'
  BY DEF PlaneTypeOK, DrainInv, Handled
<1>6. NoRequestLost'
  BY DEF PlaneTypeOK, NoRequestLost
<1>7. endpoint = "trusted" => witness'[r]
  BY Zenon DEF PlaneTypeOK
<1>8. \A q \in Requests \ {r} : witness'[q] = witness[q] /\ phase'[q] = phase[q]
  BY DEF PlaneTypeOK
<1>9. WitnessInv' /\ HealthyMeansTrusted'
  BY <1>7, <1>8 DEF PlaneTypeOK, WitnessInv, HealthyMeansTrusted
<1> QED
  BY <1>3, <1>4, <1>5, <1>6, <1>9

\* A probe returns (verifyTelemetryTLS): nil only if the endpoint is trusted.
LEMMA ProbeReturnsInv ==
  ASSUME PlaneInv, NEW r \in Requests, NEW code \in {200, 503},
         phase[r] \in {"dial", "handshake"}, code = 200 => endpoint = "trusted",
         ProbeReturns(r, code)
  PROVE  PlaneInv'
<1> USE DEF PlaneInv, ProbeReturns
<1>1. PlaneTypeOK'
  BY DEF PlaneTypeOK, Handled
<1>2. DialInv' /\ DrainInv'
  BY DEF PlaneTypeOK, DialInv, DrainInv, Handled
<1>3. WitnessInv' /\ HealthyMeansTrusted' /\ NoRequestLost'
  BY DEF PlaneTypeOK, WitnessInv, HealthyMeansTrusted, NoRequestLost
<1> QED
  BY <1>1, <1>2, <1>3

\* A dial ends.
LEMMA DialStepInv ==
  ASSUME PlaneInv, NEW r \in Requests, Dial(r)
  PROVE  PlaneInv'
<1>1. CASE ProbeReturns(r, 503)
  BY <1>1, ProbeReturnsInv DEF Dial
<1>2. CASE /\ phase' = [phase EXCEPT ![r] = "handshake"]
           /\ UNCHANGED <<plane, drain, endpoint, age, status, witness>>
  <2>1. PlaneTypeOK'
    BY <1>2 DEF PlaneInv, PlaneTypeOK, Handled
  <2>2. DialInv' /\ DrainInv'
    BY <1>2 DEF PlaneInv, PlaneTypeOK, DialInv, DrainInv, Handled, Dial
  <2>3. WitnessInv' /\ HealthyMeansTrusted' /\ NoRequestLost'
    BY <1>2 DEF PlaneInv, PlaneTypeOK, WitnessInv, HealthyMeansTrusted, NoRequestLost, Dial
  <2> QED
    BY <2>1, <2>2, <2>3 DEF PlaneInv
<1> QED
  BY <1>1, <1>2 DEF Dial

\* A handshake ends, or the probe is broken off.
LEMMA ProbeEndsInv ==
  ASSUME PlaneInv, NEW r \in Requests, Handshake(r) \/ ProbeAborted(r)
  PROVE  PlaneInv'
<1>1. CASE ProbeReturns(r, 503) /\ phase[r] \in {"dial", "handshake"}
  BY <1>1, ProbeReturnsInv
<1>2. CASE ProbeReturns(r, 200) /\ phase[r] \in {"dial", "handshake"} /\ endpoint = "trusted"
  BY <1>2, ProbeReturnsInv
<1> QED
  BY <1>1, <1>2 DEF Handshake, ProbeAborted

\* A response is written; its request is no older than ProbeTimeout.
LEMMA WriteResponseInv ==
  ASSUME PlaneInv, NEW r \in Requests, WriteResponse(r)
  PROVE  PlaneInv'
<1> USE DEF PlaneInv, WriteResponse
<1>a. age[r] <= WriteTimeout
  BY TimeoutsAssumption DEF PlaneTypeOK
<1>0. phase' = [phase EXCEPT ![r] = "answered"]
  BY <1>a
<1>1. PlaneTypeOK'
  BY <1>0 DEF PlaneTypeOK, Handled
<1>2. DialInv' /\ DrainInv'
  BY <1>0 DEF PlaneTypeOK, DialInv, DrainInv, Handled
<1>3. WitnessInv' /\ HealthyMeansTrusted' /\ NoRequestLost'
  BY <1>0 DEF PlaneTypeOK, WitnessInv, HealthyMeansTrusted, NoRequestLost
<1> QED
  BY <1>1, <1>2, <1>3

\* A signal arrives (run).
LEMMA PlaneSignalInv ==
  ASSUME PlaneInv, PlaneSignal
  PROVE  PlaneInv'
<1> USE DEF PlaneInv, PlaneSignal
<1>1. PlaneTypeOK'
  BY DEF PlaneTypeOK
<1>2. DialInv' /\ DrainInv'
  BY DEF PlaneTypeOK, DialInv, DrainInv
<1>3. WitnessInv' /\ HealthyMeansTrusted' /\ NoRequestLost'
  BY DEF WitnessInv, HealthyMeansTrusted, NoRequestLost
<1> QED
  BY <1>1, <1>2, <1>3

\* Shutdown returns: when its time is over, nothing is handled any more.
LEMMA ShutdownReturnsInv ==
  ASSUME PlaneInv, ShutdownReturns
  PROVE  PlaneInv'
<1> USE DEF PlaneInv, ShutdownReturns
<1>0. \A r \in Requests : phase[r] \notin Handled
  BY TimeoutsAssumption DEF PlaneTypeOK, DrainInv
<1>00. phase' = phase
  BY <1>0 DEF PlaneTypeOK
<1>1. PlaneTypeOK'
  BY <1>00 DEF PlaneTypeOK
<1>2. DialInv' /\ DrainInv'
  BY <1>00 DEF DialInv, DrainInv
<1>3. WitnessInv' /\ HealthyMeansTrusted' /\ NoRequestLost'
  BY <1>00 DEF WitnessInv, HealthyMeansTrusted, NoRequestLost
<1> QED
  BY <1>1, <1>2, <1>3

\* The endpoint changes under the probes.
LEMMA EndpointChangesInv ==
  ASSUME PlaneInv, NEW e \in Endpoints, EndpointChanges(e)
  PROVE  PlaneInv'
<1> USE DEF PlaneInv, EndpointChanges
<1>1. PlaneTypeOK'
  BY DEF PlaneTypeOK
<1>2. DialInv' /\ DrainInv'
  BY DEF DialInv, DrainInv
<1>3. WitnessInv' /\ HealthyMeansTrusted' /\ NoRequestLost'
  BY DEF PlaneTypeOK, WitnessInv, HealthyMeansTrusted, NoRequestLost
<1> QED
  BY <1>1, <1>2, <1>3

\* Time passes, but no timer that has run out is passed over.
LEMMA PlaneTickInv ==
  ASSUME PlaneInv, PlaneTick
  PROVE  PlaneInv'
<1> USE DEF PlaneInv, PlaneTick
<1>1. \A r \in Requests : phase[r] \in Handled => age[r] + 1 \in 0..ProbeTimeout
  <2> SUFFICES ASSUME NEW r \in Requests, phase[r] \in Handled PROVE age[r] + 1 \in 0..ProbeTimeout
    OBVIOUS
  <2>1. age[r] \in Nat /\ age[r] <= ProbeTimeout
    BY TimeoutsAssumption DEF PlaneTypeOK
  <2>2. CASE phase[r] = "dial"
    BY <2>1, <2>2, TimeoutsAssumption DEF Expired, DialInv
  <2>3. CASE phase[r] = "handshake"
    BY <2>1, <2>3, TimeoutsAssumption DEF Expired
  <2> QED
    BY <2>2, <2>3 DEF Expired, Handled
<1>2. PlaneTypeOK'
  <2>1. age' \in [Requests -> 0..ProbeTimeout]
    BY <1>1 DEF PlaneTypeOK
  <2>2. drain' \in 0..ShutdownTimeout
    BY TimeoutsAssumption DEF PlaneTypeOK
  <2> QED
    BY <2>1, <2>2 DEF PlaneTypeOK
<1>3. DialInv'
  BY TimeoutsAssumption DEF PlaneTypeOK, DialInv, Expired, Handled
<1>4. DrainInv'
  BY TimeoutsAssumption DEF PlaneTypeOK, DrainInv
<1>5. WitnessInv' /\ HealthyMeansTrusted' /\ NoRequestLost'
  BY DEF WitnessInv, HealthyMeansTrusted, NoRequestLost
<1> QED
  BY <1>2, <1>3, <1>4, <1>5

\* Every step keeps the invariant.
LEMMA NextInv == PlaneInv /\ [PlaneNext]_planeVars => PlaneInv'
<1> SUFFICES ASSUME PlaneInv, [PlaneNext]_planeVars PROVE PlaneInv'
  OBVIOUS
<1>1. CASE \E r \in Requests : HealthRequest(r) \/ Handler(r) \/ ProbeAborted(r)
  BY <1>1, HealthRequestInv, DialStepInv, ProbeEndsInv, WriteResponseInv DEF Handler
<1>2. CASE PlaneSignal
  BY <1>2, PlaneSignalInv
<1>3. CASE ShutdownReturns
  BY <1>3, ShutdownReturnsInv
<1>4. CASE \E e \in Endpoints : EndpointChanges(e)
  BY <1>4, EndpointChangesInv
<1>5. CASE PlaneTick
  BY <1>5, PlaneTickInv
<1>6. CASE UNCHANGED planeVars
  BY <1>6 DEF planeVars, PlaneInv, PlaneTypeOK, DialInv, DrainInv, WitnessInv, HealthyMeansTrusted, NoRequestLost
<1> QED
  BY <1>1, <1>2, <1>3, <1>4, <1>5, <1>6 DEF PlaneNext

\* The invariant holds of every behaviour of the control plane.
THEOREM PlaneInvariance == PlaneSpec => []PlaneInv
<1> QED
  BY InitInv, NextInv, PTL DEF PlaneSpec

\* The deployment does to its control plane only what ControlPlane allows.
THEOREM DeploymentImplementsPlane == DeploymentSpec => PlaneSpec
<1>1. DeploymentInit => PlaneInit
  BY DEF DeploymentInit
<1>2. [DeploymentNext]_deploymentVars => [PlaneNext]_planeVars
  BY Zenon DEF DeploymentNext, MakeBundle, ClientComes, VehicleStep, DeviceStep, OperatorStep, deploymentVars
<1> QED
  BY <1>1, <1>2, PTL DEF DeploymentSpec, PlaneSpec

\* The variables of the control plane keep their types; no request is handled
\* longer than ProbeTimeout.
THEOREM PlaneTypeCorrect == DeploymentSpec => []PlaneTypeOK
<1>1. PlaneInv => PlaneTypeOK
  BY DEF PlaneInv
<1> QED
  BY <1>1, PlaneInvariance, DeploymentImplementsPlane, PTL

\* A 200 of the control plane means that the endpoint presented a trusted
\* certificate while the request was handled (newHandler, verifyTelemetryTLS).
THEOREM HealthyIsTrusted == DeploymentSpec => []HealthyMeansTrusted
<1>1. PlaneInv => HealthyMeansTrusted
  BY DEF PlaneInv
<1> QED
  BY <1>1, PlaneInvariance, DeploymentImplementsPlane, PTL

\* No request the control plane has read goes unanswered, shutdown or not
\* (run, newHandler).
THEOREM RequestsAnswered == DeploymentSpec => []NoRequestLost
<1>1. PlaneInv => NoRequestLost
  BY DEF PlaneInv
<1> QED
  BY <1>1, PlaneInvariance, DeploymentImplementsPlane, PTL

-----------------------------------------------------------------------------
\* The bundle of certificates.  A run works through its jobs in order; what it
\* leaves in a file is of the last job with that file name, and of this run.
JobSet == {<<ServerIDs[i], "server">> : i \in 1..Len(ServerIDs)}
          \cup {<<ClientIDs[i], "client">> : i \in 1..Len(ClientIDs)} \cup {<<RootName, "ca">>}

CertOf(job) == Certificate(run, job[1], job[2])

\* What is whole of the two files f is of one job of this run.
Own(f) ==
  \E i \in 1..Len(Jobs) :
    /\ FileOf(Jobs[i]) = f /\ HasType(Jobs[i])
    /\ certFile[f] \in Copied(CertOf(Jobs[i]))
    /\ keyFile[f] \in Copied(CertOf(Jobs[i]).pair)

\* The first k jobs are done, and the others are left.  Only the files of the
\* job at hand may be mixed.
Progress(k) ==
  /\ Len(jobs) = Len(Jobs) - k
  /\ \A i \in 1..Len(jobs) : jobs[i] = Jobs[k + i]
  /\ \A i \in 1..k : toolPc = "running" \/ FileOf(Jobs[i]) # FileOf(Job) => Own(FileOf(Jobs[i]))

ToolInv ==
  /\ jobs \in Seq(JobSet)
  /\ DOMAIN certFile = Files /\ DOMAIN keyFile = Files
  /\ toolPc \in {"running", "cert", "saved", "key"} => \E k \in 0..Len(Jobs) : Progress(k)
  /\ toolPc \in {"cert", "saved", "key"} => jobs # << >> /\ HasType(Job)
  /\ toolPc \in {"saved", "key"} => certFile[FileOf(Job)] \in Copied(CertOf(Job))
  /\ toolPc = "done" => \A f \in Files : Own(f)

LEMMA JobsFacts ==
  /\ Jobs \in Seq(JobSet) /\ Len(Jobs) \in Nat
  /\ Len(Jobs) > 0 /\ Jobs[Len(Jobs)] = <<RootName, "ca">>
  /\ DOMAIN Jobs = 1..Len(Jobs)
<1> DEFINE s == [i \in 1..Len(ServerIDs) |-> <<ServerIDs[i], "server">>]
           c == [i \in 1..Len(ClientIDs) |-> <<ClientIDs[i], "client">>]
<1>1. s \in Seq(JobSet) /\ c \in Seq(JobSet) /\ << <<RootName, "ca">> >> \in Seq(JobSet)
  <2>1. s \in Seq(JobSet)
    BY ToolAssumption DEF JobSet
  <2>2. c \in Seq(JobSet)
    BY ToolAssumption DEF JobSet
  <2>3. << <<RootName, "ca">> >> \in Seq(JobSet)
    BY DEF JobSet
  <2> QED
    BY <2>1, <2>2, <2>3
<1>2. Jobs = s \o c \o << <<RootName, "ca">> >>
  BY DEF Jobs
<1> HIDE DEF s, c
<1>3. s \o c \in Seq(JobSet)
  BY <1>1
<1> QED
  BY <1>1, <1>2, <1>3

LEMMA FileOfJob == ASSUME NEW i \in 1..Len(Jobs) PROVE FileOf(Jobs[i]) \in Files
BY JobsFacts DEF Files

LEMMA ToolsInitInv == ToolsInit => ToolInv
BY DEF ToolsInit, ToolInv

\* The job at hand is the one after the first k.
LEMMA JobAtHand ==
  ASSUME ToolInv, NEW k \in 0..Len(Jobs), Progress(k), jobs # << >>
  PROVE  k + 1 \in 1..Len(Jobs) /\ Job = Jobs[k + 1] /\ FileOf(Job) \in Files
<1>1. Len(jobs) \in Nat /\ Len(jobs) # 0 /\ Head(jobs) = jobs[1]
  BY DEF ToolInv
<1>2. k + 1 \in 1..Len(Jobs) /\ Job = Jobs[k + 1]
  BY <1>1, JobsFacts DEF Progress, Job
<1> QED
  BY <1>2, FileOfJob

\* The files of other jobs than the one at hand stay what they are.
LEMMA OwnStays ==
  ASSUME NEW f, Own(f), run' = run, certFile'[f] = certFile[f], keyFile'[f] = keyFile[f]
  PROVE  Own(f)'
<1>1. \A job : CertOf(job)' = CertOf(job)
  BY DEF CertOf
<1>2. PICK i \in 1..Len(Jobs) :
        /\ FileOf(Jobs[i]) = f /\ HasType(Jobs[i])
        /\ certFile[f] \in Copied(CertOf(Jobs[i])) /\ keyFile[f] \in Copied(CertOf(Jobs[i]).pair)
  BY DEF Own
<1>3. /\ certFile'[f] \in Copied(CertOf(Jobs[i])') /\ keyFile'[f] \in Copied(CertOf(Jobs[i])'.pair)
  BY <1>1, <1>2
<1> QED
  BY <1>2, <1>3 DEF Own

LEMMA ToolsStep == ASSUME ToolInv, GenerateCertificateBundle PROVE ToolInv'
<1>1. CASE GenerateRootSigningCert
  <2>1. jobs' = Jobs /\ toolPc' = "running" /\ UNCHANGED <<certFile, keyFile>>
    BY <1>1 DEF GenerateRootSigningCert
  <2>2. 0 \in 0..Len(Jobs) /\ Progress(0)'
    BY <2>1, JobsFacts DEF Progress
  <2> QED
    BY <2>1, <2>2, JobsFacts DEF ToolInv
<1>2. CASE CreateCert \/ CopyCert \/ CreateKey
  <2>1. /\ toolPc \in {"running", "cert", "saved"} /\ jobs # << >> /\ UNCHANGED <<run, jobs>>
        /\ toolPc' \in {"cert", "saved", "key"} /\ HasType(Job)
    BY <1>2 DEF CreateCert, CopyCert, CreateKey, ToolInv
  <2>2. PICK k \in 0..Len(Jobs) : Progress(k)
    BY <2>1 DEF ToolInv
  <2>3. FileOf(Job) \in Files
    BY <2>1, <2>2, JobAtHand
  <2>4. /\ DOMAIN certFile' = Files /\ DOMAIN keyFile' = Files
        /\ \A f \in Files \ {FileOf(Job)} : certFile'[f] = certFile[f] /\ keyFile'[f] = keyFile[f]
    BY <1>2, <2>3 DEF CreateCert, CopyCert, CreateKey, ToolInv
  <2>5. Job' = Job /\ CertOf(Job)' = CertOf(Job)
    BY <2>1 DEF Job, CertOf
  <2>6. ASSUME NEW i \in 1..k, FileOf(Jobs[i]) # FileOf(Job)
        PROVE  Own(FileOf(Jobs[i]))'
    <3>1. i \in 1..Len(Jobs) /\ FileOf(Jobs[i]) \in Files
      BY JobsFacts, FileOfJob
    <3>2. Own(FileOf(Jobs[i]))
      BY <2>2, <2>6 DEF Progress
    <3> QED
      BY <2>1, <2>4, <2>6, <3>1, <3>2, OwnStays
  <2>7. Progress(k)'
    BY <2>1, <2>2, <2>5, <2>6 DEF Progress
  <2>8. toolPc' \in {"saved", "key"} => certFile'[FileOf(Job)] \in Copied(CertOf(Job))
    BY <1>2, <2>3 DEF CreateCert, CopyCert, CreateKey, ToolInv, CertOf
  <2> QED
    BY <2>1, <2>4, <2>5, <2>7, <2>8 DEF ToolInv
<1>3. CASE CopyKey
  <2>1. /\ toolPc = "key" /\ jobs # << >> /\ UNCHANGED <<run, certFile>>
        /\ jobs' = Tail(jobs) /\ toolPc' = "running" /\ HasType(Job)
        /\ \E c \in Copied(CertOf(Job).pair) : keyFile' = [keyFile EXCEPT ![FileOf(Job)] = c]
        /\ certFile[FileOf(Job)] \in Copied(CertOf(Job))
    BY <1>3 DEF CopyKey, ToolInv, CertOf
  <2>2. PICK k \in 0..Len(Jobs) : Progress(k)
    BY <2>1 DEF ToolInv
  <2>3. k + 1 \in 1..Len(Jobs) /\ Job = Jobs[k + 1] /\ FileOf(Job) \in Files
    BY <2>1, <2>2, JobAtHand
  <2>4. /\ DOMAIN keyFile' = Files /\ keyFile'[FileOf(Job)] \in Copied(CertOf(Job).pair)
        /\ \A f \in Files \ {FileOf(Job)} : keyFile'[f] = keyFile[f]
    BY <2>1, <2>3 DEF ToolInv
  <2>5. Own(FileOf(Jobs[k + 1]))'
    <3>1. CertOf(Jobs[k + 1])' = CertOf(Jobs[k + 1])
      BY <2>1 DEF CertOf
    <3>2. /\ FileOf(Jobs[k + 1]) = FileOf(Job) /\ HasType(Jobs[k + 1])
          /\ certFile'[FileOf(Job)] \in Copied(CertOf(Jobs[k + 1])')
          /\ keyFile'[FileOf(Job)] \in Copied(CertOf(Jobs[k + 1])'.pair)
      BY <2>1, <2>3, <2>4, <3>1
    <3>3. \A f : f = FileOf(Jobs[k + 1])
                 /\ certFile'[f] \in Copied(CertOf(Jobs[k + 1])')
                 /\ keyFile'[f] \in Copied(CertOf(Jobs[k + 1])'.pair) => Own(f)'
      BY <2>3, <3>2 DEF Own
    <3> QED
      BY <2>3, <3>2, <3>3
  <2>6. ASSUME NEW i \in 1..k PROVE Own(FileOf(Jobs[i]))'
    <3>1. CASE FileOf(Jobs[i]) = FileOf(Jobs[k + 1])
      BY <2>5, <3>1
    <3>2. CASE FileOf(Jobs[i]) # FileOf(Jobs[k + 1])
      <4>1. i \in 1..Len(Jobs) /\ FileOf(Jobs[i]) \in Files /\ FileOf(Jobs[i]) # FileOf(Job)
        BY <2>3, <3>2, JobsFacts, FileOfJob
      <4>2. Own(FileOf(Jobs[i]))
        BY <2>2, <4>1 DEF Progress
      <4> QED
        BY <2>1, <2>4, <4>1, <4>2, OwnStays
    <3> QED
      BY <3>1, <3>2
  <2>7. /\ jobs' \in Seq(JobSet) /\ Len(jobs') = Len(jobs) - 1
        /\ \A i \in 1..Len(jobs') : jobs'[i] = jobs[i + 1]
    BY <2>1 DEF ToolInv
  <2>8. Len(jobs) \in Nat /\ Len(jobs) = Len(Jobs) - k /\ \A i \in 1..Len(jobs) : jobs[i] = Jobs[k + i]
    BY <2>2 DEF Progress, ToolInv
  <2>9. Progress(k + 1)'
    <3>1. Len(jobs') = Len(Jobs) - (k + 1)
      BY <2>3, <2>7, <2>8, JobsFacts
    <3>2. ASSUME NEW i \in 1..Len(jobs') PROVE jobs'[i] = Jobs[(k + 1) + i]
      <4>1. i + 1 \in 1..Len(jobs) /\ k + (i + 1) = (k + 1) + i
        BY <2>7, <2>8
      <4> QED
        BY <2>7, <2>8, <4>1
    <3>3. ASSUME NEW i \in 1..(k + 1) PROVE Own(FileOf(Jobs[i]))'
      <4>1. i \in 1..k \/ i = k + 1
        BY <2>3, JobsFacts
      <4> QED
        BY <2>5, <2>6, <4>1
    <3> QED
      BY <3>1, <3>2, <3>3 DEF Progress
  <2> QED
    BY <2>1, <2>3, <2>4, <2>7, <2>9, JobsFacts DEF ToolInv
<1>4. CASE ToolEnds
  <2>1. toolPc = "running" /\ jobs = << >> /\ toolPc' = "done" /\ UNCHANGED <<run, jobs, certFile, keyFile>>
    BY <1>4 DEF ToolEnds
  <2>2. PICK k \in 0..Len(Jobs) : Progress(k)
    BY <2>1 DEF ToolInv
  <2>3. k = Len(Jobs)
    BY <2>1, <2>2, JobsFacts DEF Progress
  <2>4. ASSUME NEW f \in Files PROVE Own(f)'
    <3>1. PICK i \in 1..Len(Jobs) : f = FileOf(Jobs[i])
      BY JobsFacts DEF Files
    <3>2. Own(f)
      BY <2>1, <2>2, <2>3, <3>1 DEF Progress
    <3> QED
      BY <2>1, <3>2, OwnStays
  <2> QED
    BY <2>1, <2>4 DEF ToolInv
<1>5. CASE Fatal
  <2>1. toolPc' = "failed" /\ jobs' = << >> /\ UNCHANGED <<certFile, keyFile>>
    BY <1>5 DEF Fatal
  <2> QED
    BY <2>1 DEF ToolInv
<1> QED
  BY <1>1, <1>2, <1>3, <1>4, <1>5 DEF GenerateCertificateBundle

\* A device comes only to a finished bundle, which then stays as it is.
BundleInv == ToolInv /\ (client = "device" => toolPc = "done")

LEMMA DeploymentBundle == BundleInv /\ [DeploymentNext]_deploymentVars => BundleInv'
<1> SUFFICES ASSUME BundleInv, [DeploymentNext]_deploymentVars PROVE BundleInv'
  OBVIOUS
<1>1. CASE MakeBundle
  BY <1>1, ToolsStep DEF MakeBundle, BundleInv
<1>2. CASE UNCHANGED toolVars /\ (client' = "device" => toolPc = "done")
  <2>1. UNCHANGED <<run, toolPc, jobs, certFile, keyFile>>
    BY <1>2 DEF toolVars
  <2>2. \A f : Own(f) => Own(f)'
    BY <2>1, OwnStays
  <2>3. Job' = Job /\ CertOf(Job)' = CertOf(Job)
    BY <2>1 DEF Job, CertOf
  <2>4. \A k \in 0..Len(Jobs) : Progress(k) => Progress(k)'
    BY <2>1, <2>2, <2>3, JobsFacts DEF Progress
  <2>5. ToolInv'
    BY <2>1, <2>2, <2>3, <2>4 DEF BundleInv, ToolInv
  <2> QED
    BY <1>2, <2>1, <2>5 DEF BundleInv
<1>3. CASE \E c \in {"vehicle", "operator", "device"} : ClientComes(c)
  BY <1>2, <1>3 DEF ClientComes
<1>4. CASE VehicleStep \/ DeviceStep \/ OperatorStep \/ UNCHANGED deploymentVars
  BY <1>2, <1>4 DEF VehicleStep, DeviceStep, OperatorStep, deploymentVars, BundleInv
<1> QED
  BY <1>1, <1>3, <1>4 DEF DeploymentNext

\* The invariant of the bundle.
THEOREM BundleInvariance == DeploymentSpec => []BundleInv
<1>1. DeploymentInit => BundleInv
  BY ToolsInitInv DEF DeploymentInit, BundleInv
<1> QED
  BY <1>1, DeploymentBundle, PTL DEF DeploymentSpec

\* What is whole is of this run.
LEMMA WholeIsOwn ==
  ASSUME Own(FileOf(<<RootName, "ca">>)), NEW f, Own(f)
  PROVE  GoTogether(f)
<1>1. \A job : CertOf(job).ca = run
  BY DEF CertOf, Certificate
<1>2. PICK i \in 1..Len(Jobs) : certFile[f] \in Copied(CertOf(Jobs[i])) /\ keyFile[f] \in Copied(CertOf(Jobs[i]).pair)
  BY DEF Own
<1>3. PICK j \in 1..Len(Jobs) : certFile[FileOf(<<RootName, "ca">>)] \in Copied(CertOf(Jobs[j]))
  BY DEF Own
<1>4. TrustedCA \in {0, run}
  BY <1>1, <1>3 DEF TrustedCA, Copied, Nothing
<1>5. certFile[f] # Nothing => certFile[f] = <<CertOf(Jobs[i])>>
  BY <1>2 DEF Copied
<1>6. keyFile[f] # Nothing => keyFile[f] = <<CertOf(Jobs[i]).pair>>
  BY <1>2 DEF Copied
<1> QED
  BY <1>1, <1>4, <1>5, <1>6 DEF GoTogether

LEMMA CAIsAFile == FileOf(<<RootName, "ca">>) \in Files
BY JobsFacts, FileOfJob

\* For any IDs, also ones that share a file, however many runs were cut short
\* before and whichever writes were lost, a run that ended leaves no mixture:
\* what is whole goes together.
THEOREM BundlesConsistent == DeploymentSpec => []BundleConsistent
<1>1. BundleInv => BundleConsistent
  BY WholeIsOwn, CAIsAFile DEF BundleInv, ToolInv, BundleConsistent
<1> QED
  BY <1>1, BundleInvariance, PTL

-----------------------------------------------------------------------------
\* Identities.  A certificate that is not refused gives its own common name,
\* dots replaced, as the device.

\* The three older issuers tell devices and boards apart, and refuse nobody.
LEMMA KnownIssuer ==
  ASSUME NEW cert, cert.issuer \in knownIssuers
  PROVE  CreateIdentityFromCert(cert) =
           Identified(IF /\ cert.issuer = "Tesla Motors Products CA"
                         /\ cert.ou # << >> /\ cert.ou[1] = "Tesla Motors SN"
                      THEN Label("vehicle_board_device") ELSE Label("vehicle_device"),
                      DeviceIDOf(cert))
<1>1. cert.issuer \notin knownOIDIssuers
  BY DEF knownIssuers, knownOIDIssuers
<1> QED
  BY <1>1, Zenon DEF CreateIdentityFromCert

LEMMA IdentityOfOID ==
  ASSUME NEW cert, NEW d
  PROVE  \/ \E e \in {"unauthorized", "excluded"} : CreateIdentityFromOID(cert, d) = Refused(e)
         \/ \E t : CreateIdentityFromOID(cert, d) = Identified(t, d)
BY DEF CreateIdentityFromOID

LEMMA IdentityOfCert ==
  ASSUME NEW cert
  PROVE  \/ \E e \in {"unauthorized", "excluded"} : CreateIdentityFromCert(cert) = Refused(e)
         \/ \E t : CreateIdentityFromCert(cert) = Identified(t, DeviceIDOf(cert))
<1>1. CASE cert.issuer \in knownIssuers
  BY <1>1, KnownIssuer
<1>2. CASE cert.issuer \in knownOIDIssuers
  <2>1. /\ cert.issuer \in knownIssuers \cup knownOIDIssuers
        /\ cert.issuer # "Tesla Motors Products CA"
    BY <1>2 DEF knownOIDIssuers
  <2>2. CreateIdentityFromCert(cert) = CreateIdentityFromOID(cert, DeviceIDOf(cert))
    BY <1>2, <2>1, Zenon DEF CreateIdentityFromCert
  <2> QED
    BY <2>2, IdentityOfOID
<1>3. CASE cert.issuer \notin knownIssuers \cup knownOIDIssuers
  <2>1. cert.issuer \notin knownOIDIssuers /\ cert.issuer # "Tesla Motors Products CA"
    BY <1>3 DEF knownIssuers
  <2>2. CreateIdentityFromCert(cert) = Refused("unauthorized")
    BY <1>3, <2>1, Zenon DEF CreateIdentityFromCert
  <2> QED
    BY <2>2
<1> QED
  BY <1>1, <1>2, <1>3

LEMMA CertifiedDevice ==
  ASSUME NEW c, ExtractIdentityFromConnection(c).err = "none"
  PROVE  ExtractIdentityFromConnection(c).deviceID = DeviceIDOf(c.cert)
<1>1. \A e : Refused(e).err = e
  BY DEF Refused
<1>2. c.verified /\ ExtractIdentityFromConnection(c) = CreateIdentityFromCert(c.cert)
  BY <1>1 DEF ExtractIdentityFromConnection
<1>3. \A t, d : Identified(t, d).deviceID = d
  BY DEF Identified
<1> QED
  BY <1>1, <1>2, <1>3, IdentityOfCert

\* Whichever run made it, a certificate with a type has the identity its file
\* is named after.
LEMMA IdentityOfJob ==
  ASSUME NEW n, NEW cn, NEW usage, CreateIdentityFromCert(Certificate(0, cn, usage)).err = "none"
  PROVE  CreateIdentityFromCert(Certificate(n, cn, usage)) = CreateIdentityFromCert(Certificate(0, cn, usage))
<1> DEFINE a == Certificate(n, cn, usage)
           b == Certificate(0, cn, usage)
<1>1. /\ a.issuer = ClientCaName /\ b.issuer = ClientCaName /\ a.cn = b.cn /\ a.ou = b.ou
      /\ a.oids = << >> /\ b.oids = << >>
  BY DEF Certificate
<1>2. DeviceIDOf(a) = DeviceIDOf(b)
  BY <1>1 DEF DeviceIDOf
<1>3. \A e : Refused(e).err = e
  BY DEF Refused
<1>4. CreateIdentityFromCert(b).err = "none"
  OBVIOUS
<1> HIDE DEF a, b
<1>5. b.issuer \in knownIssuers
  <2>1. CASE b.issuer \in knownOIDIssuers
    <3>1. b.issuer # "Tesla Motors Products CA"
      BY <2>1 DEF knownOIDIssuers
    <3>2. CreateIdentityFromCert(b) = CreateIdentityFromOID(b, DeviceIDOf(b))
      BY <2>1, <3>1, Zenon DEF CreateIdentityFromCert
    <3>3. {i \in DOMAIN b.oids : b.oids[i] \in excludedOIDs \cup DOMAIN oidMap} = {}
      BY <1>1
    <3>4. CreateIdentityFromOID(b, DeviceIDOf(b)) = Refused("unauthorized")
      BY <3>3 DEF CreateIdentityFromOID
    <3> QED
      BY <1>3, <1>4, <3>2, <3>4
  <2>2. CASE b.issuer \notin knownIssuers \cup knownOIDIssuers
    <3>1. b.issuer \notin knownOIDIssuers /\ b.issuer # "Tesla Motors Products CA"
      BY <2>2 DEF knownIssuers
    <3>2. CreateIdentityFromCert(b) = Refused("unauthorized")
      BY <2>2, <3>1, Zenon DEF CreateIdentityFromCert
    <3> QED
      BY <1>3, <1>4, <3>2
  <2> QED
    BY <2>1, <2>2
<1>6. CreateIdentityFromCert(a) = CreateIdentityFromCert(b)
  BY <1>1, <1>2, <1>5, KnownIssuer
<1> QED
  BY <1>6 DEF a, b

-----------------------------------------------------------------------------
\* Records.  No transform touches the VIN.
LEMMA VinKept ==
  ASSUME NEW txType, NEW m, "vin" \in DOMAIN m
  PROVE  Transformed(txType, m).vin = m.vin
<1>1. CASE txType = "alerts"
  <2>1. Transformed(txType, m) = TransformTimestamp(m)
    BY <1>1, Zenon DEF Transformed
  <2> QED
    BY <2>1 DEF TransformTimestamp
<1>2. CASE txType = "V"
  <2>1. Transformed(txType, m) = TransformScientificNotation(TransformLocation(m))
    BY <1>2, Zenon DEF Transformed
  <2>2. TransformLocation(m).vin = m.vin /\ "vin" \in DOMAIN TransformLocation(m)
    BY DEF TransformLocation
  <2>3. \A p : "vin" \in DOMAIN p => TransformScientificNotation(p).vin = p.vin
    BY DEF TransformScientificNotation
  <2> QED
    BY <2>1, <2>2, <2>3
<1>3. CASE txType \notin {"alerts", "V"}
  BY <1>3, Zenon DEF Transformed
<1> QED
  BY <1>1, <1>2, <1>3

\* The second an alert started at is what it is converted to.
InstantsIn(m) ==
  \A i \in DOMAIN m.alerts :
    m.alerts[i].startedAt # << >> => m.alerts[i].startedAt[1].seconds = m.alerts[i].instant

LEMMA MeantSecond ==
  ASSUME NEW t, t.seconds \in Int, NEW x \in Nat, Means(t, x)
  PROVE  ConvertTimestamp(t).seconds = x
<1>1. CASE t.seconds < MaxSecondsInDuration
  <2>1. t.seconds = x
    BY <1>1, MaxSecondsAssumption DEF Means
  <2> QED
    BY <1>1, <2>1 DEF ConvertTimestamp
<1>2. CASE ~(t.seconds < MaxSecondsInDuration)
  <2>1. t.seconds \in (1000 * x)..(1000 * x + 999)
    BY <1>2, MaxSecondsAssumption DEF Means
  <2>2. t.seconds \div 1000 = x
    BY <2>1
  <2> QED
    BY <1>2, <2>2 DEF ConvertTimestamp
<1> QED
  BY <1>1, <1>2

LEMMA InstantsConverted ==
  ASSUME NEW m, NEW v, IsVehicleAlerts(m),
         \A i \in DOMAIN m.alerts :
            /\ "instant" \in DOMAIN m.alerts[i] /\ m.alerts[i].instant \in Nat
            /\ m.alerts[i].startedAt # << >> => Means(m.alerts[i].startedAt[1], m.alerts[i].instant)
  PROVE  InstantsIn(TransformTimestamp([m EXCEPT !.vin = v]))
<1> DEFINE p == [m EXCEPT !.vin = v]
           q == TransformTimestamp(p)
<1>1. "alerts" \in DOMAIN p /\ p.alerts = m.alerts
  BY DEF IsVehicleAlerts
<1> HIDE DEF p
<1>2. q.alerts = [i \in DOMAIN m.alerts |-> ConvertAlert(m.alerts[i])]
  BY <1>1 DEF TransformTimestamp
<1> HIDE DEF q
<1>3. ASSUME NEW i \in DOMAIN q.alerts, q.alerts[i].startedAt # << >>
      PROVE  q.alerts[i].startedAt[1].seconds = q.alerts[i].instant
  <2>1. i \in DOMAIN m.alerts
    BY <1>2
  <2>2. q.alerts[i] = ConvertAlert(m.alerts[i])
    BY <1>2, <2>1
  <2>3. {"startedAt", "endedAt", "instant"} \subseteq DOMAIN m.alerts[i]
    BY <2>1 DEF IsVehicleAlerts
  <2>4. /\ q.alerts[i].startedAt = ConvertOptional(m.alerts[i].startedAt)
        /\ q.alerts[i].instant = m.alerts[i].instant
    BY <2>2, <2>3 DEF ConvertAlert
  <2>5. m.alerts[i].startedAt # << >>
    BY <1>3, <2>4 DEF ConvertOptional
  <2>6. q.alerts[i].startedAt[1] = ConvertTimestamp(m.alerts[i].startedAt[1])
    BY <2>4, <2>5 DEF ConvertOptional
  <2>7. m.alerts[i].startedAt[1].seconds \in Int
    BY <2>1, <2>5 DEF IsVehicleAlerts, IsOptional, Timestamp
  <2> QED
    BY <2>1, <2>4, <2>5, <2>6, <2>7, MeantSecond
<1> QED
  BY <1>3 DEF InstantsIn, p, q

-----------------------------------------------------------------------------
\* A message that can be read holds what a vehicle encodes for its topic.
Carries(b) == IsStreamMessage(b) /\ ~Broken(b) => Encodes(EnvelopeTopic(b), b[1].payload)

\* A Go slice.
Slice(s) == \E n \in Nat : DOMAIN s = 1..n

\* The errors that end in an error reply.
Refusals == {"too_big", "rejected"}

\* What holds of the record r that a session of identity id makes of bytes b:
\* it names b if that can be read, it is under the vehicle of the certificate,
\* and a record with a decoded message has that very message in its payload,
\* unless it could not be marshalled.
MadeFrom(r, id, b) ==
  /\ r.txid = IF Readable(b) THEN EnvelopeTxid(b) ELSE NoString
  /\ TooBig(b) \/ Broken(b) => r.err \in Refusals
  /\ r.err = "none" => r.vin = id.deviceID
  /\ r.err = "none" /\ r.txType \in ProtoTypes => r.proto # << >>
  /\ r.proto # << >> =>
       /\ r.txType \in ProtoTypes
       /\ r.txType = "alerts" => InstantsIn(r.proto[1])
       /\ r.txType = "V" => Slice(r.proto[1].data)
       /\ r.err = "none" => r.proto = <<r.payload[2]>> /\ r.payload[2].vin = id.deviceID

LEMMA EncodedHasVin ==
  ASSUME NEW topic, NEW payload, Encodes(topic, payload), payload[1] = "proto"
  PROVE  "vin" \in DOMAIN payload[2]
BY DEF Encodes, IsPayload, IsVehicleAlerts, IsVehicleErrors, IsVehicleConnectivity

\* The transforms of a payload keep its data a slice.
LEMMA SliceKept ==
  ASSUME NEW m, "data" \in DOMAIN m, Slice(m.data)
  PROVE  Slice(TransformScientificNotation(TransformLocation(m)).data)
<1>1. \A p : "data" \in DOMAIN p /\ Slice(p.data) => Slice(TransformScientificNotation(p).data)
  <2> SUFFICES ASSUME NEW p, "data" \in DOMAIN p PROVE DOMAIN TransformScientificNotation(p).data = DOMAIN p.data
    BY DEF Slice
  <2> QED
    BY DEF TransformScientificNotation
<1>2. "data" \in DOMAIN TransformLocation(m) /\ DOMAIN TransformLocation(m).data = DOMAIN m.data
  BY DEF TransformLocation
<1> QED
  BY <1>1, <1>2 DEF Slice

\* The message after the transforms.
LEMMA TransformedMessage ==
  ASSUME NEW topic, NEW payload, NEW vin, Encodes(topic, payload), payload[1] = "proto"
  PROVE  LET m == Transformed(topic, [payload[2] EXCEPT !.vin = vin]) IN
         /\ m.vin = vin
         /\ topic = "alerts" => InstantsIn(m)
         /\ topic = "V" => Slice(m.data)
<1> DEFINE w == [payload[2] EXCEPT !.vin = vin]
<1>1. "vin" \in DOMAIN w /\ w.vin = vin
  BY EncodedHasVin
<1>2. Transformed(topic, w).vin = vin
  <2> HIDE DEF w
  <2> QED
    BY <1>1, VinKept
<1>3. ASSUME topic = "alerts"
      PROVE  InstantsIn(Transformed(topic, w))
  <2>1. Transformed(topic, w) = TransformTimestamp(w)
    BY <1>3, Zenon DEF Transformed
  <2>2. /\ IsVehicleAlerts(payload[2])
        /\ \A i \in DOMAIN payload[2].alerts :
             /\ "instant" \in DOMAIN payload[2].alerts[i] /\ payload[2].alerts[i].instant \in Nat
             /\ payload[2].alerts[i].startedAt # << >> =>
                  Means(payload[2].alerts[i].startedAt[1], payload[2].alerts[i].instant)
    BY <1>3 DEF Encodes
  <2>3. InstantsIn(TransformTimestamp(w))
    BY <2>2, InstantsConverted
  <2> QED
    BY <2>1, <2>3
<1>4. ASSUME topic = "V"
      PROVE  Slice(Transformed(topic, w).data)
  <2>1. Transformed(topic, w) = TransformScientificNotation(TransformLocation(w))
    BY <1>4, Zenon DEF Transformed
  <2>2. "data" \in DOMAIN payload[2] /\ Slice(payload[2].data)
    BY <1>4 DEF Encodes, IsPayload, Slice
  <2>3. "data" \in DOMAIN w /\ w.data = payload[2].data
    BY <2>2
  <2> HIDE DEF w
  <2> QED
    BY <2>1, <2>2, <2>3, SliceKept
<1> QED
  BY <1>2, <1>3, <1>4

LEMMA RecordOfMessage ==
  ASSUME NEW id, NEW b, NEW now, NEW dec, Carries(b)
  PROVE  MadeFrom(NewRecord(id, b, now, dec), id, b)
<1> DEFINE d == Deserialize(id, b, now)
           r == NewRecord(id, b, now, dec)
<1>0. CASE TooBig(b)
  <2>1. r = [EmptyRecord EXCEPT !.err = "too_big"]
    BY <1>0 DEF NewRecord
  <2>2. r.err = "too_big" /\ r.proto = << >> /\ r.txid = NoString
    BY <2>1 DEF EmptyRecord
  <2> HIDE DEF r
  <2> QED
    BY <1>0, <2>2 DEF MadeFrom, Refusals, Readable, r
<1>a. CASE ~TooBig(b) /\ Broken(b)
  <2>1. d = [EmptyRecord EXCEPT !.raw = b, !.err = "rejected"]
    BY <1>a DEF Deserialize
  <2>2. d.err = "rejected" /\ d.proto = << >> /\ d.txid = NoString
    BY <2>1 DEF EmptyRecord
  <2>3. r = d
    BY <1>a, <2>2 DEF NewRecord
  <2> HIDE DEF d, r
  <2> QED
    BY <1>a, <2>2, <2>3 DEF MadeFrom, Refusals, Readable, r
<1>1. CASE ~TooBig(b) /\ ~Broken(b) /\ ~IsStreamMessage(b)
  <2>1. d = GuessError(b)
    BY <1>1 DEF Deserialize
  <2>2. /\ d.err = "unknown_type" /\ d.proto = << >>
        /\ d.txid = IF HasEnvelope(b) THEN EnvelopeTxid(b) ELSE NoString
    BY <2>1 DEF GuessError, EmptyRecord
  <2>3. r = d
    BY <1>1, <2>2 DEF NewRecord
  <2> HIDE DEF d, r
  <2> QED
    BY <1>1, <2>2, <2>3 DEF MadeFrom, Readable, r
<1>2. CASE ~TooBig(b) /\ ~Broken(b) /\ IsStreamMessage(b)
  <2> DEFINE topic == EnvelopeTopic(b)
             payload == b[1].payload
             txid == EnvelopeTxid(b)
  <2>0. (IF Readable(b) THEN EnvelopeTxid(b) ELSE NoString) = txid
    BY <1>2 DEF Readable, IsStreamMessage
  <2>1. PICK raw, err : d = [txid |-> txid, txType |-> topic, vin |-> id.deviceID,
                             payload |-> payload, raw |-> raw, proto |-> << >>, err |-> err]
    BY <1>2 DEF Deserialize, StreamMessageFromBytes
  <2>2. Encodes(topic, payload)
    BY <1>2 DEF Carries
  <2> HIDE DEF d, topic, payload, txid
  <2>3. CASE err # "none"
    <3>1. r = d
      BY <1>2, <2>1, <2>3 DEF NewRecord, d
    <3> HIDE DEF r
    <3> QED
      BY <1>2, <2>0, <2>1, <2>3, <3>1 DEF MadeFrom, r
  <2>4. CASE err = "none"
    <3> DEFINE p == ApplyProtoRecordTransforms(d)
    <3>1. r = ApplyRecordTransforms(d, dec)
      BY <1>2, <2>1, <2>4 DEF NewRecord, d
    <3>2. \/ r = p
          \/ p.err = "none" /\ r = [p EXCEPT !.payload = ToJSON(p)]
          \/ p.err = "none" /\ r = [p EXCEPT !.payload = <<"none">>, !.err = "rejected"]
      BY <3>1 DEF ApplyRecordTransforms
    <3> HIDE DEF r
    <3>3. CASE topic \notin ProtoTypes
      <4>1. p = d
        BY <2>1, <3>3 DEF ApplyProtoRecordTransforms
      <4> HIDE DEF p
      <4>2. r.txid = txid /\ r.vin = id.deviceID /\ r.proto = << >> /\ r.txType = topic
        <5>1. CASE r = d
          BY <2>1, <5>1
        <5>2. CASE r = [d EXCEPT !.payload = ToJSON(d)]
          <6>1. PICK j : r = [d EXCEPT !.payload = j]
            BY <5>2
          <6> QED
            BY <2>1, <6>1
        <5>3. CASE r = [d EXCEPT !.payload = <<"none">>, !.err = "rejected"]
          BY <2>1, <5>3
        <5> QED
          BY <3>2, <4>1, <5>1, <5>2, <5>3
      <4> QED
        BY <1>2, <2>0, <3>3, <4>2 DEF MadeFrom, r
    <3>4. CASE topic \in ProtoTypes /\ payload[1] # "proto"
      <4>1. p = [d EXCEPT !.err = "rejected"]
        BY <2>1, <3>4 DEF ApplyProtoRecordTransforms
      <4> HIDE DEF p
      <4>2. p.err = "rejected" /\ p.txid = txid /\ p.proto = << >>
        BY <2>1, <4>1
      <4>3. r = p
        BY <3>2, <4>2
      <4> QED
        BY <1>2, <2>0, <4>2, <4>3 DEF MadeFrom, r
    <3>5. CASE topic \in ProtoTypes /\ payload[1] = "proto"
      <4> DEFINE m == Transformed(topic, [payload[2] EXCEPT !.vin = id.deviceID])
      <4>1. p = [d EXCEPT !.payload = <<"proto", m>>, !.proto = <<m>>]
        BY <2>1, <3>5 DEF ApplyProtoRecordTransforms
      <4>2. /\ m.vin = id.deviceID
            /\ topic = "alerts" => InstantsIn(m)
            /\ topic = "V" => Slice(m.data)
        BY <2>2, <3>5, TransformedMessage
      <4> HIDE DEF p, m
      <4>3. /\ p.txid = txid /\ p.vin = id.deviceID /\ p.err = "none"
            /\ p.proto = <<m>> /\ p.txType = topic /\ p.payload = <<"proto", m>>
            /\ "payload" \in DOMAIN p /\ "err" \in DOMAIN p
        BY <2>1, <2>4, <4>1
      <4>4. ToJSON(p) = <<"json", m>>
        BY <4>3 DEF ToJSON
      <4>5. /\ r.txid = txid /\ r.vin = id.deviceID
            /\ r.proto = <<m>> /\ r.txType = topic
            /\ r.err = "none" => r.payload \in {<<"proto", m>>, <<"json", m>>}
        <5>1. CASE r = p
          BY <4>3, <5>1
        <5>2. CASE r = [p EXCEPT !.payload = ToJSON(p)]
          <6>1. r = [p EXCEPT !.payload = <<"json", m>>]
            BY <4>4, <5>2
          <6> QED
            BY <4>3, <6>1
        <5>3. CASE r = [p EXCEPT !.payload = <<"none">>, !.err = "rejected"]
          <6>1. r.err = "rejected"
            BY <4>3, <5>3
          <6>2. r.txid = p.txid /\ r.vin = p.vin /\ r.proto = p.proto /\ r.txType = p.txType
            BY <2>1, <4>1, <5>3
          <6> QED
            BY <4>3, <6>1, <6>2
        <5> QED
          BY <3>2, <5>1, <5>2, <5>3
      <4>6. r.err = "none" => r.payload[2] = m
        BY <4>5
      <4>7. r.proto # << >> /\ r.proto[1] = m
        BY <4>5
      <4> QED
        BY <1>2, <2>0, <3>5, <4>2, <4>5, <4>6, <4>7 DEF MadeFrom, r
    <3> QED
      BY <3>3, <3>4, <3>5
  <2> QED
    BY <2>3, <2>4
<1> QED
  BY <1>0, <1>a, <1>1, <1>2

\* A reply names the message it answers.
LEMMA ReplyOf ==
  ASSUME NEW r
  PROVE  /\ HasEnvelope(AckOf(r)) /\ EnvelopeTxid(AckOf(r)) = r.txid
         /\ IsStreamMessage(ErrorOf(r)) /\ EnvelopeTxid(ErrorOf(r)) = r.txid
BY DEF AckOf, ErrorOf, StreamAckToBytes, StreamToBytes, NewStreamMessage, HasEnvelope, EnvelopeTxid, NoBytes,
       IsStreamMessage, EnvelopeType

-----------------------------------------------------------------------------
\* Messages.  A StreamMessage has its ten fields, and the bytes it was made
\* from, if it still has them, are those of its present fields.
MessageFields == {"fsm", "topic", "txid", "messageId", "senderId", "deviceType", "deviceId",
                  "deliveredAt", "createdAt", "payload"}

Shaped(m) == m = [f \in MessageFields |-> m[f]]

Current(m) == Shaped(m) /\ m.fsm \in {NoBytes, StreamToBytes(m)}

\* A message and what an operation makes of it.
Amended(m, n) == Current(n) /\ n.topic = m.topic /\ n.payload = m.payload

LEMMA FreshIsCurrent ==
  ASSUME NEW topic, NEW txid, NEW payload
  PROVE  LET m == NewStreamMessage(topic, txid, payload) IN
         Current(m) /\ m.topic = topic /\ m.payload = payload
BY DEF NewStreamMessage, Current, Shaped, MessageFields

\* The bytes of a message are those of its fields, and reading them gives the
\* message back.
LEMMA BytesOfCurrent ==
  ASSUME NEW m, Current(m)
  PROVE  /\ ToBytes(m) = StreamToBytes(m)
         /\ StreamMessageFromBytes(ToBytes(m)) = [m EXCEPT !.fsm = StreamToBytes(m)]
<1> DEFINE bytes == StreamToBytes(m)
           n == StreamMessageFromBytes(bytes)
           k == [m EXCEPT !.fsm = bytes]
<1>1. StreamToBytes(bytes[1]) = bytes /\ bytes # NoBytes
  BY DEF StreamToBytes, NoBytes
<1>2. ToBytes(m) = bytes
  BY <1>1 DEF ToBytes, Current
<1>3. Shaped(n)
  BY DEF StreamMessageFromBytes, Shaped, MessageFields
<1>4. /\ n.fsm = bytes /\ n.topic = m.topic /\ n.txid = m.txid /\ n.messageId = m.messageId
      /\ n.senderId = m.senderId /\ n.deviceType = m.deviceType /\ n.deviceId = m.deviceId
      /\ n.deliveredAt = m.deliveredAt /\ n.createdAt = m.createdAt /\ n.payload = m.payload
  BY DEF StreamMessageFromBytes, StreamToBytes, EnvelopeTopic, EnvelopeTxid
<1> HIDE DEF bytes
<1>5. Shaped(k)
  BY DEF Current, Shaped
<1>6. /\ k.fsm = bytes /\ k.topic = m.topic /\ k.txid = m.txid /\ k.messageId = m.messageId
      /\ k.senderId = m.senderId /\ k.deviceType = m.deviceType /\ k.deviceId = m.deviceId
      /\ k.deliveredAt = m.deliveredAt /\ k.createdAt = m.createdAt /\ k.payload = m.payload
  BY DEF Current, Shaped, MessageFields
<1> HIDE DEF n, k
<1>7. \A f \in MessageFields : n[f] = k[f]
  BY <1>4, <1>6 DEF MessageFields
<1>8. n = k
  BY <1>3, <1>5, <1>7 DEF Shaped
<1> QED
  BY <1>2, <1>8 DEF n, k, bytes

LEMMA SettersKeep ==
  ASSUME NEW m, Current(m), NEW x, NEW y
  PROVE  /\ Amended(m, SetIdentity(m, x, y))
         /\ Amended(m, SetSenderID(m, x))
         /\ Amended(m, SetMessageID(m, x))
         /\ Amended(m, StreamMessageFromBytes(ToBytes(m)))
<1>1. Shaped(m)
  BY DEF Current
<1>2. ASSUME NEW n \in {SetIdentity(m, x, y), SetSenderID(m, x), SetMessageID(m, x)}
      PROVE  Amended(m, n)
  <2>1. Shaped(n)
    BY <1>1, <1>2 DEF Shaped, SetIdentity, SetSenderID, SetMessageID
  <2>2. n.topic = m.topic /\ n.payload = m.payload /\ n.fsm = NoBytes
    BY <1>1, <1>2 DEF Shaped, MessageFields, SetIdentity, SetSenderID, SetMessageID
  <2> QED
    BY <2>1, <2>2 DEF Amended, Current
<1>3. Amended(m, StreamMessageFromBytes(ToBytes(m)))
  <2> DEFINE bytes == StreamToBytes(m)
             n == [m EXCEPT !.fsm = bytes]
  <2> HIDE DEF bytes
  <2>1. Shaped(n)
    BY <1>1 DEF Shaped
  <2>2. /\ n.topic = m.topic /\ n.txid = m.txid /\ n.messageId = m.messageId
        /\ n.senderId = m.senderId /\ n.deviceType = m.deviceType /\ n.deviceId = m.deviceId
        /\ n.deliveredAt = m.deliveredAt /\ n.createdAt = m.createdAt /\ n.payload = m.payload
        /\ n.fsm = bytes
    BY <1>1 DEF Shaped, MessageFields
  <2> HIDE DEF n
  <2>3. StreamToBytes(n) = bytes
    BY <2>2 DEF StreamToBytes, bytes
  <2>4. Amended(m, n)
    BY <2>1, <2>2, <2>3 DEF Amended, Current
  <2> QED
    BY <2>4, BytesOfCurrent DEF n, bytes
<1> QED
  BY <1>2, <1>3

\* The bytes of a message carry what the message holds.
LEMMA SentCarries ==
  ASSUME NEW m, Encodes(m.topic, m.payload)
  PROVE  Carries(StreamToBytes(m))
BY DEF Carries, StreamToBytes, EnvelopeTopic

-----------------------------------------------------------------------------
\* The way of a message.  Who is connected is who the certificate says, and
\* only an identity without an error gets past "refused".
Early == {"offline", "refused", "open", "composing", "sent"}
Late == {"dispatching", "answered", "panicked"}

ConnectionInv ==
  /\ stage \in Early \cup Late
  /\ stage = "offline" <=> tls = << >>
  /\ tls # << >> => ident = ExtractIdentityFromConnection(tls[1])
  /\ stage \notin {"offline", "refused"} => ident.err = "none"
  /\ stage = "refused" => ident.err # "none"

\* A message being composed may be taken up from its bytes at any time.
MessageInv ==
  /\ Current(msg)
  /\ stage = "composing" => Encodes(msg.topic, msg.payload)

\* There is no record, output or reply before the message is read; then the
\* record is made from it.
RecordInv ==
  /\ Carries(wire)
  /\ stage \in Early => rec = EmptyRecord /\ out = Nowhere /\ reply = NoBytes
  /\ stage \in Late => MadeFrom(rec, ident, wire)

\* Whatever a dispatcher was given, it is of this record, and so is the reply.
OutputInv ==
  /\ DOMAIN out = {"bytes", "logger", "mqtt"}
  /\ \A d \in DOMAIN out : out[d] # << >> => out[d] = Produced(d)
  /\ reply \in {NoBytes, AckOf(rec), ErrorOf(rec)}

\* A message that is refused goes nowhere, and is answered by an error.
AnswerInv == rec.err \in Refusals => stage # "dispatching" /\ reply \in {NoBytes, ErrorOf(rec)}

PathInv == ConnectionInv /\ MessageInv /\ RecordInv /\ OutputInv /\ AnswerInv

LEMMA PathInitInv == PathInit => PathInv
<1> SUFFICES ASSUME PathInit PROVE PathInv
  OBVIOUS
<1>1. ConnectionInv
  BY DEF PathInit, ConnectionInv, Early
<1>2. MessageInv
  BY FreshIsCurrent DEF PathInit, MessageInv, NoMessage
<1>3. RecordInv
  BY DEF PathInit, RecordInv, Carries, IsStreamMessage, HasEnvelope, Early, Late
<1>4. OutputInv
  BY DEF PathInit, OutputInv, Nowhere
<1>5. AnswerInv
  BY DEF PathInit, AnswerInv
<1> QED
  BY <1>1, <1>2, <1>3, <1>4, <1>5 DEF PathInv

\* Before the message is read, nothing is refused.
LEMMA EarlyAnswer ==
  ASSUME RecordInv', stage' \in Early
  PROVE  AnswerInv'
<1>1. rec' = EmptyRecord
  BY DEF RecordInv
<1>2. EmptyRecord.err \notin Refusals
  BY DEF EmptyRecord, Refusals
<1> QED
  BY <1>1, <1>2 DEF AnswerInv

\* What a step keeps when it leaves the record and the outputs alone.
LEMMA OutputStays ==
  ASSUME OutputInv, UNCHANGED <<rec, out, reply>>
  PROVE  OutputInv'
<1>1. \A d : Produced(d)' = Produced(d)
  BY DEF Produced
<1> QED
  BY <1>1 DEF OutputInv

LEMMA ConnectStep == ASSUME NEW c, PathInv, Connect(c) PROVE PathInv'
<1>1. /\ stage = "offline" /\ tls' = <<c>> /\ ident' = ExtractIdentityFromConnection(c)
      /\ stage' = IF ident'.err = "none" THEN "open" ELSE "refused"
      /\ UNCHANGED <<msg, wire, rec, out, reply>>
  BY DEF Connect
<1>2. ConnectionInv'
  BY <1>1 DEF ConnectionInv, Early
<1>3. MessageInv' /\ RecordInv'
  BY <1>1 DEF PathInv, MessageInv, RecordInv, Early, Late
<1>4. AnswerInv'
  BY <1>1, <1>3, EarlyAnswer DEF Early
<1> QED
  BY <1>1, <1>2, <1>3, <1>4, OutputStays DEF PathInv

LEMMA ComposeStep ==
  ASSUME NEW i, Encodes(i[1], i[2]), PathInv, Compose(i)
  PROVE  PathInv'
<1>1. /\ stage = "open" /\ stage' = "composing" /\ msg' = NewStreamMessage(i[1], Txid, i[2])
      /\ UNCHANGED <<tls, ident, wire, rec, out, reply>>
  BY DEF Compose
<1>2. ConnectionInv'
  BY <1>1 DEF PathInv, ConnectionInv, Early
<1>3. MessageInv'
  BY <1>1, FreshIsCurrent DEF MessageInv
<1>4. RecordInv'
  BY <1>1 DEF PathInv, RecordInv, Early, Late
<1>5. AnswerInv'
  BY <1>1, <1>4, EarlyAnswer DEF Early
<1> QED
  BY <1>1, <1>2, <1>3, <1>4, <1>5, OutputStays DEF PathInv

LEMMA AmendStep == ASSUME PathInv, Amend PROVE PathInv'
<1>1. stage = "composing" /\ UNCHANGED <<stage, tls, ident, wire, rec, out, reply>>
  BY DEF Amend
<1>2. Amended(msg, msg')
  BY SettersKeep DEF Amend, PathInv, MessageInv
<1>3. MessageInv'
  BY <1>1, <1>2 DEF PathInv, MessageInv, Amended
<1>4. ConnectionInv' /\ RecordInv'
  BY <1>1 DEF PathInv, ConnectionInv, RecordInv
<1>5. AnswerInv'
  BY <1>1, <1>4, EarlyAnswer DEF Early
<1> QED
  BY <1>1, <1>3, <1>4, <1>5, OutputStays DEF PathInv

LEMMA SendStep ==
  ASSUME PathInv, Send \/ \E b \in Foreign : SendForeign(b)
  PROVE  PathInv'
<1>1. /\ stage \in {"open", "composing"} /\ stage' = "sent" /\ msg' \in {msg, NoMessage}
      /\ UNCHANGED <<tls, ident, rec, out, reply>>
  BY DEF Send, SendForeign
<1>2. Carries(wire')
  <2>1. CASE Send
    <3>1. wire' = StreamToBytes(msg) /\ Encodes(msg.topic, msg.payload)
      BY <2>1, BytesOfCurrent DEF Send, PathInv, MessageInv
    <3> QED
      BY <3>1, SentCarries
  <2>2. CASE \E b \in Foreign : SendForeign(b)
    BY <2>2, InputsAssumption DEF SendForeign, Carries
  <2> QED
    BY <2>1, <2>2
<1>3. ConnectionInv'
  BY <1>1 DEF PathInv, ConnectionInv, Early
<1>4. MessageInv'
  <2>1. Current(NoMessage)
    BY FreshIsCurrent DEF NoMessage
  <2> QED
    BY <1>1, <2>1 DEF PathInv, MessageInv
<1>5. RecordInv'
  BY <1>1, <1>2 DEF PathInv, RecordInv, Early, Late
<1>6. AnswerInv'
  BY <1>1, <1>5, EarlyAnswer DEF Early
<1> QED
  BY <1>1, <1>3, <1>4, <1>5, <1>6, OutputStays DEF PathInv

\* The server's own message.
LEMMA ConnectivityCarries ==
  ASSUME NEW e \in ConnectivityEvent
  PROVE  Carries(ToBytes(ConnectivityMessage(e)))
<1> DEFINE body == [vin |-> ident.deviceID, connectionId |-> <<"uuid">>, status |-> e,
                    createdAt |-> <<[seconds |-> Now, millis |-> 0]>>]
           m == NewStreamMessage("connectivity", <<"uuid">>, <<"proto", body>>)
           n == SetIdentity(m, ident.clientType, ident.deviceID)
           k == [n EXCEPT !.deviceType = <<Label("vehicle_device")>>, !.createdAt = Now]
<1>1. IsVehicleConnectivity(body)
  BY DEF IsVehicleConnectivity, IsOptional, Timestamp, ConnectivityEvent, Now
<1>2. Encodes("connectivity", <<"proto", body>>)
  <2> HIDE DEF body
  <2> QED
    BY <1>1 DEF Encodes
<1>3. Current(m) /\ m.topic = "connectivity" /\ m.payload = <<"proto", body>>
  <2> HIDE DEF body
  <2> QED
    BY FreshIsCurrent
<1>4. ConnectivityMessage(e) = k
  BY DEF ConnectivityMessage
<1> HIDE DEF body, m
<1>5. Shaped(n) /\ n.topic = "connectivity" /\ n.payload = <<"proto", body>> /\ n.fsm = NoBytes
  <2>1. Shaped(m)
    BY <1>3 DEF Current
  <2> QED
    BY <1>3, <2>1 DEF Shaped, MessageFields, SetIdentity
<1> HIDE DEF n
<1>6. k.fsm = NoBytes /\ k.topic = "connectivity" /\ k.payload = <<"proto", body>>
  BY <1>5 DEF Shaped, MessageFields
<1> HIDE DEF k
<1>7. ToBytes(k) = StreamToBytes(k) /\ Carries(StreamToBytes(k))
  BY <1>2, <1>6, SentCarries DEF ToBytes
<1> QED
  BY <1>4, <1>7

LEMMA DispatchConnectivityStep ==
  ASSUME PathInv, NEW e \in ConnectivityEvent, DispatchConnectivity(e)
  PROVE  PathInv'
<1>1. /\ stage = "open" /\ wire' = ToBytes(ConnectivityMessage(e))
      /\ stage' = IF rec'.err = "none" THEN "dispatching" ELSE "answered"
      /\ rec' = NewRecord(ident, wire', Now, decoded)
      /\ UNCHANGED <<tls, ident, msg, out, reply>>
  BY DEF DispatchConnectivity
<1>2. Carries(wire')
  BY <1>1, ConnectivityCarries
<1>3. MadeFrom(rec', ident, wire')
  BY <1>1, <1>2, RecordOfMessage
<1>4. ConnectionInv'
  BY <1>1 DEF PathInv, ConnectionInv, Early, Late
<1>5. MessageInv'
  BY <1>1 DEF PathInv, MessageInv
<1>6. RecordInv'
  BY <1>1, <1>2, <1>3 DEF RecordInv, Early
<1>7. out' = Nowhere /\ reply' = NoBytes
  BY <1>1 DEF PathInv, RecordInv, Early
<1>8. OutputInv'
  BY <1>7 DEF OutputInv, Nowhere
<1>9. AnswerInv'
  BY <1>1, <1>7 DEF AnswerInv, Refusals
<1> QED
  BY <1>4, <1>5, <1>6, <1>8, <1>9 DEF PathInv

LEMMA ParseStep == ASSUME PathInv, Parse PROVE PathInv'
<1>1. /\ stage = "sent" /\ stage' \in {"answered", "dispatching"}
      /\ rec' = NewRecord(ident, wire, Now, decoded)
      /\ reply' \in {NoBytes, AckOf(rec'), ErrorOf(rec')}
      /\ rec'.err \in Refusals => stage' = "answered" /\ reply' = ErrorOf(rec')
      /\ UNCHANGED <<tls, ident, msg, wire, out>>
  BY DEF Parse, Refusals
<1>2. MadeFrom(rec', ident, wire)
  BY <1>1, RecordOfMessage DEF PathInv, RecordInv
<1>3. ConnectionInv'
  BY <1>1 DEF PathInv, ConnectionInv, Early, Late
<1>4. MessageInv'
  BY <1>1 DEF PathInv, MessageInv
<1>5. RecordInv'
  BY <1>1, <1>2 DEF PathInv, RecordInv, Early
<1>6. out' = Nowhere
  BY <1>1 DEF PathInv, RecordInv, Early
<1>7. AckOf(rec)' = AckOf(rec') /\ ErrorOf(rec)' = ErrorOf(rec')
  OBVIOUS
<1>8. OutputInv'
  BY <1>1, <1>6, <1>7 DEF OutputInv, Nowhere
<1>9. AnswerInv'
  BY <1>1, <1>7 DEF AnswerInv
<1> QED
  BY <1>3, <1>4, <1>5, <1>8, <1>9 DEF PathInv

LEMMA ProduceStep == ASSUME PathInv, Produce PROVE PathInv'
<1> DEFINE h == Head(todo)
<1>1. /\ stage = "dispatching" /\ stage' \in Late
      /\ \/ out' = out
         \/ out' = [out EXCEPT ![h] = Produced(h)]
      /\ UNCHANGED <<tls, ident, msg, wire, rec, reply>>
  BY DEF Produce, Late
<1>2. \A d : Produced(d)' = Produced(d)
  BY <1>1 DEF Produced
<1>3. ConnectionInv' /\ MessageInv' /\ RecordInv'
  BY <1>1 DEF PathInv, ConnectionInv, MessageInv, RecordInv, Early, Late
<1>4. OutputInv'
  <2> HIDE DEF h
  <2> QED
    BY <1>1, <1>2 DEF PathInv, OutputInv
<1>5. AnswerInv'
  BY <1>1 DEF PathInv, AnswerInv
<1> QED
  BY <1>3, <1>4, <1>5 DEF PathInv

LEMMA AnswerStep == ASSUME PathInv, Answer PROVE PathInv'
<1>1. /\ stage = "dispatching" /\ stage' = "answered" /\ reply' \in {NoBytes, AckOf(rec)}
      /\ UNCHANGED <<tls, ident, msg, wire, rec, out>>
  BY DEF Answer
<1>2. \A d : Produced(d)' = Produced(d)
  BY <1>1 DEF Produced
<1>3. ConnectionInv' /\ MessageInv' /\ RecordInv'
  BY <1>1 DEF PathInv, ConnectionInv, MessageInv, RecordInv, Early, Late
<1>4. OutputInv'
  BY <1>1, <1>2 DEF PathInv, OutputInv
<1>5. AnswerInv'
  BY <1>1 DEF PathInv, AnswerInv
<1> QED
  BY <1>3, <1>4, <1>5 DEF PathInv

LEMMA PathStep == ASSUME PathInv, PathNext PROVE PathInv'
<1>1. \A i \in DOMAIN Inputs : Encodes(Inputs[i][1], Inputs[i][2])
  BY InputsAssumption
<1> QED
  BY <1>1, ConnectStep, ComposeStep, AmendStep, SendStep, DispatchConnectivityStep, ParseStep,
     ProduceStep, AnswerStep DEF PathNext

-----------------------------------------------------------------------------
\* In the deployment, a device has connected with files of the bundle, which
\* stays as it is.
DeviceInv ==
  /\ client = "none" => tls = << >>
  /\ client = "device" /\ tls # << >> => tls[1] \in BundleConnections

WayInv == PathInv /\ BundleInv /\ DeviceInv

LEMMA DeploymentWay == WayInv /\ [DeploymentNext]_deploymentVars => WayInv'
<1> SUFFICES ASSUME WayInv, [DeploymentNext]_deploymentVars PROVE WayInv'
  OBVIOUS
<1>1. BundleInv'
  BY DeploymentBundle DEF WayInv
<1>2. CASE VehicleStep
  <2>1. PathInv'
    BY <1>2, PathStep DEF VehicleStep, WayInv
  <2>2. DeviceInv'
    BY <1>2 DEF VehicleStep, DeviceInv
  <2> QED
    BY <1>1, <2>1, <2>2 DEF WayInv
<1>3. CASE DeviceStep
  <2>1. PICK c \in BundleConnections : Connect(c)
    BY <1>3 DEF DeviceStep
  <2>2. PathInv'
    BY <2>1, ConnectStep DEF WayInv
  <2>3. BundleConnections' = BundleConnections
    BY <1>3 DEF DeviceStep, toolVars, BundleConnections, TrustedCA
  <2>4. DeviceInv'
    BY <1>3, <2>1, <2>3 DEF DeviceStep, DeviceInv, Connect
  <2> QED
    BY <1>1, <2>2, <2>4 DEF WayInv
<1>4. CASE UNCHANGED pathVars /\ (client' # client => client = "none") /\ (client # "none" => UNCHANGED toolVars)
  <2>1. UNCHANGED <<stage, tls, ident, decoded, msg, wire, rec, todo, out, reply>>
    BY <1>4 DEF pathVars
  <2>2. ConnectionInv' /\ MessageInv' /\ RecordInv' /\ AnswerInv'
    BY <2>1 DEF WayInv, PathInv, ConnectionInv, MessageInv, RecordInv, AnswerInv
  <2>3. OutputInv'
    BY <2>1, OutputStays DEF WayInv, PathInv
  <2>4. client # "none" => BundleConnections' = BundleConnections
    BY <1>4 DEF toolVars, BundleConnections, TrustedCA
  <2>5. DeviceInv'
    BY <1>4, <2>1, <2>4 DEF WayInv, DeviceInv
  <2> QED
    BY <1>1, <2>2, <2>3, <2>5 DEF WayInv, PathInv
<1>5. \/ VehicleStep \/ DeviceStep
      \/ UNCHANGED pathVars /\ (client' # client => client = "none") /\ (client # "none" => UNCHANGED toolVars)
  BY DEF DeploymentNext, MakeBundle, ClientComes, OperatorStep, deploymentVars
<1> QED
  BY <1>2, <1>3, <1>4, <1>5

\* The invariant of the way of a message.
THEOREM WayInvariance == DeploymentSpec => []WayInv
<1>1. DeploymentInit => WayInv
  BY PathInitInv, ToolsInitInv DEF DeploymentInit, BundleInv, WayInv, PathInit, DeviceInv
<1> QED
  BY <1>1, DeploymentWay, PTL DEF DeploymentSpec

\* A decoded message is that of the record the way ends with.
LEMMA KnownIsMade ==
  ASSUME PathInv, Known
  PROVE  /\ MadeFrom(rec, ident, wire) /\ rec.proto # << >>
         /\ tls # << >> /\ ident = ExtractIdentityFromConnection(tls[1]) /\ ident.err = "none"
<1>1. stage \in Late
  <2>1. EmptyRecord.txType \notin ProtoTypes
    BY DEF EmptyRecord, ProtoTypes
  <2> QED
    BY <2>1 DEF Known, PathInv, RecordInv, ConnectionInv
<1>2. MadeFrom(rec, ident, wire)
  BY <1>1 DEF PathInv, RecordInv
<1> QED
  BY <1>1, <1>2 DEF Known, MadeFrom, PathInv, ConnectionInv, Late

LEMMA BytesProduced ==
  ASSUME PathInv, out["bytes"] # << >>
  PROVE  MessageIn(out["bytes"][1]) = rec.payload[2]
<1>1. Produced("bytes") = <<rec.payload>>
  BY Zenon DEF Produced
<1> QED
  BY <1>1 DEF PathInv, OutputInv, MessageIn

\* For any certificate, message and configuration, what is published is under
\* the VIN of the certificate.
THEOREM VinCorrect == DeploymentSpec => []VinIsCertified
<1>1. WayInv => VinIsCertified
  <2> SUFFICES ASSUME PathInv, out["bytes"] # << >>, Known
               PROVE  /\ MessageIn(out["bytes"][1]).vin = ident.deviceID
                      /\ rec.vin = DeviceIDOf(tls[1].cert)
    BY DEF WayInv, VinIsCertified
  <2>1. rec.vin = ident.deviceID /\ rec.payload[2].vin = ident.deviceID
    BY KnownIsMade DEF MadeFrom, Known
  <2>2. ident.deviceID = DeviceIDOf(tls[1].cert)
    BY KnownIsMade, CertifiedDevice
  <2> QED
    BY <2>1, <2>2, BytesProduced
<1> QED
  BY <1>1, WayInvariance, PTL

\* For any message and any order of the dispatchers, the logger and mqtt show
\* the message that was published.
THEOREM ConsumersCorrect == DeploymentSpec => []ConsumersAgree
<1>1. WayInv => ConsumersAgree
  <2> DEFINE m == MessageIn(out["bytes"][1])
  <2> SUFFICES ASSUME PathInv, out["bytes"] # << >>, Known
               PROVE  /\ out["logger"] # << >> => out["logger"][1] = RecordToLogMap(rec.txType, m, ident.deviceID)
                      /\ out["mqtt"] # << >> => out["mqtt"][1] = RecordToMqtt(rec.txType, m)
    BY DEF WayInv, ConsumersAgree
  <2>1. rec.proto # << >> /\ rec.proto = <<rec.payload[2]>> /\ rec.vin = ident.deviceID
    BY KnownIsMade DEF MadeFrom, Known
  <2>2. rec.proto[1] = m /\ m = rec.payload[2]
    BY <2>1, BytesProduced
  <2> HIDE DEF m
  <2>3. /\ Produced("logger") = <<RecordToLogMap(rec.txType, rec.proto[1], rec.vin)>>
        /\ Produced("mqtt") = <<RecordToMqtt(rec.txType, rec.proto[1])>>
    <3>1. "logger" # "bytes" /\ "mqtt" # "bytes" /\ "logger" # "mqtt"
      OBVIOUS
    <3> QED
      BY <2>1, <3>1, Zenon DEF Produced
  <2>4. /\ out["logger"] # << >> => out["logger"] = Produced("logger")
        /\ out["mqtt"] # << >> => out["mqtt"] = Produced("mqtt")
    BY DEF PathInv, OutputInv
  <2> QED
    BY <2>1, <2>2, <2>3, <2>4
<1> QED
  BY <1>1, WayInvariance, PTL

\* For any bound on seconds and any alerts, in whichever unit they are timed,
\* their start times leave the server in seconds.
THEOREM InstantsCorrect == DeploymentSpec => []InstantsKept
<1>1. WayInv => InstantsKept
  <2> SUFFICES ASSUME PathInv, rec.proto # << >>, rec.txType = "alerts"
               PROVE  InstantsIn(rec.proto[1])
    BY DEF WayInv, InstantsKept, InstantsIn
  <2>1. stage \in Late
    <3>1. EmptyRecord.proto = << >>
      BY DEF EmptyRecord
    <3> QED
      BY <3>1 DEF PathInv, RecordInv, ConnectionInv
  <2>2. InstantsIn(rec.proto[1])
    BY <2>1 DEF PathInv, RecordInv, MadeFrom
  <2> QED
    BY <2>2
<1> QED
  BY <1>1, WayInvariance, PTL

\* For any setters in any order, the bytes of a message are those of its
\* present fields.
THEOREM EncodingCorrect == DeploymentSpec => []EncodedIsCurrent
<1>1. WayInv => EncodedIsCurrent
  <2> SUFFICES ASSUME Current(msg) PROVE EncodedIsCurrent
    BY DEF WayInv, PathInv, MessageInv
  <2>1. StreamMessageFromBytes(ToBytes(msg)) = [msg EXCEPT !.fsm = StreamToBytes(msg)]
    BY BytesOfCurrent
  <2>2. \A b : [[msg EXCEPT !.fsm = b] EXCEPT !.fsm = NoBytes] = [msg EXCEPT !.fsm = NoBytes]
    BY DEF Current, Shaped
  <2> QED
    BY <2>1, <2>2 DEF EncodedIsCurrent
<1> QED
  BY <1>1, WayInvariance, PTL

\* For any bytes that arrive, a reply has the transaction ID of the message it
\* is for if the server could read that, and names no message otherwise; what
\* was too big or broken is answered by an error.
THEOREM RepliesCorrect == DeploymentSpec => []ReplyNamesMessage
<1>1. WayInv => ReplyNamesMessage
  <2> SUFFICES ASSUME PathInv, reply # NoBytes
               PROVE  /\ HasEnvelope(reply)
                      /\ EnvelopeTxid(reply) = IF Readable(wire) THEN EnvelopeTxid(wire) ELSE NoString
                      /\ TooBig(wire) \/ Broken(wire) => IsStreamMessage(reply)
    BY DEF WayInv, ReplyNamesMessage
  <2>1. stage \in Late
    BY DEF PathInv, RecordInv, ConnectionInv
  <2>2. /\ rec.txid = IF Readable(wire) THEN EnvelopeTxid(wire) ELSE NoString
        /\ TooBig(wire) \/ Broken(wire) => rec.err \in Refusals
    BY <2>1 DEF PathInv, RecordInv, MadeFrom
  <2>3. reply \in {AckOf(rec), ErrorOf(rec)} /\ (rec.err \in Refusals => reply = ErrorOf(rec))
    BY DEF PathInv, OutputInv, AnswerInv
  <2>4. HasEnvelope(ErrorOf(rec))
    BY ReplyOf DEF IsStreamMessage
  <2> QED
    BY <2>2, <2>3, <2>4, ReplyOf
<1> QED
  BY <1>1, WayInvariance, PTL

-----------------------------------------------------------------------------
\* A client certificate of a finished bundle has the identity its file is
\* named after, and verifies against the CA of the bundle.
LEMMA BundleIdentity ==
  ASSUME ToolInv, toolPc = "done", TrustedCA # 0, NEW c \in BundleConnections
  PROVE  LET id == ExtractIdentityFromConnection(c) IN
         /\ id.err = "none"
         /\ \/ id.deviceID = EmptyName \/ EndsInCA(id.deviceID)
            \/ SenderIDOf(id) \in Files /\ certFile[SenderIDOf(id)] = <<c.cert>>
<1>1. PICK f \in Files :
        /\ certFile[f] # Nothing /\ keyFile[f] # Nothing /\ certFile[f][1].usage = "client"
        /\ c = [cert |-> certFile[f][1],
               verified |-> certFile[f][1].pair = keyFile[f][1] /\ certFile[f][1].ca = TrustedCA]
  BY DEF BundleConnections
<1>2. Own(f) /\ GoTogether(f)
  BY WholeIsOwn, CAIsAFile DEF ToolInv
<1>3. c.cert = certFile[f][1] /\ c.verified
  BY <1>1, <1>2 DEF GoTogether
<1>4. PICK i \in 1..Len(Jobs) :
        FileOf(Jobs[i]) = f /\ HasType(Jobs[i]) /\ certFile[f] \in Copied(CertOf(Jobs[i]))
  BY <1>2 DEF Own
<1>5. certFile[f] = <<CertOf(Jobs[i])>>
  BY <1>1, <1>4 DEF Copied
<1> DEFINE cn == Jobs[i][1]
           usage == Jobs[i][2]
           id == CreateIdentityFromCert(Certificate(0, cn, usage))
<1>6. c.cert = Certificate(run, cn, usage) /\ certFile[f] = <<c.cert>>
  BY <1>3, <1>5 DEF CertOf
<1>7. id.err = "none"
  BY <1>4 DEF HasType
<1>8. ExtractIdentityFromConnection(c) = id
  BY <1>3, <1>6, <1>7, IdentityOfJob DEF ExtractIdentityFromConnection
<1>9. id.deviceID = EmptyName \/ EndsInCA(id.deviceID) \/ f = SenderIDOf(id)
  BY <1>4 DEF FileOf, GetCertFilename, SenderIDOf, BuildClientID
<1> HIDE DEF id
<1> QED
  BY <1>6, <1>7, <1>8, <1>9

\* For any IDs, however often the bundle was begun and whichever writes were
\* lost, a device whose files are whole is let in if the file of the CA is
\* whole, as the device its file is named after, unless its name is empty or
\* ends in " CA".
THEOREM BundleDevicesCorrect == DeploymentSpec => []BundleDevicesConnect
<1>1. WayInv => BundleDevicesConnect
  <2> SUFFICES ASSUME WayInv, client = "device", tls # << >>, TrustedCA # 0
               PROVE  /\ stage # "refused"
                      /\ \/ ident.deviceID = EmptyName \/ EndsInCA(ident.deviceID)
                         \/ SenderIDOf(ident) \in Files /\ certFile[SenderIDOf(ident)] = <<tls[1].cert>>
    BY DEF BundleDevicesConnect
  <2>1. ToolInv /\ toolPc = "done" /\ tls[1] \in BundleConnections
    BY DEF WayInv, BundleInv, DeviceInv
  <2>2. ident = ExtractIdentityFromConnection(tls[1]) /\ (stage = "refused" => ident.err # "none")
    BY DEF WayInv, PathInv, ConnectionInv
  <2> QED
    BY <2>1, <2>2, BundleIdentity
<1> QED
  BY <1>1, WayInvariance, PTL

-----------------------------------------------------------------------------
\* The two conversions of one value.  Each is a CASE over the kinds of value,
\* so its arms are taken one by one.
LEMMA KindsApart ==
  /\ DOMAIN EnumOf \cap NumberKinds = {}
  /\ (DOMAIN EnumOf \cup NumberKinds)
       \cap {"none", "StringValue", "BooleanValue", "Invalid", "LocationValue", "DoorValue",
             "TimeValue", "TireLocationValue"} = {}
  /\ "TireLocationValue" \notin MqttCases
  /\ NumberKinds \cup {"StringValue", "BooleanValue", "LocationValue", "DoorValue", "TimeValue"}
       \subseteq MqttCases \ {"Invalid"}
BY DEF EnumOf, NumberKinds, MqttCases

LEMMA PlainEnum ==
  ASSUME NEW v, v.kind \in DOMAIN EnumOf
  PROVE  PlainValue(v) = EnumString(v.kind, v.content)
<1>1. v.kind \notin NumberKinds /\ v.kind # "StringValue" /\ v.kind # "BooleanValue"
      /\ v.kind # "LocationValue" /\ v.kind # "DoorValue" /\ v.kind # "TimeValue"
  BY KindsApart
<1> QED
  BY <1>1, Zenon DEF PlainValue

LEMMA PlainOther ==
  ASSUME NEW v,
         v.kind \in NumberKinds \cup {"StringValue", "BooleanValue", "LocationValue", "DoorValue", "TimeValue"}
  PROVE  \E s \in {"number", "text", "bool", "location", "doors", "clock"} : PlainValue(v) = <<s, v.content>>
<1>1. v.kind \notin DOMAIN EnumOf
  BY KindsApart
<1>2. CASE v.kind \in NumberKinds
  <2>1. /\ v.kind # "StringValue" /\ v.kind # "BooleanValue" /\ v.kind # "LocationValue"
        /\ v.kind # "DoorValue" /\ v.kind # "TimeValue"
    BY <1>2, KindsApart
  <2>2. PlainValue(v) = <<"number", v.content>>
    BY <1>1, <1>2, <2>1, Zenon DEF PlainValue
  <2> QED
    BY <2>2
<1>3. CASE v.kind \notin NumberKinds
  <2>1. v.kind = "StringValue" => PlainValue(v) = <<"text", v.content>>
    BY <1>1, <1>3, Zenon DEF PlainValue
  <2>2. v.kind = "BooleanValue" => PlainValue(v) = <<"bool", v.content>>
    BY <1>1, <1>3, Zenon DEF PlainValue
  <2>3. v.kind = "LocationValue" => PlainValue(v) = <<"location", v.content>>
    BY <1>1, <1>3, Zenon DEF PlainValue
  <2>4. v.kind = "DoorValue" => PlainValue(v) = <<"doors", v.content>>
    BY <1>1, <1>3, Zenon DEF PlainValue
  <2>5. v.kind = "TimeValue" => PlainValue(v) = <<"clock", v.content>>
    BY <1>1, <1>3, Zenon DEF PlainValue
  <2> QED
    BY <1>3, <2>1, <2>2, <2>3, <2>4, <2>5
<1> QED
  BY <1>2, <1>3

LEMMA SameWhenEqual ==
  ASSUME NEW l, l[1] # "tires", NEW vin
  PROVE  SameShown(l, l, vin)
<1>1. l[1] = "decimal" => SameShown(l, l, vin)
  BY Zenon DEF SameShown
<1>2. l[1] # "decimal" => SameShown(l, l, vin)
  BY Zenon DEF SameShown
<1> QED
  BY <1>1, <1>2

\* A number without a name may be shown in decimal here and as a number there.
LEMMA EnumAlike ==
  ASSUME NEW v, v.kind \in DOMAIN EnumOf, NEW vin
  PROVE  SameShown(EnumString(v.kind, v.content), GetDatumValue(v), vin)
<1> DEFINE l == EnumString(v.kind, v.content)
<1>1. v.kind # "Invalid" /\ v.kind # "none"
  BY KindsApart
<1>2. l = <<"name", v.content>> \/ l = <<"decimal", v.content>>
  BY DEF EnumString
<1>3. l[1] # "tires"
  BY <1>2
<1>4. CASE v.kind \in MqttCases
  <2>1. GetDatumValue(v) = PlainValue(v)
    BY <1>1, <1>4, Zenon DEF GetDatumValue
  <2> HIDE DEF l
  <2> QED
    BY <1>3, <2>1, PlainEnum, SameWhenEqual DEF l
<1>5. CASE v.kind \notin MqttCases
  <2>1. GetDatumValue(v) = GetProtoValue(v)
    BY <1>1, <1>5, Zenon DEF GetDatumValue
  <2>2. v # NoKind
    BY <1>1 DEF NoKind
  <2>3. GetProtoValue(v) = IF v.content \in EnumOf[v.kind] THEN <<"name", v.content>> ELSE <<"number", v.content>>
    BY <2>2, Zenon DEF GetProtoValue
  <2>4. CASE v.content \in EnumOf[v.kind]
    <3>1. l = GetDatumValue(v)
      BY <2>1, <2>3, <2>4 DEF EnumString
    <3> HIDE DEF l
    <3> QED
      BY <1>3, <3>1, SameWhenEqual DEF l
  <2>5. CASE v.content \notin EnumOf[v.kind]
    <3>1. l[1] = "decimal" /\ l[2] = v.content /\ GetDatumValue(v) = <<"number", v.content>>
      BY <2>1, <2>3, <2>5 DEF EnumString
    <3>2. GetDatumValue(v) \in {l, <<"number", l[2]>>}
      BY <3>1
    <3> HIDE DEF l
    <3>3. l[1] # "tires"
      BY <3>1
    <3>4. SameShown(l, GetDatumValue(v), vin)
      BY <3>1, <3>2, <3>3, Zenon DEF SameShown
    <3> QED
      BY <3>4 DEF l
  <2> QED
    BY <2>4, <2>5
<1> QED
  BY <1>4, <1>5

\* Of the tires both show those of the model that are TRUE.
LEMMA TiresAlike ==
  ASSUME NEW v, v.kind = "TireLocationValue", NEW vin
  PROVE  SameShown(TransformValue(v, vin), GetDatumValue(v), vin)
<1> DEFINE T == TiresOf(vin)
           l == <<"tires", [n \in DOMAIN T |-> T[n] \in v.content]>>
           m == <<"tires", [f \in v.content |-> TRUE]>>
<1>1. TransformValue(v, vin) = l
  BY Zenon DEF TransformValue
<1>2. GetDatumValue(v) = GetProtoValue(v)
  <2>1. v.kind \notin MqttCases /\ v.kind # "Invalid"
    BY KindsApart
  <2> QED
    BY <2>1, Zenon DEF GetDatumValue
<1>3. GetProtoValue(v) = m
  <2>1. v # NoKind /\ v.kind \notin DOMAIN EnumOf
    BY KindsApart DEF NoKind
  <2> QED
    BY <2>1, Zenon DEF GetProtoValue
<1> HIDE DEF T
<1>4. {T[n] : n \in {x \in DOMAIN l[2] : l[2][x]}} = DOMAIN m[2] \cap {T[n] : n \in DOMAIN l[2]}
  OBVIOUS
<1>5. l[1] = "tires" /\ l[1] # "decimal"
  OBVIOUS
<1> HIDE DEF l, m
<1>6. SameShown(l, m, vin)
  BY <1>4, <1>5, Zenon DEF SameShown, T
<1> QED
  BY <1>1, <1>2, <1>3, <1>6

LEMMA ShownAlike ==
  ASSUME NEW v, v.kind \in LoggerCases, NEW vin
  PROVE  SameShown(TransformValue(v, vin), GetDatumValue(v), vin)
<1>1. CASE v.kind = "Invalid"
  <2>1. TransformValue(v, vin) = <<"invalid", TRUE>>
    BY <1>1, Zenon DEF TransformValue
  <2>2. GetDatumValue(v) = <<"invalid", TRUE>>
    BY <1>1, Zenon DEF GetDatumValue
  <2>3. <<"invalid", TRUE>>[1] # "tires"
    OBVIOUS
  <2> QED
    BY <2>1, <2>2, <2>3, SameWhenEqual
<1>2. CASE v.kind = "TireLocationValue"
  BY <1>2, TiresAlike
<1>3. CASE v.kind \notin {"Invalid", "TireLocationValue"}
  <2>1. TransformValue(v, vin) = PlainValue(v)
    BY <1>3, Zenon DEF TransformValue
  <2>2. CASE v.kind \in DOMAIN EnumOf
    BY <2>1, <2>2, PlainEnum, EnumAlike
  <2>3. CASE v.kind \notin DOMAIN EnumOf
    <3>1. v.kind \in NumberKinds \cup {"StringValue", "BooleanValue", "LocationValue", "DoorValue", "TimeValue"}
      BY <1>3, <2>3 DEF LoggerCases, Kinds
    <3>2. v.kind \in MqttCases \ {"Invalid"}
      BY <3>1, KindsApart
    <3>3. GetDatumValue(v) = PlainValue(v)
      BY <1>3, <3>2, Zenon DEF GetDatumValue
    <3>4. PlainValue(v)[1] # "tires"
      BY <3>1, PlainOther
    <3> QED
      BY <2>1, <3>3, <3>4, SameWhenEqual
  <2> QED
    BY <2>2, <2>3
<1> QED
  BY <1>1, <1>2, <1>3

-----------------------------------------------------------------------------
\* The last datum of a name exists: a set of positions in a slice has a
\* greatest element.
LEMMA LeastNatural ==
  ASSUME NEW S, S \subseteq Nat, S # {}
  PROVE  \E x \in S : \A y \in S : x <= y
<1> DEFINE R == OpToRel(<, Nat)
<1>1. IsWellFoundedOn(R, Nat)
  BY NatLessThanWellFounded
<1>2. \A x, y \in Nat : y < x => <<y, x>> \in R
  BY DEF OpToRel
<1> HIDE DEF R
<1>3. PICK x \in S : \A y \in S : ~(<<y, x>> \in R)
  BY <1>1, WFMin
<1>4. ASSUME NEW y \in S PROVE x <= y
  <2>1. x \in Nat /\ y \in Nat /\ ~(y < x)
    BY <1>2, <1>3
  <2> QED
    BY <2>1
<1> QED
  BY <1>4

LEMMA LastPosition ==
  ASSUME NEW n \in Nat, NEW S, S \subseteq 1..n, S # {}
  PROVE  Max(S) \in S
<1> DEFINE T == {n - x : x \in S}
<1>1. T \subseteq Nat /\ T # {}
  <2>1. \A x \in S : x \in 1..n /\ n - x \in Nat
    OBVIOUS
  <2> QED
    BY <2>1
<1> HIDE DEF T
<1>2. PICK t \in T : \A y \in T : t <= y
  BY <1>1, LeastNatural
<1>3. PICK x \in S : t = n - x
  BY DEF T
<1>4. ASSUME NEW y \in S PROVE x >= y
  <2>1. n - y \in T /\ x \in 1..n /\ y \in 1..n
    BY DEF T
  <2> QED
    BY <1>2, <1>3, <2>1
<1> QED
  BY <1>4 DEF Max

\* A field all of whose data the logger has a case for: its last datum is the
\* one that log and mqtt have.
LEMMA FieldAlike ==
  ASSUME NEW m, Slice(m.data), NEW vin, NEW i \in DOMAIN m.data
  PROVE  LET key == m.data[i].key IN
         /\ key \in DOMAIN MqttData(m)
         /\ key \in Field /\ (\A j \in DOMAIN m.data : m.data[j].key = key => Shown(m.data[j]))
              => /\ key \in DOMAIN LogData(m, vin)
                 /\ SameShown(LogData(m, vin)[key], MqttData(m)[key], vin)
<1> DEFINE key == m.data[i].key
           keyed == {j \in DOMAIN m.data : m.data[j].key = key}
           named == {j \in {j \in DOMAIN m.data : Shown(m.data[j])} : FieldName(m.data[j].key) = key}
           last == m.data[Max(keyed)]
<1>1. key \in DOMAIN MqttData(m) /\ MqttData(m)[key] = GetDatumValue(last.value[1])
  BY DEF MqttData
<1>2. ASSUME key \in Field, \A j \in DOMAIN m.data : m.data[j].key = key => Shown(m.data[j])
      PROVE  key \in DOMAIN LogData(m, vin) /\ SameShown(LogData(m, vin)[key], MqttData(m)[key], vin)
  <2>1. \A k : FieldName(k) = key <=> k = key
    BY <1>2 DEF FieldName, Field
  <2>2. named = keyed
    BY <1>2, <2>1
  <2>3. /\ key \in DOMAIN LogData(m, vin)
        /\ LogData(m, vin)[key] = TransformValue(m.data[Max(named)].value[1], vin)
    <3>1. i \in DOMAIN m.data /\ Shown(m.data[i]) /\ FieldName(m.data[i].key) = key
      BY <1>2, <2>1
    <3> QED
      BY <3>1 DEF LogData
  <2>4. Shown(last)
    <3>1. PICK n \in Nat : DOMAIN m.data = 1..n
      BY DEF Slice
    <3>2. keyed \subseteq 1..n /\ keyed # {}
      BY <3>1
    <3>3. Max(keyed) \in keyed
      <4> HIDE DEF keyed
      <4> QED
        BY <3>2, LastPosition
    <3> QED
      BY <1>2, <3>3
  <2>5. last.value[1].kind \in LoggerCases
    BY <2>4 DEF Shown
  <2> HIDE DEF keyed, named, last
  <2>6. SameShown(TransformValue(last.value[1], vin), GetDatumValue(last.value[1]), vin)
    BY <2>5, ShownAlike
  <2>7. LogData(m, vin)[key] = TransformValue(last.value[1], vin)
    BY <2>2, <2>3 DEF last
  <2> QED
    BY <1>1, <2>3, <2>6, <2>7
<1> QED
  BY <1>1, <1>2

\* For any payload, logger and mqtt show a field alike: the two switches over
\* the kinds of value agree.
THEOREM ViewsCorrect == DeploymentSpec => []ViewsAgree
<1>1. WayInv => ViewsAgree
  <2> SUFFICES ASSUME PathInv, out["logger"] # << >>, out["mqtt"] # << >>, rec.txType = "V",
                      NEW i \in DOMAIN rec.proto[1].data
               PROVE  LET key == rec.proto[1].data[i].key IN
                      /\ key \in DOMAIN out["mqtt"][1]
                      /\ key \in Field /\ (\A j \in DOMAIN rec.proto[1].data : rec.proto[1].data[j].key = key => Shown(rec.proto[1].data[j]))
                           => /\ key \in DOMAIN out["logger"][1].data
                              /\ SameShown(out["logger"][1].data[key], out["mqtt"][1][key], rec.vin)
    BY DEF WayInv, ViewsAgree
  <2> DEFINE m == rec.proto[1]
  <2>1. out["logger"] = Produced("logger") /\ out["mqtt"] = Produced("mqtt")
    BY DEF PathInv, OutputInv
  <2>2. rec.proto # << >>
    <3>1. rec.proto = << >> => Produced("mqtt") = << >>
      BY Zenon DEF Produced
    <3> QED
      BY <2>1, <3>1
  <2>3. stage \in Late
    <3>1. EmptyRecord.proto = << >>
      BY DEF EmptyRecord
    <3> QED
      BY <2>2, <3>1 DEF PathInv, RecordInv, ConnectionInv
  <2>4. Slice(m.data)
    BY <2>2, <2>3 DEF PathInv, RecordInv, MadeFrom
  <2>5. Produced("logger") = <<RecordToLogMap(rec.txType, m, rec.vin)>>
    BY <2>2, Zenon DEF Produced
  <2>6. Produced("mqtt") = <<RecordToMqtt(rec.txType, m)>>
    BY <2>2, Zenon DEF Produced
  <2> HIDE DEF m
  <2>7. RecordToLogMap(rec.txType, m, rec.vin) =
          [vin |-> m.vin, createdAt |-> Seconds(m.createdAt), isResend |-> m.isResend, data |-> LogData(m, rec.vin)]
    BY Zenon DEF RecordToLogMap
  <2>8. RecordToMqtt(rec.txType, m) = MqttData(m)
    BY Zenon DEF RecordToMqtt
  <2>9. out["logger"][1].data = LogData(m, rec.vin) /\ out["mqtt"][1] = MqttData(m)
    BY <2>1, <2>5, <2>6, <2>7, <2>8
  <2> QED
    BY <2>4, <2>9, FieldAlike DEF m
<1> QED
  BY <1>1, WayInvariance, PTL
=============================================================================
