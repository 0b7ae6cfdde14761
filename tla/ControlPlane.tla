---------------------------- MODULE ControlPlane ----------------------------
(***************************************************************************)
(* The control plane (cmd/controlplane): a process of its own that answers *)
(* GET /, /health and /healthz with the result of a probe of the public    *)
(* telemetry endpoint, a TCP dial and a TLS handshake that is broken off   *)
(* as soon as the server's certificate chain has been verified.            *)
(*                                                                         *)
(* Three clocks meet: the dial has DialTimeout, the whole probe            *)
(* ProbeTimeout, both counted from the request; a response must be written *)
(* within WriteTimeout of it; and after a signal Shutdown waits at most    *)
(* ShutdownTimeout for the requests being handled.                         *)
(***************************************************************************)
EXTENDS Naturals

CONSTANTS Requests,          \* the health requests
          DialTimeout,       \* 5 seconds
          ProbeTimeout,      \* 7 seconds
          WriteTimeout,      \* 10 seconds
          ShutdownTimeout    \* 10 seconds

ASSUME TimeoutsAssumption ==
  /\ DialTimeout \in Nat /\ ProbeTimeout \in Nat /\ WriteTimeout \in Nat /\ ShutdownTimeout \in Nat
  /\ DialTimeout <= ProbeTimeout
  /\ ProbeTimeout <= WriteTimeout
  /\ ProbeTimeout < ShutdownTimeout

VARIABLES plane,      \* serving, draining, exited
          drain,      \* time since the signal
          endpoint,   \* the telemetry endpoint: down, silent, untrusted, trusted
          phase,      \* request -> idle, dial, handshake, respond, answered, lost
          age,        \* request -> time since it was read
          status,     \* request -> the status code of its response; 0: none yet
          witness     \* history: request -> the endpoint was trusted during it

planeVars == <<plane, drain, endpoint, phase, age, status, witness>>

Endpoints == {"down", "silent", "untrusted", "trusted"}
Handled == {"dial", "handshake", "respond"}

PlaneTypeOK ==
  /\ plane \in {"serving", "draining", "exited"}
  /\ drain \in 0..ShutdownTimeout
  /\ endpoint \in Endpoints
  /\ phase \in [Requests -> Handled \cup {"idle", "answered", "lost"}]
  /\ age \in [Requests -> 0..ProbeTimeout]
  /\ status \in [Requests -> {0, 200, 503}]
  /\ witness \in [Requests -> BOOLEAN]

PlaneInit ==
  /\ plane = "serving"
  /\ drain = 0
  /\ endpoint \in Endpoints
  /\ phase = [r \in Requests |-> "idle"]
  /\ age = [r \in Requests |-> 0]
  /\ status = [r \in Requests |-> 0]
  /\ witness = [r \in Requests |-> FALSE]

\* A health request is read and its handler starts the probe.
HealthRequest(r) ==
  /\ plane = "serving" /\ phase[r] = "idle"
  /\ phase' = [phase EXCEPT ![r] = "dial"]
  /\ witness' = [witness EXCEPT ![r] = (endpoint = "trusted")]
  /\ UNCHANGED <<plane, drain, endpoint, age, status>>

\* The probe of r returns: nil gives 200, an error 503.
ProbeReturns(r, code) ==
  /\ phase' = [phase EXCEPT ![r] = "respond"]
  /\ status' = [status EXCEPT ![r] = code]
  /\ UNCHANGED <<plane, drain, endpoint, age, witness>>

\* dialer.DialContext
Dial(r) ==
  /\ phase[r] = "dial"
  /\ \/ /\ endpoint # "down"
        /\ phase' = [phase EXCEPT ![r] = "handshake"]
        /\ UNCHANGED <<plane, drain, endpoint, age, status, witness>>
     \/ age[r] = DialTimeout /\ ProbeReturns(r, 503)

\* verifyTelemetryTLS that takes any end of the handshake for success.
HandshakeAnyEnd(r) ==
  /\ phase[r] = "handshake"
  /\ \/ endpoint \in {"trusted", "untrusted"} /\ ProbeReturns(r, 200)
     \/ age[r] = ProbeTimeout /\ ProbeReturns(r, 503)

\* HandshakeContext: VerifyConnection ends it with errCertificateVerified, a
\* chain that does not verify or the end of the context with another error.
Handshake(r) ==
  /\ phase[r] = "handshake"
  /\ \/ endpoint = "trusted" /\ ProbeReturns(r, 200)
     \/ endpoint = "untrusted" /\ ProbeReturns(r, 503)
     \/ age[r] = ProbeTimeout /\ ProbeReturns(r, 503)

\* The dial is refused, the connection reset, or the client of the request
\* leaves, which ends the context of the probe.
ProbeAborted(r) == phase[r] \in {"dial", "handshake"} /\ ProbeReturns(r, 503)

\* The response is written, unless WriteTimeout is over.
WriteResponse(r) ==
  /\ phase[r] = "respond"
  /\ phase' = [phase EXCEPT ![r] = IF age[r] <= WriteTimeout THEN "answered" ELSE "lost"]
  /\ UNCHANGED <<plane, drain, endpoint, age, status, witness>>

\* SIGINT or SIGTERM: no new requests.
PlaneSignal ==
  /\ plane = "serving"
  /\ plane' = "draining"
  /\ UNCHANGED <<drain, endpoint, phase, age, status, witness>>

\* Close in the place of Shutdown.
ShutdownReturnsAtOnce ==
  /\ plane = "draining"
  /\ plane' = "exited"
  /\ phase' = [r \in Requests |-> IF phase[r] \in Handled THEN "lost" ELSE phase[r]]
  /\ UNCHANGED <<drain, endpoint, age, status, witness>>

\* Shutdown returns when nothing is handled any more, or its context ends and
\* the process with it; requests still handled are never answered.
ShutdownReturns ==
  /\ plane = "draining"
  /\ \/ \A r \in Requests : phase[r] \notin Handled
     \/ drain = ShutdownTimeout
  /\ plane' = "exited"
  /\ phase' = [r \in Requests |-> IF phase[r] \in Handled THEN "lost" ELSE phase[r]]
  /\ UNCHANGED <<drain, endpoint, age, status, witness>>

\* The endpoint comes and goes, and changes its certificate.
EndpointChanges(e) ==
  /\ plane # "exited" /\ e # endpoint
  /\ endpoint' = e
  /\ witness' = [r \in Requests |-> witness[r] \/ (phase[r] \in {"dial", "handshake"} /\ e = "trusted")]
  /\ UNCHANGED <<plane, drain, phase, age, status>>

\* A timer that has run out is served before time goes on, and a response is
\* written in no time.
Expired(r) == \/ phase[r] = "dial" /\ age[r] = DialTimeout
              \/ phase[r] = "handshake" /\ age[r] = ProbeTimeout
              \/ phase[r] = "respond"

PlaneTick ==
  /\ \A r \in Requests : ~Expired(r)
  /\ \E r \in Requests : phase[r] \in Handled
  /\ plane = "draining" => drain < ShutdownTimeout
  /\ plane # "exited"
  /\ age' = [r \in Requests |-> IF phase[r] \in Handled THEN age[r] + 1 ELSE age[r]]
  /\ drain' = IF plane = "draining" THEN drain + 1 ELSE drain
  /\ UNCHANGED <<plane, endpoint, phase, status, witness>>

Handler(r) == Dial(r) \/ Handshake(r) \/ WriteResponse(r)

PlaneNext ==
  \/ \E r \in Requests : HealthRequest(r) \/ Handler(r) \/ ProbeAborted(r)
  \/ PlaneSignal
  \/ ShutdownReturns
  \/ \E e \in Endpoints : EndpointChanges(e)
  \/ PlaneTick

PlaneSpec == PlaneInit /\ [][PlaneNext]_planeVars

\* A healthy answer means that, while the request was handled, the endpoint
\* presented a certificate chain that verifies (README.md:16 "verifies the
\* public Railway listener's DNS, TCP reachability, and trusted TLS
\* certificate"), however the endpoint changes between dial and handshake.
HealthyMeansTrusted == \A r \in Requests : status[r] = 200 => witness[r]

\* Every request that was read is answered: neither WriteTimeout nor a
\* shutdown in the middle of its probe ever cuts it off (newHandler, run).
NoRequestLost == \A r \in Requests : phase[r] # "lost"
=============================================================================
