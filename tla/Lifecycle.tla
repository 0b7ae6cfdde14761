----------------------------- MODULE Lifecycle -----------------------------
(***************************************************************************)
(* The life of the server process: Startup, then serving until the listener *)
(* fails or a signal asks for a shutdown, then the dispatchers are closed  *)
(* one by one, in the order of a Go map, and main returns                  *)
(* (cmd/main.go, startServer).                                             *)
(*                                                                         *)
(* http.Server.Shutdown closes the listener and waits for requests, but    *)
(* not for connections that were hijacked, as every upgraded websocket is: *)
(* the sessions go on beside the shutdown until the process ends.          *)
(***************************************************************************)
EXTENDS Startup

CONSTANTS Sessions

VARIABLES session,     \* none, upgrading, connected, leaving, gone, or killed with the process
          reported,    \* history: the last connectivity event dispatched, by session
          open,        \* the dispatchers that have not been closed
          signalled    \* SIGINT or SIGTERM was received

vars == <<startVars, session, reported, open, signalled>>

Init ==
  /\ StartInit
  /\ session = [s \in Sessions |-> "none"]
  /\ reported = [s \in Sessions |-> "NONE"]
  /\ open = {}
  /\ signalled = FALSE

lifeVars == <<session, reported, open, signalled>>

\* A stage of the start; the dispatchers it builds are open.
Start ==
  /\ StartNext
  /\ open' = producers'
  /\ UNCHANGED <<session, reported, signalled>>

Running == stage \in {"serving", "shutdown", "closing"}

Goto(next) ==
  /\ stage' = next
  /\ UNCHANGED <<file, env, config, clientCA, certificate, producers, ackTypes, healthy>>

-----------------------------------------------------------------------------
\* dispatchConnectivityEvent reaches a dispatcher if connectivity is configured
\* and one of its dispatchers is still open; Produce of a closed one publishes
\* nothing.
Reachable == Connectivity \in DOMAIN config.records /\ Range(config.records[Connectivity]) \cap open # {}

Report(s, event) == reported' = IF Reachable THEN [reported EXCEPT ![s] = event] ELSE reported

\* A connection is accepted and its upgrade begins.
AcceptConnection(s) ==
  /\ Running /\ listening
  /\ session[s] = "none"
  /\ session' = [session EXCEPT ![s] = "upgrading"]
  /\ UNCHANGED <<startVars, reported, open, signalled>>

\* The upgrade hijacks the connection; the session is registered and reported.
Connect(s) ==
  /\ Running
  /\ session[s] = "upgrading"
  /\ session' = [session EXCEPT ![s] = "connected"]
  /\ Report(s, "CONNECTED")
  /\ UNCHANGED <<startVars, open, signalled>>

\* ReadMessage fails, or returns something else than a binary message: the
\* reader returns, and its deferred calls close the connection.
VehicleLeaves(s) ==
  /\ Running
  /\ session[s] = "connected"
  /\ session' = [session EXCEPT ![s] = "leaving"]
  /\ UNCHANGED <<startVars, reported, open, signalled>>

\* The deferred deregisterSocket of the handler reports the departure.
DeregisterSocket(s) ==
  /\ Running
  /\ session[s] = "leaving"
  /\ session' = [session EXCEPT ![s] = "gone"]
  /\ Report(s, "DISCONNECTED")
  /\ UNCHANGED <<startVars, open, signalled>>

-----------------------------------------------------------------------------
\* Serve returns an error.
ServeFails ==
  /\ stage = "serving"
  /\ Goto("closing")
  /\ listening' = FALSE
  /\ UNCHANGED lifeVars

\* A signal: Shutdown closes the listener first.
ReceiveSignal ==
  /\ stage = "serving"
  /\ Goto("shutdown")
  /\ listening' = FALSE
  /\ signalled' = TRUE
  /\ UNCHANGED <<session, reported, open>>

\* A shutdown without a deadline that also waits for the sessions.
ShutdownReturnsWhenIdle ==
  /\ stage = "shutdown"
  /\ \A s \in Sessions : session[s] \notin {"upgrading", "connected", "leaving"}
  /\ Goto("closing")
  /\ UNCHANGED <<listening, lifeVars>>

\* Shutdown returns when no request is left, or after ten seconds anyway.
ShutdownReturns ==
  /\ stage = "shutdown"
  /\ Goto("closing")
  /\ UNCHANGED <<listening, lifeVars>>

\* A dispatcher closed while the listener is still open.
CloseDispatcherEarly(d) ==
  /\ stage \in {"serving", "shutdown", "closing"}
  /\ d \in open
  /\ open' = open \ {d}
  /\ UNCHANGED <<startVars, session, reported, signalled>>

\* Dispatchers closed without waiting for Shutdown.
CloseDispatcherInShutdown(d) ==
  /\ stage \in {"shutdown", "closing"}
  /\ d \in open
  /\ open' = open \ {d}
  /\ UNCHANGED <<startVars, session, reported, signalled>>

\* One turn of the loop that closes the dispatchers; an error is only logged.
CloseDispatcher(d) ==
  /\ stage = "closing"
  /\ d \in open
  /\ open' = open \ {d}
  /\ UNCHANGED <<startVars, session, reported, signalled>>

\* The goroutines of the sessions end where they are.
Killed ==
  [s \in Sessions |-> IF session[s] \in {"upgrading", "connected", "leaving"} THEN "killed" ELSE session[s]]

\* main returns.
Exit ==
  /\ stage = "closing"
  /\ open = {}
  /\ stage' = "stopped"
  /\ healthy' = FALSE
  /\ session' = Killed
  /\ UNCHANGED <<file, env, config, clientCA, certificate, producers, ackTypes, listening,
                 reported, open, signalled>>

\* A goroutine that nothing recovers panics and takes the process with it.
Crash ==
  /\ stage' = "stopped"
  /\ healthy' = FALSE
  /\ listening' = FALSE
  /\ session' = Killed
  /\ UNCHANGED <<file, env, config, clientCA, certificate, producers, ackTypes,
                 reported, open, signalled>>

-----------------------------------------------------------------------------
\* While connections are accepted, every dispatcher the records name is open
\* (main.go:117-135).  A connection accepted before that may still be upgraded
\* while they are being closed.
OpenWhileListening ==
  listening => RequiredDispatchers \cap Datastores \subseteq open

\* A shutdown ends, whatever the sessions do meanwhile.
ShutdownStops == signalled ~> stage = "stopped"

\* The handler of a vehicle that was reported CONNECTED returns without having
\* reported it DISCONNECTED only once every dispatcher of connectivity events
\* has been closed, a shutdown under way or not (README.md:68 "an event stream
\* to determine the vehicle connection state").  The vehicle itself may have
\* left before that: its handler may come too late to report it.
DepartureReported ==
  \A s \in Sessions :
    session[s] = "gone" /\ reported[s] = "CONNECTED" => stage \in {"closing", "stopped"} /\ ~Reachable
=============================================================================
