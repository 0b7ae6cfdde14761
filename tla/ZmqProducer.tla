---------------------------- MODULE ZmqProducer ----------------------------
(***************************************************************************)
(* The zmq dispatcher (datastore/zmq): NewProducer, which prepares one PUB *)
(* socket, Produce, which the goroutines of all sessions call on it, and   *)
(* Close, which main calls while sessions may still be alive.              *)
(*                                                                         *)
(* The producer has no lock.  SendMessage of the client library sends a    *)
(* message as two frames, the first with SNDMORE; the socket joins frames  *)
(* into messages in the order in which they arrive, whoever sent them.     *)
(* p.ctx is context.Background() and is never cancelled.                   *)
(***************************************************************************)
EXTENDS Naturals, Sequences, SequencesExt

CONSTANTS Callers,         \* the session goroutines
          Records,         \* the records they produce, each at most once
          ReliableRecords, \* those whose type is in reliableAckTxTypes
          MaxEventErrors   \* how often receiving a socket event may fail

ASSUME ReliableAssumption == ReliableRecords \subseteq Records
ASSUME EventErrorsAssumption == MaxEventErrors \in Nat

VARIABLES config,       \* Verbose, ServerKeyJSONPath and AllowedPublicKeysJSONPath are given
          stage,        \* where NewProducer is
          monitor,      \* the monitor of the socket: none, attached, started, looping
          curve,        \* what CURVE authentication has been given
          sock,         \* Producer.sock: none, open, closed or nil
          call,         \* the Produce call of each caller, with its receiver and record
          frames,       \* frames of a message that is not complete
          wire,         \* history: the messages that left, as sequences of frames
          acked,        \* records sent to ackChan
          events,       \* socket events the monitor has not received
          logged,       \* socket events that were logged
          eventErrors,  \* failed receives so far
          receiving     \* handleAcks of the server still receives from ackChan

setupVars == <<config, stage, monitor, curve>>
sendVars  == <<sock, call, frames, wire, acked>>
eventVars == <<events, logged, eventErrors, receiving>>
vars      == <<setupVars, sendVars, eventVars>>

Stages == {"socket", "monitor", "pair", "connect", "ready", "key", "allowed", "auth", "curve",
           "bind", "bound", "failed"}
Idle   == [pc |-> "idle", rec |-> "none"]

TypeOK ==
  /\ config \in [verbose : BOOLEAN, key : BOOLEAN, allowed : BOOLEAN]
  /\ stage \in Stages
  /\ monitor \in {"none", "attached", "started", "looping"}
  /\ curve \subseteq {"allowed", "started", "server"}
  /\ sock \in {"none", "open", "closed", "nil"}
  /\ \A c \in Callers :
       \/ call[c] = Idle
       \/ call[c].rec \in Records /\ call[c].pc \in {"topic", "payload", "ack", "panicked"}
  /\ acked \subseteq ReliableRecords
  /\ eventErrors \in 0..MaxEventErrors
  /\ receiving \in BOOLEAN

Init ==
  /\ config \in [verbose : BOOLEAN, key : BOOLEAN, allowed : BOOLEAN]
  /\ stage = "socket"
  /\ monitor = "none"
  /\ curve = {}
  /\ sock = "none"
  /\ call = [c \in Callers |-> Idle]
  /\ frames = <<>>
  /\ wire = <<>>
  /\ acked = {}
  /\ events = <<>>
  /\ logged = <<>>
  /\ eventErrors = 0
  /\ receiving = TRUE

-----------------------------------------------------------------------------
\* NewProducer.  A call that fails ends it with an error and no producer;
\* what it did before, the socket and its monitor included, is left as it is.

Fail == stage' = "failed" /\ UNCHANGED <<config, monitor, curve, sendVars, eventVars>>

NewSocket ==
  /\ stage = "socket"
  /\ \/ /\ stage' = IF config.verbose THEN "monitor" ELSE "key"
        /\ UNCHANGED <<config, monitor, curve, sendVars, eventVars>>
     \/ Fail

\* target.Monitor: from here on the events of the socket are queued.
Monitor ==
  /\ stage = "monitor"
  /\ \/ /\ stage' = "pair"
        /\ monitor' = "attached"
        /\ UNCHANGED <<config, curve, sendVars, eventVars>>
     \/ Fail

\* The PAIR socket on which the events arrive.
NewPairSocket ==
  /\ stage = "pair"
  /\ \/ stage' = "connect" /\ UNCHANGED <<config, monitor, curve, sendVars, eventVars>>
     \/ Fail

\* monitor.Connect and the start of the goroutine, for which NewProducer waits.
ConnectMonitor ==
  /\ stage = "connect"
  /\ \/ /\ stage' = "ready"
        /\ monitor' = "started"
        /\ UNCHANGED <<config, curve, sendVars, eventVars>>
     \/ Fail

\* MonitorReady that first receives an event.
MonitorReadyAfterEvent ==
  /\ stage = "ready" /\ monitor = "started"
  /\ events # <<>>
  /\ stage' = "key"
  /\ monitor' = "looping"
  /\ UNCHANGED <<config, curve, sendVars, eventVars>>

\* The goroutine sends on ready, which NewProducer receives from.
MonitorReady ==
  /\ stage = "ready" /\ monitor = "started"
  /\ stage' = "key"
  /\ monitor' = "looping"
  /\ UNCHANGED <<config, curve, sendVars, eventVars>>

\* Without a server key there is no authentication at all: the allowed keys
\* are read only when it is given.
ReadServerKey ==
  /\ stage = "key"
  /\ \/ /\ stage' = IF ~config.key THEN "bind" ELSE IF config.allowed THEN "allowed" ELSE "auth"
        /\ UNCHANGED <<config, monitor, curve, sendVars, eventVars>>
     \/ config.key /\ Fail

ReadAllowedKeys ==
  /\ stage = "allowed"
  /\ \/ /\ stage' = "auth"
        /\ curve' = curve \cup {"allowed"}
        /\ UNCHANGED <<config, monitor, sendVars, eventVars>>
     \/ Fail

AuthStart ==
  /\ stage = "auth"
  /\ \/ /\ stage' = "curve"
        /\ curve' = curve \cup {"started"}
        /\ UNCHANGED <<config, monitor, sendVars, eventVars>>
     \/ Fail

\* ServerAuthCurve whose error is ignored.
ServerAuthCurveUnchecked ==
  /\ stage = "curve"
  /\ stage' = "bind"
  /\ curve' \in {curve, curve \cup {"server"}}
  /\ UNCHANGED <<config, monitor, sendVars, eventVars>>

\* The socket requires CURVE, with the secret key of the server.
ServerAuthCurve ==
  /\ stage = "curve"
  /\ \/ /\ stage' = "bind"
        /\ curve' = curve \cup {"server"}
        /\ UNCHANGED <<config, monitor, sendVars, eventVars>>
     \/ Fail

\* An event of the socket, queued if a monitor is attached.
Event(e) == events' = IF monitor = "none" THEN events ELSE Append(events, e)

\* Consumers can connect; the producer is returned.
Bind ==
  /\ stage = "bind"
  /\ \/ /\ stage' = "bound"
        /\ sock' = "open"
        /\ Event("listening")
        /\ UNCHANGED <<config, monitor, curve, call, frames, wire, acked, logged, eventErrors, receiving>>
     \/ Fail

NewProducer ==
  \/ NewSocket \/ Monitor \/ NewPairSocket \/ ConnectMonitor
  \/ ReadServerKey \/ ReadAllowedKeys \/ AuthStart \/ ServerAuthCurve \/ Bind

-----------------------------------------------------------------------------
\* The loop of the monitor goroutine.

RecvEvent ==
  /\ monitor = "looping" /\ events # <<>>
  /\ logged' = Append(logged, Head(events))
  /\ events' = Tail(events)
  /\ UNCHANGED <<setupVars, sendVars, eventErrors, receiving>>

\* An error is logged and the loop goes on.
RecvEventError ==
  /\ monitor = "looping" /\ eventErrors < MaxEventErrors
  /\ eventErrors' = eventErrors + 1
  /\ UNCHANGED <<setupVars, sendVars, events, logged, receiving>>

-----------------------------------------------------------------------------
\* Produce.

Topic(r)   == [of |-> r, part |-> "topic"]
Payload(r) == [of |-> r, part |-> "payload"]

Moved(c, pc) == call' = [call EXCEPT ![c].pc = pc]
Returned(c)  == call' = [call EXCEPT ![c] = Idle]

\* Where a record has been: on the wire in part or in full, or in a call.
Produced(r) ==
  \/ \E c \in Callers : call[c].rec = r
  \/ \E i \in DOMAIN wire : \E j \in DOMAIN wire[i] : wire[i][j].of = r
  \/ \E j \in DOMAIN frames : frames[j].of = r

\* p.sock is read once, as the receiver of SendMessage; on a nil socket the
\* call panics, which ends the session's goroutine and no other.
CallProduce(c) ==
  /\ call[c] = Idle
  /\ sock # "none"
  /\ \E r \in Records :
       /\ ~Produced(r)
       /\ call' = [call EXCEPT ![c] = [pc |-> IF sock = "nil" THEN "panicked" ELSE "topic", rec |-> r]]
  /\ UNCHANGED <<setupVars, sock, frames, wire, acked, eventVars>>

\* SendTopic that waits on a socket which does not take the frame.
SendTopicBlocks(c) ==
  /\ call[c].pc = "topic"
  /\ sock = "open"
  /\ frames' = Append(frames, Topic(call[c].rec))
  /\ Moved(c, "payload")
  /\ UNCHANGED <<setupVars, sock, wire, acked, eventVars>>

\* The frame with SNDMORE.  A socket that was closed meanwhile refuses it,
\* the error is counted and reported, and Produce returns.
SendTopic(c) ==
  /\ call[c].pc = "topic"
  /\ IF sock = "open"
     THEN frames' = Append(frames, Topic(call[c].rec)) /\ Moved(c, "payload")
     ELSE frames' = frames /\ Returned(c)
  /\ UNCHANGED <<setupVars, sock, wire, acked, eventVars>>

\* SendPayload that reads p.sock again.
SendPayloadRereads(c) ==
  /\ call[c].pc = "payload"
  /\ CASE sock = "open" -> /\ wire' = Append(wire, Append(frames, Payload(call[c].rec)))
                           /\ frames' = <<>>
                           /\ Moved(c, "ack")
       [] sock = "nil"  -> UNCHANGED <<wire, frames>> /\ Moved(c, "panicked")
       [] OTHER         -> UNCHANGED <<wire, frames>> /\ Returned(c)
  /\ UNCHANGED <<setupVars, sock, acked, eventVars>>

\* SendPayload that acks after an error too.
SendPayloadUnchecked(c) ==
  /\ call[c].pc = "payload"
  /\ IF sock = "open"
     THEN wire' = Append(wire, Append(frames, Payload(call[c].rec))) /\ frames' = <<>>
     ELSE UNCHANGED <<wire, frames>>
  /\ Moved(c, "ack")
  /\ UNCHANGED <<setupVars, sock, acked, eventVars>>

\* The last frame: it completes whatever message is under way.
SendPayload(c) ==
  /\ call[c].pc = "payload"
  /\ IF sock = "open"
     THEN /\ wire' = Append(wire, Append(frames, Payload(call[c].rec)))
          /\ frames' = <<>>
          /\ Moved(c, "ack")
     ELSE UNCHANGED <<wire, frames>> /\ Returned(c)
  /\ UNCHANGED <<setupVars, sock, acked, eventVars>>

\* The call waits to send its record on the unbuffered ackChan.
AwaitsAck(c) == call[c].pc = "ack" /\ call[c].rec \in ReliableRecords

\* ProcessReliableAck: the send on ackChan, for the types that are acked.
ProcessReliableAck(c) ==
  /\ call[c].pc = "ack"
  /\ AwaitsAck(c) => receiving
  /\ acked' = acked \cup ({call[c].rec} \cap ReliableRecords)
  /\ Returned(c)
  /\ UNCHANGED <<setupVars, sock, frames, wire, eventVars>>

Produce(c) == SendTopic(c) \/ SendPayload(c) \/ ProcessReliableAck(c)

-----------------------------------------------------------------------------
\* Close, in its two steps: the socket is closed, with what was not complete,
\* and then forgotten, unless closing it reported an error.
CloseSocket ==
  /\ sock = "open"
  /\ sock' = "closed"
  /\ frames' = <<>>
  /\ Event("closed")
  /\ UNCHANGED <<setupVars, call, wire, acked, logged, eventErrors, receiving>>

ForgetSocket ==
  /\ sock = "closed"
  /\ sock' = "nil"
  /\ UNCHANGED <<setupVars, call, frames, wire, acked, eventVars>>

Close == CloseSocket \/ ForgetSocket

\* handleAcks blocks for ever on the writeChan of some session (Streaming).
AcksStall ==
  /\ receiving
  /\ receiving' = FALSE
  /\ UNCHANGED <<setupVars, sendVars, events, logged, eventErrors>>

-----------------------------------------------------------------------------
Next ==
  \/ NewProducer
  \/ MonitorReady \/ RecvEvent \/ RecvEventError
  \/ \E c \in Callers : CallProduce(c) \/ Produce(c)
  \/ Close
  \/ AcksStall

Spec == Init /\ [][Next]_vars

\* NewProducer and the calls of Produce run to their end, as nothing in them
\* waits but for the goroutine of the monitor and, with an ack, for handleAcks
\* as long as it receives.  Sessions need not call, and main need not close.
FairSpec ==
  /\ Spec
  /\ WF_vars(NewProducer)
  /\ WF_vars(MonitorReady)
  /\ WF_vars(RecvEvent)
  /\ \A c \in Callers : WF_vars(Produce(c))

-----------------------------------------------------------------------------
Sent(f) == \E i \in DOMAIN wire : \E j \in DOMAIN wire[i] : wire[i][j] = f

\* A record that was acked left in full, topic and payload, whatever other
\* sessions sent on the socket and whenever it was closed (zmq.go:77-83).
AckedIsSent == \A r \in acked : Sent(Topic(r)) /\ Sent(Payload(r))

\* With a server key the socket never accepts a consumer that CURVE has not
\* authenticated, or that is not on the list of allowed keys when there is one:
\* none of it can still be missing when the socket is bound, and an error in
\* any step keeps it unbound (zmq.go:130-176).
BoundIsAuthenticated ==
  sock # "none" /\ config.key =>
    curve = {"started", "server"} \cup (IF config.allowed THEN {"allowed"} ELSE {})

\* A Produce that panics because Close has taken the socket away has sent
\* nothing and acked nothing: no half of a message, and no ack for a record
\* the session will never finish (zmq.go:77, 95-103).
PanicLeavesNothing ==
  \A c \in Callers : call[c].pc = "panicked" =>
    /\ call[c].rec \notin acked
    /\ \A m \in Range(wire) \cup {frames} : \A j \in DOMAIN m : m[j].of # call[c].rec

\* NewProducer returns: its wait for the monitor goroutine is always answered.
ConstructionEnds == <>(stage \in {"bound", "failed"})

\* Every Produce ends, also when Close comes between its frames, unless it has
\* sent a record that is to be acked when handleAcks no longer receives: that
\* stall of the server reaches no other record (zmq.go:73-85, 106-112).
ProduceReturns ==
  \A c \in Callers :
    [](call[c].pc = "topic" => <>(call[c].pc \in {"idle", "panicked"} \/ (AwaitsAck(c) /\ ~receiving)))

-----------------------------------------------------------------------------
\* A message is the topic and the payload of one record: what a consumer of
\* this socket takes for granted (test/integration/zmq_consumer_test.go:59).
FramesStayTogether == \A i \in DOMAIN wire : \E r \in Records : wire[i] = <<Topic(r), Payload(r)>>
=============================================================================
