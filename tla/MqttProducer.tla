---------------------------- MODULE MqttProducer ----------------------------
(***************************************************************************)
(* Produce of the mqtt dispatcher (datastore/mqtt).                        *)
(*                                                                         *)
(* One record becomes many MQTT messages: a topic per field, two per alert *)
(* name, one per error, one for connectivity.  Produce hands them all to   *)
(* the paho client, each giving a token, then waits for the tokens one     *)
(* after the other under a common timeout, and acks the record if no wait  *)
(* ended in an error.  The client completes tokens at any time, in any     *)
(* order, also after the wait for them was given up.                       *)
(*                                                                         *)
(* p.ctx is context.Background() in the server and is never cancelled.     *)
(***************************************************************************)
EXTENDS Naturals, Sequences, SequencesExt

CONSTANTS Payloads,     \* the decoded records Produce is called with
          Names,        \* names of alerts
          Keys,         \* keys of fields
          ReliableAck,  \* the record type is in reliableAckTxTypes
          Timeout,      \* publish_timeout_ms
          MaxElapsed    \* bound of the clock

\* An alert, an error or a datum carries the position at which the vehicle
\* sent it, which stands for the rest of its content.  A start time of
\* NoTime is an alert whose StartedAt is nil.
NoTime == 0

ASSUME PayloadsAssumption ==
  \A p \in Payloads :
    /\ p.kind \in {"fields", "alerts", "errors", "connectivity", "unknown"}
    /\ Len(p.items) \in Nat /\ DOMAIN p.items = 1..Len(p.items)
    /\ \A i \in DOMAIN p.items : p.items[i].id = i
    /\ p.kind = "alerts" => \A i \in DOMAIN p.items : p.items[i].name \in Names /\ p.items[i].startedAt \in Nat
    /\ p.kind = "fields" => \A i \in DOMAIN p.items : p.items[i].key \in Keys
ASSUME TimeoutAssumption == Timeout \in Nat /\ MaxElapsed \in Nat /\ Timeout <= MaxElapsed
ASSUME ReliableAckAssumption == ReliableAck \in BOOLEAN

VARIABLES payload,   \* the record's decoded protobuf message
          gathered,  \* history and current alert of each name so far
          at,        \* the alert the gathering loop is at
          todo,      \* batches of messages not yet handed to the client
          tokens,    \* the messages handed over, with the state of their tokens
          pc,        \* gather, publish, next, blocked, returned
          index,     \* the token Produce is at
          elapsed,   \* time since the first wait
          until,     \* when the present wait is given up
          held,      \* history: how long the waits for tokens have blocked, in all
          failed,    \* publishError
          acked      \* the record was sent to ackChan

vars == <<payload, gathered, at, todo, tokens, pc, index, elapsed, until, held, failed, acked>>

-----------------------------------------------------------------------------
\* What a record is published as: a sequence of batches of messages.  Within
\* a batch the order is that of a Go map, so any order is possible.

\* The value of a datum: an explicitly invalid one becomes null, any other
\* is converted to what JSON is made from.
GetDatumValue(d) == IF d.value = "invalid" THEN [d EXCEPT !.value = "null"] ELSE d

\* json.Marshal refuses a float that is not a number.
Marshals(m) == \A k \in DOMAIN m.body : m.topic[1] = "v" => m.body[k].value # "nan"

\* payloadToMap: the last datum of a key overwrites those before it.
PayloadToMap(data) ==
  FoldLeft(LAMBDA m, d : [k \in DOMAIN m \cup {d.key} |-> IF k = d.key THEN GetDatumValue(d) ELSE m[k]],
           <<>>, data)

\* GatherAlert with "not before" for After.
GatherAlertNotBefore(g, a) ==
  [history |-> [g.history EXCEPT ![a.name] = Append(@, a)],
   current |-> IF \/ a.startedAt = NoTime
                  \/ g.current[a.name] # <<>> /\ g.current[a.name][1].startedAt > a.startedAt
               THEN g.current ELSE [g.current EXCEPT ![a.name] = <<a>>]]

\* One turn of the gathering loop of processVehicleAlerts: the alert joins
\* the history of its name; it is current if it started after the one so far.
GatherAlert(g, a) ==
  [history |-> [g.history EXCEPT ![a.name] = Append(@, a)],
   current |-> IF \/ a.startedAt = NoTime
                  \/ g.current[a.name] # <<>> /\ g.current[a.name][1].startedAt >= a.startedAt
               THEN g.current ELSE [g.current EXCEPT ![a.name] = <<a>>]]

NothingGathered == [history |-> [n \in Names |-> <<>>], current |-> [n \in Names |-> <<>>]]

Message(class, name, body) == [topic |-> <<class, name>>, body |-> body]

\* The messages of a map, which may be empty.
Batch(messages) == IF messages = {} THEN <<>> ELSE <<messages>>

ProcessVehicleFields(data) ==
  LET m == PayloadToMap(data)
  IN  Batch({Message("v", k, <<m[k]>>) : k \in DOMAIN m})

\* What processVehicleAlerts publishes after its loop.
ProcessVehicleAlerts(g) ==
  Batch({Message("current", n, g.current[n]) : n \in {n \in Names : g.current[n] # <<>>}})
    \o Batch({Message("history", n, g.history[n]) : n \in {n \in Names : g.history[n] # <<>>}})

ProcessVehicleErrors(errors) ==
  [j \in DOMAIN errors |-> {Message("errors", errors[j].name, <<errors[j]>>)}]

ProcessVehicleConnectivity == <<{Message("connectivity", "", <<>>)}>>

\* The type switch of Produce, with what was gathered of alerts.
Batches(p, g) ==
  CASE p.kind = "fields"       -> ProcessVehicleFields(p.items)
    [] p.kind = "alerts"       -> ProcessVehicleAlerts(g)
    [] p.kind = "errors"       -> ProcessVehicleErrors(p.items)
    [] p.kind = "connectivity" -> ProcessVehicleConnectivity
    [] OTHER                   -> <<>>

AllMessages == UNION Range(Batches(payload, gathered))

\* What is left of the loops when the message m of the present map is done.
Without(batches, m) ==
  IF Head(batches) = {m} THEN Tail(batches) ELSE [batches EXCEPT ![1] = @ \ {m}]

-----------------------------------------------------------------------------
States == {"pending", "sent", "failed"}

TypeOK ==
  /\ payload \in Payloads
  /\ todo \in Seq(SUBSET AllMessages)
  /\ tokens \in Seq([msg : AllMessages, state : States])
  /\ pc \in {"gather", "publish", "next", "blocked", "returned"}
  /\ index \in 1..(Len(tokens) + 1)
  /\ elapsed \in 0..MaxElapsed
  /\ until \in Nat
  /\ held \in Nat
  /\ failed \in BOOLEAN
  /\ acked \in BOOLEAN

Init ==
  /\ payload \in Payloads
  /\ gathered = NothingGathered
  /\ at = 1
  /\ todo = <<>>
  /\ tokens = <<>>
  /\ pc = "gather"
  /\ index = 1
  /\ elapsed = 0
  /\ until = 0
  /\ held = 0
  /\ failed = FALSE
  /\ acked = FALSE

\* The record is of a type the dispatcher does not know: no message, no ack.
UnknownPayloadType ==
  /\ pc = "gather"
  /\ payload.kind = "unknown"
  /\ pc' = "returned"
  /\ UNCHANGED <<payload, gathered, at, todo, tokens, index, elapsed, until, held, failed, acked>>

\* One turn of the gathering loop.
Gather ==
  /\ pc = "gather"
  /\ payload.kind = "alerts" /\ at <= Len(payload.items)
  /\ gathered' = GatherAlert(gathered, payload.items[at])
  /\ at' = at + 1
  /\ UNCHANGED <<payload, todo, tokens, pc, index, elapsed, until, held, failed, acked>>

\* The loops over the messages made from the record begin.
StartPublishing ==
  /\ pc = "gather"
  /\ payload.kind # "unknown"
  /\ payload.kind = "alerts" => at > Len(payload.items)
  /\ todo' = Batches(payload, gathered)
  /\ pc' = "publish"
  /\ UNCHANGED <<payload, gathered, at, tokens, index, elapsed, until, held, failed, acked>>

\* One message is marshalled and handed to the client.
Publish(m) ==
  /\ pc = "publish"
  /\ todo # <<>>
  /\ m \in Head(todo)
  /\ Marshals(m)
  /\ todo' = Without(todo, m)
  /\ tokens' = Append(tokens, [msg |-> m, state |-> "pending"])
  /\ UNCHANGED <<payload, gathered, at, pc, index, elapsed, until, held, failed, acked>>

\* A message that JSON cannot express: Produce returns, and leaves the
\* messages before it to the client.
MarshalError(m) ==
  /\ pc = "publish"
  /\ todo # <<>>
  /\ m \in Head(todo)
  /\ ~Marshals(m)
  /\ pc' = "returned"
  /\ UNCHANGED <<payload, gathered, at, todo, tokens, index, elapsed, until, held, failed, acked>>

\* Every message is with the client: the clock of the timeout starts.
StartWaiting ==
  /\ pc = "publish"
  /\ todo = <<>>
  /\ pc' = "next"
  /\ elapsed' = 0
  /\ UNCHANGED <<payload, gathered, at, todo, tokens, index, until, held, failed, acked>>

-----------------------------------------------------------------------------
\* The wait for a token that had an error, or that timed out, fails Produce.
TokenError(k) == tokens[k].state = "failed"

\* The outcome of each wait replaces that of the waits before it.
WaitedLast(error) ==
  /\ failed' = error
  /\ index' = index + 1
  /\ pc' = "next"
  /\ UNCHANGED <<payload, gathered, at, todo, tokens, elapsed, until, held, acked>>

\* The wait for the token at index is over.
Waited(error) ==
  /\ failed' = (failed \/ error)
  /\ index' = index + 1
  /\ pc' = "next"
  /\ UNCHANGED <<payload, gathered, at, todo, tokens, elapsed, until, held, acked>>

\* Each wait is given the whole timeout.
WaitTokenEach ==
  /\ pc = "next"
  /\ index <= Len(tokens)
  /\ elapsed < Timeout
  /\ pc' = "blocked"
  /\ until' = elapsed + Timeout
  /\ UNCHANGED <<payload, gathered, at, todo, tokens, index, elapsed, held, failed, acked>>

\* There is time left: waitTokenTimeout blocks for what remains of it.
WaitToken ==
  /\ pc = "next"
  /\ index <= Len(tokens)
  /\ elapsed < Timeout
  /\ pc' = "blocked"
  /\ until' = elapsed + (Timeout - elapsed)
  /\ UNCHANGED <<payload, gathered, at, todo, tokens, index, elapsed, held, failed, acked>>

\* There is none: waitTokenTimeout only looks whether the token is done.
CheckToken ==
  /\ pc = "next"
  /\ index <= Len(tokens)
  /\ elapsed >= Timeout
  /\ Waited(tokens[index].state = "pending" \/ TokenError(index))

\* The token a wait blocks on is done.
TokenDone ==
  /\ pc = "blocked"
  /\ tokens[index].state # "pending"
  /\ Waited(TokenError(index))

\* The timer of the wait fires, perhaps as the token completes.
TokenTimedOut ==
  /\ pc = "blocked"
  /\ elapsed >= until
  /\ Waited(TRUE)

\* All tokens have been waited for: ProcessReliableAck unless one failed.
Finish ==
  /\ pc = "next"
  /\ index > Len(tokens)
  /\ acked' = (ReliableAck /\ ~failed)
  /\ pc' = "returned"
  /\ UNCHANGED <<payload, gathered, at, todo, tokens, index, elapsed, until, held, failed>>

-----------------------------------------------------------------------------
\* The client and the broker: a token completes, with or without an error.
ClientCompletes(k, state) ==
  /\ tokens[k].state = "pending"
  /\ tokens' = [tokens EXCEPT ![k].state = state]
  /\ UNCHANGED <<payload, gathered, at, todo, pc, index, elapsed, until, held, failed, acked>>

\* Time passes; a timer that is due fires before more of it does.
Tick ==
  /\ pc = "next" \/ (pc = "blocked" /\ elapsed < until)
  /\ elapsed < MaxElapsed
  /\ elapsed' = elapsed + 1
  /\ held' = IF pc = "blocked" THEN held + 1 ELSE held
  /\ UNCHANGED <<payload, gathered, at, todo, tokens, pc, index, until, failed, acked>>

ProduceStep ==
  \/ UnknownPayloadType
  \/ Gather
  \/ StartPublishing
  \/ \E m \in UNION Range(todo) : Publish(m) \/ MarshalError(m)
  \/ StartWaiting
  \/ WaitToken
  \/ CheckToken
  \/ TokenDone
  \/ TokenTimedOut
  \/ Finish

Next ==
  \/ ProduceStep
  \/ \E k \in DOMAIN tokens, state \in {"sent", "failed"} : ClientCompletes(k, state)
  \/ Tick

Spec == Init /\ [][Next]_vars

-----------------------------------------------------------------------------
Sent(m) == \E k \in DOMAIN tokens : tokens[k].msg = m /\ tokens[k].state = "sent"

\* The record is acked only if every message made from it was published
\* (datastore/mqtt/README.md, item 5: the packet is not acknowledged if any
\* of its publish operations fails), timeouts and unmarshallable fields included.
AckedIsPublished == acked => \A m \in AllMessages : Sent(m)

Handed(class) == {m \in {tokens[k].msg : k \in DOMAIN tokens} : m.topic[1] = class}

\* Where in the record is the alert of a name that began last, the first
\* reported among equals?
Newest(n) ==
  LET a == payload.items IN
  {i \in DOMAIN a :
     /\ a[i].name = n /\ a[i].startedAt # NoTime
     /\ \A j \in DOMAIN a : a[j].name = n =>
          \/ a[j].startedAt < a[i].startedAt
          \/ a[j].startedAt = a[i].startedAt /\ i <= j}

\* When the waits begin, each alert name has a current message exactly if one
\* of its alerts has a start time, and it is the alert that began last,
\* whatever the order the vehicle sent them in.
CurrentIsNewest ==
  payload.kind = "alerts" /\ pc \in {"next", "blocked"} =>
    \A n \in Names :
      {m.body : m \in {m \in Handed("current") : m.topic[2] = n}} = {<<payload.items[i]>> : i \in Newest(n)}

\* However many messages the record has and however slowly their tokens
\* complete, the waits for the tokens (waitTokenTimeout) take one timeout in
\* all, not one each.  Only the waits are counted, up to the moment their
\* timers are due: client.Publish before them and the send on ackChan after
\* them block the session's reader as well, and nothing bounds those.
WaitsShareOneTimeout == held <= Timeout

=============================================================================
