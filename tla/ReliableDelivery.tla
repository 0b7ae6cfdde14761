-------------------------- MODULE ReliableDelivery --------------------------
(***************************************************************************)
(* What reliable acks promise a vehicle, without sockets, channels or      *)
(* goroutines: a message is received, its record is published at most      *)
(* once as one type of record, and the vehicle is told so at most once,    *)
(* afterwards (README.md "Reliable Acks").  Any of these may never happen. *)
(***************************************************************************)
EXTENDS Naturals, Sequences

CONSTANTS Vehicles,    \* the connections
          Types        \* the record types whose acks are reliable

VARIABLES received,    \* messages received, by connection
          published,   \* the records published
          told         \* what reached each connection, in order: for each
                       \* answer the set of the records it acks, one or none

deliveryVars == <<received, published, told>>

AckedOn(v) == UNION {told[v][k] : k \in 1..Len(told[v])}

DeliveryInit ==
  /\ received = [v \in Vehicles |-> 0]
  /\ published = {}
  /\ told = [v \in Vehicles |-> << >>]

Receive(v) ==
  /\ received' = [received EXCEPT ![v] = @ + 1]
  /\ UNCHANGED <<published, told>>

\* The n-th message of v becomes one record, of one type.
Publish(v, n, t) ==
  /\ n \in 1..received[v]
  /\ \A i \in published : i.sess = v => i.seq # n
  /\ published' = published \cup {[sess |-> v, seq |-> n, txType |-> t]}
  /\ UNCHANGED <<received, told>>

\* The ack of i reaches connection v: i was published, and no connection was
\* told of it before.
Ack(v, i) ==
  /\ i \in published
  /\ \A w \in Vehicles : i \notin AckedOn(w)
  /\ told' = [told EXCEPT ![v] = Append(@, {i})]
  /\ UNCHANGED <<received, published>>

\* An error, or the ack of a record type that no dispatcher acks.
Answer(v) ==
  /\ told' = [told EXCEPT ![v] = Append(@, {})]
  /\ UNCHANGED <<received, published>>

DeliveryNext ==
  \E v \in Vehicles :
    \/ Receive(v)
    \/ \E n \in 1..received[v], t \in Types : Publish(v, n, t)
    \/ \E i \in published : Ack(v, i)
    \/ Answer(v)

DeliverySpec == DeliveryInit /\ [][DeliveryNext]_deliveryVars
=============================================================================
