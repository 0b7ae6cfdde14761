--------------------------- MODULE SocketRegistry ---------------------------
(***************************************************************************)
(* server/streaming/socket_registry.go: the map from socket UUID to the    *)
(* socket manager that handleAcks uses to route reliable acks, and the     *)
(* counter the metrics and the tests read.  Each operation runs under the  *)
(* registry's mutex, so each is one step.                                  *)
(*                                                                         *)
(* The UUID of a session is the X-TXID header of the client's request when *)
(* it parses and a fresh one otherwise (buildRequestContext): nothing in   *)
(* the server makes the UUIDs of two live sessions differ, so UUID is any  *)
(* function of the sessions.                                               *)
(***************************************************************************)
EXTENDS Record, Integers, FiniteSets

CONSTANTS UUIDs,      \* socket identifiers
          UUID,       \* the identifier of each session
          NoSession   \* the nil *SocketManager

ASSUME UUIDAssumption == UUID \in [Sessions -> UUIDs]
ASSUME SessionsAssumption == IsFiniteSet(Sessions) /\ NoSession \notin Sessions

VARIABLES sockets,    \* s.sockets
          counter     \* s.counter

registryVars == <<sockets, counter>>

RegistryTypeOK ==
  /\ sockets \in [UUIDs -> Sessions \cup {NoSession}]
  /\ counter \in Nat

\* NewSocketRegistry
RegistryInit ==
  /\ sockets = [u \in UUIDs |-> NoSession]
  /\ counter = 0

RegisterSocket(s) ==
  /\ sockets' = [sockets EXCEPT ![UUID[s]] = s]
  /\ counter' = counter + 1

\* A deregistration that forgets to count down.
DeregisterSocketNoCount(s) ==
  /\ sockets' = [sockets EXCEPT ![UUID[s]] = NoSession]
  /\ UNCHANGED counter

\* The entry is deleted whoever registered it last.
DeregisterSocket(s) ==
  /\ sockets' = [sockets EXCEPT ![UUID[s]] = NoSession]
  /\ counter' = IF counter > 0 THEN counter - 1 ELSE counter

\* A lookup that falls back on some live socket.
GetSocketAnyLive(u) ==
  LET live == {v \in UUIDs : sockets[v] # NoSession}
  IN IF sockets[u] = NoSession /\ live # {} THEN sockets[CHOOSE v \in live : TRUE] ELSE sockets[u]

GetSocket(u) == sockets[u]
=============================================================================
