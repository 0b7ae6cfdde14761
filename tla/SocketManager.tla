--------------------------- MODULE SocketManager ---------------------------
(***************************************************************************)
(* The websocket of a session, the bounded channel of its responses and    *)
(* the goroutine that writes them (server/streaming/socket.go: writer,     *)
(* writeMessage, respondToVehicle, Close).  The reading goroutine is in    *)
(* Streaming, where it meets the registry and the dispatchers.             *)
(***************************************************************************)
EXTENDS Record

CONSTANTS WriteChanCap,   \* capacity of writeChan: 1000 in NewSocketManager
          NoResponse      \* the writer holds no message

ASSUME WriteChanCapAssumption == WriteChanCap \in Nat \ {0}

\* The bytes of a response: an ack (Txid, topic) or an error (Txid).  sess
\* is the session whose serializer built it.
Responses == [sess : Sessions, seq : Nat, txType : TxTypes, kind : {"ack", "error"}]

ASSUME NoResponseAssumption == NoResponse \notin Responses

VARIABLES conn,        \* the websocket of each session
          writeChan,   \* sm.writeChan
          writer,      \* where the goroutine writer stands
          writing,     \* the message it took from writeChan
          stopped,     \* sm.stopChan is closed
          deadline,    \* the read deadline set when the writer exits
          wire         \* what was written while the vehicle was connected

socketVars == <<conn, writeChan, writer, writing, stopped, deadline, wire>>

SocketTypeOK ==
  /\ conn \in [Sessions -> {"none", "open", "lost", "closed"}]
  /\ writeChan \in [Sessions -> Seq(Responses)]
  /\ writer \in [Sessions -> {"none", "select", "writing", "exited"}]
  /\ writing \in [Sessions -> Responses \cup {NoResponse}]
  /\ stopped \in [Sessions -> BOOLEAN]
  /\ deadline \in [Sessions -> BOOLEAN]
  /\ wire \in [Sessions -> Seq(Responses)]

SocketInit ==
  /\ conn = [s \in Sessions |-> "none"]
  /\ writeChan = [s \in Sessions |-> << >>]
  /\ writer = [s \in Sessions |-> "none"]
  /\ writing = [s \in Sessions |-> NoResponse]
  /\ stopped = [s \in Sessions |-> FALSE]
  /\ deadline = [s \in Sessions |-> FALSE]
  /\ wire = [s \in Sessions |-> << >>]

\* The vehicle goes away: it closes, or its network does.
VehicleLeaves(s) ==
  /\ conn[s] = "open"
  /\ conn' = [conn EXCEPT ![s] = "lost"]
  /\ UNCHANGED <<writeChan, writer, writing, stopped, deadline, wire>>

\* The response respondToVehicle builds from a record.
ResponseOf(r, kind) == [sess |-> r.sess, seq |-> r.seq, txType |-> r.txType, kind |-> kind]

\* respondToVehicle: the send blocks while the channel is full, whether or
\* not a writer is left to drain it.
RespondToVehicle(s, r, kind) ==
  /\ Len(writeChan[s]) < WriteChanCap
  /\ writeChan' = [writeChan EXCEPT ![s] = Append(@, ResponseOf(r, kind))]
  /\ UNCHANGED <<conn, writer, writing, stopped, deadline, wire>>

\* select of the writer, case msg := <-writeChan
WriterTake(s) ==
  /\ writer[s] = "select"
  /\ writeChan[s] # << >>
  /\ writing' = [writing EXCEPT ![s] = Head(writeChan[s])]
  /\ writeChan' = [writeChan EXCEPT ![s] = Tail(@)]
  /\ writer' = [writer EXCEPT ![s] = "writing"]
  /\ UNCHANGED <<conn, stopped, deadline, wire>>

\* writeMessage succeeds.  After the vehicle has gone the kernel may still
\* take the bytes; after Close the write fails.
WriteMessage(s) ==
  /\ writer[s] = "writing"
  /\ conn[s] \in {"open", "lost"}
  /\ wire' = IF conn[s] = "open" THEN [wire EXCEPT ![s] = Append(@, writing[s])] ELSE wire
  /\ writing' = [writing EXCEPT ![s] = NoResponse]
  /\ writer' = [writer EXCEPT ![s] = "select"]
  /\ UNCHANGED <<conn, writeChan, stopped, deadline>>

\* A writer that returns without its deferred SetReadDeadline.
WriterExitNoDeadline(s) ==
  /\ writer' = [writer EXCEPT ![s] = "exited"]
  /\ writing' = [writing EXCEPT ![s] = NoResponse]
  /\ UNCHANGED <<conn, writeChan, stopped, deadline, wire>>

\* The writer returns; its deferred call sets the read deadline.
WriterExit(s) ==
  /\ writer' = [writer EXCEPT ![s] = "exited"]
  /\ writing' = [writing EXCEPT ![s] = NoResponse]
  /\ deadline' = [deadline EXCEPT ![s] = TRUE]
  /\ UNCHANGED <<conn, writeChan, stopped, wire>>

\* writeMessage fails: the connection is gone, or the vehicle does not read
\* and WriteLoopDeadline passes.
WriteError(s) == writer[s] = "writing" /\ WriterExit(s)

\* select of the writer, case <-stopChan
WriterStop(s) == writer[s] = "select" /\ stopped[s] /\ WriterExit(s)

Writer(s) == WriterTake(s) \/ WriteMessage(s) \/ WriteError(s) \/ WriterStop(s)
=============================================================================
