----------------------------- MODULE ZmqProofs -----------------------------
(***************************************************************************)
(* Proofs about ZmqProducer, for any number of sessions and records: the   *)
(* safety of the set-up of the socket, and of what the sessions send on it *)
(* without a lock while it may be closed.                                  *)
(***************************************************************************)
EXTENDS ZmqProducer, TLAPS

Frame == [of : Records, part : {"topic", "payload"}]

InFrames(f) == \E j \in DOMAIN frames : frames[j] = f

\* What CURVE was given, stage by stage.
SetupInv ==
  /\ config \in [verbose : BOOLEAN, key : BOOLEAN, allowed : BOOLEAN]
  /\ stage \in Stages
  /\ monitor \in {"none", "attached", "started", "looping"}
  /\ curve \subseteq {"allowed", "started", "server"}
  /\ sock \in {"none", "open", "closed", "nil"}
  /\ eventErrors \in 0..MaxEventErrors
  /\ receiving \in BOOLEAN
  /\ sock # "none" => stage = "bound"
  /\ stage \in {"socket", "monitor", "pair", "connect", "ready", "key"} => curve = {}
  /\ stage = "allowed" => curve = {} /\ config.allowed
  /\ stage = "auth" => curve = (IF config.allowed THEN {"allowed"} ELSE {})
  /\ stage = "curve" => curve = {"started"} \cup (IF config.allowed THEN {"allowed"} ELSE {})
  /\ stage \in {"bind", "bound"} /\ config.key =>
       curve = {"started", "server"} \cup (IF config.allowed THEN {"allowed"} ELSE {})

SendTypes ==
  /\ call \in [Callers -> [pc : {"idle", "topic", "payload", "ack", "panicked"},
                           rec : Records \cup {"none"}]]
  /\ frames \in Seq(Frame)
  /\ wire \in Seq(Seq(Frame))
  /\ acked \subseteq ReliableRecords

\* A call that is not idle has a record, and no other call has the same.
CallsApart ==
  /\ \A c \in Callers : call[c].pc = "idle" <=> call[c].rec = "none"
  /\ \A c, d \in Callers : call[c].rec = call[d].rec /\ call[c].rec # "none" => c = d
  /\ sock = "none" => \A c \in Callers : call[c].pc = "idle"

\* Where the frames of a record are while its call goes on.
FramesUnderWay ==
  /\ \A c \in Callers : call[c].pc = "payload" /\ sock = "open" =>
       InFrames(Topic(call[c].rec)) \/ Sent(Topic(call[c].rec))
  /\ \A c \in Callers : call[c].pc = "ack" =>
       Sent(Topic(call[c].rec)) /\ Sent(Payload(call[c].rec))

\* PanicLeavesNothing, frame by frame.
NothingOfPanicked ==
  \A c \in Callers : call[c].pc = "panicked" =>
    \A f \in Frame : f.of = call[c].rec => ~Sent(f) /\ ~InFrames(f)

SendInv == SendTypes /\ CallsApart /\ FramesUnderWay /\ AckedIsSent /\ NothingOfPanicked

ZmqInv == SetupInv /\ SendInv

-----------------------------------------------------------------------------
\* The elements of a sequence and of the sequence with one more.
LEMMA AppendElements ==
  ASSUME NEW s \in Seq(Frame), NEW e \in Frame
  PROVE  /\ Append(s, e) \in Seq(Frame)
         /\ \A x : (\E j \in DOMAIN Append(s, e) : Append(s, e)[j] = x)
                     <=> (\E j \in DOMAIN s : s[j] = x) \/ x = e
  <1>1. Append(s, e) \in Seq(Frame) /\ Len(Append(s, e)) = Len(s) + 1
    OBVIOUS
  <1>2. \A j \in 1..Len(s) : Append(s, e)[j] = s[j]
    OBVIOUS
  <1>3. Append(s, e)[Len(s) + 1] = e
    OBVIOUS
  <1>4. DOMAIN s = 1..Len(s) /\ DOMAIN Append(s, e) = 1..(Len(s) + 1)
    BY <1>1
  <1>5. 1..(Len(s) + 1) = 1..Len(s) \cup {Len(s) + 1}
    OBVIOUS
  <1> QED
    BY <1>1, <1>2, <1>3, <1>4, <1>5, Zenon

\* A frame is in one message of w and m exactly when it is in w or in m.
LEMMA AppendMessage ==
  ASSUME NEW w \in Seq(Seq(Frame)), NEW m \in Seq(Frame)
  PROVE  /\ Append(w, m) \in Seq(Seq(Frame))
         /\ \A f : (\E i \in DOMAIN Append(w, m) : \E j \in DOMAIN Append(w, m)[i] : Append(w, m)[i][j] = f)
                     <=> \/ \E i \in DOMAIN w : \E j \in DOMAIN w[i] : w[i][j] = f
                         \/ \E j \in DOMAIN m : m[j] = f
  <1>1. Append(w, m) \in Seq(Seq(Frame))
    OBVIOUS
  <1>2. \A j \in 1..Len(w) : Append(w, m)[j] = w[j]
    OBVIOUS
  <1>3. Append(w, m)[Len(w) + 1] = m
    OBVIOUS
  <1>4. DOMAIN w = 1..Len(w) /\ DOMAIN Append(w, m) = 1..(Len(w) + 1)
    BY <1>1
  <1>5. 1..(Len(w) + 1) = 1..Len(w) \cup {Len(w) + 1}
    OBVIOUS
  <1> QED
    BY <1>1, <1>2, <1>3, <1>4, <1>5, Zenon

-----------------------------------------------------------------------------
\* The invariant holds before NewProducer.
LEMMA ZmqInitHolds == Init => ZmqInv
  <1> SUFFICES ASSUME Init PROVE ZmqInv
    OBVIOUS
  <1>1. SetupInv
    BY EventErrorsAssumption DEF Init, SetupInv, Stages
  <1>2. SendTypes /\ CallsApart
    BY DEF Init, SendTypes, CallsApart, Idle
  <1>3. \A c \in Callers : call[c].pc = "idle"
    BY DEF Init, Idle
  <1>4. FramesUnderWay /\ NothingOfPanicked
    BY <1>3 DEF FramesUnderWay, NothingOfPanicked
  <1>5. AckedIsSent
    BY DEF Init, AckedIsSent
  <1> QED
    BY <1>1, <1>2, <1>4, <1>5 DEF ZmqInv, SendInv

\* What the sessions send is untouched by a step that leaves sendVars alone.
LEMMA SendUnchanged ==
  ASSUME SendInv, UNCHANGED sendVars
  PROVE  SendInv'
  BY DEF SendInv, SendTypes, CallsApart, FramesUnderWay, AckedIsSent, NothingOfPanicked,
         Sent, InFrames, sendVars

\* A step of the set-up, of the monitor or of handleAcks keeps SetupInv.
LEMMA SetupSteps ==
  ASSUME SetupInv, NewProducer \/ MonitorReady \/ RecvEvent \/ RecvEventError \/ AcksStall
  PROVE  SetupInv'
  <1> USE DEF SetupInv, Stages, sendVars, eventVars, setupVars
  <1>1. CASE stage # "bound" /\ Fail
    BY <1>1 DEF Fail
  <1>2. CASE NewSocket
    BY <1>1, <1>2 DEF NewSocket
  <1>3. CASE Monitor
    BY <1>1, <1>3 DEF Monitor
  <1>4. CASE NewPairSocket
    BY <1>1, <1>4 DEF NewPairSocket
  <1>5. CASE ConnectMonitor
    BY <1>1, <1>5 DEF ConnectMonitor
  <1>6. CASE ReadServerKey
    BY <1>1, <1>6 DEF ReadServerKey
  <1>7. CASE ReadAllowedKeys
    BY <1>1, <1>7 DEF ReadAllowedKeys
  <1>8. CASE AuthStart
    BY <1>1, <1>8 DEF AuthStart
  <1>9. CASE ServerAuthCurve
    BY <1>1, <1>9 DEF ServerAuthCurve
  <1>10. CASE Bind
    BY <1>1, <1>10 DEF Bind
  <1>11. CASE MonitorReady
    BY <1>11 DEF MonitorReady
  <1>12. CASE RecvEvent
    BY <1>12 DEF RecvEvent
  <1>13. CASE RecvEventError
    BY <1>13, EventErrorsAssumption DEF RecvEventError
  <1>14. CASE AcksStall
    BY <1>14 DEF AcksStall
  <1> QED
    BY <1>2, <1>3, <1>4, <1>5, <1>6, <1>7, <1>8, <1>9, <1>10, <1>11, <1>12, <1>13, <1>14 DEF NewProducer

-----------------------------------------------------------------------------
\* The set-up is not changed by what the sessions do, and by Close only in
\* what it knows of the socket.
LEMMA SendKeepsSetup ==
  ASSUME SetupInv, Close \/ \E c \in Callers : CallProduce(c) \/ Produce(c)
  PROVE  SetupInv'
  <1>1. CASE Close
    BY <1>1 DEF Close, CloseSocket, ForgetSocket, Event, SetupInv, setupVars, eventVars
  <1>2. ASSUME NEW c \in Callers, CallProduce(c) \/ Produce(c)
        PROVE  UNCHANGED <<setupVars, sock, eventErrors, receiving>>
    BY <1>2 DEF CallProduce, Produce, SendTopic, SendPayload, ProcessReliableAck, eventVars
  <1>3. CASE UNCHANGED <<setupVars, sock, eventErrors, receiving>>
    BY <1>3 DEF SetupInv, setupVars
  <1> QED
    BY <1>1, <1>2, <1>3

\* Bind opens the socket when no call has been made.
LEMMA BindKeepsSend ==
  ASSUME SetupInv, SendInv, Bind
  PROVE  SendInv'
  <1>1. CASE Fail
    BY <1>1, SendUnchanged DEF Fail
  <1>2. CASE sock' = "open" /\ UNCHANGED <<call, frames, wire, acked>>
    <2>1. \A c \in Callers : call[c].pc = "idle" /\ call' = call
      BY <1>2 DEF Bind, SetupInv, SendInv, CallsApart
    <2>2. SendTypes' /\ CallsApart' /\ AckedIsSent'
      BY <1>2, <2>1 DEF SendInv, SendTypes, CallsApart, AckedIsSent, Sent
    <2>3. FramesUnderWay' /\ NothingOfPanicked'
      BY <2>1 DEF FramesUnderWay, NothingOfPanicked
    <2> QED
      BY <2>2, <2>3 DEF SendInv
  <1> QED
    BY <1>1, <1>2 DEF Bind

\* Close drops frames of no message that left.
LEMMA CloseKeepsSend ==
  ASSUME SendInv, Close
  PROVE  SendInv'
  <1>1. /\ sock # "none" /\ sock' \notin {"none", "open"}
        /\ UNCHANGED <<call, wire, acked>>
        /\ frames' = frames \/ frames' = <<>>
    BY DEF Close, CloseSocket, ForgetSocket
  <1>2. \A f : (Sent(f)' <=> Sent(f)) /\ (InFrames(f)' => InFrames(f))
    BY <1>1 DEF Sent, InFrames
  <1>3. SendTypes' /\ CallsApart'
    <2>1. frames \in Seq(Frame) /\ <<>> \in Seq(Frame)
      BY DEF SendInv, SendTypes
    <2>2. frames' \in Seq(Frame)
      BY <1>1, <2>1, Zenon
    <2> QED
      BY <1>1, <2>2 DEF SendInv, SendTypes, CallsApart
  <1>4. FramesUnderWay' /\ AckedIsSent'
    BY <1>1, <1>2 DEF SendInv, FramesUnderWay, AckedIsSent, Sent, Topic, Payload
  <1>5. NothingOfPanicked'
    BY <1>1, <1>2 DEF SendInv, NothingOfPanicked
  <1> QED
    BY <1>3, <1>4, <1>5 DEF SendInv

-----------------------------------------------------------------------------
\* A call begins with a record of which nothing has been sent or acked.
LEMMA CallProduceKeepsSend ==
  ASSUME SendInv, NEW c \in Callers, CallProduce(c)
  PROVE  SendInv'
  <1> USE DEF SendInv
  <1>1. PICK r \in Records :
          /\ ~Produced(r)
          /\ call' = [call EXCEPT ![c] = [pc |-> IF sock = "nil" THEN "panicked" ELSE "topic", rec |-> r]]
    BY DEF CallProduce
  <1>2. call[c] = Idle /\ sock # "none" /\ UNCHANGED <<sock, frames, wire, acked>>
    BY DEF CallProduce
  <1>3. \A f : (Sent(f)' <=> Sent(f)) /\ (InFrames(f)' <=> InFrames(f))
    BY <1>2 DEF Sent, InFrames
  <1>4. r # "none" /\ \A d \in Callers : call[d].rec # r
    BY <1>1, <1>2 DEF Produced, Idle
  <1>5. \A f : f.of = r => ~Sent(f) /\ ~InFrames(f)
    BY <1>1 DEF Produced, Sent, InFrames
  <1>6. /\ call'[c] \in [pc : {"topic", "panicked"}, rec : Records]
        /\ call'[c].rec = r
        /\ \A d \in Callers \ {c} : call'[d] = call[d]
    BY <1>1 DEF SendTypes
  <1>7. SendTypes'
    BY <1>1, <1>2 DEF SendTypes
  <1>8. CallsApart'
    BY <1>2, <1>4, <1>6 DEF CallsApart
  <1>9. FramesUnderWay'
    <2>1. ASSUME NEW d \in Callers, call'[d].pc \in {"payload", "ack"}
          PROVE  call'[d] = call[d]
      BY <1>6, <2>1
    <2> QED
      BY <1>2, <1>3, <2>1 DEF FramesUnderWay, Topic, Payload
  <1>10. AckedIsSent'
    BY <1>2 DEF AckedIsSent, Sent, Topic, Payload
  <1>11. NothingOfPanicked'
    BY <1>3, <1>5, <1>6 DEF NothingOfPanicked
  <1> QED
    BY <1>7, <1>8, <1>9, <1>10, <1>11

\* A call that is left alone, or returns, or a wire that grows, disturbs no
\* other call: the common part of the steps of Produce.
LEMMA ReturnKeepsSend ==
  ASSUME SendInv, NEW c \in Callers, Returned(c), sock # "none",
         UNCHANGED <<sock, frames, wire>>,
         acked' \subseteq ReliableRecords,
         \A r \in acked' : Sent(Topic(r)) /\ Sent(Payload(r))
  PROVE  SendInv'
  <1> USE DEF SendInv
  <1>1. \A f : (Sent(f)' <=> Sent(f)) /\ (InFrames(f)' <=> InFrames(f))
    BY DEF Sent, InFrames
  <1>2. call'[c] = Idle /\ \A d \in Callers \ {c} : call'[d] = call[d]
    BY DEF Returned, SendTypes
  <1>3. SendTypes'
    BY DEF SendTypes, Returned, Idle
  <1>4. CallsApart'
    BY <1>2 DEF CallsApart, Idle
  <1>5. \A d \in Callers : call'[d].pc # "idle" => call'[d] = call[d]
    BY <1>2 DEF Idle
  <1>6. FramesUnderWay'
    BY <1>1, <1>5 DEF FramesUnderWay, Topic, Payload
  <1>7. AckedIsSent'
    BY DEF AckedIsSent, Sent, Topic, Payload
  <1>8. NothingOfPanicked'
    BY <1>1, <1>5 DEF NothingOfPanicked
  <1> QED
    BY <1>3, <1>4, <1>6, <1>7, <1>8

\* The first frame joins those of the message under way.
LEMMA SendTopicKeepsSend ==
  ASSUME SetupInv, SendInv, NEW c \in Callers, SendTopic(c)
  PROVE  SendInv'
  <1> USE DEF SendInv
  <1>1. call[c].pc = "topic" /\ UNCHANGED <<sock, wire, acked>>
    BY DEF SendTopic
  <1>2. sock # "none" /\ call[c].rec \in Records /\ Topic(call[c].rec) \in Frame
    BY <1>1 DEF SendTypes, CallsApart, Topic, Frame
  <1>3. CASE sock # "open"
    <2>1. frames' = frames /\ Returned(c)
      BY <1>3 DEF SendTopic
    <2>2. acked' \subseteq ReliableRecords /\ \A r \in acked' : Sent(Topic(r)) /\ Sent(Payload(r))
      BY <1>1 DEF SendTypes, AckedIsSent
    <2> QED
      BY <1>1, <1>2, <2>1, <2>2, ReturnKeepsSend
  <1>4. CASE sock = "open"
    <2>1. frames' = Append(frames, Topic(call[c].rec)) /\ Moved(c, "payload")
      BY <1>4 DEF SendTopic
    <2>2. frames' \in Seq(Frame) /\ \A f : InFrames(f)' <=> InFrames(f) \/ f = Topic(call[c].rec)
      <3>1. frames \in Seq(Frame)
        BY DEF SendTypes
      <3> DEFINE e == Topic(call[c].rec)
      <3>2. e \in Frame
        BY <1>2
      <3> HIDE DEF e
      <3>3. /\ Append(frames, e) \in Seq(Frame)
            /\ \A x : (\E j \in DOMAIN Append(frames, e) : Append(frames, e)[j] = x)
                        <=> (\E j \in DOMAIN frames : frames[j] = x) \/ x = e
        BY <3>1, <3>2, AppendElements, Zenon
      <3> QED
        BY <2>1, <3>3, Zenon DEF InFrames, e
    <2>3. \A f : Sent(f)' <=> Sent(f)
      BY <1>1 DEF Sent
    <2>4. /\ call'[c].pc = "payload" /\ call'[c].rec = call[c].rec
          /\ \A d \in Callers \ {c} : call'[d] = call[d]
      BY <2>1 DEF Moved, SendTypes
    <2>5. SendTypes'
      BY <1>1, <2>1, <2>2 DEF SendTypes, Moved
    <2>6. CallsApart'
      BY <1>1, <1>2, <2>4 DEF CallsApart
    <2>7. FramesUnderWay'
      <3>1. InFrames(Topic(call[c].rec))'
        BY <2>2, <2>4 DEF Topic
      <3>2. ASSUME NEW d \in Callers, d # c
            PROVE  /\ call'[d].pc = "payload" /\ sock' = "open" =>
                        InFrames(Topic(call[d].rec))' \/ Sent(Topic(call[d].rec))'
                   /\ call'[d].pc = "ack" =>
                        Sent(Topic(call[d].rec))' /\ Sent(Payload(call[d].rec))'
        BY <1>1, <2>2, <2>3, <2>4, <3>2 DEF FramesUnderWay, Topic, Payload
      <3> QED
        BY <2>4, <3>1, <3>2 DEF FramesUnderWay
    <2>8. AckedIsSent'
      BY <1>1 DEF AckedIsSent, Sent, Topic, Payload
    <2>9. NothingOfPanicked'
      <3> SUFFICES ASSUME NEW d \in Callers, call'[d].pc = "panicked",
                          NEW f \in Frame, f.of = call'[d].rec
                   PROVE  ~Sent(f)' /\ ~InFrames(f)'
        BY DEF NothingOfPanicked
      <3>1. d # c /\ call'[d] = call[d]
        BY <2>4
      <3>2. call[d].rec # call[c].rec
        BY <1>1, <1>2, <3>1 DEF CallsApart
      <3>3. f # Topic(call[c].rec)
        BY <3>1, <3>2 DEF Topic
      <3> QED
        BY <2>2, <2>3, <3>1, <3>3 DEF NothingOfPanicked
    <2> QED
      BY <2>5, <2>6, <2>7, <2>8, <2>9
  <1> QED
    BY <1>3, <1>4

\* The last frame completes the message under way, whoever began it.
LEMMA SendPayloadKeepsSend ==
  ASSUME SetupInv, SendInv, NEW c \in Callers, SendPayload(c)
  PROVE  SendInv'
  <1> USE DEF SendInv
  <1>1. call[c].pc = "payload" /\ UNCHANGED <<sock, acked>>
    BY DEF SendPayload
  <1>2. sock # "none" /\ call[c].rec \in Records /\ Payload(call[c].rec) \in Frame
    BY <1>1 DEF SendTypes, CallsApart, Payload, Frame
  <1>3. CASE sock # "open"
    <2>1. UNCHANGED <<wire, frames>> /\ Returned(c)
      BY <1>3 DEF SendPayload
    <2>2. acked' \subseteq ReliableRecords /\ \A r \in acked' : Sent(Topic(r)) /\ Sent(Payload(r))
      BY <1>1 DEF SendTypes, AckedIsSent
    <2> QED
      BY <1>1, <1>2, <2>1, <2>2, ReturnKeepsSend
  <1>4. CASE sock = "open"
    <2> DEFINE m == Append(frames, Payload(call[c].rec))
    <2>1. wire' = Append(wire, m) /\ frames' = <<>> /\ Moved(c, "ack")
      BY <1>4 DEF SendPayload
    <2>2. m \in Seq(Frame) /\ \A f : (\E j \in DOMAIN m : m[j] = f) <=> InFrames(f) \/ f = Payload(call[c].rec)
      <3>1. frames \in Seq(Frame)
        BY DEF SendTypes
      <3> DEFINE e == Payload(call[c].rec)
      <3>2. e \in Frame
        BY <1>2
      <3> HIDE DEF e
      <3>3. /\ Append(frames, e) \in Seq(Frame)
            /\ \A x : (\E j \in DOMAIN Append(frames, e) : Append(frames, e)[j] = x)
                        <=> (\E j \in DOMAIN frames : frames[j] = x) \/ x = e
        BY <3>1, <3>2, AppendElements, Zenon
      <3> QED
        BY <2>1, <3>3, Zenon DEF InFrames, e
    <2> HIDE DEF m
    <2>3. wire' \in Seq(Seq(Frame)) /\ \A f : Sent(f)' <=> Sent(f) \/ \E j \in DOMAIN m : m[j] = f
      <3>1. wire \in Seq(Seq(Frame))
        BY DEF SendTypes
      <3>2. /\ Append(wire, m) \in Seq(Seq(Frame))
            /\ \A f : (\E i \in DOMAIN Append(wire, m) : \E j \in DOMAIN Append(wire, m)[i] : Append(wire, m)[i][j] = f)
                        <=> \/ \E i \in DOMAIN wire : \E j \in DOMAIN wire[i] : wire[i][j] = f
                            \/ \E j \in DOMAIN m : m[j] = f
        BY <2>2, <3>1, AppendMessage, Zenon
      <3> QED
        BY <2>1, <3>2, Zenon DEF Sent
    <2>4. \A f : Sent(f)' <=> Sent(f) \/ InFrames(f) \/ f = Payload(call[c].rec)
      BY <2>2, <2>3
    <2>5. frames' \in Seq(Frame) /\ \A f : ~InFrames(f)'
      BY <2>1 DEF InFrames
    <2>6. /\ call'[c].pc = "ack" /\ call'[c].rec = call[c].rec
          /\ \A d \in Callers \ {c} : call'[d] = call[d]
      BY <2>1 DEF Moved, SendTypes
    <2>7. SendTypes'
      BY <1>1, <2>1, <2>3, <2>5 DEF SendTypes, Moved
    <2>8. CallsApart'
      BY <1>1, <1>2, <2>6 DEF CallsApart
    <2>9. FramesUnderWay'
      <3>1. Sent(Topic(call[c].rec))' /\ Sent(Payload(call[c].rec))'
        BY <1>1, <1>4, <2>4, <2>6 DEF FramesUnderWay, Topic, Payload
      <3>2. ASSUME NEW d \in Callers, d # c
            PROVE  /\ call'[d].pc = "payload" /\ sock' = "open" =>
                        InFrames(Topic(call[d].rec))' \/ Sent(Topic(call[d].rec))'
                   /\ call'[d].pc = "ack" =>
                        Sent(Topic(call[d].rec))' /\ Sent(Payload(call[d].rec))'
        BY <1>1, <2>4, <2>6, <3>2 DEF FramesUnderWay, Topic, Payload
      <3> QED
        BY <2>6, <3>1, <3>2 DEF FramesUnderWay
    <2>10. AckedIsSent'
      BY <1>1, <2>4 DEF AckedIsSent, Topic, Payload
    <2>11. NothingOfPanicked'
      <3> SUFFICES ASSUME NEW d \in Callers, call'[d].pc = "panicked",
                          NEW f \in Frame, f.of = call'[d].rec
                   PROVE  ~Sent(f)' /\ ~InFrames(f)'
        BY DEF NothingOfPanicked
      <3>1. d # c /\ call'[d] = call[d]
        BY <2>6
      <3>2. call[d].rec # call[c].rec
        BY <1>1, <1>2, <3>1 DEF CallsApart
      <3>3. f # Payload(call[c].rec)
        BY <3>1, <3>2 DEF Payload
      <3> QED
        BY <2>4, <2>5, <3>1, <3>3 DEF NothingOfPanicked
    <2> QED
      BY <2>7, <2>8, <2>9, <2>10, <2>11
  <1> QED
    BY <1>3, <1>4

\* An ack is for a record whose two frames have left.
LEMMA AckKeepsSend ==
  ASSUME SetupInv, SendInv, NEW c \in Callers, ProcessReliableAck(c)
  PROVE  SendInv'
  <1> USE DEF SendInv
  <1>1. /\ call[c].pc = "ack" /\ Returned(c)
        /\ acked' = acked \cup ({call[c].rec} \cap ReliableRecords)
        /\ UNCHANGED <<sock, frames, wire>>
    BY DEF ProcessReliableAck
  <1>2. sock # "none"
    BY <1>1 DEF CallsApart
  <1>3. Sent(Topic(call[c].rec)) /\ Sent(Payload(call[c].rec))
    BY <1>1 DEF FramesUnderWay
  <1>4. acked' \subseteq ReliableRecords
    BY <1>1 DEF SendTypes
  <1>5. \A r \in acked' : Sent(Topic(r)) /\ Sent(Payload(r))
    BY <1>1, <1>3 DEF AckedIsSent
  <1> QED
    BY <1>1, <1>2, <1>4, <1>5, ReturnKeepsSend

-----------------------------------------------------------------------------
\* The invariant is kept by every step of the producer, its monitor, the
\* sessions and Close.
THEOREM ZmqInvariance == Spec => []ZmqInv
  <1>1. Init => ZmqInv
    BY ZmqInitHolds
  <1>2. ZmqInv /\ [Next]_vars => ZmqInv'
    <2> SUFFICES ASSUME ZmqInv, [Next]_vars PROVE ZmqInv'
      OBVIOUS
    <2> USE DEF ZmqInv
    <2>1. CASE NewProducer \/ MonitorReady \/ RecvEvent \/ RecvEventError \/ AcksStall
      <3>1. SetupInv'
        BY <2>1, SetupSteps
      <3>2. UNCHANGED sendVars \/ Bind
        BY <2>1 DEF NewProducer, NewSocket, Monitor, NewPairSocket, ConnectMonitor, ReadServerKey,
                    ReadAllowedKeys, AuthStart, ServerAuthCurve, Fail, MonitorReady, RecvEvent,
                    RecvEventError, AcksStall
      <3> QED
        BY <3>1, <3>2, SendUnchanged, BindKeepsSend
    <2>2. CASE Close
      BY <2>2, SendKeepsSetup, CloseKeepsSend
    <2>3. ASSUME NEW c \in Callers, CallProduce(c) \/ Produce(c)
          PROVE  ZmqInv'
      <3>1. SetupInv'
        BY <2>3, SendKeepsSetup
      <3> QED
        BY <2>3, <3>1, CallProduceKeepsSend, SendTopicKeepsSend, SendPayloadKeepsSend, AckKeepsSend
           DEF Produce
    <2>4. CASE UNCHANGED vars
      <3>1. SetupInv'
        BY <2>4 DEF SetupInv, vars, setupVars, sendVars, eventVars
      <3> QED
        BY <2>4, <3>1, SendUnchanged DEF vars
    <2> QED
      BY <2>1, <2>2, <2>3, <2>4 DEF Next
  <1> QED
    BY <1>1, <1>2, PTL DEF Spec

\* The variables keep their types.
THEOREM ZmqTypeCorrect == Spec => []TypeOK
  <1>1. ZmqInv => TypeOK
    <2> SUFFICES ASSUME ZmqInv PROVE TypeOK
      OBVIOUS
    <2>1. ASSUME NEW c \in Callers
          PROVE  \/ call[c] = Idle
                 \/ call[c].rec \in Records /\ call[c].pc \in {"topic", "payload", "ack", "panicked"}
      BY DEF ZmqInv, SendInv, SendTypes, CallsApart, Idle
    <2> QED
      BY <2>1 DEF ZmqInv, SetupInv, SendInv, SendTypes, TypeOK
  <1> QED
    BY <1>1, ZmqInvariance, PTL

\* A record that was acked has left in full (zmq.go:77-83), for any number of
\* sessions on the shared socket.
THEOREM AckImpliesSent == Spec => []AckedIsSent
  <1>1. ZmqInv => AckedIsSent
    BY DEF ZmqInv, SendInv
  <1> QED
    BY <1>1, ZmqInvariance, PTL

\* A bound socket has the authentication its configuration asks for
\* (zmq.go:130-176).
THEOREM BoundSocketAuthenticates == Spec => []BoundIsAuthenticated
  <1>1. ZmqInv => BoundIsAuthenticated
    BY DEF ZmqInv, SetupInv, BoundIsAuthenticated
  <1> QED
    BY <1>1, ZmqInvariance, PTL

\* A Produce that panics on the forgotten socket has sent and acked nothing
\* (zmq.go:77, 95-103).
THEOREM PanicIsClean == Spec => []PanicLeavesNothing
  <1>1. ZmqInv => PanicLeavesNothing
    <2> SUFFICES ASSUME ZmqInv, NEW c \in Callers, call[c].pc = "panicked"
                 PROVE  /\ call[c].rec \notin acked
                        /\ \A m \in Range(wire) \cup {frames} : \A j \in DOMAIN m : m[j].of # call[c].rec
      BY DEF PanicLeavesNothing
    <2>1. \A f \in Frame : f.of = call[c].rec => ~Sent(f) /\ ~InFrames(f)
      BY DEF ZmqInv, SendInv, NothingOfPanicked
    <2>2. call[c].rec \in Records
      BY DEF ZmqInv, SendInv, SendTypes, CallsApart
    <2>3. Topic(call[c].rec) \in Frame /\ Topic(call[c].rec).of = call[c].rec
      BY <2>2 DEF Topic, Frame
    <2>4. call[c].rec \notin acked
      BY <2>1, <2>3 DEF ZmqInv, SendInv, AckedIsSent
    <2>5. ASSUME NEW i \in DOMAIN wire, NEW j \in DOMAIN wire[i]
          PROVE  wire[i][j].of # call[c].rec
      <3>1. wire[i] \in Seq(Frame)
        BY DEF ZmqInv, SendInv, SendTypes
      <3>2. wire[i][j] \in Frame /\ Sent(wire[i][j])
        BY <3>1 DEF Sent
      <3> QED
        BY <2>1, <3>2
    <2>6. ASSUME NEW j \in DOMAIN frames
          PROVE  frames[j].of # call[c].rec
      <3>1. frames[j] \in Frame /\ InFrames(frames[j])
        BY DEF ZmqInv, SendInv, SendTypes, InFrames
      <3> QED
        BY <2>1, <3>1
    <2> QED
      BY <2>4, <2>5, <2>6 DEF Range
  <1> QED
    BY <1>1, ZmqInvariance, PTL
=============================================================================
