----------------------------- MODULE MqttProofs -----------------------------
(***************************************************************************)
(* Proofs about MqttProducer, for any records, any timeout and any order   *)
(* in which the client completes the tokens.                               *)
(***************************************************************************)
EXTENDS MqttProducer, SequenceTheorems, TLAPS

\* Once the record is made into messages, every one of them is still to be
\* handed over, or has a token.
NoneLost ==
  pc # "gather" => \A m \in AllMessages :
    \/ \E j \in DOMAIN todo : m \in todo[j]
    \/ \E k \in DOMAIN tokens : tokens[k].msg = m

\* The waits begin when nothing is left to hand over, and with a clean slate.
Phases ==
  /\ pc = "gather" => todo = <<>> /\ tokens = <<>>
  /\ pc \in {"next", "blocked"} => todo = <<>>
  /\ pc \in {"gather", "publish"} => index = 1 /\ held = 0 /\ ~failed
  /\ pc # "returned" => ~acked
  /\ pc = "blocked" => index <= Len(tokens)

\* As long as no wait has failed, the tokens waited for were sent.
WaitedSent == ~failed => \A k \in 1..(index - 1) : tokens[k].state = "sent"

\* Only a Produce that waited for every token without an error has acked.
AckedClean == acked => ~failed /\ index = Len(tokens) + 1 /\ todo = <<>>

\* The waits are over when the timeout is: none blocks past it.
Held ==
  /\ held <= Timeout
  /\ pc \in {"next", "blocked"} => held <= elapsed
  /\ pc = "blocked" => until = Timeout /\ elapsed <= until

IInv == TypeOK /\ NoneLost /\ Phases /\ WaitedSent /\ AckedClean /\ Held

-----------------------------------------------------------------------------
\* The members of a list of sets hold elements of their union.
LEMMA ListOfSubsets ==
  ASSUME NEW T, NEW s \in Seq(T)
  PROVE  s \in Seq(SUBSET UNION Range(s))
<1>1. s \in [1..Len(s) -> T] /\ Len(s) \in Nat
  OBVIOUS
<1>2. \A i \in 1..Len(s) : s[i] \in SUBSET UNION Range(s)
  BY <1>1 DEF Range
<1> QED
  BY <1>1, <1>2

LEMMA BatchList ==
  ASSUME NEW M
  PROVE  Batch(M) \in Seq({M})
<1>1. CASE M = {}
  BY <1>1 DEF Batch
<1>2. CASE M # {}
  <2>1. Batch(M) = <<M>>
    BY <1>2, Zenon DEF Batch
  <2>2. <<M>> \in Seq({M})
    OBVIOUS
  <2> QED
    BY <2>1, <2>2
<1> QED
  BY <1>1, <1>2

\* The type switch of Produce makes a list of sets of messages of any record.
LEMMA BatchesList ==
  ASSUME NEW p \in Payloads, NEW g
  PROVE  Batches(p, g) \in Seq(SUBSET UNION Range(Batches(p, g)))
<1>1. SUFFICES \E T : Batches(p, g) \in Seq(T)
  BY <1>1, ListOfSubsets
<1>2. CASE p.kind = "fields"
  <2> DEFINE m == PayloadToMap(p.items)
             M == {Message("v", k, <<m[k]>>) : k \in DOMAIN m}
  <2>1. Batches(p, g) = Batch(M)
    BY <1>2, Zenon DEF Batches, ProcessVehicleFields
  <2>2. Batch(M) \in Seq({M})
    BY BatchList, Zenon
  <2> QED
    BY <2>1, <2>2
<1>3. CASE p.kind = "alerts"
  <2> DEFINE C == {Message("current", n, g.current[n]) : n \in {n \in Names : g.current[n] # <<>>}}
             H == {Message("history", n, g.history[n]) : n \in {n \in Names : g.history[n] # <<>>}}
  <2>1. Batches(p, g) = ProcessVehicleAlerts(g)
    BY <1>3 DEF Batches
  <2>2. ProcessVehicleAlerts(g) = Batch(C) \o Batch(H)
    BY Zenon DEF ProcessVehicleAlerts
  <2>3. Batch(C) \in Seq({C}) /\ Batch(H) \in Seq({H})
    BY BatchList, Zenon
  <2>4. Batch(C) \o Batch(H) \in Seq({C, H})
    <3> HIDE DEF C, H
    <3> QED
      BY <2>3
  <2> QED
    BY <2>1, <2>2, <2>4
<1>4. CASE p.kind = "errors"
  <2> DEFINE e == p.items
             E(j) == {Message("errors", e[j].name, <<e[j]>>)}
  <2>1. Batches(p, g) = [j \in DOMAIN e |-> E(j)]
    BY <1>4 DEF Batches, ProcessVehicleErrors
  <2>2. Len(e) \in Nat /\ DOMAIN e = 1..Len(e)
    BY PayloadsAssumption
  <2>3. [j \in 1..Len(e) |-> E(j)] \in Seq({E(j) : j \in 1..Len(e)})
    <3> HIDE DEF E, e
    <3> QED
      BY <2>2
  <2> QED
    BY <2>1, <2>2, <2>3
<1>5. CASE p.kind = "connectivity"
  <2> DEFINE c == {Message("connectivity", "", <<>>)}
  <2>1. Batches(p, g) = <<c>>
    BY <1>5 DEF Batches, ProcessVehicleConnectivity
  <2>2. <<c>> \in Seq({c})
    OBVIOUS
  <2> QED
    BY <2>1, <2>2
<1>6. CASE p.kind = "unknown"
  <2>1. Batches(p, g) = <<>>
    BY <1>6 DEF Batches
  <2> QED
    BY <2>1
<1> QED
  BY <1>2, <1>3, <1>4, <1>5, <1>6, PayloadsAssumption

-----------------------------------------------------------------------------
LEMMA InitIInv == Init => IInv
<1> SUFFICES ASSUME Init PROVE IInv
  OBVIOUS
<1> USE DEF Init
<1>1. todo \in Seq(SUBSET AllMessages)
  OBVIOUS
<1>2. TypeOK
  <2>1. tokens \in Seq([msg : AllMessages, state : States]) /\ Len(tokens) = 0
    OBVIOUS
  <2>2. index \in 1..(Len(tokens) + 1) /\ elapsed \in 0..MaxElapsed /\ until \in Nat /\ held \in Nat
    BY <2>1, TimeoutAssumption
  <2> QED
    BY <1>1, <2>1, <2>2, Zenon DEF TypeOK
<1>3. NoneLost
  BY DEF NoneLost
<1>4. Phases /\ WaitedSent /\ AckedClean /\ Held
  BY TimeoutAssumption DEF Phases, WaitedSent, AckedClean, Held
<1> QED
  BY <1>2, <1>3, <1>4 DEF IInv

\* After the loop the messages of a record are the same in every state.
LEMMA AllMessagesStay ==
  ASSUME UNCHANGED <<payload, gathered>>
  PROVE  AllMessages' = AllMessages
BY DEF AllMessages

LEMMA ListMember ==
  ASSUME NEW X, NEW q \in Seq(X)
  PROVE  DOMAIN q = 1..Len(q) /\ Len(q) \in Nat /\ \A i \in 1..Len(q) : q[i] \in X
  OBVIOUS

LEMMA TokenMember ==
  ASSUME TypeOK
  PROVE  /\ DOMAIN tokens = 1..Len(tokens) /\ Len(tokens) \in Nat
         /\ \A i \in 1..Len(tokens) : /\ tokens[i] \in [msg : AllMessages, state : States]
                                       /\ tokens[i].state \in States
<1>1. tokens \in Seq([msg : AllMessages, state : States])
  BY Zenon DEF TypeOK
<1>2. /\ DOMAIN tokens = 1..Len(tokens) /\ Len(tokens) \in Nat
      /\ \A i \in 1..Len(tokens) : tokens[i] \in [msg : AllMessages, state : States]
  BY <1>1, ListMember, Zenon
<1> QED
  BY <1>2

\* A function on an initial segment of the positions is a list.
LEMMA FunctionIsList ==
  ASSUME NEW X, NEW n \in Nat, NEW f \in [1..n -> X]
  PROVE  f \in Seq(X) /\ DOMAIN f = 1..n
  OBVIOUS

LEMMA TailIsList ==
  ASSUME NEW X, NEW q \in Seq(X), q # <<>>
  PROVE  /\ Tail(q) \in Seq(X)
         /\ \A j \in 1..Len(q) : j # 1 => j - 1 \in DOMAIN Tail(q) /\ Tail(q)[j - 1] = q[j]
  OBVIOUS

\* What is left without m is a list of sets again, with all but m.
Keeps(S, q, m) ==
  /\ m \in S
  /\ Without(q, m) \in Seq(SUBSET S)
  /\ \A x \in S : (\E j \in DOMAIN q : x \in q[j])
                    => x = m \/ \E j \in DOMAIN Without(q, m) : x \in Without(q, m)[j]

\* Taking a message off the first batch loses no other.
LEMMA TodoWithout ==
  ASSUME NEW S, NEW q \in Seq(SUBSET S), q # <<>>, NEW m \in Head(q)
  PROVE  Keeps(S, q, m)
<1> DEFINE r == Without(q, m)
<1>1. Head(q) = q[1] /\ 1 \in 1..Len(q) /\ Len(q) \in Nat /\ DOMAIN q = 1..Len(q) /\ q[1] \in SUBSET S
  OBVIOUS
<1>2. m \in S
  BY <1>1
<1>3. CASE Head(q) = {m}
  <2>1. r = Tail(q)
    BY <1>3, Zenon DEF Without
  <2> HIDE DEF r
  <2>2. r \in Seq(SUBSET S) /\ \A j \in 1..Len(q) : j # 1 => j - 1 \in DOMAIN r /\ r[j - 1] = q[j]
    BY <2>1, TailIsList, Zenon
  <2>3. ASSUME NEW x, NEW j \in DOMAIN q, x \in q[j], x # m PROVE \E i \in DOMAIN r : x \in r[i]
    <3>1. j # 1
      BY <2>3, <1>1, <1>3
    <3> QED
      BY <2>2, <2>3, <3>1, <1>1
  <2> QED
    BY <2>2, <2>3, <1>2, Zenon DEF r, Keeps
<1>4. CASE Head(q) # {m}
  <2>1. r = [q EXCEPT ![1] = q[1] \ {m}]
    BY <1>4, Zenon DEF Without
  <2> HIDE DEF r
  <2>2. q \in [1..Len(q) -> SUBSET S] /\ q[1] \ {m} \in SUBSET S
    BY <1>1
  <2>3. r \in [1..Len(q) -> SUBSET S]
    BY <2>1, <2>2
  <2>4. r \in Seq(SUBSET S) /\ DOMAIN r = 1..Len(q)
    BY <2>3, <1>1, FunctionIsList, Zenon
  <2>5. ASSUME NEW x, NEW j \in DOMAIN q, x \in q[j], x # m PROVE \E i \in DOMAIN r : x \in r[i]
    BY <2>1, <2>4, <2>5, <1>1
  <2> QED
    BY <2>4, <2>5, <1>2, Zenon DEF r, Keeps
<1> QED
  BY <1>3, <1>4, Zenon

LEMMA PublishStep ==
  ASSUME IInv, NEW m, Publish(m)
  PROVE  IInv'
<1> DEFINE All == AllMessages
           Tok == [msg : All, state : States]
<1> USE DEF IInv
<1>1. payload' = payload /\ gathered' = gathered /\ pc' = pc /\ index' = index /\ elapsed' = elapsed /\ until' = until
      /\ held' = held /\ failed' = failed /\ acked' = acked
  BY Zenon DEF Publish
<1>2. m \in All /\ todo' \in Seq(SUBSET All)
      /\ \A x \in All : (\E j \in DOMAIN todo : x \in todo[j]) => x = m \/ \E j \in DOMAIN todo' : x \in todo'[j]
  <2>1. todo \in Seq(SUBSET All) /\ todo # <<>> /\ m \in Head(todo) /\ todo' = Without(todo, m)
    BY Zenon DEF Publish, TypeOK
  <2> HIDE DEF All
  <2>2. Keeps(All, todo, m)
    BY <2>1, TodoWithout, Zenon
  <2> QED
    BY <2>1, <2>2 DEF Keeps
<1>3. tokens' \in Seq(Tok) /\ Len(tokens') = Len(tokens) + 1
      /\ tokens'[Len(tokens) + 1].msg = m /\ \A k \in DOMAIN tokens : tokens'[k] = tokens[k]
  <2>1. tokens \in Seq(Tok) /\ tokens' = Append(tokens, [msg |-> m, state |-> "pending"])
    BY Zenon DEF Publish, TypeOK
  <2>2. [msg |-> m, state |-> "pending"] \in Tok
    BY <1>2 DEF States
  <2> HIDE DEF Tok
  <2> QED
    BY <2>1, <2>2
<1>4. AllMessages' = All
  BY <1>1, AllMessagesStay
<1>5. pc = "publish"
  BY DEF Publish
<1>6. Len(tokens) \in Nat /\ DOMAIN tokens = 1..Len(tokens) /\ DOMAIN tokens' = 1..(Len(tokens) + 1)
  BY <1>3 DEF TypeOK
<1>7. TypeOK'
  <2>1. index' \in 1..(Len(tokens') + 1)
    BY <1>1, <1>3, <1>6 DEF TypeOK
  <2>2. (tokens \in Seq([msg : AllMessages, state : States]))'
    BY <1>3, <1>4, Zenon DEF States
  <2>3. (todo \in Seq(SUBSET AllMessages))'
    BY <1>2, <1>4, Zenon
  <2> QED
    BY <2>1, <2>2, <2>3, <1>1, Zenon DEF TypeOK
<1>8. NoneLost'
  <2>1. SUFFICES ASSUME NEW x \in All
                 PROVE  (\E j \in DOMAIN todo' : x \in todo'[j]) \/ (\E k \in DOMAIN tokens' : tokens'[k].msg = x)
    BY <1>4 DEF NoneLost
  <2>2. CASE \E j \in DOMAIN todo : x \in todo[j]
    BY <1>2, <1>3, <1>6, <2>2
  <2>3. CASE \E k \in DOMAIN tokens : tokens[k].msg = x
    BY <1>3, <1>6, <2>3
  <2> QED
    BY <1>5, <2>2, <2>3 DEF NoneLost
<1>9. Phases' /\ WaitedSent' /\ AckedClean' /\ Held'
  BY <1>1, <1>5, TimeoutAssumption DEF Phases, WaitedSent, AckedClean, Held
<1> QED
  BY <1>7, <1>8, <1>9

\* The end of a wait, given that without an error the token was sent.
LEMMA WaitedStep ==
  ASSUME IInv, NEW error \in BOOLEAN, Waited(error), pc \in {"next", "blocked"},
         index <= Len(tokens), error \/ tokens[index].state = "sent"
  PROVE  IInv'
<1> USE DEF IInv
<1>1. UNCHANGED <<payload, gathered, todo, tokens, elapsed, until, held, acked>> /\ pc' = "next"
      /\ index' = index + 1 /\ failed' = (failed \/ error)
  BY Zenon DEF Waited
<1>2. Len(tokens) \in Nat /\ index \in 1..Len(tokens)
  BY DEF TypeOK
<1>7. AllMessages' = AllMessages
  BY <1>1, AllMessagesStay
<1>3. TypeOK'
  <2>1. index' \in 1..(Len(tokens) + 1) /\ failed' \in BOOLEAN
    BY <1>1, <1>2
  <2> QED
    BY <1>1, <1>7, <2>1 DEF TypeOK
<1>4. NoneLost'
  BY <1>1, <1>7 DEF NoneLost
<1>5. WaitedSent'
  <2>0. 1..(index' - 1) = 1..index
    BY <1>1, <1>2
  <2>1. SUFFICES ASSUME ~failed, ~error, NEW k \in 1..index PROVE tokens[k].state = "sent"
    BY <1>1, <2>0, Zenon DEF WaitedSent
  <2>2. CASE k = index
    BY <2>1, <2>2
  <2>3. CASE k # index
    BY <1>2, <2>1, <2>3 DEF WaitedSent
  <2> QED
    BY <2>2, <2>3
<1>6. Phases' /\ AckedClean' /\ Held'
  BY <1>1 DEF Phases, AckedClean, Held
<1> QED
  BY <1>3, <1>4, <1>5, <1>6

\* The steps of Produce other than handing over and the end of a wait.
LEMMA PlainStep ==
  ASSUME IInv,
         \/ \E m : MarshalError(m)
         \/ StartWaiting
         \/ WaitToken
         \/ Finish
  PROVE  IInv'
<1> USE DEF IInv
<1>1. /\ UNCHANGED <<payload, gathered, todo, tokens, index, held, failed>> /\ elapsed' \in {elapsed, 0}
      /\ pc # "gather"
  BY DEF MarshalError, StartWaiting, WaitToken, Finish
<1>9. AllMessages' = AllMessages
  BY <1>1, AllMessagesStay
<1>2. NoneLost' /\ WaitedSent'
  BY <1>1, <1>9, Zenon DEF NoneLost, WaitedSent
<1>3. Len(tokens) \in Nat /\ index \in 1..(Len(tokens) + 1) /\ elapsed \in 0..MaxElapsed /\ held \in Nat
  BY DEF TypeOK
<1>4. SUFFICES ASSUME TRUE
               PROVE  /\ pc' \in {"gather", "publish", "next", "blocked", "returned"}
                      /\ elapsed' \in 0..MaxElapsed /\ until' \in Nat /\ acked' \in BOOLEAN
                      /\ Phases' /\ AckedClean' /\ Held'
  BY <1>1, <1>2, <1>9, Zenon DEF TypeOK
<1>5. CASE \E m : MarshalError(m)
  BY <1>1, <1>5 DEF MarshalError, TypeOK, Phases, AckedClean, Held
<1>6. CASE StartWaiting
  BY <1>1, <1>3, <1>6, TimeoutAssumption DEF StartWaiting, TypeOK, Phases, AckedClean, Held
<1>7. CASE WaitToken
  BY <1>1, <1>3, <1>7, TimeoutAssumption DEF WaitToken, TypeOK, Phases, AckedClean, Held
<1>8. CASE Finish
  <2>1. acked' = (ReliableAck /\ ~failed) /\ pc' = "returned" /\ pc = "next" /\ index > Len(tokens)
        /\ UNCHANGED <<elapsed, until>>
    BY <1>8, Zenon DEF Finish
  <2>2. acked' \in BOOLEAN /\ (acked' => ~failed)
    BY <2>1, ReliableAckAssumption, Zenon
  <2>3. index = Len(tokens) + 1 /\ todo = <<>>
    BY <1>3, <2>1 DEF Phases
  <2>4. AckedClean'
    BY <1>1, <2>2, <2>3 DEF AckedClean
  <2> QED
    BY <1>1, <2>1, <2>2, <2>4 DEF TypeOK, Phases, Held
<1> QED
  BY <1>5, <1>6, <1>7, <1>8

\* Before the first message: no message is made of an unknown record, and the
\* loops begin with all that are.
LEMMA UnknownStep == ASSUME IInv, UnknownPayloadType PROVE IInv'
<1> USE DEF IInv
<1>1. /\ UNCHANGED <<payload, gathered, todo, tokens, index, elapsed, until, held, failed, acked>>
      /\ pc = "gather" /\ pc' = "returned" /\ payload.kind = "unknown"
  BY DEF UnknownPayloadType
<1>2. AllMessages' = AllMessages
  BY <1>1, AllMessagesStay
<1>3. NoneLost'
  <2>1. Batches(payload, gathered) = <<>>
    BY <1>1 DEF Batches
  <2>2. AllMessages = {}
    BY <2>1 DEF AllMessages, Range
  <2> QED
    BY <1>2, <2>2 DEF NoneLost
<1>4. TypeOK'
  BY <1>1, <1>2 DEF TypeOK
<1>5. WaitedSent' /\ Phases' /\ AckedClean' /\ Held'
  BY <1>1 DEF WaitedSent, Phases, AckedClean, Held
<1> QED
  BY <1>3, <1>4, <1>5

LEMMA GatherStep == ASSUME IInv, Gather PROVE IInv'
<1> USE DEF IInv
<1>1. /\ UNCHANGED <<payload, todo, tokens, pc, index, elapsed, until, held, failed, acked>>
      /\ pc = "gather" /\ todo = <<>> /\ tokens = <<>>
  BY DEF Gather, Phases
<1>2. (todo \in Seq(SUBSET AllMessages))' /\ (tokens \in Seq([msg : AllMessages, state : States]))'
  BY <1>1
<1>3. TypeOK'
  BY <1>1, <1>2 DEF TypeOK
<1>4. NoneLost' /\ WaitedSent' /\ Phases' /\ AckedClean' /\ Held'
  BY <1>1 DEF NoneLost, WaitedSent, Phases, AckedClean, Held
<1> QED
  BY <1>3, <1>4

LEMMA StartPublishingStep == ASSUME IInv, StartPublishing PROVE IInv'
<1> USE DEF IInv
<1>1. /\ UNCHANGED <<payload, gathered, tokens, index, elapsed, until, held, failed, acked>>
      /\ pc = "gather" /\ pc' = "publish" /\ todo' = Batches(payload, gathered)
  BY DEF StartPublishing
<1>2. AllMessages' = AllMessages
  BY <1>1, AllMessagesStay
<1>3. todo' \in Seq(SUBSET AllMessages)
  BY <1>1, BatchesList DEF TypeOK, AllMessages
<1>4. TypeOK'
  BY <1>1, <1>2, <1>3 DEF TypeOK
<1>5. NoneLost'
  BY <1>1, <1>2 DEF NoneLost, AllMessages, Range
<1>6. WaitedSent' /\ Phases' /\ AckedClean' /\ Held'
  BY <1>1 DEF WaitedSent, Phases, AckedClean, Held
<1> QED
  BY <1>4, <1>5, <1>6

LEMMA ProduceIInv ==
  ASSUME IInv, ProduceStep
  PROVE  IInv'
<1>6. CASE UnknownPayloadType \/ Gather \/ StartPublishing
  BY <1>6, UnknownStep, GatherStep, StartPublishingStep
<1>1. CASE (\E m : MarshalError(m)) \/ StartWaiting \/ WaitToken \/ Finish
  BY <1>1, PlainStep, Zenon
<1>2. CASE \E m : Publish(m)
  BY <1>2, PublishStep, Zenon
<1>3. CASE CheckToken
  <2>0. index \in 1..Len(tokens)
    BY <1>3, TokenMember DEF CheckToken, IInv, TypeOK
  <2>1. tokens[index].state \in States
    BY <2>0, TokenMember, Zenon DEF IInv
  <2> DEFINE error == tokens[index].state = "pending" \/ TokenError(index)
  <2>2. error \in BOOLEAN /\ (error \/ tokens[index].state = "sent")
    BY <2>1 DEF TokenError, States
  <2>3. Waited(error) /\ pc = "next" /\ index <= Len(tokens)
    BY <1>3, Zenon DEF CheckToken
  <2> QED
    BY <2>2, <2>3, WaitedStep, Zenon
<1>4. CASE TokenDone
  <2>1. pc = "blocked" /\ index <= Len(tokens) /\ tokens[index].state # "pending" /\ Waited(TokenError(index))
    BY <1>4 DEF TokenDone, IInv, Phases
  <2>0. index \in 1..Len(tokens)
    BY <2>1, TokenMember DEF IInv, TypeOK
  <2>2. tokens[index].state \in States
    BY <2>0, TokenMember, Zenon DEF IInv
  <2>3. TokenError(index) \in BOOLEAN /\ (TokenError(index) \/ tokens[index].state = "sent")
    BY <2>1, <2>2 DEF TokenError, States
  <2> QED
    BY <2>1, <2>3, WaitedStep, Zenon
<1>5. CASE TokenTimedOut
  <2>1. pc = "blocked" /\ index <= Len(tokens) /\ Waited(TRUE)
    BY <1>5 DEF TokenTimedOut, IInv, Phases
  <2> QED
    BY <2>1, WaitedStep, Zenon
<1> QED
  BY <1>1, <1>2, <1>3, <1>4, <1>5, <1>6, Zenon DEF ProduceStep

\* A token completes: one that was waited for without an error stays sent.
LEMMA ClientStep ==
  ASSUME IInv, NEW k \in DOMAIN tokens, NEW state \in {"sent", "failed"}, ClientCompletes(k, state)
  PROVE  IInv'
<1> USE DEF IInv
<1> DEFINE Tok == [msg : AllMessages, state : States]
<1>1. UNCHANGED <<payload, gathered, todo, pc, index, elapsed, until, held, failed, acked>>
      /\ tokens[k].state = "pending" /\ tokens' = [tokens EXCEPT ![k].state = state]
  BY Zenon DEF ClientCompletes
<1>2. tokens \in Seq(Tok) /\ tokens[k] \in Tok /\ DOMAIN tokens = 1..Len(tokens) /\ Len(tokens) \in Nat
  BY TokenMember, Zenon DEF TypeOK
<1>3. [tokens[k] EXCEPT !.state = state] \in Tok /\ [tokens[k] EXCEPT !.state = state].msg = tokens[k].msg
  BY <1>2 DEF States
<1>4. /\ tokens' \in Seq(Tok) /\ Len(tokens') = Len(tokens) /\ DOMAIN tokens' = DOMAIN tokens
      /\ \A i \in DOMAIN tokens : i # k => tokens'[i] = tokens[i]
      /\ tokens'[k].msg = tokens[k].msg
  <2>1. tokens' = [tokens EXCEPT ![k] = [tokens[k] EXCEPT !.state = state]]
    BY <1>1, Zenon
  <2>2. \A e \in Tok : [tokens EXCEPT ![k] = e] \in Seq(Tok) /\ Len([tokens EXCEPT ![k] = e]) = Len(tokens)
    <3> HIDE DEF Tok
    <3> QED
      BY <1>2
  <2>3. tokens' \in Seq(Tok) /\ Len(tokens') = Len(tokens)
    BY <1>3, <2>1, <2>2, Zenon
  <2> QED
    BY <1>2, <1>3, <2>1, <2>3
<1>9. AllMessages' = AllMessages
  BY <1>1, AllMessagesStay
<1>5. TypeOK'
  BY <1>1, <1>4, <1>9 DEF TypeOK
<1>6. NoneLost'
  <2>1. \A i \in DOMAIN tokens : tokens'[i].msg = tokens[i].msg
    BY <1>4, Zenon
  <2> QED
    BY <1>1, <1>4, <1>9, <2>1 DEF NoneLost
<1>7. WaitedSent'
  <2>1. ~failed => k \notin 1..(index - 1)
    BY <1>1 DEF WaitedSent
  <2>2. 1..(index - 1) \subseteq DOMAIN tokens
    BY <1>2 DEF TypeOK
  <2> QED
    BY <1>1, <1>4, <2>1, <2>2, Zenon DEF WaitedSent
<1>8. Phases' /\ AckedClean' /\ Held'
  BY <1>1, <1>4 DEF Phases, AckedClean, Held
<1> QED
  BY <1>5, <1>6, <1>7, <1>8

LEMMA TickStep ==
  ASSUME IInv, Tick
  PROVE  IInv'
<1> USE TimeoutAssumption DEF IInv
<1>1. UNCHANGED <<payload, gathered, todo, tokens, pc, index, until, failed, acked>> /\ elapsed' = elapsed + 1
      /\ elapsed < MaxElapsed /\ (pc = "next" \/ (pc = "blocked" /\ elapsed < until))
      /\ held' = IF pc = "blocked" THEN held + 1 ELSE held
  BY Zenon DEF Tick
<1>2. elapsed \in 0..MaxElapsed /\ held \in Nat /\ until \in Nat
  BY DEF TypeOK
<1>3. elapsed' \in 0..MaxElapsed /\ held' \in Nat
  BY <1>1, <1>2
<1>7. AllMessages' = AllMessages
  BY <1>1, AllMessagesStay
<1>4. TypeOK'
  BY <1>1, <1>3, <1>7 DEF TypeOK
<1>5. NoneLost' /\ WaitedSent' /\ Phases' /\ AckedClean'
  BY <1>1, <1>7 DEF NoneLost, WaitedSent, Phases, AckedClean
<1>6. Held'
  BY <1>1, <1>2 DEF Held
<1> QED
  BY <1>4, <1>5, <1>6

\* Every step keeps the invariant, and the invariant gives the properties.
LEMMA NextIInv == IInv /\ [Next]_vars => IInv'
<1> SUFFICES ASSUME IInv, [Next]_vars PROVE IInv'
  OBVIOUS
<1>1. CASE ProduceStep
  BY <1>1, ProduceIInv, Zenon
<1>2. CASE \E k \in DOMAIN tokens, state \in {"sent", "failed"} : ClientCompletes(k, state)
  BY <1>2, ClientStep, Zenon
<1>3. CASE Tick
  BY <1>3, TickStep, Zenon
<1>4. CASE UNCHANGED vars
  <2>1. UNCHANGED <<payload, gathered, todo, tokens, pc, index, elapsed, until, held, failed, acked>>
    BY <1>4 DEF vars
  <2>2. AllMessages' = AllMessages
    BY <2>1, AllMessagesStay
  <2> QED
    BY <2>1, <2>2 DEF IInv, TypeOK, NoneLost, Phases, WaitedSent, AckedClean, Held
<1> QED
  BY <1>1, <1>2, <1>3, <1>4, Zenon DEF Next

LEMMA Invariance == Spec => []IInv
  BY InitIInv, NextIInv, PTL DEF Spec

-----------------------------------------------------------------------------
\* Produce keeps its lists of messages, tokens and clocks in their types.
THEOREM MqttTypeCorrect == Spec => []TypeOK
<1>1. IInv => TypeOK
  BY DEF IInv
<1> QED
  BY <1>1, Invariance, PTL

\* An acked record was published in full: every message made from it, of
\* whatever kind, has a token that completed without an error, however the
\* client delayed, reordered or failed the tokens.
THEOREM AckedWasPublished == Spec => []AckedIsPublished
<1>1. ASSUME IInv PROVE AckedIsPublished
  <2>1. SUFFICES ASSUME acked, NEW m \in AllMessages PROVE Sent(m)
    BY DEF AckedIsPublished
  <2>2. ~failed /\ index = Len(tokens) + 1 /\ todo = <<>>
    BY <1>1, <2>1 DEF IInv, AckedClean
  <2>3. PICK k \in DOMAIN tokens : tokens[k].msg = m
    BY <1>1, <2>1, <2>2 DEF IInv, NoneLost, Phases
  <2>4. k \in 1..(index - 1)
    BY <1>1, <2>2, <2>3 DEF IInv, TypeOK
  <2> QED
    BY <1>1, <2>2, <2>3, <2>4 DEF IInv, WaitedSent, Sent
<1> QED
  BY <1>1, Invariance, PTL

\* The waits of one Produce for its tokens take no longer than
\* publish_timeout_ms in all, for any number of tokens.
THEOREM WaitsShareTimeout == Spec => []WaitsShareOneTimeout
<1>1. IInv => WaitsShareOneTimeout
  BY DEF IInv, Held, WaitsShareOneTimeout
<1> QED
  BY <1>1, Invariance, PTL

-----------------------------------------------------------------------------
\* The gathering loop.  Of the first k alerts of the record, i is the one of
\* name n that began last.
NewestOf(n, k, i) ==
  LET a == payload.items IN
  /\ i \in 1..k
  /\ a[i].name = n /\ a[i].startedAt # NoTime
  /\ \A j \in 1..k : a[j].name = n =>
       \/ a[j].startedAt < a[i].startedAt
       \/ a[j].startedAt = a[i].startedAt /\ i <= j

\* Before it looks at alert k + 1, the loop has the newest of the first k
\* for every name, or none of them has a start time.
GatheredTo(k) ==
  \A n \in Names :
    \/ \E i \in 1..k : gathered.current[n] = <<payload.items[i]>> /\ NewestOf(n, k, i)
    \/ /\ gathered.current[n] = <<>>
       /\ \A j \in 1..k : payload.items[j].name = n => payload.items[j].startedAt = NoTime

GatherInv ==
  payload.kind = "alerts" =>
    /\ at \in 1..(Len(payload.items) + 1)
    /\ DOMAIN gathered.current = Names
    /\ GatheredTo(at - 1)
    /\ pc \in {"publish", "next", "blocked"} => at = Len(payload.items) + 1

LEMMA AlertsFacts ==
  ASSUME payload \in Payloads, payload.kind = "alerts"
  PROVE  /\ Len(payload.items) \in Nat /\ DOMAIN payload.items = 1..Len(payload.items)
         /\ \A i \in 1..Len(payload.items) : payload.items[i].name \in Names /\ payload.items[i].startedAt \in Nat
BY PayloadsAssumption

LEMMA GatherInit == Init => GatherInv
<1> SUFFICES ASSUME Init, payload.kind = "alerts" PROVE GatherInv
  BY DEF GatherInv
<1>1. /\ at = 1 /\ pc = "gather" /\ payload \in Payloads
      /\ gathered.current = [n \in Names |-> <<>>]
  BY DEF Init, NothingGathered
<1>2. 1 \in 1..(Len(payload.items) + 1) /\ 1..(at - 1) = {}
  BY <1>1, AlertsFacts
<1>3. GatheredTo(at - 1)
  BY <1>1, <1>2 DEF GatheredTo
<1> QED
  BY <1>1, <1>2, <1>3 DEF GatherInv

\* One turn of the loop: the alert at hand takes the place of the current one
\* of its name only if it began later.
LEMMA GatherTurn ==
  ASSUME payload \in Payloads, GatherInv, Gather
  PROVE  GatherInv'
<1> DEFINE items == payload.items
           a == items[at]
           cur == gathered.current
<1>1. /\ payload.kind = "alerts" /\ pc = "gather" /\ pc' = "gather" /\ payload' = payload
      /\ at <= Len(items) /\ at' = at + 1 /\ gathered' = GatherAlert(gathered, a)
  BY DEF Gather
<1>2. at \in 1..Len(items) /\ Len(items) \in Nat /\ DOMAIN cur = Names /\ GatheredTo(at - 1)
  BY <1>1, AlertsFacts DEF GatherInv
<1>3. a.name \in Names /\ \A j \in 1..at : items[j].startedAt \in Nat
  BY <1>1, <1>2, AlertsFacts
<1>4. gathered'.current =
        IF a.startedAt = NoTime \/ (cur[a.name] # <<>> /\ cur[a.name][1].startedAt >= a.startedAt)
        THEN cur ELSE [cur EXCEPT ![a.name] = <<a>>]
  BY <1>1 DEF GatherAlert
<1>5. 1..at = 1..(at - 1) \cup {at} /\ at \notin 1..(at - 1)
  BY <1>2
<1>6. ASSUME NEW n \in Names
      PROVE  \/ \E i \in 1..at : gathered'.current[n] = <<items[i]>> /\ NewestOf(n, at, i)
             \/ /\ gathered'.current[n] = <<>>
                /\ \A j \in 1..at : items[j].name = n => items[j].startedAt = NoTime
  <2>1. CASE n # a.name
    <3>1. gathered'.current[n] = cur[n]
      BY <1>2, <1>4, <2>1
    <3>2. \A i : NewestOf(n, at - 1, i) => NewestOf(n, at, i)
      BY <1>5, <2>1 DEF NewestOf
    <3> QED
      BY <1>2, <1>5, <2>1, <3>1, <3>2 DEF GatheredTo
  <2>2. CASE n = a.name /\ a.startedAt = NoTime
    <3>1. gathered'.current[n] = cur[n]
      BY <1>4, <2>2
    <3>2. \A i : NewestOf(n, at - 1, i) => NewestOf(n, at, i)
      <4> SUFFICES ASSUME NEW i, NewestOf(n, at - 1, i) PROVE NewestOf(n, at, i)
        OBVIOUS
      <4>1. i \in 1..(at - 1) /\ items[i].startedAt \in Nat /\ items[i].startedAt # NoTime
        BY <1>3, <1>5 DEF NewestOf
      <4>2. a.startedAt < items[i].startedAt
        BY <2>2, <4>1 DEF NoTime
      <4> QED
        BY <1>5, <4>2 DEF NewestOf
    <3> QED
      BY <1>2, <1>5, <2>2, <3>1, <3>2 DEF GatheredTo
  <2>3. CASE n = a.name /\ a.startedAt # NoTime /\ cur[n] = <<>>
    <3>1. gathered'.current[n] = <<a>>
      BY <1>2, <1>4, <2>3
    <3>2. \A j \in 1..(at - 1) : items[j].name = n => items[j].startedAt = NoTime
      <4>1. \A x : <<x>> # <<>>
        OBVIOUS
      <4>2. ~\E i \in 1..(at - 1) : cur[n] = <<items[i]>>
        BY <2>3, <4>1
      <4> QED
        BY <1>2, <4>2 DEF GatheredTo
    <3>3. NewestOf(n, at, at)
      <4>1. \A j \in 1..(at - 1) : items[j].name = n => items[j].startedAt < a.startedAt
        BY <1>2, <1>3, <1>5, <2>3, <3>2 DEF NoTime
      <4> QED
        BY <1>2, <1>5, <2>3, <4>1 DEF NewestOf
    <3> QED
      BY <1>5, <3>1, <3>3
  <2>4. CASE n = a.name /\ a.startedAt # NoTime /\ cur[n] # <<>>
    <3>1. PICK i \in 1..(at - 1) : cur[n] = <<items[i]>> /\ NewestOf(n, at - 1, i)
      BY <1>2, <2>4 DEF GatheredTo
    <3>2. items[i].startedAt \in Nat /\ a.startedAt \in Nat /\ i < at /\ i \in 1..at /\ at \in 1..at
      BY <1>2, <1>3, <3>1
    <3>3. cur[n][1] = items[i]
      BY <3>1
    <3>4. CASE items[i].startedAt >= a.startedAt
      <4>1. gathered'.current[n] = cur[n]
        BY <1>4, <2>4, <3>3, <3>4
      <4>2. a.startedAt < items[i].startedAt \/ (a.startedAt = items[i].startedAt /\ i <= at)
        BY <1>2, <3>2, <3>4
      <4>3. NewestOf(n, at, i)
        BY <1>5, <3>1, <4>2 DEF NewestOf
      <4> QED
        BY <3>1, <3>2, <4>1, <4>3
    <3>5. CASE ~(items[i].startedAt >= a.startedAt)
      <4>1. gathered'.current[n] = <<a>>
        BY <1>2, <1>4, <2>4, <3>3, <3>5
      <4>2. \A j \in 1..(at - 1) : items[j].name = n => items[j].startedAt < a.startedAt
        BY <1>3, <1>5, <3>1, <3>2, <3>5 DEF NewestOf
      <4>3. NewestOf(n, at, at)
        BY <1>2, <1>5, <2>4, <4>2 DEF NewestOf
      <4> QED
        BY <3>2, <4>1, <4>3
    <3> QED
      BY <3>4, <3>5
  <2> QED
    BY <2>1, <2>2, <2>3, <2>4
<1>7. at' \in 1..(Len(items) + 1) /\ at' - 1 = at /\ DOMAIN gathered'.current = Names
  BY <1>1, <1>2, <1>4
<1>8. GatheredTo(at - 1)'
  BY <1>1, <1>6, <1>7 DEF GatheredTo, NewestOf
<1> QED
  BY <1>1, <1>7, <1>8 DEF GatherInv

LEMMA GatherNext ==
  ASSUME IInv, GatherInv, [Next]_vars
  PROVE  GatherInv'
<1>1. CASE Gather
  BY <1>1, GatherTurn DEF IInv, TypeOK
<1>2. CASE ~Gather
  <2>1. UNCHANGED <<payload, gathered, at>>
    BY <1>2 DEF Next, ProduceStep, UnknownPayloadType, StartPublishing, Publish, MarshalError, StartWaiting,
                WaitToken, CheckToken, TokenDone, TokenTimedOut, Waited, Finish, ClientCompletes, Tick, vars
  <2>2. \/ pc' \in {"publish", "next", "blocked"} => pc \in {"publish", "next", "blocked"}
        \/ payload.kind = "alerts" => at > Len(payload.items)
    BY <1>2 DEF Next, ProduceStep, UnknownPayloadType, StartPublishing, Publish, MarshalError, StartWaiting,
                WaitToken, CheckToken, TokenDone, TokenTimedOut, Waited, Finish, ClientCompletes, Tick, vars
  <2>3. GatheredTo(at - 1)' = GatheredTo(at - 1)
    BY <2>1 DEF GatheredTo, NewestOf
  <2>4. payload.kind = "alerts" => Len(payload.items) \in Nat
    BY AlertsFacts DEF IInv, TypeOK
  <2> QED
    BY <2>1, <2>2, <2>3, <2>4 DEF GatherInv
<1> QED
  BY <1>1, <1>2

\* What two sequences contain, their concatenation contains.
LEMMA RangeConcat ==
  ASSUME NEW S, NEW R, NEW b \in Seq(S), NEW c \in Seq(R)
  PROVE  Range(b \o c) = Range(b) \cup Range(c)
<1> DEFINE T == S \cup R
<1>1. b \in Seq(T) /\ c \in Seq(T)
  OBVIOUS
<1> DEFINE d == b \o c
           p == Len(b)
           q == Len(c)
<1>2. /\ d \in Seq(T) /\ Len(d) = p + q /\ p \in Nat /\ q \in Nat
      /\ DOMAIN b = 1..p /\ DOMAIN c = 1..q /\ DOMAIN d = 1..(p + q)
  BY <1>1
<1>3. \A i \in 1..p : d[i] = b[i]
  BY <1>1
<1>4. \A i \in 1..q : d[p + i] = c[i]
  BY <1>1
<1> HIDE DEF d, p, q, T
<1>5. ASSUME NEW x \in Range(d) PROVE x \in Range(b) \cup Range(c)
  <2>1. PICK i \in 1..(p + q) : x = d[i]
    BY <1>2 DEF Range
  <2>2. CASE i \in 1..p
    BY <1>2, <1>3, <2>1, <2>2 DEF Range
  <2>3. CASE i \notin 1..p
    <3>1. i - p \in 1..q /\ p + (i - p) = i
      BY <1>2, <2>3
    <3>2. x = c[i - p]
      BY <1>4, <2>1, <3>1
    <3> QED
      BY <1>2, <3>1, <3>2 DEF Range
  <2> QED
    BY <2>2, <2>3
<1>6. ASSUME NEW x \in Range(b) PROVE x \in Range(d)
  <2>1. PICK i \in 1..p : x = b[i]
    BY <1>2 DEF Range
  <2>2. i \in 1..(p + q) /\ x = d[i]
    BY <1>2, <1>3, <2>1
  <2> QED
    BY <1>2, <2>2 DEF Range
<1>7. ASSUME NEW x \in Range(c) PROVE x \in Range(d)
  <2>1. PICK i \in 1..q : x = c[i]
    BY <1>2 DEF Range
  <2>2. p + i \in 1..(p + q) /\ x = d[p + i]
    BY <1>2, <1>4, <2>1
  <2> QED
    BY <1>2, <2>2 DEF Range
<1>8. Range(d) = Range(b) \cup Range(c)
  BY <1>5, <1>6, <1>7
<1> QED
  BY <1>8 DEF d

\* The messages of alerts.
LEMMA AlertMessages ==
  ASSUME payload.kind = "alerts"
  PROVE  AllMessages =
           {Message("current", n, gathered.current[n]) : n \in {n \in Names : gathered.current[n] # <<>>}}
           \cup {Message("history", n, gathered.history[n]) : n \in {n \in Names : gathered.history[n] # <<>>}}
<1> DEFINE C == {Message("current", n, gathered.current[n]) : n \in {n \in Names : gathered.current[n] # <<>>}}
           H == {Message("history", n, gathered.history[n]) : n \in {n \in Names : gathered.history[n] # <<>>}}
           b == Batch(C)
           c == Batch(H)
<1>1. Batches(payload, gathered) = b \o c
  BY Zenon DEF Batches, ProcessVehicleAlerts
<1> HIDE DEF C, H
<1>2. b \in Seq({C}) /\ c \in Seq({H})
  BY BatchList
<1>3. /\ b = IF C = {} THEN <<>> ELSE <<C>>
      /\ c = IF H = {} THEN <<>> ELSE <<H>>
  BY DEF Batch
<1> HIDE DEF b, c
<1>4. UNION Range(b) = C /\ UNION Range(c) = H
  <2>1. Range(b) = IF C = {} THEN {} ELSE {C}
    BY <1>3 DEF Range
  <2>2. Range(c) = IF H = {} THEN {} ELSE {H}
    BY <1>3 DEF Range
  <2> QED
    BY <2>1, <2>2
<1>5. Range(b \o c) = Range(b) \cup Range(c)
  BY <1>2, RangeConcat
<1> QED
  BY <1>1, <1>4, <1>5 DEF AllMessages, C, H

\* For any alerts in any order, the current message of a name is the alert that
\* began last.
THEOREM CurrentCorrect == Spec => []CurrentIsNewest
<1>1. IInv /\ GatherInv => CurrentIsNewest
  <2> SUFFICES ASSUME IInv, GatherInv, payload.kind = "alerts", pc \in {"next", "blocked"}, NEW n \in Names
               PROVE  {m.body : m \in {m \in Handed("current") : m.topic[2] = n}}
                        = {<<payload.items[i]>> : i \in Newest(n)}
    BY DEF CurrentIsNewest
  <2> DEFINE cur == gathered.current
             k == Len(payload.items)
  <2>1. k \in Nat /\ DOMAIN payload.items = 1..k /\ \A i \in 1..k : payload.items[i].startedAt \in Nat
    BY AlertsFacts DEF IInv, TypeOK
  <2>2. GatheredTo(k)
    BY <2>1 DEF GatherInv
  <2>3. \A i : i \in Newest(n) <=> NewestOf(n, k, i)
    BY <2>1 DEF Newest, NewestOf
  <2>4. {tokens[j].msg : j \in DOMAIN tokens} = AllMessages
    <3>1. \A j \in DOMAIN tokens : tokens[j].msg \in AllMessages
      BY TokenMember DEF IInv
    <3>2. \A m \in AllMessages : \E j \in DOMAIN tokens : tokens[j].msg = m
      BY DEF IInv, NoneLost, Phases
    <3> QED
      BY <3>1, <3>2
  <2>5. {m \in Handed("current") : m.topic[2] = n} =
          IF cur[n] = <<>> THEN {} ELSE {Message("current", n, cur[n])}
    <3>1. Handed("current") = {m \in AllMessages : m.topic[1] = "current"}
      BY <2>4 DEF Handed
    <3>2. ASSUME NEW m \in AllMessages, m.topic[1] = "current", m.topic[2] = n
          PROVE  cur[n] # <<>> /\ m = Message("current", n, cur[n])
      <4>1. \/ \E x \in Names : cur[x] # <<>> /\ m = Message("current", x, cur[x])
            \/ \E x \in Names : m = Message("history", x, gathered.history[x])
        BY AlertMessages, Zenon
      <4>2. ~ \E x \in Names : m = Message("history", x, gathered.history[x])
        BY <3>2 DEF Message
      <4>3. PICK x \in Names : cur[x] # <<>> /\ m = Message("current", x, cur[x])
        BY <4>1, <4>2
      <4>4. x = n
        BY <3>2, <4>3 DEF Message
      <4> QED
        BY <4>3, <4>4
    <3>3. cur[n] # <<>> => Message("current", n, cur[n]) \in AllMessages
      BY AlertMessages, Zenon
    <3>4. /\ Message("current", n, cur[n]).topic[1] = "current"
          /\ Message("current", n, cur[n]).topic[2] = n
      BY DEF Message
    <3> QED
      BY <3>1, <3>2, <3>3, <3>4
  <2>6. {m.body : m \in {m \in Handed("current") : m.topic[2] = n}} = IF cur[n] = <<>> THEN {} ELSE {cur[n]}
    <3>1. \A c, x, y : Message(c, x, y).body = y
      BY DEF Message
    <3> QED
      BY <2>5, <3>1
  <2>7. CASE \E i \in 1..k : cur[n] = <<payload.items[i]>> /\ NewestOf(n, k, i)
    <3>1. PICK i \in 1..k : cur[n] = <<payload.items[i]>> /\ NewestOf(n, k, i)
      BY <2>7
    <3>2. ASSUME NEW j, NewestOf(n, k, j) PROVE j = i
      <4>1. j \in 1..k /\ payload.items[i].startedAt \in Nat /\ payload.items[j].startedAt \in Nat
        BY <2>1, <3>1, <3>2 DEF NewestOf
      <4>2. payload.items[j].name = n /\ payload.items[i].name = n
        BY <3>1, <3>2 DEF NewestOf
      <4>3. /\ \/ payload.items[j].startedAt < payload.items[i].startedAt
               \/ payload.items[j].startedAt = payload.items[i].startedAt /\ i <= j
            /\ \/ payload.items[i].startedAt < payload.items[j].startedAt
               \/ payload.items[i].startedAt = payload.items[j].startedAt /\ j <= i
        BY <3>1, <3>2, <4>1, <4>2 DEF NewestOf
      <4> QED
        BY <2>1, <4>1, <4>3
    <3>3. Newest(n) = {i}
      BY <2>3, <3>1, <3>2
    <3>4. cur[n] # <<>>
      BY <3>1
    <3> QED
      BY <2>6, <3>1, <3>3, <3>4
  <2>8. CASE /\ cur[n] = <<>>
             /\ \A j \in 1..k : payload.items[j].name = n => payload.items[j].startedAt = NoTime
    <3>1. Newest(n) = {}
      BY <2>1, <2>8 DEF Newest
    <3> QED
      BY <2>6, <2>8, <3>1
  <2> QED
    BY <2>2, <2>7, <2>8 DEF GatheredTo
<1>2. IInv /\ GatherInv /\ [Next]_vars => (IInv /\ GatherInv)'
  BY NextIInv, GatherNext
<1> QED
  BY <1>1, <1>2, InitIInv, GatherInit, PTL DEF Spec
=============================================================================
