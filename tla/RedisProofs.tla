---------------------------- MODULE RedisProofs ----------------------------
(***************************************************************************)
(* Proofs about RedisProducer, for any number of calls and subscribers and *)
(* any configuration of the two kinds of channels.                         *)
(***************************************************************************)
EXTENDS RedisProducer, FiniteSetTheorems, TLAPS

\* The clock a call works with is not ahead of the clock.
ClockRead == \A c \in Calls : at[c] <= now

\* Whoever was entitled when a call began is still registered and live, or
\* has dropped out with its lease: no purge removes it.
EntitledLive == \A c \in Calls : entitled[c] \subseteq Live

\* While a call publishes, each entitled subscriber has been served or waits
\* in the rest of the list.
EntitledListed ==
  \A c \in Calls : pc[c] = "publish" => entitled[c] \subseteq delivered[c] \cup Range(channels[c])

\* Only a call that has returned has acked, and what it owed was delivered.
AckedServed ==
  \A c \in acked : pc[c] = "returned" /\ entitled[c] \subseteq delivered[c]

IInv == TypeOK /\ ClockRead /\ EntitledLive /\ EntitledListed /\ AckedServed

-----------------------------------------------------------------------------
\* Taking the head off a list loses no other channel.
LEMMA RangeTail ==
  ASSUME NEW S, NEW q \in Seq(S), q # <<>>
  PROVE  /\ Head(q) \in S
         /\ Tail(q) \in Seq(S)
         /\ Range(q) \subseteq {Head(q)} \cup Range(Tail(q))
<1>1. Head(q) \in S /\ Tail(q) \in Seq(S)
  OBVIOUS
<1>2. Range(q) \subseteq {Head(q)} \cup Range(Tail(q))
  <2>1. SUFFICES ASSUME NEW i \in 1..Len(q), i # 1
                 PROVE  q[i] \in Range(Tail(q))
    BY DEF Range
  <2>2. i - 1 \in 1..Len(Tail(q)) /\ Tail(q)[i - 1] = q[i]
    BY <2>1
  <2>3. DOMAIN Tail(q) = 1..Len(Tail(q))
    BY <1>1
  <2> QED
    BY <2>2, <2>3 DEF Range
<1> QED
  BY <1>1, <1>2

\* What channelsForRecord returns is a list of channels with all those listed.
LEMMA WithVinChannelList ==
  ASSUME NEW q \in Seq(Channels)
  PROVE  /\ WithVinChannel(q) \in Seq(Channels)
         /\ Range(q) \subseteq Range(WithVinChannel(q))
<1>1. VinChannel \in Channels
  BY DEF Channels
<1>2. CASE ~PublishVINTopics
  BY <1>2 DEF WithVinChannel
<1>3. CASE PublishVINTopics
  <2>1. WithVinChannel(q) = Append(q, VinChannel)
    BY <1>3 DEF WithVinChannel
  <2>2. Append(q, VinChannel) \in Seq(Channels)
    BY <1>1
  <2>3. ASSUME NEW i \in DOMAIN q
        PROVE  i \in DOMAIN Append(q, VinChannel) /\ Append(q, VinChannel)[i] = q[i]
    BY <1>1, <2>3
  <2> QED
    BY <2>1, <2>2, <2>3 DEF Range
<1> QED
  BY <1>2, <1>3

\* ZRANGE answers with a list of all the members of the set.
LEMMA ListingsList ==
  ASSUME TypeOK, NEW q \in Listings
  PROVE  q \in Seq(Channels) /\ Range(q) = DOMAIN zset
<1>1. DOMAIN zset \subseteq Subscribers /\ IsFiniteSet(DOMAIN zset)
  BY SubscribersAssumption, FS_Subset DEF TypeOK
<1>2. Cardinality(DOMAIN zset) \in Nat
  BY <1>1, FS_CardinalityType
<1>3. q \in [1..Cardinality(DOMAIN zset) -> Channels] /\ Range(q) = DOMAIN zset
  BY <1>1 DEF Listings, Channels
<1> QED
  BY <1>2, <1>3

-----------------------------------------------------------------------------
\* A purge that works with a clock reading of the past keeps the live leases.
LEMMA PurgeKeepsLive ==
  ASSUME TypeOK, ClockRead, NEW c \in Calls, now' = now,
         zset' = [s \in Unexpired(at[c]) |-> zset[s]]
  PROVE  /\ DOMAIN zset' \subseteq Subscribers
         /\ zset' \in [DOMAIN zset' -> Nat]
         /\ Live \subseteq Live'
         /\ \A s \in DOMAIN zset : s \notin DOMAIN zset' => zset[s] < now
BY DEF TypeOK, ClockRead, Live, Unexpired

LEMMA InitIInv == Init => IInv
BY MaxTimeAssumption DEF Init, IInv, TypeOK, ClockRead, EntitledLive, EntitledListed, AckedServed, Channels

LEMMA TickStep == IInv /\ Tick => IInv'
<1> SUFFICES ASSUME IInv, Tick PROVE IInv'
  OBVIOUS
<1>1. TypeOK'
  BY MaxTimeAssumption DEF IInv, TypeOK, Tick
<1>2. ClockRead'
  BY DEF IInv, TypeOK, ClockRead, Tick
<1>3. EntitledLive'
  BY DEF IInv, TypeOK, EntitledLive, Live, Tick
<1>4. EntitledListed' /\ AckedServed'
  BY DEF IInv, TypeOK, EntitledListed, AckedServed, Tick
<1> QED
  BY <1>1, <1>2, <1>3, <1>4 DEF IInv

LEMMA RenewStep ==
  ASSUME IInv, NEW s \in Subscribers, NEW expiry \in 0..MaxTime, Renew(s, expiry)
  PROVE  IInv'
<1>1. TypeOK'
  BY DEF IInv, TypeOK, Renew
<1>2. Live \subseteq Live'
  BY DEF Renew, Live
<1>3. EntitledLive'
  BY <1>2 DEF IInv, EntitledLive, Renew
<1>4. ClockRead' /\ EntitledListed' /\ AckedServed'
  BY DEF IInv, ClockRead, EntitledListed, AckedServed, Renew
<1> QED
  BY <1>1, <1>3, <1>4 DEF IInv

LEMMA BeginStep ==
  ASSUME IInv, NEW c \in Calls, Begin(c)
  PROVE  IInv'
<1>1. <<>> \in Seq(Channels)
  OBVIOUS
<1>2. WithVinChannel(<<>>) \in Seq(Channels)
  BY <1>1, WithVinChannelList
<1>3. Live \subseteq Subscribers
  BY DEF IInv, TypeOK, Live
<1>4. TypeOK'
  BY <1>2, <1>3 DEF IInv, TypeOK, Begin
<1>5. ClockRead'
  <2>1. now' = now /\ (at' = [at EXCEPT ![c] = now] \/ at' = at)
    BY DEF Begin
  <2>2. now \in Nat /\ now <= now /\ at \in [Calls -> 0..MaxTime]
    BY MaxTimeAssumption DEF IInv, TypeOK
  <2>3. ASSUME NEW d \in Calls
        PROVE  at'[d] = now \/ at'[d] = at[d]
    BY <2>1, <2>2
  <2> QED
    BY <2>1, <2>2, <2>3 DEF IInv, ClockRead
<1>6. EntitledLive'
  BY DEF IInv, TypeOK, EntitledLive, Live, Begin
<1>7. EntitledListed'
  <2>1. CASE SubscriberSet
    BY <2>1 DEF IInv, TypeOK, EntitledListed, Begin
  <2>2. CASE ~SubscriberSet
    <3>1. entitled'[c] = {}
      BY <2>2 DEF IInv, TypeOK, Begin
    <3> QED
      BY <2>2, <3>1 DEF IInv, TypeOK, EntitledListed, Begin
  <2> QED
    BY <2>1, <2>2
<1>8. AckedServed'
  BY DEF IInv, TypeOK, AckedServed, Begin
<1> QED
  BY <1>4, <1>5, <1>6, <1>7, <1>8 DEF IInv

LEMMA ZRemRangeByScoreStep ==
  ASSUME IInv, NEW c \in Calls, ZRemRangeByScore(c)
  PROVE  IInv'
<1>1. /\ DOMAIN zset' \subseteq Subscribers
      /\ zset' \in [DOMAIN zset' -> Nat]
      /\ Live \subseteq Live'
  BY PurgeKeepsLive DEF IInv, ZRemRangeByScore
<1>2. TypeOK'
  BY <1>1 DEF IInv, TypeOK, ZRemRangeByScore
<1>3. EntitledLive'
  BY <1>1 DEF IInv, EntitledLive, ZRemRangeByScore
<1>4. ClockRead' /\ EntitledListed' /\ AckedServed'
  BY DEF IInv, TypeOK, ClockRead, EntitledListed, AckedServed, ZRemRangeByScore
<1> QED
  BY <1>2, <1>3, <1>4 DEF IInv

LEMMA ZRangeStep ==
  ASSUME IInv, NEW c \in Calls, ZRange(c)
  PROVE  IInv'
<1>1. PICK q \in Listings : channels' = [channels EXCEPT ![c] = WithVinChannel(q)]
  BY DEF ZRange
<1>2. q \in Seq(Channels) /\ Range(q) = DOMAIN zset
  BY ListingsList DEF IInv
<1>3. WithVinChannel(q) \in Seq(Channels) /\ DOMAIN zset \subseteq Range(WithVinChannel(q))
  BY <1>2, WithVinChannelList
<1>4. TypeOK'
  BY <1>1, <1>3 DEF IInv, TypeOK, ZRange
<1>5. EntitledListed'
  <2>1. SUFFICES ASSUME NEW d \in Calls, pc'[d] = "publish"
                 PROVE  entitled'[d] \subseteq delivered'[d] \cup Range(channels'[d])
    BY DEF EntitledListed
  <2>2. CASE d = c
    <3>1. entitled[c] \subseteq DOMAIN zset
      BY DEF IInv, EntitledLive, Live
    <3>2. channels'[c] = WithVinChannel(q)
      BY <1>1 DEF IInv, TypeOK
    <3> QED
      BY <1>3, <2>2, <3>1, <3>2 DEF ZRange
  <2>3. CASE d # c
    BY <1>1, <2>1, <2>3 DEF IInv, TypeOK, EntitledListed, ZRange
  <2> QED
    BY <2>2, <2>3
<1>6. ClockRead' /\ EntitledLive' /\ AckedServed'
  BY DEF IInv, TypeOK, ClockRead, EntitledLive, Live, AckedServed, ZRange
<1> QED
  BY <1>4, <1>5, <1>6 DEF IInv

LEMMA SubscriberChannelsErrorStep ==
  ASSUME IInv, NEW c \in Calls, SubscriberChannelsError(c)
  PROVE  IInv'
<1>1. /\ DOMAIN zset' \subseteq Subscribers
      /\ zset' \in [DOMAIN zset' -> Nat]
      /\ Live \subseteq Live'
  <2>1. CASE UNCHANGED zset
    BY <2>1 DEF IInv, TypeOK, Live, SubscriberChannelsError
  <2>2. CASE zset' = [s \in Unexpired(at[c]) |-> zset[s]]
    BY <2>2, PurgeKeepsLive DEF IInv, SubscriberChannelsError
  <2> QED
    BY <2>1, <2>2 DEF SubscriberChannelsError
<1>2. TypeOK'
  BY <1>1 DEF IInv, TypeOK, SubscriberChannelsError
<1>3. EntitledLive'
  BY <1>1 DEF IInv, EntitledLive, SubscriberChannelsError
<1>4. ClockRead' /\ EntitledListed' /\ AckedServed'
  BY DEF IInv, TypeOK, ClockRead, EntitledListed, AckedServed, SubscriberChannelsError
<1> QED
  BY <1>2, <1>3, <1>4 DEF IInv

LEMMA PublishStep ==
  ASSUME IInv, NEW c \in Calls, Publish(c)
  PROVE  IInv'
<1>1. channels[c] \in Seq(Channels) /\ channels[c] # <<>>
  BY DEF IInv, TypeOK, Publish
<1>2. /\ Head(channels[c]) \in Channels
      /\ Tail(channels[c]) \in Seq(Channels)
      /\ Range(channels[c]) \subseteq {Head(channels[c])} \cup Range(Tail(channels[c]))
  BY <1>1, RangeTail
<1>3. TypeOK'
  BY <1>2 DEF IInv, TypeOK, Publish
<1>4. EntitledListed'
  <2>1. /\ delivered'[c] = delivered[c] \cup {Head(channels[c])}
        /\ channels'[c] = Tail(channels[c])
    BY DEF IInv, TypeOK, Publish
  <2>2. entitled[c] \subseteq delivered[c] \cup Range(channels[c])
    BY DEF IInv, EntitledListed, Publish
  <2>3. entitled'[c] \subseteq delivered'[c] \cup Range(channels'[c])
    BY <1>2, <2>1, <2>2 DEF Publish
  <2> QED
    BY <2>3 DEF IInv, TypeOK, EntitledListed, Publish
<1>5. ClockRead' /\ EntitledLive' /\ AckedServed'
  BY DEF IInv, TypeOK, ClockRead, EntitledLive, Live, AckedServed, Publish
<1> QED
  BY <1>3, <1>4, <1>5 DEF IInv

LEMMA PublishErrorStep ==
  ASSUME IInv, NEW c \in Calls, PublishError(c)
  PROVE  IInv'
<1>1. Head(channels[c]) \in Channels
  BY RangeTail DEF IInv, TypeOK, PublishError
<1>2. TypeOK'
  BY <1>1 DEF IInv, TypeOK, PublishError
<1>3. EntitledListed' /\ AckedServed'
  BY DEF IInv, TypeOK, EntitledListed, AckedServed, PublishError
<1>4. ClockRead' /\ EntitledLive'
  BY DEF IInv, ClockRead, EntitledLive, Live, PublishError
<1> QED
  BY <1>2, <1>3, <1>4 DEF IInv

LEMMA ProcessReliableAckStep ==
  ASSUME IInv, NEW c \in Calls, ProcessReliableAck(c)
  PROVE  IInv'
<1>1. TypeOK'
  BY DEF IInv, TypeOK, ProcessReliableAck
<1>2. entitled[c] \subseteq delivered[c]
  <2>1. Range(channels[c]) = {}
    BY DEF ProcessReliableAck, Range
  <2> QED
    BY <2>1 DEF IInv, EntitledListed, ProcessReliableAck
<1>3. AckedServed'
  BY <1>2 DEF IInv, TypeOK, AckedServed, ProcessReliableAck
<1>4. ClockRead' /\ EntitledLive' /\ EntitledListed'
  BY DEF IInv, TypeOK, ClockRead, EntitledLive, Live, EntitledListed, ProcessReliableAck
<1> QED
  BY <1>1, <1>3, <1>4 DEF IInv

LEMMA NextIInv == IInv /\ [Next]_vars => IInv'
<1> SUFFICES ASSUME IInv, [Next]_vars PROVE IInv'
  OBVIOUS
<1>1. CASE Tick
  BY <1>1, TickStep
<1>2. CASE \E s \in Subscribers, expiry \in 0..MaxTime : Renew(s, expiry)
  BY <1>2, RenewStep
<1>3. CASE \E c \in Calls : Produce(c)
  BY <1>3, BeginStep, ZRemRangeByScoreStep, ZRangeStep, SubscriberChannelsErrorStep,
     PublishStep, PublishErrorStep, ProcessReliableAckStep DEF Produce
<1>4. CASE UNCHANGED vars
  BY <1>4 DEF vars, IInv, TypeOK, ClockRead, EntitledLive, Live, EntitledListed, AckedServed
<1> QED
  BY <1>1, <1>2, <1>3, <1>4 DEF Next

-----------------------------------------------------------------------------
\* The inductive invariant holds in every reachable state.
THEOREM RedisInvariance == Spec => []IInv
<1>1. Init => IInv
  BY InitIInv
<1>2. IInv /\ [Next]_vars => IInv'
  BY NextIInv
<1> QED
  BY <1>1, <1>2, PTL DEF Spec

\* A record that Produce acks has reached every subscriber whose lease was
\* live throughout the call, with any number of concurrent calls.
THEOREM RedisAckCorrect == Spec => []AckedReachesSubscribers
<1>1. IInv => AckedReachesSubscribers
  BY DEF IInv, AckedServed, AckedReachesSubscribers
<1> QED
  BY <1>1, RedisInvariance, PTL

\* No step of any call takes a subscriber with a live lease out of the set.
THEOREM RedisPurgeCorrect == Spec => OnlyExpiredPurged
<1> DEFINE Kept == \A s \in DOMAIN zset : s \notin DOMAIN zset' => zset[s] < now
<1>1. IInv /\ [Next]_vars => [Kept]_vars
  <2> SUFFICES ASSUME IInv, Next PROVE Kept
    OBVIOUS
  <2>1. CASE UNCHANGED zset
    BY <2>1
  <2>2. ASSUME NEW s \in Subscribers, NEW expiry \in 0..MaxTime, Renew(s, expiry)
        PROVE  Kept
    BY <2>2 DEF Renew
  <2>3. ASSUME NEW c \in Calls, Produce(c)
        PROVE  Kept
    <3>1. CASE UNCHANGED zset
      BY <3>1
    <3>2. CASE now' = now /\ zset' = [s \in Unexpired(at[c]) |-> zset[s]]
      BY <3>2, PurgeKeepsLive DEF IInv
    <3>3. UNCHANGED zset \/ (now' = now /\ zset' = [s \in Unexpired(at[c]) |-> zset[s]])
      BY <2>3 DEF Produce, Begin, ZRemRangeByScore, ZRange, SubscriberChannelsError, Publish,
         PublishError, ProcessReliableAck
    <3> QED
      BY <3>1, <3>2, <3>3
  <2>4. CASE Tick
    BY <2>1, <2>4 DEF Tick
  <2> QED
    BY <2>2, <2>3, <2>4 DEF Next
<1> QED
  BY <1>1, RedisInvariance, PTL DEF Spec, OnlyExpiredPurged
=============================================================================
