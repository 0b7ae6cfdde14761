--------------------------- MODULE RedisProducer ---------------------------
(***************************************************************************)
(* Produce of the redis dispatcher (datastore/redis/redis.go).             *)
(*                                                                         *)
(* Subscribers register their channels for a VIN in a Redis sorted set     *)
(* whose score is the expiry of a lease, in epoch seconds.  Every Produce  *)
(* reads the clock, purges the expired entries with ZREMRANGEBYSCORE,      *)
(* lists the rest with ZRANGE, publishes the record to each of them in     *)
(* turn and then acks it.  Calls run on the goroutines of the sessions,    *)
(* here all for one VIN and one record type, so that they share the set;   *)
(* another call, a renewal or the clock may come between any two commands. *)
(***************************************************************************)
EXTENDS Naturals, Sequences, FiniteSets, Functions

CONSTANTS Calls,               \* calls of Produce, one record each
          Subscribers,         \* the channels subscribers may register
          VinChannel,          \* the channel vinChannel computes
          PublishVINTopics,    \* publish_vin_topics
          SubscriberSet,       \* subscriber_set_prefix is not empty
          ReliableAck,         \* the record type is in reliableAckTxTypes
          MaxTime              \* bound of the clock

ASSUME SubscribersAssumption ==
  IsFiniteSet(Subscribers) /\ VinChannel \notin Subscribers
\* NewProducer refuses a producer that could publish nothing at all.
ASSUME NewProducerAssumption ==
  /\ PublishVINTopics \in BOOLEAN /\ SubscriberSet \in BOOLEAN
  /\ PublishVINTopics \/ SubscriberSet
ASSUME ReliableAckAssumption == ReliableAck \in BOOLEAN
ASSUME MaxTimeAssumption == MaxTime \in Nat

VARIABLES now,        \* the wall clock, in seconds
          zset,       \* the sorted set: registered channel -> lease expiry
          pc,         \* where each call is
          at,         \* the clock as the call read it
          channels,   \* the channels the call has still to publish to
          delivered,  \* history: the channels Redis has passed the record to
          acked,      \* the calls whose record was sent to ackChan
          entitled    \* history: subscribers whose lease has been live since
                      \* the call began

vars == <<now, zset, pc, at, channels, delivered, acked, entitled>>

Channels == Subscribers \cup {VinChannel}

TypeOK ==
  /\ now \in 0..MaxTime
  /\ DOMAIN zset \subseteq Subscribers
  /\ zset \in [DOMAIN zset -> Nat]
  /\ pc \in [Calls -> {"idle", "purge", "range", "publish", "returned"}]
  /\ at \in [Calls -> 0..MaxTime]
  /\ channels \in [Calls -> Seq(Channels)]
  /\ delivered \in [Calls -> SUBSET Channels]
  /\ acked \subseteq Calls
  /\ entitled \in [Calls -> SUBSET Subscribers]

Live == {s \in DOMAIN zset : zset[s] >= now}

Init ==
  /\ now = 0
  /\ zset = <<>>
  /\ pc = [c \in Calls |-> "idle"]
  /\ at = [c \in Calls |-> 0]
  /\ channels = [c \in Calls |-> <<>>]
  /\ delivered = [c \in Calls |-> {}]
  /\ acked = {}
  /\ entitled = [c \in Calls |-> {}]

-----------------------------------------------------------------------------
\* The clock.  A lease that ends no longer entitles its owner.
Tick ==
  /\ now < MaxTime
  /\ now' = now + 1
  /\ entitled' = [c \in Calls |-> {s \in entitled[c] : zset[s] >= now'}]
  /\ UNCHANGED <<zset, pc, at, channels, delivered, acked>>

\* A subscriber registers or renews its channel (ZADD) until a time not yet past.
Renew(s, expiry) ==
  /\ expiry >= now
  /\ zset' = [x \in DOMAIN zset \cup {s} |-> IF x = s THEN expiry ELSE zset[x]]
  /\ UNCHANGED <<now, pc, at, channels, delivered, acked, entitled>>

-----------------------------------------------------------------------------
\* The channels that follow the listed ones: the VIN's own, if configured.
WithVinChannel(q) == IF PublishVINTopics THEN Append(q, VinChannel) ELSE q

\* Produce begins; subscriberChannels reads the clock for its purge.
Begin(c) ==
  /\ pc[c] = "idle"
  /\ entitled' = [entitled EXCEPT ![c] = IF SubscriberSet THEN Live ELSE {}]
  /\ IF SubscriberSet
     THEN /\ pc' = [pc EXCEPT ![c] = "purge"]
          /\ at' = [at EXCEPT ![c] = now]
          /\ UNCHANGED channels
     ELSE /\ pc' = [pc EXCEPT ![c] = "publish"]
          /\ channels' = [channels EXCEPT ![c] = WithVinChannel(<<>>)]
          /\ UNCHANGED at
  /\ UNCHANGED <<now, zset, delivered, acked>>

\* What ZREMRANGEBYSCORE from -inf to "(now" leaves: the limit is exclusive.
Unexpired(t) == {s \in DOMAIN zset : zset[s] >= t}

\* The purge with an inclusive limit.
ZRemRangeByScoreInclusive(c) ==
  /\ pc[c] = "purge"
  /\ zset' = [s \in Unexpired(at[c] + 1) |-> zset[s]]
  /\ pc' = [pc EXCEPT ![c] = "range"]
  /\ UNCHANGED <<now, at, channels, delivered, acked, entitled>>

\* subscriberChannels, first command.
ZRemRangeByScore(c) ==
  /\ pc[c] = "purge"
  /\ zset' = [s \in Unexpired(at[c]) |-> zset[s]]
  /\ pc' = [pc EXCEPT ![c] = "range"]
  /\ UNCHANGED <<now, at, channels, delivered, acked, entitled>>

\* Redis lists the members of the set by score; members of equal score come
\* in the order of their names, which the model leaves open.
Listings ==
  {q \in [1..Cardinality(DOMAIN zset) -> DOMAIN zset] :
     /\ Range(q) = DOMAIN zset
     /\ \A i, j \in DOMAIN q : i < j => zset[q[i]] <= zset[q[j]]}

\* subscriberChannels, second command, and the rest of channelsForRecord.
ZRange(c) ==
  /\ pc[c] = "range"
  /\ \E q \in Listings : channels' = [channels EXCEPT ![c] = WithVinChannel(q)]
  /\ pc' = [pc EXCEPT ![c] = "publish"]
  /\ UNCHANGED <<now, zset, at, delivered, acked, entitled>>

\* Either command fails or times out: Produce reports the error and returns.
\* A purge that timed out may have been carried out all the same.
SubscriberChannelsError(c) ==
  /\ pc[c] \in {"purge", "range"}
  /\ \/ UNCHANGED zset
     \/ pc[c] = "purge" /\ zset' = [s \in Unexpired(at[c]) |-> zset[s]]
  /\ pc' = [pc EXCEPT ![c] = "returned"]
  /\ UNCHANGED <<now, at, channels, delivered, acked, entitled>>

\* One turn of the publish loop.
Publish(c) ==
  /\ pc[c] = "publish"
  /\ channels[c] # <<>>
  /\ delivered' = [delivered EXCEPT ![c] = @ \cup {Head(channels[c])}]
  /\ channels' = [channels EXCEPT ![c] = Tail(@)]
  /\ UNCHANGED <<now, zset, pc, at, acked, entitled>>

\* A publish error that is reported and then passed over.
PublishErrorContinues(c) ==
  /\ pc[c] = "publish"
  /\ channels[c] # <<>>
  /\ channels' = [channels EXCEPT ![c] = Tail(@)]
  /\ UNCHANGED <<now, zset, pc, at, delivered, acked, entitled>>

\* A publish fails or times out, perhaps after Redis passed the record on:
\* Produce returns, the channels before it have the record, no ack is sent.
PublishError(c) ==
  /\ pc[c] = "publish"
  /\ channels[c] # <<>>
  /\ \/ UNCHANGED delivered
     \/ delivered' = [delivered EXCEPT ![c] = @ \cup {Head(channels[c])}]
  /\ pc' = [pc EXCEPT ![c] = "returned"]
  /\ UNCHANGED <<now, zset, at, channels, acked, entitled>>

\* The loop is over: ProcessReliableAck.
ProcessReliableAck(c) ==
  /\ pc[c] = "publish"
  /\ channels[c] = <<>>
  /\ acked' = IF ReliableAck THEN acked \cup {c} ELSE acked
  /\ pc' = [pc EXCEPT ![c] = "returned"]
  /\ UNCHANGED <<now, zset, at, channels, delivered, entitled>>

Produce(c) ==
  \/ Begin(c)
  \/ ZRemRangeByScore(c)
  \/ ZRange(c)
  \/ SubscriberChannelsError(c)
  \/ Publish(c)
  \/ PublishError(c)
  \/ ProcessReliableAck(c)

Next ==
  \/ Tick
  \/ \E s \in Subscribers, expiry \in 0..MaxTime : Renew(s, expiry)
  \/ \E c \in Calls : Produce(c)

Spec == Init /\ [][Next]_vars

-----------------------------------------------------------------------------
\* A subscriber leaves the set only once its lease has run out, whatever the
\* clock a concurrent call read before its purge (redis.go:159 "purging
\* entries whose lease expiry (epoch seconds) has already passed").
OnlyExpiredPurged ==
  [][\A s \in DOMAIN zset : s \notin DOMAIN zset' => zset[s] < now]_vars

\* An acked record has reached every subscriber whose lease was live from the
\* moment Produce began, although other calls purge the same set meanwhile
\* and publishes may fail half way.
AckedReachesSubscribers ==
  \A c \in acked : entitled[c] \subseteq delivered[c]

=============================================================================
