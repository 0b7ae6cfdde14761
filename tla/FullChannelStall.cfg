CONSTANTS
  s1 = s1
  s2 = s2
  u1 = u1
  u2 = u2
  NoSession = NoSession
  NoRecord = NoRecord
  NoResponse = NoResponse
  NoTopic = "none"
  Connectivity = "connectivity"
  Kafka = "kafka"
  Topics <- MCTopics
  ProtoTopics <- MCProtoTopics
  SignalTopics <- MCSignalTopics
  Dispatchers <- MCDispatchers
  DispatchRules <- KinesisRules
  ReliableAckSources <- KinesisAcks
  Sessions = {s1, s2}
  UUIDs = {u1, u2}
  UUID <- Distinct
  Inputs <- VehicleDataKinds
  MaxMessages = 2
  RateLimitEnabled = FALSE
  MessageLimit = 2
  WriteChanCap = 1
SPECIFICATION FairSpec
PROPERTIES PublishedIsAcked
CHECK_DEADLOCK FALSE
