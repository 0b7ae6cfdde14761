CONSTANTS
  s1 = s1
  s2 = s2
  u1 = u1
  u2 = u2
  NoSession = NoSession
  NoRecord = NoRecord
  NoResponse = NoResponse
  NoTopic = "none"
  Connectivity = "connectivity"
  Kafka = "kafka"
  Topics <- MCTopics
  ProtoTopics <- MCProtoTopics
  SignalTopics <- MCSignalTopics
  Dispatchers <- MCDispatchers
  DispatchRules <- MCDispatchRules
  ReliableAckSources <- MCReliableAckSources
  Sessions = {s1}
  UUIDs = {u1}
  UUID <- One
  Inputs <- ReliableKinds
  MaxMessages = 1
  RateLimitEnabled = FALSE
  MessageLimit = 1
  WriteChanCap = 3
SPECIFICATION Spec
INVARIANTS SignalsCounted
