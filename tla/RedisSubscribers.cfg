CONSTANTS
  Calls = {"c1", "c2"}
  Subscribers = {"a", "b"}
  VinChannel = "vin"
  PublishVINTopics = TRUE
  SubscriberSet = TRUE
  ReliableAck = TRUE
  MaxTime = 2
SPECIFICATION Spec
INVARIANTS AckedReachesSubscribers
PROPERTIES OnlyExpiredPurged 
