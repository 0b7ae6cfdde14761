CONSTANTS
  Found <- UsableFound
  Datastores = {"kafka", "pubsub", "kinesis", "zmq", "mqtt", "redis"}
SPECIFICATION StartSpec
INVARIANTS ServesMutualTLS EnvironmentFirst StatusServerUnlessZero HealthyOnlyWhenReady HealthCheckFindsServer AckedFromOnePlace 
CHECK_DEADLOCK FALSE
