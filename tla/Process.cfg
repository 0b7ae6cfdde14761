CONSTANTS
  Found <- LifeFound
  Datastores = {"kafka", "pubsub", "kinesis", "zmq", "mqtt", "redis"}
  Sessions = {"s1", "s2"}
  MonitoringConfigs <- LifeMonitoring
  Interval = 3
  Second = 2
  Modes = {"pause"}
SPECIFICATION LifeSpec
INVARIANTS OpenWhileListening  NoMetricPanics CrashNeedsLateSample ProfilerTellsTrace
PROPERTIES ShutdownStops
CHECK_DEADLOCK FALSE
