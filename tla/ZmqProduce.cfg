CONSTANTS
  Callers = {"c1", "c2"}
  Records = {"r1", "r2", "r3"}
  ReliableRecords = {"r1", "r2"}
  MaxEventErrors = 1
SPECIFICATION FairSpec
INVARIANTS AckedIsSent BoundIsAuthenticated PanicLeavesNothing
PROPERTIES ConstructionEnds ProduceReturns
CHECK_DEADLOCK FALSE
