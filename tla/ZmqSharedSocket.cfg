CONSTANTS
  Callers = {"c1", "c2"}
  Records = {"r1", "r2"}
  ReliableRecords = {"r1"}
  MaxEventErrors = 0
SPECIFICATION Spec
INVARIANTS FramesStayTogether
CHECK_DEADLOCK FALSE
