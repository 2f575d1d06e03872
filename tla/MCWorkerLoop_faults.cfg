SPECIFICATION Spec
CONSTANTS
  Activities <- FewActivities
  Retried = {"charge"}
  Signals = {"decision"}
  Calls <- AllCalls
  MaxBatch = 3
  Servers = {"s1", "s2"}
  Scenarios <- FaultScenarios
  MaxAttempts = 1
CHECK_DEADLOCK FALSE
PROPERTY RefinesSerialRun
