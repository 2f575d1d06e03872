SPECIFICATION Spec
CONSTANTS
  Activities <- ActivityNames
  Retried = {"charge"}
  Signals = {"decision"}
  Calls <- AllCalls
  MaxBatch = 3
  Servers = {"s1", "s2"}
  Scenarios <- SleepScenarios
  MaxAttempts = 2
CHECK_DEADLOCK FALSE
INVARIANT SleepOnce
