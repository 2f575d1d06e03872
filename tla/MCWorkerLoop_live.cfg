SPECIFICATION FairSpec
CONSTANTS
  Activities <- ActivityNames
  Retried = {"charge"}
  Signals = {"decision"}
  Calls <- AllCalls
  MaxBatch = 3
  Servers = {"s1", "s2"}
  Scenarios <- LiveScenarios
  MaxAttempts = 2
CHECK_DEADLOCK FALSE
INVARIANTS OnlyTheWindowLoses  FailedOnlyIfOvertaken
PROPERTY RunEnds
