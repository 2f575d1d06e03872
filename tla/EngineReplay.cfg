SPECIFICATION EngineSpec
CONSTANTS
  Activities = {charge}
  Retried = {}
  Signals = {approve}
  Calls = {}
  MaxBatch = 0
  MaxApplied = 5
INVARIANT ReplayAgrees
