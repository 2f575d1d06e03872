SPECIFICATION Spec
CONSTANTS
  Procs = {p1, p2}
  Activities = {}
  Retried = {}
  Signals = {approve}
  Requests = {}
  Calls = {"SignalWaitStarted", "StepRecorded"}
  MaxBatch = 1
  SnapshotInterval = 2
  MaxVersion = 4
SYMMETRY Symmetry
PROPERTY RefinesSerialRun
