SPECIFICATION Spec
CONSTANTS
  Procs = {p1, p2}
  Activities = {charge}
  Retried = {}
  Signals = {}
  Requests = {"cancel"}
  Calls = {"ActivityScheduled"}
  MaxBatch = 1
  SnapshotInterval = 2
  MaxVersion = 5
SYMMETRY Symmetry
INVARIANTS
  TypeOK
  HeldStateExact
  ClosesForGood
  WorkAccounted
PROPERTIES
  ScheduledOnce
  RefinesSerialRun
