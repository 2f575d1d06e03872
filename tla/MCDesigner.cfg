SPECIFICATION Spec
CONSTANTS
  Servers = {"s1", "s2"}
  Slots = {h1, h2}
  Overlaps = {1, 2}
  Ids = {"w"}
  Versions = {1, 2}
  Graphs = {"g1", "g2"}
  None = None
  Templates <- SystemTemplates
  Drawn <- FromTemplate
  Migrations = 2
  DayLength = 2
  WeekLength = 2
  MaxTime = 3
  MaxRuns = 3
  Scenarios <- AllScenarios
CHECK_DEADLOCK FALSE
INVARIANTS StartupSerialized RunsFollowSaves StoreWhole RecordedDayNotRepeated
SYMMETRY Requests
