SPECIFICATION Spec
CONSTANTS
  Servers = {"s1", "s2"}
  Handlers = {h1, h2}
  Keys = {"k"}
  Inputs = {"i", "j"}
  Tenants = {"t"}
  None = "none"
  Quota = 1
  Capacity = 1
  MaxRuns = 3
  Scenarios <- AllScenarios
CHECK_DEADLOCK FALSE
INVARIANTS QuotaOvershootBounded AnswerHonest DuplicatesBounded GivenUpTasksKept
SYMMETRY Requests
