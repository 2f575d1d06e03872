SPECIFICATION Spec
CONSTANTS
  None = None
  StepIds = {"step-1", "step-2", "step-3", "step-4", "step-5"}
  MaxTries = 2
  Names = {"a", "b"}
  MaxK = 2
  Slots = {h1, h2}
  Results = {"0", "1"}
  Scenarios <- AllScenarios
CHECK_DEADLOCK FALSE
INVARIANTS StepsFound ConditionsHonest ScheduledOnce DrawingsKept
PROPERTY GoesTheSameWay
SYMMETRY Requests
