\* Saves, reads, start-ups, consents and the page; what credentials mean.
CONSTANTS
  None = None
  h1 = h1
  h2 = h2
  h3 = h3
  Servers = {"s1", "s2"}
  Slots = {h1, h2, h3}
  System = "system"
  User = "ada"
  StateTTL = 1
  MaxTime = 2
  Scenarios <- AllScenarios
SYMMETRY Requests
SPECIFICATION Spec
INVARIANTS
  InOrder
  SecretsInPlace
  ConsentsKept
  StatusHonest
  PageHonest
CHECK_DEADLOCK FALSE
