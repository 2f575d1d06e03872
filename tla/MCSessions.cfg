SPECIFICATION Spec
CONSTANTS
  Servers = {"s1", "s2"}
  Slots = {h1, h2}
  Clients = {"c1", "c2"}
  Tabs = {"t1"}
  Users = {"ada"}
  Passwords = {"p1", "p2"}
  EnvUser = "ftn"
  EnvPassword = "env"
  DefaultPassword = "default"
  None = None
  AccessTTL = 2
  RefreshTTL = 3
  Window = 2
  MaxTime = 3
  MaxTokens = 5
  Scenarios <- AllScenarios
CHECK_DEADLOCK FALSE
INVARIANTS AccessHonest SessionsKept LogoutEndsSessions RateBounded ScreenHonest
SYMMETRY Requests
