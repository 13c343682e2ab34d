SPECIFICATION FairSpec
CONSTANTS
  c1 = c1
  Calls = {c1}
  MaxHandoffs = 2
  MaxAgents = 2
  MaxPerRequest = 2
  Bindings = {TRUE, FALSE}
  Obstacles = {"no-manager", "error"}
  MaySwitch = TRUE
  MaxReloads = 1
INVARIANTS
  TypeOK
  OneCreation
  CreatedIsKept
PROPERTIES
  KeptCreation
  PendingEnds
