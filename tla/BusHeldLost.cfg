SPECIFICATION Spec
CONSTANTS
  e1 = e1
  e2 = e2
  e3 = e3
  d1 = d1
  m1 = m1
  m2 = m2
  Missions = {m1}
  Events = {e1, e2}
  Subject <- TwoOfOne
  Dangers = {}
  Backups = {}
  Orchestrators = {o1}
  Calls = {c1}
  Window = 1
  MayBeAbsent = TRUE
  MayFail = FALSE
  MaxMessages = 1
  MaxOwnerTurns = 0
  MaxReloads = 0
PROPERTY HeldKept
CHECK_DEADLOCK FALSE
