SPECIFICATION FairSpec
CONSTANTS
  e1 = e1
  e2 = e2
  e3 = e3
  d1 = d1
  m1 = m1
  m2 = m2
  Missions = {m1}
  Events = {e1, d1}
  Subject <- EventAndDanger
  Dangers = {d1}
  Backups = {d1}
  Orchestrators = {o1}
  Calls = {c1}
  Window = 1
  MayBeAbsent = FALSE
  MayFail = TRUE
  MaxMessages = 3
  MaxOwnerTurns = 0
  MaxReloads = 1
INVARIANT EndsAfterItsTurn
PROPERTY HeldKept
PROPERTY HeldGoes
CHECK_DEADLOCK FALSE
