SPECIFICATION Spec
CONSTANTS
  e1 = e1
  e2 = e2
  e3 = e3
  d1 = d1
  m1 = m1
  m2 = m2
  Missions = {m1, m2}
  Events = {e1, e3}
  Subject <- EventAndConflict
  Dangers = {}
  Backups = {}
  Orchestrators = {o1, o2}
  Calls = {c1, c2}
  Window = 1
  MayBeAbsent = TRUE
  MayFail = TRUE
  MaxMessages = 1
  MaxOwnerTurns = 1
  MaxReloads = 1
INVARIANT TypeOK
PROPERTY OncePerKey
PROPERTY WindowKept
CHECK_DEADLOCK FALSE
