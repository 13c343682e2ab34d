SPECIFICATION FairSpec
CONSTANTS
  Targets = {t1}
  Entries = {a, b}
  Tasks = {p1, p2}
  NoEntry = NoEntry
  NoTask = NoTask
  NoBatch = NoBatch
  First = {}
  Words = {}
  WithTurnEnd = {}
  MayExpire = {}
  MayHold = {}
  MayClose = {}
  Bring = {TRUE}
  RefreshFails = FALSE
  SendFails = FALSE
  EarlyTurnEnd = TRUE
  MayReload = FALSE
  MaxTurns = 1
  a = a
  b = b
  c = c
  p1 = p1
  p2 = p2
  events = events
  KindOf <- SingleKind
  BatchOf <- SingleBatch
  GroupOf <- NoGroup
PROPERTY QueuedLeaves
CHECK_DEADLOCK FALSE
