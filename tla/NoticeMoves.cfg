SPECIFICATION Spec
CONSTANTS
  Targets = {t1, t2}
  Entries = {a, b, c}
  Tasks = {p1, p2}
  NoEntry = NoEntry
  NoTask = NoTask
  NoBatch = NoBatch
  First = {c}
  Words = {a}
  WithTurnEnd = {}
  MayExpire = {}
  MayHold = {b}
  MayClose = {t1}
  Bring = {TRUE, FALSE}
  RefreshFails = TRUE
  SendFails = TRUE
  EarlyTurnEnd = TRUE
  MayReload = FALSE
  MaxTurns = 1
  a = a
  b = b
  c = c
  p1 = p1
  p2 = p2
  events = events
  KindOf <- SingleKind
  BatchOf <- SingleBatch
  GroupOf <- NoGroup
SYMMETRY Symmetry
INVARIANT TypeOK
INVARIANT OneDelivery
INVARIANT NeverSentTwice
INVARIANT NoticeInOnePlace
PROPERTY OwnTurnKept
CHECK_DEADLOCK FALSE
