SPECIFICATION FairSpec
CONSTANTS
  Targets = {t1}
  Entries = {a, b, c}
  Tasks = {p1, p2}
  NoEntry = NoEntry
  NoTask = NoTask
  NoBatch = NoBatch
  First = {}
  Words = {a}
  WithTurnEnd = {events}
  MayExpire = {b}
  MayHold = {}
  MayClose = {}
  Bring = {TRUE}
  RefreshFails = FALSE
  SendFails = TRUE
  EarlyTurnEnd = FALSE
  MayReload = TRUE
  MaxTurns = 1
  a = a
  b = b
  c = c
  p1 = p1
  p2 = p2
  events = events
  KindOf <- OwnKinds
  BatchOf <- WordAndEvents
  GroupOf <- TwoGroups
INVARIANT AwaitedEndsAreReal
PROPERTY NoOvertaking
PROPERTY QueuedLeaves
CHECK_DEADLOCK FALSE
