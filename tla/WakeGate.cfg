SPECIFICATION Spec
CONSTANTS
  q1 = q1
  q2 = q2
  q3 = q3
  b1 = b1
  x1 = x1
  n1 = n1
  Answers = Answers
  Facts = Facts
  Questions = {q1}
  Batches = {b1}
  Requests = {}
  Notes = {n1}
  AtOnce = {n1}
  InChat = {q1}
  MayMiss = {}
  MayDie = {b1}
  Lost = {"unknown", "none"}
  SendFails = TRUE
  MaxReports = 2
  MaxReloads = 1
INVARIANTS
  TypeOK
  NothingStuck
  OneWay
  HeldIsAwaited
  OpenRecordIsCarried
PROPERTIES
  NoUnmetWake
  UnmetStands
  FactsKept
