SPECIFICATION Spec
CONSTANTS
  q1 = q1
  q2 = q2
  q3 = q3
  b1 = b1
  x1 = x1
  n1 = n1
  Answers = Answers
  Facts = Facts
  Questions = {q1,q2,q3}
  Batches = {}
  Requests = {}
  Notes = {}
  AtOnce = {}
  InChat = {}
  MayMiss = {}
  MayDie = {}
  Lost = {}
  SendFails = FALSE
  MaxReports = 1
  MaxReloads = 0
INVARIANTS
  SentWasSent
