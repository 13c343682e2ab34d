SPECIFICATION FairSpec
CONSTANTS
  q1 = q1
  q2 = q2
  q3 = q3
  b1 = b1
  x1 = x1
  n1 = n1
  Answers = Answers
  Facts = Facts
  Questions = {q1}
  Batches = {}
  Requests = {x1}
  Notes = {n1}
  AtOnce = {}
  InChat = {}
  MayMiss = {q1,x1}
  MayDie = {x1}
  Lost = {}
  SendFails = FALSE
  MaxReports = 1
  MaxReloads = 0
PROPERTIES
  MetIsReleased
  HeldGoes
  AnswerGoes
