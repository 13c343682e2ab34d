SPECIFICATION Spec
CONSTANTS
  Records = {r1, r2, r3}
  Notes = {}
  Mains = {m1}
  Peers = {p1, p2}
  Workers = {w1}
  MayHold = {r1}
  NoAgent = NoAgent
  Unknown = Unknown
  NoCall = NoCall
  PeerRetargets = 2
  MaxNotes = 1
  MayFail = TRUE
  MaxReloads = 0
  r1 = r1
  r2 = r2
  m1 = m1
  m2 = m2
  m3 = m3
  p1 = p1
  p2 = p2
  w1 = w1
  r3 = r3
  Class <- PeerAndPlain
  NoteTo <- NoNotes
INVARIANT TypeOK
INVARIANT OneCarrier
INVARIANT DropIsTold
CHECK_DEADLOCK FALSE
