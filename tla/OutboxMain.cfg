SPECIFICATION FairSpec
CONSTANTS
  Records = {r1}
  Notes = {1, 2}
  Mains = {m1, m2}
  Peers = {}
  Workers = {}
  MayHold = {}
  NoAgent = NoAgent
  Unknown = Unknown
  NoCall = NoCall
  PeerRetargets = 2
  MaxNotes = 1
  MayFail = TRUE
  MaxReloads = 1
  r1 = r1
  r2 = r2
  m1 = m1
  m2 = m2
  m3 = m3
  p1 = p1
  p2 = p2
  w1 = w1
  r3 = r3
  Class <- OneMain
  NoteTo <- NotesToMain
INVARIANT OpenIsCarried
INVARIANT ShownWasRead
PROPERTY MainRecordKept
PROPERTY PromiseKept
PROPERTY OpenSettles
CHECK_DEADLOCK FALSE
