SPECIFICATION FairSpec
CONSTANTS
  a1 = a1
  a2 = a2
  s1 = s1
  p1 = p1
  p2 = p2
  Contexts = {a1, a2, s1}
  Sync = {s1}
  Procs = {p1, p2}
  Tokens = {t1, t2, t3, t4, t5}
  None = None
  Corpse = Corpse
  Supplement = TRUE
  Addresses = {"kernel", "path"}
  Placements <- AnyPlacement
  AgesOut = TRUE
  Crashable = {p1, p2}
CHECK_DEADLOCK FALSE
INVARIANTS
  AsyncExclusion
  HeldTokensLive
  NoLockLeft
PROPERTIES
  RegisteredLockKept
  WaitersProgress
