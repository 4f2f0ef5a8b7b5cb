SPECIFICATION FairSpec
CONSTANTS
  s1 = s1
  s2 = s2
  s3 = s3
  t1 = t1
  t2 = t2
  Session = {s1, s2, s3}
  Detached = Detached
  Free = Free
  Task = {t1, t2}
  Settings <- MCSettings
INVARIANTS
  OneRunner
  SettledRunRests
PROPERTIES
  LiveRunKept
  RunSettles
CHECK_DEADLOCK FALSE
