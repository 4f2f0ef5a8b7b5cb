SPECIFICATION FairSpec
CONSTANTS
  t1 = t1
  t2 = t2
  t3 = t3
  Tasks = {t1, t2}
  Slots = 2
  Settings <- VetoChain
CHECK_DEADLOCK FALSE
PROPERTIES
  RunnerEndsVetoed
