SPECIFICATION FairSpec
CONSTANTS
  t1 = t1
  t2 = t2
  t3 = t3
  Tasks = {t1, t2}
  Slots = 1
  Settings <- ForeignCancel
CHECK_DEADLOCK FALSE
PROPERTIES
  NoTerminalErased
