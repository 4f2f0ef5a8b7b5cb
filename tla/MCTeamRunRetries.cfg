SPECIFICATION Spec
CONSTANTS
  t1 = t1
  t2 = t2
  t3 = t3
  Tasks = {t1, t2}
  Slots = 2
  Settings <- Undisturbed
CHECK_DEADLOCK FALSE
INVARIANTS
  RetriesRunOut
