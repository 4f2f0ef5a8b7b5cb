SPECIFICATION FairSpec
CONSTANTS
  t1 = t1
  t2 = t2
  t3 = t3
  Tasks = {t1, t2, t3}
  Slots = 2
  Settings <- AllSettings
CHECK_DEADLOCK FALSE
INVARIANTS
  TypeOK
  CompletedRunSettled
  RunEndsTerminal
  NoUnitOutlivesRun
  WavesInOrder
PROPERTIES
  DispatchedNeverSkipped
  VerdictsStay
  RunnerEnds
  WorkKept
