SPECIFICATION FairSpec
CONSTANTS
  Writer = {"a", "b", "c", "d"}
  Process = {"p1", "p2", "p3"}
  Free = Free
  Dead = Dead
  Home <- MCHome
  Settings <- MCSettings
INVARIANTS
  SeqUnique
  AcceptedStays
  CursorSkipsNothing
PROPERTIES
  AppendsEnd
