CONSTANTS
  Tasks = {a, b}
  None = None
  MaxAsks = 2
  MaxTimeout = 2
  Grace = 2
  Verdicts = {"failed"}
  Settings <- MCSettings
SPECIFICATION Spec
CONSTRAINT Unreplaced
SYMMETRY Symmetry
INVARIANTS ParksShielded AnsweredOnce Answerable InjectedKept
