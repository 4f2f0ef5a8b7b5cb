SPECIFICATION FairSpec
CONSTANTS
  Procs = {"p1", "p2", "p3", "p4"}
  Goals = {"g1", "g2", "g3"}
  GoalOf <- MCGoalOf
  Fates <- MCFates
  None = None
  MaxTurns = 2
  Settings <- MCSettings
INVARIANTS NoStrayFile OneTurnAtATime
PROPERTIES SettledStays ExternalStateWins NoTurnAfterLoss LossNoticed RunnersEnd
CHECK_DEADLOCK FALSE
