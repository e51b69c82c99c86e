CONSTANTS
  NumPhases = 1
  MaxRepairRounds = 1
  Happens = {"auto", "manual", "retry-stage", "set-pr", "cancel", "secondary", "effect-fails", "checklist", "findings", "pr-lost", "stall", "issue", "release", "restart", "webhook"}
  MaxRuns = 2
  MaxPrs = 2
  MaxFaults = 2
  MaxEvals = 0
SPECIFICATION Spec
INVARIANT TypeOK
PROPERTY StopLiftedByOperator
CHECK_DEADLOCK FALSE
