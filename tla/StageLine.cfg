CONSTANTS
  NumPhases = 2
  MaxRepairRounds = 1
  Happens = {"auto", "manual", "restart", "run-fails", "credential", "needs-human", "webhook", "findings", "release"}
  MaxRuns = 3
  MaxPrs = 4
  MaxFaults = 2
  MaxEvals = 0
SPECIFICATION FairSpec
PROPERTIES LineDelivers ImplementsDeliveryLine
CHECK_DEADLOCK FALSE
