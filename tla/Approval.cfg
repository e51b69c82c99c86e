CONSTANTS
  NumPhases = 2
  MaxRepairRounds = 1
  Happens = {"manual", "human-merge"}
  MaxRuns = 3
  MaxPrs = 2
  MaxFaults = 0
  MaxEvals = 0
SPECIFICATION Spec
PROPERTY ApprovalIsForItsPr
CHECK_DEADLOCK FALSE
