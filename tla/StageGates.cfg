CONSTANTS
  NumPhases = 2
  MaxRepairRounds = 1
  Happens = {"auto", "credential", "human-merge", "webhook", "cli-unblock", "needs-human"}
  MaxRuns = 3
  MaxPrs = 2
  MaxFaults = 1
  MaxEvals = 2
SPECIFICATION Spec
INVARIANTS OneLabelPerVerdict MergeCountedOnce AssessedAfterEveryPhase NeverSilentlyStalled StoppedIsActionable OneForemanPerPhase
CHECK_DEADLOCK FALSE
