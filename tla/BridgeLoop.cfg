CONSTANTS
  NumRuns = 2
  NumEffects = 1
  NumHeads = 2
  Take = 1
  MaxFaults = 2
  Happens = {"crash", "call-fails", "outage", "effect-fails", "cancel", "delete-job", "retrack", "push"}
SPECIFICATION FairSpec
INVARIANTS TypeOK CompletedOnce TracksTheRowsJob FollowedUpOnce
PROPERTIES CancelledStays RunsAreReported GateCatchesUp
CHECK_DEADLOCK FALSE
