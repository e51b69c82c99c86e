CONSTANTS
  MaxDeploys = 2
  MaxFaults = 3
  Happens = {"killed", "killed-within", "call-fails", "push-fails", "probe-fails", "overlap", "again"}
SPECIFICATION FairSpec
INVARIANTS TypeOK ReadyIsWhole LoginWorks ClaimKept
PROPERTIES NothingReplaced ProductionKept RerunsComplete
CHECK_DEADLOCK FALSE
