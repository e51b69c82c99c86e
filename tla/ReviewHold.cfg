CONSTANTS
  MaxChanges = 2
  MaxEvals = 1
  MaxEffects = 3
  MaxFaults = 1
  Happens = {"effect-fails", "restart", "stop", "webhook", "human-asked", "checklist"}
SPECIFICATION FairSpec
INVARIANTS TypeOK HoldHolds ProtectionFollowsMode
PROPERTY HoldTakesEffect
CHECK_DEADLOCK FALSE
