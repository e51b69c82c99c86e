CONSTANTS
  MaxChanges = 0
  MaxEvals = 1
  MaxEffects = 3
  MaxFaults = 2
  Happens = {"webhook"}
SPECIFICATION Spec
PROPERTY ClassificationFirst
CHECK_DEADLOCK FALSE
