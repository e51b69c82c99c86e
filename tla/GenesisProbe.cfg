CONSTANTS
  MaxDeploys = 1
  MaxFaults = 1
  Happens = {"probe-fails"}
SPECIFICATION Spec
PROPERTY ProbesFailClosed
CHECK_DEADLOCK FALSE
