CONSTANTS
  Projects = {p1, p2}
  MaxServers = 1
  NumPorts = 2
  MaxLocks = 2
  MaxFaults = 1
  Happens = {"crash", "shutdown", "report-fails", "secrets-fail", "write-fails", "npm-fails", "server-dies", "port-taken", "run", "merge", "activity"}
SPECIFICATION FairSpec
INVARIANTS TypeOK CapHolds PortsApart
PROPERTIES InstallsYield ServedInTheEnd
CHECK_DEADLOCK FALSE
