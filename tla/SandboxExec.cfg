CONSTANTS
  Backends = {"local", "docker", "daytona"}
  MaxOutput = 3
SPECIFICATION FairSpec
INVARIANTS TypeOK NothingLeftBehind OutputWhole
PROPERTIES CallReturns
CHECK_DEADLOCK FALSE
