CONSTANTS
  Packages = {a}
  Places = {top, nested}
  Releases = {10, 20, 21}
  OldReleases = {10, 20}
  Foreign = {21}
  MinDays = 1
  MajorDays = 2
  MaxDays = 2
  MaxPushes = 1
  MaxFaults = 1
  Happens = {"base-moves", "read-fails", "registry-fails", "restart"}
SPECIFICATION FairSpec
INVARIANT OnlyAgedClears
PROPERTY AgedClears
CHECK_DEADLOCK FALSE
