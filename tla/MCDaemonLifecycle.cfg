SPECIFICATION FairSpec
CONSTANTS
  boot = boot
  start = start
  other = other
  Starters = {boot, start, other}
  Boots = {boot}
  Old = Old
  Incidents = {"kill", "stop", "slow", "fail"}
  MaxIncidents = 1
INVARIANTS OneUnlessReaped HolderIsFindable
PROPERTIES StartGetsOne
CHECK_DEADLOCK FALSE
