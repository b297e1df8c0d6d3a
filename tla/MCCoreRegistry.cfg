CONSTANTS
  Processes = {cli, mcp}
  scan = scan
  edit = edit
  test = test
  Steps = {scan, edit, test}
  Graphs <- MCGraphs
  Sessions = {s1, s2}
  Faults = {"crash", "io"}
  MaxRules = 3
  MaxFaults = 1
SPECIFICATION MCSpec
INVARIANTS ExclusiveUnlessRobbed PlansAreSound OneRulePerAttempt
PROPERTIES EndedStaysEnded PlansAreSerial NoPermanentVeto
CHECK_DEADLOCK FALSE
