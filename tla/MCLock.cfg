CONSTANTS
  supervisor = supervisor
  cli = cli
  gui = gui
  odd = odd
  even = even
  Processes = {supervisor, cli, gui}
  Ticker = supervisor
  Ids = {odd, even}
  Attempts <- MCAttempts
  Faults = {"crash", "io", "suspend"}
  MaxFaults = 2
SPECIFICATION FairSpec
INVARIANTS ExclusiveUnlessCaught
PROPERTIES NoPermanentVeto
CHECK_DEADLOCK FALSE
