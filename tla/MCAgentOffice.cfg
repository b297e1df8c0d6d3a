CONSTANTS
  Bridge = {gui1, gui2}
  Cli = {cli}
  Tasks = {1, 2}
  Faults = {"crash", "io"}
  MaxIncidents = 2
SPECIFICATION FairSpec
INVARIANTS WorkIsServed RunsLeaveNothingOpen ServedOnce
PROPERTIES HaltIsKept AskedIsServed
CHECK_DEADLOCK FALSE
