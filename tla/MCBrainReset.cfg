SPECIFICATION Spec
CONSTANTS
  Machines = {home, work}
  Entries = {fact}
  Operations = {"pull", "push", "reset"}
  Faults = {}
  MaxAttempts = 3
  MaxCommands = 5
  MaxEdits = 1
  MaxFaults = 0
PROPERTIES NeverDropsUnseen
CHECK_DEADLOCK FALSE
