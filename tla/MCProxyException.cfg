CONSTANTS
  Clients = {c1}
  Faults = {"io"}
  MaxEdits = 1
  MaxCommands = 3
  MaxFaults = 1
  MaxReconcileSteps = 8
  MaxDriveSteps = 12
SPECIFICATION Spec
INVARIANTS CommandsAreDurable
CHECK_DEADLOCK FALSE
