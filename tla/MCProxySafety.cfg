CONSTANTS
  Clients = {c1, c2}
  Faults = {"crash", "signal", "reboot", "port"}
  MaxEdits = 2
  MaxCommands = 3
  MaxFaults = 1
  MaxReconcileSteps = 8
  MaxDriveSteps = 12
SPECIFICATION Spec
SYMMETRY ClientSymmetry
INVARIANTS CommandsAreDurable DisabledIsUnleased RestIsClean MatrixIsGuarded
PROPERTIES StoppedIsNotRouted
CHECK_DEADLOCK FALSE
