CONSTANTS
  Clients = {c1}
  Faults = {"crash", "io", "suspend"}
  MaxEdits = 1
  MaxCommands = 2
  MaxFaults = 2
  MaxReconcileSteps = 8
  MaxDriveSteps = 12
SPECIFICATION FairSpec
PROPERTIES OverwritesOnlyWhatItRead StopsOnlyUnrouted TransitionsEnd
CHECK_DEADLOCK FALSE
