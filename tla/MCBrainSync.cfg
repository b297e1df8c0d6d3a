SPECIFICATION Spec
CONSTANTS
  Machines = {home, work}
  Entries = {fact}
  Operations = {"pull", "push", "force", "reset"}
  Faults = {"crash", "contended", "undeleted", "resent"}
  MaxAttempts = 2
  MaxCommands = 4
  MaxEdits = 2
  MaxFaults = 1
INVARIANTS LiveObjectPresent
PROPERTIES ImplementsChain PushKeepsUndecided ConflictsAreContention
SYMMETRY Alike
CHECK_DEADLOCK FALSE
