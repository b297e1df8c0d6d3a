SPECIFICATION Spec
CONSTANTS
  a = a
  hook = hook
  other_hook = other_hook
  poll = poll
  g = g
  Sessions = {a}
  Messages = {1, 2}
  Hooks = {hook, other_hook}
  Polls = {poll}
  Owner <- MCOwner
  Collectors = {g}
  ShownLimit = 1
  Faults = {"crash", "io"}
  MaxFaults = 2
INVARIANTS Accounted LinesAreKept
PROPERTIES ImplementsMailbox
CHECK_DEADLOCK FALSE
