SPECIFICATION FairSpec
CONSTANTS
  hook = hook
  daemon = daemon
  sweep = sweep
  Writers = {hook, daemon}
  Events = {1, 2}
  Sweepers = {sweep}
  Leftover = Leftover
  Obstacle = Obstacle
  MaxSteals = 2
  Faults = {"crash", "slow", "io"}
  MaxFaults = 1
INVARIANTS EventsAreKept OneLineEach NoneCountedTwice
PROPERTIES LagIsMended AppendsReturn
CHECK_DEADLOCK FALSE
