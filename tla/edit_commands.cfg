SPECIFICATION ScenarioSpec
CONSTANTS
  p1 = p1  p2 = p2  c1 = c1  c2 = c2
  None = None
  Props <- TwoProps
  Cmds <- TwoCmds
  Overlap = TRUE
  MaxPolicy = 512
  MaxGenerations = 4096
  MaxCommands = 5
  MaxEdits = 0
  MaxRepairs = 0
  MaxCrashes = 0
  MaxFaults = 0
  MaxCancels = 1
  MaxDisturbances = 1
  MayExpire <- OneProp
  MayContend <- OneProp
CHECK_DEADLOCK FALSE
INVARIANTS
  StateIsLock
PROPERTIES
  AppliedWasVerified
  Settles
