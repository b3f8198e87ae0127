SPECIFICATION Spec
CONSTANTS
  p1 = p1  p2 = p2  c1 = c1  c2 = c2
  None = None
  Props <- OneProp
  Cmds <- TwoCmds
  Overlap = FALSE
  MaxPolicy = 512
  MaxGenerations = 4096
  MaxCommands = 4
  MaxEdits = 0
  MaxRepairs = 0
  MaxCrashes = 0
  MaxFaults = 0
  MaxCancels = 0
  MaxDisturbances = 1
  MayExpire <- NoProps
  MayContend <- OneProp
SYMMETRY Symmetry
CHECK_DEADLOCK FALSE
PROPERTIES
  FailureIsChecked
