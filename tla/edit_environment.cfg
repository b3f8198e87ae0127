SPECIFICATION Spec
CONSTANTS
  p1 = p1  p2 = p2  c1 = c1  c2 = c2
  None = None
  Props <- OneProp
  Cmds <- TwoCmds
  Overlap = FALSE
  MaxPolicy = 512
  MaxGenerations = 16
  MaxCommands = 4
  MaxEdits = 2
  MaxRepairs = 1
  MaxCrashes = 1
  MaxFaults = 1
  MaxCancels = 1
  MaxDisturbances = 3
  MayExpire <- NoProps
  MayContend <- NoProps
SYMMETRY Symmetry
CHECK_DEADLOCK FALSE
INVARIANTS
  ReportsTrue
  NoDeadEnd
PROPERTIES
  VerifiedIsRestored
