SPECIFICATION Spec
CONSTANTS
  p1 = p1
  p2 = p2
  t1 = t1
  t2 = t2
  a = a
  b = b
  Procs = {p1}
  Txns = {t1, t2}
  NFiles = 3
  Contents = {a, b}
  Absent = Absent
  None = None
  InitFiles <- MCInitFiles
  Requests <- MCGitRequests
  GitRepo = TRUE
  RaceWindow = FALSE
  SyncFaults = TRUE
  MaxEdits = 1
  MaxCrashes = 1
  MaxFaults = 1
  MaxEvents = 7
SYMMETRY Symmetry
PROPERTIES
  ImplementsPlannedChange
