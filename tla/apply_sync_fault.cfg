SPECIFICATION Spec
CONSTANTS
  p1 = p1
  p2 = p2
  t1 = t1
  t2 = t2
  a = a
  b = b
  Procs = {p1}
  Txns = {t1}
  NFiles = 3
  Contents = {a, b}
  Absent = Absent
  None = None
  InitFiles <- MCInitFiles
  Requests <- MCOptionalRequests
  GitRepo = FALSE
  RaceWindow = FALSE
  SyncFaults = TRUE
  MaxEdits = 0
  MaxCrashes = 0
  MaxFaults = 1
  MaxEvents = 9
INVARIANTS
  OutcomeJournalled
