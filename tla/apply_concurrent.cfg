SPECIFICATION Spec
CONSTANTS
  p1 = p1
  p2 = p2
  t1 = t1
  t2 = t2
  a = a
  b = b
  Procs = {p1, p2}
  Txns = {t1, t2}
  NFiles = 3
  Contents = {a, b}
  Absent = Absent
  None = None
  InitFiles <- MCInitFiles
  Requests <- MCRequests
  GitRepo = TRUE
  RaceWindow = FALSE
  SyncFaults = FALSE
  MaxEdits = 0
  MaxCrashes = 2
  MaxFaults = 0
  MaxEvents = 9
SYMMETRY Symmetry
INVARIANTS
  JournalsValid
  OutcomeIsTrue
  PartialIsRecoverable
