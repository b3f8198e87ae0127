SPECIFICATION MCSpec
CONSTANTS
  p1 = p1
  p2 = p2
  t1 = t1
  t2 = t2
  a = a
  b = b
  Procs = {p1}
  Txns = {t1}
  NFiles = 3
  Contents = {a, b}
  Absent = Absent
  None = None
  InitFiles <- MCInitFiles
  Requests <- MCOptionalRequests
  GitRepo = FALSE
  RaceWindow = FALSE
  SyncFaults = FALSE
  MaxEdits = 0
  MaxCrashes = 2
  MaxFaults = 2
  MaxEvents = 12
  ProviderCapacity = 1
  AssistantCapacity = 1
  MaxOutput = 2
  MaxChunks = 3
  Commands <- MCAllCommands
  MaxLosses = 1
INVARIANTS
  RecoveryIsSound
  StreamIsSound
  CompletedIsWhole
PROPERTIES
  RecoveryConverges
  WriteAhead
  Answered
