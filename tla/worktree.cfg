SPECIFICATION FairSpec
CONSTANTS
  r1 = r1
  c1 = c1
  c2 = c2
  NoRun = NoRun
  Runs = {r1}
  Cleaners = {c1, c2}
  CleanActive = FALSE
  MaxCrashes = 1
  MaxFaults = 2
  MaxChanges = 1
CHECK_DEADLOCK FALSE
INVARIANTS
  WorktreeAccounted
PROPERTIES
  RemovesOnlyRegistered
  DriftRefused
  CleansUp
