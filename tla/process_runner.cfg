SPECIFICATION FairSpec
CONSTANTS
  Strategies <- MCStrategies
  Limit = 2
  Chunk = 2
  PipeCapacity = 2
  MaxBytes <- MCMaxBytes
CHECK_DEADLOCK FALSE
INVARIANTS
  TailIsExact
  SuccessIsComplete
  ReportIsHonest
PROPERTIES
  Returns
