SPECIFICATION FairSpec
CONSTANTS
  Requests <- MCRequests
  Paths = {"a", "b"}
  FileLines <- MCFileLines
  SourceSays = {}
  PipeCapacity = 1
  TextChunks = 2
  MaxSaves = 1
  EventLimit = 16
  ConsumerThrows = {TRUE, FALSE}
INVARIANTS
  GroundedInScope
  SettledAsDecided
PROPERTIES
  AnswerNotStale
  CancelHonoured
  Settles
