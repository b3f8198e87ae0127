SPECIFICATION ComponentsSpec
CONSTANTS
  Threads = {t1, t2}
  NoSession = NoSession
  MaxSessions = 2
  MaxRuns = 1
  MaxHistory = 2
  MaxTurns = 2
  MaxClears = 2
  MaxReloads = 1
  Commands = {k1, k2}
  Nothing = Nothing
  MaxAttempts = 2
  MaxAsks = 4
  c1 = c1
  c2 = c2
  g1 = g1
  None = None
  Callers = {c1, c2}
  Grants = {g1}
  Bindings <- MCBindings
  MaxPaths = 4
  MaxEvents = 1
  MaxChecks = 2
  MaxChanges = 1
  MaxFailures = 1
  Asks <- MCAsks
  World0 <- MCWorld
  Contents <- MCContents
  b1 = b1
  b2 = b2
  s1 = s1
  r1 = r1
  Builders = {b1, b2}
  Searchers = {s1}
  Referrers = {r1}
  Entries <- MCEntries
  Edited <- MCEdited
  NoGeneration = NoGeneration
  MaxBuilds = 2
  MaxSearches = 1
  MaxRequests = 2
  MaxEdits = 2
  MaxFaults = 2
  PlanFiles <- MCPlanFiles
  HeadTexts <- MCHeadTexts
  NoText = NoText
  Referenced <- MCReferenced
  Operations <- MCOperations
  UserTexts <- MCUserTexts
  MaxOperations = 2
  MaxEditFiles = 2
  MaxFileBytes = 4
  MaxLines = 4
  MaxUserEdits = 1
  Keys = {"a", "b"}
  JsonTexts <- MCJsonTexts
  YamlTexts <- MCYamlTexts
  TomlTexts <- MCTomlTexts
  FirstLines = {1, 3}
  NJavaFiles = 2
  JavaTexts <- MCJavaTexts
  MaxProposals = 2
  MaxTouches = 2
CHECK_DEADLOCK FALSE
INVARIANTS
  StoreIsSaved
  UserDecides
  ExecutedIsAuthorized
  IndexIsSound
  PlanIsFaithful
  FactIsExact
  EditsAreVerified
PROPERTIES
  ClearedIsNotSent
  AuthorizedIsCurrent
