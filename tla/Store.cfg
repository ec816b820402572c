SPECIFICATION Spec
CONSTANTS
  HubStarts = {"hub1", "hub2"}
  DeviceStarts = {"wkp1", "wkp2"}
  MaxCrashes = 1
  MaxAttempts = 3
  Items = {"a", "b"}
  Secrets = {}
  Scope <- ScopeOf
  Projects = {"p"}
  AutoList = {}
  Agents = {"agent"}
  MaxCommits = 4
  MaxFails = 2
  MaxRuns = 4
  Md = {"a", "b"}
  Texts = {"v1", "v2"}
  Mentions <- LinkOf
  Indexers = {"wkpd", "cli"}
  MaxChanges = 2
  Members = {"m1", "m2"}
  PrivatePaths = {"i"}
  MaxKeys = 4
  MaxSteps = 5
  ContextItems = {"u", "k"}
  Where <- ItemPlaces
  Humans = {"human:h"}
  NonHumans = {"agent:a"}
  LastDay = 1
  MaxContextChanges = 2
  Never = 9
  Callers = {"front door", "reaper"}
  MaxCalls = 3
  Processes = {"p"}
  Typed = {"index", "init", "prompt-hook", "--sandbox", "frobnicate"}
  MaxInvocations = 2
  MaxTroubles = 1
  Devices <- Laptops
  Notes = {n}
  Plain = {}
  Common = {}
  Forgotten = {m}
  Cloned = TRUE
  MaxEdits = 2
  LastEdit = 2
  MaxMerged = 7
  MaxExtras = 1
  Scalars = {"title"}
  Unmerged = {"refs"}
  Values = {"v", "w"}
  Tags = {"t"}
  MaxItemEdits = 3
  Tiers <- Rings
  Geometries <- NewGeometries
  Recorders = {"r"}
  Windows = {2}
  Kinds = {"counter", "gauge"}
  Skew = 1
  MaxTime = 4
  MaxSamples = 4
  MaxResets = 1
  NoRow = NoRow
  Paths <- NotePaths
  Rows <- RowSamples
  Links <- LinkSamples
  CommandLines <- LineSamples
  HookLimit = 1
  TopHits = 2
  SeedCount = 1
  Hops = 2
  FuseLimit = 2
  RankConstant = 1
  Unlimited = 99
  MaxUpdates = 1
  KnownDays <- FirstDays
  DaysCounted = 800
  Blank = Blank
  Null = Null
  SampleLines <- BlockLines
  MaxLines = 3
  MaxRewrites = 2
\* Every part stops at its bounds.
CHECK_DEADLOCK FALSE
INVARIANTS
  NothingLost
  CommitsAreExactWithoutFailures
  EdgesHaveTheirSource
  FoldedOnce
  RowsFitTheGeometry
  QuietQueriesAreExact
  OneSecret
  RegisteredKeysAreKept
  RevocationHolds
  AnswersKeepTheRequest
  BothSignalsFirst
  NeighboursAreNotMissed
  ShownWasReviewed
  ExpiresOnTime
  LoneCallsAreExact
  FailuresAreCalls
PROPERTIES
  AgentsStayOffMain
  StoresConverge
  MergesDiscardNothing
  DeletionsAreAsked
  IndexCatchesUp
  MergesKeepEdits
  RewriteKeepsTheItem
  IndexFollowsHead
