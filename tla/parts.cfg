SPECIFICATION PartsSpec
CONSTANTS
  k1 = k1
  v1 = v1
  Absent = Absent
  c1 = c1
  c2 = c2
  p1 = p1
  p2 = p2
  p3 = p3
  p4 = p4
  d1 = d1
  s1 = s1
  s2 = s2
  Free = Free
  j1 = j1
  j2 = j2
  w1 = w1
  w2 = w2
  pg1 = pg1
  Channel <- TwoChannels
  Provision <- FourProvisions
  Width = 4
  Lists <- SomeLists
  MaxCalls = 4
  Page <- OnePage
  Config <- SomeConfigs
  First <- AutoConfig
  None = None
  MaxPuts = 2
  MaxFails = 1
  Download <- OneDownload
  Session <- TwoSessions
  Option = {FALSE, TRUE}
  MaxCrashes = 1
  Job <- TwoJobs
  MaxSpawns = 2
  Key <- OneKey
  Value <- OneValue
  RpcLimit = 2
  DepthLimit = 3
  CycleLimit = 2
  MaxCommits = 3
  Worker <- TwoWorkers
  Minute = 3
  Limit = 1
INVARIANTS
  LatestKept
  AnswersMatch
  BlameRight
  FaultKeepsProvisions
  OneOutcome
  NoResultLost
  OneResult
  NoneForgotten
  OneByOne
  LastSaveWins
PROPERTIES
  RepeatableReads
  BatchEnds
  EveryJobEnds
  StormEnds
CHECK_DEADLOCK FALSE
