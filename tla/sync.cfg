SPECIFICATION Spec
CONSTANTS
  Requests <- MCRequests
  NoRequest = NoRequest
  Lifetime = 3
  Buffer = 1
  Latency = 1
  MaxClock = 5
  WithoutGit <- MCWithoutGit
  Encoded <- MCEncoded
  Files <- MCFiles
  Entry <- MCEntry
  Blank <- MCBlank
  Configs <- MCConfigs
  Concurrency = 2
  Batch = 2
  MaxPushes = 3
INVARIANTS
  Accounted
  HeldIsCurrent
  MintedWhenStale
  SentUnexpired
PROPERTY SyncEnds
CHECK_DEADLOCK FALSE
