CONSTANTS
  Procs = {t1, t2, t3}
  t1 = t1
  t2 = t2
  t3 = t3
  Nobody = Nobody
  NoFile = NoFile
  Abandons = TRUE
  SlowHolders = TRUE
  Calls = {c1, c2, c3}
  Requests <- ThreeRequests
  MaxCancels = 1
  c1 = c1
  c2 = c2
  c3 = c3
  None = None
  MaxOutput = 4
  Newlines = {3}
  Controls = {1}
  MaxLines = 1
  MaxBytes = 2
  ReadSize = 2
  WaitModes = {"exit", "closed"}
  Faults = TRUE
  Blocks = {1, 2}
  MaxSent = 2
SPECIFICATION ToolsSpec
INVARIANTS
  ExclusionUntilStale
  OneMutationPerFile
  NothingLost
  EntriesFreed
  OutputComplete
  ResultIsFinal
  AbortEndsStream
PROPERTIES
  WaiterReclaims
  EveryCallEnds
  EveryCommandEnds
CHECK_DEADLOCK FALSE
