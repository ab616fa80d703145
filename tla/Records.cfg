CONSTANTS
  Processes = {1, 2}
  Callers = {1, 2, 3}
  SessionIds = {"id"}
  Cwds = {"a/b", "a-b"}
  MaxClock = 1
  None = None
  ItemTypes = {"message", "custom", "compaction", "usage"}
  Items <- ReadItems
  Searches <- ReadSearches
  Pagers <- ReadPagers
  PageSize = 1
  MaxLog = 3
  Listeners = {1, 2}
  Watchers = {11}
  MaxEvents = 3
  Idle = Idle
  Over = Over
SPECIFICATION RecordsSpec
INVARIANTS
  NothingForgotten
  ContextInOrder
  ResultsFollowCalls
  BranchesRemembered
  FilesReported
  RestartRestores
  LateRecordsRefused
  SearchFindsEachOnce
  PagesCoverOnce
  OneSessionPerDestination
  ForksAppearWhole
  LinesKeepTheirMeaning
  SubscribersHearAll
CHECK_DEADLOCK FALSE
