CONSTANTS
  Settings <- MCSettings
  MaxEntries = 6
SPECIFICATION HistorySpec
CHECK_DEADLOCK FALSE
INVARIANT SummariesAccumulate
