CONSTANTS
  Handles = {h1, h2}
  Ops = {p1, p2}
  h1 = h1
  h2 = h2
  p1 = p1
  p2 = p2
  Free = Free
  Stale = Stale
  MaxOpens = 2
  Crashes = FALSE
  IoErrors = FALSE
  Cancels = FALSE
  RenameSyncs = TRUE
SPECIFICATION Spec
INVARIANT FileLoads
CHECK_DEADLOCK FALSE
