CONSTANTS
  Steers = {s1}
  FollowUps = {}
  s1 = s1
  Modes = {"one-at-a-time"}
  Aborts = TRUE
  MaxRuns = 2
  MaxResets = 1
  Failures = TRUE
  Cancels = TRUE
  MaxAsking = 1
  MaxCalls = 2
SPECIFICATION FairSpec
INVARIANTS
  StateMatchesRun
PROPERTY RunSettles
CHECK_DEADLOCK FALSE
