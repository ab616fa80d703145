CONSTANTS
  Steers = {s1}
  FollowUps = {}
  s1 = s1
  Modes = {"one-at-a-time"}
  Aborts = TRUE
  MaxRuns = 1
  MaxResets = 0
  Failures = FALSE
  Cancels = FALSE
  MaxAsking = 1
  MaxCalls = 2
SPECIFICATION Spec
INVARIANT SteeringAfterCalls
CHECK_DEADLOCK FALSE
