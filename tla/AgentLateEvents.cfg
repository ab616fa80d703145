CONSTANTS
  Steers = {}
  FollowUps = {}

  Modes = {"one-at-a-time"}
  Aborts = FALSE
  MaxRuns = 1
  MaxResets = 0
  Failures = TRUE
  Cancels = FALSE
  MaxAsking = 1
  MaxCalls = 2
SPECIFICATION Spec
PROPERTY NothingAfterAgentEnd
CHECK_DEADLOCK FALSE
