CONSTANTS
  Steers = {s1, s2}
  FollowUps = {f1}
  s1 = s1
  s2 = s2
  f1 = f1
  Modes = {"one-at-a-time", "all"}
  Aborts = TRUE
  MaxRuns = 2
  MaxResets = 0
  Failures = FALSE
  Cancels = FALSE
  MaxAsking = 1
  MaxCalls = 2
SPECIFICATION Spec
INVARIANTS
  InputInOrder
  AccountsAgree
  CallsAnswered
  GatesBeforeTools
PROPERTY EventProtocol
CHECK_DEADLOCK FALSE
