CONSTANTS
  MaxOutput = 4
  Newlines = {3}
  Controls = {1}
  MaxLines = 1
  MaxBytes = 2
  ReadSize = 2
  WaitModes = {"closed"}
  Faults = TRUE
SPECIFICATION ShellSpec
CHECK_DEADLOCK FALSE
PROPERTY ExitSettles
