SPECIFICATION JobSpec
CONSTANTS
  NFiles = 3
  AttemptsPerPhase = 3
  Attempts = 2
  MaxRewinds = 2
  AskInDestructors = FALSE
  Kinds = {"Watched"}
INVARIANT CurrentIsRunning
CHECK_DEADLOCK FALSE
