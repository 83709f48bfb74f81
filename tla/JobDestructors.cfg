SPECIFICATION JobSpec
CONSTANTS
  NFiles = 3
  AttemptsPerPhase = 3
  Attempts = 2
  MaxRewinds = 2
  AskInDestructors = TRUE
  Kinds = {"Serving"}
INVARIANT ModulesMayUseServices
CHECK_DEADLOCK FALSE
