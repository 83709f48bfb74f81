SPECIFICATION Spec
CONSTANTS
  Kinds = {"EmptyEvent", "Template", "Generator", "InOrder", "Skipping", "Seeking", "id", "index"}
INVARIANTS
  EventsAsAsked
  InContext
  LimitsKept
  IndexServes
CHECK_DEADLOCK FALSE
