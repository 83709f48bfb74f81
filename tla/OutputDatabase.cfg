SPECIFICATION Spec
CONSTANTS
  Kinds = {"database"}
INVARIANTS
  ShortReadsAreFilled
CHECK_DEADLOCK FALSE
