SPECIFICATION Spec
CONSTANTS
  Kinds = {"selector", "by old", "by both", "takes all", "cloning", "filling", "stats", "database"}
INVARIANTS
  DecisionIsAnySpec
  ChosenByOwnResults
  RowsAligned
  FilesDescribed
  DatabaseSurvives
CHECK_DEADLOCK FALSE
