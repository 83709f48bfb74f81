SPECIFICATION Spec
CONSTANTS
  Modifiers = {"filter", "producer", "unscheduled"}
  Observers = {"analyzer", "output"}
  Filters = {"filter"}
  OnDemand = {"producer", "unscheduled"}
  TriggerPaths <- TwoPaths
  EndPath <- Outputs
  UserCategories = {"User"}
  Tables <- SafetyTables
  MaxOccurrences = 2
  MaxSwitches = 0
INVARIANTS
  TypeOK
  RunsOnce
  StatesAreFresh
  RethrowIsNotLost
  OutcomesHaveCause
  ResultsAreFinal
