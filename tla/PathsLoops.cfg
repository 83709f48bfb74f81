SPECIFICATION FairSpec
CONSTANTS
  Modifiers = {"filter", "producer"}
  Observers = {"analyzer", "output"}
  Filters = {"filter"}
  OnDemand = {"producer"}
  TriggerPaths <- TwoPaths
  EndPath <- Outputs
  UserCategories = {"User"}
  Tables <- OneTablePerAction
  MaxOccurrences = 3
  MaxSwitches = 1
PROPERTY OccurrenceEnds
