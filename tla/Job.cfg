SPECIFICATION JobSpec
CONSTANTS
  NFiles = 3
  AttemptsPerPhase = 3
  Attempts = 2
  MaxRewinds = 2
  AskInDestructors = FALSE
  Kinds = {"Proxy", "Catalog", "Failing", "Restoring", "Registering", "Serving", "Configuring", "Watched"}
INVARIANTS
  OneOutcome
  ServedInOrder
  BeginsAreEnded
  ProductIDsKeepTheirMeaning
  FilesAreKnown
  ServicesServe
  PathsAreConfigured
  WatchersKeepUp
PROPERTIES
  RequestsEnd
  StatesReproduced
  SignalEndsJob
CHECK_DEADLOCK FALSE
