SPECIFICATION FairSpec
CONSTANTS
  Runs = {1, 2}
  SubRunNums = {1, 2}
  FlushRuns = {2}
  FlushSubRunNums = {2}
  EndOfLoopAnswers = {TRUE, FALSE}
  Configurations <- LoopConfigurations
  MaxDeferred = 2
PROPERTIES
  ProcessEventReturns
  ExceptionTerminates
