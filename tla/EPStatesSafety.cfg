SPECIFICATION Spec
CONSTANTS
  Runs = {1, 2}
  SubRunNums = {1, 2}
  FlushRuns = {}
  FlushSubRunNums = {}
  EndOfLoopAnswers = {TRUE}
  Configurations <- SafetyConfigurations
  MaxDeferred = 2
INVARIANTS
  TypeOK
  NothingLostAtClose
  ReadInOrder
  WrittenInOrder
PROPERTY ImplementsProtocol
