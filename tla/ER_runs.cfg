SPECIFICATION FairSpec
CONSTANTS
  NTasks = 2
  NConditions = 2
  MaxWorkers = 2
  MaxTotal = 2
  Estimate = 1
  MaxCost = 1
  WarmUps = {TRUE, FALSE}
  MaxLaunches = 3
  Faults <- AllFaults
CHECK_DEADLOCK FALSE
INVARIANTS OneAnswerPerPair OverspendBounded  FinishedKeepsAnswers
PROPERTIES NoRerun ImplementsLedger EndsUnlessStuck
