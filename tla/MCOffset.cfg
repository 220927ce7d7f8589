SPECIFICATION Spec
CONSTANTS
  Tasks <- MCTasks
  Period <- MCPeriod
  Offset <- MCOffset
  Modulus = 1000
  Second = 4
  Epoch = 22
  MaxStuck = 4
  MaxRunTime = 8
  LogInterval = 2
  Adjustments <- MCNoAdjustment
  MaxSteps = 0
  MaxPass = 2
INVARIANTS
  OffsetRespected
