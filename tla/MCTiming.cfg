SPECIFICATION Spec
CONSTANTS
  Tasks <- MCTasks
  Period <- MCPeriod
  Offset <- MCNoOffset
  Modulus = 1000
  Second = 4
  Epoch = 22
  MaxStuck = 4
  MaxRunTime = 8
  LogInterval = 2
  Adjustments <- MCAdjustments
  MaxSteps = 2
  MaxPass = 2
INVARIANTS
  SettingCostsOnce
  NoTaskHeld
  LogKeepsUp
  RunsItsTime
