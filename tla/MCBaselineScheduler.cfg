SPECIFICATION Spec
ACTION_CONSTRAINT BoundedInputs
CONSTANTS
  Tasks <- MCTasks
  Position <- MCPosition
  Priority <- MCPriority
  Period <- MCPeriod
  Fed <- MCFed
  Replicates <- MCReplicates
  Weighted <- MCNoVoters
  Cores <- MCCores
  SchedulerCore = 3
  BufferSize = 2
  MaxWeight = 100
  MinWeight = 80
  MaxIterations = 2
  MaxStuck = 1
  AgeCap <- MCAgeCap
  Statuses <- MCStatuses
INVARIANTS
  CoreOwnership
  EveryLaunchAccounted
  WeightIsWindow
  RunningHasChild
  CoreRunsAgree
