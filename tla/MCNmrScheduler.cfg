SPECIFICATION Spec
ACTION_CONSTRAINT BoundedInputs
CONSTANTS
  Tasks <- MCTasks
  Position <- MCPosition
  Priority <- MCPriority
  Period <- MCPeriod
  Fed <- MCFed
  Replicates <- MCReplicates
  Weighted <- MCVoters
  Cores <- MCCores
  SchedulerCore = 0
  BufferSize = 2
  MaxWeight = 100
  MinWeight = 80
  MaxIterations = 2
  MaxStuck = 10
  AgeCap <- MCAgeCap
  Statuses <- MCStatuses
INVARIANTS
  TypeOK
  CoreOwnership
  FireableOnlyWithinPass
  EveryLaunchAccounted
  WeightIsWindow
  VoterCoreReliable
  VoterNeverAhead
  VoteBudget
  RunningHasChild
PROPERTIES
  PoolRefinement
