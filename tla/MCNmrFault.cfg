SPECIFICATION FCSpec
CONSTANTS
  Tasks <- MCTasks
  Position <- MCPosition
  Priority <- MCPriority
  Period <- MCPeriod
  Fed <- MCFed
  Replicates <- MCReplicates
  Weighted <- MCNo
  Cores <- MCCores
  SchedulerCore = 4
  BufferSize = 2
  MaxWeight = 100
  MinWeight = 80
  MaxIterations = 4
  MaxStuck = 10
  AgeCap <- MCAgeCap
  Statuses <- MCStatuses
  Source = "A"
  Sink = "C"
  PipeNames <- MCPipes
  In <- MCIn
  Out <- MCOut
  Length <- MCLength
  ReadCap = 63
  Capacity = 65536
  FaultSets <- MCOneReplicate
  Outages <- MCNoOutage
  Wrong <- MCBad
  BusyTime <- MCBusy
  MaxExec <- MCMaxExec
VIEW MCView
INVARIANTS
  VoteSameRound
  FaultContained
  VoteKeepsPace
  InputFound
  ActuatorsKeepPace
  PipesShort
