SPECIFICATION FCSpec
CONSTANTS
  Tasks <- MCTasks
  Position <- MCPosition
  Priority <- MCPriority
  Period <- MCPeriod
  Fed <- MCFed
  Replicates <- MCReplicates
  Weighted <- RavWeighted
  Cores <- MCCores
  SchedulerCore = 4
  BufferSize = 4
  MaxWeight = 100
  MinWeight = 80
  MaxIterations = 11
  MaxStuck = 10
  AgeCap <- RavAgeCap
  Statuses <- MCStatuses
  Source = "A"
  Sink = "C"
  PipeNames <- MCPipes
  In <- MCIn
  Out <- MCOut
  Length <- MCLength
  ReadCap = 63
  Capacity = 65536
  FaultSets <- MCNoFault
  Outages <- RavOutages
  Wrong <- MCNo
  BusyTime <- MCBusy
  MaxExec <- RavMaxExec
ACTION_CONSTRAINTS Settled LateCrash Struck
VIEW RavView
INVARIANTS
  VotesResume
  CutsBounded
