SPECIFICATION FairSpec
CONSTANTS
  Tasks <- MCTasks
  Position <- MCPosition
  Priority <- MCPriority
  Period <- MCPeriod
  Fed <- MCFed
  Replicates <- MCReplicates
  Weighted <- MCNo
  Cores <- MCCores
  SchedulerCore = 4
  BufferSize = 1
  MaxWeight = 100
  MinWeight = 80
  MaxIterations = 7
  MaxStuck = 10
  AgeCap <- MCAgeCap
  Statuses <- MCStatuses
  Source = "A"
  Sink = "C"
  PipeNames <- MCPipes
  In <- MCIn
  Out <- MCOut
  Length <- MCLength
  ReadCap = 63
  Capacity = 65536
  FaultSets <- MCNoFault
  Outages <- MCNoOutage
  Wrong <- MCNo
  BusyTime <- MCBusy
  MaxExec <- MCMaxExec
INVARIANTS
  NoSampleRepeated
  InputFound
  RefusalsPaid
PROPERTIES
  Termination
