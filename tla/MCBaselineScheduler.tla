------------------------ MODULE MCBaselineScheduler -------------------------
(* The baseline pipeline A -> B -> C on three cores; as in defines.h, the   *)
(* scheduler's core is not among them.                                     *)
(* Processes may outlive MaxStuck, so the stuck path is taken.              *)
EXTENDS Scheduler

MCTasks == {"A", "B", "C"}
MCPosition == [A |-> 0, B |-> 1, C |-> 2]
MCPriority == [A |-> 0, B |-> 1, C |-> 2]
MCPeriod == [A |-> 1, B |-> 0, C |-> 0]
MCAgeCap == [A |-> 2, B |-> 2, C |-> 0]
MCFed == {"B", "C"}
MCReplicates == << >>
MCNoVoters == {}
MCCores == 0 .. 2
MCStatuses == {"exit0", "signal"}

(* Bound: data is found for a task at most MaxInputs times.                 *)
MaxInputs == 2
BoundedInputs ==
  \A t \in Fed : state'[t] = "fireable" /\ state[t] # "fireable"
                  => taskRuns[t] < MaxInputs
=============================================================================
