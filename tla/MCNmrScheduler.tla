--------------------------- MODULE MCNmrScheduler ---------------------------
(* A periodic source, two replicates and their weighted voter, on the two   *)
(* cores that are left when one of three is the scheduler's.               *)
EXTENDS Scheduler

MCTasks == {"A", "B1", "B2", "V"}
MCPosition == [A |-> 0, B1 |-> 1, B2 |-> 2, V |-> 3]
MCPriority == [A |-> 0, B1 |-> 1, B2 |-> 1, V |-> 3]
MCPeriod == [A |-> 1, B1 |-> 0, B2 |-> 0, V |-> 0]
MCAgeCap == [A |-> 2, B1 |-> 0, B2 |-> 0, V |-> 0]
MCFed == {"B1", "B2"}
MCReplicates == [V |-> <<"B1", "B2">>]
MCVoters == {"V"}
MCNone == {}
MCCores == 0 .. 2
MCStatuses == {"exit0", "exit2"}

(* Bound: data is found for a task at most MaxInputs times.                 *)
MaxInputs == 2
BoundedInputs ==
  \A t \in Fed : state'[t] = "fireable" /\ state[t] # "fireable"
                  => taskRuns[t] < MaxInputs
=============================================================================
