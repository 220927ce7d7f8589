-------------------------------- MODULE MCNmr --------------------------------
(* The NMR build: A feeds three replicates B, a voter V compares them and   *)
(* feeds C.  A unit of the clock is 50 ms.                                  *)
EXTENDS FlightController, Main

MCTasks == DOMAIN NMR.period
MCPosition == [t \in MCTasks |-> AddedAt(NMR, t)]
(* NMR.priority, with ties broken as the priority queue (g++) pops the      *)
(* tasks main pushes.                                                       *)
MCPriority == [A |-> 0, B1 |-> 1, B3 |-> 2, B2 |-> 3, C |-> 4, V |-> 5]
(* More than 150 ms are over at the third tick.                             *)
MCPeriod == [t \in MCTasks |-> IF NMR.period[t] = 0 THEN 0 ELSE NMR.period[t] \div 50 - 1]
MCAgeCap == [A |-> 3, B1 |-> 3, B2 |-> 3, B3 |-> 3, V |-> 2, C |-> 3]
MCFed == DOMAIN NMR.input
MCReplicates == NMR.replicates
MCNo == {}
MCNoFault == {{}}
MCOneReplicate == {{"B1"}, {"B2"}, {"B3"}}
MCSource == {{"A"}}
MCNoOutage == {<< >>}
MCBad == {"bad"}
MCCores == 0 .. 3
MCStatuses == {"exit0", "exit1", "exit2", "signal"}
MCPipes == NMR.pipes
MCIn == [t \in MCTasks |-> NMR.program[t].reads]
MCOut == [t \in MCTasks |-> NMR.program[t].writes]
MCBusy == [t \in MCTasks |-> NMR.program[t].busy \div 50]
MCMaxExec == [A |-> 1, B1 |-> 2, B2 |-> 1, B3 |-> 2, V |-> 0, C |-> 2]
MCLength == [t \in MCTasks |-> Size(NMR.program[t].sends)]

ASSUME NmrPrograms == ProgramsFit(NMR)
ASSUME NmrPriorities == VotersFirst
ASSUME NmrWiring == OneReader /\ Forwards

(* What the theorems of NmrProofs assume of the build (with its standard    *)
(* voter), of its times, and of what fails in the runs nmr and nmr_fault.   *)
ASSUME NmrStructure == Weighted = {} => NmrLine
ASSUME NmrClock == NmrTimes /\ SinkInTime
ASSUME NmrFailures == FaultSets \in {MCNoFault, MCOneReplicate} /\ Outages = MCNoOutage => NmrFaults

(* Which core a task has, the counters of the reports and the weights do    *)
(* not matter to a standard voter: find_core(false) fails exactly when all  *)
(* cores are taken.  The states that differ in nothing else are merged.     *)
MCView ==
  <<pc, queue, state, child, taskRuns["A"],
    [t \in {"B1", "B2", "B3", "V"} \ faulty |-> taskRuns[t]],
    {t \in Tasks : taskRuns[t] = 0},
    [t \in Tasks |-> IF t = "A" \/ state[t] = "running" THEN age[t] ELSE 0],
    armed, monitor, Cardinality(Candidates),
    pipe, prog, actuated, faulty>>
==============================================================================
