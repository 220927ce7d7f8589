----------------------------- MODULE MCBaseline ------------------------------
(* The baseline build: A -> AB -> B -> BC -> C.  A unit of the clock is     *)
(* 50 ms.  B takes as long as it likes: its MaxExec is beyond its AgeCap,   *)
(* so nothing makes it end.                                                 *)
EXTENDS FlightController, Main

MCTasks == DOMAIN Baseline.period
MCPosition == [t \in MCTasks |-> AddedAt(Baseline, t)]
MCPriority == Baseline.priority
(* More than 150 ms are over at the third tick.                             *)
MCPeriod == [t \in MCTasks |-> IF Baseline.period[t] = 0 THEN 0 ELSE Baseline.period[t] \div 50 - 1]
MCAgeCap == [A |-> 3, B |-> 11, C |-> 2]
MCFed == DOMAIN Baseline.input
MCReplicates == Baseline.replicates
MCNo == {}
MCNoFault == {{}}
MCNoOutage == {<< >>}
MCCores == 0 .. 3
MCStatuses == {"exit0", "exit1", "exit2", "signal"}
MCPipes == Baseline.pipes
MCIn == [t \in MCTasks |-> Baseline.program[t].reads]
MCOut == [t \in MCTasks |-> Baseline.program[t].writes]
MCBusy == [t \in MCTasks |-> Baseline.program[t].busy \div 50]
MCMaxExec == [A |-> 1, B |-> 12, C |-> 1]
MCLength == [t \in MCTasks |-> Size(Baseline.program[t].sends)]

ASSUME BaselinePrograms == ProgramsFit(Baseline)
ASSUME BaselineWiring == OneInOneOut /\ OneReader /\ OneWriter /\ Forwards
==============================================================================
