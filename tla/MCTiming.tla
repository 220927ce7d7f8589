------------------------------- MODULE MCTiming -------------------------------
(* A periodic task on a scaled clock: a second has 4 of its units.          *)
EXTENDS Timing

MCTasks == {"A"}
MCPeriod == [A |-> 3]
MCNoOffset == [A |-> 0]
MCOffset == [A |-> 15]
MCAdjustments == {-9, 5}
MCNoAdjustment == {}
==============================================================================
