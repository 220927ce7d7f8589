-------------------------------- MODULE MCRav --------------------------------
(* The RAV-NMR build, whose voter looks at the weights of the cores, when   *)
(* cores fail in one, two or three rounds running.  The rest is as in       *)
(* MCNmr: the builds differ in nothing else.                                *)
EXTENDS MCNmr

RavWeighted == RAVNMR.weighted
RavOutages ==
  {<<MCCores>>, <<MCCores \ {0}, MCCores>>, <<MCCores, MCCores, MCCores>>}
RavMaxExec == [A |-> 1, B1 |-> 1, B2 |-> 1, B3 |-> 1, V |-> 0, C |-> 1]
RavAgeCap == [A |-> 3, B1 |-> 2, B2 |-> 2, B3 |-> 2, V |-> 2, C |-> 2]

(* find_core compares the runs of cores only with each other.               *)
LeastRuns == CHOOSE n \in {coreRuns[c] : c \in Cores} : \A c \in Cores : n <= coreRuns[c]

RavView ==
  <<pc, queue, state, child, taskRuns["A"], taskRuns["V"],
    {t \in Tasks : taskRuns[t] = 0},
    [t \in Tasks |-> IF t = "A" \/ state[t] = "running" THEN age[t] ELSE 0],
    [t \in Tasks |-> IF Busy(t) THEN cpu[t] ELSE None],
    [c \in Cores |-> coreRuns[c] - LeastRuns], scores,
    armed, monitor, pipe, prog, errors["C"], outage>>

(* Bound: between two passes each process does what it can, in the order of *)
(* the tasks, and none does anything within a pass.                         *)
Moves == {t \in Tasks : ENABLED Program(t)}
Settled ==
  IF pc = "active"
  THEN \/ Moves = {}
       \/ \E t \in Moves : prog'[t] # prog[t] /\ \A u \in Moves : Position[t] <= Position[u]
  ELSE \A t \in Tasks : prog'[t] # prog[t] => prog'[t] = Fresh /\ pc = "run"

(* Bound: a process dies after it has read its inputs, so a failure loses   *)
(* what was read.                                                           *)
LateCrash == \A t \in Tasks : child[t] = "alive" /\ child'[t] = "signal" => prog[t].text # NoData

(* Bound: in the longest outage every process on a failing core does fail.  *)
Struck ==
  Len(outage) > 2 =>
    \A t \in Tasks : child[t] = "alive" /\ child'[t] = "exit0" => ~Prone(t)
==============================================================================
