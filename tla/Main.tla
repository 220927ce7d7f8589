--------------------------------- MODULE Main ---------------------------------
(****************************************************************************)
(* The builds of lib/src/main.cpp: what it declares and adds, in the order  *)
(* of add_task, and the program each runs.  Periods are in milliseconds.    *)
(****************************************************************************)
EXTENDS Programs

NMR ==
  [tasks      |-> <<"A", "B1", "B2", "B3", "V", "C">>,
   priority   |-> [A |-> 0, B1 |-> 1, B2 |-> 1, B3 |-> 1, V |-> 3, C |-> 2],
   period     |-> [A |-> 150, B1 |-> 0, B2 |-> 0, B3 |-> 0, V |-> 0, C |-> 0],
   pipes      |-> {"AB1", "AB2", "AB3", "BV1", "BV2", "BV3", "VC"},
   input      |-> [B1 |-> <<"AB1">>, B2 |-> <<"AB2">>, B3 |-> <<"AB3">>, C |-> <<"VC">>],
   program    |-> [A |-> ReadSensors, B1 |-> ProcessData1, B2 |-> ProcessData2,
                   B3 |-> ProcessData3, V |-> MajorityVoter, C |-> ControlActuators],
   replicates |-> [V |-> <<"B1", "B2", "B3">>],
   weighted   |-> {}]

(* The same, with a voter that looks at the weights of the cores.           *)
RAVNMR == [NMR EXCEPT !.weighted = {"V"}]

Baseline ==
  [tasks      |-> <<"A", "B", "C">>,
   priority   |-> [A |-> 0, B |-> 1, C |-> 2],
   period     |-> [A |-> 150, B |-> 0, C |-> 0],
   pipes      |-> {"AB", "BC"},
   input      |-> [B |-> <<"AB">>, C |-> <<"BC">>],
   program    |-> [A |-> BaselineReadSensors, B |-> BaselineProcessData,
                   C |-> BaselineControlActuators],
   replicates |-> << >>,
   weighted   |-> {}]

(* The scheduler watches the pipes a task's program reads; and what a       *)
(* program accepts is what every program sends that writes to its pipe, so  *)
(* one value, "good", stands for the text of each pipe.                     *)
ProgramsFit(build) ==
  /\ \A t \in DOMAIN build.input : build.input[t] = build.program[t].reads
  /\ \A r, w \in {build.program[t] : t \in DOMAIN build.program} :
       \A i \in DOMAIN r.reads : \A k \in DOMAIN w.writes :
         r.reads[i] = w.writes[k] /\ r.accepts # "" => w.sends = r.accepts

(* add_task: a task's index in m_tasks.                                     *)
AddedAt(build, t) == (CHOOSE i \in DOMAIN build.tasks : build.tasks[i] = t) - 1
==============================================================================
