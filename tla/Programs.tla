------------------------------- MODULE Programs -------------------------------
(****************************************************************************)
(* The programs of benchmark/src/flight_controller.cpp as the builds know   *)
(* them: the pipes a program reads, in order, the text it accepts, the      *)
(* milliseconds of its busy loop, the text it computes from good input, and *)
(* the pipes it writes this to, in order.  What a program does with these   *)
(* is in FlightController.                                                  *)
(****************************************************************************)
EXTENDS Naturals, Sequences

TaskBusyTime == 50

(* The bytes write_data writes of a text: its characters and the 0.         *)
Size(text) == IF text = "" THEN 0 ELSE Len(text) + 1

ReadSensors ==
  [reads |-> << >>, accepts |-> "", busy |-> TaskBusyTime,
   sends |-> "1 12.60 -8.05", writes |-> <<"AB1", "AB2", "AB3">>]

ProcessData1 ==
  [reads |-> <<"AB1">>, accepts |-> "1 12.60 -8.05", busy |-> TaskBusyTime,
   sends |-> "2 1.02 0.98 1.00", writes |-> <<"BV1">>]

ProcessData2 == [ProcessData1 EXCEPT !.reads = <<"AB2">>, !.writes = <<"BV2">>]

ProcessData3 == [ProcessData1 EXCEPT !.reads = <<"AB3">>, !.writes = <<"BV3">>]

(* It accepts any text and forwards one: a good one is its replicates'.     *)
MajorityVoter ==
  [reads |-> <<"BV1", "BV2", "BV3">>, accepts |-> "", busy |-> 10,
   sends |-> ProcessData1.sends, writes |-> <<"VC">>]

ControlActuators ==
  [reads |-> <<"VC">>, accepts |-> "2 1.02 0.98 1.00", busy |-> TaskBusyTime,
   sends |-> "", writes |-> << >>]

(* The build without replicates has its own versions.                       *)
BaselineReadSensors == [ReadSensors EXCEPT !.writes = <<"AB">>]

BaselineProcessData == [ProcessData1 EXCEPT !.reads = <<"AB">>, !.writes = <<"BC">>]

BaselineControlActuators == [ControlActuators EXCEPT !.reads = <<"BC">>]
===============================================================================
