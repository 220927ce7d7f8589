----------------------------- MODULE MCFullPipe ------------------------------
(* The baseline build with pipes that fill: they hold two texts of A or one *)
(* of B.  A and B take as long as they like, from no time at all (MaxExec   *)
(* is beyond AgeCap, so nothing makes them end), but are not given up       *)
(* (AgeCap is MaxStuck at most).                                            *)
EXTENDS MCBaseline

FullAgeCap == [A |-> 3, B |-> 2, C |-> 2]
FullBusy == [A |-> 0, B |-> 0, C |-> 0]
FullMaxExec == [A |-> 4, B |-> 3, C |-> 1]
==============================================================================
