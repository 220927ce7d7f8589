------------------------------ MODULE VotingRound ------------------------------
(****************************************************************************)
(* What a voter promises to the replicates it watches, without flags, polls *)
(* and passes: in a round every member runs once, and the vote of the round *)
(* is called when all have run and none is running.                         *)
(*                                                                          *)
(* voter::get_voter_fireable (lib/src/voter.cpp) implements it as long as   *)
(* no member runs twice before the vote (RoundRefinement in Scheduler).     *)
(****************************************************************************)
CONSTANTS
  Voters,
  Members   \* the replicates of each voter

VARIABLES
  ran,      \* per voter: members that were launched since its last vote
  running   \* per voter: members that are running

roundVars == <<ran, running>>

RoundInit ==
  /\ ran = [v \in Voters |-> {}]
  /\ running = [v \in Voters |-> {}]

Begin(v, m) ==
  /\ m \notin ran[v]
  /\ ran'[v] = ran[v] \cup {m}
  /\ running'[v] = running[v] \cup {m}

End(v, m) ==
  /\ m \in running[v]
  /\ ran'[v] = ran[v]
  /\ running'[v] = running[v] \ {m}

CallVote(v) ==
  /\ ran[v] = Members[v]
  /\ running[v] = {}
  /\ ran'[v] = {}
  /\ running'[v] = {}

Stay(v) == ran'[v] = ran[v] /\ running'[v] = running[v]

(* Voters that share a replicate see it begin and end in the same step.     *)
RoundNext ==
  \A v \in Voters :
    Stay(v) \/ CallVote(v) \/ \E m \in Members[v] : Begin(v, m) \/ End(v, m)

RoundSpec == RoundInit /\ [][RoundNext]_roundVars
==============================================================================
