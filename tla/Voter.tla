-------------------------------- MODULE Voter --------------------------------
(****************************************************************************)
(* The arming logic of a voter (lib/src/voter.cpp), as operators.           *)
(*                                                                          *)
(* A voter watches its replicates through the scheduler's task states.  It  *)
(* first waits until it has seen every replicate running (it is then        *)
(* "armed"), and then until none of the replicates it still monitors runs.  *)
(* The code keeps a bool per replicate (m_replicateMonitor[i].armed) and    *)
(* one for the voter (m_armed).  Here:                                      *)
(*   n        the number of replicates, whose indices are 1..n              *)
(*   armed    m_armed                                                       *)
(*   mon      the indices i with m_replicateMonitor[i].armed                *)
(*   running  the indices whose replicate's task state is running           *)
(*   alive    those whose state is neither running nor crashed ("survivor") *)
(****************************************************************************)
EXTENDS Naturals

(* Bug: the loop over the replicates starts at the second.                  *)
BugBlockers(mon, running) == (mon \cap running) \ {1}

(* Replicates the armed voter still waits for: monitored and running.       *)
Blockers(mon, running) == mon \cap running

(* Bug: the voter fires for the first survivor, whatever still runs.        *)
BugFires(armed, mon, running, alive) == armed /\ alive # {}

(* One call of get_voter_fireable answers TRUE, and the scheduler may       *)
(* launch the voter.                                                        *)
Fires(armed, mon, running, alive) ==
  /\ armed
  /\ Blockers(mon, running) = {}
  /\ alive # {}

(* The loop of an armed voter visits the replicates in order and returns at *)
(* the first blocker, so only those before it have their flag cleared.      *)
Visited(i, mon, running) == \A b \in Blockers(mon, running) : i < b

(* Bug: the flags of finished replicates are not cleared.                   *)
BugMonitorAfter(armed, mon, running) == mon \cup running

(* m_replicateMonitor after one call.                                       *)
MonitorAfter(armed, mon, running) ==
  IF armed
  THEN {i \in mon : i \in running \/ ~Visited(i, mon, running)}
  ELSE mon \cup running

(* Bug: the voter stays armed when it fires.                                *)
BugArmedAfter(n, armed, mon, running, alive) ==
  armed \/ 1 .. n \subseteq mon \cup running

(* Bug: one replicate seen running arms the voter.                          *)
BugArmAny(n, armed, mon, running, alive) ==
  \/ armed /\ ~Fires(armed, mon, running, alive)
  \/ ~armed /\ mon \cup running # {}

(* m_armed after one call.  An armed voter whose replicates have all        *)
(* crashed does not fire and stays armed, with nothing left to monitor.     *)
ArmedAfter(n, armed, mon, running, alive) ==
  \/ armed /\ ~Fires(armed, mon, running, alive)
  \/ ~armed /\ 1 .. n \subseteq mon \cup running
==============================================================================
