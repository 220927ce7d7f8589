------------------------------- MODULE CorePool -------------------------------
(****************************************************************************)
(* What the scheduler promises about cores, without weights, scores and     *)
(* active flags: a pool from which each task takes at most one core at a    *)
(* time, and a record, per core, of which of the last completions on it     *)
(* failed.  A critical task takes a core with the fewest failures among the *)
(* free ones, and only one whose number of failures is tolerable.           *)
(*                                                                          *)
(* Scheduler implements it (PoolRefinement there): m_weight, m_scoreBuffer, *)
(* m_active, m_cpu_id and find_core in lib/src/scheduler.cpp and core.cpp.  *)
(****************************************************************************)
EXTENDS Integers, Sequences, FiniteSets

CONSTANTS
  Users,      \* the tasks
  Critical,   \* those that need a reliable core
  Pool,       \* the cores that are handed out
  Nowhere,    \* no core
  Window,     \* completions a core is judged by
  Tolerable   \* the numbers of failures a critical task accepts

VARIABLES
  place,   \* the core each user holds
  record   \* per core, oldest first: whether the completion failed

poolVars == <<place, record>>

Free(c) == \A u \in Users : place[u] # c
Failures(c) == Cardinality({i \in 1 .. Window : record[c][i]})

PoolInit ==
  /\ place = [u \in Users |-> Nowhere]
  /\ record = [c \in Pool |-> [i \in 1 .. Window |-> FALSE]]

Take(u, c) ==
  /\ place[u] = Nowhere
  /\ Free(c)
  /\ u \in Critical =>
       /\ Failures(c) \in Tolerable
       /\ \A d \in Pool : Free(d) => Failures(c) <= Failures(d)
  /\ place' = [place EXCEPT ![u] = c]
  /\ UNCHANGED record

(* The oldest completion leaves the record when a new one enters.           *)
Return(u, c, failed) ==
  /\ place[u] = c
  /\ place' = [place EXCEPT ![u] = Nowhere]
  /\ record' = [record EXCEPT ![c] = [i \in 1 .. Window |->
       IF i = Window THEN failed ELSE record[c][i + 1]]]

PoolNext ==
  \E u \in Users, c \in Pool :
    \/ Take(u, c)
    \/ \E failed \in BOOLEAN : Return(u, c, failed)

PoolSpec == PoolInit /\ [][PoolNext]_poolVars
==============================================================================
