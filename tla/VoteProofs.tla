------------------------------ MODULE VoteProofs ------------------------------
(****************************************************************************)
(* A voter never votes twice on one round of its replicates.                *)
(*                                                                          *)
(* VoteBudget is the inductive form: each launch of a replicate pays for    *)
(* one of: a launch of the voter (done, or decided: fireable), the voter's  *)
(* being armed or having seen the replicate, the replicate's own run while  *)
(* the voter has not seen it.                                               *)
(****************************************************************************)
EXTENDS SchedulerProofs

(* What is owed once the voters were evaluated, in the states they saw.     *)
OwedAfter(v, i) ==
  One(armed'[v] \/ i \in monitor'[v])
  + One(state[Replicates[v][i]] = "running" /\ i \notin monitor'[v])

(* One evaluation of the voter: firing frees one unit, and otherwise what   *)
(* is owed does not grow.                                                   *)
LEMMA EvaluationOwes ==
  ASSUME TypeOK, NEW V, EvaluateVoters(V), NEW v \in VoterTasks, NEW i \in Indices(v)
  PROVE  /\ OwedAfter(v, i) \in Nat
         /\ OwedAfter(v, i) <= Owed(v, i)
         /\ v \in V /\ VoterFires(v) => OwedAfter(v, i) + 1 <= Owed(v, i)
<1> DEFINE r == Replicates[v][i]
<1>1. armed[v] \in BOOLEAN /\ monitor[v] \subseteq Indices(v)
  BY DEF TypeOK
<1>2. i \in RunningIndices(v) <=> state[r] = "running"
  BY DEF RunningIndices
<1>3. CASE v \notin V
  <2>1. armed'[v] = armed[v] /\ monitor'[v] = monitor[v]
    BY <1>3 DEF EvaluateVoters
  <2> QED
    BY <1>3, <2>1 DEF Owed, OwedAfter, One
<1>4. CASE v \in V /\ VoterFires(v)
  <2>1. armed[v] /\ monitor[v] \cap RunningIndices(v) = {}
    BY <1>4 DEF VoterFires, Fires, Blockers
  <2>2. ~armed'[v]
    BY <1>4, <2>1 DEF EvaluateVoters, ArmedAfter, VoterFires
  <2>3. monitor'[v] = {}
    BY <1>4, <2>1 DEF EvaluateVoters, MonitorAfter, Visited, Blockers
  <2>4. OwedAfter(v, i) = One(state[r] = "running")
    BY <2>2, <2>3 DEF Owed, OwedAfter, One
  <2>5. Owed(v, i) = 1 + One(state[r] = "running")
    BY <1>2, <2>1 DEF Owed, OwedAfter, One
  <2> QED
    BY <2>4, <2>5 DEF One
<1>5. CASE v \in V /\ armed[v] /\ ~VoterFires(v)
  <2>1. monitor'[v] \subseteq monitor[v]
    BY <1>5 DEF EvaluateVoters, MonitorAfter
  <2>2. state[r] = "running" => (i \in monitor'[v] <=> i \in monitor[v])
    BY <1>2, <1>5 DEF EvaluateVoters, MonitorAfter
  <2> QED
    BY <1>1, <1>5, <2>1, <2>2 DEF Owed, OwedAfter, One
<1>6. CASE v \in V /\ ~armed[v]
  <2>1. monitor'[v] = monitor[v] \cup RunningIndices(v)
    BY <1>6 DEF EvaluateVoters, MonitorAfter
  <2>2. armed'[v] => Indices(v) \subseteq monitor'[v]
    BY <1>6, <2>1 DEF EvaluateVoters, ArmedAfter, Indices
  <2>3. ~VoterFires(v)
    BY <1>6 DEF VoterFires, Fires
  <2> QED
    BY <1>1, <1>2, <1>6, <2>1, <2>2, <2>3 DEF Owed, OwedAfter, One
<1> QED
  BY <1>1, <1>3, <1>4, <1>5, <1>6

(* The budget of one replicate of one voter, and when a step keeps it.      *)
Budget(v, i) ==
  taskRuns[Replicates[v][i]]
    >= taskRuns[v] + Decided(v) + Owed(v, i)

(* A voter and its replicates are tasks, and different ones.                *)
LEMMA ReplicateTasks ==
  ASSUME NEW v \in VoterTasks, NEW i \in Indices(v)
  PROVE  v \in Tasks /\ Replicates[v][i] \in Tasks /\ Replicates[v][i] # v
  BY VoterAssumption DEF Indices

(* The numbers in a budget.                                                 *)
LEMMA BudgetType ==
  ASSUME TypeOK, NEW v \in VoterTasks, NEW i \in Indices(v)
  PROVE  /\ taskRuns[v] \in Nat /\ taskRuns[Replicates[v][i]] \in Nat
         /\ Owed(v, i) \in Nat
  BY ReplicateTasks DEF TypeOK, Owed, One

(* Steps that touch neither states, launches nor the voters.                *)
LEMMA BudgetFrame ==
  ASSUME TypeOK, VoteBudget, UNCHANGED <<state, taskRuns, armed, monitor>>,
         pc = "exited" => pc' = "exited"
  PROVE  VoteBudget'
<1> SUFFICES ASSUME NEW v \in VoterTasks, NEW i \in Indices(v)
             PROVE  Budget(v, i)'
  BY DEF VoteBudget, Budget
<1>1. Owed(v, i)' = Owed(v, i)
  BY DEF Owed
<1>2. Decided(v)' <= Decided(v) /\ Decided(v)' \in Nat /\ Decided(v) \in Nat
  BY DEF Decided, One
<1> QED
  BY <1>1, <1>2, BudgetType DEF VoteBudget, Budget

(* A completion stops a run, and neither evaluates a voter nor launches.    *)
LEMMA CompletionBudget ==
  ASSUME TypeOK, VoteBudget, NEW t \in Tasks, Turn(t), state[t] = "running", NEW status,
         HandleTaskCompletion(t, status), UNCHANGED <<taskRuns, armed, monitor>>
  PROVE  VoteBudget'
<1> SUFFICES ASSUME NEW v \in VoterTasks, NEW i \in Indices(v)
             PROVE  Budget(v, i)'
  BY DEF VoteBudget, Budget
<1>1. state' \in [Tasks -> {"idle", "fireable", "running", "crashed"}]
      /\ \A u \in Tasks : /\ state'[u] = "fireable" => state[u] = "fireable"
                          /\ state'[u] = "running" => state[u] = "running"
  BY DEF HandleTaskCompletion, TypeOK
<1>2. Owed(v, i)' <= Owed(v, i)
  BY <1>1, ReplicateTasks DEF Owed, One
<1>3. Decided(v)' <= Decided(v) /\ Decided(v) \in Nat /\ Decided(v)' \in Nat
  BY <1>1, ReplicateTasks DEF Turn, Decided, One
<1>4. Owed(v, i)' \in Nat
  BY DEF Owed, One
<1> QED
  BY <1>2, <1>3, <1>4, BudgetType DEF VoteBudget, Budget

(* A dispatch of the voter spends the unit its firing freed.                *)
LEMMA DispatchBudget ==
  ASSUME TypeOK, OwnershipInv, VoteBudget, NEW t \in Tasks, NEW ready,
         MonitorDispatch(t, ready)
  PROVE  VoteBudget'
<1> SUFFICES ASSUME NEW v \in VoterTasks, NEW i \in Indices(v)
             PROVE  Budget(v, i)'
  BY DEF VoteBudget, Budget
<1>1. /\ OwedAfter(v, i) \in Nat
      /\ OwedAfter(v, i) <= Owed(v, i)
      /\ v = t /\ VoterFires(v) => OwedAfter(v, i) + 1 <= Owed(v, i)
  BY EvaluationOwes DEF MonitorDispatch
<1>2. /\ t \notin Fireable /\ state[t] # "running"
      /\ taskRuns' = taskRuns
  BY DEF MonitorDispatch, Turn, Highest, OwnershipInv, FireableOnlyWithinPass
<1>3. /\ state'[t] \in {state[t], "idle", "fireable"}
      /\ state'[t] = "fireable" => InputFull(t, ready)
      /\ \A u \in Tasks \ {t} : state'[u] = state[u]
  BY <1>2 DEF MonitorDispatch, TypeOK, Fireable
<1>4. Owed(v, i)' = OwedAfter(v, i)
  BY <1>2, <1>3, ReplicateTasks DEF Owed, OwedAfter
<1>0. pc = "monitor" /\ pc' # "exited"
  BY DEF MonitorDispatch, Turn
<1>5. Decided(v)' + Owed(v, i)' <= Decided(v) + Owed(v, i)
  <2>1. CASE v # t
    BY <2>1, <1>0, <1>1, <1>3, <1>4, BudgetType, ReplicateTasks DEF Decided, One
  <2>2. CASE v = t /\ state'[t] = "fireable"
    <3>1. VoterFires(v)
      BY <2>2, <1>3 DEF InputFull
    <3> QED
      BY <2>2, <3>1, <1>0, <1>1, <1>2, <1>4, BudgetType, ReplicateTasks DEF Decided, One, Fireable
  <2>3. CASE v = t /\ state'[t] # "fireable"
    BY <2>3, <1>0, <1>1, <1>4, BudgetType DEF Decided, One
  <2> QED
    BY <2>1, <2>2, <2>3
<1>6. /\ Decided(v) \in Nat /\ Decided(v)' \in Nat
      /\ Owed(v, i)' \in Nat
  BY <1>1, <1>4 DEF Decided, One
<1> QED
  BY <1>2, <1>5, <1>6, BudgetType DEF VoteBudget, Budget

(* A launch of the voter turns its decision into a launch; a launch of the  *)
(* replicate brings the unit its unseen run needs.                          *)
LEMMA LaunchBudget ==
  ASSUME TypeOK, VoteBudget, NEW t \in Tasks, RunTask(t)
  PROVE  VoteBudget'
<1> SUFFICES ASSUME NEW v \in VoterTasks, NEW i \in Indices(v)
             PROVE  Budget(v, i)'
  BY DEF VoteBudget, Budget
<1> DEFINE r == Replicates[v][i]
<1>1. /\ state[t] = "fireable"
      /\ state' = [state EXCEPT ![t] = "running"]
      /\ taskRuns' = [taskRuns EXCEPT ![t] = @ + 1]
      /\ UNCHANGED <<armed, monitor>>
      /\ pc = "run" /\ pc' = pc
  BY DEF RunTask, Highest, Fireable, voterVars, loopVars
<1>2. /\ state \in [Tasks -> {"idle", "fireable", "running", "crashed"}]
      /\ taskRuns \in [Tasks -> Nat]
  BY DEF TypeOK
<1>3. Budget(v, i)
  BY DEF VoteBudget, Budget
<1>4. CASE t = v
  <2>1. /\ Owed(v, i)' = Owed(v, i)
        /\ taskRuns'[r] = taskRuns[r]
        /\ taskRuns'[v] = taskRuns[v] + 1
        /\ Decided(v) = 1
        /\ Decided(v)' = 0
    BY <1>1, <1>2, <1>4, ReplicateTasks DEF Owed, Decided, One
  <2> QED
    BY <1>3, <2>1, BudgetType DEF Budget
<1>5. CASE t = r
  <2>1. /\ Owed(v, i)' <= Owed(v, i) + 1 /\ Owed(v, i)' \in Nat
        /\ taskRuns'[r] = taskRuns[r] + 1
        /\ taskRuns'[v] = taskRuns[v]
        /\ Decided(v)' = Decided(v)
        /\ Decided(v) \in Nat
    BY <1>1, <1>2, <1>5, ReplicateTasks DEF Owed, Decided, One
  <2> QED
    BY <1>3, <2>1, BudgetType DEF Budget
<1>6. CASE t # v /\ t # r
  <2>1. /\ Owed(v, i)' = Owed(v, i)
        /\ taskRuns'[r] = taskRuns[r]
        /\ taskRuns'[v] = taskRuns[v]
        /\ Decided(v)' = Decided(v)
    BY <1>1, <1>2, <1>6, ReplicateTasks DEF Owed, Decided, One
  <2> QED
    BY <1>3, <2>1 DEF Budget
<1> QED
  BY <1>4, <1>5, <1>6

(* A fork that fails is counted: the unit of a voter's decision, or one more*)
(* launch of a replicate.                                                   *)
LEMMA ForkBudget ==
  ASSUME TypeOK, VoteBudget, NEW t \in Tasks, ForkFails(t)
  PROVE  VoteBudget'
<1> SUFFICES ASSUME NEW v \in VoterTasks, NEW i \in Indices(v)
             PROVE  Budget(v, i)'
  BY DEF VoteBudget, Budget
<1> DEFINE r == Replicates[v][i]
<1>1. /\ state[t] = "fireable" /\ pc = "run" /\ pc' = "exited"
      /\ taskRuns' = [taskRuns EXCEPT ![t] = @ + 1]
      /\ UNCHANGED <<state, armed, monitor>>
  BY DEF ForkFails, Highest, Fireable, voterVars
<1>2. taskRuns \in [Tasks -> Nat]
  BY DEF TypeOK
<1>3. Budget(v, i)
  BY DEF VoteBudget, Budget
<1>4. Owed(v, i)' = Owed(v, i)
  BY <1>1 DEF Owed
<1>5. Decided(v)' = 0 /\ Decided(v) \in Nat
  BY <1>1 DEF Decided, One
<1>6. CASE t = v
  <2>1. Decided(v) = 1 /\ taskRuns'[r] = taskRuns[r] /\ taskRuns'[v] = taskRuns[v] + 1
    BY <1>1, <1>2, <1>6, ReplicateTasks DEF Decided, One
  <2> QED
    BY <1>3, <1>4, <1>5, <2>1, BudgetType DEF Budget
<1>7. CASE t # v
  <2>1. taskRuns'[r] >= taskRuns[r] /\ taskRuns'[v] = taskRuns[v] /\ taskRuns'[r] \in Nat
    BY <1>1, <1>2, <1>7, ReplicateTasks
  <2> QED
    BY <1>3, <1>4, <1>5, <2>1, BudgetType DEF Budget
<1> QED
  BY <1>6, <1>7

(* Evaluations that dispatch nothing: MonitorWait and the two reports.      *)
LEMMA EvaluationBudget ==
  ASSUME TypeOK, VoteBudget, NEW V, EvaluateVoters(V), UNCHANGED <<state, taskRuns>>,
         pc # "exited"
  PROVE  VoteBudget'
<1> SUFFICES ASSUME NEW v \in VoterTasks, NEW i \in Indices(v)
             PROVE  Budget(v, i)'
  BY DEF VoteBudget, Budget
<1>1. Owed(v, i)' = OwedAfter(v, i)
  BY DEF Owed, OwedAfter
<1>2. Decided(v)' <= Decided(v) /\ Decided(v) \in Nat /\ Decided(v)' \in Nat
  BY DEF Decided, One
<1> QED
  BY <1>1, <1>2, EvaluationOwes, BudgetType DEF VoteBudget, Budget

(* Theorem: the budget holds throughout, in every interleaving of launches, *)
(* completions and evaluations of the voter.                                *)
THEOREM BudgetCorrect == Spec => []VoteBudget
<1>1. Init => VoteBudget
  BY ReplicateTasks DEF Init, VoteBudget, Owed, Decided, One
<1>2. ASSUME TypeOK, OwnershipInv, VoteBudget, [Next]_vars
      PROVE  VoteBudget'
  <2> USE <1>2
  <2>1. ASSUME NEW t \in Tasks, MonitorReap(t) \/ MonitorStuck(t)
        PROVE  VoteBudget'
    BY <2>1, CompletionBudget DEF MonitorReap, MonitorStuck, voterVars
  <2>2. ASSUME NEW t \in Tasks, MonitorWait(t)
        PROVE  VoteBudget'
    BY <2>2, EvaluationBudget DEF MonitorWait, Turn, taskVars
  <2>3. ASSUME NEW t \in Tasks, NEW ready \in BOOLEAN, MonitorDispatch(t, ready)
        PROVE  VoteBudget'
    BY <2>3, DispatchBudget
  <2>4. ASSUME NEW t \in Tasks, RunTask(t)
        PROVE  VoteBudget'
    BY <2>4, LaunchBudget
  <2>5. CASE PrintResults \/ WriteResults
    BY <2>5, EvaluationBudget, BudgetFrame
    DEF PrintResults, WriteResults, ReportTasks, taskVars, voterVars
  <2>6. CASE (\E d \in {0, 1} : CheckActive(d)) \/ LogResults
    BY <2>6, BudgetFrame DEF CheckActive, LogResults, taskVars, voterVars
  <2>7. ASSUME NEW t \in Tasks,
               Cleanup(t) \/ OrphanExit(t) \/ \E s \in Statuses : ChildExit(t, s)
        PROVE  VoteBudget'
    BY <2>7, BudgetFrame DEF Cleanup, OrphanExit, ChildExit, loopVars, taskVars, voterVars
  <2>8. CASE UNCHANGED vars
    BY <2>8, BudgetFrame DEF vars, loopVars, taskVars, voterVars
  <2>9. ASSUME NEW t \in Tasks, ForkFails(t)
        PROVE  VoteBudget'
    BY <2>9, ForkBudget
  <2> QED
    BY <2>1, <2>2, <2>3, <2>4, <2>5, <2>6, <2>7, <2>8, <2>9 DEF Next, Terminated
<1> QED
  BY <1>1, <1>2, TypeCorrect, OwnershipCorrect, PTL DEF Spec

(* Theorem: no voter is launched more often than any of its replicates.     *)
THEOREM NeverAhead == Spec => []VoterNeverAhead
<1>1. TypeOK /\ VoteBudget => VoterNeverAhead
  <2> SUFFICES ASSUME TypeOK, VoteBudget, NEW v \in VoterTasks, NEW i \in Indices(v)
               PROVE  taskRuns[v] <= taskRuns[Replicates[v][i]]
    BY DEF VoterNeverAhead
  <2>1. Decided(v) \in Nat
    BY DEF Decided, One
  <2> QED
    BY <2>1, BudgetType DEF VoteBudget
<1> QED
  BY <1>1, TypeCorrect, BudgetCorrect, PTL

(****************************************************************************)
(* The voter's polls implement rounds (VotingRound).  get_voter_fireable    *)
(* sees the states of its replicates once per pass; that it misses no run   *)
(* and no end of one needs three things:                                    *)
(*   - the voter has a higher priority than its replicates, so that its     *)
(*     turn in a pass comes before theirs (VotersFirst, as in main);        *)
(*   - each replicate is added to it once;                                  *)
(*   - replicates are launched in a round of their own (RoundsApart), which *)
(*     the scheduler does not see to: periods and pipes do.                 *)
(****************************************************************************)

(* A run its voter has not seen.                                            *)
Unseen(v, i) ==
  /\ ~armed[v]
  /\ i \in RunningIndices(v)
  /\ i \notin monitor[v]

(* An armed voter monitors every replicate that runs.  One that is not has  *)
(* its turn, and will look, before any run it has not seen may end.         *)
RoundInv ==
  \A v \in VoterTasks : \A i \in Indices(v) :
    /\ armed[v] /\ i \in RunningIndices(v) => i \in monitor[v]
    /\ Unseen(v, i) => ~Busy(v) /\ (pc = "monitor" => v \in queue)

(* What VotingRound allows the round of one voter.                          *)
RoundStep(v) ==
  VR!Stay(v) \/ VR!CallVote(v) \/ \E m \in Indices(v) : VR!Begin(v, m) \/ VR!End(v, m)

LEMMA ReplicateOf ==
  ASSUME NEW v \in VoterTasks, NEW i \in Indices(v)
  PROVE  v \in Tasks /\ Replicates[v][i] \in Tasks /\ Replicates[v][i] \notin VoterTasks
BY VoterAssumption DEF Indices

(* What runs depends on which tasks do.                                     *)
LEMMA SameRunning ==
  ASSUME NEW v \in VoterTasks,
         \A u \in Tasks \ VoterTasks : state'[u] = "running" <=> state[u] = "running"
  PROVE  RunningIndices(v)' = RunningIndices(v)
BY ReplicateOf DEF RunningIndices

(* Where no voter is evaluated and no replicate begins or ends a run,       *)
(* nothing happens in the round.                                            *)
LEMMA RoundStay ==
  ASSUME NEW v \in VoterTasks, armed'[v] = armed[v], monitor'[v] = monitor[v],
         RunningIndices(v)' = RunningIndices(v)
  PROVE  VR!Stay(v) /\ \A i \in Indices(v) : Unseen(v, i)' <=> Unseen(v, i)
BY DEF VR!Stay, Unseen

(* An evaluation sees every run.  The voter's answer is the round's vote    *)
(* when it is yes, and else nothing happens in the round.                   *)
LEMMA RoundEvaluation ==
  ASSUME TypeOK, RoundInv, NEW V, EvaluateVoters(V), NEW v \in V, v \in VoterTasks,
         RunningIndices(v)' = RunningIndices(v)
  PROVE  /\ VR!Stay(v) \/ VR!CallVote(v)
         /\ armed'[v] => RunningIndices(v) \subseteq monitor'[v]
         /\ \A i \in Indices(v) : ~Unseen(v, i)'
<1> DEFINE R == RunningIndices(v)
<1>1. armed[v] \in BOOLEAN /\ monitor[v] \subseteq Indices(v) /\ R \subseteq Indices(v)
  BY DEF TypeOK, RunningIndices
<1>2. /\ armed'[v] = ArmedAfter(Len(Replicates[v]), armed[v], monitor[v], R, AliveIndices(v))
      /\ monitor'[v] = MonitorAfter(armed[v], monitor[v], R)
  BY DEF EvaluateVoters
<1>3. CASE ~armed[v]
  <2>1. monitor'[v] = monitor[v] \cup R /\ (armed'[v] <=> Indices(v) \subseteq monitor[v] \cup R)
    BY <1>2, <1>3 DEF MonitorAfter, ArmedAfter, Indices
  <2>2. VR!Stay(v)
    BY <1>1, <1>3, <2>1 DEF VR!Stay
  <2> QED
    BY <2>1, <2>2 DEF Unseen
<1>4. CASE armed[v] /\ ~Fires(armed[v], monitor[v], R, AliveIndices(v))
  <2>1. armed'[v] /\ R \cap monitor[v] \subseteq monitor'[v]
    BY <1>2, <1>4 DEF MonitorAfter, ArmedAfter
  <2>2. R \subseteq monitor[v]
    BY <1>1, <1>4 DEF RoundInv
  <2>3. VR!Stay(v)
    BY <1>4, <2>1 DEF VR!Stay
  <2> QED
    BY <2>1, <2>2, <2>3 DEF Unseen
<1>5. CASE armed[v] /\ Fires(armed[v], monitor[v], R, AliveIndices(v))
  <2>1. R = {}
    BY <1>1, <1>5 DEF Fires, Blockers, RoundInv
  <2>2. ~armed'[v] /\ monitor'[v] = {}
    BY <1>2, <1>5, <2>1 DEF MonitorAfter, ArmedAfter, Visited, Blockers
  <2>3. VR!CallVote(v)
    BY <1>5, <2>1, <2>2 DEF VR!CallVote
  <2> QED
    BY <2>1, <2>2, <2>3 DEF Unseen
<1> QED
  BY <1>1, <1>3, <1>4, <1>5

(* A turn that evaluates a voter, or none, while tasks run on as before.    *)
LEMMA RoundTurn ==
  ASSUME TypeOK, RoundInv, NEW t \in Tasks, Turn(t), EvaluateVoters({t}),
         \A u \in Tasks : state'[u] = "running" <=> state[u] = "running",
         \A u \in Tasks \ {t} : state'[u] = state[u],
         NEW v \in VoterTasks
  PROVE  /\ VR!Stay(v) \/ VR!CallVote(v)
         /\ \A i \in Indices(v) :
              /\ armed'[v] /\ i \in RunningIndices(v)' => i \in monitor'[v]
              /\ Unseen(v, i)' => ~Busy(v)' /\ (pc' = "monitor" => v \in queue')
<1>1. RunningIndices(v)' = RunningIndices(v)
  BY SameRunning
<1>2. CASE v = t
  BY <1>1, <1>2, RoundEvaluation
<1>3. CASE v # t
  <2>1. armed'[v] = armed[v] /\ monitor'[v] = monitor[v]
    BY <1>3 DEF EvaluateVoters, TypeOK
  <2>2. /\ VR!Stay(v)
        /\ \A i \in Indices(v) : Unseen(v, i)' <=> Unseen(v, i)
    BY <1>1, <2>1, RoundStay
  <2>3. Busy(v)' = Busy(v)
    BY <1>3, VoterAssumption DEF Busy
  <2>4. pc' = "monitor" /\ v \in queue => v \in queue'
    BY <1>3 DEF Turn
  <2>5. pc = "monitor"
    BY DEF Turn
  <2> QED
    BY <1>1, <2>1, <2>2, <2>3, <2>4, <2>5 DEF RoundInv
<1> QED
  BY <1>2, <1>3

(* The end of a run: its voter, whose turn came before, has seen it.        *)
LEMMA RoundEnd ==
  ASSUME TypeOK, RoundInv, VotersFirst, NEW t \in Tasks, Turn(t), state[t] = "running",
         state' \in [Tasks -> {"idle", "fireable", "running", "crashed"}],
         state'[t] # "running", \A u \in Tasks \ {t} : state'[u] = state[u],
         UNCHANGED voterVars, NEW v \in VoterTasks
  PROVE  /\ RoundStep(v)
         /\ \A i \in Indices(v) :
              /\ armed'[v] /\ i \in RunningIndices(v)' => i \in monitor'[v]
              /\ Unseen(v, i)' => ~Busy(v)' /\ (pc' = "monitor" => v \in queue')
<1>1. armed' = armed /\ monitor' = monitor
  BY DEF voterVars
<1>2. pc = "monitor" /\ t \in Highest(queue) /\ queue' = queue \ {t}
  BY DEF Turn
<1>3. \A i \in Indices(v) : i \in RunningIndices(v)' =>
        i \in RunningIndices(v) /\ Replicates[v][i] # t
  BY ReplicateOf DEF RunningIndices
<1>4. ASSUME NEW i \in Indices(v)
      PROVE  /\ armed'[v] /\ i \in RunningIndices(v)' => i \in monitor'[v]
             /\ Unseen(v, i)' => ~Busy(v)' /\ (pc' = "monitor" => v \in queue')
  <2>1. Unseen(v, i)' => Unseen(v, i)
    BY <1>1, <1>3 DEF Unseen
  <2>2. Unseen(v, i) => v # t
    BY DEF RoundInv, Busy
  <2>3. v # t => Busy(v)' = Busy(v)
    BY VoterAssumption DEF Busy
  <2> QED
    BY <1>1, <1>2, <1>3, <2>1, <2>2, <2>3 DEF RoundInv
<1>5. RoundStep(v)
  <2>1. CASE \A i \in Indices(v) : Replicates[v][i] # t
    <3>1. RunningIndices(v)' = RunningIndices(v)
      BY <2>1, ReplicateOf DEF RunningIndices
    <3> QED
      BY <1>1, <3>1, RoundStay DEF RoundStep
  <2>2. ASSUME NEW m \in Indices(v), Replicates[v][m] = t
        PROVE  RoundStep(v)
    <3>1. m \in RunningIndices(v) /\ RunningIndices(v)' = RunningIndices(v) \ {m}
      BY <2>2, ReplicateOf DEF RunningIndices, VotersFirst
    <3>2. ~Unseen(v, m)
      <4>1. v \in queue => Priority[v] <= Priority[t]
        BY <1>2 DEF Highest
      <4>2. Priority[t] < Priority[v] /\ Priority[t] \in Nat /\ Priority[v] \in Nat
        BY <2>2, ReplicateOf, TaskAssumption DEF VotersFirst
      <4> QED
        BY <1>2, <4>1, <4>2 DEF RoundInv
    <3>3. armed[v] \/ m \in monitor[v]
      BY <3>1, <3>2 DEF Unseen
    <3>4. VR!End(v, m)
      BY <1>1, <3>1, <3>3 DEF VR!End
    <3> QED
      BY <3>4 DEF RoundStep
  <2> QED
    BY <2>1, <2>2
<1> QED
  BY <1>4, <1>5

(* The launch of a replicate, in a round of its own, begins its run there.  *)
LEMMA RoundLaunch ==
  ASSUME TypeOK, RoundInv, VotersFirst, LaunchesApart, NEW t \in Tasks, RunTask(t),
         NEW v \in VoterTasks
  PROVE  /\ RoundStep(v)
         /\ \A i \in Indices(v) :
              /\ armed'[v] /\ i \in RunningIndices(v)' => i \in monitor'[v]
              /\ Unseen(v, i)' => ~Busy(v)' /\ (pc' = "monitor" => v \in queue')
<1>1. /\ armed' = armed /\ monitor' = monitor /\ pc' = "run"
      /\ state[t] = "fireable" /\ state' = [state EXCEPT ![t] = "running"]
      /\ \A u \in Fireable : Priority[u] <= Priority[t]
  BY DEF RunTask, loopVars, voterVars, Highest, Fireable
<1>2. /\ state'[t] = "running"
      /\ \A u \in Tasks \ {t} : state'[u] = state[u]
  BY <1>1 DEF TypeOK
<1>3. Busy(v)' = Busy(v)
  BY <1>1, <1>2, VoterAssumption DEF Busy
<1>4. CASE \A i \in Indices(v) : Replicates[v][i] # t
  <2>1. RunningIndices(v)' = RunningIndices(v)
    BY <1>2, <1>4, ReplicateOf DEF RunningIndices
  <2>2. VR!Stay(v) /\ \A i \in Indices(v) : Unseen(v, i)' <=> Unseen(v, i)
    BY <1>1, <2>1, RoundStay
  <2> QED
    BY <1>1, <1>3, <2>1, <2>2 DEF RoundStep, RoundInv
<1>5. ASSUME NEW m \in Indices(v), Replicates[v][m] = t
      PROVE  /\ RoundStep(v)
             /\ \A i \in Indices(v) :
                  /\ armed'[v] /\ i \in RunningIndices(v)' => i \in monitor'[v]
                  /\ Unseen(v, i)' => ~Busy(v)' /\ (pc' = "monitor" => v \in queue')
  <2>1. m \notin RunningIndices(v) /\ RunningIndices(v)' = RunningIndices(v) \cup {m}
    BY <1>1, <1>2, <1>5, ReplicateOf DEF RunningIndices, VotersFirst
  <2>2. state[v] # "running" /\ ~armed[v] /\ m \notin monitor[v]
    BY <1>1, <1>2, <1>5 DEF LaunchesApart
  <2>3. ~Busy(v)
    <3>1. Priority[t] < Priority[v] /\ Priority[t] \in Nat /\ Priority[v] \in Nat /\ v \in Tasks
      BY <1>5, ReplicateOf, TaskAssumption DEF VotersFirst
    <3>2. v \notin Fireable
      BY <1>1, <3>1
    <3> QED
      BY <2>2, <3>1, <3>2 DEF Fireable, Busy
  <2>4. VR!Begin(v, m)
    BY <1>1, <2>1, <2>2 DEF VR!Begin
  <2> QED
    BY <1>1, <1>3, <2>2, <2>3, <2>4 DEF RoundStep
<1> QED
  BY <1>4, <1>5

LEMMA RoundInitial == Init => RoundInv /\ VR!RoundInit
<1> SUFFICES ASSUME Init
             PROVE  RoundInv /\ VR!RoundInit
  OBVIOUS
<1>1. \A v \in VoterTasks : RunningIndices(v) = {}
  BY ReplicateOf DEF Init, RunningIndices
<1> QED
  BY <1>1 DEF Init, RoundInv, Unseen, VR!RoundInit

(* One step of the scheduler, in the round of one voter.                    *)
LEMMA RoundOfStep ==
  ASSUME TypeOK, RoundInv, VotersFirst, LaunchesApart, Next,
         NEW v \in VoterTasks
  PROVE  /\ RoundStep(v)
         /\ \A i \in Indices(v) :
              /\ armed'[v] /\ i \in RunningIndices(v)' => i \in monitor'[v]
              /\ Unseen(v, i)' => ~Busy(v)' /\ (pc' = "monitor" => v \in queue')
<1> DEFINE Goal ==
      /\ RoundStep(v)
      /\ \A i \in Indices(v) :
           /\ armed'[v] /\ i \in RunningIndices(v)' => i \in monitor'[v]
           /\ Unseen(v, i)' => ~Busy(v)' /\ (pc' = "monitor" => v \in queue')
<1>1. ASSUME NEW t \in Tasks, MonitorReap(t) \/ MonitorStuck(t)
      PROVE  Goal
  <2>1. /\ Turn(t) /\ state[t] = "running" /\ UNCHANGED voterVars
        /\ \E s \in {"idle", "crashed"} : state' = [state EXCEPT ![t] = s]
    BY <1>1 DEF MonitorReap, MonitorStuck, HandleTaskCompletion
  <2>2. /\ state' \in [Tasks -> {"idle", "fireable", "running", "crashed"}]
        /\ state'[t] # "running" /\ \A u \in Tasks \ {t} : state'[u] = state[u]
    BY <2>1 DEF TypeOK
  <2> QED
    BY <2>1, <2>2, RoundEnd
<1>2. ASSUME NEW t \in Tasks, \/ MonitorWait(t)
                             \/ \E ready \in BOOLEAN : MonitorDispatch(t, ready)
      PROVE  Goal
  <2>1. Turn(t) /\ EvaluateVoters({t})
    BY <1>2 DEF MonitorWait, MonitorDispatch
  <2>2. \/ state' = state
        \/ state[t] # "running" /\ \E s \in {"idle", "fireable"} : state' = [state EXCEPT ![t] = s]
    BY <1>2 DEF MonitorWait, MonitorDispatch, taskVars
  <2>3. /\ \A u \in Tasks : state'[u] = "running" <=> state[u] = "running"
        /\ \A u \in Tasks \ {t} : state'[u] = state[u]
    BY <2>2 DEF TypeOK
  <2> QED
    BY <2>1, <2>3, RoundTurn DEF RoundStep
<1>3. ASSUME NEW t \in Tasks, RunTask(t)
      PROVE  Goal
  BY <1>3, RoundLaunch
<1>4. ASSUME UNCHANGED <<state, armed, monitor>>, pc' = "monitor" => queue' = Tasks
      PROVE  Goal
  <2>1. RunningIndices(v)' = RunningIndices(v)
    BY <1>4, SameRunning
  <2>2. v \in Tasks
    BY VoterAssumption
  <2> QED
    BY <1>4, <2>1, <2>2, RoundStay DEF RoundStep, RoundInv, Busy
<1>5. ASSUME UNCHANGED <<state, armed, monitor, queue>>, pc' = "monitor" => pc = "monitor"
      PROVE  Goal
  <2>1. RunningIndices(v)' = RunningIndices(v)
    BY <1>5, SameRunning
  <2> QED
    BY <1>5, <2>1, RoundStay DEF RoundStep, RoundInv, Busy
<1>6. CASE \E d \in {0, 1} : CheckActive(d)
  BY <1>4, <1>6 DEF CheckActive, taskVars, voterVars
<1>7. CASE \E t \in Tasks : Cleanup(t)
  BY <1>4, <1>7 DEF Cleanup, taskVars, voterVars
<1>8. CASE \/ \E t \in Tasks : OrphanExit(t) \/ \E s \in Statuses : ChildExit(t, s)
           \/ (\E t \in Tasks : ForkFails(t)) \/ LogResults \/ Terminated
  BY <1>5, <1>8 DEF OrphanExit, ChildExit, ForkFails, LogResults, Terminated,
                    vars, loopVars, taskVars, voterVars
<1>9. CASE PrintResults \/ WriteResults
  <2>1. /\ EvaluateVoters(VoterTasks) \/ UNCHANGED voterVars
        /\ state' = state /\ pc' # "monitor"
    BY <1>9 DEF PrintResults, WriteResults, ReportTasks, taskVars
  <2>2. RunningIndices(v)' = RunningIndices(v)
    BY <2>1, SameRunning
  <2>3. CASE EvaluateVoters(VoterTasks)
    BY <2>1, <2>2, <2>3, RoundEvaluation DEF RoundStep
  <2>4. CASE UNCHANGED voterVars
    BY <1>4, <2>1, <2>4 DEF voterVars
  <2> QED
    BY <2>1, <2>3, <2>4
<1> QED
  BY <1>1, <1>2, <1>3, <1>6, <1>7, <1>8, <1>9 DEF Next

LEMMA RoundPreserved ==
  ASSUME TypeOK, RoundInv, VotersFirst, LaunchesApart, [Next]_vars
  PROVE  RoundInv' /\ [VR!RoundNext]_VR!roundVars
<1>1. CASE Next
  <2>1. \A v \in VoterTasks : RoundStep(v)
    BY <1>1, RoundOfStep
  <2>2. VR!RoundNext
    BY <2>1 DEF RoundStep, VR!RoundNext
  <2>3. RoundInv'
    BY <1>1, RoundOfStep DEF RoundInv
  <2> QED
    BY <2>2, <2>3
<1>2. CASE UNCHANGED vars
  <2>1. UNCHANGED <<pc, queue, state, armed, monitor>>
    BY <1>2 DEF vars, loopVars, taskVars, voterVars
  <2>2. \A v \in VoterTasks : RunningIndices(v)' = RunningIndices(v)
    BY <2>1, SameRunning
  <2>3. RoundInv'
    BY <2>1, <2>2, RoundStay DEF RoundInv, Busy
  <2>4. UNCHANGED VR!roundVars
    BY <2>1, <2>2 DEF VR!roundVars
  <2> QED
    BY <2>3, <2>4
<1> QED
  BY <1>1, <1>2

(* A step that changes nothing launches nothing.                            *)
LEMMA StutterApart == TypeOK /\ UNCHANGED vars => LaunchesApart
BY ReplicateOf DEF vars, taskVars, LaunchesApart

LEMMA RoundCorrect ==
  ASSUME VotersFirst
  PROVE  Spec /\ RoundsApart => []RoundInv
<1>1. TypeOK /\ RoundInv /\ [Next]_vars /\ [LaunchesApart]_vars => RoundInv'
  <2> SUFFICES ASSUME TypeOK, RoundInv, [Next]_vars, [LaunchesApart]_vars
               PROVE  RoundInv'
    OBVIOUS
  <2>1. CASE LaunchesApart
    BY <2>1, RoundPreserved
  <2>2. CASE UNCHANGED vars
    BY <2>2, StutterApart, RoundPreserved
  <2> QED
    BY <2>1, <2>2
<1> QED
  BY <1>1, RoundInitial, TypeCorrect, PTL DEF Spec, RoundsApart

(* Theorem: for any replicates, priorities that put the voter first, and    *)
(* any statuses and timing, get_voter_fireable called once per pass keeps   *)
(* rounds: as long as replicates are launched in rounds of their own, it    *)
(* misses no run and no end, and answers yes once in each round, when all   *)
(* replicates have run and none is running.                                 *)
THEOREM ImplementsRounds ==
  ASSUME VotersFirst
  PROVE  Spec /\ RoundsApart => RoundRefinement
<1>1. TypeOK /\ RoundInv /\ [Next]_vars /\ [LaunchesApart]_vars => [VR!RoundNext]_VR!roundVars
  <2> SUFFICES ASSUME TypeOK, RoundInv, [Next]_vars, [LaunchesApart]_vars
               PROVE  [VR!RoundNext]_VR!roundVars
    OBVIOUS
  <2>1. CASE LaunchesApart
    BY <2>1, RoundPreserved
  <2>2. CASE UNCHANGED vars
    BY <2>2, StutterApart, RoundPreserved
  <2> QED
    BY <2>1, <2>2
<1> QED
  BY <1>1, RoundInitial, RoundCorrect, TypeCorrect, PTL
  DEF Spec, RoundsApart, RoundRefinement, VR!RoundSpec

(* A voter that is dispatched finds none of its replicates running.         *)
LEMMA VoteFindsNoneRunning ==
  ASSUME TypeOK, RoundInv, [Next]_vars, NEW v \in VoterTasks,
         state[v] # "fireable", state'[v] = "fireable"
  PROVE  RunningIndices(v) = {}
<1>1. v \in Tasks
  BY VoterAssumption
<1>2. PICK ready \in BOOLEAN : MonitorDispatch(v, ready)
  BY <1>1 DEF Next, CheckActive, MonitorReap, MonitorStuck, HandleTaskCompletion, MonitorWait,
     MonitorDispatch, RunTask, Cleanup, ChildExit, OrphanExit, ForkFails, LogResults,
     PrintResults, WriteResults, Terminated, vars, taskVars, TypeOK
<1>3. VoterFires(v)
  BY <1>1, <1>2 DEF MonitorDispatch, InputFull, TypeOK
<1> QED
  BY <1>3 DEF VoterFires, Fires, Blockers, RoundInv, RunningIndices
==============================================================================
