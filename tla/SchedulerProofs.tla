--------------------------- MODULE SchedulerProofs ---------------------------
(* Theorems about the scheduler loop, for every set of tasks and cores.     *)
EXTENDS Scheduler, TLAPS

(* What init_scheduler and the constructors set has its types.              *)
LEMMA InitType == Init => TypeOK
  BY TaskAssumption, VoterAssumption, CoreAssumption, NumberAssumption
  DEF Init, TypeOK, Busy, None, Share, VoterTasks

(* A call of get_voter_fireable keeps the flags of the voters typed.        *)
LEMMA VoterType ==
  ASSUME TypeOK, NEW V, EvaluateVoters(V)
  PROVE  /\ armed' \in [VoterTasks -> BOOLEAN]
         /\ monitor' \in [VoterTasks -> SUBSET Nat]
         /\ \A v \in VoterTasks : monitor'[v] \subseteq Indices(v)
<1>1. ASSUME NEW v \in VoterTasks
      PROVE  /\ armed[v] \in BOOLEAN
             /\ ArmedAfter(Len(Replicates[v]), armed[v], monitor[v],
                           RunningIndices(v), AliveIndices(v)) \in BOOLEAN
  BY DEF TypeOK, ArmedAfter
<1>2. armed' \in [VoterTasks -> BOOLEAN]
  BY <1>1 DEF EvaluateVoters
<1>3. ASSUME NEW v \in VoterTasks
      PROVE  /\ monitor[v] \subseteq Indices(v)
             /\ MonitorAfter(armed[v], monitor[v], RunningIndices(v)) \subseteq Indices(v)
  <2>1. monitor[v] \subseteq Indices(v) /\ RunningIndices(v) \subseteq Indices(v)
    BY DEF TypeOK, RunningIndices
  <2> QED
    BY <2>1 DEF MonitorAfter
<1>4. \A v \in VoterTasks : monitor'[v] \subseteq Indices(v)
  BY <1>3 DEF EvaluateVoters
<1>5. monitor' \in [VoterTasks -> SUBSET Nat]
  <2>1. \A v \in VoterTasks : Indices(v) \subseteq Nat
    BY VoterAssumption DEF Indices
  <2> QED
    BY <2>1, <1>3 DEF EvaluateVoters
<1> QED
  BY <1>2, <1>4, <1>5

(* What update_weight keeps of its two variables.                           *)
LEMMA UpdateWeightType ==
  ASSUME TypeOK, NEW c \in Cores, NEW score \in Int, UpdateWeight(c, score)
  PROVE  /\ weight' \in [Cores -> Int]
         /\ scores' \in [Cores -> Seq(Int)]
         /\ \A d \in Cores : Len(scores'[d]) = BufferSize
<1>1. /\ scores[c] \in Seq(Int) /\ Len(scores[c]) = BufferSize
      /\ weight[c] \in Int
  BY DEF TypeOK
<1>2. /\ Head(scores[c]) \in Int
      /\ Append(Tail(scores[c]), score) \in Seq(Int)
      /\ Len(Append(Tail(scores[c]), score)) = BufferSize
  BY <1>1, NumberAssumption
<1>3. AtMost(weight[c] - Head(scores[c]) + score, MaxWeight) \in Int
  BY <1>1, <1>2, NumberAssumption DEF AtMost
<1> QED
  BY <1>2, <1>3 DEF UpdateWeight, TypeOK

(* The variables handle_task_completion assigns keep their types.           *)
LEMMA CompletionType ==
  ASSUME TypeOK, NEW t \in Tasks, state[t] = "running",
         NEW status \in Statuses \cup {"lost", "signal"},
         HandleTaskCompletion(t, status)
  PROVE  /\ state' \in [Tasks -> {"idle", "fireable", "running", "crashed"}]
         /\ \A u \in Tasks : Busy(u)' => Busy(u)
         /\ success' \in [Tasks -> Nat] /\ fails' \in [Tasks -> Nat]
         /\ errors' \in [Tasks -> Nat]
         /\ active' \in [Cores -> BOOLEAN]
         /\ weight' \in [Cores -> Int]
         /\ scores' \in [Cores -> Seq(Int)]
         /\ \A c \in Cores : Len(scores'[c]) = BufferSize
         /\ coreRuns' \in [Cores -> Nat]
<1>1. cpu[t] \in Cores
  BY DEF TypeOK, Busy
<1>2. Share \in Int
  BY NumberAssumption DEF Share
<1>3. /\ weight' \in [Cores -> Int]
      /\ scores' \in [Cores -> Seq(Int)]
      /\ \A c \in Cores : Len(scores'[c]) = BufferSize
  <2>1. CASE status = "lost"
    BY <2>1 DEF HandleTaskCompletion, TypeOK
  <2>2. CASE status # "lost"
    BY <2>2, <1>1, <1>2, UpdateWeightType DEF HandleTaskCompletion
  <2> QED
    BY <2>1, <2>2
<1>4. /\ success' \in [Tasks -> Nat] /\ fails' \in [Tasks -> Nat]
      /\ errors' \in [Tasks -> Nat]
  BY DEF HandleTaskCompletion, Bump, TypeOK
<1>5. /\ state' \in [Tasks -> {"idle", "fireable", "running", "crashed"}]
      /\ \A u \in Tasks : Busy(u)' => Busy(u)
  BY DEF HandleTaskCompletion, TypeOK, Busy
<1>6. active' \in [Cores -> BOOLEAN]
  BY DEF HandleTaskCompletion, TypeOK
<1>7. coreRuns' \in [Cores -> Nat]
  <2>1. coreRuns \in [Cores -> Nat]
    BY DEF TypeOK
  <2>2. coreRuns' = [coreRuns EXCEPT ![cpu[t]] = @ + 1]
    BY DEF HandleTaskCompletion
  <2> QED
    BY <1>1, <2>1, <2>2
<1> QED
  BY <1>3, <1>4, <1>5, <1>6, <1>7

(* Theorem: every variable keeps its type; a busy task's core id is always  *)
(* one of find_core's.                                                      *)
THEOREM TypeCorrect == Spec => []TypeOK
<1>1. Init => TypeOK
  BY InitType
<1>2. ASSUME TypeOK, [Next]_vars
      PROVE  TypeOK'
  <2> USE <1>2
  <2>1. ASSUME NEW d \in {0, 1}, CheckActive(d)
        PROVE  TypeOK'
    <3>1. age' \in [Tasks -> Nat]
      <4>1. ASSUME NEW t \in Tasks
            PROVE  AtMost(age[t] + d, AgeCap[t]) \in Nat
        <5>1. age[t] \in Nat /\ AgeCap[t] \in Nat
          BY TaskAssumption DEF TypeOK
        <5> QED
          BY <5>1 DEF AtMost
      <4> QED
        BY <2>1, <4>1 DEF CheckActive
    <3> QED
      BY <2>1, <3>1 DEF CheckActive, TypeOK, Busy, taskVars, tally, voterVars,
                        coreVars, procVars
  <2>2. ASSUME NEW t \in Tasks, MonitorReap(t)
        PROVE  TypeOK'
    <3>1. (IF child[t] = "none" THEN "lost" ELSE child[t]) \in Statuses \cup {"lost", "signal"}
      BY <2>2 DEF MonitorReap, TypeOK
    <3> QED
      BY <2>2, <3>1, CompletionType
      DEF MonitorReap, Turn, TypeOK, Busy, voterVars
  <2>3. ASSUME NEW t \in Tasks, MonitorStuck(t)
        PROVE  TypeOK'
    BY <2>3, CompletionType
    DEF MonitorStuck, Turn, TypeOK, Busy, voterVars, procVars
  <2>4. ASSUME NEW t \in Tasks, MonitorWait(t)
        PROVE  TypeOK'
    BY <2>4, VoterType
    DEF MonitorWait, Turn, TypeOK, Busy, taskVars, tally, coreVars, procVars
  <2>5. ASSUME NEW t \in Tasks, NEW ready \in BOOLEAN, MonitorDispatch(t, ready)
        PROVE  TypeOK'
    <3>1. /\ armed' \in [VoterTasks -> BOOLEAN]
          /\ monitor' \in [VoterTasks -> SUBSET Nat]
          /\ \A v \in VoterTasks : monitor'[v] \subseteq Indices(v)
      BY <2>5, VoterType DEF MonitorDispatch
    <3>2. /\ state' \in [Tasks -> {"idle", "fireable", "running", "crashed"}]
          /\ cpu' \in [Tasks -> Cores \cup {None}]
          /\ \A u \in Tasks : Busy(u)' => cpu'[u] \in Cores \ {SchedulerCore}
          /\ active' \in [Cores -> BOOLEAN]
      BY <2>5 DEF MonitorDispatch, FindCore, Candidates, TypeOK, Busy
    <3> QED
      BY <2>5, <3>1, <3>2 DEF MonitorDispatch, Turn, TypeOK, tally, procVars
  <2>6. ASSUME NEW t \in Tasks, RunTask(t)
        PROVE  TypeOK'
    <3>1. t \in Fireable /\ cpu[t] \in Cores
      BY <2>6 DEF RunTask, Highest, Fireable, TypeOK, Busy
    <3>2. taskRuns' \in [Tasks -> Nat] /\ coreLaunches' \in [Cores -> Nat]
      BY <2>6, <3>1 DEF RunTask, TypeOK
    <3>3. /\ state' \in [Tasks -> {"idle", "fireable", "running", "crashed"}]
          /\ age' \in [Tasks -> Nat] /\ orphans' \in [Tasks -> Nat]
          /\ child' \in [Tasks -> {"none", "alive"} \cup Statuses]
      BY <2>6 DEF RunTask, Bump, TypeOK
    <3>4. \A u \in Tasks : Busy(u)' => Busy(u)
      BY <2>6, <3>1 DEF RunTask, Fireable, TypeOK, Busy
    <3> QED
      BY <2>6, <3>2, <3>3, <3>4 DEF RunTask, TypeOK, loopVars, tally, voterVars, coreVars
  <2>7. ASSUME NEW t \in Tasks, Cleanup(t)
        PROVE  TypeOK'
    <3>1. /\ child' \in [Tasks -> {"none", "alive"} \cup Statuses]
          /\ orphans' \in [Tasks -> Nat]
          /\ pc' \in {"cleanup", "done", "killed"}
          /\ queue' \subseteq Tasks
      <4>1. CASE pc' = "killed"
        BY <2>7, <4>1 DEF Cleanup, TypeOK
      <4>2. CASE pc' # "killed"
        BY <2>7, <4>2 DEF Cleanup, TypeOK
      <4> QED
        BY <4>1, <4>2
    <3> QED
      BY <2>7, <3>1 DEF Cleanup, TypeOK, Busy, taskVars, tally, voterVars, coreVars
  <2>8. ASSUME NEW t \in Tasks, NEW s \in Statuses, ChildExit(t, s)
        PROVE  TypeOK'
    BY <2>8 DEF ChildExit, TypeOK, Busy, loopVars, taskVars, tally, voterVars, coreVars
  <2>9. ASSUME NEW t \in Tasks, OrphanExit(t)
        PROVE  TypeOK'
    BY <2>9 DEF OrphanExit, TypeOK, Busy, loopVars, taskVars, tally, voterVars, coreVars
  <2>10. CASE LogResults
    BY <2>10 DEF LogResults, TypeOK, Busy, taskVars, tally, voterVars, coreVars, procVars
  <2>11. CASE PrintResults \/ WriteResults
    <3>1. /\ armed' \in [VoterTasks -> BOOLEAN]
          /\ monitor' \in [VoterTasks -> SUBSET Nat]
          /\ \A v \in VoterTasks : monitor'[v] \subseteq Indices(v)
      <4>1. CASE UNCHANGED voterVars
        BY <4>1 DEF voterVars, TypeOK
      <4>2. CASE ReportTasks
        BY <4>2, VoterType DEF ReportTasks
      <4> QED
        BY <2>11, <4>1, <4>2 DEF PrintResults, WriteResults
    <3> QED
      BY <2>11, <3>1 DEF PrintResults, WriteResults, TypeOK, Busy, taskVars,
                         tally, coreVars, procVars
  <2>12. CASE UNCHANGED vars
    BY <2>12 DEF vars, TypeOK, Busy, loopVars, taskVars, tally, voterVars, coreVars, procVars
  <2>13. ASSUME NEW t \in Tasks, ForkFails(t)
        PROVE  TypeOK'
    BY <2>13 DEF ForkFails, TypeOK, Busy, tally, voterVars, coreVars, procVars
  <2> QED
    BY <2>1, <2>2, <2>3, <2>4, <2>5, <2>6, <2>7, <2>8, <2>9, <2>10, <2>11, <2>12, <2>13
    DEF Next, Terminated
<1> QED
  BY <1>1, <1>2, PTL DEF Spec
(****************************************************************************)
(* Core ownership.  What is inductive is CoreOwnership together with        *)
(* FireableOnlyWithinPass: a task that entered its turn fireable would be   *)
(* given a second core and never release the first.                         *)
(****************************************************************************)
OwnershipInv == CoreOwnership /\ FireableOnlyWithinPass

(* Steps that leave the states, the cores and the loop as they are.         *)
LEMMA OwnershipFrame ==
  ASSUME OwnershipInv, UNCHANGED <<state, cpu, active, pc, queue>>
  PROVE  OwnershipInv'
  BY DEF OwnershipInv, CoreOwnership, FireableOnlyWithinPass, Busy, Fireable

(* A completion gives the core of the completed task back, and no other.    *)
LEMMA CompletionOwnership ==
  ASSUME TypeOK, OwnershipInv, NEW t \in Tasks, Turn(t), state[t] = "running",
         NEW status, HandleTaskCompletion(t, status), cpu' = cpu
  PROVE  OwnershipInv'
<1> DEFINE c == cpu[t]
<1>1. c \in Cores /\ Busy(t)
  BY DEF TypeOK, Busy
<1>2. /\ active' = [active EXCEPT ![c] = FALSE]
      /\ state' \in [Tasks -> {"idle", "fireable", "running", "crashed"}]
      /\ ~Busy(t)'
      /\ \A u \in Tasks \ {t} : state'[u] = state[u]
  BY DEF HandleTaskCompletion, TypeOK, Busy
<1>3. \A u \in Tasks : Busy(u)' => Busy(u) /\ u # t /\ cpu[u] # c
  BY <1>1, <1>2 DEF OwnershipInv, CoreOwnership, Busy
<1>4. \A d \in Cores : active'[d] => d # c /\ active[d]
  BY <1>1, <1>2 DEF TypeOK
<1>5. \A d \in Cores : active'[d] => \E u \in Tasks : Busy(u)' /\ cpu'[u] = d
  BY <1>2, <1>4 DEF OwnershipInv, CoreOwnership, Busy
<1>6. \A u \in Tasks : Busy(u)' => active'[cpu'[u]]
  BY <1>1, <1>2, <1>3 DEF OwnershipInv, CoreOwnership, TypeOK
<1>7. CoreOwnership'
  BY <1>3, <1>5, <1>6 DEF OwnershipInv, CoreOwnership
<1>8. FireableOnlyWithinPass'
  BY <1>2 DEF OwnershipInv, FireableOnlyWithinPass, Fireable, Turn, Busy
<1> QED
  BY <1>7, <1>8 DEF OwnershipInv

(* A dispatch takes a core nobody holds.                                    *)
LEMMA DispatchOwnership ==
  ASSUME TypeOK, OwnershipInv, NEW t \in Tasks, NEW ready, MonitorDispatch(t, ready)
  PROVE  OwnershipInv'
<1>1. ~Busy(t)
  BY DEF MonitorDispatch, Turn, Highest, OwnershipInv, FireableOnlyWithinPass, Fireable, Busy
<1>2. CASE UNCHANGED <<cpu, active>> /\ state' \in {state, [state EXCEPT ![t] = "idle"]}
  <2>1. \A u \in Tasks : (Busy(u)' <=> Busy(u)) /\ (u \in Fireable' <=> u \in Fireable)
    BY <1>1, <1>2 DEF TypeOK, Busy, Fireable
  <2>2. CoreOwnership'
    BY <1>2, <2>1 DEF OwnershipInv, CoreOwnership
  <2>3. FireableOnlyWithinPass'
    BY <2>1 DEF OwnershipInv, FireableOnlyWithinPass, MonitorDispatch, Turn, Fireable
  <2> QED
    BY <2>2, <2>3 DEF OwnershipInv
<1>3. ASSUME NEW c \in FindCore(t \in Weighted),
             state' = [state EXCEPT ![t] = "fireable"],
             cpu' = [cpu EXCEPT ![t] = c],
             active' = [active EXCEPT ![c] = TRUE]
      PROVE  OwnershipInv'
  <2>1. c \in Cores /\ ~active[c]
    BY DEF FindCore, Candidates
  <2>2. /\ Busy(t)' /\ cpu'[t] = c /\ active'[c]
        /\ \A u \in Tasks \ {t} : (Busy(u)' <=> Busy(u)) /\ cpu'[u] = cpu[u]
        /\ \A d \in Cores \ {c} : active'[d] = active[d]
    BY <1>3, <2>1 DEF TypeOK, Busy
  <2>3. \A u \in Tasks \ {t} : Busy(u) => cpu[u] \in Cores \ {c}
    BY <2>1 DEF OwnershipInv, CoreOwnership, TypeOK
  <2>4. \A d \in Cores : active'[d] => \E u \in Tasks : Busy(u)' /\ cpu'[u] = d
    <3>1. SUFFICES ASSUME NEW d \in Cores \ {c}, active'[d]
                   PROVE  \E u \in Tasks : Busy(u)' /\ cpu'[u] = d
      BY <2>2
    <3>2. PICK u \in Tasks : Busy(u) /\ cpu[u] = d
      BY <2>2, <3>1 DEF OwnershipInv, CoreOwnership
    <3> QED
      BY <1>1, <2>2, <3>2
  <2>5. \A u \in Tasks : Busy(u)' => active'[cpu'[u]]
    BY <2>2, <2>3 DEF OwnershipInv, CoreOwnership
  <2>6. \A u, w \in Tasks : Busy(u)' /\ Busy(w)' /\ cpu'[u] = cpu'[w] => u = w
    BY <2>2, <2>3 DEF OwnershipInv, CoreOwnership
  <2>7. CoreOwnership'
    BY <2>4, <2>5, <2>6 DEF CoreOwnership
  <2>8. FireableOnlyWithinPass'
    BY <1>3 DEF OwnershipInv, FireableOnlyWithinPass, MonitorDispatch, Turn,
                Fireable, TypeOK
  <2> QED
    BY <2>7, <2>8 DEF OwnershipInv
<1> QED
  BY <1>2, <1>3 DEF MonitorDispatch

(* Theorem: no core is leaked and none is shared, whatever the processes do *)
(* and in whatever order the scheduler meets them (find_core,               *)
(* handle_task_completion).                                                 *)
THEOREM OwnershipCorrect == Spec => []OwnershipInv
<1>1. Init => OwnershipInv
  BY CoreAssumption DEF Init, OwnershipInv, CoreOwnership, FireableOnlyWithinPass, Busy, Fireable
<1>2. ASSUME TypeOK, OwnershipInv, [Next]_vars
      PROVE  OwnershipInv'
  <2> USE <1>2
  <2>1. ASSUME NEW d \in {0, 1}, CheckActive(d)
        PROVE  OwnershipInv'
    BY <2>1 DEF CheckActive, OwnershipInv, CoreOwnership, FireableOnlyWithinPass,
                Busy, Fireable, taskVars, coreVars
  <2>2. ASSUME NEW t \in Tasks, MonitorReap(t) \/ MonitorStuck(t)
        PROVE  OwnershipInv'
    BY <2>2, CompletionOwnership DEF MonitorReap, MonitorStuck
  <2>3. ASSUME NEW t \in Tasks, MonitorWait(t)
        PROVE  OwnershipInv'
    BY <2>3 DEF MonitorWait, Turn, OwnershipInv, CoreOwnership, FireableOnlyWithinPass,
                Busy, Fireable, taskVars, coreVars
  <2>4. ASSUME NEW t \in Tasks, NEW ready \in BOOLEAN, MonitorDispatch(t, ready)
        PROVE  OwnershipInv'
    BY <2>4, DispatchOwnership
  <2>5. ASSUME NEW t \in Tasks, RunTask(t)
        PROVE  OwnershipInv'
    <3>1. \A u \in Tasks : Busy(u)' <=> Busy(u)
      BY <2>5 DEF RunTask, Highest, Fireable, Busy, TypeOK
    <3>2. CoreOwnership'
      BY <2>5, <3>1 DEF RunTask, OwnershipInv, CoreOwnership, coreVars
    <3> QED
      BY <2>5, <3>2 DEF RunTask, OwnershipInv, FireableOnlyWithinPass, loopVars
  <2>6. ASSUME NEW t \in Tasks, Cleanup(t)
        PROVE  OwnershipInv'
    BY <2>6 DEF Cleanup, OwnershipInv, CoreOwnership, FireableOnlyWithinPass,
                Busy, Fireable, taskVars, coreVars
  <2>7. ASSUME NEW t \in Tasks, OrphanExit(t) \/ \E s \in Statuses : ChildExit(t, s)
        PROVE  OwnershipInv'
    BY <2>7, OwnershipFrame DEF OrphanExit, ChildExit, loopVars, taskVars, coreVars
  <2>8. CASE LogResults \/ PrintResults \/ WriteResults
    BY <2>8 DEF LogResults, PrintResults, WriteResults, OwnershipInv,
                CoreOwnership, FireableOnlyWithinPass, Busy, Fireable, taskVars, coreVars
  <2>9. CASE UNCHANGED vars
    BY <2>9, OwnershipFrame DEF vars, loopVars, taskVars, coreVars
  <2>10. ASSUME NEW t \in Tasks, ForkFails(t)
         PROVE  OwnershipInv'
    BY <2>10 DEF ForkFails, OwnershipInv, CoreOwnership, FireableOnlyWithinPass,
                 Busy, Fireable, coreVars
  <2> QED
    BY <2>1, <2>2, <2>3, <2>4, <2>5, <2>6, <2>7, <2>8, <2>9, <2>10 DEF Next, Terminated
<1> QED
  BY <1>1, <1>2, TypeCorrect, PTL DEF Spec

(* Core ownership alone, as the runs check it: find_core never hands out a  *)
(* core that a task still holds.                                            *)
COROLLARY CoresOwned == Spec => []CoreOwnership
<1>1. OwnershipInv => CoreOwnership
  BY DEF OwnershipInv
<1> QED
  BY <1>1, OwnershipCorrect, PTL

(* Nor is a task met fireable in its turn: run_tasks launches what the      *)
(* monitor_tasks before it dispatched.                                      *)
COROLLARY DispatchesLaunched == Spec => []FireableOnlyWithinPass
<1>1. OwnershipInv => FireableOnlyWithinPass
  BY DEF OwnershipInv
<1> QED
  BY <1>1, OwnershipCorrect, PTL
==============================================================================
