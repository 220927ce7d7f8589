--------------------------- MODULE CompletionProofs ---------------------------
(* What the scheduler's bookkeeping of completions guarantees.              *)
EXTENDS SchedulerProofs

(****************************************************************************)
(* Launches are accounted for.  RunningHasChild is the strengthening: the   *)
(* -1 branch of handle_task_completion would lose a launch.                 *)
(****************************************************************************)
AccountInv == EveryLaunchAccounted /\ RunningHasChild

(* Steps that touch neither states, counters nor processes.                 *)
LEMMA AccountFrame ==
  ASSUME AccountInv, UNCHANGED <<pc, state, taskRuns, success, fails, errors, child>>
  PROVE  AccountInv'
<1>1. \A t \in Tasks : Uncounted(t)' = Uncounted(t)
  BY DEF Uncounted
<1>2. EveryLaunchAccounted'
  BY <1>1 DEF AccountInv, EveryLaunchAccounted, Fireable
<1> QED
  BY <1>2 DEF AccountInv, RunningHasChild

(* Within the loop and after it, a launch is counted if no task's own count *)
(* changes by more than what the launch in progress makes up for.           *)
LEMMA Accounted ==
  ASSUME AccountInv, pc # "exited", pc' # "exited",
         \A t \in Tasks : Uncounted(t)' = Uncounted(t)
  PROVE  EveryLaunchAccounted'
  BY DEF AccountInv, EveryLaunchAccounted

(* A completion with a real status moves the launch in progress to exactly  *)
(* one of the three counters.                                               *)
LEMMA CompletionAccount ==
  ASSUME TypeOK, AccountInv, NEW t \in Tasks, Turn(t), state[t] = "running",
         NEW status \in Statuses \cup {"signal"}, HandleTaskCompletion(t, status),
         taskRuns' = taskRuns, \A u \in Tasks \ {t} : child'[u] = child[u]
  PROVE  AccountInv'
<1>1. /\ state' = [state EXCEPT ![t] = IF status = "exit0" THEN "idle" ELSE "crashed"]
      /\ success' = Bump(success, t, status = "exit0")
      /\ errors' = Bump(errors, t, status = "exit2")
      /\ fails' = Bump(fails, t, status \in {"exit1", "signal"})
      /\ status \in {"exit0", "exit1", "exit2", "signal"}
  BY StatusAssumption DEF HandleTaskCompletion
<1>2. state'[t] # "running" /\ \A u \in Tasks \ {t} : state'[u] = state[u]
  BY <1>1 DEF TypeOK
<1>3. success[t] \in Nat /\ fails[t] \in Nat /\ errors[t] \in Nat /\ taskRuns[t] \in Nat
  BY DEF TypeOK
<1>4. success'[t] + fails'[t] + errors'[t] = success[t] + fails[t] + errors[t] + 1
  BY <1>1, <1>3 DEF Bump, TypeOK
<1>5. \A u \in Tasks \ {t} : success'[u] = success[u] /\ fails'[u] = fails[u]
                             /\ errors'[u] = errors[u]
  BY <1>1 DEF Bump, TypeOK
<1>6. Uncounted(t)' = Uncounted(t)
  <2>1. success'[t] \in Nat /\ fails'[t] \in Nat /\ errors'[t] \in Nat
    BY <1>1, <1>3 DEF Bump, TypeOK
  <2>2. One(state[t] = "running") = 1 /\ One(state'[t] = "running") = 0
    BY <1>2 DEF One
  <2> QED
    BY <1>3, <1>4, <2>1, <2>2 DEF Uncounted
<1>7. EveryLaunchAccounted'
  <2>1. \A u \in Tasks \ {t} : Uncounted(u)' = Uncounted(u)
    BY <1>2, <1>5 DEF Uncounted
  <2>2. pc # "exited" /\ pc' # "exited"
    BY DEF Turn
  <2> QED
    BY <1>6, <2>1, <2>2, Accounted
<1>8. RunningHasChild'
  BY <1>2 DEF AccountInv, RunningHasChild, Turn
<1> QED
  BY <1>7, <1>8 DEF AccountInv

(* Theorem: whatever the processes do, each launch ends in one counter, and *)
(* a running task always has a process for waitpid to report.               *)
THEOREM AccountCorrect == Spec => []AccountInv
<1>1. Init => AccountInv
  BY DEF Init, AccountInv, EveryLaunchAccounted, Uncounted, RunningHasChild, One
<1>2. ASSUME TypeOK, OwnershipInv, AccountInv, [Next]_vars
      PROVE  AccountInv'
  <2> USE <1>2
  <2>1. ASSUME NEW t \in Tasks, MonitorReap(t)
        PROVE  AccountInv'
    <3>1. child[t] \in Statuses
      BY <2>1 DEF MonitorReap, Turn, AccountInv, RunningHasChild, TypeOK
    <3>2. child[t] # "none"
      BY <3>1, StatusAssumption
    <3>3. HandleTaskCompletion(t, child[t])
      BY <2>1, <3>2 DEF MonitorReap
    <3>4. \A u \in Tasks \ {t} : child'[u] = child[u]
      BY <2>1 DEF MonitorReap, TypeOK
    <3> QED
      BY <2>1, <3>1, <3>3, <3>4, CompletionAccount DEF MonitorReap
  <2>2. ASSUME NEW t \in Tasks, MonitorStuck(t)
        PROVE  AccountInv'
    BY <2>2, CompletionAccount DEF MonitorStuck, procVars
  <2>3. ASSUME NEW t \in Tasks, MonitorWait(t)
        PROVE  AccountInv'
    <3>1. pc # "exited" /\ pc' # "exited"
          /\ UNCHANGED <<state, taskRuns, success, fails, errors, child>>
      BY <2>3 DEF MonitorWait, Turn, taskVars, tally, procVars
    <3>2. EveryLaunchAccounted'
      BY <3>1, Accounted DEF Uncounted
    <3> QED
      BY <2>3, <3>1, <3>2 DEF MonitorWait, Turn, AccountInv, RunningHasChild
  <2>4. ASSUME NEW t \in Tasks, NEW ready \in BOOLEAN, MonitorDispatch(t, ready)
        PROVE  AccountInv'
    <3>1. \A u \in Tasks : state'[u] = "running" <=> state[u] = "running"
      BY <2>4 DEF MonitorDispatch, TypeOK
    <3>2. pc # "exited" /\ pc' # "exited"
          /\ UNCHANGED <<taskRuns, success, fails, errors, child>>
      BY <2>4 DEF MonitorDispatch, Turn, tally, procVars
    <3>3. EveryLaunchAccounted'
      BY <3>1, <3>2, Accounted DEF Uncounted, One
    <3> QED
      BY <2>4, <3>1, <3>2, <3>3 DEF MonitorDispatch, Turn, AccountInv, RunningHasChild
  <2>5. ASSUME NEW t \in Tasks, RunTask(t)
        PROVE  AccountInv'
    <3>1. /\ state[t] = "fireable" /\ pc = "run" /\ pc' = pc
          /\ state' = [state EXCEPT ![t] = "running"]
          /\ taskRuns' = [taskRuns EXCEPT ![t] = @ + 1]
          /\ child' = [child EXCEPT ![t] = "alive"]
          /\ UNCHANGED <<success, fails, errors>>
      BY <2>5 DEF RunTask, Highest, Fireable, loopVars, tally
    <3>2. \A u \in Tasks : Uncounted(u)' = Uncounted(u)
      BY <3>1 DEF Uncounted, One, TypeOK
    <3>3. EveryLaunchAccounted'
      BY <3>1, <3>2, Accounted
    <3>4. RunningHasChild'
      BY <3>1 DEF AccountInv, RunningHasChild, TypeOK
    <3> QED
      BY <3>3, <3>4 DEF AccountInv
  <2>6. ASSUME NEW t \in Tasks, Cleanup(t)
        PROVE  AccountInv'
    <3>1. pc \notin {"active", "monitor", "run", "exited"}
          /\ pc' \notin {"active", "monitor", "run", "exited"}
          /\ UNCHANGED <<state, taskRuns, success, fails, errors>>
      BY <2>6 DEF Cleanup, taskVars, tally
    <3>2. EveryLaunchAccounted'
      BY <3>1, Accounted DEF Uncounted
    <3> QED
      BY <3>1, <3>2 DEF AccountInv, RunningHasChild
  <2>7. ASSUME NEW t \in Tasks, NEW s \in Statuses, ChildExit(t, s)
        PROVE  AccountInv'
    <3>1. \A u \in Tasks : child'[u] # "none" \/ child'[u] = child[u]
      BY <2>7, StatusAssumption DEF ChildExit, TypeOK
    <3>2. UNCHANGED <<pc, state, taskRuns, success, fails, errors>>
      BY <2>7 DEF ChildExit, loopVars, taskVars, tally
    <3>3. \A u \in Tasks : Uncounted(u)' = Uncounted(u)
      BY <3>2 DEF Uncounted
    <3>4. EveryLaunchAccounted'
      BY <3>2, <3>3 DEF AccountInv, EveryLaunchAccounted, Fireable
    <3> QED
      BY <3>1, <3>2, <3>4 DEF AccountInv, RunningHasChild
  <2>8. ASSUME NEW t \in Tasks, OrphanExit(t)
        PROVE  AccountInv'
    BY <2>8, AccountFrame DEF OrphanExit, loopVars, taskVars, tally
  <2>9. ASSUME NEW d \in {0, 1}, CheckActive(d)
        PROVE  AccountInv'
    <3>1. pc = "active" /\ pc' # "exited"
          /\ UNCHANGED <<state, taskRuns, success, fails, errors, child>>
      BY <2>9 DEF CheckActive, taskVars, tally, procVars
    <3>2. EveryLaunchAccounted'
      BY <3>1, Accounted DEF Uncounted
    <3> QED
      BY <3>1, <3>2 DEF AccountInv, RunningHasChild
  <2>10. CASE LogResults \/ PrintResults \/ WriteResults
    <3>1. pc # "exited" /\ pc' # "exited" /\ (pc' = "active" => pc = "run")
          /\ pc' \notin {"monitor", "run"}
          /\ UNCHANGED <<state, taskRuns, success, fails, errors, child>>
      BY <2>10 DEF LogResults, PrintResults, WriteResults, taskVars, tally, procVars
    <3>2. EveryLaunchAccounted'
      BY <3>1, Accounted DEF Uncounted
    <3> QED
      BY <3>1, <3>2 DEF AccountInv, RunningHasChild
  <2>11. CASE UNCHANGED vars
    BY <2>11, AccountFrame DEF vars, loopVars, taskVars, tally, procVars
  <2>12. ASSUME NEW t \in Tasks, ForkFails(t)
         PROVE  AccountInv'
    <3>1. /\ t \in Fireable /\ pc = "run" /\ pc' = "exited"
          /\ taskRuns' = [taskRuns EXCEPT ![t] = @ + 1]
          /\ UNCHANGED <<state, success, fails, errors, child>>
      BY <2>12 DEF ForkFails, Highest, tally, procVars
    <3>2. \A u \in Tasks : Uncounted(u) = 0
      BY <3>1 DEF AccountInv, EveryLaunchAccounted
    <3>3. Uncounted(t)' = 1
      BY <3>1, <3>2 DEF Uncounted, One, TypeOK
    <3>4. \A u \in Tasks \ {t} : Uncounted(u)' = 0
      BY <3>1, <3>2 DEF Uncounted, TypeOK
    <3>5. t \in Fireable'
      BY <3>1 DEF Fireable
    <3>6. EveryLaunchAccounted'
      BY <3>1, <3>3, <3>4, <3>5 DEF EveryLaunchAccounted
    <3> QED
      BY <3>1, <3>6 DEF AccountInv, RunningHasChild
  <2> QED
    BY <2>1, <2>2, <2>3, <2>4, <2>5, <2>6, <2>7, <2>8, <2>9, <2>10, <2>11, <2>12
    DEF Next, Terminated
<1> QED
  BY <1>1, <1>2, TypeCorrect, OwnershipCorrect, PTL DEF Spec

(* The same by the names the runs check: no launch is lost from the report  *)
(* (handle_task_completion against the counts of run_tasks),                *)
COROLLARY LaunchesAccounted == Spec => []EveryLaunchAccounted
<1>1. AccountInv => EveryLaunchAccounted
  BY DEF AccountInv
<1> QED
  BY <1>1, AccountCorrect, PTL

(* and monitor_tasks never waits for a process that is not there: a running *)
(* task has a child for waitpid to find, until cleanup_tasks.               *)
COROLLARY ChildrenFound == Spec => []RunningHasChild
<1>1. AccountInv => RunningHasChild
  BY DEF AccountInv
<1> QED
  BY <1>1, AccountCorrect, PTL

(****************************************************************************)
(* A weighted voter keeps a reliable core.                                  *)
(****************************************************************************)
(* Steps that touch neither states, cores nor weights.                      *)
LEMMA ReliableFrame ==
  ASSUME VoterCoreReliable, UNCHANGED <<state, cpu, weight>>
  PROVE  VoterCoreReliable'
  BY DEF VoterCoreReliable, Busy

(* A completion lowers the weight of no core but the completed task's, and  *)
(* no other task holds that one.                                            *)
LEMMA CompletionReliable ==
  ASSUME TypeOK, OwnershipInv, VoterCoreReliable, NEW t \in Tasks,
         state[t] = "running", NEW status, HandleTaskCompletion(t, status), cpu' = cpu
  PROVE  VoterCoreReliable'
<1>1. \A u \in Tasks : Busy(u)' => Busy(u) /\ u # t
  BY DEF HandleTaskCompletion, TypeOK, Busy
<1>2. \A u \in Tasks : Busy(u) /\ u # t => cpu[u] # cpu[t]
  BY DEF OwnershipInv, CoreOwnership, Busy
<1>3. \A c \in Cores \ {cpu[t]} : weight'[c] = weight[c]
  BY DEF HandleTaskCompletion, UpdateWeight, TypeOK
<1>4. \A v \in Weighted : v \in Tasks
  BY VoterAssumption
<1> QED
  BY <1>1, <1>2, <1>3, <1>4 DEF VoterCoreReliable, TypeOK

(* Theorem: the core a weighted voter holds stays as reliable as find_core  *)
(* demanded when it chose it.                                               *)
THEOREM ReliableCorrect == Spec => []VoterCoreReliable
<1>1. Init => VoterCoreReliable
  BY VoterAssumption DEF Init, VoterCoreReliable, Busy
<1>2. ASSUME TypeOK, OwnershipInv, VoterCoreReliable, [Next]_vars
      PROVE  VoterCoreReliable'
  <2> USE <1>2
  <2>1. ASSUME NEW t \in Tasks, MonitorReap(t) \/ MonitorStuck(t)
        PROVE  VoterCoreReliable'
    BY <2>1, CompletionReliable DEF MonitorReap, MonitorStuck
  <2>2. ASSUME NEW t \in Tasks, NEW ready \in BOOLEAN, MonitorDispatch(t, ready)
        PROVE  VoterCoreReliable'
    <3>1. ASSUME NEW v \in Weighted, Busy(v)'
          PROVE  weight'[cpu'[v]] >= MinWeight
      <4>1. v \in Tasks /\ weight' = weight
        BY <2>2, VoterAssumption DEF MonitorDispatch
      <4>2. CASE v = t
        BY <2>2, <3>1, <4>1, <4>2
        DEF MonitorDispatch, FindCore, TypeOK, Busy, Turn, Highest, OwnershipInv,
            FireableOnlyWithinPass, Fireable
      <4>3. CASE v # t
        BY <2>2, <3>1, <4>1, <4>3 DEF MonitorDispatch, VoterCoreReliable, TypeOK, Busy
      <4> QED
        BY <4>2, <4>3
    <3> QED
      BY <3>1 DEF VoterCoreReliable
  <2>3. ASSUME NEW t \in Tasks, RunTask(t)
        PROVE  VoterCoreReliable'
    <3>1. \A u \in Tasks : Busy(u)' <=> Busy(u)
      BY <2>3 DEF RunTask, Highest, Fireable, Busy, TypeOK
    <3>2. Weighted \subseteq Tasks
      BY VoterAssumption
    <3> QED
      BY <2>3, <3>1, <3>2 DEF RunTask, VoterCoreReliable, coreVars
  <2>4. ASSUME NEW t \in Tasks,
               \/ MonitorWait(t) \/ Cleanup(t) \/ OrphanExit(t)
               \/ \E s \in Statuses : ChildExit(t, s)
        PROVE  VoterCoreReliable'
    BY <2>4, ReliableFrame DEF MonitorWait, Cleanup, OrphanExit, ChildExit, taskVars, coreVars
  <2>5. CASE \/ \E d \in {0, 1} : CheckActive(d)
             \/ (\E t \in Tasks : ForkFails(t)) \/ LogResults \/ PrintResults \/ WriteResults
    BY <2>5, ReliableFrame DEF CheckActive, ForkFails, LogResults, PrintResults,
                               WriteResults, taskVars, coreVars
  <2>6. CASE UNCHANGED vars
    BY <2>6, ReliableFrame DEF vars, taskVars, coreVars
  <2> QED
    BY <2>1, <2>2, <2>3, <2>4, <2>5, <2>6 DEF Next, Terminated
<1> QED
  BY <1>1, <1>2, TypeCorrect, OwnershipCorrect, PTL DEF Spec

(****************************************************************************)
(* The two counts of a core's runs.                                         *)
(****************************************************************************)
RunsOn(c) == \E t \in Tasks : state[t] = "running" /\ cpu[t] = c

(* Steps that touch neither the counts nor what runs where.                 *)
LEMMA CoreRunsFrame ==
  ASSUME CoreRunsAgree, UNCHANGED <<coreLaunches, coreRuns>>,
         \A t \in Tasks : /\ state'[t] = "running" <=> state[t] = "running"
                          /\ state[t] = "running" => cpu'[t] = cpu[t]
  PROVE  CoreRunsAgree'
<1>1. \A c \in Cores : RunsOn(c)' <=> RunsOn(c)
  BY DEF RunsOn
<1> QED
  BY <1>1 DEF CoreRunsAgree, RunsOn, One

(* A completion counts the run of the one task on its core.                 *)
LEMMA CompletionCoreRuns ==
  ASSUME TypeOK, OwnershipInv, CoreRunsAgree, NEW t \in Tasks, state[t] = "running",
         NEW status, HandleTaskCompletion(t, status), UNCHANGED <<cpu, coreLaunches>>
  PROVE  CoreRunsAgree'
<1> DEFINE k == cpu[t]
<1>1. k \in Cores /\ RunsOn(k)
  BY DEF TypeOK, Busy, RunsOn
<1>2. /\ coreRuns' = [coreRuns EXCEPT ![k] = @ + 1]
      /\ state'[t] # "running"
      /\ \A u \in Tasks \ {t} : state'[u] = state[u]
  BY DEF HandleTaskCompletion, TypeOK
<1>3. \A u \in Tasks \ {t} : state[u] = "running" => cpu[u] # k
  BY DEF OwnershipInv, CoreOwnership, Busy
<1>4. ~RunsOn(k)' /\ \A c \in Cores \ {k} : RunsOn(c)' <=> RunsOn(c)
  BY <1>2, <1>3 DEF RunsOn
<1>5. ASSUME NEW c \in Cores
      PROVE  coreLaunches[c] = coreRuns'[c] + One(RunsOn(c)')
  <2>1. coreLaunches[c] = coreRuns[c] + One(RunsOn(c)) /\ coreRuns[c] \in Nat
    BY DEF CoreRunsAgree, RunsOn, TypeOK
  <2>2. CASE c = k
    <3>1. coreRuns'[c] = coreRuns[c] + 1
      BY <1>2, <2>2 DEF TypeOK
    <3>2. One(RunsOn(c)) = 1 /\ One(RunsOn(c)') = 0
      BY <1>1, <1>4, <2>2 DEF One
    <3> QED
      BY <2>1, <3>1, <3>2
  <2>3. CASE c # k
    <3>1. coreRuns'[c] = coreRuns[c]
      BY <1>2, <2>3 DEF TypeOK
    <3>2. One(RunsOn(c)) = One(RunsOn(c)')
      BY <1>4, <2>3 DEF One
    <3> QED
      BY <2>1, <3>1, <3>2
  <2> QED
    BY <2>2, <2>3
<1> QED
  BY <1>5 DEF CoreRunsAgree, RunsOn

(* A launch counts the run of the one task given its core.                  *)
LEMMA LaunchCoreRuns ==
  ASSUME TypeOK, OwnershipInv, CoreRunsAgree, NEW t \in Tasks, RunTask(t)
  PROVE  CoreRunsAgree'
<1> DEFINE k == cpu[t]
<1>1. state[t] = "fireable" /\ k \in Cores
  BY DEF RunTask, Highest, Fireable, TypeOK, Busy
<1>2. /\ coreLaunches' = [coreLaunches EXCEPT ![k] = @ + 1]
      /\ UNCHANGED <<cpu, coreRuns>>
      /\ state'[t] = "running"
      /\ \A u \in Tasks \ {t} : state'[u] = state[u]
  BY DEF RunTask, coreVars, TypeOK
<1>3. \A u \in Tasks : state[u] = "running" => u # t /\ cpu[u] # k
  BY <1>1 DEF OwnershipInv, CoreOwnership, Busy
<1>4. /\ \A c \in Cores : RunsOn(c)' <=> RunsOn(c) \/ c = k
      /\ \A c \in Cores : RunsOn(c) => c # k
  BY <1>2, <1>3 DEF RunsOn
<1>5. ASSUME NEW c \in Cores
      PROVE  coreLaunches'[c] = coreRuns'[c] + One(RunsOn(c)')
  <2>1. coreLaunches[c] = coreRuns'[c] + One(RunsOn(c)) /\ coreRuns'[c] \in Nat
    BY <1>2 DEF CoreRunsAgree, RunsOn, TypeOK
  <2>2. CASE c = k
    <3>1. coreLaunches'[c] = coreLaunches[c] + 1
      BY <1>2, <2>2 DEF TypeOK
    <3>2. One(RunsOn(c)) = 0 /\ One(RunsOn(c)') = 1
      BY <1>4, <2>2 DEF One
    <3> QED
      BY <2>1, <3>1, <3>2
  <2>3. CASE c # k
    <3>1. coreLaunches'[c] = coreLaunches[c]
      BY <1>2, <2>3 DEF TypeOK
    <3>2. One(RunsOn(c)) = One(RunsOn(c)')
      BY <1>4, <2>3 DEF One
    <3> QED
      BY <2>1, <3>1, <3>2
  <2> QED
    BY <2>2, <2>3
<1> QED
  BY <1>5 DEF CoreRunsAgree, RunsOn

(* Theorem: the launches counted per core by run_tasks and the completions  *)
(* counted by handle_task_completion differ by the task running there.      *)
THEOREM CoreRunsCorrect == Spec => []CoreRunsAgree
<1>1. Init => CoreRunsAgree
  BY DEF Init, CoreRunsAgree, One
<1>2. ASSUME TypeOK, OwnershipInv, CoreRunsAgree, [Next]_vars
      PROVE  CoreRunsAgree'
  <2> USE <1>2
  <2>1. ASSUME NEW t \in Tasks, MonitorReap(t) \/ MonitorStuck(t)
        PROVE  CoreRunsAgree'
    BY <2>1, CompletionCoreRuns DEF MonitorReap, MonitorStuck
  <2>2. ASSUME NEW t \in Tasks, NEW ready \in BOOLEAN, MonitorDispatch(t, ready)
        PROVE  CoreRunsAgree'
    <3>1. \A u \in Tasks : state'[u] = "running" <=> state[u] = "running"
      BY <2>2 DEF MonitorDispatch, TypeOK
    <3>2. \A u \in Tasks : state[u] = "running" => cpu'[u] = cpu[u]
      BY <2>2 DEF MonitorDispatch, TypeOK
    <3> QED
      BY <2>2, <3>1, <3>2, CoreRunsFrame DEF MonitorDispatch
  <2>3. ASSUME NEW t \in Tasks, RunTask(t)
        PROVE  CoreRunsAgree'
    BY <2>3, LaunchCoreRuns
  <2>4. ASSUME NEW t \in Tasks,
               \/ MonitorWait(t) \/ Cleanup(t) \/ OrphanExit(t)
               \/ \E s \in Statuses : ChildExit(t, s)
        PROVE  CoreRunsAgree'
    BY <2>4, CoreRunsFrame DEF MonitorWait, Cleanup, OrphanExit, ChildExit, taskVars, coreVars
  <2>5. CASE \/ \E d \in {0, 1} : CheckActive(d)
             \/ (\E t \in Tasks : ForkFails(t)) \/ LogResults \/ PrintResults \/ WriteResults
    BY <2>5, CoreRunsFrame DEF CheckActive, ForkFails, LogResults, PrintResults,
                               WriteResults, taskVars, coreVars
  <2>6. CASE UNCHANGED vars
    BY <2>6, CoreRunsFrame DEF vars, taskVars, coreVars
  <2> QED
    BY <2>1, <2>2, <2>3, <2>4, <2>5, <2>6 DEF Next, Terminated
<1> QED
  BY <1>1, <1>2, TypeCorrect, OwnershipCorrect, PTL DEF Spec
==============================================================================
