------------------------------ MODULE Scheduler ------------------------------
(****************************************************************************)
(* The scheduler loop (lib/src/scheduler.cpp) with the task, voter and core *)
(* objects it drives: every pass samples the clock, looks at each task in   *)
(* priority order (reaping its process, or dispatching it to a core), and   *)
(* then forks the dispatched tasks.                                         *)
(*                                                                          *)
(* The processes it forks are the environment here: they exit at any time,  *)
(* with any status of Statuses, and select() finds data in a task's pipes   *)
(* whenever it likes.  FlightController closes the system with the programs *)
(* and the pipes.                                                           *)
(*                                                                          *)
(* Each step is the handling of one task within a pass, so that processes   *)
(* exit between any two of them.                                            *)
(****************************************************************************)
EXTENDS Integers, Sequences, FiniteSets, Voter

CONSTANTS
  Tasks,          \* the elements of m_tasks
  Position,       \* a task's index in m_tasks
  Priority,       \* m_priority: higher runs first
  Period,         \* m_period in clock units, 0 for a task driven by its input
  Fed,            \* tasks with an input pipe
  Replicates,     \* m_replicates of each voter; its domain is the voters
  Weighted,       \* voters of type voter_type::weighted
  Cores,          \* 0 .. NUM_OF_CORES - 1
  SchedulerCore,  \* SCHEDULER_CORE, which find_core skips
  BufferSize,     \* CORE_BUFFER_SIZE
  MaxWeight,      \* MAX_CORE_WEIGHT
  MinWeight,      \* the 80 of find_core
  MaxIterations,  \* MAX_ITERATIONS
  MaxStuck,       \* MAX_STUCK_TIME in clock units
  AgeCap,         \* per task: elapsed times from here on are not told apart
  Statuses        \* what waitpid may report of a process

None == -1
VoterTasks == DOMAIN Replicates
Indices(v) == 1 .. Len(Replicates[v])
First == CHOOSE t \in Tasks : Position[t] = 0
Share == MaxWeight \div BufferSize

ASSUME TaskAssumption ==
  /\ IsFiniteSet(Tasks)
  /\ Position \in [Tasks -> Nat]
  /\ \A t, u \in Tasks : Position[t] = Position[u] => t = u
  /\ \E t \in Tasks : Position[t] = 0
  /\ Priority \in [Tasks -> Nat]
  /\ Period \in [Tasks -> Nat]
  /\ AgeCap \in [Tasks -> Nat]
  /\ \A t \in Tasks : Period[t] > 0 => AgeCap[t] > Period[t]
  /\ Fed \subseteq Tasks

ASSUME VoterAssumption ==
  /\ VoterTasks \subseteq Tasks \ Fed
  /\ \A v \in VoterTasks : Replicates[v] \in Seq(Tasks \ VoterTasks)
  /\ Weighted \subseteq VoterTasks

ASSUME CoreAssumption ==
  /\ Cores \in SUBSET Nat
  /\ IsFiniteSet(Cores)
  /\ SchedulerCore \in Nat

ASSUME NumberAssumption ==
  /\ BufferSize \in Nat \ {0}
  /\ MaxWeight \in Nat /\ MaxWeight >= BufferSize
  /\ MinWeight \in Nat
  /\ MaxIterations \in Nat \ {0}
  /\ MaxStuck \in Nat

ASSUME StatusAssumption == Statuses \subseteq {"exit0", "exit1", "exit2", "signal"}

VARIABLES
  pc,         \* where the scheduler is in its loop
  queue,      \* tasks the pass (or the cleanup) has still to handle
  state,      \* m_state
  cpu,        \* m_cpu_id
  taskRuns,   \* m_runs of the tasks
  coreLaunches, \* per core: the sum of the tasks' m_coreRuns
  success,    \* m_success
  fails,      \* m_fails
  errors,     \* m_errors
  latestSet,  \* whether m_latestResult and m_latestStatus were ever written
  age,        \* current time - m_startTime, as of the start of the pass
  armed,      \* m_armed of the voters
  monitor,    \* indices i of a voter with m_replicateMonitor[i].armed
  active,     \* m_active of the cores
  weight,     \* m_weight
  scores,     \* m_scoreBuffer
  coreRuns,   \* m_runs of the cores
  child,      \* the process m_pid names: none, alive, or a status to be reaped
  orphans     \* live processes of the task whose pid was overwritten

loopVars  == <<pc, queue>>
taskVars  == <<state, cpu, taskRuns, coreLaunches, latestSet>>
tally     == <<success, fails, errors>>
voterVars == <<armed, monitor>>
coreVars  == <<active, weight, scores, coreRuns>>
procVars  == <<child, orphans>>
vars == <<loopVars, taskVars, tally, age, voterVars, coreVars, procVars>>

Init ==
  /\ pc = "active"
  /\ queue = {}
  /\ state = [t \in Tasks |-> "idle"]
  /\ cpu = [t \in Tasks |-> None]
  /\ taskRuns = [t \in Tasks |-> 0]
  /\ coreLaunches = [c \in Cores |-> 0]
  /\ success = [t \in Tasks |-> 0]
  /\ fails = [t \in Tasks |-> 0]
  /\ errors = [t \in Tasks |-> 0]
  /\ latestSet = [t \in Tasks |-> FALSE]
  /\ age = AgeCap                       \* m_startTime is 0, the epoch
  /\ armed = [v \in VoterTasks |-> FALSE]
  /\ monitor = [v \in VoterTasks |-> {}]
  /\ active = [c \in Cores |-> FALSE]
  /\ weight = [c \in Cores |-> MaxWeight]
  /\ scores = [c \in Cores |-> [i \in 1 .. BufferSize |-> Share]]
  /\ coreRuns = [c \in Cores |-> 0]
  /\ child = [t \in Tasks |-> "none"]
  /\ orphans = [t \in Tasks |-> 0]

(****************************************************************************)
(* Tasks and voters.                                                        *)
(****************************************************************************)
RunningIndices(v) == {i \in Indices(v) : state[Replicates[v][i]] = "running"}
AliveIndices(v) ==
  {i \in Indices(v) : state[Replicates[v][i]] \notin {"running", "crashed"}}

VoterFires(v) ==
  Fires(armed[v], monitor[v], RunningIndices(v), AliveIndices(v))

(* get_voter_fireable is called once on each voter of V: its answer is      *)
(* VoterFires, and its side effects are these.                              *)
EvaluateVoters(V) ==
  /\ armed' = [v \in VoterTasks |->
       IF v \in V
       THEN ArmedAfter(Len(Replicates[v]), armed[v], monitor[v],
                       RunningIndices(v), AliveIndices(v))
       ELSE armed[v]]
  /\ monitor' = [v \in VoterTasks |->
       IF v \in V
       THEN MonitorAfter(armed[v], monitor[v], RunningIndices(v))
       ELSE monitor[v]]

(* Bug: a period that has just passed is over.                              *)
BugPeriodElapsed(t) == Period[t] = 0 \/ age[t] >= Period[t]

PeriodElapsed(t) == Period[t] = 0 \/ age[t] > Period[t]

(* Bug: a task is taken to have its input.                                  *)
BugInputFull(t, ready) == t \in VoterTasks => VoterFires(t)

(* task_input_full: a voter answers by its replicates, and a task without   *)
(* inputs is always full.  For a fed task the answer is select()'s, which   *)
(* the environment chooses: ready.                                          *)
InputFull(t, ready) ==
  IF t \in VoterTasks THEN VoterFires(t) ELSE t \in Fed => ready

(* m_latestResult and m_latestStatus are uninitialized until set_latest     *)
(* stores a waitpid result that is not 0; is_stuck wants a stored 0.  So it *)
(* may answer TRUE only while it compares uninitialized values, and then    *)
(* either answer is possible.                                               *)
MayBeStuck(t) == age[t] > MaxStuck /\ ~latestSet[t]

(****************************************************************************)
(* Cores.                                                                   *)
(****************************************************************************)
BetterCore(c, d, weighted) ==
  \/ weighted /\ weight[c] > weight[d]
  \/ /\ weighted => weight[c] = weight[d]
     /\ \/ coreRuns[c] < coreRuns[d]
        \/ coreRuns[c] = coreRuns[d] /\ c < d

(* Bug: the core need not be free.                                          *)
BugCandidates == Cores \ {SchedulerCore}

Candidates == {c \in Cores \ {SchedulerCore} : ~active[c]}

(* Bug: no threshold for a weighted voter.                                  *)
BugFindCore(weighted) ==
  {c \in Candidates : \A d \in Candidates \ {c} : BetterCore(c, d, weighted)}

(* The cores find_core may answer: the best candidate, unless a weighted    *)
(* voter finds it unreliable.  At most one, and none means -1.              *)
FindCore(weighted) ==
  {c \in Candidates :
     /\ \A d \in Candidates \ {c} : BetterCore(c, d, weighted)
     /\ weighted => weight[c] >= MinWeight}

AtMost(x, bound) == IF x > bound THEN bound ELSE x

(* Bug: the score that leaves the buffer is taken to be a success.          *)
BugUpdateWeight(c, score) ==
  /\ weight' = [weight EXCEPT ![c] = AtMost(@ - Share + score, MaxWeight)]
  /\ scores' = [scores EXCEPT ![c] = Append(Tail(@), score)]

(* Bug: the newest score leaves the weight, the oldest the buffer.          *)
BugUpdateNewest(c, score) ==
  /\ weight' = [weight EXCEPT ![c] =
                  AtMost(@ - scores[c][BufferSize] + score, MaxWeight)]
  /\ scores' = [scores EXCEPT ![c] = Append(Tail(@), score)]

(* Bug: nothing leaves the buffer.                                          *)
BugUpdateScores(c, score) ==
  /\ weight' = [weight EXCEPT ![c] = AtMost(@ - Head(scores[c]) + score, MaxWeight)]
  /\ scores' = [scores EXCEPT ![c] = Append(@, score)]

(* update_weight: the oldest score leaves the window, score enters it.      *)
UpdateWeight(c, score) ==
  /\ weight' = [weight EXCEPT ![c] = AtMost(@ - Head(scores[c]) + score, MaxWeight)]
  /\ scores' = [scores EXCEPT ![c] = Append(Tail(@), score)]

Bump(f, x, when) == [f EXCEPT ![x] = IF when THEN @ + 1 ELSE @]

(* The completion with one of its parts left out: next is the state given   *)
(* to the task, failed the statuses counted as fails, freed whether its     *)
(* core is released, counted whether the core's run is counted.             *)
Completion(t, status, next, failed, freed, counted) ==
  LET c == cpu[t] IN
  /\ state' = [state EXCEPT ![t] = next]
  /\ success' = Bump(success, t, status = "exit0")
  /\ errors' = Bump(errors, t, status = "exit2")
  /\ fails' = Bump(fails, t, status \in failed)
  /\ IF status = "lost"
     THEN UNCHANGED <<weight, scores>>
     ELSE UpdateWeight(c, IF status = "exit0" THEN Share ELSE 0)
  /\ coreRuns' = Bump(coreRuns, c, counted)
  /\ active' = [active EXCEPT ![c] = ~freed]

After(status) == IF status \in {"exit0", "lost"} THEN "idle" ELSE "crashed"

(* Bug: an exit status 2 counts as an error and as a fail.                  *)
BugCountError(t, status) ==
  Completion(t, status, After(status), {"exit1", "exit2", "signal"}, TRUE, TRUE)

(* Bug: a signalled process is not counted.                                 *)
BugCountSignal(t, status) == Completion(t, status, After(status), {"exit1"}, TRUE, TRUE)

(* Bug: a failed process leaves its task running.                           *)
BugKeepState(t, status) ==
  Completion(t, status, IF status = "exit0" THEN "idle" ELSE state[t],
             {"exit1", "signal"}, TRUE, TRUE)

(* Bug: the core of a failed process is not released.                       *)
BugKeepCore(t, status) ==
  Completion(t, status, After(status), {"exit1", "signal"}, status = "exit0", TRUE)

(* Bug: only successful runs are counted for the core.                      *)
BugCoreRuns(t, status) ==
  Completion(t, status, After(status), {"exit1", "signal"}, TRUE, status = "exit0")

(* Bug: no core is ever released.                                           *)
BugKeepCores(t, status) ==
  Completion(t, status, After(status), {"exit1", "signal"}, FALSE, TRUE)

(* handle_task_completion with the status waitpid reported.  "lost" is      *)
(* waitpid's -1.                                                            *)
HandleTaskCompletion(t, status) ==
  LET c == cpu[t] IN
  /\ state' = [state EXCEPT ![t] =
                 IF status \in {"exit0", "lost"} THEN "idle" ELSE "crashed"]
  /\ success' = Bump(success, t, status = "exit0")
  /\ errors' = Bump(errors, t, status = "exit2")
  /\ fails' = Bump(fails, t, status \in {"exit1", "signal"})
  /\ IF status = "lost"
     THEN UNCHANGED <<weight, scores>>
     ELSE UpdateWeight(c, IF status = "exit0" THEN Share ELSE 0)
  /\ coreRuns' = [coreRuns EXCEPT ![c] = @ + 1]
  /\ active' = [active EXCEPT ![c] = FALSE]

(****************************************************************************)
(* active(): the loop goes on while the first task was launched fewer than  *)
(* MaxIterations times.  Its usleep is where the clock advances.            *)
(****************************************************************************)
CheckActive(d) ==
  /\ pc = "active"
  /\ age' = [t \in Tasks |-> AtMost(age[t] + d, AgeCap[t])]
  /\ IF taskRuns[First] >= MaxIterations
     THEN pc' = "results" /\ queue' = {}
     ELSE pc' = "monitor" /\ queue' = Tasks
  /\ UNCHANGED <<taskVars, tally, voterVars, coreVars, procVars>>

(****************************************************************************)
(* monitor_tasks: the turn of one task, popped from the priority queue.     *)
(* Tasks of equal priority come in any order.                               *)
(****************************************************************************)
(* Bug: the lowest priority comes first.                                     *)
BugHighest(S) == {t \in S : \A u \in S : Priority[t] <= Priority[u]}

Highest(S) == {t \in S : \A u \in S : Priority[u] <= Priority[t]}

Turn(t) ==
  /\ pc = "monitor"
  /\ t \in Highest(queue)
  /\ queue' = queue \ {t}
  /\ pc' = IF queue = {t} THEN "run" ELSE "monitor"

(* waitpid returns the process, or -1 when m_pid is no child any more.      *)
MonitorReap(t) ==
  /\ Turn(t)
  /\ state[t] = "running"
  /\ child[t] # "alive"
  /\ child' = [child EXCEPT ![t] = "none"]
  /\ latestSet' = [latestSet EXCEPT ![t] = TRUE]
  /\ HandleTaskCompletion(t, IF child[t] = "none" THEN "lost" ELSE child[t])
  /\ UNCHANGED <<cpu, taskRuns, coreLaunches, age, voterVars, orphans>>

(* The process is alive and judged stuck: it is completed as if it had been *)
(* signalled (status 1), but nobody kills it.                               *)
MonitorStuck(t) ==
  /\ Turn(t)
  /\ state[t] = "running"
  /\ child[t] = "alive"
  /\ MayBeStuck(t)
  /\ HandleTaskCompletion(t, "signal")
  /\ UNCHANGED <<cpu, taskRuns, coreLaunches, latestSet, age, voterVars, procVars>>

(* The process is alive and not stuck.  task_input_full is still evaluated, *)
(* before the state is looked at.                                           *)
MonitorWait(t) ==
  /\ Turn(t)
  /\ state[t] = "running"
  /\ child[t] = "alive"
  /\ EvaluateVoters({t})
  /\ UNCHANGED <<taskVars, tally, age, coreVars, procVars>>

(* The task is not running: it gets a core if its input is there, its       *)
(* period has elapsed and find_core has one; it is idle if there is none.   *)
MonitorDispatch(t, ready) ==
  /\ Turn(t)
  /\ state[t] # "running"
  /\ EvaluateVoters({t})
  /\ IF InputFull(t, ready) /\ PeriodElapsed(t)
     THEN LET found == FindCore(t \in Weighted) IN
          \/ /\ found = {}
             /\ state' = [state EXCEPT ![t] = "idle"]
             /\ UNCHANGED <<cpu, active>>
          \/ \E c \in found :
             /\ state' = [state EXCEPT ![t] = "fireable"]
             /\ cpu' = [cpu EXCEPT ![t] = c]
             /\ active' = [active EXCEPT ![c] = TRUE]
     ELSE UNCHANGED <<state, cpu, active>>
  /\ UNCHANGED <<taskRuns, coreLaunches, latestSet, tally, age, weight, scores,
                 coreRuns, procVars>>

(****************************************************************************)
(* run_tasks: the fireable tasks are forked in priority order.              *)
(****************************************************************************)
Fireable == {t \in Tasks : state[t] = "fireable"}

RunTask(t) ==
  /\ pc = "run"
  /\ t \in Highest(Fireable)
  /\ age' = [age EXCEPT ![t] = 0]
  /\ taskRuns' = [taskRuns EXCEPT ![t] = @ + 1]
  /\ coreLaunches' = [coreLaunches EXCEPT ![cpu[t]] = @ + 1]
  /\ child' = [child EXCEPT ![t] = "alive"]
  /\ orphans' = Bump(orphans, t, child[t] = "alive")
  /\ state' = [state EXCEPT ![t] = "running"]
  /\ UNCHANGED <<loopVars, cpu, latestSet, tally, voterVars, coreVars>>

(* fork() fails: the scheduler exits at once, with the launch counted, its  *)
(* core taken and other processes running.                                  *)
ForkFails(t) ==
  /\ pc = "run"
  /\ t \in Highest(Fireable)
  /\ age' = [age EXCEPT ![t] = 0]
  /\ taskRuns' = [taskRuns EXCEPT ![t] = @ + 1]
  /\ pc' = "exited"
  /\ UNCHANGED <<queue, state, cpu, coreLaunches, latestSet, tally, voterVars,
                 coreVars, procVars>>

(* Bug: run_tasks may return before its queue is empty.                     *)
BugLogResults ==
  /\ pc = "run"
  /\ pc' = "active"
  /\ UNCHANGED <<queue, taskVars, tally, age, voterVars, coreVars, procVars>>

(* run_tasks has emptied its queue; log_results keeps a copy of the state   *)
(* for the report and changes nothing.                                      *)
LogResults ==
  /\ pc = "run"
  /\ Fireable = {}
  /\ pc' = "active"
  /\ UNCHANGED <<queue, taskVars, tally, age, voterVars, coreVars, procVars>>

(****************************************************************************)
(* After the loop: both reports end with task_input_full of every task,     *)
(* which evaluates the voters once more; then every task is terminated.     *)
(****************************************************************************)
ReportTasks == EvaluateVoters(VoterTasks)

PrintResults ==
  /\ pc = "results"
  /\ pc' = "write"
  /\ ReportTasks
  /\ UNCHANGED <<queue, taskVars, tally, age, coreVars, procVars>>

(* write_results_to_tsv stops early when a directory or file cannot be made *)
WriteResults ==
  /\ pc = "write"
  /\ pc' = "cleanup"
  /\ queue' = Tasks
  /\ ReportTasks \/ UNCHANGED voterVars
  /\ UNCHANGED <<taskVars, tally, age, coreVars, procVars>>

(* Bug: the cleanup waits for an exit that was collected before.            *)
BugCleanup(t) ==
  /\ pc = "cleanup"
  /\ t \in queue
  /\ child[t] = "alive"
  /\ queue' = queue \ {t}
  /\ pc' = IF queue = {t} THEN "done" ELSE "cleanup"
  /\ child' = [child EXCEPT ![t] = "none"]
  /\ UNCHANGED <<orphans, taskVars, tally, age, voterVars, coreVars>>

(* Bug: the cleanup waits for a process to end without telling it to.       *)
BugCleanupWait(t) ==
  /\ pc = "cleanup"
  /\ t \in queue
  /\ \A u \in queue : Position[t] <= Position[u]
  /\ child[t] # "alive"
  /\ queue' = queue \ {t}
  /\ pc' = IF queue = {t} THEN "done" ELSE "cleanup"
  /\ child' = [child EXCEPT ![t] = "none"]
  /\ UNCHANGED <<orphans, taskVars, tally, age, voterVars, coreVars>>

(* cleanup_scheduler: SIGTERM and a blocking waitpid on m_pid, in the order *)
(* of m_tasks.  The pid of a task that never ran is uninitialized: it may   *)
(* name nothing, or, as 0, the process group, the scheduler included.       *)
Cleanup(t) ==
  /\ pc = "cleanup"
  /\ t \in queue
  /\ \A u \in queue : Position[t] <= Position[u]
  /\ \/ /\ queue' = queue \ {t}
        /\ pc' = IF queue = {t} THEN "done" ELSE "cleanup"
        /\ child' = [child EXCEPT ![t] = "none"]
        /\ UNCHANGED orphans
     \/ /\ taskRuns[t] = 0
        /\ pc' = "killed"
        /\ child' = [u \in Tasks |-> "none"]
        /\ orphans' = [u \in Tasks |-> 0]
        /\ UNCHANGED queue
  /\ UNCHANGED <<taskVars, tally, age, voterVars, coreVars>>

(****************************************************************************)
(* The environment: processes end.                                          *)
(****************************************************************************)
ChildExit(t, s) ==
  /\ child[t] = "alive"
  /\ child' = [child EXCEPT ![t] = s]
  /\ UNCHANGED <<loopVars, taskVars, tally, age, voterVars, coreVars, orphans>>

OrphanExit(t) ==
  /\ orphans[t] > 0
  /\ orphans' = [orphans EXCEPT ![t] = @ - 1]
  /\ UNCHANGED <<loopVars, taskVars, tally, age, voterVars, coreVars, child>>

Terminated ==
  /\ pc \in {"done", "exited", "killed"}
  /\ UNCHANGED vars

Next ==
  \/ \E d \in {0, 1} : CheckActive(d)
  \/ \E t \in Tasks :
       \/ MonitorReap(t)
       \/ MonitorStuck(t)
       \/ MonitorWait(t)
       \/ \E ready \in BOOLEAN : MonitorDispatch(t, ready)
       \/ RunTask(t)
       \/ ForkFails(t)
       \/ Cleanup(t)
       \/ \E s \in Statuses : ChildExit(t, s)
       \/ OrphanExit(t)
  \/ LogResults
  \/ PrintResults
  \/ WriteResults
  \/ Terminated

Spec == Init /\ [][Next]_vars

(****************************************************************************)
(* Properties.                                                              *)
(****************************************************************************)
Busy(t) == state[t] \in {"fireable", "running"}
One(P) == IF P THEN 1 ELSE 0

(* Every variable has its type; in particular a core id, once given to a    *)
(* busy task, is one of find_core's (m_cores[t->get_cpu_id()] is in range). *)
TypeOK ==
  /\ pc \in {"active", "monitor", "run", "results", "write", "cleanup",
             "done", "exited", "killed"}
  /\ queue \subseteq Tasks
  /\ state \in [Tasks -> {"idle", "fireable", "running", "crashed"}]
  /\ cpu \in [Tasks -> Cores \cup {None}]
  /\ \A t \in Tasks : Busy(t) => cpu[t] \in Cores \ {SchedulerCore}
  /\ taskRuns \in [Tasks -> Nat] /\ coreLaunches \in [Cores -> Nat]
  /\ success \in [Tasks -> Nat] /\ fails \in [Tasks -> Nat] /\ errors \in [Tasks -> Nat]
  /\ latestSet \in [Tasks -> BOOLEAN]
  /\ age \in [Tasks -> Nat]
  /\ armed \in [VoterTasks -> BOOLEAN]
  /\ monitor \in [VoterTasks -> SUBSET Nat]
  /\ \A v \in VoterTasks : monitor[v] \subseteq Indices(v)
  /\ active \in [Cores -> BOOLEAN]
  /\ weight \in [Cores -> Int]
  /\ scores \in [Cores -> Seq(Int)]
  /\ \A c \in Cores : Len(scores[c]) = BufferSize
  /\ coreRuns \in [Cores -> Nat]
  /\ child \in [Tasks -> {"none", "alive"} \cup Statuses]
  /\ orphans \in [Tasks -> Nat]

(* find_core, handle_task_completion and monitor_tasks agree on the cores:  *)
(* a core is active exactly while one task is dispatched to it or runs on   *)
(* it.  No core is leaked, and no two tasks share one.                      *)
CoreOwnership ==
  /\ \A c \in Cores : active[c] => \E t \in Tasks : Busy(t) /\ cpu[t] = c
  /\ \A t \in Tasks : Busy(t) => active[cpu[t]]
  /\ \A t, u \in Tasks : Busy(t) /\ Busy(u) /\ cpu[t] = cpu[u] => t = u

(* A task dispatched by monitor_tasks is launched by the run_tasks of the   *)
(* same pass: none is met "fireable" in its turn, where a second dispatch   *)
(* would leak the core of the first.                                        *)
FireableOnlyWithinPass ==
  /\ pc \notin {"monitor", "run", "exited"} => Fireable = {}
  /\ pc = "monitor" => queue \cap Fireable = {}

(* Each launch counted by run_tasks is counted once more, as a success, a   *)
(* fail or an error, or is still running: the total the report prints for a *)
(* task differs from the loop's own count by the launch in progress.  Only  *)
(* a fork() that fails leaves a launch that is neither, and just this one,  *)
(* of a task that has its core; no report follows.                          *)
Uncounted(t) ==
  taskRuns[t] - (success[t] + fails[t] + errors[t] + One(state[t] = "running"))

EveryLaunchAccounted ==
  /\ pc # "exited" => \A t \in Tasks : Uncounted(t) = 0
  /\ pc = "exited" => \E t \in Fireable :
       Uncounted(t) = 1 /\ \A u \in Tasks \ {t} : Uncounted(u) = 0

(* m_weight, updated by differences, is what the score buffer says: the     *)
(* maximum less one share for each of the core's last BufferSize            *)
(* completions that failed.                                                 *)
WeightIsWindow ==
  \A c \in Cores :
    weight[c] = MaxWeight
                - Share * Cardinality({i \in DOMAIN scores[c] : scores[c][i] = 0})

(* A weighted voter runs, to its end, on a core that find_core would still  *)
(* call reliable: nothing lowers the weight of a core while a task holds it.*)
VoterCoreReliable ==
  \A v \in Weighted : Busy(v) => weight[cpu[v]] >= MinWeight

(* A voter is launched at most once for each launch of any of its           *)
(* replicates, whatever order they are seen to start, crash and finish in:  *)
(* it never votes twice on one round.                                       *)
VoterNeverAhead ==
  \A v \in VoterTasks : \A i \in Indices(v) :
    taskRuns[v] <= taskRuns[Replicates[v][i]]

(* What makes the voter count right, replicate by replicate: each launch of *)
(* a replicate is used up by one launch of the voter (done, or decided: the *)
(* voter is fireable), by the voter's having seen it run, or by its present *)
(* run if the voter has not seen it yet.  A fireable voter has not been     *)
(* counted, but for one whose fork() failed.                                *)
Owed(v, i) ==
  One(armed[v] \/ i \in monitor[v])
  + One(state[Replicates[v][i]] = "running" /\ i \notin monitor[v])

Decided(v) == One(state[v] = "fireable" /\ pc # "exited")

VoteBudget ==
  \A v \in VoterTasks : \A i \in Indices(v) :
    taskRuns[Replicates[v][i]]
      >= taskRuns[v] + Decided(v) + Owed(v, i)

(* The scheduler waits only for processes it has: waitpid never answers -1  *)
(* while the loop runs, so no completion is lost to that branch.            *)
RunningHasChild ==
  \A t \in Tasks :
    state[t] = "running" /\ pc \in {"active", "monitor", "run"}
      => child[t] # "none"

(* Where a launch counts in a core's report lines: task.cpp's m_coreRuns,   *)
(* counted at the launch, and core.h's m_runs, counted at the completion,   *)
(* agree on every core but for the task that is running on it.              *)
CoreRunsAgree ==
  \A c \in Cores :
    coreLaunches[c] = coreRuns[c] + One(\E t \in Tasks : state[t] = "running" /\ cpu[t] = c)

(****************************************************************************)
(* Refinements.                                                             *)
(****************************************************************************)
(* The scheduler is a core pool that judges a core by its last BufferSize   *)
(* completions: the float weights, the score queues, the active flags and   *)
(* the scan of find_core come to nothing else, stuck tasks and every order  *)
(* of completions included.                                                 *)
CP == INSTANCE CorePool WITH
  Users <- Tasks,
  Critical <- Weighted,
  Pool <- Cores \ {SchedulerCore},
  Nowhere <- None,
  Window <- BufferSize,
  Tolerable <- {n \in 0 .. BufferSize : MaxWeight - Share * n >= MinWeight},
  place <- [t \in Tasks |-> IF Busy(t) THEN cpu[t] ELSE None],
  record <- [c \in Cores \ {SchedulerCore} |->
               [i \in 1 .. BufferSize |-> scores[c][i] = 0]]

PoolRefinement == CP!PoolSpec

(* A voter holds rounds of one run of each replicate: its polls of their    *)
(* states, once per pass, miss no run and no end of one.                    *)
VR == INSTANCE VotingRound WITH
  Voters <- VoterTasks,
  Members <- [v \in VoterTasks |-> Indices(v)],
  ran <- [v \in VoterTasks |->
            IF armed[v] THEN Indices(v) ELSE monitor[v] \cup RunningIndices(v)],
  running <- [v \in VoterTasks |-> RunningIndices(v)]

RoundRefinement == VR!RoundSpec

(* What the rounds of get_voter_fireable rest on: in a pass a voter looks   *)
(* at its replicates before their turns come (the priorities of main), and  *)
(* each is added to it once (add_replicate);                                *)
VotersFirst ==
  \A v \in VoterTasks : \A i \in Indices(v) :
    /\ Priority[Replicates[v][i]] < Priority[v]
    /\ \A j \in Indices(v) : Replicates[v][i] = Replicates[v][j] => i = j

(* and what the scheduler leaves to the periods and the pipes: a replicate  *)
(* is launched only while its voter neither runs nor waits, nor still holds *)
(* its last run.                                                            *)
LaunchesApart ==
  \A v \in VoterTasks : \A i \in Indices(v) :
    state[Replicates[v][i]] # "running" /\ state'[Replicates[v][i]] = "running"
      => state[v] # "running" /\ ~armed[v] /\ i \notin monitor[v]

RoundsApart == [][LaunchesApart]_vars

(****************************************************************************)
(* What scheduler.h says, and scheduler.cpp does not do.                    *)
(****************************************************************************)
(* monitor_tasks marks a task as crashed when it is stuck: none that it     *)
(* leaves running has run for longer than MAX_STUCK_TIME, "max time a task  *)
(* may stay in the same state" (asked of tasks for which is_stuck compares  *)
(* values that were stored).                                                *)
StuckMarkedCrashed ==
  pc = "run" =>
    \A t \in Tasks : state[t] = "running" /\ latestSet[t] => age[t] <= MaxStuck

(* find_core: -1 if no free core is found, else the core it found.  So a    *)
(* voter that has its vote is launched unless all cores are taken.          *)
VoterGetsFreeCore ==
  [][\A v \in VoterTasks :
       pc = "monitor" /\ state[v] # "running" /\ armed[v] /\ ~armed'[v]
         => Candidates = {} \/ state'[v] = "fireable"]_vars
==============================================================================
