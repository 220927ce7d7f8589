# RAV-NMR: a verification development

RAV-NMR is a user-space scheduler that runs replicated tasks as processes, lets
a voter compare their answers, and keeps a reliability weight per CPU core. This
directory holds TLA+ models of it, their model-checking configurations and
machine-checked proofs. Paths below are relative to the repository's root
(`src/` in `PROJECT.json`).

## 1. The system

| Part | State | Operations | What makes it correct |
| --- | --- | --- | --- |
| scheduler loop (`lib/src/scheduler.cpp`) | the task and core lists, the pass in progress, the log timeout | `init_scheduler`, `active`, `monitor_tasks`, `handle_task_completion`, `find_core`, `run_tasks`, `log_results`, `printResults`, `write_results_to_tsv`, `cleanup_scheduler` | cores are neither leaked nor shared; every launch is accounted for once; the loop and the cleanup end |
| task (`task.cpp`, `task.h`) | state, core, start time, run and result counters, pid, last `waitpid` result | `period_elapsed`, `offset_elapsed`, `is_stuck`, `task_input_full` | a task runs when its inputs and its period say so; a stuck one is noticed |
| voter (`voter.cpp`) | an armed flag for itself and one per replicate | `add_replicate`, `get_voter_fireable` | one vote per round, after the replicates have finished |
| core (`core.cpp`) | active flag, runs, weight, window of scores | `update_weight` | the weight is what the window says |
| pipe (`pipe.cpp`) | the kernel's byte stream | `read_data`, `write_data` | texts stay apart and in order |
| programs (`benchmark/src/flight_controller.cpp`) | none beyond a process's life | `read_sensors`, `process_data*`, `majority_voter`, `control_actuators` | a fault in one replicate does not reach the actuators |
| wiring (`main.cpp`) | tasks, pipes and replicates of the NMR, RAV-NMR and baseline builds | - | each build handles its samples in order |
| result log (`result.cpp`) | rows of counters and weights | `log_results` adds one per interval | rows keep coming |
| report files, timer, build | output files | - | not state of the system |

The scheduler is one thread. Every pass samples the clock once, looks at all
tasks in priority order (`waitpid(WNOHANG)` on the running ones, dispatch of the
others), and then forks what it dispatched. The processes run beside it, talk
to each other through pipes, and tell the scheduler only their exit status; the
scheduler learns that data is there by `select`. So the hard behaviours are:
processes ending between any two steps of a pass; replicates that start, crash
and finish in different orders while the voter samples their states; messages
left behind by a crash; reads that drain more than one message; processes that
outlive the time they were given; failures that lower the weight of every core
at once, so that votes are lost and answers pile up; a wall clock that is set
while periods are measured with it; a loop that ends with work in progress.
`PROJECT.json` lists them under `hazards`, each at its line.

## 2. The modules

```
Voter --- Scheduler --+-- FlightController --- MCNmr ------- MCRav
             |        |      (Pipe)      \---- MCBaseline --- MCFullPipe
             |        |                   (Main, Programs)
             |        +-- MCNmrScheduler, MCBaselineScheduler
             +-- implements CorePool and, without faults, VotingRound
Timing --- MCTiming
```

**`Voter`** - `get_voter_fireable` as operators on its two levels of flags. One
call is `Fires` (its answer), `ArmedAfter` and `MonitorAfter` (its side effects),
including the early return at the first blocking replicate and the armed voter
with nothing left to wait for after all replicates crashed.

**`Scheduler`** - the loop with its tasks, voters and cores, one action per task
and pass, so that processes exit between any two of them. The environment is
open: a process may end at any time with any status of `Statuses`, and `select`
may answer anything. `MonitorReap`, `MonitorStuck`, `MonitorWait` and
`MonitorDispatch` are the four ways through `monitor_tasks` for a task
(`Turn` is the pop from the priority queue); `RunTask` is the launch of one
fireable task; `CheckActive` is `active()`; `PrintResults` and `WriteResults` are
the reports, which evaluate the voters as a side effect; `Cleanup` handles one
task of `cleanup_scheduler`. `ForkFails` is a launch whose `fork` fails: the run is
counted and its start time taken, and then the scheduler exits.

| variable | code |
| --- | --- |
| `pc`, `queue` | the position in the loop and the task queue of the pass |
| `state`, `cpu`, `taskRuns`, `success`, `fails`, `errors` | `m_state`, `m_cpu_id`, `m_runs`, `m_success`, `m_fails`, `m_errors` |
| `latestSet` | whether `m_latestResult` and `m_latestStatus` were ever stored |
| `age` | the pass's time minus `m_startTime`, capped by `AgeCap` |
| `armed`, `monitor` | `m_armed`, the set flags of `m_replicateMonitor` |
| `active`, `weight`, `scores`, `coreRuns` | `m_active`, `m_weight`, `m_scoreBuffer`, the cores' `m_runs` |
| `coreLaunches` | per core, the sum of the tasks' `m_coreRuns` for it |
| `child` | the process `m_pid` names: none, alive, or its uncollected status |
| `orphans` | live processes whose pid was overwritten by a later launch |

What is abstracted there, and why it may be:
  - weights are integers: the float only ever holds sums of the integer share;
  - `m_latestResult`, `m_latestStatus` and `status` are read uninitialized by
    `is_stuck` until the first reap. `MayBeStuck` makes that a choice; after the
    first reap the test cannot be true, because `set_latest` never stores 0;
  - the pid of a task that never ran is uninitialized in the cleanup: it may name
    nothing, or as 0 the scheduler's own process group (`pc = "killed"`);
  - clock readings are ages here; the readings themselves, and the startup
    offsets, are in `Timing`. `main` sets no offset;
  - `m_runTime` and the rows of the result log are only printed;
  - a pid is not reused while it is in a task;
  - the collected status of an orphan is nobody's, so an orphan just ends.

**`CorePool`** - what the cores promise, without weights, scores and active flags:
a pool from which a task takes at most one core at a time, and for each core the
record of which of its last completions failed. A critical task takes a free core
with the fewest failures, if that number is tolerable. `Scheduler!PoolRefinement`
maps `m_cpu_id` of busy tasks and `m_scoreBuffer` to it, so every dispatch,
completion and stuck verdict is a `Take`, a `Return` or a stutter.

**`VotingRound`** - what a voter promises, without flags, polls and passes: each
replicate runs once in a round, and the vote is called when all have run and none
runs. `Scheduler!RoundRefinement` reads `ran` off the flags (all of them once
armed) and `running` off the tasks' states. It holds of the pipeline without
faults; the early vote below is where it ends.

**`Pipe`** - a pipe as the sequence of the texts in it with their lengths. A
read takes up to 63 bytes, the reader sees the first text, and a text cut in two
leaves a fragment at the head.

**`FlightController`** - extends `Scheduler` with the programs (`Sample`,
`ReadInput`, `WriteOutput`, `Finish`), the pipes, and faults (`Crash`, wrong
texts). A task is `Prone` to them if it is in `faulty`, a set chosen at the start
from `FaultSets`, or if it runs on a core that fails in this round: `outage` lists
the failing cores per launch of the source. A message carries a ghost `round`,
the launch of the source it derives from; the text is abstracted to `"good"`, which is
the text the consumers `strcmp` with, or a wrong one. The replicates
`process_data_1`, `_2`, `_3` are one definition, as they differ in their pipes
only; so are the three builds' versions. A task that was judged stuck and is
launched again leaves its old process in `strays`: it writes what it had left to
write (`StrayWrite`) and exits unseen (`StrayExit`).

**`Programs`** - each program of `flight_controller.cpp` as data, build by build: the pipes
it reads and writes, in order, the text it accepts and the one it sends, and the milliseconds
of its busy loop.

**`Main`** - the builds of `main.cpp` as data: tasks in the order of `add_task`,
priorities, periods, pipes, inputs, programs, replicates, and whether the voter is weighted.
`ProgramsFit` says that the scheduler watches the pipes a program reads and that the text a program
accepts is the one that is sent to it; TLC evaluates it for each build, and it is why one value,
`"good"`, may stand for the text of every pipe.

**`Timing`** - the readings of the wall clock: periods, startup offsets and stuck
times as unsigned differences (`Since`, modulo `Modulus`), the time-based
`active()` in whole seconds, the log interval in signed numbers. The pass's one
reading, the launch's own, and the row's are separate steps with time between
them, and `SetClock` sets the clock back or forth. Cores, inputs and exit
statuses are left out, as no reading depends on them.

**`MC*`** give the constants their values. `MCNmr`, `MCRav`, `MCBaseline` and `MCFullPipe` take
theirs from `Main` and `Programs`, busy times in units of the clock and lengths in bytes; the priorities of `MCNmr` spell out the order in which
g++'s heap pops the tasks `main` pushes. **`*Proofs`** hold the theorems
(section 4): `SchedulerProofs`, `VoteProofs`, `CompletionProofs` and `PoolProofs`
those of the open scheduler, `TimingProofs` those of the clock, `PipelineProofs`
those of every closed pipeline, `SampleProofs` those of the pipelines without
replicates, `NmrProofs` those of the pipelines with a standard voter.

Operators named `Bug...` are plausible mistakes in the operation defined after
them. No specification uses them: each shows, put in the place of the right
definition, that a property notices the mistake.

## 3. What is checked

Runs that pass:

| run | model | properties |
| --- | --- | --- |
| `nmr_scheduler` | open scheduler; periodic A, replicates B1 and B2, weighted voter V, two usable cores of three | `TypeOK`, `CoreOwnership`, `FireableOnlyWithinPass`, `EveryLaunchAccounted`, `WeightIsWindow`, `VoterCoreReliable`, `VoterNeverAhead`, `VoteBudget`, `RunningHasChild`, `PoolRefinement` |
| `baseline_scheduler` | open scheduler; A, B, C, three cores; processes outlive the stuck time, so tasks are given up and launched next to their old process | `CoreOwnership`, `EveryLaunchAccounted`, `WeightIsWindow`, `RunningHasChild`, `CoreRunsAgree` |
| `nmr` | closed NMR pipeline, no faults, processes of different speeds, fairness | `VoteSameRound`, `VoteAfterCompletion`, `NoSampleSkipped`, `Termination`, `EverySampleActuated`, `RoundRefinement`, `RoundsApart` |
| `nmr_fault` | closed NMR pipeline, any one replicate crashes anywhere, any number of times, or computes a wrong text | `VoteSameRound`, `FaultContained`, `VoteKeepsPace`, `InputFound`, `ActuatorsKeepPace`, `PipesShort` |
| `baseline_slow` | closed baseline pipeline whose B takes as long as it likes; it may be given up at `MAX_STUCK_TIME` and launched next to its old process, and reads cut texts | `NoSampleRepeated`, `InputFound`, `RefusalsPaid`, `Termination` |
| `full_pipe` | closed baseline pipeline whose A and B take from no time to as long as they like, with pipes that hold two texts of A or one of B | `Termination` |
| `rav_nmr` | closed RAV-NMR pipeline; all four cores fail in one round, or three in the first round and all in the second, or all in three rounds | `VotesResume`, `CutsBounded` |
| `timing` | a periodic task on a clock that is set twice, by -9 or 5 units, anywhere; up to 2 units between two calls of `active` | `SettingCostsOnce`, `NoTaskHeld`, `LogKeepsUp`, `RunsItsTime` |

Runs that show where the code leaves its own documentation:

| run | what happens | the text |
| --- | --- | --- |
| `early_vote` | After a round in which all replicates crashed, the voter is still armed with every flag cleared. In the next round it fires as soon as one replicate has finished, while others run. | `voter.cpp:54`, `:75` |
| `stuck` | A task that was reaped once is never judged stuck, however old its process. | `scheduler.h:83`, `defines.h:11` |
| `free_core` | `find_core(true)` answers -1 although a core is free, since its weight is below 80; the voter was disarmed before, so its vote is lost. | `scheduler.h:175` |
| `offset` | A task with a startup offset is launched in the first pass: `offset_elapsed` subtracts the activation time in seconds from the pass's time in milliseconds. | `task.h:102`, `scheduler.h:81` |

One more has no run of its own, as it is read off `CheckActive`: the loop ends on the launch of the
last run of the first task, not on its success or failure, which is what `scheduler.h:186` says.

The early vote needs no fault of two replicates: one wrong text of the source is
refused by all of them. A single replicate that crashes before its read can show
it as well, as it is launched again for the sample it left, with its flag
already cleared. What `nmr_fault` shows is that such a retry does no harm to the
others: the healthy replicates' answers stay in step and no round loses its
vote, because a vote's read drains what is left in a pipe, and the actuators
stay within two samples of the sensors (`ActuatorsKeepPace`; with 1 in place of the 2
TLC finds it violated: a sample being read while the last is being voted on).

`rav_nmr` shows a behaviour that is in no single function. After the burst every
core is below 80, so the weighted voter is refused a core in each round while the
other tasks go on; their successes push the failures out of the windows one per
round and core, and about a window of rounds later a core is good enough again.
Meanwhile the answers have piled up in the voter's pipes, one per lost vote, and a read takes
63 bytes of them, three texts of 17 and a part of the fourth. The first vote cuts a text so; the
next one's read begins with the rest of it, and `control_actuators` refuses what that vote makes
of it. Each further vote takes 63 bytes away and leaves the 17 of a new answer, so the pile is gone
after a few: `CutsBounded` bounds the texts the actuators refuse by the bytes the lost votes have
left, which is none or one after a burst of one or two rounds and two after three (with three
rounds TLC finds behaviours with two). `VotesResume` bounds the
number of lost votes by the length of the burst plus the window. It does not hold of bursts of eight
rounds and more: then the actuators refuse a text on each of the four cores within a
window, and the cores are below 80 once more.

`baseline_slow` shows what a slow reader costs. Up to four samples (56 bytes) are dropped but for
the first by one read; a fifth is cut in two, and the next process of B refuses the rest of it. B
given up at the stuck time and late processes that write together do the same to C. So it is not so
that nothing is refused, nor that a pipe holds no more than a read; what is so is
`RefusalsPaid`: each refused text has cost 63 bytes that were sent.

Two more behaviours the open scheduler has and the properties bound from one
side: a run that begins and ends around the pass in which the voter itself is
reaped is never seen (`scheduler.cpp:106` skips `task_input_full`), and a voter
that still runs may be disarmed for the next round (`scheduler.cpp:111`). Both cost a
vote; `VoteBudget` and `VoterNeverAhead` say that neither ever adds one. In the NMR pipeline
neither happens to a healthy replicate: `VoteKeepsPace` would notice the lost vote.

`EveryLaunchAccounted` includes the exit after a failed `fork`: the launch was counted before, so
there, and only there, one launch has no result.

### Bounds

Open runs: 2 launches of the first task (`MaxIterations`), 2 launches for data
per fed task (`MaxInputs`, an action constraint; `MonitorDispatch` may always
find no data, so nothing stops because of it), a score window of 2, exit statuses
for success and for the failures that are counted differently. Two rounds are
what the voter's flags need to go wrong (the flags are reset once per round),
and two scores make a share of 50, so that one failure in the window is below
the threshold of 80, as one of four is with shares of 25. Ages are capped past
the period and the stuck time, where nothing is compared any more.

Closed runs: a unit of the clock is 50 ms, the busy time of A, B and C; the
voter's 10 ms are 0 units; A's period of 150 ms is over at the third tick, when
more than 150 ms have passed since its start (`MCPeriod` is 2, and the comparison is
`>`). With 4 launches of A, three rounds are complete, so a leftover of one is met
by the next and by the one after. The pipes hold 65536 bytes, a text has 14 or 17
bytes with its 0.

In `baseline_slow` nothing makes a process of B end: its `MaxExec` of 12 is beyond its `AgeCap` of 11,
where the age stops, so it may be any age when it ends. `MAX_STUCK_TIME` is 10, so a first run may be
given up. A launches every third tick, so within the seven launches of the run B may hold its
input long enough for five samples (70 bytes) to come, and TLC visits the states in which a read
cuts one, B refuses the rest of it and goes on. None of the three invariants depends on the number
of launches (all three are proved, below).

`full_pipe` has pipes of 28 bytes for the kernel's 65536, which thousands of launches would fill: two
texts of A, or one of B. The stuck time is 3 units, and A and B are not given up
(`AgeCap`), as a source blocked on a full pipe and launched again would only add
writers. Five launches of A let both pipes be full at once, with A and B blocked.

`rav_nmr` has the window of 4 and the 4 cores of `defines.h`, and 11 launches of A:
the rounds of the burst, the rounds until a core recovers, and those in which the pile is read away.
In the burst of two rounds core 0 may keep its weight in the first, and
any process on a failing core may also succeed, so failures enter the windows at
different times. Four windows are too many states for every interleaving, so three action
constraints name what is left out: `Settled` (between two passes each process
does what it can, in the order of the tasks, and nothing moves within a pass),
`LateCrash` (a process dies only after it has read its inputs), and `Struck` (in the burst of three
rounds every process on a failing core does fail). Which outputs a
source has written when it dies is still free. What a pass makes of processes that move
within it is the question of the other runs. `RavView` keeps the score windows and
the differences of the cores' runs, which `find_core` compares, and drops the
counters of the reports but the sink's errors.

`timing` is scaled: 4 units to a second, a period of 3, a stuck time of 4, a log
interval of 2, a run of 8, and an epoch from which both settings together do
not reach 0. The properties compare differences of readings with these numbers, so what
counts is their order and that steps of the clock exceed all of them: -9 is more than a
whole run, 5 more than a period. Two settings are what a claim about the damage
of each needs. `MaxPass` assumes that a pass takes 2 units at most; it is
in the properties wherever they depend on it. `offset` needs no setting.

`MCNmr`'s `MCView` merges states that differ in the identity of cores and in the
counters of the reports. A standard voter does not look at weights, and
`find_core(false)` fails exactly when no core is free, so none of these decides a
step or a property of the runs that use the view. The liveness run uses no view.

### Timing assumptions and fairness

The closed model lets the clock tick (`Tick`) only when every process has read
its inputs and is younger than `MaxExec` (`Timely`), and when the scheduler has
collected, noted and launched what it can (`CaughtUp`). The second is the ratio
of a unit, 50 ms, to a pass, 1 ms of `usleep` and some system calls. Without it
the clock could run a whole period ahead of a pass, and then the early vote shows up
without any fault. Between ticks any interleaving of passes and programs is possible.

`Fairness` is weak fairness of the scheduler's steps (one thread that never
blocks inside the loop) and of each program's steps (every process has a core,
and the operating system runs it), and strong fairness of `Tick`: the clock is
enabled once per pass and does not stand still while processes are on time. No
fairness is assumed of faults or of strays, and no liveness is claimed with faults.

## 4. What is proved

The theorems are about `Spec` of `Scheduler` and of `Timing` and `FCSpec` of
`FlightController`, for all tasks, voters, cores, programs and bounds that satisfy
the modules' assumptions, without the action constraints and views of the runs.

The open scheduler, whose environment answers and exits as it likes:

  - `SchedulerProofs!TypeCorrect`: `[]TypeOK`. That a busy task's core id is one of
    `find_core`'s is part of it; without it a completion could not be typed.
  - `SchedulerProofs!OwnershipCorrect`, `CoresOwned`, `DispatchesLaunched`:
    `[]CoreOwnership` and `[]FireableOnlyWithinPass`. Core ownership is
    not inductive alone: a fireable task met by a second dispatch would take a
    second core and leak the first. `FireableOnlyWithinPass` excludes that, and
    the conjunction is inductive.
  - `VoteProofs!BudgetCorrect`, `NeverAhead`: `[]VoterNeverAhead`. A count
    of votes against launches is not inductive, as it does not say which launches
    the flags stand for. `VoteBudget` does: per replicate, the launches cover the
    votes made, a vote decided, what the flags still hold, and a run not seen yet.
  - `CompletionProofs!LaunchesAccounted`, `ChildrenFound`: `[]EveryLaunchAccounted`
    and `[]RunningHasChild`. The first needs the second, since `waitpid`'s -1 would
    lose a run.
  - `CompletionProofs!ReliableCorrect`: `[]VoterCoreReliable`, from core ownership:
    only the completion of a core's own task lowers its weight.
  - `CompletionProofs!CoreRunsCorrect`: `[]CoreRunsAgree`. The two counts of a core's
    runs, one at the launch and one at the completion or the stuck verdict, differ by
    the one task running there; that it is one is core ownership again.
  - `PoolProofs!WindowCorrect`, `WeightCorrect`: `[]WeightIsWindow`. Inductive is
    `WindowInv`: the buffer has `BufferSize` scores, each a share or 0, and the
    weight is the maximum less a share for each 0. The step is a lemma on what
    dropping the oldest score and appending one does to the number of zeros; the cap of
    `update_weight` never bites after the first score.
  - `PoolProofs!ImplementsPool`: `Spec => PoolRefinement`. A dispatch is a `Take`: that
    the core is free in the pool follows from core ownership, and that it has the
    fewest failures from `WindowInv`. A completion and a stuck verdict are a `Return`;
    every other step is a stutter.
  - `VoteProofs!ImplementsRounds`: `Spec /\ RoundsApart => RoundRefinement` for
    `VotersFirst`. The voter polls, so a run may escape it, and the two conditions are
    what excludes that. `VotersFirst` is about the constants: the voter's turn comes
    before its replicates' and each replicate is added once. `RoundsApart` is about
    the behaviour: a replicate is launched only while its voter neither waits nor
    still holds its last run. The scheduler does not see to it, the periods
    and the pipes do. `MCNmr` assumes the first, so TLC evaluates it on the priorities of
    `main`; the second is a theorem of the NMR build without failures (below).
    `early_vote` is a behaviour in which it fails. The inductive `RoundInv` says that a run the voter has not
    seen cannot end before the voter's next turn.

`Timing`, on a clock that anyone may set:

  - `TimingProofs!SettingCostBounded`, `LogBounded`, `RunTimeBounded`: `SettingCostsOnce`,
    `LogKeepsUp`, `RunsItsTime`, for any modulus, periods and settings. The readings stay in
    0 .. `Modulus` - 1 (`TimingBase`); then a remainder is the difference itself
    or the difference plus `Modulus`, and the rest is arithmetic over how far
    each stored reading may be ahead of the clock.
  - `TimingProofs!NoTaskHeldLong`: `Spec /\ []Unhindered => []NoTaskHeld`. `Unhindered`
    says that the startup offsets are over and that the clock plus a period does not reach the
    modulus; in the code these are millisecond readings in 64 bits and no offset.

The closed pipelines:

  - `PipelineProofs!ImplementsScheduler`: `FCSpec => Spec`. Each step of the
    closed system, those of strays included, is a step of the open one or leaves its
    variables alone, so the theorems above hold of every pipeline; `PipelineSafe`
    collects three, and `VotesAfterCompletion` is `VoteAfterCompletion` under the
    two conditions of the rounds.
  - `SampleProofs!SamplesOnce`: `FCSpec => []NoSampleRepeated` for `OneInOneOut`, the
    pipelines without replicates (`MCBaseline` assumes it, so TLC evaluates it). The
    faults, the lengths of the texts up to one read, and the times are free. The
    argument is a conservation law. `SampleInv` says that there is a map from samples to
    places such that each text in a pipe, each process or stray that has still to write, each
    launch that has not sampled, and each actuation is where the map says; and that no place
    holds one twice. A step changes the map at one sample: read out of a pipe, written,
    taken along by a process that is given up, driven. `ProgramInv` supplies that a process is
    not given up before it has its text: it is older than `MAX_STUCK_TIME`, and the clock waits
    for the reads (`Timely`).
  - `SampleProofs!RefusalsArePaid`: `FCSpec => []RefusalsPaid` for `OneInOneOut`, `OneReader`,
    `OneWriter` (`MCBaseline` assumes them, so TLC evaluates them) and no wrong values; the
    launches, the times, the crashes and the give-ups are free. `RefusalsPaid` is not
    inductive, as it does not see the bytes still in the pipe nor the refusals not yet counted.
    `PaidInv` keeps an account of each reader and its writer: `ReadCap` bytes for each refusal
    counted, each exit status 2 not yet collected, each process about to exit with 2 and
    the rest of a cut text at the head of the pipe, together with the bytes in the
    pipe, are at most one `Length` for each launch of the writer that has written (its processes,
    given up or not, that have still to write are taken off). Only a cut head is refused,
    as all the texts behind it are whole (`SizeInv`); a read that leaves anything takes exactly
    `ReadCap` bytes (`ReadPays`), so it pays for the cut it makes; a write adds one `Length` and
    one launch that has written (`WritePays`); a launch next to an old process adds a launch and
    one that has not written. `Rest`, `RestBytes` and `AppendBytes` say what a read and a write
    do to the bytes of a pipe.
  - `PipelineProofs!InputFoundTrue`: `FCSpec => []InputFound` for `OneReader`, which TLC
    evaluates for all three builds. `InputFound` says nothing of the time between `select`
    and the read; `FedInv` does: from the dispatch of a task to the read of its new process
    its pipe is not empty. Only a read takes something out, and only a process of the task
    itself reads there; an older process of it has read before, as it would otherwise have been
    for 500 ms between its fork and its first read, which `Timely` excludes (`Waiting` in `ProgramInv`: a
    process without its text is running and of age 0).
  - `PipelineProofs!OnlyCutsRefused`: `FCSpec /\ []ReadsWhole => []NothingRefused`, and
    `FaultsContained`: `=> []FaultContained` without voters, for `Honest` pipelines (`OneReader`,
    a voter forwards texts of their own length, no wrong values). `ReadsWhole` says that no pipe
    holds more than a read takes. It reduces the containment of
    faults to one cause: whatever crashes, is given up or is late, and for any number of
    iterations and any times, what a program refuses is a text that a read has cut.
    The inductive `ContentInv` says of each pipe
    that its texts are texts of one of its writers, and of each process, dead or alive to the
    scheduler, that its text is its own.
  - Lemmas on `Pipe` say what a read does for any texts: `Bytes` is the sum it is defined as
    and never falls along a pipe (`BytesAdd`, `BytesOrder`), so a pipe that holds no more than a
    read takes is empty after it (`ReadAll`); a read of at least the first text leaves a suffix of
    the pipe, of which only the first text may be shorter (`ReadLeaves`). `Bytes` is a
    recursive function, and induction is over a set of numbers: one with 0 and closed under
    successors has no least missing number (`NumberInduction`).

The closed pipelines with a standard voter (`NmrProofs`), for any number of replicates:

  - `LineCorrect`: `FCSpec => []LineInv`, the rounds keep in step.
  - `SameRound`, `KeepsPace`, `PipesStayShort`: `VoteSameRound`, `VoteKeepsPace` and
    `PipesShort` (two texts at most in a pipe, which one read takes) follow from `LineInv`, whichever replicates crash, are launched again, or answer
    wrong, as long as two are healthy.
  - `FaultMasked`, `ActuatorsFollow`: with one faulty replicate at most (`OneFault`) also
    `FaultContained` and `ActuatorsKeepPace`: the majority's text is the one that is expected, and
    the fault costs the actuators no sample. `MaskInv` says that a verdict is good from the vote to
    the sink; `FollowInv` that the votes are as many as the actuations and what is between
    the voter and the actuators.
  - `RoundsKeepApart`, `NmrKeepsRounds`, `NmrVotesAfterCompletion`: without failures
    (`NoFault`) `RoundsApart`, and with it `RoundRefinement` and `VoteAfterCompletion`, now with no
    hypothesis on the behaviour.
  - `NmrFollowsSensors`: without failures `NoSampleSkipped`, through the vote.

What they assume is on constants only, stated in `FlightController`, and `MCNmr` has TLC
evaluate it in the runs `nmr` and `nmr_fault`:

  - `NmrLine`, the wiring of `main.cpp`: A feeds each replicate by a pipe of its own, each
    replicate the voter, the voter C; texts of the replicates and the voter are equally long, two
    of them fit a read, and so does a sample. The voter is not weighted. Its turn comes before its
    replicates' (`VotersFirst`). There are no more tasks than cores for them plus two: the six
    tasks on the four cores next to the scheduler's.
  - `NmrTimes`: A computes for `TASK_BUSY_TIME`, at least one unit and at most its period,
    and sends its samples at the end of it; nothing else has a period; a
    replicate computes for one unit at least and ends within a period; the voter takes less than a
    unit; C ends before its next verdict, or about then; everything ends within
    `MAX_STUCK_TIME`. `SinkInTime` has C end one unit earlier, and only `ActuatorsFollow`
    needs it. In units of 50 ms the code has 1, 3 (over at more than 2), 1, 0 and 1 for these.
  - `NmrFaults`: only replicates fail, and two of them do not; `early_vote` is what happens
    otherwise. `OneFault` and `NoFault` bound the failing ones to one or none.

The argument. A vote takes one answer from each pipe, at a time chosen by what the voter saw
in earlier turns, so the invariant must tie what is in each pipe, what each process has read,
what the flags hold and who runs to one clock, and that is the age of A's last launch. `Round`
is the sample in progress: A's last launch, or the one before while A still computes. Then
`LineInv` has a part for each place: `SourcePart` (A is launched as soon as its period is over),
`AskPart` (a question is in its pipe at one age only), `WorkPart` (a replicate's age
follows from A's; a healthy one has run `Round` times once it has its question),
`ReplyPart` (a healthy replicate's answer is in its pipe from its write to the vote; a
crashing one leaves one more at most), `ReadPart` (what the voter has read, or will, are
answers of its round), `WatchPart` (the flags know of every run the vote must wait for),
`JudgePart` and `SinkPart` (a verdict is written in a pipe that C has emptied). `InTime` says that
no process is given up, so nothing writes behind the scheduler's back.

Each step of a task disturbs the parts about it, and frame lemmas carry the others. The
step that needs the timing is `Tick`: before the clock may move on, every process has read its
inputs and the scheduler has launched what it could (`Timely`, `CaughtUp`). What it could not
launch would be for want of a core, and `CoreFree` counts: when the voter and one other
task rest, `CoreOwnership` leaves a core free. So at each tick every healthy replicate whose
question came is running, an armed voter whose replicates have ended was launched (`TickWaits`),
and the vote of a round is over before the questions of the next are sent (`TickDue`).

Only model-checked:

  - `VotesResume`, `CutsBounded`: bounds on the recovery of the weighted voter after a burst, which
    depend on the numbers of `defines.h`; the run also restricts interleavings (`Settled`, `LateCrash`,
    `Struck`). With a weighted voter `LineInv` does not hold, as a vote without a reliable core is lost.
  - `Termination` and `EverySampleActuated`: fairness and `ENABLED` are out of the prover's
    reach. `ActuatorsKeepPace` is the part of the second that is a safety property.

## 5. Not modelled

  - The rows of the result log and the report files: copies of counters and
    weights, formatted and written, that nothing reads back. When a row is logged
    is in `Timing`; the reports' calls of `task_input_full`, which change the voter,
    are in `Scheduler`.
  - `m_runTime`, a sum that is only printed, and members nothing reads.
  - Failures of `select`, `pipe` and `sched_setaffinity`. A failed `fork` is modelled.
  - The wait of `MAX_READ_TIME` in a read: the constant is defined, but `read_data`
    calls `select` with a timeout of 0, and that is what `ReadInput` does.
  - Processes that never end in the closed pipelines (the open scheduler has them): behind a
    reader that hangs the source would stay blocked on its full pipe after thousands of samples.
  - The arithmetic of the programs between reading and writing; a text is the
    expected one or not.
  - Build rules and recorded results.

## 6. What could follow

1. The RAV-NMR build without failures: all weights stay at the maximum, so the weighted voter
   finds its core as the standard one does, and `LineInv` should hold of it.
2. The recovery after a burst (`VotesResume`) as a theorem: each round in which the other tasks
   succeed pushes one score out of each window.
3. How many texts a slow reader's pipe may hold, from the period and the times a process takes, with
   the number of runs given up as a parameter.
