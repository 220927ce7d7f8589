--------------------------- MODULE FlightController ---------------------------
(****************************************************************************)
(* The benchmark (benchmark/src/flight_controller.cpp, wired in             *)
(* lib/src/main.cpp): the scheduler of Scheduler closed with the programs   *)
(* its processes run and the pipes between them.  A source A samples the    *)
(* sensors; the tasks B process a sample each; with replicated Bs, a voter  *)
(* takes one message from each; C drives the actuators.                     *)
(*                                                                          *)
(* A program reads each of its pipes, computes, writes each of its outputs  *)
(* and exits; every one of these is a step.  A message is the record of     *)
(*   value  what was computed: "good" is the text the consumers compare     *)
(*          with, other values stand for corrupted texts                    *)
(*   len    its bytes in the pipe (module Pipe)                             *)
(*   round  a ghost: the launch of A whose sample it derives from           *)
(****************************************************************************)
EXTENDS Scheduler, Pipe

CONSTANTS
  Source,      \* task A
  Sink,        \* task C
  PipeNames,   \* the pipes of main
  In,          \* the pipes a program reads, in order
  Out,         \* the pipes a program writes, in order
  Length,      \* bytes of the good message a program writes
  ReadCap,     \* the 63 bytes of a read into a 64 byte buffer
  Capacity,    \* bytes a pipe holds
  FaultSets,   \* the sets of tasks that may fail together in a run
  Outages,     \* per launch of A: the cores that fail then
  Wrong,       \* the wrong values
  BusyTime,    \* clock units a program computes (TASK_BUSY_TIME, 10 for a voter)
  MaxExec      \* assumption: the age at which a process must have ended

ASSUME ProgramAssumption ==
  /\ Source \in Tasks \ VoterTasks /\ Sink \in Tasks
  /\ In \in [Tasks -> Seq(PipeNames)]
  /\ Out \in [Tasks -> Seq(PipeNames)]
  /\ \A t \in Tasks : t \in Fed <=> In[t] # << >> /\ t \notin VoterTasks
  /\ Length \in [Tasks -> Nat]
  /\ \A t \in Tasks \ {Source} : In[t] # << >>
  /\ ReadCap \in Nat
  /\ FaultSets \subseteq SUBSET Tasks
  /\ Outages \subseteq Seq(SUBSET Cores)
  /\ Statuses = {"exit0", "exit1", "exit2", "signal"}
  /\ BusyTime \in [Tasks -> Nat]
  /\ MaxExec \in [Tasks -> Nat]
  /\ \A t \in Tasks : BusyTime[t] <= MaxStuck
  /\ Wrong \cap {"good", "none", "exit1", "exit2"} = {}

VARIABLES
  pipe,      \* content of each pipe
  prog,      \* where the present process of each task is in its program
  strays,    \* of each task: the processes it was given up with, still alive
  actuated,  \* ghost: rounds of the samples that drove the actuators
  faulty,    \* the tasks that may crash or compute a wrong value in this run
  outage     \* per launch of A: the cores on which any process may do so

faults == <<faulty, outage>>
fcVars == <<vars, pipe, prog, strays, actuated, faults>>

Message(t, value, round) == [value |-> value, len |-> Length[t], round |-> round]
NoData == [value |-> "none", len |-> 0, round |-> 0]
Failure(status) == [NoData EXCEPT !.value = status]

(* read: the messages read so far; text: what was computed from them, to be *)
(* written, or the Failure to exit with; written: how many outputs were.    *)
Fresh == [read |-> << >>, text |-> NoData, written |-> 0]

FCInit ==
  /\ Init
  /\ pipe = [p \in PipeNames |-> << >>]
  /\ prog = [t \in Tasks |-> Fresh]
  /\ strays = [t \in Tasks |-> << >>]
  /\ actuated = << >>
  /\ faulty \in FaultSets
  /\ outage \in Outages

schedVars == <<loopVars, taskVars, tally, age, voterVars, coreVars>>

(****************************************************************************)
(* What the programs compute from the messages they read.                   *)
(****************************************************************************)
Same(m, n) == m.value = n.value /\ m.len = n.len

(* Bug: the first pipe that had data wins, and nothing is compared.         *)
BugVote(read) ==
  LET valid == {i \in DOMAIN read : read[i] # NoData}
  IN  IF valid = {}
      THEN Failure("exit1")
      ELSE read[CHOOSE i \in valid : \A j \in valid : i <= j]

(* majority_voter: two equal texts, in a fixed order of pairs, or else the  *)
(* first pipe that had data.                                                *)
Vote(read) ==
  LET valid == {i \in DOMAIN read : read[i] # NoData}
      agreed == {i \in valid : \E j \in valid : i < j /\ Same(read[i], read[j])}
      chosen == IF agreed # {} THEN agreed ELSE valid
  IN  IF valid = {}
      THEN Failure("exit1")
      ELSE read[CHOOSE i \in chosen : \A j \in chosen : i <= j]

(* The texts a program is written to accept.                                *)
Expected(t, m) ==
  /\ m.value = "good"
  /\ \E w \in Tasks : \E k \in DOMAIN Out[w] : Out[w][k] = In[t][1] /\ m.len = Length[w]

Prone(t) ==
  \/ t \in faulty
  \/ taskRuns[Source] \in DOMAIN outage /\ cpu[t] \in outage[taskRuns[Source]]

Values(t) == {"good"} \cup {value \in Wrong : Prone(t)}

(* read_sensors: the text of this launch.                                   *)
Sampled(t) == {Message(t, value, taskRuns[t]) : value \in Values(t)}

(* process_data and control_actuators refuse a missing or an unexpected     *)
(* text, and otherwise process it.                                          *)
Processed(t, m) ==
  IF m = NoData THEN {Failure("exit1")}
  ELSE IF ~Expected(t, m) THEN {Failure("exit2")}
  ELSE {Message(t, value, m.round) : value \in Values(t)}

Outcomes(t, read) ==
  CASE t = Source -> Sampled(t)
    [] t \in VoterTasks -> {Vote(read)}
    [] OTHER -> Processed(t, read[1])

(****************************************************************************)
(* The programs.                                                            *)
(****************************************************************************)
Running(t) == child[t] = "alive"

Computed(t, read) ==
  \E m \in Outcomes(t, read) : prog' = [prog EXCEPT ![t].read = read, ![t].text = m]

(* The only step of its program in which a task without inputs computes.    *)
Sample(t) ==
  /\ Running(t)
  /\ In[t] = << >>
  /\ prog[t].text = NoData
  /\ Computed(t, << >>)
  /\ UNCHANGED <<schedVars, procVars, pipe, strays, actuated, faults>>

(* read_data on the next input; after the last one the text is computed.    *)
ReadInput(t) ==
  LET i == Len(prog[t].read) + 1
      q == pipe[In[t][i]]
      read == Append(prog[t].read, IF q = << >> THEN NoData ELSE Head(q))
  IN
  /\ Running(t)
  /\ i <= Len(In[t])
  /\ IF i < Len(In[t])
     THEN prog' = [prog EXCEPT ![t].read = read]
     ELSE Computed(t, read)
  /\ pipe' = [pipe EXCEPT ![In[t][i]] = AfterRead(@, ReadCap)]
  /\ UNCHANGED <<schedVars, procVars, strays, actuated, faults>>

Refused(text) == text.value \in {"exit1", "exit2"}
Failed(t) == Refused(prog[t].text)

(* A text was computed, and the busy loop before the outputs is over.       *)
Done(t) == prog[t].text # NoData /\ ~Failed(t) /\ age[t] >= BusyTime[t]

(* Bug: the terminating 0 is not written, and a text runs into the next.    *)
BugWriteData(t, p) ==
  LET k == p.written + 1
      q == Out[t][k]
      n == Len(pipe[q])
  IN
  /\ k <= Len(Out[t])
  /\ pipe' = [pipe EXCEPT ![q] =
       IF n = 0 THEN <<p.text>>
       ELSE [@ EXCEPT ![n].value = "joined", ![n].len = @ + p.text.len]]

(* write_data: a process p of task t writes its next output.                *)
WriteData(t, p) ==
  LET k == p.written + 1 IN
  /\ k <= Len(Out[t])
  /\ CanWrite(pipe[Out[t][k]], p.text, Capacity)
  /\ pipe' = [pipe EXCEPT ![Out[t][k]] = Append(@, p.text)]

WriteOutput(t) ==
  /\ Running(t)
  /\ Done(t)
  /\ WriteData(t, prog[t])
  /\ prog' = [prog EXCEPT ![t].written = @ + 1]
  /\ UNCHANGED <<schedVars, procVars, strays, actuated, faults>>

(* The sink drives the actuators where the others write.                    *)
Drive(t, p) ==
  actuated' = IF t = Sink /\ ~Refused(p.text)
              THEN Append(actuated, p.text.round) ELSE actuated

Exit(t, status) ==
  /\ Running(t)
  /\ child' = [child EXCEPT ![t] = status]
  /\ prog' = [prog EXCEPT ![t] = Fresh]
  /\ UNCHANGED <<schedVars, orphans, pipe, strays, faults>>

Finish(t) ==
  /\ \/ Failed(t) /\ Exit(t, prog[t].text.value)
     \/ Done(t) /\ prog[t].written = Len(Out[t]) /\ Exit(t, "exit0")
  /\ Drive(t, prog[t])

(* The fault the replication is for: a process dies anywhere.               *)
Crash(t) ==
  /\ Prone(t)
  /\ Exit(t, "signal")
  /\ UNCHANGED actuated

(* A process the scheduler gave up, next to a new one: it has read its      *)
(* inputs and its busy loop is over (Timely), so it writes what is left.    *)
StrayWrite(t) ==
  /\ orphans[t] > 0
  /\ \E k \in DOMAIN strays[t] :
       /\ ~Refused(strays[t][k].text)
       /\ WriteData(t, strays[t][k])
       /\ strays' = [strays EXCEPT ![t][k].written = @ + 1]
  /\ UNCHANGED <<schedVars, procVars, prog, actuated, faults>>

StrayExit(t) ==
  /\ \E k \in DOMAIN strays[t] :
       /\ Refused(strays[t][k].text) \/ strays[t][k].written = Len(Out[t])
       /\ strays' = [strays EXCEPT ![t] = SubSeq(@, 1, k - 1) \o SubSeq(@, k + 1, Len(@))]
       /\ Drive(t, strays[t][k])
  /\ OrphanExit(t)
  /\ UNCHANGED <<pipe, prog, faults>>

(****************************************************************************)
(* The scheduler, on these pipes.  fork() succeeds (module Scheduler has it *)
(* fail).  A unit of the clock is much longer than a pass (50 ms against    *)
(* the 1 ms of active's usleep), so it advances only when                   *)
(*   Timely     every process has read its inputs and is younger than its   *)
(*              MaxExec, and                                                *)
(*   CaughtUp   the scheduler has collected what ended, noted what runs and *)
(*              launched what can be.                                       *)
(****************************************************************************)
InputReady(t) == \A i \in DOMAIN In[t] : pipe[In[t][i]] # << >>

Timely ==
  \A t \in Tasks : Running(t) => prog[t].text # NoData /\ age[t] < MaxExec[t]

CaughtUp ==
  /\ \A t \in Tasks : state[t] = "running" => Running(t)
  /\ \A t \in Tasks \ VoterTasks :
       state[t] # "running" /\ InputReady(t) /\ PeriodElapsed(t) => Candidates = {}
  /\ \A v \in VoterTasks :
       /\ VoterFires(v) => state[v] = "running" \/ Candidates = {}
       /\ ~armed[v] => RunningIndices(v) \subseteq monitor[v] /\ monitor[v] # Indices(v)

Tick ==
  /\ CheckActive(1)
  /\ Timely
  /\ CaughtUp

Monitor(t) ==
  \/ MonitorReap(t)
  \/ MonitorStuck(t)
  \/ MonitorWait(t)
  \/ MonitorDispatch(t, InputReady(t))

(* Bug: a task that was given up is launched again for the same sample.     *)
BugLaunch(t) ==
  /\ RunTask(t)
  /\ prog' = [prog EXCEPT ![t] = IF Running(t) THEN @ ELSE Fresh]
  /\ strays' = [strays EXCEPT ![t] = IF Running(t) THEN Append(@, prog[t]) ELSE @]
  /\ UNCHANGED <<pipe, actuated, faults>>

Launch(t) ==
  /\ RunTask(t)
  /\ prog' = [prog EXCEPT ![t] = Fresh]
  /\ strays' = [strays EXCEPT ![t] = IF Running(t) THEN Append(@, prog[t]) ELSE @]
  /\ UNCHANGED <<pipe, actuated, faults>>

progVars == <<pipe, prog, strays, actuated, faults>>

Loop ==
  /\ \/ CheckActive(0)
     \/ Tick
     \/ \E t \in Tasks : Monitor(t)
     \/ LogResults
     \/ PrintResults
     \/ WriteResults
     \/ \E t \in Tasks : Cleanup(t)
  /\ UNCHANGED progVars

Program(t) == Sample(t) \/ ReadInput(t) \/ WriteOutput(t) \/ Finish(t)

FCTerminated == Terminated /\ UNCHANGED progVars

FCNext ==
  \/ Loop
  \/ \E t \in Tasks :
       Launch(t) \/ Program(t) \/ Crash(t) \/ StrayWrite(t) \/ StrayExit(t)
  \/ FCTerminated

FCSpec == FCInit /\ [][FCNext]_fcVars

(* The scheduler's loop runs on, every process is given its core, and the   *)
(* clock does not stand still for ever.                                     *)
Fairness ==
  /\ WF_fcVars(Loop \/ \E t \in Tasks : Launch(t))
  /\ \A t \in Tasks : WF_fcVars(Program(t))
  /\ SF_fcVars(Tick /\ UNCHANGED progVars)

FairSpec == FCSpec /\ Fairness

(****************************************************************************)
(* The builds without replicates: each program reads one pipe and writes    *)
(* one at most, the source none and the sink none, and a read takes a whole *)
(* text at least.                                                           *)
(****************************************************************************)
OneInOneOut ==
  /\ VoterTasks = {}
  /\ In[Source] = << >>
  /\ \A t \in Tasks \ {Source} : Len(In[t]) = 1
  /\ \A t \in Tasks : Len(Out[t]) <= 1
  /\ Out[Sink] = << >>
  /\ \A t \in Tasks : Length[t] <= ReadCap

(* In every build a task with an input reads one pipe, and nobody else does.*)
OneReader ==
  \A t \in Fed :
    /\ Len(In[t]) = 1
    /\ \A u \in Tasks \ {t} : \A i \in DOMAIN In[u] : In[u][i] # In[t][1]

(* A pipe that some task writes first is written first by no other.         *)
Feeds(w, p) == Out[w] # << >> /\ Out[w][1] = p
OneWriter ==
  \A p \in PipeNames : \A u, w \in Tasks : Feeds(u, p) /\ Feeds(w, p) => u = w

(* A voter writes the text it chose, as long as the one its replicates sent.*)
Forwards ==
  \A v \in VoterTasks : \A i \in DOMAIN In[v] : \A w \in Tasks : \A k \in DOMAIN Out[w] :
    Out[w][k] = In[v][i] => Length[w] = Length[v]

(****************************************************************************)
(* The builds with a standard voter: the source feeds each replicate, each  *)
(* replicate the voter, and the voter the sink, by a pipe of their own.  A  *)
(* read takes two answers at least.  No more tasks than cores (but one)     *)
(* are left when the voter and one other task rest.                         *)
(****************************************************************************)
Judge == CHOOSE v \in VoterTasks : TRUE
Rep(i) == Replicates[Judge][i]
Ask(i) == Out[Source][i]
Reply(i) == In[Judge][i]
Verdict == Out[Judge][1]

NmrLine ==
  /\ VoterTasks = {Judge} /\ Judge \notin Weighted
  /\ VotersFirst
  /\ Tasks = {Source, Sink, Judge} \cup {Rep(i) : i \in Indices(Judge)}
  /\ Sink \notin {Source, Judge}
  /\ \A i \in Indices(Judge) : Rep(i) \notin {Source, Sink}
  /\ In[Source] = << >> /\ In[Sink] = Out[Judge] /\ Out[Sink] = << >>
  /\ Len(Out[Source]) = Len(Replicates[Judge])
  /\ Len(In[Judge]) = Len(Replicates[Judge])
  /\ Len(Out[Judge]) = 1
  /\ \A i \in Indices(Judge) :
       /\ In[Rep(i)] = <<Ask(i)>> /\ Out[Rep(i)] = <<Reply(i)>>
       /\ Verdict \notin {Ask(i), Reply(i)}
       /\ \A j \in Indices(Judge) :
            Ask(i) # Reply(j) /\ (i # j => Ask(i) # Ask(j) /\ Reply(i) # Reply(j))
       /\ Length[Rep(i)] = Length[Judge]
  /\ PipeNames = {Verdict} \cup {Ask(i) : i \in Indices(Judge)}
                         \cup {Reply(i) : i \in Indices(Judge)}
  /\ Length[Source] <= ReadCap /\ 2 * Length[Judge] <= ReadCap
  /\ Cardinality(Tasks) <= Cardinality(Cores \ {SchedulerCore}) + 2

NmrTimes ==
  /\ BusyTime[Source] = MaxExec[Source]
  /\ BusyTime[Source] \in 1 .. Period[Source]
  /\ \A t \in Tasks \ {Source} : Period[t] = 0
  /\ \A i \in Indices(Judge) : BusyTime[Rep(i)] > 0 /\ MaxExec[Rep(i)] <= Period[Source]
  /\ MaxExec[Judge] = 0
  /\ MaxExec[Sink] + BusyTime[Source] <= Period[Source] + 2
  /\ \A t \in Tasks : MaxExec[t] <= MaxStuck /\ MaxExec[t] <= AgeCap[t]

(* The sink ends before its next verdict may come.                          *)
SinkInTime == MaxExec[Sink] + BusyTime[Source] <= Period[Source] + 1

(* Only replicates may fail, and two of them do not.                        *)
NmrFaults ==
  /\ Outages = {<< >>}
  /\ \A F \in FaultSets :
       /\ F \subseteq {Rep(i) : i \in Indices(Judge)}
       /\ \E i, j \in Indices(Judge) : i # j /\ Rep(i) \notin F /\ Rep(j) \notin F

(****************************************************************************)
(* Properties.                                                              *)
(****************************************************************************)
(* What majority_voter compares is comparable: a vote takes a message of    *)
(* every healthy replicate, and all of these come from the same sample,     *)
(* although each replicate and the voter are launched on their own and a    *)
(* read drains whatever the pipe holds.                                     *)
VoteSameRound ==
  \A v \in VoterTasks :
    LET read == prog[v].read
        healthy == {i \in DOMAIN read : Replicates[v][i] \notin faulty}
    IN  \A i, j \in healthy : read[i] # NoData /\ read[i].round = read[j].round

(* A fault stays where it is: no task but the faulty ones refuses its input *)
(* (process_data and control_actuators compare it with the text they        *)
(* expect, majority_voter exits without data), whatever a faulty replicate  *)
(* left in the pipes, wrote twice or got wrong before.                      *)
FaultContained == \A t \in Tasks \ faulty : ~Failed(t)

(* What select() saw in the pass is still there when the process reads:     *)
(* task_input_full is asked before the core, the fork and the read, with    *)
(* passes, crashes, give-ups and other processes of the task in between,    *)
(* and yet read_data never returns without data.                            *)
InputFound ==
  \A t \in Fed : \A i \in DOMAIN prog[t].read : prog[t].read[i] # NoData

(* What crashed replicates leave behind does not pile up: an answer that    *)
(* missed its vote is joined by the next one at most, which the same read   *)
(* takes, and no question waits while the next one is written.              *)
PipesShort == \A p \in PipeNames : Len(pipe[p]) <= 2

(* Where a slow reader lets texts pile up, each text it refuses is the rest *)
(* of one that an earlier read of ReadCap bytes cut in two (read_data takes *)
(* 63 bytes and its callers look at one text), however long a process       *)
(* takes, is given up or crashes: so refusals are paid for by the bytes     *)
(* that were sent, and only a burst of texts causes one.                    *)
RefusalsPaid ==
  \A t \in Fed : \A w \in Tasks :
    Feeds(w, In[t][1]) => errors[t] * ReadCap <= Length[w] * taskRuns[w]

(* A healthy replicate is not launched again before the vote on its last    *)
(* answer: a replicate that crashes, and may be launched again for the      *)
(* message it left, does not cost get_voter_fireable the vote of this round *)
(* or of the next.                                                          *)
VoteKeepsPace ==
  \A v \in VoterTasks : \A i \in Indices(v) :
    Replicates[v][i] \notin faulty => taskRuns[Replicates[v][i]] - taskRuns[v] <= 1

(* A faulty replicate costs the actuators no sample: whether it crashes, is *)
(* launched again or answers wrong, and however the turns of a pass fall,   *)
(* no more than two samples are ever on their way, one of them perhaps not  *)
(* yet sent.                                                                *)
ActuatorsKeepPace == taskRuns[Source] - Len(actuated) <= 2

(* While nothing fails, the actuators follow the sensors: control_actuators *)
(* ends its work on each sample in turn, and none is repeated or left out.  *)
NoSampleSkipped ==
  [][actuated' # actuated => actuated' = Append(actuated, Len(actuated) + 1)]_fcVars

(* No sample drives the actuators twice, although a task judged stuck is    *)
(* launched again next to its old process, which ends its work in its own   *)
(* time.                                                                    *)
NoSampleRepeated ==
  \A i, j \in DOMAIN actuated : actuated[i] = actuated[j] => i = j

(* A burst of failures costs a weighted voter a bounded number of votes: it *)
(* votes again as soon as each core has completed a window of runs, one in  *)
(* each round after the burst.  (A burst of eight rounds or more may cost   *)
(* more: then the sink refuses a text on every core, see CutsBounded.)      *)
VotesResume ==
  \A v \in Weighted :
    taskRuns[Source] - taskRuns[v] <= Len(outage) + BufferSize

(* The answers of the lost votes pile up, more of them than a read takes,   *)
(* so the first vote cuts a text, and the next ones find the rest of it     *)
(* until the pile is read away, each taking a read less the new answer.     *)
(* The actuators refuse no more than these rests: one after a burst of one  *)
(* or two rounds, two after three.                                          *)
CutsBounded ==
  \A v \in Weighted :
    errors[Sink] * (ReadCap - Length[v]) < Length[v] * (Len(outage) + BufferSize - 1)

(* The scheduler ends: the loop reaches MAX_ITERATIONS, with no task        *)
(* waiting for a core, an input or a full pipe for ever, and the cleanup's  *)
(* blocking waits return.                                                   *)
Termination == <>(pc \in {"done", "killed"})

(* Each sample but the last two drives the actuators before the end (those  *)
(* may be in the pipeline when the loop ends, and are dropped with it).     *)
EverySampleActuated ==
  \A n \in 1 .. MaxIterations - 2 : taskRuns[Source] = n ~> Len(actuated) >= n

(* What voter.cpp says of get_voter_fireable, and it does not do: it        *)
(* returns true if all replicates are no longer running.                    *)
VoteAfterCompletion ==
  [][\A v \in VoterTasks : state[v] # "fireable" /\ state'[v] = "fireable"
                             => RunningIndices(v) = {}]_fcVars
==============================================================================
