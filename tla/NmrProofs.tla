------------------------------- MODULE NmrProofs -------------------------------
(****************************************************************************)
(* A round of the NMR build.  The source feeds the replicates and the voter *)
(* compares what they answer; each of them is launched on its own, by its   *)
(* period, by its pipe or by what get_voter_fireable saw of the others.     *)
(* That a vote compares answers to one sample is therefore a property of    *)
(* the whole: of the period, of the time a program takes, of the cores that *)
(* are free when the voter may vote, and of the order of the turns within a *)
(* pass.  LineInv below is the inductive invariant that ties these together *)
(* and the theorems at the end are what it is for.                          *)
(*                                                                          *)
(* The assumptions on the build (FlightController): its wiring (NmrLine),   *)
(* how long its programs take (NmrTimes) and what may fail (NmrFaults).     *)
(****************************************************************************)
EXTENDS PipelineProofs, FiniteSetTheorems, FunctionTheorems

Idx == Indices(Judge)
Healthy(i) == Rep(i) \notin faulty
InLoop == pc \in {"active", "monitor", "run"}

(****************************************************************************)
(* The round in progress.  The launch of the source begins a sample, which  *)
(* is sent Due units of the clock later: until then the round is that of    *)
(* the sample before.                                                       *)
(****************************************************************************)
Age == age[Source]
Cycle == Period[Source]
Due == BusyTime[Source]
Early == Age < Due
Round == IF Early THEN taskRuns[Source] - 1 ELSE taskRuns[Source]

Question == Message(Source, "good", taskRuns[Source])
Reported(i) == Message(Rep(i), "good", taskRuns[Rep(i)])

(* How far replicate i is with its question: it is to be sent, was read,    *)
(* was read or is about to be, was answered;                                *)
Unsent(i) == Running(Source) /\ ~Early /\ prog[Source].written < i
Taken(i) == ~Unsent(i) /\ pipe[Ask(i)] = << >>
Launched(i) == ~Unsent(i) /\ (pipe[Ask(i)] = << >> \/ state[Rep(i)] = "running")
Answered(i) == Taken(i) /\ (Running(Rep(i)) => prog[Rep(i)].written = 1)

(* one more answer is to be expected in its pipe;                           *)
Pending(i) ==
  \/ Unsent(i)
  \/ pipe[Ask(i)] # << >>
  \/ Running(Rep(i)) /\ prog[Rep(i)].text # NoData /\ prog[Rep(i)].written = 0

(* how far the voter is with its vote: it has yet to decide on this round,  *)
(* has read the answer of replicate i, has still to write its verdict.      *)
Waits == taskRuns[Judge] # Round /\ state[Judge] # "fireable"
Collected(i) == taskRuns[Judge] = Round /\ (Running(Judge) => Len(prog[Judge].read) >= i)
Unwritten == taskRuns[Judge] # Round \/ (Running(Judge) /\ prog[Judge].written = 0)

(* The age of a sink that was launched on the verdict of the last round.    *)
SinkAge == IF Early THEN Age + Cycle + 2 - Due ELSE Age - Due + 1

(****************************************************************************)
(* The parts of the invariant.                                              *)
(****************************************************************************)
(* No process is given up.                                                  *)
InTime ==
  \A t \in Tasks :
    /\ Running(t) => state[t] = "running" /\ age[t] <= MaxExec[t]
    /\ orphans[t] = 0 /\ strays[t] = << >>
    /\ age[t] <= AgeCap[t]

Faults == faulty \in FaultSets /\ outage = << >>

(* Texts of the length the voter and the sink expect.                       *)
Fits(m) == m.len = Length[Judge] /\ ~Refused(m)
FitSeq(q) == \E S : q \in Seq(S) /\ \A m \in S : IsText(m) /\ Fits(m)
VoteSeq(q) == \E S : q \in Seq(S) /\ \A m \in S : m = NoData \/ (IsText(m) /\ Fits(m))

(* Before the source is first launched nothing happens; after it, it is     *)
(* launched again as soon as its period is over.                            *)
SourcePart ==
  /\ prog[Source].text \in {NoData, Question}
  /\ Running(Source) /\ Early => prog[Source].written = 0
  /\ InLoop =>
       /\ taskRuns[Source] > 0 => Age <= Cycle + 1
       /\ Early => Running(Source)
       /\ state[Source] = "running" => Age <= Due
       /\ state[Source] = "fireable" => Age > Cycle

StartPart ==
  InLoop /\ taskRuns[Source] = 0 =>
    /\ Age > Cycle
    /\ pipe[Verdict] = << >>
    /\ \A t \in Tasks : state[t] # "running"

(* A question is in its pipe at one age of the source only.                 *)
AskPart(i) ==
  /\ pipe[Ask(i)] \in {<< >>, <<Question>>}
  /\ Unsent(i) => pipe[Ask(i)] = << >> /\ ~Running(Rep(i))
  /\ pipe[Ask(i)] # << >> => Age = Due /\ (Running(Rep(i)) => prog[Rep(i)].text = NoData)
  /\ InLoop /\ Unsent(i) => ~Busy(Rep(i))

(* A replicate runs in step with the source, and a healthy one once a round.*)
WorkPart(i) ==
  /\ prog[Rep(i)].text = NoData => prog[Rep(i)].read = << >> /\ prog[Rep(i)].written = 0
  /\ prog[Rep(i)].text # NoData => Fits(prog[Rep(i)].text)
  /\ prog[Rep(i)].written <= 1
  /\ Healthy(i) =>
       /\ prog[Rep(i)].text # NoData => prog[Rep(i)].text = Reported(i)
       /\ Running(Rep(i)) /\ prog[Rep(i)].text = NoData =>
            taskRuns[Rep(i)] = taskRuns[Source]
  /\ InLoop /\ state[Rep(i)] = "running" =>
       age[Rep(i)] = IF Early THEN Age + Cycle + 1 - Due ELSE Age - Due
  /\ InLoop /\ Healthy(i) =>
       /\ taskRuns[Rep(i)] = IF Launched(i) THEN Round ELSE Round - 1
       /\ state[Rep(i)] # "crashed" /\ child[Rep(i)] \in {"none", "alive", "exit0"}
       /\ Launched(i) /\ Age = Due => Running(Rep(i)) /\ prog[Rep(i)].written = 0

(* An answer is in its pipe until the voter reads it; a replicate that      *)
(* crashes may leave one more.                                              *)
ReplyPart(i) ==
  /\ FitSeq(pipe[Reply(i)])
  /\ Len(pipe[Reply(i)]) + One(Pending(i)) <= 2
  /\ Healthy(i) =>
       /\ pipe[Reply(i)] \in {<< >>, <<Reported(i)>>}
       /\ Running(Rep(i)) /\ prog[Rep(i)].written = 0 => pipe[Reply(i)] = << >>
  /\ InLoop =>
       /\ Collected(i) => Len(pipe[Reply(i)]) + One(Pending(i)) <= 1
       /\ Healthy(i) => (pipe[Reply(i)] # << >> <=> Answered(i) /\ ~Collected(i))

(* What the voter has read, and will read, are answers of one round.        *)
ReadPart(i) ==
  Healthy(i) =>
    /\ i \in DOMAIN prog[Judge].read =>
         prog[Judge].read[i] = Message(Rep(i), "good", taskRuns[Judge])
    /\ Running(Judge) /\ i \notin DOMAIN prog[Judge].read =>
         /\ ~Running(Rep(i))
         /\ pipe[Reply(i)] = <<Message(Rep(i), "good", taskRuns[Judge])>>
    /\ taskRuns[Rep(i)] - taskRuns[Judge] <= 1

(* What the voter has seen of its replicates, who are all launched before   *)
(* the clock moves on.                                                      *)
WatchPart(i) ==
  InLoop =>
    /\ Waits /\ ~armed[Judge] =>
         /\ i \notin monitor[Judge] /\ (Taken(i) \/ state[Rep(i)] = "running") =>
              state[Rep(i)] = "running" /\ (pc = "monitor" => Judge \in queue)
         /\ Healthy(i) /\ i \in monitor[Judge] => Launched(i)
    /\ Waits /\ armed[Judge] /\ Healthy(i) =>
         Launched(i) /\ (state[Rep(i)] = "running" => i \in monitor[Judge])
    /\ ~Waits /\ Healthy(i) => i \notin monitor[Judge] /\ ~Busy(Rep(i))

JudgePart ==
  /\ prog[Judge].written <= 1
  /\ prog[Judge].text = NoData => prog[Judge].written = 0
  /\ VoteSeq(prog[Judge].read)
  /\ Len(prog[Judge].read) <= Len(In[Judge])
  /\ prog[Judge].text = NoData <=> Len(prog[Judge].read) < Len(In[Judge])
  /\ prog[Judge].text # NoData => Fits(prog[Judge].text)
  /\ InLoop =>
       /\ taskRuns[Judge] \in {Round - 1, Round}
       /\ state[Judge] = "running" => taskRuns[Judge] = Round
       /\ state[Judge] = "fireable" => taskRuns[Judge] # Round
       /\ Waits /\ ~armed[Judge] => Age = Due
       /\ ~Waits => ~armed[Judge] /\ Age # Due

(* A verdict is written in a pipe that the sink has emptied.                *)
SinkPart ==
  /\ FitSeq(pipe[Verdict])
  /\ Len(pipe[Verdict]) <= 1
  /\ Running(Judge) /\ prog[Judge].written = 0 => pipe[Verdict] = << >>
  /\ InLoop =>
       /\ Unwritten => /\ pipe[Verdict] = << >>
                       /\ state[Sink] = "running" => age[Sink] >= SinkAge
       /\ pipe[Verdict] # << >> /\ Running(Sink) /\ prog[Sink].text # NoData =>
            age[Sink] >= SinkAge

PartInv(i) == AskPart(i) /\ WorkPart(i) /\ ReplyPart(i) /\ ReadPart(i) /\ WatchPart(i)

Parts ==
  /\ Faults /\ SourcePart /\ StartPart /\ JudgePart /\ SinkPart
  /\ \A i \in Idx : PartInv(i)

LineInv == InTime /\ Parts

(* What the other theorems say of each state.                               *)
Before == TypeOK /\ OwnershipInv /\ AccountInv /\ ProgramInv /\ FedInv


Nmr == NmrLine /\ NmrTimes /\ NmrFaults

(****************************************************************************)
(* The build.                                                               *)
(****************************************************************************)
LEMMA LineTasks ==
  ASSUME NmrLine
  PROVE  /\ VoterTasks = {Judge} /\ Judge \notin Weighted
         /\ Source \in Tasks /\ Sink \in Tasks /\ Judge \in Tasks
         /\ Source # Sink /\ Source # Judge /\ Sink # Judge
         /\ Len(Replicates[Judge]) \in Nat /\ Idx = 1 .. Len(Replicates[Judge])
         /\ \A i \in Idx : /\ i \in Nat /\ i > 0
                           /\ Rep(i) \in Tasks /\ Rep(i) \notin {Source, Sink, Judge}
                           /\ Priority[Rep(i)] < Priority[Judge]
         /\ \A i, j \in Idx : i # j => Rep(i) # Rep(j)
<1>1. VoterTasks = {Judge} /\ VotersFirst /\ Judge \notin Weighted /\ Sink \notin {Source, Judge}
      /\ \A i \in Idx : Rep(i) \notin {Source, Sink}
  BY DEF NmrLine, Idx
<1>2. Judge \in VoterTasks
  BY <1>1
<1>3. Source \in Tasks \ VoterTasks /\ Sink \in Tasks
  BY ProgramAssumption
<1>4. Judge \in Tasks /\ Replicates[Judge] \in Seq(Tasks \ VoterTasks)
  BY <1>2, VoterAssumption
<1>5. PICK r : r = Replicates[Judge]
  OBVIOUS
<1>6. Idx = 1 .. Len(r) /\ r \in Seq(Tasks \ VoterTasks) /\ \A i : Rep(i) = r[i]
  BY <1>4, <1>5 DEF Idx, Indices, Rep
<1>7. \A i \in Idx : i \in Nat /\ i > 0 /\ Rep(i) \in Tasks \ VoterTasks
  BY <1>6
<1>8. \A i \in Idx : Priority[Rep(i)] < Priority[Judge]
  BY <1>2, <1>1 DEF VotersFirst, Rep, Idx
<1>9. \A i, j \in Idx : i # j => Rep(i) # Rep(j)
  BY <1>2, <1>1 DEF VotersFirst, Rep, Idx
<1>10. Len(r) \in Nat
  BY <1>6
<1> QED
  BY <1>1, <1>3, <1>4, <1>5, <1>6, <1>7, <1>8, <1>9, <1>10

LEMMA LinePipes ==
  ASSUME NmrLine
  PROVE  /\ In[Source] = << >> /\ Out[Sink] = << >>
         /\ In[Sink] = <<Verdict>> /\ Out[Judge] = <<Verdict>> /\ Verdict \in PipeNames
         /\ Len(Out[Source]) = Len(Replicates[Judge]) /\ DOMAIN Out[Source] = Idx
         /\ Len(In[Judge]) = Len(Replicates[Judge]) /\ DOMAIN In[Judge] = Idx
         /\ Fed = {Sink} \cup {Rep(i) : i \in Idx}
         /\ \A i \in Idx :
              /\ Ask(i) \in PipeNames /\ Reply(i) \in PipeNames
              /\ In[Rep(i)] = <<Ask(i)>> /\ Out[Rep(i)] = <<Reply(i)>>
              /\ Verdict # Ask(i) /\ Verdict # Reply(i)
              /\ \A j \in Idx : /\ Ask(i) # Reply(j)
                                /\ i # j => Ask(i) # Ask(j) /\ Reply(i) # Reply(j)
<1>1. /\ In[Source] = << >> /\ In[Sink] = Out[Judge] /\ Out[Sink] = << >>
      /\ Len(Out[Source]) = Len(Replicates[Judge])
      /\ Len(In[Judge]) = Len(Replicates[Judge])
      /\ Len(Out[Judge]) = 1
      /\ Tasks = {Source, Sink, Judge} \cup {Rep(i) : i \in Idx}
      /\ \A i \in Idx :
           /\ In[Rep(i)] = <<Ask(i)>> /\ Out[Rep(i)] = <<Reply(i)>>
           /\ Verdict \notin {Ask(i), Reply(i)}
           /\ \A j \in Idx :
                Ask(i) # Reply(j) /\ (i # j => Ask(i) # Ask(j) /\ Reply(i) # Reply(j))
  BY DEF NmrLine, Idx
<1>2. Source \in Tasks /\ Judge \in Tasks /\ Idx = 1 .. Len(Replicates[Judge])
      /\ \A i \in Idx : Rep(i) \in Tasks /\ Rep(i) # Judge
  BY LineTasks
<1>3. Out[Judge] \in Seq(PipeNames) /\ Out[Source] \in Seq(PipeNames) /\ In[Judge] \in Seq(PipeNames)
  BY <1>2, ProgramAssumption
<1>4. Out[Judge] = <<Verdict>> /\ Verdict \in PipeNames
  <2>1. PICK q : q = Out[Judge]
    OBVIOUS
  <2>2. q \in Seq(PipeNames) /\ Len(q) = 1 /\ Verdict = q[1]
    BY <1>1, <1>3, <2>1 DEF Verdict
  <2>3. q = <<q[1]>> /\ q[1] \in PipeNames
    BY <2>2
  <2> QED
    BY <2>1, <2>2, <2>3
<1>5. DOMAIN Out[Source] = Idx /\ DOMAIN In[Judge] = Idx
  BY <1>1, <1>2, <1>3
<1>6. \A i \in Idx : Ask(i) \in PipeNames /\ Reply(i) \in PipeNames
  BY <1>3, <1>5 DEF Ask, Reply
<1>7. \A i \in Idx : In[Rep(i)] # << >>
  <2>1. \A x : <<x>> # << >>
    OBVIOUS
  <2> QED
    BY <1>1, <2>1
<1>8. In[Sink] # << >>
  BY <1>1, <1>4
<1>9. Fed = {Sink} \cup {Rep(i) : i \in Idx}
  <2>1. VoterTasks = {Judge} /\ Sink # Judge /\ Sink \in Tasks /\ Fed \subseteq Tasks
    BY LineTasks, TaskAssumption
  <2>2. \A t \in Tasks : t \in Fed <=> In[t] # << >> /\ t \notin VoterTasks
    BY ProgramAssumption
  <2>3. \A t \in Tasks : t \in Fed <=> t = Sink \/ \E i \in Idx : t = Rep(i)
    BY <1>1, <1>2, <1>7, <1>8, <2>1, <2>2
  <2> QED
    BY <1>2, <2>1, <2>3
<1> QED
  BY <1>1, <1>4, <1>5, <1>6, <1>9

LEMMA LineReaders ==
  ASSUME NmrLine
  PROVE  OneReader
<1> SUFFICES ASSUME NEW t \in Fed
             PROVE  /\ Len(In[t]) = 1
                    /\ \A u \in Tasks \ {t} : \A k \in DOMAIN In[u] : In[u][k] # In[t][1]
  BY DEF OneReader
<1>1. Tasks = {Source, Sink, Judge} \cup {Rep(i) : i \in Idx}
  BY DEF NmrLine, Idx
<1>2. \A x : Len(<<x>>) = 1 /\ DOMAIN <<x>> = {1} /\ <<x>>[1] = x
  OBVIOUS
<1>3. DOMAIN (<< >>) = {}
  OBVIOUS
<1>4. PICK p : In[t] = <<p>> /\ ((t = Sink /\ p = Verdict) \/ \E i \in Idx : t = Rep(i) /\ p = Ask(i))
  BY LinePipes
<1>5. \A k \in Idx : In[Judge][k] # p
  BY <1>4, LinePipes DEF Reply
<1>6. \A u \in Tasks \ {t} : \A k \in DOMAIN In[u] : In[u][k] # p
  BY <1>1, <1>2, <1>3, <1>4, <1>5, LinePipes, LineTasks
<1> QED
  BY <1>2, <1>4, <1>6


LEMMA LineTimes ==
  ASSUME Nmr
  PROVE  /\ Due \in Nat /\ Cycle \in Nat /\ 1 <= Due /\ Due <= Cycle
         /\ MaxExec[Source] = Due /\ MaxExec[Judge] = 0
         /\ MaxExec[Sink] \in Nat /\ MaxExec[Sink] + Due <= Cycle + 2
         /\ AgeCap[Source] \in Nat /\ Cycle + 1 <= AgeCap[Source]
         /\ \A t \in Tasks : /\ MaxExec[t] \in Nat /\ AgeCap[t] \in Nat
                             /\ MaxExec[t] <= MaxStuck /\ MaxExec[t] <= AgeCap[t]
                             /\ t # Source => Period[t] = 0
         /\ \A i \in Idx : /\ BusyTime[Rep(i)] \in Nat /\ BusyTime[Rep(i)] > 0
                           /\ MaxExec[Rep(i)] <= Cycle
<1>1. Source \in Tasks /\ Sink \in Tasks /\ \A i \in Idx : Rep(i) \in Tasks
  BY LineTasks DEF Nmr
<1>2. BusyTime \in [Tasks -> Nat] /\ MaxExec \in [Tasks -> Nat]
  BY ProgramAssumption
<1>3. Period \in [Tasks -> Nat] /\ AgeCap \in [Tasks -> Nat]
      /\ \A t \in Tasks : Period[t] > 0 => AgeCap[t] > Period[t]
  BY TaskAssumption
<1>4. NmrTimes
  BY DEF Nmr
<1>5. Due \in 1 .. Cycle /\ Due \in Nat /\ Cycle \in Nat
  BY <1>1, <1>2, <1>3, <1>4 DEF NmrTimes, Due, Cycle
<1>6. AgeCap[Source] \in Nat /\ AgeCap[Source] > Cycle
  BY <1>1, <1>3, <1>5 DEF Cycle
<1> QED
  BY <1>1, <1>2, <1>3, <1>4, <1>5, <1>6 DEF NmrTimes, Due, Cycle, Idx

(****************************************************************************)
(* No process is given up: it ends before it may be judged stuck.  So what  *)
(* is alive is what runs, and nothing writes behind the scheduler's back.   *)
(****************************************************************************)
LEMMA InTimeInit ==
  ASSUME FCInit
  PROVE  InTime
BY TaskAssumption DEF FCInit, Init, InTime, Running

LEMMA InTimeStep ==
  ASSUME \A t \in Tasks : MaxExec[t] <= MaxStuck, TypeOK, ProgramInv, InTime, [FCNext]_fcVars
  PROVE  InTime'
<1>1. ASSUME NEW t \in Tasks
      PROVE  age[t] \in Nat /\ MaxExec[t] \in Nat /\ AgeCap[t] \in Nat /\ MaxStuck \in Nat
  BY <1>1, ProgramAssumption, TaskAssumption, NumberAssumption DEF TypeOK
<1>2. ASSUME UNCHANGED <<age, strays, orphans>>,
             \A t \in Tasks : Running(t)' => Running(t) /\ state'[t] = state[t]
      PROVE  InTime'
  BY <1>2 DEF InTime
<1>3. ASSUME NEW t \in Tasks, Program(t) \/ Crash(t)
      PROVE  InTime'
  <2>1. UNCHANGED <<age, strays, orphans, state>>
    BY <1>3 DEF Program, Sample, ReadInput, WriteOutput, Finish, Crash, Exit, schedVars,
                procVars, taskVars
  <2>2. \A u \in Tasks : Running(u)' => Running(u)
    BY <1>3 DEF Program, Sample, ReadInput, WriteOutput, Finish, Crash, Exit, Running,
                procVars, TypeOK, Failed, Refused
  <2> QED
    BY <1>2, <2>1, <2>2
<1>4. ASSUME NEW t \in Tasks, StrayWrite(t) \/ StrayExit(t)
      PROVE  InTime'
  BY <1>4 DEF StrayWrite, StrayExit, InTime
<1>5. ASSUME NEW t \in Tasks, Launch(t)
      PROVE  InTime'
  <2>1. /\ state[t] = "fireable" /\ state' = [state EXCEPT ![t] = "running"]
        /\ age' = [age EXCEPT ![t] = 0] /\ child' = [child EXCEPT ![t] = "alive"]
        /\ orphans' = Bump(orphans, t, child[t] = "alive")
        /\ strays' = [strays EXCEPT ![t] = IF Running(t) THEN Append(@, prog[t]) ELSE @]
    BY <1>5 DEF Launch, RunTask, Highest, Fireable
  <2>2. ~ Running(t)
    BY <2>1 DEF InTime
  <2>3. \A u \in Tasks : orphans'[u] = orphans[u]
    BY <2>1, <2>2 DEF Bump, Running, TypeOK
  <2>4. \A u \in Tasks : strays'[u] = strays[u]
    BY <2>1, <2>2 DEF ProgramInv
  <2> QED
    BY <1>1, <2>1, <2>3, <2>4 DEF InTime, Running, TypeOK
<1>6. ASSUME NEW t \in Tasks, Monitor(t), UNCHANGED progVars
      PROVE  InTime'
  <2>1. strays' = strays
    BY <1>6 DEF progVars
  <2>2. CASE MonitorReap(t)
    <3>1. /\ UNCHANGED <<age, orphans>> /\ child' = [child EXCEPT ![t] = "none"]
          /\ \A u \in Tasks \ {t} : state'[u] = state[u]
      BY <2>2 DEF MonitorReap, HandleTaskCompletion, TypeOK
    <3> QED
      BY <1>2, <2>1, <3>1 DEF Running, TypeOK
  <2>3. CASE MonitorStuck(t)
    BY <1>1, <2>3 DEF MonitorStuck, MayBeStuck, InTime, Running
  <2>4. CASE MonitorWait(t)
    BY <1>2, <2>1, <2>4 DEF MonitorWait, taskVars, procVars, Running
  <2>5. CASE MonitorDispatch(t, InputReady(t))
    <3>1. /\ UNCHANGED <<age, child, orphans>> /\ state[t] # "running"
          /\ \A u \in Tasks \ {t} : state'[u] = state[u]
      BY <2>5 DEF MonitorDispatch, procVars, TypeOK
    <3> QED
      BY <1>2, <2>1, <3>1 DEF Running, InTime
  <2> QED
    BY <1>6, <2>2, <2>3, <2>4, <2>5 DEF Monitor
<1>7. CASE Tick /\ UNCHANGED progVars
  <2>0. \A t \in Tasks : age'[t] = AtMost(age[t] + 1, AgeCap[t])
    BY <1>7 DEF Tick, CheckActive
  <2>1. UNCHANGED <<state, child, orphans, strays>>
    BY <1>7 DEF Tick, CheckActive, taskVars, procVars, progVars
  <2>2. ASSUME NEW t \in Tasks, Running(t)
        PROVE  age'[t] <= MaxExec[t]
    <3>1. age'[t] = AtMost(age[t] + 1, AgeCap[t]) /\ age[t] < MaxExec[t]
      BY <1>7, <2>2 DEF Tick, CheckActive, Timely
    <3> QED
      BY <1>1, <3>1 DEF AtMost
  <2>3. \A t \in Tasks : age'[t] <= AgeCap[t]
    BY <1>1, <2>0 DEF AtMost
  <2> QED
    BY <2>1, <2>2, <2>3 DEF InTime, Running
<1>8. CASE CheckActive(0) /\ UNCHANGED progVars
  <2>0. \A t \in Tasks : age'[t] = AtMost(age[t] + 0, AgeCap[t])
    BY <1>8 DEF CheckActive
  <2>1. UNCHANGED <<state, child, orphans, strays>>
    BY <1>8 DEF CheckActive, taskVars, procVars, progVars
  <2>2. ASSUME NEW t \in Tasks, Running(t)
        PROVE  age'[t] <= MaxExec[t]
    <3>1. age'[t] = AtMost(age[t] + 0, AgeCap[t]) /\ age[t] <= MaxExec[t]
      BY <1>8, <2>2 DEF CheckActive, InTime
    <3> QED
      BY <1>1, <3>1 DEF AtMost
  <2>3. \A t \in Tasks : age'[t] <= AgeCap[t]
    BY <1>1, <2>0 DEF AtMost
  <2> QED
    BY <2>1, <2>2, <2>3 DEF InTime, Running
<1>9. CASE (LogResults \/ PrintResults \/ WriteResults) /\ UNCHANGED progVars
  BY <1>2, <1>9 DEF LogResults, PrintResults, WriteResults, taskVars, procVars, progVars, Running
<1>10. ASSUME NEW t \in Tasks, Cleanup(t), UNCHANGED progVars
       PROVE  InTime'
  <2>1. UNCHANGED <<age, state, strays>>
    BY <1>10 DEF Cleanup, taskVars, progVars
  <2>2. \A u \in Tasks : Running(u)' => Running(u)
    BY <1>10 DEF Cleanup, Running, TypeOK
  <2>3. \A u \in Tasks : orphans'[u] = 0
    BY <1>10 DEF Cleanup, InTime
  <2> QED
    BY <2>1, <2>2, <2>3 DEF InTime
<1>11. CASE FCTerminated \/ UNCHANGED fcVars
  BY <1>2, <1>11 DEF FCTerminated, Terminated, progVars, fcVars, vars, taskVars, procVars, Running
<1> QED
  BY <1>3, <1>4, <1>5, <1>6, <1>7, <1>8, <1>9, <1>10, <1>11 DEF FCNext, Loop


(****************************************************************************)
(* The cores.                                                               *)
(****************************************************************************)
(* While three tasks rest a core is free.                                   *)
LEMMA CoreFree ==
  ASSUME NmrLine, TypeOK, CoreOwnership,
         NEW x \in Tasks, NEW y \in Tasks, NEW z \in Tasks, x # y, x # z, y # z,
         ~Busy(x), ~Busy(y), ~Busy(z)
  PROVE  Candidates # {}
<1> SUFFICES ASSUME Candidates = {}
             PROVE  FALSE
  OBVIOUS
<1> DEFINE Pool == Cores \ {SchedulerCore}
           Rest == ((Tasks \ {x}) \ {y}) \ {z}
           f == [c \in Pool |-> CHOOSE t \in Tasks : Busy(t) /\ cpu[t] = c]
<1>1. ASSUME NEW c \in Pool
      PROVE  f[c] \in Rest /\ cpu[f[c]] = c
  <2>1. active[c]
    BY <1>1 DEF Candidates
  <2>2. \E t \in Tasks : Busy(t) /\ cpu[t] = c
    BY <1>1, <2>1 DEF CoreOwnership
  <2>3. f[c] \in Tasks /\ Busy(f[c]) /\ cpu[f[c]] = c
    BY <1>1, <2>2
  <2> QED
    BY <2>3
<1>2. f \in Injection(Pool, Rest)
  <2>1. f \in [Pool -> Rest]
    BY <1>1
  <2>2. \A c, d \in Pool : f[c] = f[d] => c = d
    BY <1>1
  <2> HIDE DEF f, Pool, Rest
  <2> QED
    BY <2>1, <2>2 DEF Injection, IsInjective
<1>3. IsFiniteSet(Pool) /\ Cardinality(Pool) \in Nat
  <2>1. IsFiniteSet(Cores)
    BY CoreAssumption
  <2> QED
    BY <2>1, FS_RemoveElement, FS_CardinalityType
<1>4. IsFiniteSet(Rest) /\ Cardinality(Rest) = Cardinality(Tasks) - 3
  <2>1. IsFiniteSet(Tasks) /\ Cardinality(Tasks) \in Nat
    BY TaskAssumption, FS_CardinalityType
  <2>2. IsFiniteSet(Tasks \ {x}) /\ Cardinality(Tasks \ {x}) = Cardinality(Tasks) - 1
    BY <2>1, FS_RemoveElement
  <2>3. /\ IsFiniteSet((Tasks \ {x}) \ {y})
        /\ Cardinality((Tasks \ {x}) \ {y}) = Cardinality(Tasks \ {x}) - 1
    BY <2>2, FS_RemoveElement
  <2>4. IsFiniteSet(Rest) /\ Cardinality(Rest) = Cardinality((Tasks \ {x}) \ {y}) - 1
    BY <2>3, FS_RemoveElement
  <2> QED
    BY <2>1, <2>2, <2>3, <2>4
<1>5. Cardinality(Pool) <= Cardinality(Rest)
  <2> HIDE DEF f, Pool, Rest
  <2> QED
    BY <1>2, <1>4, FS_Injection
<1>6. Cardinality(Tasks) <= Cardinality(Pool) + 2 /\ Cardinality(Tasks) \in Nat
  BY TaskAssumption, FS_CardinalityType DEF NmrLine
<1> HIDE DEF Pool, Rest
<1> QED
  BY <1>3, <1>4, <1>5, <1>6

(* find_core finds a core for a voter of type standard, if there is one.    *)
LEMMA CoreFound ==
  ASSUME TypeOK, Candidates # {}
  PROVE  FindCore(FALSE) # {}
<1> DEFINE runs == {coreRuns[c] : c \in Candidates}
<1>1. Candidates \subseteq Cores /\ Cores \subseteq Nat /\ \A c \in Cores : coreRuns[c] \in Nat
  BY CoreAssumption DEF Candidates, TypeOK
<1>2. PICK n \in runs : \A m \in runs : n <= m
  <2>1. runs \in SUBSET Nat /\ runs # {}
    BY <1>1
  <2> HIDE DEF runs
  <2> QED
    BY <2>1, LeastNumber
<1> DEFINE best == {c \in Candidates : coreRuns[c] = n}
<1>3. PICK c \in best : \A d \in best : c <= d
  <2>1. best \in SUBSET Nat /\ best # {}
    BY <1>1, <1>2
  <2> HIDE DEF best
  <2> QED
    BY <2>1, LeastNumber
<1>4. ASSUME NEW d \in Candidates \ {c}
      PROVE  BetterCore(c, d, FALSE)
  <2>1. coreRuns[c] = n /\ n <= coreRuns[d] /\ n \in Nat /\ coreRuns[d] \in Nat
    BY <1>1, <1>2, <1>3
  <2>2. CASE coreRuns[d] = n
    <3>1. c <= d /\ c # d /\ c \in Nat /\ d \in Nat
      BY <1>1, <1>3, <2>2
    <3> QED
      BY <2>1, <2>2, <3>1 DEF BetterCore
  <2>3. CASE coreRuns[d] # n
    BY <2>1, <2>3 DEF BetterCore
  <2> QED
    BY <2>2, <2>3
<1>5. c \in FindCore(FALSE)
  BY <1>3, <1>4 DEF FindCore
<1> QED
  BY <1>5


(****************************************************************************)
(* The texts.                                                               *)
(****************************************************************************)
LEMMA LineLengths ==
  ASSUME NmrLine
  PROVE  /\ Length[Judge] \in Nat /\ Length[Source] \in Nat /\ ReadCap \in Nat
         /\ 2 * Length[Judge] <= ReadCap /\ Length[Source] <= ReadCap
         /\ \A i \in Idx : Length[Rep(i)] = Length[Judge]
<1>1. Length \in [Tasks -> Nat] /\ ReadCap \in Nat
  BY ProgramAssumption
<1>2. 2 * Length[Judge] <= ReadCap /\ Length[Source] <= ReadCap
      /\ \A i \in Idx : Length[Rep(i)] = Length[Judge]
  BY DEF NmrLine, Idx
<1> QED
  BY <1>1, <1>2, LineTasks

LEMMA FitEmpty == FitSeq(<< >>) /\ VoteSeq(<< >>)
<1>1. PICK S : S = {}
  OBVIOUS
<1>2. << >> \in Seq(S) /\ \A m : m \notin S
  BY <1>1
<1> QED
  BY <1>2, Zenon DEF FitSeq, VoteSeq

LEMMA FitAppend ==
  ASSUME NEW q, FitSeq(q), NEW m, IsText(m), Fits(m)
  PROVE  /\ FitSeq(Append(q, m))
         /\ Len(q) \in Nat /\ Len(Append(q, m)) = Len(q) + 1
         /\ q = << >> => Append(q, m) = <<m>>
<1>1. PICK S : q \in Seq(S) /\ \A x \in S : IsText(x) /\ Fits(x)
  BY DEF FitSeq
<1>2. q \in Seq(S \cup {m})
  BY <1>1
<1>3. /\ Append(q, m) \in Seq(S \cup {m})
      /\ Len(q) \in Nat /\ Len(Append(q, m)) = Len(q) + 1
  BY <1>2
<1>5. Append(<< >>, m) = <<m>>
  OBVIOUS
<1>4. \A x \in S \cup {m} : IsText(x) /\ Fits(x)
  BY <1>1
<1> QED
  BY <1>3, <1>4, <1>5 DEF FitSeq

LEMMA FitLength ==
  ASSUME NEW q, FitSeq(q)
  PROVE  /\ Len(q) \in Nat /\ (Len(q) = 0 <=> q = << >>)
         /\ q # << >> => IsText(Head(q)) /\ Fits(Head(q))
<1>1. PICK S : q \in Seq(S) /\ \A x \in S : IsText(x) /\ Fits(x)
  BY DEF FitSeq
<1> QED
  BY <1>1

(* A read takes two answers.                                                *)
LEMMA FitBytes ==
  ASSUME NmrLine, NEW q, FitSeq(q), Len(q) <= 2
  PROVE  Bytes(q, Len(q)) <= ReadCap /\ AfterRead(q, ReadCap) = << >>
<1>1. PICK S : q \in Seq(S) /\ \A x \in S : IsText(x) /\ Fits(x)
  BY DEF FitSeq
<1>2. \A x \in S : x.len = Length[Judge]
  BY <1>1 DEF Fits
<1>3. PICK n \in Nat : n = Length[Judge]
  BY LineLengths
<1>4. /\ Bytes(q, 0) = 0
      /\ \A k \in 1 .. Len(q) : Bytes(q, k) = Bytes(q, k - 1) + q[k].len
  BY <1>1, BytesAdd
<1>5. \A k \in 1 .. Len(q) : q[k].len = n
  BY <1>1, <1>2, <1>3
<1>6. Len(q) \in 0 .. 2
  <2>1. Len(q) \in Nat
    BY <1>1
  <2>2. PICK l : l = Len(q)
    OBVIOUS
  <2>3. l \in Nat /\ l <= 2
    BY <2>1, <2>2
  <2> QED
    BY <2>2, <2>3
<1>7. Bytes(q, Len(q)) <= 2 * n
  <2>1. CASE Len(q) = 0
    BY <1>4, <2>1
  <2>2. CASE Len(q) = 1
    <3>1. 1 \in 1 .. Len(q) /\ 1 - 1 = 0
      BY <2>2
    <3>2. Bytes(q, 1) = 0 + n
      BY <1>4, <1>5, <3>1
    <3> QED
      BY <2>2, <3>2
  <2>3. CASE Len(q) = 2
    <3>1. 1 \in 1 .. Len(q) /\ 2 \in 1 .. Len(q) /\ 1 - 1 = 0 /\ 2 - 1 = 1
      BY <2>3
    <3>2. Bytes(q, 1) = 0 + n
      BY <1>4, <1>5, <3>1
    <3>3. Bytes(q, 2) = Bytes(q, 1) + n
      BY <1>4, <1>5, <3>1
    <3> QED
      BY <2>3, <3>2, <3>3
  <2> QED
    BY <1>6, <2>1, <2>2, <2>3
<1>8. Bytes(q, Len(q)) <= ReadCap
  <2>1. Bytes(q, Len(q)) \in Nat
    <3>1. \A m \in S : m.len \in Nat
      BY <1>2, <1>3
    <3>2. Len(q) \in 0 .. Len(q)
      BY <1>6
    <3> QED
      BY <1>1, <3>1, <3>2, BytesGrow
  <2>2. 2 * n <= ReadCap /\ ReadCap \in Nat
    BY <1>3, LineLengths
  <2> QED
    BY <1>7, <2>1, <2>2
<1>9. AfterRead(q, ReadCap) = << >>
  BY <1>1, <1>2, <1>3, <1>8, ReadAll
<1> QED
  BY <1>8, <1>9

(* A read takes the question.                                               *)
LEMMA QuestionBytes ==
  ASSUME NmrLine, NEW m, m.len = Length[Source]
  PROVE  /\ Bytes(<<m>>, Len(<<m>>)) <= ReadCap /\ AfterRead(<<m>>, ReadCap) = << >>
         /\ Head(<<m>>) = m /\ <<m>> # << >>
<1>1. PICK q, S : q = <<m>> /\ S = {m}
  OBVIOUS
<1>2. q \in Seq(S) /\ Len(q) = 1 /\ q[1] = m
  BY <1>1
<1>3. Length[Source] \in Nat /\ Length[Source] <= ReadCap
  BY LineLengths
<1>4. Bytes(q, Len(q)) <= ReadCap
  <2>1. 1 \in 1 .. Len(q) /\ 1 - 1 = 0
    BY <1>2
  <2>2. Bytes(q, 1) = 0 + m.len
    BY <1>2, <2>1, BytesAdd
  <2> QED
    BY <1>2, <1>3, <2>2
<1>5. AfterRead(q, ReadCap) = << >>
  <2>1. \A x \in S : x.len \in Nat
    BY <1>1, <1>3
  <2> QED
    BY <1>2, <1>4, <2>1, ReadAll
<1>6. Head(<<m>>) = m /\ <<m>> # << >>
  OBVIOUS
<1> QED
  BY <1>1, <1>4, <1>5, <1>6

LEMMA VoteSeqAppend ==
  ASSUME NEW q, VoteSeq(q), NEW m, m = NoData \/ (IsText(m) /\ Fits(m))
  PROVE  /\ VoteSeq(Append(q, m))
         /\ Len(q) \in Nat /\ Len(Append(q, m)) = Len(q) + 1
         /\ DOMAIN q = 1 .. Len(q) /\ DOMAIN Append(q, m) = 1 .. Len(q) + 1
         /\ Append(q, m)[Len(q) + 1] = m
         /\ \A k \in DOMAIN q : Append(q, m)[k] = q[k]
<1>1. PICK S : q \in Seq(S) /\ \A x \in S : x = NoData \/ (IsText(x) /\ Fits(x))
  BY DEF VoteSeq
<1>2. q \in Seq(S \cup {m})
  BY <1>1
<1>3. /\ Append(q, m) \in Seq(S \cup {m})
      /\ Len(q) \in Nat /\ Len(Append(q, m)) = Len(q) + 1
      /\ DOMAIN q = 1 .. Len(q) /\ DOMAIN Append(q, m) = 1 .. Len(q) + 1
      /\ Append(q, m)[Len(q) + 1] = m
      /\ \A k \in DOMAIN q : Append(q, m)[k] = q[k]
  BY <1>2
<1>4. \A x \in S \cup {m} : x = NoData \/ (IsText(x) /\ Fits(x))
  BY <1>1
<1> QED
  BY <1>3, <1>4 DEF VoteSeq


(****************************************************************************)
(* What a step leaves alone.                                                *)
(****************************************************************************)
Still(t) ==
  /\ state'[t] = state[t] /\ child'[t] = child[t] /\ age'[t] = age[t]
  /\ taskRuns'[t] = taskRuns[t] /\ prog'[t] = prog[t]

(* The source is where it was in its round,                                 *)
SourceStill == age'[Source] = age[Source] /\ taskRuns'[Source] = taskRuns[Source]

(* the voter in its vote and in what it has seen,                           *)
JudgeStill ==
  /\ taskRuns'[Judge] = taskRuns[Judge] /\ prog'[Judge].read = prog[Judge].read
  /\ child'[Judge] = "alive" <=> child[Judge] = "alive"
  /\ state'[Judge] = "fireable" <=> state[Judge] = "fireable"

PollStill == InLoop' => armed'[Judge] = armed[Judge] /\ monitor'[Judge] = monitor[Judge]

(* the loop goes on, if it does, and the voter keeps its turn.              *)
PassStill ==
  /\ InLoop' => InLoop
  /\ pc' = "monitor" =>
       Judge \in queue' \/ (pc = "monitor" /\ Judge \notin queue)

PipesStill(i) == pipe'[Ask(i)] = pipe[Ask(i)] /\ pipe'[Reply(i)] = pipe[Reply(i)]

LEMMA RoundStill ==
  ASSUME SourceStill
  PROVE  (Early' <=> Early) /\ Round' = Round /\ Question' = Question
<1>1. Early' <=> Early
  BY DEF SourceStill, Early, Age, Due
<1>2. Round' = Round /\ Question' = Question
  BY <1>1 DEF SourceStill, Round, Question, Message
<1> QED
  BY <1>1, <1>2

LEMMA PhaseStill ==
  ASSUME NEW i \in Idx, SourceStill, Unsent(i)' <=> Unsent(i),
         pipe'[Ask(i)] = pipe[Ask(i)], Still(Rep(i))
  PROVE  /\ Taken(i)' <=> Taken(i)
         /\ Launched(i)' <=> Launched(i)
         /\ Answered(i)' <=> Answered(i)
         /\ Pending(i)' <=> Pending(i)
         /\ Reported(i)' = Reported(i)
         /\ Running(Rep(i))' <=> Running(Rep(i))
         /\ Busy(Rep(i))' <=> Busy(Rep(i))
<1>1. Taken(i)' <=> Taken(i)
  BY DEF Taken
<1>2. Running(Rep(i))' <=> Running(Rep(i))
  BY DEF Still, Running
<1> QED
  BY <1>1, <1>2 DEF Still, Launched, Answered, Pending, Reported, Message, Busy

LEMMA VoteStill ==
  ASSUME NEW i \in Idx, SourceStill, JudgeStill
  PROVE  /\ Waits' <=> Waits
         /\ Collected(i)' <=> Collected(i)
         /\ Running(Judge)' <=> Running(Judge)
<1>1. Round' = Round
  BY RoundStill
<1> QED
  BY <1>1 DEF JudgeStill, Waits, Collected, Running

(* A part of the invariant depends on its replicate, on how far the source  *)
(* is with its question, and on the voter.                                  *)
LEMMA PartFrame ==
  ASSUME NEW i \in Idx, PartInv(i), SourceStill, Unsent(i)' <=> Unsent(i),
         JudgeStill, PollStill, PassStill, PipesStill(i), Still(Rep(i)), faulty' = faulty
  PROVE  PartInv(i)'
<1>1. (Early' <=> Early) /\ Round' = Round /\ Question' = Question
  BY RoundStill
<1>2. /\ Taken(i)' <=> Taken(i)
      /\ Launched(i)' <=> Launched(i)
      /\ Answered(i)' <=> Answered(i)
      /\ Pending(i)' <=> Pending(i)
      /\ Reported(i)' = Reported(i)
      /\ Running(Rep(i))' <=> Running(Rep(i))
      /\ Busy(Rep(i))' <=> Busy(Rep(i))
  BY PhaseStill DEF PipesStill
<1>3. /\ Waits' <=> Waits
      /\ Collected(i)' <=> Collected(i)
      /\ Running(Judge)' <=> Running(Judge)
  BY VoteStill
<1>4. /\ Healthy(i)' <=> Healthy(i)
      /\ InLoop' => InLoop
  BY DEF Healthy, PassStill
<1>5. AskPart(i)'
  BY <1>1, <1>2, <1>4 DEF PartInv, AskPart, PipesStill, Still, SourceStill, Age, Due
<1>6. WorkPart(i)'
  BY <1>1, <1>2, <1>4
  DEF PartInv, WorkPart, Still, SourceStill, Age, Due, Cycle, Fits
<1>7. ReplyPart(i)'
  BY <1>1, <1>2, <1>3, <1>4 DEF PartInv, ReplyPart, PipesStill, Still, FitSeq, Fits, One
<1>8. ReadPart(i)'
  BY <1>2, <1>3, <1>4 DEF PartInv, ReadPart, PipesStill, Still, JudgeStill, Message
<1>9. WatchPart(i)'
  BY <1>2, <1>3, <1>4 DEF PartInv, WatchPart, Still, PollStill, PassStill
<1> QED
  BY <1>5, <1>6, <1>7, <1>8, <1>9 DEF PartInv


LEMMA SourceFrame ==
  ASSUME SourcePart, SourceStill, InLoop' => InLoop, prog'[Source] = prog[Source],
         child'[Source] = "alive" <=> child[Source] = "alive",
         state'[Source] \in {"running", "fireable"} => state'[Source] = state[Source]
  PROVE  SourcePart'
<1>1. (Early' <=> Early) /\ Question' = Question
  BY RoundStill
<1>2. Running(Source)' <=> Running(Source)
  BY DEF Running
<1> QED
  BY <1>1, <1>2 DEF SourcePart, SourceStill, Age, Due, Cycle

LEMMA StartFrame ==
  ASSUME StartPart, SourceStill, InLoop' => InLoop,
         InLoop' /\ taskRuns[Source] = 0 /\ pipe[Verdict] = << >> =>
           /\ pipe'[Verdict] = << >>
           /\ \A t \in Tasks : state'[t] = "running" => state[t] = "running"
  PROVE  StartPart'
BY DEF StartPart, SourceStill, Age, Cycle

LEMMA JudgeFrame ==
  ASSUME JudgePart, SourceStill, JudgeStill, PollStill, InLoop' => InLoop,
         prog'[Judge] = prog[Judge],
         state'[Judge] = "running" => state[Judge] = "running"
  PROVE  JudgePart'
<1>1. (Early' <=> Early) /\ Round' = Round
  BY RoundStill
<1>2. Waits' <=> Waits
  BY <1>1 DEF JudgeStill, Waits
<1> QED
  BY <1>1, <1>2 DEF JudgePart, SourceStill, JudgeStill, PollStill, Age, Due, VoteSeq, Fits

LEMMA SinkFrame ==
  ASSUME SinkPart, SourceStill, JudgeStill, InLoop' => InLoop,
         prog'[Judge].written = prog[Judge].written,
         pipe'[Verdict] = pipe[Verdict],
         state'[Sink] = "running" => state[Sink] = "running" /\ age'[Sink] = age[Sink],
         Running(Sink)' => Running(Sink) /\ age'[Sink] = age[Sink]
                           /\ prog'[Sink].text = prog[Sink].text
  PROVE  SinkPart'
<1>1. (Early' <=> Early) /\ Round' = Round /\ SinkAge' = SinkAge
  <2>1. (Early' <=> Early) /\ Round' = Round
    BY RoundStill
  <2> QED
    BY <2>1 DEF SinkAge, SourceStill, Age, Cycle, Due
<1>2. (Unwritten' <=> Unwritten) /\ (Running(Judge)' <=> Running(Judge))
  BY <1>1 DEF Unwritten, JudgeStill, Running
<1> QED
  BY <1>1, <1>2 DEF SinkPart, FitSeq, Fits

(* Steps of one replicate: only its own part is at stake.                   *)
LEMMA ReplicateFrame ==
  ASSUME NmrLine, LineInv, NEW j \in Idx,
         \A u \in Tasks \ {Rep(j)} : Still(u), PollStill, PassStill, faulty' = faulty,
         outage' = outage, \A p \in PipeNames \ {Ask(j), Reply(j)} : pipe'[p] = pipe[p],
         InLoop /\ state'[Rep(j)] = "running" =>
           state[Rep(j)] = "running" \/ taskRuns[Source] # 0
  PROVE  /\ Faults' /\ SourcePart' /\ StartPart' /\ JudgePart' /\ SinkPart'
         /\ SourceStill /\ JudgeStill
         /\ \A i \in Idx \ {j} : PartInv(i)'
<1>1. /\ Source \in Tasks \ {Rep(j)} /\ Judge \in Tasks \ {Rep(j)} /\ Sink \in Tasks \ {Rep(j)}
      /\ \A i \in Idx \ {j} : Rep(i) \in Tasks \ {Rep(j)}
  BY LineTasks
<1>2. Still(Source) /\ Still(Judge) /\ Still(Sink) /\ \A i \in Idx \ {j} : Still(Rep(i))
  BY <1>1
<1>3. SourceStill /\ JudgeStill
  BY <1>2 DEF Still, SourceStill, JudgeStill
<1>4. InLoop' => InLoop
  BY DEF PassStill
<1>5. /\ pipe'[Verdict] = pipe[Verdict]
      /\ \A i \in Idx \ {j} : PipesStill(i)
  BY LinePipes DEF PipesStill
<1>6. /\ Faults /\ SourcePart /\ StartPart /\ JudgePart /\ SinkPart
      /\ \A i \in Idx : PartInv(i)
  BY DEF LineInv, Parts
<1>7. Faults'
  BY <1>6 DEF Faults
<1>8. SourcePart'
  BY <1>2, <1>3, <1>4, <1>6, SourceFrame DEF Still
<1>9. StartPart'
  <2>1. \A t \in Tasks \ {Rep(j)} : state'[t] = state[t]
    BY DEF Still
  <2> QED
    BY <1>3, <1>4, <1>5, <1>6, <2>1, StartFrame
<1>10. JudgePart'
  BY <1>2, <1>3, <1>4, <1>6, JudgeFrame DEF Still
<1>11. SinkPart'
  BY <1>2, <1>3, <1>4, <1>5, <1>6, SinkFrame DEF Still, Running
<1>12. ASSUME NEW i \in Idx \ {j}
       PROVE  PartInv(i)'
  <2>1. Unsent(i)' <=> Unsent(i)
    <3>1. Early' <=> Early
      BY <1>3, RoundStill
    <3> QED
      BY <1>2, <3>1 DEF Unsent, Running, Still
  <2> QED
    BY <1>2, <1>3, <1>5, <1>6, <2>1, PartFrame
<1> QED
  BY <1>3, <1>7, <1>8, <1>9, <1>10, <1>11, <1>12


(* Steps that leave every task where it was.                                *)
LEMMA AllFrame ==
  ASSUME NmrLine, LineInv, \A u \in Tasks : Still(u), PollStill, PassStill,
         pipe' = pipe, faulty' = faulty, outage' = outage
  PROVE  Parts'
<1>1. /\ Faults /\ SourcePart /\ StartPart /\ JudgePart /\ SinkPart
      /\ \A i \in Idx : PartInv(i)
  BY DEF LineInv, Parts
<1>2. Still(Source) /\ Still(Judge) /\ Still(Sink) /\ \A i \in Idx : Still(Rep(i))
  BY LineTasks
<1>3. SourceStill /\ JudgeStill /\ (InLoop' => InLoop) /\ \A i \in Idx : PipesStill(i)
  BY <1>2 DEF Still, SourceStill, JudgeStill, PassStill, PipesStill
<1>4. ASSUME NEW i \in Idx
      PROVE  PartInv(i)'
  <2>1. Early' <=> Early
    BY <1>3, RoundStill
  <2>2. Unsent(i)' <=> Unsent(i)
    BY <1>2, <2>1 DEF Unsent, Running, Still
  <2> QED
    BY <1>1, <1>2, <1>3, <2>2, PartFrame
<1>5. SourcePart'
  BY <1>1, <1>2, <1>3, SourceFrame DEF Still
<1>6. StartPart'
  BY <1>1, <1>3, StartFrame DEF Still
<1>7. JudgePart'
  BY <1>1, <1>2, <1>3, JudgeFrame DEF Still
<1>8. SinkPart'
  BY <1>1, <1>2, <1>3, SinkFrame DEF Still, Running
<1>9. Faults'
  BY <1>1 DEF Faults
<1> QED
  BY <1>4, <1>5, <1>6, <1>7, <1>8, <1>9 DEF Parts


(****************************************************************************)
(* What the steps of the scheduler change.                                  *)
(****************************************************************************)
LEMMA TurnEffects ==
  ASSUME NmrLine, TypeOK, NEW t \in Tasks, Turn(t)
  PROVE  /\ InLoop /\ InLoop' /\ pc = "monitor" /\ t \in queue
         /\ pc' = "monitor" /\ t # Judge /\ Judge \in queue => Judge \in queue'
         /\ t # Judge => PassStill
         /\ \A i \in Idx : t = Rep(i) => Judge \notin queue
<1>1. /\ pc = "monitor" /\ t \in queue /\ queue' = queue \ {t} /\ pc' \in {"monitor", "run"}
      /\ \A u \in queue : Priority[u] <= Priority[t]
  BY DEF Turn, Highest
<1>2. \A u \in Tasks : Priority[u] \in Nat
  BY TaskAssumption
<1>3. ASSUME NEW i \in Idx, t = Rep(i)
      PROVE  Judge \notin queue
  <2>1. Priority[t] < Priority[Judge] /\ Judge \in Tasks
    BY <1>3, LineTasks
  <2> QED
    BY <1>1, <1>2, <2>1
<1> QED
  BY <1>1, <1>3 DEF InLoop, PassStill

LEMMA ReapEffects ==
  ASSUME TypeOK, AccountInv, NEW t \in Tasks, MonitorReap(t), UNCHANGED progVars
  PROVE  /\ state[t] = "running" /\ child[t] # "alive" /\ child[t] # "none"
         /\ child'[t] = "none" /\ state'[t] \in {"idle", "crashed"}
         /\ child[t] = "exit0" => state'[t] = "idle"
         /\ UNCHANGED <<age, taskRuns, armed, monitor>>
         /\ \A u \in Tasks \ {t} : Still(u)
<1>1. /\ state[t] = "running" /\ child[t] # "alive" /\ pc = "monitor"
      /\ child' = [child EXCEPT ![t] = "none"]
      /\ HandleTaskCompletion(t, IF child[t] = "none" THEN "lost" ELSE child[t])
      /\ UNCHANGED <<age, taskRuns, armed, monitor>>
  BY DEF MonitorReap, Turn, voterVars
<1>2. child[t] # "none"
  BY <1>1 DEF AccountInv, RunningHasChild
<1>3. state' = [state EXCEPT ![t] =
                  IF child[t] \in {"exit0", "lost"} THEN "idle" ELSE "crashed"]
  BY <1>1, <1>2 DEF HandleTaskCompletion
<1>4. \A u \in Tasks \ {t} : Still(u)
  BY <1>1, <1>3 DEF Still, TypeOK, progVars
<1> QED
  BY <1>1, <1>2, <1>3, <1>4 DEF TypeOK

LEMMA WaitEffects ==
  ASSUME NEW t \in Tasks, MonitorWait(t), UNCHANGED progVars
  PROVE  /\ state[t] = "running" /\ child[t] = "alive"
         /\ EvaluateVoters({t})
         /\ UNCHANGED <<age, taskRuns, state, child>>
         /\ \A u \in Tasks : Still(u)
BY DEF MonitorWait, taskVars, procVars, progVars, Still

LEMMA DispatchEffects ==
  ASSUME TypeOK, OwnershipInv, NEW t \in Tasks, MonitorDispatch(t, InputReady(t)),
         UNCHANGED progVars
  PROVE  /\ ~Busy(t)
         /\ EvaluateVoters({t})
         /\ UNCHANGED <<age, taskRuns, child>>
         /\ \/ ~(InputFull(t, InputReady(t)) /\ PeriodElapsed(t)) /\ state'[t] = state[t]
            \/ /\ InputFull(t, InputReady(t)) /\ PeriodElapsed(t)
               /\ \/ FindCore(t \in Weighted) = {} /\ state'[t] = "idle"
                  \/ FindCore(t \in Weighted) # {} /\ state'[t] = "fireable"
         /\ \A u \in Tasks \ {t} : Still(u)
<1>1. /\ Turn(t) /\ state[t] # "running" /\ EvaluateVoters({t})
      /\ UNCHANGED <<age, taskRuns, child>>
      /\ \/ ~(InputFull(t, InputReady(t)) /\ PeriodElapsed(t)) /\ state' = state
         \/ /\ InputFull(t, InputReady(t)) /\ PeriodElapsed(t)
            /\ \/ FindCore(t \in Weighted) = {} /\ state' = [state EXCEPT ![t] = "idle"]
               \/ FindCore(t \in Weighted) # {} /\ state' = [state EXCEPT ![t] = "fireable"]
  BY DEF MonitorDispatch, procVars
<1>2. ~Busy(t)
  BY <1>1 DEF Turn, Highest, OwnershipInv, FireableOnlyWithinPass, Fireable, Busy
<1>3. \A u \in Tasks \ {t} : state'[u] = state[u]
  BY <1>1 DEF TypeOK
<1>4. \/ ~(InputFull(t, InputReady(t)) /\ PeriodElapsed(t)) /\ state'[t] = state[t]
      \/ /\ InputFull(t, InputReady(t)) /\ PeriodElapsed(t)
         /\ \/ FindCore(t \in Weighted) = {} /\ state'[t] = "idle"
            \/ FindCore(t \in Weighted) # {} /\ state'[t] = "fireable"
  BY <1>1 DEF TypeOK
<1>5. \A u \in Tasks \ {t} : Still(u)
  BY <1>1, <1>3 DEF Still, progVars
<1> QED
  BY <1>1, <1>2, <1>4, <1>5

(* Only the voter's own turn changes what it has seen.                      *)
LEMMA OtherPolls ==
  ASSUME NmrLine, TypeOK, NEW t \in Tasks, t # Judge, EvaluateVoters({t})
  PROVE  armed'[Judge] = armed[Judge] /\ monitor'[Judge] = monitor[Judge]
BY LineTasks DEF EvaluateVoters, TypeOK

LEMMA LaunchEffects ==
  ASSUME TypeOK, InTime, ProgramInv, NEW t \in Tasks, Launch(t)
  PROVE  /\ pc = "run" /\ state[t] = "fireable" /\ child[t] # "alive"
         /\ state'[t] = "running" /\ child'[t] = "alive" /\ age'[t] = 0
         /\ taskRuns'[t] = taskRuns[t] + 1 /\ prog'[t] = Fresh
         /\ UNCHANGED <<pc, queue, armed, monitor, pipe, faulty, outage>>
         /\ \A u \in Tasks \ {t} : Still(u)
<1>1. /\ pc = "run" /\ state[t] = "fireable"
      /\ state' = [state EXCEPT ![t] = "running"] /\ age' = [age EXCEPT ![t] = 0]
      /\ child' = [child EXCEPT ![t] = "alive"]
      /\ taskRuns' = [taskRuns EXCEPT ![t] = @ + 1]
      /\ prog' = [prog EXCEPT ![t] = Fresh]
      /\ UNCHANGED <<pc, queue, armed, monitor, pipe, faulty, outage>>
  BY DEF Launch, RunTask, Highest, Fireable, loopVars, voterVars, faults
<1>2. child[t] # "alive"
  BY <1>1 DEF InTime, Running
<1>3. DOMAIN prog = Tasks
  BY DEF ProgramInv
<1>4. \A u \in Tasks \ {t} : Still(u)
  BY <1>1, <1>3 DEF Still, TypeOK
<1> QED
  BY <1>1, <1>2, <1>3, <1>4 DEF TypeOK


(****************************************************************************)
(* What the steps of the programs change.                                   *)
(****************************************************************************)
LoopStill == UNCHANGED <<pc, queue, armed, monitor, faulty, outage>>

LEMMA LoopStays ==
  ASSUME LoopStill
  PROVE  PollStill /\ PassStill /\ faulty' = faulty /\ outage' = outage
         /\ (InLoop' <=> InLoop)
BY DEF LoopStill, PollStill, PassStill, InLoop

LEMMA ProgramEffects ==
  ASSUME TypeOK, ProgramInv, NEW t \in Tasks, Sample(t) \/ ReadInput(t) \/ WriteOutput(t)
  PROVE  /\ LoopStill /\ UNCHANGED <<state, child, age, taskRuns>> /\ Running(t)
         /\ \A u \in Tasks \ {t} : Still(u)
<1>1. /\ LoopStill /\ UNCHANGED <<state, child, age, taskRuns>> /\ Running(t)
  BY DEF Sample, ReadInput, WriteOutput, LoopStill, schedVars, loopVars, voterVars, taskVars,
         procVars, faults
<1>2. DOMAIN prog = Tasks
  BY DEF ProgramInv
<1>3. \A u \in Tasks \ {t} : prog'[u] = prog[u]
  <2>1. CASE Sample(t)
    BY <1>2, <2>1 DEF Sample, Computed
  <2>2. CASE ReadInput(t)
    BY <2>2, ReadEffects
  <2>3. CASE WriteOutput(t)
    BY <1>2, <2>3 DEF WriteOutput
  <2> QED
    BY <2>1, <2>2, <2>3
<1> QED
  BY <1>1, <1>3 DEF Still

(* Nothing but a replicate fails.                                           *)
LEMMA NoneProne ==
  ASSUME Nmr, LineInv, NEW t \in Tasks, \A i \in Idx : t = Rep(i) => Healthy(i)
  PROVE  ~Prone(t) /\ Values(t) = {"good"}
<1>1. outage = << >> /\ faulty \in FaultSets
  BY DEF LineInv, Parts, Faults
<1>2. \A F \in FaultSets : F \subseteq {Rep(i) : i \in Idx}
  BY DEF Nmr, NmrFaults, Idx
<1>3. t \notin faulty
  BY <1>1, <1>2 DEF Healthy
<1>4. DOMAIN outage = {}
  BY <1>1
<1> QED
  BY <1>3, <1>4 DEF Prone, Values

LEMMA SampleEffects ==
  ASSUME Nmr, LineInv, ProgramInv, NEW t \in Tasks, Sample(t)
  PROVE  /\ t = Source /\ UNCHANGED pipe
         /\ prog'[Source].text = Question /\ prog'[Source].written = prog[Source].written
<1>1. t = Source
  BY ProgramAssumption DEF Sample
<1>2. PICK m \in Outcomes(t, << >>) : prog' = [prog EXCEPT ![t].read = << >>, ![t].text = m]
  BY DEF Sample, Computed
<1>3. m = Question
  <2>1. Values(Source) = {"good"}
    BY LineTasks, NoneProne DEF Nmr
  <2> QED
    BY <1>1, <1>2, <2>1, LineTasks, ProgramAssumption DEF Outcomes, Sampled, Question
<1>4. DOMAIN prog = Tasks /\ IsProcess(prog[t])
  BY DEF ProgramInv
<1> QED
  BY <1>1, <1>2, <1>3, <1>4, LineTasks DEF IsProcess, Sample

LEMMA OutputEffects ==
  ASSUME ProgramInv, NEW t \in Tasks, WriteOutput(t)
  PROVE  /\ prog[t].text # NoData /\ IsText(prog[t].text) /\ ~Refused(prog[t].text)
         /\ age[t] >= BusyTime[t] /\ prog[t].written \in Nat
         /\ prog'[t].read = prog[t].read /\ prog'[t].text = prog[t].text
         /\ prog'[t].written = prog[t].written + 1
         /\ prog[t].written + 1 <= Len(Out[t])
         /\ \A p \in PipeNames :
              pipe'[p] = IF p = Out[t][prog[t].written + 1]
                         THEN Append(pipe[p], prog[t].text) ELSE pipe[p]
<1>1. DOMAIN prog = Tasks /\ IsProcess(prog[t]) /\ DOMAIN pipe = PipeNames
      /\ (prog[t].text = NoData \/ IsText(prog[t].text))
  BY DEF ProgramInv
<1>2. PICK k : k = prog[t].written + 1
  OBVIOUS
<1>3. /\ prog[t].text # NoData /\ ~Refused(prog[t].text) /\ age[t] >= BusyTime[t]
      /\ prog' = [prog EXCEPT ![t].written = @ + 1]
      /\ k <= Len(Out[t]) /\ pipe' = [pipe EXCEPT ![Out[t][k]] = Append(@, prog[t].text)]
  BY <1>2 DEF WriteOutput, Done, Failed, WriteData
<1>4. \A p \in PipeNames :
        pipe'[p] = IF p = Out[t][k] THEN Append(pipe[p], prog[t].text) ELSE pipe[p]
  BY <1>1, <1>3
<1> QED
  BY <1>1, <1>2, <1>3, <1>4 DEF IsProcess

(* The end of a process, whether it is done or dies.                        *)
LEMMA EndEffects ==
  ASSUME TypeOK, ProgramInv, NEW t \in Tasks, Finish(t) \/ Crash(t)
  PROVE  /\ LoopStill /\ UNCHANGED <<state, age, taskRuns, pipe>>
         /\ Running(t) /\ ~Running(t)' /\ prog'[t] = Fresh
         /\ \A u \in Tasks \ {t} : Still(u)
         /\ \/ Prone(t)
            \/ Refused(prog[t].text)
            \/ Done(t) /\ prog[t].written = Len(Out[t]) /\ child'[t] = "exit0"
<1>1. PICK status : /\ Exit(t, status) /\ status # "alive"
                    /\ \/ Prone(t)
                       \/ Refused(prog[t].text)
                       \/ /\ Done(t) /\ prog[t].written = Len(Out[t])
                          /\ status = "exit0"
  BY DEF Finish, Crash, Failed, Refused
<1>2. /\ LoopStill /\ UNCHANGED <<state, age, taskRuns, pipe>> /\ Running(t)
      /\ child' = [child EXCEPT ![t] = status] /\ prog' = [prog EXCEPT ![t] = Fresh]
  BY <1>1 DEF Exit, LoopStill, schedVars, loopVars, voterVars, taskVars, faults
<1>3. DOMAIN prog = Tasks
  BY DEF ProgramInv
<1>4. /\ ~Running(t)' /\ prog'[t] = Fresh /\ child'[t] = status
      /\ \A u \in Tasks \ {t} : Still(u)
  BY <1>1, <1>2, <1>3 DEF Running, Still, TypeOK
<1> QED
  BY <1>1, <1>2, <1>4


(****************************************************************************)
(* The steps of a replicate.                                                *)
(****************************************************************************)
(* What stays the same in the round of a replicate j that takes a step.     *)
OwnStill(j) ==
  /\ (Early' <=> Early) /\ Round' = Round /\ Question' = Question
  /\ (Unsent(j)' <=> Unsent(j))
  /\ (Waits' <=> Waits) /\ (Collected(j)' <=> Collected(j))
  /\ (Running(Judge)' <=> Running(Judge))
  /\ age'[Source] = age[Source] /\ taskRuns'[Source] = taskRuns[Source]
  /\ taskRuns'[Judge] = taskRuns[Judge] /\ prog'[Judge].read = prog[Judge].read
  /\ (Healthy(j)' <=> Healthy(j))

LEMMA OwnFrame ==
  ASSUME NmrLine, NEW j \in Idx, faulty' = faulty,
         \A u \in Tasks \ {Rep(j)} : Still(u)
  PROVE  OwnStill(j)
<1>1. Source \in Tasks \ {Rep(j)} /\ Judge \in Tasks \ {Rep(j)}
  BY LineTasks
<1>2. Still(Source) /\ Still(Judge)
  BY <1>1
<1>3. SourceStill /\ JudgeStill
  BY <1>2 DEF Still, SourceStill, JudgeStill
<1>4. (Early' <=> Early) /\ Round' = Round /\ Question' = Question
  BY <1>3, RoundStill
<1>5. (Waits' <=> Waits) /\ (Collected(j)' <=> Collected(j))
      /\ (Running(Judge)' <=> Running(Judge))
  BY <1>3, VoteStill
<1>6. Unsent(j)' <=> Unsent(j)
  BY <1>2, <1>4 DEF Unsent, Running, Still
<1> QED
  BY <1>2, <1>4, <1>5, <1>6 DEF OwnStill, Still, Healthy

(* A replicate is reaped after the voter has had its turn.                  *)
LEMMA ReplicateReaped ==
  ASSUME Nmr, Before, LineInv, NEW j \in Idx, MonitorReap(Rep(j)), UNCHANGED progVars
  PROVE  PartInv(j)'
<1> DEFINE b == Rep(j)
<1>1. /\ InLoop /\ InLoop' /\ pc = "monitor" /\ Judge \notin queue
      /\ PassStill
  BY TurnEffects, LineTasks DEF MonitorReap, Nmr, Before
<1>2. /\ state[b] = "running" /\ child[b] # "alive" /\ child[b] # "none"
      /\ child'[b] = "none" /\ state'[b] \in {"idle", "crashed"}
      /\ child[b] = "exit0" => state'[b] = "idle"
      /\ UNCHANGED <<age, taskRuns, armed, monitor>>
      /\ \A u \in Tasks \ {b} : Still(u)
  BY ReapEffects, LineTasks DEF Nmr, Before
<1>3. prog' = prog /\ pipe' = pipe /\ faulty' = faulty
  BY DEF progVars, faults
<1>4. OwnStill(j)
  BY <1>2, <1>3, OwnFrame DEF Nmr
<1>5. PartInv(j)
  BY DEF LineInv, Parts
<1>6. ~Running(b) /\ ~Running(b)' /\ ~Busy(b)' /\ state'[b] # "running"
  BY <1>2 DEF Running, Busy
<1>7. (Taken(j)' <=> Taken(j)) /\ (Pending(j)' <=> Pending(j)) /\ (Answered(j)' <=> Answered(j))
      /\ Reported(j)' = Reported(j)
  BY <1>2, <1>3, <1>4, <1>6 DEF Taken, Pending, Answered, Reported, Message, OwnStill
<1>8. Healthy(j) => pipe[Ask(j)] = << >> /\ child[b] = "exit0"
  BY <1>1, <1>2, <1>5, <1>6 DEF PartInv, AskPart, WorkPart, Launched, Age
<1>9. Healthy(j) => (Launched(j)' <=> Launched(j))
  BY <1>3, <1>4, <1>8 DEF Launched, OwnStill
<1>10. AskPart(j)'
  BY <1>3, <1>4, <1>5, <1>6 DEF PartInv, AskPart, OwnStill, Age, Due
<1>11. WorkPart(j)'
  BY <1>1, <1>2, <1>3, <1>4, <1>5, <1>6, <1>7, <1>8, <1>9
  DEF PartInv, WorkPart, OwnStill, Age, Due, Fits
<1>12. ReplyPart(j)'
  BY <1>1, <1>3, <1>4, <1>5, <1>6, <1>7 DEF PartInv, ReplyPart, OwnStill, FitSeq, Fits, One
<1>13. ReadPart(j)'
  BY <1>2, <1>3, <1>4, <1>5, <1>6 DEF PartInv, ReadPart, OwnStill, Message
<1>14. WatchPart(j)'
  BY <1>1, <1>2, <1>4, <1>5, <1>6, <1>7, <1>9 DEF PartInv, WatchPart, OwnStill
<1> QED
  BY <1>10, <1>11, <1>12, <1>13, <1>14 DEF PartInv

(* It is dispatched when its question is there, and then the voter waits.   *)
LEMMA ReplicateDispatched ==
  ASSUME Nmr, Before, LineInv, NEW j \in Idx,
         MonitorDispatch(Rep(j), InputReady(Rep(j))), UNCHANGED progVars
  PROVE  PartInv(j)' /\ PassStill /\ PollStill /\ state'[Rep(j)] # "running"
<1> DEFINE b == Rep(j)
<1>1. /\ InLoop /\ InLoop' /\ PassStill /\ b \in Tasks /\ b # Judge
      /\ (pc' = "monitor" => (Judge \in queue' <=> Judge \in queue)) /\ pc = "monitor"
  BY TurnEffects, LineTasks DEF MonitorDispatch, Turn, Nmr, Before
<1>2. /\ ~Busy(b) /\ EvaluateVoters({b})
      /\ UNCHANGED <<age, taskRuns, child>>
      /\ \A u \in Tasks \ {b} : Still(u)
      /\ state'[b] \in {state[b], "idle", "fireable"}
      /\ state'[b] = "fireable" => InputFull(b, InputReady(b))
  BY <1>1, DispatchEffects DEF Before, Busy
<1>3. prog' = prog /\ pipe' = pipe /\ faulty' = faulty
  BY DEF progVars, faults
<1>4. OwnStill(j)
  BY <1>2, <1>3, OwnFrame DEF Nmr
<1>5. PartInv(j) /\ JudgePart
  BY DEF LineInv, Parts
<1>6. armed'[Judge] = armed[Judge] /\ monitor'[Judge] = monitor[Judge]
  BY <1>1, <1>2, OtherPolls DEF Nmr, Before
<1>7. state[b] # "running" /\ state'[b] # "running" /\ (Running(b)' <=> Running(b))
  BY <1>2 DEF Busy, Running
<1>8. Busy(b)' => pipe[Ask(j)] # << >>
  <2>1. b \in Fed /\ b \notin VoterTasks /\ In[b] = <<Ask(j)>>
    BY LinePipes, LineTasks DEF Nmr
  <2>2. \A x : DOMAIN <<x>> = {1} /\ <<x>>[1] = x
    OBVIOUS
  <2>3. InputReady(b) => pipe[Ask(j)] # << >>
    BY <2>1, <2>2 DEF InputReady
  <2> QED
    BY <1>2, <1>7, <2>1, <2>3 DEF Busy, InputFull
<1>9. Busy(b)' => ~Unsent(j) /\ Waits
  BY <1>1, <1>5, <1>8 DEF PartInv, AskPart, JudgePart
<1>10. /\ (Taken(j)' <=> Taken(j)) /\ (Pending(j)' <=> Pending(j))
       /\ (Answered(j)' <=> Answered(j)) /\ (Launched(j)' <=> Launched(j))
       /\ Reported(j)' = Reported(j)
  BY <1>2, <1>3, <1>4, <1>7
  DEF Taken, Launched, Pending, Answered, Reported, Message, OwnStill
<1>11. AskPart(j)'
  BY <1>1, <1>3, <1>4, <1>5, <1>7, <1>9 DEF PartInv, AskPart, OwnStill, Age, Due
<1>12. WorkPart(j)'
  BY <1>1, <1>2, <1>3, <1>4, <1>5, <1>7, <1>10
  DEF PartInv, WorkPart, OwnStill, Age, Due, Fits
<1>13. ReplyPart(j)'
  BY <1>1, <1>3, <1>4, <1>5, <1>7, <1>10 DEF PartInv, ReplyPart, OwnStill, FitSeq, Fits, One
<1>14. ReadPart(j)'
  BY <1>2, <1>3, <1>4, <1>5, <1>7 DEF PartInv, ReadPart, OwnStill, Message
<1>15. WatchPart(j)'
  BY <1>1, <1>2, <1>4, <1>5, <1>6, <1>7, <1>9, <1>10 DEF PartInv, WatchPart, OwnStill
<1> QED
  BY <1>1, <1>6, <1>7, <1>11, <1>12, <1>13, <1>14, <1>15 DEF PartInv, PollStill

(* It is launched at one age of the source only, and then a round behind.   *)
LEMMA ReplicateLaunched ==
  ASSUME Nmr, Before, LineInv, NEW j \in Idx, Launch(Rep(j))
  PROVE  PartInv(j)' /\ PassStill /\ PollStill /\ taskRuns[Source] # 0
<1> DEFINE b == Rep(j)
<1>1. b \in Tasks /\ b \in Fed /\ In[b] = <<Ask(j)>>
  BY LineTasks, LinePipes DEF Nmr
<1>2. /\ pc = "run" /\ state[b] = "fireable" /\ child[b] # "alive"
      /\ state'[b] = "running" /\ child'[b] = "alive" /\ age'[b] = 0
      /\ taskRuns'[b] = taskRuns[b] + 1 /\ prog'[b] = Fresh
      /\ UNCHANGED <<pc, queue, armed, monitor, pipe, faulty, outage>>
      /\ \A u \in Tasks \ {b} : Still(u)
  BY <1>1, LaunchEffects DEF Before, LineInv
<1>3. InLoop /\ InLoop' /\ PassStill /\ PollStill
  BY <1>2 DEF InLoop, PassStill, PollStill
<1>4. OwnStill(j)
  BY <1>2, OwnFrame DEF Nmr
<1>5. PartInv(j) /\ JudgePart /\ StartPart /\ InTime
  BY DEF LineInv, Parts
<1>6. pipe[Ask(j)] # << >>
  <2>1. \A x : <<x>>[1] = x
    OBVIOUS
  <2> QED
    BY <1>1, <1>2, <2>1 DEF Before, FedInv, FedOne
<1>7. Age = Due /\ ~Early /\ ~Unsent(j) /\ Waits /\ Round = taskRuns[Source]
  <2>1. Age = Due /\ Due \in Nat
    BY <1>5, <1>6, LineTimes DEF PartInv, AskPart
  <2> QED
    BY <1>3, <1>5, <1>6, <2>1 DEF PartInv, AskPart, JudgePart, Early, Round
<1>8. taskRuns[Source] # 0
  BY <1>3, <1>5, <1>7, LineTimes DEF StartPart
<1>9. ~Running(Judge) /\ ~Collected(j) /\ taskRuns[Judge] = Round - 1
  BY <1>3, <1>5, <1>7, LineTasks DEF JudgePart, Waits, InTime, Collected, Nmr
<1>10. /\ ~Taken(j) /\ ~Taken(j)' /\ ~Launched(j) /\ Launched(j)' /\ Pending(j) /\ Pending(j)'
       /\ ~Answered(j) /\ ~Answered(j)'
  BY <1>2, <1>4, <1>6, <1>7 DEF Taken, Launched, Pending, Answered, OwnStill
<1>11. /\ Fresh.read = << >> /\ Fresh.written = 0 /\ Fresh.text = NoData
  BY DEF Fresh
<1>12. taskRuns[b] \in Nat /\ taskRuns[Source] \in Nat
  BY <1>1, LineTasks DEF Before, TypeOK, Nmr
<1>13. Healthy(j) => taskRuns'[b] = Round /\ pipe[Reply(j)] = << >>
  BY <1>2, <1>3, <1>5, <1>10, <1>12, <1>7 DEF PartInv, WorkPart, ReplyPart
<1>14. AskPart(j)'
  BY <1>2, <1>4, <1>5, <1>6, <1>7, <1>11 DEF PartInv, AskPart, OwnStill, Age, Due
<1>15. WorkPart(j)'
  <2>1. Age' = Age /\ Due' = Due /\ ~Early' /\ Round' = taskRuns'[Source]
    BY <1>4, <1>7 DEF OwnStill, Age, Due
  <2>2. age'[b] = Age' - Due'
    BY <1>2, <1>7, <2>1, LineTimes
  <2> QED
    BY <1>2, <1>4, <1>7, <1>10, <1>11, <1>13, <2>1, <2>2
    DEF WorkPart, OwnStill, Running
<1>16. ReplyPart(j)'
  BY <1>2, <1>3, <1>4, <1>5, <1>9, <1>10, <1>11, <1>13
  DEF PartInv, ReplyPart, OwnStill, FitSeq, Fits, One
<1>17. ReadPart(j)'
  BY <1>2, <1>4, <1>5, <1>7, <1>9, <1>12, <1>13 DEF PartInv, ReadPart, OwnStill, Message
<1>18. WatchPart(j)'
  BY <1>2, <1>3, <1>4, <1>5, <1>7, <1>10 DEF PartInv, WatchPart, OwnStill
<1> QED
  BY <1>3, <1>8, <1>14, <1>15, <1>16, <1>17, <1>18 DEF PartInv

(* A replicate accepts the question and has an answer to it.                *)
LEMMA AnswerText ==
  ASSUME Nmr, LineInv, NEW j \in Idx, NEW read, read = <<Question>>,
         NEW m \in Outcomes(Rep(j), read)
  PROVE  /\ m # NoData /\ Fits(m)
         /\ Healthy(j) => m = Message(Rep(j), "good", taskRuns[Source])
<1> DEFINE b == Rep(j)
<1>1. /\ b \in Tasks /\ b # Source /\ b \notin VoterTasks /\ Source \in Tasks
      /\ In[b] = <<Ask(j)>> /\ j \in DOMAIN Out[Source]
  BY LineTasks, LinePipes DEF Nmr
<1>2. \A x : <<x>>[1] = x
  OBVIOUS
<1>3. m \in Processed(b, Question)
  BY <1>1, <1>2 DEF Outcomes
<1>4. Question.value = "good" /\ Question.len = Length[Source] /\ Question.round = taskRuns[Source]
  BY DEF Question, Message
<1>5. Question # NoData
  BY <1>4 DEF NoData
<1>6. Expected(b, Question)
  BY <1>1, <1>2, <1>4 DEF Expected, Ask
<1>7. PICK value \in Values(b) : m = Message(b, value, taskRuns[Source])
  BY <1>3, <1>4, <1>5, <1>6 DEF Processed
<1>8. value \notin {"none", "exit1", "exit2"}
  BY ProgramAssumption DEF Values
<1>9. m.value = value /\ m.len = Length[Judge]
  BY <1>7, LineLengths DEF Message, Nmr
<1>10. Healthy(j) => value = "good"
  <2>1. \A i \in Idx : b = Rep(i) => i = j
    BY LineTasks DEF Nmr
  <2> QED
    BY <1>1, <2>1, NoneProne
<1> QED
  BY <1>7, <1>8, <1>9, <1>10 DEF Fits, Refused, NoData

LEMMA ReplicateReads ==
  ASSUME Nmr, Before, LineInv, NEW j \in Idx, ReadInput(Rep(j))
  PROVE  PartInv(j)' /\ \A p \in PipeNames \ {Ask(j), Reply(j)} : pipe'[p] = pipe[p]
<1> DEFINE b == Rep(j)
<1>1. b \in Tasks /\ b \in Fed /\ In[b] = <<Ask(j)>> /\ Ask(j) # Reply(j) /\ Reply(j) \in PipeNames
      /\ Ask(j) \in PipeNames
  BY LineTasks, LinePipes DEF Nmr
<1>2. /\ LoopStill /\ UNCHANGED <<state, child, age, taskRuns>> /\ Running(b)
      /\ \A u \in Tasks \ {b} : Still(u)
  BY <1>1, ProgramEffects DEF Before
<1>3. PollStill /\ PassStill /\ faulty' = faulty /\ (InLoop' <=> InLoop)
  BY <1>2, LoopStays
<1>4. OwnStill(j)
  BY <1>2, <1>3, OwnFrame DEF Nmr
<1>5. PartInv(j) /\ InTime
  BY DEF LineInv, Parts
<1>6. \A x : <<x>>[1] = x /\ Len(<<x>>) = 1 /\ Append(<< >>, x) = <<x>>
  OBVIOUS
<1>7. prog[b].read = << >> /\ pipe[Ask(j)] # << >> /\ prog[b].text = NoData
  <2>1. prog[b].read = << >> /\ pipe[In[b][1]] # << >>
    BY <1>1, OwnRead, LineReaders DEF Before, Nmr
  <2> QED
    BY <1>1, <1>6, <2>1 DEF Before, FedInv, FedOne
<1>8. pipe[Ask(j)] = <<Question>> /\ AfterRead(<<Question>>, ReadCap) = << >>
      /\ Head(<<Question>>) = Question
  <2>1. Question.len = Length[Source]
    BY DEF Question, Message
  <2> QED
    BY <1>5, <1>7, <2>1, QuestionBytes DEF PartInv, AskPart, Nmr
<1>9. /\ pipe'[Ask(j)] = << >> /\ \A q \in PipeNames \ {Ask(j)} : pipe'[q] = pipe[q]
      /\ prog'[b].read = <<Question>> /\ prog'[b].text \in Outcomes(b, prog'[b].read)
  <2>1. PICK p \in PipeNames :
          /\ \A q \in PipeNames \ {p} : pipe'[q] = pipe[q]
          /\ pipe'[p] = AfterRead(pipe[p], ReadCap)
          /\ p = In[b][Len(prog[b].read) + 1]
          /\ prog'[b].read = Append(prog[b].read,
                                    IF pipe[p] = << >> THEN NoData ELSE Head(pipe[p]))
          /\ Len(prog[b].read) + 1 = Len(In[b]) => prog'[b].text \in Outcomes(b, prog'[b].read)
    BY <1>1, ReadEffects DEF Before
  <2>2. Len(prog[b].read) + 1 = 1
    BY <1>7
  <2>3. p = Ask(j) /\ Len(In[b]) = 1
    BY <1>1, <1>6, <2>1, <2>2
  <2> QED
    BY <1>6, <1>7, <1>8, <2>1, <2>2, <2>3
<1>10. prog'[b].written = 0
  <2>1. DOMAIN prog = Tasks /\ IsProcess(prog[b]) /\ prog[b].written = 0
    BY <1>1, <1>5, <1>7 DEF Before, ProgramInv, PartInv, WorkPart
  <2> QED
    BY <1>1, <2>1 DEF ReadInput, Computed, IsProcess
<1>11. /\ prog'[b].text # NoData /\ Fits(prog'[b].text)
       /\ Healthy(j) => prog'[b].text = Message(b, "good", taskRuns[Source])
  BY <1>9, AnswerText
<1>12. ~Unsent(j) /\ Age = Due /\ state[b] = "running" /\ Running(b)' /\ state'[b] = "running"
  BY <1>1, <1>2, <1>5, <1>7 DEF PartInv, AskPart, InTime, Running
<1>13. /\ ~Taken(j) /\ Taken(j)' /\ Launched(j) /\ Launched(j)' /\ Pending(j) /\ Pending(j)'
       /\ ~Answered(j) /\ ~Answered(j)' /\ Reported(j)' = Reported(j)
  BY <1>2, <1>4, <1>7, <1>9, <1>10, <1>11, <1>12
  DEF Taken, Launched, Pending, Answered, OwnStill, Reported, Message
<1>14. Healthy(j) => prog'[b].text = Reported(j)'
  BY <1>2, <1>5, <1>7, <1>11, <1>13 DEF PartInv, WorkPart, Reported
<1>15. AskPart(j)'
  BY <1>2, <1>4, <1>9, <1>12 DEF AskPart, OwnStill
<1>16. WorkPart(j)'
  <2>1. WorkPart(j) /\ Running(b)' /\ (Healthy(j)' <=> Healthy(j)) /\ Round' = Round
        /\ (Early' <=> Early) /\ Age' = Age /\ Due' = Due /\ Cycle' = Cycle
    BY <1>4, <1>5, <1>12 DEF PartInv, OwnStill, Age, Due, Cycle
  <2> QED
    BY <1>2, <1>3, <1>10, <1>11, <1>13, <1>14, <2>1 DEF WorkPart, Fits, Refused
<1>17. ReplyPart(j)'
  <2>1. pipe'[Reply(j)] = pipe[Reply(j)]
    BY <1>1, <1>9
  <2>2. prog[b].written = 0 /\ Running(b)
    BY <1>2, <1>5, <1>7 DEF PartInv, WorkPart
  <2> QED
    BY <1>2, <1>3, <1>4, <1>5, <1>10, <1>13, <2>1, <2>2
    DEF PartInv, ReplyPart, OwnStill, FitSeq, Fits, One
<1>18. ReadPart(j)'
  BY <1>1, <1>2, <1>4, <1>5, <1>9, <1>12 DEF PartInv, ReadPart, OwnStill, Message
<1>19. WatchPart(j)'
  BY <1>2, <1>3, <1>4, <1>5, <1>12, <1>13 DEF PartInv, WatchPart, OwnStill, LoopStill, Busy
<1> QED
  BY <1>9, <1>15, <1>16, <1>17, <1>18, <1>19 DEF PartInv

(* Its answer finds the pipe empty, unless it crashed on the last.          *)
LEMMA ReplicateWrites ==
  ASSUME Nmr, Before, LineInv, NEW j \in Idx, WriteOutput(Rep(j))
  PROVE  PartInv(j)' /\ \A p \in PipeNames \ {Ask(j), Reply(j)} : pipe'[p] = pipe[p]
<1> DEFINE b == Rep(j)
<1>1. b \in Tasks /\ Out[b] = <<Reply(j)>> /\ Ask(j) # Reply(j) /\ Reply(j) \in PipeNames
      /\ Ask(j) \in PipeNames
  BY LineTasks, LinePipes DEF Nmr
<1>2. /\ LoopStill /\ UNCHANGED <<state, child, age, taskRuns>> /\ Running(b)
      /\ \A u \in Tasks \ {b} : Still(u)
  BY <1>1, ProgramEffects DEF Before
<1>3. PollStill /\ PassStill /\ faulty' = faulty /\ (InLoop' <=> InLoop)
  BY <1>2, LoopStays
<1>4. OwnStill(j)
  BY <1>2, <1>3, OwnFrame DEF Nmr
<1>5. PartInv(j) /\ InTime /\ JudgePart
  BY DEF LineInv, Parts
<1>6. \A x : <<x>>[1] = x /\ Len(<<x>>) = 1
  OBVIOUS
<1>7. PICK m : m = prog[b].text
  OBVIOUS
<1>8. /\ m # NoData /\ IsText(m) /\ ~Refused(m) /\ age[b] >= BusyTime[b]
      /\ prog'[b].read = prog[b].read /\ prog'[b].text = m
      /\ prog[b].written = 0 /\ prog'[b].written = 1
      /\ pipe'[Reply(j)] = Append(pipe[Reply(j)], m)
      /\ \A p \in PipeNames \ {Reply(j)} : pipe'[p] = pipe[p]
  <2>1. /\ m # NoData /\ IsText(m) /\ ~Refused(m) /\ age[b] >= BusyTime[b]
        /\ prog'[b].read = prog[b].read /\ prog'[b].text = m
        /\ prog[b].written \in Nat /\ prog'[b].written = prog[b].written + 1
        /\ prog[b].written + 1 <= Len(Out[b])
        /\ \A p \in PipeNames :
             pipe'[p] = IF p = Out[b][prog[b].written + 1]
                        THEN Append(pipe[p], m) ELSE pipe[p]
    <3>1. /\ prog[b].text # NoData /\ IsText(prog[b].text) /\ ~Refused(prog[b].text)
          /\ age[b] >= BusyTime[b] /\ prog[b].written \in Nat
          /\ prog'[b].read = prog[b].read /\ prog'[b].text = prog[b].text
          /\ prog'[b].written = prog[b].written + 1
          /\ prog[b].written + 1 <= Len(Out[b])
          /\ \A p \in PipeNames :
               pipe'[p] = IF p = Out[b][prog[b].written + 1]
                          THEN Append(pipe[p], prog[b].text) ELSE pipe[p]
      BY <1>1, OutputEffects DEF Before
    <3> QED
      BY <1>7, <3>1
  <2>2. prog[b].written = 0 /\ prog'[b].written = 1
    <3>1. Len(Out[b]) = 1
      BY <1>1, <1>6
    <3> QED
      BY <2>1, <3>1
  <2>3. Out[b][prog[b].written + 1] = Reply(j)
    BY <1>1, <1>6, <2>2
  <2>4. \A p \in PipeNames : pipe'[p] = IF p = Reply(j) THEN Append(pipe[p], m) ELSE pipe[p]
    BY <2>1, <2>3
  <2> QED
    BY <1>1, <2>1, <2>2, <2>4
<1>9. pipe'[Ask(j)] = << >> /\ pipe[Ask(j)] = << >> /\ ~Unsent(j) /\ Fits(m) /\ FitSeq(pipe[Reply(j)])
  BY <1>1, <1>2, <1>5, <1>7, <1>8 DEF PartInv, AskPart, WorkPart, ReplyPart
<1>10. /\ FitSeq(pipe'[Reply(j)])
       /\ Len(pipe[Reply(j)]) \in Nat /\ Len(pipe'[Reply(j)]) = Len(pipe[Reply(j)]) + 1
       /\ pipe[Reply(j)] = << >> => pipe'[Reply(j)] = <<m>>
  BY <1>8, <1>9, FitAppend
<1>11. state[b] = "running" /\ state'[b] = "running" /\ Running(b)'
  BY <1>1, <1>2, <1>5 DEF InTime, Running
<1>12. /\ Taken(j) /\ Taken(j)' /\ (Launched(j)' <=> Launched(j))
       /\ Pending(j) /\ ~Pending(j)' /\ ~Answered(j) /\ Answered(j)'
       /\ Reported(j)' = Reported(j)
  BY <1>2, <1>4, <1>7, <1>8, <1>9, <1>11
  DEF Taken, Launched, Pending, Answered, OwnStill, Reported, Message
<1>13. InLoop /\ Healthy(j) => Waits /\ ~Collected(j)
  BY <1>5, <1>11 DEF PartInv, WatchPart, Busy, Waits, Collected
<1>14. InLoop => Age # Due
  <2>1. age[b] > 0 /\ age[b] \in Nat /\ Age \in Nat /\ Due \in Nat
    <3>1. age \in [Tasks -> Nat] /\ Source \in Tasks
      BY LineTasks DEF Before, TypeOK, Nmr
    <3>2. BusyTime[b] \in Nat /\ BusyTime[b] > 0 /\ Due \in Nat
      BY LineTimes
    <3>3. age[b] \in Nat /\ Age \in Nat
      BY <1>1, <3>1 DEF Age
    <3> QED
      BY <1>8, <3>2, <3>3
  <2> QED
    BY <1>5, <1>11, <2>1 DEF PartInv, WorkPart, Early
<1>15. Healthy(j) => m = Reported(j) /\ pipe[Reply(j)] = << >>
  BY <1>2, <1>5, <1>7, <1>8 DEF PartInv, WorkPart, ReplyPart
<1>16. \A x : <<x>> # << >>
  OBVIOUS
<1>17. AskPart(j)'
  BY <1>2, <1>3, <1>4, <1>5, <1>9, <1>11 DEF AskPart, OwnStill
<1>18. WorkPart(j)'
  <2>1. WorkPart(j) /\ (Healthy(j)' <=> Healthy(j)) /\ Round' = Round
        /\ (Early' <=> Early) /\ Age' = Age /\ Due' = Due /\ Cycle' = Cycle
    BY <1>4, <1>5 DEF PartInv, OwnStill, Age, Due, Cycle
  <2> QED
    BY <1>2, <1>3, <1>7, <1>8, <1>11, <1>12, <1>14, <1>15, <1>9, <2>1 DEF WorkPart, Fits, Refused
<1>19. ReplyPart(j)'
  <2>1. One(Pending(j)) = 1 /\ One(Pending(j))' = 0
    BY <1>12 DEF One
  <2>2. FitSeq(pipe[Reply(j)])'
    BY <1>10 DEF FitSeq, Fits, Refused
  <2>3. (Collected(j)' <=> Collected(j)) /\ (Healthy(j)' <=> Healthy(j))
    BY <1>4 DEF OwnStill
  <2>4. ReplyPart(j)
    BY <1>5 DEF PartInv
  <2>5. PICK l, n : l = Len(pipe[Reply(j)]) /\ n = Len(pipe'[Reply(j)])
    OBVIOUS
  <2>6. l \in Nat /\ n = l + 1 /\ l <= 1 /\ (InLoop /\ Collected(j) => l = 0)
    BY <1>10, <2>1, <2>4, <2>5 DEF ReplyPart
  <2>7. n + 0 <= 2 /\ (InLoop' /\ Collected(j)' => n + 0 <= 1)
    BY <1>3, <2>3, <2>6
  <2>8. Healthy(j) => pipe'[Reply(j)] = <<Reported(j)>>
    BY <1>10, <1>15
  <2> QED
    BY <1>3, <1>8, <1>12, <1>13, <1>16, <2>1, <2>2, <2>3, <2>5, <2>7, <2>8 DEF ReplyPart
<1>20. ReadPart(j)'
  BY <1>2, <1>4, <1>5 DEF PartInv, ReadPart, OwnStill, Message
<1>21. WatchPart(j)'
  BY <1>2, <1>3, <1>4, <1>5, <1>11, <1>12 DEF PartInv, WatchPart, OwnStill, LoopStill, Busy
<1> QED
  BY <1>8, <1>17, <1>18, <1>19, <1>20, <1>21 DEF PartInv

(* A healthy replicate ends when it has answered.                           *)
LEMMA ReplicateEnds ==
  ASSUME Nmr, Before, LineInv, NEW j \in Idx, Finish(Rep(j)) \/ Crash(Rep(j))
  PROVE  PartInv(j)'
<1> DEFINE b == Rep(j)
<1>1. b \in Tasks /\ Out[b] = <<Reply(j)>>
  BY LineTasks, LinePipes DEF Nmr
<1>2. /\ LoopStill /\ UNCHANGED <<state, age, taskRuns, pipe>> /\ Running(b) /\ ~Running(b)'
      /\ prog'[b] = Fresh /\ \A u \in Tasks \ {b} : Still(u)
      /\ \/ Prone(b)
         \/ Refused(prog[b].text)
         \/ Done(b) /\ prog[b].written = Len(Out[b]) /\ child'[b] = "exit0"
  BY <1>1, EndEffects DEF Before
<1>3. PollStill /\ PassStill /\ faulty' = faulty /\ (InLoop' <=> InLoop)
  BY <1>2, LoopStays
<1>4. OwnStill(j)
  BY <1>2, <1>3, OwnFrame DEF Nmr
<1>5. PartInv(j)
  BY DEF LineInv, Parts
<1>6. \A x : Len(<<x>>) = 1
  OBVIOUS
<1>7. ~Refused(prog[b].text)
  BY <1>5 DEF PartInv, WorkPart, Fits, Refused, NoData
<1>8. Healthy(j) => prog[b].written = 1 /\ child'[b] = "exit0" /\ prog[b].text # NoData
  <2>1. \A i \in Idx : b = Rep(i) => i = j
    BY LineTasks DEF Nmr
  <2>2. Healthy(j) => ~Prone(b)
    BY <1>1, <2>1, NoneProne
  <2> QED
    BY <1>1, <1>2, <1>6, <1>7, <2>2 DEF Done
<1>9. /\ (Taken(j)' <=> Taken(j)) /\ (Launched(j)' <=> Launched(j))
      /\ Reported(j)' = Reported(j) /\ (Pending(j)' => Pending(j))
      /\ Healthy(j) => Answered(j)' <=> Answered(j)
  BY <1>2, <1>4, <1>8 DEF Taken, Launched, Pending, Answered, OwnStill, Reported, Message
<1>10. Fresh.read = << >> /\ Fresh.written = 0 /\ Fresh.text = NoData
  BY DEF Fresh
<1>11. Healthy(j) /\ InLoop => ~(Launched(j) /\ Age = Due)
  BY <1>5, <1>8 DEF PartInv, WorkPart
<1>12. AskPart(j)'
  BY <1>2, <1>3, <1>4, <1>5 DEF PartInv, AskPart, OwnStill, Age, Due, Busy
<1>13. WorkPart(j)'
  <2>1. WorkPart(j) /\ (Healthy(j)' <=> Healthy(j)) /\ Round' = Round
        /\ (Early' <=> Early) /\ Age' = Age /\ Due' = Due /\ Cycle' = Cycle
    BY <1>4, <1>5 DEF PartInv, OwnStill, Age, Due, Cycle
  <2> QED
    BY <1>2, <1>3, <1>8, <1>9, <1>10, <1>11, <2>1 DEF WorkPart, Fits, Refused
<1>14. ReplyPart(j)'
  <2>1. One(Pending(j))' <= One(Pending(j)) /\ One(Pending(j)) \in Nat /\ One(Pending(j))' \in Nat
    BY <1>9 DEF One
  <2>2. (Collected(j)' <=> Collected(j)) /\ (Healthy(j)' <=> Healthy(j))
    BY <1>4 DEF OwnStill
  <2>3. ReplyPart(j)
    BY <1>5 DEF PartInv
  <2>4. PICK l, n, k : l = Len(pipe[Reply(j)]) /\ n = One(Pending(j)) /\ k = One(Pending(j))'
    OBVIOUS
  <2>5. l \in Nat
    BY <2>3, <2>4, FitLength DEF ReplyPart
  <2>6. l + k <= 2 /\ (InLoop' /\ Collected(j)' => l + k <= 1)
    BY <1>3, <2>1, <2>2, <2>3, <2>4, <2>5 DEF ReplyPart
  <2>7. FitSeq(pipe[Reply(j)])'
    BY <1>2, <2>3 DEF ReplyPart, FitSeq, Fits, Refused
  <2> QED
    BY <1>2, <1>3, <1>9, <2>2, <2>3, <2>4, <2>6, <2>7 DEF ReplyPart
<1>15. ReadPart(j)'
  BY <1>2, <1>4, <1>5 DEF PartInv, ReadPart, OwnStill, Message
<1>16. WatchPart(j)'
  BY <1>2, <1>3, <1>4, <1>5, <1>9 DEF PartInv, WatchPart, OwnStill, LoopStill, Busy
<1> QED
  BY <1>12, <1>13, <1>14, <1>15, <1>16 DEF PartInv

LEMMA NeverStuck ==
  ASSUME Nmr, TypeOK, InTime, NEW t \in Tasks
  PROVE  ~MonitorStuck(t)
<1>1. MaxExec[t] <= MaxStuck /\ MaxExec[t] \in Nat /\ MaxStuck \in Nat
  BY LineTimes, NumberAssumption
<1>2. age[t] \in Nat
  BY DEF TypeOK
<1>3. Running(t) => age[t] <= MaxExec[t]
  BY DEF InTime
<1> QED
  BY <1>1, <1>2, <1>3 DEF MonitorStuck, MayBeStuck, Running

(* So the steps of a replicate preserve the invariant: no other part is at  *)
(* stake.                                                                   *)
LEMMA ReplicateStep ==
  ASSUME Nmr, Before, LineInv, NEW j \in Idx, NEW t, t = Rep(j),
         \/ (Monitor(t) /\ UNCHANGED progVars) \/ Launch(t) \/ Program(t) \/ Crash(t)
  PROVE  Parts'
<1>1. t \in Tasks /\ t # Judge /\ In[t] # << >> /\ InTime /\ NmrLine
  <2>1. \A x : <<x>> # << >>
    OBVIOUS
  <2> QED
    BY <2>1, LineTasks, LinePipes DEF Nmr, LineInv
<1>2. ASSUME PartInv(j)', \A u \in Tasks \ {t} : Still(u), PollStill, PassStill,
             faulty' = faulty, outage' = outage,
             \A p \in PipeNames \ {Ask(j), Reply(j)} : pipe'[p] = pipe[p],
             state'[t] = "running" => state[t] = "running" \/ taskRuns[Source] # 0
      PROVE  Parts'
  BY <1>1, <1>2, ReplicateFrame DEF Parts
<1>3. CASE MonitorReap(t) /\ UNCHANGED progVars
  <2>1. UNCHANGED <<pipe, armed, monitor, faulty, outage>> /\ state'[t] # "running"
        /\ \A u \in Tasks \ {t} : Still(u)
    BY <1>1, <1>3, ReapEffects DEF Before, progVars, faults
  <2>2. PassStill
    BY <1>1, <1>3, TurnEffects DEF MonitorReap, Before
  <2> QED
    BY <1>2, <1>3, <2>1, <2>2, ReplicateReaped DEF PollStill
<1>4. CASE MonitorStuck(t)
  BY <1>1, <1>4, NeverStuck DEF Before
<1>5. CASE MonitorWait(t) /\ UNCHANGED progVars
  <2>1. PassStill
    BY <1>1, <1>5, TurnEffects DEF MonitorWait, Before
  <2>2. PollStill /\ \A u \in Tasks : Still(u)
    BY <1>1, <1>5, WaitEffects, OtherPolls DEF Before, PollStill
  <2> QED
    BY <1>1, <1>5, <2>1, <2>2, AllFrame DEF progVars, faults
<1>6. CASE MonitorDispatch(t, InputReady(t)) /\ UNCHANGED progVars
  <2>1. UNCHANGED <<pipe, faulty, outage>> /\ \A u \in Tasks \ {t} : Still(u)
    BY <1>1, <1>6, DispatchEffects DEF Before, progVars, faults
  <2> QED
    BY <1>2, <1>6, <2>1, ReplicateDispatched
<1>7. CASE Launch(t)
  <2>1. UNCHANGED <<pipe, faulty, outage>> /\ \A u \in Tasks \ {t} : Still(u)
    BY <1>1, <1>7, LaunchEffects DEF Before
  <2> QED
    BY <1>2, <1>7, <2>1, ReplicateLaunched
<1>8. CASE ReadInput(t) \/ WriteOutput(t)
  <2>1. LoopStill /\ state' = state /\ \A u \in Tasks \ {t} : Still(u)
    BY <1>1, <1>8, ProgramEffects DEF Before
  <2> QED
    BY <1>2, <1>8, <2>1, LoopStays, ReplicateReads, ReplicateWrites
<1>9. CASE Finish(t) \/ Crash(t)
  <2>1. LoopStill /\ UNCHANGED <<state, pipe>> /\ \A u \in Tasks \ {t} : Still(u)
    BY <1>1, <1>9, EndEffects DEF Before
  <2> QED
    BY <1>2, <1>9, <2>1, LoopStays, ReplicateEnds
<1> QED
  BY <1>1, <1>3, <1>4, <1>5, <1>6, <1>7, <1>8, <1>9 DEF Monitor, Program, Sample


(****************************************************************************)
(* The steps of the source.                                                 *)
(****************************************************************************)
(* Steps of the source within its run: only its own part is at stake, and   *)
(* those of the replicates whose question is sent.                          *)
LEMMA SourceOwnFrame ==
  ASSUME NmrLine, LineInv, \A u \in Tasks \ {Source} : Still(u), SourceStill,
         PollStill, PassStill, faulty' = faulty, outage' = outage,
         pipe'[Verdict] = pipe[Verdict],
         InLoop' => (state'[Source] = "running" => state[Source] = "running")
  PROVE  /\ Faults' /\ StartPart' /\ JudgePart' /\ SinkPart'
         /\ \A i \in Idx : PipesStill(i) /\ (Unsent(i)' <=> Unsent(i)) => PartInv(i)'
<1>1. /\ Faults /\ StartPart /\ JudgePart /\ SinkPart
      /\ \A i \in Idx : PartInv(i)
  BY DEF LineInv, Parts
<1>2. Still(Judge) /\ Still(Sink) /\ \A i \in Idx : Still(Rep(i))
  BY LineTasks
<1>3. JudgeStill /\ (InLoop' => InLoop)
  BY <1>2 DEF Still, JudgeStill, PassStill
<1>4. \A i \in Idx : PipesStill(i) /\ (Unsent(i)' <=> Unsent(i)) => PartInv(i)'
  BY <1>1, <1>2, <1>3, PartFrame
<1>5. StartPart'
  BY <1>1, <1>3, StartFrame DEF Still
<1>6. JudgePart'
  BY <1>1, <1>2, <1>3, JudgeFrame DEF Still
<1>7. SinkPart'
  BY <1>1, <1>2, <1>3, SinkFrame DEF Still, Running
<1>8. Faults'
  BY <1>1 DEF Faults
<1> QED
  BY <1>4, <1>5, <1>6, <1>7, <1>8

LEMMA SourceMonitored ==
  ASSUME Nmr, Before, LineInv, UNCHANGED progVars,
         MonitorReap(Source) \/ MonitorDispatch(Source, InputReady(Source))
  PROVE  Parts'
<1>1. Source \in Tasks /\ Source # Judge /\ NmrLine /\ SourcePart
  BY LineTasks DEF Nmr, LineInv, Parts
<1>2. InLoop /\ InLoop' /\ PassStill
  BY <1>1, TurnEffects DEF Before, MonitorReap, MonitorDispatch
<1>3. /\ prog' = prog /\ pipe' = pipe /\ faulty' = faulty /\ outage' = outage
  BY DEF progVars, faults
<1>4. /\ \A u \in Tasks \ {Source} : Still(u)
      /\ UNCHANGED <<age, taskRuns>> /\ (Running(Source)' <=> Running(Source))
      /\ armed'[Judge] = armed[Judge] /\ monitor'[Judge] = monitor[Judge]
      /\ state'[Source] # "running"
      /\ state'[Source] = "fireable" => PeriodElapsed(Source)
  <2>1. CASE MonitorReap(Source)
    BY <1>1, <2>1, ReapEffects DEF Before, Running
  <2>2. CASE MonitorDispatch(Source, InputReady(Source))
    BY <1>1, <2>2, DispatchEffects, OtherPolls DEF Before, Running, Busy
  <2> QED
    BY <2>1, <2>2
<1>5. SourceStill /\ PollStill
  BY <1>4 DEF SourceStill, PollStill
<1>6. (Early' <=> Early) /\ \A i \in Idx : Unsent(i)' <=> Unsent(i)
  BY <1>3, <1>4, <1>5, RoundStill DEF Unsent
<1>7. /\ Faults' /\ StartPart' /\ JudgePart' /\ SinkPart'
      /\ \A i \in Idx : PipesStill(i) /\ (Unsent(i)' <=> Unsent(i)) => PartInv(i)'
  BY <1>1, <1>2, <1>3, <1>4, <1>5, SourceOwnFrame
<1>8. \A i \in Idx : PipesStill(i)
  BY <1>3 DEF PipesStill
<1>9. SourcePart'
  <2>1. state'[Source] = "fireable" => Age > Cycle
    BY <1>4, LineTimes DEF PeriodElapsed, Age, Cycle
  <2>2. Question' = Question /\ Age' = Age /\ Cycle' = Cycle /\ Due' = Due
    BY <1>4, <1>5, RoundStill DEF Age, Cycle, Due
  <2> QED
    BY <1>1, <1>2, <1>3, <1>4, <1>6, <2>1, <2>2 DEF SourcePart
<1> QED
  BY <1>6, <1>7, <1>8, <1>9 DEF Parts

(* It samples again when all of the last round is under way, and nothing of *)
(* it is left to be read by a replicate.                                    *)
LEMMA SourceLaunched ==
  ASSUME Nmr, Before, LineInv, Launch(Source)
  PROVE  Parts'
<1>1. Source \in Tasks /\ NmrLine /\ InTime
  BY LineTasks DEF Nmr, LineInv
<1>2. /\ pc = "run" /\ state[Source] = "fireable" /\ ~Running(Source)
      /\ state'[Source] = "running" /\ Running(Source)' /\ age'[Source] = 0
      /\ taskRuns'[Source] = taskRuns[Source] + 1 /\ prog'[Source] = Fresh
      /\ UNCHANGED <<pc, queue, armed, monitor, pipe, faulty, outage>>
      /\ \A u \in Tasks \ {Source} : Still(u)
  BY <1>1, LaunchEffects DEF Before, Running
<1>3. InLoop /\ InLoop'
  BY <1>2 DEF InLoop
<1>4. /\ Faults /\ SourcePart /\ StartPart /\ JudgePart /\ SinkPart
      /\ \A i \in Idx : PartInv(i)
  BY DEF LineInv, Parts
<1>5. /\ Still(Judge) /\ Still(Sink) /\ Judge \in Tasks /\ Sink \in Tasks
      /\ \A i \in Idx : Rep(i) \in Tasks /\ Still(Rep(i))
  BY <1>2, LineTasks DEF Nmr
<1>6. /\ Due \in Nat /\ Cycle \in Nat /\ 1 <= Due /\ Due <= Cycle /\ Age \in Nat
      /\ taskRuns[Source] \in Nat
  BY <1>1, LineTimes DEF Before, TypeOK, Age
<1>7. Age > Cycle /\ Age # Due /\ ~Early /\ (taskRuns[Source] > 0 => Age = Cycle + 1)
  BY <1>2, <1>3, <1>4, <1>6 DEF SourcePart, Early
<1>8. Age' = 0 /\ Due' = Due /\ Cycle' = Cycle /\ Early' /\ Round' = Round
  BY <1>2, <1>6, <1>7 DEF Age, Due, Cycle, Early, Round
<1>9. Fresh.read = << >> /\ Fresh.written = 0 /\ Fresh.text = NoData
  BY DEF Fresh
<1>10. Faults'
  BY <1>2, <1>4 DEF Faults
<1>11. SourcePart'
  BY <1>2, <1>6, <1>8, <1>9 DEF SourcePart
<1>12. StartPart'
  BY <1>2, <1>6 DEF StartPart
<1>13. (Waits' <=> Waits) /\ (Waits => armed[Judge]) /\ (Unwritten' <=> Unwritten)
       /\ (Running(Judge)' <=> Running(Judge))
  BY <1>3, <1>4, <1>5, <1>7, <1>8 DEF Waits, Unwritten, Running, Still, JudgePart
<1>14. JudgePart'
  BY <1>2, <1>3, <1>4, <1>5, <1>6, <1>8, <1>13 DEF JudgePart, VoteSeq, Fits, Refused, Still
<1>15. taskRuns[Source] > 0 => SinkAge' = SinkAge
  BY <1>6, <1>7, <1>8 DEF SinkAge
<1>16. SinkPart'
  <2>1. CASE taskRuns[Source] > 0
    BY <1>2, <1>3, <1>4, <1>5, <1>13, <1>15, <2>1
    DEF SinkPart, FitSeq, Fits, Refused, Still, Running
  <2>2. CASE taskRuns[Source] = 0
    BY <1>2, <1>3, <1>4, <1>5, <2>2, FitEmpty
    DEF SinkPart, StartPart, FitSeq, Fits, Refused, Still, Running
  <2> QED
    BY <1>6, <2>1, <2>2
<1>17. ASSUME NEW i \in Idx
       PROVE  PartInv(i)'
  <2> DEFINE b == Rep(i)
  <2>1. PartInv(i) /\ Still(b) /\ b \in Tasks /\ b \in Fed /\ In[b] = <<Ask(i)>>
        /\ (Healthy(i)' <=> Healthy(i))
    BY <1>2, <1>4, <1>5, LinePipes DEF Nmr, Healthy
  <2>2. pipe[Ask(i)] = << >> /\ ~Unsent(i) /\ ~Unsent(i)'
    BY <1>2, <1>7, <1>8, <2>1 DEF PartInv, AskPart, Unsent
  <2>3. ~(Running(b) /\ prog[b].text = NoData)
    <3>1. \A x : <<x>>[1] = x
      OBVIOUS
    <3>2. Running(b) /\ prog[b].read = << >> => pipe[Ask(i)] # << >>
      BY <2>1, <3>1 DEF Before, FedInv, FedOne
    <3> QED
      BY <2>1, <2>2, <3>2 DEF PartInv, WorkPart
  <2>4. /\ Taken(i) /\ Taken(i)' /\ Launched(i) /\ Launched(i)'
        /\ (Answered(i)' <=> Answered(i)) /\ (Pending(i)' <=> Pending(i))
        /\ Reported(i)' = Reported(i) /\ (Running(b)' <=> Running(b))
        /\ (Collected(i)' <=> Collected(i))
    BY <1>2, <1>5, <1>8, <2>1, <2>2
    DEF Taken, Launched, Answered, Pending, Reported, Message, Running, Still, Collected
  <2>5. AskPart(i)'
    BY <1>2, <2>2 DEF AskPart
  <2>6. WorkPart(i)'
    <3>1. state[b] = "running" => age[b] = Age' + Cycle + 1 - Due
      BY <1>3, <1>4, <1>6, <1>7, <1>8, <2>1 DEF PartInv, WorkPart, StartPart
    <3>2. WorkPart(i)
      BY <2>1 DEF PartInv
    <3> QED
      BY <1>3, <1>6, <1>8, <2>1, <2>3, <2>4, <3>1, <3>2 DEF WorkPart, Fits, Refused, Still
  <2>7. ReplyPart(i)'
    BY <1>2, <1>3, <2>1, <2>4 DEF PartInv, ReplyPart, FitSeq, Fits, Refused, One, Still
  <2>8. ReadPart(i)'
    BY <1>2, <1>5, <1>13, <2>1, <2>4 DEF PartInv, ReadPart, Message, Still
  <2>9. WatchPart(i)'
    BY <1>2, <1>3, <1>13, <2>1, <2>4 DEF PartInv, WatchPart, Still, Busy
  <2> QED
    BY <2>5, <2>6, <2>7, <2>8, <2>9 DEF PartInv
<1> QED
  BY <1>10, <1>11, <1>12, <1>14, <1>16, <1>17 DEF Parts

LEMMA SourceSamples ==
  ASSUME Nmr, Before, LineInv, Sample(Source)
  PROVE  Parts'
<1>1. Source \in Tasks /\ NmrLine /\ SourcePart
  BY LineTasks DEF Nmr, LineInv, Parts
<1>2. /\ LoopStill /\ UNCHANGED <<state, child, age, taskRuns>> /\ Running(Source)
      /\ \A u \in Tasks \ {Source} : Still(u)
  BY <1>1, ProgramEffects DEF Before
<1>3. pipe' = pipe /\ prog'[Source].text = Question /\ prog'[Source].written = prog[Source].written
  BY <1>1, SampleEffects DEF Before
<1>4. SourceStill /\ PollStill /\ PassStill /\ faulty' = faulty /\ outage' = outage
      /\ (InLoop' <=> InLoop)
  BY <1>2, LoopStays DEF SourceStill
<1>5. (Early' <=> Early) /\ Question' = Question /\ (Running(Source)' <=> Running(Source))
      /\ Age' = Age /\ Cycle' = Cycle /\ Due' = Due
  BY <1>2, <1>4, RoundStill DEF Running, Age, Cycle, Due
<1>6. \A i \in Idx : PipesStill(i) /\ (Unsent(i)' <=> Unsent(i))
  BY <1>3, <1>5 DEF PipesStill, Unsent
<1>7. SourcePart'
  BY <1>1, <1>2, <1>3, <1>4, <1>5 DEF SourcePart
<1> QED
  BY <1>1, <1>2, <1>3, <1>4, <1>6, <1>7, SourceOwnFrame DEF Parts

(* It sends its questions in order, at the end of its busy loop, when none  *)
(* of the round before is left.                                             *)
LEMMA SourceWrites ==
  ASSUME Nmr, Before, LineInv, WriteOutput(Source)
  PROVE  Parts'
<1>1. Source \in Tasks /\ NmrLine /\ SourcePart /\ InTime /\ DOMAIN Out[Source] = Idx
      /\ Idx = 1 .. Len(Out[Source]) /\ Len(Out[Source]) \in Nat
      /\ \A i \in Idx : PartInv(i)
  BY LineTasks, LinePipes DEF Nmr, LineInv, Parts
<1>2. /\ LoopStill /\ UNCHANGED <<state, child, age, taskRuns>> /\ Running(Source)
      /\ \A u \in Tasks \ {Source} : Still(u)
  BY <1>1, ProgramEffects DEF Before
<1>3. PICK k : k = prog[Source].written + 1
  OBVIOUS
<1>4. /\ prog[Source].text = Question /\ age[Source] >= BusyTime[Source]
      /\ prog'[Source].text = Question /\ prog'[Source].written = prog[Source].written + 1
      /\ prog[Source].written \in Nat /\ k \in Idx
      /\ \A p \in PipeNames :
           pipe'[p] = IF p = Ask(k) THEN Append(pipe[p], Question) ELSE pipe[p]
  <2>1. /\ prog[Source].text # NoData /\ age[Source] >= BusyTime[Source]
        /\ prog'[Source].text = prog[Source].text
        /\ prog'[Source].written = prog[Source].written + 1
        /\ prog[Source].written \in Nat
        /\ prog[Source].written + 1 <= Len(Out[Source])
        /\ \A p \in PipeNames :
             pipe'[p] = IF p = Out[Source][prog[Source].written + 1]
                        THEN Append(pipe[p], prog[Source].text) ELSE pipe[p]
    BY <1>1, OutputEffects DEF Before
  <2>2. prog[Source].text = Question
    BY <1>1, <2>1 DEF SourcePart
  <2>3. k \in Idx
    BY <1>1, <1>3, <2>1
  <2> QED
    BY <1>3, <2>1, <2>2, <2>3 DEF Ask
<1>5. SourceStill /\ PollStill /\ PassStill /\ faulty' = faulty /\ outage' = outage
      /\ (InLoop' <=> InLoop)
  BY <1>2, LoopStays DEF SourceStill
<1>6. (Early' <=> Early) /\ Question' = Question /\ (Running(Source)' <=> Running(Source))
      /\ Age' = Age /\ Cycle' = Cycle /\ Due' = Due /\ Round' = Round
  BY <1>2, <1>5, RoundStill DEF Running, Age, Cycle, Due
<1>7. Age = Due /\ ~Early
  <2>1. age[Source] <= MaxExec[Source] /\ age[Source] \in Nat
    BY <1>1, <1>2 DEF InTime, Before, TypeOK
  <2>2. MaxExec[Source] = Due /\ Due \in Nat
    BY LineTimes
  <2> QED
    BY <1>4, <2>1, <2>2 DEF Age, Due, Early
<1>8. Unsent(k) /\ ~Unsent(k)' /\ \A i \in Idx \ {k} : Unsent(i)' <=> Unsent(i)
  <2>1. PICK w, v : w = prog[Source].written /\ v = prog'[Source].written
    OBVIOUS
  <2>2. k \in Nat /\ w \in Nat /\ k = w + 1 /\ v = w + 1 /\ Idx \subseteq Nat
    BY <1>1, <1>3, <1>4, <2>1
  <2>3. w < k /\ ~(v < k) /\ \A i \in Idx \ {k} : v < i <=> w < i
    BY <2>2
  <2> QED
    BY <1>2, <1>6, <1>7, <2>1, <2>3 DEF Unsent
<1>9. /\ \A i \in Idx \ {k} : PipesStill(i)
      /\ pipe'[Reply(k)] = pipe[Reply(k)] /\ pipe'[Verdict] = pipe[Verdict]
      /\ pipe'[Ask(k)] = Append(pipe[Ask(k)], Question)
  BY <1>1, <1>4, LinePipes DEF PipesStill
<1>10. pipe[Ask(k)] = << >> /\ ~Running(Rep(k)) /\ (InLoop => ~Busy(Rep(k)))
  BY <1>1, <1>4, <1>8 DEF PartInv, AskPart
<1>11. pipe'[Ask(k)] = <<Question>> /\ <<Question>> # << >>
  <2>1. \A x : Append(<< >>, x) = <<x>> /\ <<x>> # << >>
    OBVIOUS
  <2> QED
    BY <1>9, <1>10, <2>1
<1>12. SourcePart'
  BY <1>1, <1>2, <1>4, <1>5, <1>6, <1>7 DEF SourcePart
<1>13. /\ Faults' /\ StartPart' /\ JudgePart' /\ SinkPart'
       /\ \A i \in Idx \ {k} : PartInv(i)'
  BY <1>1, <1>2, <1>5, <1>8, <1>9, SourceOwnFrame
<1>14. PartInv(k)'
  <2> DEFINE b == Rep(k)
  <2>1. PartInv(k) /\ Still(b) /\ Still(Judge) /\ (Healthy(k)' <=> Healthy(k))
    BY <1>1, <1>2, <1>4, <1>5, LineTasks DEF Healthy
  <2>2. (Waits' <=> Waits) /\ (Collected(k)' <=> Collected(k))
        /\ (Running(Judge)' <=> Running(Judge)) /\ (Running(b)' <=> Running(b))
    BY <1>4, <1>5, <2>1, VoteStill DEF JudgeStill, Still, Running
  <2>3. /\ ~Taken(k) /\ ~Taken(k)' /\ ~Launched(k) /\ (InLoop => ~Launched(k)')
        /\ ~Answered(k) /\ ~Answered(k)' /\ Pending(k) /\ Pending(k)'
        /\ Reported(k)' = Reported(k)
    BY <1>2, <1>8, <1>10, <1>11
    DEF Taken, Launched, Answered, Pending, Reported, Message, Busy
  <2>4. AskPart(k)'
    BY <1>6, <1>7, <1>8, <1>10, <1>11, <2>2 DEF AskPart
  <2>5. WorkPart(k)'
    <3>1. WorkPart(k)
      BY <2>1 DEF PartInv
    <3> QED
      BY <1>2, <1>5, <1>6, <1>10, <2>1, <2>2, <2>3, <3>1 DEF WorkPart, Fits, Refused, Still
  <2>6. ReplyPart(k)'
    BY <1>5, <1>9, <2>1, <2>2, <2>3 DEF PartInv, ReplyPart, FitSeq, Fits, Refused, One, Still
  <2>7. ReadPart(k)'
    BY <1>9, <2>1, <2>2, <2>3 DEF PartInv, ReadPart, Message, Still
  <2>8. WatchPart(k)'
    BY <1>2, <1>5, <1>10, <2>1, <2>2, <2>3 DEF PartInv, WatchPart, Still, Busy, LoopStill
  <2> QED
    BY <2>4, <2>5, <2>6, <2>7, <2>8 DEF PartInv
<1> QED
  BY <1>12, <1>13, <1>14 DEF Parts

LEMMA SourceEnds ==
  ASSUME Nmr, Before, LineInv, Finish(Source) \/ Crash(Source)
  PROVE  Parts'
<1>1. Source \in Tasks /\ NmrLine /\ SourcePart /\ InTime
      /\ Idx = 1 .. Len(Out[Source]) /\ Len(Out[Source]) \in Nat
  BY LineTasks, LinePipes DEF Nmr, LineInv, Parts
<1>2. /\ LoopStill /\ UNCHANGED <<state, age, taskRuns, pipe>>
      /\ Running(Source) /\ ~Running(Source)' /\ prog'[Source] = Fresh
      /\ \A u \in Tasks \ {Source} : Still(u)
      /\ \/ Prone(Source)
         \/ Refused(prog[Source].text)
         \/ Done(Source) /\ prog[Source].written = Len(Out[Source])
  BY <1>1, EndEffects DEF Before
<1>3. ~Prone(Source)
  BY <1>1, LineTasks, NoneProne DEF Nmr
<1>4. ~Refused(prog[Source].text)
  BY <1>1 DEF SourcePart, Refused, NoData, Question, Message
<1>5. age[Source] >= BusyTime[Source] /\ prog[Source].written = Len(Out[Source])
  BY <1>2, <1>3, <1>4 DEF Done
<1>6. SourceStill /\ PollStill /\ PassStill /\ faulty' = faulty /\ outage' = outage
      /\ (InLoop' <=> InLoop)
  BY <1>2, LoopStays DEF SourceStill
<1>7. (Early' <=> Early) /\ Question' = Question /\ Age' = Age /\ Cycle' = Cycle /\ Due' = Due
  BY <1>2, <1>6, RoundStill DEF Age, Cycle, Due
<1>8. ~Early
  <2>1. age[Source] \in Nat /\ Due \in Nat
    BY <1>1, LineTimes DEF Before, TypeOK
  <2> QED
    BY <1>5, <2>1 DEF Early, Age, Due
<1>9. \A i \in Idx : PipesStill(i) /\ (Unsent(i)' <=> Unsent(i))
  <2>1. PICK w : w = prog[Source].written
    OBVIOUS
  <2>2. \A i \in Idx : ~(w < i)
    BY <1>1, <1>5, <2>1
  <2> QED
    BY <1>2, <2>1, <2>2 DEF PipesStill, Unsent
<1>10. SourcePart'
  BY <1>1, <1>2, <1>6, <1>7, <1>8 DEF SourcePart, Fresh
<1> QED
  BY <1>1, <1>2, <1>6, <1>9, <1>10, SourceOwnFrame DEF Parts

LEMMA SourceStep ==
  ASSUME Nmr, Before, LineInv,
         \/ (Monitor(Source) /\ UNCHANGED progVars) \/ Launch(Source)
         \/ Program(Source) \/ Crash(Source)
  PROVE  Parts'
<1>1. Source \in Tasks /\ Source # Judge /\ In[Source] = << >> /\ InTime /\ NmrLine
  BY LineTasks, LinePipes DEF Nmr, LineInv
<1>2. CASE MonitorStuck(Source)
  BY <1>1, <1>2, NeverStuck DEF Before
<1>3. CASE MonitorWait(Source) /\ UNCHANGED progVars
  <2>1. PassStill
    BY <1>1, <1>3, TurnEffects DEF MonitorWait, Before
  <2>2. PollStill /\ \A u \in Tasks : Still(u)
    BY <1>1, <1>3, WaitEffects, OtherPolls DEF Before, PollStill
  <2> QED
    BY <1>1, <1>3, <2>1, <2>2, AllFrame DEF progVars, faults
<1>4. CASE ReadInput(Source)
  <2>1. PICK S : prog[Source].read \in Seq(S)
    BY <1>1 DEF Before, ProgramInv, ReadSeq
  <2>2. Len(prog[Source].read) \in Nat /\ Len(<< >>) = 0
    BY <2>1
  <2> QED
    BY <1>1, <1>4, <2>2 DEF ReadInput
<1> QED
  BY <1>2, <1>3, <1>4, SourceMonitored, SourceLaunched, SourceSamples, SourceWrites, SourceEnds
  DEF Monitor, Program


(****************************************************************************)
(* The steps of the sink.                                                   *)
(****************************************************************************)
LEMMA SinkOwnFrame ==
  ASSUME NmrLine, LineInv, \A u \in Tasks \ {Sink} : Still(u),
         PollStill, PassStill, faulty' = faulty, outage' = outage,
         \A i \in Idx : PipesStill(i),
         InLoop /\ taskRuns[Source] = 0 /\ pipe[Verdict] = << >> =>
           pipe'[Verdict] = << >> /\ (state'[Sink] = "running" => state[Sink] = "running")
  PROVE  /\ Faults' /\ SourcePart' /\ StartPart' /\ JudgePart'
         /\ \A i \in Idx : PartInv(i)'
         /\ SourceStill /\ JudgeStill /\ Still(Judge) /\ (InLoop' => InLoop)
<1>1. /\ Faults /\ SourcePart /\ StartPart /\ JudgePart
      /\ \A i \in Idx : PartInv(i)
  BY DEF LineInv, Parts
<1>2. Still(Source) /\ Still(Judge) /\ \A i \in Idx : Still(Rep(i))
  BY LineTasks
<1>3. SourceStill /\ JudgeStill /\ (InLoop' => InLoop)
  BY <1>2 DEF Still, SourceStill, JudgeStill, PassStill
<1>4. \A i \in Idx : Unsent(i)' <=> Unsent(i)
  <2>1. Early' <=> Early
    BY <1>3, RoundStill
  <2> QED
    BY <1>2, <2>1 DEF Unsent, Running, Still
<1>5. \A i \in Idx : PartInv(i)'
  BY <1>1, <1>2, <1>3, <1>4, PartFrame
<1>6. SourcePart'
  BY <1>1, <1>2, <1>3, SourceFrame DEF Still
<1>7. StartPart'
  BY <1>1, <1>3, StartFrame DEF Still
<1>8. JudgePart'
  BY <1>1, <1>2, <1>3, JudgeFrame DEF Still
<1>9. Faults'
  BY <1>1 DEF Faults
<1> QED
  BY <1>2, <1>3, <1>5, <1>6, <1>7, <1>8, <1>9

(* The sink is launched on a verdict, and that one it reads.                *)
LEMMA SinkLaunched ==
  ASSUME Nmr, Before, LineInv, Launch(Sink)
  PROVE  Parts'
<1>1. Sink \in Tasks /\ Sink \in Fed /\ In[Sink] = <<Verdict>> /\ NmrLine /\ InTime /\ SinkPart
  BY LineTasks, LinePipes DEF Nmr, LineInv, Parts
<1>2. /\ pc = "run" /\ state[Sink] = "fireable" /\ age'[Sink] = 0 /\ prog'[Sink] = Fresh
      /\ UNCHANGED <<pc, queue, armed, monitor, pipe, faulty, outage>>
      /\ \A u \in Tasks \ {Sink} : Still(u)
  BY <1>1, LaunchEffects DEF Before
<1>3. InLoop /\ PassStill /\ PollStill
  BY <1>2 DEF InLoop, PassStill, PollStill
<1>4. pipe[Verdict] # << >>
  <2>1. \A x : <<x>>[1] = x
    OBVIOUS
  <2> QED
    BY <1>1, <1>2, <2>1 DEF Before, FedInv, FedOne
<1>5. ~Unwritten
  BY <1>1, <1>3, <1>4 DEF SinkPart
<1>6. /\ Faults' /\ SourcePart' /\ StartPart' /\ JudgePart'
      /\ \A i \in Idx : PartInv(i)'
      /\ SourceStill /\ JudgeStill /\ Still(Judge)
  BY <1>1, <1>2, <1>3, <1>4, SinkOwnFrame DEF PipesStill
<1>7. ~Unwritten' /\ (Running(Judge)' <=> Running(Judge))
  BY <1>5, <1>6, RoundStill DEF Unwritten, Running, Still
<1>8. SinkPart'
  BY <1>1, <1>2, <1>6, <1>7 DEF SinkPart, FitSeq, Fits, Refused, Fresh, Still
<1> QED
  BY <1>6, <1>8 DEF Parts

LEMMA SinkReads ==
  ASSUME Nmr, Before, LineInv, ReadInput(Sink)
  PROVE  Parts'
<1>1. Sink \in Tasks /\ In[Sink] = <<Verdict>> /\ NmrLine /\ SinkPart /\ Verdict \in PipeNames
  BY LineTasks, LinePipes DEF Nmr, LineInv, Parts
<1>2. /\ LoopStill /\ UNCHANGED <<state, child, age, taskRuns>>
      /\ \A u \in Tasks \ {Sink} : Still(u)
  BY <1>1, ProgramEffects DEF Before
<1>3. PollStill /\ PassStill /\ faulty' = faulty /\ outage' = outage
  BY <1>2, LoopStays
<1>4. /\ pipe'[Verdict] = << >> /\ \A q \in PipeNames \ {Verdict} : pipe'[q] = pipe[q]
  <2>1. PICK p \in PipeNames :
          /\ \A q \in PipeNames \ {p} : pipe'[q] = pipe[q]
          /\ pipe'[p] = AfterRead(pipe[p], ReadCap)
          /\ Len(prog[Sink].read) + 1 \in DOMAIN In[Sink]
          /\ p = In[Sink][Len(prog[Sink].read) + 1]
    BY <1>1, ReadEffects DEF Before
  <2>2. \A x : DOMAIN <<x>> = {1} /\ <<x>>[1] = x
    OBVIOUS
  <2>3. p = Verdict
    BY <1>1, <2>1, <2>2
  <2>4. AfterRead(pipe[Verdict], ReadCap) = << >>
    <3>1. FitSeq(pipe[Verdict]) /\ Len(pipe[Verdict]) <= 2
      <4>1. PICK l : l = Len(pipe[Verdict])
        OBVIOUS
      <4>2. l \in Nat /\ l <= 1
        BY <1>1, <4>1, FitLength DEF SinkPart
      <4> QED
        BY <1>1, <4>1, <4>2 DEF SinkPart
    <3> QED
      BY <1>1, <3>1, FitBytes
  <2> QED
    BY <2>1, <2>3, <2>4
<1>5. \A i \in Idx : PipesStill(i)
  BY <1>1, <1>4, LinePipes DEF PipesStill
<1>6. /\ Faults' /\ SourcePart' /\ StartPart' /\ JudgePart'
      /\ \A i \in Idx : PartInv(i)'
      /\ SourceStill /\ JudgeStill /\ Still(Judge) /\ (InLoop' => InLoop)
  BY <1>1, <1>2, <1>3, <1>4, <1>5, SinkOwnFrame
<1>7. SinkPart'
  <2>1. (Early' <=> Early) /\ Round' = Round
    BY <1>6, RoundStill
  <2>2. (Unwritten' <=> Unwritten) /\ SinkAge' = SinkAge
    BY <1>6, <2>1 DEF Unwritten, SinkAge, Age, Cycle, Due, Still, SourceStill, Running
  <2>3. FitSeq(<< >>)' /\ Len(<< >>) = 0
    BY FitEmpty DEF FitSeq, Fits, Refused
  <2> QED
    BY <1>1, <1>2, <1>4, <1>6, <2>2, <2>3 DEF SinkPart, FitSeq
<1> QED
  BY <1>6, <1>7 DEF Parts

LEMMA SinkStep ==
  ASSUME Nmr, Before, LineInv,
         \/ (Monitor(Sink) /\ UNCHANGED progVars) \/ Launch(Sink)
         \/ Program(Sink) \/ Crash(Sink)
  PROVE  Parts'
<1>1. Sink \in Tasks /\ Sink # Judge /\ In[Sink] # << >> /\ Out[Sink] = << >> /\ InTime /\ NmrLine
      /\ SinkPart
  <2>1. \A x : <<x>> # << >>
    OBVIOUS
  <2> QED
    BY <2>1, LineTasks, LinePipes DEF Nmr, LineInv, Parts
<1>2. ASSUME \A u \in Tasks \ {Sink} : Still(u), PollStill, PassStill,
             pipe' = pipe, faulty' = faulty, outage' = outage,
             state'[Sink] = "running" => state[Sink] = "running" /\ age'[Sink] = age[Sink],
             Running(Sink)' => Running(Sink) /\ age'[Sink] = age[Sink]
                               /\ prog'[Sink].text = prog[Sink].text
      PROVE  Parts'
  <2>1. \A i \in Idx : PipesStill(i)
    BY <1>2 DEF PipesStill
  <2>2. /\ Faults' /\ SourcePart' /\ StartPart' /\ JudgePart'
        /\ \A i \in Idx : PartInv(i)'
        /\ SourceStill /\ JudgeStill /\ Still(Judge) /\ (InLoop' => InLoop)
    BY <1>1, <1>2, <2>1, SinkOwnFrame
  <2>3. SinkPart'
    BY <1>1, <1>2, <2>2, SinkFrame DEF Still
  <2> QED
    BY <2>2, <2>3 DEF Parts
<1>3. CASE MonitorStuck(Sink)
  BY <1>1, <1>3, NeverStuck DEF Before
<1>4. CASE MonitorWait(Sink) /\ UNCHANGED progVars
  <2>1. PassStill
    BY <1>1, <1>4, TurnEffects DEF MonitorWait, Before
  <2>2. PollStill /\ \A u \in Tasks : Still(u)
    BY <1>1, <1>4, WaitEffects, OtherPolls DEF Before, PollStill
  <2> QED
    BY <1>1, <1>4, <2>1, <2>2, AllFrame DEF progVars, faults
<1>5. CASE MonitorReap(Sink) /\ UNCHANGED progVars
  <2>1. PassStill
    BY <1>1, <1>5, TurnEffects DEF MonitorReap, Before
  <2>2. /\ \A u \in Tasks \ {Sink} : Still(u)
        /\ UNCHANGED <<armed, monitor>> /\ state'[Sink] # "running" /\ ~Running(Sink)'
    BY <1>1, <1>5, ReapEffects DEF Before, Running
  <2> QED
    BY <1>2, <1>5, <2>1, <2>2 DEF PollStill, progVars, faults
<1>6. CASE MonitorDispatch(Sink, InputReady(Sink)) /\ UNCHANGED progVars
  <2>1. PassStill
    BY <1>1, <1>6, TurnEffects DEF MonitorDispatch, Before
  <2>2. /\ \A u \in Tasks \ {Sink} : Still(u)
        /\ UNCHANGED <<age, child>> /\ state'[Sink] # "running"
        /\ armed'[Judge] = armed[Judge] /\ monitor'[Judge] = monitor[Judge]
    BY <1>1, <1>6, DispatchEffects, OtherPolls DEF Before, Busy
  <2> QED
    BY <1>2, <1>6, <2>1, <2>2 DEF PollStill, progVars, faults, Running
<1>7. CASE Finish(Sink) \/ Crash(Sink)
  <2>1. LoopStill /\ UNCHANGED <<state, age, pipe>> /\ ~Running(Sink)'
        /\ \A u \in Tasks \ {Sink} : Still(u)
    BY <1>1, <1>7, EndEffects DEF Before
  <2> QED
    BY <1>2, <2>1, LoopStays
<1>8. CASE WriteOutput(Sink)
  <2>1. prog[Sink].written \in Nat /\ prog[Sink].written + 1 <= Len(Out[Sink])
    BY <1>1, <1>8, OutputEffects DEF Before
  <2>2. Len(<< >>) = 0
    OBVIOUS
  <2> QED
    BY <1>1, <2>1, <2>2
<1> QED
  BY <1>1, <1>3, <1>4, <1>5, <1>6, <1>7, <1>8, SinkLaunched, SinkReads DEF Monitor, Program, Sample


(****************************************************************************)
(* The steps of the voter.                                                  *)
(****************************************************************************)
LEMMA TwoHealthy ==
  ASSUME Nmr, Faults
  PROVE  \E i, j \in Idx : i # j /\ Healthy(i) /\ Healthy(j)
BY DEF Nmr, NmrFaults, Faults, Healthy, Idx

(* What stays the same for a replicate i when the voter takes a step.       *)
Unmoved(i) ==
  /\ Still(Rep(i)) /\ (Healthy(i)' <=> Healthy(i))
  /\ (Taken(i)' <=> Taken(i)) /\ (Launched(i)' <=> Launched(i))
  /\ (Answered(i)' <=> Answered(i)) /\ (Pending(i)' <=> Pending(i))
  /\ Reported(i)' = Reported(i)
  /\ (Running(Rep(i))' <=> Running(Rep(i))) /\ (Busy(Rep(i))' <=> Busy(Rep(i)))

LEMMA JudgeOwnFrame ==
  ASSUME NmrLine, LineInv, \A u \in Tasks \ {Judge} : Still(u), InLoop' => InLoop,
         faulty' = faulty, outage' = outage, \A i \in Idx : pipe'[Ask(i)] = pipe[Ask(i)],
         InLoop /\ taskRuns[Source] = 0 /\ state[Judge] # "running" /\ pipe[Verdict] = << >> =>
           pipe'[Verdict] = << >> /\ state'[Judge] # "running"
  PROVE  /\ Faults' /\ SourcePart' /\ StartPart'
         /\ SourceStill /\ Still(Sink) /\ (Early' <=> Early) /\ Round' = Round
         /\ Age' = Age /\ Due' = Due /\ SinkAge' = SinkAge
         /\ \A i \in Idx : AskPart(i)' /\ WorkPart(i)' /\ Unmoved(i)
<1>1. /\ Faults /\ SourcePart /\ StartPart
      /\ \A i \in Idx : PartInv(i)
  BY DEF LineInv, Parts
<1>2. Still(Source) /\ Still(Sink) /\ (\A i \in Idx : Still(Rep(i))) /\ Judge \in Tasks
  BY LineTasks
<1>3. SourceStill
  BY <1>2 DEF Still, SourceStill
<1>4. (Early' <=> Early) /\ Round' = Round /\ Question' = Question
      /\ Age' = Age /\ Due' = Due /\ Cycle' = Cycle
  BY <1>3, RoundStill DEF SourceStill, Age, Due, Cycle
<1>5. SinkAge' = SinkAge
  BY <1>4 DEF SinkAge
<1>6. Faults'
  BY <1>1 DEF Faults
<1>7. SourcePart'
  BY <1>1, <1>2, <1>3, SourceFrame DEF Still
<1>8. StartPart'
  <2>1. \A t \in Tasks \ {Judge} : state'[t] = state[t]
    BY DEF Still
  <2> QED
    BY <1>1, <1>2, <1>4, <2>1 DEF StartPart, Still
<1>9. ASSUME NEW i \in Idx
      PROVE  AskPart(i)' /\ WorkPart(i)' /\ Unmoved(i)
  <2>1. Unsent(i)' <=> Unsent(i)
    BY <1>2, <1>4 DEF Unsent, Running, Still
  <2>2. /\ Still(Rep(i)) /\ (Taken(i)' <=> Taken(i)) /\ (Launched(i)' <=> Launched(i))
        /\ (Answered(i)' <=> Answered(i)) /\ (Pending(i)' <=> Pending(i))
        /\ Reported(i)' = Reported(i)
        /\ (Running(Rep(i))' <=> Running(Rep(i))) /\ (Busy(Rep(i))' <=> Busy(Rep(i)))
        /\ (Healthy(i)' <=> Healthy(i))
    BY <1>2, <1>3, <2>1, PhaseStill DEF Healthy
  <2>3. AskPart(i)'
    BY <1>1, <1>4, <2>1, <2>2 DEF PartInv, AskPart, Still
  <2>4. WorkPart(i)'
    BY <1>1, <1>3, <1>4, <2>2 DEF PartInv, WorkPart, Still, SourceStill, Fits, Refused
  <2> QED
    BY <2>2, <2>3, <2>4 DEF Unmoved
<1> QED
  BY <1>2, <1>3, <1>4, <1>5, <1>6, <1>7, <1>8, <1>9

(* Steps that only change what the voter has seen.                          *)
LEMMA WatchFrame ==
  ASSUME NmrLine, LineInv, \A u \in Tasks \ {Judge} : Still(u), InLoop, InLoop',
         faulty' = faulty, outage' = outage, pipe' = pipe, prog' = prog,
         taskRuns'[Judge] = taskRuns[Judge], Running(Judge)' <=> Running(Judge),
         state'[Judge] # "running" \/ state'[Judge] = state[Judge],
         \A i \in Idx : Unmoved(i) => WatchPart(i)',
         /\ state'[Judge] = "fireable" => taskRuns[Judge] # Round
         /\ Waits' /\ ~armed'[Judge] => Age = Due
         /\ ~Waits' => ~armed'[Judge] /\ Age # Due
  PROVE  Parts'
<1>1. /\ Faults' /\ SourcePart' /\ StartPart'
      /\ SourceStill /\ Still(Sink) /\ (Early' <=> Early) /\ Round' = Round
      /\ Age' = Age /\ Due' = Due /\ SinkAge' = SinkAge
      /\ \A i \in Idx : AskPart(i)' /\ WorkPart(i)' /\ Unmoved(i)
  BY JudgeOwnFrame
<1>2. JudgePart /\ SinkPart /\ \A i \in Idx : PartInv(i)
  BY DEF LineInv, Parts
<1>3. (Unwritten' <=> Unwritten) /\ \A i \in Idx : Collected(i)' <=> Collected(i)
  BY <1>1 DEF Unwritten, Collected
<1>4. JudgePart'
  BY <1>1, <1>2 DEF JudgePart, VoteSeq, Fits, Refused
<1>5. SinkPart'
  BY <1>1, <1>2, <1>3 DEF SinkPart, FitSeq, Fits, Refused, Still, Running
<1>6. \A i \in Idx : ReplyPart(i)'
  BY <1>1, <1>2, <1>3 DEF PartInv, ReplyPart, Unmoved, Still, FitSeq, Fits, Refused, One
<1>7. \A i \in Idx : ReadPart(i)'
  BY <1>1, <1>2 DEF PartInv, ReadPart, Unmoved, Still, Message
<1> QED
  BY <1>1, <1>4, <1>5, <1>6, <1>7 DEF Parts, PartInv

(* One call of get_voter_fireable.                                          *)
LEMMA OwnPolls ==
  ASSUME NmrLine, TypeOK, EvaluateVoters({Judge})
  PROVE  /\ armed[Judge] /\ VoterFires(Judge) =>
              armed'[Judge] = FALSE /\ \A i \in Idx : i \notin monitor'[Judge]
         /\ armed[Judge] /\ ~VoterFires(Judge) =>
              /\ armed'[Judge] = TRUE
              /\ \A i \in Idx : i \in monitor[Judge] /\ state[Rep(i)] = "running" =>
                   i \in monitor'[Judge]
         /\ ~armed[Judge] =>
              /\ armed'[Judge] <=>
                   \A i \in Idx : i \in monitor[Judge] \/ state[Rep(i)] = "running"
              /\ \A i \in Idx : i \in monitor'[Judge] <=>
                                  i \in monitor[Judge] \/ state[Rep(i)] = "running"
         /\ VoterFires(Judge) =>
              /\ armed[Judge]
              /\ \A i \in Idx : i \notin monitor[Judge] \/ state[Rep(i)] # "running"
<1>1. PICK a, mon, run, alive :
        /\ a = armed[Judge] /\ mon = monitor[Judge]
        /\ run = RunningIndices(Judge) /\ alive = AliveIndices(Judge)
  OBVIOUS
<1>2. Judge \in VoterTasks /\ a \in BOOLEAN /\ mon \subseteq Idx
  BY <1>1, LineTasks DEF TypeOK, Idx
<1>3. run = {i \in Idx : state[Rep(i)] = "running"}
  BY <1>1 DEF RunningIndices, Idx, Rep
<1>4. /\ armed'[Judge] = ArmedAfter(Len(Replicates[Judge]), a, mon, run, alive)
      /\ monitor'[Judge] = MonitorAfter(a, mon, run)
      /\ (VoterFires(Judge) <=> Fires(a, mon, run, alive))
  BY <1>1, <1>2 DEF EvaluateVoters, VoterFires
<1>5. Idx = 1 .. Len(Replicates[Judge])
  BY LineTasks
<1>6. CASE a
  <2>1. armed'[Judge] = ~VoterFires(Judge)
    BY <1>4, <1>6 DEF ArmedAfter
  <2>2. monitor'[Judge] = {i \in mon : i \in run \/ ~Visited(i, mon, run)}
    BY <1>4, <1>6 DEF MonitorAfter
  <2>3. VoterFires(Judge) => mon \cap run = {}
    BY <1>4 DEF Fires, Blockers
  <2>4. VoterFires(Judge) => monitor'[Judge] = {}
    BY <2>2, <2>3 DEF Visited, Blockers
  <2> QED
    BY <1>1, <1>3, <1>6, <2>1, <2>2, <2>3, <2>4
<1>7. CASE ~a
  <2>1. armed'[Judge] <=> Idx \subseteq mon \cup run
    BY <1>4, <1>5, <1>7 DEF ArmedAfter
  <2>2. monitor'[Judge] = mon \cup run
    BY <1>4, <1>7 DEF MonitorAfter
  <2>3. ~VoterFires(Judge)
    BY <1>4, <1>7 DEF Fires
  <2> QED
    BY <1>1, <1>3, <1>7, <2>1, <2>2, <2>3
<1> QED
  BY <1>2, <1>6, <1>7

(* A voter that rests, or runs, has seen no healthy replicate since it was  *)
(* dispatched.                                                              *)
LEMMA JudgeRests ==
  ASSUME Nmr, Before, LineInv, InLoop, ~Waits, EvaluateVoters({Judge})
  PROVE  /\ ~armed[Judge] /\ ~armed'[Judge]
         /\ \A i \in Idx : Healthy(i) => i \notin monitor'[Judge] /\ ~Busy(Rep(i))
<1>1. Faults /\ ~armed[Judge] /\ \A i \in Idx : WatchPart(i)
  BY DEF LineInv, Parts, JudgePart, PartInv
<1>2. \A i \in Idx : Healthy(i) => i \notin monitor[Judge] /\ ~Busy(Rep(i))
  BY <1>1 DEF WatchPart
<1>3. /\ armed'[Judge] <=> \A i \in Idx : i \in monitor[Judge] \/ state[Rep(i)] = "running"
      /\ \A i \in Idx : i \in monitor'[Judge] <=>
                          i \in monitor[Judge] \/ state[Rep(i)] = "running"
  BY <1>1, OwnPolls DEF Nmr, Before
<1> QED
  BY <1>1, <1>2, <1>3, TwoHealthy DEF Busy

LEMMA JudgeWaited ==
  ASSUME Nmr, Before, LineInv, MonitorWait(Judge), UNCHANGED progVars
  PROVE  Parts'
<1>1. Judge \in Tasks /\ NmrLine /\ JudgePart
  BY LineTasks DEF Nmr, LineInv, Parts
<1>2. InLoop /\ InLoop'
  BY <1>1, TurnEffects DEF MonitorWait, Before
<1>3. /\ state[Judge] = "running" /\ EvaluateVoters({Judge})
      /\ UNCHANGED <<age, taskRuns, state, child>> /\ \A u \in Tasks : Still(u)
  BY <1>1, WaitEffects
<1>4. ~Waits /\ Age # Due
  BY <1>1, <1>2, <1>3 DEF JudgePart, Waits
<1>5. ~Waits'
  BY <1>3, <1>4 DEF Waits, Round, Early, Age, Due
<1>6. /\ ~armed'[Judge]
      /\ \A i \in Idx : Healthy(i) => i \notin monitor'[Judge] /\ ~Busy(Rep(i))
  BY <1>2, <1>3, <1>4, JudgeRests
<1>7. \A i \in Idx : Unmoved(i) => WatchPart(i)'
  BY <1>5, <1>6 DEF WatchPart, Unmoved
<1> QED
  BY <1>1, <1>2, <1>3, <1>4, <1>5, <1>6, <1>7, WatchFrame DEF progVars, faults, Running

LEMMA JudgeReaped ==
  ASSUME Nmr, Before, LineInv, MonitorReap(Judge), UNCHANGED progVars
  PROVE  Parts'
<1>1. Judge \in Tasks /\ NmrLine /\ JudgePart /\ \A i \in Idx : PartInv(i)
  BY LineTasks DEF Nmr, LineInv, Parts
<1>2. InLoop /\ InLoop'
  BY <1>1, TurnEffects DEF MonitorReap, Before
<1>3. /\ state[Judge] = "running" /\ child[Judge] # "alive" /\ child'[Judge] = "none"
      /\ state'[Judge] \in {"idle", "crashed"}
      /\ UNCHANGED <<age, taskRuns, armed, monitor>> /\ \A u \in Tasks \ {Judge} : Still(u)
  BY <1>1, ReapEffects DEF Before
<1>4. ~Waits /\ Age # Due /\ ~armed[Judge]
  BY <1>1, <1>2, <1>3 DEF JudgePart, Waits
<1>5. ~Waits'
  BY <1>1, <1>2, <1>3 DEF JudgePart, Waits, Round, Early, Age, Due
<1>6. \A i \in Idx : Unmoved(i) => WatchPart(i)'
  BY <1>1, <1>2, <1>3, <1>4, <1>5 DEF PartInv, WatchPart, Unmoved
<1> QED
  BY <1>1, <1>2, <1>3, <1>4, <1>5, <1>6, WatchFrame DEF progVars, faults, Running

(* When a voter is to vote, the healthy replicates have ended, and one core *)
(* or more with them.                                                       *)
LEMMA JudgeFires ==
  ASSUME Nmr, Before, LineInv, InLoop, ~Busy(Judge), VoterFires(Judge),
         EvaluateVoters({Judge})
  PROVE  /\ Waits /\ Age # Due /\ FindCore(FALSE) # {}
         /\ \A i \in Idx : Healthy(i) => ~Busy(Rep(i))
<1>1. Judge \in Tasks /\ NmrLine /\ JudgePart /\ Faults /\ InTime /\ \A i \in Idx : PartInv(i)
  BY LineTasks DEF Nmr, LineInv, Parts
<1>2. armed[Judge] /\ \A i \in Idx : i \notin monitor[Judge] \/ state[Rep(i)] # "running"
  BY <1>1, OwnPolls DEF Before
<1>3. Waits
  BY <1>1, <1>2 DEF JudgePart
<1>4. ASSUME NEW i \in Idx, Healthy(i)
      PROVE  ~Busy(Rep(i)) /\ Age # Due
  <2>1. PartInv(i) /\ Rep(i) \in Tasks /\ Rep(i) \in Fed /\ In[Rep(i)] = <<Ask(i)>>
    BY <1>1, <1>4, LineTasks, LinePipes
  <2>2. Launched(i) /\ state[Rep(i)] # "running"
    BY <1>2, <1>3, <1>4, <2>1 DEF PartInv, WatchPart
  <2>3. pipe[Ask(i)] = << >>
    BY <2>2 DEF Launched
  <2>4. state[Rep(i)] # "fireable"
    <3>1. \A x : <<x>>[1] = x
      OBVIOUS
    <3> QED
      BY <2>1, <2>3, <3>1 DEF Before, FedInv, FedOne
  <2>5. Age # Due
    BY <1>1, <1>4, <2>1, <2>2 DEF PartInv, WorkPart, InTime
  <2> QED
    BY <2>2, <2>4, <2>5 DEF Busy
<1>5. Candidates # {}
  <2>1. PICK i, j \in Idx : i # j /\ Healthy(i) /\ Healthy(j)
    BY <1>1, TwoHealthy
  <2>2. /\ Rep(i) \in Tasks /\ Rep(j) \in Tasks /\ Rep(i) # Rep(j)
        /\ Rep(i) # Judge /\ Rep(j) # Judge /\ ~Busy(Rep(i)) /\ ~Busy(Rep(j))
    BY <1>1, <1>4, <2>1, LineTasks
  <2>3. TypeOK /\ CoreOwnership
    BY DEF Before, OwnershipInv
  <2> QED
    BY <1>1, <2>2, <2>3, CoreFree
<1> QED
  BY <1>1, <1>3, <1>4, <1>5, TwoHealthy, CoreFound DEF Before

LEMMA JudgeDispatched ==
  ASSUME Nmr, Before, LineInv, MonitorDispatch(Judge, InputReady(Judge)), UNCHANGED progVars
  PROVE  Parts'
<1>1. Judge \in Tasks /\ NmrLine /\ JudgePart /\ (\A i \in Idx : PartInv(i))
      /\ Judge \in VoterTasks /\ Judge \notin Weighted
  BY LineTasks DEF Nmr, LineInv, Parts
<1>2. InLoop /\ InLoop'
  BY <1>1, TurnEffects DEF MonitorDispatch, Before
<1>3. /\ ~Busy(Judge) /\ EvaluateVoters({Judge})
      /\ UNCHANGED <<age, taskRuns, child>> /\ \A u \in Tasks \ {Judge} : Still(u)
      /\ ~VoterFires(Judge) => state'[Judge] = state[Judge]
      /\ VoterFires(Judge) /\ FindCore(FALSE) # {} => state'[Judge] = "fireable"
  <2>1. PeriodElapsed(Judge)
    BY <1>1, LineTimes, LineTasks DEF PeriodElapsed, Nmr
  <2>2. InputFull(Judge, InputReady(Judge)) <=> VoterFires(Judge)
    BY <1>1 DEF InputFull
  <2>3. (Judge \in Weighted) = FALSE
    BY <1>1
  <2> QED
    BY <1>1, <2>1, <2>2, <2>3, DispatchEffects DEF Before
<1>4. prog' = prog /\ pipe' = pipe /\ faulty' = faulty /\ outage' = outage
      /\ (Running(Judge)' <=> Running(Judge)) /\ Round' = Round
  BY <1>3 DEF progVars, faults, Running, Round, Early, Age, Due
<1>5. CASE VoterFires(Judge)
  <2>1. /\ Waits /\ Age # Due /\ state'[Judge] = "fireable"
        /\ \A i \in Idx : Healthy(i) => ~Busy(Rep(i))
    BY <1>2, <1>3, <1>5, JudgeFires
  <2>2. ~armed'[Judge] /\ \A i \in Idx : i \notin monitor'[Judge]
    BY <1>1, <1>3, <1>5, OwnPolls DEF Before
  <2>3. ~Waits' /\ taskRuns[Judge] # Round
    BY <2>1 DEF Waits
  <2>4. \A i \in Idx : Unmoved(i) => WatchPart(i)'
    BY <2>1, <2>2, <2>3 DEF WatchPart, Unmoved
  <2> QED
    BY <1>1, <1>2, <1>3, <1>4, <2>1, <2>2, <2>3, <2>4, WatchFrame
<1>6. CASE ~VoterFires(Judge)
  <2>1. state'[Judge] = state[Judge] /\ (Waits' <=> Waits) /\ state[Judge] # "fireable"
    BY <1>3, <1>4, <1>6 DEF Waits, Busy
  <2>2. CASE ~Waits
    <3>1. /\ ~armed'[Judge]
          /\ \A i \in Idx : Healthy(i) => i \notin monitor'[Judge] /\ ~Busy(Rep(i))
      BY <1>2, <1>3, <2>2, JudgeRests
    <3>2. \A i \in Idx : Unmoved(i) => WatchPart(i)'
      BY <2>1, <2>2, <3>1 DEF WatchPart, Unmoved
    <3> QED
      BY <1>1, <1>2, <1>3, <1>4, <2>1, <2>2, <3>1, <3>2, WatchFrame DEF JudgePart
  <2>3. CASE Waits /\ armed[Judge]
    <3>1. /\ armed'[Judge]
          /\ \A i \in Idx : i \in monitor[Judge] /\ state[Rep(i)] = "running" =>
               i \in monitor'[Judge]
      BY <1>1, <1>3, <1>6, <2>3, OwnPolls DEF Before
    <3>2. \A i \in Idx : Unmoved(i) => WatchPart(i)'
      BY <1>1, <1>2, <2>1, <2>3, <3>1 DEF PartInv, WatchPart, Unmoved, Still
    <3> QED
      BY <1>1, <1>2, <1>3, <1>4, <2>1, <2>3, <3>1, <3>2, WatchFrame
  <2>4. CASE Waits /\ ~armed[Judge]
    <3>1. /\ armed'[Judge] <=> \A i \in Idx : i \in monitor[Judge] \/ state[Rep(i)] = "running"
          /\ \A i \in Idx : i \in monitor'[Judge] <=>
                              i \in monitor[Judge] \/ state[Rep(i)] = "running"
      BY <1>1, <1>3, <2>4, OwnPolls DEF Before
    <3>2. Age = Due
      BY <1>1, <1>2, <2>4 DEF JudgePart
    <3>3. ASSUME NEW i \in Idx, Unmoved(i)
          PROVE  WatchPart(i)'
      <4>1. PartInv(i)
        BY <1>1
      <4>2. Healthy(i) /\ i \in monitor'[Judge] => Launched(i)
        BY <1>2, <2>4, <3>1, <4>1 DEF PartInv, WatchPart, AskPart, Launched, Busy
      <4>3. i \notin monitor'[Judge] => ~Taken(i) /\ state[Rep(i)] # "running"
        BY <1>2, <2>4, <3>1, <4>1 DEF PartInv, WatchPart
      <4>4. armed'[Judge] => i \in monitor'[Judge]
        BY <3>1
      <4> QED
        BY <1>2, <2>1, <2>4, <3>3, <4>2, <4>3, <4>4 DEF WatchPart, Unmoved, Still
    <3> QED
      BY <1>1, <1>2, <1>3, <1>4, <2>1, <2>4, <3>2, <3>3, WatchFrame
  <2> QED
    BY <2>2, <2>3, <2>4
<1> QED
  BY <1>5, <1>6

(* The voter is launched on one answer of each healthy replicate.           *)
LEMMA JudgeLaunched ==
  ASSUME Nmr, Before, LineInv, Launch(Judge)
  PROVE  Parts'
<1>1. Judge \in Tasks /\ Source \in Tasks /\ NmrLine /\ InTime /\ JudgePart /\ SinkPart
      /\ SourcePart /\ StartPart /\ Faults /\ \A i \in Idx : PartInv(i)
  BY LineTasks DEF Nmr, LineInv, Parts
<1>2. /\ pc = "run" /\ state[Judge] = "fireable" /\ ~Running(Judge)
      /\ state'[Judge] = "running" /\ Running(Judge)'
      /\ taskRuns'[Judge] = taskRuns[Judge] + 1 /\ prog'[Judge] = Fresh
      /\ UNCHANGED <<pc, queue, armed, monitor, pipe, faulty, outage>>
      /\ \A u \in Tasks \ {Judge} : Still(u)
  BY <1>1, LaunchEffects DEF Before, Running
<1>3. InLoop /\ InLoop'
  BY <1>2 DEF InLoop
<1>4. taskRuns[Judge] \in Nat /\ taskRuns[Source] \in Nat
  BY <1>1 DEF Before, TypeOK
<1>5. ~Waits /\ ~armed[Judge] /\ Age # Due /\ taskRuns[Judge] = Round - 1
      /\ taskRuns'[Judge] = Round /\ Unwritten /\ pipe[Verdict] = << >>
  <2>1. Round \in Int
    BY <1>4 DEF Round
  <2>2. ~Waits
    BY <1>2 DEF Waits
  <2> QED
    BY <1>1, <1>2, <1>3, <1>4, <2>1, <2>2 DEF JudgePart, Unwritten, SinkPart
<1>6. taskRuns[Source] # 0
  <2>1. taskRuns[Source] = 0 => Round <= 0
    BY DEF Round
  <2> QED
    BY <1>4, <1>5, <2>1 DEF Round
<1>7. /\ Faults' /\ SourcePart' /\ StartPart'
      /\ SourceStill /\ Still(Sink) /\ Round' = Round
      /\ Age' = Age /\ Due' = Due /\ SinkAge' = SinkAge
      /\ \A i \in Idx : AskPart(i)' /\ WorkPart(i)' /\ Unmoved(i)
  BY <1>1, <1>2, <1>3, <1>6, JudgeOwnFrame
<1>8. Fresh.read = << >> /\ Fresh.written = 0 /\ Fresh.text = NoData
      /\ Len(<< >>) = 0 /\ DOMAIN (<< >>) = {}
  BY DEF Fresh
<1>9. ~Waits' /\ taskRuns'[Judge] = Round'
  BY <1>5, <1>7 DEF Waits
<1>10. Len(In[Judge]) \in Nat /\ Len(In[Judge]) > 0 /\ \A i \in Idx : i \in Nat /\ i > 0
  <2>1. Len(In[Judge]) = Len(Replicates[Judge]) /\ Idx = 1 .. Len(Replicates[Judge])
        /\ Len(Replicates[Judge]) \in Nat
    BY <1>1, LineTasks, LinePipes
  <2>2. Idx # {}
    BY <1>1, TwoHealthy
  <2> QED
    BY <2>1, <2>2
<1>11. JudgePart'
  <2>1. VoteSeq(<< >>)'
    BY FitEmpty DEF VoteSeq, Fits, Refused
  <2> QED
    BY <1>2, <1>3, <1>5, <1>7, <1>8, <1>9, <1>10, <2>1 DEF JudgePart, VoteSeq
<1>12. SinkPart'
  BY <1>1, <1>2, <1>3, <1>5, <1>7, <1>8 DEF SinkPart, FitSeq, Fits, Refused, Still, Unwritten, Running
<1>13. ASSUME NEW i \in Idx
       PROVE  PartInv(i)'
  <2>1. PartInv(i) /\ Unmoved(i) /\ Rep(i) \in Tasks
    BY <1>1, <1>7, LineTasks
  <2>2. ~Collected(i)
    BY <1>4, <1>5 DEF Collected, Round
  <2>3. ~Collected(i)'
    BY <1>2, <1>8, <1>10 DEF Collected
  <2>4. ReplyPart(i)'
    BY <1>2, <1>3, <2>1, <2>2, <2>3 DEF PartInv, ReplyPart, Unmoved, Still, FitSeq, Fits, Refused, One
  <2>5. Healthy(i) => /\ ~Running(Rep(i)) /\ taskRuns[Rep(i)] = Round
                      /\ pipe[Reply(i)] = <<Reported(i)>>
    <3>1. ASSUME Healthy(i)
          PROVE  ~Busy(Rep(i)) /\ ~Running(Rep(i))
      BY <1>1, <1>3, <1>5, <2>1, <3>1 DEF PartInv, WatchPart, Busy, InTime
    <3>2. ~Unsent(i)
      <4>1. Age \in Nat /\ Due \in Nat
        BY <1>1, LineTimes DEF Before, TypeOK, Age
      <4> QED
        BY <1>1, <1>3, <1>5, <4>1 DEF Unsent, SourcePart, InTime, Early
    <3>3. pipe[Ask(i)] = << >>
      BY <1>5, <2>1 DEF PartInv, AskPart
    <3> QED
      BY <1>3, <2>1, <2>2, <3>1, <3>2, <3>3
      DEF PartInv, WorkPart, ReplyPart, Launched, Taken, Answered
  <2>6. ReadPart(i)'
    BY <1>2, <1>4, <1>5, <1>8, <2>1, <2>5 DEF ReadPart, Unmoved, Still, Reported, Message, Round
  <2>7. WatchPart(i)'
    BY <1>2, <1>3, <1>5, <1>9, <2>1 DEF PartInv, WatchPart, Unmoved, Still
  <2> QED
    BY <1>7, <2>4, <2>6, <2>7 DEF PartInv
<1> QED
  BY <1>7, <1>11, <1>12, <1>13 DEF Parts

(* It reads one answer of each healthy replicate.                           *)
LEMMA JudgeReads ==
  ASSUME Nmr, Before, LineInv, ReadInput(Judge)
  PROVE  Parts'
<1>1. Judge \in Tasks /\ Judge \in VoterTasks /\ Judge # Source /\ NmrLine /\ InTime /\ JudgePart
      /\ SinkPart /\ Faults /\ DOMAIN In[Judge] = Idx /\ Idx = 1 .. Len(In[Judge])
      /\ Len(In[Judge]) \in Nat /\ \A k \in Idx : PartInv(k)
  BY LineTasks, LinePipes DEF Nmr, LineInv, Parts
<1>2. /\ LoopStill /\ UNCHANGED <<state, child, age, taskRuns>> /\ Running(Judge)
      /\ \A u \in Tasks \ {Judge} : Still(u)
  BY <1>1, ProgramEffects DEF Before
<1>3. PollStill /\ PassStill /\ faulty' = faulty /\ outage' = outage /\ (InLoop' <=> InLoop)
      /\ Running(Judge)'
  BY <1>2, LoopStays DEF Running
<1>4. PICK r, s, i : r = prog[Judge].read /\ s = prog'[Judge].read /\ i = Len(r) + 1
  OBVIOUS
<1>5. VoteSeq(r) /\ Len(r) \in Nat /\ DOMAIN r = 1 .. Len(r)
  <2>1. VoteSeq(r)
    BY <1>1, <1>4 DEF JudgePart
  <2>2. NoData = NoData
    OBVIOUS
  <2> QED
    BY <2>1, <2>2, VoteSeqAppend
<1>6. PICK m :
        /\ i \in Idx /\ m = IF pipe[Reply(i)] = << >> THEN NoData ELSE Head(pipe[Reply(i)])
        /\ s = Append(r, m)
        /\ pipe'[Reply(i)] = AfterRead(pipe[Reply(i)], ReadCap)
        /\ \A q \in PipeNames \ {Reply(i)} : pipe'[q] = pipe[q]
        /\ IF i = Len(In[Judge])
           THEN IsText(prog'[Judge].text) /\ prog'[Judge].text \in Outcomes(Judge, s)
           ELSE prog'[Judge].text = prog[Judge].text
  <2>1. PICK p \in PipeNames :
          /\ \A q \in PipeNames \ {p} : pipe'[q] = pipe[q]
          /\ pipe'[p] = AfterRead(pipe[p], ReadCap)
          /\ i \in DOMAIN In[Judge]
          /\ p = In[Judge][i]
          /\ s = Append(r, IF pipe[p] = << >> THEN NoData ELSE Head(pipe[p]))
          /\ IF i = Len(In[Judge])
             THEN IsText(prog'[Judge].text) /\ prog'[Judge].text \in Outcomes(Judge, s)
             ELSE prog'[Judge].text = prog[Judge].text
    BY <1>1, <1>4, ReadEffects DEF Before
  <2>2. p = Reply(i)
    BY <2>1 DEF Reply
  <2> QED
    BY <1>1, <2>1, <2>2
<1>7. pipe'[Reply(i)] = << >> /\ (m = NoData \/ (IsText(m) /\ Fits(m)))
  <2>1. FitSeq(pipe[Reply(i)]) /\ Len(pipe[Reply(i)]) + One(Pending(i)) <= 2
    BY <1>1, <1>6 DEF PartInv, ReplyPart
  <2>2. Len(pipe[Reply(i)]) <= 2
    <3>1. PICK n, o : n = Len(pipe[Reply(i)]) /\ o = One(Pending(i))
      OBVIOUS
    <3>2. n \in Nat /\ o \in Nat
      BY <2>1, <3>1, FitLength DEF One
    <3> QED
      BY <2>1, <3>1, <3>2
  <2> QED
    BY <1>1, <1>6, <2>1, <2>2, FitLength, FitBytes
<1>8. /\ VoteSeq(s) /\ Len(s) = i /\ DOMAIN s = 1 .. i /\ s[i] = m
      /\ \A k \in DOMAIN r : s[k] = r[k]
  BY <1>4, <1>5, <1>6, <1>7, VoteSeqAppend
<1>9. prog[Judge].text = NoData /\ prog[Judge].written = 0 /\ prog'[Judge].written = 0
  <2>1. prog[Judge].text = NoData /\ prog[Judge].written = 0
    BY <1>1, <1>4, <1>5, <1>6 DEF JudgePart
  <2>2. DOMAIN prog = Tasks /\ IsProcess(prog[Judge])
    BY <1>1 DEF Before, ProgramInv
  <2> QED
    BY <1>1, <2>1, <2>2 DEF ReadInput, Computed, IsProcess
<1>10. /\ \A k \in Idx : pipe'[Ask(k)] = pipe[Ask(k)]
       /\ \A k \in Idx \ {i} : pipe'[Reply(k)] = pipe[Reply(k)]
       /\ pipe'[Verdict] = pipe[Verdict]
  BY <1>1, <1>6, LinePipes
<1>11. /\ Faults' /\ SourcePart' /\ StartPart'
       /\ SourceStill /\ Still(Sink) /\ Round' = Round
       /\ Age' = Age /\ Due' = Due /\ SinkAge' = SinkAge
       /\ \A k \in Idx : AskPart(k)' /\ WorkPart(k)' /\ Unmoved(k)
  BY <1>1, <1>2, <1>3, <1>10, JudgeOwnFrame
<1>12. (Waits' <=> Waits) /\ (Unwritten' <=> Unwritten)
  BY <1>2, <1>3, <1>9, <1>11 DEF Waits, Unwritten
<1>13. ASSUME NEW k \in Idx
       PROVE  ReadPart(k)'
  <2>1. PartInv(k) /\ Unmoved(k)
    BY <1>1, <1>11
  <2>2. Healthy(k) /\ k = i => m = Message(Rep(k), "good", taskRuns[Judge])
    <3>1. i \notin DOMAIN r
      BY <1>4, <1>5
    <3>2. \A x : Head(<<x>>) = x /\ <<x>> # << >>
      OBVIOUS
    <3> QED
      BY <1>2, <1>4, <1>6, <2>1, <3>1, <3>2 DEF PartInv, ReadPart
  <2>3. k \in DOMAIN s => k \in DOMAIN r \/ k = i
    BY <1>4, <1>5, <1>8
  <2>4. Healthy(k) /\ k \in DOMAIN s => s[k] = Message(Rep(k), "good", taskRuns[Judge])
    BY <1>4, <1>8, <2>1, <2>2, <2>3 DEF PartInv, ReadPart
  <2>5. k \notin DOMAIN s => k \notin DOMAIN r /\ k # i
    BY <1>4, <1>5, <1>6, <1>8
  <2> QED
    BY <1>2, <1>4, <1>10, <2>1, <2>4, <2>5 DEF PartInv, ReadPart, Unmoved, Still, Message
<1>14. i = Len(In[Judge]) => Fits(prog'[Judge].text)
  <2> SUFFICES ASSUME i = Len(In[Judge])
               PROVE  Fits(prog'[Judge].text)
    OBVIOUS
  <2>1. prog'[Judge].text = Vote(s)
    BY <1>1, <1>6 DEF Outcomes
  <2>2. PICK S : s \in Seq(S) /\ \A x \in S : x = NoData \/ (IsText(x) /\ Fits(x))
    BY <1>8 DEF VoteSeq
  <2>3. PICK h \in Idx : Healthy(h)
    BY <1>1, TwoHealthy
  <2>4. h \in DOMAIN s
    BY <1>1, <1>8, <2>3
  <2>5. s[h] = Message(Rep(h), "good", taskRuns[Judge])
    BY <1>2, <1>4, <1>11, <1>13, <2>3, <2>4 DEF ReadPart, Unmoved, Message
  <2>6. s[h] # NoData
    BY <2>5 DEF Message, NoData
  <2> QED
    BY <2>1, <2>2, <2>4, <2>6, VoteChooses
<1>15. JudgePart'
  <2>1. Len(s) <= Len(In[Judge]) /\ (prog'[Judge].text = NoData <=> Len(s) < Len(In[Judge]))
    <3>1. i <= Len(In[Judge])
      BY <1>1, <1>6
    <3> QED
      BY <1>1, <1>4, <1>5, <1>6, <1>8, <1>9, <3>1, Texts0
  <2>2. prog'[Judge].text # NoData => Fits(prog'[Judge].text)
    BY <1>6, <1>9, <1>14
  <2> QED
    BY <1>1, <1>2, <1>3, <1>4, <1>8, <1>9, <1>11, <1>12, <2>1, <2>2
    DEF JudgePart, VoteSeq, Fits, Refused, LoopStill
<1>16. SinkPart'
  BY <1>1, <1>2, <1>3, <1>9, <1>10, <1>11, <1>12
  DEF SinkPart, FitSeq, Fits, Refused, Still
<1>17. ASSUME NEW k \in Idx
       PROVE  ReplyPart(k)'
  <2>1. PartInv(k) /\ Unmoved(k) /\ k \in Nat /\ i \in Nat
    BY <1>1, <1>4, <1>5, <1>11
  <2>2. CASE k # i
    <3>1. Len(r) >= k <=> Len(s) >= k
      BY <1>4, <1>5, <1>8, <2>1, <2>2
    <3>2. Collected(k)' <=> Collected(k)
      BY <1>2, <1>3, <1>4, <1>11, <3>1 DEF Collected
    <3> QED
      BY <1>2, <1>3, <1>10, <2>1, <2>2, <3>2
      DEF PartInv, ReplyPart, Unmoved, Still, FitSeq, Fits, Refused, One
  <2>3. CASE k = i
    <3>1. InLoop => Collected(k)'
      <4>1. InLoop => taskRuns[Judge] = Round
        BY <1>1, <1>2 DEF JudgePart, InTime
      <4> QED
        BY <1>2, <1>4, <1>8, <1>11, <2>1, <2>3, <4>1 DEF Collected
    <3>2. FitSeq(<< >>)' /\ Len(<< >>) = 0 /\ One(Pending(k))' \in {0, 1}
      BY FitEmpty DEF FitSeq, Fits, Refused, One
    <3>3. pipe'[Reply(k)] = << >> /\ FitSeq(pipe[Reply(k)])'
      BY <1>7, <2>3, <3>2 DEF FitSeq
    <3>4. Len(pipe'[Reply(k)]) + One(Pending(k))' <= 1
      BY <3>2, <3>3
    <3>5. Len(pipe'[Reply(k)]) + One(Pending(k))' <= 2
      BY <3>2, <3>3
    <3> QED
      BY <1>3, <3>1, <3>3, <3>4, <3>5 DEF ReplyPart
  <2> QED
    BY <2>2, <2>3
<1>18. ASSUME NEW k \in Idx
       PROVE  WatchPart(k)'
  BY <1>1, <1>2, <1>3, <1>11, <1>12, <1>18 DEF PartInv, WatchPart, Unmoved, Still, LoopStill
<1> QED
  BY <1>11, <1>13, <1>15, <1>16, <1>17, <1>18 DEF Parts, PartInv

LEMMA JudgeWrites ==
  ASSUME Nmr, Before, LineInv, WriteOutput(Judge)
  PROVE  Parts'
<1>1. Judge \in Tasks /\ NmrLine /\ InTime /\ JudgePart /\ SinkPart /\ Verdict \in PipeNames
      /\ Out[Judge] = <<Verdict>> /\ \A k \in Idx : PartInv(k)
  BY LineTasks, LinePipes DEF Nmr, LineInv, Parts
<1>2. /\ LoopStill /\ UNCHANGED <<state, child, age, taskRuns>> /\ Running(Judge)
      /\ \A u \in Tasks \ {Judge} : Still(u)
  BY <1>1, ProgramEffects DEF Before
<1>3. PollStill /\ PassStill /\ faulty' = faulty /\ outage' = outage /\ (InLoop' <=> InLoop)
      /\ Running(Judge)' /\ state[Judge] = "running"
  BY <1>1, <1>2, LoopStays DEF Running, InTime
<1>4. PICK m : m = prog[Judge].text
  OBVIOUS
<1>5. /\ m # NoData /\ IsText(m) /\ Fits(m)
      /\ prog'[Judge].read = prog[Judge].read /\ prog'[Judge].text = m
      /\ prog[Judge].written = 0 /\ prog'[Judge].written = 1
      /\ pipe'[Verdict] = Append(pipe[Verdict], m)
      /\ \A p \in PipeNames \ {Verdict} : pipe'[p] = pipe[p]
  <2>1. /\ prog[Judge].text # NoData /\ IsText(prog[Judge].text)
        /\ prog'[Judge].read = prog[Judge].read /\ prog'[Judge].text = prog[Judge].text
        /\ prog[Judge].written \in Nat /\ prog'[Judge].written = prog[Judge].written + 1
        /\ prog[Judge].written + 1 <= Len(Out[Judge])
        /\ \A p \in PipeNames :
             pipe'[p] = IF p = Out[Judge][prog[Judge].written + 1]
                        THEN Append(pipe[p], prog[Judge].text) ELSE pipe[p]
    BY <1>1, OutputEffects DEF Before
  <2>2. \A x : <<x>>[1] = x /\ Len(<<x>>) = 1
    OBVIOUS
  <2>3. prog[Judge].written = 0 /\ prog'[Judge].written = 1
    <3>1. Len(Out[Judge]) = 1
      BY <1>1, <2>2
    <3> QED
      BY <2>1, <3>1
  <2>4. Out[Judge][prog[Judge].written + 1] = Verdict
    BY <1>1, <2>2, <2>3
  <2>5. \A p \in PipeNames : pipe'[p] = IF p = Verdict THEN Append(pipe[p], m) ELSE pipe[p]
    BY <1>4, <2>1, <2>4
  <2>6. Fits(m)
    BY <1>1, <1>4, <2>1 DEF JudgePart
  <2> QED
    BY <1>1, <1>4, <2>1, <2>3, <2>5, <2>6
<1>6. pipe[Verdict] = << >> /\ FitSeq(pipe'[Verdict]) /\ Len(pipe'[Verdict]) = 1
  <2>1. pipe[Verdict] = << >>
    BY <1>1, <1>2, <1>5 DEF SinkPart
  <2>2. FitSeq(<< >>) /\ Len(<< >>) = 0 /\ 0 + 1 = 1
    BY FitEmpty
  <2>3. pipe'[Verdict] = Append(<< >>, m)
    BY <1>5, <2>1
  <2>4. FitSeq(Append(<< >>, m)) /\ Len(Append(<< >>, m)) = 1
    BY <1>5, <2>2, FitAppend
  <2> QED
    BY <2>1, <2>3, <2>4
<1>7. \A k \in Idx : pipe'[Ask(k)] = pipe[Ask(k)] /\ pipe'[Reply(k)] = pipe[Reply(k)]
  BY <1>1, <1>5, LinePipes
<1>8. /\ Faults' /\ SourcePart' /\ StartPart'
      /\ SourceStill /\ Still(Sink) /\ Round' = Round
      /\ Age' = Age /\ Due' = Due /\ SinkAge' = SinkAge
      /\ \A k \in Idx : AskPart(k)' /\ WorkPart(k)' /\ Unmoved(k)
  BY <1>1, <1>2, <1>3, <1>7, JudgeOwnFrame
<1>9. (Waits' <=> Waits) /\ JudgeStill /\ \A k \in Idx : Collected(k)' <=> Collected(k)
  BY <1>2, <1>3, <1>5, <1>8 DEF Waits, Collected, JudgeStill
<1>10. JudgePart'
  BY <1>1, <1>2, <1>3, <1>4, <1>5, <1>8, <1>9
  DEF JudgePart, VoteSeq, Fits, Refused, LoopStill
<1>11. SinkPart'
  <2>1. InLoop => ~Unwritten'
    BY <1>1, <1>2, <1>3, <1>5, <1>8 DEF JudgePart, Unwritten
  <2>2. Unwritten
    BY <1>2, <1>5 DEF Unwritten
  <2>3. FitSeq(pipe[Verdict])' /\ Len(pipe'[Verdict]) <= 1
    BY <1>6 DEF FitSeq, Fits, Refused
  <2>4. InLoop' /\ Running(Sink)' => age'[Sink] >= SinkAge'
    BY <1>1, <1>3, <1>8, <2>2, LineTasks DEF SinkPart, InTime, Running, Still
  <2> QED
    BY <1>3, <1>5, <2>1, <2>3, <2>4 DEF SinkPart
<1>12. ASSUME NEW k \in Idx
       PROVE  PartInv(k)'
  <2>1. PartInv(k) /\ Unmoved(k)
    BY <1>1, <1>8
  <2>2. ReplyPart(k)'
    BY <1>2, <1>3, <1>7, <1>9, <2>1
    DEF PartInv, ReplyPart, Unmoved, Still, FitSeq, Fits, Refused, One
  <2>3. ReadPart(k)'
    BY <1>2, <1>3, <1>5, <1>7, <2>1 DEF PartInv, ReadPart, Unmoved, Still, Message
  <2>4. WatchPart(k)'
    BY <1>2, <1>3, <1>9, <2>1 DEF PartInv, WatchPart, Unmoved, Still, LoopStill
  <2> QED
    BY <1>8, <2>2, <2>3, <2>4 DEF PartInv
<1> QED
  BY <1>8, <1>10, <1>11, <1>12 DEF Parts

LEMMA JudgeEnds ==
  ASSUME Nmr, Before, LineInv, Finish(Judge) \/ Crash(Judge)
  PROVE  Parts'
<1>1. Judge \in Tasks /\ NmrLine /\ InTime /\ JudgePart /\ SinkPart /\ Faults
      /\ Out[Judge] = <<Verdict>> /\ \A k \in Idx : PartInv(k)
  BY LineTasks, LinePipes DEF Nmr, LineInv, Parts
<1>2. /\ LoopStill /\ UNCHANGED <<state, age, taskRuns, pipe>>
      /\ Running(Judge) /\ ~Running(Judge)' /\ prog'[Judge] = Fresh
      /\ \A u \in Tasks \ {Judge} : Still(u)
      /\ \/ Prone(Judge)
         \/ Refused(prog[Judge].text)
         \/ Done(Judge) /\ prog[Judge].written = Len(Out[Judge])
  BY <1>1, EndEffects DEF Before
<1>3. PollStill /\ PassStill /\ faulty' = faulty /\ outage' = outage /\ (InLoop' <=> InLoop)
  BY <1>2, LoopStays
<1>4. ~Prone(Judge)
  BY <1>1, LineTasks, NoneProne
<1>5. ~Refused(prog[Judge].text)
  BY <1>1 DEF JudgePart, Fits, Refused, NoData
<1>6. prog[Judge].text # NoData /\ prog[Judge].written = 1
  <2>1. \A x : Len(<<x>>) = 1
    OBVIOUS
  <2> QED
    BY <1>1, <1>2, <1>4, <1>5, <2>1 DEF Done
<1>7. Fresh.read = << >> /\ Fresh.written = 0 /\ Fresh.text = NoData
      /\ Len(<< >>) = 0 /\ DOMAIN (<< >>) = {}
  BY DEF Fresh
<1>8. /\ Faults' /\ SourcePart' /\ StartPart'
      /\ SourceStill /\ Still(Sink) /\ Round' = Round
      /\ Age' = Age /\ Due' = Due /\ SinkAge' = SinkAge
      /\ \A k \in Idx : AskPart(k)' /\ WorkPart(k)' /\ Unmoved(k)
  BY <1>1, <1>2, <1>3, JudgeOwnFrame
<1>9. Len(In[Judge]) \in Nat /\ Len(In[Judge]) > 0 /\ \A k \in Idx : k \in Nat /\ k <= Len(In[Judge])
  <2>1. Len(In[Judge]) = Len(Replicates[Judge]) /\ Idx = 1 .. Len(Replicates[Judge])
        /\ Len(Replicates[Judge]) \in Nat
    BY <1>1, LineTasks, LinePipes
  <2>2. Idx # {}
    BY <1>1, TwoHealthy
  <2> QED
    BY <2>1, <2>2
<1>10. \A k \in Idx : Collected(k)' <=> Collected(k)
  <2>1. PICK n : n = Len(prog[Judge].read)
    OBVIOUS
  <2>2. n \in Nat /\ n >= Len(In[Judge])
    <3>1. VoteSeq(prog[Judge].read) /\ ~(n < Len(In[Judge]))
      BY <1>1, <1>6, <2>1 DEF JudgePart
    <3>2. NoData = NoData
      OBVIOUS
    <3>3. n \in Nat
      BY <2>1, <3>1, <3>2, VoteSeqAppend
    <3> QED
      BY <1>9, <3>1, <3>3
  <2>3. \A k \in Idx : n >= k
    BY <1>9, <2>2
  <2> QED
    BY <1>2, <1>8, <2>1, <2>3 DEF Collected
<1>11. (Waits' <=> Waits) /\ (Unwritten' <=> Unwritten)
  BY <1>2, <1>6, <1>8 DEF Waits, Unwritten
<1>12. JudgePart'
  <2>1. VoteSeq(<< >>)'
    BY FitEmpty DEF VoteSeq, Fits, Refused
  <2>2. prog'[Judge].read = << >> /\ prog'[Judge].written = 0 /\ prog'[Judge].text = NoData
    BY <1>2, <1>7
  <2>3. VoteSeq(prog[Judge].read)'
    BY <2>1, <2>2 DEF VoteSeq, Fits, Refused
  <2>4. Len(prog'[Judge].read) = 0 /\ 0 < Len(In[Judge])
    BY <1>7, <1>9, <2>2
  <2>5. InLoop' =>
          /\ taskRuns'[Judge] \in {Round' - 1, Round'}
          /\ state'[Judge] = "running" => taskRuns'[Judge] = Round'
          /\ state'[Judge] = "fireable" => taskRuns'[Judge] # Round'
          /\ Waits' /\ ~armed'[Judge] => Age' = Due'
          /\ ~Waits' => ~armed'[Judge] /\ Age' # Due'
    BY <1>1, <1>2, <1>3, <1>8, <1>11 DEF JudgePart, LoopStill
  <2> QED
    BY <1>9, <2>2, <2>3, <2>4, <2>5 DEF JudgePart
<1>13. SinkPart'
  BY <1>1, <1>2, <1>3, <1>8, <1>11 DEF SinkPart, FitSeq, Fits, Refused, Still, Running
<1>14. ASSUME NEW k \in Idx
       PROVE  PartInv(k)'
  <2>1. PartInv(k) /\ Unmoved(k)
    BY <1>1, <1>8
  <2>2. ReplyPart(k)'
    BY <1>2, <1>3, <1>10, <2>1
    DEF PartInv, ReplyPart, Unmoved, Still, FitSeq, Fits, Refused, One
  <2>3. ReadPart(k)'
    BY <1>2, <1>7, <2>1 DEF PartInv, ReadPart, Unmoved, Still, Message
  <2>4. WatchPart(k)'
    BY <1>2, <1>3, <1>11, <2>1 DEF PartInv, WatchPart, Unmoved, Still, LoopStill
  <2> QED
    BY <1>8, <2>2, <2>3, <2>4 DEF PartInv
<1> QED
  BY <1>8, <1>12, <1>13, <1>14 DEF Parts

LEMMA JudgeStep ==
  ASSUME Nmr, Before, LineInv,
         \/ (Monitor(Judge) /\ UNCHANGED progVars) \/ Launch(Judge)
         \/ Program(Judge) \/ Crash(Judge)
  PROVE  Parts'
<1>1. Judge \in Tasks /\ InTime /\ Faults /\ NmrLine
  BY LineTasks DEF Nmr, LineInv, Parts
<1>2. ~MonitorStuck(Judge)
  BY <1>1, NeverStuck DEF Before
<1>3. In[Judge] # << >>
  <2>1. DOMAIN In[Judge] # {} /\ DOMAIN (<< >>) = {}
    BY <1>1, LinePipes, TwoHealthy
  <2> QED
    BY <2>1
<1> QED
  BY <1>2, <1>3, JudgeReaped, JudgeWaited, JudgeDispatched, JudgeLaunched, JudgeReads,
     JudgeWrites, JudgeEnds DEF Monitor, Program, Sample


(****************************************************************************)
(* The clock.  It advances when the scheduler has caught up with what is    *)
(* there to be done; the cores are then enough for whoever could still run. *)
(****************************************************************************)
LEMMA TickEffects ==
  ASSUME Nmr, Before, LineInv, Tick, UNCHANGED progVars
  PROVE  /\ InLoop /\ (pc' = "monitor" => queue' = Tasks) /\ CaughtUp
         /\ UNCHANGED <<state, child, taskRuns, armed, monitor, prog, pipe, faulty, outage>>
         /\ \A t \in Tasks :
              /\ state[t] # "fireable" /\ (state[t] = "running" <=> Running(t))
              /\ Busy(t) => Running(t)
              /\ age[t] \in Nat /\ age'[t] = AtMost(age[t] + 1, AgeCap[t])
              /\ Running(t) => /\ prog[t].text # NoData
                               /\ age[t] < MaxExec[t] /\ age'[t] = age[t] + 1
         /\ ~Running(Judge)
<1>1. /\ pc = "active" /\ Timely /\ CaughtUp /\ (pc' = "monitor" => queue' = Tasks)
      /\ UNCHANGED <<state, child, taskRuns, armed, monitor, prog, pipe, faulty, outage>>
      /\ \A t \in Tasks : age'[t] = AtMost(age[t] + 1, AgeCap[t])
  BY DEF Tick, CheckActive, taskVars, voterVars, procVars, progVars, faults
<1>2. Fireable = {}
  BY <1>1 DEF Before, OwnershipInv, FireableOnlyWithinPass
<1>3. ASSUME NEW t \in Tasks
      PROVE  /\ state[t] # "fireable" /\ (state[t] = "running" <=> Running(t))
             /\ Busy(t) => Running(t)
             /\ age[t] \in Nat
             /\ Running(t) => /\ prog[t].text # NoData
                              /\ age[t] < MaxExec[t] /\ age'[t] = age[t] + 1
  <2>1. state[t] # "fireable" /\ age[t] \in Nat
    BY <1>2, <1>3 DEF Fireable, Before, TypeOK
  <2>2. state[t] = "running" <=> Running(t)
    BY <1>1, <1>3 DEF CaughtUp, LineInv, InTime
  <2>3. Running(t) => prog[t].text # NoData /\ age[t] < MaxExec[t]
    BY <1>1, <1>3 DEF Timely
  <2>4. Running(t) => age'[t] = age[t] + 1
    <3>1. MaxExec[t] \in Nat /\ AgeCap[t] \in Nat /\ MaxExec[t] <= AgeCap[t]
      BY <1>3, LineTimes
    <3>2. age'[t] = AtMost(age[t] + 1, AgeCap[t])
      BY <1>1, <1>3
    <3> QED
      BY <2>1, <2>3, <3>1, <3>2 DEF AtMost
  <2> QED
    BY <2>1, <2>2, <2>3, <2>4 DEF Busy
<1>4. ~Running(Judge)
  <2>1. Judge \in Tasks /\ MaxExec[Judge] = 0
    BY LineTasks, LineTimes DEF Nmr
  <2> QED
    BY <1>3, <2>1
<1> QED
  BY <1>1, <1>3, <1>4 DEF InLoop

(* A core is free when a replicate or the sink rests as well.               *)
LEMMA TickCores ==
  ASSUME Nmr, Before, NEW t \in Tasks \ {Judge}, ~Busy(t), ~Busy(Judge),
         NEW u \in Tasks \ {t, Judge}, ~Busy(u)
  PROVE  Candidates # {}
BY CoreFree, LineTasks DEF Nmr, Before, OwnershipInv

(* Every question that was sent has been read.                              *)
LEMMA TickTaken ==
  ASSUME Nmr, Before, LineInv, Tick, UNCHANGED progVars
  PROVE  \A i \in Idx : pipe[Ask(i)] = << >> /\ ~Unsent(i) /\ Taken(i) /\ Launched(i)
<1>1. /\ CaughtUp /\ ~Running(Judge)
      /\ \A t \in Tasks :
           /\ (state[t] = "running" <=> Running(t)) /\ (Busy(t) => Running(t))
           /\ age[t] \in Nat
           /\ Running(t) => prog[t].text # NoData /\ age[t] < MaxExec[t]
  BY TickEffects
<1>2. NmrLine /\ Source \in Tasks \ {Judge} /\ Judge \in Tasks
      /\ \A i \in Idx : Rep(i) \in Tasks \ {Source, Judge} /\ Rep(i) \notin VoterTasks
  BY LineTasks DEF Nmr
<1>3. Running(Source) => Early
  BY <1>1, <1>2, LineTimes DEF Early, Age
<1>4. \A i \in Idx : ~Unsent(i)
  BY <1>3 DEF Unsent
<1>5. ASSUME NEW i \in Idx, pipe[Ask(i)] # << >>
      PROVE  FALSE
  <2>1. Age = Due /\ ~Running(Rep(i))
    BY <1>1, <1>2, <1>5 DEF LineInv, Parts, PartInv, AskPart
  <2>2. InputReady(Rep(i))
    <3>1. \A x : \A k \in DOMAIN <<x>> : <<x>>[k] = x
      OBVIOUS
    <3> QED
      BY <1>2, <1>5, <3>1, LinePipes DEF InputReady
  <2>3. PeriodElapsed(Rep(i))
    BY <1>2, LineTimes DEF PeriodElapsed
  <2>4. Candidates = {}
    BY <1>1, <1>2, <2>1, <2>2, <2>3 DEF CaughtUp
  <2>5. ~Running(Source)
    BY <1>3, <2>1, LineTimes DEF Early
  <2>6. ~Busy(Source) /\ ~Busy(Judge) /\ ~Busy(Rep(i))
    BY <1>1, <1>2, <2>1, <2>5
  <2> QED
    BY <1>2, <2>4, <2>6, TickCores
<1> QED
  BY <1>4, <1>5 DEF Taken, Launched

(* A voter that waits, waits for an answer that is being computed.          *)
LEMMA TickWaits ==
  ASSUME Nmr, Before, LineInv, Tick, UNCHANGED progVars, Waits
  PROVE  armed[Judge] /\ \E i \in Idx : Running(Rep(i))
<1>1. /\ InLoop /\ CaughtUp /\ ~Running(Judge)
      /\ \A t \in Tasks : (state[t] = "running" <=> Running(t)) /\ (Busy(t) => Running(t))
  BY TickEffects
<1>2. NmrLine /\ Judge \in Tasks /\ Judge \in VoterTasks
      /\ \A i \in Idx : Rep(i) \in Tasks \ {Judge}
  BY LineTasks DEF Nmr
<1>3. /\ \A i \in Idx : Taken(i)
      /\ \A i \in Idx : WatchPart(i) /\ WorkPart(i)
  BY TickTaken DEF LineInv, Parts, PartInv
<1>4. /\ RunningIndices(Judge) = {i \in Idx : state[Rep(i)] = "running"}
      /\ AliveIndices(Judge) = {i \in Idx : state[Rep(i)] \notin {"running", "crashed"}}
      /\ Indices(Judge) = Idx /\ monitor[Judge] \subseteq Idx
  BY <1>2 DEF RunningIndices, AliveIndices, Idx, Rep, Before, TypeOK
<1>5. armed[Judge]
  <2> SUFFICES ASSUME ~armed[Judge]
               PROVE  FALSE
    OBVIOUS
  <2>1. RunningIndices(Judge) \subseteq monitor[Judge] /\ monitor[Judge] # Idx
    BY <1>1, <1>2, <1>4 DEF CaughtUp
  <2>2. PICK i \in Idx : i \notin monitor[Judge]
    BY <1>4, <2>1
  <2>3. state[Rep(i)] = "running"
    BY <1>1, <1>3, <2>2 DEF WatchPart
  <2> QED
    BY <1>4, <2>1, <2>2, <2>3
<1>6. \E i \in Idx : Running(Rep(i))
  <2> SUFFICES ASSUME \A i \in Idx : state[Rep(i)] # "running"
               PROVE  FALSE
    BY <1>1, <1>2
  <2>1. PICK i, j \in Idx : i # j /\ Healthy(i) /\ Healthy(j)
    BY TwoHealthy DEF LineInv, Parts
  <2>2. state[Rep(i)] # "crashed"
    BY <1>1, <1>3, <2>1 DEF WorkPart
  <2>3. VoterFires(Judge)
    BY <1>4, <1>5, <2>1, <2>2 DEF VoterFires, Fires, Blockers
  <2>4. Candidates = {}
    BY <1>1, <1>2, <2>3 DEF CaughtUp
  <2>5. ~Busy(Rep(i)) /\ ~Busy(Rep(j)) /\ ~Busy(Judge) /\ Rep(i) # Rep(j)
    BY <1>1, <1>2, <2>1, LineTasks
  <2> QED
    BY <1>2, <2>4, <2>5, TickCores
<1> QED
  BY <1>5, <1>6

(* No sample is late.                                                       *)
LEMMA TickAge ==
  ASSUME Nmr, Before, LineInv, Tick, UNCHANGED progVars
  PROVE  /\ taskRuns[Source] > 0 /\ Age <= Cycle /\ Age \in Nat /\ age'[Source] = Age + 1
         /\ Running(Source) <=> Early
<1>1. /\ InLoop /\ CaughtUp /\ ~Running(Judge)
      /\ \A t \in Tasks :
           /\ (state[t] = "running" <=> Running(t)) /\ (Busy(t) => Running(t))
           /\ age[t] \in Nat /\ age'[t] = AtMost(age[t] + 1, AgeCap[t])
           /\ Running(t) => age[t] < MaxExec[t]
  BY TickEffects
<1>2. /\ NmrLine /\ Source \in Tasks \ {Judge} /\ Judge \in Tasks /\ Source \notin VoterTasks
      /\ Sink \in Tasks \ {Source, Judge}
      /\ \A i \in Idx : Rep(i) \in Tasks \ {Source, Judge}
  BY LineTasks DEF Nmr
<1>3. /\ SourcePart /\ StartPart /\ SinkPart /\ Faults
      /\ \A i \in Idx : WatchPart(i)
  BY DEF LineInv, Parts, PartInv
<1>4. Running(Source) <=> Early
  BY <1>1, <1>2, <1>3, LineTimes DEF SourcePart, Early, Age
<1>5. Age \in Nat /\ taskRuns[Source] \in Nat
  BY <1>1, <1>2 DEF Age, Before, TypeOK
<1>6. ASSUME Age > Cycle
      PROVE  FALSE
  <2>1. ~Early /\ ~Running(Source) /\ ~Busy(Source)
    BY <1>1, <1>2, <1>4, <1>5, <1>6, LineTimes DEF Early
  <2>2. Candidates = {}
    <3>1. InputReady(Source)
      <4>1. In[Source] = << >> /\ DOMAIN (<< >>) = {}
        BY <1>2, LinePipes
      <4> QED
        BY <4>1 DEF InputReady
    <3>2. PeriodElapsed(Source)
      BY <1>6 DEF PeriodElapsed, Age, Cycle
    <3> QED
      BY <1>1, <1>2, <2>1, <3>1, <3>2 DEF CaughtUp
  <2>3. PICK h \in Idx : Healthy(h)
    BY <1>3, TwoHealthy
  <2>4. CASE taskRuns[Source] = 0
    <3>1. ~Busy(Rep(h))
      BY <1>1, <1>2, <1>3, <2>4 DEF StartPart
    <3> QED
      BY <1>1, <1>2, <2>1, <2>2, <3>1, TickCores
  <2>5. CASE taskRuns[Source] # 0
    <3>1. Age = Cycle + 1
      BY <1>1, <1>3, <1>5, <1>6, <2>5, LineTimes DEF SourcePart
    <3>2. CASE Waits
      <4>1. ~Running(Sink)
        <5>1. Unwritten
          BY <3>2 DEF Waits, Unwritten
        <5>2. SinkAge = Cycle + 1 - Due + 1
          BY <2>1, <3>1, <1>5, LineTimes DEF SinkAge
        <5>3. Running(Sink) => age[Sink] >= SinkAge /\ age[Sink] < MaxExec[Sink]
          BY <1>1, <1>2, <1>3, <5>1 DEF SinkPart
        <5>4. age[Sink] \in Nat
          BY <1>1, <1>2
        <5> QED
          BY <5>2, <5>3, <5>4, LineTimes
      <4> QED
        BY <1>1, <1>2, <2>1, <2>2, <4>1, TickCores
    <3>3. CASE ~Waits
      <4>1. ~Busy(Rep(h))
        BY <1>1, <1>3, <2>3, <3>3 DEF WatchPart
      <4> QED
        BY <1>1, <1>2, <2>1, <2>2, <4>1, TickCores
    <3> QED
      BY <3>2, <3>3
  <2> QED
    BY <2>4, <2>5
<1>7. Age <= Cycle
  BY <1>5, <1>6, LineTimes
<1>8. taskRuns[Source] > 0
  BY <1>1, <1>3, <1>5, <1>7, LineTimes DEF StartPart
<1>9. age'[Source] = Age + 1
  BY <1>1, <1>2, <1>5, <1>7, LineTimes DEF AtMost, Age
<1> QED
  BY <1>4, <1>5, <1>7, <1>8, <1>9


(* Within the round the ages of those who run grow together.                *)
LEMMA TickWithin ==
  ASSUME Nmr, Before, LineInv, Tick, UNCHANGED progVars, Early' <=> Early
  PROVE  Parts'
<1>1. /\ InLoop
      /\ UNCHANGED <<state, child, taskRuns, armed, monitor, prog, pipe, faulty, outage>>
      /\ ~Running(Judge)
      /\ \A t \in Tasks :
           /\ state[t] # "fireable" /\ (state[t] = "running" <=> Running(t))
           /\ (Busy(t) => Running(t))
           /\ age[t] \in Nat
           /\ Running(t) => /\ prog[t].text # NoData
                            /\ age[t] < MaxExec[t] /\ age'[t] = age[t] + 1
  BY TickEffects
<1>2. /\ NmrLine /\ Source \in Tasks /\ Sink \in Tasks /\ Judge \in Tasks
      /\ \A i \in Idx : Rep(i) \in Tasks
  BY LineTasks DEF Nmr
<1>3. /\ Faults /\ SourcePart /\ StartPart /\ JudgePart /\ SinkPart
      /\ \A i \in Idx : PartInv(i)
  BY DEF LineInv, Parts
<1>4. /\ taskRuns[Source] > 0 /\ Age <= Cycle /\ Age \in Nat /\ Age' = Age + 1
      /\ (Running(Source) <=> Early)
  BY TickAge DEF Age
<1>5. Cycle' = Cycle /\ Due' = Due /\ Due \in Nat /\ Cycle \in Nat /\ Due <= Cycle
  BY LineTimes DEF Cycle, Due
<1>6. \A i \in Idx : pipe[Ask(i)] = << >> /\ ~Unsent(i)
  BY TickTaken
<1>7. Round' = Round /\ Question' = Question
      /\ \A t \in Tasks : (Running(t)' <=> Running(t)) /\ (Busy(t)' <=> Busy(t))
  BY <1>1 DEF Round, Question, Message, Running, Busy
<1>8. Early => Age' < Due
  BY <1>4, <1>5 DEF Early
<1>9. ~Early => Age >= Due /\ Age' > Due
  BY <1>4, <1>5 DEF Early
<1>10. Waits => armed[Judge]
  BY TickWaits
<1>11. (Waits' <=> Waits) /\ (Unwritten' <=> Unwritten)
  BY <1>1, <1>2, <1>7 DEF Waits, Unwritten
<1>12. SinkAge \in Int /\ SinkAge' = SinkAge + 1
  BY <1>4, <1>5 DEF SinkAge
<1>13. ASSUME NEW i \in Idx
       PROVE  /\ ~Unsent(i)' /\ (Taken(i)' <=> Taken(i)) /\ (Launched(i)' <=> Launched(i))
              /\ (Answered(i)' <=> Answered(i)) /\ (Pending(i)' <=> Pending(i))
              /\ (Collected(i)' <=> Collected(i)) /\ Reported(i)' = Reported(i)
              /\ (Healthy(i)' <=> Healthy(i))
  <2>1. ~Unsent(i)'
    BY <1>2, <1>4, <1>7 DEF Unsent
  <2>2. (Taken(i)' <=> Taken(i)) /\ (Launched(i)' <=> Launched(i))
    BY <1>1, <1>6, <2>1 DEF Taken, Launched
  <2> QED
    BY <1>1, <1>2, <1>6, <1>7, <1>13, <2>1, <2>2
    DEF Answered, Pending, Collected, Reported, Message, Healthy
<1>14. Faults' /\ StartPart'
  BY <1>1, <1>3, <1>4 DEF Faults, StartPart
<1>15. SourcePart'
  BY <1>1, <1>2, <1>3, <1>4, <1>5, <1>7, <1>8 DEF SourcePart
<1>16. JudgePart'
  <2>1. (prog[Judge].text = NoData <=> Len(prog[Judge].read) < Len(In[Judge]))'
    BY <1>1, <1>3 DEF JudgePart
  <2>2. VoteSeq(prog[Judge].read)' /\ (prog'[Judge].text # NoData => Fits(prog[Judge].text)')
    BY <1>1, <1>3 DEF JudgePart, VoteSeq, Fits, Refused
  <2>3. Waits' => armed'[Judge]
    BY <1>1, <1>10, <1>11
  <2>4. ~Waits' => ~armed'[Judge] /\ Age' # Due'
    BY <1>1, <1>3, <1>4, <1>5, <1>8, <1>9, <1>11 DEF JudgePart
  <2> QED
    BY <1>1, <1>3, <1>7, <2>1, <2>2, <2>3, <2>4 DEF JudgePart
<1>17. SinkPart'
  <2>1. \A n \in Nat : n >= SinkAge => n + 1 >= SinkAge'
    BY <1>12
  <2>2. Running(Sink) => age[Sink] \in Nat /\ age'[Sink] = age[Sink] + 1
    BY <1>1, <1>2
  <2> QED
    BY <1>1, <1>2, <1>3, <1>7, <1>11, <2>1, <2>2 DEF SinkPart, FitSeq, Fits, Refused
<1>18. ASSUME NEW i \in Idx
       PROVE  PartInv(i)'
  <2>1. PartInv(i) /\ Rep(i) \in Tasks
    BY <1>2, <1>3
  <2>2. AskPart(i)'
    BY <1>1, <1>6, <1>13 DEF AskPart
  <2>3. WorkPart(i)'
    <3>1. state'[Rep(i)] = "running" =>
            age'[Rep(i)] = IF Early' THEN Age' + Cycle' + 1 - Due' ELSE Age' - Due'
      <4>1. state[Rep(i)] = "running" =>
              /\ age'[Rep(i)] = age[Rep(i)] + 1
              /\ age[Rep(i)] = IF Early THEN Age + Cycle + 1 - Due ELSE Age - Due
        BY <1>1, <2>1 DEF PartInv, WorkPart
      <4> QED
        BY <1>1, <1>4, <1>5, <4>1
    <3>2. Age' # Due'
      BY <1>4, <1>5, <1>8, <1>9
    <3> QED
      BY <1>1, <1>7, <1>13, <2>1, <3>1, <3>2 DEF PartInv, WorkPart, Fits, Refused
  <2>4. ReplyPart(i)'
    BY <1>1, <1>7, <1>13, <2>1 DEF PartInv, ReplyPart, FitSeq, Fits, Refused, One
  <2>5. ReadPart(i)'
    BY <1>1, <1>2, <1>7, <1>13, <2>1 DEF PartInv, ReadPart, Message
  <2>6. WatchPart(i)'
    BY <1>1, <1>7, <1>10, <1>11, <1>13, <2>1 DEF PartInv, WatchPart
  <2> QED
    BY <2>2, <2>3, <2>4, <2>5, <2>6 DEF PartInv
<1> QED
  BY <1>14, <1>15, <1>16, <1>17, <1>18 DEF Parts

(* When the sample is due the round before is over: the replicates and the  *)
(* voter rest, and the sink has taken their verdict.                        *)
LEMMA TickOver ==
  ASSUME Nmr, Before, LineInv, Tick, UNCHANGED progVars, Early, Age + 1 = Due
  PROVE  /\ ~Waits /\ taskRuns[Judge] = Round /\ pipe[Verdict] = << >>
         /\ \A i \in Idx : ~Running(Rep(i))
<1>1. /\ InLoop /\ CaughtUp /\ ~Running(Judge)
      /\ \A t \in Tasks :
           /\ state[t] # "fireable" /\ (state[t] = "running" <=> Running(t))
           /\ (Busy(t) => Running(t))
           /\ age[t] \in Nat
           /\ Running(t) => prog[t].text # NoData /\ age[t] < MaxExec[t]
  BY TickEffects
<1>2. /\ NmrLine /\ Sink \in Tasks \ {Judge} /\ Judge \in Tasks /\ Sink \notin VoterTasks
      /\ \A i \in Idx : Rep(i) \in Tasks \ {Sink, Judge}
  BY LineTasks DEF Nmr
<1>3. /\ Faults /\ JudgePart /\ SinkPart
      /\ \A i \in Idx : PartInv(i)
  BY DEF LineInv, Parts
<1>4. Age \in Nat /\ Due \in Nat /\ Cycle \in Nat
  BY TickAge, LineTimes
<1>5. ASSUME NEW i \in Idx, Running(Rep(i))
      PROVE  FALSE
  <2>1. age[Rep(i)] = Age + Cycle + 1 - Due
    BY <1>1, <1>2, <1>3, <1>5 DEF PartInv, WorkPart
  <2>2. age[Rep(i)] < MaxExec[Rep(i)] /\ MaxExec[Rep(i)] \in Nat /\ MaxExec[Rep(i)] <= Cycle
    BY <1>1, <1>2, <1>5, LineTimes
  <2> QED
    BY <1>4, <2>1, <2>2
<1>6. ~Waits
  BY <1>5, TickWaits
<1>7. taskRuns[Judge] = Round
  BY <1>1, <1>2, <1>6 DEF Waits
<1>8. pipe[Verdict] = << >>
  <2> SUFFICES ASSUME pipe[Verdict] # << >>
               PROVE  FALSE
    OBVIOUS
  <2>1. CASE Running(Sink)
    <3>1. age[Sink] >= SinkAge /\ age[Sink] < MaxExec[Sink] /\ age[Sink] \in Nat
      BY <1>1, <1>2, <1>3, <2>1 DEF SinkPart
    <3>2. SinkAge = Age + Cycle + 2 - Due
      BY DEF SinkAge
    <3>3. MaxExec[Sink] \in Nat /\ MaxExec[Sink] + Due <= Cycle + 2 /\ Due >= 1
      BY LineTimes
    <3> QED
      BY <1>4, <3>1, <3>2, <3>3
  <2>2. CASE ~Running(Sink)
    <3>1. InputReady(Sink)
      <4>1. \A x : \A k \in DOMAIN <<x>> : <<x>>[k] = x
        OBVIOUS
      <4> QED
        BY <1>2, <4>1, LinePipes DEF InputReady
    <3>2. PeriodElapsed(Sink)
      BY <1>2, LineTasks, LineTimes DEF PeriodElapsed
    <3>3. Candidates = {}
      BY <1>1, <1>2, <2>2, <3>1, <3>2 DEF CaughtUp
    <3>4. PICK h \in Idx : Healthy(h)
      BY <1>3, TwoHealthy
    <3>5. ~Busy(Sink) /\ ~Busy(Judge) /\ ~Busy(Rep(h))
      BY <1>1, <1>2, <1>5, <2>2
    <3> QED
      BY <1>2, <3>3, <3>5, TickCores
  <2> QED
    BY <2>1, <2>2
<1> QED
  BY <1>5, <1>6, <1>7, <1>8


(* Then the next round begins, with all its questions to be sent.           *)
LEMMA TickDue ==
  ASSUME Nmr, Before, LineInv, Tick, UNCHANGED progVars, ~(Early' <=> Early)
  PROVE  Parts'
<1>1. /\ InLoop
      /\ UNCHANGED <<state, child, taskRuns, armed, monitor, prog, pipe, faulty, outage>>
      /\ ~Running(Judge)
      /\ \A t \in Tasks :
           /\ state[t] # "fireable" /\ (state[t] = "running" <=> Running(t))
           /\ (Busy(t) => Running(t))
           /\ age[t] \in Nat
           /\ Running(t) => /\ prog[t].text # NoData
                            /\ age[t] < MaxExec[t] /\ age'[t] = age[t] + 1
  BY TickEffects
<1>2. /\ NmrLine /\ Source \in Tasks /\ Sink \in Tasks /\ Judge \in Tasks
      /\ \A i \in Idx : Rep(i) \in Tasks /\ i \in Nat /\ i > 0
  BY LineTasks DEF Nmr
<1>3. /\ Faults /\ SourcePart /\ StartPart /\ JudgePart /\ SinkPart
      /\ \A i \in Idx : PartInv(i)
  BY DEF LineInv, Parts
<1>4. /\ taskRuns[Source] > 0 /\ Age <= Cycle /\ Age \in Nat /\ Age' = Age + 1
      /\ (Running(Source) <=> Early)
  BY TickAge DEF Age
<1>5. Cycle' = Cycle /\ Due' = Due /\ Due \in Nat /\ Cycle \in Nat /\ Due <= Cycle
  BY LineTimes DEF Cycle, Due
<1>6. Early /\ ~Early' /\ Age + 1 = Due /\ Age' = Due'
  BY <1>4, <1>5 DEF Early
<1>7. /\ ~Waits /\ taskRuns[Judge] = Round /\ pipe[Verdict] = << >>
      /\ \A i \in Idx : ~Running(Rep(i)) /\ state[Rep(i)] # "running" /\ ~Busy(Rep(i))
  <2>1. /\ ~Waits /\ taskRuns[Judge] = Round /\ pipe[Verdict] = << >>
        /\ \A i \in Idx : ~Running(Rep(i))
    BY <1>6, TickOver
  <2> QED
    BY <1>1, <1>2, <2>1
<1>8. /\ \A i \in Idx : pipe[Ask(i)] = << >> /\ Launched(i)
  BY TickTaken
<1>9. /\ Round' = taskRuns[Source] /\ Round = taskRuns[Source] - 1 /\ Round' = Round + 1
      /\ taskRuns[Source] \in Nat /\ Question' = Question
      /\ \A t \in Tasks : (Running(t)' <=> Running(t)) /\ (Busy(t)' <=> Busy(t))
  BY <1>1, <1>2, <1>6 DEF Round, Question, Message, Running, Busy, Before, TypeOK
<1>10. Round # Round'
  BY <1>9
<1>11. Waits' /\ Unwritten'
  BY <1>1, <1>2, <1>7, <1>10 DEF Waits, Unwritten
<1>12. prog[Source].written = 0 /\ Running(Source)
  BY <1>3, <1>4, <1>6 DEF SourcePart
<1>13. ASSUME NEW i \in Idx
       PROVE  /\ Unsent(i)' /\ ~Taken(i)' /\ ~Launched(i)' /\ ~Answered(i)'
              /\ Pending(i)' /\ ~Collected(i)' /\ Reported(i)' = Reported(i)
              /\ (Healthy(i)' <=> Healthy(i))
  <2>1. Unsent(i)'
    BY <1>1, <1>2, <1>6, <1>9, <1>12 DEF Unsent
  <2>2. ~Collected(i)'
    BY <1>1, <1>7, <1>10 DEF Collected
  <2> QED
    BY <1>1, <2>1, <2>2
    DEF Taken, Launched, Answered, Pending, Reported, Message, Healthy
<1>14. Faults' /\ StartPart'
  BY <1>1, <1>3, <1>4 DEF Faults, StartPart
<1>15. SourcePart'
  BY <1>1, <1>2, <1>3, <1>4, <1>5, <1>6, <1>9 DEF SourcePart
<1>16. JudgePart'
  <2>1. (prog[Judge].text = NoData <=> Len(prog[Judge].read) < Len(In[Judge]))'
    BY <1>1, <1>3 DEF JudgePart
  <2>2. VoteSeq(prog[Judge].read)' /\ (prog'[Judge].text # NoData => Fits(prog[Judge].text)')
    BY <1>1, <1>3 DEF JudgePart, VoteSeq, Fits, Refused
  <2>3. taskRuns'[Judge] \in {Round' - 1, Round'}
    BY <1>1, <1>7, <1>9
  <2>4. state'[Judge] # "running" /\ state'[Judge] # "fireable"
    BY <1>1, <1>2
  <2> QED
    BY <1>1, <1>3, <1>6, <1>11, <2>1, <2>2, <2>3, <2>4 DEF JudgePart
<1>17. SinkPart'
  <2>1. SinkAge' = 1
    <3>1. SinkAge' = Age' - Due' + 1
      BY <1>6 DEF SinkAge
    <3> QED
      BY <1>4, <1>5, <1>6, <3>1
  <2>2. state'[Sink] = "running" => age'[Sink] >= 1
    BY <1>1, <1>2
  <2> QED
    BY <1>1, <1>2, <1>3, <1>7, <1>9, <2>1, <2>2 DEF SinkPart, FitSeq, Fits, Refused
<1>18. ASSUME NEW i \in Idx
       PROVE  PartInv(i)'
  <2>1. PartInv(i) /\ Rep(i) \in Tasks
    BY <1>2, <1>3
  <2>2. AskPart(i)'
    BY <1>1, <1>2, <1>7, <1>8, <1>9 DEF AskPart
  <2>3. WorkPart(i)'
    <3>1. Healthy(i) => taskRuns[Rep(i)] = Round' - 1
      BY <1>1, <1>8, <1>9, <2>1 DEF PartInv, WorkPart, Before, TypeOK
    <3> QED
      BY <1>1, <1>7, <1>9, <1>13, <2>1, <3>1 DEF PartInv, WorkPart, Fits, Refused
  <2>4. ReplyPart(i)'
    <3>1. Collected(i)
      BY <1>1, <1>7 DEF Collected
    <3>2. PICK n : n = Len(pipe[Reply(i)])
      OBVIOUS
    <3>3. n \in Nat /\ n <= 1
      <4>1. n \in Nat
        BY <2>1, <3>2, FitLength DEF PartInv, ReplyPart
      <4>2. n + One(Pending(i)) <= 1 /\ One(Pending(i)) \in {0, 1}
        BY <1>1, <2>1, <3>1, <3>2 DEF PartInv, ReplyPart, One
      <4> QED
        BY <4>1, <4>2
    <3>4. n + One(Pending(i))' <= 2
      BY <1>13, <3>3 DEF One
    <3>5. Healthy(i) => pipe[Reply(i)] = << >>
      BY <1>1, <2>1, <3>1 DEF PartInv, ReplyPart
    <3> QED
      BY <1>1, <1>7, <1>9, <1>13, <2>1, <3>2, <3>4, <3>5
      DEF PartInv, ReplyPart, FitSeq, Fits, Refused
  <2>5. ReadPart(i)'
    BY <1>1, <1>2, <1>9, <1>13, <2>1 DEF PartInv, ReadPart, Message
  <2>6. WatchPart(i)'
    BY <1>1, <1>3, <1>7, <1>11, <1>13, <2>1 DEF PartInv, WatchPart, JudgePart
  <2> QED
    BY <2>2, <2>3, <2>4, <2>5, <2>6 DEF PartInv
<1> QED
  BY <1>14, <1>15, <1>16, <1>17, <1>18 DEF Parts

(* A pass without a tick.                                                   *)
LEMMA LoopTurns ==
  ASSUME Nmr, Before, LineInv,
         CheckActive(0) \/ LogResults \/ PrintResults \/ WriteResults, UNCHANGED progVars
  PROVE  Parts'
<1>1. Judge \in Tasks /\ NmrLine
  BY LineTasks DEF Nmr
<1>2. UNCHANGED <<state, child, taskRuns, prog, pipe, faulty, outage>>
  BY DEF CheckActive, LogResults, PrintResults, WriteResults, taskVars, procVars, progVars, faults
<1>3. \A t \in Tasks : age'[t] = age[t]
  <2>1. CASE CheckActive(0)
    <3> TAKE t \in Tasks
    <3>1. age'[t] = AtMost(age[t] + 0, AgeCap[t]) /\ age[t] <= AgeCap[t]
      BY <2>1 DEF CheckActive, LineInv, InTime
    <3>2. age[t] \in Nat /\ AgeCap[t] \in Nat
      BY TaskAssumption DEF Before, TypeOK
    <3> QED
      BY <3>1, <3>2 DEF AtMost
  <2>2. CASE LogResults \/ PrintResults \/ WriteResults
    BY <2>2 DEF LogResults, PrintResults, WriteResults
  <2> QED
    BY <2>1, <2>2
<1>4. \A t \in Tasks : Still(t)
  BY <1>2, <1>3 DEF Still
<1>5. PollStill /\ PassStill
  BY <1>1 DEF CheckActive, LogResults, PrintResults, WriteResults, voterVars, PollStill,
              PassStill, InLoop
<1> QED
  BY <1>1, <1>2, <1>4, <1>5, AllFrame


(* The cleanup takes the processes away.                                    *)
LEMMA CleanupEffects ==
  ASSUME Nmr, Before, LineInv, NEW t \in Tasks, Cleanup(t), UNCHANGED progVars
  PROVE  Parts'
<1>1. /\ ~InLoop' /\ UNCHANGED <<state, taskRuns, age, prog, pipe, faulty, outage>>
      /\ \A u \in Tasks : Running(u)' => Running(u)
  BY DEF Cleanup, InLoop, taskVars, progVars, faults, Running, Before, TypeOK
<1>2. /\ NmrLine /\ Source \in Tasks /\ Sink \in Tasks /\ Judge \in Tasks
      /\ \A i \in Idx : Rep(i) \in Tasks
  BY LineTasks DEF Nmr
<1>3. /\ Faults /\ SourcePart /\ StartPart /\ JudgePart /\ SinkPart
      /\ \A i \in Idx : PartInv(i)
  BY DEF LineInv, Parts
<1>4. (Early' <=> Early) /\ Question' = Question /\ Age' = Age /\ Due' = Due
  BY <1>1 DEF Early, Question, Message, Age, Due
<1>5. Faults' /\ SourcePart' /\ StartPart'
  BY <1>1, <1>2, <1>3, <1>4 DEF Faults, SourcePart, StartPart
<1>6. JudgePart'
  BY <1>1, <1>2, <1>3 DEF JudgePart, VoteSeq, Fits, Refused
<1>7. SinkPart'
  BY <1>1, <1>2, <1>3 DEF SinkPart, FitSeq, Fits, Refused
<1>8. ASSUME NEW i \in Idx
      PROVE  PartInv(i)'
  <2>1. PartInv(i) /\ Rep(i) \in Tasks
    BY <1>2, <1>3
  <2>2. (Unsent(i)' => Unsent(i)) /\ (Pending(i)' => Pending(i))
        /\ Reported(i)' = Reported(i) /\ (Healthy(i)' <=> Healthy(i))
    BY <1>1, <1>2, <1>4 DEF Unsent, Pending, Reported, Message, Healthy
  <2>3. AskPart(i)'
    BY <1>1, <1>4, <2>1, <2>2 DEF PartInv, AskPart
  <2>4. WorkPart(i)'
    BY <1>1, <2>1, <2>2 DEF PartInv, WorkPart, Fits, Refused
  <2>5. ReplyPart(i)'
    <3>1. PICK n : n = Len(pipe[Reply(i)])
      OBVIOUS
    <3>2. n \in Nat
      BY <2>1, <3>1, FitLength DEF PartInv, ReplyPart
    <3>3. n + One(Pending(i)) <= 2
      BY <2>1, <3>1 DEF PartInv, ReplyPart
    <3>4. n + One(Pending(i))' <= 2
      BY <2>2, <3>2, <3>3 DEF One
    <3> QED
      BY <1>1, <2>1, <2>2, <3>1, <3>4 DEF PartInv, ReplyPart, FitSeq, Fits, Refused
  <2>6. ReadPart(i)'
    BY <1>1, <1>2, <2>1, <2>2 DEF PartInv, ReadPart, Message
  <2>7. WatchPart(i)'
    BY <1>1 DEF WatchPart
  <2> QED
    BY <2>3, <2>4, <2>5, <2>6, <2>7 DEF PartInv
<1> QED
  BY <1>5, <1>6, <1>7, <1>8 DEF Parts


(****************************************************************************)
(* The invariant.                                                           *)
(****************************************************************************)
LEMMA LineStart ==
  ASSUME Nmr, FCInit
  PROVE  LineInv
<1>1. /\ pc = "active" /\ age = AgeCap
      /\ pipe = [p \in PipeNames |-> << >>] /\ prog = [t \in Tasks |-> Fresh]
      /\ faulty \in FaultSets /\ outage \in Outages
      /\ \A t \in Tasks : state[t] = "idle" /\ taskRuns[t] = 0 /\ child[t] = "none"
      /\ armed = [v \in VoterTasks |-> FALSE] /\ monitor = [v \in VoterTasks |-> {}]
  BY DEF FCInit, Init
<1>2. /\ NmrLine /\ Source \in Tasks /\ Sink \in Tasks /\ Judge \in Tasks /\ Judge \in VoterTasks
      /\ \A i \in Idx : Rep(i) \in Tasks /\ i \in Nat /\ i > 0
  BY LineTasks DEF Nmr
<1>3. Fresh.read = << >> /\ Fresh.written = 0 /\ Fresh.text = NoData
      /\ Len(<< >>) = 0 /\ DOMAIN (<< >>) = {}
  BY DEF Fresh
<1>4. Age \in Nat /\ Age > Cycle /\ Age # Due /\ ~Early
  <2>1. Age = AgeCap[Source]
    BY <1>1 DEF Age
  <2> QED
    BY <2>1, LineTimes DEF Early
<1>5. Round = 0 /\ ~Waits /\ ~Unwritten /\ InLoop /\ Faults
  <2>1. outage = << >>
    BY <1>1 DEF Nmr, NmrFaults
  <2>2. Round = 0
    BY <1>1, <1>2, <1>4 DEF Round
  <2> QED
    BY <1>1, <1>2, <2>1, <2>2 DEF Waits, Unwritten, InLoop, Faults, Running
<1>6. SourcePart /\ StartPart
  BY <1>1, <1>2, <1>3, <1>4, LinePipes DEF SourcePart, StartPart, Running
<1>7. SinkPart
  BY <1>1, <1>2, <1>3, <1>5, FitEmpty, LinePipes DEF SinkPart, Running
<1>8. 0 < Len(In[Judge])
  <2>1. Idx # {}
    BY <1>5, TwoHealthy
  <2> QED
    BY <1>2, <2>1, LinePipes, LineTasks
<1>9. JudgePart
  <2>1. prog[Judge] = Fresh
    BY <1>1, <1>2
  <2>2. /\ prog[Judge].written = 0 /\ prog[Judge].text = NoData /\ VoteSeq(prog[Judge].read)
        /\ Len(prog[Judge].read) = 0
    BY <1>3, <2>1, FitEmpty
  <2>3. taskRuns[Judge] = Round
    BY <1>1, <1>2, <1>5
  <2>4. Len(In[Judge]) \in Nat
    BY <1>2, LinePipes, LineTasks
  <2> QED
    BY <1>1, <1>2, <1>4, <1>5, <1>8, <2>2, <2>3, <2>4 DEF JudgePart
<1>10. ASSUME NEW i \in Idx
       PROVE  PartInv(i)
  <2>1. /\ prog[Rep(i)] = Fresh /\ ~Running(Rep(i)) /\ ~Running(Source) /\ ~Running(Judge)
        /\ taskRuns[Rep(i)] = 0 /\ taskRuns[Judge] = 0
        /\ prog[Judge].read = << >> /\ monitor[Judge] = {} /\ ~armed[Judge]
        /\ state[Rep(i)] = "idle" /\ child[Rep(i)] = "none" /\ ~Busy(Rep(i))
    BY <1>1, <1>2, <1>3 DEF Running, Busy
  <2>2. pipe[Ask(i)] = << >> /\ pipe[Reply(i)] = << >>
    BY <1>1, <1>2, LinePipes
  <2>3. ~Unsent(i) /\ Taken(i) /\ Launched(i) /\ Answered(i) /\ ~Pending(i) /\ Collected(i)
    BY <1>5, <2>1, <2>2 DEF Unsent, Taken, Launched, Answered, Pending, Collected
  <2>4. AskPart(i) /\ WorkPart(i)
    BY <1>3, <1>4, <1>5, <2>1, <2>2, <2>3 DEF AskPart, WorkPart
  <2>5. ReplyPart(i)
    BY <1>3, <2>1, <2>2, <2>3, FitEmpty DEF ReplyPart, One
  <2>6. ReadPart(i) /\ WatchPart(i)
    BY <1>3, <1>5, <2>1 DEF ReadPart, WatchPart
  <2> QED
    BY <2>4, <2>5, <2>6 DEF PartInv
<1> QED
  BY <1>5, <1>6, <1>7, <1>9, <1>10, InTimeInit DEF LineInv, Parts

LEMMA LineStep ==
  ASSUME Nmr, Before, LineInv, [FCNext]_fcVars
  PROVE  LineInv'
<1>1. NmrLine /\ Before /\ Judge \in Tasks
  BY LineTasks DEF Nmr
<1>2. InTime'
  BY <1>1, LineTimes, InTimeStep DEF Before, LineInv
<1>3. Parts'
  <2>1. ASSUME NEW t \in Tasks,
               (Monitor(t) /\ UNCHANGED progVars) \/ Launch(t) \/ Program(t) \/ Crash(t)
        PROVE  Parts'
    <3>1. Tasks = {Source, Sink, Judge} \cup {Rep(i) : i \in Idx}
      BY <1>1 DEF NmrLine, Idx
    <3>2. CASE t = Source
      BY <2>1, <3>2, SourceStep
    <3>3. CASE t = Sink
      BY <2>1, <3>3, SinkStep
    <3>4. CASE t = Judge
      BY <2>1, <3>4, JudgeStep
    <3>5. ASSUME NEW i \in Idx, t = Rep(i)
          PROVE  Parts'
      BY <2>1, <3>5, ReplicateStep
    <3> QED
      BY <3>1, <3>2, <3>3, <3>4, <3>5
  <2>2. CASE Tick /\ UNCHANGED progVars
    BY <2>2, TickWithin, TickDue
  <2>3. CASE (CheckActive(0) \/ LogResults \/ PrintResults \/ WriteResults) /\ UNCHANGED progVars
    BY <2>3, LoopTurns
  <2>4. ASSUME NEW t \in Tasks, Cleanup(t), UNCHANGED progVars
        PROVE  Parts'
    BY <2>4, CleanupEffects
  <2>5. ASSUME NEW t \in Tasks, StrayWrite(t) \/ StrayExit(t)
        PROVE  FALSE
    <3>1. orphans[t] > 0
      BY <2>5 DEF StrayWrite, StrayExit, OrphanExit
    <3>2. orphans[t] = 0
      BY DEF LineInv, InTime
    <3> QED
      BY <3>1, <3>2
  <2>6. CASE FCTerminated \/ UNCHANGED fcVars
    <3>1. UNCHANGED fcVars
      BY <2>6 DEF FCTerminated, Terminated, fcVars, progVars
    <3>2. \A u \in Tasks : Still(u)
      BY <3>1 DEF fcVars, vars, taskVars, procVars, Still
    <3>3. PollStill /\ PassStill /\ pipe' = pipe /\ faulty' = faulty /\ outage' = outage
      BY <3>1 DEF fcVars, vars, loopVars, voterVars, faults, PollStill, PassStill, InLoop
    <3> QED
      BY <1>1, <3>2, <3>3, AllFrame
  <2> QED
    BY <2>1, <2>2, <2>3, <2>4, <2>5, <2>6 DEF FCNext, Loop
<1> QED
  BY <1>2, <1>3 DEF LineInv


(****************************************************************************)
(* What the invariant says of the votes.                                    *)
(****************************************************************************)
(* What the other theorems say holds on the way.                            *)
LEMMA BeforeCorrect ==
  ASSUME NmrLine
  PROVE  FCSpec => []Before
<1>1. OneReader
  BY LineReaders
<1>2. FCInit => ProgramInv /\ FedInv
  BY <1>1, ProgramInit, FedInit
<1>3. TypeOK /\ ProgramInv /\ FedInv /\ [FCNext]_fcVars => ProgramInv' /\ FedInv'
  BY <1>1, ProgramStep, FedStep
<1>4. FCSpec => [](TypeOK /\ OwnershipInv /\ AccountInv)
  BY ImplementsScheduler, TypeCorrect, OwnershipCorrect, AccountCorrect, PTL
<1>5. TypeOK /\ OwnershipInv /\ AccountInv /\ ProgramInv /\ FedInv => Before
  BY DEF Before
<1> QED
  BY <1>2, <1>3, <1>4, <1>5, PTL DEF FCSpec

(* Theorem: the rounds of the NMR build keep in step (LineInv), whoever of  *)
(* its replicates fails, as long as two do not.                             *)
THEOREM LineCorrect ==
  ASSUME Nmr
  PROVE  FCSpec => []LineInv
<1>1. FCInit => LineInv
  BY LineStart
<1>2. Before /\ LineInv /\ [FCNext]_fcVars => LineInv'
  BY LineStep
<1>3. FCSpec => []Before
  BY BeforeCorrect DEF Nmr
<1> QED
  BY <1>1, <1>2, <1>3, PTL DEF FCSpec

(* Theorem: a vote compares answers to one sample, one of each healthy      *)
(* replicate (what majority_voter takes for granted of its three reads).    *)
THEOREM SameRound ==
  ASSUME Nmr
  PROVE  FCSpec => []VoteSameRound
<1>1. ASSUME LineInv
      PROVE  VoteSameRound
  <2> SUFFICES ASSUME NEW i \in DOMAIN prog[Judge].read, NEW j \in DOMAIN prog[Judge].read,
                      Healthy(i), Healthy(j)
               PROVE  /\ prog[Judge].read[i] # NoData
                      /\ prog[Judge].read[i].round = prog[Judge].read[j].round
    BY LineTasks DEF Nmr, VoteSameRound, Healthy, Rep
  <2>1. JudgePart /\ \A k \in Idx : ReadPart(k)
    BY <1>1 DEF LineInv, Parts, PartInv
  <2>2. \A k \in DOMAIN prog[Judge].read : k \in Idx
    <3>1. PICK q, n : q = prog[Judge].read /\ n = Len(In[Judge])
      OBVIOUS
    <3>2. VoteSeq(q) /\ Len(q) <= n
      BY <2>1, <3>1 DEF JudgePart
    <3>3. Idx = 1 .. n /\ n \in Nat
      BY <3>1, LineTasks, LinePipes DEF Nmr
    <3>4. NoData = NoData
      OBVIOUS
    <3>5. Len(q) \in Nat /\ DOMAIN q = 1 .. Len(q)
      BY <3>2, <3>4, VoteSeqAppend
    <3> QED
      BY <3>1, <3>2, <3>3, <3>5
  <2>3. /\ prog[Judge].read[i] = Message(Rep(i), "good", taskRuns[Judge])
        /\ prog[Judge].read[j] = Message(Rep(j), "good", taskRuns[Judge])
    BY <2>1, <2>2 DEF ReadPart
  <2> QED
    BY <2>3 DEF Message, NoData
<1> QED
  BY <1>1, LineCorrect, PTL

(* Theorem: the voter keeps pace with every healthy replicate: none is      *)
(* launched again before the vote on its last answer (get_voter_fireable).  *)
THEOREM KeepsPace ==
  ASSUME Nmr
  PROVE  FCSpec => []VoteKeepsPace
<1>1. ASSUME LineInv
      PROVE  VoteKeepsPace
  <2>1. \A i \in Idx : ReadPart(i)
    BY <1>1 DEF LineInv, Parts, PartInv
  <2> QED
    BY <2>1, LineTasks DEF Nmr, VoteKeepsPace, ReadPart, Healthy, Idx, Rep
<1> QED
  BY <1>1, LineCorrect, PTL

(* Theorem: no pipe of the NMR build holds more than two texts, the answers *)
(* that crashed replicates left behind included.                            *)
THEOREM PipesStayShort ==
  ASSUME Nmr
  PROVE  FCSpec => []PipesShort
<1>1. ASSUME LineInv
      PROVE  PipesShort
  <2>1. SinkPart /\ \A i \in Idx : AskPart(i) /\ ReplyPart(i)
    BY <1>1 DEF LineInv, Parts, PartInv
  <2>2. NmrLine /\ PipeNames = {Verdict} \cup {Ask(i) : i \in Idx} \cup {Reply(i) : i \in Idx}
    BY DEF Nmr, NmrLine, Idx
  <2>3. Len(pipe[Verdict]) <= 2
    <3>1. PICK n : n = Len(pipe[Verdict])
      OBVIOUS
    <3>2. n \in Nat /\ n <= 1
      BY <2>1, <3>1, FitLength DEF SinkPart
    <3> QED
      BY <3>1, <3>2
  <2>4. ASSUME NEW i \in Idx
        PROVE  Len(pipe[Reply(i)]) <= 2
    <3>1. PICK n, o : n = Len(pipe[Reply(i)]) /\ o = One(Pending(i))
      OBVIOUS
    <3>2. n \in Nat /\ o \in Nat /\ n + o <= 2
      BY <2>1, <3>1, FitLength DEF ReplyPart, One
    <3> QED
      BY <3>1, <3>2
  <2>5. ASSUME NEW i \in Idx
        PROVE  Len(pipe[Ask(i)]) <= 2
    <3>1. pipe[Ask(i)] \in {<< >>, <<Question>>}
      BY <2>1 DEF AskPart
    <3>2. CASE pipe[Ask(i)] = << >>
      BY <3>2
    <3>3. CASE pipe[Ask(i)] = <<Question>>
      <4>1. PICK m : m = Question
        OBVIOUS
      <4> QED
        BY <3>3, <4>1
    <3> QED
      BY <3>1, <3>2, <3>3
  <2> QED
    BY <2>2, <2>3, <2>4, <2>5 DEF PipesShort
<1> QED
  BY <1>1, LineCorrect, PTL


(****************************************************************************)
(* One fault is masked.                                                     *)
(****************************************************************************)
(* At most one replicate fails in a run.                                    *)
OneFault == \A F \in FaultSets : \A i, j \in Idx : Rep(i) \in F /\ Rep(j) \in F => i = j

(* Two equal answers outvote the others, however many there are.            *)
LEMMA VoteAgrees ==
  ASSUME NEW S, NEW read \in Seq(S), NEW i \in DOMAIN read, NEW j \in DOMAIN read, i # j,
         read[i] # NoData, read[j] # NoData, Same(read[i], read[j])
  PROVE  \E k, l \in DOMAIN read : k # l /\ Same(read[k], read[l]) /\ Vote(read) = read[k]
<1> DEFINE valid == {x \in DOMAIN read : read[x] # NoData}
           agreed == {x \in valid : \E y \in valid : x < y /\ Same(read[x], read[y])}
           k == CHOOSE x \in agreed : \A y \in agreed : x <= y
<1>1. i \in Nat /\ j \in Nat /\ agreed \in SUBSET Nat /\ valid # {}
  OBVIOUS
<1>2. agreed # {}
  <2>1. Same(read[j], read[i])
    BY DEF Same
  <2>2. i < j \/ j < i
    BY <1>1
  <2> QED
    BY <2>1, <2>2
<1>3. k \in agreed
  <2> HIDE DEF agreed
  <2> QED
    BY <1>1, <1>2, LeastNumber
<1>4. Vote(read) = read[k]
  BY <1>1, <1>2 DEF Vote
<1>5. PICK l \in valid : k < l /\ Same(read[k], read[l]) /\ k \in valid
  <2> HIDE DEF k, valid
  <2> QED
    BY <1>3
<1>6. k \in Nat /\ l \in Nat
  BY <1>1, <1>3
<1> HIDE DEF k
<1> QED
  BY <1>4, <1>5, <1>6

(* The steps of the other tasks neither vote nor touch the verdict.         *)
LEMMA Elsewhere ==
  ASSUME Nmr, Before, LineInv, NEW t \in Tasks \ {Judge, Sink},
         Launch(t) \/ Program(t) \/ Crash(t)
  PROVE  /\ Still(Judge) /\ Still(Sink) /\ pipe'[Verdict] = pipe[Verdict]
         /\ actuated' = actuated /\ (InLoop' <=> InLoop)
<1>1. /\ NmrLine /\ Judge \in Tasks \ {t} /\ Sink \in Tasks \ {t} /\ Verdict \in PipeNames
      /\ (t = Source \/ \E i \in Idx : t = Rep(i))
  <2>1. Tasks = {Source, Sink, Judge} \cup {Rep(i) : i \in Idx}
    BY DEF Nmr, NmrLine, Idx
  <2> QED
    BY <2>1, LineTasks, LinePipes DEF Nmr
<1>2. CASE Launch(t)
  BY <1>1, <1>2, LaunchEffects DEF LineInv, Before, InLoop, Launch
<1>3. CASE Finish(t) \/ Crash(t)
  <2>1. actuated' = actuated
    BY <1>3 DEF Finish, Crash, Drive
  <2> QED
    BY <1>1, <1>3, <2>1, EndEffects, LoopStays DEF Before
<1>4. CASE Sample(t) \/ ReadInput(t) \/ WriteOutput(t)
  <2>1. Still(Judge) /\ Still(Sink) /\ (InLoop' <=> InLoop)
    BY <1>1, <1>4, ProgramEffects, LoopStays DEF Before
  <2>2. actuated' = actuated
    BY <1>4 DEF Sample, ReadInput, WriteOutput
  <2>3. CASE Sample(t)
    BY <2>1, <2>2, <2>3 DEF Sample
  <2>4. CASE ReadInput(t)
    <3>1. PICK n : n \in DOMAIN In[t] /\ \A q \in PipeNames \ {In[t][n]} : pipe'[q] = pipe[q]
      BY <2>4, ReadEffects DEF Before
    <3>2. \A x : DOMAIN <<x>> = {1} /\ <<x>>[1] = x /\ DOMAIN (<< >>) = {}
      OBVIOUS
    <3>3. In[t][n] # Verdict
      BY <1>1, <3>1, <3>2, LinePipes
    <3> QED
      BY <1>1, <2>1, <2>2, <3>1, <3>3
  <2>5. CASE WriteOutput(t)
    <3>1. PICK n : /\ n \in Nat \ {0} /\ n <= Len(Out[t])
                   /\ pipe'[Verdict] = IF Verdict = Out[t][n]
                                       THEN Append(pipe[Verdict], prog[t].text) ELSE pipe[Verdict]
      BY <1>1, <2>5, OutputEffects DEF Before
    <3>2. n \in DOMAIN Out[t]
      <4>1. Out[t] \in Seq(PipeNames)
        BY ProgramAssumption
      <4> QED
        BY <3>1, <4>1
    <3>3. \A x : DOMAIN <<x>> = {1} /\ <<x>>[1] = x
      OBVIOUS
    <3>4. Out[t][n] # Verdict
      <4>1. CASE t = Source
        BY <1>1, <3>2, <4>1, LinePipes DEF Ask
      <4>2. CASE t # Source
        BY <1>1, <3>2, <3>3, <4>2, LinePipes
      <4> QED
        BY <4>1, <4>2
    <3> QED
      BY <2>1, <2>2, <3>1, <3>4
  <2> QED
    BY <1>4, <2>3, <2>4, <2>5
<1> QED
  BY <1>2, <1>3, <1>4 DEF Program

(* The sink finds the verdict and takes it.                                 *)
LEMMA SinkTakes ==
  ASSUME Nmr, Before, LineInv, ReadInput(Sink)
  PROVE  /\ pipe[Verdict] # << >> /\ pipe'[Verdict] = << >>
         /\ prog[Sink].text = NoData /\ IsText(Head(pipe[Verdict])) /\ Fits(Head(pipe[Verdict]))
         /\ prog'[Sink].text \in Processed(Sink, Head(pipe[Verdict]))
<1>1. /\ NmrLine /\ Sink \in Tasks /\ Sink \in Fed /\ Sink \notin VoterTasks /\ Sink # Source
      /\ In[Sink] = <<Verdict>> /\ SinkPart /\ FedOne(Sink) /\ ReadSeq(prog[Sink].read)
  BY LineTasks, LinePipes DEF Nmr, LineInv, Parts, Before, FedInv, ProgramInv
<1>2. \A x : DOMAIN <<x>> = {1} /\ <<x>>[1] = x /\ Len(<<x>>) = 1
  OBVIOUS
<1>3. PICK n : n = Len(prog[Sink].read)
  OBVIOUS
<1>4. PICK p \in PipeNames :
        /\ pipe'[p] = AfterRead(pipe[p], ReadCap)
        /\ n + 1 \in DOMAIN In[Sink]
        /\ p = In[Sink][n + 1]
        /\ prog'[Sink].read = Append(prog[Sink].read,
                                     IF pipe[p] = << >> THEN NoData ELSE Head(pipe[p]))
        /\ IF n + 1 = Len(In[Sink])
           THEN prog'[Sink].text \in Outcomes(Sink, prog'[Sink].read)
           ELSE prog'[Sink].text = prog[Sink].text
  BY <1>1, <1>3, ReadEffects DEF Before
<1>5. n + 1 = 1 /\ p = Verdict /\ prog[Sink].read = << >>
  <2>1. n + 1 = 1 /\ p = Verdict
    BY <1>1, <1>2, <1>4
  <2>2. PICK r, S : r = prog[Sink].read /\ r \in Seq(S)
    BY <1>1 DEF ReadSeq
  <2>3. n = Len(r) /\ Len(r) \in Nat
    BY <1>3, <2>2
  <2>4. Len(r) = 0
    BY <2>1, <2>3
  <2>5. r = << >>
    BY <2>2, <2>4
  <2> QED
    BY <2>1, <2>2, <2>5
<1>6. pipe[Verdict] # << >> /\ prog[Sink].text = NoData
  <2>1. Running(Sink)
    BY DEF ReadInput
  <2>2. pipe[In[Sink][1]] # << >> /\ prog[Sink].text = NoData
    BY <1>1, <1>5, <2>1 DEF FedOne
  <2> QED
    BY <1>1, <1>2, <2>2
<1>7. PICK m : m = Head(pipe[Verdict]) /\ IsText(m) /\ Fits(m)
  BY <1>1, <1>6, FitLength DEF SinkPart
<1>8. prog'[Sink].read[1] = m
  <2>1. Append(<< >>, m)[1] = m
    OBVIOUS
  <2> QED
    BY <1>4, <1>5, <1>6, <1>7, <2>1
<1>9. prog'[Sink].text \in Processed(Sink, m)
  BY <1>1, <1>2, <1>4, <1>5, <1>8 DEF Outcomes
<1>10. pipe'[Verdict] = << >>
  <2>1. PICK n2 : n2 = Len(pipe[Verdict])
    OBVIOUS
  <2>2. FitSeq(pipe[Verdict]) /\ n2 \in Nat /\ n2 <= 1
    BY <1>1, <2>1, FitLength DEF SinkPart
  <2>3. n2 <= 2
    BY <2>2
  <2> QED
    BY <1>1, <1>4, <1>5, <2>1, <2>2, <2>3, FitBytes
<1> QED
  BY <1>6, <1>7, <1>9, <1>10

(* The voter votes when it has read an answer of each.                      *)
LEMMA JudgeTakes ==
  ASSUME Nmr, Before, LineInv, ReadInput(Judge)
  PROVE  /\ pipe'[Verdict] = pipe[Verdict] /\ prog[Judge].text = NoData
         /\ \/ prog'[Judge].text = NoData
            \/ prog'[Judge].text = Vote(prog'[Judge].read)
<1>1. /\ NmrLine /\ Judge \in Tasks /\ Judge \in VoterTasks /\ Judge # Source /\ JudgePart
      /\ Verdict \in PipeNames /\ DOMAIN In[Judge] = Idx /\ Idx = 1 .. Len(In[Judge])
      /\ Len(In[Judge]) \in Nat
  BY LineTasks, LinePipes DEF Nmr, LineInv, Parts
<1>2. PICK n, p :
        /\ n = Len(prog[Judge].read) /\ p \in PipeNames
        /\ \A q \in PipeNames \ {p} : pipe'[q] = pipe[q]
        /\ n + 1 \in DOMAIN In[Judge]
        /\ p = In[Judge][n + 1]
        /\ IF n + 1 = Len(In[Judge])
           THEN prog'[Judge].text \in Outcomes(Judge, prog'[Judge].read)
           ELSE prog'[Judge].text = prog[Judge].text
  BY <1>1, ReadEffects DEF Before
<1>3. pipe'[Verdict] = pipe[Verdict]
  BY <1>1, <1>2, LinePipes DEF Reply
<1>4. prog[Judge].text = NoData
  <2>1. VoteSeq(prog[Judge].read) /\ NoData = NoData
    BY <1>1 DEF JudgePart
  <2>2. n \in Nat
    BY <1>2, <2>1, VoteSeqAppend
  <2>3. n < Len(In[Judge])
    BY <1>1, <1>2, <2>2
  <2> QED
    BY <1>1, <1>2, <2>3 DEF JudgePart
<1> QED
  BY <1>1, <1>2, <1>3, <1>4 DEF Outcomes


(* The verdict of a vote is the good text: it had two votes at least, and   *)
(* one of them is a healthy replicate's.                                    *)
MaskInv ==
  /\ prog[Judge].text # NoData => prog[Judge].text.value = "good"
  /\ pipe[Verdict] # << >> => Head(pipe[Verdict]).value = "good"
  /\ ~Refused(prog[Sink].text)

(* What a healthy replicate has told the voter.                             *)
LEMMA HealthyRead ==
  ASSUME Nmr, LineInv, prog[Judge].text # NoData, NEW i \in Idx, Healthy(i)
  PROVE  /\ VoteSeq(prog[Judge].read) /\ DOMAIN prog[Judge].read = Idx
         /\ prog[Judge].read[i] = Message(Rep(i), "good", taskRuns[Judge])
<1>1. JudgePart /\ ReadPart(i)
  BY DEF LineInv, Parts, PartInv
<1>2. PICK q, n : q = prog[Judge].read /\ n = Len(In[Judge])
  OBVIOUS
<1>3. VoteSeq(q) /\ Len(q) <= n /\ ~(Len(q) < n) /\ NoData = NoData
  BY <1>1, <1>2 DEF JudgePart
<1>4. Idx = 1 .. n /\ n \in Nat
  BY <1>2, LineTasks, LinePipes DEF Nmr
<1>5. Len(q) \in Nat /\ DOMAIN q = 1 .. Len(q)
  BY <1>3, VoteSeqAppend
<1>6. DOMAIN q = Idx
  <2>1. PICK l : l = Len(q)
    OBVIOUS
  <2>2. l \in Nat /\ l <= n /\ ~(l < n)
    BY <1>3, <1>5, <2>1
  <2>3. l = n
    BY <1>4, <2>2
  <2> QED
    BY <1>4, <1>5, <2>1, <2>3
<1> QED
  BY <1>1, <1>2, <1>3, <1>6 DEF ReadPart

LEMMA GoodVote ==
  ASSUME Nmr, OneFault, LineInv, prog[Judge].text # NoData
  PROVE  Vote(prog[Judge].read).value = "good"
<1>1. PICK q, S : q = prog[Judge].read /\ q \in Seq(S)
  <2>1. VoteSeq(prog[Judge].read)
    BY DEF LineInv, Parts, JudgePart
  <2> QED
    BY <2>1 DEF VoteSeq
<1>2. faulty \in FaultSets
  BY DEF LineInv, Parts, Faults
<1>3. PICK i, j \in Idx : i # j /\ Healthy(i) /\ Healthy(j)
  BY TwoHealthy DEF LineInv, Parts
<1>4. \A k \in Idx : Healthy(k) =>
        /\ DOMAIN q = Idx
        /\ q[k].value = "good" /\ q[k].len = Length[Judge] /\ q[k] # NoData
  <2> SUFFICES ASSUME NEW k \in Idx, Healthy(k)
               PROVE  /\ DOMAIN q = Idx
                      /\ q[k].value = "good" /\ q[k].len = Length[Judge] /\ q[k] # NoData
    OBVIOUS
  <2>1. DOMAIN q = Idx /\ q[k] = Message(Rep(k), "good", taskRuns[Judge])
    BY <1>1, HealthyRead
  <2>2. Length[Rep(k)] = Length[Judge]
    BY LineLengths DEF Nmr
  <2> QED
    BY <2>1, <2>2 DEF Message, NoData
<1>5. Same(q[i], q[j]) /\ q[i] # NoData /\ q[j] # NoData /\ i \in DOMAIN q /\ j \in DOMAIN q
  BY <1>3, <1>4 DEF Same
<1>6. PICK k, l \in DOMAIN q : k # l /\ Same(q[k], q[l]) /\ Vote(q) = q[k]
  BY <1>1, <1>3, <1>5, VoteAgrees
<1>7. k \in Idx /\ l \in Idx
  BY <1>3, <1>4
<1>8. Healthy(k) \/ Healthy(l)
  BY <1>2, <1>6, <1>7 DEF OneFault, Healthy
<1>9. q[k].value = "good"
  BY <1>4, <1>6, <1>7, <1>8 DEF Same
<1> QED
  BY <1>1, <1>6, <1>9

(* The sink accepts the good text.                                          *)
LEMMA GoodTaken ==
  ASSUME Nmr, LineInv, NEW m, IsText(m), Fits(m), m.value = "good"
  PROVE  Processed(Sink, m) = {Message(Sink, "good", m.round)}
<1>1. /\ NmrLine /\ Sink \in Tasks /\ Judge \in Tasks /\ In[Sink] = <<Verdict>>
      /\ Out[Judge] = <<Verdict>> /\ \A i \in Idx : Sink # Rep(i)
  BY LineTasks, LinePipes DEF Nmr
<1>2. \A x : DOMAIN <<x>> = {1} /\ <<x>>[1] = x
  OBVIOUS
<1>3. 1 \in DOMAIN Out[Judge] /\ Out[Judge][1] = In[Sink][1] /\ m.len = Length[Judge]
  BY <1>1, <1>2 DEF Fits
<1>4. Expected(Sink, m)
  BY <1>1, <1>3 DEF Expected
<1>5. m # NoData
  BY DEF NoData
<1>6. Values(Sink) = {"good"}
  BY <1>1, NoneProne
<1> QED
  BY <1>4, <1>5, <1>6 DEF Processed

LEMMA MaskStart ==
  ASSUME Nmr, FCInit
  PROVE  MaskInv
<1>1. pipe = [p \in PipeNames |-> << >>] /\ prog = [t \in Tasks |-> Fresh]
  BY DEF FCInit
<1>2. Judge \in Tasks /\ Sink \in Tasks /\ Verdict \in PipeNames
  BY LineTasks, LinePipes DEF Nmr
<1> QED
  BY <1>1, <1>2 DEF MaskInv, Fresh, Refused, NoData

LEMMA MaskStep ==
  ASSUME Nmr, OneFault, Before, LineInv, LineInv', MaskInv, [FCNext]_fcVars
  PROVE  MaskInv'
<1>1. /\ NmrLine /\ Judge \in Tasks /\ Sink \in Tasks /\ Sink # Judge
      /\ Verdict \in PipeNames /\ Out[Judge] = <<Verdict>>
      /\ In[Sink] # << >> /\ In[Judge] # << >> /\ Out[Sink] = << >>
  <2>1. Judge \in Tasks \ {Source} /\ Sink \in Tasks \ {Source}
    BY LineTasks DEF Nmr
  <2> QED
    BY <2>1, ProgramAssumption, LineTasks, LinePipes DEF Nmr
<1>2. ASSUME prog'[Judge] = prog[Judge] \/ prog'[Judge] = Fresh,
             prog'[Sink] = prog[Sink] \/ prog'[Sink] = Fresh,
             pipe'[Verdict] = pipe[Verdict]
      PROVE  MaskInv'
  <2>1. Fresh.text = NoData /\ ~Refused(NoData)
    BY DEF Fresh, Refused, NoData
  <2> QED
    BY <1>2, <2>1 DEF MaskInv
<1>3. CASE Loop \/ FCTerminated \/ UNCHANGED fcVars
  BY <1>2, <1>3 DEF Loop, FCTerminated, progVars, fcVars
<1>4. ASSUME NEW t \in Tasks \ {Judge, Sink}, Launch(t) \/ Program(t) \/ Crash(t)
      PROVE  MaskInv'
  BY <1>2, <1>4, Elsewhere DEF Still
<1>5. ASSUME NEW t \in {Judge, Sink}, Launch(t)
      PROVE  MaskInv'
  BY <1>1, <1>2, <1>5, LaunchEffects DEF LineInv, Before, Still
<1>6. ASSUME NEW t \in {Judge, Sink}, Finish(t) \/ Crash(t)
      PROVE  MaskInv'
  BY <1>1, <1>2, <1>6, EndEffects DEF Before, Still
<1>7. ASSUME NEW t \in {Judge, Sink}, Sample(t)
      PROVE  FALSE
  BY <1>1, <1>7 DEF Sample
<1>8. CASE WriteOutput(Judge)
  <2>1. PICK m, q : m = prog[Judge].text /\ q = pipe[Verdict]
    OBVIOUS
  <2>2. /\ m # NoData /\ IsText(m) /\ prog'[Judge].text = m /\ prog'[Sink] = prog[Sink]
        /\ (pipe'[Verdict] = Append(q, m) \/ pipe'[Verdict] = q)
    BY <1>1, <1>8, <2>1, OutputEffects, ProgramEffects DEF Before, Still
  <2>3. FitSeq(q) /\ Fits(m)
    BY <2>1, <2>2 DEF LineInv, Parts, SinkPart, JudgePart
  <2>4. Head(Append(q, m)) = IF q = << >> THEN m ELSE Head(q)
    <3>1. PICK S : q \in Seq(S)
      BY <2>3 DEF FitSeq
    <3>2. q \in Seq(S \cup {m})
      BY <3>1
    <3>3. q # << >> => Len(q) > 0
      BY <3>2
    <3>4. Head(Append(<< >>, m)) = m
      OBVIOUS
    <3> QED
      BY <3>2, <3>3, <3>4
  <2> QED
    BY <2>1, <2>2, <2>4 DEF MaskInv
<1>9. CASE ReadInput(Judge)
  <2>1. /\ pipe'[Verdict] = pipe[Verdict] /\ prog'[Sink] = prog[Sink]
        /\ (prog'[Judge].text = NoData \/ prog'[Judge].text = Vote(prog'[Judge].read))
    BY <1>1, <1>9, JudgeTakes, ProgramEffects DEF Before, Still
  <2>2. prog'[Judge].text # NoData => Vote(prog'[Judge].read).value = "good"
    <3>1. (LineInv /\ prog[Judge].text # NoData => Vote(prog[Judge].read).value = "good")'
      BY GoodVote, PTL
    <3> QED
      BY <3>1
  <2> QED
    BY <2>1, <2>2 DEF MaskInv
<1>10. CASE ReadInput(Sink)
  <2>1. PICK m : m = Head(pipe[Verdict])
    OBVIOUS
  <2>2. /\ pipe[Verdict] # << >> /\ pipe'[Verdict] = << >> /\ IsText(m) /\ Fits(m)
        /\ prog'[Sink].text \in Processed(Sink, m) /\ prog'[Judge] = prog[Judge]
    BY <1>1, <1>10, <2>1, SinkTakes, ProgramEffects DEF Before, Still
  <2>3. prog'[Sink].text = Message(Sink, "good", m.round)
    BY <2>1, <2>2, GoodTaken DEF MaskInv
  <2> QED
    BY <2>2, <2>3 DEF MaskInv, Message, Refused
<1>11. CASE WriteOutput(Sink)
  <2>1. prog[Sink].written \in Nat /\ prog[Sink].written + 1 <= Len(Out[Sink])
    BY <1>1, <1>11, OutputEffects DEF Before
  <2>2. Len(<< >>) = 0
    OBVIOUS
  <2> QED
    BY <1>1, <2>1, <2>2
<1>12. ASSUME NEW t \in Tasks, StrayWrite(t) \/ StrayExit(t)
       PROVE  FALSE
  <2>1. orphans[t] > 0
    BY <1>12 DEF StrayWrite, StrayExit, OrphanExit
  <2>2. orphans[t] = 0
    BY DEF LineInv, InTime
  <2> QED
    BY <2>1, <2>2
<1> QED
  BY <1>3, <1>4, <1>5, <1>6, <1>7, <1>8, <1>9, <1>10, <1>11, <1>12 DEF FCNext, Program


(* Theorem: a fault is masked where it is.  When one replicate at most      *)
(* fails, none of the other programs ever refuses its input: the majority   *)
(* is the text process_data and control_actuators expect.                   *)
THEOREM FaultMasked ==
  ASSUME Nmr, OneFault
  PROVE  FCSpec => []FaultContained
<1>1. FCInit => MaskInv
  BY MaskStart
<1>2. Before /\ LineInv /\ LineInv' /\ MaskInv /\ [FCNext]_fcVars => MaskInv'
  BY MaskStep
<1>3. FCSpec => []LineInv
  BY LineCorrect
<1>4. FCSpec => []Before
  BY BeforeCorrect DEF Nmr
<1>5. ASSUME LineInv, MaskInv
      PROVE  FaultContained
  <2>1. ~Refused(NoData)
    BY DEF Refused, NoData
  <2>2. ~Failed(Source)
    <3>1. prog[Source].text \in {NoData, Question}
      BY <1>5 DEF LineInv, Parts, SourcePart
    <3>2. ~Refused(Question)
      BY DEF Refused, Question, Message
    <3> QED
      BY <2>1, <3>1, <3>2 DEF Failed
  <2>3. ~Failed(Judge)
    BY <1>5, <2>1 DEF LineInv, Parts, JudgePart, Fits, Failed
  <2>4. ~Failed(Sink)
    BY <1>5 DEF MaskInv, Failed
  <2>5. \A i \in Idx : ~Failed(Rep(i))
    BY <1>5, <2>1 DEF LineInv, Parts, PartInv, WorkPart, Fits, Failed
  <2>6. Tasks = {Source, Sink, Judge} \cup {Rep(i) : i \in Idx}
    BY DEF Nmr, NmrLine, Idx
  <2> QED
    BY <2>2, <2>3, <2>4, <2>5, <2>6 DEF FaultContained
<1> QED
  BY <1>1, <1>2, <1>3, <1>4, <1>5, PTL DEF FCSpec


(****************************************************************************)
(* Without failures the rounds are those of the abstract voter.             *)
(****************************************************************************)
NoFault == FaultSets = {{}}

(* A healthy replicate is launched while the voter awaits it.               *)
LEMMA HealthyApart ==
  ASSUME Nmr, Before, LineInv, NEW i \in Idx, Healthy(i), Launch(Rep(i))
  PROVE  state[Judge] # "running" /\ ~armed[Judge] /\ i \notin monitor[Judge]
<1>1. /\ Rep(i) \in Tasks /\ Rep(i) \in Fed /\ In[Rep(i)] = <<Ask(i)>>
      /\ WatchPart(i) /\ JudgePart
  BY LineTasks, LinePipes DEF Nmr, LineInv, Parts, PartInv
<1>2. InLoop /\ state[Rep(i)] = "fireable" /\ Busy(Rep(i))
  BY <1>1, LaunchEffects DEF Before, LineInv, InLoop, Busy
<1>3. ~Launched(i)
  <2>1. pipe[In[Rep(i)][1]] # << >>
    BY <1>1, <1>2 DEF Before, FedInv, FedOne
  <2>2. <<Ask(i)>>[1] = Ask(i)
    OBVIOUS
  <2> QED
    BY <1>1, <1>2, <2>1, <2>2 DEF Launched
<1>4. Waits
  BY <1>1, <1>2 DEF WatchPart
<1> QED
  BY <1>1, <1>2, <1>3, <1>4 DEF WatchPart, JudgePart, Waits

(* No other step makes a task run.                                          *)
LEMMA OnlyLaunches ==
  ASSUME TypeOK, [FCNext]_fcVars, NEW u \in Tasks, state[u] # "running", state'[u] = "running"
  PROVE  Launch(u)
<1>1. ASSUME UNCHANGED state
      PROVE  FALSE
  BY <1>1
<1>2. ASSUME NEW t \in Tasks, Launch(t)
      PROVE  Launch(u)
  <2>1. state' = [state EXCEPT ![t] = "running"]
    BY <1>2 DEF Launch, RunTask
  <2> QED
    BY <1>2, <2>1 DEF TypeOK
<1>3. ASSUME NEW t \in Tasks,
             Program(t) \/ Crash(t) \/ StrayWrite(t) \/ StrayExit(t) \/ Cleanup(t)
      PROVE  FALSE
  BY <1>1, <1>3 DEF Program, Sample, ReadInput, WriteOutput, Finish, Crash, Exit, StrayWrite,
                    StrayExit, OrphanExit, Cleanup, schedVars, taskVars
<1>4. ASSUME NEW t \in Tasks, Monitor(t)
      PROVE  FALSE
  <2>1. CASE MonitorReap(t)
    BY <2>1 DEF MonitorReap, HandleTaskCompletion, TypeOK
  <2>2. CASE MonitorStuck(t)
    BY <2>2 DEF MonitorStuck, HandleTaskCompletion, TypeOK
  <2>3. CASE MonitorWait(t)
    BY <1>1, <2>3 DEF MonitorWait, taskVars
  <2>4. CASE MonitorDispatch(t, InputReady(t))
    BY <2>4 DEF MonitorDispatch, TypeOK
  <2> QED
    BY <1>4, <2>1, <2>2, <2>3, <2>4 DEF Monitor
<1>5. CASE CheckActive(0) \/ Tick \/ LogResults \/ PrintResults \/ WriteResults
  BY <1>1, <1>5 DEF CheckActive, Tick, LogResults, PrintResults, WriteResults, taskVars
<1>6. CASE FCTerminated \/ UNCHANGED fcVars
  BY <1>1, <1>6 DEF FCTerminated, Terminated, fcVars, vars, taskVars
<1> QED
  BY <1>2, <1>3, <1>4, <1>5, <1>6 DEF FCNext, Loop

(* Theorem: without failures every replicate is launched in a round of its  *)
(* own, while its voter neither runs nor holds its last run: what the       *)
(* scheduler leaves to the period of A and to the pipes.                    *)
THEOREM RoundsKeepApart ==
  ASSUME Nmr, NoFault
  PROVE  FCSpec => RoundsApart
<1>1. ASSUME Before, LineInv, [FCNext]_fcVars
      PROVE  [LaunchesApart]_vars
  <2> SUFFICES ASSUME NEW i \in Idx,
                      state[Rep(i)] # "running", state'[Rep(i)] = "running"
               PROVE  state[Judge] # "running" /\ ~armed[Judge] /\ i \notin monitor[Judge]
    BY LineTasks DEF Nmr, LaunchesApart, Idx, Rep
  <2>1. Rep(i) \in Tasks
    BY LineTasks DEF Nmr
  <2>2. Launch(Rep(i))
    BY <1>1, <2>1, OnlyLaunches DEF Before
  <2>3. Healthy(i)
    BY <1>1 DEF LineInv, Parts, Faults, NoFault, Healthy
  <2> QED
    BY <1>1, <2>2, <2>3, HealthyApart
<1>2. FCSpec => []LineInv
  BY LineCorrect
<1>3. FCSpec => []Before
  BY BeforeCorrect DEF Nmr
<1> QED
  BY <1>1, <1>2, <1>3, PTL DEF FCSpec, RoundsApart

(* Theorem: without failures the voter of the NMR build keeps the rounds of *)
(* VotingRound, from the scheduler and the programs alone.                  *)
THEOREM NmrKeepsRounds ==
  ASSUME Nmr, NoFault
  PROVE  FCSpec => RoundRefinement
<1>1. VotersFirst
  BY DEF Nmr, NmrLine
<1> QED
  BY <1>1, ImplementsScheduler, ImplementsRounds, RoundsKeepApart, PTL

(* Theorem: and it is dispatched only after all its replicates ended, as    *)
(* the comment of get_voter_fireable has it.                                *)
THEOREM NmrVotesAfterCompletion ==
  ASSUME Nmr, NoFault
  PROVE  FCSpec => VoteAfterCompletion
<1>1. VotersFirst
  BY DEF Nmr, NmrLine
<1> QED
  BY <1>1, VotesAfterCompletion, RoundsKeepApart, PTL


(****************************************************************************)
(* Without failures the actuators follow the sensors: the votes and the     *)
(* samples are counted alike, and of the last votes one is at most in the   *)
(* voter, one in its pipe and one in the sink.                              *)
(****************************************************************************)
Voting == Running(Judge) /\ prog[Judge].written = 0
Posted == pipe[Verdict] # << >>
Held == prog[Sink].text # NoData

OrderInv ==
  /\ Held => prog[Sink].text.round = Len(actuated) + 1
  /\ Posted => Head(pipe[Verdict]).round = Len(actuated) + 1 + One(Held)
  /\ prog[Judge].text # NoData => prog[Judge].text.round = taskRuns[Judge]

FollowInv ==
  /\ \E S : actuated \in Seq(S)
  /\ InLoop \/ Running(Judge) =>
       taskRuns[Judge] = Len(actuated) + One(Posted) + One(Held) + One(Voting)
  /\ InLoop /\ ~Running(Sink) => ~Held
  /\ NoFault => OrderInv

(* No fault is one fault at most.                                           *)
LEMMA NobodyFails == NoFault => OneFault
BY DEF NoFault, OneFault

(* A vote on healthy answers is of the round of the voter's launch.         *)
LEMMA FreshVote ==
  ASSUME Nmr
  PROVE  NoFault /\ LineInv /\ prog[Judge].text # NoData
           => Vote(prog[Judge].read).round = taskRuns[Judge]
<1> SUFFICES ASSUME NoFault, LineInv, prog[Judge].text # NoData
             PROVE  Vote(prog[Judge].read).round = taskRuns[Judge]
  OBVIOUS
<1>1. PICK q, S : q = prog[Judge].read /\ q \in Seq(S)
  <2>1. VoteSeq(prog[Judge].read)
    BY DEF LineInv, Parts, JudgePart
  <2> QED
    BY <2>1 DEF VoteSeq
<1>2. \A k \in Idx : Healthy(k)
  BY DEF LineInv, Parts, Faults, NoFault, Healthy
<1>3. PICK i, j \in Idx : i # j
  BY TwoHealthy DEF LineInv, Parts
<1>4. ASSUME NEW k \in Idx
      PROVE  /\ DOMAIN q = Idx /\ q[k].round = taskRuns[Judge]
             /\ q[k].value = "good" /\ q[k].len = Length[Judge] /\ q[k] # NoData
  <2>1. DOMAIN q = Idx /\ q[k] = Message(Rep(k), "good", taskRuns[Judge])
    BY <1>1, <1>2, HealthyRead
  <2>2. Length[Rep(k)] = Length[Judge]
    BY LineLengths DEF Nmr
  <2> QED
    BY <2>1, <2>2 DEF Message, NoData
<1>5. i \in DOMAIN q /\ j \in DOMAIN q /\ Same(q[i], q[j])
  BY <1>3, <1>4 DEF Same
<1>6. PICK k \in DOMAIN q : Vote(q) = q[k]
  BY <1>1, <1>3, <1>4, <1>5, VoteAgrees
<1> QED
  BY <1>1, <1>3, <1>4, <1>6

LEMMA FollowStart ==
  ASSUME Nmr, FCInit
  PROVE  FollowInv
<1>1. /\ pipe = [p \in PipeNames |-> << >>] /\ prog = [t \in Tasks |-> Fresh]
      /\ actuated = << >> /\ \A t \in Tasks : taskRuns[t] = 0 /\ ~Running(t)
  BY DEF FCInit, Init, Running
<1>2. Judge \in Tasks /\ Sink \in Tasks /\ Verdict \in PipeNames
  BY LineTasks, LinePipes DEF Nmr
<1>3. ~Posted /\ ~Held /\ ~Voting /\ prog[Judge].text = NoData
  BY <1>1, <1>2 DEF Posted, Held, Voting, Fresh
<1>4. actuated \in Seq(Nat) /\ Len(actuated) = 0
  BY <1>1
<1> QED
  BY <1>1, <1>2, <1>3, <1>4 DEF FollowInv, OrderInv, One

(* Steps that none of it notices.                                           *)
LEMMA FollowFrame ==
  ASSUME FollowInv,
         actuated' = actuated, pipe'[Verdict] = pipe[Verdict],
         prog'[Sink] = prog[Sink], prog'[Judge] = prog[Judge],
         taskRuns'[Judge] = taskRuns[Judge],
         InLoop' => /\ InLoop /\ (Running(Sink)' <=> Running(Sink))
                    /\ (Running(Judge)' <=> Running(Judge)),
         Running(Judge)' => Running(Judge)
  PROVE  FollowInv'
<1>1. (Held' <=> Held) /\ (Posted' <=> Posted)
  BY DEF Held, Posted
<1>2. InLoop' \/ Running(Judge)' => (InLoop \/ Running(Judge)) /\ (Voting' <=> Voting)
  BY DEF Voting
<1>3. One(Held)' = One(Held) /\ One(Posted)' = One(Posted)
  BY <1>1 DEF One
<1>4. InLoop' \/ Running(Judge)' => One(Voting)' = One(Voting)
  BY <1>2 DEF One
<1> QED
  BY <1>1, <1>2, <1>3, <1>4 DEF FollowInv, OrderInv

LEMMA FollowLoop ==
  ASSUME Nmr, Before, FollowInv, Loop \/ FCTerminated \/ UNCHANGED fcVars
  PROVE  FollowInv' /\ actuated' = actuated
<1>1. UNCHANGED progVars
  BY DEF Loop, FCTerminated, fcVars, vars, progVars
<1>2. Judge \in Tasks /\ Sink \in Tasks /\ TypeOK
  BY LineTasks DEF Nmr, Before
<1>3. ASSUME taskRuns' = taskRuns, InLoop' => InLoop /\ child' = child,
             \A t \in Tasks : Running(t)' => Running(t)
      PROVE  FollowInv'
  BY <1>1, <1>2, <1>3, FollowFrame DEF progVars, Running
<1>4. ASSUME NEW t \in Tasks, MonitorReap(t)
      PROVE  FollowInv'
  <2>1. /\ taskRuns' = taskRuns /\ child[t] # "alive" /\ InLoop
        /\ child' = [child EXCEPT ![t] = "none"]
    BY <1>4 DEF MonitorReap, Turn, InLoop
  <2>2. \A u \in Tasks : Running(u)' <=> Running(u)
    BY <1>2, <2>1 DEF Running, TypeOK
  <2> QED
    BY <1>1, <1>2, <2>1, <2>2, FollowFrame DEF progVars
<1>5. ASSUME NEW t \in Tasks,
             MonitorStuck(t) \/ MonitorWait(t) \/ MonitorDispatch(t, InputReady(t))
      PROVE  FollowInv'
  <2>1. taskRuns' = taskRuns /\ child' = child /\ InLoop
    BY <1>5 DEF MonitorStuck, MonitorWait, MonitorDispatch, taskVars, procVars, Turn, InLoop
  <2> QED
    BY <1>3, <2>1 DEF Running
<1>6. CASE CheckActive(0) \/ Tick \/ LogResults \/ PrintResults \/ WriteResults
  <2>1. taskRuns' = taskRuns /\ child' = child /\ (InLoop' => InLoop)
    BY <1>6 DEF CheckActive, Tick, LogResults, PrintResults, WriteResults, taskVars, procVars,
                InLoop
  <2> QED
    BY <1>1, <1>3, <2>1 DEF Running, progVars
<1>7. ASSUME NEW t \in Tasks, Cleanup(t)
      PROVE  FollowInv'
  <2>1. taskRuns' = taskRuns /\ ~InLoop'
    BY <1>7 DEF Cleanup, taskVars, InLoop
  <2>2. \A u \in Tasks : Running(u)' => Running(u)
    BY <1>2, <1>7 DEF Cleanup, Running, TypeOK
  <2> QED
    BY <1>3, <2>1, <2>2
<1>8. CASE FCTerminated \/ UNCHANGED fcVars
  <2>1. taskRuns' = taskRuns /\ child' = child /\ pc' = pc
    BY <1>8 DEF FCTerminated, Terminated, fcVars, vars, loopVars, taskVars, procVars
  <2> QED
    BY <1>1, <1>3, <2>1 DEF InLoop, Running, progVars
<1> QED
  BY <1>1, <1>4, <1>5, <1>6, <1>7, <1>8 DEF Loop, Monitor, progVars

(* The voter is launched, votes, hands its verdict over and ends.           *)
LEMMA FollowJudge ==
  ASSUME Nmr, Before, LineInv, LineInv', FollowInv,
         Launch(Judge) \/ Program(Judge) \/ Crash(Judge)
  PROVE  FollowInv' /\ actuated' = actuated
<1>1. /\ NmrLine /\ Judge \in Tasks /\ Sink \in Tasks \ {Judge} /\ Judge # Source
      /\ Verdict \in PipeNames /\ Out[Judge] = <<Verdict>> /\ In[Judge] # << >>
      /\ JudgePart /\ SinkPart /\ taskRuns[Judge] \in Nat
  <2>1. Judge \in Tasks \ {Source}
    BY LineTasks DEF Nmr
  <2> QED
    BY <2>1, ProgramAssumption, LineTasks, LinePipes DEF Nmr, LineInv, Parts, Before, TypeOK
<1>2. PICK a, h, p : a = Len(actuated) /\ h = One(Held) /\ p = One(Posted)
  OBVIOUS
<1>3. /\ a \in Nat /\ h \in Nat /\ p \in Nat
      /\ NoFault /\ Held => prog[Sink].text.round = a + 1
      /\ NoFault /\ Posted => Head(pipe[Verdict]).round = a + 1 + h
      /\ InLoop \/ Running(Judge) => taskRuns[Judge] = a + p + h + One(Voting)
  <2>1. h \in Nat /\ p \in Nat
    BY <1>2 DEF One
  <2>2. PICK S : actuated \in Seq(S)
    BY DEF FollowInv
  <2>3. a \in Nat
    BY <1>2, <2>2
  <2> QED
    BY <1>2, <2>1, <2>3 DEF FollowInv, OrderInv
<1>4. ASSUME prog'[Sink] = prog[Sink], actuated' = actuated
      PROVE  (Held' <=> Held) /\ One(Held)' = h /\ Len(actuated') = a
  BY <1>2, <1>4 DEF Held, One
<1>5. ASSUME pipe'[Verdict] = pipe[Verdict]
      PROVE  (Posted' <=> Posted) /\ One(Posted)' = p
  BY <1>2, <1>5 DEF Posted, One
<1>6. CASE Launch(Judge)
  <2>1. /\ actuated' = actuated /\ pipe' = pipe /\ prog'[Sink] = prog[Sink]
        /\ InLoop /\ ~Running(Judge) /\ Running(Judge)' /\ prog'[Judge] = Fresh
        /\ taskRuns'[Judge] = taskRuns[Judge] + 1 /\ (Running(Sink)' <=> Running(Sink))
        /\ (InLoop' <=> InLoop)
    BY <1>1, <1>6, LaunchEffects DEF Launch, Before, LineInv, Still, InLoop, Running
  <2>2. ~Voting /\ Voting' /\ prog'[Judge].text = NoData
    BY <2>1 DEF Voting, Fresh
  <2>3. taskRuns[Judge] = a + p + h /\ One(Voting)' = 1
    BY <1>3, <2>1, <2>2 DEF One
  <2>4. taskRuns'[Judge] = a + p + h + 1
    BY <1>3, <2>1, <2>3
  <2> QED
    BY <1>3, <1>4, <1>5, <2>1, <2>2, <2>3, <2>4 DEF FollowInv, OrderInv
<1>7. CASE Finish(Judge) \/ Crash(Judge)
  <2>1. ~Prone(Judge) /\ ~Refused(prog[Judge].text)
    <3>1. ~Refused(NoData) /\ \A i \in Idx : Judge # Rep(i)
      BY <1>1, LineTasks DEF Refused, NoData
    <3> QED
      BY <1>1, <3>1, NoneProne DEF JudgePart, Fits
  <2>2. /\ LoopStill /\ UNCHANGED <<taskRuns, pipe>> /\ Running(Judge) /\ ~Running(Judge)'
        /\ prog'[Judge] = Fresh /\ Still(Sink) /\ prog[Judge].written = Len(Out[Judge])
    BY <1>1, <1>7, <2>1, EndEffects DEF Before
  <2>3. ~Voting /\ ~Voting'
    <3>1. \A x : Len(<<x>>) = 1
      OBVIOUS
    <3> QED
      BY <1>1, <2>2, <3>1 DEF Voting
  <2>4. actuated' = actuated /\ (InLoop' <=> InLoop) /\ (Running(Sink)' <=> Running(Sink))
    BY <1>1, <1>7, <2>2, LoopStays DEF Finish, Crash, Drive, Still, Running
  <2>5. One(Voting) = 0 /\ One(Voting)' = 0 /\ prog'[Judge].text = NoData
    BY <2>2, <2>3 DEF One, Fresh
  <2> QED
    BY <1>3, <1>4, <1>5, <2>2, <2>4, <2>5 DEF FollowInv, OrderInv, Still
<1>8. CASE ReadInput(Judge)
  <2>1. /\ pipe'[Verdict] = pipe[Verdict] /\ actuated' = actuated /\ Still(Sink)
        /\ taskRuns' = taskRuns /\ (InLoop' <=> InLoop) /\ child' = child
        /\ prog'[Judge].text = NoData \/ prog'[Judge].text = Vote(prog'[Judge].read)
    BY <1>1, <1>8, JudgeTakes, ProgramEffects, LoopStays DEF Before, ReadInput
  <2>2. NoFault /\ prog'[Judge].text # NoData
          => Vote(prog'[Judge].read).round = taskRuns'[Judge]
    <3>1. (NoFault /\ LineInv /\ prog[Judge].text # NoData
             => Vote(prog[Judge].read).round = taskRuns[Judge])'
      BY FreshVote, PTL
    <3> QED
      BY <3>1
  <2>3. prog'[Judge].written = prog[Judge].written
    <3>1. DOMAIN prog = Tasks /\ IsProcess(prog[Judge])
      BY <1>1 DEF Before, ProgramInv
    <3> QED
      BY <1>1, <1>8, <3>1 DEF ReadInput, Computed, IsProcess
  <2>4. One(Voting)' = One(Voting) /\ (Running(Sink)' <=> Running(Sink))
        /\ (Running(Judge)' <=> Running(Judge))
    BY <2>1, <2>3 DEF One, Voting, Running
  <2> QED
    BY <1>3, <1>4, <1>5, <2>1, <2>2, <2>4 DEF FollowInv, OrderInv, Still
<1>9. CASE WriteOutput(Judge)
  <2>1. PICK m, q : m = prog[Judge].text /\ q = pipe[Verdict]
    OBVIOUS
  <2>2. /\ actuated' = actuated /\ Still(Sink) /\ taskRuns' = taskRuns
        /\ (InLoop' <=> InLoop) /\ child' = child /\ Running(Judge)
    BY <1>1, <1>9, ProgramEffects, LoopStays DEF Before, WriteOutput
  <2>3. /\ m # NoData /\ prog'[Judge].text = m /\ prog[Judge].written \in Nat
        /\ prog[Judge].written + 1 <= Len(Out[Judge])
        /\ prog'[Judge].written = prog[Judge].written + 1
        /\ pipe'[Verdict] = IF Verdict = Out[Judge][prog[Judge].written + 1]
                            THEN Append(q, m) ELSE q
    BY <1>1, <1>9, <2>1, OutputEffects DEF Before
  <2>4. prog[Judge].written = 0 /\ prog'[Judge].written = 1 /\ pipe'[Verdict] = Append(q, m)
    <3>1. \A x : Len(<<x>>) = 1 /\ <<x>>[1] = x
      OBVIOUS
    <3>2. prog[Judge].written = 0
      BY <1>1, <2>3, <3>1
    <3> QED
      BY <1>1, <2>3, <3>1, <3>2
  <2>5. q = << >> /\ ~Posted /\ p = 0
    BY <1>1, <1>2, <2>1, <2>2, <2>4 DEF SinkPart, Posted, One
  <2>6. Posted' /\ Head(pipe'[Verdict]) = m /\ One(Posted)' = 1
    <3>1. Append(<< >>, m) # << >> /\ Head(Append(<< >>, m)) = m
      OBVIOUS
    <3> QED
      BY <2>4, <2>5, <3>1 DEF Posted, One
  <2>7. Voting /\ ~Voting' /\ One(Voting) = 1 /\ One(Voting)' = 0
    BY <2>2, <2>4 DEF Voting, One
  <2>8. /\ NoFault => m.round = taskRuns[Judge]
        /\ taskRuns[Judge] = a + 0 + h + 1
    BY <1>3, <2>1, <2>2, <2>3, <2>5, <2>7 DEF FollowInv, OrderInv
  <2>9. /\ NoFault => m.round = a + 1 + h
        /\ taskRuns[Judge] = a + 1 + h + 0
    BY <1>3, <2>8
  <2>10. (Running(Sink)' <=> Running(Sink)) /\ prog'[Sink] = prog[Sink]
    BY <2>2 DEF Still, Running
  <2> QED
    BY <1>3, <1>4, <2>2, <2>3, <2>6, <2>7, <2>8, <2>9, <2>10 DEF FollowInv, OrderInv
<1>10. CASE Sample(Judge)
  BY <1>1, <1>10 DEF Sample
<1> QED
  BY <1>6, <1>7, <1>8, <1>9, <1>10 DEF Program

(* A step of the actuators is the next sample's.                            *)
Follows ==
  NoFault /\ actuated' # actuated => actuated' = Append(actuated, Len(actuated) + 1)

(* The sink is launched, takes the verdict and drives the actuators.        *)
LEMMA FollowSink ==
  ASSUME Nmr, Before, LineInv, MaskInv, FollowInv,
         Launch(Sink) \/ Program(Sink) \/ Crash(Sink)
  PROVE  FollowInv' /\ Follows
<1>1. /\ NmrLine /\ Sink \in Tasks /\ Judge \in Tasks \ {Sink} /\ Out[Sink] = << >>
      /\ In[Sink] # << >> /\ ~Refused(prog[Sink].text) /\ taskRuns[Judge] \in Nat
      /\ \A i \in Idx : Sink # Rep(i)
  <2>1. Sink \in Tasks \ {Source}
    BY LineTasks DEF Nmr
  <2> QED
    BY <2>1, ProgramAssumption, LineTasks, LinePipes DEF Nmr, Before, TypeOK, MaskInv
<1>2. PICK a, h, p, v : a = Len(actuated) /\ h = One(Held) /\ p = One(Posted) /\ v = One(Voting)
  OBVIOUS
<1>3. /\ a \in Nat /\ h \in Nat /\ p \in Nat /\ v \in Nat
      /\ NoFault /\ Held => prog[Sink].text.round = a + 1
      /\ NoFault /\ Posted => Head(pipe[Verdict]).round = a + 1 + h
      /\ InLoop \/ Running(Judge) => taskRuns[Judge] = a + p + h + v
  <2>1. h \in Nat /\ p \in Nat /\ v \in Nat
    BY <1>2 DEF One
  <2>2. PICK S : actuated \in Seq(S)
    BY DEF FollowInv
  <2>3. a \in Nat
    BY <1>2, <2>2
  <2> QED
    BY <1>2, <2>1, <2>3 DEF FollowInv, OrderInv
<1>4. ASSUME Still(Judge)
      PROVE  One(Voting)' = v /\ (Running(Judge)' <=> Running(Judge))
  BY <1>2, <1>4 DEF Still, Voting, Running, One
<1>5. CASE Launch(Sink)
  <2>1. /\ actuated' = actuated /\ pipe' = pipe /\ Still(Judge) /\ InLoop /\ InLoop'
        /\ ~Running(Sink) /\ prog'[Sink] = Fresh
    BY <1>1, <1>5, LaunchEffects DEF Launch, Before, LineInv, InLoop, Running
  <2>2. ~Held /\ ~Held'
    BY <2>1 DEF FollowInv, Held, Fresh
  <2>3. h = 0 /\ One(Held)' = 0 /\ One(Posted)' = p /\ (Posted' <=> Posted)
    BY <1>2, <2>1, <2>2 DEF One, Posted
  <2> QED
    BY <1>2, <1>3, <1>4, <2>1, <2>2, <2>3 DEF FollowInv, OrderInv, Still, Follows
<1>6. CASE Finish(Sink) \/ Crash(Sink)
  <2>1. ~Prone(Sink)
    BY <1>1, NoneProne
  <2>2. /\ LoopStill /\ UNCHANGED <<taskRuns, pipe>> /\ prog'[Sink] = Fresh /\ Still(Judge)
        /\ Done(Sink)
    BY <1>1, <1>6, <2>1, EndEffects DEF Before
  <2>3. Held /\ ~Held' /\ h = 1 /\ One(Held)' = 0
    BY <1>2, <2>2 DEF Done, Held, Fresh, One
  <2>4. PICK x : actuated' = Append(actuated, x) /\ (NoFault => x = a + 1)
    BY <1>1, <1>3, <1>6, <2>1, <2>3 DEF Finish, Crash, Drive
  <2>5. (\E S : actuated' \in Seq(S)) /\ Len(actuated') = a + 1
    <3>1. PICK S : actuated \in Seq(S)
      BY DEF FollowInv
    <3>2. actuated \in Seq(S \cup {x})
      BY <3>1
    <3>3. actuated' \in Seq(S \cup {x}) /\ Len(actuated') = a + 1
      BY <1>2, <2>4, <3>2
    <3> QED
      BY <3>3
  <2>6. One(Posted)' = p /\ (Posted' <=> Posted) /\ (InLoop' <=> InLoop)
    BY <1>2, <2>2, LoopStays DEF Posted, One
  <2>7. /\ NoFault /\ Posted => Head(pipe[Verdict]).round = (a + 1) + 1 + 0
        /\ InLoop \/ Running(Judge) => taskRuns[Judge] = (a + 1) + p + 0 + v
    BY <1>3, <2>3
  <2> QED
    BY <1>2, <1>4, <2>2, <2>3, <2>4, <2>5, <2>6, <2>7 DEF FollowInv, OrderInv, Still, Follows
<1>7. CASE ReadInput(Sink)
  <2>1. PICK m : m = Head(pipe[Verdict])
    OBVIOUS
  <2>2. /\ Posted /\ ~Posted' /\ ~Held /\ IsText(m) /\ Fits(m)
        /\ prog'[Sink].text \in Processed(Sink, m)
    BY <1>7, <2>1, SinkTakes DEF Posted, Held
  <2>3. m.value = "good"
    BY <2>1, <2>2 DEF MaskInv, Posted
  <2>4. prog'[Sink].text = Message(Sink, "good", m.round)
    BY <2>2, <2>3, GoodTaken
  <2>5. Held' /\ prog'[Sink].text.round = m.round
    BY <2>4 DEF Held, Message, NoData
  <2>6. p = 1 /\ One(Posted)' = 0 /\ h = 0 /\ One(Held)' = 1
    BY <1>2, <2>2, <2>5 DEF One
  <2>7. /\ NoFault => m.round = a + 1
        /\ InLoop \/ Running(Judge) => taskRuns[Judge] = a + 0 + 1 + v
    BY <1>3, <2>1, <2>2, <2>6
  <2>8. /\ actuated' = actuated /\ Still(Judge) /\ Running(Sink) /\ (InLoop' <=> InLoop)
        /\ child' = child
    BY <1>1, <1>7, ProgramEffects, LoopStays DEF Before, ReadInput
  <2>9. Running(Sink)'
    BY <2>8 DEF Running
  <2> QED
    BY <1>2, <1>3, <1>4, <2>2, <2>5, <2>6, <2>7, <2>8, <2>9 DEF FollowInv, OrderInv, Still, Follows
<1>8. CASE WriteOutput(Sink)
  <2>1. prog[Sink].written \in Nat /\ prog[Sink].written + 1 <= Len(Out[Sink])
    BY <1>1, <1>8, OutputEffects DEF Before
  <2>2. Len(<< >>) = 0
    OBVIOUS
  <2> QED
    BY <1>1, <2>1, <2>2
<1>9. CASE Sample(Sink)
  BY <1>1, <1>9 DEF Sample
<1> QED
  BY <1>5, <1>6, <1>7, <1>8, <1>9 DEF Program

LEMMA FollowStep ==
  ASSUME Nmr, Before, LineInv, LineInv', MaskInv, FollowInv, [FCNext]_fcVars
  PROVE  FollowInv' /\ Follows
<1>1. Judge \in Tasks /\ Sink \in Tasks
  BY LineTasks DEF Nmr
<1>2. CASE Loop \/ FCTerminated \/ UNCHANGED fcVars
  BY <1>2, FollowLoop DEF Follows
<1>3. ASSUME NEW t \in Tasks, Launch(t) \/ Program(t) \/ Crash(t)
      PROVE  FollowInv' /\ Follows
  <2>1. CASE t = Judge
    BY <1>3, <2>1, FollowJudge DEF Follows
  <2>2. CASE t = Sink
    BY <1>3, <2>2, FollowSink
  <2>3. CASE t \notin {Judge, Sink}
    <3>1. /\ Still(Judge) /\ Still(Sink) /\ pipe'[Verdict] = pipe[Verdict]
          /\ actuated' = actuated /\ (InLoop' <=> InLoop)
      BY <1>3, <2>3, Elsewhere
    <3>2. /\ prog'[Judge] = prog[Judge] /\ prog'[Sink] = prog[Sink]
          /\ taskRuns'[Judge] = taskRuns[Judge]
          /\ (Running(Judge)' <=> Running(Judge)) /\ (Running(Sink)' <=> Running(Sink))
      BY <3>1 DEF Still, Running
    <3> QED
      BY <3>1, <3>2, FollowFrame DEF Follows
  <2> QED
    BY <2>1, <2>2, <2>3
<1>4. ASSUME NEW t \in Tasks, StrayWrite(t) \/ StrayExit(t)
      PROVE  FALSE
  <2>1. orphans[t] > 0
    BY <1>4 DEF StrayWrite, StrayExit, OrphanExit
  <2>2. orphans[t] = 0
    BY DEF LineInv, InTime
  <2> QED
    BY <2>1, <2>2
<1> QED
  BY <1>2, <1>3, <1>4 DEF FCNext

(* Theorem: without failures the actuators of the NMR build follow the      *)
(* sensors through the vote: control_actuators ends its work on each sample *)
(* in turn, and none is repeated or left out.                               *)
THEOREM NmrFollowsSensors ==
  ASSUME Nmr, NoFault
  PROVE  FCSpec => NoSampleSkipped
<1>1. OneFault
  BY NobodyFails
<1>2. FCInit => MaskInv /\ FollowInv
  BY MaskStart, FollowStart
<1>3. Before /\ LineInv /\ LineInv' /\ MaskInv /\ FollowInv /\ [FCNext]_fcVars
        => MaskInv' /\ FollowInv' /\ Follows
  BY <1>1, MaskStep, FollowStep
<1>4. FCSpec => []LineInv
  BY LineCorrect
<1>5. FCSpec => []Before
  BY BeforeCorrect DEF Nmr
<1>6. Follows => [actuated' # actuated => actuated' = Append(actuated, Len(actuated) + 1)]_fcVars
  BY DEF Follows
<1> QED
  BY <1>2, <1>3, <1>4, <1>5, <1>6, PTL DEF FCSpec, NoSampleSkipped


(* While the loop runs, every launch of the source but two drove the        *)
(* actuators.                                                               *)
LEMMA PaceNow ==
  ASSUME Nmr, SinkInTime, Before, LineInv, FollowInv, InLoop
  PROVE  ActuatorsKeepPace
<1>1. /\ Source \in Tasks /\ Sink \in Tasks /\ Judge \in Tasks
      /\ JudgePart /\ SinkPart /\ InTime
  BY LineTasks DEF Nmr, LineInv, Parts
<1>2. PICK s, j, r, a, h, p, v :
        /\ s = taskRuns[Source] /\ j = taskRuns[Judge] /\ r = Round /\ a = Len(actuated)
        /\ h = One(Held) /\ p = One(Posted) /\ v = One(Voting)
  OBVIOUS
<1>3. /\ s \in Nat /\ j \in Nat /\ a \in Nat /\ r = (IF Early THEN s - 1 ELSE s)
      /\ h = (IF Held THEN 1 ELSE 0) /\ p = (IF Posted THEN 1 ELSE 0)
      /\ v = (IF Voting THEN 1 ELSE 0)
  <2>1. PICK S : actuated \in Seq(S)
    BY DEF FollowInv
  <2> QED
    BY <1>1, <1>2, <2>1 DEF Before, TypeOK, Round, One
<1>4. j = a + p + h + v
  BY <1>2 DEF FollowInv
<1>5. (j = r - 1 \/ j = r) /\ (Voting => j = r)
  BY <1>1, <1>2 DEF JudgePart, InTime, Voting
<1>6. j # r \/ Voting => Unwritten /\ ~Posted
  BY <1>1, <1>2 DEF SinkPart, Unwritten, Voting, Posted
<1>7. Early /\ Held => ~Unwritten /\ ~Posted
  <2> SUFFICES ASSUME Early, Held, Unwritten \/ Posted
               PROVE  FALSE
    OBVIOUS
  <2>1. Running(Sink) /\ prog[Sink].text # NoData
    BY DEF FollowInv, Held
  <2>2. age[Sink] >= SinkAge
    BY <1>1, <2>1 DEF SinkPart, InTime, Posted
  <2>3. age[Sink] <= MaxExec[Sink] /\ age[Sink] \in Nat /\ Age \in Nat
    BY <1>1, <2>1 DEF InTime, Before, TypeOK, Age
  <2>4. SinkAge = Age + Cycle + 2 - Due /\ MaxExec[Sink] + Due <= Cycle + 1
    BY DEF SinkAge, SinkInTime, Due, Cycle
  <2> QED
    BY <2>2, <2>3, <2>4, LineTimes
<1>8. s - a <= 2
  <2>1. CASE Early /\ Held
    <3>1. j = r /\ ~Voting /\ ~Posted
      BY <1>5, <1>6, <1>7, <2>1
    <3> QED
      BY <1>3, <1>4, <2>1, <3>1
  <2>2. CASE Early /\ ~Held
    BY <1>3, <1>4, <1>5, <1>6, <2>2
  <2>3. CASE ~Early
    BY <1>3, <1>4, <1>5, <1>6, <2>3
  <2> QED
    BY <2>1, <2>2, <2>3
<1> QED
  BY <1>2, <1>8 DEF ActuatorsKeepPace

(* After it the source is not launched again, and what is on its way may    *)
(* still arrive.                                                            *)
LEMMA PaceKept ==
  ASSUME Before, FollowInv, [FCNext]_fcVars, ~InLoop', ActuatorsKeepPace, Source \in Tasks
  PROVE  ActuatorsKeepPace'
<1>1. taskRuns' = taskRuns
  <2>1. ASSUME NEW t \in Tasks, Launch(t)
        PROVE  FALSE
    BY <2>1 DEF Launch, RunTask, loopVars, InLoop
  <2>2. ASSUME NEW t \in Tasks,
               Program(t) \/ Crash(t) \/ StrayWrite(t) \/ StrayExit(t)
        PROVE  taskRuns' = taskRuns
    BY <2>2 DEF Program, Sample, ReadInput, WriteOutput, Finish, Crash, Exit, StrayWrite,
                StrayExit, OrphanExit, schedVars, taskVars
  <2>3. CASE Loop
    <3>1. ASSUME NEW t \in Tasks, Monitor(t) \/ Cleanup(t)
          PROVE  taskRuns' = taskRuns
      BY <3>1 DEF Monitor, MonitorReap, MonitorStuck, MonitorWait, MonitorDispatch, Cleanup,
                  taskVars
    <3>2. CASE CheckActive(0) \/ Tick \/ LogResults \/ PrintResults \/ WriteResults
      BY <3>2 DEF CheckActive, Tick, LogResults, PrintResults, WriteResults, taskVars
    <3> QED
      BY <2>3, <3>1, <3>2 DEF Loop
  <2>4. CASE FCTerminated \/ UNCHANGED fcVars
    BY <2>4 DEF FCTerminated, Terminated, fcVars, vars, taskVars
  <2> QED
    BY <2>1, <2>2, <2>3, <2>4 DEF FCNext
<1>2. actuated' = actuated \/ \E x : actuated' = Append(actuated, x)
  BY DEF FCNext, Loop, Launch, Program, Sample, ReadInput, WriteOutput, Finish, Crash, Drive,
         StrayWrite, StrayExit, FCTerminated, progVars, fcVars
<1>3. PICK n, m, s : n = Len(actuated) /\ m = Len(actuated') /\ s = taskRuns[Source]
  OBVIOUS
<1>4. n \in Nat /\ m \in Nat /\ m >= n
  <2>1. PICK S : actuated \in Seq(S)
    BY DEF FollowInv
  <2>2. ASSUME NEW x, actuated' = Append(actuated, x)
        PROVE  m = n + 1
    <3>1. actuated \in Seq(S \cup {x})
      BY <2>1
    <3> QED
      BY <1>3, <2>2, <3>1
  <2>3. n \in Nat
    BY <1>3, <2>1
  <2> QED
    BY <1>2, <1>3, <2>2, <2>3
<1>5. s \in Nat /\ s - n <= 2
  BY <1>3 DEF ActuatorsKeepPace, Before, TypeOK
<1>6. s - m <= 2
  BY <1>4, <1>5
<1> QED
  BY <1>1, <1>3, <1>6 DEF ActuatorsKeepPace

(* Theorem: a faulty replicate costs the actuators no sample: at most two   *)
(* are on their way from the sensors, however it crashes or answers.        *)
THEOREM ActuatorsFollow ==
  ASSUME Nmr, OneFault, SinkInTime
  PROVE  FCSpec => []ActuatorsKeepPace
<1>1. FCInit => MaskInv /\ FollowInv /\ ActuatorsKeepPace
  <2>1. ASSUME FCInit
        PROVE  ActuatorsKeepPace
    <3>1. taskRuns[Source] = 0 /\ actuated = << >>
      BY <2>1, LineTasks DEF FCInit, Init, Nmr
    <3>2. Len(<< >>) = 0
      OBVIOUS
    <3> QED
      BY <3>1, <3>2 DEF ActuatorsKeepPace
  <2> QED
    BY <2>1, MaskStart, FollowStart
<1>2. Before /\ LineInv /\ LineInv' /\ MaskInv /\ FollowInv /\ [FCNext]_fcVars
        => MaskInv' /\ FollowInv'
  BY MaskStep, FollowStep
<1>3. Before /\ LineInv /\ FollowInv /\ InLoop => ActuatorsKeepPace
  BY PaceNow
<1>4. Before /\ FollowInv /\ ActuatorsKeepPace /\ ~InLoop' /\ [FCNext]_fcVars
        => ActuatorsKeepPace'
  BY PaceKept, LineTasks DEF Nmr
<1>5. FCSpec => []LineInv
  BY LineCorrect
<1>6. FCSpec => []Before
  BY BeforeCorrect DEF Nmr
<1> QED
  BY <1>1, <1>2, <1>3, <1>4, <1>5, <1>6, PTL DEF FCSpec
===============================================================================
