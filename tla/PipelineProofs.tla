---------------------------- MODULE PipelineProofs ----------------------------
(* The closed system is one of the environments of the open one: every step *)
(* of the flight controller is a step of the scheduler, or none of its      *)
(* concern.  What the other modules prove of the scheduler therefore holds  *)
(* with these programs and pipes, whatever the programs, the wiring, the    *)
(* faults and the timing.                                                   *)
EXTENDS FlightController, CompletionProofs, VoteProofs, SequenceTheorems,
        WellFoundedInduction, TLAPS

(* A step of a program that does not end its process is none of the         *)
(* scheduler's concern.                                                     *)
LEMMA QuietStep ==
  ASSUME NEW t \in Tasks, Sample(t) \/ ReadInput(t) \/ WriteOutput(t) \/ StrayWrite(t)
  PROVE  UNCHANGED vars
BY DEF Sample, ReadInput, WriteOutput, StrayWrite, vars, schedVars

(* The end of a process is an exit the scheduler's environment may choose.  *)
LEMMA ExitStep ==
  ASSUME NEW t \in Tasks, NEW status \in Statuses, Exit(t, status)
  PROVE  ChildExit(t, status)
BY DEF Exit, ChildExit, Running, schedVars

(* So are the end of a program and the death of a faulty process.          *)
LEMMA FinishStep ==
  ASSUME NEW t \in Tasks, Finish(t) \/ Crash(t)
  PROVE  \E status \in Statuses : ChildExit(t, status)
<1>1. {"exit0", "exit1", "exit2", "signal"} = Statuses
  BY ProgramAssumption
<1>2. CASE Finish(t)
  <2>1. \E status \in Statuses : Exit(t, status)
    BY <1>1, <1>2 DEF Finish, Failed, Refused
  <2> QED
    BY <2>1, ExitStep
<1>3. CASE Crash(t)
  BY <1>1, <1>3, ExitStep DEF Crash
<1> QED
  BY <1>2, <1>3

(* Theorem: with its programs and pipes the scheduler behaves as module     *)
(* Scheduler says: select()'s answers and the processes' exits are among    *)
(* those its environment may choose.                                        *)
THEOREM ImplementsScheduler == FCSpec => Spec
<1>1. FCInit => Init
  BY DEF FCInit
<1>2. [FCNext]_fcVars => [Next]_vars
  <2> SUFFICES ASSUME [FCNext]_fcVars
               PROVE  [Next]_vars
    OBVIOUS
  <2>1. CASE Loop
    <3>1. ASSUME NEW t \in Tasks, Monitor(t)
          PROVE  Next
      <4>1. InputReady(t) \in BOOLEAN
        BY DEF InputReady
      <4> QED
        BY <3>1, <4>1 DEF Monitor, Next
    <3>2. CASE CheckActive(0) \/ Tick
      BY <3>2 DEF Tick, Next
    <3>3. CASE LogResults \/ PrintResults \/ WriteResults \/ \E t \in Tasks : Cleanup(t)
      BY <3>3 DEF Next
    <3> QED
      BY <2>1, <3>1, <3>2, <3>3 DEF Loop
  <2>2. ASSUME NEW t \in Tasks, Launch(t)
        PROVE  Next
    BY <2>2 DEF Launch, Next
  <2>3. ASSUME NEW t \in Tasks,
               Sample(t) \/ ReadInput(t) \/ WriteOutput(t) \/ StrayWrite(t)
        PROVE  UNCHANGED vars
    BY <2>3, QuietStep
  <2>4. ASSUME NEW t \in Tasks, Finish(t) \/ Crash(t) \/ StrayExit(t)
        PROVE  Next
    BY <2>4, FinishStep DEF StrayExit, Next
  <2>5. CASE FCTerminated
    BY <2>5 DEF FCTerminated, Next
  <2>6. CASE UNCHANGED fcVars
    BY <2>6 DEF fcVars, vars
  <2> QED
    BY <2>1, <2>2, <2>3, <2>4, <2>5, <2>6 DEF FCNext, Program
<1> QED
  BY <1>1, <1>2, PTL DEF FCSpec, Spec

(* Theorem: whatever the programs and the timing, the pipeline leaks and    *)
(* shares no core, counts every launch and never votes more often than any  *)
(* replicate ran (find_core, handle_task_completion, get_voter_fireable).   *)
THEOREM PipelineSafe ==
  FCSpec => [](CoreOwnership /\ EveryLaunchAccounted /\ VoterNeverAhead)
BY ImplementsScheduler, CoresOwned, LaunchesAccounted, NeverAhead, PTL

(* Theorem: in a pipeline whose replicates are launched in rounds of their  *)
(* own, a voter is dispatched only when none of its replicates is running   *)
(* (get_voter_fireable, whose comment says so without that condition).      *)
THEOREM VotesAfterCompletion ==
  ASSUME VotersFirst
  PROVE  FCSpec /\ RoundsApart => VoteAfterCompletion
<1>1. ASSUME TypeOK, RoundInv, [Next]_vars
      PROVE  [\A v \in VoterTasks : state[v] # "fireable" /\ state'[v] = "fireable"
                                      => RunningIndices(v) = {}]_fcVars
  BY <1>1, VoteFindsNoneRunning
<1> QED
  BY <1>1, ImplementsScheduler, TypeCorrect, RoundCorrect, PTL DEF Spec, VoteAfterCompletion

(****************************************************************************)
(* Induction, for sets of numbers in place of predicates.                   *)
(****************************************************************************)
LEMMA LeastNumber ==
  ASSUME NEW T \in SUBSET Nat, T # {}
  PROVE  \E n \in T : \A m \in T : n <= m
<1> DEFINE R == OpToRel(<, Nat)
<1>1. IsWellFoundedOn(R, Nat)
  BY NatLessThanWellFounded
<1>2. \A x, y \in Nat : <<x, y>> \in R <=> x < y
  BY DEF OpToRel
<1> HIDE DEF R
<1>3. PICK n \in T : \A m \in T : ~ (<<m, n>> \in R)
  BY <1>1, WFMin
<1>4. \A m \in T : ~ (m < n)
  BY <1>2, <1>3
<1> QED
  BY <1>4

LEMMA NumberInduction ==
  ASSUME NEW T \in SUBSET Nat, 0 \in T, \A n \in T : n + 1 \in T
  PROVE  T = Nat
<1> SUFFICES ASSUME Nat \ T # {}
             PROVE  FALSE
  OBVIOUS
<1>1. PICK n \in Nat \ T : \A m \in Nat \ T : n <= m
  BY LeastNumber
<1> QED
  BY <1>1

(****************************************************************************)
(* The bytes in a pipe.                                                     *)
(****************************************************************************)
(* The recursion of Bytes is sound: there is such a sum.                    *)
LEMMA BytesAdd ==
  ASSUME NEW S, NEW q \in Seq(S)
  PROVE  /\ Bytes(q, 0) = 0
         /\ \A k \in 1 .. Len(q) : Bytes(q, k) = Bytes(q, k - 1) + q[k].len
<1> DEFINE Sum(f, n) == f = [k \in 0 .. n |-> IF k = 0 THEN 0 ELSE f[k - 1] + q[k].len]
           T == {n \in Nat : \E f : Sum(f, n)}
<1>1. 0 \in T
  <2>1. Sum([k \in 0 .. 0 |-> 0], 0)
    OBVIOUS
  <2> QED
    BY <2>1
<1>2. ASSUME NEW n \in T
      PROVE  n + 1 \in T
  <2>1. PICK f : Sum(f, n)
    OBVIOUS
  <2> DEFINE g == [k \in 0 .. n + 1 |-> IF k = n + 1 THEN f[n] + q[n + 1].len ELSE f[k]]
  <2>2. Sum(g, n + 1)
    BY <2>1
  <2> HIDE DEF Sum
  <2> QED
    BY <2>2
<1>3. T = Nat
  <2> HIDE DEF T
  <2>1. T \subseteq Nat
    BY DEF T
  <2> QED
    BY <1>1, <1>2, <2>1, NumberInduction
<1>4. \E f : Sum(f, Len(q))
  <2> HIDE DEF Sum
  <2>1. Len(q) \in T
    <3> HIDE DEF T
    <3> QED
      BY <1>3
  <2> QED
    BY <2>1
<1> DEFINE sum == CHOOSE f : Sum(f, Len(q))
<1>5. Sum(sum, Len(q))
  <2> HIDE DEF Sum
  <2> QED
    BY <1>4
<1>6. \A k : Bytes(q, k) = sum[k]
  BY DEF Bytes
<1> HIDE DEF sum
<1>7. sum[0] = 0 /\ \A k \in 1 .. Len(q) : sum[k] = sum[k - 1] + q[k].len
  <2>1. sum = [k \in 0 .. Len(q) |-> IF k = 0 THEN 0 ELSE sum[k - 1] + q[k].len]
    BY <1>5
  <2> QED
    BY <2>1
<1>8. \A k \in 1 .. Len(q) : Bytes(q, k) = Bytes(q, k - 1) + q[k].len
  BY <1>6, <1>7
<1> QED
  BY <1>6, <1>7, <1>8

(* The texts of a pipe hold no more bytes than any of their ends.           *)
LEMMA BytesGrow ==
  ASSUME NEW S, NEW q \in Seq(S), \A m \in S : m.len \in Nat
  PROVE  \A k \in 0 .. Len(q) : Bytes(q, k) \in Nat
<1> DEFINE T == {n \in Nat : n <= Len(q) => Bytes(q, n) \in Nat}
<1>1. 0 \in T
  BY BytesAdd
<1>2. ASSUME NEW n \in T
      PROVE  n + 1 \in T
  <2> SUFFICES ASSUME n + 1 <= Len(q)
               PROVE  Bytes(q, n + 1) \in Nat
    OBVIOUS
  <2>1. n + 1 \in 1 .. Len(q) /\ (n + 1) - 1 = n /\ Bytes(q, n) \in Nat
    OBVIOUS
  <2>2. Bytes(q, n + 1) = Bytes(q, n) + q[n + 1].len
    BY <2>1, BytesAdd
  <2>3. q[n + 1].len \in Nat
    BY <2>1
  <2> QED
    BY <2>1, <2>2, <2>3
<1>3. T = Nat
  <2> HIDE DEF T
  <2>1. T \subseteq Nat
    BY DEF T
  <2> QED
    BY <1>1, <1>2, <2>1, NumberInduction
<1> QED
  BY <1>3

LEMMA BytesOrder ==
  ASSUME NEW S, NEW q \in Seq(S), \A m \in S : m.len \in Nat
  PROVE  \A k \in 0 .. Len(q) : Bytes(q, k) <= Bytes(q, Len(q))
<1> DEFINE T == {n \in Nat : n <= Len(q) => Bytes(q, Len(q) - n) <= Bytes(q, Len(q))}
<1>1. /\ Len(q) \in Nat
      /\ \A k \in 1 .. Len(q) : Bytes(q, k) = Bytes(q, k - 1) + q[k].len /\ q[k].len \in Nat
      /\ \A k \in 0 .. Len(q) : Bytes(q, k) \in Nat
  BY BytesAdd, BytesGrow
<1>2. 0 \in T
  BY <1>1
<1>3. ASSUME NEW n \in T
      PROVE  n + 1 \in T
  <2> SUFFICES ASSUME n + 1 <= Len(q)
               PROVE  Bytes(q, Len(q) - (n + 1)) <= Bytes(q, Len(q))
    OBVIOUS
  <2>1. PICK k : k = Len(q) - n
    OBVIOUS
  <2>2. k \in 1 .. Len(q) /\ k - 1 = Len(q) - (n + 1) /\ k - 1 \in 0 .. Len(q)
        /\ Len(q) \in 0 .. Len(q) /\ k \in 0 .. Len(q)
    BY <1>1, <2>1
  <2>3. Bytes(q, k) <= Bytes(q, Len(q))
    BY <1>1, <2>1
  <2>4. Bytes(q, k) = Bytes(q, k - 1) + q[k].len /\ q[k].len \in Nat
        /\ Bytes(q, k) \in Nat /\ Bytes(q, k - 1) \in Nat /\ Bytes(q, Len(q)) \in Nat
    BY <1>1, <2>2
  <2>5. Bytes(q, k - 1) <= Bytes(q, Len(q))
    BY <2>3, <2>4
  <2> QED
    BY <2>2, <2>5
<1>4. T = Nat
  <2> HIDE DEF T
  <2>1. T \subseteq Nat
    BY DEF T
  <2> QED
    BY <1>2, <1>3, <2>1, NumberInduction
<1>5. ASSUME NEW k \in 0 .. Len(q)
      PROVE  Bytes(q, k) <= Bytes(q, Len(q))
  <2>1. PICK n : n = Len(q) - k
    OBVIOUS
  <2>2. n \in Nat /\ n <= Len(q) /\ Len(q) - n = k
    BY <1>1, <2>1
  <2>3. n \in T
    <3> HIDE DEF T
    <3> QED
      BY <1>4, <2>2
  <2> QED
    BY <2>2, <2>3
<1> QED
  BY <1>5

(* A pipe of which a read takes everything is empty after it.               *)
LEMMA ReadAll ==
  ASSUME NEW S, NEW q \in Seq(S), \A m \in S : m.len \in Nat,
         Bytes(q, Len(q)) <= ReadCap
  PROVE  AfterRead(q, ReadCap) = << >>
<1>1. ASSUME NEW k \in DOMAIN q
      PROVE  Bytes(q, k) <= ReadCap
  <2>1. k \in 0 .. Len(q) /\ Len(q) \in 0 .. Len(q)
    OBVIOUS
  <2>2. Bytes(q, k) <= Bytes(q, Len(q)) /\ Bytes(q, k) \in Nat /\ Bytes(q, Len(q)) \in Nat
    BY <2>1, BytesOrder, BytesGrow
  <2> QED
    BY <2>2, ProgramAssumption
<1> QED
  BY <1>1 DEF AfterRead

(****************************************************************************)
(* What goes through the pipes are texts, and a process that was given up   *)
(* has its text.                                                            *)
(****************************************************************************)
IsText(m) == "value" \in DOMAIN m /\ m.value # "none"
IsProcess(p) == DOMAIN p = {"read", "text", "written"} /\ p.written \in Nat

TextSeq(q) == \E S : q \in Seq(S) /\ \A m \in S : IsText(m)
ReadSeq(q) == \E S : q \in Seq(S) /\ \A m \in S : m = NoData \/ IsText(m)
StraySeq(q) == \E S : q \in Seq(S) /\ \A p \in S : IsProcess(p) /\ IsText(p.text)

(* A process is given up only when it is older than a unit of the clock,    *)
(* and the clock waits for each process to have its text.                   *)
Waiting ==
  \A t \in Tasks : Running(t) /\ prog[t].text = NoData => state[t] = "running" /\ age[t] = 0

ProgramInv ==
  /\ DOMAIN pipe = PipeNames /\ \A p \in PipeNames : TextSeq(pipe[p])
  /\ DOMAIN prog = Tasks
  /\ \A t \in Tasks : /\ IsProcess(prog[t])
                      /\ ReadSeq(prog[t].read)
                      /\ prog[t].text = NoData \/ IsText(prog[t].text)
  /\ DOMAIN strays = Tasks /\ \A t \in Tasks : StraySeq(strays[t])
  /\ Waiting

LEMMA Texts0 ==
  /\ ~ IsText(NoData)
  /\ IsText(Failure("exit1")) /\ IsText(Failure("exit2"))
  /\ \A t \in Tasks : \A value \in Values(t) : \A n : IsText(Message(t, value, n))
  /\ IsProcess(Fresh) /\ Fresh.read = << >> /\ Fresh.text = NoData
<1>1. ~ IsText(NoData)
  BY DEF IsText, NoData
<1>2. IsText(Failure("exit1")) /\ IsText(Failure("exit2"))
  BY DEF IsText, Failure, NoData
<1>3. \A t \in Tasks : \A value \in Values(t) : value # "none"
  BY ProgramAssumption DEF Values
<1>4. \A t \in Tasks : \A value \in Values(t) : \A n : IsText(Message(t, value, n))
  BY <1>3 DEF IsText, Message
<1>5. IsProcess(Fresh) /\ Fresh.read = << >> /\ Fresh.text = NoData
  BY DEF IsProcess, Fresh
<1> QED
  BY <1>1, <1>2, <1>4, <1>5

LEMMA EmptySeqs == TextSeq(<< >>) /\ ReadSeq(<< >>) /\ StraySeq(<< >>)
<1>1. PICK S : S = {}
  OBVIOUS
<1>2. << >> \in Seq(S) /\ \A m : m \notin S
  BY <1>1
<1> QED
  BY <1>2, Zenon DEF TextSeq, ReadSeq, StraySeq

LEMMA TextAppend ==
  ASSUME NEW q, TextSeq(q), NEW m, IsText(m)
  PROVE  TextSeq(Append(q, m)) /\ Append(q, m) # << >>
<1>1. PICK S : q \in Seq(S) /\ \A x \in S : IsText(x)
  BY DEF TextSeq
<1>2. q \in Seq(S \cup {m})
  BY <1>1
<1>3. Append(q, m) \in Seq(S \cup {m}) /\ Append(q, m) # << >>
  <2>1. Append(q, m) \in Seq(S \cup {m}) /\ Len(Append(q, m)) = Len(q) + 1 /\ Len(q) \in Nat
    BY <1>2
  <2> QED
    BY <2>1
<1>4. \A x \in S \cup {m} : IsText(x)
  BY <1>1
<1> QED
  BY <1>3, <1>4 DEF TextSeq

LEMMA TextAfterRead ==
  ASSUME NEW q, TextSeq(q), NEW cap
  PROVE  TextSeq(AfterRead(q, cap))
<1>1. PICK S : q \in Seq(S) /\ \A x \in S : IsText(x)
  BY DEF TextSeq
<1> DEFINE gone == {k \in DOMAIN q : Bytes(q, k) <= cap}
           left == DOMAIN q \ gone
<1>2. CASE gone = DOMAIN q
  BY <1>2, EmptySeqs DEF AfterRead
<1>3. CASE gone # DOMAIN q
  <2> DEFINE k == CHOOSE k \in left : \A j \in left : k <= j
  <2>1. left \in SUBSET Nat /\ left # {} /\ left \subseteq DOMAIN q
    <3>1. DOMAIN q \in SUBSET Nat
      BY <1>1
    <3>2. gone \subseteq DOMAIN q
      OBVIOUS
    <3> HIDE DEF gone
    <3> QED
      BY <1>3, <3>1, <3>2
  <2>2. k \in left
    <3> HIDE DEF left
    <3> QED
      BY <2>1, LeastNumber
  <2>3. AfterRead(q, cap)
          = <<[q[k] EXCEPT !.len = Bytes(q, k) - cap]>> \o SubSeq(q, k + 1, Len(q))
    BY <1>3 DEF AfterRead
  <2> HIDE DEF k, left
  <2>4. PICK m : m = [q[k] EXCEPT !.len = Bytes(q, k) - cap]
    OBVIOUS
  <2>5. IsText(m)
    <3>1. IsText(q[k])
      BY <1>1, <2>1, <2>2
    <3> QED
      BY <2>4, <3>1 DEF IsText
  <2>6. SubSeq(q, k + 1, Len(q)) \in Seq(S)
    <3>1. k \in 1 .. Len(q) /\ Len(q) \in Nat
      BY <1>1, <2>1, <2>2
    <3> QED
      BY <1>1, <3>1
  <2>7. PICK rest : rest = SubSeq(q, k + 1, Len(q))
    OBVIOUS
  <2>8. rest \in Seq(S \cup {m}) /\ <<m>> \in Seq(S \cup {m})
    BY <2>6, <2>7
  <2>9. AfterRead(q, cap) = <<m>> \o rest
    BY <2>3, <2>4, <2>7
  <2>10. <<m>> \o rest \in Seq(S \cup {m})
    BY <2>8, ConcatProperties
  <2>11. \A x \in S \cup {m} : IsText(x)
    BY <1>1, <2>5
  <2> QED
    BY <2>9, <2>10, <2>11 DEF TextSeq
<1> QED
  BY <1>2, <1>3

LEMMA ReadAppend ==
  ASSUME NEW q, ReadSeq(q), NEW m, m = NoData \/ IsText(m)
  PROVE  ReadSeq(Append(q, m))
<1>1. PICK S : q \in Seq(S) /\ \A x \in S : x = NoData \/ IsText(x)
  BY DEF ReadSeq
<1>2. q \in Seq(S \cup {m})
  BY <1>1
<1>3. Append(q, m) \in Seq(S \cup {m})
  BY <1>2
<1>4. \A x \in S \cup {m} : x = NoData \/ IsText(x)
  BY <1>1
<1> QED
  BY <1>3, <1>4 DEF ReadSeq

(* A vote is one of the texts read, if there is one.                        *)
LEMMA VoteChooses ==
  ASSUME NEW S, NEW read \in Seq(S)
  PROVE  IF \A i \in DOMAIN read : read[i] = NoData
         THEN Vote(read) = Failure("exit1")
         ELSE \E m \in S : m # NoData /\ Vote(read) = m
<1> DEFINE valid == {i \in DOMAIN read : read[i] # NoData}
           agreed == {i \in valid : \E j \in valid : i < j /\ Same(read[i], read[j])}
           chosen == IF agreed # {} THEN agreed ELSE valid
           k == CHOOSE i \in chosen : \A j \in chosen : i <= j
<1>1. CASE valid = {}
  BY <1>1 DEF Vote
<1>2. CASE valid # {}
  <2>1. \A i \in DOMAIN read : i \in Nat /\ read[i] \in S
    OBVIOUS
  <2>2. Vote(read) = read[k]
    BY <1>2 DEF Vote
  <2>3. chosen \subseteq valid /\ chosen # {}
    <3>1. agreed \subseteq valid
      OBVIOUS
    <3> HIDE DEF agreed, valid
    <3> QED
      BY <1>2, <3>1
  <2>4. chosen \in SUBSET Nat
    <3> HIDE DEF chosen
    <3> QED
      BY <2>1, <2>3
  <2>5. k \in chosen
    <3> HIDE DEF chosen
    <3> QED
      BY <2>3, <2>4, LeastNumber
  <2> HIDE DEF k, chosen
  <2> QED
    BY <2>1, <2>2, <2>3, <2>5
<1> QED
  BY <1>1, <1>2

(* Whatever a program computes is a text or a refusal.                      *)
LEMMA OutcomeText ==
  ASSUME TypeOK, NEW t \in Tasks, NEW read, ReadSeq(read), NEW m \in Outcomes(t, read)
  PROVE  IsText(m)
<1>1. CASE t = Source
  <2>1. Outcomes(t, read) = Sampled(t)
    BY <1>1, ProgramAssumption DEF Outcomes
  <2> QED
    BY <2>1, Texts0 DEF Sampled
<1>2. CASE t # Source /\ t \in VoterTasks
  <2>1. m = Vote(read)
    BY <1>2 DEF Outcomes
  <2>2. PICK S : read \in Seq(S) /\ \A x \in S : x = NoData \/ IsText(x)
    BY DEF ReadSeq
  <2> QED
    BY <2>1, <2>2, VoteChooses, Texts0
<1>3. CASE t # Source /\ t \notin VoterTasks
  <2>1. Outcomes(t, read) = Processed(t, read[1])
    BY <1>3 DEF Outcomes
  <2> QED
    BY <2>1, Texts0 DEF Processed
<1> QED
  BY <1>1, <1>2, <1>3

LEMMA StrayAppend ==
  ASSUME NEW q, StraySeq(q), NEW p, IsProcess(p), IsText(p.text)
  PROVE  StraySeq(Append(q, p))
<1>1. PICK S : q \in Seq(S) /\ \A x \in S : IsProcess(x) /\ IsText(x.text)
  BY DEF StraySeq
<1>2. q \in Seq(S \cup {p})
  BY <1>1
<1>3. Append(q, p) \in Seq(S \cup {p})
  BY <1>2
<1>4. \A x \in S \cup {p} : IsProcess(x) /\ IsText(x.text)
  BY <1>1
<1> QED
  BY <1>3, <1>4 DEF StraySeq

LEMMA StrayWritten ==
  ASSUME NEW q, StraySeq(q), NEW k \in DOMAIN q
  PROVE  StraySeq([q EXCEPT ![k].written = @ + 1])
<1>1. PICK S : q \in Seq(S) /\ \A x \in S : IsProcess(x) /\ IsText(x.text)
  BY DEF StraySeq
<1>2. PICK p : p = [q[k] EXCEPT !.written = @ + 1]
  OBVIOUS
<1>3. q[k] \in S
  BY <1>1
<1>4. IsProcess(p) /\ p.text = q[k].text
  BY <1>1, <1>2, <1>3 DEF IsProcess
<1>5. q \in Seq(S \cup {p})
  BY <1>1
<1>6. [q EXCEPT ![k] = p] \in Seq(S \cup {p})
  BY <1>5
<1>7. \A x \in S \cup {p} : IsProcess(x) /\ IsText(x.text)
  BY <1>1, <1>3, <1>4
<1>8. [q EXCEPT ![k].written = @ + 1] = [q EXCEPT ![k] = p]
  BY <1>2
<1> QED
  BY <1>6, <1>7, <1>8 DEF StraySeq

LEMMA StrayRemoved ==
  ASSUME NEW q, StraySeq(q), NEW k \in DOMAIN q
  PROVE  StraySeq(SubSeq(q, 1, k - 1) \o SubSeq(q, k + 1, Len(q)))
<1>1. PICK S : q \in Seq(S) /\ \A x \in S : IsProcess(x) /\ IsText(x.text)
  BY DEF StraySeq
<1>2. k \in 1 .. Len(q) /\ Len(q) \in Nat
  BY <1>1
<1>3. SubSeq(q, 1, k - 1) \in Seq(S) /\ SubSeq(q, k + 1, Len(q)) \in Seq(S)
  BY <1>1, <1>2
<1>4. SubSeq(q, 1, k - 1) \o SubSeq(q, k + 1, Len(q)) \in Seq(S)
  BY <1>3, ConcatProperties
<1> QED
  BY <1>1, <1>4 DEF StraySeq

LEMMA TextHead ==
  ASSUME NEW q, TextSeq(q), q # << >>
  PROVE  IsText(Head(q))
<1>1. PICK S : q \in Seq(S) /\ \A x \in S : IsText(x)
  BY DEF TextSeq
<1> QED
  BY <1>1

(* The next text of a program, and what it has read by then.                *)
LEMMA ReadEffects ==
  ASSUME TypeOK, ProgramInv, NEW t \in Tasks, ReadInput(t)
  PROVE  /\ DOMAIN prog' = Tasks /\ \A u \in Tasks \ {t} : prog'[u] = prog[u]
         /\ IsProcess(prog'[t]) /\ ReadSeq(prog'[t].read)
         /\ prog'[t].text = prog[t].text \/ IsText(prog'[t].text)
         /\ \E p \in PipeNames :
              /\ DOMAIN pipe' = PipeNames /\ \A q \in PipeNames \ {p} : pipe'[q] = pipe[q]
              /\ pipe'[p] = AfterRead(pipe[p], ReadCap)
              /\ Len(prog[t].read) + 1 \in DOMAIN In[t]
              /\ p = In[t][Len(prog[t].read) + 1]
              /\ prog'[t].read = Append(prog[t].read,
                                        IF pipe[p] = << >> THEN NoData ELSE Head(pipe[p]))
              /\ IF Len(prog[t].read) + 1 = Len(In[t])
                 THEN IsText(prog'[t].text) /\ prog'[t].text \in Outcomes(t, prog'[t].read)
                 ELSE prog'[t].text = prog[t].text
<1>1. PICK i, p, q, read :
        /\ i = Len(prog[t].read) + 1 /\ p = In[t][i] /\ q = pipe[p]
        /\ read = Append(prog[t].read, IF q = << >> THEN NoData ELSE Head(q))
  OBVIOUS
<1>2. /\ i <= Len(In[t])
      /\ IF i < Len(In[t]) THEN prog' = [prog EXCEPT ![t].read = read] ELSE Computed(t, read)
      /\ pipe' = [pipe EXCEPT ![p] = AfterRead(@, ReadCap)]
  BY <1>1 DEF ReadInput
<1>3. i \in Nat \ {0}
  <2>1. PICK S : prog[t].read \in Seq(S)
    BY DEF ProgramInv, ReadSeq
  <2> QED
    BY <1>1, <2>1
<1>4. i \in DOMAIN In[t] /\ p \in PipeNames /\ Len(In[t]) \in Nat
  <2>1. In[t] \in Seq(PipeNames)
    BY ProgramAssumption
  <2> QED
    BY <1>1, <1>2, <1>3, <2>1
<1>5. TextSeq(q)
  BY <1>1, <1>4 DEF ProgramInv
<1>6. ReadSeq(read)
  <2>1. PICK m : m = IF q = << >> THEN NoData ELSE Head(q)
    OBVIOUS
  <2>2. m = NoData \/ IsText(m)
    BY <1>5, <2>1, TextHead
  <2>3. ReadSeq(prog[t].read)
    BY DEF ProgramInv
  <2> QED
    BY <1>1, <2>1, <2>2, <2>3, ReadAppend
<1>7. DOMAIN prog = Tasks /\ IsProcess(prog[t]) /\ DOMAIN pipe = PipeNames
  BY DEF ProgramInv
<1>8. /\ DOMAIN prog' = Tasks /\ \A u \in Tasks \ {t} : prog'[u] = prog[u]
      /\ IsProcess(prog'[t]) /\ prog'[t].read = read
      /\ prog'[t].text = prog[t].text \/ IsText(prog'[t].text)
      /\ IF i = Len(In[t])
         THEN IsText(prog'[t].text) /\ prog'[t].text \in Outcomes(t, prog'[t].read)
         ELSE prog'[t].text = prog[t].text
  <2>1. CASE i < Len(In[t])
    BY <1>2, <1>3, <1>4, <1>7, <2>1 DEF IsProcess
  <2>2. CASE ~ (i < Len(In[t]))
    <3>1. PICK m \in Outcomes(t, read) : prog' = [prog EXCEPT ![t].read = read, ![t].text = m]
      BY <1>2, <2>2 DEF Computed
    <3>2. IsText(m)
      BY <1>6, OutcomeText
    <3> QED
      BY <1>7, <3>1, <3>2 DEF IsProcess
  <2> QED
    BY <2>1, <2>2
<1>9. /\ DOMAIN pipe' = PipeNames /\ \A x \in PipeNames \ {p} : pipe'[x] = pipe[x]
      /\ pipe'[p] = AfterRead(pipe[p], ReadCap)
  BY <1>2, <1>4, <1>7
<1> QED
  BY <1>1, <1>4, <1>6, <1>8, <1>9


LEMMA StrayTexts ==
  ASSUME ProgramInv, NEW t \in Tasks, NEW k \in DOMAIN strays[t]
  PROVE  strays[t][k].text # NoData /\ IsText(strays[t][k].text)
<1>1. PICK S : strays[t] \in Seq(S) /\ \A x \in S : IsProcess(x) /\ IsText(x.text)
  BY DEF ProgramInv, StraySeq
<1> QED
  BY <1>1, Texts0

LEMMA WriteEffects ==
  ASSUME ProgramInv, NEW t \in Tasks, NEW p, IsText(p.text), WriteData(t, p)
  PROVE  /\ DOMAIN pipe' = PipeNames
         /\ \A x \in PipeNames : pipe'[x] \in {pipe[x], Append(pipe[x], p.text)}
         /\ \A x \in PipeNames : TextSeq(pipe'[x])
<1>1. PICK y : pipe' = [pipe EXCEPT ![y] = Append(@, p.text)]
  BY DEF WriteData
<1>2. DOMAIN pipe = PipeNames /\ \A x \in PipeNames : TextSeq(pipe[x])
  BY DEF ProgramInv
<1>3. /\ DOMAIN pipe' = PipeNames
      /\ \A x \in PipeNames : pipe'[x] \in {pipe[x], Append(pipe[x], p.text)}
  BY <1>1, <1>2
<1>4. \A x \in PipeNames : TextSeq(pipe'[x])
  BY <1>2, <1>3, TextAppend
<1> QED
  BY <1>3, <1>4

(* The ends a process can come to leave its task a fresh program.           *)
LEMMA ExitEffects ==
  ASSUME TypeOK, ProgramInv, NEW t \in Tasks, Finish(t) \/ Crash(t)
  PROVE  /\ prog' = [prog EXCEPT ![t] = Fresh]
         /\ ~ Running(t)' /\ \A u \in Tasks \ {t} : child'[u] = child[u]
         /\ UNCHANGED <<pipe, strays, age, state>>
<1>1. \E status : status # "alive" /\ Exit(t, status)
  BY DEF Finish, Crash, Failed, Refused
<1> QED
  BY <1>1 DEF Exit, schedVars, taskVars, Running, TypeOK

LEMMA ProgramInit ==
  ASSUME FCInit
  PROVE  ProgramInv
BY EmptySeqs, Texts0 DEF ProgramInv, Waiting, FCInit, Init, Running

LEMMA WaitingStep ==
  ASSUME TypeOK, ProgramInv, [FCNext]_fcVars
  PROVE  Waiting'
<1> DEFINE Waits(t) == Running(t) /\ prog[t].text = NoData => state[t] = "running" /\ age[t] = 0
<1>1. /\ \A t \in Tasks : Waits(t)
      /\ DOMAIN prog = Tasks /\ \A t \in Tasks : IsProcess(prog[t])
  BY DEF ProgramInv, Waiting
<1>2. /\ \A t \in Tasks : age[t] \in Nat /\ AgeCap[t] \in Nat
      /\ MaxStuck \in Nat
  BY TaskAssumption, NumberAssumption DEF TypeOK
<1>3. ASSUME UNCHANGED <<age, state>>, \A t \in Tasks : Running(t)' => Running(t),
             \A t \in Tasks : prog'[t].text = NoData /\ Running(t)' => prog[t].text = NoData
      PROVE  Waiting'
  BY <1>1, <1>3 DEF Waiting
<1>4. ASSUME NEW t \in Tasks, Program(t) \/ Crash(t) \/ StrayWrite(t) \/ StrayExit(t)
      PROVE  Waiting'
  <2>1. CASE Sample(t)
    <3>1. PICK m \in Outcomes(t, << >>) :
            prog' = [prog EXCEPT ![t].read = << >>, ![t].text = m]
      BY <2>1 DEF Sample, Computed
    <3>2. prog[t].text = NoData
      BY <2>1 DEF Sample
    <3>3. \A u \in Tasks \ {t} : prog'[u] = prog[u]
      BY <1>1, <3>1
    <3> QED
      BY <1>3, <2>1, <3>2, <3>3 DEF Sample, Running, schedVars, taskVars, procVars
  <2>2. CASE ReadInput(t)
    BY <1>3, <2>2, ReadEffects, Texts0 DEF ReadInput, Running, schedVars, taskVars, procVars
  <2>3. CASE WriteOutput(t)
    <3>1. prog' = [prog EXCEPT ![t].written = @ + 1]
      BY <2>3 DEF WriteOutput
    <3>2. \A u \in Tasks : prog'[u].text = prog[u].text
      BY <1>1, <3>1 DEF IsProcess
    <3> QED
      BY <1>3, <2>3, <3>2 DEF WriteOutput, Running, schedVars, taskVars, procVars
  <2>4. CASE Finish(t) \/ Crash(t)
    <3>1. \A u \in Tasks : Running(u)' => u # t /\ Running(u) /\ prog'[u] = prog[u]
      BY <1>1, <2>4, ExitEffects DEF Running
    <3> QED
      BY <1>3, <2>4, <3>1, ExitEffects
  <2>5. CASE StrayWrite(t) \/ StrayExit(t)
    BY <1>3, <2>5 DEF StrayWrite, StrayExit, OrphanExit, Running, schedVars, taskVars, procVars
  <2> QED
    BY <1>4, <2>1, <2>2, <2>3, <2>4, <2>5 DEF Program
<1>5. ASSUME NEW t \in Tasks, Launch(t)
      PROVE  Waiting'
  <2>1. /\ age' = [age EXCEPT ![t] = 0] /\ state' = [state EXCEPT ![t] = "running"]
        /\ child' = [child EXCEPT ![t] = "alive"] /\ prog' = [prog EXCEPT ![t] = Fresh]
    BY <1>5 DEF Launch, RunTask
  <2> QED
    BY <1>1, <2>1 DEF Waiting, TypeOK, Running
<1>6. ASSUME NEW t \in Tasks, Monitor(t), UNCHANGED prog
      PROVE  Waiting'
  <2>1. ASSUME UNCHANGED age, \A u \in Tasks : Running(u)' => Running(u),
               \A u \in Tasks \ {t} : state'[u] = state[u],
               state'[t] = state[t] \/ ~ (Running(t)' /\ prog[t].text = NoData)
        PROVE  Waiting'
    BY <1>1, <1>6, <2>1 DEF Waiting
  <2>2. CASE MonitorReap(t)
    <3>1. /\ child' = [child EXCEPT ![t] = "none"] /\ age' = age
          /\ \A u \in Tasks \ {t} : state'[u] = state[u]
      BY <2>2 DEF MonitorReap, HandleTaskCompletion, TypeOK
    <3> QED
      BY <2>1, <3>1 DEF Running, TypeOK
  <2>3. CASE MonitorStuck(t)
    <3>1. /\ UNCHANGED <<age, child>> /\ age[t] > MaxStuck
          /\ \A u \in Tasks \ {t} : state'[u] = state[u]
      BY <2>3 DEF MonitorStuck, MayBeStuck, HandleTaskCompletion, procVars, TypeOK
    <3>2. ~ (Running(t) /\ prog[t].text = NoData)
      BY <1>1, <1>2, <3>1
    <3> QED
      BY <2>1, <3>1, <3>2 DEF Running
  <2>4. CASE MonitorWait(t)
    BY <1>3, <1>6, <2>4 DEF MonitorWait, taskVars, procVars, Running
  <2>5. CASE MonitorDispatch(t, InputReady(t))
    <3>1. /\ UNCHANGED <<age, child>> /\ state[t] # "running"
          /\ \A u \in Tasks \ {t} : state'[u] = state[u]
      BY <2>5 DEF MonitorDispatch, procVars, TypeOK
    <3>2. ~ (Running(t) /\ prog[t].text = NoData)
      BY <1>1, <3>1
    <3> QED
      BY <2>1, <3>1, <3>2 DEF Running
  <2> QED
    BY <1>6, <2>2, <2>3, <2>4, <2>5 DEF Monitor
<1>7. ASSUME CheckActive(0) \/ Tick, UNCHANGED prog
      PROVE  Waiting'
  <2>1. UNCHANGED <<child, state>>
    BY <1>7 DEF Tick, CheckActive, taskVars, procVars
  <2>2. \A t \in Tasks : Running(t) /\ prog[t].text = NoData => age'[t] = 0
    <3>1. CASE CheckActive(0)
      BY <1>1, <1>2, <3>1 DEF CheckActive, AtMost
    <3>2. CASE Tick
      BY <3>2 DEF Tick, Timely
    <3> QED
      BY <1>7, <3>1, <3>2
  <2> QED
    BY <1>1, <1>7, <2>1, <2>2 DEF Waiting, Running
<1>8. ASSUME LogResults \/ PrintResults \/ WriteResults \/ (\E t \in Tasks : Cleanup(t)),
             UNCHANGED prog
      PROVE  Waiting'
  <2>1. UNCHANGED <<age, state>> /\ \A t \in Tasks : Running(t)' => Running(t)
    <3>1. CASE LogResults \/ PrintResults \/ WriteResults
      BY <3>1 DEF LogResults, PrintResults, WriteResults, taskVars, procVars, Running
    <3>2. CASE \E t \in Tasks : Cleanup(t)
      BY <3>2 DEF Cleanup, taskVars, Running, TypeOK
    <3> QED
      BY <1>8, <3>1, <3>2
  <2> QED
    BY <1>3, <1>8, <2>1
<1>9. CASE Loop
  BY <1>6, <1>7, <1>8, <1>9 DEF Loop, progVars
<1>10. CASE FCTerminated \/ UNCHANGED fcVars
  BY <1>3, <1>10 DEF FCTerminated, Terminated, progVars, fcVars, vars, taskVars, procVars, Running
<1> QED
  BY <1>4, <1>5, <1>9, <1>10 DEF FCNext


LEMMA ProgramStep ==
  ASSUME TypeOK, ProgramInv, [FCNext]_fcVars
  PROVE  ProgramInv'
<1> DEFINE PipesOf == DOMAIN pipe = PipeNames /\ \A p \in PipeNames : TextSeq(pipe[p])
           ProgOK(t) == /\ IsProcess(prog[t])
                        /\ ReadSeq(prog[t].read)
                        /\ prog[t].text = NoData \/ IsText(prog[t].text)
           ProgsOf == DOMAIN prog = Tasks /\ \A t \in Tasks : ProgOK(t)
           StraysOf == DOMAIN strays = Tasks /\ \A t \in Tasks : StraySeq(strays[t])
<1>1. PipesOf /\ ProgsOf /\ StraysOf
  BY DEF ProgramInv
<1>2. Waiting'
  BY WaitingStep
<1>3. ASSUME PipesOf', ProgsOf', StraysOf'
      PROVE  ProgramInv'
  BY <1>2, <1>3 DEF ProgramInv
<1>4. ASSUME UNCHANGED <<pipe, prog, strays>>
      PROVE  ProgramInv'
  BY <1>1, <1>3, <1>4
<1>5. ASSUME NEW t \in Tasks, DOMAIN prog' = Tasks, ProgOK(t)',
             \A u \in Tasks \ {t} : prog'[u] = prog[u]
      PROVE  ProgsOf'
  BY <1>1, <1>5
<1>6. ASSUME NEW t \in Tasks, Sample(t)
      PROVE  ProgramInv'
  <2>1. PICK m \in Outcomes(t, << >>) : prog' = [prog EXCEPT ![t].read = << >>, ![t].text = m]
    BY <1>6 DEF Sample, Computed
  <2>2. IsText(m)
    BY EmptySeqs, OutcomeText
  <2>3. ProgOK(t)' /\ DOMAIN prog' = Tasks /\ \A u \in Tasks \ {t} : prog'[u] = prog[u]
    BY <1>1, <2>1, <2>2, EmptySeqs DEF IsProcess
  <2>4. UNCHANGED <<pipe, strays>>
    BY <1>6 DEF Sample
  <2> QED
    BY <1>1, <1>3, <1>5, <2>3, <2>4
<1>7. ASSUME NEW t \in Tasks, ReadInput(t)
      PROVE  ProgramInv'
  <2>1. ProgsOf'
    BY <1>1, <1>5, <1>7, ReadEffects
  <2>2. PipesOf'
    <3>1. PICK p \in PipeNames :
            /\ DOMAIN pipe' = PipeNames /\ \A q \in PipeNames \ {p} : pipe'[q] = pipe[q]
            /\ pipe'[p] = AfterRead(pipe[p], ReadCap)
      BY <1>7, ReadEffects
    <3>2. TextSeq(pipe'[p])
      BY <1>1, <3>1, TextAfterRead
    <3> QED
      BY <1>1, <3>1, <3>2
  <2>3. StraysOf'
    BY <1>1, <1>7 DEF ReadInput
  <2> QED
    BY <1>3, <2>1, <2>2, <2>3
<1>8. ASSUME NEW t \in Tasks, WriteOutput(t)
      PROVE  ProgramInv'
  <2>1. IsText(prog[t].text) /\ WriteData(t, prog[t])
        /\ prog' = [prog EXCEPT ![t].written = @ + 1] /\ strays' = strays
    BY <1>1, <1>8 DEF WriteOutput, Done
  <2>2. ProgOK(t)' /\ DOMAIN prog' = Tasks /\ \A u \in Tasks \ {t} : prog'[u] = prog[u]
    BY <1>1, <2>1 DEF IsProcess
  <2>3. PipesOf'
    BY <2>1, WriteEffects
  <2> QED
    BY <1>1, <1>3, <1>5, <2>1, <2>2, <2>3
<1>9. ASSUME NEW t \in Tasks, StrayWrite(t)
      PROVE  ProgramInv'
  <2>1. PICK k \in DOMAIN strays[t] :
          /\ WriteData(t, strays[t][k])
          /\ strays' = [strays EXCEPT ![t][k].written = @ + 1]
          /\ UNCHANGED prog
    BY <1>9 DEF StrayWrite
  <2>2. PICK p, q : p = strays[t][k] /\ q = [strays[t] EXCEPT ![k].written = @ + 1]
    OBVIOUS
  <2>3. StraySeq(q)
    BY <1>1, <2>2, StrayWritten
  <2>4. IsText(p.text)
    BY <2>1, <2>2, StrayTexts
  <2>5. PipesOf'
    BY <2>1, <2>2, <2>4, WriteEffects
  <2>6. strays' = [strays EXCEPT ![t] = q]
    BY <2>1, <2>2
  <2>7. StraysOf'
    BY <1>1, <2>3, <2>6
  <2> QED
    BY <1>1, <1>3, <2>1, <2>5, <2>7
<1>10. ASSUME NEW t \in Tasks, StrayExit(t)
       PROVE  ProgramInv'
  <2>1. PICK k \in DOMAIN strays[t] :
          strays' = [strays EXCEPT ![t] = SubSeq(@, 1, k - 1) \o SubSeq(@, k + 1, Len(@))]
    BY <1>10 DEF StrayExit
  <2>2. PICK q : q = SubSeq(strays[t], 1, k - 1) \o SubSeq(strays[t], k + 1, Len(strays[t]))
    OBVIOUS
  <2>3. StraySeq(q)
    BY <1>1, <2>2, StrayRemoved
  <2>4. strays' = [strays EXCEPT ![t] = q]
    BY <2>1, <2>2
  <2>5. StraysOf'
    BY <1>1, <2>3, <2>4
  <2>6. UNCHANGED <<pipe, prog>>
    BY <1>10 DEF StrayExit
  <2> QED
    BY <1>1, <1>3, <2>5, <2>6
<1>11. ASSUME NEW t \in Tasks, Finish(t) \/ Crash(t)
       PROVE  ProgramInv'
  <2>1. prog' = [prog EXCEPT ![t] = Fresh] /\ UNCHANGED <<pipe, strays>>
    BY <1>11, ExitEffects
  <2>2. ProgOK(t)' /\ DOMAIN prog' = Tasks /\ \A u \in Tasks \ {t} : prog'[u] = prog[u]
    BY <1>1, <2>1, EmptySeqs, Texts0
  <2> QED
    BY <1>1, <1>3, <1>5, <2>1, <2>2
<1>12. ASSUME NEW t \in Tasks, Launch(t)
       PROVE  ProgramInv'
  <2>1. /\ prog' = [prog EXCEPT ![t] = Fresh] /\ UNCHANGED pipe
        /\ strays' = [strays EXCEPT ![t] = IF Running(t) THEN Append(@, prog[t]) ELSE @]
    BY <1>12 DEF Launch
  <2>2. ProgOK(t)' /\ DOMAIN prog' = Tasks /\ \A u \in Tasks \ {t} : prog'[u] = prog[u]
    BY <1>1, <2>1, EmptySeqs, Texts0
  <2>3. StraysOf'
    <3>1. CASE Running(t)
      <4>1. prog[t].text # NoData
        BY <1>12, <3>1 DEF Launch, RunTask, Highest, Fireable, ProgramInv, Waiting
      <4>2. PICK q : q = Append(strays[t], prog[t])
        OBVIOUS
      <4>3. StraySeq(q)
        BY <1>1, <4>1, <4>2, StrayAppend
      <4>4. strays' = [strays EXCEPT ![t] = q]
        BY <2>1, <3>1, <4>2
      <4> QED
        BY <1>1, <4>3, <4>4
    <3>2. CASE ~ Running(t)
      <4>1. strays' = [strays EXCEPT ![t] = strays[t]]
        BY <2>1, <3>2
      <4> QED
        BY <1>1, <4>1
    <3> QED
      BY <3>1, <3>2
  <2> QED
    BY <1>1, <1>3, <1>5, <2>1, <2>2, <2>3
<1>13. CASE Loop \/ FCTerminated \/ UNCHANGED fcVars
  BY <1>4, <1>13 DEF Loop, FCTerminated, progVars, fcVars
<1> QED
  BY <1>6, <1>7, <1>8, <1>9, <1>10, <1>11, <1>12, <1>13 DEF FCNext, Program


(****************************************************************************)
(* What select() saw is still there when the process reads.  A pipe has one *)
(* reader, a process of its task; while the task is fireable, and until its *)
(* new process reads, there is nobody who could: the old process, if it is  *)
(* alive, has read already, since it has its text.                          *)
(****************************************************************************)
FedOne(t) ==
  /\ prog[t].read = << >> \/ \E m : IsText(m) /\ prog[t].read = <<m>>
  /\ prog[t].text # NoData => prog[t].read # << >>
  /\ state[t] = "fireable" \/ (Running(t) /\ prog[t].read = << >>) => pipe[In[t][1]] # << >>

FedInv == \A t \in Fed : FedOne(t)

LEMMA OneInput ==
  ASSUME OneReader, NEW t \in Fed
  PROVE  /\ t \in Tasks \ VoterTasks /\ In[t] # << >> /\ Len(In[t]) = 1
         /\ 1 \in DOMAIN In[t] /\ In[t][1] \in PipeNames
<1>1. t \in Tasks \ VoterTasks /\ In[t] # << >> /\ Len(In[t]) = 1
  BY TaskAssumption, ProgramAssumption DEF OneReader
<1>2. In[t] \in Seq(PipeNames)
  BY <1>1, ProgramAssumption
<1> QED
  BY <1>1, <1>2

LEMMA OwnRead ==
  ASSUME OneReader, TypeOK, ProgramInv, FedInv, NEW t \in Fed, ReadInput(t)
  PROVE  FedOne(t)' /\ prog[t].read = << >> /\ pipe[In[t][1]] # << >>
<1>1. t \in Tasks \ VoterTasks /\ Len(In[t]) = 1
  BY OneInput
<1>2. /\ IsProcess(prog'[t])
      /\ \E p \in PipeNames :
           /\ Len(prog[t].read) + 1 \in DOMAIN In[t]
           /\ p = In[t][Len(prog[t].read) + 1]
           /\ prog'[t].read = Append(prog[t].read,
                                     IF pipe[p] = << >> THEN NoData ELSE Head(pipe[p]))
           /\ Len(prog[t].read) + 1 = Len(In[t]) => IsText(prog'[t].text)
  BY <1>1, ReadEffects
<1>3. prog[t].read = << >>
  <2>1. FedOne(t)
    BY DEF FedInv
  <2>2. ASSUME NEW m, prog[t].read = <<m>>
        PROVE  FALSE
    <3>1. In[t] \in Seq(PipeNames)
      BY <1>1, ProgramAssumption
    <3>2. Len(prog[t].read) = 1
      BY <2>2
    <3> QED
      BY <1>1, <1>2, <3>1, <3>2
  <2> QED
    BY <2>1, <2>2 DEF FedOne
<1>4. Running(t) /\ UNCHANGED <<state, child>>
  BY DEF ReadInput, schedVars, taskVars, procVars
<1>5. pipe[In[t][1]] # << >> /\ prog[t].text = NoData
  BY <1>3, <1>4 DEF FedInv, FedOne
<1>6. PICK m : m = Head(pipe[In[t][1]])
  OBVIOUS
<1>7. prog'[t].read = <<m>> /\ IsText(prog'[t].text)
  <2>1. Len(prog[t].read) + 1 = 1
    BY <1>3
  <2>2. prog'[t].read = Append(<< >>, m) /\ IsText(prog'[t].text)
    BY <1>1, <1>2, <1>3, <1>5, <1>6, <2>1
  <2> QED
    BY <2>2
<1>8. IsText(m)
  <2>1. TextSeq(pipe[In[t][1]])
    BY OneInput DEF ProgramInv
  <2> QED
    BY <1>5, <1>6, <2>1, TextHead
<1>9. state[t] # "fireable"
  BY <1>1, <1>4, <1>5 DEF ProgramInv, Waiting
<1>10. <<m>> # << >>
  OBVIOUS
<1> QED
  BY <1>3, <1>4, <1>5, <1>7, <1>8, <1>9, <1>10 DEF FedOne

LEMMA FedStep ==
  ASSUME OneReader, TypeOK, ProgramInv, FedInv, [FCNext]_fcVars
  PROVE  FedInv'
<1> SUFFICES ASSUME NEW t \in Fed
             PROVE  FedOne(t)'
  BY DEF FedInv
<1>1. FedOne(t)
  BY DEF FedInv
<1>2. t \in Tasks \ VoterTasks /\ In[t] # << >> /\ 1 \in DOMAIN In[t] /\ In[t][1] \in PipeNames
  BY OneInput
<1>3. ASSUME UNCHANGED <<prog[t].read, prog[t].text>>,
             pipe[In[t][1]] # << >> => pipe'[In[t][1]] # << >>,
             Running(t)' => Running(t),
             state'[t] = "fireable" => state[t] = "fireable" \/ pipe'[In[t][1]] # << >>
      PROVE  FedOne(t)'
  BY <1>1, <1>3 DEF FedOne
<1>4. /\ DOMAIN prog = Tasks /\ \A u \in Tasks : IsProcess(prog[u])
      /\ DOMAIN pipe = PipeNames /\ \A p \in PipeNames : TextSeq(pipe[p])
      /\ \A u \in Tasks : prog[u].text = NoData \/ IsText(prog[u].text)
  BY DEF ProgramInv
<1>5. ASSUME NEW u \in Tasks, Sample(u)
      PROVE  FedOne(t)'
  <2>1. u # t
    BY <1>2, <1>5 DEF Sample
  <2>2. PICK m \in Outcomes(u, << >>) : prog' = [prog EXCEPT ![u].read = << >>, ![u].text = m]
    BY <1>5 DEF Sample, Computed
  <2>3. prog'[t] = prog[t]
    BY <1>2, <1>4, <2>1, <2>2
  <2> QED
    BY <1>3, <1>5, <2>3 DEF Sample, schedVars, taskVars, procVars, Running
<1>6. ASSUME NEW u \in Tasks, ReadInput(u)
      PROVE  FedOne(t)'
  <2>1. CASE u = t
    BY <1>6, <2>1, OwnRead
  <2>2. CASE u # t
    <3>1. prog'[t] = prog[t]
      BY <1>2, <1>6, <2>2, ReadEffects
    <3>2. PICK p \in PipeNames :
            /\ \A q \in PipeNames \ {p} : pipe'[q] = pipe[q]
            /\ Len(prog[u].read) + 1 \in DOMAIN In[u]
            /\ p = In[u][Len(prog[u].read) + 1]
      BY <1>6, ReadEffects
    <3>3. p # In[t][1]
      BY <2>2, <3>2 DEF OneReader
    <3>4. pipe'[In[t][1]] = pipe[In[t][1]]
      BY <1>2, <3>2, <3>3
    <3>5. UNCHANGED <<state, child>>
      BY <1>6 DEF ReadInput, schedVars, taskVars, procVars
    <3> QED
      BY <1>3, <3>1, <3>4, <3>5 DEF Running
  <2> QED
    BY <2>1, <2>2
<1>7. ASSUME NEW u \in Tasks, NEW p, IsText(p.text), WriteData(u, p)
      PROVE  pipe[In[t][1]] # << >> => pipe'[In[t][1]] # << >>
  BY <1>2, <1>4, <1>7, WriteEffects, TextAppend
<1>8. ASSUME NEW u \in Tasks, WriteOutput(u)
      PROVE  FedOne(t)'
  <2>1. WriteData(u, prog[u]) /\ prog' = [prog EXCEPT ![u].written = @ + 1]
        /\ prog[u].text # NoData
    BY <1>8 DEF WriteOutput, Done
  <2>2. prog'[t].read = prog[t].read /\ prog'[t].text = prog[t].text
    BY <1>2, <1>4, <2>1 DEF IsProcess
  <2>3. pipe[In[t][1]] # << >> => pipe'[In[t][1]] # << >>
    BY <1>4, <1>7, <2>1
  <2>4. UNCHANGED <<state, child>>
    BY <1>8 DEF WriteOutput, schedVars, taskVars, procVars
  <2> QED
    BY <1>3, <2>2, <2>3, <2>4 DEF Running
<1>9. ASSUME NEW u \in Tasks, StrayWrite(u)
      PROVE  FedOne(t)'
  <2>1. PICK k \in DOMAIN strays[u] : WriteData(u, strays[u][k])
    BY <1>9 DEF StrayWrite
  <2>2. IsText(strays[u][k].text)
    BY <2>1, StrayTexts
  <2>3. PICK p : p = strays[u][k]
    OBVIOUS
  <2>4. pipe[In[t][1]] # << >> => pipe'[In[t][1]] # << >>
    BY <1>7, <2>1, <2>2, <2>3
  <2> QED
    BY <1>3, <1>9, <2>4 DEF StrayWrite, schedVars, taskVars, procVars, Running
<1>10. ASSUME NEW u \in Tasks, StrayExit(u)
       PROVE  FedOne(t)'
  BY <1>3, <1>10 DEF StrayExit, OrphanExit, taskVars, Running
<1>11. ASSUME NEW u \in Tasks, Finish(u) \/ Crash(u)
       PROVE  FedOne(t)'
  <2>1. /\ prog' = [prog EXCEPT ![u] = Fresh] /\ UNCHANGED <<pipe, state>>
        /\ ~ Running(u)' /\ (u # t => child'[t] = child[t])
    BY <1>2, <1>11, ExitEffects
  <2>2. CASE u = t
    BY <1>1, <1>2, <1>4, <2>1, <2>2, Texts0 DEF FedOne
  <2>3. CASE u # t
    <3>1. prog'[t] = prog[t]
      BY <1>2, <1>4, <2>1, <2>3
    <3> QED
      BY <1>3, <2>1, <2>3, <3>1 DEF Running
  <2> QED
    BY <2>2, <2>3
<1>12. ASSUME NEW u \in Tasks, Launch(u)
       PROVE  FedOne(t)'
  <2>1. /\ state' = [state EXCEPT ![u] = "running"] /\ state[u] = "fireable"
        /\ child' = [child EXCEPT ![u] = "alive"] /\ prog' = [prog EXCEPT ![u] = Fresh]
        /\ UNCHANGED pipe
    BY <1>12 DEF Launch, RunTask, Highest, Fireable
  <2>2. CASE u = t
    BY <1>1, <1>2, <1>4, <2>1, <2>2, Texts0 DEF FedOne
  <2>3. CASE u # t
    BY <1>2, <1>3, <1>4, <2>1, <2>3 DEF TypeOK, Running
  <2> QED
    BY <2>2, <2>3
<1>13. ASSUME NEW u \in Tasks, Monitor(u), UNCHANGED <<prog, pipe>>
       PROVE  FedOne(t)'
  <2>1. Running(t)' => Running(t)
    BY <1>2, <1>13 DEF Monitor, MonitorReap, MonitorStuck, MonitorWait, MonitorDispatch,
                       procVars, Running, TypeOK
  <2>2. ASSUME state'[t] = "fireable", state[t] # "fireable"
        PROVE  pipe[In[t][1]] # << >>
    <3>1. CASE MonitorDispatch(u, InputReady(u))
      <4>1. u = t
        BY <1>2, <2>2, <3>1 DEF MonitorDispatch, TypeOK
      <4>2. InputFull(t, InputReady(t))
        BY <2>2, <3>1, <4>1 DEF MonitorDispatch
      <4>3. InputReady(t)
        BY <1>2, <4>2 DEF InputFull
      <4> QED
        BY <1>2, <4>3 DEF InputReady
    <3>2. CASE MonitorReap(u) \/ MonitorStuck(u) \/ MonitorWait(u)
      BY <1>2, <2>2, <3>2 DEF MonitorReap, MonitorStuck, MonitorWait, HandleTaskCompletion,
                              taskVars, TypeOK
    <3> QED
      BY <1>13, <3>1, <3>2 DEF Monitor
  <2> QED
    BY <1>3, <1>13, <2>1, <2>2
<1>14. ASSUME \/ CheckActive(0) \/ Tick \/ LogResults \/ PrintResults \/ WriteResults
              \/ \E u \in Tasks : Cleanup(u),
              UNCHANGED <<prog, pipe>>
       PROVE  FedOne(t)'
  <2>1. state' = state
    BY <1>14 DEF CheckActive, Tick, LogResults, PrintResults, WriteResults, Cleanup, taskVars
  <2>2. Running(t)' => Running(t)
    <3>1. CASE \E u \in Tasks : Cleanup(u)
      BY <1>2, <3>1 DEF Cleanup, Running, TypeOK
    <3>2. CASE CheckActive(0) \/ Tick \/ LogResults \/ PrintResults \/ WriteResults
      BY <3>2 DEF CheckActive, Tick, LogResults, PrintResults, WriteResults, procVars, Running
    <3> QED
      BY <1>14, <3>1, <3>2
  <2> QED
    BY <1>3, <1>14, <2>1, <2>2
<1>15. CASE Loop
  BY <1>13, <1>14, <1>15 DEF Loop, progVars
<1>16. CASE FCTerminated \/ UNCHANGED fcVars
  BY <1>3, <1>16 DEF FCTerminated, Terminated, progVars, fcVars, vars, taskVars, procVars, Running
<1> QED
  BY <1>5, <1>6, <1>8, <1>9, <1>10, <1>11, <1>12, <1>15, <1>16 DEF FCNext, Program

LEMMA FedInit ==
  ASSUME OneReader, FCInit
  PROVE  FedInv
BY OneInput, Texts0 DEF FCInit, Init, FedInv, FedOne, Running

(* Theorem: where every pipe has one reader, no program that select() found *)
(* an input for reads an empty pipe, whatever crashes, is given up, is      *)
(* launched again or answers wrong in between (task_input_full is asked in  *)
(* monitor_tasks, before find_core, the fork and read_data).                *)
THEOREM InputFoundTrue ==
  ASSUME OneReader
  PROVE  FCSpec => []InputFound
<1>1. FCInit => ProgramInv /\ FedInv
  BY ProgramInit, FedInit
<1>2. TypeOK /\ ProgramInv /\ FedInv /\ [FCNext]_fcVars => ProgramInv' /\ FedInv'
  BY ProgramStep, FedStep
<1>3. ProgramInv /\ FedInv => InputFound
  <2> SUFFICES ASSUME FedInv, NEW t \in Fed, NEW i \in DOMAIN prog[t].read
               PROVE  prog[t].read[i] # NoData
    BY DEF InputFound
  <2>1. PICK m : IsText(m) /\ prog[t].read = <<m>>
    BY DEF FedInv, FedOne
  <2> QED
    BY <2>1, Texts0
<1>4. FCSpec => []TypeOK
  BY ImplementsScheduler, TypeCorrect, PTL
<1> QED
  BY <1>1, <1>2, <1>3, <1>4, PTL DEF FCSpec


(****************************************************************************)
(* Where no program computes a wrong value, a task that refuses its input   *)
(* has met a text that a read has cut, and nothing else: not the absence of *)
(* one, not the rest of an older run, not a mixture of two.  So as long as  *)
(* no pipe holds more than a read takes, whatever crashes or is given up,   *)
(* no task but a voter (which may find no answer at all) refuses its input. *)
(****************************************************************************)
Ours(t, m) == m.value = "good" /\ m.len = Length[t]
Sound(p, m) == \E w \in Tasks : \E k \in DOMAIN Out[w] : Out[w][k] = p /\ Ours(w, m)
Answer(t, m) == Ours(t, m) \/ (t \in VoterTasks /\ Refused(m))

PipeSound(p, q) == \E S : q \in Seq(S) /\ \A m \in S : Sound(p, m)
VoteSound(t, q) == \E S : q \in Seq(S) /\ \A m \in S : m = NoData \/ Ours(t, m)
StraySound(t, q) == \E S : q \in Seq(S) /\ \A x \in S : IsProcess(x) /\ Answer(t, x.text)

ContentInv ==
  /\ \A p \in PipeNames : PipeSound(p, pipe[p])
  /\ \A t \in Tasks : prog[t].text = NoData \/ Answer(t, prog[t].text)
  /\ \A v \in VoterTasks : VoteSound(v, prog[v].read)
  /\ \A t \in Tasks : StraySound(t, strays[t])

NothingRefused == \A t \in Tasks \ VoterTasks : ~ Failed(t)

Honest == OneReader /\ Forwards /\ Wrong = {}

(* No pipe holds more than a read takes.                                    *)
ReadsWhole == \A p \in PipeNames : Bytes(pipe[p], Len(pipe[p])) <= ReadCap

LEMMA EmptySound ==
  /\ \A p : PipeSound(p, << >>)
  /\ \A t : VoteSound(t, << >>) /\ StraySound(t, << >>)
<1>1. PICK S : S = {}
  OBVIOUS
<1>2. << >> \in Seq(S) /\ \A m : m \notin S
  BY <1>1
<1> QED
  BY <1>2, Zenon DEF PipeSound, VoteSound, StraySound

(* What a program computes from sound texts.                                *)
LEMMA OutcomeSound ==
  ASSUME Honest, NEW t \in Tasks, NEW read, NEW text \in Outcomes(t, read),
         t \in VoterTasks => VoteSound(t, read),
         t \notin VoterTasks /\ t # Source => Sound(In[t][1], read[1])
  PROVE  Answer(t, text)
<1>1. \A value \in Values(t) : \A n : Ours(t, Message(t, value, n))
  BY DEF Honest, Values, Ours, Message
<1>2. CASE t = Source
  <2>1. Outcomes(t, read) = Sampled(t)
    BY <1>2, ProgramAssumption DEF Outcomes
  <2> QED
    BY <1>1, <2>1 DEF Sampled, Answer
<1>3. CASE t # Source /\ t \in VoterTasks
  <2>1. text = Vote(read)
    BY <1>3 DEF Outcomes
  <2>2. PICK S : read \in Seq(S) /\ \A x \in S : x = NoData \/ Ours(t, x)
    BY <1>3 DEF VoteSound
  <2>3. Refused(Failure("exit1"))
    BY DEF Refused, Failure, NoData
  <2> QED
    BY <1>3, <2>1, <2>2, <2>3, VoteChooses DEF Answer
<1>4. CASE t # Source /\ t \notin VoterTasks
  <2>1. Outcomes(t, read) = Processed(t, read[1])
    BY <1>4 DEF Outcomes
  <2>2. Expected(t, read[1])
    BY <1>4 DEF Sound, Ours, Expected
  <2>3. read[1] # NoData
    BY <2>2 DEF Expected, NoData
  <2> QED
    BY <1>1, <2>1, <2>2, <2>3 DEF Processed, Answer
<1> QED
  BY <1>2, <1>3, <1>4

(* A process that writes adds a sound text to its pipe.                     *)
LEMMA WriteSound ==
  ASSUME ContentInv, ProgramInv, NEW t \in Tasks, NEW p, p.written \in Nat, Ours(t, p.text),
         WriteData(t, p)
  PROVE  \A x \in PipeNames : PipeSound(x, pipe'[x])
<1>1. PICK k : k = p.written + 1
  OBVIOUS
<1>2. k <= Len(Out[t]) /\ pipe' = [pipe EXCEPT ![Out[t][k]] = Append(@, p.text)]
  BY <1>1 DEF WriteData
<1>3. k \in DOMAIN Out[t]
  <2>1. Out[t] \in Seq(PipeNames)
    BY ProgramAssumption
  <2> QED
    BY <1>1, <1>2, <2>1
<1> SUFFICES ASSUME NEW x \in PipeNames
             PROVE  PipeSound(x, pipe'[x])
  OBVIOUS
<1>4. DOMAIN pipe = PipeNames /\ PipeSound(x, pipe[x])
  BY DEF ProgramInv, ContentInv
<1>5. CASE x # Out[t][k]
  BY <1>2, <1>4, <1>5
<1>6. CASE x = Out[t][k]
  <2>1. PICK S : pipe[x] \in Seq(S) /\ \A m \in S : Sound(x, m)
    BY <1>4 DEF PipeSound
  <2>2. PICK m : m = p.text
    OBVIOUS
  <2>3. Sound(x, m)
    BY <1>3, <1>6, <2>2 DEF Sound
  <2>4. pipe'[x] = Append(pipe[x], m)
    BY <1>2, <1>4, <1>6, <2>2
  <2>5. pipe[x] \in Seq(S \cup {m})
    BY <2>1
  <2>6. Append(pipe[x], m) \in Seq(S \cup {m})
    BY <2>5
  <2>7. \A y \in S \cup {m} : Sound(x, y)
    BY <2>1, <2>3
  <2> QED
    BY <2>4, <2>6, <2>7 DEF PipeSound
<1> QED
  BY <1>5, <1>6


LEMMA ReadSound ==
  ASSUME Honest, ReadsWhole, TypeOK, ProgramInv, FedInv, ContentInv, NEW t \in Tasks, ReadInput(t)
  PROVE  ContentInv'
<1>1. /\ DOMAIN prog' = Tasks /\ \A u \in Tasks \ {t} : prog'[u] = prog[u]
      /\ UNCHANGED strays
  BY ReadEffects DEF ReadInput
<1>2. PICK p \in PipeNames :
        /\ DOMAIN pipe' = PipeNames /\ \A q \in PipeNames \ {p} : pipe'[q] = pipe[q]
        /\ pipe'[p] = AfterRead(pipe[p], ReadCap)
        /\ Len(prog[t].read) + 1 \in DOMAIN In[t]
        /\ p = In[t][Len(prog[t].read) + 1]
        /\ prog'[t].read = Append(prog[t].read,
                                  IF pipe[p] = << >> THEN NoData ELSE Head(pipe[p]))
        /\ IF Len(prog[t].read) + 1 = Len(In[t])
           THEN IsText(prog'[t].text) /\ prog'[t].text \in Outcomes(t, prog'[t].read)
           ELSE prog'[t].text = prog[t].text
  BY ReadEffects
<1>3. PICK S : pipe[p] \in Seq(S) /\ \A m \in S : Sound(p, m)
  BY DEF ContentInv, PipeSound
<1>4. \A m \in S : m.len \in Nat
  BY <1>3, ProgramAssumption DEF Sound, Ours
<1>5. pipe'[p] = << >>
  BY <1>2, <1>3, <1>4, ReadAll DEF ReadsWhole
<1>6. \A x \in PipeNames : PipeSound(x, pipe'[x])
  BY <1>2, <1>5, EmptySound DEF ContentInv
<1>7. PICK m : m = IF pipe[p] = << >> THEN NoData ELSE Head(pipe[p])
  OBVIOUS
<1>8. pipe[p] # << >> => Sound(p, m)
  BY <1>3, <1>7
<1>9. ASSUME t \in VoterTasks
      PROVE  VoteSound(t, prog'[t].read)
  <2>1. m = NoData \/ Ours(t, m)
    <3> SUFFICES ASSUME m # NoData
                 PROVE  Ours(t, m)
      OBVIOUS
    <3>1. PICK w \in Tasks : \E k \in DOMAIN Out[w] : Out[w][k] = p /\ Ours(w, m)
      BY <1>7, <1>8 DEF Sound
    <3>2. Length[w] = Length[t]
      BY <1>2, <1>9, <3>1 DEF Honest, Forwards
    <3> QED
      BY <3>1, <3>2 DEF Ours
  <2>2. PICK R : prog[t].read \in Seq(R) /\ \A x \in R : x = NoData \/ Ours(t, x)
    BY <1>9 DEF ContentInv, VoteSound
  <2>3. prog[t].read \in Seq(R \cup {m})
    BY <2>2
  <2>4. Append(prog[t].read, m) \in Seq(R \cup {m})
    BY <2>3
  <2>5. \A x \in R \cup {m} : x = NoData \/ Ours(t, x)
    BY <2>1, <2>2
  <2>6. prog'[t].read = Append(prog[t].read, m)
    BY <1>2, <1>7
  <2> QED
    BY <2>4, <2>5, <2>6 DEF VoteSound
<1>10. ASSUME t \notin VoterTasks, t # Source
       PROVE  Sound(In[t][1], prog'[t].read[1])
  <2>1. t \in Fed
    BY <1>10, ProgramAssumption
  <2>2. prog[t].read = << >> /\ pipe[In[t][1]] # << >>
    BY <2>1, OwnRead DEF Honest
  <2>3. Len(prog[t].read) + 1 = 1
    BY <2>2
  <2>4. p = In[t][1] /\ prog'[t].read = Append(<< >>, m)
    BY <1>2, <1>7, <2>2, <2>3
  <2>5. prog'[t].read[1] = m
    BY <2>4
  <2> QED
    BY <1>8, <2>2, <2>4, <2>5
<1>11. prog'[t].text = NoData \/ Answer(t, prog'[t].text)
  <2>1. CASE Len(prog[t].read) + 1 = Len(In[t])
    <3>1. prog'[t].text \in Outcomes(t, prog'[t].read)
      BY <1>2, <2>1
    <3>2. PICK read, text : read = prog'[t].read /\ text = prog'[t].text
      OBVIOUS
    <3>3. text \in Outcomes(t, read) /\ (t \in VoterTasks => VoteSound(t, read))
          /\ (t \notin VoterTasks /\ t # Source => Sound(In[t][1], read[1]))
      BY <1>9, <1>10, <3>1, <3>2
    <3>4. Answer(t, text)
      BY <3>3, OutcomeSound
    <3> QED
      BY <3>2, <3>4
  <2>2. CASE Len(prog[t].read) + 1 # Len(In[t])
    <3>1. prog'[t].text = prog[t].text
      BY <1>2, <2>2
    <3> QED
      BY <3>1 DEF ContentInv
  <2> QED
    BY <2>1, <2>2
<1>12. \A u \in Tasks : prog'[u].text = NoData \/ Answer(u, prog'[u].text)
  BY <1>1, <1>11 DEF ContentInv
<1>13. \A v \in VoterTasks : VoteSound(v, prog'[v].read)
  <2>1. \A v \in VoterTasks : v \in Tasks
    BY VoterAssumption
  <2> QED
    BY <1>1, <1>9, <2>1 DEF ContentInv
<1>14. \A u \in Tasks : StraySound(u, strays'[u])
  BY <1>1 DEF ContentInv
<1> QED
  BY <1>6, <1>12, <1>13, <1>14 DEF ContentInv

LEMMA ContentStep ==
  ASSUME Honest, ReadsWhole, TypeOK, ProgramInv, FedInv, ContentInv, [FCNext]_fcVars
  PROVE  ContentInv'
<1> DEFINE PipesOf == \A p \in PipeNames : PipeSound(p, pipe[p])
           ProgOK(t) == /\ prog[t].text = NoData \/ Answer(t, prog[t].text)
                        /\ t \in VoterTasks => VoteSound(t, prog[t].read)
           ProgsOf == \A t \in Tasks : ProgOK(t)
           StraysOf == \A t \in Tasks : StraySound(t, strays[t])
<1>1. VoterTasks \subseteq Tasks
  BY VoterAssumption
<1>2. PipesOf /\ ProgsOf /\ StraysOf
  BY <1>1 DEF ContentInv
<1>3. ASSUME PipesOf', ProgsOf', StraysOf'
      PROVE  ContentInv'
  BY <1>1, <1>3 DEF ContentInv
<1>4. ASSUME UNCHANGED <<pipe, prog, strays>>
      PROVE  ContentInv'
  BY <1>2, <1>3, <1>4
<1>5. ASSUME NEW t \in Tasks, ProgOK(t)', \A u \in Tasks \ {t} : prog'[u] = prog[u]
      PROVE  ProgsOf'
  BY <1>2, <1>5
<1>6. /\ DOMAIN prog = Tasks /\ \A t \in Tasks : IsProcess(prog[t])
      /\ DOMAIN strays = Tasks
  BY DEF ProgramInv
<1>7. ASSUME NEW t \in Tasks, Sample(t)
      PROVE  ContentInv'
  <2>1. PICK text \in Outcomes(t, << >>) :
          prog' = [prog EXCEPT ![t].read = << >>, ![t].text = text]
    BY <1>7 DEF Sample, Computed
  <2>2. t = Source
    BY <1>7, ProgramAssumption DEF Sample
  <2>3. Answer(t, text)
    BY <2>2, ProgramAssumption, OutcomeSound
  <2>4. ProgOK(t)' /\ \A u \in Tasks \ {t} : prog'[u] = prog[u]
    BY <1>6, <2>1, <2>2, <2>3, ProgramAssumption DEF IsProcess
  <2>5. UNCHANGED <<pipe, strays>>
    BY <1>7 DEF Sample
  <2> QED
    BY <1>2, <1>3, <1>5, <2>4, <2>5
<1>8. ASSUME NEW t \in Tasks, ReadInput(t)
      PROVE  ContentInv'
  BY <1>8, ReadSound
<1>9. ASSUME NEW t \in Tasks, WriteOutput(t)
      PROVE  ContentInv'
  <2>1. WriteData(t, prog[t]) /\ prog[t].text # NoData /\ ~ Refused(prog[t].text)
        /\ prog' = [prog EXCEPT ![t].written = @ + 1] /\ strays' = strays
    BY <1>9 DEF WriteOutput, Done, Failed
  <2>2. Ours(t, prog[t].text) /\ prog[t].written \in Nat
    BY <1>2, <1>6, <2>1 DEF Answer, IsProcess
  <2>3. PipesOf'
    BY <2>1, <2>2, WriteSound
  <2>4. /\ prog'[t].text = prog[t].text /\ prog'[t].read = prog[t].read
        /\ \A u \in Tasks \ {t} : prog'[u] = prog[u]
    BY <1>6, <2>1 DEF IsProcess
  <2>5. ProgsOf'
    BY <1>2, <1>5, <2>4
  <2> QED
    BY <1>2, <1>3, <2>1, <2>3, <2>5
<1>10. ASSUME NEW t \in Tasks, StrayWrite(t)
       PROVE  ContentInv'
  <2>1. PICK k \in DOMAIN strays[t] :
          /\ ~ Refused(strays[t][k].text)
          /\ WriteData(t, strays[t][k])
          /\ strays' = [strays EXCEPT ![t][k].written = @ + 1]
          /\ UNCHANGED prog
    BY <1>10 DEF StrayWrite
  <2>2. PICK S : strays[t] \in Seq(S) /\ \A x \in S : IsProcess(x) /\ Answer(t, x.text)
    BY <1>2 DEF StraySound
  <2>3. PICK p, r : p = strays[t][k] /\ r = [p EXCEPT !.written = @ + 1]
    OBVIOUS
  <2>4. p \in S /\ Ours(t, p.text) /\ p.written \in Nat
    BY <2>1, <2>2, <2>3 DEF Answer, IsProcess
  <2>5. IsProcess(r) /\ r.text = p.text
    BY <2>2, <2>3, <2>4 DEF IsProcess
  <2>6. PipesOf'
    BY <2>1, <2>3, <2>4, WriteSound
  <2>7. PICK q : q = [strays[t] EXCEPT ![k] = r]
    OBVIOUS
  <2>8. StraySound(t, q)
    <3>1. strays[t] \in Seq(S \cup {r})
      BY <2>2
    <3>2. q \in Seq(S \cup {r})
      BY <2>7, <3>1
    <3>3. \A x \in S \cup {r} : IsProcess(x) /\ Answer(t, x.text)
      BY <2>2, <2>4, <2>5
    <3> QED
      BY <3>2, <3>3 DEF StraySound
  <2>9. strays' = [strays EXCEPT ![t] = q]
    BY <2>1, <2>3, <2>7
  <2>10. StraysOf'
    BY <1>2, <1>6, <2>8, <2>9
  <2> QED
    BY <1>2, <1>3, <2>1, <2>6, <2>10
<1>11. ASSUME NEW t \in Tasks, StrayExit(t)
       PROVE  ContentInv'
  <2>1. PICK k \in DOMAIN strays[t] :
          strays' = [strays EXCEPT ![t] = SubSeq(@, 1, k - 1) \o SubSeq(@, k + 1, Len(@))]
    BY <1>11 DEF StrayExit
  <2>2. PICK S : strays[t] \in Seq(S) /\ \A x \in S : IsProcess(x) /\ Answer(t, x.text)
    BY <1>2 DEF StraySound
  <2>3. PICK q : q = SubSeq(strays[t], 1, k - 1) \o SubSeq(strays[t], k + 1, Len(strays[t]))
    OBVIOUS
  <2>4. q \in Seq(S)
    <3>1. k \in 1 .. Len(strays[t]) /\ Len(strays[t]) \in Nat
      BY <2>2
    <3>2. /\ SubSeq(strays[t], 1, k - 1) \in Seq(S)
          /\ SubSeq(strays[t], k + 1, Len(strays[t])) \in Seq(S)
      BY <2>2, <3>1
    <3> QED
      BY <2>3, <3>2, ConcatProperties
  <2>5. strays' = [strays EXCEPT ![t] = q]
    BY <2>1, <2>3
  <2>6. StraySound(t, q)
    BY <2>2, <2>4 DEF StraySound
  <2>7. StraysOf'
    BY <1>2, <1>6, <2>5, <2>6
  <2>8. UNCHANGED <<pipe, prog>>
    BY <1>11 DEF StrayExit
  <2> QED
    BY <1>2, <1>3, <2>7, <2>8
<1>12. ASSUME NEW t \in Tasks, prog' = [prog EXCEPT ![t] = Fresh]
       PROVE  ProgsOf'
  BY <1>2, <1>6, <1>12, EmptySound, Texts0
<1>13. ASSUME NEW t \in Tasks, Finish(t) \/ Crash(t)
       PROVE  ContentInv'
  BY <1>2, <1>3, <1>12, <1>13, ExitEffects
<1>14. ASSUME NEW t \in Tasks, Launch(t)
       PROVE  ContentInv'
  <2>1. /\ prog' = [prog EXCEPT ![t] = Fresh] /\ UNCHANGED pipe
        /\ strays' = [strays EXCEPT ![t] = IF Running(t) THEN Append(@, prog[t]) ELSE @]
    BY <1>14 DEF Launch
  <2>2. StraysOf'
    <3>1. CASE Running(t)
      <4>1. prog[t].text # NoData
        BY <1>14, <3>1 DEF Launch, RunTask, Highest, Fireable, ProgramInv, Waiting
      <4>2. PICK r, q : r = prog[t] /\ q = Append(strays[t], r)
        OBVIOUS
      <4>3. IsProcess(r) /\ Answer(t, r.text)
        BY <1>2, <1>6, <4>1, <4>2
      <4>4. PICK S : strays[t] \in Seq(S) /\ \A x \in S : IsProcess(x) /\ Answer(t, x.text)
        BY <1>2 DEF StraySound
      <4>5. strays[t] \in Seq(S \cup {r})
        BY <4>4
      <4>6. q \in Seq(S \cup {r}) /\ \A x \in S \cup {r} : IsProcess(x) /\ Answer(t, x.text)
        BY <4>2, <4>3, <4>4, <4>5
      <4>7. StraySound(t, q)
        BY <4>6 DEF StraySound
      <4>8. strays' = [strays EXCEPT ![t] = q]
        BY <2>1, <3>1, <4>2
      <4> QED
        BY <1>2, <1>6, <4>7, <4>8
    <3>2. CASE ~ Running(t)
      <4>1. strays' = [strays EXCEPT ![t] = strays[t]]
        BY <2>1, <3>2
      <4> QED
        BY <1>2, <1>6, <4>1
    <3> QED
      BY <3>1, <3>2
  <2> QED
    BY <1>2, <1>3, <1>12, <2>1, <2>2
<1>15. CASE Loop \/ FCTerminated \/ UNCHANGED fcVars
  BY <1>4, <1>15 DEF Loop, FCTerminated, progVars, fcVars
<1> QED
  BY <1>7, <1>8, <1>9, <1>10, <1>11, <1>13, <1>14, <1>15 DEF FCNext, Program

(* Theorem: without wrong values, and while no pipe holds more than a read  *)
(* takes, no program but a voter refuses its input: what process_data and   *)
(* control_actuators compare with the expected text is one, after any       *)
(* crash, any late write of a process given up and any vote.                *)
THEOREM OnlyCutsRefused ==
  ASSUME Honest
  PROVE  FCSpec /\ []ReadsWhole => []NothingRefused
<1>1. FCInit => ProgramInv /\ FedInv /\ ContentInv
  <2>1. FCInit => ContentInv
    <3>1. VoterTasks \subseteq Tasks
      BY VoterAssumption
    <3> QED
      BY <3>1, EmptySound, Texts0 DEF FCInit, ContentInv
  <2> QED
    BY <2>1, ProgramInit, FedInit DEF Honest
<1>2. ReadsWhole /\ TypeOK /\ ProgramInv /\ FedInv /\ ContentInv /\ [FCNext]_fcVars
        => ProgramInv' /\ FedInv' /\ ContentInv'
  BY ProgramStep, FedStep, ContentStep DEF Honest
<1>3. ContentInv => NothingRefused
  BY DEF ContentInv, NothingRefused, Failed, Refused, Answer, Ours, NoData
<1>4. FCSpec => []TypeOK
  BY ImplementsScheduler, TypeCorrect, PTL
<1> QED
  BY <1>1, <1>2, <1>3, <1>4, PTL DEF FCSpec

(* Theorem: so in a build without voters, as the baseline, a fault stays    *)
(* where it is.                                                             *)
THEOREM FaultsContained ==
  ASSUME Honest, VoterTasks = {}
  PROVE  FCSpec /\ []ReadsWhole => []FaultContained
<1>1. NothingRefused => FaultContained
  BY DEF NothingRefused, FaultContained
<1> QED
  BY <1>1, OnlyCutsRefused, PTL

===============================================================================
