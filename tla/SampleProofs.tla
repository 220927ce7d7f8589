----------------------------- MODULE SampleProofs -----------------------------
(****************************************************************************)
(* No sample drives the actuators twice, in a pipeline in which every       *)
(* program reads one pipe and writes one at most (OneInOneOut, as the       *)
(* baseline build's A, B and C): whatever crashes, is cut in a read, or is  *)
(* given up and writes late next to a new process.                          *)
(*                                                                          *)
(* That the samples differ is not inductive, as it says nothing of those on *)
(* their way.  SampleInv says where each sample is: not launched yet, in    *)
(* one pipe, with one process, with one given up, or at the actuators; a    *)
(* step moves it from one of these to the next.  That a process given up    *)
(* still has its sample to write needs ProgramInv.                          *)
(*                                                                          *)
(* First come what a read leaves in a pipe, by induction over its texts,    *)
(* and the effect of each step of a program.  The second half proves, for   *)
(* the same pipelines, that refusals are paid for.                          *)
(****************************************************************************)
EXTENDS PipelineProofs, FiniteSetTheorems

(****************************************************************************)
(* What a read leaves.                                                      *)
(****************************************************************************)
(* A read that takes all of the first text leaves the texts from some later *)
(* one on, of which the first may have been cut (pipe::read_data).          *)
LEMMA ReadLeaves ==
  ASSUME NEW S, NEW q \in Seq(S), NEW cap \in Nat, q # << >>,
         \A m \in S : m.len \in Nat, q[1].len <= cap
  PROVE  \/ AfterRead(q, cap) = << >>
         \/ \E k \in 2 .. Len(q), b \in Nat :
              /\ b <= q[k].len /\ b = Bytes(q, k) - cap
              /\ AfterRead(q, cap) = <<[q[k] EXCEPT !.len = b]>> \o SubSeq(q, k + 1, Len(q))
<1> DEFINE gone == {k \in DOMAIN q : Bytes(q, k) <= cap}
           left == DOMAIN q \ gone
<1>1. Len(q) \in Nat \ {0} /\ DOMAIN q = 1 .. Len(q)
  OBVIOUS
<1>2. /\ Bytes(q, 0) = 0
      /\ \A k \in 1 .. Len(q) : Bytes(q, k) = Bytes(q, k - 1) + q[k].len
      /\ \A k \in 0 .. Len(q) : Bytes(q, k) \in Nat
  BY BytesAdd, BytesGrow
<1>3. \A k \in 1 .. Len(q) : q[k].len \in Nat
  OBVIOUS
<1>4. 1 \in gone
  <2>1. Bytes(q, 1) = Bytes(q, 0) + q[1].len
    BY <1>1, <1>2
  <2> QED
    BY <1>1, <1>2, <1>3, <2>1
<1>5. CASE gone = DOMAIN q
  BY <1>5 DEF AfterRead
<1>6. CASE gone # DOMAIN q
  <2> DEFINE k == CHOOSE k \in left : \A j \in left : k <= j
  <2>1. left \in SUBSET Nat /\ left # {} /\ left \subseteq 1 .. Len(q)
    BY <1>1, <1>6
  <2>2. k \in left /\ \A j \in left : k <= j
    <3> HIDE DEF left
    <3> QED
      BY <2>1, LeastNumber
  <2>3. AfterRead(q, cap)
          = <<[q[k] EXCEPT !.len = Bytes(q, k) - cap]>> \o SubSeq(q, k + 1, Len(q))
    BY <1>6 DEF AfterRead
  <2> HIDE DEF k
  <2>4. k \in 2 .. Len(q) /\ k - 1 \in 1 .. Len(q) /\ k - 1 \in gone
    BY <1>1, <1>4, <2>1, <2>2
  <2>5. ~ (Bytes(q, k) <= cap) /\ Bytes(q, k - 1) <= cap
    BY <1>1, <2>2, <2>4
  <2>6. Bytes(q, k) = Bytes(q, k - 1) + q[k].len /\ Bytes(q, k) \in Nat /\ Bytes(q, k - 1) \in Nat
    BY <1>2, <2>4
  <2>7. Bytes(q, k) - cap \in Nat /\ Bytes(q, k) - cap <= q[k].len
    BY <1>3, <2>4, <2>5, <2>6
  <2> QED
    BY <2>3, <2>4, <2>7
<1> QED
  BY <1>5, <1>6

(****************************************************************************)
(* The types of what goes through the pipes.                                *)
(****************************************************************************)
AllValues == {"none", "exit1", "exit2", "good"} \cup Wrong
Texts == [value : AllValues, len : 0 .. ReadCap, round : Nat]
Processes == [read : Seq(Texts), text : Texts, written : Nat]

SampleType ==
  /\ pipe \in [PipeNames -> Seq(Texts)]
  /\ prog \in [Tasks -> Processes]
  /\ strays \in [Tasks -> Seq(Processes)]
  /\ actuated \in Seq(Nat)
  /\ \A t \in Tasks : prog[t].written <= Len(Out[t])
  /\ \A t \in Tasks : \A k \in DOMAIN strays[t] : strays[t][k].written <= Len(Out[t])

(****************************************************************************)
(* Where each sample is.  A process carries the sample of its text until it *)
(* has written it.                                                          *)
(****************************************************************************)
Carries(p) == p.text # NoData /\ ~Refused(p.text) /\ p.written = 0

(* The launches of the source that have not sampled yet.                    *)
Unsampled(n) ==
  \/ n > taskRuns[Source]
  \/ n = taskRuns[Source] /\ Running(Source) /\ prog[Source].text = NoData

At(where, who) == <<where, who>>

(* place says of each sample in which pipe it is, or with which task, or    *)
(* that it has driven the actuators: it is nowhere else,                    *)
InPipes(place) ==
  \A p \in PipeNames : \A k \in DOMAIN pipe[p] : place[pipe[p][k].round] = At("pipe", p)
InPrograms(place) ==
  \A t \in Tasks : Carries(prog[t]) => place[prog[t].text.round] = At("process", t)
InStrays(place) ==
  \A t \in Tasks : \A k \in DOMAIN strays[t] :
    Carries(strays[t][k]) => place[strays[t][k].text.round] = At("stray", t)
AtActuators(place) == \A i \in DOMAIN actuated : place[actuated[i]] = At("actuators", Sink)
AtSensors(place) == \A n \in Nat : Unsampled(n) => place[n] = At("sensors", Source)

Located(place) ==
  /\ InPipes(place) /\ InPrograms(place) /\ InStrays(place)
  /\ AtActuators(place) /\ AtSensors(place)

(* and only once there.                                                     *)
PipeOnce ==
  \A p \in PipeNames : \A j, k \in DOMAIN pipe[p] :
    pipe[p][j].round = pipe[p][k].round => j = k

StrayOnce ==
  \A t \in Tasks : \A j, k \in DOMAIN strays[t] :
    /\ Carries(strays[t][j]) /\ Carries(strays[t][k])
    /\ strays[t][j].text.round = strays[t][k].text.round
    => j = k

SampleInv ==
  /\ \E place : Located(place)
  /\ PipeOnce /\ StrayOnce /\ NoSampleRepeated

Moved(place, n, x) == [m \in Nat |-> IF m = n THEN x ELSE place[m]]

(****************************************************************************)
(* Types are kept.                                                          *)
(****************************************************************************)
LEMMA TextTypes ==
  ASSUME OneInOneOut
  PROVE  /\ NoData \in Texts /\ Failure("exit1") \in Texts /\ Failure("exit2") \in Texts
         /\ \A t \in Tasks, value \in AllValues, n \in Nat : Message(t, value, n) \in Texts
         /\ \A m \in Texts : m.len \in Nat /\ m.len <= ReadCap /\ m.round \in Nat
         /\ Fresh \in Processes /\ Fresh.text = NoData /\ Fresh.written = 0
<1>1. ReadCap \in Nat /\ \A t \in Tasks : Length[t] \in 0 .. ReadCap
  BY ProgramAssumption DEF OneInOneOut
<1>2. NoData \in Texts
  BY <1>1 DEF Texts, AllValues, NoData
<1>3. Failure("exit1") \in Texts /\ Failure("exit2") \in Texts
  BY <1>2 DEF Failure, Texts, AllValues
<1>4. \A t \in Tasks, value \in AllValues, n \in Nat : Message(t, value, n) \in Texts
  BY <1>1 DEF Message, Texts
<1>5. \A m \in Texts : m.len \in Nat /\ m.len <= ReadCap /\ m.round \in Nat
  BY <1>1 DEF Texts
<1>6. Fresh \in Processes /\ Fresh.text = NoData /\ Fresh.written = 0
  BY <1>2 DEF Fresh, Processes
<1> QED
  BY <1>2, <1>3, <1>4, <1>5, <1>6

(* What a task that is not the source computes is made of what it read.     *)
LEMMA OutcomeTypes ==
  ASSUME OneInOneOut, taskRuns \in [Tasks -> Nat], NEW t \in Tasks, NEW read,
         t # Source => read[1] \in Texts, NEW m \in Outcomes(t, read)
  PROVE  /\ m \in Texts /\ m # NoData
         /\ t = Source => m.round = taskRuns[t]
         /\ t # Source => Refused(m) \/ m.round = read[1].round
<1>1. \A value \in Values(t) : value \in AllValues /\ value # "none"
  BY ProgramAssumption DEF Values, AllValues
<1>2. CASE t = Source
  <2>1. Outcomes(t, read) = Sampled(t)
    BY <1>2 DEF Outcomes, OneInOneOut
  <2>2. PICK value \in Values(t) : m = Message(t, value, taskRuns[t])
    BY <2>1 DEF Sampled
  <2> QED
    BY <1>1, <1>2, <2>2, TextTypes DEF Message, NoData
<1>3. CASE t # Source
  <2>1. Outcomes(t, read) = Processed(t, read[1])
    BY <1>3 DEF Outcomes, OneInOneOut
  <2>2. m \in Processed(t, read[1])
    BY <2>1
  <2>3. \/ m = Failure("exit1") \/ m = Failure("exit2")
        \/ \E value \in Values(t) : m = Message(t, value, read[1].round)
    BY <2>2 DEF Processed
  <2>4. CASE m = Failure("exit1") \/ m = Failure("exit2")
    BY <1>3, <2>4, TextTypes DEF Refused, Failure, NoData
  <2>5. ASSUME NEW value \in Values(t), m = Message(t, value, read[1].round)
        PROVE  m \in Texts /\ m # NoData /\ m.round = read[1].round
    <3>1. read[1].round \in Nat
      BY <1>3, TextTypes
    <3> QED
      BY <1>1, <2>5, <3>1, TextTypes DEF Message, NoData
  <2> QED
    BY <1>3, <2>3, <2>4, <2>5
<1> QED
  BY <1>2, <1>3

(* A read takes one text at least, and what it leaves are later ones.       *)
LEMMA ReadTypes ==
  ASSUME OneInOneOut, NEW q \in Seq(Texts), q # << >>
  PROVE  /\ AfterRead(q, ReadCap) \in Seq(Texts)
         /\ \E d \in 1 .. Len(q) :
              /\ Len(AfterRead(q, ReadCap)) = Len(q) - d
              /\ \A i \in 1 .. Len(q) - d : AfterRead(q, ReadCap)[i].round = q[i + d].round
<1> DEFINE r == AfterRead(q, ReadCap)
<1>1. /\ ReadCap \in Nat /\ Len(q) \in Nat \ {0}
      /\ \A m \in Texts : m.len \in Nat /\ m.len <= ReadCap /\ m.round \in Nat
      /\ \A k \in 1 .. Len(q) : q[k] \in Texts
  BY TextTypes, ProgramAssumption DEF OneInOneOut
<1>2. CASE r = << >>
  BY <1>1, <1>2
<1>3. ASSUME NEW k \in 2 .. Len(q), NEW b \in Nat, b <= q[k].len,
             r = <<[q[k] EXCEPT !.len = b]>> \o SubSeq(q, k + 1, Len(q))
      PROVE  /\ r \in Seq(Texts) /\ Len(r) = Len(q) - (k - 1)
             /\ \A i \in 1 .. Len(q) - (k - 1) : r[i].round = q[i + (k - 1)].round
  <2> DEFINE m == [q[k] EXCEPT !.len = b]
             rest == SubSeq(q, k + 1, Len(q))
  <2>1. m \in Texts /\ m.round = q[k].round
    <3>1. q[k] \in Texts /\ b \in 0 .. ReadCap
      BY <1>1, <1>3
    <3> QED
      BY <3>1 DEF Texts
  <2>2. rest \in Seq(Texts) /\ Len(rest) = Len(q) - k
    BY <1>1
  <2>3. \A i \in 1 .. Len(q) - k : rest[i] = q[i + k]
    BY <1>1
  <2> HIDE DEF m, rest
  <2>4. r = <<m>> \o rest
    BY <1>3 DEF m, rest
  <2> HIDE DEF r
  <2>5. /\ r \in Seq(Texts) /\ Len(r) = 1 + (Len(q) - k)
        /\ r[1] = m /\ \A i \in 2 .. 1 + (Len(q) - k) : r[i] = rest[i - 1]
    BY <1>1, <2>1, <2>2, <2>4
  <2>6. ASSUME NEW i \in 1 .. Len(q) - (k - 1)
        PROVE  r[i].round = q[i + (k - 1)].round
    <3>1. CASE i = 1
      BY <2>1, <2>5, <3>1
    <3>2. CASE i # 1
      <4>1. i - 1 \in 1 .. Len(q) - k /\ i \in 2 .. 1 + (Len(q) - k) /\ (i - 1) + k = i + (k - 1)
        BY <1>1, <3>2
      <4> QED
        BY <2>3, <2>5, <4>1
    <3> QED
      BY <3>1, <3>2
  <2> QED
    BY <1>1, <2>5, <2>6
<1>4. q[1].len <= ReadCap
  BY <1>1
<1>5. ASSUME r # << >>
      PROVE  \E k \in 2 .. Len(q), b \in Nat :
               /\ b <= q[k].len
               /\ r = <<[q[k] EXCEPT !.len = b]>> \o SubSeq(q, k + 1, Len(q))
  BY <1>1, <1>4, <1>5, ReadLeaves
<1> HIDE DEF r
<1>6. CASE r # << >>
  <2>1. PICK k \in 2 .. Len(q), b \in Nat :
               /\ b <= q[k].len
               /\ r = <<[q[k] EXCEPT !.len = b]>> \o SubSeq(q, k + 1, Len(q))
    BY <1>5, <1>6
  <2>2. k - 1 \in 1 .. Len(q)
    BY <1>1
  <2> QED
    BY <1>3, <2>1, <2>2 DEF r
<1> QED
  BY <1>2, <1>6 DEF r

(****************************************************************************)
(* What the steps of the programs do to the samples.                        *)
(****************************************************************************)
Base == OneInOneOut /\ TypeOK /\ SampleType

LEMMA SampleEffect ==
  ASSUME Base, NEW t \in Tasks, Sample(t)
  PROVE  /\ t = Source /\ Running(t) /\ prog[t].text = NoData
         /\ \E m \in Texts :
              /\ m.round = taskRuns[t] /\ m # NoData
              /\ prog' = [prog EXCEPT ![t].read = << >>, ![t].text = m]
         /\ UNCHANGED <<taskRuns, state, age, child, pipe, strays, actuated>>
<1>1. t = Source
  BY DEF Base, OneInOneOut, Sample
<1>2. PICK m \in Outcomes(t, << >>) : prog' = [prog EXCEPT ![t].read = << >>, ![t].text = m]
  BY DEF Sample, Computed
<1>3. m \in Texts /\ m.round = taskRuns[t] /\ m # NoData
  BY <1>1, OutcomeTypes DEF Base, TypeOK
<1> QED
  BY <1>1, <1>2, <1>3 DEF Sample, schedVars, taskVars, procVars

LEMMA ReadEffect ==
  ASSUME Base, NEW t \in Tasks, ReadInput(t)
  PROVE  /\ t # Source
         /\ \E p \in PipeNames, m \in Texts, read \in Seq(Texts) :
              /\ m # NoData
              /\ prog' = [prog EXCEPT ![t].read = read, ![t].text = m]
              /\ pipe' = [pipe EXCEPT ![p] = AfterRead(@, ReadCap)]
              /\ Refused(m) \/ (pipe[p] # << >> /\ m.round = pipe[p][1].round)
         /\ UNCHANGED <<taskRuns, state, age, child, strays, actuated>>
<1> DEFINE i == Len(prog[t].read) + 1
           q == pipe[In[t][i]]
           text == IF q = << >> THEN NoData ELSE Head(q)
           read == Append(prog[t].read, text)
<1>1. prog[t] \in Processes /\ prog[t].read \in Seq(Texts) /\ In[t] \in Seq(PipeNames)
  BY ProgramAssumption DEF Base, SampleType, Processes
<1>2. i \in Nat \ {0} /\ i <= Len(In[t])
  BY <1>1 DEF ReadInput
<1>3. t # Source /\ Len(In[t]) = 1 /\ i = 1
  BY <1>1, <1>2 DEF Base, OneInOneOut
<1>4. In[t][i] \in PipeNames /\ q \in Seq(Texts)
  BY <1>1, <1>2 DEF Base, SampleType
<1>5. /\ text \in Texts
      /\ q # << >> => text = q[1]
  BY <1>4, TextTypes DEF Base
<1>6. read \in Seq(Texts) /\ read[1] = text
  BY <1>1, <1>3, <1>5
<1>7. PICK m \in Outcomes(t, read) : prog' = [prog EXCEPT ![t].read = read, ![t].text = m]
  BY <1>3 DEF ReadInput, Computed
<1>8. /\ pipe' = [pipe EXCEPT ![In[t][i]] = AfterRead(@, ReadCap)]
      /\ UNCHANGED <<taskRuns, state, age, child, strays, actuated>>
  BY DEF ReadInput, schedVars, taskVars, procVars
<1>9. m \in Texts /\ m # NoData /\ (Refused(m) \/ m.round = text.round)
  <2>1. taskRuns \in [Tasks -> Nat] /\ OneInOneOut
    BY DEF Base, TypeOK
  <2> HIDE DEF i, q, text, read
  <2>2. read[1] \in Texts
    BY <1>5, <1>6
  <2>3. m \in Texts /\ m # NoData /\ (Refused(m) \/ m.round = read[1].round)
    BY <1>3, <2>1, <2>2, OutcomeTypes
  <2> QED
    BY <1>6, <2>3
<1>10. q = << >> => Refused(m)
  <2> SUFFICES ASSUME q = << >>
               PROVE  Refused(m)
    OBVIOUS
  <2>1. Outcomes(t, read) = Processed(t, NoData)
    BY <1>3, <1>6 DEF Outcomes, Base, OneInOneOut
  <2>2. m = Failure("exit1")
    BY <2>1 DEF Processed
  <2> QED
    BY <2>2 DEF Failure, NoData, Refused
<1>11. q = pipe[In[t][i]]
  OBVIOUS
<1> HIDE DEF i, q, text, read
<1>12. PICK p \in PipeNames : p = In[t][i]
  BY <1>4
<1>13. Refused(m) \/ (pipe[p] # << >> /\ m.round = pipe[p][1].round)
  BY <1>5, <1>9, <1>10, <1>11, <1>12
<1>14. pipe' = [pipe EXCEPT ![p] = AfterRead(@, ReadCap)]
  BY <1>8, <1>12
<1> QED
  BY <1>3, <1>6, <1>7, <1>8, <1>9, <1>13, <1>14

(* Only a process that has its text writes, and it writes once.             *)
LEMMA WriteEffect ==
  ASSUME Base, NEW t \in Tasks, NEW p \in Processes, p.written <= Len(Out[t]), WriteData(t, p)
  PROVE  /\ p.written = 0 /\ Len(Out[t]) = 1
         /\ \E name \in PipeNames : pipe' = [pipe EXCEPT ![name] = Append(@, p.text)]
<1>1. Out[t] \in Seq(PipeNames) /\ Len(Out[t]) <= 1 /\ p.written \in Nat
  BY ProgramAssumption DEF Base, OneInOneOut, Processes
<1>2. p.written + 1 <= Len(Out[t])
  BY DEF WriteData
<1>3. p.written = 0 /\ Len(Out[t]) = 1 /\ p.written + 1 = 1
  <2>1. \A w, n \in Nat : n <= 1 /\ w + 1 <= n => w = 0 /\ n = 1 /\ w + 1 = 1
    OBVIOUS
  <2>2. Len(Out[t]) \in Nat
    BY <1>1
  <2> QED
    BY <1>1, <1>2, <2>1, <2>2
<1>4. Out[t][1] \in PipeNames
  BY <1>1, <1>3
<1>5. pipe' = [pipe EXCEPT ![Out[t][1]] = Append(@, p.text)]
  BY <1>3 DEF WriteData
<1> QED
  BY <1>3, <1>4, <1>5

(****************************************************************************)
(* A sample that moves is found in its new place, and nowhere else.         *)
(****************************************************************************)
LEMMA Rounds ==
  ASSUME Base
  PROVE  /\ \A p \in PipeNames : \A k \in DOMAIN pipe[p] : pipe[p][k].round \in Nat
         /\ \A t \in Tasks : prog[t].text.round \in Nat
         /\ \A t \in Tasks : \A k \in DOMAIN strays[t] : strays[t][k].text.round \in Nat
         /\ \A i \in DOMAIN actuated : actuated[i] \in Nat
         /\ taskRuns[Source] \in Nat /\ Source \in Tasks /\ Sink \in Tasks
<1>1. \A m \in Texts : m.round \in Nat
  BY TextTypes DEF Base
<1>2. \A p \in PipeNames : pipe[p] \in Seq(Texts)
  BY DEF Base, SampleType
<1>3. \A p \in PipeNames : \A k \in DOMAIN pipe[p] : pipe[p][k] \in Texts
  BY <1>2
<1>4. \A x \in Processes : x.text \in Texts
  BY DEF Processes
<1>5. \A t \in Tasks : prog[t] \in Processes /\ strays[t] \in Seq(Processes)
  BY DEF Base, SampleType
<1>6. \A t \in Tasks : \A k \in DOMAIN strays[t] : strays[t][k] \in Processes
  BY <1>5
<1>7. \A i \in DOMAIN actuated : actuated[i] \in Nat
  BY DEF Base, SampleType
<1>8. taskRuns[Source] \in Nat /\ Source \in Tasks /\ Sink \in Tasks
  BY ProgramAssumption DEF Base, TypeOK
<1> QED
  BY <1>1, <1>3, <1>4, <1>5, <1>6, <1>7, <1>8

LEMMA MovedTo ==
  ASSUME NEW place, NEW r, NEW x, NEW n \in Nat
  PROVE  Moved(place, r, x)[n] = IF n = r THEN x ELSE place[n]
BY DEF Moved

LEMMA Apart ==
  ASSUME NEW where1, NEW who1, NEW where2, NEW who2
  PROVE  At(where1, who1) = At(where2, who2) <=> where1 = where2 /\ who1 = who2
BY DEF At

LEMMA SampleMoves ==
  ASSUME Base, SampleInv, NEW t \in Tasks, Sample(t)
  PROVE  SampleInv'
<1>1. PICK place : Located(place)
  BY DEF SampleInv
<1>2. PICK m \in Texts : /\ m.round = taskRuns[t] /\ m # NoData
                         /\ prog' = [prog EXCEPT ![t].read = << >>, ![t].text = m]
  BY SampleEffect
<1>3. /\ t = Source /\ Running(t) /\ prog[t].text = NoData
      /\ UNCHANGED <<taskRuns, state, age, child, pipe, strays, actuated>>
  BY SampleEffect
<1>4. PICK r \in Nat : r = taskRuns[Source]
  BY Rounds
<1> DEFINE next == Moved(place, r, At("process", Source))
<1>5. place[r] = At("sensors", Source)
  BY <1>1, <1>3, <1>4 DEF Located, InPipes, InPrograms, InStrays, AtActuators, AtSensors, Unsampled
<1>6. \A n \in Nat : n # r => next[n] = place[n]
  BY MovedTo
<1>7. next[r] = At("process", Source)
  BY MovedTo
<1> HIDE DEF next
<1>9. /\ prog'[t].text = m
      /\ \A u \in Tasks \ {t} : prog'[u] = prog[u]
  BY <1>2 DEF Base, SampleType, Processes
<1>10. Located(next)'
  <2>1. \A p \in PipeNames : \A k \in DOMAIN pipe[p] : next[pipe[p][k].round] = At("pipe", p)
    BY <1>1, <1>5, <1>6, Apart, Rounds DEF Located, InPipes, InPrograms, InStrays, AtActuators, AtSensors
  <2>2. ASSUME NEW u \in Tasks, Carries(prog'[u])
        PROVE  next[prog'[u].text.round] = At("process", u)
    <3>1. CASE u = t
      BY <1>2, <1>3, <1>4, <1>7, <1>9, <3>1
    <3>2. CASE u # t
      <4>1. prog'[u] = prog[u] /\ place[prog[u].text.round] = At("process", u)
        BY <1>1, <1>9, <2>2, <3>2 DEF Located, InPipes, InPrograms, InStrays, AtActuators, AtSensors
      <4> QED
        BY <1>5, <1>6, <4>1, Apart, Rounds
    <3> QED
      BY <3>1, <3>2
  <2>3. \A u \in Tasks : \A k \in DOMAIN strays[u] :
          Carries(strays[u][k]) => next[strays[u][k].text.round] = At("stray", u)
    BY <1>1, <1>5, <1>6, Apart, Rounds DEF Located, InPipes, InPrograms, InStrays, AtActuators, AtSensors
  <2>4. \A i \in DOMAIN actuated : next[actuated[i]] = At("actuators", Sink)
    BY <1>1, <1>5, <1>6, Apart, Rounds DEF Located, InPipes, InPrograms, InStrays, AtActuators, AtSensors
  <2>5. \A n \in Nat : Unsampled(n)' => Unsampled(n) /\ n # r
    BY <1>2, <1>3, <1>4, <1>9 DEF Unsampled, Running
  <2>6. \A n \in Nat : Unsampled(n)' => next[n] = At("sensors", Source)
    BY <1>1, <1>6, <2>5 DEF Located, InPipes, InPrograms, InStrays, AtActuators, AtSensors
  <2> QED
    BY <1>3, <2>1, <2>2, <2>3, <2>4, <2>6 DEF Located, InPipes, InPrograms, InStrays, AtActuators, AtSensors
<1> QED
  BY <1>3, <1>10 DEF SampleInv, PipeOnce, StrayOnce, NoSampleRepeated

(* What a read leaves in its pipe are the later texts, in their order.      *)
LEMMA ReadPipe ==
  ASSUME Base, NEW p \in PipeNames, pipe' = [pipe EXCEPT ![p] = AfterRead(@, ReadCap)]
  PROVE  /\ pipe' \in [PipeNames -> Seq(Texts)]
         /\ \A o \in PipeNames \ {p} : pipe'[o] = pipe[o]
         /\ \E d \in Nat :
              /\ pipe[p] # << >> => d > 0
              /\ \A i \in DOMAIN pipe'[p] :
                   /\ i + d \in DOMAIN pipe[p]
                   /\ pipe'[p][i].round = pipe[p][i + d].round
<1>1. pipe \in [PipeNames -> Seq(Texts)] /\ pipe[p] \in Seq(Texts)
  BY DEF Base, SampleType
<1>2. /\ pipe'[p] = AfterRead(pipe[p], ReadCap)
      /\ \A o \in PipeNames \ {p} : pipe'[o] = pipe[o]
  BY <1>1
<1>3. CASE pipe[p] = << >>
  <2>1. AfterRead(pipe[p], ReadCap) = << >>
    BY <1>3 DEF AfterRead
  <2>2. 0 \in Nat /\ DOMAIN pipe'[p] = {}
    BY <1>2, <2>1
  <2>3. pipe' \in [PipeNames -> Seq(Texts)]
    BY <1>1, <2>1
  <2> QED
    BY <1>2, <1>3, <2>2, <2>3
<1>4. CASE pipe[p] # << >>
  <2>1. PICK left : left = AfterRead(pipe[p], ReadCap)
    OBVIOUS
  <2>2. /\ left \in Seq(Texts)
        /\ \E d \in 1 .. Len(pipe[p]) :
             /\ Len(left) = Len(pipe[p]) - d
             /\ \A i \in 1 .. Len(pipe[p]) - d : left[i].round = pipe[p][i + d].round
    BY <1>1, <1>4, <2>1, ReadTypes DEF Base
  <2>3. PICK d \in 1 .. Len(pipe[p]) :
             /\ Len(left) = Len(pipe[p]) - d
             /\ \A i \in 1 .. Len(pipe[p]) - d : left[i].round = pipe[p][i + d].round
    BY <2>2
  <2>4. /\ d \in Nat /\ d > 0
        /\ \A i \in DOMAIN left : i + d \in DOMAIN pipe[p] /\ left[i].round = pipe[p][i + d].round
    BY <1>1, <2>2, <2>3
  <2>5. pipe' \in [PipeNames -> Seq(Texts)] /\ pipe'[p] = left
    BY <1>1, <1>2, <2>1, <2>2
  <2> QED
    BY <1>2, <2>4, <2>5
<1> QED
  BY <1>3, <1>4

LEMMA ReadMoves ==
  ASSUME Base, SampleInv, NEW t \in Tasks, ReadInput(t)
  PROVE  SampleInv'
<1>1. PICK place : Located(place)
  BY DEF SampleInv
<1>2. /\ t # Source
      /\ UNCHANGED <<taskRuns, state, age, child, strays, actuated>>
  BY ReadEffect
<1>3. PICK p \in PipeNames, m \in Texts, read \in Seq(Texts) :
        /\ m # NoData
        /\ prog' = [prog EXCEPT ![t].read = read, ![t].text = m]
        /\ pipe' = [pipe EXCEPT ![p] = AfterRead(@, ReadCap)]
        /\ Refused(m) \/ (pipe[p] # << >> /\ m.round = pipe[p][1].round)
  BY ReadEffect
<1>4. /\ \A o \in PipeNames \ {p} : pipe'[o] = pipe[o]
      /\ \E d \in Nat :
           /\ pipe[p] # << >> => d > 0
           /\ \A i \in DOMAIN pipe'[p] :
                /\ i + d \in DOMAIN pipe[p]
                /\ pipe'[p][i].round = pipe[p][i + d].round
  BY <1>3, ReadPipe
<1>5. PICK d \in Nat :
        /\ pipe[p] # << >> => d > 0
        /\ \A i \in DOMAIN pipe'[p] :
             /\ i + d \in DOMAIN pipe[p]
             /\ pipe'[p][i].round = pipe[p][i + d].round
  BY <1>4
<1>6. PICK r \in Nat : r = m.round
  BY TextTypes DEF Base
<1> DEFINE next == IF Refused(m) THEN place ELSE Moved(place, r, At("process", t))
<1>7. \A n \in Nat : next[n] = IF ~Refused(m) /\ n = r THEN At("process", t) ELSE place[n]
  BY MovedTo
<1> HIDE DEF next
<1>8. ~Refused(m) => /\ 1 \in DOMAIN pipe[p] /\ r = pipe[p][1].round
                     /\ place[r] = At("pipe", p)
  <2>1. pipe[p] \in Seq(Texts)
    BY DEF Base, SampleType
  <2>2. pipe[p] # << >> => 1 \in DOMAIN pipe[p]
    BY <2>1
  <2> QED
    BY <1>1, <1>3, <1>6, <2>2 DEF Located, InPipes, InPrograms, InStrays, AtActuators, AtSensors
<1>9. /\ prog'[t].text = m
      /\ \A u \in Tasks \ {t} : prog'[u] = prog[u]
  BY <1>3 DEF Base, SampleType, Processes
<1>10. ASSUME NEW o \in PipeNames, NEW k \in DOMAIN pipe'[o]
       PROVE  next[pipe'[o][k].round] = At("pipe", o)
  <2>1. PICK j \in DOMAIN pipe[o] : /\ pipe'[o][k].round = pipe[o][j].round
                                    /\ o = p => j = k + d
    BY <1>4, <1>5
  <2>2. place[pipe[o][j].round] = At("pipe", o) /\ pipe[o][j].round \in Nat
    BY <1>1, Rounds DEF Located, InPipes, InPrograms, InStrays, AtActuators, AtSensors
  <2>3. CASE Refused(m) \/ pipe[o][j].round # r
    BY <1>7, <2>1, <2>2, <2>3
  <2>4. CASE ~Refused(m) /\ pipe[o][j].round = r
    <3>1. o = p
      BY <1>8, <2>2, <2>4, Apart
    <3>2. j = 1
      BY <1>8, <2>4, <3>1 DEF SampleInv, PipeOnce
    <3>3. pipe[p] # << >> /\ k \in Nat \ {0}
      <4>1. pipe'[p] \in Seq(Texts) /\ pipe[p] \in Seq(Texts)
        BY <1>3, ReadPipe DEF Base, SampleType
      <4> QED
        BY <1>8, <2>4, <3>1, <4>1
    <3> QED
      BY <1>5, <2>1, <3>1, <3>2, <3>3
  <2> QED
    BY <2>3, <2>4
<1>11. ASSUME NEW u \in Tasks, Carries(prog'[u])
       PROVE  next[prog'[u].text.round] = At("process", u)
  <2>1. CASE u = t
    BY <1>6, <1>7, <1>9, <1>11, <2>1 DEF Carries
  <2>2. CASE u # t
    <3>1. prog'[u] = prog[u] /\ place[prog[u].text.round] = At("process", u)
      BY <1>1, <1>9, <1>11, <2>2 DEF Located, InPipes, InPrograms, InStrays, AtActuators, AtSensors
    <3> QED
      BY <1>7, <1>8, <3>1, Apart, Rounds
  <2> QED
    BY <2>1, <2>2
<1>12. Located(next)'
  <2>1. \A u \in Tasks : \A k \in DOMAIN strays[u] :
          Carries(strays[u][k]) => next[strays[u][k].text.round] = At("stray", u)
    BY <1>1, <1>7, <1>8, Apart, Rounds DEF Located, InPipes, InPrograms, InStrays, AtActuators, AtSensors
  <2>2. \A i \in DOMAIN actuated : next[actuated[i]] = At("actuators", Sink)
    BY <1>1, <1>7, <1>8, Apart, Rounds DEF Located, InPipes, InPrograms, InStrays, AtActuators, AtSensors
  <2>3. \A n \in Nat : Unsampled(n)' => Unsampled(n)
    BY <1>2, <1>9, Rounds DEF Unsampled, Running
  <2>4. \A n \in Nat : Unsampled(n)' => next[n] = At("sensors", Source)
    BY <1>1, <1>7, <1>8, <2>3, Apart DEF Located, InPipes, InPrograms, InStrays, AtActuators, AtSensors
  <2> QED
    BY <1>2, <1>10, <1>11, <2>1, <2>2, <2>4 DEF Located, InPipes, InPrograms, InStrays, AtActuators, AtSensors
<1>13. PipeOnce'
  <2>1. ASSUME NEW o \in PipeNames, NEW j \in DOMAIN pipe'[o], NEW k \in DOMAIN pipe'[o],
               pipe'[o][j].round = pipe'[o][k].round
        PROVE  j = k
    <3>1. CASE o = p
      <4>1. j + d \in DOMAIN pipe[p] /\ k + d \in DOMAIN pipe[p]
            /\ pipe[p][j + d].round = pipe[p][k + d].round
        BY <1>5, <2>1, <3>1
      <4>2. j + d = k + d
        BY <4>1 DEF SampleInv, PipeOnce
      <4>3. pipe'[p] \in Seq(Texts)
        BY <1>3, ReadPipe
      <4>4. j \in Nat /\ k \in Nat
        BY <3>1, <4>3
      <4> QED
        BY <4>2, <4>4
    <3>2. CASE o # p
      BY <1>4, <2>1, <3>2 DEF SampleInv, PipeOnce
    <3> QED
      BY <3>1, <3>2
  <2> QED
    BY <2>1 DEF PipeOnce
<1> QED
  BY <1>2, <1>12, <1>13 DEF SampleInv, StrayOnce, NoSampleRepeated

(* A text written is the last of its pipe.                                  *)
LEMMA WritePipe ==
  ASSUME Base, NEW p \in PipeNames, NEW text \in Texts,
         pipe' = [pipe EXCEPT ![p] = Append(@, text)]
  PROVE  /\ pipe' \in [PipeNames -> Seq(Texts)]
         /\ \A o \in PipeNames : \A k \in DOMAIN pipe'[o] :
              \/ k \in DOMAIN pipe[o] /\ pipe'[o][k] = pipe[o][k]
              \/ o = p /\ k = Len(pipe[p]) + 1 /\ pipe'[o][k] = text
<1>1. pipe \in [PipeNames -> Seq(Texts)] /\ pipe[p] \in Seq(Texts)
  BY DEF Base, SampleType
<1>2. /\ pipe'[p] = Append(pipe[p], text)
      /\ \A o \in PipeNames \ {p} : pipe'[o] = pipe[o]
  BY <1>1
<1>3. Append(pipe[p], text) \in Seq(Texts)
  BY <1>1
<1>4. pipe' \in [PipeNames -> Seq(Texts)]
  BY <1>1, <1>3
<1>5. \A k \in DOMAIN Append(pipe[p], text) :
        \/ k \in DOMAIN pipe[p] /\ Append(pipe[p], text)[k] = pipe[p][k]
        \/ k = Len(pipe[p]) + 1 /\ Append(pipe[p], text)[k] = text
  BY <1>1
<1> QED
  BY <1>2, <1>4, <1>5

(* A text that comes to a pipe was in none before.                          *)
LEMMA Written ==
  ASSUME Base, PipeOnce, NEW place, InPipes(place), NEW p \in PipeNames, NEW text \in Texts,
         pipe' = [pipe EXCEPT ![p] = Append(@, text)],
         \A o \in PipeNames : place[text.round] # At("pipe", o),
         NEW next, \A n \in Nat : next[n] = IF n = text.round THEN At("pipe", p) ELSE place[n]
  PROVE  PipeOnce' /\ InPipes(next)'
<1>1. \A o \in PipeNames : \A k \in DOMAIN pipe'[o] :
        \/ k \in DOMAIN pipe[o] /\ pipe'[o][k] = pipe[o][k]
        \/ o = p /\ k = Len(pipe[p]) + 1 /\ pipe'[o][k] = text
  BY WritePipe
<1>2. \A o \in PipeNames : \A k \in DOMAIN pipe[o] :
        /\ place[pipe[o][k].round] = At("pipe", o)
        /\ pipe[o][k].round \in Nat /\ pipe[o][k].round # text.round
  BY Rounds DEF InPipes
<1>3. text.round \in Nat
  BY TextTypes DEF Base
<1>4. ASSUME NEW o \in PipeNames, NEW k \in DOMAIN pipe'[o]
      PROVE  next[pipe'[o][k].round] = At("pipe", o)
  BY <1>1, <1>2, <1>3
<1>5. ASSUME NEW o \in PipeNames, NEW j \in DOMAIN pipe'[o], NEW k \in DOMAIN pipe'[o],
             pipe'[o][j].round = pipe'[o][k].round
      PROVE  j = k
  BY <1>1, <1>2, <1>5 DEF PipeOnce
<1> QED
  BY <1>4, <1>5 DEF PipeOnce, InPipes

LEMMA WriteMoves ==
  ASSUME Base, SampleInv, NEW t \in Tasks, WriteOutput(t)
  PROVE  SampleInv'
<1>1. PICK place : Located(place)
  BY DEF SampleInv
<1>2. PICK text \in Texts : text = prog[t].text
  BY DEF Base, SampleType, Processes
<1>3. PICK p \in PipeNames : pipe' = [pipe EXCEPT ![p] = Append(@, text)]
  BY <1>2, WriteEffect DEF WriteOutput, Base, SampleType
<1>4. Carries(prog[t])
  BY WriteEffect DEF WriteOutput, Base, SampleType, Carries, Done, Failed
<1>5. /\ UNCHANGED <<taskRuns, child, strays, actuated>>
      /\ \A u \in Tasks \ {t} : prog'[u] = prog[u]
      /\ prog'[t].text = text /\ prog'[t].written = 1
  <2>1. prog[t].written = 0
    BY <1>4 DEF Carries
  <2> QED
    BY <1>2, <2>1 DEF WriteOutput, schedVars, taskVars, procVars, Base, SampleType, Processes
<1>6. text.round \in Nat /\ place[text.round] = At("process", t)
  BY <1>1, <1>2, <1>4, TextTypes DEF Base, Located, InPrograms
<1>7. PICK next : \A n \in Nat : next[n] = IF n = text.round THEN At("pipe", p) ELSE place[n]
  <2> WITNESS Moved(place, text.round, At("pipe", p))
  <2> QED
    BY MovedTo
<1>8. PipeOnce' /\ InPipes(next)'
  <2>1. \A o \in PipeNames : place[text.round] # At("pipe", o)
    BY <1>6, Apart
  <2>2. PipeOnce /\ InPipes(place)
    BY <1>1 DEF SampleInv, Located
  <2> QED
    BY <1>3, <1>7, <2>1, <2>2, Written, Zenon
<1>9. Located(next)'
  <2>1. ASSUME NEW u \in Tasks, Carries(prog'[u])
        PROVE  next[prog'[u].text.round] = At("process", u)
    <3>1. u # t
      BY <1>5, <2>1 DEF Carries
    <3>2. prog'[u] = prog[u] /\ place[prog[u].text.round] = At("process", u)
      BY <1>1, <1>5, <2>1, <3>1 DEF Located, InPrograms
    <3> QED
      BY <1>6, <1>7, <3>1, <3>2, Apart, Rounds
  <2>2. InStrays(next)'
    BY <1>1, <1>5, <1>6, <1>7, Apart, Rounds DEF Located, InStrays
  <2>3. AtActuators(next)'
    BY <1>1, <1>5, <1>6, <1>7, Apart, Rounds DEF Located, AtActuators
  <2>4. \A n \in Nat : Unsampled(n)' => Unsampled(n)
    BY <1>2, <1>5, Rounds DEF Unsampled, Running
  <2>5. \A n \in Nat : Unsampled(n)' => next[n] = At("sensors", Source)
    BY <1>1, <1>6, <1>7, <2>4, Apart DEF Located, AtSensors
  <2> QED
    BY <1>8, <2>1, <2>2, <2>3, <2>5 DEF Located, InPrograms, AtSensors
<1> QED
  BY <1>5, <1>8, <1>9 DEF SampleInv, StrayOnce, NoSampleRepeated

LEMMA StrayWriteMoves ==
  ASSUME Base, ProgramInv, SampleInv, NEW t \in Tasks, StrayWrite(t)
  PROVE  SampleInv'
<1>1. PICK place : Located(place)
  BY DEF SampleInv
<1>2. PICK k \in DOMAIN strays[t] :
        /\ ~Refused(strays[t][k].text)
        /\ WriteData(t, strays[t][k])
        /\ strays' = [strays EXCEPT ![t][k].written = @ + 1]
  BY DEF StrayWrite
<1>3. strays[t] \in Seq(Processes) /\ strays[t][k] \in Processes
  BY DEF Base, SampleType
<1>4. PICK text \in Texts : text = strays[t][k].text
  BY <1>3 DEF Processes
<1>5. /\ strays[t][k].written = 0
      /\ \E name \in PipeNames : pipe' = [pipe EXCEPT ![name] = Append(@, text)]
  <2>1. strays[t][k].written <= Len(Out[t])
    BY DEF Base, SampleType
  <2> QED
    BY <1>2, <1>3, <1>4, <2>1, WriteEffect
<1>6. PICK p \in PipeNames : pipe' = [pipe EXCEPT ![p] = Append(@, text)]
  BY <1>5
<1>7. Carries(strays[t][k])
  BY <1>2, <1>5, StrayTexts DEF Carries
<1>8. /\ UNCHANGED <<taskRuns, child, prog, actuated>>
      /\ \A u \in Tasks \ {t} : strays'[u] = strays[u]
      /\ DOMAIN strays'[t] = DOMAIN strays[t]
      /\ \A j \in DOMAIN strays[t] \ {k} : strays'[t][j] = strays[t][j]
      /\ strays'[t][k].written = 1
  <2>1. strays'[t] = [strays[t] EXCEPT ![k].written = @ + 1]
    BY <1>2 DEF Base, SampleType
  <2>2. strays'[t][k].written = 1
    BY <1>3, <1>5, <2>1 DEF Processes
  <2>3. \A u \in Tasks \ {t} : strays'[u] = strays[u]
    BY <1>2 DEF Base, SampleType
  <2> QED
    BY <1>3, <2>1, <2>2, <2>3 DEF StrayWrite, schedVars, taskVars, procVars
<1>9. text.round \in Nat /\ place[text.round] = At("stray", t)
  BY <1>1, <1>4, <1>7, TextTypes DEF Base, Located, InStrays
<1>10. PICK next : \A n \in Nat : next[n] = IF n = text.round THEN At("pipe", p) ELSE place[n]
  <2> WITNESS Moved(place, text.round, At("pipe", p))
  <2> QED
    BY MovedTo
<1>11. PipeOnce' /\ InPipes(next)'
  <2>1. \A o \in PipeNames : place[text.round] # At("pipe", o)
    BY <1>9, Apart
  <2>2. PipeOnce /\ InPipes(place)
    BY <1>1 DEF SampleInv, Located
  <2> QED
    BY <1>6, <1>10, <2>1, <2>2, Written, Zenon
<1>12. \A u \in Tasks : \A j \in DOMAIN strays'[u] :
         Carries(strays'[u][j]) => /\ j \in DOMAIN strays[u] /\ strays'[u][j] = strays[u][j]
                                   /\ u = t => j # k
  BY <1>8 DEF Carries
<1>13. Located(next)'
  <2>1. \A u \in Tasks : Carries(prog[u]) => next[prog[u].text.round] = At("process", u)
    BY <1>1, <1>9, <1>10, Apart, Rounds DEF Located, InPipes, InPrograms, InStrays, AtActuators, AtSensors
  <2>2. ASSUME NEW u \in Tasks, NEW j \in DOMAIN strays'[u], Carries(strays'[u][j])
        PROVE  next[strays'[u][j].text.round] = At("stray", u)
    <3>1. /\ j \in DOMAIN strays[u] /\ strays'[u][j] = strays[u][j]
          /\ u = t => j # k
          /\ place[strays[u][j].text.round] = At("stray", u)
      BY <1>1, <1>12, <2>2 DEF Located, InPipes, InPrograms, InStrays, AtActuators, AtSensors
    <3>2. strays[u][j].text.round # text.round
      BY <1>4, <1>7, <1>9, <2>2, <3>1, Apart DEF SampleInv, StrayOnce
    <3> QED
      BY <1>10, <3>1, <3>2, Rounds
  <2>3. \A i \in DOMAIN actuated : next[actuated[i]] = At("actuators", Sink)
    BY <1>1, <1>9, <1>10, Apart, Rounds DEF Located, InPipes, InPrograms, InStrays, AtActuators, AtSensors
  <2>4. \A n \in Nat : Unsampled(n)' => Unsampled(n)
    BY <1>8 DEF Unsampled, Running
  <2>5. \A n \in Nat : Unsampled(n)' => next[n] = At("sensors", Source)
    BY <1>1, <1>9, <1>10, <2>4, Apart DEF Located, InPipes, InPrograms, InStrays, AtActuators, AtSensors
  <2> QED
    BY <1>8, <1>11, <2>1, <2>2, <2>3, <2>5 DEF Located, InPipes, InPrograms, InStrays, AtActuators, AtSensors
<1>14. StrayOnce'
  <2>1. ASSUME NEW u \in Tasks, NEW i \in DOMAIN strays'[u], NEW j \in DOMAIN strays'[u],
               Carries(strays'[u][i]), Carries(strays'[u][j]),
               strays'[u][i].text.round = strays'[u][j].text.round
        PROVE  i = j
    BY <1>12, <2>1 DEF SampleInv, StrayOnce
  <2> QED
    BY <2>1 DEF StrayOnce
<1> QED
  BY <1>8, <1>11, <1>13, <1>14 DEF SampleInv, NoSampleRepeated

(* A sample that drives the actuators was never there before.               *)
LEMMA Driven ==
  ASSUME Base, NoSampleRepeated, NEW place, AtActuators(place), NEW r \in Nat,
         actuated' = Append(actuated, r), place[r] # At("actuators", Sink),
         NEW next, \A n \in Nat : next[n] = IF n = r THEN At("actuators", Sink) ELSE place[n]
  PROVE  NoSampleRepeated' /\ AtActuators(next)'
<1>1. actuated \in Seq(Nat)
  BY DEF Base, SampleType
<1>2. \A i \in DOMAIN actuated' :
        \/ i \in DOMAIN actuated /\ actuated'[i] = actuated[i]
        \/ i = Len(actuated) + 1 /\ actuated'[i] = r
  BY <1>1
<1>3. \A i \in DOMAIN actuated : /\ place[actuated[i]] = At("actuators", Sink)
                                 /\ actuated[i] \in Nat /\ actuated[i] # r
  BY Rounds DEF AtActuators
<1>4. ASSUME NEW i \in DOMAIN actuated', NEW j \in DOMAIN actuated', actuated'[i] = actuated'[j]
      PROVE  i = j
  BY <1>2, <1>3, <1>4 DEF NoSampleRepeated
<1>5. ASSUME NEW i \in DOMAIN actuated'
      PROVE  next[actuated'[i]] = At("actuators", Sink)
  BY <1>2, <1>3
<1> QED
  BY <1>4, <1>5 DEF NoSampleRepeated, AtActuators

(* The end of a program.  The sink writes nothing, so its text is the one   *)
(* it computed.                                                             *)
LEMMA ExitMoves ==
  ASSUME Base, SampleInv, NEW t \in Tasks, NEW status, status # "alive", Exit(t, status),
         \/ actuated' = actuated
         \/ /\ t = Sink /\ Carries(prog[t])
            /\ actuated' = Append(actuated, prog[t].text.round)
  PROVE  SampleInv'
<1>1. PICK place : Located(place)
  BY DEF SampleInv
<1>2. /\ UNCHANGED <<taskRuns, pipe, strays>>
      /\ \A u \in Tasks \ {t} : prog'[u] = prog[u] /\ child'[u] = child[u]
      /\ prog'[t] = Fresh /\ child'[t] = status
  BY DEF Exit, schedVars, taskVars, Base, SampleType, TypeOK
<1>3. \A u \in Tasks : Carries(prog'[u]) => u # t
  BY <1>2, TextTypes DEF Base, Carries
<1>4. \A n \in Nat : Unsampled(n)' => Unsampled(n)
  BY <1>2, Rounds DEF Unsampled, Running
<1>5. CASE actuated' = actuated
  <2>1. Located(place)'
    <3>1. InPrograms(place)'
      BY <1>1, <1>2, <1>3 DEF Located, InPrograms
    <3>2. AtSensors(place)'
      BY <1>1, <1>4 DEF Located, AtSensors
    <3> QED
      BY <1>1, <1>2, <1>5, <3>1, <3>2 DEF Located, InPipes, InStrays, AtActuators
  <2> QED
    BY <1>2, <1>5, <2>1 DEF SampleInv, PipeOnce, StrayOnce, NoSampleRepeated
<1>6. ASSUME t = Sink, Carries(prog[t]), actuated' = Append(actuated, prog[t].text.round)
      PROVE  SampleInv'
  <2>1. PICK r \in Nat : r = prog[t].text.round
    BY Rounds
  <2>2. place[r] = At("process", t)
    BY <1>1, <1>6, <2>1 DEF Located, InPrograms
  <2>3. PICK next : \A n \in Nat : next[n] = IF n = r THEN At("actuators", Sink) ELSE place[n]
    <3> WITNESS Moved(place, r, At("actuators", Sink))
    <3> QED
      BY MovedTo
  <2>4. NoSampleRepeated' /\ AtActuators(next)'
    <3>1. AtActuators(place) /\ NoSampleRepeated
      BY <1>1 DEF Located, SampleInv
    <3>2. place[r] # At("actuators", Sink) /\ actuated' = Append(actuated, r)
      BY <1>6, <2>1, <2>2, Apart
    <3> QED
      BY <2>3, <3>1, <3>2, Driven, Zenon
  <2>5. InPipes(next)'
    BY <1>1, <1>2, <2>2, <2>3, Apart, Rounds DEF Located, InPipes
  <2>6. InPrograms(next)'
    <3>1. ASSUME NEW u \in Tasks, Carries(prog'[u])
          PROVE  next[prog'[u].text.round] = At("process", u)
      <4>1. u # t /\ prog'[u] = prog[u] /\ place[prog[u].text.round] = At("process", u)
        BY <1>1, <1>2, <1>3, <3>1 DEF Located, InPrograms
      <4> QED
        BY <2>2, <2>3, <4>1, Apart, Rounds
    <3> QED
      BY <3>1 DEF InPrograms
  <2>7. InStrays(next)'
    BY <1>1, <1>2, <2>2, <2>3, Apart, Rounds DEF Located, InStrays
  <2>8. AtSensors(next)'
    BY <1>1, <1>4, <2>2, <2>3, Apart DEF Located, AtSensors
  <2>9. Located(next)'
    BY <2>4, <2>5, <2>6, <2>7, <2>8 DEF Located
  <2> QED
    BY <1>2, <2>4, <2>9 DEF SampleInv, PipeOnce, StrayOnce
<1> QED
  BY <1>5, <1>6

LEMMA FinishMoves ==
  ASSUME Base, SampleInv, NEW t \in Tasks, Finish(t) \/ Crash(t)
  PROVE  SampleInv'
<1>1. CASE Crash(t)
  BY <1>1, ExitMoves DEF Crash
<1>2. CASE Finish(t)
  <2>1. \E status : status # "alive" /\ Exit(t, status)
    BY <1>2 DEF Finish, Failed, Refused
  <2>2. PICK status : status # "alive" /\ Exit(t, status)
    BY <2>1
  <2>3. CASE actuated' = actuated
    BY <2>2, <2>3, ExitMoves
  <2>4. CASE actuated' # actuated
    <3>1. /\ t = Sink /\ ~Refused(prog[t].text)
          /\ actuated' = Append(actuated, prog[t].text.round)
      BY <1>2, <2>4 DEF Finish, Drive
    <3>2. prog[t].text # NoData
      BY <1>2, <3>1 DEF Finish, Failed, Done
    <3>3. prog[t].written = 0
      <4>1. prog[t].written \in Nat /\ prog[t].written <= Len(Out[t]) /\ Len(Out[t]) = 0
        BY <3>1 DEF Base, SampleType, Processes, OneInOneOut
      <4> QED
        BY <4>1
    <3> QED
      BY <2>2, <3>1, <3>2, <3>3, ExitMoves DEF Carries
  <2> QED
    BY <2>3, <2>4
<1> QED
  BY <1>1, <1>2

(* Steps of the scheduler's loop move no sample; they may find that the     *)
(* source has ended before it sampled.                                      *)
LEMMA LoopMoves ==
  ASSUME Base, SampleInv, UNCHANGED <<taskRuns, pipe, prog, strays, actuated>>,
         child'[Source] = "alive" => child[Source] = "alive"
  PROVE  SampleInv'
<1>1. PICK place : Located(place)
  BY DEF SampleInv
<1>2. \A n \in Nat : Unsampled(n)' => Unsampled(n)
  BY DEF Unsampled, Running
<1>3. Located(place)'
  BY <1>1, <1>2 DEF Located, InPipes, InPrograms, InStrays, AtActuators, AtSensors
<1> QED
  BY <1>3 DEF SampleInv, PipeOnce, StrayOnce, NoSampleRepeated

LEMMA Removed ==
  ASSUME NEW S, NEW s \in Seq(S), NEW k \in DOMAIN s,
         NEW rest, rest = SubSeq(s, 1, k - 1) \o SubSeq(s, k + 1, Len(s))
  PROVE  /\ rest \in Seq(S)
         /\ \A i \in DOMAIN rest :
              /\ i \in Nat
              /\ i < k => i \in DOMAIN s \ {k} /\ rest[i] = s[i]
              /\ i >= k => i + 1 \in DOMAIN s \ {k} /\ rest[i] = s[i + 1]
<1>1. k \in 1 .. Len(s) /\ Len(s) \in Nat
  OBVIOUS
<1> DEFINE a == SubSeq(s, 1, k - 1)
           b == SubSeq(s, k + 1, Len(s))
<1>2. a \in Seq(S) /\ Len(a) = k - 1 /\ \A i \in 1 .. k - 1 : a[i] = s[i]
  BY <1>1
<1>3. b \in Seq(S) /\ Len(b) = Len(s) - k /\ \A i \in 1 .. Len(s) - k : b[i] = s[i + k]
  BY <1>1
<1>4. rest = a \o b
  OBVIOUS
<1> HIDE DEF a, b
<1>5. /\ rest \in Seq(S) /\ Len(rest) = Len(a) + Len(b)
      /\ \A i \in 1 .. Len(a) + Len(b) :
           rest[i] = IF i <= Len(a) THEN a[i] ELSE b[i - Len(a)]
  <2>1. a \in Seq(S) /\ b \in Seq(S)
    BY <1>2, <1>3
  <2>2. /\ a \o b \in Seq(S) /\ Len(a \o b) = Len(a) + Len(b)
        /\ \A i \in 1 .. Len(a) + Len(b) :
             (a \o b)[i] = IF i <= Len(a) THEN a[i] ELSE b[i - Len(a)]
    BY <2>1, ConcatProperties
  <2> QED
    BY <1>4, <2>2, Zenon
<1>6. Len(rest) = Len(s) - 1 /\ DOMAIN rest = 1 .. Len(s) - 1
  <2>1. (k - 1) + (Len(s) - k) = Len(s) - 1
    BY <1>1
  <2>2. Len(rest) = Len(s) - 1
    BY <1>2, <1>3, <1>5, <2>1
  <2> QED
    BY <1>5, <2>2
<1>7. \A i \in 1 .. Len(s) - 1 : rest[i] = IF i <= k - 1 THEN a[i] ELSE b[i - (k - 1)]
  BY <1>2, <1>3, <1>5, <1>6
<1>8. ASSUME NEW i \in 1 .. Len(s) - 1, i >= k
      PROVE  rest[i] = s[i + 1]
  <2>1. i - (k - 1) \in 1 .. Len(s) - k /\ (i - (k - 1)) + k = i + 1 /\ ~(i <= k - 1)
    BY <1>1, <1>8
  <2> QED
    BY <1>3, <1>7, <2>1
<1>9. ASSUME NEW i \in 1 .. Len(s) - 1, i < k
      PROVE  rest[i] = s[i]
  <2>1. i \in 1 .. k - 1 /\ i <= k - 1
    BY <1>1, <1>9
  <2> QED
    BY <1>2, <1>7, <2>1
<1>10. DOMAIN s = 1 .. Len(s)
  OBVIOUS
<1>11. ASSUME NEW i \in 1 .. Len(s) - 1
       PROVE  /\ i \in Nat
              /\ i < k => i \in 1 .. Len(s) /\ i # k
              /\ i >= k => i + 1 \in 1 .. Len(s) /\ i + 1 # k
  BY <1>1
<1> QED
  BY <1>5, <1>6, <1>8, <1>9, <1>10, <1>11

(* What is left of the strays when one of them ends.                        *)
LEMMA StrayExitEffect ==
  ASSUME Base, NEW t \in Tasks, NEW k \in DOMAIN strays[t],
         strays' = [strays EXCEPT ![t] = SubSeq(@, 1, k - 1) \o SubSeq(@, k + 1, Len(@))]
  PROVE  /\ strays' \in [Tasks -> Seq(Processes)]
         /\ \A u \in Tasks \ {t} : strays'[u] = strays[u]
         /\ \A i \in DOMAIN strays'[t] :
              /\ i \in Nat
              /\ i < k => i \in DOMAIN strays[t] \ {k} /\ strays'[t][i] = strays[t][i]
              /\ i >= k => i + 1 \in DOMAIN strays[t] \ {k} /\ strays'[t][i] = strays[t][i + 1]
<1>1. strays \in [Tasks -> Seq(Processes)] /\ strays[t] \in Seq(Processes)
  BY DEF Base, SampleType
<1>2. PICK rest : rest = SubSeq(strays[t], 1, k - 1) \o SubSeq(strays[t], k + 1, Len(strays[t]))
  OBVIOUS
<1>3. strays' = [strays EXCEPT ![t] = rest]
  BY <1>2
<1>4. strays'[t] = rest /\ \A u \in Tasks \ {t} : strays'[u] = strays[u]
  BY <1>1, <1>3
<1>5. PICK s \in Seq(Processes) : s = strays[t]
  BY <1>1
<1>6. k \in DOMAIN s /\ rest = SubSeq(s, 1, k - 1) \o SubSeq(s, k + 1, Len(s))
  BY <1>2, <1>5
<1>7. /\ rest \in Seq(Processes)
      /\ \A i \in DOMAIN rest :
           /\ i \in Nat
           /\ i < k => i \in DOMAIN s \ {k} /\ rest[i] = s[i]
           /\ i >= k => i + 1 \in DOMAIN s \ {k} /\ rest[i] = s[i + 1]
  BY <1>6, Removed
<1>8. strays' \in [Tasks -> Seq(Processes)]
  BY <1>1, <1>3, <1>7
<1> QED
  BY <1>4, <1>5, <1>7, <1>8

LEMMA StrayExitMoves ==
  ASSUME Base, ProgramInv, SampleInv, NEW t \in Tasks, StrayExit(t)
  PROVE  SampleInv'
<1>1. PICK place : Located(place)
  BY DEF SampleInv
<1>2. PICK k \in DOMAIN strays[t] :
        /\ strays' = [strays EXCEPT ![t] = SubSeq(@, 1, k - 1) \o SubSeq(@, k + 1, Len(@))]
        /\ Drive(t, strays[t][k])
  BY DEF StrayExit
<1>3. /\ \A u \in Tasks \ {t} : strays'[u] = strays[u]
      /\ \A i \in DOMAIN strays'[t] :
           /\ i \in Nat
           /\ i < k => i \in DOMAIN strays[t] \ {k} /\ strays'[t][i] = strays[t][i]
           /\ i >= k => i + 1 \in DOMAIN strays[t] \ {k} /\ strays'[t][i] = strays[t][i + 1]
  BY <1>2, StrayExitEffect
<1>4. UNCHANGED <<taskRuns, child, pipe, prog>>
  BY DEF StrayExit, OrphanExit, taskVars
<1>5. k \in Nat /\ strays[t][k] \in Processes
  BY DEF Base, SampleType
<1>6. \A u \in Tasks : \A i \in DOMAIN strays'[u] : \E j \in DOMAIN strays[u] :
        strays'[u][i] = strays[u][j] /\ (u = t => j # k)
  BY <1>3, <1>5
<1>7. \A n \in Nat : Unsampled(n)' => Unsampled(n)
  BY <1>4 DEF Unsampled, Running
<1>8. StrayOnce'
  <2>1. ASSUME NEW u \in Tasks, NEW i \in DOMAIN strays'[u], NEW j \in DOMAIN strays'[u],
               Carries(strays'[u][i]), Carries(strays'[u][j]),
               strays'[u][i].text.round = strays'[u][j].text.round
        PROVE  i = j
    <3>1. CASE u # t
      BY <1>3, <2>1, <3>1 DEF SampleInv, StrayOnce
    <3>2. CASE u = t
      <4> DEFINE h(x) == IF x < k THEN x ELSE x + 1
      <4>1. \A x \in DOMAIN strays'[t] :
              x \in Nat /\ h(x) \in DOMAIN strays[t] /\ strays'[t][x] = strays[t][h(x)]
        BY <1>3, <1>5
      <4>2. h(i) = h(j)
        <5> HIDE DEF h
        <5>1. h(i) \in DOMAIN strays[t] /\ h(j) \in DOMAIN strays[t]
          BY <3>2, <4>1
        <5>2. /\ Carries(strays[t][h(i)]) /\ Carries(strays[t][h(j)])
              /\ strays[t][h(i)].text.round = strays[t][h(j)].text.round
          BY <2>1, <3>2, <4>1
        <5> QED
          BY <5>1, <5>2 DEF SampleInv, StrayOnce
      <4> QED
        BY <1>5, <3>2, <4>1, <4>2
    <3> QED
      BY <3>1, <3>2
  <2> QED
    BY <2>1 DEF StrayOnce
<1>9. InStrays(place)'
  BY <1>1, <1>6 DEF Located, InStrays
<1>10. CASE actuated' = actuated
  <2>1. AtSensors(place)'
    BY <1>1, <1>7 DEF Located, AtSensors
  <2>2. Located(place)'
    BY <1>1, <1>4, <1>9, <1>10, <2>1 DEF Located, InPipes, InPrograms, AtActuators
  <2> QED
    BY <1>4, <1>8, <1>10, <2>2 DEF SampleInv, PipeOnce, NoSampleRepeated
<1>11. CASE actuated' # actuated
  <2>1. /\ t = Sink /\ ~Refused(strays[t][k].text)
        /\ actuated' = Append(actuated, strays[t][k].text.round)
    BY <1>2, <1>11 DEF Drive
  <2>2. strays[t][k].written = 0
    <3>1. /\ strays[t][k].written \in Nat
          /\ strays[t][k].written <= Len(Out[t]) /\ Len(Out[t]) = 0
      BY <1>5, <2>1 DEF Base, SampleType, Processes, OneInOneOut
    <3> QED
      BY <3>1
  <2>3. Carries(strays[t][k])
    BY <2>1, <2>2, StrayTexts DEF Carries
  <2>4. PICK r \in Nat : r = strays[t][k].text.round
    BY Rounds
  <2>5. place[r] = At("stray", t)
    BY <1>1, <2>3, <2>4 DEF Located, InStrays
  <2>6. PICK next : \A n \in Nat : next[n] = IF n = r THEN At("actuators", Sink) ELSE place[n]
    <3> WITNESS Moved(place, r, At("actuators", Sink))
    <3> QED
      BY MovedTo
  <2>7. NoSampleRepeated' /\ AtActuators(next)'
    <3>1. AtActuators(place) /\ NoSampleRepeated
      BY <1>1 DEF Located, SampleInv
    <3>2. place[r] # At("actuators", Sink) /\ actuated' = Append(actuated, r)
      BY <2>1, <2>4, <2>5, Apart
    <3> QED
      BY <2>6, <3>1, <3>2, Driven, Zenon
  <2>8. InStrays(next)'
    <3>1. ASSUME NEW u \in Tasks, NEW i \in DOMAIN strays'[u], Carries(strays'[u][i])
          PROVE  next[strays'[u][i].text.round] = At("stray", u)
      <4>1. PICK j \in DOMAIN strays[u] : strays'[u][i] = strays[u][j] /\ (u = t => j # k)
        BY <1>6
      <4>2. place[strays[u][j].text.round] = At("stray", u)
        BY <1>1, <3>1, <4>1 DEF Located, InStrays
      <4>3. strays[u][j].text.round # r
        BY <2>3, <2>4, <2>5, <3>1, <4>1, <4>2, Apart DEF SampleInv, StrayOnce
      <4> QED
        BY <2>6, <4>1, <4>2, <4>3, Rounds
    <3> QED
      BY <3>1 DEF InStrays
  <2>9. InPipes(next)'
    BY <1>1, <1>4, <2>5, <2>6, Apart, Rounds DEF Located, InPipes
  <2>10. InPrograms(next)'
    BY <1>1, <1>4, <2>5, <2>6, Apart, Rounds DEF Located, InPrograms
  <2>11. AtSensors(next)'
    BY <1>1, <1>7, <2>5, <2>6, Apart DEF Located, AtSensors
  <2>12. Located(next)'
    BY <2>7, <2>8, <2>9, <2>10, <2>11 DEF Located
  <2> QED
    BY <1>4, <1>8, <2>7, <2>12 DEF SampleInv, PipeOnce
<1> QED
  BY <1>10, <1>11

(* The old process of a task that is launched again keeps its sample.       *)
LEMMA LaunchEffect ==
  ASSUME Base, NEW t \in Tasks, Launch(t)
  PROVE  /\ UNCHANGED <<pipe, actuated>>
         /\ prog'[t] = Fresh /\ \A u \in Tasks \ {t} : prog'[u] = prog[u]
         /\ prog' \in [Tasks -> Processes] /\ strays' \in [Tasks -> Seq(Processes)]
         /\ \A u \in Tasks : \A k \in DOMAIN strays'[u] :
              \/ k \in DOMAIN strays[u] /\ strays'[u][k] = strays[u][k]
              \/ u = t /\ Running(t) /\ k = Len(strays[t]) + 1 /\ strays'[u][k] = prog[t]
<1>1. /\ UNCHANGED <<pipe, actuated>>
      /\ prog' = [prog EXCEPT ![t] = Fresh]
      /\ strays' = [strays EXCEPT ![t] = IF Running(t) THEN Append(@, prog[t]) ELSE @]
  BY DEF Launch
<1>2. /\ prog \in [Tasks -> Processes] /\ strays \in [Tasks -> Seq(Processes)]
      /\ prog[t] \in Processes /\ strays[t] \in Seq(Processes)
  BY DEF Base, SampleType
<1>3. /\ prog'[t] = Fresh /\ \A u \in Tasks \ {t} : prog'[u] = prog[u]
      /\ prog' \in [Tasks -> Processes]
  BY <1>1, <1>2, TextTypes DEF Base
<1>4. CASE ~Running(t)
  <2>1. strays' = strays
    BY <1>1, <1>2, <1>4
  <2> QED
    BY <1>1, <1>2, <1>3, <2>1
<1>5. CASE Running(t)
  <2>1. PICK s : s = Append(strays[t], prog[t])
    OBVIOUS
  <2>2. /\ s \in Seq(Processes)
        /\ \A k \in DOMAIN s : \/ k \in DOMAIN strays[t] /\ s[k] = strays[t][k]
                               \/ k = Len(strays[t]) + 1 /\ s[k] = prog[t]
    BY <1>2, <2>1
  <2>3. strays' = [strays EXCEPT ![t] = s]
    BY <1>1, <1>5, <2>1
  <2>4. strays'[t] = s /\ \A u \in Tasks \ {t} : strays'[u] = strays[u]
    BY <1>2, <2>3
  <2>5. strays' \in [Tasks -> Seq(Processes)]
    BY <1>2, <2>2, <2>3
  <2> QED
    BY <1>1, <1>3, <1>5, <2>2, <2>4, <2>5
<1> QED
  BY <1>4, <1>5

LEMMA LaunchMoves ==
  ASSUME Base, SampleInv, NEW t \in Tasks, Launch(t)
  PROVE  SampleInv'
<1>1. PICK place : Located(place)
  BY DEF SampleInv
<1>2. /\ UNCHANGED <<pipe, actuated>>
      /\ prog'[t] = Fresh /\ \A u \in Tasks \ {t} : prog'[u] = prog[u]
      /\ \A u \in Tasks : \A k \in DOMAIN strays'[u] :
           \/ k \in DOMAIN strays[u] /\ strays'[u][k] = strays[u][k]
           \/ u = t /\ k = Len(strays[t]) + 1 /\ strays'[u][k] = prog[t]
  BY LaunchEffect
<1>3. PICK r \in Nat : r = prog[t].text.round
  BY Rounds
<1>4. \E next : \A n \in Nat :
        next[n] = IF Carries(prog[t]) /\ n = r THEN At("stray", t) ELSE place[n]
  <2>1. CASE Carries(prog[t])
    <3> WITNESS Moved(place, r, At("stray", t))
    <3> QED
      BY <2>1, MovedTo
  <2>2. CASE ~Carries(prog[t])
    <3> WITNESS place
    <3> QED
      BY <2>2
  <2> QED
    BY <2>1, <2>2
<1>5. PICK after : \A n \in Nat :
        after[n] = IF Carries(prog[t]) /\ n = r THEN At("stray", t) ELSE place[n]
  BY <1>4
<1>6. Carries(prog[t]) => place[r] = At("process", t)
  BY <1>1, <1>3 DEF Located, InPrograms
<1>7. InPipes(after)'
  BY <1>1, <1>2, <1>5, <1>6, Apart, Rounds DEF Located, InPipes
<1>8. AtActuators(after)'
  BY <1>1, <1>2, <1>5, <1>6, Apart, Rounds DEF Located, AtActuators
<1>9. InPrograms(after)'
  <2>1. ASSUME NEW u \in Tasks, Carries(prog'[u])
        PROVE  after[prog'[u].text.round] = At("process", u)
    <3>1. u # t
      BY <1>2, <2>1, TextTypes DEF Carries, Base
    <3>2. prog'[u] = prog[u] /\ place[prog[u].text.round] = At("process", u)
      BY <1>1, <1>2, <2>1, <3>1 DEF Located, InPrograms
    <3> QED
      BY <1>5, <1>6, <3>1, <3>2, Apart, Rounds
  <2> QED
    BY <2>1 DEF InPrograms
<1>10. InStrays(after)'
  <2>1. ASSUME NEW u \in Tasks, NEW k \in DOMAIN strays'[u], Carries(strays'[u][k])
        PROVE  after[strays'[u][k].text.round] = At("stray", u)
    <3>1. CASE k \in DOMAIN strays[u] /\ strays'[u][k] = strays[u][k]
      BY <1>1, <1>5, <1>6, <2>1, <3>1, Apart, Rounds DEF Located, InStrays
    <3>2. CASE u = t /\ strays'[u][k] = prog[t]
      BY <1>3, <1>5, <2>1, <3>2
    <3> QED
      BY <1>2, <3>1, <3>2
  <2> QED
    BY <2>1 DEF InStrays
<1>11. AtSensors(after)'
  <2>1. \A n \in Nat : Unsampled(n)' => Unsampled(n)
    <3>1. taskRuns' = [taskRuns EXCEPT ![t] = @ + 1] /\ child' = [child EXCEPT ![t] = "alive"]
      BY DEF Launch, RunTask
    <3>2. CASE t = Source
      <4>1. taskRuns'[Source] = taskRuns[Source] + 1 /\ taskRuns[Source] \in Nat
        BY <3>1, <3>2, Rounds DEF Base, TypeOK
      <4> QED
        BY <4>1 DEF Unsampled
    <3>3. CASE t # Source
      <4>1. /\ taskRuns'[Source] = taskRuns[Source] /\ child'[Source] = child[Source]
            /\ prog'[Source] = prog[Source]
        BY <1>2, <3>1, <3>3, Rounds DEF Base, TypeOK
      <4> QED
        BY <4>1 DEF Unsampled, Running
    <3> QED
      BY <3>2, <3>3
  <2> QED
    BY <1>1, <1>5, <1>6, <2>1, Apart DEF Located, AtSensors
<1>12. StrayOnce'
  <2>1. ASSUME NEW u \in Tasks, NEW j \in DOMAIN strays'[u], NEW k \in DOMAIN strays'[u],
               Carries(strays'[u][j]), Carries(strays'[u][k]),
               strays'[u][j].text.round = strays'[u][k].text.round
        PROVE  j = k
    <3>1. \A i \in DOMAIN strays[u] : Carries(strays[u][i]) =>
            place[strays[u][i].text.round] = At("stray", u)
      BY <1>1 DEF Located, InStrays
    <3>2. Carries(prog[t]) => \A i \in DOMAIN strays[u] : Carries(strays[u][i]) =>
            strays[u][i].text.round # r
      BY <1>6, <3>1, Apart
    <3>3. \A i \in DOMAIN strays'[u] :
            \/ i \in DOMAIN strays[u] /\ strays'[u][i] = strays[u][i]
            \/ u = t /\ i = Len(strays[t]) + 1 /\ strays'[u][i] = prog[t]
      BY <1>2
    <3> QED
      BY <1>3, <2>1, <3>2, <3>3 DEF SampleInv, StrayOnce
  <2> QED
    BY <2>1 DEF StrayOnce
<1>13. Located(after)'
  BY <1>7, <1>8, <1>9, <1>10, <1>11 DEF Located
<1> QED
  BY <1>2, <1>12, <1>13 DEF SampleInv, PipeOnce, NoSampleRepeated

(****************************************************************************)
(* Types, and that no process is given up before it has its text.           *)
(****************************************************************************)
LEMMA SampleTypeStep ==
  ASSUME Base, [FCNext]_fcVars
  PROVE  SampleType'
<1>1. /\ pipe \in [PipeNames -> Seq(Texts)]
      /\ prog \in [Tasks -> Processes] /\ strays \in [Tasks -> Seq(Processes)]
      /\ actuated \in Seq(Nat)
      /\ \A t \in Tasks : prog[t].written \in Nat /\ prog[t].written <= Len(Out[t])
      /\ \A t \in Tasks : \A k \in DOMAIN strays[t] : strays[t][k].written <= Len(Out[t])
  BY DEF Base, SampleType, Processes
<1>2. ASSUME UNCHANGED <<pipe, prog, strays, actuated>>
      PROVE  SampleType'
  BY <1>1, <1>2 DEF SampleType
<1>3. ASSUME NEW t \in Tasks, NEW read \in Seq(Texts), NEW m \in Texts,
             prog' = [prog EXCEPT ![t].read = read, ![t].text = m]
      PROVE  /\ prog' \in [Tasks -> Processes]
             /\ \A u \in Tasks : prog'[u].written <= Len(Out[u])
  <2>1. /\ prog[t] \in Processes
        /\ prog'[t] = [prog[t] EXCEPT !.read = read, !.text = m]
        /\ \A u \in Tasks \ {t} : prog'[u] = prog[u]
    BY <1>1, <1>3
  <2>2. prog'[t] \in Processes /\ prog'[t].written = prog[t].written
    BY <2>1 DEF Processes
  <2> QED
    BY <1>1, <1>3, <2>1, <2>2
<1>4. ASSUME NEW t \in Tasks, Sample(t)
      PROVE  SampleType'
  <2>1. PICK m \in Texts : prog' = [prog EXCEPT ![t].read = << >>, ![t].text = m]
    BY <1>4, SampleEffect
  <2>2. UNCHANGED <<pipe, strays, actuated>>
    BY <1>4, SampleEffect
  <2>3. << >> \in Seq(Texts)
    OBVIOUS
  <2>4. /\ prog' \in [Tasks -> Processes]
        /\ \A u \in Tasks : prog'[u].written <= Len(Out[u])
    BY <1>3, <2>1, <2>3
  <2> QED
    BY <1>1, <2>2, <2>4 DEF SampleType
<1>5. ASSUME NEW t \in Tasks, ReadInput(t)
      PROVE  SampleType'
  <2>1. PICK p \in PipeNames, m \in Texts, read \in Seq(Texts) :
          /\ prog' = [prog EXCEPT ![t].read = read, ![t].text = m]
          /\ pipe' = [pipe EXCEPT ![p] = AfterRead(@, ReadCap)]
    BY <1>5, ReadEffect
  <2>2. UNCHANGED <<strays, actuated>>
    BY <1>5, ReadEffect
  <2>3. pipe' \in [PipeNames -> Seq(Texts)]
    BY <2>1, ReadPipe
  <2>4. /\ prog' \in [Tasks -> Processes]
        /\ \A u \in Tasks : prog'[u].written <= Len(Out[u])
    BY <1>3, <2>1
  <2> QED
    BY <1>1, <2>2, <2>3, <2>4 DEF SampleType
<1>6. ASSUME NEW p \in Processes,
             \E name \in PipeNames : pipe' = [pipe EXCEPT ![name] = Append(@, p.text)]
      PROVE  pipe' \in [PipeNames -> Seq(Texts)]
  <2>1. PICK text \in Texts : text = p.text
    BY DEF Processes
  <2>2. PICK name \in PipeNames : pipe' = [pipe EXCEPT ![name] = Append(@, text)]
    BY <1>6, <2>1
  <2> QED
    BY <2>2, WritePipe
<1>7. ASSUME NEW t \in Tasks, WriteOutput(t)
      PROVE  SampleType'
  <2>1. /\ prog[t].written = 0 /\ Len(Out[t]) = 1
        /\ \E name \in PipeNames : pipe' = [pipe EXCEPT ![name] = Append(@, prog[t].text)]
    BY <1>1, <1>7, WriteEffect DEF WriteOutput
  <2>2. prog' = [prog EXCEPT ![t].written = @ + 1] /\ UNCHANGED <<strays, actuated>>
    BY <1>7 DEF WriteOutput
  <2>3. /\ prog'[t] = [prog[t] EXCEPT !.written = 1]
        /\ \A u \in Tasks \ {t} : prog'[u] = prog[u]
        /\ prog[t] \in Processes
    BY <1>1, <2>1, <2>2
  <2>4. prog'[t] \in Processes /\ prog'[t].written = 1
    BY <2>3 DEF Processes
  <2>5. /\ prog' \in [Tasks -> Processes]
        /\ \A u \in Tasks : prog'[u].written <= Len(Out[u])
    <3>1. prog' \in [Tasks -> Processes]
      BY <1>1, <2>2, <2>3, <2>4
    <3>2. prog'[t].written <= Len(Out[t])
      BY <2>1, <2>4
    <3> QED
      BY <1>1, <2>3, <3>1, <3>2
  <2>6. pipe' \in [PipeNames -> Seq(Texts)]
    BY <1>6, <2>1, <2>3
  <2> QED
    BY <1>1, <2>2, <2>5, <2>6 DEF SampleType
<1>8. ASSUME NEW t \in Tasks, StrayWrite(t)
      PROVE  SampleType'
  <2>1. PICK k \in DOMAIN strays[t] :
          WriteData(t, strays[t][k]) /\ strays' = [strays EXCEPT ![t][k].written = @ + 1]
    BY <1>8 DEF StrayWrite
  <2>2. strays[t] \in Seq(Processes) /\ strays[t][k] \in Processes
    BY <1>1
  <2>3. /\ strays[t][k].written = 0 /\ Len(Out[t]) = 1
        /\ \E name \in PipeNames : pipe' = [pipe EXCEPT ![name] = Append(@, strays[t][k].text)]
    BY <1>1, <2>1, <2>2, WriteEffect
  <2>4. pipe' \in [PipeNames -> Seq(Texts)]
    BY <1>6, <2>2, <2>3
  <2>5. UNCHANGED <<prog, actuated>>
    BY <1>8 DEF StrayWrite
  <2>6. PICK old : old = [strays[t][k] EXCEPT !.written = 1]
    OBVIOUS
  <2>7. old \in Processes /\ old.written = 1
    BY <2>2, <2>6 DEF Processes
  <2>8. PICK s : s = [strays[t] EXCEPT ![k] = old]
    OBVIOUS
  <2>9. strays' = [strays EXCEPT ![t] = s]
    BY <1>1, <2>1, <2>3, <2>6, <2>8
  <2>10. /\ s \in Seq(Processes) /\ DOMAIN s = DOMAIN strays[t]
         /\ \A i \in DOMAIN s : s[i] = IF i = k THEN old ELSE strays[t][i]
    BY <2>2, <2>7, <2>8
  <2>11. strays' \in [Tasks -> Seq(Processes)]
    BY <1>1, <2>9, <2>10
  <2>12. strays'[t] = s /\ \A u \in Tasks \ {t} : strays'[u] = strays[u]
    BY <1>1, <2>9
  <2>13. \A u \in Tasks : \A i \in DOMAIN strays'[u] : strays'[u][i].written <= Len(Out[u])
    <3>1. \A i \in DOMAIN s : s[i].written <= Len(Out[t])
      <4>1. old.written <= Len(Out[t])
        BY <2>3, <2>7
      <4> QED
        BY <1>1, <2>10, <4>1
    <3> QED
      BY <1>1, <2>12, <3>1
  <2> QED
    BY <1>1, <2>4, <2>5, <2>11, <2>13 DEF SampleType
<1>9. ASSUME NEW t \in Tasks, NEW p, p.text.round \in Nat, Drive(t, p)
      PROVE  actuated' \in Seq(Nat)
  BY <1>1, <1>9 DEF Drive
<1>10. ASSUME NEW t \in Tasks, StrayExit(t)
       PROVE  SampleType'
  <2>1. PICK k \in DOMAIN strays[t] :
          /\ strays' = [strays EXCEPT ![t] = SubSeq(@, 1, k - 1) \o SubSeq(@, k + 1, Len(@))]
          /\ Drive(t, strays[t][k])
    BY <1>10 DEF StrayExit
  <2>2. /\ strays' \in [Tasks -> Seq(Processes)]
        /\ \A u \in Tasks \ {t} : strays'[u] = strays[u]
        /\ \A i \in DOMAIN strays'[t] :
             /\ i \in Nat
             /\ i < k => i \in DOMAIN strays[t] \ {k} /\ strays'[t][i] = strays[t][i]
             /\ i >= k => i + 1 \in DOMAIN strays[t] \ {k} /\ strays'[t][i] = strays[t][i + 1]
    BY <2>1, StrayExitEffect
  <2>3. UNCHANGED <<pipe, prog>>
    BY <1>10 DEF StrayExit
  <2>4. actuated' \in Seq(Nat)
    BY <1>9, <2>1, Rounds
  <2>5. k \in Nat
    BY <1>1
  <2>6. \A u \in Tasks : \A i \in DOMAIN strays'[u] : strays'[u][i].written <= Len(Out[u])
    <3>1. \A u \in Tasks : \A i \in DOMAIN strays'[u] :
            \E j \in DOMAIN strays[u] : strays'[u][i] = strays[u][j]
      BY <2>2, <2>5
    <3> QED
      BY <1>1, <3>1
  <2> QED
    BY <1>1, <2>2, <2>3, <2>4, <2>6 DEF SampleType
<1>11. ASSUME NEW t \in Tasks, NEW status, Exit(t, status), actuated' \in Seq(Nat)
       PROVE  SampleType'
  <2>1. prog' = [prog EXCEPT ![t] = Fresh] /\ UNCHANGED <<pipe, strays>>
    BY <1>11 DEF Exit
  <2>2. Fresh \in Processes /\ Fresh.written = 0 /\ 0 <= Len(Out[t])
    BY <1>1, TextTypes DEF Base
  <2>3. /\ prog' \in [Tasks -> Processes]
        /\ \A u \in Tasks : prog'[u].written <= Len(Out[u])
    BY <1>1, <2>1, <2>2
  <2> QED
    BY <1>1, <1>11, <2>1, <2>3 DEF SampleType
<1>12. ASSUME NEW t \in Tasks, Finish(t) \/ Crash(t)
       PROVE  SampleType'
  <2>1. actuated' \in Seq(Nat)
    BY <1>1, <1>9, <1>12, Rounds DEF Finish, Crash
  <2>2. \E status : Exit(t, status)
    BY <1>12 DEF Finish, Crash
  <2> QED
    BY <1>11, <2>1, <2>2
<1>13. ASSUME NEW t \in Tasks, Launch(t)
       PROVE  SampleType'
  <2>1. /\ UNCHANGED <<pipe, actuated>>
        /\ prog'[t] = Fresh /\ \A u \in Tasks \ {t} : prog'[u] = prog[u]
        /\ prog' \in [Tasks -> Processes] /\ strays' \in [Tasks -> Seq(Processes)]
        /\ \A u \in Tasks : \A k \in DOMAIN strays'[u] :
             \/ k \in DOMAIN strays[u] /\ strays'[u][k] = strays[u][k]
             \/ u = t /\ strays'[u][k] = prog[t]
    BY <1>13, LaunchEffect
  <2>2. Fresh.written = 0 /\ 0 <= Len(Out[t])
    BY <1>1, TextTypes DEF Base
  <2>3. \A u \in Tasks : prog'[u].written <= Len(Out[u])
    BY <1>1, <2>1, <2>2
  <2>4. \A u \in Tasks : \A k \in DOMAIN strays'[u] : strays'[u][k].written <= Len(Out[u])
    BY <1>1, <2>1
  <2> QED
    BY <1>1, <2>1, <2>3, <2>4 DEF SampleType
<1>14. CASE Loop \/ FCTerminated \/ UNCHANGED fcVars
  BY <1>2, <1>14 DEF Loop, FCTerminated, progVars, fcVars
<1> QED
  BY <1>4, <1>5, <1>7, <1>8, <1>10, <1>12, <1>13, <1>14 DEF FCNext, Program

(****************************************************************************)
(* Each sample is in one place at most.                                     *)
(****************************************************************************)
LEMMA SampleInit ==
  ASSUME OneInOneOut, FCInit
  PROVE  SampleType /\ ProgramInv /\ SampleInv
<1>1. SampleType
  <2>1. << >> \in Seq(Texts) /\ << >> \in Seq(Processes) /\ << >> \in Seq(Nat)
    OBVIOUS
  <2>2. \A t \in Tasks : 0 <= Len(Out[t])
    BY ProgramAssumption
  <2> QED
    BY <2>1, <2>2, TextTypes DEF SampleType, FCInit
<1>2. ProgramInv
  BY ProgramInit
<1>3. Located([n \in Nat |-> At("sensors", Source)])
  <2>1. \A t \in Tasks : ~ Carries(prog[t])
    BY TextTypes DEF FCInit, Carries
  <2> QED
    BY <2>1 DEF Located, InPipes, InPrograms, InStrays, AtActuators, AtSensors, FCInit
<1>4. PipeOnce /\ StrayOnce /\ NoSampleRepeated
  BY DEF PipeOnce, StrayOnce, NoSampleRepeated, FCInit
<1> QED
  BY <1>1, <1>2, <1>3, <1>4 DEF SampleInv

LEMMA SampleStep ==
  ASSUME Base, ProgramInv, SampleInv, [FCNext]_fcVars
  PROVE  SampleInv'
<1>1. CASE Loop
  <2>1. UNCHANGED <<taskRuns, pipe, prog, strays, actuated>>
    BY <1>1 DEF Loop, Tick, CheckActive, Monitor, MonitorReap, MonitorStuck, MonitorWait,
                MonitorDispatch, LogResults, PrintResults, WriteResults, Cleanup,
                taskVars, progVars
  <2>2. child'[Source] = "alive" => child[Source] = "alive"
    <3>1. Source \in Tasks
      BY ProgramAssumption
    <3>2. ASSUME NEW t \in Tasks, MonitorReap(t) \/ Cleanup(t)
          PROVE  child'[Source] = "alive" => child[Source] = "alive"
      BY <3>1, <3>2 DEF MonitorReap, Cleanup, Base, TypeOK
    <3>3. ASSUME UNCHANGED child
          PROVE  child'[Source] = "alive" => child[Source] = "alive"
      BY <3>3
    <3>4. \/ UNCHANGED child
          \/ \E t \in Tasks : MonitorReap(t) \/ Cleanup(t)
      BY <1>1 DEF Loop, Tick, CheckActive, Monitor, MonitorStuck, MonitorWait,
                  MonitorDispatch, LogResults, PrintResults, WriteResults, procVars
    <3> QED
      BY <3>2, <3>3, <3>4
  <2> QED
    BY <2>1, <2>2, LoopMoves
<1>2. CASE FCTerminated \/ UNCHANGED fcVars
  <2>1. UNCHANGED <<taskRuns, child, pipe, prog, strays, actuated>>
    BY <1>2 DEF FCTerminated, Terminated, vars, progVars, fcVars, taskVars, procVars
  <2> QED
    BY <2>1, LoopMoves
<1>3. ASSUME NEW t \in Tasks,
             Launch(t) \/ Program(t) \/ Crash(t) \/ StrayWrite(t) \/ StrayExit(t)
      PROVE  SampleInv'
  BY <1>3, LaunchMoves, SampleMoves, ReadMoves, WriteMoves, FinishMoves,
     StrayWriteMoves, StrayExitMoves DEF Program
<1> QED
  BY <1>1, <1>2, <1>3 DEF FCNext

(* Theorem: in such a pipeline no sample drives the actuators twice         *)
(* (read_data takes what it reads out of the pipe, write_data appends, and  *)
(* a program writes its text once; run_tasks starts a new process without a *)
(* sample, and the process it replaces keeps its own).                      *)
THEOREM SamplesOnce ==
  ASSUME OneInOneOut
  PROVE  FCSpec => []NoSampleRepeated
<1>1. FCInit => SampleType /\ ProgramInv /\ SampleInv
  BY SampleInit
<1>2. TypeOK /\ SampleType /\ ProgramInv /\ SampleInv /\ [FCNext]_fcVars
        => SampleType' /\ ProgramInv' /\ SampleInv'
  BY SampleTypeStep, ProgramStep, SampleStep DEF Base
<1>3. SampleInv => NoSampleRepeated
  BY DEF SampleInv
<1>4. FCSpec => []TypeOK
  BY ImplementsScheduler, TypeCorrect, PTL
<1> QED
  BY <1>1, <1>2, <1>3, <1>4, PTL DEF FCSpec

(****************************************************************************)
(* A task refuses no more texts than the bytes sent to it pay for.          *)
(*                                                                          *)
(* Only what a read has cut is refused, and a read cuts only when it takes  *)
(* ReadCap bytes.  PaidInv keeps the account: the refusals, those a process *)
(* is about to make and the one that the rest at the head of the pipe will  *)
(* cause, of ReadCap bytes each, and the bytes in the pipe are no more than *)
(* the writer sent.  A read moves ReadCap bytes from one to the other side. *)
(* A process, present or given up, that has not written yet has sent        *)
(* nothing for its launch (Unwritten).                                      *)
(****************************************************************************)
(* What is left of a pipe of which the texts before the k-th are gone, and  *)
(* a part of the k-th perhaps.                                              *)
LEMMA Rest ==
  ASSUME NEW S, NEW q \in Seq(S), NEW k \in 1 .. Len(q), NEW m \in S,
         NEW r, r = <<m>> \o SubSeq(q, k + 1, Len(q))
  PROVE  /\ r \in Seq(S) /\ Len(r) = 1 + (Len(q) - k)
         /\ r[1] = m /\ \A i \in 2 .. 1 + (Len(q) - k) : r[i] = q[i + k - 1]
<1>0. k \in Nat \ {0} /\ Len(q) \in Nat /\ k <= Len(q)
  OBVIOUS
<1> DEFINE rest == SubSeq(q, k + 1, Len(q))
<1>1. rest \in Seq(S) /\ Len(rest) = Len(q) - k /\ \A i \in 1 .. Len(q) - k : rest[i] = q[i + k]
  BY <1>0
<1> HIDE DEF rest
<1>2. r = <<m>> \o rest
  BY DEF rest
<1>3. /\ r \in Seq(S) /\ Len(r) = 1 + (Len(q) - k)
      /\ r[1] = m /\ \A i \in 2 .. 1 + (Len(q) - k) : r[i] = rest[i - 1]
  <2>1. PICK a : a = <<m>>
    OBVIOUS
  <2>2. a \in Seq(S) /\ Len(a) = 1 /\ a[1] = m /\ r = a \o rest
    BY <1>2, <2>1
  <2>3. /\ a \o rest \in Seq(S) /\ Len(a \o rest) = Len(a) + Len(rest)
        /\ \A i \in 1 .. Len(a) + Len(rest) :
             (a \o rest)[i] = IF i <= Len(a) THEN a[i] ELSE rest[i - Len(a)]
    BY <1>1, <2>2, ConcatProperties
  <2>4. /\ r \in Seq(S) /\ Len(r) = Len(a) + Len(rest)
        /\ \A i \in 1 .. Len(a) + Len(rest) :
             r[i] = IF i <= Len(a) THEN a[i] ELSE rest[i - Len(a)]
    BY <2>2, <2>3, Zenon
  <2>5. Len(a) = 1 /\ Len(rest) = Len(q) - k /\ a[1] = m
    BY <1>1, <2>2
  <2> HIDE DEF rest
  <2>6. Len(r) = 1 + (Len(q) - k)
    BY <2>4, <2>5
  <2>7. r[1] = m
    <3>1. 1 \in 1 .. Len(a) + Len(rest) /\ 1 <= Len(a)
      BY <1>0, <2>5
    <3> QED
      BY <2>4, <2>5, <3>1
  <2>8. ASSUME NEW i \in 2 .. 1 + (Len(q) - k)
        PROVE  r[i] = rest[i - 1]
    <3>1. i \in 1 .. Len(a) + Len(rest) /\ ~ (i <= Len(a)) /\ i - Len(a) = i - 1
      BY <1>0, <2>5
    <3> QED
      BY <2>4, <3>1
  <2> QED
    BY <2>4, <2>6, <2>7, <2>8
<1>4. ASSUME NEW i \in 2 .. 1 + (Len(q) - k)
      PROVE  r[i] = q[i + k - 1]
  <2>1. i - 1 \in 1 .. Len(q) - k /\ (i - 1) + k = i + k - 1
    BY <1>0
  <2> QED
    BY <1>1, <1>3, <2>1
<1> QED
  BY <1>3, <1>4

(* The bytes of a pipe of which the texts up to the k-th are gone, but for  *)
(* a rest of that one.                                                      *)
LEMMA RestBytes ==
  ASSUME NEW S, NEW q \in Seq(S), \A x \in S : x.len \in Nat,
         NEW k \in 1 .. Len(q), NEW m \in S,
         NEW r, r = <<m>> \o SubSeq(q, k + 1, Len(q))
  PROVE  Bytes(r, Len(r)) = m.len + Bytes(q, Len(q)) - Bytes(q, k)
<1>1. k \in Nat \ {0} /\ Len(q) \in Nat /\ k <= Len(q)
  OBVIOUS
<1>2. /\ r \in Seq(S) /\ Len(r) = 1 + (Len(q) - k)
      /\ r[1] = m /\ \A i \in 2 .. 1 + (Len(q) - k) : r[i] = q[i + k - 1]
  BY Rest
<1>3. /\ Bytes(r, 0) = 0
      /\ \A i \in 1 .. Len(r) : Bytes(r, i) = Bytes(r, i - 1) + r[i].len
      /\ \A i \in 1 .. Len(q) : Bytes(q, i) = Bytes(q, i - 1) + q[i].len
      /\ \A i \in 0 .. Len(q) : Bytes(q, i) \in Nat
      /\ \A i \in 1 .. Len(q) : q[i].len \in Nat
      /\ m.len \in Nat
  <2>1. r \in Seq(S)
    BY <1>2
  <2>2. /\ Bytes(r, 0) = 0
        /\ \A i \in 1 .. Len(r) : Bytes(r, i) = Bytes(r, i - 1) + r[i].len
    BY <2>1, BytesAdd
  <2>3. \A i \in 1 .. Len(q) : Bytes(q, i) = Bytes(q, i - 1) + q[i].len
    BY BytesAdd
  <2>4. \A i \in 0 .. Len(q) : Bytes(q, i) \in Nat
    BY BytesGrow
  <2>5. \A i \in 1 .. Len(q) : q[i].len \in Nat
    OBVIOUS
  <2> QED
    BY <2>2, <2>3, <2>4, <2>5
<1> DEFINE Equal(n, i) == Bytes(r, n) = m.len + Bytes(q, i) - Bytes(q, k)
           T == {j \in Nat : \A n, i \in Nat :
                               n = j + 1 /\ i = j + k /\ i <= Len(q) => Equal(n, i)}
<1>4. 0 \in T
  <2>1. 1 \in 1 .. Len(r) /\ k \in 0 .. Len(q) /\ 1 - 1 = 0
    BY <1>1, <1>2
  <2>2. Bytes(r, 1) = Bytes(r, 0) + r[1].len /\ Bytes(q, k) \in Nat
    BY <1>3, <2>1
  <2>3. Equal(1, k)
    BY <1>2, <1>3, <2>2
  <2>4. \A n, i \in Nat : n = 0 + 1 /\ i = 0 + k => n = 1 /\ i = k
    BY <1>1
  <2> HIDE DEF Equal
  <2> QED
    BY <2>3, <2>4
<1>5. ASSUME NEW j \in T
      PROVE  j + 1 \in T
  <2> SUFFICES ASSUME NEW n \in Nat, NEW i \in Nat, n = (j + 1) + 1, i = (j + 1) + k, i <= Len(q)
               PROVE  Equal(n, i)
    OBVIOUS
  <2>1. PICK o, h \in Nat : o = n - 1 /\ h = i - 1
    BY <1>1
  <2>2. /\ n \in 2 .. 1 + (Len(q) - k) /\ n \in 1 .. Len(r) /\ o = j + 1 /\ n + k - 1 = i
        /\ i \in 1 .. Len(q) /\ h = j + k /\ k \in 0 .. Len(q) /\ h \in 0 .. Len(q) /\ h <= Len(q)
        /\ i \in 0 .. Len(q)
    BY <1>1, <1>2, <2>1
  <2>3. Bytes(r, n) = Bytes(r, o) + q[i].len
    <3>1. Bytes(r, n) = Bytes(r, n - 1) + r[n].len /\ r[n] = q[n + k - 1]
      BY <1>2, <1>3, <2>2
    <3> QED
      BY <2>1, <2>2, <3>1
  <2>4. Bytes(q, i) = Bytes(q, h) + q[i].len
    <3>1. Bytes(q, i) = Bytes(q, i - 1) + q[i].len
      BY <1>3, <2>2
    <3> QED
      BY <2>1, <3>1
  <2>5. Equal(o, h)
    <3> HIDE DEF Equal
    <3> QED
      BY <2>2
  <2>6. /\ Bytes(q, h) \in Nat /\ Bytes(q, k) \in Nat /\ q[i].len \in Nat /\ m.len \in Nat
    BY <1>3, <2>2
  <2>7. \A b, c, d, e, f : c \in Nat /\ d \in Nat /\ e \in Nat /\ f \in Nat /\ b = f + c - d
          => b + e = f + (c + e) - d
    OBVIOUS
  <2>8. Bytes(r, o) = m.len + Bytes(q, h) - Bytes(q, k)
    BY <2>5
  <2>9. Bytes(r, o) + q[i].len = m.len + (Bytes(q, h) + q[i].len) - Bytes(q, k)
    <3>1. \A b : b = m.len + Bytes(q, h) - Bytes(q, k)
            => b + q[i].len = m.len + (Bytes(q, h) + q[i].len) - Bytes(q, k)
      BY <2>6, <2>7
    <3> QED
      BY <2>8, <3>1
  <2>10. Bytes(r, n) = m.len + Bytes(q, i) - Bytes(q, k)
    BY <2>3, <2>4, <2>9, Zenon
  <2> QED
    BY <2>10, Zenon
<1>6. T = Nat
  <2> HIDE DEF T
  <2>1. T \subseteq Nat
    BY DEF T
  <2> QED
    BY <1>4, <1>5, <2>1, NumberInduction
<1>7. PICK j \in Nat, n \in Nat, i \in Nat : j = Len(q) - k /\ n = Len(r) /\ i = Len(q)
  <2>1. Len(q) - k \in Nat /\ Len(r) \in Nat
    BY <1>1, <1>2
  <2> HIDE DEF T, Equal
  <2> QED
    BY <1>1, <2>1
<1>8. n = j + 1 /\ i = j + k /\ i <= Len(q)
  BY <1>1, <1>2, <1>7
<1>9. j \in T
  <2> HIDE DEF T
  <2> QED
    BY <1>6, <1>7
<1>10. Equal(n, i)
  <2> HIDE DEF Equal
  <2> QED
    BY <1>8, <1>9
<1> QED
  BY <1>7, <1>10

(* The bytes of a pipe to which a text was written.                         *)
LEMMA AppendBytes ==
  ASSUME NEW S, NEW q \in Seq(S), \A x \in S : x.len \in Nat, NEW m \in S
  PROVE  Bytes(Append(q, m), Len(q) + 1) = Bytes(q, Len(q)) + m.len
<1> DEFINE r == Append(q, m)
           T == {j \in Nat : j <= Len(q) => Bytes(r, j) = Bytes(q, j)}
<1>1. /\ Len(q) \in Nat /\ r \in Seq(S) /\ Len(r) = Len(q) + 1
      /\ r[Len(q) + 1] = m /\ \A i \in 1 .. Len(q) : r[i] = q[i]
  OBVIOUS
<1> HIDE DEF r
<1>2. /\ Bytes(r, 0) = 0 /\ Bytes(q, 0) = 0
      /\ \A i \in 1 .. Len(r) : Bytes(r, i) = Bytes(r, i - 1) + r[i].len
      /\ \A i \in 1 .. Len(q) : Bytes(q, i) = Bytes(q, i - 1) + q[i].len
  BY <1>1, BytesAdd
<1>3. 0 \in T
  BY <1>2
<1>4. ASSUME NEW j \in T
      PROVE  j + 1 \in T
  <2> SUFFICES ASSUME j + 1 <= Len(q)
               PROVE  Bytes(r, j + 1) = Bytes(q, j + 1)
    OBVIOUS
  <2>1. j + 1 \in 1 .. Len(q) /\ j + 1 \in 1 .. Len(r) /\ (j + 1) - 1 = j /\ Bytes(r, j) = Bytes(q, j)
    BY <1>1
  <2>2. Bytes(r, j + 1) = Bytes(r, j) + r[j + 1].len
    BY <1>2, <2>1
  <2>3. Bytes(q, j + 1) = Bytes(q, j) + q[j + 1].len
    BY <1>2, <2>1
  <2>4. r[j + 1] = q[j + 1]
    BY <1>1, <2>1
  <2> QED
    BY <2>1, <2>2, <2>3, <2>4
<1>5. T = Nat
  <2> HIDE DEF T
  <2>1. T \subseteq Nat
    BY DEF T
  <2> QED
    BY <1>3, <1>4, <2>1, NumberInduction
<1>6. Bytes(r, Len(q)) = Bytes(q, Len(q))
  <2>1. Len(q) \in T
    <3> HIDE DEF T
    <3> QED
      BY <1>1, <1>5
  <2> QED
    BY <1>1, <2>1
<1>7. Len(q) + 1 \in 1 .. Len(r) /\ (Len(q) + 1) - 1 = Len(q)
  BY <1>1
<1>8. Bytes(r, Len(q) + 1) = Bytes(r, Len(q)) + r[Len(q) + 1].len
  BY <1>2, <1>7
<1> QED
  BY <1>1, <1>6, <1>8 DEF r

(* Products of numbers, as the solver needs them.                           *)
LEMMA Products ==
  ASSUME NEW a \in Nat, NEW b \in Int, NEW c \in Int, b <= c
  PROVE  a * b \in Int /\ a * c \in Int /\ a * b <= a * c
<1> DEFINE T == {d \in Nat : 0 <= a * d}
<1>1. 0 \in T
  OBVIOUS
<1>2. ASSUME NEW d \in T
      PROVE  d + 1 \in T
  <2>1. a * (d + 1) = a * d + a
    OBVIOUS
  <2> QED
    BY <2>1
<1>3. T = Nat
  <2> HIDE DEF T
  <2>1. T \subseteq Nat
    BY DEF T
  <2> QED
    BY <1>1, <1>2, <2>1, NumberInduction
<1>4. c - b \in T
  <2>1. c - b \in Nat
    OBVIOUS
  <2> HIDE DEF T
  <2> QED
    BY <1>3, <2>1
<1>5. 0 <= a * (c - b)
  BY <1>4
<1>6. a * (c - b) = a * c - a * b
  OBVIOUS
<1>7. a * b \in Int /\ a * c \in Int
  OBVIOUS
<1> QED
  BY <1>5, <1>6, <1>7

(****************************************************************************)
(* Processes that have not written.                                         *)
(****************************************************************************)
Unsent(s) == {k \in DOMAIN s : s[k].written = 0}

LEMMA UnsentFinite ==
  ASSUME NEW s \in Seq(Processes)
  PROVE  IsFiniteSet(Unsent(s)) /\ Cardinality(Unsent(s)) \in Nat
<1>1. Len(s) \in Nat /\ DOMAIN s = 1 .. Len(s)
  OBVIOUS
<1>2. IsFiniteSet(1 .. Len(s))
  BY <1>1, FS_Interval
<1>3. Unsent(s) \in SUBSET (1 .. Len(s))
  BY <1>1 DEF Unsent
<1>4. IsFiniteSet(Unsent(s))
  BY <1>2, <1>3, FS_Subset
<1> QED
  BY <1>4, FS_CardinalityType

LEMMA UnsentAppend ==
  ASSUME NEW s \in Seq(Processes), NEW p \in Processes
  PROVE  Cardinality(Unsent(Append(s, p))) <= Cardinality(Unsent(s)) + One(p.written = 0)
<1>1. PICK r : r = Append(s, p)
  OBVIOUS
<1>2. /\ r \in Seq(Processes) /\ Len(r) = Len(s) + 1 /\ r[Len(s) + 1] = p
      /\ \A i \in 1 .. Len(s) : r[i] = s[i]
      /\ DOMAIN r = 1 .. Len(s) + 1 /\ DOMAIN s = 1 .. Len(s) /\ Len(s) \in Nat
  BY <1>1
<1>3. /\ IsFiniteSet(Unsent(s)) /\ Cardinality(Unsent(s)) \in Nat
      /\ IsFiniteSet(Unsent(r)) /\ Cardinality(Unsent(r)) \in Nat
  BY <1>2, UnsentFinite
<1>4. CASE p.written = 0
  <2> DEFINE more == Unsent(s) \cup {Len(s) + 1}
  <2>1. Unsent(r) \in SUBSET more
    BY <1>2 DEF Unsent
  <2>2. /\ IsFiniteSet(more)
        /\ Cardinality(more) = IF Len(s) + 1 \in Unsent(s) THEN Cardinality(Unsent(s))
                               ELSE Cardinality(Unsent(s)) + 1
    BY <1>3, FS_AddElement
  <2> HIDE DEF more
  <2>3. Cardinality(more) \in Nat
    BY <2>2, FS_CardinalityType
  <2>4. One(p.written = 0) = 1
    BY <1>4 DEF One
  <2>5. Cardinality(Unsent(r)) <= Cardinality(more)
    BY <2>1, <2>2, FS_Subset
  <2>6. Cardinality(Unsent(r)) <= Cardinality(Unsent(s)) + 1
    BY <1>3, <2>2, <2>3, <2>5
  <2> QED
    BY <1>1, <2>4, <2>6
<1>5. CASE p.written # 0
  <2>1. Unsent(r) \in SUBSET Unsent(s)
    BY <1>2, <1>5 DEF Unsent
  <2>2. Cardinality(Unsent(r)) <= Cardinality(Unsent(s))
    BY <1>3, <2>1, FS_Subset
  <2>3. One(p.written = 0) = 0
    BY <1>5 DEF One
  <2>4. Cardinality(Unsent(r)) <= Cardinality(Unsent(s)) + 0
    BY <1>3, <2>2
  <2> QED
    BY <1>1, <2>3, <2>4
<1> QED
  BY <1>4, <1>5

LEMMA UnsentRemoved ==
  ASSUME NEW s \in Seq(Processes), NEW k \in Nat, NEW r \in Seq(Processes),
         \A i \in DOMAIN r :
           /\ i \in Nat
           /\ i < k => i \in DOMAIN s \ {k} /\ r[i] = s[i]
           /\ i >= k => i + 1 \in DOMAIN s \ {k} /\ r[i] = s[i + 1]
  PROVE  Cardinality(Unsent(r)) <= Cardinality(Unsent(s))
<1> DEFINE place == [i \in Unsent(r) |-> IF i < k THEN i ELSE i + 1]
<1>1. \A i \in Unsent(r) : place[i] \in Unsent(s)
  BY DEF Unsent
<1>2. \A i, j \in Unsent(r) : place[i] = place[j] => i = j
  BY DEF Unsent
<1>3. place \in Injection(Unsent(r), Unsent(s))
  <2>1. place \in [Unsent(r) -> Unsent(s)]
    BY <1>1
  <2> HIDE DEF place
  <2> QED
    BY <1>2, <2>1 DEF Injection, IsInjective
<1>4. IsFiniteSet(Unsent(s))
  BY UnsentFinite
<1> HIDE DEF place
<1> QED
  BY <1>3, <1>4, FS_Injection

LEMMA UnsentWritten ==
  ASSUME NEW s \in Seq(Processes), NEW k \in DOMAIN s, s[k].written = 0,
         NEW r, r = [s EXCEPT ![k].written = @ + 1]
  PROVE  Cardinality(Unsent(r)) + 1 <= Cardinality(Unsent(s))
<1>1. s[k] \in Processes /\ DOMAIN s[k] = {"read", "text", "written"}
  <2>1. \A p \in Processes : DOMAIN p = {"read", "text", "written"}
    BY DEF Processes
  <2> QED
    BY <2>1
<1>2. DOMAIN r = DOMAIN s /\ r[k].written = 1 /\ \A i \in DOMAIN s \ {k} : r[i] = s[i]
  BY <1>1
<1>3. Unsent(r) \in SUBSET (Unsent(s) \ {k}) /\ k \in Unsent(s)
  BY <1>2 DEF Unsent
<1>4. IsFiniteSet(Unsent(s)) /\ Cardinality(Unsent(s)) \in Nat
  BY UnsentFinite
<1>5. IsFiniteSet(Unsent(s) \ {k}) /\ Cardinality(Unsent(s) \ {k}) = Cardinality(Unsent(s)) - 1
  BY <1>3, <1>4, FS_RemoveElement
<1>6. IsFiniteSet(Unsent(r)) /\ Cardinality(Unsent(r)) <= Cardinality(Unsent(s) \ {k})
  BY <1>3, <1>5, FS_Subset
<1>7. Cardinality(Unsent(r)) \in Nat
  BY <1>6, FS_CardinalityType
<1> QED
  BY <1>4, <1>5, <1>6, <1>7

(****************************************************************************)
(* Where no program computes a wrong value, only the first text of a pipe   *)
(* is not as long as its writer made it: a read may have cut it.            *)
(****************************************************************************)
Proper(t, m) == m = NoData \/ Refused(m) \/ Ours(t, m)

SizedPipe(p, q) ==
  \A k \in DOMAIN q :
    /\ q[k].value = "good"
    /\ k > 1 => \A w \in Tasks : Feeds(w, p) => q[k].len = Length[w]

SizeInv ==
  /\ \A p \in PipeNames : SizedPipe(p, pipe[p])
  /\ \A t \in Tasks : Proper(t, prog[t].text)
  /\ \A t \in Tasks : \A k \in DOMAIN strays[t] : Proper(t, strays[t][k].text)

Paying == OneInOneOut /\ OneReader /\ OneWriter /\ Wrong = {}

(* A task refuses no text of its writer's making.                           *)
LEMMA OutcomeProper ==
  ASSUME Paying, NEW t \in Tasks, NEW read, NEW m \in Outcomes(t, read)
  PROVE  /\ Proper(t, m)
         /\ t = Source => m.value # "exit2"
         /\ m.value = "exit2" => read[1] # NoData /\ ~ Expected(t, read[1])
<1>1. \A value \in Values(t) : \A n : Ours(t, Message(t, value, n))
  BY DEF Paying, Values, Ours, Message
<1>2. /\ Refused(Failure("exit1")) /\ Refused(Failure("exit2"))
      /\ Failure("exit1").value # "exit2"
  BY DEF Refused, Failure, NoData
<1>3. \A x : Ours(t, x) => x.value # "exit2"
  BY DEF Ours
<1>4. CASE t = Source
  <2>1. Outcomes(t, read) = Sampled(t)
    BY <1>4 DEF Outcomes, Paying, OneInOneOut
  <2>2. Ours(t, m)
    BY <1>1, <2>1 DEF Sampled
  <2> QED
    BY <1>3, <2>2 DEF Proper
<1>5. CASE t # Source
  <2>1. Outcomes(t, read) = Processed(t, read[1])
    BY <1>5 DEF Outcomes, Paying, OneInOneOut
  <2>2. CASE read[1] = NoData
    <3>1. m = Failure("exit1")
      BY <2>1, <2>2 DEF Processed
    <3> QED
      BY <1>2, <1>5, <3>1 DEF Proper
  <2>3. CASE read[1] # NoData /\ ~ Expected(t, read[1])
    <3>1. m = Failure("exit2")
      BY <2>1, <2>3 DEF Processed
    <3> QED
      BY <1>2, <1>5, <2>3, <3>1 DEF Proper
  <2>4. CASE read[1] # NoData /\ Expected(t, read[1])
    <3>1. Ours(t, m)
      BY <1>1, <2>1, <2>4 DEF Processed
    <3> QED
      BY <1>3, <1>5, <3>1 DEF Proper
  <2> QED
    BY <2>2, <2>3, <2>4
<1> QED
  BY <1>4, <1>5

(****************************************************************************)
(* What a program that reads does to its pipe and to its text.              *)
(****************************************************************************)
LEMMA PaidRead ==
  ASSUME Paying, Base, SizeInv, NEW t \in Tasks, ReadInput(t)
  PROVE  /\ t # Source /\ Len(In[t]) = 1 /\ In[t][1] \in PipeNames
         /\ pipe' = [pipe EXCEPT ![In[t][1]] = AfterRead(@, ReadCap)]
         /\ UNCHANGED <<taskRuns, errors, child, strays>>
         /\ Running(t)
         /\ \E read, m :
              /\ Proper(t, m)
              /\ prog' = [prog EXCEPT ![t].read = read, ![t].text = m]
              /\ \A w \in Tasks : Feeds(w, In[t][1]) /\ m.value = "exit2"
                   => pipe[In[t][1]] # << >> /\ pipe[In[t][1]][1].len # Length[w]
<1> DEFINE i == Len(prog[t].read) + 1
           q == pipe[In[t][i]]
           text == IF q = << >> THEN NoData ELSE Head(q)
           read == Append(prog[t].read, text)
<1>1. prog[t] \in Processes /\ prog[t].read \in Seq(Texts) /\ In[t] \in Seq(PipeNames)
  BY ProgramAssumption DEF Base, SampleType, Processes
<1>2. i \in Nat \ {0} /\ i <= Len(In[t])
  BY <1>1 DEF ReadInput
<1>3. t # Source /\ Len(In[t]) = 1 /\ i = 1
  BY <1>1, <1>2 DEF Base, OneInOneOut
<1>4. In[t][i] \in PipeNames /\ q \in Seq(Texts)
  BY <1>1, <1>2 DEF Base, SampleType
<1>5. text \in Texts /\ (q # << >> => text = q[1])
  BY <1>4, TextTypes DEF Base
<1>6. read[1] = text
  BY <1>1, <1>3, <1>5
<1>7. PICK m \in Outcomes(t, read) : prog' = [prog EXCEPT ![t].read = read, ![t].text = m]
  BY <1>3 DEF ReadInput, Computed
<1>8. /\ pipe' = [pipe EXCEPT ![In[t][1]] = AfterRead(@, ReadCap)]
      /\ UNCHANGED <<taskRuns, errors, child, strays>>
      /\ Running(t)
  BY <1>3 DEF ReadInput, schedVars, taskVars, procVars, tally
<1>9. Proper(t, m) /\ (m.value = "exit2" => text # NoData /\ ~ Expected(t, text))
  BY <1>6, <1>7, OutcomeProper
<1>10. q = pipe[In[t][1]]
  BY <1>3
<1>11. ASSUME NEW w \in Tasks, Feeds(w, In[t][1]), m.value = "exit2"
       PROVE  q # << >> /\ q[1].len # Length[w]
  <2>1. text # NoData /\ ~ Expected(t, text)
    BY <1>9, <1>11
  <2>2. q # << >> /\ text = q[1]
    BY <1>5, <2>1
  <2>3. q[1].value = "good"
    <3>1. SizedPipe(In[t][1], q)
      BY <1>3, <1>4, <1>10 DEF SizeInv
    <3>2. 1 \in DOMAIN q
      BY <1>4, <2>2
    <3> QED
      BY <3>1, <3>2 DEF SizedPipe
  <2>4. 1 \in DOMAIN Out[w] /\ Out[w][1] = In[t][1]
    <3>1. Out[w] \in Seq(PipeNames)
      BY ProgramAssumption
    <3> QED
      BY <1>11, <3>1 DEF Feeds
  <2>5. text.len = Length[w] => Expected(t, text)
    BY <2>2, <2>3, <2>4 DEF Expected
  <2> QED
    BY <2>1, <2>2, <2>5
<1>12. In[t][1] \in PipeNames
  BY <1>3, <1>4
<1>13. /\ Proper(t, m)
       /\ prog' = [prog EXCEPT ![t].read = read, ![t].text = m]
       /\ \A w \in Tasks : Feeds(w, In[t][1]) /\ m.value = "exit2"
            => pipe[In[t][1]] # << >> /\ pipe[In[t][1]][1].len # Length[w]
  <2> HIDE DEF i, q, text, read
  <2> QED
    BY <1>7, <1>9, <1>10, <1>11
<1> HIDE DEF i, q, text, read
<1> QED
  BY <1>3, <1>8, <1>12, <1>13

(* The first element of a sequence of one.                                  *)
LEMMA Single ==
  ASSUME NEW S, NEW o \in Seq(S), Len(o) = 1
  PROVE  o # << >> /\ o[1] \in S
<1>1. o # << >>
  OBVIOUS
<1>2. 1 \in DOMAIN o
  OBVIOUS
<1> QED
  BY <1>1, <1>2

(* What a process that writes does to its pipe.                             *)
LEMMA PaidWrite ==
  ASSUME Paying, Base, NEW t \in Tasks, NEW p \in Processes, p.written <= Len(Out[t]),
         WriteData(t, p)
  PROVE  /\ p.written = 0 /\ Feeds(t, Out[t][1]) /\ Out[t][1] \in PipeNames
         /\ pipe' = [pipe EXCEPT ![Out[t][1]] = Append(@, p.text)]
         /\ \A w \in Tasks : Feeds(w, Out[t][1]) => w = t
<1>1. p.written = 0 /\ Len(Out[t]) = 1 /\ Out[t] \in Seq(PipeNames)
  BY WriteEffect, ProgramAssumption
<1>2. p.written + 1 = 1
  BY <1>1
<1>3. pipe' = [pipe EXCEPT ![Out[t][1]] = Append(@, p.text)]
  BY <1>2 DEF WriteData
<1>4. Out[t] # << >> /\ Out[t][1] \in PipeNames
  BY <1>1, Single
<1>5. Feeds(t, Out[t][1])
  BY <1>4 DEF Feeds
<1> QED
  BY <1>1, <1>3, <1>4, <1>5 DEF Paying, OneWriter

(* A read leaves a pipe empty, or with ReadCap bytes less.                  *)
LEMMA ReadPays ==
  ASSUME Paying, NEW p, NEW q \in Seq(Texts), SizedPipe(p, q)
  PROVE  /\ SizedPipe(p, AfterRead(q, ReadCap))
         /\ AfterRead(q, ReadCap) \in Seq(Texts)
         /\ \/ AfterRead(q, ReadCap) = << >>
            \/ /\ q # << >>
               /\ Bytes(AfterRead(q, ReadCap), Len(AfterRead(q, ReadCap)))
                    = Bytes(q, Len(q)) - ReadCap
<1>1. PICK r : r = AfterRead(q, ReadCap)
  OBVIOUS
<1>2. /\ ReadCap \in Nat
      /\ \A m \in Texts : m.len \in Nat /\ m.len <= ReadCap
  BY TextTypes, ProgramAssumption DEF Paying
<1>3. CASE r = << >>
  <2>1. SizedPipe(p, << >>)
    BY DEF SizedPipe
  <2>2. << >> \in Seq(Texts)
    OBVIOUS
  <2> QED
    BY <1>1, <1>3, <2>1, <2>2
<1>4. CASE r # << >>
  <2>1. q # << >>
    <3>1. q = << >> => AfterRead(q, ReadCap) = << >>
      BY DEF AfterRead
    <3> QED
      BY <1>1, <1>4, <3>1
  <2>2. q[1].len <= ReadCap
    <3>1. q[1] \in Texts
      BY <2>1
    <3> QED
      BY <1>2, <3>1
  <2>3. PICK k \in 2 .. Len(q), b \in Nat :
          /\ b <= q[k].len /\ b = Bytes(q, k) - ReadCap
          /\ r = <<[q[k] EXCEPT !.len = b]>> \o SubSeq(q, k + 1, Len(q))
    BY <1>1, <1>2, <1>4, <2>1, <2>2, ReadLeaves
  <2>4. k \in 1 .. Len(q) /\ k \in Nat /\ k > 1 /\ Len(q) \in Nat /\ q[k] \in Texts
    BY <2>3
  <2>5. PICK m : m = [q[k] EXCEPT !.len = b]
    OBVIOUS
  <2>6. m \in Texts /\ m.value = q[k].value /\ m.len = b
    <3>1. b \in 0 .. ReadCap
      BY <1>2, <2>3, <2>4
    <3> QED
      BY <2>4, <2>5, <3>1 DEF Texts
  <2>7. r = <<m>> \o SubSeq(q, k + 1, Len(q))
    BY <2>3, <2>5
  <2>8. /\ r \in Seq(Texts) /\ Len(r) = 1 + (Len(q) - k)
        /\ r[1] = m /\ \A i \in 2 .. 1 + (Len(q) - k) : r[i] = q[i + k - 1]
    BY <2>4, <2>6, <2>7, Rest
  <2>9. Bytes(r, Len(r)) = m.len + Bytes(q, Len(q)) - Bytes(q, k)
    BY <1>2, <2>4, <2>6, <2>7, RestBytes
  <2>10. Bytes(q, Len(q)) \in Nat /\ Bytes(q, k) \in Nat
    <3>1. Len(q) \in 0 .. Len(q) /\ k \in 0 .. Len(q)
      BY <2>4
    <3> QED
      BY <1>2, <3>1, BytesGrow
  <2>11. Bytes(r, Len(r)) = Bytes(q, Len(q)) - ReadCap
    BY <1>2, <2>3, <2>6, <2>9, <2>10
  <2>12. SizedPipe(p, r)
    <3> SUFFICES ASSUME NEW i \in DOMAIN r
                 PROVE  /\ r[i].value = "good"
                        /\ i > 1 => \A w \in Tasks : Feeds(w, p) => r[i].len = Length[w]
      BY DEF SizedPipe
    <3>1. i \in 1 .. 1 + (Len(q) - k)
      BY <2>8
    <3>2. CASE i = 1
      <4>1. q[k].value = "good"
        BY <2>4 DEF SizedPipe
      <4> QED
        BY <2>6, <2>8, <3>2, <4>1
    <3>3. CASE i # 1
      <4>1. PICK j : j = i + k - 1
        OBVIOUS
      <4>2. i \in 2 .. 1 + (Len(q) - k) /\ j \in 1 .. Len(q) /\ j > 1
        BY <2>4, <3>1, <3>3, <4>1
      <4>3. r[i] = q[j]
        BY <2>8, <4>1, <4>2
      <4>4. j \in DOMAIN q
        BY <4>2
      <4> QED
        BY <4>2, <4>3, <4>4 DEF SizedPipe
    <3> QED
      BY <3>2, <3>3
  <2> QED
    BY <1>1, <2>1, <2>8, <2>11, <2>12
<1> QED
  BY <1>3, <1>4

(* A write adds the length of a text.                                       *)
LEMMA WritePays ==
  ASSUME Paying, NEW p, NEW q \in Seq(Texts), SizedPipe(p, q), NEW t \in Tasks,
         NEW m \in Texts, Ours(t, m), Feeds(t, p), \A w \in Tasks : Feeds(w, p) => w = t
  PROVE  /\ SizedPipe(p, Append(q, m))
         /\ Append(q, m) \in Seq(Texts)
         /\ Append(q, m)[1].len = IF q = << >> THEN Length[t] ELSE q[1].len
         /\ Bytes(Append(q, m), Len(Append(q, m))) = Bytes(q, Len(q)) + Length[t]
<1>1. PICK r : r = Append(q, m)
  OBVIOUS
<1>2. /\ Len(q) \in Nat /\ r \in Seq(Texts) /\ Len(r) = Len(q) + 1
      /\ DOMAIN r = 1 .. Len(q) + 1 /\ DOMAIN q = 1 .. Len(q)
      /\ r[Len(q) + 1] = m /\ \A i \in 1 .. Len(q) : r[i] = q[i]
  BY <1>1
<1>3. m.value = "good" /\ m.len = Length[t]
  BY DEF Ours
<1>4. SizedPipe(p, r)
  BY <1>2, <1>3 DEF SizedPipe
<1>5. Bytes(r, Len(q) + 1) = Bytes(q, Len(q)) + m.len
  <2>1. \A x \in Texts : x.len \in Nat
    BY TextTypes DEF Paying
  <2> QED
    BY <1>1, <2>1, AppendBytes
<1>6. r[1].len = IF q = << >> THEN Length[t] ELSE q[1].len
  <2>1. CASE q = << >>
    BY <1>2, <1>3, <2>1
  <2>2. CASE q # << >>
    <3>1. 1 \in 1 .. Len(q)
      BY <2>2
    <3> QED
      BY <1>2, <2>2, <3>1
  <2> QED
    BY <2>1, <2>2
<1> QED
  BY <1>1, <1>2, <1>3, <1>4, <1>5, <1>6

(* The accounts of a reader and its writer, as numbers: a step that leaves  *)
(* the pipe as it is, a read, and a write.                                  *)
Covered(c, l, r, h, b, n) == c * (r + h) + b <= l * n

Settles(c, l, r1, h1, b1, n1, r2, h2, b2, n2) ==
  \/ r2 <= r1 /\ h2 = h1 /\ b2 = b1 /\ n1 <= n2
  \/ r2 <= r1 + h1 /\ n1 = n2 /\ ((h2 = 0 /\ b2 = 0) \/ (h2 <= 1 /\ b2 = b1 - c))
  \/ r2 <= r1 /\ h2 <= h1 /\ b2 = b1 + l /\ n1 + 1 <= n2

LEMMA Balance ==
  ASSUME NEW c \in Nat, NEW l \in Nat,
         NEW r1 \in Nat, NEW h1 \in Nat, NEW b1 \in Nat, NEW n1 \in Int,
         NEW r2 \in Nat, NEW h2 \in Nat, NEW b2 \in Nat, NEW n2 \in Int,
         Covered(c, l, r1, h1, b1, n1), Settles(c, l, r1, h1, b1, n1, r2, h2, b2, n2)
  PROVE  Covered(c, l, r2, h2, b2, n2)
<1>0. /\ c * (r1 + h1) + b1 <= l * n1
      /\ \/ r2 <= r1 /\ h2 = h1 /\ b2 = b1 /\ n1 <= n2
         \/ r2 <= r1 + h1 /\ n1 = n2 /\ ((h2 = 0 /\ b2 = 0) \/ (h2 <= 1 /\ b2 = b1 - c))
         \/ r2 <= r1 /\ h2 <= h1 /\ b2 = b1 + l /\ n1 + 1 <= n2
  BY DEF Covered, Settles
<1> SUFFICES c * (r2 + h2) + b2 <= l * n2
  BY DEF Covered
<1>1. /\ c * (r1 + h1) \in Int /\ c * (r2 + h2) \in Int /\ c * (r1 + h1 + 1) \in Int
      /\ l * n1 \in Int /\ l * n2 \in Int /\ l * (n1 + 1) \in Int
  BY Products
<1>2. CASE r2 <= r1 /\ h2 = h1 /\ b2 = b1 /\ n1 <= n2
  <2>1. c * (r2 + h2) <= c * (r1 + h1) /\ l * n1 <= l * n2
    BY <1>2, Products
  <2> QED
    BY <1>0, <1>1, <1>2, <2>1
<1>3. CASE r2 <= r1 + h1 /\ n1 = n2 /\ h2 = 0 /\ b2 = 0
  <2>1. c * (r2 + h2) <= c * (r1 + h1)
    BY <1>3, Products
  <2> QED
    BY <1>0, <1>1, <1>3, <2>1
<1>4. CASE r2 <= r1 + h1 /\ n1 = n2 /\ h2 <= 1 /\ b2 = b1 - c
  <2>1. c * (r2 + h2) <= c * (r1 + h1 + 1)
    BY <1>4, Products
  <2>2. c * (r1 + h1 + 1) = c * (r1 + h1) + c
    OBVIOUS
  <2> QED
    BY <1>0, <1>1, <1>4, <2>1, <2>2
<1>5. CASE r2 <= r1 /\ h2 <= h1 /\ b2 = b1 + l /\ n1 + 1 <= n2
  <2>1. c * (r2 + h2) <= c * (r1 + h1) /\ l * (n1 + 1) <= l * n2
    BY <1>5, Products
  <2>2. l * (n1 + 1) = l * n1 + l
    OBVIOUS
  <2> QED
    BY <1>0, <1>1, <1>5, <2>1, <2>2
<1> QED
  BY <1>0, <1>2, <1>3, <1>4, <1>5

(****************************************************************************)
(* The accounts.  A task has refused, or is about to; a pipe holds the rest *)
(* of a text, which its reader will refuse; and the texts sent are those of *)
(* the launches but for the processes that have not written.                *)
(****************************************************************************)
Refusals(t) == errors[t] + One(child[t] = "exit2") + One(prog[t].text.value = "exit2")
CutHead(q, l) == One(q # << >> /\ q[1].len # l)
Unwritten(w) == One(Running(w) /\ prog[w].written = 0) + Cardinality(Unsent(strays[w]))
Sent(w) == taskRuns[w] - Unwritten(w)

Balanced(t, w) ==
  LET q == pipe[In[t][1]]
  IN  Covered(ReadCap, Length[w], Refusals(t), CutHead(q, Length[w]), Bytes(q, Len(q)), Sent(w))

PaidInv ==
  /\ SizeInv
  /\ \A t \in Fed : \A w \in Tasks : Feeds(w, In[t][1]) => Balanced(t, w)

LEMMA Counts ==
  ASSUME Paying, NEW q \in Seq(Texts), NEW s \in Seq(Processes)
  PROVE  /\ Bytes(q, Len(q)) \in Nat
         /\ Cardinality(Unsent(s)) \in Nat
         /\ \A l : CutHead(q, l) \in Nat /\ CutHead(q, l) <= 1
         /\ \A l : CutHead(<< >>, l) = 0
         /\ Bytes(<< >>, 0) = 0 /\ Len(<< >>) = 0
<1>1. \A x \in Texts : x.len \in Nat
  BY TextTypes DEF Paying
<1>2. Len(q) \in 0 .. Len(q)
  OBVIOUS
<1>3. << >> \in Seq(Texts)
  OBVIOUS
<1>4. Bytes(q, Len(q)) \in Nat
  BY <1>1, <1>2, BytesGrow
<1>5. Bytes(<< >>, 0) = 0 /\ Len(<< >>) = 0
  BY <1>3, BytesAdd
<1>6. Cardinality(Unsent(s)) \in Nat
  BY UnsentFinite
<1>7. \A l : CutHead(q, l) \in Nat /\ CutHead(q, l) <= 1
  BY DEF CutHead, One
<1>8. \A l : CutHead(<< >>, l) = 0
  BY DEF CutHead, One
<1> QED
  BY <1>4, <1>5, <1>6, <1>7, <1>8

(* The accounts are numbers, before a step and after it.                    *)
LEMMA AccountTypes ==
  ASSUME Paying, Base, TypeOK', SampleType', NEW t \in Tasks
  PROVE  /\ Refusals(t) \in Nat /\ Refusals(t)' \in Nat
         /\ Sent(t) \in Int /\ Sent(t)' \in Int
         /\ Unwritten(t) \in Nat /\ Unwritten(t)' \in Nat
         /\ taskRuns[t] \in Nat /\ taskRuns'[t] \in Nat
<1>1. strays[t] \in Seq(Processes) /\ strays'[t] \in Seq(Processes)
  BY DEF Base, SampleType
<1>2. /\ Cardinality(Unsent(strays[t])) \in Nat
      /\ Cardinality(Unsent(strays'[t])) \in Nat
  BY <1>1, UnsentFinite
<1>3. /\ errors[t] \in Nat /\ errors'[t] \in Nat
      /\ taskRuns[t] \in Nat /\ taskRuns'[t] \in Nat
  BY DEF Base, TypeOK
<1>4. Refusals(t) \in Nat /\ Refusals(t)' \in Nat
  <2>1. /\ One(child[t] = "exit2") \in Nat /\ One(child'[t] = "exit2") \in Nat
        /\ One(prog[t].text.value = "exit2") \in Nat /\ One(prog'[t].text.value = "exit2") \in Nat
    BY DEF One
  <2> QED
    BY <1>3, <2>1 DEF Refusals
<1>5. Unwritten(t) \in Nat /\ Unwritten(t)' \in Nat
  BY <1>2 DEF Unwritten, One
<1> QED
  BY <1>3, <1>4, <1>5 DEF Sent

(* What the steps of the programs do to these accounts: nothing, a read, or *)
(* a write.                                                                 *)
LEMMA BalanceStep ==
  ASSUME Paying, Base, TypeOK', SampleType', SizeInv,
         NEW t \in Fed, NEW w \in Tasks, Feeds(w, In[t][1]), Balanced(t, w),
         NEW p \in PipeNames, p = In[t][1],
         \/ /\ Refusals(t)' <= Refusals(t)
            /\ pipe'[p] = pipe[p]
            /\ Sent(w) <= Sent(w)'
         \/ /\ Refusals(t)' <= Refusals(t) + CutHead(pipe[p], Length[w])
            /\ pipe'[p] = AfterRead(pipe[p], ReadCap)
            /\ Sent(w)' = Sent(w)
         \/ /\ Refusals(t)' <= Refusals(t)
            /\ \E m \in Texts : Ours(w, m) /\ pipe'[p] = Append(pipe[p], m)
            /\ Sent(w) + 1 <= Sent(w)'
  PROVE  Balanced(t, w)'
<1>1. PICK q \in Seq(Texts), r \in Seq(Texts) : q = pipe[p] /\ r = pipe'[p]
  BY DEF Base, SampleType
<1>2. t \in Tasks /\ ReadCap \in Nat /\ Length[w] \in Nat
  BY ProgramAssumption, TaskAssumption
<1>3. SizedPipe(p, q)
  BY <1>1 DEF SizeInv
<1>4. PICK r1 \in Nat, r2 \in Nat, h1 \in Nat, h2 \in Nat, b1 \in Nat, b2 \in Nat,
           n1 \in Int, n2 \in Int :
        /\ r1 = Refusals(t) /\ r2 = Refusals(t)'
        /\ h1 = CutHead(q, Length[w]) /\ h2 = CutHead(r, Length[w]) /\ h2 <= 1
        /\ b1 = Bytes(q, Len(q)) /\ b2 = Bytes(r, Len(r))
        /\ n1 = Sent(w) /\ n2 = Sent(w)'
  <2>1. Refusals(t) \in Nat /\ Refusals(t)' \in Nat /\ Sent(w) \in Int /\ Sent(w)' \in Int
    BY <1>2, AccountTypes
  <2>2. strays[t] \in Seq(Processes)
    BY <1>2 DEF Base, SampleType
  <2>3. /\ CutHead(q, Length[w]) \in Nat
        /\ CutHead(r, Length[w]) \in Nat /\ CutHead(r, Length[w]) <= 1
        /\ Bytes(q, Len(q)) \in Nat /\ Bytes(r, Len(r)) \in Nat
    BY <2>2, Counts
  <2> QED
    BY <2>1, <2>3
<1>5. Covered(ReadCap, Length[w], r1, h1, b1, n1)
  BY <1>1, <1>4 DEF Balanced
<1>6. \/ r2 <= r1 /\ h2 = h1 /\ b2 = b1 /\ n1 <= n2
      \/ r2 <= r1 + h1 /\ n1 = n2 /\ ((h2 = 0 /\ b2 = 0) \/ (h2 <= 1 /\ b2 = b1 - ReadCap))
      \/ r2 <= r1 /\ h2 <= h1 /\ b2 = b1 + Length[w] /\ n1 + 1 <= n2
  <2>1. CASE r2 <= r1 /\ r = q /\ n1 <= n2
    BY <1>4, <2>1
  <2>2. CASE r2 <= r1 + h1 /\ r = AfterRead(q, ReadCap) /\ n2 = n1
    <3>1. r = << >> \/ b2 = b1 - ReadCap
      <4>1. \/ AfterRead(q, ReadCap) = << >>
            \/ Bytes(AfterRead(q, ReadCap), Len(AfterRead(q, ReadCap)))
                 = Bytes(q, Len(q)) - ReadCap
        BY <1>3, ReadPays
      <4> QED
        BY <1>4, <2>2, <4>1
    <3>2. r = << >> => h2 = 0 /\ b2 = 0
      <4>1. strays[t] \in Seq(Processes)
        BY <1>2 DEF Base, SampleType
      <4>2. CutHead(<< >>, Length[w]) = 0 /\ Bytes(<< >>, 0) = 0 /\ Len(<< >>) = 0
        BY <4>1, Counts
      <4> QED
        BY <1>4, <4>2
    <3>3. h2 <= 1
      BY <1>4
    <3> QED
      BY <2>2, <3>1, <3>2, <3>3, Zenon
  <2>3. ASSUME NEW m \in Texts, Ours(w, m), r = Append(q, m), r2 <= r1, n1 + 1 <= n2
        PROVE  r2 <= r1 /\ h2 <= h1 /\ b2 = b1 + Length[w] /\ n1 + 1 <= n2
    <3>1. \A u \in Tasks : Feeds(u, p) => u = w
      BY DEF Paying, OneWriter
    <3>2. /\ r[1].len = IF q = << >> THEN Length[w] ELSE q[1].len
          /\ b2 = b1 + Length[w]
      BY <1>3, <1>4, <2>3, <3>1, WritePays
    <3>3. h2 <= h1
      BY <1>4, <3>2 DEF CutHead, One
    <3> QED
      BY <2>3, <3>2, <3>3
  <2>4. \/ r2 <= r1 /\ r = q /\ n1 <= n2
        \/ r2 <= r1 + h1 /\ r = AfterRead(q, ReadCap) /\ n2 = n1
        \/ r2 <= r1 /\ (\E m \in Texts : Ours(w, m) /\ r = Append(q, m)) /\ n1 + 1 <= n2
    BY <1>1, <1>4
  <2> QED
    BY <2>1, <2>2, <2>3, <2>4
<1>7. Settles(ReadCap, Length[w], r1, h1, b1, n1, r2, h2, b2, n2)
  BY <1>6 DEF Settles
<1>8. Covered(ReadCap, Length[w], r2, h2, b2, n2)
  <2>1. /\ r1 \in Nat /\ r2 \in Nat /\ h1 \in Nat /\ h2 \in Nat /\ b1 \in Nat /\ b2 \in Nat
        /\ n1 \in Int /\ n2 \in Int
    BY <1>4
  <2> QED
    BY <1>2, <1>5, <1>7, <2>1, Balance
<1> QED
  BY <1>1, <1>4, <1>8 DEF Balanced

(****************************************************************************)
(* The steps that leave the pipes as they are.                              *)
(****************************************************************************)
Calm ==
  /\ pipe' = pipe
  /\ \A t \in Tasks : Refusals(t)' <= Refusals(t) /\ Sent(t) <= Sent(t)'

(* The accounts before a step are numbers.                                  *)
LEMMA NumbersNow ==
  ASSUME Base, NEW t \in Tasks
  PROVE  /\ errors[t] \in Nat /\ taskRuns[t] \in Nat
         /\ Cardinality(Unsent(strays[t])) \in Nat
<1>1. strays[t] \in Seq(Processes)
  BY DEF Base, SampleType
<1> QED
  BY <1>1, UnsentFinite DEF Base, TypeOK

(* The scheduler counts the refusals it collects.                           *)
LEMMA LoopCalm ==
  ASSUME Base, TypeOK', SizeInv, Loop \/ FCTerminated \/ UNCHANGED fcVars
  PROVE  Calm /\ SizeInv'
<1>1. UNCHANGED <<taskRuns, pipe, prog, strays>>
  BY DEF Loop, Tick, CheckActive, Monitor, MonitorReap, MonitorStuck, MonitorWait,
         MonitorDispatch, LogResults, PrintResults, WriteResults, Cleanup, FCTerminated,
         Terminated, vars, fcVars, taskVars, progVars
<1>2. SizeInv'
  BY <1>1 DEF SizeInv
<1> DEFINE Collected ==
      \A u \in Tasks :
        /\ child'[u] = "alive" => child[u] = "alive"
        /\ errors'[u] + One(child'[u] = "exit2") <= errors[u] + One(child[u] = "exit2")
<1>3. /\ errors \in [Tasks -> Nat] /\ DOMAIN child = Tasks
      /\ \A u \in Tasks : errors[u] \in Nat
  BY DEF Base, TypeOK
<1>4. ASSUME NEW t \in Tasks, MonitorReap(t)
      PROVE  Collected
  <2>1. /\ child' = [child EXCEPT ![t] = "none"]
        /\ errors' = Bump(errors, t, (IF child[t] = "none" THEN "lost" ELSE child[t]) = "exit2")
    BY <1>4 DEF MonitorReap, HandleTaskCompletion
  <2>2. \A u \in Tasks \ {t} : child'[u] = child[u] /\ errors'[u] = errors[u]
    BY <1>3, <2>1 DEF Bump
  <2>3. child'[t] = "none" /\ errors'[t] = errors[t] + One(child[t] = "exit2")
    BY <1>3, <2>1 DEF Bump, One
  <2>4. ASSUME NEW u \in Tasks
        PROVE  /\ child'[u] = "alive" => child[u] = "alive"
               /\ errors'[u] + One(child'[u] = "exit2") <= errors[u] + One(child[u] = "exit2")
    <3>1. CASE u = t
      BY <1>3, <2>3, <3>1 DEF One
    <3>2. CASE u # t
      BY <1>3, <2>2, <3>2 DEF One
    <3> QED
      BY <3>1, <3>2
  <2> QED
    BY <2>4
<1>5. ASSUME NEW t \in Tasks, MonitorStuck(t)
      PROVE  Collected
  <2>1. child' = child /\ errors' = Bump(errors, t, "signal" = "exit2")
    BY <1>5 DEF MonitorStuck, HandleTaskCompletion, procVars
  <2>2. \A u \in Tasks : child'[u] = child[u] /\ errors'[u] = errors[u]
    BY <1>3, <2>1 DEF Bump
  <2> QED
    BY <1>3, <2>2 DEF One
<1>6. ASSUME NEW t \in Tasks, Cleanup(t)
      PROVE  Collected
  <2>1. \A u \in Tasks : (child'[u] = "none" \/ child'[u] = child[u]) /\ errors'[u] = errors[u]
    BY <1>3, <1>6 DEF Cleanup, tally
  <2> QED
    BY <1>3, <2>1 DEF One
<1>7. ASSUME UNCHANGED <<child, errors>>
      PROVE  Collected
  BY <1>3, <1>7 DEF One
<1>8. Collected
  <2>1. \/ UNCHANGED <<child, errors>>
        \/ \E t \in Tasks : MonitorReap(t) \/ MonitorStuck(t) \/ Cleanup(t)
    BY DEF Loop, Tick, CheckActive, Monitor, MonitorWait, MonitorDispatch, LogResults,
           PrintResults, WriteResults, FCTerminated, Terminated, vars, fcVars, procVars, tally
  <2> HIDE DEF Collected
  <2> QED
    BY <1>4, <1>5, <1>6, <1>7, <2>1
<1>9. ASSUME NEW t \in Tasks
      PROVE  Refusals(t)' <= Refusals(t) /\ Sent(t) <= Sent(t)'
  <2>1. errors'[t] + One(child'[t] = "exit2") <= errors[t] + One(child[t] = "exit2")
    BY <1>8
  <2>2. /\ errors'[t] \in Nat /\ errors[t] \in Nat /\ taskRuns[t] \in Nat
        /\ Cardinality(Unsent(strays[t])) \in Nat
    BY NumbersNow DEF TypeOK
  <2>3. One(prog[t].text.value = "exit2") \in Nat
    BY DEF One
  <2>4. Refusals(t)' = (errors'[t] + One(child'[t] = "exit2")) + One(prog[t].text.value = "exit2")
    BY <1>1 DEF Refusals
  <2>5. Refusals(t)' <= Refusals(t)
    <3>1. One(child'[t] = "exit2") \in Nat /\ One(child[t] = "exit2") \in Nat
      BY DEF One
    <3> QED
      BY <2>1, <2>2, <2>3, <2>4, <3>1 DEF Refusals
  <2>6. Running(t)' => Running(t)
    BY <1>8 DEF Running
  <2>7. One(Running(t)' /\ prog[t].written = 0) <= One(Running(t) /\ prog[t].written = 0)
    BY <2>6 DEF One
  <2>8. One(Running(t)' /\ prog[t].written = 0) \in Nat /\ One(Running(t) /\ prog[t].written = 0) \in Nat
    BY DEF One
  <2>9. /\ Sent(t)' = taskRuns[t] - (One(Running(t)' /\ prog[t].written = 0) + Cardinality(Unsent(strays[t])))
        /\ Sent(t) = taskRuns[t] - (One(Running(t) /\ prog[t].written = 0) + Cardinality(Unsent(strays[t])))
    BY <1>1 DEF Sent, Unwritten
  <2> QED
    BY <2>2, <2>5, <2>7, <2>8, <2>9
<1> QED
  BY <1>1, <1>2, <1>9 DEF Calm

(* Every other step leaves the counts of refusals as they are.              *)
LEMMA RefusalsSame ==
  ASSUME Base, NEW t \in Tasks, errors'[t] = errors[t],
         child'[t] = "exit2" \/ prog'[t].text.value = "exit2"
           => child[t] = "exit2" \/ prog[t].text.value = "exit2",
         ~ (child'[t] = "exit2" /\ prog'[t].text.value = "exit2")
           \/ (child[t] = "exit2" /\ prog[t].text.value = "exit2")
  PROVE  Refusals(t)' <= Refusals(t)
BY NumbersNow DEF Refusals, One

(* A step after which no more processes have their text to write.           *)
LEMMA SentMore ==
  ASSUME Base, SampleType', NEW t \in Tasks, taskRuns'[t] = taskRuns[t],
         Running(t)' /\ prog'[t].written = 0 => Running(t) /\ prog[t].written = 0,
         Cardinality(Unsent(strays'[t])) <= Cardinality(Unsent(strays[t]))
  PROVE  Sent(t) <= Sent(t)'
<1>1. strays'[t] \in Seq(Processes)
  BY DEF SampleType
<1>2. Cardinality(Unsent(strays'[t])) \in Nat
  BY <1>1, UnsentFinite
<1> QED
  BY <1>2, NumbersNow DEF Sent, Unwritten, One

(* A sample is no refusal.                                                  *)
LEMMA SampleCalm ==
  ASSUME Paying, Base, SampleType', SizeInv, NEW t \in Tasks, Sample(t)
  PROVE  Calm /\ SizeInv'
<1>1. t = Source /\ UNCHANGED <<taskRuns, child, pipe, strays>> /\ errors' = errors
  BY SampleEffect DEF Sample, schedVars, tally
<1>2. PICK m \in Outcomes(t, << >>) : prog' = [prog EXCEPT ![t].read = << >>, ![t].text = m]
  BY DEF Sample, Computed
<1>3. Proper(t, m) /\ m.value # "exit2"
  BY <1>1, OutcomeProper
<1>4. /\ prog'[t].text = m /\ prog'[t].written = prog[t].written
      /\ \A u \in Tasks \ {t} : prog'[u] = prog[u]
  BY <1>2 DEF Base, SampleType, Processes
<1>5. SizeInv'
  BY <1>1, <1>3, <1>4 DEF SizeInv
<1>6. prog[t].text.value # "exit2"
  <2>1. prog[t].text = NoData
    BY SampleEffect
  <2> QED
    BY <2>1 DEF NoData
<1>7. ASSUME NEW u \in Tasks
      PROVE  Refusals(u)' <= Refusals(u) /\ Sent(u) <= Sent(u)'
  <2>1. Refusals(u)' <= Refusals(u)
    BY <1>1, <1>3, <1>4, <1>6, RefusalsSame
  <2>2. prog'[u].written = prog[u].written
    BY <1>4
  <2>3. Cardinality(Unsent(strays'[u])) <= Cardinality(Unsent(strays[u]))
    BY <1>1, NumbersNow
  <2>4. Sent(u) <= Sent(u)'
    BY <1>1, <2>2, <2>3, SentMore DEF Running
  <2> QED
    BY <2>1, <2>4
<1> QED
  BY <1>1, <1>5, <1>7 DEF Calm

(* A refusal goes from the program to the status of its process.            *)
LEMMA ExitCalm ==
  ASSUME Paying, Base, SampleType', SizeInv, NEW t \in Tasks, Finish(t) \/ Crash(t)
  PROVE  Calm /\ SizeInv'
<1>1. PICK status : /\ Exit(t, status) /\ status # "alive"
                    /\ status = "exit2" => prog[t].text.value = "exit2"
  BY DEF Finish, Crash, Failed, Refused
<1>2. /\ UNCHANGED <<taskRuns, errors, pipe, strays>> /\ child[t] = "alive"
      /\ child' = [child EXCEPT ![t] = status] /\ prog' = [prog EXCEPT ![t] = Fresh]
  BY <1>1 DEF Exit, Running, schedVars, taskVars, tally
<1>3. /\ child'[t] = status /\ prog'[t] = Fresh
      /\ \A u \in Tasks \ {t} : child'[u] = child[u] /\ prog'[u] = prog[u]
  BY <1>2 DEF Base, TypeOK, SampleType
<1>4. Fresh.text = NoData /\ NoData.value # "exit2"
  BY DEF Fresh, NoData
<1>5. SizeInv'
  BY <1>2, <1>3, <1>4 DEF SizeInv, Proper
<1>6. ASSUME NEW u \in Tasks
      PROVE  Refusals(u)' <= Refusals(u) /\ Sent(u) <= Sent(u)'
  <2>1. Refusals(u)' <= Refusals(u)
    BY <1>1, <1>2, <1>3, <1>4, RefusalsSame
  <2>2. Cardinality(Unsent(strays'[u])) <= Cardinality(Unsent(strays[u]))
    BY <1>2, NumbersNow
  <2>3. Sent(u) <= Sent(u)'
    BY <1>1, <1>2, <1>3, <2>2, SentMore DEF Running
  <2> QED
    BY <2>1, <2>3
<1> QED
  BY <1>2, <1>5, <1>6 DEF Calm

(* The scheduler collects no process it has given up.                       *)
LEMMA StrayExitCalm ==
  ASSUME Paying, Base, SampleType', SizeInv, NEW t \in Tasks, StrayExit(t)
  PROVE  Calm /\ SizeInv'
<1>1. PICK k \in DOMAIN strays[t] :
        strays' = [strays EXCEPT ![t] = SubSeq(@, 1, k - 1) \o SubSeq(@, k + 1, Len(@))]
  BY DEF StrayExit
<1>2. /\ \A u \in Tasks \ {t} : strays'[u] = strays[u]
      /\ \A i \in DOMAIN strays'[t] :
           /\ i \in Nat
           /\ i < k => i \in DOMAIN strays[t] \ {k} /\ strays'[t][i] = strays[t][i]
           /\ i >= k => i + 1 \in DOMAIN strays[t] \ {k} /\ strays'[t][i] = strays[t][i + 1]
  BY <1>1, StrayExitEffect
<1>3. UNCHANGED <<taskRuns, errors, child, pipe, prog>>
  BY DEF StrayExit, OrphanExit, taskVars, tally
<1>4. k \in Nat /\ strays[t] \in Seq(Processes) /\ strays'[t] \in Seq(Processes)
  BY DEF Base, SampleType
<1>5. \A u \in Tasks : \A i \in DOMAIN strays'[u] : \E j \in DOMAIN strays[u] :
        strays'[u][i] = strays[u][j]
  BY <1>2, <1>4
<1>6. SizeInv'
  BY <1>3, <1>5 DEF SizeInv
<1>7. Cardinality(Unsent(strays'[t])) <= Cardinality(Unsent(strays[t]))
  BY <1>2, <1>4, UnsentRemoved
<1>8. ASSUME NEW u \in Tasks
      PROVE  Refusals(u)' <= Refusals(u) /\ Sent(u) <= Sent(u)'
  <2>1. Refusals(u)' <= Refusals(u)
    BY <1>3, RefusalsSame
  <2>2. Cardinality(Unsent(strays'[u])) <= Cardinality(Unsent(strays[u]))
    BY <1>2, <1>7, NumbersNow
  <2>3. Sent(u) <= Sent(u)'
    BY <1>3, <2>2, SentMore DEF Running
  <2> QED
    BY <2>1, <2>3
<1> QED
  BY <1>3, <1>6, <1>8 DEF Calm

(* A launch that has not sent yet, next to a process that may not have.     *)
LEMMA LaunchCalm ==
  ASSUME Paying, Base, SampleType', SizeInv, NEW t \in Tasks, Launch(t)
  PROVE  Calm /\ SizeInv'
<1>1. /\ UNCHANGED <<pipe, actuated>>
      /\ prog'[t] = Fresh /\ \A u \in Tasks \ {t} : prog'[u] = prog[u]
      /\ \A u \in Tasks : \A k \in DOMAIN strays'[u] :
           \/ k \in DOMAIN strays[u] /\ strays'[u][k] = strays[u][k]
           \/ u = t /\ strays'[u][k] = prog[t]
  BY LaunchEffect
<1>2. /\ errors' = errors /\ taskRuns' = [taskRuns EXCEPT ![t] = @ + 1]
      /\ child' = [child EXCEPT ![t] = "alive"]
      /\ strays' = [strays EXCEPT ![t] = IF Running(t) THEN Append(@, prog[t]) ELSE @]
  BY DEF Launch, RunTask, tally
<1>3. /\ child'[t] = "alive" /\ taskRuns'[t] = taskRuns[t] + 1
      /\ strays'[t] = IF Running(t) THEN Append(strays[t], prog[t]) ELSE strays[t]
      /\ \A u \in Tasks \ {t} :
           child'[u] = child[u] /\ taskRuns'[u] = taskRuns[u] /\ strays'[u] = strays[u]
  BY <1>2 DEF Base, TypeOK, SampleType
<1>4. Fresh.text = NoData /\ NoData.value # "exit2" /\ Fresh.written = 0
  BY DEF Fresh, NoData
<1>5. SizeInv'
  <2>1. \A u \in Tasks : Proper(u, prog'[u].text)
    BY <1>1, <1>4 DEF SizeInv, Proper
  <2>2. \A u \in Tasks : \A k \in DOMAIN strays'[u] : Proper(u, strays'[u][k].text)
    BY <1>1 DEF SizeInv
  <2> QED
    BY <1>1, <2>1, <2>2 DEF SizeInv
<1>6. Sent(t) <= Sent(t)'
  <2>1. strays[t] \in Seq(Processes) /\ prog[t] \in Processes /\ strays'[t] \in Seq(Processes)
    BY DEF Base, SampleType
  <2>2. PICK n \in Nat, n1 \in Nat, r \in Nat :
          /\ n = Cardinality(Unsent(strays[t])) /\ n1 = Cardinality(Unsent(strays'[t]))
          /\ r = taskRuns[t]
    BY <2>1, UnsentFinite, NumbersNow
  <2>3. n1 <= n + One(Running(t) /\ prog[t].written = 0)
    <3>1. CASE Running(t)
      <4>1. Cardinality(Unsent(Append(strays[t], prog[t]))) <= n + One(prog[t].written = 0)
        BY <2>1, <2>2, UnsentAppend
      <4> QED
        BY <1>3, <2>2, <3>1, <4>1 DEF One
    <3>2. CASE ~ Running(t)
      BY <1>3, <2>2, <3>2 DEF One
    <3> QED
      BY <3>1, <3>2
  <2>4. One(Running(t)' /\ prog'[t].written = 0) = 1
    BY <1>1, <1>3, <1>4 DEF One, Running
  <2>5. /\ Sent(t) = r - (One(Running(t) /\ prog[t].written = 0) + n)
        /\ Sent(t)' = (r + 1) - (1 + n1)
    BY <1>3, <2>2, <2>4 DEF Sent, Unwritten
  <2>6. One(Running(t) /\ prog[t].written = 0) \in Nat
    BY DEF One
  <2> QED
    BY <2>3, <2>5, <2>6
<1>7. ASSUME NEW u \in Tasks
      PROVE  Refusals(u)' <= Refusals(u) /\ Sent(u) <= Sent(u)'
  <2>1. Refusals(u)' <= Refusals(u)
    BY <1>1, <1>2, <1>3, <1>4, RefusalsSame
  <2>2. CASE u # t
    <3>1. Cardinality(Unsent(strays'[u])) <= Cardinality(Unsent(strays[u]))
      BY <1>3, <2>2, NumbersNow
    <3>2. Sent(u) <= Sent(u)'
      BY <1>1, <1>3, <2>2, <3>1, SentMore DEF Running
    <3> QED
      BY <2>1, <3>2
  <2> QED
    BY <1>6, <2>1, <2>2
<1> QED
  BY <1>1, <1>5, <1>7 DEF Calm

(****************************************************************************)
(* The account is kept by each step, and it is enough.                      *)
(****************************************************************************)
LEMMA FedPipe ==
  ASSUME Paying, NEW t \in Fed
  PROVE  t \in Tasks /\ In[t][1] \in PipeNames
<1>1. t \in Tasks
  BY TaskAssumption
<1>2. In[t] \in Seq(PipeNames) /\ Len(In[t]) = 1
  BY <1>1, ProgramAssumption DEF Paying, OneReader
<1> QED
  BY <1>1, <1>2, Single

LEMMA CalmPaid ==
  ASSUME Paying, Base, TypeOK', SampleType', PaidInv, Calm, SizeInv'
  PROVE  PaidInv'
<1>1. ASSUME NEW t \in Fed, NEW w \in Tasks, Feeds(w, In[t][1])
      PROVE  Balanced(t, w)'
  <2>1. Balanced(t, w) /\ SizeInv
    BY <1>1 DEF PaidInv
  <2>2. t \in Tasks
    BY TaskAssumption
  <2>3. PICK p \in PipeNames : p = In[t][1]
    BY FedPipe
  <2>4. Refusals(t)' <= Refusals(t) /\ pipe'[p] = pipe[p] /\ Sent(w) <= Sent(w)'
    BY <2>2 DEF Calm
  <2> QED
    BY <1>1, <2>1, <2>3, <2>4, BalanceStep
<1> QED
  BY <1>1 DEF PaidInv

LEMMA ReadPaid ==
  ASSUME Paying, Base, TypeOK', SampleType', PaidInv, NEW x \in Tasks, ReadInput(x)
  PROVE  PaidInv'
<1>1. SizeInv
  BY DEF PaidInv
<1>2. PICK name \in PipeNames : name = In[x][1]
  BY <1>1, PaidRead
<1>3. /\ x # Source
      /\ pipe' = [pipe EXCEPT ![name] = AfterRead(@, ReadCap)]
      /\ UNCHANGED <<taskRuns, errors, child, strays>>
  BY <1>1, <1>2, PaidRead
<1>4. PICK read, m :
        /\ Proper(x, m)
        /\ prog' = [prog EXCEPT ![x].read = read, ![x].text = m]
        /\ \A w \in Tasks : Feeds(w, name) /\ m.value = "exit2"
             => pipe[name] # << >> /\ pipe[name][1].len # Length[w]
  <2>1. PICK read, m :
          /\ Proper(x, m)
          /\ prog' = [prog EXCEPT ![x].read = read, ![x].text = m]
          /\ \A w \in Tasks : Feeds(w, In[x][1]) /\ m.value = "exit2"
               => pipe[In[x][1]] # << >> /\ pipe[In[x][1]][1].len # Length[w]
    BY <1>1, PaidRead
  <2> QED
    BY <1>2, <2>1
<1>5. /\ prog'[x].text = m /\ prog'[x].written = prog[x].written
      /\ \A u \in Tasks \ {x} : prog'[u] = prog[u]
  BY <1>4 DEF Base, SampleType, Processes
<1>6. /\ pipe'[name] = AfterRead(pipe[name], ReadCap)
      /\ \A p \in PipeNames \ {name} : pipe'[p] = pipe[p]
  BY <1>3 DEF Base, SampleType
<1>7. SizeInv'
  <2>1. SizedPipe(name, pipe'[name])
    <3>1. pipe[name] \in Seq(Texts) /\ SizedPipe(name, pipe[name])
      BY <1>1 DEF Base, SampleType, SizeInv
    <3> QED
      BY <1>6, <3>1, ReadPays
  <2>2. \A p \in PipeNames : SizedPipe(p, pipe'[p])
    BY <1>1, <1>6, <2>1 DEF SizeInv
  <2>3. \A u \in Tasks : Proper(u, prog'[u].text)
    BY <1>1, <1>4, <1>5 DEF SizeInv
  <2> QED
    BY <1>1, <1>3, <2>2, <2>3 DEF SizeInv
<1>8. \A u \in Tasks : Sent(u)' = Sent(u)
  <2>1. \A u \in Tasks : prog'[u].written = prog[u].written
    BY <1>5
  <2> QED
    BY <1>3, <2>1 DEF Sent, Unwritten, Running
<1>9. ASSUME NEW t \in Fed, NEW w \in Tasks, Feeds(w, In[t][1])
      PROVE  Balanced(t, w)'
  <2>1. Balanced(t, w)
    BY <1>9 DEF PaidInv
  <2>2. t \in Tasks
    BY TaskAssumption
  <2>3. PICK p \in PipeNames : p = In[t][1]
    BY FedPipe
  <2>4. CASE t = x
    <3>1. p = name
      BY <1>2, <2>3, <2>4
    <3>2. Refusals(t)' <= Refusals(t) + CutHead(pipe[p], Length[w])
      <4>1. m.value = "exit2" => CutHead(pipe[p], Length[w]) = 1
        BY <1>4, <1>9, <2>3, <3>1 DEF CutHead, One
      <4>2. CutHead(pipe[p], Length[w]) \in Nat
        BY DEF CutHead, One
      <4>3. errors[t] \in Nat
        BY <2>2, NumbersNow
      <4>4. Refusals(t)' = errors[t] + One(child[t] = "exit2") + One(m.value = "exit2")
        BY <1>3, <1>5, <2>4 DEF Refusals
      <4> QED
        BY <4>1, <4>2, <4>3, <4>4 DEF Refusals, One
    <3>3. Sent(w)' = Sent(w) /\ pipe'[p] = AfterRead(pipe[p], ReadCap)
      BY <1>6, <1>8, <3>1
    <3> QED
      BY <1>1, <1>9, <2>1, <2>3, <3>2, <3>3, BalanceStep
  <2>5. CASE t # x
    <3>1. p # name
      <4>1. \A i \in DOMAIN In[x] : In[x][i] # In[t][1]
        BY <2>2, <2>5 DEF Paying, OneReader
      <4>2. 1 \in DOMAIN In[x]
        <5>1. Len(In[x]) = 1 /\ In[x] \in Seq(PipeNames)
          BY <1>1, PaidRead, ProgramAssumption
        <5> QED
          BY <5>1
      <4> QED
        BY <1>2, <2>3, <4>1, <4>2
    <3>2. Refusals(t)' <= Refusals(t)
      BY <1>3, <1>5, <2>2, <2>5, RefusalsSame
    <3>3. Sent(w) <= Sent(w)' /\ pipe'[p] = pipe[p]
      BY <1>6, <1>8, <3>1, AccountTypes
    <3> QED
      BY <1>1, <1>9, <2>1, <2>3, <3>2, <3>3, BalanceStep
  <2> QED
    BY <2>4, <2>5
<1> QED
  BY <1>7, <1>9 DEF PaidInv

(* A process that writes, present or given up, sends a text.                *)
LEMMA WritePaid ==
  ASSUME Paying, Base, TypeOK', SampleType', PaidInv, SizeInv',
         NEW x \in Tasks, NEW m \in Texts, Ours(x, m), NEW name \in PipeNames,
         Feeds(x, name), \A w \in Tasks : Feeds(w, name) => w = x,
         pipe' = [pipe EXCEPT ![name] = Append(@, m)],
         Sent(x) + 1 <= Sent(x)',
         \A u \in Tasks : Refusals(u)' <= Refusals(u) /\ Sent(u) <= Sent(u)'
  PROVE  PaidInv'
<1>1. /\ pipe'[name] = Append(pipe[name], m)
      /\ \A p \in PipeNames \ {name} : pipe'[p] = pipe[p]
  BY DEF Base, SampleType
<1>2. SizeInv
  BY DEF PaidInv
<1>3. ASSUME NEW t \in Fed, NEW w \in Tasks, Feeds(w, In[t][1])
      PROVE  Balanced(t, w)'
  <2>1. Balanced(t, w)
    BY <1>3 DEF PaidInv
  <2>2. t \in Tasks
    BY TaskAssumption
  <2>3. PICK p \in PipeNames : p = In[t][1]
    BY FedPipe
  <2>4. CASE p = name
    <3>1. w = x
      BY <1>3, <2>3, <2>4
    <3>2. /\ Refusals(t)' <= Refusals(t)
          /\ \E n \in Texts : Ours(w, n) /\ pipe'[p] = Append(pipe[p], n)
          /\ Sent(w) + 1 <= Sent(w)'
      BY <1>1, <2>2, <2>4, <3>1
    <3> QED
      BY <1>2, <1>3, <2>1, <2>3, <3>2, BalanceStep
  <2>5. CASE p # name
    <3>1. Refusals(t)' <= Refusals(t) /\ pipe'[p] = pipe[p] /\ Sent(w) <= Sent(w)'
      BY <1>1, <2>2, <2>5
    <3> QED
      BY <1>2, <1>3, <2>1, <2>3, <3>1, BalanceStep
  <2> QED
    BY <2>4, <2>5
<1> QED
  BY <1>3 DEF PaidInv

LEMMA WriteSized ==
  ASSUME Paying, Base, SizeInv, NEW x \in Tasks, NEW m \in Texts, Ours(x, m),
         NEW name \in PipeNames, Feeds(x, name), \A w \in Tasks : Feeds(w, name) => w = x,
         pipe' = [pipe EXCEPT ![name] = Append(@, m)]
  PROVE  \A p \in PipeNames : SizedPipe(p, pipe'[p])
<1>1. /\ pipe'[name] = Append(pipe[name], m) /\ pipe[name] \in Seq(Texts)
      /\ \A p \in PipeNames \ {name} : pipe'[p] = pipe[p]
  BY DEF Base, SampleType
<1>2. SizedPipe(name, pipe[name])
  BY DEF SizeInv
<1>3. SizedPipe(name, pipe'[name])
  BY <1>1, <1>2, WritePays
<1> QED
  BY <1>1, <1>3 DEF SizeInv

LEMMA OutputPaid ==
  ASSUME Paying, Base, TypeOK', SampleType', PaidInv, NEW x \in Tasks, WriteOutput(x)
  PROVE  PaidInv'
<1>1. SizeInv
  BY DEF PaidInv
<1>2. /\ Running(x) /\ Done(x) /\ WriteData(x, prog[x])
      /\ prog' = [prog EXCEPT ![x].written = @ + 1]
      /\ UNCHANGED <<taskRuns, errors, child, strays>>
  BY DEF WriteOutput, schedVars, taskVars, procVars, tally
<1>3. prog[x] \in Processes /\ prog[x].written <= Len(Out[x]) /\ prog[x].text \in Texts
  BY DEF Base, SampleType, Processes
<1>4. PICK name \in PipeNames, m \in Texts : name = Out[x][1] /\ m = prog[x].text
  BY <1>2, <1>3, PaidWrite
<1>5. /\ prog[x].written = 0 /\ Feeds(x, name)
      /\ pipe' = [pipe EXCEPT ![name] = Append(@, m)]
      /\ \A w \in Tasks : Feeds(w, name) => w = x
  BY <1>2, <1>3, <1>4, PaidWrite
<1>6. Ours(x, m)
  BY <1>1, <1>2, <1>4 DEF SizeInv, Proper, Done, Failed
<1>7. /\ prog'[x].text = prog[x].text /\ prog'[x].written = 1
      /\ \A u \in Tasks \ {x} : prog'[u] = prog[u]
  BY <1>2, <1>5 DEF Base, SampleType, Processes
<1>8. SizeInv'
  <2>1. \A p \in PipeNames : SizedPipe(p, pipe'[p])
    BY <1>1, <1>5, <1>6, WriteSized
  <2>2. \A u \in Tasks : prog'[u].text = prog[u].text
    BY <1>7
  <2> QED
    BY <1>1, <1>2, <2>1, <2>2 DEF SizeInv
<1>9. Sent(x) + 1 <= Sent(x)'
  <2>1. /\ One(Running(x) /\ prog[x].written = 0) = 1
        /\ One(Running(x)' /\ prog'[x].written = 0) = 0
    BY <1>2, <1>5, <1>7 DEF One
  <2>2. PICK n \in Nat, r \in Nat : n = Cardinality(Unsent(strays[x])) /\ r = taskRuns[x]
    BY NumbersNow
  <2>3. Sent(x) = r - (1 + n) /\ Sent(x)' = r - (0 + n)
    BY <1>2, <2>1, <2>2 DEF Sent, Unwritten
  <2> QED
    BY <2>2, <2>3
<1>10. ASSUME NEW u \in Tasks
       PROVE  Refusals(u)' <= Refusals(u) /\ Sent(u) <= Sent(u)'
  <2>1. prog'[u].text = prog[u].text
    BY <1>7
  <2>2. Refusals(u)' <= Refusals(u)
    BY <1>2, <2>1, RefusalsSame
  <2>3. CASE u = x
    BY <1>9, <2>2, <2>3, AccountTypes
  <2>4. CASE u # x
    <3>1. Cardinality(Unsent(strays'[u])) <= Cardinality(Unsent(strays[u]))
      BY <1>2, NumbersNow
    <3>2. Sent(u) <= Sent(u)'
      BY <1>2, <1>7, <2>4, <3>1, SentMore DEF Running
    <3> QED
      BY <2>2, <3>2
  <2> QED
    BY <2>3, <2>4
<1> QED
  BY <1>5, <1>6, <1>8, <1>9, <1>10, WritePaid

LEMMA StrayPaid ==
  ASSUME Paying, Base, ProgramInv, TypeOK', SampleType', PaidInv,
         NEW x \in Tasks, StrayWrite(x)
  PROVE  PaidInv'
<1>1. SizeInv
  BY DEF PaidInv
<1>2. PICK k \in DOMAIN strays[x] :
        /\ ~ Refused(strays[x][k].text)
        /\ WriteData(x, strays[x][k])
        /\ strays' = [strays EXCEPT ![x][k].written = @ + 1]
  BY DEF StrayWrite
<1>3. UNCHANGED <<taskRuns, errors, child, prog>>
  BY DEF StrayWrite, schedVars, taskVars, procVars, tally
<1>4. /\ strays[x] \in Seq(Processes) /\ strays[x][k] \in Processes
      /\ strays[x][k].written <= Len(Out[x]) /\ strays[x][k].text \in Texts
  <2>1. strays[x] \in Seq(Processes) /\ strays[x][k].written <= Len(Out[x])
    BY DEF Base, SampleType
  <2>2. strays[x][k] \in Processes
    BY <2>1
  <2>3. strays[x][k].text \in Texts
    BY <2>2 DEF Processes
  <2> QED
    BY <2>1, <2>2, <2>3
<1>5. PICK name \in PipeNames, m \in Texts : name = Out[x][1] /\ m = strays[x][k].text
  BY <1>2, <1>4, PaidWrite
<1>6. /\ strays[x][k].written = 0 /\ Feeds(x, name)
      /\ pipe' = [pipe EXCEPT ![name] = Append(@, m)]
      /\ \A w \in Tasks : Feeds(w, name) => w = x
  BY <1>2, <1>4, <1>5, PaidWrite
<1>7. Ours(x, m)
  BY <1>1, <1>2, <1>5, StrayTexts DEF SizeInv, Proper
<1>8. /\ strays'[x] = [strays[x] EXCEPT ![k].written = @ + 1]
      /\ \A u \in Tasks \ {x} : strays'[u] = strays[u]
  BY <1>2 DEF Base, SampleType
<1>9. SizeInv'
  <2>1. \A p \in PipeNames : SizedPipe(p, pipe'[p])
    BY <1>1, <1>6, <1>7, WriteSized
  <2>2. DOMAIN strays'[x] = DOMAIN strays[x]
    BY <1>4, <1>8
  <2>3. \A i \in DOMAIN strays[x] : strays'[x][i].text = strays[x][i].text
    <3>1. \A i \in DOMAIN strays[x] \ {k} : strays'[x][i] = strays[x][i]
      BY <1>4, <1>8
    <3>2. strays'[x][k] = [strays[x][k] EXCEPT !.written = @ + 1]
      BY <1>4, <1>8
    <3>3. strays'[x][k].text = strays[x][k].text
      BY <1>4, <3>2 DEF Processes
    <3> QED
      BY <3>1, <3>3
  <2>4. \A u \in Tasks : \A i \in DOMAIN strays'[u] : Proper(u, strays'[u][i].text)
    BY <1>1, <1>8, <2>2, <2>3 DEF SizeInv
  <2> QED
    BY <1>1, <1>3, <2>1, <2>4 DEF SizeInv
<1>10. Cardinality(Unsent(strays'[x])) + 1 <= Cardinality(Unsent(strays[x]))
  BY <1>4, <1>6, <1>8, UnsentWritten
<1>11. Sent(x) + 1 <= Sent(x)'
  <2>1. strays'[x] \in Seq(Processes)
    BY DEF SampleType
  <2>2. PICK n \in Nat, n1 \in Nat, r \in Nat, o \in Nat :
          /\ n = Cardinality(Unsent(strays[x])) /\ n1 = Cardinality(Unsent(strays'[x]))
          /\ r = taskRuns[x] /\ o = One(Running(x) /\ prog[x].written = 0)
    BY <2>1, UnsentFinite, NumbersNow DEF One
  <2>3. Sent(x) = r - (o + n) /\ Sent(x)' = r - (o + n1)
    BY <1>3, <2>2 DEF Sent, Unwritten, Running
  <2>4. n1 + 1 <= n
    BY <1>10, <2>2
  <2> QED
    BY <2>2, <2>3, <2>4
<1>12. ASSUME NEW u \in Tasks
       PROVE  Refusals(u)' <= Refusals(u) /\ Sent(u) <= Sent(u)'
  <2>1. Refusals(u)' <= Refusals(u)
    BY <1>3, RefusalsSame
  <2>2. CASE u = x
    BY <1>11, <2>1, <2>2, AccountTypes
  <2>3. CASE u # x
    <3>1. Cardinality(Unsent(strays'[u])) <= Cardinality(Unsent(strays[u]))
      BY <1>8, <2>3, NumbersNow
    <3>2. Sent(u) <= Sent(u)'
      BY <1>3, <3>1, SentMore DEF Running
    <3> QED
      BY <2>1, <3>2
  <2> QED
    BY <2>2, <2>3
<1> QED
  BY <1>6, <1>7, <1>9, <1>11, <1>12, WritePaid

LEMMA PaidInit ==
  ASSUME Paying, FCInit
  PROVE  PaidInv
<1>1. SizeInv
  <2>1. \A p \in PipeNames : SizedPipe(p, pipe[p])
    BY DEF FCInit, SizedPipe
  <2>2. \A t \in Tasks : Proper(t, prog[t].text)
    BY DEF FCInit, Proper, Fresh
  <2>3. \A t \in Tasks : DOMAIN strays[t] = {}
    BY DEF FCInit
  <2> QED
    BY <2>1, <2>2, <2>3 DEF SizeInv
<1>2. ASSUME NEW t \in Fed, NEW w \in Tasks, Feeds(w, In[t][1])
      PROVE  Balanced(t, w)
  <2>1. t \in Tasks /\ In[t][1] \in PipeNames
    BY FedPipe
  <2>2. pipe[In[t][1]] = << >>
    BY <2>1 DEF FCInit
  <2>3. Refusals(t) = 0
    <3>1. errors[t] = 0 /\ child[t] = "none" /\ prog[t].text.value = "none"
      BY <2>1 DEF FCInit, Init, Fresh, NoData
    <3> QED
      BY <3>1 DEF Refusals, One
  <2>4. Sent(w) = 0
    <3>1. taskRuns[w] = 0 /\ child[w] = "none" /\ strays[w] = << >>
      BY DEF FCInit, Init
    <3>2. Unsent(strays[w]) = {}
      BY <3>1 DEF Unsent
    <3>3. Cardinality(Unsent(strays[w])) = 0
      BY <3>2, FS_EmptySet
    <3> QED
      BY <3>1, <3>3 DEF Sent, Unwritten, Running, One
  <2>5. << >> \in Seq(Texts) /\ << >> \in Seq(Processes)
    OBVIOUS
  <2>6. /\ CutHead(<< >>, Length[w]) = 0
        /\ Bytes(<< >>, Len(<< >>)) = 0
    BY <2>5, Counts
  <2>7. ReadCap * 0 <= Length[w] * 0
    BY ProgramAssumption
  <2>8. Covered(ReadCap, Length[w], 0, 0, 0, 0)
    BY <2>7, ProgramAssumption DEF Covered
  <2> QED
    BY <2>2, <2>3, <2>4, <2>6, <2>8 DEF Balanced
<1> QED
  BY <1>1, <1>2 DEF PaidInv

LEMMA PaidStep ==
  ASSUME Paying, Base, ProgramInv, TypeOK', SampleType', PaidInv, [FCNext]_fcVars
  PROVE  PaidInv'
<1>1. SizeInv
  BY DEF PaidInv
<1>2. CASE Loop \/ FCTerminated \/ UNCHANGED fcVars
  BY <1>1, <1>2, LoopCalm, CalmPaid
<1>3. ASSUME NEW t \in Tasks, Sample(t) \/ Finish(t) \/ Crash(t) \/ StrayExit(t) \/ Launch(t)
      PROVE  PaidInv'
  <2>1. Calm /\ SizeInv'
    BY <1>1, <1>3, SampleCalm, ExitCalm, StrayExitCalm, LaunchCalm
  <2> QED
    BY <2>1, CalmPaid
<1>4. ASSUME NEW t \in Tasks, ReadInput(t) \/ WriteOutput(t) \/ StrayWrite(t)
      PROVE  PaidInv'
  BY <1>4, ReadPaid, OutputPaid, StrayPaid
<1> QED
  BY <1>2, <1>3, <1>4 DEF FCNext, Program

(* The account bounds the refusals that were counted.                       *)
LEMMA PaidEnough ==
  ASSUME Paying, TypeOK, SampleType, PaidInv
  PROVE  RefusalsPaid
<1> SUFFICES ASSUME NEW t \in Fed, NEW w \in Tasks, Feeds(w, In[t][1])
             PROVE  errors[t] * ReadCap <= Length[w] * taskRuns[w]
  BY DEF RefusalsPaid
<1>1. t \in Tasks /\ In[t][1] \in PipeNames
  BY FedPipe
<1>2. PICK q \in Seq(Texts), s \in Seq(Processes) : q = pipe[In[t][1]] /\ s = strays[w]
  BY <1>1 DEF SampleType
<1>3. PICK e \in Nat, r \in Nat, c \in Nat, l \in Nat :
        e = errors[t] /\ r = taskRuns[w] /\ c = ReadCap /\ l = Length[w]
  BY <1>1, ProgramAssumption DEF TypeOK
<1>4. PICK f \in Nat, b \in Nat, u \in Nat :
        /\ e + f = Refusals(t) + CutHead(q, l)
        /\ b = Bytes(q, Len(q)) /\ u = Unwritten(w)
  <2>1. /\ Bytes(q, Len(q)) \in Nat /\ Cardinality(Unsent(s)) \in Nat
        /\ CutHead(q, l) \in Nat
    BY Counts
  <2>2. Unwritten(w) \in Nat
    BY <1>2, <2>1 DEF Unwritten, One
  <2>3. /\ One(child[t] = "exit2") \in Nat
        /\ One(prog[t].text.value = "exit2") \in Nat
    BY DEF One
  <2>4. Refusals(t) = e + One(child[t] = "exit2") + One(prog[t].text.value = "exit2")
    BY <1>3 DEF Refusals
  <2>5. PICK x \in Nat, y \in Nat, z \in Nat :
          x = One(child[t] = "exit2") /\ y = One(prog[t].text.value = "exit2") /\ z = CutHead(q, l)
    BY <2>1, <2>3
  <2>6. PICK f \in Nat : f = x + y + z
    OBVIOUS
  <2>7. e + f = (e + x + y) + z
    BY <2>6
  <2>8. e + f = Refusals(t) + CutHead(q, l)
    BY <2>4, <2>5, <2>7
  <2> QED
    BY <2>1, <2>2, <2>8
<1>5. c * (e + f) + b <= l * (r - u)
  BY <1>2, <1>3, <1>4 DEF PaidInv, Balanced, Covered, Sent
<1>6. c * e <= c * (e + f) /\ l * (r - u) <= l * r
  BY Products
<1>7. c * e \in Int /\ c * (e + f) \in Int /\ l * (r - u) \in Int /\ l * r \in Int
  BY Products
<1>8. c * e <= l * r
  BY <1>5, <1>6, <1>7
<1>9. e * c = c * e
  OBVIOUS
<1> QED
  BY <1>3, <1>8, <1>9

(* Theorem: in such a pipeline, where no program computes a wrong value,    *)
(* the refusals of a task are paid for by the bytes it was sent (pipe::     *)
(* read_data takes 63 bytes and its callers look at one text), however many *)
(* there are, and whatever crashes, is given up or is launched again.       *)
THEOREM RefusalsArePaid ==
  ASSUME OneInOneOut, OneReader, OneWriter, Wrong = {}
  PROVE  FCSpec => []RefusalsPaid
<1>1. Paying
  BY DEF Paying
<1>2. FCInit => SampleType /\ ProgramInv /\ PaidInv
  BY <1>1, SampleInit, PaidInit
<1>3. /\ TypeOK /\ TypeOK' /\ SampleType /\ ProgramInv /\ PaidInv /\ [FCNext]_fcVars
        => SampleType' /\ ProgramInv' /\ PaidInv'
  BY <1>1, SampleTypeStep, ProgramStep, PaidStep DEF Base
<1>4. TypeOK /\ SampleType /\ PaidInv => RefusalsPaid
  BY <1>1, PaidEnough
<1>5. FCSpec => []TypeOK
  BY ImplementsScheduler, TypeCorrect, PTL
<1> QED
  BY <1>2, <1>3, <1>4, <1>5, PTL DEF FCSpec
===============================================================================
