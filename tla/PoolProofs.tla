------------------------------ MODULE PoolProofs ------------------------------
(****************************************************************************)
(* The weight of a core is its window of scores, and with it the scheduler  *)
(* implements the core pool of module CorePool.                             *)
(****************************************************************************)
EXTENDS CompletionProofs, FiniteSetTheorems, FunctionTheorems

(****************************************************************************)
(* Arithmetic and counting.                                                 *)
(****************************************************************************)
(* A share of the weight is positive, so a failure is told from a success.  *)
LEMMA ShareFacts == Share \in Nat /\ Share > 0
<1>1. \A m, b \in Nat : b > 0 /\ m >= b => m \div b \in Nat /\ m \div b > 0
  OBVIOUS
<1> QED
  BY <1>1, NumberAssumption DEF Share

(* Fewer failures are a higher weight.                                      *)
LEMMA ShareOrder ==
  ASSUME NEW m \in Nat, NEW n \in Nat
  PROVE  /\ Share * m \in Nat
         /\ Share * (m + 1) = Share * m + Share
         /\ MaxWeight - Share * m >= MaxWeight - Share * n => m <= n
<1>1. \A s, x, y \in Nat : s > 0 /\ s * x <= s * y => x <= y
  OBVIOUS
<1>2. Share * m \in Nat /\ Share * n \in Nat /\ Share * (m + 1) = Share * m + Share
  BY ShareFacts
<1> QED
  BY <1>1, <1>2, ShareFacts, NumberAssumption

(* Where a sequence of scores has a failure.                                *)
Zeros(s) == {i \in 1 .. BufferSize : s[i] = 0}

LEMMA ZerosFinite ==
  ASSUME NEW s
  PROVE  /\ IsFiniteSet(Zeros(s))
         /\ Cardinality(Zeros(s)) \in 0 .. BufferSize
<1>1. IsFiniteSet(1 .. BufferSize) /\ Cardinality(1 .. BufferSize) = BufferSize
  BY FS_Interval, NumberAssumption
<1>2. Zeros(s) \in SUBSET (1 .. BufferSize)
  BY DEF Zeros
<1> QED
  BY <1>1, <1>2, FS_Subset, FS_CardinalityType

(* What update_weight does to a window: the count of failures loses the     *)
(* oldest and gains the newest.                                             *)
LEMMA WindowCount ==
  ASSUME NEW s \in Seq(Int), Len(s) = BufferSize, NEW score \in Int
  PROVE  LET w == Append(Tail(s), score) IN
         /\ w \in Seq(Int) /\ Len(w) = BufferSize
         /\ \A i \in 1 .. BufferSize :
              w[i] = IF i = BufferSize THEN score ELSE s[i + 1]
         /\ Cardinality(Zeros(w)) + One(Head(s) = 0)
              = Cardinality(Zeros(s)) + One(score = 0)
<1> DEFINE w == Append(Tail(s), score)
           kept == {i \in 2 .. BufferSize : s[i] = 0}
           moved == {i \in 1 .. BufferSize - 1 : w[i] = 0}
           shift == [i \in kept |-> i - 1]
<1>1. /\ w \in Seq(Int) /\ Len(w) = BufferSize
      /\ \A i \in 1 .. BufferSize : w[i] = IF i = BufferSize THEN score ELSE s[i + 1]
  BY NumberAssumption
<1>2. shift \in Bijection(kept, moved)
  <2>1. shift \in [kept -> moved]
    BY <1>1, NumberAssumption
  <2>2. \A i, j \in kept : shift[i] = shift[j] => i = j
    OBVIOUS
  <2>3. \A j \in moved : \E i \in kept : shift[i] = j
    <3> SUFFICES ASSUME NEW j \in moved
                 PROVE  j + 1 \in kept /\ shift[j + 1] = j
      OBVIOUS
    <3> QED
      BY <1>1, NumberAssumption
  <2> QED
    BY <2>1, <2>2, <2>3, Fun_IsBij
<1>3. /\ IsFiniteSet(kept) /\ IsFiniteSet(moved)
      /\ Cardinality(moved) = Cardinality(kept)
      /\ Cardinality(kept) \in Nat
  <2>1. IsFiniteSet(kept)
    <3>1. kept \in SUBSET Zeros(s)
      BY NumberAssumption DEF Zeros
    <3> QED
      BY <3>1, ZerosFinite, FS_Subset
  <2>2. ExistsBijection(kept, moved)
    BY <1>2 DEF ExistsBijection
  <2> QED
    BY <2>1, <2>2, FS_Bijection, FS_CardinalityType
<1>4. Cardinality(Zeros(s)) = Cardinality(kept) + One(Head(s) = 0)
  <2>1. Head(s) = s[1] /\ 1 \notin kept
    OBVIOUS
  <2>2. Zeros(s) = IF s[1] = 0 THEN kept \cup {1} ELSE kept
    BY NumberAssumption DEF Zeros
  <2>3. Cardinality(kept \cup {1}) = Cardinality(kept) + 1
    BY <1>3, <2>1, FS_AddElement
  <2> QED
    BY <1>3, <2>1, <2>2, <2>3 DEF One
<1>5. Cardinality(Zeros(w)) = Cardinality(moved) + One(score = 0)
  <2>1. BufferSize \notin moved
    BY NumberAssumption
  <2>2. Zeros(w) = IF score = 0 THEN moved \cup {BufferSize} ELSE moved
    BY <1>1, NumberAssumption DEF Zeros
  <2>3. Cardinality(moved \cup {BufferSize}) = Cardinality(moved) + 1
    BY <1>3, <2>1, FS_AddElement
  <2> HIDE DEF w, moved
  <2> QED
    BY <1>3, <2>2, <2>3 DEF One
<1> HIDE DEF w, kept, moved
<1>6. Cardinality(Zeros(w)) + One(Head(s) = 0) = Cardinality(Zeros(s)) + One(score = 0)
  BY <1>3, <1>4, <1>5 DEF One
<1> QED
  BY <1>1, <1>6 DEF w

(****************************************************************************)
(* The weight is the window.  A weight alone does not say which scores are  *)
(* yet to leave the buffer: that each is a share or nothing is needed, as   *)
(* only a difference of such scores is a difference of the count.           *)
(****************************************************************************)
ScoresAreShares == \A c \in Cores : \A i \in 1 .. BufferSize : scores[c][i] \in {0, Share}

WindowInv == ScoresAreShares /\ WeightIsWindow

(* WeightIsWindow counts the failures of each window.                       *)
LEMMA WindowForm ==
  ASSUME TypeOK
  PROVE  WeightIsWindow <=>
           \A c \in Cores : weight[c] = MaxWeight - Share * Cardinality(Zeros(scores[c]))
<1>1. \A c \in Cores : DOMAIN scores[c] = 1 .. BufferSize
  BY DEF TypeOK
<1> QED
  BY <1>1 DEF WeightIsWindow, Zeros

(* Steps that leave weights and scores as they are.                         *)
LEMMA WindowFrame ==
  ASSUME WindowInv, UNCHANGED <<weight, scores>>
  PROVE  WindowInv'
  BY DEF WindowInv, ScoresAreShares, WeightIsWindow

(* One call of update_weight: the difference of the two scores it applies   *)
(* is the difference of the count of failures, and the cap never bites.     *)
LEMMA UpdateWindow ==
  ASSUME TypeOK, TypeOK', WindowInv, NEW c \in Cores, NEW score \in {0, Share},
         UpdateWeight(c, score)
  PROVE  WindowInv'
<1> DEFINE s == scores[c]
           w == Append(Tail(s), score)
           n == Cardinality(Zeros(s))
           m == Cardinality(Zeros(w))
<1>1. s \in Seq(Int) /\ Len(s) = BufferSize /\ score \in Int
  BY ShareFacts DEF TypeOK
<1>2. /\ \A i \in 1 .. BufferSize : w[i] = IF i = BufferSize THEN score ELSE s[i + 1]
      /\ m + One(Head(s) = 0) = n + One(score = 0)
  BY <1>1, WindowCount
<1>3. n \in Nat /\ m \in Nat
  BY ZerosFinite, NumberAssumption
<1>4. /\ scores' = [scores EXCEPT ![c] = w]
      /\ weight' = [weight EXCEPT ![c] = AtMost(@ - Head(s) + score, MaxWeight)]
  BY DEF UpdateWeight
<1>5. Head(s) \in {0, Share}
  <2>1. Head(s) = s[1] /\ 1 \in 1 .. BufferSize
    BY <1>1, NumberAssumption
  <2> QED
    BY <2>1 DEF WindowInv, ScoresAreShares
<1>6. ScoresAreShares'
  <2> HIDE DEF w
  <2>1. ASSUME NEW i \in 1 .. BufferSize
        PROVE  w[i] \in {0, Share}
    <3>1. i # BufferSize => i + 1 \in 1 .. BufferSize
      BY NumberAssumption
    <3> QED
      BY <1>2, <3>1 DEF WindowInv, ScoresAreShares
  <2> QED
    BY <1>4, <2>1 DEF WindowInv, ScoresAreShares, TypeOK
<1> HIDE DEF w, s, n, m
<1>7. weight[c] = MaxWeight - Share * n
  BY WindowForm DEF WindowInv, n, s
<1>8. weight[c] - Head(s) + score = MaxWeight - Share * m
  <2>1. CASE (Head(s) = 0) = (score = 0)
    <3>1. m = n /\ score = Head(s)
      BY <1>2, <1>3, <1>5, <2>1, ShareFacts DEF One
    <3> QED
      BY <1>7, <3>1, <1>3, ShareFacts, ShareOrder, NumberAssumption
  <2>2. CASE Head(s) = 0 /\ score = Share
    <3>1. n = m + 1
      BY <1>2, <1>3, <2>2, ShareFacts DEF One
    <3>2. Share * n = Share * m + Share /\ Share * m \in Nat
      BY <1>3, <3>1, ShareOrder
    <3> QED
      BY <1>7, <2>2, <3>2, ShareFacts, NumberAssumption
  <2>3. CASE Head(s) = Share /\ score = 0
    <3>1. m = n + 1
      BY <1>2, <1>3, <2>3, ShareFacts DEF One
    <3>2. Share * m = Share * n + Share /\ Share * n \in Nat
      BY <1>3, <3>1, ShareOrder
    <3> QED
      BY <1>7, <2>3, <3>2, ShareFacts, NumberAssumption
  <2> QED
    BY <1>5, <2>1, <2>2, <2>3, ShareFacts
<1>9. weight'[c] = MaxWeight - Share * m
  <2>1. Share * m \in Nat
    BY <1>3, ShareOrder
  <2>2. AtMost(MaxWeight - Share * m, MaxWeight) = MaxWeight - Share * m
    BY <2>1, NumberAssumption DEF AtMost
  <2> QED
    BY <1>4, <1>8, <2>2 DEF TypeOK
<1>10. \A d \in Cores : weight'[d] = MaxWeight - Share * Cardinality(Zeros(scores'[d]))
  <2>1. scores'[c] = w /\ \A d \in Cores \ {c} : scores'[d] = scores[d] /\ weight'[d] = weight[d]
    BY <1>4 DEF TypeOK
  <2>2. \A d \in Cores : weight[d] = MaxWeight - Share * Cardinality(Zeros(scores[d]))
    BY WindowForm DEF WindowInv
  <2> QED
    BY <1>9, <2>1, <2>2 DEF m
<1>11. WeightIsWindow'
  <2>1. \A d \in Cores : DOMAIN scores'[d] = 1 .. BufferSize
    BY DEF TypeOK
  <2> QED
    BY <1>10, <2>1 DEF WeightIsWindow, Zeros
<1> QED
  BY <1>6, <1>11 DEF WindowInv

(* A completion updates the weight of one core, by a share or by nothing.   *)
LEMMA CompletionWindow ==
  ASSUME TypeOK, TypeOK', WindowInv, NEW t \in Tasks, state[t] = "running",
         NEW status, HandleTaskCompletion(t, status)
  PROVE  WindowInv'
<1>1. cpu[t] \in Cores
  BY DEF TypeOK, Busy
<1> QED
  BY <1>1, UpdateWindow, WindowFrame DEF HandleTaskCompletion

(* All cores start with the full weight.                                    *)
LEMMA WindowInit ==
  ASSUME Init
  PROVE  WindowInv
<1>1. \A c \in Cores : weight[c] = MaxWeight /\ scores[c] = [i \in 1 .. BufferSize |-> Share]
  BY DEF Init
<1>2. \A c \in Cores : Zeros(scores[c]) = {}
  <2>1. \A c \in Cores : \A i \in 1 .. BufferSize : scores[c][i] = Share
    BY <1>1
  <2>2. Share # 0
    BY ShareFacts
  <2> QED
    BY <2>1, <2>2 DEF Zeros
<1>3. Cardinality({}) = 0 /\ MaxWeight - Share * 0 = MaxWeight
  BY FS_EmptySet, ShareFacts, NumberAssumption
<1>4. ScoresAreShares
  BY <1>1 DEF ScoresAreShares
<1> QED
  BY <1>1, <1>2, <1>3, <1>4, InitType, WindowForm DEF WindowInv

(* Theorem: however completions and stuck verdicts come, the weight a core  *)
(* has after update_weight is what its score buffer says.                   *)
THEOREM WindowCorrect == Spec => []WindowInv
<1>1. ASSUME TypeOK, TypeOK', WindowInv, [Next]_vars
      PROVE  WindowInv'
  <2> USE <1>1
  <2>1. ASSUME NEW t \in Tasks, MonitorReap(t) \/ MonitorStuck(t)
        PROVE  WindowInv'
    BY <2>1, CompletionWindow DEF MonitorReap, MonitorStuck
  <2>2. ASSUME NEW t \in Tasks,
               \/ MonitorWait(t) \/ \E ready \in BOOLEAN : MonitorDispatch(t, ready)
               \/ RunTask(t) \/ Cleanup(t) \/ OrphanExit(t)
               \/ \E s \in Statuses : ChildExit(t, s)
        PROVE  WindowInv'
    BY <2>2, WindowFrame DEF MonitorWait, MonitorDispatch, RunTask, Cleanup,
                             OrphanExit, ChildExit, coreVars
  <2>3. CASE \/ \E d \in {0, 1} : CheckActive(d)
             \/ (\E t \in Tasks : ForkFails(t)) \/ LogResults \/ PrintResults \/ WriteResults
    BY <2>3, WindowFrame DEF CheckActive, ForkFails, LogResults, PrintResults,
                             WriteResults, coreVars
  <2>4. CASE UNCHANGED vars
    BY <2>4, WindowFrame DEF vars, coreVars
  <2> QED
    BY <2>1, <2>2, <2>3, <2>4 DEF Next, Terminated
<1> QED
  BY <1>1, WindowInit, TypeCorrect, PTL DEF Spec

(* The weight by the name the runs check it under.                          *)
COROLLARY WeightCorrect == Spec => []WeightIsWindow
<1>1. WindowInv => WeightIsWindow
  BY DEF WindowInv
<1> QED
  BY <1>1, WindowCorrect, PTL

(****************************************************************************)
(* The scheduler is a core pool.  Place and Record are what the refinement  *)
(* reads off its state: the core each busy task holds, and per core which   *)
(* of its last completions failed.                                          *)
(****************************************************************************)
Pool == Cores \ {SchedulerCore}
Place == [t \in Tasks |-> IF Busy(t) THEN cpu[t] ELSE None]
Record == [c \in Pool |-> [i \in 1 .. BufferSize |-> scores[c][i] = 0]]

(* The failures of a core in the pool are the failures its weight counts.   *)
LEMMA PoolFailures ==
  ASSUME NEW c \in Pool
  PROVE  CP!Failures(c) = Cardinality(Zeros(scores[c]))
<1>1. \A i \in 1 .. BufferSize : Record[c][i] <=> scores[c][i] = 0
  BY DEF Record
<1>2. {i \in 1 .. BufferSize : Record[c][i]} = Zeros(scores[c])
  BY <1>1 DEF Zeros
<1>3. CP!Failures(c) = Cardinality({i \in 1 .. BufferSize : Record[c][i]})
  BY DEF CP!Failures, Record, Pool, CP!Cardinality, Cardinality
<1> QED
  BY <1>2, <1>3

(* A core is free in the pool exactly when it is not active.                *)
LEMMA PoolFree ==
  ASSUME TypeOK, CoreOwnership, NEW c \in Pool
  PROVE  CP!Free(c) <=> ~active[c]
<1>1. c \in Cores /\ c # None
  BY CoreAssumption DEF Pool, None
<1>2. CP!Free(c) <=> \A t \in Tasks : Place[t] # c
  BY DEF CP!Free, Place
<1>3. \A t \in Tasks : Place[t] = c <=> Busy(t) /\ cpu[t] = c
  BY <1>1 DEF Place
<1> QED
  BY <1>1, <1>2, <1>3 DEF CoreOwnership

(* What find_core answers, a critical task may take: no free core has fewer *)
(* failures, and their number is tolerable.                                 *)
LEMMA FoundCore ==
  ASSUME TypeOK, CoreOwnership, WindowInv, NEW u \in Tasks, NEW c \in FindCore(u \in Weighted)
  PROVE  /\ c \in Pool
         /\ CP!Free(c)
         /\ u \in Weighted =>
              /\ CP!Failures(c) \in {n \in 0 .. BufferSize : MaxWeight - Share * n >= MinWeight}
              /\ \A d \in Pool : CP!Free(d) => CP!Failures(c) <= CP!Failures(d)
<1>1. c \in Pool /\ ~active[c]
  BY DEF FindCore, Candidates, Pool
<1>2. \A d \in Pool : /\ CP!Failures(d) \in 0 .. BufferSize
                      /\ weight[d] = MaxWeight - Share * CP!Failures(d)
  BY PoolFailures, ZerosFinite, WindowForm DEF WindowInv, Pool
<1>3. ASSUME u \in Weighted
      PROVE  weight[c] >= MinWeight
  BY <1>3 DEF FindCore
<1>4. ASSUME u \in Weighted, NEW d \in Pool, CP!Free(d)
      PROVE  weight[c] >= weight[d]
  <2>1. d \in Candidates
    BY <1>4, PoolFree DEF Candidates, Pool
  <2>2. c # d => BetterCore(c, d, TRUE)
    BY <1>4, <2>1 DEF FindCore
  <2>3. weight[c] \in Int /\ weight[d] \in Int
    BY <1>1 DEF TypeOK, Pool
  <2> QED
    BY <2>2, <2>3 DEF BetterCore
<1>5. ASSUME u \in Weighted, NEW d \in Pool, CP!Free(d)
      PROVE  CP!Failures(c) <= CP!Failures(d)
  <2>1. CP!Failures(c) \in Nat /\ CP!Failures(d) \in Nat
    BY <1>1, <1>2, NumberAssumption
  <2>2. MaxWeight - Share * CP!Failures(c) >= MaxWeight - Share * CP!Failures(d)
    BY <1>1, <1>2, <1>4, <1>5
  <2> QED
    BY <2>1, <2>2, ShareOrder
<1> QED
  BY <1>1, <1>2, <1>3, <1>5, PoolFree

(* No core is held and nothing has failed at the start.                     *)
LEMMA PoolInitial == Init => CP!PoolInit
<1>1. Init => Place = [t \in Tasks |-> None]
  BY DEF Init, Place, Busy
<1>2. Init => Record = [c \in Pool |-> [i \in 1 .. BufferSize |-> FALSE]]
  <2> SUFFICES ASSUME Init, NEW c \in Pool, NEW i \in 1 .. BufferSize
               PROVE  (scores[c][i] = 0) = FALSE
    BY DEF Record
  <2>1. scores[c][i] = Share
    BY DEF Init, Pool
  <2> QED
    BY <2>1, ShareFacts
<1> QED
  BY <1>1, <1>2 DEF CP!PoolInit, Place, Record, Pool

(* Steps that neither dispatch nor complete a task.                         *)
LEMMA PoolStutter ==
  ASSUME UNCHANGED <<cpu, scores>>, \A t \in Tasks : Busy(t)' <=> Busy(t)
  PROVE  UNCHANGED <<Place, Record>>
  BY DEF Place, Record

(* A dispatch takes the core it found.                                      *)
LEMMA DispatchTakes ==
  ASSUME TypeOK, OwnershipInv, WindowInv, NEW t \in Tasks, NEW ready, MonitorDispatch(t, ready)
  PROVE  UNCHANGED <<Place, Record>> \/ \E c \in Pool : CP!Take(t, c)
<1>1. ~Busy(t) /\ scores' = scores
  BY DEF MonitorDispatch, Turn, Highest, OwnershipInv, FireableOnlyWithinPass, Fireable, Busy
<1>2. CASE UNCHANGED <<cpu, active>> /\ state' \in {state, [state EXCEPT ![t] = "idle"]}
  <2>1. \A u \in Tasks : Busy(u)' <=> Busy(u)
    BY <1>1, <1>2 DEF TypeOK, Busy
  <2> QED
    BY <1>1, <1>2, <2>1, PoolStutter
<1>3. ASSUME NEW c \in FindCore(t \in Weighted),
             state' = [state EXCEPT ![t] = "fireable"],
             cpu' = [cpu EXCEPT ![t] = c]
      PROVE  CP!Take(t, c) /\ c \in Pool
  <2>1. /\ c \in Pool
        /\ CP!Free(c)
        /\ t \in Weighted =>
             /\ CP!Failures(c) \in {n \in 0 .. BufferSize : MaxWeight - Share * n >= MinWeight}
             /\ \A d \in Pool : CP!Free(d) => CP!Failures(c) <= CP!Failures(d)
    BY FoundCore DEF OwnershipInv
  <2>2. Place[t] = None
    BY <1>1 DEF Place
  <2>3. Place' = [Place EXCEPT ![t] = c]
    <3>1. \A u \in Tasks : (IF Busy(u)' THEN cpu'[u] ELSE None)
                             = IF u = t THEN c ELSE IF Busy(u) THEN cpu[u] ELSE None
      BY <1>3 DEF TypeOK, Busy
    <3> QED
      BY <3>1 DEF Place
  <2>4. Record' = Record
    BY <1>1 DEF Record
  <2> QED
    BY <2>1, <2>2, <2>3, <2>4 DEF CP!Take, Place, Record, Pool
<1> QED
  BY <1>2, <1>3 DEF MonitorDispatch

(* A completion returns the core of its task, with what the status says.    *)
LEMMA CompletionReturns ==
  ASSUME TypeOK, NEW t \in Tasks, state[t] = "running", NEW status, status # "lost",
         HandleTaskCompletion(t, status), cpu' = cpu
  PROVE  cpu[t] \in Pool /\ CP!Return(t, cpu[t], status # "exit0")
<1> DEFINE c == cpu[t]
           score == IF status = "exit0" THEN Share ELSE 0
           failed == status # "exit0"
<1>1. c \in Pool /\ c \in Cores /\ Busy(t)
  BY DEF TypeOK, Busy, Pool
<1>2. /\ scores' = [scores EXCEPT ![c] = Append(Tail(@), score)]
      /\ \A u \in Tasks : Busy(u)' <=> Busy(u) /\ u # t
  BY DEF HandleTaskCompletion, UpdateWeight, TypeOK, Busy
<1>3. Place[t] = c
  BY <1>1 DEF Place
<1>4. Place' = [Place EXCEPT ![t] = None]
  <2>1. \A u \in Tasks : (IF Busy(u)' THEN cpu'[u] ELSE None)
                           = IF u = t THEN None ELSE IF Busy(u) THEN cpu[u] ELSE None
    BY <1>2
  <2> QED
    BY <2>1 DEF Place
<1>5. \A i \in 1 .. BufferSize :
        scores'[c][i] = IF i = BufferSize THEN score ELSE scores[c][i + 1]
  <2>1. scores[c] \in Seq(Int) /\ Len(scores[c]) = BufferSize /\ score \in Int
    BY <1>1, ShareFacts DEF TypeOK
  <2>2. scores'[c] = Append(Tail(scores[c]), score)
    BY <1>1, <1>2 DEF TypeOK
  <2> QED
    BY <2>1, <2>2, WindowCount
<1>6. (score = 0) = failed
  BY ShareFacts
<1> HIDE DEF c, score, failed
<1>7. Record' = [Record EXCEPT ![c] = [i \in 1 .. BufferSize |->
                   IF i = BufferSize THEN failed ELSE Record[c][i + 1]]]
  <2> DEFINE w == [i \in 1 .. BufferSize |->
                     IF i = BufferSize THEN failed ELSE Record[c][i + 1]]
  <2>1. [i \in 1 .. BufferSize |-> scores'[c][i] = 0] = w
    <3> SUFFICES ASSUME NEW i \in 1 .. BufferSize
                 PROVE  (scores'[c][i] = 0) = w[i]
      OBVIOUS
    <3>1. CASE i = BufferSize
      BY <1>5, <1>6, <3>1
    <3>2. CASE i # BufferSize
      <4>1. i + 1 \in 1 .. BufferSize
        BY <3>2, NumberAssumption
      <4>2. Record[c][i + 1] = (scores[c][i + 1] = 0)
        BY <1>1, <4>1 DEF Record
      <4> QED
        BY <1>5, <3>2, <4>2
    <3> QED
      BY <3>1, <3>2
  <2>2. \A d \in Pool \ {c} : scores'[d] = scores[d]
    BY <1>1, <1>2 DEF TypeOK, Pool
  <2> HIDE DEF w
  <2>3. Record' = [Record EXCEPT ![c] = w]
    BY <1>1, <2>1, <2>2 DEF Record
  <2> QED
    BY <2>3 DEF w
<1>8. CP!Return(t, c, failed)
  BY <1>3, <1>4, <1>7 DEF CP!Return, Place, Record, Pool
<1> QED
  BY <1>1, <1>8 DEF c, failed

(* A step of the scheduler is a step of the pool, or none of its concern.   *)
LEMMA PoolStep ==
  ASSUME TypeOK, OwnershipInv, AccountInv, WindowInv, [Next]_vars
  PROVE  [CP!PoolNext]_<<Place, Record>>
<1>1. ASSUME NEW t \in Tasks, NEW c \in Pool, CP!Take(t, c)
      PROVE  CP!PoolNext
  BY <1>1 DEF CP!PoolNext, Pool
<1>2. ASSUME NEW t \in Tasks, NEW status, CP!Return(t, cpu[t], status # "exit0"), cpu[t] \in Pool
      PROVE  CP!PoolNext
  <2>1. PICK c \in Pool : c = cpu[t]
    BY <1>2
  <2>2. PICK failed \in BOOLEAN : failed = (status # "exit0")
    OBVIOUS
  <2>3. CP!Return(t, c, failed)
    BY <1>2, <2>1, <2>2 DEF CP!Return
  <2> QED
    BY <2>3 DEF CP!PoolNext, Pool
<1>3. ASSUME NEW t \in Tasks, MonitorReap(t)
      PROVE  CP!PoolNext
  <2>1. child[t] # "none" /\ child[t] # "lost"
    BY <1>3, StatusAssumption DEF MonitorReap, Turn, AccountInv, RunningHasChild, TypeOK
  <2> QED
    BY <1>2, <1>3, <2>1, CompletionReturns DEF MonitorReap
<1>4. ASSUME NEW t \in Tasks, MonitorStuck(t)
      PROVE  CP!PoolNext
  BY <1>2, <1>4, CompletionReturns DEF MonitorStuck
<1>5. ASSUME NEW t \in Tasks, NEW ready \in BOOLEAN, MonitorDispatch(t, ready)
      PROVE  CP!PoolNext \/ UNCHANGED <<Place, Record>>
  BY <1>1, <1>5, DispatchTakes
<1>6. ASSUME NEW t \in Tasks, RunTask(t)
      PROVE  UNCHANGED <<Place, Record>>
  <2>1. \A u \in Tasks : Busy(u)' <=> Busy(u)
    BY <1>6 DEF RunTask, Highest, Fireable, Busy, TypeOK
  <2> QED
    BY <1>6, <2>1, PoolStutter DEF RunTask, coreVars
<1>7. ASSUME NEW t \in Tasks,
             \/ MonitorWait(t) \/ Cleanup(t) \/ OrphanExit(t)
             \/ \E s \in Statuses : ChildExit(t, s)
      PROVE  UNCHANGED <<Place, Record>>
  BY <1>7, PoolStutter DEF MonitorWait, Cleanup, OrphanExit, ChildExit, taskVars, coreVars, Busy
<1>8. ASSUME \/ \E d \in {0, 1} : CheckActive(d)
             \/ (\E t \in Tasks : ForkFails(t)) \/ LogResults \/ PrintResults \/ WriteResults
      PROVE  UNCHANGED <<Place, Record>>
  BY <1>8, PoolStutter DEF CheckActive, ForkFails, LogResults, PrintResults,
                           WriteResults, taskVars, coreVars, Busy
<1>9. ASSUME UNCHANGED vars
      PROVE  UNCHANGED <<Place, Record>>
  BY <1>9, PoolStutter DEF vars, taskVars, coreVars, Busy
<1> QED
  BY <1>3, <1>4, <1>5, <1>6, <1>7, <1>8, <1>9 DEF Next, Terminated

(* Theorem: the float weights, score queues, active flags and the scan of   *)
(* find_core implement the core pool, for every number of tasks and cores   *)
(* and every window: each pass's dispatches take free cores, weighted       *)
(* voters one with the fewest tolerable failures, and each completion or    *)
(* stuck verdict returns one and enters its record.                         *)
THEOREM ImplementsPool == Spec => PoolRefinement
<1>1. ASSUME TypeOK, OwnershipInv, AccountInv, WindowInv, [Next]_vars
      PROVE  [CP!PoolNext]_CP!poolVars
  BY <1>1, PoolStep DEF CP!poolVars, Place, Record, Pool
<1> QED
  BY <1>1, PoolInitial, TypeCorrect, OwnershipCorrect, AccountCorrect, WindowCorrect, PTL
  DEF Spec, PoolRefinement, CP!PoolSpec
==============================================================================
