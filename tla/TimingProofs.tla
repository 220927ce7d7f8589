----------------------------- MODULE TimingProofs -----------------------------
(* Proofs about the clock readings: for any periods, any clock settings and *)
(* any unit of time, what setting the clock costs (task.cpp), how far the   *)
(* log and the loop may be off (scheduler.cpp).                             *)
EXTENDS Timing, TLAPS

(****************************************************************************)
(* Types, and the order of the times recorded.                              *)
(****************************************************************************)
TimingType ==
  /\ pc \in {"active", "monitor", "run", "done"}
  /\ now \in Nat /\ clock \in Nat /\ began \in Nat
  /\ phase \in [Tasks -> {"idle", "fireable", "running"}]
  /\ startTime \in [Tasks -> Nat]
  /\ latest \subseteq Tasks
  /\ logTimeout \in Nat /\ loggedAt \in Nat
  /\ launchedAt \in [Tasks -> Nat \cup {-1}]
  /\ idleSince \in [Tasks -> Nat]
  /\ early \in [Tasks -> Nat]
  /\ wronged \in [Tasks -> Nat]
  /\ steps \in Nat /\ slipped \in Nat

PastOrder ==
  /\ began <= now /\ now <= began + MaxPass
  /\ loggedAt <= now
  /\ \A t \in Tasks : launchedAt[t] <= now

(* What is left of Timing's variables: a launch was, or it never was.       *)
LaunchRecorded ==
  \A t \in Tasks : phase[t] = "running" => launchedAt[t] # -1

TimingBase == TimingType /\ PastOrder /\ LaunchRecorded

LEMMA PositiveModulus == Modulus \in Nat /\ (Tasks # {} => Modulus > 0)
BY TimingAssumption

(* Whole seconds, as active and the constructor count them, fall behind by  *)
(* less than one.                                                           *)
LEMMA WholeSeconds ==
  ASSUME NEW x \in Nat
  PROVE  /\ x \div Second \in Nat /\ x \div Second <= x
         /\ (x \div Second) * Second <= x
         /\ x < (x \div Second) * Second + Second
BY TimingAssumption

(* An unsigned difference is never more than a difference that is not       *)
(* negative, and it is that difference as long as that fits.                *)
LEMMA Unsigned ==
  ASSUME NEW t \in Tasks, NEW x \in Nat
  PROVE  /\ x % Modulus \in Nat /\ x % Modulus <= x
         /\ x < Modulus => x % Modulus = x
BY PositiveModulus

LEMMA BaseInit == Init => TimingBase
BY TimingAssumption, WholeSeconds
DEF Init, TimingBase, TimingType, PastOrder, LaunchRecorded

LEMMA BaseStep == TimingBase /\ [Next]_vars => TimingBase'
<1> SUFFICES ASSUME TimingBase, [Next]_vars
             PROVE  TimingBase'
  OBVIOUS
<1> USE TimingAssumption DEF TimingBase, TimingType, PastOrder, LaunchRecorded
<1>1. CASE Active
  BY <1>1 DEF Active, clockVars, taskVars, logVars
<1>2. ASSUME NEW ended \in SUBSET Tasks, NEW stuck \in SUBSET Tasks, MonitorTasks(ended, stuck)
      PROVE  TimingBase'
  BY <1>2 DEF MonitorTasks, clockVars, logVars
<1>3. ASSUME NEW t \in Tasks, RunTask(t)
      PROVE  TimingBase'
  BY <1>3 DEF RunTask, Launch, clockVars, logVars
<1>4. CASE LogResults
  BY <1>4 DEF LogResults, clockVars, taskVars, logVars
<1>5. CASE Elapse
  BY <1>5 DEF Elapse, taskVars, logVars
<1>6. ASSUME NEW d \in Adjustments, SetClock(d)
      PROVE  TimingBase'
  BY <1>6 DEF SetClock, taskVars, logVars
<1>7. CASE UNCHANGED vars
  BY <1>7 DEF vars, clockVars, taskVars, logVars
<1> QED
  BY <1>1, <1>2, <1>3, <1>4, <1>5, <1>6, <1>7 DEF Next, Done

LEMMA BaseCorrect == Spec => []TimingBase
BY BaseInit, BaseStep, PTL DEF Spec

(****************************************************************************)
(* Setting the clock costs a task one early launch and one wrong verdict at *)
(* most.  While either count equals the number of settings, no setting has  *)
(* disturbed the reading of the last launch: clock and time have advanced   *)
(* alike since.                                                             *)
(****************************************************************************)
Undisturbed(t) == clock - startTime[t] = now - launchedAt[t]

SettingInv ==
  \A t \in Tasks :
    /\ early[t] <= steps /\ wronged[t] <= steps
    /\ launchedAt[t] # -1 /\ early[t] = steps => Undisturbed(t)
    /\ phase[t] = "running" /\ wronged[t] = steps => Undisturbed(t)
    /\ launchedAt[t] # -1 /\ early[t] = steps /\ phase[t] = "fireable"
         => now - launchedAt[t] > Period[t]

LEMMA SettingInit == Init => SettingInv
BY DEF Init, SettingInv

(* A pass finds only those tasks due, and those processes stuck, whose time *)
(* is over, if no setting has disturbed their reading.                      *)
LEMMA SettingMonitor ==
  ASSUME TimingBase, SettingInv,
         NEW ended \in SUBSET Tasks, NEW stuck \in SUBSET Tasks,
         MonitorTasks(ended, stuck)
  PROVE  SettingInv'
<1> USE TimingAssumption DEF TimingBase, TimingType, PastOrder, LaunchRecorded
<1> SUFFICES ASSUME NEW t \in Tasks
             PROVE  /\ early[t]' <= steps' /\ wronged[t]' <= steps'
                    /\ launchedAt[t]' # -1 /\ early[t]' = steps' => Undisturbed(t)'
                    /\ phase[t]' = "running" /\ wronged[t]' = steps' => Undisturbed(t)'
                    /\ launchedAt[t]' # -1 /\ early[t]' = steps' /\ phase[t]' = "fireable"
                         => now' - launchedAt[t]' > Period[t]
  BY DEF SettingInv
<1>1. /\ UNCHANGED <<now, clock, steps, startTime, launchedAt, early>>
      /\ Undisturbed(t)' <=> Undisturbed(t)
  BY DEF MonitorTasks, clockVars, Undisturbed
<1>2. ASSUME Undisturbed(t), launchedAt[t] # -1
      PROVE  Since(startTime[t]) \in Nat /\ Since(startTime[t]) <= now - launchedAt[t]
  <2>1. clock - startTime[t] = now - launchedAt[t] /\ now - launchedAt[t] \in Nat
    BY <1>2 DEF Undisturbed
  <2> QED
    BY <2>1, Unsigned DEF Since
<1>3. ASSUME wronged'[t] # wronged[t]
      PROVE  wronged'[t] = wronged[t] + 1 /\ wronged[t] < steps /\ phase'[t] # "running"
  <2>1. /\ t \in stuck /\ now - launchedAt[t] <= MaxStuck
        /\ phase[t] = "running" /\ Since(startTime[t]) > MaxStuck
        /\ wronged'[t] = wronged[t] + 1 /\ phase'[t] = "idle"
    BY <1>3 DEF MonitorTasks, MayBeStuck
  <2>2. ~Undisturbed(t)
    BY <1>2, <2>1
  <2> QED
    BY <2>1, <2>2 DEF SettingInv
<1>4. ASSUME phase'[t] = "running"
      PROVE  phase[t] = "running"
  BY <1>4 DEF MonitorTasks
<1>5. ASSUME phase'[t] = "fireable", launchedAt[t] # -1, early[t] = steps
      PROVE  now - launchedAt[t] > Period[t]
  <2>1. CASE phase[t] = "fireable"
    BY <1>5, <2>1 DEF SettingInv
  <2>2. CASE phase[t] # "fireable"
    <3>1. Since(startTime[t]) > Period[t] /\ Undisturbed(t)
      BY <1>5, <2>2 DEF MonitorTasks, PeriodElapsed, SettingInv
    <3> QED
      BY <1>2, <1>5, <3>1
  <2> QED
    BY <2>1, <2>2
<1> QED
  BY <1>1, <1>3, <1>4, <1>5 DEF SettingInv

LEMMA SettingStep == TimingBase /\ SettingInv /\ [Next]_vars => SettingInv'
<1> SUFFICES ASSUME TimingBase, SettingInv, [Next]_vars
             PROVE  SettingInv'
  OBVIOUS
<1> USE TimingAssumption DEF TimingBase, TimingType, PastOrder
<1>1. CASE Active
  BY <1>1 DEF Active, clockVars, taskVars, SettingInv, Undisturbed
<1>2. ASSUME NEW ended \in SUBSET Tasks, NEW stuck \in SUBSET Tasks, MonitorTasks(ended, stuck)
      PROVE  SettingInv'
  BY <1>2, SettingMonitor
<1>3. ASSUME NEW t \in Tasks, RunTask(t)
      PROVE  SettingInv'
  BY <1>3 DEF RunTask, Launch, clockVars, SettingInv, Undisturbed
<1>4. CASE LogResults
  BY <1>4 DEF LogResults, clockVars, taskVars, SettingInv, Undisturbed
<1>5. CASE Elapse
  BY <1>5 DEF Elapse, taskVars, SettingInv, Undisturbed
<1>6. ASSUME NEW d \in Adjustments, SetClock(d)
      PROVE  SettingInv'
  BY <1>6 DEF SetClock, taskVars, SettingInv
<1>7. CASE UNCHANGED vars
  BY <1>7 DEF vars, clockVars, taskVars, SettingInv, Undisturbed
<1> QED
  BY <1>1, <1>2, <1>3, <1>4, <1>5, <1>6, <1>7 DEF Next, Done

LEMMA SettingCorrect == Spec => []SettingInv
BY SettingInit, SettingStep, BaseCorrect, PTL DEF Spec

(* Theorem: for any periods and settings of the clock, each setting costs a *)
(* task one early launch (needs_to_run, run) and one wrong verdict          *)
(* (is_stuck) at most.                                                      *)
THEOREM SettingCostBounded == Spec => []SettingCostsOnce
<1>1. SettingInv => SettingCostsOnce
  BY DEF SettingInv, SettingCostsOnce
<1> QED
  BY <1>1, SettingCorrect, PTL

(****************************************************************************)
(* The signed difference of the log falls behind by what the clock was set  *)
(* back, and the loop's by no more.                                         *)
(****************************************************************************)
LogInv ==
  /\ clock - logTimeout >= now - loggedAt - slipped
  /\ LogKeepsUp

RunInv ==
  /\ clock >= Epoch + now - slipped
  /\ steps = 0 => clock = Epoch + now
  /\ RunsItsTime

LEMMA LogInit == Init => LogInv
BY TimingAssumption, WholeSeconds DEF Init, LogInv, LogKeepsUp

LEMMA LogStep == TimingBase /\ LogInv /\ [Next]_vars => LogInv'
<1> SUFFICES ASSUME TimingBase, LogInv, [Next]_vars
             PROVE  LogInv'
  OBVIOUS
<1> USE TimingAssumption DEF TimingBase, TimingType, PastOrder, LogInv, LogKeepsUp
<1>1. CASE Active
  BY <1>1 DEF Active, clockVars, taskVars, logVars
<1>2. ASSUME NEW ended \in SUBSET Tasks, NEW stuck \in SUBSET Tasks, MonitorTasks(ended, stuck)
      PROVE  LogInv'
  BY <1>2 DEF MonitorTasks, clockVars, logVars
<1>3. ASSUME NEW t \in Tasks, RunTask(t)
      PROVE  LogInv'
  BY <1>3 DEF RunTask, Launch, clockVars, logVars
<1>4. CASE LogResults
  BY <1>4 DEF LogResults, clockVars, taskVars, logVars
<1>5. CASE Elapse
  BY <1>5 DEF Elapse, taskVars, logVars
<1>6. ASSUME NEW d \in Adjustments, SetClock(d)
      PROVE  LogInv'
  BY <1>6 DEF SetClock, taskVars, logVars
<1>7. CASE UNCHANGED vars
  BY <1>7 DEF vars, clockVars, taskVars, logVars
<1> QED
  BY <1>1, <1>2, <1>3, <1>4, <1>5, <1>6, <1>7 DEF Next, Done

(* Theorem: a clock that is set back holds the log for no longer than it    *)
(* was set back by (log_results), for any interval and any settings.        *)
THEOREM LogBounded == Spec => []LogKeepsUp
<1>1. LogInv => LogKeepsUp
  BY DEF LogInv
<1> QED
  BY <1>1, LogInit, LogStep, BaseCorrect, PTL DEF Spec

LEMMA RunInit == Init => RunInv
BY TimingAssumption DEF Init, RunInv, RunsItsTime

LEMMA RunStep == TimingBase /\ RunInv /\ [Next]_vars => RunInv'
<1> SUFFICES ASSUME TimingBase, RunInv, [Next]_vars
             PROVE  RunInv'
  OBVIOUS
<1> USE TimingAssumption DEF TimingBase, TimingType, PastOrder, RunInv, RunsItsTime
<1>1. CASE Active
  <2>1. /\ RunTime \in Int
        /\ RunTime < clock - Epoch + Second
        /\ RunTime > clock - Epoch - Second
    <3> DEFINE whole(x) == x \div Second
    <3>1. \A x \in {clock, Epoch} : /\ whole(x) \in Nat
                                   /\ whole(x) * Second <= x
                                   /\ x < whole(x) * Second + Second
      BY WholeSeconds
    <3>2. RunTime = whole(clock) * Second - whole(Epoch) * Second
      BY DEF RunTime, Activation
    <3> HIDE DEF whole
    <3> QED
      BY <3>1, <3>2
  <2>2. CASE RunTime < MaxRunTime
    <3>1. now < MaxRunTime + Second + slipped
      BY <2>1, <2>2
    <3> QED
      BY <1>1, <2>2, <3>1 DEF Active, clockVars
  <2>3. CASE ~(RunTime < MaxRunTime)
    <3>1. steps = 0 => now > MaxRunTime - Second
      BY <2>1, <2>3
    <3> QED
      BY <1>1, <2>3, <3>1 DEF Active, clockVars
  <2> QED
    BY <2>2, <2>3
<1>2. ASSUME NEW ended \in SUBSET Tasks, NEW stuck \in SUBSET Tasks, MonitorTasks(ended, stuck)
      PROVE  RunInv'
  BY <1>2 DEF MonitorTasks, clockVars
<1>3. ASSUME NEW t \in Tasks, RunTask(t)
      PROVE  RunInv'
  BY <1>3 DEF RunTask, Launch, clockVars
<1>4. CASE LogResults
  BY <1>4 DEF LogResults, clockVars
<1>5. CASE Elapse
  BY <1>5 DEF Elapse
<1>6. ASSUME NEW d \in Adjustments, SetClock(d)
      PROVE  RunInv'
  BY <1>6 DEF SetClock
<1>7. CASE UNCHANGED vars
  BY <1>7 DEF vars, clockVars
<1> QED
  BY <1>1, <1>2, <1>3, <1>4, <1>5, <1>6, <1>7 DEF Next, Done

(* Theorem: TIME_BASED, the loop ends within a second of MAX_RUN_TIME if    *)
(* the clock is left alone, and no setting makes it longer than it is set   *)
(* back by (active), for any time and any unit.                             *)
THEOREM RunTimeBounded == Spec => []RunsItsTime
<1>1. RunInv => RunsItsTime
  BY DEF RunInv
<1> QED
  BY <1>1, RunInit, RunStep, BaseCorrect, PTL DEF Spec

(****************************************************************************)
(* No idle task is held.  Origin is when the task was launched last as the  *)
(* clock has it: a launch sets it to now, only a setting of the clock moves *)
(* it.  It is at most the bound, or no pass has looked at the task since it *)
(* was moved, and then the bound for one setting less still holds.          *)
(****************************************************************************)
Origin(t) == now - (clock - startTime[t])

Hold(t, s) == Period[t] * (s + 1) + 2 * MaxPass * s

HeldFor(t, s) ==
  /\ pc \in {"run", "active"} => began <= idleSince[t] + Hold(t, s)
  /\ pc = "monitor" => began <= idleSince[t] + Hold(t, s) + MaxPass

HoldInv ==
  \A t \in Tasks :
    /\ startTime[t] + Period[t] < Modulus
    /\ phase[t] = "idle" =>
         /\ HeldFor(t, steps)
         /\ \/ Origin(t) + Period[t] <= idleSince[t] + Hold(t, steps)
            \/ steps > 0 /\ HeldFor(t, steps - 1)

(* Nothing but its period keeps a task waiting: its startup offset is over, *)
(* and the clock does not reach the end of an unsigned long.                *)
Unhindered ==
  \A t \in Tasks : OffsetElapsed(t) /\ clock + Period[t] < Modulus

LEMMA HoldSteps ==
  ASSUME NEW t \in Tasks, NEW s \in Nat
  PROVE  /\ Hold(t, s) \in Nat /\ Period[t] \in Nat /\ Hold(t, s) >= Period[t]
         /\ Hold(t, s + 1) = Hold(t, s) + Period[t] + 2 * MaxPass
         /\ s > 0 => /\ Hold(t, s - 1) \in Nat
                     /\ Hold(t, s) = Hold(t, s - 1) + Period[t] + 2 * MaxPass
<1> USE TimingAssumption
<1>1. ASSUME NEW n \in Nat
      PROVE  /\ Hold(t, n) \in Nat /\ Hold(t, n) >= Period[t]
             /\ Hold(t, n + 1) = Hold(t, n) + Period[t] + 2 * MaxPass
  <2> DEFINE p == Period[t]
             a == p * n
             b == MaxPass * n
  <2>1. p \in Nat /\ a \in Nat /\ b \in Nat
    OBVIOUS
  <2>2. p * (n + 1) = a + p /\ 2 * MaxPass * n = 2 * b /\ 2 * MaxPass * (n + 1) = 2 * b + 2 * MaxPass
    BY <2>1
  <2>3. p * (n + 1 + 1) = a + p + p
    BY <2>1
  <2> QED
    BY <2>1, <2>2, <2>3 DEF Hold
<1>2. ASSUME s > 0
      PROVE  s - 1 \in Nat /\ (s - 1) + 1 = s
  BY <1>2
<1> QED
  BY <1>1, <1>2

(* An idle task that a pass does not find due was launched less than a      *)
(* period ago, as the clock has it: were the clock behind the launch, the   *)
(* unsigned difference would be larger than any period.                     *)
LEMMA NotDue ==
  ASSUME TimingBase, Unhindered, NEW t \in Tasks,
         startTime[t] + Period[t] < Modulus, ~PeriodElapsed(t)
  PROVE  Origin(t) \in Int /\ Origin(t) <= now /\ now <= Origin(t) + Period[t]
<1> USE TimingAssumption DEF TimingBase, TimingType
<1> DEFINE x == clock - startTime[t]
<1>1. x \in Int /\ x < Modulus /\ x > 0 - Modulus /\ Modulus > 0
  BY DEF Unhindered
<1>2. x % Modulus <= Period[t]
  BY <1>1 DEF PeriodElapsed, Since
<1>3. CASE x < 0
  <2>1. x % Modulus = x + Modulus
    BY <1>1, <1>3
  <2> QED
    BY <1>2, <2>1
<1>4. CASE x >= 0
  <2>1. x % Modulus = x
    BY <1>1, <1>4
  <2> QED
    BY <1>2, <1>4, <2>1 DEF Origin
<1> QED
  BY <1>1, <1>3, <1>4

LEMMA HoldInit == Init => HoldInv
<1> SUFFICES ASSUME Init, NEW t \in Tasks
             PROVE  /\ startTime[t] + Period[t] < Modulus
                    /\ HeldFor(t, steps)
                    /\ Origin(t) + Period[t] <= idleSince[t] + Hold(t, steps)
  BY DEF HoldInv
<1>1. Hold(t, 0) \in Nat /\ Hold(t, 0) >= Period[t] /\ Period[t] \in Nat
  BY HoldSteps
<1> QED
  BY <1>1, TimingAssumption DEF Init, HeldFor, Origin

(* The pass that looks at a task either finds it due or bounds its origin.  *)
LEMMA HoldMonitor ==
  ASSUME TimingBase, SettingInv, HoldInv, Unhindered,
         NEW ended \in SUBSET Tasks, NEW stuck \in SUBSET Tasks,
         MonitorTasks(ended, stuck)
  PROVE  HoldInv'
<1> USE TimingAssumption DEF TimingBase, TimingType, PastOrder
<1>1. UNCHANGED <<now, clock, began, steps, startTime, launchedAt>>
  BY DEF MonitorTasks, clockVars
<1> SUFFICES ASSUME NEW t \in Tasks, phase'[t] = "idle"
             PROVE  /\ HeldFor(t, steps)'
                    /\ \/ Origin(t)' + Period[t] <= idleSince'[t] + Hold(t, steps)
                       \/ steps > 0 /\ HeldFor(t, steps - 1)'
  BY <1>1 DEF HoldInv, Hold
<1>2. /\ Hold(t, steps) \in Nat /\ Period[t] \in Nat /\ Hold(t, steps) >= Period[t]
      /\ steps > 0 => /\ Hold(t, steps - 1) \in Nat
                      /\ Hold(t, steps) = Hold(t, steps - 1) + Period[t] + 2 * MaxPass
  BY HoldSteps
<1>3. Origin(t)' = Origin(t) /\ pc' = "run" /\ pc = "monitor"
  BY <1>1 DEF MonitorTasks, Origin
<1>4. CASE t \in ended \cup stuck
  <2>1. idleSince'[t] = now /\ phase[t] = "running"
    BY <1>4 DEF MonitorTasks
  <2>2. HeldFor(t, steps)' /\ (steps > 0 => HeldFor(t, steps - 1)')
    BY <1>1, <1>2, <1>3, <2>1 DEF HeldFor, Hold
  <2>3. CASE steps = 0
    <3>1. Undisturbed(t)
      BY <2>1, <2>3 DEF SettingInv
    <3>2. Origin(t) <= now
      BY <3>1 DEF Undisturbed, Origin
    <3> QED
      BY <1>2, <1>3, <2>1, <2>2, <3>2 DEF Origin
  <2>4. CASE steps # 0
    BY <2>2, <2>4
  <2> QED
    BY <2>3, <2>4
<1>5. CASE t \notin ended \cup stuck
  <2>1. phase[t] = "idle" /\ idleSince'[t] = idleSince[t] /\ ~PeriodElapsed(t)
    BY <1>5 DEF MonitorTasks, Unhindered
  <2>2. Origin(t) \in Int /\ Origin(t) <= now /\ now <= Origin(t) + Period[t]
    BY <2>1, NotDue DEF HoldInv
  <2>3. Origin(t) + Period[t] <= idleSince[t] + Hold(t, steps)
    <3>1. CASE Origin(t) + Period[t] <= idleSince[t] + Hold(t, steps)
      BY <3>1
    <3>2. CASE steps > 0 /\ HeldFor(t, steps - 1)
      <4>1. began <= idleSince[t] + Hold(t, steps - 1) + MaxPass
        BY <1>3, <3>2 DEF HeldFor
      <4> QED
        BY <1>2, <2>2, <3>2, <4>1
    <3> QED
      BY <2>1, <3>1, <3>2 DEF HoldInv
  <2>4. began <= idleSince[t] + Hold(t, steps)
    BY <1>2, <2>2, <2>3
  <2>5. HeldFor(t, steps)'
    BY <1>1, <1>3, <2>1, <2>4 DEF HeldFor, Hold
  <2> QED
    BY <1>3, <2>1, <2>3, <2>5
<1> QED
  BY <1>4, <1>5

LEMMA HoldStep ==
  TimingBase /\ SettingInv /\ HoldInv /\ Unhindered /\ [Next]_vars => HoldInv'
<1> SUFFICES ASSUME TimingBase, SettingInv, HoldInv, Unhindered, [Next]_vars
             PROVE  HoldInv'
  OBVIOUS
<1> USE TimingAssumption DEF TimingBase, TimingType, PastOrder
<1>1. CASE Active
  <2>1. ASSUME NEW t \in Tasks, NEW s \in Nat, HeldFor(t, s)
        PROVE  HeldFor(t, s)'
    BY <1>1, <2>1, HoldSteps DEF Active, clockVars, taskVars, HeldFor, Hold
  <2>2. /\ UNCHANGED <<now, clock, steps, phase, startTime, idleSince>>
        /\ steps > 0 => steps - 1 \in Nat
    BY <1>1 DEF Active, clockVars, taskVars
  <2>3. \A t \in Tasks : /\ HeldFor(t, steps) => HeldFor(t, steps)'
                         /\ steps > 0 /\ HeldFor(t, steps - 1) => HeldFor(t, steps - 1)'
    BY <2>1, <2>2 DEF HeldFor, Hold
  <2> QED
    BY <2>2, <2>3 DEF HoldInv, Origin, Hold
<1>2. ASSUME NEW ended \in SUBSET Tasks, NEW stuck \in SUBSET Tasks, MonitorTasks(ended, stuck)
      PROVE  HoldInv'
  BY <1>2, HoldMonitor
<1>3. ASSUME NEW t \in Tasks, RunTask(t)
      PROVE  HoldInv'
  BY <1>3 DEF RunTask, Launch, clockVars, HoldInv, HeldFor, Hold, Origin, Unhindered
<1>4. CASE LogResults
  BY <1>4 DEF LogResults, clockVars, taskVars, HoldInv, HeldFor, Hold, Origin
<1>5. CASE Elapse
  BY <1>5 DEF Elapse, taskVars, HoldInv, HeldFor, Hold, Origin
<1>6. ASSUME NEW d \in Adjustments, SetClock(d)
      PROVE  HoldInv'
  <2>1. /\ UNCHANGED <<pc, began, phase, startTime, idleSince>>
        /\ steps' = steps + 1 /\ steps' - 1 = steps /\ steps' > 0
    BY <1>6 DEF SetClock, taskVars
  <2>2. ASSUME NEW t \in Tasks, phase[t] = "idle", NEW s \in Nat, s \in {steps, steps + 1}
        PROVE  HeldFor(t, s)'
    <3>1. HeldFor(t, steps)
      BY <2>2 DEF HoldInv
    <3>2. Hold(t, s) >= Hold(t, steps) /\ Hold(t, steps) \in Nat /\ Hold(t, s) \in Nat
      BY <2>2, HoldSteps
    <3> QED
      BY <2>1, <3>1, <3>2 DEF HeldFor, Hold
  <2>3. \A t \in Tasks : phase[t] = "idle" => HeldFor(t, steps)' /\ HeldFor(t, steps - 1)'
    BY <2>1, <2>2 DEF HeldFor, Hold
  <2> QED
    BY <2>1, <2>3 DEF HoldInv, Hold
<1>7. CASE UNCHANGED vars
  BY <1>7 DEF vars, clockVars, taskVars, HoldInv, HeldFor, Hold, Origin
<1> QED
  BY <1>1, <1>2, <1>3, <1>4, <1>5, <1>6, <1>7 DEF Next, Done

(* Theorem: whatever the clock is set to, an idle task whose startup offset *)
(* is over waits one period, and one more and two passes for each setting   *)
(* (needs_to_run, m_startTime), as long as the milliseconds fit the         *)
(* unsigned long they are counted in.                                       *)
THEOREM NoTaskHeldLong == Spec /\ []Unhindered => []NoTaskHeld
<1>1. TimingBase /\ HoldInv => NoTaskHeld
  BY TimingAssumption
  DEF TimingBase, TimingType, PastOrder, HoldInv, HeldFor, Hold, NoTaskHeld
<1> QED
  BY <1>1, HoldInit, HoldStep, BaseCorrect, SettingCorrect, PTL DEF Spec
==============================================================================
