-------------------------------- MODULE Timing --------------------------------
(****************************************************************************)
(* The clock readings of the scheduler: periods, startup offsets and stuck  *)
(* times (lib/src/task.cpp), the time-based loop and the log interval       *)
(* (lib/src/scheduler.cpp).  All of them compare readings of one wall       *)
(* clock, some in seconds and some in milliseconds, some signed and some    *)
(* not, and the clock may be set while the program runs.                    *)
(*                                                                          *)
(* A pass is monitor_tasks with its one reading of the clock, then one step *)
(* per launch with its own, then log_results.  Cores and inputs are left    *)
(* out: a task whose period has elapsed is launched (module Scheduler has   *)
(* the rest).                                                               *)
(****************************************************************************)
EXTENDS Integers, FiniteSets

CONSTANTS
  Tasks,
  Period,       \* m_period in milliseconds, more than 0: the periodic tasks
  Offset,       \* m_offset in milliseconds
  Modulus,      \* an unsigned long wraps here
  Second,       \* milliseconds in a second
  Epoch,        \* what the clock reads when the scheduler is constructed
  MaxStuck,     \* MAX_STUCK_TIME
  MaxRunTime,   \* MAX_RUN_TIME
  LogInterval,  \* MAX_LOG_INTERVAL
  Adjustments,  \* what may be added to the clock when it is set
  MaxSteps,     \* bound: how often it is set
  MaxPass       \* assumption: milliseconds from one call of active to the next

ASSUME TimingAssumption ==
  /\ Period \in [Tasks -> Nat \ {0}]
  /\ Offset \in [Tasks -> Nat]
  /\ Modulus \in Nat /\ Second \in Nat \ {0} /\ Epoch \in Nat
  /\ \A t \in Tasks : Period[t] < Epoch /\ Epoch < Modulus
  /\ MaxStuck \in Nat /\ MaxRunTime \in Nat /\ LogInterval \in Nat
  /\ Adjustments \subseteq Int
  /\ MaxSteps \in Nat /\ MaxPass \in Nat

VARIABLES
  pc,          \* where the scheduler is in its loop
  now,         \* milliseconds since the start, which no one reads
  clock,       \* what the clock reads
  began,       \* ghost: when active was called last
  phase,       \* m_state, an idle or crashed task being idle
  startTime,   \* m_startTime
  latest,      \* tasks whose m_latestResult was written
  logTimeout,  \* m_log_timeout
  launchedAt,  \* ghost: when each task was launched last, -1 for never
  idleSince,   \* ghost: when its last run was over
  loggedAt,    \* ghost: when the last row was logged
  early,       \* ghost: launches of each task within a period of the last
  wronged,     \* ghost: processes judged stuck before they were
  steps,       \* ghost: how often the clock was set
  slipped      \* ghost: by how much it was set back, in total

clockVars == <<now, clock, steps, slipped>>
taskVars == <<phase, startTime, latest, launchedAt, idleSince, early, wronged>>
logVars == <<logTimeout, loggedAt>>
vars == <<pc, began, clockVars, taskVars, logVars>>

(* m_activationTime, in seconds.                                            *)
Activation == Epoch \div Second

Init ==
  /\ pc = "active"
  /\ now = 0 /\ clock = Epoch /\ began = 0
  /\ phase = [t \in Tasks |-> "idle"]
  /\ startTime = [t \in Tasks |-> 0]
  /\ latest = {}
  /\ logTimeout = Epoch \div Second
  /\ launchedAt = [t \in Tasks |-> -1]
  /\ idleSince = [t \in Tasks |-> 0]
  /\ loggedAt = 0
  /\ early = [t \in Tasks |-> 0]
  /\ wronged = [t \in Tasks |-> 0]
  /\ steps = 0 /\ slipped = 0

(* Bug: a signed difference.                                                *)
BugSince(reading) == clock - reading

(* current_time - reading, of unsigned numbers.                             *)
Since(reading) == (clock - reading) % Modulus

OffsetElapsed(t) == Offset[t] = 0 \/ Since(Activation) > Offset[t]
PeriodElapsed(t) == Since(startTime[t]) > Period[t]

(* The comparison of is_stuck with values never written may go either way.  *)
MayBeStuck(t) == Since(startTime[t]) > MaxStuck /\ t \notin latest

(****************************************************************************)
(* The loop.                                                                *)
(****************************************************************************)
(* Bug: the activation time is not converted to milliseconds.               *)
BugRunTime == (clock \div Second) * Second - Activation

(* The time of the run, from two readings in seconds.                       *)
RunTime == (clock \div Second) * Second - Activation * Second

(* active(), with TIME_BASED.                                               *)
Active ==
  /\ pc = "active"
  /\ pc' = IF RunTime < MaxRunTime THEN "monitor" ELSE "done"
  /\ began' = now
  /\ UNCHANGED <<clockVars, taskVars, logVars>>

(* monitor_tasks: ended are the running processes that waitpid reports,     *)
(* stuck those that is_stuck gives up.                                      *)
MonitorTasks(ended, stuck) ==
  LET looked == {t \in Tasks : OffsetElapsed(t)}
      running == {t \in looked : phase[t] = "running"}
      due == {t \in looked : phase[t] = "idle" /\ PeriodElapsed(t)}
  IN
  /\ pc = "monitor"
  /\ ended \subseteq running
  /\ stuck \subseteq {t \in running \ ended : MayBeStuck(t)}
  /\ pc' = "run"
  /\ phase' = [t \in Tasks |-> IF t \in ended \cup stuck THEN "idle"
                               ELSE IF t \in due THEN "fireable" ELSE phase[t]]
  /\ latest' = latest \cup ended
  /\ idleSince' = [t \in Tasks |-> IF t \in ended \cup stuck THEN now ELSE idleSince[t]]
  /\ wronged' = [t \in Tasks |->
       IF t \in stuck /\ now - launchedAt[t] <= MaxStuck THEN wronged[t] + 1 ELSE wronged[t]]
  /\ UNCHANGED <<began, clockVars, startTime, launchedAt, early, logVars>>

(* The launch of a task, its start time being stamped with reading.         *)
Launch(t, reading) ==
  /\ pc = "run"
  /\ phase[t] = "fireable"
  /\ phase' = [phase EXCEPT ![t] = "running"]
  /\ startTime' = [startTime EXCEPT ![t] = reading]
  /\ launchedAt' = [launchedAt EXCEPT ![t] = now]
  /\ early' = [early EXCEPT ![t] =
       IF launchedAt[t] # -1 /\ now - launchedAt[t] <= Period[t] THEN @ + 1 ELSE @]
  /\ UNCHANGED <<pc, began, clockVars, latest, idleSince, wronged, logVars>>

(* Bug: the start time is when the task was due.                            *)
BugRunTask(t) ==
  Launch(t, IF startTime[t] = 0 THEN clock ELSE startTime[t] + Period[t])

(* run_tasks, for one task.                                                 *)
RunTask(t) == Launch(t, clock)

(* Bug: the timeout is when the next row is due.                            *)
BugLogResults ==
  /\ pc = "run"
  /\ \A t \in Tasks : phase[t] # "fireable"
  /\ pc' = "active"
  /\ IF clock - logTimeout > LogInterval
     THEN logTimeout' = clock + LogInterval /\ loggedAt' = now
     ELSE UNCHANGED logVars
  /\ UNCHANGED <<began, clockVars, taskVars>>

(* run_tasks is over; log_results adds a row when its interval has passed,  *)
(* in signed numbers.                                                       *)
LogResults ==
  /\ pc = "run"
  /\ \A t \in Tasks : phase[t] # "fireable"
  /\ pc' = "active"
  /\ IF clock - logTimeout > LogInterval
     THEN logTimeout' = clock /\ loggedAt' = now
     ELSE UNCHANGED logVars
  /\ UNCHANGED <<began, clockVars, taskVars>>

(****************************************************************************)
(* The environment: time passes, and the clock is set.                      *)
(****************************************************************************)
Elapse ==
  /\ pc # "done"
  /\ now - began < MaxPass
  /\ now' = now + 1
  /\ clock' = clock + 1
  /\ UNCHANGED <<pc, began, steps, slipped, taskVars, logVars>>

SetClock(d) ==
  /\ pc # "done"
  /\ steps < MaxSteps
  /\ clock + d > 0
  /\ steps' = steps + 1
  /\ clock' = clock + d
  /\ slipped' = IF d < 0 THEN slipped - d ELSE slipped
  /\ UNCHANGED <<pc, now, began, taskVars, logVars>>

Done == pc = "done" /\ UNCHANGED vars

Next ==
  \/ Active
  \/ \E ended, stuck \in SUBSET Tasks : MonitorTasks(ended, stuck)
  \/ \E t \in Tasks : RunTask(t)
  \/ LogResults
  \/ Elapse
  \/ \E d \in Adjustments : SetClock(d)
  \/ Done

Spec == Init /\ [][Next]_vars

(****************************************************************************)
(* Properties.                                                              *)
(****************************************************************************)
(* Launches of a task are more than a period apart, although the pass that  *)
(* finds it due reads the clock before the launch that stamps it: each time *)
(* the clock is set costs it one early launch at most, and gets one process *)
(* at most judged stuck too soon, and the damage ends there.                *)
SettingCostsOnce ==
  \A t \in Tasks : early[t] <= steps /\ wronged[t] <= steps

(* A clock that is set back does not hold a task: unsigned differences make *)
(* it due, so that an idle task waits one period, and each time the clock   *)
(* is set one more and what lies between two readings, two passes at most,  *)
(* whatever the clock is set to.                                            *)
NoTaskHeld ==
  pc = "run" => \A t \in Tasks :
    phase[t] = "idle" =>
      began - idleSince[t] <= Period[t] * (steps + 1) + 2 * MaxPass * steps

(* A clock that is set back does hold the log, whose difference is signed,  *)
(* but for no longer than it was set back by.                               *)
LogKeepsUp ==
  pc = "active" => began - loggedAt <= LogInterval + slipped

(* TIME_BASED: the loop ends within a second of MAX_RUN_TIME, not earlier   *)
(* than that if the clock is not set, and not later unless it is set back.  *)
RunsItsTime ==
  /\ pc # "done" => began <= MaxRunTime + Second + slipped
  /\ pc = "done" /\ steps = 0 => now > MaxRunTime - Second

(* What task.h says, and task.cpp does not do: no task executes before its  *)
(* startup offset is over (give or take the second m_activationTime counts  *)
(* in).                                                                     *)
OffsetRespected ==
  steps = 0 => \A t \in Tasks :
    launchedAt[t] # -1 => launchedAt[t] + Second >= Offset[t]
==============================================================================
