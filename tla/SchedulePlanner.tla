-------------------------- MODULE SchedulePlanner ---------------------------
(***************************************************************************)
(* How SchedulePlanner.evaluate turns interval schedules into jobs.  The   *)
(* schedule's row holds the user's settings and the planner's own state    *)
(* in one JSON column, read at the beginning of an evaluation and written  *)
(* back whole at its end; several threads may evaluate at once, and        *)
(* ScheduleDefinitionRepository.save may change the row in between.        *)
(*                                                                         *)
(* Abstracted: the settings are an edition (two editions make jobs of      *)
(* different content), a broken edition stands for every config that does  *)
(* not parse; a cron expression, or no interval, is interval 0; the target,*)
(* the workflow's key and version stay the same, so an occurrence key is a *)
(* schedule and a time; diagnostics are left out.                          *)
(*                                                                         *)
(* An operator Name_Variant is a plausible mistake in Name, used by        *)
(* nothing: it shows which property would catch it.                        *)
(***************************************************************************)
EXTENDS Integers

CONSTANTS
  Schedules,   \* the schedule ids
  Evaluators,  \* the threads that may call run_once
  Editions,    \* the user's settings
  Broken,      \* the editions _evaluate_schedule refuses
  StartAt,     \* StartAt[e]: their start_at, or created_at without one
  AskedAt,     \* AskedAt[e]: their own next_occurrence_at, -1 without one
  Intervals,   \* interval_seconds, 0 for an interval that is refused
  Unit,        \* what all intervals are multiples of
  MaxTime,     \* bound on the clock
  MaxEdits     \* bound on saved editions and workflow changes

ASSUME SchedulePlannerAssumption ==
  /\ StartAt \in [Editions -> Nat]
  /\ AskedAt \in [Editions -> Nat \cup {-1}]
  /\ Unit \in Nat \ {0}
  /\ Intervals \subseteq Nat /\ \A i \in Intervals : i % Unit = 0
  /\ MaxTime \in Nat /\ MaxEdits \in Nat

VARIABLES
  callers,  \* the threads that do: without a v2_service the legacy one does not
  config,   \* config[s]: the row: edition, enabled, interval, the planner's next
  copies,   \* copies[s]: the planner's states of rows somebody may have read
  putBack,  \* history: the schedules whose planner's state a save replaced
  usable,   \* usable[s]: the workflow is there, enabled and valid
  jobs,     \* jobs[s][at]: edition of the job of that occurrence
  now,      \* the UTC clock, in whole seconds
  pc,       \* pc[t]: where thread t is in evaluate()
  at,       \* at[t]: the clock as run_once read it
  todo,     \* todo[t]: the rows t listed and has not evaluated
  edits     \* edits so far

vars == <<callers, config, copies, putBack, usable, jobs, now, pc, at, todo, edits>>

Never == -1        \* no next_occurrence_at
NoJob == "no_job"
Times == 0..MaxTime

\* The first occurrences a row may ask for
NextTimes == Nat \cup {Never}

----------------------------------------------------------------------------
(* Occurrences *)

AdvanceAfter_FromNow(interval, value, t) == t + interval

AdvanceAfter_OneInterval(interval, value, t) == value + interval

\* _advance_after: the first occurrence later than t, whole intervals after value
AdvanceAfter(interval, value, t) ==
  LET next == value + interval IN
    IF next > t THEN next
    ELSE next + ((t - next) \div interval + 1) * interval

\* The occurrence that was due last, counted from the start
LastDue(row, t) ==
  LET start == StartAt[row.edition] IN start + ((t - start) \div row.interval) * row.interval

\* The next occurrence of the row: the planner's, or the one the settings ask for.
\* (The start in the planner's state is never used: a next comes with it.)
NextOf(row) == IF row.next # Never THEN row.next ELSE AskedAt[row.edition]

\* _occurrence_timing: which occurrence of the row is due at t, and which is next
Timing(row, t) ==
  LET next == NextOf(row)
      start == StartAt[row.edition]
  IN
    CASE next # Never /\ next > t  -> [due |-> Never, next |-> next]
      [] next # Never /\ next <= t -> [due |-> next, next |-> AdvanceAfter(row.interval, next, t)]
      [] next = Never /\ start > t  -> [due |-> Never, next |-> start]
      [] next = Never /\ start <= t ->
           [due |-> LastDue(row, t), next |-> LastDue(row, t) + row.interval]

\* _evaluate_schedule gives up before it computes anything
Refused(row) == row.edition \in Broken \/ row.interval = 0

Init ==
  /\ callers \in SUBSET Evaluators \ {{}}
  /\ config \in [Schedules ->
       [edition : Editions, enabled : BOOLEAN, interval : Intervals, next : {Never}]]
  /\ copies = [s \in Schedules |-> {Never}]
  /\ putBack = {}
  /\ usable = [s \in Schedules |-> TRUE]
  /\ jobs = [s \in Schedules |-> [o \in Times |-> NoJob]]
  /\ now = 0
  /\ pc = [t \in Evaluators |-> "idle"]
  /\ at = [t \in Evaluators |-> 0]
  /\ todo = [t \in Evaluators |-> [s \in {} |-> config]]
  /\ edits = 0

Tick ==
  /\ now < MaxTime
  /\ now' = now + 1
  /\ UNCHANGED <<callers, config, copies, putBack, usable, jobs, pc, at, todo, edits>>

----------------------------------------------------------------------------
(* The environment of the planner *)

\* external: settings are written through ScheduleDefinitionRepository.save, which
\* replaces every column. The new config has no planner's state, or that of a row
\* its writer read at some time: of the row as it is, or of an older one.
SaveSchedule(s) ==
  /\ edits < MaxEdits
  /\ edits' = edits + 1
  /\ \E edition \in Editions, enabled \in BOOLEAN, interval \in Intervals, next \in copies[s] :
       /\ config' = [config EXCEPT ![s] = [edition |-> edition, enabled |-> enabled,
                                          interval |-> interval, next |-> next]]
       /\ putBack' = IF next = config[s].next THEN putBack ELSE putBack \cup {s}
  /\ UNCHANGED <<callers, copies, usable, jobs, now, pc, at, todo>>

\* external: the referenced workflow is removed, disabled, broken or restored
ChangeWorkflow(s) ==
  /\ edits < MaxEdits
  /\ edits' = edits + 1
  /\ usable' = [usable EXCEPT ![s] = ~usable[s]]
  /\ UNCHANGED <<callers, config, copies, putBack, jobs, now, pc, at, todo>>

----------------------------------------------------------------------------
(* One evaluation *)

\* the local time of a place one unit behind UTC
ReadClock_LocalTime(t) ==
  /\ t \in callers /\ pc[t] = "idle"
  /\ pc' = [pc EXCEPT ![t] = "list"]
  /\ at' = [at EXCEPT ![t] = now - 1]
  /\ UNCHANGED <<callers, config, copies, putBack, usable, jobs, now, todo, edits>>

\* run_once reads the clock.
ReadClock(t) ==
  /\ t \in callers /\ pc[t] = "idle"
  /\ pc' = [pc EXCEPT ![t] = "list"]
  /\ at' = [at EXCEPT ![t] = now]
  /\ UNCHANGED <<callers, config, copies, putBack, usable, jobs, now, todo, edits>>

ListSchedules(t) ==
  /\ pc[t] = "list"
  /\ pc' = [pc EXCEPT ![t] = "evaluate"]
  /\ todo' = [todo EXCEPT ![t] = [s \in {r \in Schedules : config[r].enabled} |-> config[s]]]
  /\ UNCHANGED <<callers, config, copies, putBack, usable, jobs, now, at, edits>>

Evaluated(t, s) == todo' = [todo EXCEPT ![t] = [r \in DOMAIN todo[t] \ {s} |-> todo[t][r]]]

\* _persist_schedule_state: the config that was listed, with the new state, is
\* written over whatever config the row has by now; other columns stay.
Persist(t, s, next) ==
  /\ config' = [config EXCEPT ![s] = [@ EXCEPT !.edition = todo[t][s].edition, !.next = next]]
  /\ copies' = [copies EXCEPT ![s] = @ \cup {next}]

\* create_if_absent found no job of the occurrence, or one of the same content
Agrees(s, due, edition) == jobs[s][due] \in {NoJob, edition}

EvaluateSchedule_UnusableStays(t, s) ==
  LET row == todo[t][s]
      timing == Timing(row, at[t])
      creates == timing.due # Never /\ usable[s]
  IN
    /\ pc[t] = "evaluate" /\ s \in DOMAIN todo[t]
    /\ Evaluated(t, s)
    /\ \/ /\ Refused(row) \/ (timing.due # Never /\ ~usable[s])
          /\ UNCHANGED <<config, copies, jobs>>
       \/ /\ ~Refused(row) /\ timing.due = Never
          /\ Persist(t, s, timing.next)
          /\ UNCHANGED jobs
       \/ /\ ~Refused(row) /\ creates /\ Agrees(s, timing.due, row.edition)
          /\ jobs' = [jobs EXCEPT ![s][timing.due] = row.edition]
          /\ Persist(t, s, timing.next)
       \/ /\ ~Refused(row) /\ creates /\ ~Agrees(s, timing.due, row.edition)
          /\ UNCHANGED <<config, copies, jobs>>
    /\ UNCHANGED <<callers, putBack, usable, now, pc, at, edits>>

EvaluateSchedule_TwoTransactions(t, s) ==
  LET row == todo[t][s]
      timing == Timing(row, at[t])
      creates == timing.due # Never /\ usable[s]
  IN
    /\ pc[t] = "evaluate" /\ s \in DOMAIN todo[t]
    /\ Evaluated(t, s)
    /\ ~Refused(row)
    /\ \/ /\ creates => Agrees(s, timing.due, row.edition)
          /\ IF creates THEN jobs' = [jobs EXCEPT ![s][timing.due] = row.edition] ELSE UNCHANGED jobs
          /\ Persist(t, s, timing.next)
       \/ /\ creates /\ Agrees(s, timing.due, row.edition)
          /\ jobs' = [jobs EXCEPT ![s][timing.due] = row.edition]
          /\ UNCHANGED <<config, copies>>
       \/ /\ creates /\ ~Agrees(s, timing.due, row.edition)
          /\ UNCHANGED <<config, copies, jobs>>
    /\ UNCHANGED <<callers, putBack, usable, now, pc, at, edits>>

\* _evaluate_schedule: the job is inserted and the state persisted in one
\* transaction; a job of the same key and another content rolls both back.
EvaluateSchedule(t, s) ==
  LET row == todo[t][s]
      timing == Timing(row, at[t])
      creates == timing.due # Never /\ usable[s]
  IN
    /\ pc[t] = "evaluate" /\ s \in DOMAIN todo[t]
    /\ Evaluated(t, s)
    /\ \/ /\ Refused(row)
          /\ UNCHANGED <<config, copies, jobs>>
       \/ /\ ~Refused(row) /\ ~creates
          /\ Persist(t, s, timing.next)
          /\ UNCHANGED jobs
       \/ /\ ~Refused(row) /\ creates /\ Agrees(s, timing.due, row.edition)
          /\ jobs' = [jobs EXCEPT ![s][timing.due] = row.edition]
          /\ Persist(t, s, timing.next)
       \/ /\ ~Refused(row) /\ creates /\ ~Agrees(s, timing.due, row.edition)
          /\ UNCHANGED <<config, copies, jobs>>
    /\ UNCHANGED <<callers, putBack, usable, now, pc, at, edits>>

\* run_once is over and its locals are gone
Leave(t) ==
  /\ pc' = [pc EXCEPT ![t] = "idle"]
  /\ at' = [at EXCEPT ![t] = 0]

\* An exception while a schedule is evaluated rolls its transaction back and
\* becomes a diagnostic; one while the rows are listed ends the iteration.
EvaluationFails(t) ==
  /\ \/ /\ pc[t] = "evaluate"
        /\ \E s \in DOMAIN todo[t] : Evaluated(t, s)
        /\ UNCHANGED <<pc, at>>
     \/ /\ pc[t] = "list"
        /\ Leave(t)
        /\ UNCHANGED todo
  /\ UNCHANGED <<callers, config, copies, putBack, usable, jobs, now, edits>>

EndEvaluation(t) ==
  /\ pc[t] = "evaluate" /\ DOMAIN todo[t] = {}
  /\ Leave(t)
  /\ UNCHANGED <<callers, config, copies, putBack, usable, jobs, now, todo, edits>>

\* The process dies; rows and jobs survive.
Crash ==
  /\ pc' = [t \in Evaluators |-> "idle"]
  /\ at' = [t \in Evaluators |-> 0]
  /\ todo' = [t \in Evaluators |-> [s \in {} |-> config]]
  /\ UNCHANGED <<callers, config, copies, putBack, usable, jobs, now, edits>>

Evaluate(t) ==
  \/ ReadClock(t)
  \/ ListSchedules(t)
  \/ \E s \in Schedules : EvaluateSchedule(t, s)
  \/ EndEvaluation(t)

Next ==
  \/ Tick
  \/ \E s \in Schedules : SaveSchedule(s) \/ ChangeWorkflow(s)
  \/ \E t \in Evaluators : Evaluate(t) \/ EvaluationFails(t)
  \/ Crash

Spec == Init /\ [][Next]_vars

\* Threads are scheduled, and neither errors nor crashes hit the same place for ever.
Fairness ==
  \A t \in Evaluators :
    /\ WF_vars(ReadClock(t) \/ EndEvaluation(t))
    /\ SF_vars(ListSchedules(t))
    /\ \A s \in Schedules : SF_vars(EvaluateSchedule(t, s))

LiveSpec == Spec /\ Fairness

----------------------------------------------------------------------------
(* Properties *)

Rows == [edition : Editions, enabled : BOOLEAN, interval : Intervals, next : NextTimes]

\* Rows, jobs and threads keep their types: no thread works with a time the clock
\* has not shown, and no row asks for an occurrence before time 0.
TypeOK ==
  /\ callers \subseteq Evaluators
  /\ config \in [Schedules -> Rows]
  /\ copies \in [Schedules -> SUBSET NextTimes]
  /\ putBack \subseteq Schedules
  /\ usable \in [Schedules -> BOOLEAN]
  /\ jobs \in [Schedules -> [Times -> Editions \cup {NoJob}]]
  /\ now \in Times
  /\ pc \in [Evaluators -> {"idle", "list", "evaluate"}]
  /\ at \in [Evaluators -> Times]
  /\ \A t \in Evaluators : DOMAIN todo[t] \subseteq Schedules /\ todo[t] \in [DOMAIN todo[t] -> Rows]
  /\ edits \in 0..MaxEdits

\* The times some settings start from or ask for
Wanted == ({StartAt[e] : e \in Editions} \cup {AskedAt[e] : e \in Editions}) \ {Never}

\* Whole units of interval after a wanted time
OnGrid(o) == \E from \in Wanted : o >= from /\ (o - from) % Unit = 0

\* Late polls, lost or restored planner's states, changed intervals and evaluators
\* that overtake each other never invent an occurrence: every job, and every next
\* occurrence, is on the grid of a time that some settings start from or ask for,
\* and no job is early.
OccurrencesAreReal ==
  \A s \in Schedules :
    /\ config[s].next # Never => OnGrid(config[s].next)
    /\ \A o \in Times : jobs[s][o] # NoJob => OnGrid(o) /\ o <= now

OneEvaluator == \A t, u \in callers : t = u

\* With one evaluating thread, what has a job lies before the next occurrence,
\* whatever settings are lost or fail in between: no occurrence comes up again with
\* other settings, unless a save put an older planner's state back, or none.
DealtWithIsPast ==
  \A s \in Schedules \ putBack : OneEvaluator =>
    \A o \in Times : jobs[s][o] # NoJob => o < config[s].next

\* However long nothing was evaluated, one evaluation deals with the whole
\* backlog: when it has moved a schedule, nothing of it is due any more at the
\* time it evaluated, and it made one job at most.
BacklogCollapses ==
  [][\A t \in Evaluators, s \in Schedules :
       s \in DOMAIN todo[t] /\ s \notin DOMAIN todo'[t] =>
         /\ config'[s] # config[s] => config'[s].next > at[t]
         /\ \A o, p \in Times : jobs'[s][o] # jobs[s][o] /\ jobs'[s][p] # jobs[s][p] => o = p]_vars

\* A schedule that can be evaluated, with an occurrence that is due and has no job
\* of other settings
Waiting(s) ==
  LET due == Timing(config[s], now).due IN
    /\ OneEvaluator
    /\ config[s].enabled /\ ~Refused(config[s])
    /\ due # Never
    /\ usable[s] => Agrees(s, due, config[s].edition)

\* With one evaluating thread, a schedule whose occurrence is due is moved on: no
\* settings change, crash or error leaves it waiting for an occurrence for ever,
\* but for one that already has a job of other settings (see DealtWithIsPast).
SchedulesMoveOn == \A s \in Schedules : Waiting(s) ~> ~Waiting(s)
=============================================================================
