------------------------------ MODULE TaskRun -------------------------------
(***************************************************************************)
(* One run_key of a game workflow: Workflow.execute() drives the linear    *)
(* list of its steps through the engine and reports what came of it, the   *)
(* process may die at any point, and execute() is called again with the    *)
(* same run_key.  The rows of the run survive a crash, the workflow's       *)
(* in-memory state does not.                                               *)
(*                                                                         *)
(* The engine is the one of module WorkflowRun, on a list of actions       *)
(* without postconditions: the settled steps are a prefix of the list, so  *)
(* `at` and `mark`, the row of the first attempt of the step at `at`, are  *)
(* all the rows there are.  Later attempts only count attempt.             *)
(***************************************************************************)
EXTENDS TaskSteps, FiniteSets

CONSTANTS
  Tasks,               \* the workflows
  StepsOf(_),          \* StepsOf(w): the step keys of w, in order
  RetriedOf(_),        \* RetriedOf(w): the steps with one retry
  SlackOf(_),          \* SlackOf(w): the step budget beyond the number of steps
  MemoryOf(_),         \* MemoryOf(w): what a new state of w remembers
  HandlerOf(_, _, _),  \* HandlerOf(w, s, c): the results of step s of w in the state c
  ReportOf(_),         \* ReportOf(w): how w reports the result of the engine
  ActLimitOf(_),       \* ActLimitOf(w): how often w may act on the game for one run_key
  MaxCrashes,          \* bound on crashes
  MaxExecutions        \* bound on the calls of execute()

ASSUME TaskRunAssumption ==
  /\ MaxCrashes \in Nat /\ MaxExecutions \in Nat \ {0}
  /\ \A w \in Tasks : StepsOf(w) \in Seq(STRING)
  /\ \A w \in Tasks : RetriedOf(w) \subseteq {StepsOf(w)[n] : n \in 1..Len(StepsOf(w))}
  /\ \A w \in Tasks : SlackOf(w) \in Nat
  \* a workflow that leaves the row to the engine answers what the engine did
  /\ \A w \in Tasks : ~ReportOf(w).settles => ReportOf(w).overrides = {} /\ ~ReportOf(w).softens

VARIABLES
  task,        \* the workflow
  pc,          \* where execute() is
  ctx,         \* the workflow's state in memory
  row,         \* the job_runs row of the run_key
  at,          \* the first step without a settled row
  mark,        \* its row: absent, marked, or the outcome of its first attempt
  attempt,     \* the attempt under way
  spent,       \* attempts of this execution, where they may exhaust the step budget
  got,         \* a step of this execution returned SUCCESS
  res,         \* the outcome of the engine
  answer,      \* what the last execute() returned, "none" while it runs
  reported,    \* whether this execution opened an incident
  monitored,   \* whether this execution had the watchdog recover
  crashes,     \* crashes so far
  executions   \* calls of execute() so far

vars == <<task, pc, ctx, row, at, mark, attempt, spent, got, res, answer, reported, monitored,
          crashes, executions>>

Successes == {"SUCCESS", "SKIPPED"}
Halts == {"CANCELLED", "TIMEOUT"}
Failures == {"BLOCKED", "RETRYABLE_FAILURE", "VALIDATION_FAILURE", "FATAL_FAILURE"} \cup Halts

Status(outcome) ==
  CASE outcome \in Successes -> "completed"
    [] outcome = "CANCELLED" -> "cancelled"
    [] OTHER -> "failed"

Active == [status |-> "active", outcome |-> "none"]
Settled(outcome) == [status |-> Status(outcome), outcome |-> outcome]

Step == StepsOf(task)[at]

Attempts_OneMore == IF Step \in RetriedOf(task) THEN 3 ELSE 1
Attempts == IF Step \in RetriedOf(task) THEN 2 ELSE 1

\* The budget of an execution is Len(StepsOf(task)) + SlackOf(task) attempts, which
\* suffices unless more steps than SlackOf(task) have a retry.
Scarce == Cardinality(RetriedOf(task)) > SlackOf(task)
Exhausted == Scarce /\ spent > Len(StepsOf(task)) + SlackOf(task)

Init ==
  /\ task \in Tasks
  /\ pc = "idle"
  /\ ctx = FreshState(MemoryOf(task), NoHistory)
  /\ row = Active
  /\ at = 1 /\ mark = "absent" /\ attempt = 1 /\ spent = 0
  /\ got = FALSE /\ res = "none"
  /\ answer = "none" /\ reported = FALSE /\ monitored = FALSE
  /\ crashes = 0 /\ executions = 0

Resumes_Failed == row.status # "completed"
Resumes == row = Active

\* execute(): a new state; a settled run only has its result reported again
Execute ==
  /\ pc = "idle" /\ executions < MaxExecutions
  /\ executions' = executions + 1
  /\ ctx' = FreshState(MemoryOf(task), ctx.h)
  /\ answer' = "none" /\ reported' = FALSE /\ monitored' = FALSE
  /\ res' = row.outcome
  /\ pc' = IF Resumes THEN "step" ELSE "record"
  /\ UNCHANGED <<task, row, at, mark, attempt, spent, got, crashes>>

Ends(outcome) == res' = outcome /\ pc' = "finish"

\* The engine looks for the next step.
NextStep ==
  /\ pc = "step"
  /\ \/ /\ at > Len(StepsOf(task))
        /\ Ends(IF got THEN "SUCCESS" ELSE "SKIPPED")
     \/ /\ at <= Len(StepsOf(task))
        /\ \E halt \in Halts : Ends(halt)
     \/ /\ at <= Len(StepsOf(task)) /\ attempt = 1 /\ mark # "absent"
        /\ Ends(IF mark = "marked" THEN "BLOCKED" ELSE mark)
  /\ UNCHANGED <<task, ctx, row, at, mark, attempt, spent, got, answer, reported, monitored,
                 crashes, executions>>

\* An attempt without a row: it is marked, then its handler is called.
BeginAttempt ==
  /\ pc = "step" /\ at <= Len(StepsOf(task))
  /\ attempt > 1 \/ mark = "absent"
  /\ mark' = IF attempt = 1 THEN "marked" ELSE mark
  /\ spent' = IF Scarce THEN spent + 1 ELSE spent
  /\ pc' = "acting"
  /\ UNCHANGED <<task, ctx, row, at, attempt, got, res, answer, reported, monitored, crashes,
                 executions>>

\* What the handler may come to: one of its results, or a driver that raises
\* before or after what it did to the game.  Beyond the budget it is not called.
Results ==
  LET results == HandlerOf(task, Step, ctx) IN
    IF Exhausted
      THEN {Result("BLOCKED", ctx)}
      ELSE results \cup {Result("FATAL_FAILURE", [ctx EXCEPT !.h = r.c.h]) : r \in results}

\* What a stopped run remembered is only reported from then on.
Reported(c) == IF c.stop = "none" THEN c ELSE [c EXCEPT !.m = MemoryOf(task)]

\* The step after one that returned this outcome
Following(outcome) == at + 1

\* The handler returns; a cancellation or an expired deadline overrides its outcome.
StepReturns ==
  /\ pc = "acting"
  /\ \E r \in Results, halt \in Halts \cup {"none"} :
       LET outcome == IF halt = "none" THEN r.out ELSE halt IN
         /\ ctx' = Reported(r.c)
         /\ got' = (got \/ outcome = "SUCCESS")
         /\ \/ /\ outcome \in Successes
               /\ at' = Following(outcome) /\ mark' = "absent" /\ attempt' = 1
               /\ pc' = "step"
               /\ UNCHANGED res
            \/ /\ outcome = "RETRYABLE_FAILURE" /\ attempt < Attempts
               /\ attempt' = attempt + 1
               /\ mark' = IF attempt = 1 THEN outcome ELSE mark
               /\ pc' = "step"
               /\ UNCHANGED <<at, res>>
            \/ /\ outcome \in Failures
               /\ outcome # "RETRYABLE_FAILURE" \/ attempt = Attempts
               /\ mark' = IF attempt = 1 THEN outcome ELSE mark
               /\ Ends(outcome)
               /\ UNCHANGED <<at, attempt>>
  /\ UNCHANGED <<task, row, spent, answer, reported, monitored, crashes, executions>>

\* The engine's context and the state of its call are gone.
NoContext == attempt' = 1 /\ got' = FALSE /\ spent' = 0

\* finish_workflow_run
FinishRun ==
  /\ pc = "finish"
  /\ \E halt \in Halts \cup {"none"} :
       LET outcome == IF halt = "none" THEN res ELSE halt IN
         /\ res' = outcome
         /\ row' = Settled(outcome)
  /\ pc' = "record"
  /\ NoContext
  /\ UNCHANGED <<task, ctx, at, mark, answer, reported, monitored, crashes, executions>>

----------------------------------------------------------------------------
(* What execute() does with the result of the engine *)

Latched_NotTimeout(outcome) == outcome \in Failures \ Halts /\ ctx.stop = "none"
Latched(outcome) == outcome \in Failures \ {"CANCELLED"} /\ ctx.stop = "none"

\* _record_engine_failure, then the watchdog of _record_recovery_for_terminal
RecordFailure ==
  /\ pc = "record"
  /\ \E why \in {"manual", "plain"} :
       LET c == IF Latched(res) THEN Reported([ctx EXCEPT !.stop = res, !.why = why]) ELSE ctx
           recovers == /\ c.stop \in ReportOf(task).recovers /\ ~c.rescued
                       /\ Latched(res) \/ ReportOf(task).belated
       IN
         /\ ctx' = [c EXCEPT !.rescued = @ \/ recovers]
         /\ monitored' = (recovers /\ ~(ReportOf(task).minds /\ c.why = "manual"))
  /\ pc' = "incident"
  /\ UNCHANGED <<task, row, at, mark, attempt, spent, got, res, answer, reported, crashes,
                 executions>>

\* _open_incident
OpenIncident ==
  LET opens == ReportOf(task).incident /\ Failed(ctx) /\ ~ctx.incident IN
    /\ pc = "incident"
    /\ ctx' = [ctx EXCEPT !.incident = @ \/ opens]
    /\ reported' = (ctx.incident \/ opens)
    /\ pc' = "update"
    /\ UNCHANGED <<task, row, at, mark, attempt, spent, got, res, answer, monitored, crashes,
                   executions>>

\* _augment_result: what the run came to, of what the engine and the workflow say
Outcome ==
  CASE ctx.stop \in ReportOf(task).overrides -> ctx.stop
    [] ReportOf(task).softens /\ res = "RETRYABLE_FAILURE" -> "BLOCKED"
    [] OTHER -> res

SettledStatus_Kept(outcome) == row.status
SettledStatus(outcome) ==
  IF ~ReportOf(task).settles THEN row.status
  ELSE IF outcome \in Successes THEN "completed" ELSE "failed"

\* _update_persisted_run
UpdateRun ==
  /\ pc = "update"
  /\ row' = [status |-> SettledStatus(Outcome), outcome |-> Outcome]
  /\ answer' = Outcome
  /\ pc' = "idle" /\ res' = "none"
  /\ ctx' = FreshState(MemoryOf(task), ctx.h)   \* the state goes with the call
  /\ UNCHANGED <<task, at, mark, attempt, spent, got, reported, monitored, crashes, executions>>

\* The process dies, perhaps after the handler under way did its work.
Crash ==
  /\ pc # "idle" /\ crashes < MaxCrashes
  /\ crashes' = crashes + 1
  /\ \E h \in {ctx.h} \cup (IF pc = "acting" THEN {r.c.h : r \in Results} ELSE {}) :
       ctx' = FreshState(MemoryOf(task), h)
  /\ pc' = "idle" /\ res' = "none" /\ reported' = FALSE /\ monitored' = FALSE
  /\ NoContext
  /\ UNCHANGED <<task, row, at, mark, answer, executions>>

ExecuteStep ==
  NextStep \/ BeginAttempt \/ StepReturns \/ FinishRun \/ RecordFailure \/ OpenIncident \/ UpdateRun

Next == Execute \/ ExecuteStep \/ Crash

Spec == Init /\ [][Next]_vars

----------------------------------------------------------------------------
(* Properties *)

Outcomes == Successes \cup Failures
Phases == {"idle", "step", "acting", "finish", "record", "incident", "update"}

TypeOK ==
  /\ task \in Tasks
  /\ pc \in Phases
  /\ DOMAIN ctx = StateFields
  /\ ctx.stop \in Outcomes \cup {"none"} /\ ctx.why \in {"plain", "manual"}
  /\ ctx.rescued \in BOOLEAN /\ ctx.incident \in BOOLEAN
  /\ row.status \in {"active", "completed", "cancelled", "failed"}
  /\ row.outcome \in Outcomes \cup {"none"}
  /\ at \in 1..(Len(StepsOf(task)) + 1)
  /\ mark \in {"absent", "marked"} \cup Outcomes
  /\ attempt \in 1..2 /\ spent \in Nat /\ got \in BOOLEAN
  /\ res \in Outcomes \cup {"none"} /\ answer \in Outcomes \cup {"none"}
  /\ reported \in BOOLEAN /\ monitored \in BOOLEAN
  /\ crashes \in 0..MaxCrashes /\ executions \in 0..MaxExecutions

\* However often execute() is called for one run_key, and wherever the process died
\* in between, what cannot be undone is done no more often than the workflow's limit.
ActsAreBounded == ctx.h.acts <= ActLimitOf(task)

\* No irreversible action is invoked that the request's policy does not allow or
\* that was not observed to be possible.
ActsAreAllowed == ~ctx.h.wrong

\* A run that answers SUCCESS without a restart has verified all that it did.
SuccessIsVerified == answer = "SUCCESS" /\ crashes = 0 => ctx.h.owed = {}

\* A workflow that opens incidents has one open when execute() answers BLOCKED,
\* FATAL_FAILURE, TIMEOUT or VALIDATION_FAILURE. _open_incident knows no other outcome:
\* RETRYABLE_FAILURE, CANCELLED and workflows that soften a failure are outside.
FailureIsReported ==
  ReportOf(task).incident /\ ~ReportOf(task).softens
    /\ answer \in {"BLOCKED", "FATAL_FAILURE", "TIMEOUT", "VALIDATION_FAILURE"} => reported

\* The row the scheduler and the user read agrees with what execute() answered.
RowTellsAnswer ==
  answer # "none" =>
    row.outcome = answer /\ (row.status = "completed" <=> answer \in Successes)

\* A run_key with a settled row does not act again, whoever asks for it.
SettledNeverActs == [][row # Active => ctx'.h = ctx.h]_vars
=============================================================================
