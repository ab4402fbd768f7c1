---------------------------- MODULE WorkflowRun -----------------------------
(***************************************************************************)
(* One run_key of the workflow engine: WorkflowRuntime.execute() over a    *)
(* tree of steps, and the rows WorkflowRunRepositoryRecorder keeps of it.  *)
(* The process may die between any two steps, every recorder call may      *)
(* raise, and execute() is called again with the same run_key; the rows    *)
(* decide what the new call may still do.                                  *)
(*                                                                         *)
(* The Python call stack is the sequence `stack`, one frame per step being *)
(* executed; its first frame is the workflow.  A step attempt is a key     *)
(* <<step, attempt>>, the step_runs row's unique key.  Handlers and        *)
(* conditions are external: any outcome they may return.  Abstracted:      *)
(* disabled steps and validation (static), messages, and rows whose JSON   *)
(* another program damaged.  resume_completed_steps is its default, TRUE.  *)
(*                                                                         *)
(* An operator Name_Variant is a plausible mistake in Name, used by        *)
(* nothing: it shows which property would catch it.                        *)
(***************************************************************************)
EXTENDS Integers, Sequences

CONSTANTS
  Steps,       \* the step keys
  Workflow,    \* the frame of the workflow itself, not a step
  Branches,    \* Branches[s]: the child sequences s may run; {} for an action
  Repeat,      \* Repeat[s]: count of a bounded_repeat, 0 for any other step; a
               \* bounded_repeat of count 0 is a container of the empty sequence
  Attempts,    \* Attempts[s]: retry_limit + 1
  Checked,     \* steps with a postcondition
  Timed,       \* steps with a timeout_seconds, and Workflow if it has a deadline
  Outcomes,    \* the outcomes handlers and conditions return
  MaxSteps,    \* StepBudget.max_steps
  MaxDepth,    \* StepBudget.max_depth
  MaxFaults    \* bound on crashes and failing recorder calls

Successes == {"SUCCESS", "SKIPPED"}
Halts == {"CANCELLED", "TIMEOUT"}
Failures == {"BLOCKED", "RETRYABLE_FAILURE", "VALIDATION_FAILURE", "FATAL_FAILURE"} \cup Halts

ASSUME WorkflowRunAssumption ==
  /\ Workflow \notin Steps
  /\ \A s \in Steps \cup {Workflow} : Branches[s] \subseteq Seq(Steps)
  /\ Branches[Workflow] # {}
  /\ Repeat \in [Steps -> Nat]
  /\ Attempts \in [Steps -> Nat \ {0}]
  /\ Outcomes \subseteq Successes \cup Failures
  /\ MaxSteps \in Nat /\ MaxDepth \in Nat /\ MaxFaults \in Nat

VARIABLES
  run,        \* the job_runs row of the run_key
  rows,       \* rows[k]: the step_runs row of key k
  stack,      \* the frames of the execution under way
  pc,         \* where the top frame is
  res,        \* the outcome the engine has in hand
  cancelled,  \* the cancellation token
  used,       \* StepBudget.steps_used
  answer,     \* what the last execute() returned, "none" while it runs
  acted,      \* acted[k]: how often the action of k was invoked (history)
  verified,   \* keys whose postcondition was seen to hold (history)
  faults      \* crashes and recorder failures so far

vars == <<run, rows, stack, pc, res, cancelled, used, answer, acted, verified, faults>>

Keys == UNION {{s} \X (1..Attempts[s]) : s \in Steps}

\* _status_for_outcome
Status(outcome) ==
  CASE outcome \in Successes -> "completed"
    [] outcome = "CANCELLED" -> "cancelled"
    [] OTHER -> "failed"

Terminal == {"completed", "failed", "cancelled"}

NoRow == [status |-> "absent", phase |-> "not_started", outcome |-> "none"]
Running(phase) == [status |-> "running", phase |-> phase, outcome |-> "none"]
Finished(outcome) ==
  [status  |-> Status(outcome),
   phase   |-> IF outcome \in Successes THEN "completed" ELSE "side_effect_uncertain",
   outcome |-> outcome]

\* The top frame, the frame below it, and the key of the step attempt on top
Depth == Len(stack)
Top == stack[Depth]
Key == <<Top.step, Top.attempt>>
IsAction(s) == Branches[s] = {}

Frame_FromZero(s, attempt) ==
  [step |-> s, attempt |-> attempt - 1, todo |-> <<>>, body |-> <<>>, left |-> 0,
   got |-> "SKIPPED", late |-> FALSE]

Frame(s, attempt) ==
  [step |-> s, attempt |-> attempt, todo |-> <<>>, body |-> <<>>, left |-> 0,
   got |-> "SKIPPED", late |-> FALSE]

\* A sequence starts over
Restart(f, body, left) ==
  [step |-> f.step, attempt |-> f.attempt, todo |-> body, body |-> body, left |-> left,
   got |-> "SKIPPED", late |-> f.late]

\* A step of the sequence returned
Advance(f, outcome) ==
  [step |-> f.step, attempt |-> f.attempt, todo |-> Tail(f.todo), body |-> f.body,
   left |-> f.left, got |-> IF outcome = "SUCCESS" THEN "SUCCESS" ELSE f.got, late |-> f.late]

SetTop(frame) == stack' = [stack EXCEPT ![Depth] = frame]

\* check_cancelled_or_expired in the context of the n-th frame: its deadline
\* is the earliest of the frames up to it
Halt(n) ==
  IF cancelled THEN "CANCELLED"
  ELSE IF \E m \in 1..n : stack[m].late THEN "TIMEOUT"
  ELSE "none"

Init ==
  /\ run = NoRow
  /\ rows = [k \in Keys |-> NoRow]
  /\ stack = <<>>
  /\ pc = "idle"
  /\ res = "none"
  /\ cancelled = FALSE
  /\ used = 0
  /\ answer = "none"
  /\ acted = [k \in Keys |-> 0]
  /\ verified = {}
  /\ faults = 0

history == <<acted, verified>>
context == <<cancelled, used>>

----------------------------------------------------------------------------
(* execute() begins and ends *)

\* start_workflow_run: a new row, or the active one again, or the stored result
Execute ==
  /\ pc = "idle"
  /\ \/ /\ run.status \in Terminal
        /\ answer' = run.outcome
        /\ UNCHANGED <<run, stack, pc, context>>
     \/ /\ run.status \notin Terminal
        /\ run' = Running("not_started")
        /\ \E body \in Branches[Workflow] : stack' = <<Restart(Frame(Workflow, 1), body, 0)>>
        /\ pc' = "next"
        /\ cancelled' = FALSE
        /\ used' = 0
        /\ answer' = "none"
  /\ UNCHANGED <<rows, res, history, faults>>

Answer(outcome) ==
  /\ answer' = outcome
  /\ pc' = "idle"
  /\ stack' = <<>>

\* A cancellation or an expired deadline overrides any outcome.
FinishRun ==
  LET outcome == IF Halt(1) # "none" THEN Halt(1) ELSE res IN
    /\ pc = "finish"
    /\ run' = Finished(outcome)
    /\ Answer(outcome)
    /\ UNCHANGED <<rows, res, context, history, faults>>

----------------------------------------------------------------------------
(* Sequences of steps *)

\* _execute_sequence looks for its next step
NextStep ==
  LET nested == Depth - 1 > MaxDepth
      halted == Top.todo # <<>> /\ Halt(Depth) # "none"
  IN
    /\ pc = "next"
    /\ \/ /\ ~nested /\ ~halted /\ Top.todo # <<>>
          /\ stack' = Append(stack, Frame(Head(Top.todo), 1))
          /\ pc' = "enter"
          /\ UNCHANGED res
       \/ /\ nested \/ halted \/ Top.todo = <<>>
          /\ res' = IF nested THEN "BLOCKED" ELSE IF halted THEN Halt(Depth) ELSE Top.got
          /\ pc' = "sequence_end"
          /\ UNCHANGED stack
    /\ UNCHANGED <<run, rows, context, answer, history, faults>>

EndSequence_SameCount ==
  LET again == res \in Successes /\ Top.left > 0 IN
    /\ pc = "sequence_end"
    /\ IF Depth > 1 /\ again
         THEN SetTop(Restart(Top, Top.body, Top.left)) /\ pc' = "next"
         ELSE pc' = (IF Depth = 1 THEN "finish" ELSE "returned") /\ UNCHANGED stack
    /\ UNCHANGED <<run, rows, res, context, answer, history, faults>>

\* The sequence of the top frame returns res to the workflow, to the next
\* iteration of a bounded_repeat, or as the result of its container.
EndSequence ==
  LET again == res \in Successes /\ Top.left > 0 IN
    /\ pc = "sequence_end"
    /\ \/ /\ Depth = 1
          /\ pc' = "finish"
          /\ UNCHANGED <<stack, res>>
       \/ /\ Depth > 1 /\ again
          /\ SetTop(Restart(Top, Top.body, Top.left - 1))
          /\ pc' = "next"
          /\ UNCHANGED res
       \/ /\ Depth > 1 /\ ~again
          /\ res' = IF res \in Successes /\ Repeat[Top.step] > 0 THEN "SUCCESS" ELSE res
          /\ pc' = "returned"
          /\ UNCHANGED stack
    /\ UNCHANGED <<run, rows, context, answer, history, faults>>

Pop(outcome) ==
  stack' = [SubSeq(stack, 1, Depth - 1) EXCEPT
              ![Depth - 1] = Advance(stack[Depth - 1], outcome)]

Return_GoesOn(outcome) ==
  /\ Pop(outcome)
  /\ res' = outcome
  /\ pc' = "next"

\* The step on top returns an outcome to the sequence it belongs to.
Return(outcome) ==
  /\ Pop(outcome)
  /\ res' = outcome
  /\ pc' = IF outcome \in Successes THEN "next" ELSE "sequence_end"

----------------------------------------------------------------------------
(* One attempt of a step *)

Record(row) == rows' = [rows EXCEPT ![Key] = row]

\* get_step_recovery and what _recover_step_from_persistence makes of it
Fresh == rows[Key].status = "absent"
Interrupted(phase) == rows[Key].status = "running" /\ rows[Key].phase = phase

\* The attempt is over before its row is touched.
SkipAttempt ==
  LET halt == Halt(Depth - 1) IN
    /\ pc = "enter"
    /\ \/ halt # "none" /\ Return(halt)
       \/ halt = "none" /\ rows[Key].status = "completed" /\ Return("SKIPPED")
       \/ halt = "none" /\ rows[Key].status \in Terminal \ {"completed"} /\ Return(rows[Key].outcome)
    /\ UNCHANGED <<run, rows, context, answer, history, faults>>

\* The attempt was interrupted after its side effect may have begun.
RecoverAttempt ==
  /\ pc = "enter"
  /\ Halt(Depth - 1) = "none"
  /\ \/ /\ Interrupted("postcondition_verified")
        /\ res' = "SUCCESS"
        /\ pc' = "recovered"
     \/ /\ Interrupted("side_effect_started") /\ Top.step \notin Checked
        /\ res' = "BLOCKED"
        /\ pc' = "recovered"
     \/ /\ Interrupted("side_effect_started") /\ Top.step \in Checked
        /\ pc' = "probe"
        /\ UNCHANGED res
  /\ UNCHANGED <<run, rows, stack, context, answer, history, faults>>

\* _recover_uncertain_step_with_postcondition
ProbeEffect ==
  /\ pc = "probe"
  /\ pc' = "recovered"
  /\ \/ /\ Record(Running("postcondition_verified"))
        /\ verified' = verified \cup {Key}
        /\ res' = "SUCCESS"
     \/ /\ res' \in {"BLOCKED"} \cup (Outcomes \cap Failures)
        /\ UNCHANGED <<rows, verified>>
  /\ UNCHANGED <<run, stack, context, answer, acted, faults>>

\* _finish_recovered_step
FinishRecovered ==
  /\ pc = "recovered"
  /\ Record(Finished(res))
  /\ Return(res)
  /\ UNCHANGED <<run, context, answer, history, faults>>

BeginAttempt_AnyRow ==
  /\ pc = "enter"
  /\ Halt(Depth - 1) = "none"
  /\ Record(Running("precondition_verified"))
  /\ pc' = "begun"
  /\ UNCHANGED <<run, stack, res, context, answer, history, faults>>

BeginAttempt_AnyRunning ==
  /\ pc = "enter"
  /\ Halt(Depth - 1) = "none"
  /\ rows[Key].status \in {"absent", "running"}
  /\ Record(Running("precondition_verified"))
  /\ pc' = "begun"
  /\ UNCHANGED <<run, stack, res, context, answer, history, faults>>

\* start_step_run
BeginAttempt ==
  /\ pc = "enter"
  /\ Halt(Depth - 1) = "none"
  /\ Fresh \/ Interrupted("precondition_verified")
  /\ Record(Running("precondition_verified"))
  /\ pc' = "begun"
  /\ UNCHANGED <<run, stack, res, context, answer, history, faults>>

MarkStarted_Unwritten ==
  /\ pc = "begun"
  /\ pc' = "marked"
  /\ UNCHANGED <<run, rows, stack, res, context, answer, history, faults>>

\* mark_step_phase
MarkStarted ==
  /\ pc = "begun"
  /\ Record(Running("side_effect_started"))
  /\ pc' = "marked"
  /\ UNCHANGED <<run, stack, res, context, answer, history, faults>>

\* _execute_step_once: the budget, the token, then the action or the children
ExecuteOnce ==
  /\ pc = "marked"
  /\ \/ /\ used = MaxSteps
        /\ res' = "BLOCKED"
        /\ pc' = "result"
        /\ UNCHANGED <<stack, used, acted>>
     \/ /\ used < MaxSteps
        /\ used' = used + 1
        /\ \/ /\ cancelled
              /\ res' = "CANCELLED"
              /\ pc' = "result"
              /\ UNCHANGED <<stack, acted>>
           \/ /\ ~cancelled /\ IsAction(Top.step)
              /\ acted' = [acted EXCEPT ![Key] = @ + 1]
              /\ pc' = "acting"
              /\ UNCHANGED <<stack, res>>
           \/ /\ ~cancelled /\ ~IsAction(Top.step)
              /\ \E body \in Branches[Top.step] :
                   SetTop(Restart(Top, body, IF Repeat[Top.step] = 0 THEN 0 ELSE Repeat[Top.step] - 1))
              /\ pc' = "next"
              /\ UNCHANGED <<res, acted>>
           \/ /\ ~cancelled
              /\ \E body, other \in Branches[Top.step] : body # other   \* an if_else whose
              /\ res' \in Outcomes \cap Failures                        \* condition fails
              /\ pc' = "returned"
              /\ UNCHANGED <<stack, acted>>
  /\ UNCHANGED <<run, rows, cancelled, answer, verified, faults>>

\* The handler returns, or what it raises is turned into an outcome.
ActionReturns ==
  /\ pc = "acting"
  /\ res' \in Outcomes
  /\ pc' = "returned"
  /\ UNCHANGED <<run, rows, stack, context, answer, history, faults>>

VerifyResult_Trusting ==
  /\ pc = "returned"
  /\ pc' = "result"
  /\ UNCHANGED <<run, rows, stack, res, context, answer, history, faults>>

\* The step's deadline and its postcondition may still turn down a SUCCESS.
VerifyResult ==
  LET halt == Halt(Depth) IN
    /\ pc = "returned"
    /\ pc' = "result"
    /\ \/ /\ res # "SUCCESS"
          /\ UNCHANGED <<res, verified>>
       \/ /\ res = "SUCCESS" /\ halt # "none"
          /\ res' = halt
          /\ UNCHANGED verified
       \/ /\ res = "SUCCESS" /\ halt = "none" /\ Top.step \notin Checked
          /\ UNCHANGED <<res, verified>>
       \/ /\ res = "SUCCESS" /\ halt = "none" /\ Top.step \in Checked
          /\ \/ verified' = verified \cup {Key} /\ UNCHANGED res
             \/ res' \in {"FATAL_FAILURE"} \cup (Outcomes \cap Failures) /\ UNCHANGED verified
    /\ UNCHANGED <<run, rows, stack, context, answer, acted, faults>>

\* The context of the sequence halts the step, then finish_step_run records it;
\* a retryable failure with attempts left is tried again.
FinishAttempt ==
  LET halt == Halt(Depth - 1)
      outcome == IF halt # "none" /\ res \notin Halts THEN halt ELSE res
  IN
    /\ pc = "result"
    /\ Record(Finished(outcome))
    /\ IF outcome = "RETRYABLE_FAILURE" /\ Top.attempt < Attempts[Top.step]
         THEN /\ SetTop(Frame(Top.step, Top.attempt + 1))
              /\ pc' = "enter"
              /\ UNCHANGED res
         ELSE Return(outcome)
    /\ UNCHANGED <<run, context, answer, history, faults>>

----------------------------------------------------------------------------
(* The environment *)

Cancel ==
  /\ pc # "idle" /\ ~cancelled
  /\ cancelled' = TRUE
  /\ UNCHANGED <<run, rows, stack, pc, res, used, answer, history, faults>>

Expire ==
  /\ \E n \in 1..Depth :
       /\ stack[n].step \in Timed /\ ~stack[n].late
       /\ stack' = [stack EXCEPT ![n].late = TRUE]
  /\ UNCHANGED <<run, rows, pc, res, context, answer, history, faults>>

\* A recorder call raises: its transaction is rolled back and the engine turns
\* the exception into a FATAL_FAILURE of the step or of the run.
RecorderFails ==
  /\ faults < MaxFaults
  /\ faults' = faults + 1
  /\ \/ /\ pc \in {"enter", "begun", "recovered", "result"}
        /\ pc = "enter" => Halt(Depth - 1) = "none"
        /\ Return("FATAL_FAILURE")
        /\ UNCHANGED answer
     \/ /\ pc = "probe"
        /\ res' = "FATAL_FAILURE"
        /\ pc' = "recovered"
        /\ UNCHANGED <<stack, answer>>
     \/ /\ pc \in {"idle", "finish"}
        /\ Answer("FATAL_FAILURE")
        /\ UNCHANGED res
  /\ UNCHANGED <<run, rows, context, history>>

\* The process dies; the rows survive.
Crash ==
  /\ pc # "idle"
  /\ faults < MaxFaults
  /\ faults' = faults + 1
  /\ stack' = <<>>
  /\ pc' = "idle"
  /\ res' = "none"
  /\ UNCHANGED <<run, rows, context, answer, history>>

EngineStep ==
  \/ NextStep \/ EndSequence \/ SkipAttempt \/ RecoverAttempt \/ ProbeEffect \/ FinishRecovered
  \/ BeginAttempt \/ MarkStarted \/ ExecuteOnce \/ ActionReturns \/ VerifyResult
  \/ FinishAttempt \/ FinishRun

Next == Execute \/ EngineStep \/ Cancel \/ Expire \/ RecorderFails \/ Crash

Spec == Init /\ [][Next]_vars

\* The engine runs on and handlers return; an unfinished run is executed again.
LiveSpec == Spec /\ WF_vars(EngineStep) /\ WF_vars(Execute)

----------------------------------------------------------------------------
(* Properties *)

Phases == {"not_started", "precondition_verified", "side_effect_started",
           "side_effect_uncertain", "postcondition_verified", "completed"}
AllOutcomes == Successes \cup Failures \cup {"none"}
RowSet == [status : {"absent", "running"} \cup Terminal, phase : Phases, outcome : AllOutcomes]
FrameSet == [step : Steps \cup {Workflow}, attempt : Nat, todo : Seq(Steps), body : Seq(Steps),
             left : Nat, got : Successes, late : BOOLEAN]

\* Frame n+1 is a step of the sequence of frame n, and its attempt is one of the step's.
WellNested ==
  \A n \in 2..Depth :
    /\ <<stack[n].step, stack[n].attempt>> \in Keys
    /\ stack[n - 1].todo # <<>>
    /\ stack[n].step = Head(stack[n - 1].todo)

Places == {"idle", "next", "enter", "sequence_end", "probe", "recovered", "begun", "marked",
           "acting", "returned", "result", "finish"}

\* Rows, frames and places keep their types, and the frames are nested as the
\* sequences of their steps say.
TypeOK ==
  /\ run \in RowSet
  /\ rows \in [Keys -> RowSet]
  /\ stack \in Seq(FrameSet)
  /\ pc \in Places
  /\ res \in AllOutcomes
  /\ cancelled \in BOOLEAN
  /\ used \in 0..MaxSteps
  /\ answer \in AllOutcomes
  /\ acted \in [Keys -> Nat]
  /\ verified \subseteq Keys
  /\ faults \in 0..MaxFaults
  /\ pc = "idle" <=> stack = <<>>
  /\ pc \notin {"idle", "next", "sequence_end", "finish"} => Depth > 1
  /\ WellNested

\* Whatever crashes, retries and failing recorder calls do, the action of one
\* attempt of a step is invoked at most once: no tap is repeated because the
\* engine forgot it.
ActedAtMostOnce == \A k \in Keys : acted[k] <= 1

\* An invoked action is on record: its row says that the side effect may have
\* started until a result or a verified postcondition replaces that.
EffectIsRecorded ==
  \A k \in Keys : acted[k] > 0 =>
    \/ rows[k].status \in Terminal
    \/ rows[k].status = "running"
       /\ rows[k].phase \in {"side_effect_started", "postcondition_verified"}

\* A step with a postcondition is recorded as SUCCESS only if the
\* postcondition was seen to hold in that attempt.
SuccessIsVerified ==
  \A k \in Keys : rows[k].outcome = "SUCCESS" /\ k[1] \in Checked => k \in verified

\* A run that answers success has a completed attempt of every one of its
\* steps, in the rows, and its own row says so.
SuccessIsEarned ==
  answer \in Successes =>
    /\ run.status = "completed" /\ run.outcome = answer
    /\ \E body \in Branches[Workflow] :
         \A i \in 1..Len(body) :
           \E a \in 1..Attempts[body[i]] : rows[<<body[i], a>>].status = "completed"

\* What is settled stays settled: a row that reached a terminal status never
\* changes again, of the run as of its steps, whoever executes the run again.
SettledIsFinal ==
  [][/\ run.status \in Terminal => run' = run
     /\ \A k \in Keys : rows[k].status \in Terminal => rows'[k] = rows[k]]_vars

\* Executed again after each crash, a run is settled in the end.
RunSettles == <>(run.status \in Terminal)

\* In a run without a fault, a bounded_repeat of actions that reports SUCCESS has
\* invoked every action of its body once per iteration.
RepeatRepeats ==
  \A s \in Steps : Repeat[s] > 0 /\ faults = 0 =>
    \A body \in Branches[s] : \A i \in 1..Len(body) :
      rows[<<s, 1>>].outcome = "SUCCESS" /\ Attempts[body[i]] = 1 /\ IsAction(body[i]) =>
        acted[<<body[i], 1>>] >= Repeat[s]
=============================================================================
