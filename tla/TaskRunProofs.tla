--------------------------- MODULE TaskRunProofs ----------------------------
(***************************************************************************)
(* What every workflow that runs like the game workflows keeps to, for any *)
(* number of crashes and executions, if its handlers keep to what is said  *)
(* of them: its types, the agreement of the row with the answer, failures  *)
(* that are reported, a settled row that does nothing more to the game, and *)
(* a bound on what is done to the game.  The handlers of one workflow,     *)
(* alliance help, are then shown to keep to it, and its run to press only  *)
(* what it saw and to succeed only with what it verified.                  *)
(***************************************************************************)
EXTENDS TaskRun, TLAPS

\* The row is settled exactly while execute() reports, and agrees with what is
\* reported.
RowIsSettled ==
  row.status # "active" /\ (row.status = "completed" <=> row.outcome \in Successes)

StageInv ==
  /\ task \in Tasks
  /\ row = Active \/ RowIsSettled
  /\ pc \in Phases
  /\ pc \in {"step", "acting", "finish"} => row = Active
  /\ pc \in {"record", "incident", "update"} =>
       RowIsSettled /\ (~ReportOf(task).settles => row.outcome = res)
  /\ pc # "idle" => answer = "none"
  /\ RowTellsAnswer

\* An outcome is settled as "completed" only if it is a success.
LEMMA StatusFacts ==
  ASSUME NEW outcome
  PROVE  /\ Status(outcome) # "active"
         /\ Status(outcome) = "completed" <=> outcome \in Successes
  BY DEF Status, Successes

LEMMA StageInit == Init => StageInv
  BY DEF Init, StageInv, RowTellsAnswer, Phases

LEMMA StageStep == StageInv /\ [Next]_vars => StageInv'
  <1> SUFFICES ASSUME StageInv, [Next]_vars PROVE StageInv' OBVIOUS
  <1> USE DEF StageInv, RowTellsAnswer, Phases
  <1>1. CASE Execute
    <2>1. CASE row = Active
      BY <1>1, <2>1 DEF Execute, Resumes
    <2>2. CASE row # Active
      BY <1>1, <2>2 DEF Execute, Resumes, RowIsSettled
    <2> QED BY <2>1, <2>2
  <1>2. CASE NextStep
    <2>1. UNCHANGED <<task, row, answer>> /\ pc = "step" /\ pc' = "finish"
      BY <1>2 DEF NextStep, Ends
    <2> QED BY <2>1
  <1>3. CASE BeginAttempt
    <2>1. UNCHANGED <<task, row, answer>> /\ pc = "step" /\ pc' = "acting"
      BY <1>3 DEF BeginAttempt
    <2> QED BY <2>1
  <1>4. CASE StepReturns
    <2>1. UNCHANGED <<task, row, answer>> /\ pc = "acting" /\ pc' \in {"step", "finish"}
      BY <1>4 DEF StepReturns, Ends
    <2> QED BY <2>1
  <1>5. CASE FinishRun
    <2>1. PICK outcome : res' = outcome /\ row' = Settled(outcome) BY <1>5 DEF FinishRun
    <2>2. row'.status = Status(outcome) /\ row'.outcome = outcome BY <2>1 DEF Settled
    <2>3. RowIsSettled' BY <2>2, StatusFacts DEF RowIsSettled
    <2>4. UNCHANGED <<task, answer>> /\ pc = "finish" /\ pc' = "record" BY <1>5 DEF FinishRun
    <2> QED BY <2>1, <2>2, <2>3, <2>4
  <1>6. CASE RecordFailure
    <2>1. UNCHANGED <<task, row, res, answer>> /\ pc = "record" /\ pc' = "incident"
      BY <1>6 DEF RecordFailure
    <2> QED BY <2>1 DEF RowIsSettled
  <1>7. CASE OpenIncident
    <2>1. UNCHANGED <<task, row, res, answer>> /\ pc = "incident" /\ pc' = "update"
      BY <1>7 DEF OpenIncident
    <2> QED BY <2>1 DEF RowIsSettled
  <1>8. CASE UpdateRun
    <2>1. /\ row'.status = SettledStatus(Outcome) /\ row'.outcome = Outcome
          /\ answer' = Outcome /\ UNCHANGED task /\ pc = "update" /\ pc' = "idle"
      BY <1>8 DEF UpdateRun
    <2>2. RowIsSettled'
      <3>1. CASE ReportOf(task).settles BY <2>1, <3>1 DEF SettledStatus, RowIsSettled
      <3>2. CASE ~ReportOf(task).settles
        <4>1. Outcome = res BY <3>2, TaskRunAssumption DEF Outcome
        <4> QED BY <2>1, <3>2, <4>1 DEF SettledStatus, RowIsSettled
      <3> QED BY <3>1, <3>2
    <2> QED BY <2>1, <2>2 DEF RowIsSettled
  <1>9. CASE Crash
    <2>1. UNCHANGED <<task, row, answer>> /\ pc' = "idle" BY <1>9 DEF Crash
    <2> QED BY <2>1 DEF RowIsSettled
  <1>10. CASE UNCHANGED vars
    BY <1>10 DEF vars, RowIsSettled
  <1> QED BY <1>1, <1>2, <1>3, <1>4, <1>5, <1>6, <1>7, <1>8, <1>9, <1>10 DEF Next, ExecuteStep

THEOREM StagesFollow == Spec => []StageInv
  <1>1. Init => StageInv BY StageInit
  <1>2. StageInv /\ [Next]_vars => StageInv' BY StageStep
  <1> QED BY <1>1, <1>2, PTL DEF Spec

\* What execute() answers is what the row tells (_augment_result,
\* _update_persisted_run).
THEOREM RowsTellAnswers == Spec => []RowTellsAnswer
  <1>1. StageInv => RowTellsAnswer BY DEF StageInv
  <1> QED BY <1>1, StagesFollow, PTL

----------------------------------------------------------------------------
(* The types *)

StateOK(c) ==
  /\ DOMAIN c = StateFields
  /\ c.stop \in Outcomes \cup {"none"} /\ c.why \in {"plain", "manual"}
  /\ c.rescued \in BOOLEAN /\ c.incident \in BOOLEAN

\* Handlers return outcomes, and change the fields of a run's state to values of
\* their types.
HandlersKeepTypes ==
  \A w \in Tasks : \A n \in 1..Len(StepsOf(w)) : \A c : StateOK(c) =>
    \A r \in HandlerOf(w, StepsOf(w)[n], c) : r.out \in Outcomes /\ StateOK(r.c)

RowsOK ==
  /\ row.status \in {"active", "completed", "cancelled", "failed"}
  /\ row.outcome \in Outcomes \cup {"none"}
  /\ res \in Outcomes \cup {"none"} /\ answer \in Outcomes \cup {"none"}
  /\ pc = "finish" => res \in Outcomes

PlaceOK ==
  /\ at \in 1..(Len(StepsOf(task)) + 1)
  /\ pc = "acting" => at \in 1..Len(StepsOf(task))
  /\ mark \in {"absent", "marked"} \cup Outcomes
  /\ attempt \in 1..2 /\ spent \in Nat

FlagsOK ==
  /\ got \in BOOLEAN /\ reported \in BOOLEAN /\ monitored \in BOOLEAN
  /\ crashes \in 0..MaxCrashes /\ executions \in 0..MaxExecutions

TypeInv == StageInv /\ StateOK(ctx) /\ RowsOK /\ PlaceOK /\ FlagsOK

LEMMA TypeInvIsTypeOK == TypeInv => TypeOK
  BY DEF TypeInv, StageInv, StateOK, RowsOK, PlaceOK, FlagsOK, TypeOK

LEMMA FreshOK == \A memory, history : StateOK(FreshState(memory, history))
  BY DEF FreshState, StateOK, StateFields

LEMMA ReportedOK ==
  ASSUME NEW c, StateOK(c)
  PROVE  /\ StateOK(Reported(c))
         /\ Reported(c).stop = c.stop /\ Reported(c).incident = c.incident /\ Reported(c).h = c.h
         /\ Reported(c).m \in {c.m, MemoryOf(task)} /\ (c.stop = "none" => Reported(c) = c)
  BY DEF Reported, StateOK, StateFields

LEMMA StatusKinds == \A outcome : Status(outcome) \in {"completed", "cancelled", "failed"}
  BY DEF Status

LEMMA StepCount == task \in Tasks => Len(StepsOf(task)) \in Nat
  BY TaskRunAssumption

\* What a handler may come to, budget and raising drivers included.
LEMMA ResultKinds ==
  ASSUME HandlersKeepTypes, TypeInv, pc = "acting", NEW r \in Results
  PROVE  r.out \in Outcomes /\ StateOK(r.c)
<1>1. task \in Tasks /\ at \in 1..Len(StepsOf(task)) /\ StateOK(ctx)
  BY DEF TypeInv, StageInv, PlaceOK
<1>2. \A q \in HandlerOf(task, Step, ctx) : q.out \in Outcomes /\ StateOK(q.c)
  BY <1>1 DEF HandlersKeepTypes, Step
<1>3. {"BLOCKED", "FATAL_FAILURE"} \subseteq Outcomes
  BY DEF Outcomes, Failures
<1>4. CASE r \in HandlerOf(task, Step, ctx)
  BY <1>2, <1>4
<1>5. CASE r = Result("BLOCKED", ctx)
  BY <1>1, <1>3, <1>5 DEF Result
<1>6. CASE \E q \in HandlerOf(task, Step, ctx) : r = Result("FATAL_FAILURE", [ctx EXCEPT !.h = q.c.h])
  <2>1. PICK history : r = Result("FATAL_FAILURE", [ctx EXCEPT !.h = history])
    BY <1>6
  <2>2. StateOK([ctx EXCEPT !.h = history])
    BY <1>1 DEF StateOK, StateFields
  <2>3. QED BY <1>3, <2>1, <2>2 DEF Result
<1>7. QED BY <1>4, <1>5, <1>6 DEF Results

\* What recording a failure makes of the state.
LEMMA RecordFailureState ==
  ASSUME TypeInv, RecordFailure
  PROVE  /\ StateOK(ctx') /\ monitored' \in BOOLEAN
         /\ ctx'.stop = IF Latched(res) THEN res ELSE ctx.stop
         /\ ctx'.incident = ctx.incident /\ ctx'.h = ctx.h /\ ctx'.m \in {ctx.m, MemoryOf(task)}
<1>1. PICK why \in {"manual", "plain"} :
        LET c == IF Latched(res) THEN Reported([ctx EXCEPT !.stop = res, !.why = why]) ELSE ctx
            recovers == /\ c.stop \in ReportOf(task).recovers /\ ~c.rescued
                        /\ Latched(res) \/ ReportOf(task).belated
        IN  /\ ctx' = [c EXCEPT !.rescued = @ \/ recovers]
            /\ monitored' = (recovers /\ ~(ReportOf(task).minds /\ c.why = "manual"))
  BY DEF RecordFailure
<1> DEFINE d == [ctx EXCEPT !.stop = res, !.why = why]
           c == IF Latched(res) THEN Reported(d) ELSE ctx
           recovers == /\ c.stop \in ReportOf(task).recovers /\ ~c.rescued
                       /\ Latched(res) \/ ReportOf(task).belated
<1>2. StateOK(ctx)
  BY DEF TypeInv
<1>3. ASSUME Latched(res) PROVE /\ StateOK(d) /\ d.stop = res /\ d.incident = ctx.incident
                                 /\ d.h = ctx.h /\ d.m = ctx.m
  <2>1. res \in Outcomes
    BY <1>3 DEF Latched, Outcomes
  <2>2. QED BY <1>2, <2>1 DEF StateOK, StateFields
<1>4. /\ StateOK(c) /\ c.stop = IF Latched(res) THEN res ELSE ctx.stop
      /\ c.incident = ctx.incident /\ c.h = ctx.h /\ c.m \in {ctx.m, MemoryOf(task)}
  BY <1>2, <1>3, ReportedOK
<1>5. ctx' = [c EXCEPT !.rescued = @ \/ recovers] /\ monitored' \in BOOLEAN
  BY <1>1
<1> HIDE DEF c, recovers
<1>6. PICK flag \in BOOLEAN : ctx' = [c EXCEPT !.rescued = flag]
  BY <1>5
<1>7. QED BY <1>4, <1>5, <1>6 DEF StateOK, StateFields

LEMMA TypeInit == Init => TypeInv
<1> SUFFICES ASSUME Init PROVE TypeInv
  OBVIOUS
<1>1. StageInv /\ StateOK(ctx)
  BY StageInit, FreshOK DEF Init
<1>2. task \in Tasks /\ Len(StepsOf(task)) \in Nat
  BY StepCount DEF Init
<1>3. RowsOK /\ PlaceOK
  BY <1>2 DEF Init, RowsOK, PlaceOK, Active, Outcomes
<1>4. FlagsOK
  <2>1. 0 \in 0..MaxCrashes /\ 0 \in 0..MaxExecutions
    BY TaskRunAssumption
  <2>2. QED BY <2>1 DEF Init, FlagsOK
<1>5. QED BY <1>1, <1>3, <1>4 DEF TypeInv

LEMMA TypeStep ==
  ASSUME HandlersKeepTypes, TypeInv, [Next]_vars
  PROVE  TypeInv'
<1>0. StageInv'
  BY StageStep DEF TypeInv
<1>a. /\ StateOK(ctx) /\ RowsOK /\ PlaceOK /\ FlagsOK /\ StageInv
      /\ task \in Tasks /\ Len(StepsOf(task)) \in Nat
  BY StepCount DEF TypeInv, StageInv
<1>b. {"SUCCESS", "SKIPPED", "BLOCKED"} \cup Halts \subseteq Outcomes
  BY DEF Outcomes, Successes, Failures, Halts
<1>1. CASE Execute
  <2>1. StateOK(ctx')
    BY <1>1, FreshOK DEF Execute
  <2>2. RowsOK' /\ PlaceOK'
    BY <1>1, <1>a DEF Execute, RowsOK, PlaceOK
  <2>3. FlagsOK'
    <3>1. executions + 1 \in 0..MaxExecutions
      BY <1>1, <1>a, TaskRunAssumption DEF Execute, FlagsOK
    <3>2. QED BY <1>1, <1>a, <3>1 DEF Execute, FlagsOK
  <2>4. QED BY <1>0, <2>1, <2>2, <2>3 DEF TypeInv, StateOK
<1>2. CASE NextStep
  <2>1. /\ pc' = "finish" /\ res' \in Outcomes
        /\ UNCHANGED <<task, ctx, row, at, mark, attempt, spent, got, answer, reported, monitored,
                       crashes, executions>>
    BY <1>2, <1>a, <1>b DEF NextStep, Ends, PlaceOK
  <2>2. RowsOK' /\ PlaceOK' /\ FlagsOK' /\ StateOK(ctx')
    BY <1>a, <2>1 DEF RowsOK, PlaceOK, FlagsOK
  <2>3. QED BY <1>0, <2>2 DEF TypeInv, StateOK
<1>3. CASE BeginAttempt
  <2>1. StateOK(ctx') /\ RowsOK' /\ FlagsOK'
    BY <1>3, <1>a DEF BeginAttempt, RowsOK, FlagsOK
  <2>2. PlaceOK'
    BY <1>3, <1>a DEF BeginAttempt, PlaceOK
  <2>3. QED BY <1>0, <2>1, <2>2 DEF TypeInv, StateOK
<1>4. CASE StepReturns
  <2>1. PICK r \in Results, halt \in Halts \cup {"none"} :
          LET outcome == IF halt = "none" THEN r.out ELSE halt IN
            /\ ctx' = Reported(r.c)
            /\ got' = (got \/ outcome = "SUCCESS")
            /\ \/ /\ outcome \in Successes
                  /\ at' = Following(outcome) /\ mark' = "absent" /\ attempt' = 1
                  /\ pc' = "step"
                  /\ UNCHANGED res
               \/ /\ outcome = "RETRYABLE_FAILURE" /\ attempt < Attempts
                  /\ attempt' = attempt + 1
                  /\ mark' = IF attempt = 1 THEN outcome ELSE mark
                  /\ pc' = "step"
                  /\ UNCHANGED <<at, res>>
               \/ /\ outcome \in Failures
                  /\ outcome # "RETRYABLE_FAILURE" \/ attempt = Attempts
                  /\ mark' = IF attempt = 1 THEN outcome ELSE mark
                  /\ Ends(outcome)
                  /\ UNCHANGED <<at, attempt>>
    BY <1>4 DEF StepReturns
  <2>2. /\ pc = "acting"
        /\ UNCHANGED <<task, row, spent, answer, reported, monitored, crashes, executions>>
    BY <1>4 DEF StepReturns
  <2> DEFINE outcome == IF halt = "none" THEN r.out ELSE halt
  <2>3. StateOK(r.c) /\ outcome \in Outcomes
    BY <2>2, <1>b, ResultKinds
  <2>4. StateOK(ctx')
    BY <2>1, <2>3, ReportedOK
  <2>5. at \in 1..Len(StepsOf(task)) /\ Attempts \in 1..2
    BY <1>a, <2>2 DEF PlaceOK, Attempts
  <2>6. /\ got' = (got \/ outcome = "SUCCESS")
        /\ \/ /\ at' = at + 1 /\ mark' = "absent" /\ attempt' = 1
              /\ pc' = "step" /\ UNCHANGED res
           \/ /\ attempt < Attempts /\ attempt' = attempt + 1
              /\ mark' = IF attempt = 1 THEN outcome ELSE mark
              /\ pc' = "step"
              /\ UNCHANGED <<at, res>>
           \/ /\ mark' = IF attempt = 1 THEN outcome ELSE mark
              /\ res' = outcome /\ pc' = "finish"
              /\ UNCHANGED <<at, attempt>>
    BY <2>1 DEF Ends, Following
  <2> HIDE DEF outcome
  <2>7. RowsOK'
    BY <1>a, <2>2, <2>3, <2>6 DEF RowsOK
  <2>8. PlaceOK'
    BY <1>a, <2>2, <2>3, <2>5, <2>6 DEF PlaceOK
  <2>9. FlagsOK'
    BY <1>a, <2>2, <2>6 DEF FlagsOK
  <2>10. QED BY <1>0, <2>4, <2>7, <2>8, <2>9 DEF TypeInv, StateOK
<1>5. CASE FinishRun
  <2>1. PICK outcome \in Outcomes : res' = outcome /\ row' = Settled(outcome)
    BY <1>5, <1>a, <1>b DEF FinishRun, RowsOK
  <2>2. row'.status \in {"completed", "cancelled", "failed"} /\ row'.outcome = outcome
    BY <2>1, StatusKinds DEF Settled
  <2>3. RowsOK'
    BY <1>5, <1>a, <2>1, <2>2 DEF FinishRun, RowsOK
  <2>4. PlaceOK' /\ FlagsOK' /\ StateOK(ctx')
    <3>1. /\ UNCHANGED <<task, ctx, at, mark, reported, monitored, crashes, executions>>
          /\ pc' = "record" /\ attempt' = 1 /\ spent' = 0 /\ got' = FALSE
      BY <1>5 DEF FinishRun, NoContext
    <3>2. PlaceOK'
      BY <1>a, <3>1 DEF PlaceOK
    <3>3. FlagsOK' /\ StateOK(ctx')
      BY <1>a, <3>1 DEF FlagsOK
    <3>4. QED BY <3>2, <3>3
  <2>5. QED BY <1>0, <2>3, <2>4 DEF TypeInv, StateOK
<1>6. CASE RecordFailure
  <2>1. StateOK(ctx') /\ monitored' \in BOOLEAN
    BY <1>6, RecordFailureState
  <2>2. RowsOK' /\ PlaceOK' /\ FlagsOK'
    BY <1>6, <1>a, <2>1 DEF RecordFailure, RowsOK, PlaceOK, FlagsOK
  <2>3. QED BY <1>0, <2>1, <2>2 DEF TypeInv, StateOK
<1>7. CASE OpenIncident
  <2>1. PICK flag \in BOOLEAN : ctx' = [ctx EXCEPT !.incident = flag] /\ reported' = flag
    BY <1>7, <1>a DEF OpenIncident, StateOK, StateFields
  <2>2. StateOK(ctx')
    BY <1>a, <2>1 DEF StateOK, StateFields
  <2>3. RowsOK' /\ PlaceOK' /\ FlagsOK'
    BY <1>7, <1>a, <2>1 DEF OpenIncident, RowsOK, PlaceOK, FlagsOK
  <2>4. QED BY <1>0, <2>2, <2>3 DEF TypeInv, StateOK
<1>8. CASE UpdateRun
  <2>1. Outcome \in Outcomes \cup {"none"}
    BY <1>a, <1>b DEF Outcome, StateOK, RowsOK
  <2>2. SettledStatus(Outcome) \in {"active", "completed", "cancelled", "failed"}
    BY <1>a DEF SettledStatus, RowsOK
  <2>3. RowsOK'
    BY <1>8, <1>a, <2>1, <2>2 DEF UpdateRun, RowsOK
  <2>4. PlaceOK' /\ FlagsOK' /\ StateOK(ctx')
    BY <1>8, <1>a, FreshOK DEF UpdateRun, PlaceOK, FlagsOK
  <2>5. QED BY <1>0, <2>3, <2>4 DEF TypeInv, StateOK
<1>9. CASE Crash
  <2>1. StateOK(ctx')
    BY <1>9, FreshOK DEF Crash
  <2>2. RowsOK' /\ PlaceOK' /\ FlagsOK'
    <3>1. /\ UNCHANGED <<task, row, at, mark, answer, executions>>
          /\ pc' = "idle" /\ res' = "none" /\ reported' = FALSE /\ monitored' = FALSE
          /\ attempt' = 1 /\ spent' = 0 /\ got' = FALSE
      BY <1>9 DEF Crash, NoContext
    <3>2. crashes' \in 0..MaxCrashes
      BY <1>9, <1>a, TaskRunAssumption DEF Crash, FlagsOK
    <3>3. RowsOK'
      BY <1>a, <3>1 DEF RowsOK
    <3>4. PlaceOK'
      BY <1>a, <3>1 DEF PlaceOK
    <3>5. FlagsOK'
      BY <1>a, <3>1, <3>2 DEF FlagsOK
    <3>6. QED BY <3>3, <3>4, <3>5
  <2>3. QED BY <1>0, <2>1, <2>2 DEF TypeInv, StateOK
<1>10. CASE UNCHANGED vars
  <2>1. RowsOK' /\ PlaceOK' /\ FlagsOK' /\ StateOK(ctx')
    BY <1>10, <1>a DEF vars, RowsOK, PlaceOK, FlagsOK
  <2>2. QED BY <1>0, <2>1 DEF TypeInv, StateOK
<1>11. QED
  BY <1>1, <1>2, <1>3, <1>4, <1>5, <1>6, <1>7, <1>8, <1>9, <1>10 DEF Next, ExecuteStep

LEMMA TypeInvariant == HandlersKeepTypes => (Spec => []TypeInv)
<1> SUFFICES ASSUME HandlersKeepTypes PROVE Spec => []TypeInv
  OBVIOUS
<1>1. TypeInv /\ [Next]_vars => TypeInv'
  BY TypeStep
<1>2. QED BY <1>1, TypeInit, PTL DEF Spec

\* execute() never leaves its types, if the handlers keep to theirs: its place in
\* the list of steps, its rows and outcomes, and the flags of the run's state.
THEOREM RunTypeCorrect == HandlersKeepTypes => (Spec => []TypeOK)
  BY TypeInvariant, TypeInvIsTypeOK, PTL

----------------------------------------------------------------------------
(* Failures are reported *)

\* The outcomes a user is told of, and the workflows that tell
Told == {"BLOCKED", "FATAL_FAILURE", "TIMEOUT", "VALIDATION_FAILURE"}
Telling(w) == ReportOf(w).incident /\ ~ReportOf(w).softens

\* A handler of such a workflow stops the run with an outcome that is told, or with
\* one that replaces the engine's.
Stops(w) == {"none"} \cup Told \cup ReportOf(w).overrides
StopsAreTold ==
  \A w \in Tasks : Telling(w) =>
    \A n \in 1..Len(StepsOf(w)) : \A c : StateOK(c) /\ c.stop \in Stops(w) =>
      \A r \in HandlerOf(w, StepsOf(w)[n], c) : r.c.stop \in Stops(w)

ToldInv ==
  /\ pc \in {"step", "acting", "finish", "record"} => ctx.stop \in Stops(task)
  /\ pc \in {"incident", "update"} => (Outcome \in Told => Failed(ctx))
  /\ pc = "update" => (Failed(ctx) => reported)
  /\ answer \in Told => reported

LEMMA ToldStep ==
  ASSUME HandlersKeepTypes, StopsAreTold, TypeInv, Telling(task), ToldInv, [Next]_vars
  PROVE  ToldInv'
<1>a. /\ StateOK(ctx) /\ task \in Tasks
      /\ pc # "idle" => answer = "none"
      /\ ReportOf(task).incident /\ ~ReportOf(task).softens
  BY DEF TypeInv, StageInv, Telling
<1>b. "none" \notin Told /\ "none" \in Stops(task)
  BY DEF Told, Stops
<1>1. CASE Execute
  BY <1>1, <1>a, <1>b DEF Execute, FreshState, ToldInv, Stops, Told
<1>2. CASE NextStep \/ BeginAttempt \/ FinishRun
  <2>1. /\ UNCHANGED <<task, ctx, answer, reported>> /\ pc \in {"step", "finish"}
        /\ pc' \in {"acting", "finish", "record"}
    BY <1>2 DEF NextStep, Ends, BeginAttempt, FinishRun
  <2>2. QED BY <2>1, <1>a, <1>b DEF ToldInv, Stops
<1>3. CASE StepReturns
  <2>1. /\ UNCHANGED <<task, answer, reported>> /\ pc = "acting" /\ pc' \in {"step", "finish"}
        /\ \E r \in Results : ctx' = Reported(r.c)
    BY <1>3 DEF StepReturns, Ends
  <2>2. PICK r \in Results : ctx' = Reported(r.c)
    BY <2>1
  <2>3. ctx.stop \in Stops(task) /\ at \in 1..Len(StepsOf(task))
    BY <2>1 DEF ToldInv, TypeInv, PlaceOK
  <2>4. r.c.stop \in Stops(task)
    <3>1. CASE r \in HandlerOf(task, Step, ctx)
      BY <1>a, <2>3, <3>1 DEF StopsAreTold, Step, Telling
    <3>2. CASE r = Result("BLOCKED", ctx)
      BY <2>3, <3>2 DEF Result
    <3>3. CASE \E history : r = Result("FATAL_FAILURE", [ctx EXCEPT !.h = history])
      BY <1>a, <2>3, <3>3 DEF Result, StateOK, StateFields
    <3>4. QED BY <3>1, <3>2, <3>3 DEF Results
  <2>5. ctx'.stop = r.c.stop
    BY <2>1, <2>2, ReportedOK, ResultKinds
  <2>6. QED BY <1>a, <1>b, <2>1, <2>4, <2>5 DEF ToldInv, Stops
<1>4. CASE RecordFailure
  <2>1. /\ UNCHANGED <<task, res, answer, reported>> /\ pc = "record" /\ pc' = "incident"
        /\ ctx'.stop = IF Latched(res) THEN res ELSE ctx.stop
    BY <1>4, RecordFailureState DEF RecordFailure
  <2>2. ctx.stop \in Stops(task)
    BY <2>1 DEF ToldInv
  <2>3. Outcome' = IF ctx'.stop \in ReportOf(task).overrides THEN ctx'.stop ELSE res
    BY <1>a, <2>1 DEF Outcome
  <2>4. ASSUME Outcome' \in Told PROVE ctx'.stop \in Told
    <3>1. CASE ctx'.stop \in ReportOf(task).overrides
      BY <2>3, <2>4, <3>1
    <3>2. CASE ctx'.stop \notin ReportOf(task).overrides
      <4>1. res \in Told /\ res \in Failures \ {"CANCELLED"}
        BY <2>3, <2>4, <3>2 DEF Told, Failures, Halts
      <4>2. CASE Latched(res)
        BY <2>1, <4>1, <4>2
      <4>3. CASE ~Latched(res)
        <5>1. ctx.stop # "none" /\ ctx'.stop = ctx.stop
          BY <2>1, <4>1, <4>3 DEF Latched
        <5>2. QED BY <2>2, <3>2, <5>1 DEF Stops
      <4>4. QED BY <4>2, <4>3
    <3>3. QED BY <3>1, <3>2
  <2>5. QED BY <1>a, <1>b, <2>1, <2>4 DEF ToldInv, Failed, Told
<1>5. CASE OpenIncident
  <2>1. /\ UNCHANGED <<task, res, answer>> /\ pc = "incident" /\ pc' = "update"
        /\ ctx' = [ctx EXCEPT !.incident = @ \/ (ReportOf(task).incident /\ Failed(ctx) /\ ~ctx.incident)]
        /\ reported' = (ctx.incident \/ (ReportOf(task).incident /\ Failed(ctx) /\ ~ctx.incident))
    BY <1>5 DEF OpenIncident
  <2>2. ctx'.stop = ctx.stop
    BY <1>a, <2>1 DEF StateOK, StateFields
  <2>3. Outcome' = Outcome /\ (Failed(ctx') <=> Failed(ctx))
    BY <2>1, <2>2 DEF Outcome, Failed
  <2>4. Failed(ctx) => reported'
    BY <1>a, <2>1
  <2>5. QED BY <1>a, <1>b, <2>1, <2>3, <2>4 DEF ToldInv, Failed
<1>6. CASE UpdateRun
  <2>1. pc = "update" /\ pc' = "idle" /\ answer' = Outcome /\ UNCHANGED reported
    BY <1>6 DEF UpdateRun
  <2>2. QED BY <2>1 DEF ToldInv
<1>7. CASE Crash
  BY <1>7, <1>a, <1>b DEF Crash, ToldInv
<1>8. CASE UNCHANGED vars
  BY <1>8 DEF vars, ToldInv, Outcome, Failed, Stops
<1>9. QED BY <1>1, <1>2, <1>3, <1>4, <1>5, <1>6, <1>7, <1>8 DEF Next, ExecuteStep

\* When a workflow that opens incidents answers with a failure, one is open, whichever
\* of its handlers, the engine or the deadline ended the run, and also when the failed
\* run is only reported again.
THEOREM FailuresAreReported ==
  HandlersKeepTypes /\ StopsAreTold => (Spec => []FailureIsReported)
<1> SUFFICES ASSUME HandlersKeepTypes, StopsAreTold PROVE Spec => []FailureIsReported
  OBVIOUS
<1> DEFINE Inv == TypeInv /\ (Telling(task) => ToldInv)
<1>1. Init => Inv
  <2>1. ASSUME Init PROVE ToldInv
    BY <2>1 DEF Init, ToldInv, Told
  <2>2. QED BY <2>1, TypeInit
<1>2. Inv /\ [Next]_vars => Inv'
  <2> SUFFICES ASSUME Inv, [Next]_vars PROVE Inv'
    OBVIOUS
  <2>1. task' = task
    BY DEF Next, ExecuteStep, Execute, NextStep, BeginAttempt, StepReturns, FinishRun,
           RecordFailure, OpenIncident, UpdateRun, Crash, vars
  <2>2. Telling(task)' <=> Telling(task)
    BY <2>1 DEF Telling
  <2>3. QED BY <2>2, TypeStep, ToldStep
<1>3. Inv => FailureIsReported
  BY DEF ToldInv, Told, Telling, FailureIsReported
<1>4. QED BY <1>1, <1>2, <1>3, PTL DEF Spec

----------------------------------------------------------------------------
(* A settled run *)

LEMMA RestStep == TypeInv /\ [Next]_vars => [row # Active => ctx'.h = ctx.h]_vars
<1> SUFFICES ASSUME TypeInv, Next, row # Active PROVE ctx'.h = ctx.h
  OBVIOUS
<1>a. pc \in {"idle", "record", "incident", "update"}
  BY DEF TypeInv, StageInv, Phases
<1>1. CASE Execute \/ UpdateRun
  BY <1>1 DEF Execute, UpdateRun, FreshState
<1>2. CASE NextStep \/ BeginAttempt \/ StepReturns \/ FinishRun
  BY <1>2, <1>a DEF NextStep, BeginAttempt, StepReturns, FinishRun
<1>3. CASE RecordFailure
  BY <1>3, RecordFailureState
<1>4. CASE OpenIncident
  BY <1>4 DEF OpenIncident, TypeInv, StateOK, StateFields
<1>5. CASE Crash
  BY <1>5, <1>a DEF Crash, FreshState
<1>6. QED BY <1>1, <1>2, <1>3, <1>4, <1>5 DEF Next, ExecuteStep

\* A run_key whose row is settled does not act on the game again, if the handlers
\* keep to their types (Workflow.execute: a settled run is only reported again).
THEOREM SettledRunsRest == HandlersKeepTypes => (Spec => SettledNeverActs)
<1> SUFFICES ASSUME HandlersKeepTypes PROVE Spec => SettledNeverActs
  OBVIOUS
<1>1. Spec => []TypeInv
  BY TypeInvariant
<1>2. QED BY <1>1, RestStep, PTL DEF Spec, SettledNeverActs

----------------------------------------------------------------------------
(* What a run may do to the game *)

HistoryOK(h) == DOMAIN h = DOMAIN NoHistory /\ h.acts \in Nat

\* One call of the n-th step of w acts at most cost[n] times.
StepCosts(w, cost) ==
  \A n \in 1..Len(StepsOf(w)) : \A c : StateOK(c) /\ HistoryOK(c.h) =>
    \A r \in HandlerOf(w, StepsOf(w)[n], c) :
      HistoryOK(r.c.h) /\ r.c.h.acts <= c.h.acts + cost[n]

\* All its calls, if every step is called once, and a second time if it has a retry,
\* stay below the limit: before[n] bounds what the steps before the n-th do.
Budgets(w, cost, before) ==
  /\ cost \in [1..Len(StepsOf(w)) -> Nat] /\ before \in [1..Len(StepsOf(w)) + 1 -> Nat]
  /\ \A n \in 1..Len(StepsOf(w)) :
       before[n] + cost[n] + (IF StepsOf(w)[n] \in RetriedOf(w) THEN cost[n] ELSE 0) <= before[n + 1]
  /\ ActLimitOf(w) \in Nat /\ \A n \in 1..Len(StepsOf(w)) + 1 : before[n] <= ActLimitOf(w)

ActsAreBudgeted == \A w \in Tasks : \E cost, before : StepCosts(w, cost) /\ Budgets(w, cost, before)

\* No step is called more often than that, because a step whose row is there is only
\* called again by the execution that called it.
CallsInv(cost, before) ==
  /\ HistoryOK(ctx.h)
  /\ mark = "absent" => attempt = 1 /\ pc # "acting" /\ ctx.h.acts <= before[at]
  /\ pc \in {"idle", "record", "incident", "update"} => attempt = 1
  /\ pc \in {"step", "acting"} /\ attempt = 2 =>
       Step \in RetriedOf(task) /\ ctx.h.acts <= before[at] + cost[at]
  /\ pc = "acting" /\ attempt = 1 => ctx.h.acts <= before[at]
  /\ at <= Len(StepsOf(task)) => ctx.h.acts <= before[at + 1]
  /\ at = Len(StepsOf(task)) + 1 => mark = "absent"

LEMMA CallsInit ==
  ASSUME NEW cost, NEW before, Budgets(task, cost, before), Init
  PROVE  CallsInv(cost, before)
<1>1. Len(StepsOf(task)) \in Nat
  BY StepCount DEF Init
<1>2. HistoryOK(ctx.h) /\ ctx.h.acts = 0
  BY DEF Init, FreshState, NoHistory, HistoryOK
<1>3. 1 \in 1..Len(StepsOf(task)) + 1 /\ (1 <= Len(StepsOf(task)) => 1 + 1 \in 1..Len(StepsOf(task)) + 1)
  BY <1>1
<1>4. before[1] \in Nat /\ (1 <= Len(StepsOf(task)) => before[1 + 1] \in Nat)
  BY <1>3 DEF Budgets
<1>5. at = 1 /\ mark = "absent" /\ attempt = 1 /\ pc = "idle"
  BY DEF Init
<1>6. QED BY <1>1, <1>2, <1>4, <1>5 DEF CallsInv

\* An attempt acts at most cost[at] times, however it ends.
LEMMA CallActs ==
  ASSUME HandlersKeepTypes, TypeInv, pc = "acting", NEW cost, StepCosts(task, cost),
         HistoryOK(ctx.h), cost[at] \in Nat, NEW r \in Results
  PROVE  StateOK(r.c) /\ HistoryOK(r.c.h) /\ r.c.h.acts <= ctx.h.acts + cost[at]
<1>1. task \in Tasks /\ at \in 1..Len(StepsOf(task)) /\ StateOK(ctx) /\ StateOK(r.c)
  BY ResultKinds DEF TypeInv, StageInv, PlaceOK
<1>2. ASSUME NEW q \in HandlerOf(task, Step, ctx)
      PROVE  HistoryOK(q.c.h) /\ q.c.h.acts <= ctx.h.acts + cost[at]
  BY <1>1 DEF StepCosts, Step
<1>3. CASE r \in HandlerOf(task, Step, ctx)
  BY <1>1, <1>2, <1>3
<1>4. CASE r = Result("BLOCKED", ctx)
  BY <1>1, <1>4 DEF Result, HistoryOK
<1>5. CASE \E q \in HandlerOf(task, Step, ctx) : r = Result("FATAL_FAILURE", [ctx EXCEPT !.h = q.c.h])
  <2>1. PICK q \in HandlerOf(task, Step, ctx) : r = Result("FATAL_FAILURE", [ctx EXCEPT !.h = q.c.h])
    BY <1>5
  <2>2. r.c.h = q.c.h
    BY <1>1, <2>1 DEF Result, StateOK, StateFields
  <2>3. QED BY <1>1, <1>2, <2>2
<1>6. QED BY <1>3, <1>4, <1>5 DEF Results

LEMMA CallsStep ==
  ASSUME HandlersKeepTypes, TypeInv, [Next]_vars,
         NEW cost, NEW before, StepCosts(task, cost), Budgets(task, cost, before), CallsInv(cost, before)
  PROVE  CallsInv(cost, before)'
<1> DEFINE n == Len(StepsOf(task))
<1>a. n \in Nat /\ at \in 1..(n + 1) /\ (pc = "acting" => at \in 1..n) /\ attempt \in 1..2 /\ StateOK(ctx)
  BY StepCount DEF TypeInv, StageInv, PlaceOK
<1>b. /\ \A k \in 1..(n + 1) : before[k] \in Nat
      /\ \A k \in 1..n : cost[k] \in Nat /\ before[k] \in Nat /\ before[k + 1] \in Nat
  <2>1. \A k \in 1..n : k \in 1..(n + 1) /\ k + 1 \in 1..(n + 1)
    BY <1>a
  <2>2. QED BY <1>a, <2>1 DEF Budgets
<1>c. \A k \in 1..n : /\ before[k] + cost[k] <= before[k + 1]
                      /\ StepsOf(task)[k] \in RetriedOf(task) => before[k] + cost[k] + cost[k] <= before[k + 1]
  BY <1>b DEF Budgets
<1>d. ASSUME UNCHANGED <<task, at, mark, attempt>>, ctx'.h = ctx.h, pc' # "acting",
             pc' \in {"idle", "record", "incident", "update"} => attempt = 1,
             pc' = "step" => attempt = 1 \/ pc = "step"
      PROVE  CallsInv(cost, before)'
  BY <1>d, <1>a DEF CallsInv, Step
<1> HIDE DEF n
<1>1. CASE Execute
  <2>1. /\ UNCHANGED <<task, at, mark, attempt>> /\ ctx'.h = ctx.h /\ pc = "idle" /\ pc' \in {"step", "record"}
    BY <1>1 DEF Execute, FreshState
  <2>2. attempt = 1
    BY <2>1 DEF CallsInv
  <2>3. QED BY <2>1, <2>2, <1>d
<1>2. CASE NextStep \/ RecordFailure \/ OpenIncident \/ UpdateRun
  <2>1. UNCHANGED <<task, at, mark, attempt>>
    BY <1>2 DEF NextStep, RecordFailure, OpenIncident, UpdateRun
  <2>2. ctx'.h = ctx.h
    <3>1. CASE OpenIncident
      BY <1>a, <3>1 DEF OpenIncident, StateOK, StateFields
    <3>2. CASE RecordFailure
      BY <3>2, RecordFailureState
    <3>3. QED BY <1>2, <3>1, <3>2 DEF NextStep, UpdateRun, FreshState
  <2>3. \/ pc' = "finish"
        \/ pc \in {"record", "incident", "update"} /\ pc' \in {"incident", "update", "idle"}
    BY <1>2 DEF NextStep, Ends, RecordFailure, OpenIncident, UpdateRun
  <2>4. pc \in {"record", "incident", "update"} => attempt = 1
    BY DEF CallsInv
  <2>5. QED BY <2>1, <2>2, <2>3, <2>4, <1>d
<1>3. CASE BeginAttempt
  <2>1. /\ pc = "step" /\ pc' = "acting" /\ UNCHANGED <<task, ctx, at, attempt>>
        /\ at <= n /\ (attempt > 1 \/ mark = "absent")
        /\ mark' = IF attempt = 1 THEN "marked" ELSE mark
    BY <1>3 DEF BeginAttempt, n
  <2>2. CASE attempt = 1
    <3>1. mark = "absent" /\ mark' = "marked" /\ ctx.h.acts <= before[at]
      BY <2>1, <2>2 DEF CallsInv
    <3>2. QED BY <1>a, <2>1, <2>2, <3>1 DEF CallsInv, n
  <2>3. CASE attempt = 2
    <3>1. mark # "absent" /\ mark' = mark
      BY <2>1, <2>3 DEF CallsInv
    <3>2. QED BY <1>a, <2>1, <2>3, <3>1 DEF CallsInv, Step
  <2>4. QED BY <1>a, <2>2, <2>3
<1>4. CASE StepReturns
  <2>1. PICK r \in Results, halt \in Halts \cup {"none"} :
          LET outcome == IF halt = "none" THEN r.out ELSE halt IN
            /\ ctx' = Reported(r.c)
            /\ got' = (got \/ outcome = "SUCCESS")
            /\ \/ /\ outcome \in Successes
                  /\ at' = Following(outcome) /\ mark' = "absent" /\ attempt' = 1
                  /\ pc' = "step"
                  /\ UNCHANGED res
               \/ /\ outcome = "RETRYABLE_FAILURE" /\ attempt < Attempts
                  /\ attempt' = attempt + 1
                  /\ mark' = IF attempt = 1 THEN outcome ELSE mark
                  /\ pc' = "step"
                  /\ UNCHANGED <<at, res>>
               \/ /\ outcome \in Failures
                  /\ outcome # "RETRYABLE_FAILURE" \/ attempt = Attempts
                  /\ mark' = IF attempt = 1 THEN outcome ELSE mark
                  /\ Ends(outcome)
                  /\ UNCHANGED <<at, attempt>>
    BY <1>4 DEF StepReturns
  <2>2. pc = "acting" /\ task' = task
    BY <1>4 DEF StepReturns
  <2>3. /\ at \in 1..n /\ cost[at] \in Nat /\ before[at] \in Nat /\ before[at + 1] \in Nat
        /\ before[at] + cost[at] <= before[at + 1]
        /\ Step \in RetriedOf(task) => before[at] + cost[at] + cost[at] <= before[at + 1]
    BY <1>a, <1>b, <1>c, <2>2 DEF Step
  <2>4. /\ HistoryOK(ctx.h) /\ ctx.h.acts \in Nat /\ mark # "absent"
        /\ attempt = 1 => ctx.h.acts <= before[at]
        /\ attempt = 2 => Step \in RetriedOf(task) /\ ctx.h.acts <= before[at] + cost[at]
    BY <2>2 DEF CallsInv, HistoryOK
  <2>5. HistoryOK(ctx'.h) /\ ctx'.h.acts \in Nat /\ ctx'.h.acts <= ctx.h.acts + cost[at]
    BY <2>1, <2>2, <2>3, <2>4, CallActs, ReportedOK DEF HistoryOK
  <2>6. /\ ctx'.h.acts <= before[at + 1]
        /\ attempt = 1 => ctx'.h.acts <= before[at] + cost[at]
    BY <1>a, <2>3, <2>4, <2>5
  <2>7. CASE at' = at + 1 /\ mark' = "absent" /\ attempt' = 1 /\ pc' = "step"
    <3>1. at + 1 <= n => ctx'.h.acts <= before[(at + 1) + 1]
      <4>1. ASSUME at + 1 <= n
            PROVE  /\ before[at + 1] \in Nat /\ before[(at + 1) + 1] \in Nat /\ cost[at + 1] \in Nat
                   /\ before[at + 1] + cost[at + 1] <= before[(at + 1) + 1]
        <5>1. at + 1 \in 1..n
          BY <1>a, <2>3, <4>1
        <5>2. QED BY <1>b, <1>c, <5>1
      <4>2. QED BY <2>5, <2>6, <4>1
    <3>2. QED BY <1>a, <2>2, <2>5, <2>6, <2>7, <3>1 DEF CallsInv, n
  <2>8. CASE attempt < Attempts /\ attempt' = attempt + 1 /\ mark' # "absent" /\ pc' = "step" /\ at' = at
    <3>1. attempt = 1 /\ attempt' = 2 /\ Step \in RetriedOf(task) /\ Step' = Step
      BY <1>a, <2>2, <2>8 DEF Attempts, Step
    <3>2. QED BY <1>a, <2>2, <2>3, <2>5, <2>6, <2>8, <3>1 DEF CallsInv, n
  <2>9. CASE mark' # "absent" /\ pc' = "finish" /\ UNCHANGED <<at, attempt>>
    BY <1>a, <2>2, <2>3, <2>5, <2>6, <2>9 DEF CallsInv, n
  <2>10. QED
    <3>1. "absent" \notin Failures
      BY DEF Failures, Halts
    <3>2. QED BY <2>1, <2>4, <2>7, <2>8, <2>9, <3>1 DEF Following, Ends
<1>5. CASE FinishRun
  <2>1. /\ pc' = "record" /\ attempt' = 1 /\ UNCHANGED <<task, ctx, at, mark>>
    BY <1>5 DEF FinishRun, NoContext
  <2>2. QED BY <1>a, <2>1 DEF CallsInv
<1>6. CASE Crash
  <2>1. /\ pc' = "idle" /\ attempt' = 1 /\ UNCHANGED <<task, at, mark>>
        /\ \E h \in {ctx.h} \cup (IF pc = "acting" THEN {r.c.h : r \in Results} ELSE {}) :
             ctx' = FreshState(MemoryOf(task), h)
    BY <1>6 DEF Crash, NoContext
  <2>2. CASE ctx'.h = ctx.h
    BY <1>a, <2>1, <2>2 DEF CallsInv
  <2>3. CASE pc = "acting" /\ \E r \in Results : ctx'.h = r.c.h
    <3>1. PICK r \in Results : ctx'.h = r.c.h
      BY <2>3
    <3>2. /\ at \in 1..n /\ cost[at] \in Nat /\ before[at] \in Nat /\ before[at + 1] \in Nat
          /\ before[at] + cost[at] <= before[at + 1]
          /\ Step \in RetriedOf(task) => before[at] + cost[at] + cost[at] <= before[at + 1]
      BY <1>a, <1>b, <1>c, <2>3 DEF Step
    <3>3. /\ HistoryOK(ctx.h) /\ ctx.h.acts \in Nat /\ mark # "absent"
          /\ attempt = 1 => ctx.h.acts <= before[at]
          /\ attempt = 2 => Step \in RetriedOf(task) /\ ctx.h.acts <= before[at] + cost[at]
      BY <2>3 DEF CallsInv, HistoryOK
    <3>4. HistoryOK(ctx'.h) /\ ctx'.h.acts \in Nat /\ ctx'.h.acts <= ctx.h.acts + cost[at]
      BY <2>3, <3>1, <3>2, <3>3, CallActs DEF HistoryOK
    <3>5. ctx'.h.acts <= before[at + 1]
      BY <1>a, <3>2, <3>3, <3>4
    <3>6. QED BY <1>a, <2>1, <2>3, <3>2, <3>3, <3>4, <3>5 DEF CallsInv, n
  <2>4. QED BY <2>1, <2>2, <2>3 DEF FreshState
<1>7. CASE UNCHANGED vars
  BY <1>7 DEF vars, CallsInv, Step
<1>8. QED BY <1>1, <1>2, <1>3, <1>4, <1>5, <1>6, <1>7 DEF Next, ExecuteStep

\* Whenever the process dies, and however often execute() is called again, the run acts
\* on the game no more often than its steps do when each is called once, and a second
\* time if it has a retry (WorkflowEngine: a step with a row is not started again).
THEOREM ActsStayBounded ==
  HandlersKeepTypes /\ ActsAreBudgeted => (Spec => []ActsAreBounded)
<1> SUFFICES ASSUME HandlersKeepTypes, ActsAreBudgeted PROVE Spec => []ActsAreBounded
  OBVIOUS
<1> DEFINE Bounded == \E cost, before : /\ StepCosts(task, cost) /\ Budgets(task, cost, before)
                                        /\ CallsInv(cost, before)
<1>1. Init => TypeInv /\ Bounded
  BY TypeInit, CallsInit DEF Init, ActsAreBudgeted
<1>2. TypeInv /\ Bounded /\ [Next]_vars => (TypeInv /\ Bounded)'
  <2> SUFFICES ASSUME TypeInv, Bounded, [Next]_vars PROVE (TypeInv /\ Bounded)'
    OBVIOUS
  <2>1. task' = task
    BY DEF Next, ExecuteStep, Execute, NextStep, BeginAttempt, StepReturns, FinishRun,
           RecordFailure, OpenIncident, UpdateRun, Crash, vars
  <2>2. PICK cost, before : StepCosts(task, cost) /\ Budgets(task, cost, before) /\ CallsInv(cost, before)
    OBVIOUS
  <2>3. CallsInv(cost, before)'
    BY <2>2, CallsStep
  <2>4. StepCosts(task, cost)' /\ Budgets(task, cost, before)'
    BY <2>1, <2>2 DEF StepCosts, Budgets
  <2>5. QED BY <2>3, <2>4, TypeStep
<1>3. TypeInv /\ Bounded => ActsAreBounded
  <2> SUFFICES ASSUME TypeInv, Bounded PROVE ActsAreBounded
    OBVIOUS
  <2>1. PICK cost, before : StepCosts(task, cost) /\ Budgets(task, cost, before) /\ CallsInv(cost, before)
    OBVIOUS
  <2> DEFINE n == Len(StepsOf(task))
  <2>2. n \in Nat /\ at \in 1..(n + 1)
    BY StepCount DEF TypeInv, StageInv, PlaceOK
  <2>3. PICK k \in 1..(n + 1) : ctx.h.acts <= before[k]
    BY <2>1, <2>2 DEF CallsInv
  <2>4. before[k] \in Nat /\ before[k] <= ActLimitOf(task) /\ ActLimitOf(task) \in Nat
    BY <2>1 DEF Budgets
  <2>5. ctx.h.acts \in Nat
    BY <2>1 DEF CallsInv, HistoryOK
  <2>6. QED BY <2>3, <2>4, <2>5 DEF ActsAreBounded
<1>4. QED BY <1>1, <1>2, <1>3, PTL DEF Spec
----------------------------------------------------------------------------
(* A workflow with its handlers: alliance help *)

Help == INSTANCE AllianceHelp

\* The constants of TaskRun are those of alliance_help_workflow.py.
RunsHelp(w) ==
  /\ StepsOf(w) = Help!Steps /\ RetriedOf(w) = Help!Retried /\ MemoryOf(w) = Help!Memory
  /\ ReportOf(w) = Help!Report /\ ActLimitOf(w) = Help!ActLimit
  /\ \A s, c : HandlerOf(w, s, c) = Help!Handler(s, c)

\* A state that remembers, and did to the game, what c does
Kept(c, d) == StateOK(d) /\ d.m = c.m /\ d.h = c.h

\* It stops the run, if at all, with an outcome that is told.
Calm(c, d) == Kept(c, d) /\ d.stop \in {c.stop} \cup Told

LEMMA SettersKeep ==
  ASSUME NEW c, StateOK(c)
  PROVE  /\ Calm(c, c)
         /\ Calm(c, [c EXCEPT !.policy = TRUE])
         /\ Calm(c, [c EXCEPT !.char = TRUE])
         /\ Calm(c, [c EXCEPT !.rescued = TRUE]) /\ [c EXCEPT !.rescued = TRUE].stop = c.stop
         /\ Calm(c, [c EXCEPT !.incident = TRUE]) /\ [c EXCEPT !.incident = TRUE].stop = c.stop
<1>1. Calm(c, c)
  BY DEF Calm, Kept
<1>2. Calm(c, [c EXCEPT !.policy = TRUE]) /\ Calm(c, [c EXCEPT !.char = TRUE])
  BY DEF Calm, Kept, StateOK, StateFields
<1>3. /\ Calm(c, [c EXCEPT !.rescued = TRUE]) /\ [c EXCEPT !.rescued = TRUE].stop = c.stop
      /\ Calm(c, [c EXCEPT !.incident = TRUE]) /\ [c EXCEPT !.incident = TRUE].stop = c.stop
  BY DEF Calm, Kept, StateOK, StateFields
<1>4. QED BY <1>1, <1>2, <1>3

LEMMA StoppedKeeps ==
  ASSUME NEW c, StateOK(c), NEW o \in Told \cup {"SKIPPED"}, NEW why \in {"plain", "manual"},
         NEW d, d = [c EXCEPT !.stop = o, !.why = why]
  PROVE  Kept(c, d) /\ d.stop = o
<1>1. o \in Outcomes
  BY DEF Told, Outcomes, Successes, Failures, Halts
<1>2. QED BY <1>1 DEF Kept, StateOK, StateFields

\* What stopping, and an action that left the state done if it succeeded, come to.
LEMMA StopResults ==
  ASSUME NEW c, StateOK(c), NEW o \in Told \cup {"SKIPPED"}
  PROVE  /\ \A r \in Help!StopSaying(c, o) \cup Help!Stop(c, o, "plain") :
              /\ Kept(c, r.c) /\ r.c.stop = o
              /\ r.out = IF o = "SKIPPED" THEN "SUCCESS" ELSE o
<1>1. ASSUME NEW why \in {"plain", "manual"}, NEW r \in Help!Stop(c, o, why)
      PROVE  /\ Kept(c, r.c) /\ r.c.stop = o
             /\ r.out = IF o = "SKIPPED" THEN "SUCCESS" ELSE o
  <2>1. r.c = [c EXCEPT !.stop = o, !.why = why] /\ r.out = IF o = "SKIPPED" THEN "SUCCESS" ELSE o
    BY <1>1 DEF Help!Stop, Help!Result
  <2>2. Kept(c, r.c) /\ r.c.stop = o
    <3> DEFINE d == r.c
    <3>1. d = [c EXCEPT !.stop = o, !.why = why]
      BY <2>1
    <3> HIDE DEF d
    <3>2. Kept(c, d) /\ d.stop = o
      BY <3>1, StoppedKeeps
    <3>3. QED BY <3>2 DEF d
  <2>3. QED BY <2>1, <2>2
<1>2. QED BY <1>1 DEF Help!StopSaying

LEMMA ActionResults ==
  ASSUME NEW c, StateOK(c), NEW done, NEW r \in Help!ActionToStep(c, done)
  PROVE  \/ r.c = done /\ r.out = "SUCCESS"
         \/ r.c = c /\ r.out = "RETRYABLE_FAILURE"
         \/ Kept(c, r.c) /\ r.c.stop = "BLOCKED" /\ r.out = "BLOCKED"
<1>1. "BLOCKED" \in Told \cup {"SKIPPED"}
  BY DEF Told
<1>2. CASE r \in Help!StopSaying(c, "BLOCKED")
  BY <1>1, <1>2, StopResults
<1>3. CASE r \in Help!Ok(done) \cup Help!Retry(c)
  BY <1>3 DEF Help!Ok, Help!Retry, Help!Result
<1>4. QED BY <1>2, <1>3 DEF Help!ActionToStep

\* The first and the last steps of a workflow only stop it.
LEMMA OpeningResults ==
  ASSUME NEW c, StateOK(c), NEW s, NEW r \in Help!Opening(s, c)
  PROVE  r.out \in Outcomes /\ Calm(c, r.c)
<1>a. {"SUCCESS", "BLOCKED", "VALIDATION_FAILURE", "RETRYABLE_FAILURE", "FATAL_FAILURE"} \subseteq Outcomes
  BY DEF Outcomes, Successes, Failures
<1>b. {"BLOCKED", "VALIDATION_FAILURE"} \subseteq Told
  BY DEF Told
<1>c. Calm(c, c)
  BY SettersKeep
<1>1. ASSUME NEW o \in Told, r \in Help!StopSaying(c, o) \cup Help!Stop(c, o, "plain")
      PROVE  r.out = o /\ Calm(c, r.c)
  BY <1>1, StopResults DEF Calm, Told
<1>2. CASE r \in Help!ValidateInput(c) \/ r \in Help!LoadCharacter(c)
  <2>1. CASE r \in Help!Stop(c, "VALIDATION_FAILURE", "plain")
    BY <1>1, <1>a, <1>b, <2>1
  <2>2. CASE r \in Help!Ok([c EXCEPT !.policy = TRUE]) \/ r \in Help!Ok([c EXCEPT !.char = TRUE])
    <3>1. r.out = "SUCCESS" /\ r.c \in {[c EXCEPT !.policy = TRUE], [c EXCEPT !.char = TRUE]}
      BY <2>2 DEF Help!Ok, Help!Result
    <3>2. Calm(c, [c EXCEPT !.policy = TRUE]) /\ Calm(c, [c EXCEPT !.char = TRUE])
      BY SettersKeep
    <3>3. QED BY <1>a, <3>1, <3>2
  <2>3. QED BY <1>2, <2>1, <2>2 DEF Help!ValidateInput, Help!LoadCharacter
<1>3. CASE r \in Help!ActionToStep(c, c)
  BY <1>3, <1>a, <1>b, <1>c, ActionResults DEF Calm
<1>4. CASE r \in Help!Ok(c) \/ r \in Help!Raise(c)
  BY <1>4, <1>a, <1>c DEF Help!Ok, Help!Raise, Help!Result
<1>5. CASE r \in Help!StopSaying(c, "BLOCKED")
  BY <1>1, <1>a, <1>b, <1>5
<1>6. QED
  BY <1>2, <1>3, <1>4, <1>5 DEF Help!Opening, Help!EnsurePrecondition, Help!EnsureGameRunning,
     Help!Navigate, Help!Need

LEMMA ConcludeResults ==
  ASSUME NEW c, StateOK(c), NEW s \in {"complete", "skipped", "recover", "failed"},
         NEW r \in Help!Conclude(s, c)
  PROVE  r.out \in Outcomes /\ Calm(c, r.c) /\ r.c.stop = c.stop
<1>a. {"SUCCESS", "SKIPPED", "FATAL_FAILURE"} \subseteq Outcomes
  BY DEF Outcomes, Successes, Failures
<1>1. r \in Help!Ok(c) \cup Help!Skip(c) \cup Help!Ok([c EXCEPT !.rescued = TRUE])
             \cup Help!Raise([c EXCEPT !.incident = TRUE])
  BY DEF Help!Conclude, Help!Complete, Help!Skipped, Help!Recover, Help!ReportFailed
<1>2. /\ r.out \in {"SUCCESS", "SKIPPED", "FATAL_FAILURE"}
      /\ r.c \in {c, [c EXCEPT !.rescued = TRUE], [c EXCEPT !.incident = TRUE]}
  BY <1>1 DEF Help!Ok, Help!Skip, Help!Raise, Help!Result
<1>3. QED BY <1>a, <1>2, SettersKeep

\* The memory of a help run, and what it may have done to the game
HelpMemory == [seen : Help!Views \cup {"none"}, clicked : BOOLEAN, pressed : BOOLEAN]
HelpHistory ==
  [acts : Nat, owed : SUBSET {"button"}, wrong : BOOLEAN, closed : SUBSET {"button"}]
HelpState(c) == StateOK(c) /\ c.m \in HelpMemory /\ c.h \in HelpHistory

\* What every handler leaves of a state: the run stops for good.
Stays(c, d) ==
  /\ HelpState(d) /\ d.stop \in {c.stop, "SKIPPED"} \cup Told
  /\ d.stop = "none" => c.stop = "none"

LEMMA KeptStays ==
  ASSUME NEW c, HelpState(c), NEW d, Kept(c, d), d.stop \in {c.stop, "SKIPPED"} \cup Told
  PROVE  Stays(c, d)
  BY DEF Kept, HelpState, Stays, Told

\* An action counts, and owes its verification.
LEMMA ActState ==
  ASSUME NEW c, HelpState(c), NEW allowed \in BOOLEAN, NEW d, d = Help!Act(c, allowed, "button")
  PROVE  /\ HelpState(d) /\ d.stop = c.stop /\ d.m = c.m
         /\ d.h.acts = c.h.acts + 1 /\ d.h.owed = {"button"}
         /\ d.h.wrong = (c.h.wrong \/ ~allowed)
<1> DEFINE h == [c.h EXCEPT !.acts = @ + 1, !.owed = @ \cup {"button"}, !.wrong = @ \/ ~allowed]
<1>1. DOMAIN c = StateFields /\ c.h \in HelpHistory
  BY DEF HelpState, StateOK
<1>2. d = [c EXCEPT !.h = h]
  BY <1>1 DEF Help!Act, StateFields, HelpHistory
<1>3. h.acts = c.h.acts + 1 /\ h.owed = {"button"} /\ h.wrong = (c.h.wrong \/ ~allowed) /\ h \in HelpHistory
  <2> DEFINE wrong == c.h.wrong \/ ~allowed
  <2>1. c.h.wrong \in BOOLEAN
    BY <1>1 DEF HelpHistory
  <2>2. wrong \in BOOLEAN
    BY <2>1, Zenon
  <2>3. h = [c.h EXCEPT !.acts = @ + 1, !.owed = @ \cup {"button"}, !.wrong = wrong]
    OBVIOUS
  <2> HIDE DEF h
  <2>4. h.wrong = wrong
    <3> HIDE DEF wrong
    <3>1. QED BY <1>1, <2>3 DEF HelpHistory
  <2> HIDE DEF wrong
  <2>5. h.acts = c.h.acts + 1 /\ h.owed = {"button"}
    <3>1. c.h.owed \cup {"button"} = {"button"}
      BY <1>1 DEF HelpHistory
    <3>2. QED BY <1>1, <2>3, <3>1 DEF HelpHistory
  <2>6. /\ DOMAIN h = {"acts", "owed", "wrong", "closed"}
        /\ h = [f \in {"acts", "owed", "wrong", "closed"} |-> h[f]] /\ h.closed = c.h.closed
    BY <1>1, <2>3 DEF HelpHistory
  <2>7. c.h.acts + 1 \in Nat /\ h.closed \in SUBSET {"button"}
    BY <1>1, <2>6 DEF HelpHistory
  <2>8. h \in HelpHistory
    <3> HIDE DEF wrong
    <3>1. QED BY <2>2, <2>4, <2>5, <2>6, <2>7 DEF HelpHistory
  <2>9. QED BY <2>4, <2>5, <2>8 DEF wrong
<1> HIDE DEF h
<1>4. d.h = h /\ d.stop = c.stop /\ d.m = c.m /\ StateOK(d)
  BY <1>1, <1>2 DEF HelpState, StateOK, StateFields
<1>5. QED BY <1>3, <1>4 DEF HelpState

LEMMA DetectResults ==
  ASSUME NEW c, HelpState(c), NEW r \in Help!DetectHelpButton(c)
  PROVE  /\ r.out \in Outcomes /\ Stays(c, r.c) /\ r.c.h = c.h
         /\ r.out \in Successes /\ r.c.stop = "none" => r.c.m.seen = "ready"
         /\ r.out # "RETRYABLE_FAILURE"
<1>a. {"SUCCESS", "BLOCKED", "FATAL_FAILURE"} \subseteq Outcomes
  BY DEF Outcomes, Successes, Failures
<1>1. CASE r \in Help!Raise(c)
  <2>1. r.c = c /\ r.out = "FATAL_FAILURE"
    BY <1>1 DEF Help!Raise, Help!Result
  <2>2. QED BY <1>a, <2>1 DEF Stays, Successes
<1>2. ASSUME NEW view \in Help!Views,
             r \in LET d == [c EXCEPT !.m.seen = view] IN
                     CASE view = "ready" -> Help!Ok(d)
                       [] view = "not_ready" -> Help!StopSaying(d, "SKIPPED")
                       [] view = "verification" -> Help!StopSaying(d, "FATAL_FAILURE")
                       [] OTHER -> Help!StopSaying(d, "BLOCKED")
      PROVE  /\ r.out \in Outcomes /\ Stays(c, r.c) /\ r.c.h = c.h
             /\ r.out \in Successes /\ r.c.stop = "none" => r.c.m.seen = "ready"
             /\ r.out # "RETRYABLE_FAILURE"
  <2> DEFINE d == [c EXCEPT !.m.seen = view]
             m == [c.m EXCEPT !.seen = view]
  <2>1. DOMAIN c = StateFields /\ c.m \in HelpMemory
    BY DEF HelpState, StateOK
  <2>2. d = [c EXCEPT !.m = m] /\ m \in HelpMemory /\ m.seen = view
    BY <2>1 DEF StateFields, HelpMemory
  <2>3. HelpState(d) /\ d.stop = c.stop /\ d.h = c.h /\ d.m.seen = view
    <3> HIDE DEF d, m
    <3>1. QED BY <2>1, <2>2 DEF HelpState, StateOK, StateFields
  <2>4. \/ view = "ready" /\ r \in Help!Ok(d)
        \/ \E o \in {"SKIPPED", "FATAL_FAILURE", "BLOCKED"} : r \in Help!StopSaying(d, o)
    BY <1>2
  <2> HIDE DEF d, m
  <2>5. CASE view = "ready" /\ r \in Help!Ok(d)
    <3>1. r.c = d /\ r.out = "SUCCESS"
      BY <2>5 DEF Help!Ok, Help!Result
    <3>2. QED BY <1>a, <2>3, <2>5, <3>1 DEF Stays
  <2>6. ASSUME NEW o \in {"SKIPPED", "FATAL_FAILURE", "BLOCKED"}, r \in Help!StopSaying(d, o)
        PROVE  /\ r.out \in Outcomes /\ Stays(c, r.c) /\ r.c.h = c.h
               /\ r.c.stop # "none"
               /\ r.out # "RETRYABLE_FAILURE"
    <3>1. o \in Told \cup {"SKIPPED"}
      BY DEF Told
    <3>2. Kept(d, r.c) /\ r.c.stop = o /\ r.out = IF o = "SKIPPED" THEN "SUCCESS" ELSE o
      BY <2>3, <2>6, <3>1, StopResults DEF HelpState
    <3>3. QED BY <1>a, <2>3, <3>1, <3>2 DEF Stays, Kept, HelpState
  <2>7. QED BY <2>4, <2>5, <2>6
<1>3. QED BY <1>1, <1>2 DEF Help!DetectHelpButton, Help!Need

LEMMA PressResults ==
  ASSUME NEW c, HelpState(c), NEW r \in Help!PressHelp(c)
  PROVE  /\ r.out \in Outcomes /\ Stays(c, r.c) /\ r.c.m.seen = c.m.seen
         /\ r.out \in Successes => r.c.stop = c.stop
         /\ \/ r.c.h = c.h
            \/ /\ c.m.seen # "none"
               /\ r.c.h.acts = c.h.acts + 1 /\ r.c.h.wrong = (c.h.wrong \/ c.m.seen # "ready")
<1>a. {"SUCCESS", "BLOCKED", "FATAL_FAILURE", "RETRYABLE_FAILURE"} \subseteq Outcomes
  BY DEF Outcomes, Successes, Failures
<1>b. "BLOCKED" \in Told
  BY DEF Told
<1> DEFINE acted == Help!Act(c, c.m.seen = "ready", "button")
           pressed == [acted EXCEPT !.m.clicked = TRUE, !.m.pressed = TRUE]
           m == [acted.m EXCEPT !.clicked = TRUE, !.pressed = TRUE]
<1>1. /\ HelpState(acted) /\ acted.stop = c.stop /\ acted.m = c.m
      /\ acted.h.acts = c.h.acts + 1
      /\ acted.h.wrong = (c.h.wrong \/ ~(c.m.seen = "ready"))
  <2>1. (c.m.seen = "ready") \in BOOLEAN
    OBVIOUS
  <2>2. QED BY <2>1, ActState
<1> HIDE DEF acted
<1>2. pressed = [acted EXCEPT !.m = m] /\ m \in HelpMemory /\ m.seen = c.m.seen
  BY <1>1 DEF HelpState, HelpMemory, StateOK, StateFields
<1>3. HelpState(pressed) /\ pressed.stop = c.stop /\ pressed.h = acted.h /\ pressed.m.seen = c.m.seen
  <2> HIDE DEF pressed, m
  <2>1. QED BY <1>1, <1>2 DEF HelpState, StateOK, StateFields
<1> HIDE DEF pressed, m
<1>4. CASE r \in Help!Stop(c, "BLOCKED", "plain")
  <2>1. Kept(c, r.c) /\ r.c.stop = "BLOCKED" /\ r.out = "BLOCKED"
    BY <1>4, <1>b, StopResults DEF HelpState
  <2>2. QED BY <1>a, <1>b, <2>1, KeptStays DEF Kept, Successes
<1>5. CASE r \in Help!Raise(c)
  <2>1. r.c = c /\ r.out = "FATAL_FAILURE"
    BY <1>5 DEF Help!Raise, Help!Result
  <2>2. QED BY <1>a, <2>1 DEF Stays
<1>6. CASE c.m.seen # "none" /\ r \in Help!ActionToStep(pressed, pressed)
  <2>1. \/ r.c = pressed /\ r.out \in {"SUCCESS", "RETRYABLE_FAILURE"}
        \/ Kept(pressed, r.c) /\ r.c.stop = "BLOCKED" /\ r.out = "BLOCKED"
    BY <1>3, <1>6, ActionResults DEF HelpState
  <2>2. r.out \in Outcomes /\ r.c.h = acted.h /\ r.c.m.seen = c.m.seen
    BY <1>a, <1>3, <2>1 DEF Kept
  <2>3. Stays(c, r.c) /\ (r.out \in Successes => r.c.stop = c.stop)
    BY <1>b, <1>3, <2>1 DEF Stays, Kept, HelpState, Successes
  <2>4. QED BY <1>1, <1>6, <2>2, <2>3
<1>7. QED BY <1>4, <1>5, <1>6 DEF Help!PressHelp, Help!Need, pressed, acted

LEMMA VerifyResults ==
  ASSUME NEW c, HelpState(c), NEW r \in Help!VerifyHelpState(c)
  PROVE  /\ r.out \in Outcomes /\ Stays(c, r.c) /\ r.c.m = c.m
         /\ r.c.h.acts = c.h.acts /\ r.c.h.wrong = c.h.wrong
         /\ r.out \in Successes => r.c.h.owed = {}
         /\ r.out # "RETRYABLE_FAILURE"
<1>a. {"SUCCESS", "BLOCKED", "FATAL_FAILURE"} \subseteq Outcomes
  BY DEF Outcomes, Successes, Failures
<1> DEFINE d == Help!Verified(c, "button")
           h == [c.h EXCEPT !.owed = @ \ {"button"}, !.closed = @ \cup {"button"}]
<1>1. DOMAIN c = StateFields /\ c.h \in HelpHistory
  BY DEF HelpState, StateOK
<1>2. d = [c EXCEPT !.h = h]
  BY <1>1 DEF Help!Verified, StateFields, HelpHistory
<1>3. h \in HelpHistory /\ h.acts = c.h.acts /\ h.wrong = c.h.wrong /\ h.owed = {}
  BY <1>1 DEF HelpHistory
<1> HIDE DEF d, h
<1>4. HelpState(d) /\ d.stop = c.stop /\ d.m = c.m /\ d.h = h
  BY <1>1, <1>2, <1>3 DEF HelpState, StateOK, StateFields
<1>5. CASE r \in Help!StopSaying(c, "BLOCKED")
  <2>1. "BLOCKED" \in Told
    BY DEF Told
  <2>2. Kept(c, r.c) /\ r.c.stop = "BLOCKED" /\ r.out = "BLOCKED"
    BY <1>5, <2>1, StopResults DEF HelpState
  <2>3. QED BY <1>a, <2>1, <2>2, KeptStays DEF Kept, Successes
<1>6. CASE r \in Help!Raise(c)
  <2>1. r.c = c /\ r.out = "FATAL_FAILURE"
    BY <1>6 DEF Help!Raise, Help!Result
  <2>2. QED BY <1>a, <2>1 DEF Stays, Successes
<1>7. CASE r \in Help!Ok(d)
  <2>1. r.c = d /\ r.out = "SUCCESS"
    BY <1>7 DEF Help!Ok, Help!Result
  <2>2. QED BY <1>a, <1>3, <1>4, <2>1 DEF Stays
<1>8. QED BY <1>5, <1>6, <1>7 DEF Help!VerifyHelpState, Help!Need, d

\* What the handler of the n-th step comes to.
LEMMA HelpSteps ==
  /\ Len(Help!Steps) = 14
  /\ \A n \in 1..14 : (Help!Steps[n] \in Help!Retried => n # 8)
  /\ Help!Steps[7] = "detect_help_button" /\ Help!Steps[8] = "press_help"
  /\ Help!Steps[9] = "verify_help_state" /\ Help!Steps[10] = "complete"
  /\ Help!Steps[11] = "skipped" /\ Help!Steps[12] = "recover" /\ Help!Steps[13] = "failed"
  /\ Help!Steps[14] = "cancelled"
  /\ \A n \in 1..6 : Help!Steps[n] \in {"validate_input", "load_character", "ensure_account",
                        "ensure_character", "ensure_game_running", "normalize_help_scene"}
  BY DEF Help!Steps, Help!Retried

LEMMA HelpCases ==
  ASSUME NEW n \in 1..14, NEW c, NEW r \in Help!Handler(Help!Steps[n], c)
  PROVE  \/ r \in Help!Skip(c) /\ (n \in 7..9 => c.stop # "none")
         \/ c.stop = "none" /\ n = 7 /\ r \in Help!DetectHelpButton(c)
         \/ c.stop = "none" /\ n = 8 /\ r \in Help!PressHelp(c)
         \/ c.stop = "none" /\ n = 9 /\ r \in Help!VerifyHelpState(c)
         \/ n \in 10..13 /\ \E s \in {"complete", "skipped", "recover", "failed"} : r \in Help!Conclude(s, c)
         \/ n \in 1..6 /\ \E s : r \in Help!Opening(s, c)
<1>1. CASE n \in 1..6
  <2>1. Help!Steps[n] \in {"validate_input", "load_character", "ensure_account",
                        "ensure_character", "ensure_game_running", "normalize_help_scene"}
    BY <1>1, HelpSteps
  <2>2. r \in Help!Skip(c) \/ r \in Help!Opening(Help!Steps[n], c)
    BY <2>1 DEF Help!Handler, Help!Guarded, Help!Prepare
  <2>3. QED BY <1>1, <2>2
<1>2. CASE n = 7
  BY <1>2, HelpSteps DEF Help!Handler, Help!Guarded
<1>3. CASE n = 8
  BY <1>3, HelpSteps DEF Help!Handler, Help!Guarded
<1>4. CASE n = 9
  BY <1>4, HelpSteps DEF Help!Handler, Help!Guarded
<1>5. CASE n \in 10..13
  <2>1. Help!Steps[n] \in {"complete", "skipped", "recover", "failed"}
    BY <1>5, HelpSteps
  <2>2. r \in Help!Conclude(Help!Steps[n], c)
    BY <2>1 DEF Help!Handler, Help!Guarded, Help!Concludes
  <2>3. QED BY <1>5, <2>1, <2>2
<1>6. CASE n = 14
  BY <1>6, HelpSteps DEF Help!Handler, Help!Guarded
<1>7. QED BY <1>1, <1>2, <1>3, <1>4, <1>5, <1>6

\* The types, whatever the run remembers, and how often it acts
Typed(c, d) ==
  /\ StateOK(d) /\ d.stop \in {c.stop, "SKIPPED"} \cup Told
  /\ HistoryOK(c.h) => HistoryOK(d.h)

LEMMA MemoryTypes ==
  ASSUME NEW c, StateOK(c), NEW x, NEW d, d = [c EXCEPT !.m = x]
  PROVE  StateOK(d) /\ d.stop = c.stop /\ d.h = c.h
  BY DEF StateOK, StateFields

LEMMA HistoryTypes ==
  ASSUME NEW c, StateOK(c), NEW x, NEW d, d = [c EXCEPT !.h = x]
  PROVE  StateOK(d) /\ d.stop = c.stop /\ d.h = x
  BY DEF StateOK, StateFields

LEMMA StopTypes ==
  ASSUME NEW c, StateOK(c), NEW o \in Told \cup {"SKIPPED"},
         NEW r \in Help!StopSaying(c, o) \cup Help!Stop(c, o, "plain")
  PROVE  r.out \in Outcomes /\ Typed(c, r.c) /\ r.c.h = c.h
<1>1. Kept(c, r.c) /\ r.c.stop = o /\ r.out = IF o = "SKIPPED" THEN "SUCCESS" ELSE o
  BY StopResults
<1>2. "SUCCESS" \in Outcomes /\ Told \subseteq Outcomes
  BY DEF Outcomes, Successes, Failures, Halts, Told
<1>3. QED BY <1>1, <1>2 DEF Typed, Kept

LEMMA HelpTypes ==
  ASSUME NEW n \in 1..14, NEW c, StateOK(c), NEW r \in Help!Handler(Help!Steps[n], c)
  PROVE  /\ r.out \in Outcomes /\ Typed(c, r.c)
         /\ HistoryOK(c.h) => r.c.h.acts <= c.h.acts + (IF n = 8 THEN 1 ELSE 0)
<1> DEFINE Goal == /\ r.out \in Outcomes /\ Typed(c, r.c)
                   /\ HistoryOK(c.h) => r.c.h.acts <= c.h.acts + (IF n = 8 THEN 1 ELSE 0)
<1>a. /\ {"SUCCESS", "SKIPPED", "FATAL_FAILURE", "RETRYABLE_FAILURE", "BLOCKED"} \subseteq Outcomes
      /\ {"BLOCKED", "FATAL_FAILURE"} \subseteq Told
  BY DEF Outcomes, Successes, Failures, Told
<1>b. ASSUME r.out \in Outcomes, Typed(c, r.c), r.c.h = c.h PROVE Goal
  BY <1>b DEF HistoryOK
<1>c. ASSUME r.out \in Outcomes, Calm(c, r.c) PROVE Goal
  <2>1. Typed(c, r.c) /\ r.c.h = c.h
    BY <1>c DEF Calm, Kept, Typed
  <2>2. QED BY <1>b, <1>c, <2>1
<1>d. ASSUME r.out \in Outcomes, r.c = c PROVE Goal
  BY <1>d, <1>b DEF Typed
<1>e. ASSUME NEW o \in {"SKIPPED", "BLOCKED", "FATAL_FAILURE"},
             r \in Help!StopSaying(c, o) \cup Help!Stop(c, o, "plain")
      PROVE  Goal
  BY <1>a, <1>b, <1>e, StopTypes
<1> SUFFICES Goal
  OBVIOUS
<1> HIDE DEF Goal
<1>1. CASE r \in Help!Skip(c) \/ r \in Help!Raise(c)
  <2>1. r.c = c /\ r.out \in {"SKIPPED", "FATAL_FAILURE"}
    BY <1>1 DEF Help!Skip, Help!Raise, Help!Result
  <2>2. QED BY <1>a, <1>d, <2>1
<1>2. CASE r \in Help!DetectHelpButton(c)
  <2>1. CASE r \in Help!Raise(c)
    BY <1>1, <2>1
  <2>2. ASSUME NEW view \in Help!Views,
               r \in LET d == [c EXCEPT !.m.seen = view] IN
                       CASE view = "ready" -> Help!Ok(d)
                         [] view = "not_ready" -> Help!StopSaying(d, "SKIPPED")
                         [] view = "verification" -> Help!StopSaying(d, "FATAL_FAILURE")
                         [] OTHER -> Help!StopSaying(d, "BLOCKED")
        PROVE  Goal
    <3> DEFINE d == [c EXCEPT !.m.seen = view]
    <3>1. d = [c EXCEPT !.m = [c.m EXCEPT !.seen = view]]
      BY DEF StateOK, StateFields
    <3>2. \/ r \in Help!Ok(d)
          \/ \E o \in {"SKIPPED", "FATAL_FAILURE", "BLOCKED"} : r \in Help!StopSaying(d, o)
      BY <2>2
    <3> HIDE DEF d
    <3>3. StateOK(d) /\ d.stop = c.stop /\ d.h = c.h
      BY <3>1, MemoryTypes
    <3>4. CASE r \in Help!Ok(d)
      <4>1. r.c = d /\ r.out = "SUCCESS"
        BY <3>4 DEF Help!Ok, Help!Result
      <4>2. QED BY <1>a, <1>b, <3>3, <4>1 DEF Typed
    <3>5. ASSUME NEW o \in {"SKIPPED", "FATAL_FAILURE", "BLOCKED"}, r \in Help!StopSaying(d, o)
          PROVE  Goal
      <4>1. o \in Told \cup {"SKIPPED"}
        BY <1>a
      <4>2. r.out \in Outcomes /\ Typed(d, r.c) /\ r.c.h = d.h
        BY <3>3, <3>5, <4>1, StopTypes
      <4>3. QED BY <1>b, <3>3, <4>2 DEF Typed
    <3>6. QED BY <3>2, <3>4, <3>5
  <2>3. QED BY <1>2, <2>1, <2>2 DEF Help!DetectHelpButton, Help!Need
<1>3. CASE n = 8 /\ r \in Help!PressHelp(c)
  <2> DEFINE acted == Help!Act(c, c.m.seen = "ready", "button")
             pressed == [acted EXCEPT !.m.clicked = TRUE, !.m.pressed = TRUE]
             h == [c.h EXCEPT !.acts = @ + 1, !.owed = @ \cup {"button"}, !.wrong = @ \/ ~(c.m.seen = "ready")]
             m == [acted.m EXCEPT !.clicked = TRUE, !.pressed = TRUE]
  <2>1. acted = [c EXCEPT !.h = h]
    BY DEF StateOK, StateFields, Help!Act
  <2>2. HistoryOK(c.h) => HistoryOK(h) /\ h.acts = c.h.acts + 1
    BY DEF HistoryOK, NoHistory
  <2>3. /\ r \in Help!Stop(c, "BLOCKED", "plain") \/ r \in Help!Raise(c)
           \/ r \in Help!ActionToStep(pressed, pressed)
    BY <1>3 DEF Help!PressHelp, Help!Need
  <2> HIDE DEF h
  <2>4. StateOK(acted) /\ acted.stop = c.stop /\ acted.h = h
    <3> HIDE DEF acted
    <3>1. QED BY <2>1, HistoryTypes
  <2> HIDE DEF acted
  <2>5. pressed = [acted EXCEPT !.m = m]
    BY <2>4 DEF StateOK, StateFields
  <2> HIDE DEF pressed, m
  <2>6. StateOK(pressed) /\ pressed.stop = c.stop /\ pressed.h = h
    BY <2>4, <2>5, MemoryTypes
  <2>7. CASE r \in Help!ActionToStep(pressed, pressed)
    <3>1. /\ r.out \in {"SUCCESS", "RETRYABLE_FAILURE", "BLOCKED"}
          /\ StateOK(r.c) /\ r.c.stop \in {c.stop, "BLOCKED"} /\ r.c.h = h
      BY <2>6, <2>7, ActionResults DEF Kept
    <3>2. HistoryOK(c.h) => c.h.acts + 1 <= c.h.acts + 1 /\ c.h.acts \in Nat
      BY DEF HistoryOK
    <3>3. QED BY <1>3, <1>a, <2>2, <3>1, <3>2 DEF Goal, Typed
  <2>8. QED BY <1>1, <1>e, <2>3, <2>7
<1>4. CASE r \in Help!VerifyHelpState(c)
  <2> DEFINE d == Help!Verified(c, "button")
             h == [c.h EXCEPT !.owed = @ \ {"button"}, !.closed = @ \cup {"button"}]
  <2>1. d = [c EXCEPT !.h = h]
    BY DEF StateOK, StateFields, Help!Verified
  <2>2. HistoryOK(c.h) => HistoryOK(h) /\ h.acts = c.h.acts /\ c.h.acts \in Nat
    BY DEF HistoryOK, NoHistory
  <2>3. r \in Help!Raise(c) \/ r \in Help!Ok(d) \/ r \in Help!StopSaying(c, "BLOCKED")
    BY <1>4 DEF Help!VerifyHelpState, Help!Need
  <2> HIDE DEF d, h
  <2>4. CASE r \in Help!Ok(d)
    <3>1. r.c = d /\ r.out = "SUCCESS"
      BY <2>4 DEF Help!Ok, Help!Result
    <3>2. StateOK(d) /\ d.stop = c.stop /\ d.h = h
      BY <2>1, HistoryTypes
    <3>3. Typed(c, d)
      BY <2>2, <3>2 DEF Typed
    <3>4. HistoryOK(c.h) => d.h.acts <= c.h.acts + (IF n = 8 THEN 1 ELSE 0)
      BY <2>2, <3>2
    <3>5. QED BY <1>a, <3>1, <3>3, <3>4 DEF Goal
  <2>5. QED BY <1>1, <1>e, <2>3, <2>4
<1>5. CASE \E s \in {"complete", "skipped", "recover", "failed"} : r \in Help!Conclude(s, c)
  BY <1>5, <1>c, ConcludeResults
<1>6. CASE \E s : r \in Help!Opening(s, c)
  BY <1>6, <1>c, OpeningResults
<1>7. QED BY HelpCases, <1>1, <1>2, <1>3, <1>4, <1>5, <1>6

LEMMA HelpKeepsTypes ==
  ASSUME \A w \in Tasks : RunsHelp(w)
  PROVE  HandlersKeepTypes /\ StopsAreTold /\ ActsAreBudgeted
<1>a. \A w \in Tasks : /\ StepsOf(w) = Help!Steps /\ Len(StepsOf(w)) = 14
                       /\ RetriedOf(w) = Help!Retried
                       /\ ReportOf(w) = Help!Report /\ ActLimitOf(w) = Help!ActLimit
  BY HelpSteps DEF RunsHelp
<1>b. \A w \in Tasks : \A n \in 1..14 : \A c :
        HandlerOf(w, StepsOf(w)[n], c) = Help!Handler(Help!Steps[n], c)
  BY DEF RunsHelp
<1>1. HandlersKeepTypes
  <2> SUFFICES ASSUME NEW w \in Tasks, NEW n \in 1..Len(StepsOf(w)), NEW c, StateOK(c),
                      NEW r \in HandlerOf(w, StepsOf(w)[n], c)
               PROVE  r.out \in Outcomes /\ StateOK(r.c)
    BY DEF HandlersKeepTypes
  <2>1. n \in 1..14 /\ r \in Help!Handler(Help!Steps[n], c)
    BY <1>a, <1>b
  <2>2. QED BY <2>1, HelpTypes DEF Typed
<1>2. StopsAreTold
  <2>1. \A w \in Tasks : ReportOf(w).overrides = {"SKIPPED", "BLOCKED"}
    BY <1>a DEF Help!Report, Help!UsualReport
  <2> SUFFICES ASSUME NEW w \in Tasks, NEW n \in 1..Len(StepsOf(w)), NEW c, StateOK(c),
                      c.stop \in Stops(w), NEW r \in HandlerOf(w, StepsOf(w)[n], c)
               PROVE  r.c.stop \in Stops(w)
    BY DEF StopsAreTold
  <2>2. n \in 1..14 /\ r \in Help!Handler(Help!Steps[n], c)
    BY <1>a, <1>b
  <2>3. r.c.stop \in {c.stop, "SKIPPED"} \cup Told
    BY <2>2, HelpTypes DEF Typed
  <2>4. QED BY <2>1, <2>3 DEF Stops
<1>3. ActsAreBudgeted
  <2> DEFINE cost == [n \in 1..14 |-> IF n = 8 THEN 1 ELSE 0]
             before == [n \in 1..15 |-> IF n <= 8 THEN 0 ELSE 1]
  <2>1. cost \in [1..14 -> Nat] /\ before \in [1..15 -> Nat]
    OBVIOUS
  <2>2. \A n \in 1..14 : cost[n] = (IF n = 8 THEN 1 ELSE 0) /\ before[n + 1] = (IF n < 8 THEN 0 ELSE 1)
                         /\ before[n] = (IF n <= 8 THEN 0 ELSE 1)
    OBVIOUS
  <2>3. \A n \in 1..15 : before[n] <= 1
    OBVIOUS
  <2> HIDE DEF cost, before
  <2> SUFFICES ASSUME NEW w \in Tasks PROVE StepCosts(w, cost) /\ Budgets(w, cost, before)
    BY DEF ActsAreBudgeted
  <2>4. StepCosts(w, cost)
    <3> SUFFICES ASSUME NEW n \in 1..14, NEW c, StateOK(c), HistoryOK(c.h),
                        NEW r \in Help!Handler(Help!Steps[n], c)
                 PROVE  HistoryOK(r.c.h) /\ r.c.h.acts <= c.h.acts + cost[n]
      BY <1>a, <1>b DEF StepCosts
    <3>1. QED BY <2>2, HelpTypes DEF Typed
  <2>5. Budgets(w, cost, before)
    <3>1. ActLimitOf(w) = 1 /\ Len(StepsOf(w)) = 14
      BY <1>a DEF Help!ActLimit
    <3>2. \A n \in 1..14 : StepsOf(w)[n] \in RetriedOf(w) => n # 8
      BY <1>a, HelpSteps
    <3>3. \A n \in 1..14 :
            before[n] + cost[n] + (IF StepsOf(w)[n] \in RetriedOf(w) THEN cost[n] ELSE 0) <= before[n + 1]
      BY <2>2, <3>2
    <3>4. QED BY <2>1, <2>3, <3>1, <3>3 DEF Budgets
  <2>6. QED BY <2>4, <2>5
<1>4. QED BY <1>1, <1>2, <1>3

\* What a help run may have seen, and done to the game
LEMMA HelpHandler ==
  ASSUME NEW n \in 1..14, NEW c, HelpState(c), NEW r \in Help!Handler(Help!Steps[n], c)
  PROVE  /\ r.out \in Outcomes /\ Stays(c, r.c)
         /\ n \notin {8, 9} => r.c.h = c.h
         /\ n = 8 => \/ r.c.h = c.h
                     \/ /\ c.stop = "none" /\ c.m.seen # "none"
                        /\ r.c.h.wrong = (c.h.wrong \/ c.m.seen # "ready")
         /\ n = 8 /\ r.out \in Successes => r.c.stop = c.stop
         /\ n >= 8 => r.c.m.seen = c.m.seen
         /\ n = 7 /\ r.out \in Successes /\ r.c.stop = "none" => r.c.m.seen = "ready"
         /\ n = 9 /\ c.stop # "none" => r.c.h = c.h
         /\ n = 9 => r.c.h.wrong = c.h.wrong /\ r.out # "RETRYABLE_FAILURE"
         /\ n = 9 /\ c.stop = "none" /\ r.out \in Successes => r.c.h.owed = {}
<1>a. Stays(c, c) /\ "SKIPPED" \in Outcomes
  BY DEF Stays, Outcomes, Successes
<1>b. ASSUME NEW d, Calm(c, d) PROVE Stays(c, d) /\ d.h = c.h /\ d.m = c.m
  BY <1>b, KeptStays DEF Calm, Kept
<1>1. CASE r \in Help!Skip(c) /\ (n \in 7..9 => c.stop # "none")
  <2>1. r.c = c /\ r.out = "SKIPPED"
    BY <1>1 DEF Help!Skip, Help!Result
  <2>2. QED BY <1>1, <1>a, <2>1
<1>2. CASE c.stop = "none" /\ n = 7 /\ r \in Help!DetectHelpButton(c)
  BY <1>2, DetectResults
<1>3. CASE c.stop = "none" /\ n = 8 /\ r \in Help!PressHelp(c)
  BY <1>3, PressResults
<1>4. CASE c.stop = "none" /\ n = 9 /\ r \in Help!VerifyHelpState(c)
  BY <1>4, VerifyResults
<1>5. CASE n \in 10..13 /\ \E s \in {"complete", "skipped", "recover", "failed"} : r \in Help!Conclude(s, c)
  <2>1. r.out \in Outcomes /\ Calm(c, r.c)
    BY <1>5, ConcludeResults DEF HelpState
  <2>2. QED BY <1>5, <1>b, <2>1
<1>6. CASE n \in 1..6 /\ \E s : r \in Help!Opening(s, c)
  <2>1. r.out \in Outcomes /\ Calm(c, r.c)
    BY <1>6, OpeningResults DEF HelpState
  <2>2. QED BY <1>6, <1>b, <2>1
<1>7. QED BY HelpCases, <1>1, <1>2, <1>3, <1>4, <1>5, <1>6

\* While something is done and not verified, the run is at the step that verifies it,
\* or it failed.
Owing ==
  /\ pc \in {"step", "acting"} => at = 9 /\ ctx.stop = "none"
  /\ pc = "idle" => row # Active
  /\ pc = "finish" => res \in Failures
  /\ pc \in {"record", "incident", "update"} => res # "SUCCESS"
  /\ row # Active => row.outcome # "SUCCESS"
  /\ answer # "SUCCESS"

HelpInv ==
  /\ HelpState(ctx) /\ ~ctx.h.wrong
  /\ mark \in {"absent", "marked"} \cup Failures
  /\ pc \in {"step", "acting"} /\ at >= 8 /\ ctx.stop = "none" => ctx.m.seen \in {"none", "ready"}
  /\ crashes = 0 /\ ctx.h.owed # {} => Owing

LEMMA FreshHelp ==
  ASSUME NEW h \in HelpHistory
  PROVE  /\ HelpState(FreshState(Help!Memory, h)) /\ FreshState(Help!Memory, h).stop = "none"
         /\ FreshState(Help!Memory, h).m.seen = "none" /\ FreshState(Help!Memory, h).h = h
<1>1. Help!Memory \in HelpMemory /\ Help!Memory.seen = "none"
  BY DEF Help!Memory, HelpMemory
<1>2. QED BY <1>1, FreshOK DEF HelpState, FreshState

LEMMA HelpInit ==
  ASSUME \A w \in Tasks : RunsHelp(w), Init
  PROVE  HelpInv
<1>1. NoHistory \in HelpHistory /\ NoHistory.owed = {} /\ ~NoHistory.wrong
  BY DEF NoHistory, HelpHistory
<1>2. ctx = FreshState(Help!Memory, NoHistory)
  BY DEF Init, RunsHelp
<1>3. QED BY <1>1, <1>2, FreshHelp DEF Init, HelpInv

\* What an attempt comes to, budget and raising drivers included.
LEMMA HelpResults ==
  ASSUME RunsHelp(task), TypeInv, HelpInv, pc = "acting", NEW r \in Results
  PROVE  /\ r.out \in Outcomes /\ HelpState(r.c) /\ ~r.c.h.wrong
         /\ r.c.stop = "none" => ctx.stop = "none"
         /\ at >= 8 => r.c.m.seen = ctx.m.seen
         /\ at = 7 /\ r.out \in Successes /\ r.c.stop = "none" => r.c.m.seen = "ready"
         /\ at \notin {8, 9} => r.c.h = ctx.h
         /\ at = 8 /\ r.out \in Successes => r.c.stop = ctx.stop
         /\ at \in {8, 9} /\ ctx.stop # "none" => r.c.h = ctx.h
         /\ at = 9 => r.out # "RETRYABLE_FAILURE"
         /\ at = 9 /\ ctx.stop = "none" /\ r.out \in Successes => r.c.h.owed = {}
<1>a. at \in 1..14 /\ HandlerOf(task, Step, ctx) = Help!Handler(Help!Steps[at], ctx)
  BY HelpSteps DEF RunsHelp, TypeInv, PlaceOK, Step
<1>b. HelpState(ctx) /\ ~ctx.h.wrong
  BY DEF HelpInv
<1>c. {"BLOCKED", "FATAL_FAILURE"} \subseteq Outcomes \ Successes
  BY DEF Outcomes, Successes, Failures
<1>1. ASSUME NEW q \in Help!Handler(Help!Steps[at], ctx)
      PROVE  ~q.c.h.wrong /\ HelpState(q.c) /\ q.c.h \in HelpHistory
  <2>1. HelpState(q.c) /\ q.c.h \in HelpHistory
    BY <1>a, <1>b, <1>1, HelpHandler DEF Stays, HelpState
  <2>2. CASE at = 8 /\ q.c.h # ctx.h
    <3>1. ctx.stop = "none" /\ ctx.m.seen # "none" /\ q.c.h.wrong = (ctx.h.wrong \/ ctx.m.seen # "ready")
      BY <1>a, <1>b, <1>1, <2>2, HelpHandler
    <3>2. ctx.m.seen = "ready"
      BY <2>2, <3>1 DEF HelpInv
    <3>3. QED BY <1>b, <2>1, <3>1, <3>2
  <2>3. CASE at = 9
    BY <1>a, <1>b, <1>1, <2>1, <2>3, HelpHandler
  <2>4. CASE at # 9 /\ (at = 8 => q.c.h = ctx.h)
    BY <1>a, <1>b, <1>1, <2>1, <2>4, HelpHandler
  <2>5. QED BY <2>2, <2>3, <2>4
<1>2. CASE r \in HandlerOf(task, Step, ctx)
  BY <1>a, <1>b, <1>1, <1>2, HelpHandler DEF Stays
<1>3. CASE r = Result("BLOCKED", ctx)
  <2>1. r.c = ctx /\ r.out = "BLOCKED"
    BY <1>3 DEF Result
  <2>2. QED BY <1>b, <1>c, <2>1
<1>4. CASE \E q \in HandlerOf(task, Step, ctx) : r = Result("FATAL_FAILURE", [ctx EXCEPT !.h = q.c.h])
  <2>1. PICK q \in Help!Handler(Help!Steps[at], ctx) : r = Result("FATAL_FAILURE", [ctx EXCEPT !.h = q.c.h])
    BY <1>a, <1>4
  <2> DEFINE d == [ctx EXCEPT !.h = q.c.h]
  <2>2. q.c.h \in HelpHistory /\ ~q.c.h.wrong
    BY <1>1
  <2>3. /\ r.c = d /\ r.out = "FATAL_FAILURE" /\ d.h = q.c.h
        /\ d.m = ctx.m /\ d.stop = ctx.stop /\ StateOK(d)
    BY <1>b, <2>1 DEF Result, HelpState, StateOK, StateFields
  <2> HIDE DEF d
  <2>4. HelpState(d)
    BY <1>b, <2>2, <2>3 DEF HelpState
  <2>5. /\ at \notin {8, 9} => q.c.h = ctx.h
        /\ at \in {8, 9} /\ ctx.stop # "none" => q.c.h = ctx.h
    BY <1>a, <1>b, HelpHandler
  <2>6. QED BY <1>c, <2>2, <2>3, <2>4, <2>5
<1>5. QED BY <1>2, <1>3, <1>4 DEF Results

LEMMA HelpStep ==
  ASSUME RunsHelp(task), TypeInv, HelpInv, [Next]_vars
  PROVE  HelpInv'
<1>a. /\ HelpState(ctx) /\ ctx.h \in HelpHistory /\ StateOK(ctx) /\ ~ctx.h.wrong
      /\ MemoryOf(task) = Help!Memory /\ Len(StepsOf(task)) = 14
      /\ ReportOf(task).overrides = {"SKIPPED", "BLOCKED"}
      /\ at \in 1..15 /\ attempt \in 1..2 /\ crashes \in Nat
      /\ mark \in {"absent", "marked"} \cup Failures
  BY HelpSteps DEF HelpInv, HelpState, RunsHelp, Help!Report, Help!UsualReport, TypeInv, PlaceOK, FlagsOK
<1>b. "SUCCESS" \notin Failures /\ "BLOCKED" \in Failures /\ Halts \subseteq Failures
  BY DEF Failures, Halts
<1>c. /\ pc # "idle" => answer = "none"
      /\ pc \in {"step", "acting", "finish"} => row = Active
  BY DEF TypeInv, StageInv
<1>d. Help!Memory \in HelpMemory /\ Help!Memory.seen = "none"
  BY DEF Help!Memory, HelpMemory
<1>1. CASE Execute
  <2>1. ctx' = FreshState(Help!Memory, ctx.h)
    BY <1>1, <1>a DEF Execute
  <2>2. HelpState(ctx') /\ ctx'.stop = "none" /\ ctx'.m.seen = "none" /\ ctx'.h = ctx.h
    BY <1>a, <2>1, FreshHelp
  <2>3. ASSUME crashes' = 0, ctx'.h.owed # {} PROVE Owing'
    <3>1. Owing /\ row # Active
      BY <1>1, <2>2, <2>3 DEF Execute, HelpInv, Owing
    <3>2. /\ pc' = "record" /\ res' = row.outcome /\ row' = row /\ answer' = "none"
      BY <1>1, <3>1 DEF Execute, Resumes
    <3>3. QED BY <3>1, <3>2 DEF Owing
  <2>4. QED BY <1>1, <1>a, <2>2, <2>3 DEF HelpInv, Execute
<1>2. CASE NextStep
  <2>1. /\ pc = "step" /\ pc' = "finish" /\ UNCHANGED <<ctx, row, at, mark, answer, crashes>>
        /\ at <= 14 => res' \in Failures
    <3>1. ASSUME mark # "absent" PROVE (IF mark = "marked" THEN "BLOCKED" ELSE mark) \in Failures
      BY <1>a, <1>b, <3>1
    <3>2. QED BY <1>2, <1>a, <1>b, <3>1 DEF NextStep, Ends
  <2>2. ASSUME crashes' = 0, ctx'.h.owed # {} PROVE Owing'
    <3>1. Owing
      BY <2>1, <2>2 DEF HelpInv
    <3>2. at = 9 /\ row = Active /\ answer = "none"
      BY <1>c, <2>1, <3>1 DEF Owing
    <3>3. QED BY <1>b, <2>1, <3>2 DEF Owing, Active
  <2>3. QED BY <1>a, <2>1, <2>2 DEF HelpInv
<1>3. CASE BeginAttempt
  <2>1. /\ pc = "step" /\ pc' = "acting" /\ UNCHANGED <<ctx, row, at, res, answer, crashes>>
        /\ mark' \in {"marked", mark}
    BY <1>3 DEF BeginAttempt
  <2>2. QED BY <1>a, <2>1 DEF HelpInv, Owing
<1>4. CASE StepReturns
  <2>1. PICK r \in Results, halt \in Halts \cup {"none"} :
          LET outcome == IF halt = "none" THEN r.out ELSE halt IN
            /\ ctx' = Reported(r.c)
            /\ got' = (got \/ outcome = "SUCCESS")
            /\ \/ /\ outcome \in Successes
                  /\ at' = Following(outcome) /\ mark' = "absent" /\ attempt' = 1
                  /\ pc' = "step"
                  /\ UNCHANGED res
               \/ /\ outcome = "RETRYABLE_FAILURE" /\ attempt < Attempts
                  /\ attempt' = attempt + 1
                  /\ mark' = IF attempt = 1 THEN outcome ELSE mark
                  /\ pc' = "step"
                  /\ UNCHANGED <<at, res>>
               \/ /\ outcome \in Failures
                  /\ outcome # "RETRYABLE_FAILURE" \/ attempt = Attempts
                  /\ mark' = IF attempt = 1 THEN outcome ELSE mark
                  /\ Ends(outcome)
                  /\ UNCHANGED <<at, attempt>>
    BY <1>4 DEF StepReturns
  <2>2. pc = "acting" /\ UNCHANGED <<row, answer, crashes>>
    BY <1>4 DEF StepReturns
  <2> DEFINE outcome == IF halt = "none" THEN r.out ELSE halt
  <2>3. outcome \in Successes \cup {"RETRYABLE_FAILURE"} => r.out = outcome
    BY DEF Successes, Halts
  <2>4. /\ ctx' = Reported(r.c)
        /\ \/ outcome \in Successes /\ at' = at + 1 /\ mark' = "absent" /\ pc' = "step"
           \/ /\ outcome = "RETRYABLE_FAILURE" /\ attempt < Attempts /\ pc' = "step" /\ at' = at
              /\ mark' \in {outcome, mark}
           \/ /\ outcome \in Failures /\ pc' = "finish" /\ res' = outcome /\ at' = at
              /\ mark' \in {outcome, mark}
    BY <2>1 DEF Following, Ends
  <2> HIDE DEF outcome
  <2>a. r \in Results
    OBVIOUS
  <2> DEFINE c == r.c
             out == r.out
  <2>5. /\ HelpState(c) /\ StateOK(c) /\ c.m \in HelpMemory /\ c.h \in HelpHistory /\ ~c.h.wrong
        /\ c.stop = "none" => ctx.stop = "none"
        /\ at >= 8 => c.m.seen = ctx.m.seen
        /\ at = 7 /\ out \in Successes /\ c.stop = "none" => c.m.seen = "ready"
        /\ at \notin {8, 9} => c.h = ctx.h
        /\ at = 8 /\ out \in Successes => c.stop = ctx.stop
        /\ at \in {8, 9} /\ ctx.stop # "none" => c.h = ctx.h
        /\ at = 9 => out # "RETRYABLE_FAILURE"
        /\ at = 9 /\ ctx.stop = "none" /\ out \in Successes => c.h.owed = {}
    BY <2>2, HelpResults DEF HelpState
  <2>6. (outcome \in Successes \cup {"RETRYABLE_FAILURE"} => out = outcome) /\ ctx' = Reported(c)
    BY <2>3, <2>4
  <2> HIDE DEF c, out
  <2>7. /\ StateOK(ctx') /\ ctx'.stop = c.stop /\ ctx'.h = c.h /\ ctx'.m \in {c.m, Help!Memory}
        /\ c.stop = "none" => ctx'.m = c.m
    BY <1>a, <2>5, <2>6, ReportedOK
  <2>8. HelpState(ctx') /\ ~ctx'.h.wrong
    BY <1>d, <2>5, <2>7 DEF HelpState
  <2>9. mark' \in {"absent", "marked"} \cup Failures
    <3>1. "RETRYABLE_FAILURE" \in Failures
      BY DEF Failures
    <3>2. QED BY <1>a, <2>4, <3>1
  <2>10. ASSUME pc' \in {"step", "acting"}, at' >= 8, ctx'.stop = "none"
         PROVE  ctx'.m.seen \in {"none", "ready"}
    <3>1. ctx.stop = "none" /\ c.stop = "none" /\ ctx'.m = c.m
      BY <2>5, <2>7, <2>10
    <3>2. CASE at >= 8
      BY <2>2, <2>5, <3>1, <3>2 DEF HelpInv
    <3>3. CASE at = 7
      <4>1. outcome \in Successes
        BY <1>a, <2>4, <2>10, <3>3
      <4>2. QED BY <2>5, <2>6, <3>1, <3>3, <4>1
    <3>4. QED BY <1>a, <2>4, <2>10, <3>2, <3>3
  <2>11. ASSUME crashes' = 0, ctx'.h.owed # {} PROVE Owing'
    <3>1. row' = Active /\ answer' = "none"
      BY <1>c, <2>2
    <3>2. CASE outcome \in Failures /\ pc' = "finish" /\ res' = outcome
      BY <3>1, <3>2 DEF Owing
    <3>3. CASE pc' = "step"
      <4>1. at' = 9 /\ ctx'.stop = "none"
        <5>1. ASSUME ctx.h.owed # {} PROVE at = 9 /\ ctx.stop = "none"
          BY <2>2, <2>11, <5>1 DEF HelpInv, Owing
        <5>2. at = 8 \/ at = 9
          BY <2>5, <2>7, <2>11, <5>1
        <5>3. CASE at = 9
          <6>1. outcome \in Successes \/ outcome = "RETRYABLE_FAILURE"
            BY <2>4, <3>3
          <6>2. CASE ctx.stop = "none"
            BY <2>5, <2>6, <2>7, <2>11, <5>3, <6>1, <6>2
          <6>3. CASE ctx.stop # "none"
            <7>1. ctx.h.owed = {}
              BY <5>1, <6>3
            <7>2. QED BY <2>5, <2>7, <2>11, <5>3, <6>3, <7>1
          <6>4. QED BY <6>2, <6>3
        <5>4. CASE at = 8
          <6>1. ctx.stop = "none"
            BY <2>5, <2>7, <2>11, <5>1, <5>4
          <6>2. outcome \in Successes
            <7>1. Attempts = 1
              BY <5>4, HelpSteps DEF Attempts, Step, RunsHelp
            <7>2. QED BY <1>a, <2>4, <3>3, <7>1
          <6>3. at' = 9
            <7>1. outcome # "RETRYABLE_FAILURE" /\ outcome \notin Failures
              BY <6>2 DEF Successes, Failures, Halts
            <7>2. QED BY <2>4, <5>4, <7>1
          <6>4. QED BY <2>5, <2>6, <2>7, <5>4, <6>1, <6>2, <6>3
        <5>5. QED BY <5>2, <5>3, <5>4
      <4>2. QED BY <3>1, <3>3, <4>1 DEF Owing
    <3>4. QED BY <2>4, <3>2, <3>3
  <2>12. QED BY <2>8, <2>9, <2>10, <2>11 DEF HelpInv
<1>5. CASE FinishRun
  <2>1. PICK halt \in Halts \cup {"none"} :
          LET outcome == IF halt = "none" THEN res ELSE halt IN res' = outcome /\ row' = Settled(outcome)
    BY <1>5 DEF FinishRun
  <2>2. pc = "finish" /\ pc' = "record" /\ UNCHANGED <<ctx, at, mark, answer, crashes>>
    BY <1>5 DEF FinishRun
  <2>3. ASSUME crashes' = 0, ctx'.h.owed # {} PROVE Owing'
    <3>1. res \in Failures /\ answer = "none"
      BY <1>c, <2>2, <2>3 DEF HelpInv, Owing
    <3>2. res' \in Failures /\ row'.outcome = res'
      BY <1>b, <2>1, <3>1 DEF Settled
    <3>3. QED BY <1>b, <2>2, <3>1, <3>2 DEF Owing
  <2>4. QED BY <1>a, <2>2, <2>3 DEF HelpInv
<1>6. CASE RecordFailure \/ OpenIncident
  <2>1. /\ UNCHANGED <<row, mark, at, res, answer, crashes>>
        /\ pc \in {"record", "incident"} /\ pc' \in {"incident", "update"}
    BY <1>6 DEF RecordFailure, OpenIncident
  <2>2. StateOK(ctx') /\ ctx'.h = ctx.h /\ ctx'.m \in {ctx.m, MemoryOf(task)}
    <3>1. CASE RecordFailure
      BY <3>1, RecordFailureState
    <3>2. CASE OpenIncident
      <4>1. PICK flag \in BOOLEAN : ctx' = [ctx EXCEPT !.incident = flag]
        BY <3>2, <1>a DEF OpenIncident, StateOK
      <4>2. QED BY <1>a, <4>1 DEF StateOK, StateFields
    <3>3. QED BY <1>6, <3>1, <3>2
  <2>3. HelpState(ctx')
    BY <1>a, <1>d, <2>2 DEF HelpState
  <2>4. QED BY <1>a, <2>1, <2>2, <2>3 DEF HelpInv, Owing
<1>7. CASE UpdateRun
  <2>1. /\ pc = "update" /\ pc' = "idle" /\ answer' = Outcome /\ row'.outcome = Outcome
        /\ UNCHANGED <<mark, at, crashes>> /\ ctx' = FreshState(Help!Memory, ctx.h)
    BY <1>7, <1>a DEF UpdateRun
  <2>2. HelpState(ctx') /\ ctx'.h = ctx.h
    BY <1>a, <2>1, FreshHelp
  <2>3. ASSUME crashes' = 0, ctx'.h.owed # {} PROVE Owing'
    <3>1. res # "SUCCESS"
      BY <2>1, <2>2, <2>3 DEF HelpInv, Owing
    <3>2. Outcome # "SUCCESS"
      BY <1>a, <3>1 DEF Outcome
    <3>3. row' # Active
      <4>1. ReportOf(task).settles
        BY DEF RunsHelp, Help!Report, Help!UsualReport
      <4>2. row'.status # "active"
        BY <1>7, <4>1 DEF UpdateRun, SettledStatus
      <4>3. QED BY <4>2 DEF Active
    <3>4. QED BY <2>1, <3>2, <3>3 DEF Owing
  <2>4. QED BY <1>a, <2>1, <2>2, <2>3 DEF HelpInv
<1>8. CASE Crash
  <2>1. /\ pc' = "idle" /\ crashes' # 0 /\ mark' = mark
        /\ \E h \in {ctx.h} \cup (IF pc = "acting" THEN {r.c.h : r \in Results} ELSE {}) :
             ctx' = FreshState(Help!Memory, h)
    BY <1>8, <1>a DEF Crash
  <2>2. PICK h \in {ctx.h} \cup (IF pc = "acting" THEN {r.c.h : r \in Results} ELSE {}) :
          ctx' = FreshState(Help!Memory, h)
    BY <2>1
  <2>3. h \in HelpHistory /\ ~h.wrong
    <3>1. ASSUME pc = "acting", NEW r \in Results PROVE r.c.h \in HelpHistory /\ ~r.c.h.wrong
      BY <3>1, HelpResults DEF HelpState
    <3>2. QED BY <1>a, <2>2, <3>1
  <2>4. HelpState(ctx') /\ ctx'.h = h
    BY <2>2, <2>3, FreshHelp
  <2>5. QED BY <1>a, <2>1, <2>3, <2>4 DEF HelpInv
<1>9. CASE UNCHANGED vars
  BY <1>9 DEF vars, HelpInv, Owing
<1>10. QED BY <1>1, <1>2, <1>3, <1>4, <1>5, <1>6, <1>7, <1>8, <1>9 DEF Next, ExecuteStep

LEMMA HelpInvariant == (\A w \in Tasks : RunsHelp(w)) => (Spec => []HelpInv)
<1> SUFFICES ASSUME \A w \in Tasks : RunsHelp(w) PROVE Spec => []HelpInv
  OBVIOUS
<1>1. Init => HelpInv
  BY HelpInit
<1>2. TypeInv /\ HelpInv /\ [Next]_vars => HelpInv'
  <2>1. TypeInv => RunsHelp(task)
    BY DEF TypeInv, StageInv
  <2>2. QED BY <2>1, HelpStep
<1>3. Spec => []TypeInv
  BY HelpKeepsTypes, TypeInvariant
<1>4. QED BY <1>1, <1>2, <1>3, PTL DEF Spec

\* Alliance help is one of the workflows the theorems above are about: it keeps its
\* types, reports its failures, presses at most once for a run_key, and does nothing
\* more once its row is settled (alliance_help_workflow.py).
THEOREM HelpPressesOnce ==
  (\A w \in Tasks : RunsHelp(w)) =>
    (Spec => [](TypeOK /\ FailureIsReported /\ ActsAreBounded) /\ SettledNeverActs)
<1> SUFFICES ASSUME \A w \in Tasks : RunsHelp(w)
             PROVE  Spec => [](TypeOK /\ FailureIsReported /\ ActsAreBounded) /\ SettledNeverActs
  OBVIOUS
<1>1. HandlersKeepTypes /\ StopsAreTold /\ ActsAreBudgeted
  BY HelpKeepsTypes
<1>2. Spec => []TypeOK /\ []FailureIsReported /\ []ActsAreBounded /\ SettledNeverActs
  BY <1>1, RunTypeCorrect, FailuresAreReported, ActsStayBounded, SettledRunsRest
<1>3. QED BY <1>2, PTL

\* It presses only a button its detector called ready since the run's last restart: a
\* resumed run past the detection has no view and fails (press_help).
THEOREM HelpPressesWhatItSaw == (\A w \in Tasks : RunsHelp(w)) => (Spec => []ActsAreAllowed)
<1>1. HelpInv => ActsAreAllowed
  BY DEF HelpInv, ActsAreAllowed
<1>2. QED BY <1>1, HelpInvariant, PTL

\* If it answers SUCCESS without a restart, what it pressed was seen to be dealt with
\* (verify_help_state), also when the settled run is only reported again.
THEOREM HelpVerifiesItsPress == (\A w \in Tasks : RunsHelp(w)) => (Spec => []SuccessIsVerified)
<1>1. HelpInv => SuccessIsVerified
  BY DEF HelpInv, Owing, SuccessIsVerified
<1>2. QED BY <1>1, HelpInvariant, PTL
=============================================================================
