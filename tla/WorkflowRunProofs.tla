-------------------------- MODULE WorkflowRunProofs --------------------------
(***************************************************************************)
(* The engine's write-ahead discipline for any workflow, any budget and    *)
(* any number of faults: no attempt of a step invokes its action twice,    *)
(* because the action is only reached through a row marked for it, and no  *)
(* marked row is ever taken back to an unmarked one.  Then what the rows   *)
(* say: a success was verified; what is settled stays settled; a run that  *)
(* answers success has every step's completion on record.                  *)
(***************************************************************************)
EXTENDS WorkflowRun, SequenceTheorems, TLAPS

\* A row that does not yet say its side effect may have started
Unmarked(k) == rows[k].phase \in {"not_started", "precondition_verified"}

RowsAreShaped ==
  \A k \in Keys :
    \/ rows[k] = NoRow
    \/ rows[k].status = "running"
       /\ rows[k].phase \in {"precondition_verified", "side_effect_started",
                             "postcondition_verified"}
    \/ rows[k].status \in Terminal
       /\ rows[k].phase \in {"completed", "side_effect_uncertain"}
       /\ rows[k].outcome \in Successes \cup Failures
       /\ rows[k].status = Status(rows[k].outcome)

UnmarkedHasNotActed == \A k \in Keys : Unmarked(k) => acted[k] = 0

\* A key whose action is about to be invoked was marked just now.
MarkedHasNotActed ==
  /\ pc = "begun" => rows[Key] = Running("precondition_verified")
  /\ pc = "marked" => rows[Key] = Running("side_effect_started") /\ acted[Key] = 0

WriteAheadInv ==
  /\ ActedAtMostOnce
  /\ UnmarkedHasNotActed
  /\ MarkedHasNotActed

----------------------------------------------------------------------------
(* Rows, outcomes and frames *)

\* Each kind of row is a row, of the shape its name says.
LEMMA RowKinds ==
  /\ NoRow \in RowSet
  /\ \A phase \in Phases : Running(phase) \in RowSet
  /\ \A o \in Successes \cup Failures : Finished(o) \in RowSet
  BY DEF NoRow, Running, Finished, RowSet, Phases, Status, Terminal, AllOutcomes, Successes,
         Failures, Halts

\* What recording an outcome writes.
LEMMA FinishedRow ==
  ASSUME NEW o \in Successes \cup Failures
  PROVE  /\ Finished(o).status \in Terminal
         /\ Finished(o).phase \in {"completed", "side_effect_uncertain"}
         /\ Finished(o).outcome = o
         /\ Finished(o).status = Status(o)
  BY DEF Finished, Status, Terminal, Successes, Failures, Halts

\* A context is halted with one of two outcomes or not at all.
LEMMA HaltKinds == \A n : Halt(n) \in {"none"} \cup Halts
  BY DEF Halt, Halts

\* A frame's children are steps.
LEMMA BranchesAreSteps ==
  ASSUME NEW s \in Steps \cup {Workflow}, NEW body \in Branches[s]
  PROVE  body \in Seq(Steps)
  BY WorkflowRunAssumption

\* Each operation on a frame returns a frame of the same step attempt.
LEMMA FrameKinds ==
  /\ \A s \in Steps \cup {Workflow}, a \in Nat :
       /\ Frame(s, a) \in FrameSet
       /\ Frame(s, a).step = s /\ Frame(s, a).attempt = a
  /\ \A f \in FrameSet, body \in Seq(Steps), left \in Nat :
       /\ Restart(f, body, left) \in FrameSet
       /\ Restart(f, body, left).step = f.step /\ Restart(f, body, left).attempt = f.attempt
  /\ \A f \in FrameSet : f.todo # <<>> => \A o :
       /\ Advance(f, o) \in FrameSet
       /\ Advance(f, o).step = f.step /\ Advance(f, o).attempt = f.attempt
<1>1. ASSUME NEW s \in Steps \cup {Workflow}, NEW a \in Nat
      PROVE  /\ Frame(s, a) \in FrameSet
             /\ Frame(s, a).step = s /\ Frame(s, a).attempt = a
  BY DEF Frame, FrameSet, Successes
<1>2. ASSUME NEW f \in FrameSet, NEW body \in Seq(Steps), NEW left \in Nat
      PROVE  /\ Restart(f, body, left) \in FrameSet
             /\ Restart(f, body, left).step = f.step
             /\ Restart(f, body, left).attempt = f.attempt
  BY DEF Restart, FrameSet, Successes
<1>3. ASSUME NEW f \in FrameSet, NEW o, f.todo # <<>>
      PROVE  /\ Advance(f, o) \in FrameSet
             /\ Advance(f, o).step = f.step /\ Advance(f, o).attempt = f.attempt
  <2>1. f.todo \in Seq(Steps) /\ Tail(f.todo) \in Seq(Steps)
    BY <1>3 DEF FrameSet
  <2>2. (IF o = "SUCCESS" THEN "SUCCESS" ELSE f.got) \in Successes
    BY DEF FrameSet, Successes
  <2>3. QED BY <2>1, <2>2 DEF Advance, FrameSet
<1>4. QED BY <1>1, <1>2, <1>3

StackOK == stack \in Seq(FrameSet) /\ WellNested

\* The key of the step on top is one of the step's attempts.
LEMMA TopKey ==
  ASSUME StackOK, Depth > 1
  PROVE  /\ Key \in Keys
         /\ Top \in FrameSet
         /\ Top.step \in Steps /\ Top.attempt \in 1..Attempts[Top.step]
<1>1. Depth \in Nat /\ Top \in FrameSet
  BY DEF StackOK, Depth, Top
<1>2. Key \in Keys
  BY <1>1 DEF StackOK, WellNested, Key, Top
<1>3. PICK s \in Steps : Key \in {s} \X (1..Attempts[s])
  BY <1>2 DEF Keys
<1>4. QED BY <1>1, <1>2, <1>3 DEF Key

\* Replacing the frame on top keeps the nesting if it stays at the same step and
\* at an attempt of it.
LEMMA SetTopKeepsStack ==
  ASSUME StackOK, Depth > 1, NEW f \in FrameSet, SetTop(f), <<f.step, f.attempt>> \in Keys,
         f.step = Top.step
  PROVE  /\ StackOK'
         /\ Depth' = Depth
         /\ Top' = f
<1>0. Depth \in 1..Len(stack) /\ stack \in Seq(FrameSet)
  BY DEF StackOK, Depth
<1>1. Depth \in Nat /\ stack' \in Seq(FrameSet) /\ Len(stack') = Len(stack)
  BY <1>0, ExceptSeq DEF SetTop
<1>2. /\ stack'[Depth] = f
      /\ \A n \in 1..Depth : n # Depth => stack'[n] = stack[n]
  BY <1>0, ExceptSeq DEF SetTop, Depth
<1>3. WellNested'
  <2> SUFFICES ASSUME NEW n \in 2..Depth
               PROVE  /\ <<stack'[n].step, stack'[n].attempt>> \in Keys
                      /\ stack'[n - 1].todo # <<>>
                      /\ stack'[n].step = Head(stack'[n - 1].todo)
    BY <1>1 DEF WellNested, Depth, Keys
  <2>1. n - 1 \in 1..Depth /\ n - 1 # Depth /\ stack'[n - 1] = stack[n - 1]
    BY <1>1, <1>2
  <2>2. /\ <<stack[n].step, stack[n].attempt>> \in Keys
        /\ stack[n - 1].todo # <<>>
        /\ stack[n].step = Head(stack[n - 1].todo)
    BY DEF StackOK, WellNested
  <2>3. CASE n = Depth
    BY <1>2, <2>1, <2>2, <2>3 DEF Top
  <2>4. CASE n # Depth
    <3>1. n \in 1..Depth
      BY <1>1
    <3>2. stack'[n] = stack[n]
      BY <1>2, <2>4, <3>1
    <3>3. QED BY <2>1, <2>2, <3>2
  <2>5. QED BY <2>3, <2>4
<1>4. QED BY <1>1, <1>2, <1>3 DEF StackOK, Depth, Top

\* Returning from the step on top keeps the nesting of the frames below.
LEMMA PopKeepsStack ==
  ASSUME StackOK, Depth > 1, NEW o, Pop(o)
  PROVE  /\ StackOK'
         /\ Depth' = Depth - 1
<1> DEFINE d == Depth - 1
           parent == Advance(stack[d], o)
           lower == SubSeq(stack, 1, d)
<1>1. /\ Depth \in Nat /\ d \in 1..Depth /\ stack[d] \in FrameSet
      /\ stack[d].todo # <<>>
  <2>1. Depth \in Nat /\ d \in 1..Depth /\ stack[d] \in FrameSet /\ Depth \in 2..Depth
    BY DEF StackOK, Depth
  <2>2. stack[d].todo # <<>>
    BY <2>1 DEF StackOK, WellNested
  <2>3. QED BY <2>1, <2>2
<1>2. parent \in FrameSet /\ parent.step = stack[d].step /\ parent.attempt = stack[d].attempt
  BY <1>1, FrameKinds
<1>3. /\ lower \in Seq(FrameSet) /\ Len(lower) = d
      /\ \A n \in 1..d : lower[n] = stack[n]
  BY <1>1 DEF StackOK, Depth
<1>4. stack' = [lower EXCEPT ![d] = parent]
  BY DEF Pop
<1> HIDE DEF parent, lower
<1>5. /\ stack' \in Seq(FrameSet) /\ Len(stack') = d
      /\ stack'[d] = parent
      /\ \A n \in 1..d : n # d => stack'[n] = stack[n]
  BY <1>1, <1>2, <1>3, <1>4
<1>6. WellNested'
  <2> SUFFICES ASSUME NEW n \in 2..d
               PROVE  /\ <<stack'[n].step, stack'[n].attempt>> \in Keys
                      /\ stack'[n - 1].todo # <<>>
                      /\ stack'[n].step = Head(stack'[n - 1].todo)
    BY <1>5 DEF WellNested, Depth, Keys
  <2>1. /\ n - 1 \in 1..d /\ n - 1 # d /\ stack'[n - 1] = stack[n - 1]
        /\ n \in 2..Depth
    BY <1>1, <1>5
  <2>2. stack'[n].step = stack[n].step /\ stack'[n].attempt = stack[n].attempt
    BY <1>2, <1>5
  <2>3. QED BY <2>1, <2>2 DEF StackOK, WellNested
<1>7. QED BY <1>5, <1>6 DEF StackOK, Depth

\* Entering a step nests it below the frame that lists it.
LEMMA PushKeepsStack ==
  ASSUME StackOK, Depth > 0, Top.todo # <<>>,
         stack' = Append(stack, Frame(Head(Top.todo), 1))
  PROVE  /\ StackOK'
         /\ Depth' = Depth + 1
<1> DEFINE f == Frame(Head(Top.todo), 1)
<1>1. Depth \in Nat /\ Top \in FrameSet /\ Head(Top.todo) \in Steps
  <2>1. Depth \in Nat /\ Top \in FrameSet
    BY DEF StackOK, Depth, Top
  <2>2. Top.todo \in Seq(Steps)
    BY <2>1 DEF FrameSet
  <2>3. QED BY <2>1, <2>2
<1>2. f \in FrameSet /\ f.step = Head(Top.todo) /\ f.attempt = 1
  BY <1>1, FrameKinds
<1>3. <<f.step, f.attempt>> \in Keys
  BY <1>1, <1>2, WorkflowRunAssumption DEF Keys
<1> HIDE DEF f
<1>4. stack' = Append(stack, f)
  BY DEF f
<1>5. /\ stack' \in Seq(FrameSet) /\ Len(stack') = Depth + 1
      /\ stack'[Depth + 1] = f
      /\ \A n \in 1..Depth : stack'[n] = stack[n]
  BY <1>1, <1>2, <1>4 DEF StackOK, Depth
<1>6. WellNested'
  <2> SUFFICES ASSUME NEW n \in 2..(Depth + 1)
               PROVE  /\ <<stack'[n].step, stack'[n].attempt>> \in Keys
                      /\ stack'[n - 1].todo # <<>>
                      /\ stack'[n].step = Head(stack'[n - 1].todo)
    BY <1>5 DEF WellNested, Depth, Keys
  <2>1. n - 1 \in 1..Depth /\ stack'[n - 1] = stack[n - 1]
    BY <1>1, <1>5
  <2>2. CASE n = Depth + 1
    BY <1>1, <1>2, <1>3, <1>5, <2>1, <2>2 DEF Top
  <2>3. CASE n # Depth + 1
    BY <1>1, <1>5, <2>1, <2>3 DEF StackOK, WellNested
  <2>4. QED BY <2>2, <2>3
<1>7. QED BY <1>5, <1>6 DEF StackOK, Depth

----------------------------------------------------------------------------
(* The types *)

StateOK ==
  /\ run \in RowSet /\ rows \in [Keys -> RowSet]
  /\ acted \in [Keys -> Nat] /\ verified \subseteq Keys

ControlOK ==
  /\ res \in AllOutcomes /\ answer \in AllOutcomes /\ cancelled \in BOOLEAN
  /\ used \in 0..MaxSteps /\ faults \in 0..MaxFaults

PlaceOK ==
  /\ pc \in Places
  /\ pc = "idle" <=> stack = <<>>
  /\ pc \notin {"idle", "next", "sequence_end", "finish"} => Depth > 1

\* What the engine has in hand, once a step or a sequence is over
OutcomeInHand ==
  pc \in {"sequence_end", "recovered", "returned", "result", "finish"} =>
    res \in Successes \cup Failures

\* The inductive form of TypeOK
TypeInv == StateOK /\ ControlOK /\ PlaceOK /\ StackOK /\ OutcomeInHand /\ RowsAreShaped

LEMMA TypeInvIsTypeOK == TypeInv => TypeOK
  BY DEF TypeInv, StateOK, ControlOK, PlaceOK, StackOK, TypeOK

LEMMA TypeInit == Init => TypeInv
<1> SUFFICES ASSUME Init PROVE TypeInv
  OBVIOUS
<1>1. StateOK /\ RowsAreShaped
  BY RowKinds DEF Init, StateOK, RowsAreShaped
<1>2. ControlOK
  <2>1. 0 \in 0..MaxSteps /\ 0 \in 0..MaxFaults
    BY WorkflowRunAssumption
  <2>2. QED BY <2>1 DEF Init, ControlOK, AllOutcomes
<1>3. PlaceOK /\ OutcomeInHand
  BY DEF Init, PlaceOK, OutcomeInHand, Places
<1>4. StackOK
  BY DEF Init, StackOK, WellNested, Depth
<1>5. QED BY <1>1, <1>2, <1>3, <1>4 DEF TypeInv

\* Recording a row of one of the three kinds keeps the table well typed and shaped.
LEMMA RecordKeeps ==
  ASSUME StateOK, RowsAreShaped, StackOK, Depth > 1, NEW r, Record(r),
         \/ r \in {Running("precondition_verified"), Running("side_effect_started"),
                   Running("postcondition_verified")}
         \/ \E o \in Successes \cup Failures : r = Finished(o)
  PROVE  /\ rows' \in [Keys -> RowSet]
         /\ RowsAreShaped'
         /\ rows'[Key] = r
         /\ \A k \in Keys : k # Key => rows'[k] = rows[k]
<1>1. Key \in Keys
  BY TopKey
<1>2. r \in RowSet
  BY RowKinds DEF Phases
<1>3. rows' = [rows EXCEPT ![Key] = r] /\ rows \in [Keys -> RowSet]
  BY DEF Record, StateOK
<1>4. /\ rows' \in [Keys -> RowSet]
      /\ rows'[Key] = r
      /\ \A k \in Keys : k # Key => rows'[k] = rows[k]
  BY <1>1, <1>2, <1>3
<1>5. \/ r.status = "running"
         /\ r.phase \in {"precondition_verified", "side_effect_started", "postcondition_verified"}
      \/ r.status \in Terminal
         /\ r.phase \in {"completed", "side_effect_uncertain"}
         /\ r.outcome \in Successes \cup Failures
         /\ r.status = Status(r.outcome)
  BY FinishedRow DEF Running
<1>6. RowsAreShaped'
  <2> SUFFICES ASSUME NEW k \in Keys
               PROVE  \/ rows'[k] = NoRow
                      \/ rows'[k].status = "running"
                         /\ rows'[k].phase \in {"precondition_verified", "side_effect_started",
                                                 "postcondition_verified"}
                      \/ rows'[k].status \in Terminal
                         /\ rows'[k].phase \in {"completed", "side_effect_uncertain"}
                         /\ rows'[k].outcome \in Successes \cup Failures
                         /\ rows'[k].status = Status(rows'[k].outcome)
    BY DEF RowsAreShaped
  <2>1. CASE k = Key
    BY <1>4, <1>5, <2>1
  <2>2. CASE k # Key
    BY <1>4, <2>2 DEF RowsAreShaped
  <2>3. QED BY <2>1, <2>2
<1>7. QED BY <1>4, <1>6

\* Returning an outcome leaves the engine in the sequence below.
LEMMA ReturnKeeps ==
  ASSUME StackOK, Depth > 1, NEW o \in Successes \cup Failures, Return(o)
  PROVE  StackOK' /\ PlaceOK' /\ OutcomeInHand' /\ res' \in AllOutcomes
<1>1. StackOK' /\ Depth' = Depth - 1
  BY PopKeepsStack DEF Return
<1>2. stack' # <<>> /\ Depth \in Nat
  BY <1>1 DEF Depth, StackOK
<1>3. pc' \in {"next", "sequence_end"} /\ res' = o
  BY DEF Return
<1>4. QED BY <1>1, <1>2, <1>3 DEF PlaceOK, OutcomeInHand, Places, AllOutcomes

\* An expiring deadline changes nothing else of its frame.
LEMMA ExpireKeepsStack ==
  ASSUME StackOK, Expire
  PROVE  /\ StackOK' /\ Depth' = Depth
         /\ Depth > 0 /\ Key' = Key
<1>1. PICK n \in 1..Depth : stack' = [stack EXCEPT ![n].late = TRUE]
  BY DEF Expire
<1> DEFINE f == [stack[n] EXCEPT !.late = TRUE]
<1>2. Depth \in Nat /\ stack \in Seq(FrameSet) /\ stack[n] \in FrameSet
  BY <1>1 DEF StackOK, Depth
<1>3. f \in FrameSet /\ f.step = stack[n].step /\ f.attempt = stack[n].attempt /\ f.todo = stack[n].todo
  BY <1>2 DEF FrameSet
<1>4. stack' = [stack EXCEPT ![n] = f]
  BY <1>1
<1> HIDE DEF f
<1>5. stack' \in Seq(FrameSet) /\ Len(stack') = Depth
  <2>1. n \in 1..Len(stack)
    BY DEF Depth
  <2>2. [stack EXCEPT ![n] = f] \in Seq(FrameSet) /\ Len([stack EXCEPT ![n] = f]) = Len(stack)
    BY ONLY <1>2, <1>3, <2>1, ExceptSeq
  <2>3. QED BY <1>4, <2>2 DEF Depth
<1>6. /\ stack'[n] = f
      /\ \A m \in 1..Depth : m # n => stack'[m] = stack[m]
  BY <1>1, <1>2, <1>3, <1>4, ExceptSeq DEF Depth
<1>7. \A m \in 1..Depth : /\ stack'[m].step = stack[m].step
                          /\ stack'[m].attempt = stack[m].attempt
                          /\ stack'[m].todo = stack[m].todo
  BY <1>3, <1>6
<1>8. WellNested'
  <2> SUFFICES ASSUME NEW m \in 2..Depth
               PROVE  /\ <<stack'[m].step, stack'[m].attempt>> \in Keys
                      /\ stack'[m - 1].todo # <<>>
                      /\ stack'[m].step = Head(stack'[m - 1].todo)
    BY <1>5 DEF WellNested, Depth, Keys
  <2>1. m \in 1..Depth /\ m - 1 \in 1..Depth
    BY <1>2
  <2>2. QED BY <1>7, <2>1 DEF StackOK, WellNested
<1>9. Depth > 0 /\ Depth \in 1..Depth
  BY <1>1, <1>2
<1>10. Key' = Key
  <2>1. Depth' = Depth
    BY <1>5 DEF Depth
  <2>2. Top'.step = Top.step /\ Top'.attempt = Top.attempt
    BY <1>7, <1>9, <2>1 DEF Top
  <2>3. QED BY <2>2 DEF Key
<1>11. QED BY <1>5, <1>8, <1>9, <1>10 DEF StackOK, Depth

----------------------------------------------------------------------------
(* Each action keeps the types *)

\* Outcomes of handlers, and of halted contexts.
LEMMA OutcomeKinds ==
  /\ Outcomes \subseteq Successes \cup Failures
  /\ Halts \subseteq Failures
  /\ {"BLOCKED", "FATAL_FAILURE", "SUCCESS", "SKIPPED"} \subseteq Successes \cup Failures
  /\ {"BLOCKED", "FATAL_FAILURE"} \subseteq Failures
  /\ Successes \cup Failures \subseteq AllOutcomes
  /\ "none" \in AllOutcomes
  BY WorkflowRunAssumption DEF Failures, Successes, Halts, AllOutcomes

\* Execute() starts from the frame of the workflow.
LEMMA TypeExecute == TypeInv /\ Execute => TypeInv'
<1> SUFFICES ASSUME TypeInv, Execute PROVE TypeInv'
  OBVIOUS
<1>1. StateOK' /\ RowsAreShaped'
  <2>1. Running("not_started") \in RowSet
    BY RowKinds DEF Phases
  <2>2. run' \in RowSet
    BY <2>1 DEF Execute, TypeInv, StateOK
  <2>3. QED BY <2>2 DEF Execute, history, TypeInv, StateOK, RowsAreShaped, Keys
<1>2. ControlOK'
  <2>1. run.outcome \in AllOutcomes
    BY DEF TypeInv, StateOK, RowSet
  <2>2. 0 \in 0..MaxSteps
    BY WorkflowRunAssumption
  <2>3. QED BY <2>1, <2>2, OutcomeKinds DEF Execute, context, TypeInv, ControlOK
<1>3. CASE run.status \in Terminal
  <2>1. stack' = stack /\ pc' = pc /\ res' = res
    BY <1>3 DEF Execute
  <2>2. StackOK' /\ PlaceOK' /\ OutcomeInHand'
    BY <2>1 DEF TypeInv, StackOK, WellNested, PlaceOK, OutcomeInHand, Depth, Keys
  <2>3. QED BY <1>1, <1>2, <2>2 DEF TypeInv
<1>4. CASE run.status \notin Terminal
  <2>1. PICK body \in Branches[Workflow] : stack' = <<Restart(Frame(Workflow, 1), body, 0)>>
    BY <1>4 DEF Execute
  <2>2. pc' = "next"
    BY <1>4 DEF Execute
  <2>3. Restart(Frame(Workflow, 1), body, 0) \in FrameSet
    BY BranchesAreSteps, FrameKinds
  <2>4. stack' \in Seq(FrameSet) /\ Len(stack') = 1 /\ stack' # <<>>
    BY <2>1, <2>3
  <2>5. StackOK'
    BY <2>4 DEF StackOK, WellNested, Depth
  <2>6. PlaceOK' /\ OutcomeInHand'
    BY <2>2, <2>4 DEF PlaceOK, OutcomeInHand, Places
  <2>7. QED BY <1>1, <1>2, <2>5, <2>6 DEF TypeInv
<1>5. QED BY <1>3, <1>4

\* An action that ends the execution leaves no frame.
LEMMA EmptyStack == ASSUME stack' = <<>>, pc' = "idle" PROVE StackOK' /\ PlaceOK' /\ OutcomeInHand'
  BY DEF StackOK, PlaceOK, OutcomeInHand, WellNested, Depth, Places

LEMMA TypeFinishRun == TypeInv /\ FinishRun => TypeInv'
<1> SUFFICES ASSUME TypeInv, FinishRun PROVE TypeInv'
  OBVIOUS
<1> DEFINE outcome == IF Halt(1) # "none" THEN Halt(1) ELSE res
<1>1. outcome \in Successes \cup Failures
  BY HaltKinds, OutcomeKinds DEF FinishRun, TypeInv, OutcomeInHand
<1>2. /\ run' = Finished(outcome) /\ answer' = outcome /\ stack' = <<>> /\ pc' = "idle"
      /\ UNCHANGED <<rows, res, cancelled, used, acted, verified, faults>>
  BY DEF FinishRun, Answer, context, history
<1> HIDE DEF outcome
<1>3. StateOK' /\ RowsAreShaped'
  <2>1. run' \in RowSet
    BY <1>1, <1>2, RowKinds
  <2>2. QED BY <1>2, <2>1 DEF TypeInv, StateOK, RowsAreShaped, Keys
<1>4. ControlOK'
  BY <1>1, <1>2, OutcomeKinds DEF TypeInv, ControlOK
<1>5. QED BY <1>2, <1>3, <1>4, EmptyStack DEF TypeInv

\* Looking for the next step: it is entered, or the sequence ends with an outcome.
LEMMA TypeNextStep == TypeInv /\ NextStep => TypeInv'
<1> SUFFICES ASSUME TypeInv, NextStep PROVE TypeInv'
  OBVIOUS
<1>1. pc = "next" /\ Depth > 0 /\ Depth \in Nat /\ Top \in FrameSet
  BY DEF NextStep, TypeInv, StackOK, PlaceOK, Depth, Top
<1>2. UNCHANGED <<run, rows, cancelled, used, answer, acted, verified, faults>>
  BY DEF NextStep, context, history
<1>3. StateOK' /\ RowsAreShaped'
  BY <1>2 DEF TypeInv, StateOK, RowsAreShaped, Keys
<1>4. CASE /\ Top.todo # <<>> /\ stack' = Append(stack, Frame(Head(Top.todo), 1))
           /\ pc' = "enter" /\ res' = res
  <2>1. StackOK' /\ Depth' = Depth + 1
    BY <1>1, <1>4, PushKeepsStack DEF TypeInv
  <2>2. Depth' > 1 /\ stack' # <<>>
    BY <1>1, <2>1 DEF Depth, StackOK
  <2>3. PlaceOK' /\ OutcomeInHand'
    BY <1>4, <2>2 DEF PlaceOK, OutcomeInHand, Places
  <2>4. ControlOK'
    BY <1>2, <1>4 DEF TypeInv, ControlOK
  <2>5. QED BY <1>3, <2>1, <2>3, <2>4 DEF TypeInv
<1>5. CASE /\ res' \in {"BLOCKED"} \cup Halts \cup {Top.got}
           /\ pc' = "sequence_end" /\ stack' = stack
  <2>1. res' \in Successes \cup Failures /\ res' \in AllOutcomes
    BY <1>1, <1>5, OutcomeKinds DEF FrameSet
  <2>2. StackOK'
    BY <1>5 DEF TypeInv, StackOK, WellNested, Depth, Keys
  <2>3. PlaceOK' /\ OutcomeInHand'
    BY <1>1, <1>5, <2>1 DEF TypeInv, PlaceOK, OutcomeInHand, Places
  <2>4. ControlOK'
    BY <1>2, <2>1 DEF TypeInv, ControlOK
  <2>5. QED BY <1>3, <2>2, <2>3, <2>4 DEF TypeInv
<1>6. QED BY <1>4, <1>5, HaltKinds DEF NextStep

LEMMA TypeEndSequence == TypeInv /\ EndSequence => TypeInv'
<1> SUFFICES ASSUME TypeInv, EndSequence PROVE TypeInv'
  OBVIOUS
<1>1. /\ pc = "sequence_end" /\ Depth > 0 /\ Depth \in Nat /\ Top \in FrameSet
      /\ res \in Successes \cup Failures
  BY DEF EndSequence, TypeInv, StackOK, PlaceOK, OutcomeInHand, Depth, Top
<1>2. UNCHANGED <<run, rows, cancelled, used, answer, acted, verified, faults>>
  BY DEF EndSequence, context, history
<1>3. StateOK' /\ RowsAreShaped'
  BY <1>2 DEF TypeInv, StateOK, RowsAreShaped, Keys
<1>4. CASE /\ stack' = stack /\ res' \in {res, "SUCCESS"}
           /\ \/ pc' = "finish"
              \/ pc' = "returned" /\ Depth > 1
  <2>1. res' \in Successes \cup Failures /\ res' \in AllOutcomes
    BY <1>1, <1>4, OutcomeKinds
  <2>2. StackOK' /\ Depth' = Depth
    BY <1>4 DEF TypeInv, StackOK, WellNested, Depth, Keys
  <2>3. stack' # <<>>
    BY <1>1, <1>4 DEF TypeInv, PlaceOK
  <2>4. PlaceOK' /\ OutcomeInHand'
    BY <1>4, <2>1, <2>2, <2>3 DEF PlaceOK, OutcomeInHand, Places
  <2>5. ControlOK'
    BY <1>2, <2>1 DEF TypeInv, ControlOK
  <2>6. QED BY <1>3, <2>2, <2>4, <2>5 DEF TypeInv
<1>5. CASE /\ Depth > 1 /\ Top.left > 0 /\ pc' = "next" /\ res' = res
           /\ SetTop(Restart(Top, Top.body, Top.left - 1))
  <2>1. Top.body \in Seq(Steps) /\ Top.left - 1 \in Nat
    BY <1>1, <1>5 DEF FrameSet
  <2> DEFINE f == Restart(Top, Top.body, Top.left - 1)
  <2>2. f \in FrameSet /\ f.step = Top.step /\ f.attempt = Top.attempt
    BY <1>1, <2>1, FrameKinds
  <2>3. <<f.step, f.attempt>> \in Keys
    BY <1>5, <2>2, TopKey DEF Key, TypeInv
  <2>4. SetTop(f)
    BY <1>5
  <2> HIDE DEF f
  <2>5. StackOK' /\ Depth' = Depth
    BY <1>5, <2>2, <2>3, <2>4, SetTopKeepsStack DEF TypeInv
  <2>6. stack' # <<>>
    BY <1>1, <2>5 DEF StackOK, Depth
  <2>7. PlaceOK' /\ OutcomeInHand'
    BY <1>5, <2>6 DEF PlaceOK, OutcomeInHand, Places
  <2>8. ControlOK'
    BY <1>2, <1>5 DEF TypeInv, ControlOK
  <2>9. QED BY <1>3, <2>5, <2>7, <2>8 DEF TypeInv
<1>6. CASE Depth = 1
  <2>1. stack' = stack /\ pc' = "finish" /\ res' = res
    BY <1>6 DEF EndSequence
  <2>2. QED BY <1>4, <2>1
<1>7. CASE Depth > 1 /\ ~(res \in Successes /\ Top.left > 0)
  <2>1. stack' = stack /\ pc' = "returned" /\ res' \in {res, "SUCCESS"}
    BY <1>7 DEF EndSequence
  <2>2. QED BY <1>4, <1>7, <2>1
<1>8. CASE Depth > 1 /\ res \in Successes /\ Top.left > 0
  <2>1. /\ pc' = "next" /\ res' = res
        /\ SetTop(Restart(Top, Top.body, Top.left - 1))
    BY <1>8 DEF EndSequence
  <2>2. QED BY <1>5, <1>8, <2>1
<1>9. QED BY <1>1, <1>6, <1>7, <1>8

\* A step of the engine that stays at its frames and keeps the rows typed.
LEMMA StayKeeps ==
  ASSUME TypeInv, Depth > 1, stack' = stack, StateOK', RowsAreShaped',
         res' \in AllOutcomes, pc' \in Places \ {"idle"},
         pc' \in {"sequence_end", "recovered", "returned", "result", "finish"} =>
           res' \in Successes \cup Failures,
         UNCHANGED <<cancelled, used, answer, faults>>
  PROVE  TypeInv'
<1>1. StackOK' /\ Depth' = Depth /\ stack' # <<>>
  BY DEF TypeInv, StackOK, WellNested, Depth, Keys
<1>2. PlaceOK' /\ OutcomeInHand'
  BY <1>1 DEF PlaceOK, OutcomeInHand
<1>3. QED BY <1>1, <1>2 DEF TypeInv, ControlOK

\* The step on top returns: its rows are typed, the frames below go on.
LEMMA ReturnKeepsTypes ==
  ASSUME TypeInv, Depth > 1, NEW o \in Successes \cup Failures, Return(o),
         StateOK', RowsAreShaped',
         cancelled' = cancelled, used' = used, answer' = answer, faults' \in 0..MaxFaults
  PROVE  TypeInv'
<1>1. StackOK' /\ PlaceOK' /\ OutcomeInHand' /\ res' \in AllOutcomes
  BY ReturnKeeps DEF TypeInv
<1>2. ControlOK'
  BY <1>1 DEF TypeInv, ControlOK
<1>3. QED BY <1>1, <1>2 DEF TypeInv

\* At a step, the frame on top is one of an attempt in Keys.
LEMMA AtStep ==
  ASSUME TypeInv, pc \notin {"idle", "next", "sequence_end", "finish"}
  PROVE  /\ Depth > 1 /\ StackOK /\ Key \in Keys /\ Top \in FrameSet /\ Top.step \in Steps
         /\ rows[Key] \in RowSet
<1>1. Depth > 1 /\ StackOK
  BY DEF TypeInv, PlaceOK
<1>2. Key \in Keys /\ Top \in FrameSet /\ Top.step \in Steps
  BY <1>1, TopKey
<1>3. QED BY <1>1, <1>2 DEF TypeInv, StateOK

LEMMA TypeSkipAttempt == TypeInv /\ SkipAttempt => TypeInv'
<1> SUFFICES ASSUME TypeInv, SkipAttempt PROVE TypeInv'
  OBVIOUS
<1>1. Depth > 1 /\ Key \in Keys
  BY AtStep DEF SkipAttempt
<1>2. /\ UNCHANGED <<run, rows, cancelled, used, answer, acted, verified>>
      /\ faults' \in 0..MaxFaults
  BY DEF SkipAttempt, context, history, TypeInv, ControlOK
<1>3. StateOK' /\ RowsAreShaped'
  BY <1>2 DEF TypeInv, StateOK, RowsAreShaped, Keys
<1>4. \E o \in Successes \cup Failures : Return(o)
  <2>1. CASE Halt(Depth - 1) # "none"
    <3>1. Halt(Depth - 1) \in Successes \cup Failures
      BY <2>1, HaltKinds, OutcomeKinds
    <3>2. Return(Halt(Depth - 1))
      BY <2>1 DEF SkipAttempt
    <3>3. QED BY <3>1, <3>2
  <2>2. CASE Halt(Depth - 1) = "none" /\ rows[Key].status = "completed"
    BY <2>2, OutcomeKinds DEF SkipAttempt
  <2>3. CASE Halt(Depth - 1) = "none" /\ rows[Key].status # "completed"
    <3>1. rows[Key].status \in Terminal /\ Return(rows[Key].outcome)
      BY <2>3 DEF SkipAttempt
    <3>2. rows[Key].outcome \in Successes \cup Failures
      BY <1>1, <3>1 DEF TypeInv, RowsAreShaped, NoRow, Terminal
    <3>3. QED BY <3>1, <3>2
  <2>4. QED BY <2>1, <2>2, <2>3
<1>5. QED BY <1>1, <1>2, <1>3, <1>4, ReturnKeepsTypes

LEMMA TypeRecoverAttempt == TypeInv /\ RecoverAttempt => TypeInv'
<1> SUFFICES ASSUME TypeInv, RecoverAttempt PROVE TypeInv'
  OBVIOUS
<1>1. /\ UNCHANGED <<run, rows, stack, cancelled, used, answer, acted, verified, faults>>
      /\ pc = "enter"
  BY DEF RecoverAttempt, context, history
<1>2. Depth > 1
  BY <1>1, AtStep
<1>3. StateOK' /\ RowsAreShaped'
  BY <1>1 DEF TypeInv, StateOK, RowsAreShaped, Keys
<1>4. \/ pc' = "recovered" /\ res' \in {"SUCCESS", "BLOCKED"}
      \/ pc' = "probe" /\ res' = res
  BY DEF RecoverAttempt
<1>5. /\ res' \in AllOutcomes
      /\ pc' \in Places \ {"idle"}
      /\ pc' \in {"sequence_end", "recovered", "returned", "result", "finish"} =>
           res' \in Successes \cup Failures
  BY <1>4, OutcomeKinds DEF Places, TypeInv, ControlOK
<1>6. QED BY <1>1, <1>2, <1>3, <1>5, StayKeeps

LEMMA TypeProbeEffect == TypeInv /\ ProbeEffect => TypeInv'
<1> SUFFICES ASSUME TypeInv, ProbeEffect PROVE TypeInv'
  OBVIOUS
<1>1. /\ UNCHANGED <<run, stack, cancelled, used, answer, acted, faults>>
      /\ pc = "probe" /\ pc' = "recovered"
  BY DEF ProbeEffect, context
<1>2. Depth > 1 /\ Key \in Keys
  BY <1>1, AtStep
<1>3. res' \in Successes \cup Failures
  BY OutcomeKinds DEF ProbeEffect
<1>4. rows' \in [Keys -> RowSet] /\ RowsAreShaped'
  <2>1. CASE Record(Running("postcondition_verified"))
    BY <1>2, <2>1, RecordKeeps DEF TypeInv
  <2>2. CASE rows' = rows
    BY <2>2 DEF TypeInv, StateOK, RowsAreShaped, Keys
  <2>3. QED BY <2>1, <2>2 DEF ProbeEffect
<1>5. StateOK'
  BY <1>1, <1>2, <1>4 DEF TypeInv, StateOK, ProbeEffect, Keys
<1>6. QED BY <1>1, <1>2, <1>3, <1>4, <1>5, StayKeeps, OutcomeKinds DEF Places

LEMMA TypeFinishRecovered == TypeInv /\ FinishRecovered => TypeInv'
<1> SUFFICES ASSUME TypeInv, FinishRecovered PROVE TypeInv'
  OBVIOUS
<1>1. /\ UNCHANGED <<run, cancelled, used, answer, acted, verified, faults>>
      /\ pc = "recovered" /\ Record(Finished(res)) /\ Return(res)
  BY DEF FinishRecovered, context, history
<1>2. Depth > 1 /\ Key \in Keys /\ res \in Successes \cup Failures
  BY <1>1, AtStep DEF TypeInv, OutcomeInHand
<1>3. rows' \in [Keys -> RowSet] /\ RowsAreShaped'
  BY <1>1, <1>2, RecordKeeps DEF TypeInv
<1>4. StateOK'
  BY <1>1, <1>3 DEF TypeInv, StateOK, Keys
<1>5. faults' \in 0..MaxFaults
  BY <1>1 DEF TypeInv, ControlOK
<1>6. QED BY <1>1, <1>2, <1>3, <1>4, <1>5, ReturnKeepsTypes

LEMMA TypeBeginAttempt == TypeInv /\ BeginAttempt => TypeInv'
<1> SUFFICES ASSUME TypeInv, BeginAttempt PROVE TypeInv'
  OBVIOUS
<1>1. /\ UNCHANGED <<run, stack, res, cancelled, used, answer, acted, verified, faults>>
      /\ pc = "enter" /\ pc' = "begun" /\ Record(Running("precondition_verified"))
  BY DEF BeginAttempt, context, history
<1>2. Depth > 1
  BY <1>1, AtStep
<1>3. rows' \in [Keys -> RowSet] /\ RowsAreShaped'
  BY <1>1, <1>2, RecordKeeps DEF TypeInv
<1>4. StateOK'
  BY <1>1, <1>3 DEF TypeInv, StateOK, Keys
<1>5. res' \in AllOutcomes
  BY <1>1 DEF TypeInv, ControlOK
<1>6. QED BY <1>1, <1>2, <1>3, <1>4, <1>5, StayKeeps DEF Places

LEMMA TypeMarkStarted == TypeInv /\ MarkStarted => TypeInv'
<1> SUFFICES ASSUME TypeInv, MarkStarted PROVE TypeInv'
  OBVIOUS
<1>1. /\ UNCHANGED <<run, stack, res, cancelled, used, answer, acted, verified, faults>>
      /\ pc = "begun" /\ pc' = "marked" /\ Record(Running("side_effect_started"))
  BY DEF MarkStarted, context, history
<1>2. Depth > 1
  BY <1>1, AtStep
<1>3. rows' \in [Keys -> RowSet] /\ RowsAreShaped'
  BY <1>1, <1>2, RecordKeeps DEF TypeInv
<1>4. StateOK'
  BY <1>1, <1>3 DEF TypeInv, StateOK, Keys
<1>5. res' \in AllOutcomes
  BY <1>1 DEF TypeInv, ControlOK
<1>6. QED BY <1>1, <1>2, <1>3, <1>4, <1>5, StayKeeps DEF Places

LEMMA TypeActionReturns == TypeInv /\ ActionReturns => TypeInv'
<1> SUFFICES ASSUME TypeInv, ActionReturns PROVE TypeInv'
  OBVIOUS
<1>1. /\ UNCHANGED <<run, rows, stack, cancelled, used, answer, acted, verified, faults>>
      /\ pc = "acting" /\ pc' = "returned" /\ res' \in Outcomes
  BY DEF ActionReturns, context, history
<1>2. Depth > 1
  BY <1>1, AtStep
<1>3. StateOK' /\ RowsAreShaped'
  BY <1>1 DEF TypeInv, StateOK, RowsAreShaped, Keys
<1>4. res' \in Successes \cup Failures /\ res' \in AllOutcomes
  BY <1>1, OutcomeKinds
<1>5. QED BY <1>1, <1>2, <1>3, <1>4, StayKeeps DEF Places

LEMMA TypeVerifyResult == TypeInv /\ VerifyResult => TypeInv'
<1> SUFFICES ASSUME TypeInv, VerifyResult PROVE TypeInv'
  OBVIOUS
<1>1. /\ UNCHANGED <<run, rows, stack, cancelled, used, answer, acted, faults>>
      /\ pc = "returned" /\ pc' = "result"
  BY DEF VerifyResult, context
<1>2. Depth > 1 /\ Key \in Keys /\ res \in Successes \cup Failures
  BY <1>1, AtStep DEF TypeInv, OutcomeInHand
<1>3. /\ res' \in {res, "FATAL_FAILURE"} \cup Outcomes \cup Halts
      /\ verified' = verified \/ verified' = verified \cup {Key}
  <2>1. Halt(Depth) = "none" \/ Halt(Depth) \in Halts
    BY HaltKinds
  <2>2. QED BY <2>1 DEF VerifyResult
<1>4. StateOK' /\ RowsAreShaped'
  BY <1>1, <1>2, <1>3 DEF TypeInv, StateOK, RowsAreShaped, Keys
<1>5. res' \in Successes \cup Failures /\ res' \in AllOutcomes
  BY <1>2, <1>3, OutcomeKinds
<1>6. QED BY <1>1, <1>2, <1>4, <1>5, StayKeeps DEF Places

LEMMA TypeExecuteOnce == TypeInv /\ ExecuteOnce => TypeInv'
<1> SUFFICES ASSUME TypeInv, ExecuteOnce PROVE TypeInv'
  OBVIOUS
<1>1. /\ UNCHANGED <<run, rows, cancelled, answer, verified, faults>>
      /\ pc = "marked"
  BY DEF ExecuteOnce
<1>2. Depth > 1 /\ StackOK /\ Key \in Keys /\ Top \in FrameSet /\ Top.step \in Steps
  BY <1>1, AtStep
<1>3. StateOK' /\ RowsAreShaped'
  <2>1. acted' = acted \/ acted' = [acted EXCEPT ![Key] = @ + 1]
    BY DEF ExecuteOnce
  <2>2. acted' \in [Keys -> Nat]
    BY <1>2, <2>1 DEF TypeInv, StateOK
  <2>3. QED BY <1>1, <2>2 DEF TypeInv, StateOK, RowsAreShaped, Keys
<1>4. used' \in 0..MaxSteps
  <2>1. used' = used \/ (used < MaxSteps /\ used' = used + 1)
    BY DEF ExecuteOnce
  <2>2. QED BY <2>1, WorkflowRunAssumption DEF TypeInv, ControlOK
<1>5. CASE /\ stack' = stack
           /\ \/ pc' \in {"result", "returned"} /\ res' \in {"BLOCKED", "CANCELLED"} \cup Outcomes
              \/ pc' = "acting" /\ res' = res
  <2>1. /\ res' \in AllOutcomes
        /\ pc' \in {"result", "returned"} => res' \in Successes \cup Failures
        /\ pc' \in {"result", "returned", "acting"}
    BY <1>5, OutcomeKinds DEF TypeInv, ControlOK, Halts
  <2>2. StackOK' /\ Depth' = Depth /\ stack' # <<>>
    BY <1>1, <1>2, <1>5 DEF TypeInv, PlaceOK, StackOK, WellNested, Depth, Keys
  <2>3. PlaceOK' /\ OutcomeInHand'
    BY <1>2, <2>1, <2>2 DEF PlaceOK, OutcomeInHand, Places
  <2>4. ControlOK'
    BY <1>1, <1>4, <2>1 DEF TypeInv, ControlOK
  <2>5. QED BY <1>3, <2>2, <2>3, <2>4 DEF TypeInv
<1>6. CASE /\ pc' = "next" /\ res' = res
           /\ \E body \in Branches[Top.step] :
                SetTop(Restart(Top, body, IF Repeat[Top.step] = 0 THEN 0 ELSE Repeat[Top.step] - 1))
  <2>1. PICK body \in Branches[Top.step] :
          SetTop(Restart(Top, body, IF Repeat[Top.step] = 0 THEN 0 ELSE Repeat[Top.step] - 1))
    BY <1>6
  <2>2. PICK left \in Nat : SetTop(Restart(Top, body, left))
    <3>1. Repeat[Top.step] \in Nat
      BY <1>2, WorkflowRunAssumption
    <3>2. (IF Repeat[Top.step] = 0 THEN 0 ELSE Repeat[Top.step] - 1) \in Nat
      BY <3>1
    <3>3. QED BY <2>1, <3>2
  <2>3. body \in Seq(Steps)
    BY <1>2, BranchesAreSteps
  <2>4. PICK f \in FrameSet : SetTop(f) /\ f.step = Top.step /\ f.attempt = Top.attempt
    BY <1>2, <2>2, <2>3, FrameKinds
  <2>5. <<f.step, f.attempt>> \in Keys
    BY <1>2, <2>4 DEF Key
  <2>6. StackOK' /\ Depth' = Depth
    BY <1>2, <2>4, <2>5, SetTopKeepsStack
  <2>7. stack' # <<>>
    BY <1>2, <2>6 DEF StackOK, Depth
  <2>8. PlaceOK' /\ OutcomeInHand'
    BY <1>6, <2>7 DEF PlaceOK, OutcomeInHand, Places
  <2>9. ControlOK'
    BY <1>1, <1>4, <1>6 DEF TypeInv, ControlOK
  <2>10. QED BY <1>3, <2>6, <2>8, <2>9 DEF TypeInv
<1>7. QED BY <1>5, <1>6 DEF ExecuteOnce

\* What FinishAttempt records, and what it does next.
LEMMA FinishAttemptSteps ==
  ASSUME TypeInv, FinishAttempt
  PROVE  \E o \in Successes \cup Failures :
           /\ Record(Finished(o))
           /\ \/ Return(o)
              \/ /\ Top.attempt + 1 \in 1..Attempts[Top.step]
                 /\ SetTop(Frame(Top.step, Top.attempt + 1))
                 /\ pc' = "enter" /\ res' = res
<1> DEFINE halt == Halt(Depth - 1)
           outcome == IF halt # "none" /\ res \notin Halts THEN halt ELSE res
<1>1. pc = "result" /\ Depth > 1 /\ StackOK /\ res \in Successes \cup Failures
  BY AtStep DEF FinishAttempt, TypeInv, OutcomeInHand
<1>2. outcome \in Successes \cup Failures
  BY <1>1, HaltKinds, OutcomeKinds
<1>3. /\ Record(Finished(outcome))
      /\ IF outcome = "RETRYABLE_FAILURE" /\ Top.attempt < Attempts[Top.step]
           THEN /\ SetTop(Frame(Top.step, Top.attempt + 1))
                /\ pc' = "enter"
                /\ res' = res
           ELSE Return(outcome)
  BY DEF FinishAttempt
<1> HIDE DEF outcome
<1>4. CASE outcome = "RETRYABLE_FAILURE" /\ Top.attempt < Attempts[Top.step]
  <2>1. Top.attempt \in 1..Attempts[Top.step] /\ Attempts[Top.step] \in Nat
    BY <1>1, TopKey, WorkflowRunAssumption
  <2>2. Top.attempt + 1 \in 1..Attempts[Top.step]
    BY <1>4, <2>1
  <2>3. SetTop(Frame(Top.step, Top.attempt + 1)) /\ pc' = "enter" /\ res' = res
    BY <1>3, <1>4
  <2>4. QED BY <1>2, <1>3, <2>2, <2>3
<1>5. CASE ~(outcome = "RETRYABLE_FAILURE" /\ Top.attempt < Attempts[Top.step])
  BY <1>2, <1>3, <1>5
<1>6. QED BY <1>4, <1>5

LEMMA TypeFinishAttempt == TypeInv /\ FinishAttempt => TypeInv'
<1> SUFFICES ASSUME TypeInv, FinishAttempt PROVE TypeInv'
  OBVIOUS
<1>1. /\ UNCHANGED <<run, cancelled, used, answer, acted, verified, faults>>
      /\ pc = "result"
  BY DEF FinishAttempt, context, history
<1>2. Depth > 1 /\ StackOK /\ Key \in Keys /\ Top.step \in Steps
  BY <1>1, AtStep
<1>3. PICK o \in Successes \cup Failures :
           /\ Record(Finished(o))
           /\ \/ Return(o)
              \/ /\ Top.attempt + 1 \in 1..Attempts[Top.step]
                 /\ SetTop(Frame(Top.step, Top.attempt + 1))
                 /\ pc' = "enter" /\ res' = res
  BY FinishAttemptSteps
<1>4. rows' \in [Keys -> RowSet] /\ RowsAreShaped'
  BY <1>2, <1>3, RecordKeeps DEF TypeInv
<1>5. StateOK' /\ faults' \in 0..MaxFaults
  BY <1>1, <1>4 DEF TypeInv, StateOK, ControlOK, Keys
<1>6. CASE Return(o)
  BY <1>1, <1>2, <1>4, <1>5, <1>6, ReturnKeepsTypes
<1>7. CASE /\ Top.attempt + 1 \in 1..Attempts[Top.step]
           /\ SetTop(Frame(Top.step, Top.attempt + 1))
           /\ pc' = "enter" /\ res' = res
  <2> DEFINE f == Frame(Top.step, Top.attempt + 1)
  <2>1. Top.attempt + 1 \in Nat
    BY <1>7, <1>2, TopKey
  <2>2. f \in FrameSet /\ f.step = Top.step /\ f.attempt = Top.attempt + 1
    BY <1>2, <2>1, FrameKinds
  <2>3. <<f.step, f.attempt>> \in Keys
    BY <1>2, <1>7, <2>2 DEF Keys
  <2>4. SetTop(f)
    BY <1>7
  <2> HIDE DEF f
  <2>5. StackOK' /\ Depth' = Depth
    BY <1>2, <2>2, <2>3, <2>4, SetTopKeepsStack
  <2>6. stack' # <<>>
    BY <1>2, <2>5 DEF StackOK, Depth
  <2>7. PlaceOK' /\ OutcomeInHand'
    BY <1>2, <1>7, <2>5, <2>6 DEF PlaceOK, OutcomeInHand, Places
  <2>8. ControlOK'
    BY <1>1, <1>7 DEF TypeInv, ControlOK
  <2>9. QED BY <1>4, <1>5, <2>5, <2>7, <2>8 DEF TypeInv
<1>8. QED BY <1>3, <1>6, <1>7

LEMMA TypeCancel == TypeInv /\ Cancel => TypeInv'
<1> SUFFICES ASSUME TypeInv, Cancel PROVE TypeInv'
  OBVIOUS
<1>1. /\ UNCHANGED <<run, rows, stack, pc, res, used, answer, acted, verified, faults>>
      /\ cancelled' = TRUE
  BY DEF Cancel, history
<1>2. StateOK' /\ RowsAreShaped' /\ ControlOK'
  BY <1>1 DEF TypeInv, StateOK, RowsAreShaped, ControlOK, Keys
<1>3. PlaceOK' /\ StackOK' /\ OutcomeInHand'
  BY <1>1 DEF TypeInv, PlaceOK, StackOK, WellNested, OutcomeInHand, Depth, Keys
<1>4. QED BY <1>2, <1>3 DEF TypeInv

LEMMA TypeExpire == TypeInv /\ Expire => TypeInv'
<1> SUFFICES ASSUME TypeInv, Expire PROVE TypeInv'
  OBVIOUS
<1>1. UNCHANGED <<run, rows, pc, res, cancelled, used, answer, acted, verified, faults>>
  BY DEF Expire, context, history
<1>2. StateOK' /\ RowsAreShaped' /\ ControlOK'
  BY <1>1 DEF TypeInv, StateOK, RowsAreShaped, ControlOK, Keys
<1>3. StackOK' /\ Depth' = Depth /\ Depth > 0 /\ StackOK
  BY ExpireKeepsStack DEF TypeInv
<1>4. stack # <<>> /\ stack' # <<>>
  BY <1>3 DEF Depth, StackOK
<1>5. PlaceOK' /\ OutcomeInHand'
  BY <1>1, <1>3, <1>4 DEF TypeInv, PlaceOK, OutcomeInHand
<1>6. QED BY <1>2, <1>3, <1>5 DEF TypeInv

LEMMA TypeRecorderFails == TypeInv /\ RecorderFails => TypeInv'
<1> SUFFICES ASSUME TypeInv, RecorderFails PROVE TypeInv'
  OBVIOUS
<1>1. UNCHANGED <<run, rows, cancelled, used, acted, verified>>
  BY DEF RecorderFails, context, history
<1>2. faults' \in 0..MaxFaults
  BY WorkflowRunAssumption DEF RecorderFails, TypeInv, ControlOK
<1>3. StateOK' /\ RowsAreShaped'
  BY <1>1 DEF TypeInv, StateOK, RowsAreShaped, Keys
<1>4. CASE /\ pc \in {"enter", "begun", "recovered", "result"}
           /\ Return("FATAL_FAILURE") /\ answer' = answer
  <2>1. Depth > 1
    BY <1>4, AtStep
  <2>2. QED BY <1>1, <1>2, <1>3, <1>4, <2>1, ReturnKeepsTypes, OutcomeKinds
<1>5. CASE /\ pc = "probe" /\ pc' = "recovered" /\ res' = "FATAL_FAILURE"
           /\ UNCHANGED <<stack, answer>>
  <2>1. Depth > 1 /\ StackOK /\ stack # <<>>
    BY <1>5, AtStep DEF TypeInv, PlaceOK
  <2>2. StackOK' /\ Depth' = Depth
    BY <1>5, <2>1 DEF StackOK, WellNested, Depth, Keys
  <2>3. PlaceOK' /\ OutcomeInHand'
    BY <1>5, <2>1, <2>2, OutcomeKinds DEF PlaceOK, OutcomeInHand, Places
  <2>4. ControlOK'
    BY <1>1, <1>2, <1>5, OutcomeKinds DEF TypeInv, ControlOK
  <2>5. QED BY <1>3, <2>2, <2>3, <2>4 DEF TypeInv
<1>6. CASE Answer("FATAL_FAILURE") /\ res' = res
  <2>1. ControlOK'
    BY <1>1, <1>2, <1>6, OutcomeKinds DEF TypeInv, ControlOK, Answer
  <2>2. QED BY <1>3, <1>6, <2>1, EmptyStack DEF TypeInv, Answer
<1>7. QED BY <1>4, <1>5, <1>6 DEF RecorderFails

LEMMA TypeCrash == TypeInv /\ Crash => TypeInv'
<1> SUFFICES ASSUME TypeInv, Crash PROVE TypeInv'
  OBVIOUS
<1>1. /\ UNCHANGED <<run, rows, cancelled, used, answer, acted, verified>>
      /\ res' = "none" /\ stack' = <<>> /\ pc' = "idle"
  BY DEF Crash, context, history
<1>2. faults' \in 0..MaxFaults
  BY WorkflowRunAssumption DEF Crash, TypeInv, ControlOK
<1>3. StateOK' /\ RowsAreShaped' /\ ControlOK'
  BY <1>1, <1>2, OutcomeKinds DEF TypeInv, StateOK, RowsAreShaped, ControlOK, Keys
<1>4. QED BY <1>1, <1>3, EmptyStack DEF TypeInv

LEMMA TypeStutter == TypeInv /\ UNCHANGED vars => TypeInv'
  BY DEF vars, TypeInv, StateOK, RowsAreShaped, ControlOK, PlaceOK, StackOK, WellNested,
         OutcomeInHand, Depth, Keys

LEMMA TypeStep == TypeInv /\ [Next]_vars => TypeInv'
  BY TypeExecute, TypeFinishRun, TypeNextStep, TypeEndSequence, TypeSkipAttempt,
     TypeRecoverAttempt, TypeProbeEffect, TypeFinishRecovered, TypeBeginAttempt, TypeMarkStarted,
     TypeExecuteOnce, TypeActionReturns, TypeVerifyResult, TypeFinishAttempt, TypeCancel,
     TypeExpire, TypeRecorderFails, TypeCrash, TypeStutter DEF Next, EngineStep

\* The engine never leaves its types: a row is always one of the shapes its status
\* allows, frames always nest as their sequences say, and a frame on top is at one
\* of the attempts its step has.
THEOREM EngineTypeCorrect == Spec => []TypeOK
<1>1. Spec => []TypeInv
  BY TypeInit, TypeStep, PTL DEF Spec
<1>2. QED BY <1>1, TypeInvIsTypeOK, PTL

----------------------------------------------------------------------------
(* The write-ahead discipline *)

\* A step that invokes no action, marks no row for one, and takes no mark away.
LEMMA QuietKeeps ==
  ASSUME TypeInv, WriteAheadInv, acted' = acted, pc' \notin {"begun", "marked"},
         \A k \in Keys : rows'[k] = rows[k] \/ ~Unmarked(k)'
  PROVE  WriteAheadInv'
<1>1. ActedAtMostOnce'
  BY DEF WriteAheadInv, ActedAtMostOnce, Keys
<1>2. UnmarkedHasNotActed'
  <2> SUFFICES ASSUME NEW k \in Keys, Unmarked(k)' PROVE acted'[k] = 0
    BY DEF UnmarkedHasNotActed, Keys
  <2>1. rows'[k] = rows[k]
    OBVIOUS
  <2>2. Unmarked(k)
    BY <2>1 DEF Unmarked
  <2>3. QED BY <2>2 DEF WriteAheadInv, UnmarkedHasNotActed
<1>3. MarkedHasNotActed'
  BY DEF MarkedHasNotActed
<1>4. QED BY <1>1, <1>2, <1>3 DEF WriteAheadInv

\* The same, of a step at a frame that records a result or a verified postcondition.
LEMMA RecordIsQuiet ==
  ASSUME TypeInv, WriteAheadInv, Depth > 1, NEW r, Record(r), acted' = acted,
         pc' \notin {"begun", "marked"},
         \/ r = Running("postcondition_verified")
         \/ \E o \in Successes \cup Failures : r = Finished(o)
  PROVE  WriteAheadInv'
<1>1. r.phase \in {"completed", "side_effect_uncertain", "postcondition_verified"}
  BY FinishedRow DEF Running
<1>2. /\ rows'[Key] = r
      /\ \A k \in Keys : k # Key => rows'[k] = rows[k]
  BY RecordKeeps DEF TypeInv
<1>3. \A k \in Keys : rows'[k] = rows[k] \/ ~Unmarked(k)'
  <2> SUFFICES ASSUME NEW k \in Keys, rows'[k] # rows[k] PROVE ~Unmarked(k)'
    OBVIOUS
  <2>1. rows'[k] = r
    BY <1>2
  <2>2. QED BY <1>1, <2>1 DEF Unmarked
<1>4. QED BY <1>3, QuietKeeps

\* BeginAttempt rewrites only a row that says that nothing has begun.
LEMMA BeginKeepsWriteAhead ==
  ASSUME TypeInv, WriteAheadInv, BeginAttempt
  PROVE  WriteAheadInv'
<1>1. /\ pc = "enter" /\ pc' = "begun" /\ stack' = stack /\ acted' = acted
      /\ Record(Running("precondition_verified"))
      /\ Fresh \/ Interrupted("precondition_verified")
  BY DEF BeginAttempt, history
<1>2. Depth > 1 /\ StackOK /\ Key \in Keys
  BY <1>1, AtStep
<1>3. Unmarked(Key)
  BY <1>1, <1>2 DEF Fresh, Interrupted, Unmarked, TypeInv, RowsAreShaped, NoRow, Terminal
<1>4. acted[Key] = 0
  BY <1>2, <1>3 DEF WriteAheadInv, UnmarkedHasNotActed
<1>5. /\ rows'[Key] = Running("precondition_verified")
      /\ \A k \in Keys : k # Key => rows'[k] = rows[k]
  BY <1>1, <1>2, RecordKeeps DEF TypeInv
<1>6. ActedAtMostOnce'
  BY <1>1 DEF WriteAheadInv, ActedAtMostOnce, Keys
<1>7. UnmarkedHasNotActed'
  BY <1>1, <1>4, <1>5 DEF WriteAheadInv, UnmarkedHasNotActed, Unmarked, Keys
<1>8. MarkedHasNotActed'
  <2>1. Key' = Key
    BY <1>1 DEF Key, Top, Depth
  <2>2. QED BY <1>1, <1>5, <2>1 DEF MarkedHasNotActed
<1>9. QED BY <1>6, <1>7, <1>8 DEF WriteAheadInv

\* MarkStarted writes ahead of an action that was not invoked yet.
LEMMA MarkKeepsWriteAhead ==
  ASSUME TypeInv, WriteAheadInv, MarkStarted
  PROVE  WriteAheadInv'
<1>1. /\ pc = "begun" /\ pc' = "marked" /\ stack' = stack /\ acted' = acted
      /\ Record(Running("side_effect_started"))
  BY DEF MarkStarted, history
<1>2. Depth > 1 /\ StackOK /\ Key \in Keys
  BY <1>1, AtStep
<1>3. Unmarked(Key)
  BY <1>1 DEF WriteAheadInv, MarkedHasNotActed, Unmarked, Running
<1>4. acted[Key] = 0
  BY <1>2, <1>3 DEF WriteAheadInv, UnmarkedHasNotActed
<1>5. /\ rows'[Key] = Running("side_effect_started")
      /\ \A k \in Keys : k # Key => rows'[k] = rows[k]
  BY <1>1, <1>2, RecordKeeps DEF TypeInv
<1>6. ActedAtMostOnce'
  BY <1>1 DEF WriteAheadInv, ActedAtMostOnce, Keys
<1>7. UnmarkedHasNotActed'
  BY <1>1, <1>4, <1>5 DEF WriteAheadInv, UnmarkedHasNotActed, Unmarked, Keys
<1>8. MarkedHasNotActed'
  <2>1. Key' = Key
    BY <1>1 DEF Key, Top, Depth
  <2>2. QED BY <1>1, <1>4, <1>5, <2>1 DEF MarkedHasNotActed
<1>9. QED BY <1>6, <1>7, <1>8 DEF WriteAheadInv

\* ExecuteOnce invokes the action of a row marked for it, which was not invoked before.
LEMMA ExecuteKeepsWriteAhead ==
  ASSUME TypeInv, WriteAheadInv, ExecuteOnce
  PROVE  WriteAheadInv'
<1>1. pc = "marked" /\ pc' \in {"result", "acting", "next", "returned"} /\ rows' = rows
  BY DEF ExecuteOnce
<1>2. CASE acted' = acted
  BY <1>1, <1>2, QuietKeeps
<1>3. CASE acted' = [acted EXCEPT ![Key] = @ + 1]
  <2>1. Key \in Keys /\ acted \in [Keys -> Nat]
    BY <1>1, AtStep DEF TypeInv, StateOK
  <2>2. acted[Key] = 0 /\ ~Unmarked(Key)
    BY <1>1 DEF WriteAheadInv, MarkedHasNotActed, Unmarked, Running
  <2>3. acted'[Key] = 1 /\ \A k \in Keys : k # Key => acted'[k] = acted[k]
    BY <1>3, <2>1, <2>2
  <2>4. ActedAtMostOnce'
    <3> SUFFICES ASSUME NEW k \in Keys PROVE acted'[k] <= 1
      BY DEF ActedAtMostOnce, Keys
    <3>1. acted[k] <= 1
      BY DEF WriteAheadInv, ActedAtMostOnce
    <3>2. QED BY <2>3, <3>1
  <2>5. UnmarkedHasNotActed'
    <3> SUFFICES ASSUME NEW k \in Keys, Unmarked(k)' PROVE acted'[k] = 0
      BY DEF UnmarkedHasNotActed, Keys
    <3>1. Unmarked(k) /\ k # Key
      BY <1>1, <2>2 DEF Unmarked
    <3>2. QED BY <2>3, <3>1 DEF WriteAheadInv, UnmarkedHasNotActed
  <2>6. MarkedHasNotActed'
    BY <1>1 DEF MarkedHasNotActed
  <2>7. QED BY <2>4, <2>5, <2>6 DEF WriteAheadInv
<1>4. QED BY <1>2, <1>3 DEF ExecuteOnce

\* The steps that write no row and invoke no action.
LEMMA ReadingKeepsWriteAhead ==
  ASSUME TypeInv, WriteAheadInv,
         \/ Execute \/ FinishRun \/ NextStep \/ EndSequence \/ SkipAttempt \/ RecoverAttempt
         \/ ActionReturns \/ VerifyResult \/ RecorderFails \/ Crash
  PROVE  WriteAheadInv'
<1>1. rows' = rows /\ acted' = acted
  BY DEF Execute, FinishRun, NextStep, EndSequence, SkipAttempt, RecoverAttempt, ActionReturns,
         VerifyResult, RecorderFails, Crash, history
<1>2. pc' \notin {"begun", "marked"}
  <2>1. CASE Execute \/ FinishRun \/ Crash
    BY <2>1 DEF Execute, FinishRun, Answer, Crash
  <2>2. CASE NextStep \/ RecoverAttempt \/ ActionReturns \/ VerifyResult
    BY <2>2 DEF NextStep, RecoverAttempt, ActionReturns, VerifyResult
  <2>3. CASE EndSequence
    BY <2>3 DEF EndSequence
  <2>4. CASE SkipAttempt
    BY <2>4 DEF SkipAttempt, Return
  <2>5. CASE RecorderFails
    BY <2>5 DEF RecorderFails, Return, Answer
  <2>6. QED BY <2>1, <2>2, <2>3, <2>4, <2>5
<1>3. QED BY <1>1, <1>2, QuietKeeps

\* The steps that record a result.
LEMMA SettlingKeepsWriteAhead ==
  ASSUME TypeInv, WriteAheadInv, ProbeEffect \/ FinishRecovered \/ FinishAttempt
  PROVE  WriteAheadInv'
<1>1. CASE ProbeEffect
  <2>1. Depth > 1 /\ acted' = acted /\ pc' = "recovered"
    BY <1>1, AtStep DEF ProbeEffect
  <2>2. CASE Record(Running("postcondition_verified"))
    BY <2>1, <2>2, RecordIsQuiet
  <2>3. CASE rows' = rows
    BY <2>1, <2>3, QuietKeeps
  <2>4. QED BY <1>1, <2>2, <2>3 DEF ProbeEffect
<1>2. CASE FinishRecovered
  <2>1. /\ pc = "recovered" /\ acted' = acted /\ Record(Finished(res))
        /\ pc' \in {"next", "sequence_end"}
    BY <1>2 DEF FinishRecovered, Return, history
  <2>2. Depth > 1 /\ res \in Successes \cup Failures
    BY <2>1, AtStep DEF TypeInv, OutcomeInHand
  <2>3. QED BY <2>1, <2>2, RecordIsQuiet
<1>3. CASE FinishAttempt
  <2>1. pc = "result" /\ acted' = acted
    BY <1>3 DEF FinishAttempt, history
  <2>2. Depth > 1
    BY <2>1, AtStep
  <2>3. PICK o \in Successes \cup Failures :
           /\ Record(Finished(o))
           /\ \/ Return(o)
              \/ /\ Top.attempt + 1 \in 1..Attempts[Top.step]
                 /\ SetTop(Frame(Top.step, Top.attempt + 1))
                 /\ pc' = "enter" /\ res' = res
    BY <1>3, FinishAttemptSteps
  <2>4. pc' \in {"next", "sequence_end", "enter"}
    BY <2>3 DEF Return
  <2>5. QED BY <2>1, <2>2, <2>3, <2>4, RecordIsQuiet
<1>4. QED BY <1>1, <1>2, <1>3

\* The steps that leave the engine where it is.
LEMMA WaitingKeepsWriteAhead ==
  ASSUME TypeInv, WriteAheadInv, Cancel \/ Expire \/ UNCHANGED vars
  PROVE  WriteAheadInv'
<1>1. rows' = rows /\ acted' = acted /\ pc' = pc
  BY DEF Cancel, Expire, vars, history
<1>2. Key' = Key
  <2>1. CASE Expire
    BY <2>1, ExpireKeepsStack DEF TypeInv
  <2>2. CASE stack' = stack
    BY <2>2 DEF Key, Top, Depth
  <2>3. QED BY <2>1, <2>2 DEF Cancel, vars
<1>3. QED BY <1>1, <1>2 DEF WriteAheadInv, ActedAtMostOnce, UnmarkedHasNotActed,
                           MarkedHasNotActed, Unmarked, Keys

LEMMA WriteAheadInit == Init => WriteAheadInv
  BY DEF Init, WriteAheadInv, ActedAtMostOnce, UnmarkedHasNotActed, MarkedHasNotActed

LEMMA WriteAheadStep == TypeInv /\ WriteAheadInv /\ [Next]_vars => WriteAheadInv'
  BY ReadingKeepsWriteAhead, SettlingKeepsWriteAhead, WaitingKeepsWriteAhead,
     BeginKeepsWriteAhead, MarkKeepsWriteAhead, ExecuteKeepsWriteAhead DEF Next, EngineStep

LEMMA WriteAheadInvariant == Spec => [](TypeInv /\ WriteAheadInv)
  BY TypeInit, TypeStep, WriteAheadInit, WriteAheadStep, PTL DEF Spec

\* Whatever crashes, retries, cancellations, deadlines and failing recorder calls do,
\* the action of one attempt of a step is invoked at most once.
THEOREM ActsAtMostOnce == Spec => []ActedAtMostOnce
<1>1. WriteAheadInv => ActedAtMostOnce
  BY DEF WriteAheadInv
<1>2. QED BY <1>1, WriteAheadInvariant, PTL

\* An action that was invoked is on record in its row for ever after, so a later
\* execution of the run never takes it for one that has not begun.
THEOREM EffectsAreRecorded == Spec => []EffectIsRecorded
<1>1. TypeInv /\ WriteAheadInv => EffectIsRecorded
  <2> SUFFICES ASSUME TypeInv, WriteAheadInv, NEW k \in Keys, acted[k] > 0
               PROVE  \/ rows[k].status \in Terminal
                      \/ rows[k].status = "running"
                         /\ rows[k].phase \in {"side_effect_started", "postcondition_verified"}
    BY DEF EffectIsRecorded
  <2>1. ~Unmarked(k)
    BY DEF WriteAheadInv, UnmarkedHasNotActed
  <2>2. QED BY <2>1 DEF Unmarked, TypeInv, RowsAreShaped, NoRow
<1>2. QED BY <1>1, WriteAheadInvariant, PTL
----------------------------------------------------------------------------
(* Postconditions *)

\* A success in hand is verified, if its step has a postcondition.
SuccessInHand ==
  /\ pc = "recovered" /\ res = "SUCCESS" => Key \in verified
  /\ pc = "result" /\ res = "SUCCESS" /\ Top.step \in Checked => Key \in verified

\* So is what a row says was seen to hold.
VerifiedOnRecord ==
  \A k \in Keys :
    rows[k].status = "running" /\ rows[k].phase = "postcondition_verified" => k \in verified

VerifiedInv == SuccessIsVerified /\ VerifiedOnRecord /\ SuccessInHand

\* Recording a row keeps the rows verified, if a success or a verified postcondition
\* is recorded of a verified key only.
LEMMA RecordKeepsVerified ==
  ASSUME TypeInv, VerifiedInv, Depth > 1, verified \subseteq verified', NEW r, Record(r),
         \/ r \in {Running("precondition_verified"), Running("side_effect_started")}
         \/ r = Running("postcondition_verified") /\ Key \in verified'
         \/ \E o \in Successes \cup Failures :
              r = Finished(o) /\ (o = "SUCCESS" /\ Top.step \in Checked => Key \in verified')
  PROVE  (SuccessIsVerified /\ VerifiedOnRecord)'
<1>1. /\ rows'[Key] = r
      /\ \A k \in Keys : k # Key => rows'[k] = rows[k]
  BY RecordKeeps DEF TypeInv
<1>2. Key[1] = Top.step
  BY DEF Key
<1>3. /\ r.outcome = "SUCCESS" /\ Key[1] \in Checked => Key \in verified'
      /\ r.status = "running" /\ r.phase = "postcondition_verified" => Key \in verified'
  BY <1>2, FinishedRow DEF Running, Terminal
<1>4. ASSUME NEW k \in Keys
      PROVE  /\ rows'[k].outcome = "SUCCESS" /\ k[1] \in Checked => k \in verified'
             /\ rows'[k].status = "running" /\ rows'[k].phase = "postcondition_verified"
                  => k \in verified'
  <2>1. CASE k = Key
    BY <1>1, <1>3, <2>1
  <2>2. CASE k # Key
    <3>1. rows'[k] = rows[k]
      BY <1>1, <2>2
    <3>2. QED BY <3>1 DEF VerifiedInv, SuccessIsVerified, VerifiedOnRecord
  <2>3. QED BY <2>1, <2>2
<1>5. QED BY <1>4 DEF SuccessIsVerified, VerifiedOnRecord, Keys

\* A step that writes no row keeps them verified.
LEMMA ReadingKeepsVerified ==
  ASSUME VerifiedInv, verified \subseteq verified', rows' = rows
  PROVE  (SuccessIsVerified /\ VerifiedOnRecord)'
  BY DEF VerifiedInv, SuccessIsVerified, VerifiedOnRecord, Keys

LEMMA VerifiedStep == TypeInv /\ VerifiedInv /\ [Next]_vars => VerifiedInv'
<1> SUFFICES ASSUME TypeInv, VerifiedInv, [Next]_vars PROVE VerifiedInv'
  OBVIOUS
<1>1. CASE \/ Execute \/ FinishRun \/ NextStep \/ EndSequence \/ SkipAttempt \/ ActionReturns
           \/ Crash
  <2>1. rows' = rows /\ verified' = verified
    BY <1>1 DEF Execute, FinishRun, NextStep, EndSequence, SkipAttempt, ActionReturns, Crash, history
  <2>2. CASE pc' \notin {"recovered", "result"}
    BY <2>1, <2>2, ReadingKeepsVerified DEF VerifiedInv, SuccessInHand
  <2>3. pc' \in {"idle", "next", "enter", "sequence_end", "finish", "returned"} \/ UNCHANGED <<pc, stack, res>>
    BY <1>1 DEF Execute, FinishRun, NextStep, EndSequence, SkipAttempt, ActionReturns, Crash,
                Return, Answer
  <2>4. CASE UNCHANGED <<pc, stack, res>>
    BY <2>1, <2>4, ReadingKeepsVerified DEF VerifiedInv, SuccessInHand, Key, Top, Depth
  <2>5. QED BY <2>2, <2>3, <2>4
<1>2. CASE Cancel \/ Expire \/ UNCHANGED vars
  <2>1. rows' = rows /\ verified' = verified /\ pc' = pc /\ res' = res
    BY <1>2 DEF Cancel, Expire, vars, history
  <2>2. Key' = Key
    <3>1. CASE Expire
      BY <3>1, ExpireKeepsStack DEF TypeInv
    <3>2. CASE stack' = stack
      BY <3>2 DEF Key, Top, Depth
    <3>3. QED BY <1>2, <3>1, <3>2 DEF Cancel, vars
  <2>3. Top'.step = Top.step
    BY <2>2 DEF Key
  <2>4. QED BY <2>1, <2>2, <2>3, ReadingKeepsVerified DEF VerifiedInv, SuccessInHand
<1>3. CASE RecoverAttempt
  <2>1. /\ pc = "enter" /\ UNCHANGED <<rows, stack, verified>>
        /\ \/ Interrupted("postcondition_verified") /\ pc' = "recovered"
           \/ pc' = "recovered" /\ res' = "BLOCKED"
           \/ pc' = "probe"
    BY <1>3 DEF RecoverAttempt, history
  <2>2. Key \in Keys /\ Key' = Key
    BY <2>1, AtStep DEF Key, Top, Depth
  <2>3. Interrupted("postcondition_verified") => Key \in verified
    BY <2>2 DEF Interrupted, VerifiedInv, VerifiedOnRecord
  <2>4. SuccessInHand'
    BY <2>1, <2>2, <2>3 DEF SuccessInHand
  <2>5. QED BY <2>1, <2>4, ReadingKeepsVerified DEF VerifiedInv
<1>4. CASE ProbeEffect
  <2>1. /\ pc = "probe" /\ pc' = "recovered" /\ stack' = stack
        /\ \/ /\ Record(Running("postcondition_verified"))
              /\ verified' = verified \cup {Key}
           \/ /\ res' \in {"BLOCKED"} \cup (Outcomes \cap Failures)
              /\ rows' = rows /\ verified' = verified
    BY <1>4 DEF ProbeEffect
  <2>2. Depth > 1 /\ Key' = Key
    BY <2>1, AtStep DEF Key, Top, Depth
  <2>3. CASE Record(Running("postcondition_verified")) /\ verified' = verified \cup {Key}
    <3>1. (SuccessIsVerified /\ VerifiedOnRecord)'
      BY <2>2, <2>3, RecordKeepsVerified
    <3>2. SuccessInHand'
      BY <2>1, <2>2, <2>3 DEF SuccessInHand
    <3>3. QED BY <3>1, <3>2 DEF VerifiedInv
  <2>4. CASE res' \in {"BLOCKED"} \cup (Outcomes \cap Failures) /\ rows' = rows /\ verified' = verified
    <3>1. res' # "SUCCESS"
      BY <2>4 DEF Failures, Halts
    <3>2. QED BY <2>1, <2>4, <3>1, ReadingKeepsVerified DEF VerifiedInv, SuccessInHand
  <2>5. QED BY <2>1, <2>3, <2>4
<1>5. CASE FinishRecovered
  <2>1. /\ pc = "recovered" /\ Record(Finished(res)) /\ verified' = verified
        /\ pc' \in {"next", "sequence_end"}
    BY <1>5 DEF FinishRecovered, Return, history
  <2>2. Depth > 1 /\ res \in Successes \cup Failures
    BY <2>1, AtStep DEF TypeInv, OutcomeInHand
  <2>3. res = "SUCCESS" => Key \in verified
    BY <2>1 DEF VerifiedInv, SuccessInHand
  <2>4. (SuccessIsVerified /\ VerifiedOnRecord)'
    BY <2>1, <2>2, <2>3, RecordKeepsVerified
  <2>5. QED BY <2>1, <2>4 DEF VerifiedInv, SuccessInHand
<1>6. CASE BeginAttempt \/ MarkStarted
  <2>1. /\ pc \in {"enter", "begun"} /\ pc' \in {"begun", "marked"} /\ verified' = verified
        /\ \E phase \in {"precondition_verified", "side_effect_started"} : Record(Running(phase))
    BY <1>6 DEF BeginAttempt, MarkStarted, history
  <2>2. Depth > 1
    BY <2>1, AtStep
  <2>3. (SuccessIsVerified /\ VerifiedOnRecord)'
    BY <2>1, <2>2, RecordKeepsVerified
  <2>4. QED BY <2>1, <2>3 DEF VerifiedInv, SuccessInHand
<1>7. CASE ExecuteOnce
  <2>1. /\ rows' = rows /\ verified' = verified /\ pc' # "recovered"
        /\ pc' = "result" => res' \in {"BLOCKED", "CANCELLED"}
    BY <1>7 DEF ExecuteOnce
  <2>2. QED BY <2>1, ReadingKeepsVerified DEF VerifiedInv, SuccessInHand
<1>8. CASE VerifyResult
  <2>1. /\ pc' = "result" /\ rows' = rows /\ stack' = stack /\ verified \subseteq verified'
        /\ res' = "SUCCESS" /\ Top.step \in Checked => verified' = verified \cup {Key}
    BY <1>8, HaltKinds DEF VerifyResult, Failures, Halts
  <2>2. Key' = Key /\ Top' = Top
    BY <2>1 DEF Key, Top, Depth
  <2>3. SuccessInHand'
    BY <2>1, <2>2 DEF SuccessInHand
  <2>4. QED BY <2>1, <2>3, ReadingKeepsVerified DEF VerifiedInv
<1>9. CASE FinishAttempt
  <2>1. pc = "result" /\ verified' = verified /\ Depth > 1
    BY <1>9, AtStep DEF FinishAttempt, history
  <2>2. PICK o \in Successes \cup Failures :
           /\ Record(Finished(o))
           /\ pc' \in {"next", "sequence_end", "enter"}
           /\ o = "SUCCESS" => res = "SUCCESS"
    <3> DEFINE halt == Halt(Depth - 1)
               outcome == IF halt # "none" /\ res \notin Halts THEN halt ELSE res
    <3>1. outcome \in Successes \cup Failures /\ (outcome = "SUCCESS" => res = "SUCCESS")
      BY <2>1, HaltKinds, OutcomeKinds DEF TypeInv, OutcomeInHand, Halts
    <3>2. Record(Finished(outcome)) /\ pc' \in {"next", "sequence_end", "enter"}
      BY <1>9 DEF FinishAttempt, Return
    <3>3. QED BY <3>1, <3>2
  <2>3. res = "SUCCESS" /\ Top.step \in Checked => Key \in verified
    BY <2>1 DEF VerifiedInv, SuccessInHand
  <2>4. (SuccessIsVerified /\ VerifiedOnRecord)'
    BY <2>1, <2>2, <2>3, RecordKeepsVerified
  <2>5. QED BY <2>2, <2>4 DEF VerifiedInv, SuccessInHand
<1>10. CASE RecorderFails
  <2>1. /\ rows' = rows /\ verified' = verified
        /\ pc' # "result" /\ (pc' = "recovered" => res' = "FATAL_FAILURE")
    BY <1>10 DEF RecorderFails, Return, Answer, history
  <2>2. QED BY <2>1, ReadingKeepsVerified DEF VerifiedInv, SuccessInHand
<1>11. QED
  BY <1>1, <1>2, <1>3, <1>4, <1>5, <1>6, <1>7, <1>8, <1>9, <1>10 DEF Next, EngineStep

LEMMA VerifiedInit == Init => VerifiedInv
  BY DEF Init, VerifiedInv, SuccessIsVerified, VerifiedOnRecord, SuccessInHand, NoRow

\* A step with a postcondition is recorded as SUCCESS only if its postcondition was
\* seen to hold, by the attempt or by its recovery after a crash.
THEOREM SuccessesAreVerified == Spec => []SuccessIsVerified
<1>1. VerifiedInv => SuccessIsVerified
  BY DEF VerifiedInv
<1>2. QED BY <1>1, TypeInit, TypeStep, VerifiedInit, VerifiedStep, PTL DEF Spec

----------------------------------------------------------------------------
(* Settled rows *)

Children(s) == UNION {{body[i] : i \in 1..Len(body)} : body \in Branches[s]}

\* No step key is nested inside itself, over any number of levels: the keys of one
\* workflow are unique and its steps a tree, so it fails only where a sub-workflow
\* takes a step key of its caller.
StepsNest ==
  \E height \in [Steps -> Nat] : \A s \in Steps : \A c \in Children(s) : height[c] < height[s]

Height ==
  CHOOSE height \in [Steps -> Nat] : \A s \in Steps : \A c \in Children(s) : height[c] < height[s]

ChildSeq(s, q) == \A i \in 1..Len(q) : q[i] \in Children(s)

\* A frame runs children of its step.
ChildrenInv ==
  \A n \in 1..Depth :
    ChildSeq(stack[n].step, stack[n].todo) /\ ChildSeq(stack[n].step, stack[n].body)

\* The steps on the stack get smaller, so that no key is on it twice.
DescendInv == \A m, n \in 2..Depth : m < n => Height[stack[n].step] < Height[stack[m].step]

FrameKey(n) == <<stack[n].step, stack[n].attempt>>

Busy == {"next", "sequence_end", "probe", "recovered", "begun", "marked", "acting", "returned",
         "result"}

\* The row of a step under way is running, that of the run too.
OpenInv ==
  /\ \A n \in 2..Depth : (n < Depth \/ pc \in Busy) => rows[FrameKey(n)].status = "running"
  /\ pc # "idle" => run.status = "running"

NestInv == ChildrenInv /\ DescendInv

\* What the operations on the stack do to its frames.
LEMMA SetTopFrames ==
  ASSUME StackOK, Depth > 1, NEW f, SetTop(f)
  PROVE  /\ Depth' = Depth /\ Depth \in Nat /\ stack'[Depth] = f
         /\ \A n \in 1..Depth : n # Depth => stack'[n] = stack[n]
<1>1. stack \in Seq(FrameSet) /\ Depth \in Nat /\ DOMAIN stack = 1..Depth
  BY DEF StackOK, Depth
<1>2. stack' = [stack EXCEPT ![Depth] = f]
  BY DEF SetTop
<1>3. Len(stack') = Len(stack)
  BY <1>1, <1>2 DEF Depth
<1>4. stack'[Depth] = f /\ \A n \in 1..Depth : n # Depth => stack'[n] = stack[n]
  BY <1>1, <1>2
<1>5. QED BY <1>1, <1>3, <1>4 DEF Depth

LEMMA PopFrames ==
  ASSUME StackOK, Depth > 1, NEW o, Pop(o)
  PROVE  /\ Depth' = Depth - 1 /\ Depth \in Nat
         /\ stack'[Depth - 1] = Advance(stack[Depth - 1], o)
         /\ \A n \in 1..(Depth - 1) : n # Depth - 1 => stack'[n] = stack[n]
<1> DEFINE d == Depth - 1
           lower == SubSeq(stack, 1, d)
           parent == Advance(stack[d], o)
<1>1. stack \in Seq(FrameSet) /\ Depth \in Nat /\ d \in 1..Depth /\ Len(stack) = Depth
  BY DEF StackOK, Depth
<1>2. /\ lower \in Seq(FrameSet) /\ Len(lower) = d /\ DOMAIN lower = 1..d
      /\ \A n \in 1..d : lower[n] = stack[n]
  BY <1>1
<1>3. stack' = [lower EXCEPT ![d] = parent]
  BY DEF Pop
<1>4. Depth' = d
  BY PopKeepsStack
<1> HIDE DEF lower, parent
<1>5. stack'[d] = parent /\ \A n \in 1..d : n # d => stack'[n] = stack[n]
  BY <1>1, <1>2, <1>3
<1>6. QED BY <1>1, <1>4, <1>5 DEF parent

LEMMA PushFrames ==
  ASSUME StackOK, Depth > 0, NEW f, stack' = Append(stack, f)
  PROVE  /\ Depth' = Depth + 1 /\ Depth \in Nat /\ stack'[Depth + 1] = f
         /\ \A n \in 1..Depth : stack'[n] = stack[n]
  BY DEF StackOK, Depth

LEMMA ExpireFrames ==
  ASSUME StackOK, Expire
  PROVE  /\ Depth' = Depth /\ Depth \in Nat
         /\ \A n \in 1..Depth :
              /\ stack'[n].step = stack[n].step /\ stack'[n].attempt = stack[n].attempt
              /\ stack'[n].todo = stack[n].todo /\ stack'[n].body = stack[n].body
<1>1. PICK n \in 1..Depth : stack' = [stack EXCEPT ![n].late = TRUE]
  BY DEF Expire
<1>2. Depth' = Depth /\ Depth \in Nat /\ DOMAIN stack = 1..Depth
  BY ExpireKeepsStack DEF StackOK, Depth
<1>3. ASSUME NEW m \in 1..Depth
      PROVE  /\ stack'[m].step = stack[m].step /\ stack'[m].attempt = stack[m].attempt
             /\ stack'[m].todo = stack[m].todo /\ stack'[m].body = stack[m].body
  <2>1. stack'[m] = IF m = n THEN [stack[m] EXCEPT !.late = TRUE] ELSE stack[m]
    BY <1>1, <1>2
  <2>2. stack[m] \in FrameSet
    BY <1>2 DEF StackOK, Depth
  <2>3. QED BY <2>1, <2>2 DEF FrameSet
<1>4. QED BY <1>2, <1>3

\* The children of a branch, and of the rest of a sequence of children.
LEMMA ChildSeqs ==
  /\ \A s : \A body \in Branches[s] : ChildSeq(s, body)
  /\ \A s : ChildSeq(s, <<>>)
  /\ \A s, q : q \in Seq(Steps) /\ q # <<>> /\ ChildSeq(s, q) =>
                 ChildSeq(s, Tail(q)) /\ Head(q) \in Children(s)
<1>1. \A s : \A body \in Branches[s] : ChildSeq(s, body)
  BY DEF ChildSeq, Children
<1>2. \A s : ChildSeq(s, <<>>)
  BY DEF ChildSeq
<1>3. ASSUME NEW s, NEW q \in Seq(Steps), q # <<>>, ChildSeq(s, q)
      PROVE  ChildSeq(s, Tail(q)) /\ Head(q) \in Children(s)
  <2>1. Len(q) \in Nat /\ Len(q) > 0 /\ Head(q) = q[1]
    BY <1>3
  <2>2. Len(Tail(q)) = Len(q) - 1 /\ \A i \in 1..Len(Tail(q)) : Tail(q)[i] = q[i + 1]
    BY <1>3
  <2>3. QED BY <1>3, <2>1, <2>2 DEF ChildSeq
<1>4. QED BY <1>1, <1>2, <1>3

\* Heights decrease from a step to its children.
LEMMA HeightFacts ==
  ASSUME StepsNest
  PROVE  /\ Height \in [Steps -> Nat]
         /\ \A s \in Steps : \A c \in Children(s) : Height[c] < Height[s]
  BY DEF StepsNest, Height

\* What a step may do to the stack.
StackMoves ==
  \/ stack' = stack
  \/ stack' = <<>>
  \/ /\ pc' = "next" /\ Depth' = 1
     /\ \E body \in Branches[Workflow] : stack' = <<Restart(Frame(Workflow, 1), body, 0)>>
  \/ /\ Depth > 0 /\ Top.todo # <<>> /\ stack' = Append(stack, Frame(Head(Top.todo), 1))
     /\ pc = "next" /\ pc' = "enter" /\ rows' = rows
  \/ /\ Depth > 1
     /\ \E left : \E body \in Branches[Top.step] \cup {Top.body} : SetTop(Restart(Top, body, left))
     /\ pc \in Busy /\ rows' = rows
  \/ /\ Depth > 1 /\ pc' = "enter"
     /\ \E a : SetTop(Frame(Top.step, a))
  \/ Depth > 1 /\ \E o : Return(o) /\ (o \in Successes => rows'[Key].status = "completed")
  \/ Expire

LEMMA Moves == TypeInv /\ [Next]_vars => StackMoves
<1> SUFFICES ASSUME TypeInv, [Next]_vars PROVE StackMoves
  OBVIOUS
<1>1. CASE Execute
  BY <1>1 DEF Execute, StackMoves, Depth
<1>2. CASE FinishRun \/ Crash
  BY <1>2 DEF FinishRun, Answer, Crash, StackMoves
<1>3. CASE NextStep
  <2>1. pc = "next" /\ rows' = rows
    BY <1>3 DEF NextStep
  <2>2. Depth > 0
    BY <2>1 DEF TypeInv, PlaceOK, StackOK, Depth
  <2>3. QED BY <1>3, <2>1, <2>2 DEF NextStep, StackMoves
<1>4. CASE EndSequence
  BY <1>4 DEF EndSequence, StackMoves, Busy
<1>5. CASE RecoverAttempt \/ ProbeEffect \/ BeginAttempt \/ MarkStarted \/ ActionReturns
           \/ VerifyResult \/ Cancel \/ UNCHANGED vars
  <2>1. stack' = stack
    BY <1>5 DEF RecoverAttempt, ProbeEffect, BeginAttempt, MarkStarted, ActionReturns,
                VerifyResult, Cancel, vars
  <2>2. QED BY <2>1 DEF StackMoves
<1>6. CASE SkipAttempt \/ FinishRecovered \/ FinishAttempt
  <2>1. Depth > 1 /\ Key \in Keys /\ rows[Key] \in RowSet
    BY <1>6, AtStep DEF SkipAttempt, FinishRecovered, FinishAttempt
  <2>2. CASE SkipAttempt
    <3>1. PICK o : Return(o) /\ (o \in Successes => rows[Key].status = "completed")
      BY <2>1, <2>2, HaltKinds DEF SkipAttempt, TypeInv, RowsAreShaped, NoRow, Status, Terminal,
         Halts, Successes
    <3>2. rows' = rows
      BY <2>2 DEF SkipAttempt
    <3>3. QED BY <2>1, <3>1, <3>2 DEF StackMoves
  <2>3. ASSUME NEW o, Record(Finished(o)), Return(o) PROVE StackMoves
    <3>1. rows'[Key] = Finished(o)
      BY <2>1, <2>3 DEF Record, TypeInv, StateOK
    <3>2. o \in Successes => rows'[Key].status = "completed"
      BY <3>1 DEF Finished, Status, Successes
    <3>3. QED BY <2>1, <2>3, <3>2 DEF StackMoves
  <2>4. CASE FinishRecovered
    BY <2>3, <2>4 DEF FinishRecovered
  <2>5. CASE FinishAttempt
    <3>1. PICK o : Record(Finished(o)) /\ (Return(o) \/ (pc' = "enter" /\ \E a : SetTop(Frame(Top.step, a))))
      BY <2>5, FinishAttemptSteps
    <3>2. QED BY <2>1, <2>3, <3>1 DEF StackMoves
  <2>6. QED BY <1>6, <2>2, <2>4, <2>5
<1>7. CASE ExecuteOnce
  <2>1. Depth > 1 /\ pc = "marked" /\ rows' = rows
    BY <1>7, AtStep DEF ExecuteOnce
  <2>2. QED BY <1>7, <2>1 DEF ExecuteOnce, StackMoves, Busy
<1>8. CASE RecorderFails
  <2>1. CASE pc \in {"enter", "begun", "recovered", "result"} /\ Return("FATAL_FAILURE")
    <3>1. Depth > 1
      BY <2>1, AtStep
    <3>2. "FATAL_FAILURE" \notin Successes
      BY DEF Successes
    <3>3. QED BY <2>1, <3>1, <3>2 DEF StackMoves
  <2>2. CASE stack' = stack \/ stack' = <<>>
    BY <2>2 DEF StackMoves
  <2>3. QED BY <1>8, <2>1, <2>2 DEF RecorderFails, Answer
<1>9. CASE Expire
  BY <1>9 DEF StackMoves
<1>10. QED
  BY <1>1, <1>2, <1>3, <1>4, <1>5, <1>6, <1>7, <1>8, <1>9 DEF Next, EngineStep

\* Frames that stay at their steps keep decreasing.
LEMMA StayingDescends ==
  ASSUME DescendInv, Depth \in Nat, Depth' \in Nat, Depth' <= Depth,
         \A n \in 1..Depth' : stack'[n].step = stack[n].step
  PROVE  DescendInv'
<1>1. \A m, n \in 2..Depth' : m < n => Height[stack'[n].step] < Height[stack'[m].step]
  BY DEF DescendInv
<1>2. QED BY <1>1 DEF DescendInv, Height, Children

\* The frames stay nested in the order of the steps' heights.
LEMMA NestedStep ==
  ASSUME StepsNest, TypeInv, NestInv, [Next]_vars
  PROVE  NestInv'
<1>0. StackMoves
  BY Moves
<1>a. /\ StackOK /\ stack \in Seq(FrameSet) /\ Depth \in Nat
      /\ \A n \in 1..Depth : stack[n] \in FrameSet
  BY DEF TypeInv, StackOK, Depth
<1>b. \A n \in 1..Depth : stack[n].todo \in Seq(Steps) /\ stack[n].body \in Seq(Steps)
  BY <1>a DEF FrameSet
<1> DEFINE Nested(f) == ChildSeq(f.step, f.todo) /\ ChildSeq(f.step, f.body)
<1>c. \A n \in 1..Depth : Nested(stack[n])
  BY DEF NestInv, ChildrenInv
<1>d. (\A n \in 1..Depth' : Nested(stack'[n])) => ChildrenInv'
  BY DEF ChildrenInv, ChildSeq, Children
<1> HIDE DEF Nested
<1>e. \A s, a : Nested(Frame(s, a))
  BY ChildSeqs DEF Frame, Nested
<1>f. \A f, left : \A body \in Branches[f.step] \cup {f.body} :
        Nested(f) => Nested(Restart(f, body, left))
  BY ChildSeqs DEF Restart, Nested
<1>g. \A f, o : f.todo \in Seq(Steps) /\ f.todo # <<>> /\ Nested(f) => Nested(Advance(f, o))
  BY ChildSeqs DEF Advance, Nested
<1>1. CASE stack' = stack
  BY <1>1, <1>a, <1>c, <1>d, StayingDescends DEF NestInv, Depth
<1>2. CASE stack' = <<>>
  <2>1. Depth' = 0
    BY <1>2 DEF Depth
  <2>2. QED BY <2>1, <1>d DEF NestInv, DescendInv
<1>3. CASE \E body \in Branches[Workflow] : stack' = <<Restart(Frame(Workflow, 1), body, 0)>>
  <2>1. PICK body \in Branches[Workflow] : stack' = <<Restart(Frame(Workflow, 1), body, 0)>>
    BY <1>3
  <2>2. Depth' = 1 /\ stack'[1] = Restart(Frame(Workflow, 1), body, 0)
    BY <2>1 DEF Depth
  <2>3. Frame(Workflow, 1).step = Workflow
    BY DEF Frame
  <2>4. Nested(stack'[1])
    BY <2>2, <2>3, <1>e, <1>f
  <2>5. QED BY <2>2, <2>4, <1>d DEF NestInv, DescendInv
<1>4. CASE Depth > 0 /\ Top.todo # <<>> /\ stack' = Append(stack, Frame(Head(Top.todo), 1))
  <2> DEFINE f == Frame(Head(Top.todo), 1)
  <2>1. /\ Depth' = Depth + 1 /\ stack'[Depth + 1] = f
        /\ \A n \in 1..Depth : stack'[n] = stack[n]
    BY <1>4, <1>a, PushFrames
  <2>2. \A n \in 1..Depth' : Nested(stack'[n])
    <3>1. \A n \in 1..Depth' : n \in 1..Depth \/ n = Depth + 1
      BY <2>1, <1>a
    <3>2. Nested(f)
      BY <1>e
    <3>3. QED BY <2>1, <3>1, <3>2, <1>c
  <2>3. Top = stack[Depth] /\ Depth \in 1..Depth /\ Top.todo \in Seq(Steps) /\ Top.step \in Steps \cup {Workflow}
    BY <1>4, <1>a, <1>b DEF Top, FrameSet
  <2>4. Head(Top.todo) \in Children(Top.step) /\ Head(Top.todo) \in Steps
    BY <2>3, <1>4, <1>c, ChildSeqs DEF Nested
  <2>5. f.step = Head(Top.todo)
    BY DEF Frame
  <2>6. ASSUME NEW m \in 2..Depth', NEW n \in 2..Depth', m < n
        PROVE  Height[stack'[n].step] < Height[stack'[m].step]
    <3>1. m \in 2..Depth /\ (n \in 2..Depth \/ n = Depth + 1)
      BY <2>1, <2>6, <1>a
    <3>2. CASE n \in 2..Depth
      BY <3>1, <3>2, <2>1, <2>6 DEF NestInv, DescendInv
    <3>3. CASE n = Depth + 1
      <4>1. stack[m].step \in Steps /\ Top.step \in Steps
        <5>1. Depth \in 2..Depth
          BY <3>1, <1>a
        <5>2. <<stack[m].step, stack[m].attempt>> \in Keys /\ <<Top.step, Top.attempt>> \in Keys
          BY <3>1, <5>1, <2>3, <1>a DEF StackOK, WellNested
        <5>3. QED BY <5>2 DEF Keys
      <4>2. Height[f.step] < Height[Top.step] /\ Height \in [Steps -> Nat]
        BY <4>1, <2>4, <2>5, HeightFacts
      <4>3. m = Depth \/ Height[Top.step] < Height[stack[m].step]
        <5>1. m = Depth \/ (m < Depth /\ Depth \in 2..Depth)
          BY <3>1, <1>a
        <5>2. QED BY <5>1, <3>1, <2>3 DEF NestInv, DescendInv
      <4>4. /\ Height[f.step] \in Nat /\ Height[Top.step] \in Nat
            /\ Height[stack[m].step] \in Nat
        BY <4>1, <4>2, <2>4, <2>5
      <4>5. Height[f.step] < Height[stack[m].step]
        BY <4>2, <4>3, <4>4, <2>3
      <4>6. stack'[n] = f /\ stack'[m] = stack[m]
        BY <3>1, <3>3, <2>1
      <4>7. QED BY <4>5, <4>6
    <3>4. QED BY <3>1, <3>2, <3>3
  <2>7. DescendInv'
    BY <2>6 DEF DescendInv, Height, Children
  <2>8. QED BY <2>2, <2>7, <1>d DEF NestInv
<1>5. CASE Depth > 1 /\ \E f : SetTop(f) /\ f.step = Top.step /\ (Nested(Top) => Nested(f))
  <2>1. PICK f : SetTop(f) /\ f.step = Top.step /\ (Nested(Top) => Nested(f))
    BY <1>5
  <2>2. /\ Depth' = Depth /\ stack'[Depth] = f
        /\ \A n \in 1..Depth : n # Depth => stack'[n] = stack[n]
    BY <1>5, <1>a, <2>1, SetTopFrames
  <2>3. Top = stack[Depth] /\ Depth \in 1..Depth
    BY <1>5, <1>a DEF Top
  <2>4. \A n \in 1..Depth' : Nested(stack'[n]) /\ stack'[n].step = stack[n].step
    BY <2>1, <2>2, <2>3, <1>c
  <2>5. QED BY <2>2, <2>4, <1>a, <1>d, StayingDescends DEF NestInv
<1>6. CASE Depth > 1 /\ \E o : Pop(o)
  <2>1. PICK o : Pop(o)
    BY <1>6
  <2>2. /\ Depth' = Depth - 1
        /\ stack'[Depth - 1] = Advance(stack[Depth - 1], o)
        /\ \A n \in 1..(Depth - 1) : n # Depth - 1 => stack'[n] = stack[n]
    BY <1>6, <1>a, <2>1, PopFrames
  <2>3. Depth - 1 \in 1..Depth /\ Depth \in 2..Depth
    BY <1>6, <1>a
  <2>4. stack[Depth - 1].todo # <<>>
    BY <2>3, <1>a DEF StackOK, WellNested
  <2>5. Nested(Advance(stack[Depth - 1], o))
    BY <2>3, <2>4, <1>b, <1>c, <1>g
  <2>6. Advance(stack[Depth - 1], o).step = stack[Depth - 1].step
    BY DEF Advance
  <2>7. \A n \in 1..Depth' : n \in 1..Depth /\ n \in 1..(Depth - 1)
    BY <2>2, <2>3, <1>a
  <2>8. \A n \in 1..Depth' : Nested(stack'[n]) /\ stack'[n].step = stack[n].step
    BY <2>2, <2>5, <2>6, <2>7, <1>c
  <2>9. Depth' \in Nat /\ Depth' <= Depth
    BY <2>2, <2>3, <1>a
  <2>10. QED BY <2>8, <2>9, <1>a, <1>d, StayingDescends DEF NestInv
<1>7. CASE Expire
  <2>1. /\ Depth' = Depth
        /\ \A n \in 1..Depth :
              /\ stack'[n].step = stack[n].step
              /\ stack'[n].todo = stack[n].todo /\ stack'[n].body = stack[n].body
    BY <1>7, <1>a, ExpireFrames
  <2>2. \A n \in 1..Depth' : Nested(stack'[n])
    BY <2>1, <1>c DEF Nested
  <2>3. QED BY <2>1, <2>2, <1>a, <1>d, StayingDescends DEF NestInv
<1>8. ASSUME Depth > 1,
             NEW body \in Branches[Top.step] \cup {Top.body}, NEW left, SetTop(Restart(Top, body, left))
      PROVE  NestInv'
  <2>1. Restart(Top, body, left).step = Top.step
    BY DEF Restart
  <2>2. QED BY <1>8, <2>1, <1>5, <1>f
<1>9. ASSUME Depth > 1, NEW a, SetTop(Frame(Top.step, a)) PROVE NestInv'
  <2>1. Frame(Top.step, a).step = Top.step
    BY DEF Frame
  <2>2. QED BY <1>9, <2>1, <1>5, <1>e
<1>10. QED BY <1>0, <1>1, <1>2, <1>3, <1>4, <1>6, <1>7, <1>8, <1>9 DEF StackMoves, Return

\* The row of a step under way on top is running.
LEMMA OpenTop ==
  ASSUME TypeInv, OpenInv, Depth > 1, pc \in Busy
  PROVE  rows[Key].status = "running"
<1>1. Depth \in Nat /\ Depth \in 2..Depth
  BY DEF TypeInv, StackOK, Depth
<1>2. rows[FrameKey(Depth)].status = "running"
  BY <1>1 DEF OpenInv
<1>3. QED BY <1>2 DEF FrameKey, Key, Top

\* It is so after a step that leaves the stack alone, too.
LEMMA BusyOpen ==
  ASSUME TypeInv, OpenInv, [Next]_vars, stack' = stack, Depth > 1, pc' \in Busy
  PROVE  rows'[Key].status = "running"
<1>0. stack # <<>> /\ Depth' = Depth
  BY DEF Depth
<1>1. CASE pc \in Busy /\ rows' = rows
  BY <1>1, OpenTop
<1>2. CASE \E phase : Record(Running(phase)) /\ Key \in Keys
  BY <1>2 DEF Record, Running, TypeInv, StateOK
<1>3. CASE Execute \/ FinishRun \/ Crash
  BY <1>0, <1>3 DEF Execute, FinishRun, Answer, Crash, TypeInv, PlaceOK
<1>4. CASE NextStep
  <2>1. pc = "next" /\ rows' = rows
    BY <1>4 DEF NextStep
  <2>2. QED BY <1>1, <2>1 DEF Busy
<1>5. CASE EndSequence \/ ExecuteOnce \/ ActionReturns \/ VerifyResult
  <2>1. pc \in {"sequence_end", "marked", "acting", "returned"} /\ rows' = rows
    BY <1>5 DEF EndSequence, ExecuteOnce, ActionReturns, VerifyResult
  <2>2. QED BY <1>1, <2>1 DEF Busy
<1>6. CASE RecoverAttempt
  <2>1. /\ pc = "enter" /\ rows' = rows
        /\ \E phase : Interrupted(phase)
    BY <1>6 DEF RecoverAttempt
  <2>2. QED BY <2>1 DEF Interrupted
<1>7. CASE BeginAttempt \/ MarkStarted \/ ProbeEffect
  <2>1. /\ pc \in {"enter", "begun", "probe"}
        /\ (pc = "probe" /\ rows' = rows) \/ \E phase : Record(Running(phase))
    BY <1>7 DEF BeginAttempt, MarkStarted, ProbeEffect
  <2>2. Key \in Keys
    BY <2>1, AtStep
  <2>3. QED BY <1>1, <1>2, <2>1, <2>2 DEF Busy
<1>8. CASE SkipAttempt \/ FinishRecovered
  <2>1. \E o : Pop(o)
    BY <1>8 DEF SkipAttempt, FinishRecovered, Return
  <2>2. Depth' = Depth - 1 /\ Depth \in Nat
    BY <2>1, PopFrames DEF TypeInv
  <2>3. QED BY <1>0, <2>2
<1>9. CASE FinishAttempt
  <2>1. pc' = "enter" \/ \E o : Pop(o)
    BY <1>9 DEF FinishAttempt, Return
  <2>2. CASE \E o : Pop(o)
    <3>1. Depth' = Depth - 1 /\ Depth \in Nat
      BY <2>2, PopFrames DEF TypeInv
    <3>2. QED BY <1>0, <3>1
  <2>3. QED BY <2>1, <2>2 DEF Busy
<1>10. CASE RecorderFails
  <2>1. CASE Return("FATAL_FAILURE")
    <3>1. Pop("FATAL_FAILURE")
      BY <2>1 DEF Return
    <3>2. Depth' = Depth - 1 /\ Depth \in Nat
      BY <3>1, PopFrames DEF TypeInv
    <3>3. QED BY <1>0, <3>2
  <2>2. CASE pc = "probe" /\ rows' = rows
    BY <1>1, <2>2 DEF Busy
  <2>3. CASE stack' = <<>>
    BY <1>0, <2>3
  <2>4. QED BY <1>10, <2>1, <2>2, <2>3 DEF RecorderFails, Answer
<1>11. CASE Cancel \/ Expire \/ UNCHANGED vars
  <2>1. pc' = pc /\ rows' = rows
    BY <1>11 DEF Cancel, Expire, vars
  <2>2. QED BY <1>1, <2>1
<1>12. QED
  BY <1>3, <1>4, <1>5, <1>6, <1>7, <1>8, <1>9, <1>10, <1>11 DEF Next, EngineStep

\* The steps that write a row, and what they leave of it.
RowsMove ==
  \/ rows' = rows
  \/ /\ Depth > 1 /\ Key \in Keys /\ rows[Key].status \notin Terminal
     /\ \A k \in Keys : k # Key => rows'[k] = rows[k]
     /\ \/ rows'[Key].status = "running" /\ stack' = stack
        \/ pc' = "enter"
        \/ \E o : Pop(o)

LEMMA RowsMoves == TypeInv /\ OpenInv /\ [Next]_vars => RowsMove
<1> SUFFICES ASSUME TypeInv, OpenInv, [Next]_vars PROVE RowsMove
  OBVIOUS
<1>1. CASE \/ Execute \/ FinishRun \/ NextStep \/ EndSequence \/ SkipAttempt \/ RecoverAttempt
           \/ ExecuteOnce \/ ActionReturns \/ VerifyResult \/ Cancel \/ Expire \/ RecorderFails
           \/ Crash \/ UNCHANGED vars
  <2>1. rows' = rows
    BY <1>1 DEF Execute, FinishRun, NextStep, EndSequence, SkipAttempt, RecoverAttempt,
                ExecuteOnce, ActionReturns, VerifyResult, Cancel, Expire, RecorderFails, Crash, vars
  <2>2. QED BY <2>1 DEF RowsMove
<1>2. CASE BeginAttempt \/ MarkStarted \/ ProbeEffect
  <2>1. /\ pc \in {"enter", "begun", "probe"} /\ stack' = stack
        /\ rows' = rows \/ \E phase \in Phases : Record(Running(phase))
    BY <1>2 DEF BeginAttempt, MarkStarted, ProbeEffect, Phases
  <2>2. Depth > 1 /\ Key \in Keys
    BY <2>1, AtStep
  <2>3. rows[Key].status \notin Terminal
    <3>1. CASE BeginAttempt
      BY <3>1 DEF BeginAttempt, Fresh, Interrupted, Terminal
    <3>2. CASE MarkStarted \/ ProbeEffect
      <4>1. pc \in Busy
        BY <3>2 DEF MarkStarted, ProbeEffect, Busy
      <4>2. QED BY <4>1, <2>2, OpenTop DEF Terminal
    <3>3. QED BY <1>2, <3>1, <3>2
  <2>4. CASE \E phase \in Phases : Record(Running(phase))
    <3>1. rows \in [Keys -> RowSet]
      BY DEF TypeInv, StateOK
    <3>2. rows'[Key].status = "running" /\ \A k \in Keys : k # Key => rows'[k] = rows[k]
      BY <2>2, <2>4, <3>1 DEF Record, Running
    <3>3. QED BY <2>1, <2>2, <2>3, <3>2 DEF RowsMove
  <2>5. QED BY <2>1, <2>4 DEF RowsMove
<1>3. CASE FinishRecovered \/ FinishAttempt
  <2>1. /\ pc \in Busy /\ pc \in {"recovered", "result"}
        /\ \E r : Record(r)
        /\ pc' = "enter" \/ \E o : Pop(o)
    BY <1>3 DEF FinishRecovered, FinishAttempt, Return, Busy
  <2>2. Depth > 1 /\ Key \in Keys
    BY <2>1, AtStep
  <2>3. rows[Key].status \notin Terminal
    BY <2>1, <2>2, OpenTop DEF Terminal
  <2>4. \A k \in Keys : k # Key => rows'[k] = rows[k]
    BY <2>1, <2>2 DEF Record, TypeInv, StateOK
  <2>5. QED BY <2>1, <2>2, <2>3, <2>4 DEF RowsMove
<1>4. QED BY <1>1, <1>2, <1>3 DEF Next, EngineStep

\* The rows of the steps below the top are running before and after a step.
LEMMA BelowStaysOpen ==
  ASSUME StepsNest, TypeInv, NestInv, OpenInv, RowsMove
  PROVE  \A n \in 2..Depth : n < Depth => rows'[FrameKey(n)].status = "running"
<1> SUFFICES ASSUME NEW n \in 2..Depth, n < Depth
             PROVE  rows'[FrameKey(n)].status = "running"
  OBVIOUS
<1>1. Depth \in Nat /\ Depth \in 2..Depth
  BY DEF TypeInv, StackOK, Depth
<1>2. FrameKey(n) \in Keys /\ FrameKey(Depth) \in Keys
  BY <1>1 DEF TypeInv, StackOK, WellNested, FrameKey
<1>3. stack[n].step \in Steps /\ stack[Depth].step \in Steps
  BY <1>2 DEF FrameKey, Keys
<1>4. Height[stack[Depth].step] < Height[stack[n].step]
  BY <1>1 DEF NestInv, DescendInv
<1>5. Height[stack[n].step] \in Nat
  BY <1>3, HeightFacts
<1>6. stack[n].step # stack[Depth].step
  BY <1>4, <1>5
<1>7. FrameKey(n) # Key
  BY <1>6 DEF FrameKey, Key, Top
<1>8. rows[FrameKey(n)].status = "running"
  BY DEF OpenInv
<1>9. QED BY <1>2, <1>7, <1>8 DEF RowsMove

LEMMA OpenStep ==
  ASSUME StepsNest, TypeInv, NestInv, OpenInv, [Next]_vars
  PROVE  OpenInv'
<1>0. StackMoves /\ RowsMove
  BY Moves, RowsMoves
<1>a. StackOK /\ Depth \in Nat
  BY DEF TypeInv, StackOK, Depth
<1>b. \A n \in 2..Depth : n < Depth => rows'[FrameKey(n)].status = "running"
  BY <1>0, BelowStaysOpen
<1>c. (pc # "idle" => run.status = "running")'
  <2>1. CASE run' = run /\ pc # "idle"
    BY <2>1 DEF OpenInv
  <2>2. CASE run' = Running("not_started") \/ pc' = "idle"
    BY <2>2 DEF Running
  <2>3. CASE Execute \/ FinishRun \/ Crash
    BY <2>2, <2>3 DEF Execute, FinishRun, Answer, Crash, OpenInv, Terminal
  <2>4. CASE RecorderFails
    BY <2>1, <2>2, <2>4 DEF RecorderFails, Answer
  <2>5. CASE NextStep \/ EndSequence \/ SkipAttempt \/ RecoverAttempt \/ ProbeEffect \/ FinishRecovered
             \/ BeginAttempt \/ MarkStarted \/ ExecuteOnce \/ ActionReturns \/ VerifyResult
             \/ FinishAttempt \/ Cancel
    <3>1. run' = run /\ pc # "idle"
      BY <2>5 DEF NextStep, EndSequence, SkipAttempt, RecoverAttempt, ProbeEffect, FinishRecovered,
                  BeginAttempt, MarkStarted, ExecuteOnce, ActionReturns, VerifyResult,
                  FinishAttempt, Cancel
    <3>2. QED BY <2>1, <3>1
  <2>6. CASE Expire \/ UNCHANGED vars
    BY <2>6 DEF Expire, vars, OpenInv
  <2>7. QED BY <2>3, <2>4, <2>5, <2>6 DEF Next, EngineStep
<1>d. (\A n \in 2..Depth' : (n < Depth' \/ pc' \in Busy) => rows'[FrameKey(n)'].status = "running")
        => OpenInv'
  BY <1>c DEF OpenInv, FrameKey, Busy
<1>1. CASE Depth' <= 1 /\ Depth' \in Nat
  BY <1>1, <1>d
<1>2. CASE /\ Depth > 1 /\ Depth' = Depth - 1
           /\ \A n \in 1..(Depth - 1) : FrameKey(n)' = FrameKey(n)
  <2>1. \A n \in 2..Depth' : n \in 2..Depth /\ n < Depth /\ n \in 1..(Depth - 1)
    BY <1>2, <1>a
  <2>2. QED BY <1>2, <1>b, <1>d, <2>1
<1>3. CASE /\ Depth > 1 /\ Depth' = Depth
           /\ \A n \in 1..Depth : FrameKey(n)' = FrameKey(n)
           /\ pc' \in Busy => rows'[Key].status = "running"
  <2>1. \A n \in 2..Depth' : n \in 2..Depth /\ n \in 1..Depth /\ (n < Depth \/ n = Depth)
    BY <1>3, <1>a
  <2>2. Key = FrameKey(Depth)
    BY DEF Key, FrameKey, Top
  <2>3. QED BY <1>3, <1>b, <1>d, <2>1, <2>2
<1>4. CASE stack' = stack
  <2>1. Depth' = Depth /\ \A n : FrameKey(n)' = FrameKey(n)
    BY <1>4 DEF Depth, FrameKey
  <2>2. CASE Depth > 1
    <3>1. pc' \in Busy => rows'[Key].status = "running"
      BY <1>4, <2>2, BusyOpen
    <3>2. QED BY <2>1, <2>2, <3>1, <1>3
  <2>3. QED BY <2>1, <2>2, <1>1, <1>a
<1>5. CASE stack' = <<>> \/ \E f : stack' = <<f>>
  <2>1. CASE stack' = <<>>
    <3>1. Depth' = 0
      BY <2>1 DEF Depth
    <3>2. QED BY <3>1, <1>1
  <2>2. CASE \E f : stack' = <<f>>
    <3>1. Depth' = 1
      BY <2>2 DEF Depth
    <3>2. QED BY <3>1, <1>1
  <2>3. QED BY <1>5, <2>1, <2>2
<1>6. CASE /\ Depth > 0 /\ stack' = Append(stack, Frame(Head(Top.todo), 1))
           /\ pc = "next" /\ pc' = "enter" /\ rows' = rows
  <2>1. Depth' = Depth + 1 /\ \A n \in 1..Depth : stack'[n] = stack[n]
    BY <1>6, <1>a, PushFrames
  <2>2. \A n \in 1..Depth : FrameKey(n)' = FrameKey(n)
    BY <2>1 DEF FrameKey
  <2>3. pc \in Busy /\ pc' \notin Busy
    BY <1>6 DEF Busy
  <2>4. \A n \in 2..Depth : rows[FrameKey(n)].status = "running"
    BY <2>3 DEF OpenInv
  <2>5. \A n \in 2..Depth' : n < Depth' => n \in 2..Depth /\ n \in 1..Depth
    BY <2>1, <1>a
  <2>6. QED BY <1>6, <1>d, <2>2, <2>3, <2>4, <2>5
<1>7. ASSUME Depth > 1, NEW body, NEW left, SetTop(Restart(Top, body, left)), pc \in Busy, rows' = rows
      PROVE  OpenInv'
  <2>1. Restart(Top, body, left).step = Top.step /\ Restart(Top, body, left).attempt = Top.attempt
    BY DEF Restart
  <2>2. /\ Depth' = Depth /\ stack'[Depth] = Restart(Top, body, left)
        /\ \A n \in 1..Depth : n # Depth => stack'[n] = stack[n]
    BY <1>7, <1>a, SetTopFrames
  <2>3. \A n \in 1..Depth : FrameKey(n)' = FrameKey(n)
    BY <2>1, <2>2 DEF FrameKey, Top
  <2>4. rows[Key].status = "running"
    BY <1>7, OpenTop
  <2>5. QED BY <1>3, <1>7, <2>2, <2>3, <2>4
<1>8. ASSUME Depth > 1, NEW a, SetTop(Frame(Top.step, a)), pc' = "enter"
      PROVE  OpenInv'
  <2>1. /\ Depth' = Depth
        /\ \A n \in 1..Depth : n # Depth => stack'[n] = stack[n]
    BY <1>8, <1>a, SetTopFrames
  <2>2. \A n \in 1..Depth : n # Depth => FrameKey(n)' = FrameKey(n)
    BY <2>1 DEF FrameKey
  <2>3. pc' \notin Busy
    BY <1>8 DEF Busy
  <2>4. \A n \in 2..Depth' : n < Depth' => n \in 2..Depth /\ n \in 1..Depth /\ n # Depth /\ n < Depth
    BY <2>1, <1>a
  <2>5. QED BY <1>b, <1>d, <2>2, <2>3, <2>4
<1>9. ASSUME Depth > 1, NEW o, Pop(o)
      PROVE  OpenInv'
  <2>1. /\ Depth' = Depth - 1
        /\ stack'[Depth - 1] = Advance(stack[Depth - 1], o)
        /\ \A n \in 1..(Depth - 1) : n # Depth - 1 => stack'[n] = stack[n]
    BY <1>9, <1>a, PopFrames
  <2>2. /\ Advance(stack[Depth - 1], o).step = stack[Depth - 1].step
        /\ Advance(stack[Depth - 1], o).attempt = stack[Depth - 1].attempt
    BY DEF Advance
  <2>3. \A n \in 1..(Depth - 1) : FrameKey(n)' = FrameKey(n)
    BY <2>1, <2>2 DEF FrameKey
  <2>4. QED BY <1>2, <1>9, <2>1, <2>3
<1>10. CASE Expire
  <2>1. /\ Depth' = Depth
        /\ \A n \in 1..Depth : stack'[n].step = stack[n].step /\ stack'[n].attempt = stack[n].attempt
    BY <1>10, <1>a, ExpireFrames
  <2>2. \A n \in 1..Depth : FrameKey(n)' = FrameKey(n)
    BY <2>1 DEF FrameKey
  <2>3. rows' = rows /\ pc' = pc
    BY <1>10 DEF Expire
  <2>4. CASE Depth > 1
    BY <1>3, <2>1, <2>2, <2>3, <2>4, OpenTop
  <2>5. QED BY <2>1, <2>4, <1>1, <1>a
<1>11. QED BY <1>0, <1>4, <1>5, <1>6, <1>7, <1>8, <1>9, <1>10 DEF StackMoves, Return

LEMMA NestedInit == Init => NestInv /\ OpenInv
<1> SUFFICES ASSUME Init PROVE NestInv /\ OpenInv
  OBVIOUS
<1>1. Depth = 0 /\ pc = "idle"
  BY DEF Init, Depth
<1>2. QED BY <1>1 DEF NestInv, ChildrenInv, DescendInv, OpenInv

\* What a terminal row of the run forbids.
LEMMA SettledRunStays ==
  ASSUME OpenInv, [Next]_vars, run.status \in Terminal
  PROVE  run' = run
<1>1. pc = "idle"
  BY DEF OpenInv, Terminal
<1>2. ~FinishRun
  BY <1>1 DEF FinishRun
<1>3. QED
  BY <1>2 DEF Next, EngineStep, Execute, NextStep, EndSequence, SkipAttempt, RecoverAttempt,
     ProbeEffect, FinishRecovered, BeginAttempt, MarkStarted, ExecuteOnce, ActionReturns,
     VerifyResult, FinishAttempt, Cancel, Expire, RecorderFails, Crash, vars

\* In a workflow that nests no step key inside itself, whatever reached a terminal
\* status, the run or a step attempt, is never written again.
THEOREM SettledStaysFinal == StepsNest => (Spec => SettledIsFinal)
<1> SUFFICES ASSUME StepsNest PROVE Spec => SettledIsFinal
  OBVIOUS
<1>1. TypeInv /\ OpenInv /\ [Next]_vars =>
        [/\ run.status \in Terminal => run' = run
         /\ \A k \in Keys : rows[k].status \in Terminal => rows'[k] = rows[k]]_vars
  <2> SUFFICES ASSUME TypeInv, OpenInv, [Next]_vars
               PROVE  /\ run.status \in Terminal => run' = run
                      /\ \A k \in Keys : rows[k].status \in Terminal => rows'[k] = rows[k]
    OBVIOUS
  <2>1. RowsMove
    BY RowsMoves
  <2>2. QED BY <2>1, SettledRunStays DEF RowsMove
<1>2. TypeInv /\ NestInv /\ OpenInv /\ [Next]_vars => (TypeInv /\ NestInv /\ OpenInv)'
  BY TypeStep, NestedStep, OpenStep
<1>3. QED BY <1>1, <1>2, TypeInit, NestedInit, PTL DEF Spec, SettledIsFinal

----------------------------------------------------------------------------
(* What a success rests on *)

\* What the rows say of a step, of the steps before the rest of the workflow's
\* sequence, and of all of one of the workflow's sequences
Done(table, s) == \E a \in 1..Attempts[s] : table[<<s, a>>].status = "completed"
DoneUpTo(table, todo) ==
  \E body \in Branches[Workflow] : \E m \in 0..Len(body) :
    /\ todo = SubSeq(body, m + 1, Len(body))
    /\ \A i \in 1..m : Done(table, body[i])
AllDone(table) ==
  \E body \in Branches[Workflow] : \A i \in 1..Len(body) : Done(table, body[i])

\* The workflow's own sequence ended without a success.
Failing == Depth = 1 /\ pc \in {"sequence_end", "finish"} /\ res \notin Successes

\* The workflow's sequence goes on over completed steps only, and succeeds only
\* at its end.
SequenceInv ==
  /\ Depth > 0 /\ ~Failing => DoneUpTo(rows, stack[1].todo)
  /\ Depth = 1 /\ pc \in {"sequence_end", "finish"} /\ res \in Successes => stack[1].todo = <<>>
  /\ pc = "finish" => Depth = 1

AnswerInv ==
  /\ run.status \in Terminal => run.status = Status(run.outcome)
  /\ run.status = "completed" => AllDone(rows)
  /\ answer \in Successes => run.status = "completed" /\ run.outcome = answer

\* The first element of the rest of a sequence, and the rest after it.
LEMMA RestOfSequence ==
  ASSUME NEW body \in Seq(Steps), NEW m \in 0..Len(body)
  PROVE  LET q == SubSeq(body, m + 1, Len(body)) IN
           /\ q = <<>> => m = Len(body)
           /\ q # <<>> => /\ m + 1 \in 1..Len(body)
                          /\ Head(q) = body[m + 1]
                          /\ Tail(q) = SubSeq(body, m + 2, Len(body))
<1> DEFINE q == SubSeq(body, m + 1, Len(body))
<1>1. /\ q \in Seq(Steps) /\ Len(q) = Len(body) - m
      /\ \A i \in 1..Len(q) : q[i] = body[m + i]
  BY SubSeqProperties
<1>2. ASSUME q = <<>> PROVE m = Len(body)
  <2>1. Len(body) \in Nat /\ m \in Nat /\ Len(q) = Len(body) - m
    BY <1>1
  <2> HIDE DEF q
  <2>2. Len(q) = 0
    BY <1>2
  <2>3. QED BY <2>1, <2>2
<1>3. ASSUME q # <<>>
      PROVE  /\ m + 1 \in 1..Len(body)
             /\ Head(q) = body[m + 1]
             /\ Tail(q) = SubSeq(body, m + 2, Len(body))
  <2>1. Len(q) > 0 /\ Len(q) \in Nat
    BY <1>1, <1>3
  <2>2. m + 1 \in 1..Len(body) /\ Head(q) = body[m + 1]
    BY <1>1, <2>1
  <2>3. Tail(q) = SubSeq(body, m + 2, Len(body))
    BY <1>1, <2>1
  <2>4. QED BY <2>2, <2>3
<1>4. QED BY <1>2, <1>3

\* Completed rows stay.
LEMMA DoneStays ==
  ASSUME RowsMove
  PROVE  /\ \A s \in Steps : Done(rows, s) => Done(rows', s)
         /\ \A todo : DoneUpTo(rows, todo) => DoneUpTo(rows', todo)
         /\ AllDone(rows) => AllDone(rows')
<1>1. ASSUME NEW s \in Steps, Done(rows, s) PROVE Done(rows', s)
  <2>1. PICK a \in 1..Attempts[s] : rows[<<s, a>>].status = "completed"
    BY <1>1 DEF Done
  <2>2. <<s, a>> \in Keys
    BY DEF Keys
  <2>3. rows'[<<s, a>>] = rows[<<s, a>>]
    BY <2>1, <2>2 DEF RowsMove, Terminal
  <2>4. QED BY <2>1, <2>3 DEF Done
<1>2. \A body \in Branches[Workflow] : body \in Seq(Steps)
  BY BranchesAreSteps
<1>3. ASSUME NEW todo, DoneUpTo(rows, todo) PROVE DoneUpTo(rows', todo)
  <2>1. PICK body \in Branches[Workflow] : \E m \in 0..Len(body) :
          /\ todo = SubSeq(body, m + 1, Len(body))
          /\ \A i \in 1..m : Done(rows, body[i])
    BY <1>3 DEF DoneUpTo
  <2>2. PICK m \in 0..Len(body) :
          /\ todo = SubSeq(body, m + 1, Len(body))
          /\ \A i \in 1..m : Done(rows, body[i])
    BY <2>1
  <2>3. \A i \in 1..m : body[i] \in Steps
    BY <1>2
  <2>4. QED BY <1>1, <2>2, <2>3 DEF DoneUpTo
<1>4. ASSUME AllDone(rows) PROVE AllDone(rows')
  <2>1. PICK body \in Branches[Workflow] : \A i \in 1..Len(body) : Done(rows, body[i])
    BY <1>4 DEF AllDone
  <2>2. \A i \in 1..Len(body) : body[i] \in Steps
    BY <1>2
  <2>3. QED BY <1>1, <2>1, <2>2 DEF AllDone
<1>5. QED BY <1>1, <1>3, <1>4

\* What the engine does in the workflow's own frame.
LEMMA AtWorkflow ==
  ASSUME TypeInv, [Next]_vars, Depth = 1, stack' = stack
  PROVE  \/ pc' = pc /\ res' = res
         \/ pc = "next" /\ pc' = "sequence_end" /\ (res' \in Successes => stack[1].todo = <<>>)
         \/ pc = "sequence_end" /\ pc' = "finish" /\ res' = res
<1>1. pc \in {"next", "sequence_end", "finish"} /\ stack' # <<>>
  BY DEF TypeInv, PlaceOK, Depth
<1>2. CASE NextStep
  <2>1. Top = stack[1] /\ stack' # Append(stack, Frame(Head(Top.todo), 1))
    BY DEF Top, Depth, TypeInv, StackOK
  <2>2. Top.todo # <<>> => res' \notin Successes
    BY <1>2, <2>1, HaltKinds DEF NextStep, Successes, Halts
  <2>3. QED BY <1>2, <2>1, <2>2 DEF NextStep
<1>3. CASE EndSequence
  BY <1>3 DEF EndSequence
<1>4. CASE Cancel \/ Expire \/ UNCHANGED vars
  BY <1>4 DEF Cancel, Expire, vars
<1>5. CASE FinishRun \/ Crash \/ RecorderFails
  BY <1>1, <1>5 DEF FinishRun, Crash, RecorderFails, Answer
<1>6. QED
  BY <1>1, <1>2, <1>3, <1>4, <1>5 DEF Next, EngineStep, Execute, SkipAttempt, RecoverAttempt,
     ProbeEffect, FinishRecovered, BeginAttempt, MarkStarted, ExecuteOnce, ActionReturns,
     VerifyResult, FinishAttempt

LEMMA SequenceStep ==
  ASSUME TypeInv, SequenceInv, StackMoves, RowsMove, [Next]_vars
  PROVE  SequenceInv'
<1>a. /\ StackOK /\ stack \in Seq(FrameSet) /\ Depth \in Nat
      /\ \A n \in 1..Depth : stack[n] \in FrameSet
  BY DEF TypeInv, StackOK, Depth
<1>b. \A todo : DoneUpTo(rows, todo) => DoneUpTo(rows', todo)
  BY DoneStays
<1>c. pc' = "finish" => Depth' = 1
  <2>1. CASE EndSequence
    BY <2>1, <1>a DEF EndSequence, Depth
  <2>2. CASE Expire
    BY <2>2, <1>a, ExpireFrames DEF Expire, SequenceInv
  <2>3. CASE Cancel \/ UNCHANGED vars
    BY <2>3 DEF Cancel, vars, SequenceInv, Depth
  <2>4. QED
    BY <2>1, <2>2, <2>3 DEF Next, EngineStep, Execute, NextStep, SkipAttempt, RecoverAttempt,
       ProbeEffect, FinishRecovered, BeginAttempt, MarkStarted, ExecuteOnce, ActionReturns,
       VerifyResult, FinishAttempt, FinishRun, Answer, Return, RecorderFails, Crash
<1>1. CASE Depth' = 0
  BY <1>1, <1>c DEF SequenceInv
<1>2. CASE /\ Depth > 0 /\ ~Failing /\ Depth' > 1 /\ Depth' \in Nat
           /\ stack'[1].todo = stack[1].todo
  <2>1. Depth' > 0 /\ Depth' # 1 /\ pc' # "finish"
    BY <1>2, <1>c
  <2>2. DoneUpTo(rows', stack'[1].todo)
    BY <1>2, <1>b DEF SequenceInv
  <2>3. QED BY <2>1, <2>2 DEF SequenceInv, DoneUpTo, Done
<1>3. CASE stack' = stack
  <2>1. Depth' = Depth
    BY <1>3 DEF Depth
  <2>2. CASE Depth = 1
    <3>1. CASE pc' = pc /\ res' = res
      BY <1>3, <1>b, <2>1, <2>2, <3>1 DEF SequenceInv, Failing, DoneUpTo, Done
    <3>2. CASE pc = "next" /\ pc' = "sequence_end" /\ (res' \in Successes => stack[1].todo = <<>>)
      <4>1. ~Failing
        BY <3>2 DEF Failing
      <4>2. DoneUpTo(rows', stack'[1].todo)
        BY <1>3, <1>b, <2>2, <4>1 DEF SequenceInv
      <4>3. QED BY <1>3, <2>1, <2>2, <3>2, <4>2 DEF SequenceInv, DoneUpTo, Done
    <3>3. CASE pc = "sequence_end" /\ pc' = "finish" /\ res' = res
      BY <1>3, <1>b, <2>1, <2>2, <3>3 DEF SequenceInv, Failing, DoneUpTo, Done
    <3>4. QED BY <1>3, <2>2, <3>1, <3>2, <3>3, AtWorkflow
  <2>3. CASE Depth > 1
    <3>1. ~Failing
      BY <2>3, <1>a DEF Failing
    <3>2. QED BY <1>2, <1>3, <1>a, <2>1, <2>3, <3>1
  <2>4. QED BY <1>1, <1>a, <2>1, <2>2, <2>3
<1>4. ASSUME pc' = "next", Depth' = 1,
             NEW body \in Branches[Workflow], stack' = <<Restart(Frame(Workflow, 1), body, 0)>>
      PROVE  SequenceInv'
  <2>1. stack'[1].todo = body
    BY <1>4 DEF Restart
  <2>2. body \in Seq(Steps) /\ 0 \in 0..Len(body) /\ body = SubSeq(body, 0 + 1, Len(body))
    BY BranchesAreSteps
  <2>3. DoneUpTo(rows', stack'[1].todo)
    BY <2>1, <2>2 DEF DoneUpTo
  <2>4. QED BY <1>4, <2>3 DEF SequenceInv, DoneUpTo, Done
<1>5. CASE Depth > 0 /\ pc = "next" /\ stack' = Append(stack, Frame(Head(Top.todo), 1))
  <2>1. Depth' = Depth + 1 /\ stack'[1] = stack[1]
    BY <1>5, <1>a, PushFrames
  <2>2. QED BY <1>2, <1>5, <1>a, <2>1 DEF Failing
<1>6. ASSUME Depth > 1, NEW f, SetTop(f) PROVE SequenceInv'
  <2>1. Depth' = Depth /\ stack'[1] = stack[1]
    BY <1>6, <1>a, SetTopFrames
  <2>2. QED BY <1>2, <1>6, <1>a, <2>1 DEF Failing
<1>7. ASSUME Depth > 1, NEW o, Return(o), o \in Successes => rows'[Key].status = "completed"
      PROVE  SequenceInv'
  <2>1. /\ Depth' = Depth - 1
        /\ stack'[Depth - 1] = Advance(stack[Depth - 1], o)
        /\ \A n \in 1..(Depth - 1) : n # Depth - 1 => stack'[n] = stack[n]
    BY <1>7, <1>a, PopFrames DEF Return
  <2>2. ~Failing
    BY <1>7, <1>a DEF Failing
  <2>3. CASE Depth > 2
    <3>1. stack'[1] = stack[1] /\ Depth' > 1 /\ Depth' \in Nat
      BY <2>1, <2>3, <1>a
    <3>2. QED BY <1>2, <1>7, <1>a, <2>2, <3>1
  <2>4. CASE Depth = 2
    <3>1. Depth' = 1 /\ stack'[1] = Advance(stack[1], o)
      BY <2>1, <2>4
    <3>2. CASE o \in Successes
      <4>1. pc' = "next"
        BY <1>7, <3>2 DEF Return
      <4>2. DoneUpTo(rows', stack[1].todo)
        BY <1>7, <1>a, <1>b, <2>2 DEF SequenceInv
      <4>3. PICK body \in Branches[Workflow] : \E m \in 0..Len(body) :
              /\ stack[1].todo = SubSeq(body, m + 1, Len(body))
              /\ \A i \in 1..m : Done(rows', body[i])
        BY <4>2 DEF DoneUpTo
      <4>4. PICK m \in 0..Len(body) :
              /\ stack[1].todo = SubSeq(body, m + 1, Len(body))
              /\ \A i \in 1..m : Done(rows', body[i])
        BY <4>3
      <4>5. /\ stack[1].todo # <<>> /\ Key \in Keys /\ Key = <<Head(stack[1].todo), stack[2].attempt>>
        BY <2>4, <1>7, <1>a, TopKey DEF StackOK, WellNested, Key, Top
      <4>6. body \in Seq(Steps) /\ Len(body) \in Nat /\ m \in Nat
        BY BranchesAreSteps
      <4>7. /\ m + 1 \in 1..Len(body) /\ Head(stack[1].todo) = body[m + 1]
            /\ Tail(stack[1].todo) = SubSeq(body, m + 2, Len(body))
        BY <4>4, <4>5, <4>6, RestOfSequence
      <4>8. Done(rows', body[m + 1])
        <5>1. Key = <<body[m + 1], stack[2].attempt>>
          BY <4>5, <4>7
        <5>2. stack[2].attempt \in 1..Attempts[body[m + 1]]
          BY <4>5, <5>1 DEF Keys
        <5>3. QED BY <1>7, <3>2, <5>1, <5>2 DEF Done
      <4>9. \A i \in 1..(m + 1) : Done(rows', body[i])
        BY <4>4, <4>6, <4>8
      <4>10. m + 1 \in 0..Len(body) /\ (m + 1) + 1 = m + 2
        BY <4>6, <4>7
      <4>11. stack'[1].todo = SubSeq(body, (m + 1) + 1, Len(body))
        BY <3>1, <4>7, <4>10 DEF Advance
      <4>12. DoneUpTo(rows', stack'[1].todo)
        BY <4>9, <4>10, <4>11 DEF DoneUpTo
      <4>13. QED BY <3>1, <4>1, <4>12 DEF SequenceInv, DoneUpTo, Done
    <3>3. CASE o \notin Successes
      <4>1. pc' = "sequence_end" /\ res' = o
        BY <1>7, <3>3 DEF Return
      <4>2. QED BY <3>1, <3>3, <4>1 DEF SequenceInv, Failing, Successes
    <3>4. QED BY <3>2, <3>3
  <2>5. QED BY <2>3, <2>4, <1>7, <1>a
<1>8. CASE Expire
  <2>1. Depth' = Depth /\ (Depth > 0 => stack'[1].todo = stack[1].todo)
    BY <1>8, <1>a, ExpireFrames
  <2>2. pc' = pc /\ res' = res
    BY <1>8 DEF Expire
  <2>3. Failing' <=> Failing
    BY <2>1, <2>2 DEF Failing
  <2>4. Depth > 0 /\ ~Failing => DoneUpTo(rows', stack'[1].todo)
    BY <1>b, <2>1 DEF SequenceInv
  <2>5. Depth = 1 => Depth > 0
    BY <1>a
  <2>6. QED BY <2>1, <2>2, <2>3, <2>4, <2>5 DEF SequenceInv, DoneUpTo, Done
<1>9. CASE stack' = <<>>
  BY <1>1, <1>9 DEF Depth
<1>10. QED
  BY <1>3, <1>4, <1>5, <1>6, <1>7, <1>8, <1>9 DEF StackMoves

\* A success is answered only of a run whose steps are done.
LEMMA AnswerStep ==
  ASSUME TypeInv, OpenInv, SequenceInv, AnswerInv, RowsMove, [Next]_vars
  PROVE  AnswerInv'
<1>a. AllDone(rows) => AllDone(rows')
  BY DoneStays
<1>1. ASSUME run' = run, answer' \in Successes => answer' = answer PROVE AnswerInv'
  BY <1>1, <1>a DEF AnswerInv, AllDone, Done
<1>2. CASE Execute
  <2>1. CASE run.status \in Terminal /\ run' = run /\ answer' = run.outcome
    <3>1. run.outcome \in Successes => run.status = "completed"
      BY <2>1 DEF AnswerInv, Status, Successes
    <3>2. QED BY <2>1, <3>1, <1>a DEF AnswerInv, AllDone, Done
  <2>2. CASE run' = Running("not_started") /\ answer' = "none"
    BY <2>2 DEF AnswerInv, Running, Terminal, Successes
  <2>3. QED BY <1>2, <2>1, <2>2 DEF Execute
<1>3. CASE FinishRun
  <2>1. PICK o : /\ run' = Finished(o) /\ answer' = o /\ rows' = rows
                 /\ o \in Successes => res \in Successes
    BY <1>3, HaltKinds DEF FinishRun, Answer, Successes, Halts
  <2>2. /\ run'.status = Status(o) /\ run'.outcome = o
        /\ o \in Successes <=> Status(o) = "completed"
    BY <2>1 DEF Finished, Status, Successes
  <2>3. o \in Successes => AllDone(rows)
    <3> SUFFICES ASSUME o \in Successes PROVE AllDone(rows)
      OBVIOUS
    <3>1. Depth = 1 /\ pc = "finish" /\ res \in Successes
      BY <1>3, <2>1 DEF FinishRun, SequenceInv
    <3>2. stack[1].todo = <<>> /\ DoneUpTo(rows, <<>>)
      BY <3>1 DEF SequenceInv, Failing
    <3>3. PICK body \in Branches[Workflow] : \E m \in 0..Len(body) :
             /\ <<>> = SubSeq(body, m + 1, Len(body))
             /\ \A i \in 1..m : Done(rows, body[i])
      BY <3>2 DEF DoneUpTo
    <3>4. body \in Seq(Steps)
      BY BranchesAreSteps
    <3>5. \A i \in 1..Len(body) : Done(rows, body[i])
      BY <3>3, <3>4, RestOfSequence
    <3>6. QED BY <3>5 DEF AllDone
  <2>4. QED BY <2>1, <2>2, <2>3 DEF AnswerInv, AllDone, Done
<1>4. CASE RecorderFails
  BY <1>1, <1>4 DEF RecorderFails, Answer, Successes
<1>5. QED
  BY <1>1, <1>2, <1>3, <1>4 DEF Next, EngineStep, NextStep, EndSequence, SkipAttempt,
     RecoverAttempt, ProbeEffect, FinishRecovered, BeginAttempt, MarkStarted, ExecuteOnce,
     ActionReturns, VerifyResult, FinishAttempt, Cancel, Expire, Crash, vars

LEMMA EarnedInit == Init => SequenceInv /\ AnswerInv
<1> SUFFICES ASSUME Init PROVE SequenceInv /\ AnswerInv
  OBVIOUS
<1>1. Depth = 0 /\ pc = "idle" /\ run = NoRow /\ answer = "none"
  BY DEF Init, Depth
<1>2. QED BY <1>1 DEF SequenceInv, AnswerInv, NoRow, Terminal, Successes

\* In such a workflow a run answers success only when every step of one of its
\* sequences has a completed attempt on record, and only if the run's own row says so:
\* whatever a crash, a failing recorder call or an earlier execution left behind.
THEOREM SuccessesAreEarned == StepsNest => (Spec => []SuccessIsEarned)
<1> SUFFICES ASSUME StepsNest PROVE Spec => []SuccessIsEarned
  OBVIOUS
<1> DEFINE Inv == TypeInv /\ NestInv /\ OpenInv /\ SequenceInv /\ AnswerInv
<1>1. Init => Inv
  BY TypeInit, NestedInit, EarnedInit
<1>2. Inv /\ [Next]_vars => Inv'
  BY TypeStep, NestedStep, OpenStep, Moves, RowsMoves, SequenceStep, AnswerStep
<1>3. Inv => SuccessIsEarned
  BY DEF AnswerInv, AllDone, Done, SuccessIsEarned
<1>4. QED BY <1>1, <1>2, <1>3, PTL DEF Spec
=============================================================================
