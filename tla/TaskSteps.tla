----------------------------- MODULE TaskSteps ------------------------------
(***************************************************************************)
(* What the handlers of the game workflows have in common.  A handler is a *)
(* set of results [out, c]: the outcome its step may return to the engine  *)
(* and the run's state after it.  That state, the Python object _XState, is *)
(* a record c:                                                             *)
(*   policy, char  the request was validated, its character loaded         *)
(*   stop          terminal_outcome, "none" while the run goes on           *)
(*   why           "manual" if the workflow's _is_manual_stop recognises    *)
(*                 terminal_reason, else "plain"                            *)
(*   rescued       recovery_outcome is set                                 *)
(*   incident      incident_opened                                         *)
(*   m             what else this workflow remembers                       *)
(*   h             what was done to the game in this run_key, which no      *)
(*                 restart undoes (history): acts, how often the            *)
(*                 irreversible action was invoked; owed, the targets acted *)
(*                 on and not verified; wrong, whether an action had no     *)
(*                 business; closed, the targets verified as dealt with     *)
(* Drivers, preconditions and the watchdog are external: they return any   *)
(* result the handler tells apart.                                         *)
(***************************************************************************)
EXTENDS Integers, Sequences
LOCAL INSTANCE SequencesExt

NoHistory ==
  [acts |-> 0, owed |-> {}, wrong |-> FALSE, closed |-> {}]

StateFields == {"policy", "char", "stop", "why", "rescued", "incident", "m", "h"}

FreshState(memory, history) ==
  [policy |-> FALSE, char |-> FALSE, stop |-> "none", why |-> "plain", rescued |-> FALSE,
   incident |-> FALSE, m |-> memory, h |-> history]

Result(outcome, c) == [out |-> outcome, c |-> c]

Ok(c) == {Result("SUCCESS", c)}
Skip(c) == {Result("SKIPPED", c)}
Retry(c) == {Result("RETRYABLE_FAILURE", c)}
Raise(c) == {Result("FATAL_FAILURE", c)}

\* The state an operation needs is there, or a _require_ function raises.
Need(c, present, results) == IF present THEN results ELSE Raise(c)

\* _XState.stop
Stop(c, outcome, why) ==
  {Result(IF outcome = "SKIPPED" THEN "SUCCESS" ELSE outcome,
          [c EXCEPT !.stop = outcome, !.why = why])}

\* stop with a reason the driver words
StopSaying(c, outcome) == Stop(c, outcome, "plain") \cup Stop(c, outcome, "manual")

Failed(c) == c.stop \in {"BLOCKED", "FATAL_FAILURE", "TIMEOUT", "VALIDATION_FAILURE"}

\* _action_to_step: what becomes of an action that left the state done if it succeeded
ActionToStep(c, done) == Ok(done) \cup Retry(c) \cup StopSaying(c, "BLOCKED")

\* An irreversible action is invoked on a target, and its effect verified
Act(c, allowed, target) ==
  [c EXCEPT !.h.acts = @ + 1, !.h.owed = @ \cup {target}, !.h.wrong = @ \/ ~allowed]
Verified(c, target) == [c EXCEPT !.h.owed = @ \ {target}, !.h.closed = @ \cup {target}]

----------------------------------------------------------------------------
(* The first steps of a workflow *)

ValidateInput(c) == Ok([c EXCEPT !.policy = TRUE]) \cup Stop(c, "VALIDATION_FAILURE", "plain")

LoadCharacter(c) == Ok([c EXCEPT !.char = TRUE]) \cup Stop(c, "VALIDATION_FAILURE", "plain")

\* A precondition that is not configured succeeds.
EnsurePrecondition(c) == Ok(c) \cup Need(c, c.char, ActionToStep(c, c))

\* recovery_watchdog.monitor reports the game healthy, is not configured, or not.
EnsureGameRunning(c) == Ok(c) \cup StopSaying(c, "BLOCKED")

Navigate(c) == Need(c, c.char /\ c.policy, ActionToStep(c, c))

Opening(s, c) ==
  CASE s = "validate_input" -> ValidateInput(c)
    [] s = "load_character" -> LoadCharacter(c)
    [] s \in {"ensure_account", "ensure_character"} -> EnsurePrecondition(c)
    [] s = "ensure_game_running" -> EnsureGameRunning(c)
    [] OTHER -> Navigate(c)

----------------------------------------------------------------------------
(* In some workflows a step that fails succeeds, every later step is skipped, and *)
(* the step "failed" ends the run: _XState.fail, and the failures it reports       *)

Fail(c, why) ==
  {Result("SUCCESS", [c EXCEPT !.stop = "FATAL_FAILURE", !.why = why])}

\* fail with a reason the driver words
FailSaying(c) == Fail(c, "plain") \cup Fail(c, "manual")

ActionOrFail(c, done) == Ok(done) \cup Retry(c) \cup FailSaying(c)

OpeningOrFail(s, c) ==
  CASE s = "validate_input" -> Ok([c EXCEPT !.policy = TRUE]) \cup Fail(c, "plain")
    [] s = "load_character" -> Ok([c EXCEPT !.char = TRUE]) \cup Fail(c, "plain")
    [] s \in {"ensure_account", "ensure_character"} ->
         Ok(c) \cup Need(c, c.char, ActionOrFail(c, c))
    [] s = "ensure_game_running" -> Ok(c) \cup FailSaying(c)

----------------------------------------------------------------------------
(* The last steps of a workflow *)

Complete(c) == IF c.stop # "none" THEN Skip(c) ELSE Ok(c)

Skipped(c) == IF c.stop = "SKIPPED" THEN Ok(c) ELSE Skip(c)

Recover(c) == IF Failed(c) THEN Ok([c EXCEPT !.rescued = TRUE]) ELSE Skip(c)

ReportFailed(c) ==
  IF Failed(c) THEN Raise([c EXCEPT !.incident = TRUE]) ELSE Skip(c)

\* What execute() does with the result of the engine, in most workflows:
\*   overrides  the terminal outcomes that replace the engine's
\*   softens    a step that wants another attempt it does not have is blocked
\*   settles    the status of the run is written again with its outcome
\*   recovers   the terminal outcomes the watchdog recovers
\*   minds      a manual stop is left to the user
\*   belated    it recovers from the workflow's own stop too, not only the engine's
\*   incident   a failure without an incident gets one
UsualReport ==
  [overrides |-> {"SKIPPED", "BLOCKED"}, softens |-> FALSE, settles |-> TRUE,
   recovers |-> {"BLOCKED", "FATAL_FAILURE", "TIMEOUT", "VALIDATION_FAILURE"},
   minds |-> TRUE, belated |-> TRUE, incident |-> TRUE]

\* What it does in the workflows whose failures are latched: _record_engine_failure
\* calls the watchdog, only the step "failed" opens an incident.
LatchedReport ==
  [overrides |-> {}, softens |-> FALSE, settles |-> FALSE,
   recovers |-> {"BLOCKED", "RETRYABLE_FAILURE", "FATAL_FAILURE", "TIMEOUT", "VALIDATION_FAILURE"},
   minds |-> FALSE, belated |-> FALSE, incident |-> FALSE]

Conclude(s, c) ==
  CASE s = "complete" -> Complete(c)
    [] s = "skipped"  -> Skipped(c)
    [] s = "recover"  -> Recover(c)
    [] s = "failed"   -> ReportFailed(c)

\* Handlers of a step that is not one of exempt do nothing after a stop.
Guarded(s, c, exempt, results) ==
  IF s = "cancelled" \/ (c.stop # "none" /\ s \notin exempt) THEN Skip(c) ELSE results

----------------------------------------------------------------------------
(* Handlers that make several calls *)

\* The calls after a call that succeeded
Then(results, Rest(_)) ==
  UNION {IF r.out = "SUCCESS" /\ r.c.stop = "none" THEN Rest(r.c) ELSE {r} : r \in results}

\* A call for every element of a sequence, until one does not succeed
ForEach(c, seq, Call(_, _)) ==
  FoldLeft(LAMBDA results, x : Then(results, LAMBDA d : Call(d, x)), Ok(c), seq)

\* The first max allowed members of what was observed, each once
Selected(observed, allowed, max) ==
  LET picks == FoldLeft(LAMBDA picked, x : IF x \in allowed /\ x \notin ToSet(picked)
                                             THEN Append(picked, x) ELSE picked,
                        <<>>, observed)
  IN SubSeq(picks, 1, IF Len(picks) < max THEN Len(picks) ELSE max)
=============================================================================
