---------------------------- MODULE AllianceHelp ----------------------------
(* The handlers of alliance_help_workflow.py: press the help button once. *)
EXTENDS TaskSteps

Steps ==
  <<"validate_input", "load_character", "ensure_account", "ensure_character",
    "ensure_game_running", "normalize_help_scene", "detect_help_button", "press_help",
    "verify_help_state", "complete", "skipped", "recover", "failed", "cancelled">>

\* _definition and the defaults of AllianceHelpConfig: the steps tried twice
Retried ==
  {"ensure_account", "ensure_character", "ensure_game_running", "normalize_help_scene",
   "detect_help_button", "verify_help_state"}

\* execute: what the step budget has beyond the steps
Slack == 10

Memory == [seen |-> "none", clicked |-> FALSE, pressed |-> FALSE]

\* What the detector may report: a button that is ready, one below the confidence
\* threshold or not located, one behind an overlay, none, and screens in the way
Views == {"ready", "unsure", "covered", "not_ready", "verification", "unknown"}

Prepare(s, c) == Opening(s, c)

DetectHelpButton(c) ==
  Need(c, c.char /\ c.policy,
    UNION {LET d == [c EXCEPT !.m.seen = view] IN
             CASE view = "ready" -> Ok(d)
               [] view = "not_ready" -> StopSaying(d, "SKIPPED")
               [] view = "verification" -> StopSaying(d, "FATAL_FAILURE")
               [] OTHER -> StopSaying(d, "BLOCKED") : view \in Views})

PressHelp(c) ==
  LET pressed == [Act(c, c.m.seen = "ready", "button") EXCEPT !.m.clicked = TRUE, !.m.pressed = TRUE] IN
    IF c.m.clicked
      THEN Stop(c, "BLOCKED", "plain")
      ELSE Need(c, c.char /\ c.policy /\ c.m.seen # "none", ActionToStep(pressed, pressed))

\* _help_postcondition_verified: the badge is gone, or the button inactive
VerifyHelpState(c) ==
  Need(c, c.char /\ c.policy /\ c.m.pressed, Ok(Verified(c, "button")) \cup StopSaying(c, "BLOCKED"))

\* complete, skipped, recover, failed
Concludes(s, c) == Conclude(s, c)

Handler(s, c) ==
  Guarded(s, c, {"recover", "complete", "skipped", "failed"},
    CASE s = "detect_help_button" -> DetectHelpButton(c)
      [] s = "press_help" -> PressHelp(c)
      [] s = "verify_help_state" -> VerifyHelpState(c)
      [] s \in {"complete", "skipped", "recover", "failed"} -> Concludes(s, c)
      [] OTHER -> Prepare(s, c))

\* _record_engine_failure to _update_persisted_run: the terminal outcomes that
\* replace the engine's, and whether the status of the run is written again
Report == UsualReport

ActLimit == 1
=============================================================================
