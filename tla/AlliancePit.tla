---------------------------- MODULE AlliancePit -----------------------------
(* The handlers of alliance_pit_workflow.py: send a march to gather in the   *)
(* resource pit of the alliance.  A dispatch that says it failed is tried    *)
(* again.                                                                    *)
EXTENDS TaskSteps

Steps ==
  <<"validate_input", "load_character", "ensure_account", "ensure_character",
    "ensure_game_running", "navigate_to_resource_center", "clear_overlays", "detect_pit",
    "validate_march", "dispatch_march", "verify_dispatch", "complete", "recover", "failed",
    "cancelled">>

Retried ==
  {"ensure_account", "ensure_character", "ensure_game_running",
   "navigate_to_resource_center", "clear_overlays", "detect_pit", "dispatch_march",
   "verify_dispatch"}

\* The budget is for fewer retries than there may be: a run that uses all of them fails.
Slack == 6

\* The pit, whether a march is free, whether one was dispatched
Memory == [pit |-> "none", march |-> FALSE, dispatched |-> FALSE]

\* A joinable pit, of a type the policy enables or not
Pits == {"enabled", "disabled"}

Prepare(s, c) == Opening(s, c)

DetectPit(c) ==
  Need(c, c.policy,
    StopSaying(c, "SKIPPED") \cup StopSaying(c, "BLOCKED")
      \cup UNION {IF pit = "enabled" THEN Ok([c EXCEPT !.m.pit = pit]) ELSE Stop(c, "SKIPPED", "plain")
                  : pit \in Pits})

ValidateMarch(c) ==
  Need(c, c.m.pit # "none" /\ c.policy, StopSaying(c, "BLOCKED") \cup Ok([c EXCEPT !.m.march = TRUE]))

DispatchMarch(c) ==
  LET sent == [Act(c, c.m.pit = "enabled", "march") EXCEPT !.m.dispatched = TRUE] IN
    Need(c, c.m.pit # "none" /\ c.m.march /\ c.policy, ActionToStep(sent, sent))

\* _persist_march_dispatch follows a verified dispatch
VerifyDispatch(c) ==
  Need(c, c.m.pit # "none" /\ c.m.dispatched, ActionToStep(c, Verified(c, "march")))

Concludes(s, c) == Conclude(s, c)

Handler(s, c) ==
  Guarded(s, c, {"recover", "complete", "failed"},
    CASE s = "detect_pit" -> DetectPit(c)
      [] s = "validate_march" -> ValidateMarch(c)
      [] s = "dispatch_march" -> DispatchMarch(c)
      [] s = "verify_dispatch" -> VerifyDispatch(c)
      [] s \in {"complete", "recover", "failed"} -> Concludes(s, c)
      [] OTHER -> Prepare(s, c))

\* Only what is blocked is recovered, and no incident is opened.
Report == [UsualReport EXCEPT !.recovers = {"BLOCKED"}, !.minds = FALSE, !.incident = FALSE]

ActLimit == 2   \* the attempts of dispatch_march
=============================================================================
