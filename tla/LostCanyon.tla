----------------------------- MODULE LostCanyon -----------------------------
(* The handlers of lost_canyon_workflow.py, which repeats the battles of      *)
(* sunset_canyon_workflow.py in a canyon that is not always there.            *)
EXTENDS TaskSteps

Sunset == INSTANCE SunsetCanyon

Steps ==
  <<"validate_input", "load_character", "ensure_account", "ensure_character",
    "ensure_game_running", "open_campaign", "open_lost_canyon", "inspect_attempts",
    "fight_battles", "complete", "skipped", "recover", "failed", "cancelled">>

Retried ==
  {"ensure_account", "ensure_character", "ensure_game_running", "open_campaign",
   "open_lost_canyon"}

\* LostCanyonPolicy.max_battles_per_run
MaxBattles == Sunset!MaxBattles
Slack == MaxBattles * 5 + 10

Memory == Sunset!Memory

Prepare(s, c) == Opening(s, c)

\* A canyon that is not available is skipped as well.
InspectAttempts(c) ==
  Need(c, c.char /\ c.policy, Sunset!InspectAttempts(c) \cup StopSaying(c, "SKIPPED"))

FightBattles(c) == Sunset!FightBattles(c)

Concludes(s, c) == Sunset!Concludes(s, c)

Handler(s, c) ==
  Guarded(s, c, {"recover", "complete", "skipped", "failed"},
    CASE s = "inspect_attempts" -> InspectAttempts(c)
      [] s = "fight_battles" -> FightBattles(c)
      [] s \in {"complete", "skipped", "recover", "failed"} -> Concludes(s, c)
      [] OTHER -> Prepare(s, c))

Report == Sunset!Report

ActLimit == MaxBattles
=============================================================================
