-------------------------- MODULE CityTavernChest ---------------------------
(* The handlers of city_tavern_chest_workflow.py: open the free chests, then *)
(* close their rewards, then verify each.                                    *)
EXTENDS TaskSteps

Steps ==
  <<"validate_input", "load_character", "ensure_account", "ensure_character",
    "ensure_game_running", "open_tavern", "scan_chests", "select_free_chest",
    "open_free_chest", "close_reward_ui", "verify_chest_state", "complete", "skipped",
    "recover", "failed", "cancelled">>

Retried ==
  {"ensure_account", "ensure_character", "ensure_game_running", "open_tavern", "scan_chests",
   "verify_chest_state"}

Slack == 12

Chests == <<"SILVER", "GOLD">>
Views == [{"SILVER", "GOLD"} -> {"free", "paid", "cooldown"}]
Confirmations == {"NONE", "FREE", "PAID"}   \* PAID stands for KEY, GEM and UNKNOWN too

\* The scan, the chests selected and those opened;
\* block_when_only_paid_or_key_options of the policy
Memory ==
  [read |-> FALSE, view |-> [chest \in {"SILVER", "GOLD"} |-> "cooldown"],
   selected |-> <<>>, opened |-> <<>>, block |-> FALSE]

Prepare(s, c) ==
  IF s = "validate_input"
    THEN Then(Opening(s, c), LAMBDA d : UNION {Ok([d EXCEPT !.m.block = block]) : block \in BOOLEAN})
    ELSE Opening(s, c)

ScanChests(c) ==
  Need(c, c.char /\ c.policy,
    StopSaying(c, "FATAL_FAILURE") \cup StopSaying(c, "BLOCKED")
      \cup {Result("SUCCESS", [c EXCEPT !.m.read = TRUE, !.m.view = view]) : view \in Views})

\* _select_free_chests, _chest_skip_reason
FreeChests(view) == SelectSeq(Chests, LAMBDA chest : view[chest] = "free")

SelectFreeChest(c) ==
  LET selected == FreeChests(c.m.view)
      onlyPaid == \A chest \in DOMAIN c.m.view : c.m.view[chest] = "paid"
  IN
    Need(c, c.m.read /\ c.policy,
      IF selected # <<>>
        THEN Ok([c EXCEPT !.m.selected = selected])
        ELSE Stop(c, IF onlyPaid /\ c.m.block THEN "BLOCKED" ELSE "SKIPPED", "plain"))

\* _open_failure, _reward_close_failure, _action_to_step
ChestAction(c, done) == ActionToStep(c, done)

Open(c, chest) ==
  LET acted == Act(c, c.m.view[chest] = "free", chest) IN
    Need(c, c.char /\ c.policy,
      UNION {IF confirmation = "PAID"
               THEN Stop(acted, "BLOCKED", "manual")
               ELSE ChestAction(acted, [acted EXCEPT !.m.opened = Append(@, chest)])
             : confirmation \in Confirmations})

OpenFreeChest(c) == ForEach(c, c.m.selected, Open)

CloseRewardUi(c) ==
  ForEach(c, c.m.opened, LAMBDA d, chest : Ok(d) \cup Need(d, d.char /\ d.policy, ChestAction(d, d)))

\* _chest_postcondition_verified
VerifyChestState(c) ==
  ForEach(c, c.m.opened, LAMBDA d, chest :
    Need(d, d.char /\ d.policy, Ok(Verified(d, chest)) \cup StopSaying(d, "BLOCKED")))

Concludes(s, c) == Conclude(s, c)

Handler(s, c) ==
  Guarded(s, c, {"recover", "complete", "skipped", "failed"},
    CASE s = "scan_chests" -> ScanChests(c)
      [] s = "select_free_chest" -> SelectFreeChest(c)
      [] s = "open_free_chest" -> OpenFreeChest(c)
      [] s = "close_reward_ui" -> CloseRewardUi(c)
      [] s = "verify_chest_state" -> VerifyChestState(c)
      [] s \in {"complete", "skipped", "recover", "failed"} -> Concludes(s, c)
      [] OTHER -> Prepare(s, c))

Report == UsualReport

ActLimit == 2   \* the chests
=============================================================================
