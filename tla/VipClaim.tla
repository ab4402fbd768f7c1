------------------------------ MODULE VipClaim ------------------------------
(* The handlers of vip_claim_workflow.py: claim the daily reward and the     *)
(* chest if they are free, close their overlays, verify each.                *)
EXTENDS TaskSteps

Steps ==
  <<"validate_input", "load_character", "ensure_account", "ensure_character",
    "ensure_game_running", "open_vip_ui", "scan_vip_rewards", "claim_vip_reward",
    "claim_vip_chest", "close_reward_overlay", "verify_vip_state", "complete", "skipped",
    "recover", "failed", "cancelled">>

Retried ==
  {"ensure_account", "ensure_character", "ensure_game_running", "open_vip_ui",
   "scan_vip_rewards", "verify_vip_state"}

Slack == 12

Targets == <<"DAILY_REWARD", "VIP_CHEST">>
Views == [{"DAILY_REWARD", "VIP_CHEST"} -> {"free", "paid", "cooldown"}]
Confirmations == {"NONE", "FREE", "PAID"}   \* PAID stands for KEY, GEM and UNKNOWN too

\* The targets selected and those claimed; block_when_only_paid_options of the policy
Memory == [selected |-> <<>>, opened |-> <<>>, block |-> FALSE]

Prepare(s, c) ==
  IF s = "validate_input"
    THEN Then(Opening(s, c), LAMBDA d : UNION {Ok([d EXCEPT !.m.block = block]) : block \in BOOLEAN})
    ELSE Opening(s, c)

\* _select_free_targets, _target_skip_reason
FreeTargets(view) == SelectSeq(Targets, LAMBDA target : view[target] = "free")

ScanVipRewards(c) ==
  Need(c, c.char /\ c.policy,
    StopSaying(c, "FATAL_FAILURE") \cup StopSaying(c, "BLOCKED")
      \cup UNION {LET selected == FreeTargets(view)
                      onlyPaid == \A target \in DOMAIN view : view[target] = "paid"
                  IN IF selected # <<>>
                       THEN Ok([c EXCEPT !.m.selected = selected])
                       ELSE Stop(c, IF onlyPaid /\ c.m.block THEN "BLOCKED" ELSE "SKIPPED", "plain")
                  : view \in Views})

\* _open_failure, _reward_close_failure, _action_to_step
ClaimAction(c, done) == ActionToStep(c, done)

ClaimTarget(c, target) ==
  LET acted == Act(c, target \notin c.h.closed, target) IN
    Need(c, c.char /\ c.policy,
      UNION {IF confirmation = "PAID"
               THEN Stop(acted, "BLOCKED", "manual")
               ELSE ClaimAction(acted, [acted EXCEPT !.m.opened = Append(@, target)])
             : confirmation \in Confirmations})

\* _claim_selected_targets
ClaimSelected(c, target) ==
  LET matching == SelectSeq(c.m.selected, LAMBDA t : t = target) IN
    IF matching = <<>> THEN Skip(c) ELSE ForEach(c, matching, ClaimTarget)

CloseRewardOverlay(c) ==
  ForEach(c, c.m.opened, LAMBDA d, target : Ok(d) \cup Need(d, d.char /\ d.policy, ClaimAction(d, d)))

VerifyVipState_First(c) ==
  IF c.m.opened = <<>> THEN Ok(c) ELSE Ok(Verified(c, Head(c.m.opened))) \cup StopSaying(c, "BLOCKED")

\* _target_postcondition_verified
VerifyVipState(c) ==
  ForEach(c, c.m.opened, LAMBDA d, target :
    Need(d, d.char /\ d.policy, Ok(Verified(d, target)) \cup StopSaying(d, "BLOCKED")))

Concludes(s, c) == Conclude(s, c)

Handler(s, c) ==
  Guarded(s, c, {"recover", "complete", "skipped", "failed"},
    CASE s = "scan_vip_rewards" -> ScanVipRewards(c)
      [] s = "claim_vip_reward" -> ClaimSelected(c, "DAILY_REWARD")
      [] s = "claim_vip_chest" -> ClaimSelected(c, "VIP_CHEST")
      [] s = "close_reward_overlay" -> CloseRewardOverlay(c)
      [] s = "verify_vip_state" -> VerifyVipState(c)
      [] s \in {"complete", "skipped", "recover", "failed"} -> Concludes(s, c)
      [] OTHER -> Prepare(s, c))

Report == UsualReport

ActLimit == 2   \* the targets
=============================================================================
