--------------------- MODULE AllianceResourceCollection ---------------------
(* The handlers of alliance_resource_collection_workflow.py: one scan, then *)
(* a claim for every claimable resource it found.                           *)
EXTENDS TaskSteps

Steps ==
  <<"validate_input", "load_character", "ensure_account", "ensure_character",
    "ensure_game_running", "open_alliance", "open_alliance_resources",
    "scan_claimable_resources", "claim_resource", "close_reward_overlay",
    "verify_claim_state", "complete", "skipped", "recover", "failed", "cancelled">>

Retried ==
  {"ensure_account", "ensure_character", "ensure_game_running", "open_alliance",
   "open_alliance_resources", "scan_claimable_resources"}

Slack == 12

Memory == [queue |-> <<>>]

\* Resource keys the policy enables, one it does not, and max_claims_per_run
Enabled == {"FOOD", "WOOD"}
Observed == {"FOOD", "WOOD", "GOLD"}
MaxClaims == 2

Prepare(s, c) == Opening(s, c)

\* _claimable_observations, _ignore_reason
Claimable(observations) == Selected(observations, Enabled, MaxClaims)

ScanClaimableResources(c) ==
  Need(c, c.char /\ c.policy,
    StopSaying(c, "FATAL_FAILURE") \cup StopSaying(c, "BLOCKED")
      \cup UNION {LET queue == Claimable(observations) IN
                    IF queue = <<>> THEN StopSaying(c, "SKIPPED") ELSE Ok([c EXCEPT !.m.queue = queue])
                  : observations \in UNION {[1..n -> Observed] : n \in 0..3}})

\* _action_to_step, _claim_failure
ClaimAction(c) == ActionToStep(c, c)

CloseRewardOverlay(c) == Ok(c) \cup ClaimAction(c)

VerifyClaimState(c, resource) == Ok(Verified(c, resource)) \cup Retry(c) \cup StopSaying(c, "BLOCKED")

Claim(c, resource) ==
  Then(ClaimAction(Act(c, resource \in Enabled, resource)), LAMBDA d :
  Then(CloseRewardOverlay(d), LAMBDA e : VerifyClaimState(e, resource)))

ClaimResource(c) == Need(c, c.char /\ c.policy, ForEach(c, c.m.queue, Claim))

Concludes(s, c) == Conclude(s, c)

Handler(s, c) ==
  Guarded(s, c, {"recover", "complete", "skipped", "failed"},
    CASE s = "scan_claimable_resources" -> ScanClaimableResources(c)
      [] s = "claim_resource" -> ClaimResource(c)
      [] s \in {"close_reward_overlay", "verify_claim_state"} -> Skip(c)
      [] s \in {"complete", "skipped", "recover", "failed"} -> Concludes(s, c)
      [] OTHER -> Prepare(s, c))

Report == UsualReport

ActLimit == MaxClaims
=============================================================================
