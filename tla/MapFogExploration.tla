-------------------------- MODULE MapFogExploration -------------------------
(* The handlers of map_fog_exploration_workflow.py: find a target in the fog,  *)
(* investigate a discovery, send a scout.                                      *)
EXTENDS TaskSteps

Steps ==
  <<"validate_input", "load_character", "ensure_account", "ensure_character",
    "ensure_game_running", "validate_idle_scout", "scan_for_fog_target",
    "investigate_discovery", "dispatch_scout", "verify_scout_busy", "complete", "cancelled">>

Retried ==
  {"ensure_account", "ensure_character", "ensure_game_running", "dispatch_scout",
   "verify_scout_busy"}

\* FogScoutPolicy.max_scans
MaxScans == 2
Slack == MaxScans + 6

\* Whether a scout is idle, the target, whether the scout was dispatched
Memory == [scout |-> FALSE, target |-> "none", dispatched |-> FALSE]

\* FogTargetStatus: the fog, a discovery the policy investigates or not, a target
\* below the confidence threshold, none, and a screen in the way
Targets == {"fog", "discovery", "unwanted", "unsure", "not_found", "verification"}

\* _target_is_valid
ValidTargets == {"fog", "discovery"}

Prepare(s, c) == Opening(s, c)

ValidateIdleScout(c) == Need(c, c.policy, Ok([c EXCEPT !.m.scout = TRUE]) \cup StopSaying(c, "BLOCKED"))

Scan(c) ==
  UNION {CASE target = "verification" -> StopSaying(c, "BLOCKED")
           [] target \in ValidTargets -> Ok([c EXCEPT !.m.target = target])
           [] OTHER -> Ok(c) : target \in Targets}

\* Scans until one finds a valid target
ScanForFogTarget(c) ==
  LET again == [c EXCEPT !.m.target = "none"]
      found == ForEach(again, [k \in 1..MaxScans |-> k],
                 LAMBDA d, k : IF d.m.target # "none" THEN Ok(d) ELSE Scan(d))
  IN Need(c, c.policy,
       UNION {IF r.c.stop = "none" /\ r.c.m.target = "none"
                THEN Stop(r.c, "RETRYABLE_FAILURE", "plain") ELSE {r} : r \in found})

InvestigateDiscovery(c) ==
  Need(c, c.m.target # "none",
    IF c.m.target = "fog" THEN Skip(c) ELSE Need(c, c.policy, ActionToStep(c, c)))

DispatchScout(c) ==
  LET sent == [Act(c, c.m.target \in ValidTargets, "scout") EXCEPT !.m.dispatched = TRUE] IN
    Need(c, c.m.target # "none" /\ c.m.scout /\ c.policy, ActionToStep(sent, sent))

\* _persist_scout_dispatch follows a verified dispatch
VerifyScoutBusy(c) ==
  Need(c, c.m.target # "none" /\ c.m.dispatched, ActionToStep(c, Verified(c, "scout")))

Handler(s, c) ==
  Guarded(s, c, {"complete"},
    CASE s = "validate_idle_scout" -> ValidateIdleScout(c)
      [] s = "scan_for_fog_target" -> ScanForFogTarget(c)
      [] s = "investigate_discovery" -> InvestigateDiscovery(c)
      [] s = "dispatch_scout" -> DispatchScout(c)
      [] s = "verify_scout_busy" -> VerifyScoutBusy(c)
      [] s = "complete" -> Complete(c)
      [] OTHER -> Prepare(s, c))

\* Only what is blocked is recovered, no incident is opened, and the outcome of the
\* engine stands.
Report ==
  [UsualReport EXCEPT !.overrides = {}, !.recovers = {"BLOCKED"}, !.minds = FALSE, !.incident = FALSE]

ActLimit == 2   \* the attempts of dispatch_scout
=============================================================================
