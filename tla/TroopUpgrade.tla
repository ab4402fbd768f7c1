---------------------------- MODULE TroopUpgrade ----------------------------
(* The handlers of troop_upgrade_workflow.py: the stages of troop training,  *)
(* with a tab to open and an amount to set.  A restart forgets the active    *)
(* buildings, and a loop over none succeeds.                                 *)
EXTENDS TaskSteps

Steps ==
  <<"validate_input", "load_character", "ensure_account", "ensure_character",
    "ensure_game_running", "normalize_city_view", "open_training_building",
    "open_upgrade_tab", "inspect_upgrade_state", "select_upgrade_tiers",
    "set_upgrade_amount", "start_upgrade", "verify_upgrade_state", "complete", "skipped",
    "recover", "failed", "cancelled">>

Retried ==
  {"ensure_account", "ensure_character", "ensure_game_running", "normalize_city_view",
   "open_training_building", "open_upgrade_tab", "inspect_upgrade_state",
   "select_upgrade_tiers", "verify_upgrade_state"}

Slack == 20

EnabledBuildings == <<"BARRACKS", "STABLE">>

\* BUSY stands for READY and INSUFFICIENT_RESOURCES too.
Queues == {"IDLE", "BUSY", "UNKNOWN"}
\* The first option let through, with its eligible_count
Options == {"one", "many", "none", "no_eligible", "insufficient", "unverified"}
Confirmations == {"NONE", "UNSAFE"}

UpgradeAmount == 1   \* upgrade_amount
MaxAmount == 2       \* max_upgrade_amount
Eligible(option) == IF option = "one" THEN 1 ELSE MaxAmount + 1

\* active_buildings, the eligible units of those selected, whether the flags skip
\* busy queues, and allow_all_eligible
Memory ==
  [active |-> <<>>, eligible |-> [b \in {"BARRACKS", "STABLE"} |-> 0], skip |-> FALSE, all |-> FALSE]

Prepare(s, c) ==
  CASE s = "validate_input" ->
         Then(Opening(s, c), LAMBDA d :
           UNION {Ok([d EXCEPT !.m.active = EnabledBuildings, !.m.skip = flags[1], !.m.all = flags[2]])
                  : flags \in BOOLEAN \X BOOLEAN})
    [] s = "ensure_game_running" -> Ok(c)   \* left to the driver
    [] OTHER -> Opening(s, c)

\* A call for every active building that raises without a character or policy
Each(c, Call(_, _)) == ForEach(c, c.m.active, LAMBDA d, b : Need(d, d.char /\ d.policy, Call(d, b)))

\* normalize_city_view, open_training_building, open_upgrade_tab
Open(c) == Each(c, LAMBDA d, b : ActionToStep(d, d))

\* The active buildings a stage keeps; it stops if there is none.
Keep(results) ==
  Then(results, LAMBDA d : IF d.m.active = <<>> THEN Stop(d, "SKIPPED", "plain") ELSE Ok(d))

InspectUpgradeState(c) ==
  LET buildings == c.m.active
      inspect(d, b) ==
        UNION {IF queue = "IDLE"
                 THEN Ok([d EXCEPT !.m.active = Append(@, b)])
                 ELSE IF queue = "BUSY" /\ d.m.skip THEN Ok(d) ELSE StopSaying(d, "BLOCKED")
               : queue \in Queues}
  IN
    Need(c, c.policy,
      Keep(ForEach([c EXCEPT !.m.active = <<>>], buildings,
                   LAMBDA d, b : Need(d, d.char, inspect(d, b)))))

\* _select_upgrade_option, _option_skip_reason
SelectTiers(c, b) ==
  UNION {CASE option \in {"one", "many"} ->
                Need(c, c.char, ActionToStep(c, [c EXCEPT !.m.active = Append(@, b),
                                                          !.m.eligible[b] = Eligible(option)]))
           [] option = "no_eligible"  -> Ok(c)
           [] option = "insufficient" -> IF c.m.skip THEN Ok(c) ELSE Stop(c, "BLOCKED", "plain")
           [] option = "none"         -> Stop(c, "BLOCKED", "plain")
           [] option = "unverified"   -> StopSaying(c, "BLOCKED") : option \in Options}

\* A selection that is to be tried again leaves the buildings as they were.
SelectUpgradeTiers(c) ==
  LET buildings == c.m.active
      selected == Keep(ForEach([c EXCEPT !.m.active = <<>>], buildings, SelectTiers))
  IN
    Need(c, c.policy, {IF r.out = "RETRYABLE_FAILURE" THEN Result(r.out, c) ELSE r : r \in selected})

Least(a, b) == IF a < b THEN a ELSE b

\* _amount_for_option without the policy's maximum
\* _amount_for_option
Amount(eligible, all) ==
  LET most == Least(eligible, MaxAmount) IN
    IF all THEN most ELSE Least(most, UpgradeAmount)

SetUpgradeAmount(c) == Each(c, LAMBDA d, b : ActionToStep(d, d))

StartUpgrade(c) ==
  Each(c, LAMBDA d, b :
    LET amount == Amount(d.m.eligible[b], d.m.all)
        started == Act(d, amount \in 1..MaxAmount, b)
    IN
      UNION {IF confirmation = "UNSAFE" THEN Stop(started, "BLOCKED", "manual")
             ELSE ActionToStep(started, started) : confirmation \in Confirmations})

\* _upgrade_postcondition_verified; what is not verified is not retried
VerifyUpgradeState(c) ==
  Each(c, LAMBDA d, b : Ok(Verified(d, b)) \cup StopSaying(d, "BLOCKED"))

Concludes(s, c) == Conclude(s, c)

Handler(s, c) ==
  Guarded(s, c, {"recover", "complete", "skipped", "failed"},
    CASE s \in {"normalize_city_view", "open_training_building", "open_upgrade_tab"} -> Open(c)
      [] s = "inspect_upgrade_state" -> InspectUpgradeState(c)
      [] s = "select_upgrade_tiers" -> SelectUpgradeTiers(c)
      [] s = "set_upgrade_amount" -> SetUpgradeAmount(c)
      [] s = "start_upgrade" -> StartUpgrade(c)
      [] s = "verify_upgrade_state" -> VerifyUpgradeState(c)
      [] s \in {"complete", "skipped", "recover", "failed"} -> Concludes(s, c)
      [] OTHER -> Prepare(s, c))

Report == UsualReport

ActLimit == 2   \* the enabled buildings
=============================================================================
