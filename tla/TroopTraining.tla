--------------------------- MODULE TroopTraining ----------------------------
(* The handlers of troop_training_workflow.py: every stage goes over the     *)
(* buildings that are still active.  A restart forgets which those are, and  *)
(* a loop over none succeeds.                                                *)
EXTENDS TaskSteps

Steps ==
  <<"validate_input", "load_character", "ensure_account", "ensure_character",
    "ensure_game_running", "normalize_city_view", "open_training_building",
    "inspect_training_queue", "select_training_tier", "start_training",
    "verify_training_state", "complete", "skipped", "recover", "failed", "cancelled">>

Retried ==
  {"ensure_account", "ensure_character", "ensure_game_running", "normalize_city_view",
   "open_training_building", "inspect_training_queue", "select_training_tier",
   "verify_training_state"}

Slack == 16

EnabledBuildings == <<"BARRACKS", "STABLE">>

\* BUSY stands for READY and INSUFFICIENT_RESOURCES too, each with its own flag in
\* the policy.
Queues == {"IDLE", "BUSY", "UNKNOWN"}
Options == {"tier", "none", "insufficient", "unverified"}
Confirmations == {"NONE", "UNSAFE"}

\* active_buildings, those inspected to be idle, and skip_busy_queue
Memory == [active |-> <<>>, idle |-> {}, skip |-> FALSE]

Prepare(s, c) ==
  CASE s = "validate_input" ->
         Then(Opening(s, c), LAMBDA d :
           UNION {Ok([d EXCEPT !.m.active = EnabledBuildings, !.m.skip = skip]) : skip \in BOOLEAN})
    [] s = "ensure_game_running" -> Ok(c)   \* left to the driver
    [] OTHER -> Opening(s, c)

\* A call for every active building that raises without a character or policy
Each(c, Call(_, _)) == ForEach(c, c.m.active, LAMBDA d, b : Need(d, d.char /\ d.policy, Call(d, b)))

NormalizeCityView(c) ==
  IF c.m.active = <<>>   \* enabled_buildings: as active as this up to here
    THEN Stop(c, "SKIPPED", "plain")
    ELSE Each(c, LAMBDA d, b : ActionToStep(d, d))

OpenTrainingBuilding(c) == Each(c, LAMBDA d, b : ActionToStep(d, d))

\* The active buildings a stage keeps; it stops if there is none.
Keep(results) ==
  Then(results, LAMBDA d : IF d.m.active = <<>> THEN Stop(d, "SKIPPED", "plain") ELSE Ok(d))

InspectQueue(c, b) ==
  UNION {IF queue = "IDLE"
           THEN Ok([c EXCEPT !.m.idle = @ \cup {b}, !.m.active = Append(@, b)])
           ELSE IF queue = "BUSY" /\ c.m.skip THEN Ok(c) ELSE StopSaying(c, "BLOCKED")
         : queue \in Queues}

InspectTrainingQueue(c) ==
  LET buildings == c.m.active IN
    Need(c, c.policy,
      Keep(ForEach([c EXCEPT !.m.active = <<>>], buildings,
                   LAMBDA d, b : Need(d, d.char, InspectQueue(d, b)))))

\* _select_tier_option, _tier_skip_reason
SelectTier(c, b) ==
  LET kept == [c EXCEPT !.m.active = Append(@, b)] IN
    UNION {CASE option = "tier"         -> Need(c, c.char, ActionToStep(c, kept))
             [] option = "insufficient" -> IF c.m.skip THEN Ok(c) ELSE Stop(c, "BLOCKED", "plain")
             [] option = "none"         -> Stop(c, "BLOCKED", "plain")
             [] option = "unverified"   -> StopSaying(c, "BLOCKED") : option \in Options}

\* A selection that is to be tried again leaves the buildings as they were.
SelectTrainingTier(c) ==
  LET buildings == c.m.active
      selected == Keep(ForEach([c EXCEPT !.m.active = <<>>], buildings, SelectTier))
  IN
    Need(c, c.policy, {IF r.out = "RETRYABLE_FAILURE" THEN Result(r.out, c) ELSE r : r \in selected})

StartTraining(c) ==
  Each(c, LAMBDA d, b :
    LET started == Act(d, b \in d.m.idle, b) IN
      UNION {IF confirmation = "UNSAFE" THEN Stop(started, "BLOCKED", "manual")
             ELSE ActionToStep(started, started) : confirmation \in Confirmations})

\* _training_postcondition_verified; what is not verified is not retried
VerifyTrainingState(c) ==
  Each(c, LAMBDA d, b : Ok(Verified(d, b)) \cup StopSaying(d, "BLOCKED"))

Concludes(s, c) == Conclude(s, c)

Handler(s, c) ==
  Guarded(s, c, {"recover", "complete", "skipped", "failed"},
    CASE s = "normalize_city_view" -> NormalizeCityView(c)
      [] s = "open_training_building" -> OpenTrainingBuilding(c)
      [] s = "inspect_training_queue" -> InspectTrainingQueue(c)
      [] s = "select_training_tier" -> SelectTrainingTier(c)
      [] s = "start_training" -> StartTraining(c)
      [] s = "verify_training_state" -> VerifyTrainingState(c)
      [] s \in {"complete", "skipped", "recover", "failed"} -> Concludes(s, c)
      [] OTHER -> Prepare(s, c))

Report == UsualReport

ActLimit == 2   \* the enabled buildings
=============================================================================
