----------------------- MODULE CityMaterialProduction -----------------------
(* The handlers of city_material_production_workflow.py: produce one        *)
(* material if the queue is free.                                           *)
EXTENDS TaskSteps

Steps ==
  <<"validate_input", "load_character", "ensure_account", "ensure_character",
    "ensure_game_running", "open_material_production", "inspect_queue_state",
    "select_material", "start_production", "verify_production_state", "complete", "skipped",
    "recover", "failed", "cancelled">>

Retried ==
  {"ensure_account", "ensure_character", "ensure_game_running", "open_material_production",
   "inspect_queue_state", "select_material", "verify_production_state"}

Slack == 16

\* The state of the queue, the material selected and started, and allow_overwrite
\* or allow_acceleration of the policy
Memory == [queue |-> "unread", selected |-> FALSE, started |-> FALSE, overwrite |-> FALSE]

\* BUSY stands for COOLDOWN and READY too.
Queues == {"IDLE", "BUSY", "INSUFFICIENT_RESOURCES"}

\* The first option of the priority order _option_skip_reason lets through
Options == {"none", "unverified", "verified"}

Prepare(s, c) ==
  IF s = "validate_input"
    THEN Then(Opening(s, c), LAMBDA d :
           UNION {Ok([d EXCEPT !.m.overwrite = overwrite]) : overwrite \in BOOLEAN})
    ELSE Opening(s, c)

InspectQueueState(c) ==
  Need(c, c.char /\ c.policy,
    StopSaying(c, "FATAL_FAILURE") \cup StopSaying(c, "BLOCKED")
      \cup UNION {LET d == [c EXCEPT !.m.queue = queue] IN
                    IF queue = "BUSY" /\ ~c.m.overwrite THEN StopSaying(d, "SKIPPED") ELSE Ok(d)
                  : queue \in Queues})

\* _select_material_option
SelectMaterial(c) ==
  Need(c, c.m.queue # "unread" /\ c.policy,
    UNION {CASE option = "none"       -> Stop(c, "SKIPPED", "plain")
             [] option = "unverified" -> StopSaying(c, "BLOCKED")
             [] option = "verified"   ->
                  Need(c, c.char, ActionToStep(c, [c EXCEPT !.m.selected = TRUE]))
           : option \in Options})

\* _production_failure
ProductionAction(c) == ActionToStep(c, c)

StartProduction(c) ==
  LET started == [Act(c, c.m.queue # "BUSY" \/ c.m.overwrite, "queue") EXCEPT !.m.started = TRUE] IN
    Need(c, c.char /\ c.policy /\ c.m.selected /\ c.m.queue # "unread", ProductionAction(started))

\* _production_postcondition_verified; what is not verified is not retried
VerifyProductionState(c) ==
  Need(c, c.char /\ c.policy /\ c.m.selected /\ c.m.started,
    Ok(Verified(c, "queue")) \cup StopSaying(c, "BLOCKED"))

Concludes(s, c) == Conclude(s, c)

Handler(s, c) ==
  Guarded(s, c, {"recover", "complete", "skipped", "failed"},
    CASE s = "inspect_queue_state" -> InspectQueueState(c)
      [] s = "select_material" -> SelectMaterial(c)
      [] s = "start_production" -> StartProduction(c)
      [] s = "verify_production_state" -> VerifyProductionState(c)
      [] s \in {"complete", "skipped", "recover", "failed"} -> Concludes(s, c)
      [] OTHER -> Prepare(s, c))

Report == UsualReport

ActLimit == 1
=============================================================================
