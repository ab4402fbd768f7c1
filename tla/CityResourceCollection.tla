----------------------- MODULE CityResourceCollection -----------------------
(* The handlers of city_resource_collection_workflow.py: scan the city in   *)
(* passes and collect each resource type that is ready in a pass.           *)
EXTENDS TaskSteps

Steps ==
  <<"validate_input", "load_character", "ensure_account", "ensure_character",
    "ensure_game_running", "normalize_city_home", "collect_resources", "complete",
    "recover", "failed", "cancelled">>

Retried == {"ensure_account", "ensure_character", "ensure_game_running", "normalize_city_home"}

MaxPasses == 2

Slack == MaxPasses + 8

Memory == [collected |-> FALSE]

\* _ready_observations: the enabled types seen inside their region with enough
\* confidence, each once and in the order of their names
ReadyTypes == {<<>>, <<"FOOD">>, <<"WOOD">>, <<"FOOD", "WOOD">>}

Prepare(s, c) == Opening(s, c)

\* _action_to_step, _collection_failure: the action succeeds with the state done
CollectionAction(c, done) == ActionToStep(c, done)

Collect(c, target) ==
  LET clicked == Act(c, TRUE, target) IN
    Then(CollectionAction(clicked, clicked), LAMBDA d :
      CollectionAction(d, [Verified(d, target) EXCEPT !.m.collected = TRUE]))

Collected(c) == IF c.m.collected THEN Ok(c) ELSE Stop(c, "SKIPPED", "plain")

\* A pass that only clears an overlay counts as one.
RECURSIVE Pass(_, _)
Pass(c, pass) ==
  IF pass > MaxPasses THEN Collected(c)
  ELSE
    StopSaying(c, "FATAL_FAILURE") \cup StopSaying(c, "BLOCKED")
      \cup Then(CollectionAction(c, c), LAMBDA d : Pass(d, pass + 1))
      \cup UNION {IF ready = <<>>
                    THEN Collected(c) \cup (IF pass = 1 THEN StopSaying(c, "SKIPPED") ELSE {})
                    ELSE Then(ForEach(c, ready, LAMBDA d, type : Collect(d, <<pass, type>>)),
                              LAMBDA d : Pass(d, pass + 1))
                  : ready \in ReadyTypes}

CollectResources(c) == Need(c, c.char /\ c.policy, Pass(c, 1))

Concludes(s, c) == Conclude(s, c)

Handler(s, c) ==
  Guarded(s, c, {"recover", "complete", "failed"},
    CASE s = "collect_resources" -> CollectResources(c)
      [] s \in {"complete", "recover", "failed"} -> Concludes(s, c)
      [] OTHER -> Prepare(s, c))

Report == UsualReport

ActLimit == MaxPasses * 2   \* two enabled types
=============================================================================
