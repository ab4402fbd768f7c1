------------------------ MODULE CityTroopCollection -------------------------
(* The handlers of city_troop_collection_workflow.py: scan the city in      *)
(* passes and collect the troops of every building that has finished.       *)
EXTENDS TaskSteps

Steps ==
  <<"validate_input", "load_character", "ensure_account", "ensure_character",
    "ensure_game_running", "normalize_city_home", "collect_completed_troops",
    "handle_result_panel", "complete", "recover", "failed", "cancelled">>

Retried ==
  {"ensure_account", "ensure_character", "ensure_game_running", "normalize_city_home",
   "handle_result_panel"}

MaxPasses == 2

Slack == MaxPasses + 10

Memory == [collected |-> FALSE]

\* What an indicator may be read as; only the first is collected.
Indicators == {"COMPLETED", "TRAINING"}

Prepare(s, c) == Opening(s, c)

\* _ready_observations, of the buildings the policy enables
Ready(scan) == {b \in DOMAIN scan : scan[b] = "COMPLETED"}

\* _action_to_step, _collection_failure: the action succeeds with the state done
CollectionAction(c, done) == ActionToStep(c, done)

HandleResultPanel(c) == Need(c, c.char /\ c.policy, CollectionAction(c, c))

Collect(c, building, indicator, pass) ==
  LET clicked == Act(c, indicator = "COMPLETED", <<pass, building>>) IN
    Then(CollectionAction(clicked, clicked), LAMBDA d :
    Then(HandleResultPanel(d), LAMBDA e :
      CollectionAction(e, [Verified(e, <<pass, building>>) EXCEPT !.m.collected = TRUE])))

\* A pass that only closes a panel counts as one; a pass that finds nothing ready
\* is the last.
RECURSIVE Pass(_, _, _)
Pass(c, pass, sawReady) ==
  LET collectIn(scan) ==
        ForEach(c, <<"BARRACKS", "STABLE">>,
                LAMBDA d, b : IF b \in Ready(scan) THEN Collect(d, b, scan[b], pass) ELSE Ok(d))
  IN
    IF pass > MaxPasses
      THEN Stop(c, "BLOCKED", "plain")
      ELSE StopSaying(c, "FATAL_FAILURE") \cup StopSaying(c, "BLOCKED")
             \cup Then(HandleResultPanel(c), LAMBDA d : Pass(d, pass + 1, sawReady))
             \cup UNION {IF Ready(scan) = {}
                           THEN IF sawReady THEN Ok(c) ELSE StopSaying(c, "SKIPPED")
                           ELSE Then(collectIn(scan), LAMBDA d : Pass(d, pass + 1, TRUE))
                         : scan \in [{"BARRACKS", "STABLE"} -> Indicators]}

CollectCompletedTroops(c) == Need(c, c.char /\ c.policy, Pass(c, 1, FALSE))

HandleLastPanel(c) == IF c.m.collected THEN HandleResultPanel(c) ELSE Skip(c)

Concludes(s, c) == Conclude(s, c)

Handler(s, c) ==
  Guarded(s, c, {"recover", "complete", "failed"},
    CASE s = "collect_completed_troops" -> CollectCompletedTroops(c)
      [] s = "handle_result_panel" -> HandleLastPanel(c)
      [] s \in {"complete", "recover", "failed"} -> Concludes(s, c)
      [] OTHER -> Prepare(s, c))

Report == UsualReport

ActLimit == MaxPasses * 2   \* two buildings
=============================================================================
