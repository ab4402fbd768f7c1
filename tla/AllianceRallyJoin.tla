------------------------- MODULE AllianceRallyJoin --------------------------
(* The handlers of alliance_rally_join_workflow.py: join the first rally the *)
(* policy allows and send a march to it.                                     *)
EXTENDS TaskSteps

Steps ==
  <<"validate_input", "load_character", "ensure_account", "ensure_character",
    "ensure_game_running", "open_alliance_war", "inspect_rallies", "select_rally",
    "verify_march", "verify_troops", "join_rally", "choose_march_preset", "dispatch_march",
    "verify_joined", "complete", "recover", "failed", "cancelled">>

Retried ==
  {"ensure_account", "ensure_character", "ensure_game_running", "open_alliance_war",
   "inspect_rallies", "dispatch_march", "verify_joined"}

Slack == 8

\* The rallies seen, the one selected, whether a march is free, and whether it was sent
Memory == [scan |-> <<>>, rally |-> "none", march |-> FALSE, dispatched |-> FALSE]

\* A rally the policy allows, one it does not, one without capacity
Rallies == {"allowed", "denied", "full"}

Prepare(s, c) == Opening(s, c)

InspectRallies(c) ==
  Need(c, c.char /\ c.policy,
    StopSaying(c, "SKIPPED")
      \cup {Result("SUCCESS", [c EXCEPT !.m.scan = scan]) : scan \in UNION {[1..n -> Rallies] : n \in 1..2}})

\* _decide_rally
Decide(rally) == rally = "allowed"

SelectRally(c) ==
  LET allowed == SelectSeq(c.m.scan, Decide) IN
    Need(c, c.policy /\ c.m.scan # <<>>,
      IF allowed = <<>>
        THEN Stop(c, "SKIPPED", "plain")
        ELSE Need(c, c.char, LET d == [c EXCEPT !.m.rally = allowed[1]] IN ActionToStep(d, d)))

HasRally(c) == c.char /\ c.policy /\ c.m.rally # "none"

VerifyMarch(c) == Need(c, HasRally(c), StopSaying(c, "BLOCKED") \cup Ok([c EXCEPT !.m.march = TRUE]))

VerifyTroops(c) == Need(c, HasRally(c), StopSaying(c, "BLOCKED") \cup Ok(c))

JoinRally(c) ==
  LET joined == Act(c, c.m.rally = "allowed", "rally") IN
    Need(c, HasRally(c), ActionToStep(joined, joined))

ChooseMarchPreset(c) == Need(c, HasRally(c), ActionToStep(c, c))

DispatchMarch(c) ==
  LET sent == [Act(c, c.m.rally = "allowed", "rally") EXCEPT !.m.dispatched = TRUE] IN
    Need(c, HasRally(c) /\ c.m.march, ActionToStep(sent, sent))

\* _persist_march_dispatch follows a rally that was joined
VerifyJoined(c) == Need(c, HasRally(c) /\ c.m.dispatched, ActionToStep(c, Verified(c, "rally")))

Concludes(s, c) == Conclude(s, c)

Handler(s, c) ==
  Guarded(s, c, {"recover", "complete", "failed"},
    CASE s = "inspect_rallies" -> InspectRallies(c)
      [] s = "select_rally" -> SelectRally(c)
      [] s = "verify_march" -> VerifyMarch(c)
      [] s = "verify_troops" -> VerifyTroops(c)
      [] s = "join_rally" -> JoinRally(c)
      [] s = "choose_march_preset" -> ChooseMarchPreset(c)
      [] s = "dispatch_march" -> DispatchMarch(c)
      [] s = "verify_joined" -> VerifyJoined(c)
      [] s \in {"complete", "recover", "failed"} -> Concludes(s, c)
      [] OTHER -> Prepare(s, c))

\* Only what is blocked is recovered, and no incident is opened.
Report == [UsualReport EXCEPT !.recovers = {"BLOCKED"}, !.minds = FALSE, !.incident = FALSE]

ActLimit == 3   \* join_rally once, dispatch_march twice
=============================================================================
