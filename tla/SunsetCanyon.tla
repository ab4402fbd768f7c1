---------------------------- MODULE SunsetCanyon ----------------------------
(* The handlers of sunset_canyon_workflow.py: fight battles against the        *)
(* opponents of one scan, as many as the policy and the attempts allow.        *)
EXTENDS TaskSteps
LOCAL INSTANCE SequencesExt

Steps ==
  <<"validate_input", "load_character", "ensure_account", "ensure_character",
    "ensure_game_running", "open_campaign", "open_sunset_canyon", "inspect_attempts",
    "fight_battles", "complete", "skipped", "recover", "failed", "cancelled">>

\* fight_battles has no retry
Retried ==
  {"ensure_account", "ensure_character", "ensure_game_running", "open_campaign",
   "open_sunset_canyon"}

\* SunsetCanyonPolicy.max_battles_per_run
MaxBattles == 2
Slack == MaxBattles * 5 + 10

\* What was scanned, and latest_remaining_attempts
NoScan == [attempts |-> 0, opponents |-> <<>>]
Memory == [scan |-> NoScan, left |-> 0]

\* A scan that is ready: the remaining attempts, Unread if the screen does not say,
\* and the opponents, of which only some are above the confidence threshold
Unread == 9
Scans == [attempts : {1, 3, Unread}, opponents : {<<>>, <<"unsure">>, <<"unsure", "sure">>}]

Prepare(s, c) == Opening(s, c)

\* No attempts are left, a screen in the way, or the canyon
InspectAttempts(c) ==
  Need(c, c.char /\ c.policy,
    StopSaying(c, "SKIPPED") \cup StopSaying(c, "FATAL_FAILURE") \cup StopSaying(c, "BLOCKED")
      \cup UNION {Ok([c EXCEPT !.m.scan = scan, !.m.left = scan.attempts]) : scan \in Scans})

\* Attempts the screen does not say are as many as the policy wants
BattleLimit(scan) == IF scan.attempts < MaxBattles THEN scan.attempts ELSE MaxBattles

EligibleOpponents(scan) == SelectSeq(scan.opponents, LAMBDA o : o = "sure")

\* _battle_failure and _action_to_step
BattleFailure(c) == Retry(c) \cup StopSaying(c, "BLOCKED")

\* The report of a battle: what is left is read, or one less than before
Collect(c) ==
  LET before == IF c.m.left = Unread THEN MaxBattles ELSE c.m.left
      done == Verified(c, "battle") IN
    StopSaying(c, "FATAL_FAILURE") \cup StopSaying(c, "BLOCKED")
      \cup {Result("SUCCESS", [done EXCEPT !.m.left = left]) : left \in {0, 2, before - 1}}

\* One battle, unless no attempts are left after the one before: the opponent is
\* selected, the battle started and, if the policy says so, skipped
Battle(c, opponent) ==
  LET begun == Act(c, opponent = "sure", "battle") IN
    BattleFailure(c) \cup BattleFailure(begun) \cup Collect(begun)

FightBattles(c) ==
  Need(c, c.char /\ c.policy /\ c.m.scan # NoScan,
    LET available == EligibleOpponents(c.m.scan) IN
      CASE BattleLimit(c.m.scan) <= 0 -> Stop(c, "SKIPPED", "plain")
        [] available = <<>> -> Stop(c, "BLOCKED", "plain")
        [] OTHER -> ForEach(c, [k \in 1..BattleLimit(c.m.scan) |-> k],
                      LAMBDA d, k : IF k > 1 /\ d.m.left <= 0 THEN Ok(d)
                                                              ELSE Battle(d, Head(available))))

\* complete, recover, failed; skipped does nothing
Concludes(s, c) == IF s = "skipped" THEN Skip(c) ELSE Conclude(s, c)

Handler(s, c) ==
  Guarded(s, c, {"recover", "complete", "skipped", "failed"},
    CASE s = "inspect_attempts" -> InspectAttempts(c)
      [] s = "fight_battles" -> FightBattles(c)
      [] s \in {"complete", "skipped", "recover", "failed"} -> Concludes(s, c)
      [] OTHER -> Prepare(s, c))

Report == [UsualReport EXCEPT !.softens = TRUE]

ActLimit == MaxBattles
=============================================================================
