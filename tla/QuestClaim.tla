----------------------------- MODULE QuestClaim -----------------------------
(* The handlers of quest_claim_workflow.py: claim the completed quests of    *)
(* every tab, then the milestones of the daily objectives.                   *)
EXTENDS TaskSteps

Steps ==
  <<"validate_input", "load_character", "ensure_account", "ensure_character",
    "ensure_game_running", "open_quest_ui", "scan_quest_tabs", "process_quest_page",
    "claim_quest", "process_daily_objectives", "claim_daily_milestone",
    "close_reward_overlay", "verify_claim_state", "complete", "skipped", "recover",
    "failed", "cancelled">>

Retried ==
  {"ensure_account", "ensure_character", "ensure_game_running", "open_quest_ui",
   "scan_quest_tabs"}

Categories == <<"MAIN", "SIDE">>
Pages == 1        \* max_quest_pages_per_tab
DailyPages == 2   \* max_daily_pages
MaxClaims == 2    \* max_claim_iterations: fewer than there are claims

Slack == 2 * Pages + DailyPages + 16

\* claim_iterations, and whether a quest or milestone is known to be claimed
Memory == [iterations |-> 0, claimed |-> FALSE]

\* What an entry is read as; "unsafe": it spends, or was not clearly seen
Entries == {"claim", "go", "unsafe"}

Prepare(s, c) == Opening(s, c)

\* _claim_action_failure, _reward_close_failure
ClaimAction(c) == ActionToStep(c, c)

CloseRewardOverlay(c) == Ok(c) \cup ClaimAction(c)

\* _quest_postcondition_verified, _daily_postcondition_verified
VerifyClaim(c, target) ==
  Ok([Verified(c, target) EXCEPT !.m.claimed = TRUE]) \cup StopSaying(c, "BLOCKED")

ReserveClaimIteration_Unlimited(c) == Ok([c EXCEPT !.m.iterations = @ + 1])

ReserveClaimIteration(c) ==
  IF c.m.iterations >= MaxClaims
    THEN Stop(c, "BLOCKED", "plain")
    ELSE Ok([c EXCEPT !.m.iterations = @ + 1])

\* _claim_quest_observation, _claim_daily_milestone_observation
Claim(c, target) ==
  Then(ReserveClaimIteration(c), LAMBDA d :
  Then(ClaimAction(Act(d, TRUE, target)), LAMBDA e :
  Then(CloseRewardOverlay(e), LAMBDA f : VerifyClaim(f, target))))

\* _handle_quest_scan and _handle_daily_scan, then what is claimable on the page
ProcessPage(c, target) ==
  StopSaying(c, "FATAL_FAILURE") \cup Retry(c) \cup StopSaying(c, "BLOCKED")
    \cup UNION {CASE entry = "unsafe" -> StopSaying(c, "BLOCKED")
                  [] entry = "go"     -> Ok(c)
                  [] entry = "claim"  -> Claim(c, target) : entry \in Entries}

ProcessPages(c, pages, list) ==
  ForEach(c, [page \in 1..pages |-> page], LAMBDA d, page :
    Then(IF page = 1 THEN Ok(d) ELSE Ok(d) \cup ActionToStep(d, d), LAMBDA e : ProcessPage(e, <<list, page>>)))

ProcessQuestPage(c) ==
  Need(c, c.char /\ c.policy,
    ForEach(c, Categories, LAMBDA d, category :
      Then(ActionToStep(d, d), LAMBDA e : ProcessPages(e, Pages, category))))

ProcessDailyObjectives(c) ==
  Need(c, c.char /\ c.policy,
    Then(ActionToStep(c, c), LAMBDA d :
    Then(ProcessPages(d, DailyPages, "DAILY"), LAMBDA e :
      IF e.m.claimed THEN Ok(e) ELSE Stop(e, "SKIPPED", "plain"))))

Concludes(s, c) == Conclude(s, c)

Handler(s, c) ==
  Guarded(s, c, {"recover", "complete", "skipped", "failed"},
    CASE s = "scan_quest_tabs" -> Ok(c)
      [] s = "process_quest_page" -> ProcessQuestPage(c)
      [] s = "process_daily_objectives" -> ProcessDailyObjectives(c)
      [] s \in {"claim_quest", "claim_daily_milestone", "close_reward_overlay",
                "verify_claim_state"} -> Skip(c)
      [] s \in {"complete", "skipped", "recover", "failed"} -> Concludes(s, c)
      [] OTHER -> Prepare(s, c))

Report == UsualReport

ActLimit == MaxClaims
=============================================================================
