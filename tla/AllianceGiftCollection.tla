----------------------- MODULE AllianceGiftCollection -----------------------
(* The handlers of alliance_gift_collection_workflow.py: scan the pages of  *)
(* the gift tabs, then claim every page that has something to claim.        *)
EXTENDS TaskSteps

Steps ==
  <<"validate_input", "load_character", "ensure_account", "ensure_character",
    "ensure_game_running", "open_alliance", "open_alliance_gifts", "scan_gift_tabs",
    "process_gift_tab", "claim_gifts", "close_reward_popup", "handle_connection_popup",
    "verify_claim_state", "complete", "skipped", "recover", "failed", "cancelled">>

Retried ==
  {"ensure_account", "ensure_character", "ensure_game_running", "open_alliance",
   "open_alliance_gifts", "scan_gift_tabs"}

Slack == 24

\* The pages with claimable gifts, and whether the scene and tab were verified there;
\* allow_claim_all of the policy
Memory == [queue |-> <<>>, all |-> FALSE]

Pages == 2       \* max_pages_per_tab times the enabled tabs
MaxClaims == 3   \* max_claim_iterations: more than there are pages

Prepare(s, c) ==
  IF s = "validate_input"
    THEN Then(Opening(s, c), LAMBDA d : UNION {Ok([d EXCEPT !.m.all = all]) : all \in BOOLEAN})
    ELSE Opening(s, c)

\* _gift_action_failure, _action_to_step
GiftAction(c) == ActionToStep(c, c)

HandleConnectionPopup(c) == GiftAction(c)

\* A page where the popup was closed is passed over.
RECURSIVE ScanFrom(_, _)
ScanFrom(c, page) ==
  LET onwards(d) == IF page < Pages THEN ScanFrom(d, page + 1) ELSE Ok(d)
      claimable == UNION {{[c EXCEPT !.m.queue = Append(@, [page |-> page, sure |-> sure])]
                           : sure \in BOOLEAN}}
  IN
    StopSaying(c, "FATAL_FAILURE")
      \cup StopSaying(c, "BLOCKED")
      \cup Then(HandleConnectionPopup(c), onwards)
      \cup UNION {Ok(d) \cup Then(GiftAction(d), onwards) : d \in {c} \cup claimable}

ScanGiftTabs(c) ==
  Need(c, c.policy /\ c.char,
    Then(ScanFrom(c, 1), LAMBDA d : IF d.m.queue = <<>> THEN Stop(d, "SKIPPED", "plain") ELSE Ok(d)))

CloseRewardPopup(c) == Ok(c) \cup GiftAction(c)

VerifyClaimState(c, scan) == Ok(Verified(c, scan.page)) \cup Retry(c) \cup StopSaying(c, "BLOCKED")

Claim(c, scan) ==
  LET claimed == Act(c, scan.sure, scan.page) IN
    IF ~scan.sure
      THEN Stop(c, "BLOCKED", "plain")
      ELSE Then(Ok(claimed) \cup HandleConnectionPopup(claimed),
                LAMBDA d : Then(GiftAction(d),
                LAMBDA e : Then(CloseRewardPopup(e), LAMBDA f : VerifyClaimState(f, scan))))

ClaimGifts(c) ==
  LET n == Len(c.m.queue)
      claims == ForEach(c, SubSeq(c.m.queue, 1, IF n < MaxClaims THEN n ELSE MaxClaims), Claim)
  IN
    Need(c, c.policy,
      IF ~c.m.all THEN Stop(c, "SKIPPED", "plain")
      ELSE IF n > MaxClaims THEN Then(claims, LAMBDA d : Stop(d, "BLOCKED", "plain"))
      ELSE claims)

Concludes(s, c) == Conclude(s, c)

Handler(s, c) ==
  Guarded(s, c, {"recover", "complete", "skipped", "failed"},
    CASE s = "scan_gift_tabs" -> ScanGiftTabs(c)
      [] s = "claim_gifts" -> ClaimGifts(c)
      [] s \in {"process_gift_tab", "close_reward_popup", "handle_connection_popup",
                "verify_claim_state"} -> Skip(c)
      [] s \in {"complete", "skipped", "recover", "failed"} -> Concludes(s, c)
      [] OTHER -> Prepare(s, c))

Report == UsualReport

ActLimit == MaxClaims
=============================================================================
