------------------------- MODULE CityMailCollection -------------------------
(* The handlers of city_mail_collection_workflow.py: scan the categories of *)
(* the mail, then claim or read all of each whitelisted one.                *)
EXTENDS TaskSteps

Steps ==
  <<"validate_input", "load_character", "ensure_account", "ensure_character",
    "ensure_game_running", "open_mail", "scan_categories", "process_category",
    "handle_confirmation", "verify_postcondition", "complete", "recover", "failed",
    "cancelled">>

Retried ==
  {"ensure_account", "ensure_character", "ensure_game_running", "open_mail", "scan_categories"}

Pages == 2   \* max_category_pages

Slack == Pages + 10

Memory == [queue |-> <<>>]

Categories == {"REWARDS", "REPORTS", "PLAYER"}
Confirmations == {"NONE", "SAFE", "UNKNOWN", "DESTRUCTIVE"}

\* CityMailCollectionPolicy.action_for, with the defaults
ActionFor(category) ==
  CASE category = "REWARDS" -> "CLAIM_ALL"
    [] category = "REPORTS" -> "READ_ALL"
    [] OTHER -> "NONE"

Prepare(s, c) == Opening(s, c)

\* The queue outlives a page that could not be turned.
RECURSIVE ScanFrom(_, _)
ScanFrom(c, page) ==
  StopSaying(c, "FATAL_FAILURE") \cup StopSaying(c, "BLOCKED")
    \cup (IF c.m.queue = <<>> THEN StopSaying(c, "SKIPPED") ELSE {})
    \cup UNION {LET d == IF ActionFor(category) = "NONE" THEN c
                         ELSE [c EXCEPT !.m.queue = Append(@, category)]
                IN Ok(d) \cup (IF page < Pages
                                 THEN Then(ActionToStep(d, d), LAMBDA e : ScanFrom(e, page + 1))
                                 ELSE {})
                : category \in Categories}

ScanCategories(c) ==
  Need(c, c.char /\ c.policy,
    Then(ScanFrom(c, 1), LAMBDA d : IF d.m.queue = <<>> THEN Stop(d, "SKIPPED", "plain") ELSE Ok(d)))

MailAction(c) == ActionToStep(c, c)

\* A confirmation is looked at before and after it is answered.
HandleConfirmation(c) ==
  LET unsafe == StopSaying(c, "FATAL_FAILURE") \cup StopSaying(c, "BLOCKED") IN
    UNION {CASE kind \in {"UNKNOWN", "DESTRUCTIVE"} -> unsafe
             [] kind = "NONE" -> Ok(c)
             [] kind = "SAFE" -> unsafe \cup MailAction(c) : kind \in Confirmations}

\* _postcondition_verified: something was claimed, or fewer are unread
VerifyPostcondition(c, category) ==
  Ok(Verified(c, category)) \cup Retry(c) \cup StopSaying(c, "BLOCKED")

Process(c, category) ==
  LET acted(d) == Act(d, ActionFor(category) # "NONE", category) IN
    Then(MailAction(c), LAMBDA d :
    Then(HandleConfirmation(acted(d)), LAMBDA e :
    Then(MailAction(e), LAMBDA f : VerifyPostcondition(f, category))))

ProcessCategory(c) == Need(c, c.char /\ c.policy, ForEach(c, c.m.queue, Process))

Concludes(s, c) == Conclude(s, c)

Handler(s, c) ==
  Guarded(s, c, {"recover", "complete", "failed"},
    CASE s = "scan_categories" -> ScanCategories(c)
      [] s = "process_category" -> ProcessCategory(c)
      [] s \in {"handle_confirmation", "verify_postcondition"} -> Skip(c)
      [] s \in {"complete", "recover", "failed"} -> Concludes(s, c)
      [] OTHER -> Prepare(s, c))

Report == UsualReport

ActLimit == 2 * Pages - 1   \* a page that was not turned queues its category again
=============================================================================
