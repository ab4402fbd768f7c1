--------------------- MODULE AllianceTechnologyDonation ---------------------
(* The handlers of alliance_technology_donation_workflow.py: select a       *)
(* technology and donate to it, as often as the policy allows.              *)
EXTENDS TaskSteps

Steps ==
  <<"validate_input", "load_character", "ensure_account", "ensure_character",
    "ensure_game_running", "open_alliance", "open_alliance_technology", "select_technology",
    "scan_donation_state", "donate", "handle_confirmation", "verify_donation_state",
    "complete", "skipped", "recover", "failed", "cancelled">>

Retried ==
  {"ensure_account", "ensure_character", "ensure_game_running", "open_alliance",
   "open_alliance_technology", "select_technology", "scan_donation_state"}

Slack == 24

\* The selected technology is known, the donation on offer, donation_count, and
\* allow_premium_currency of the policy
Memory == [selected |-> FALSE, offer |-> "unread", count |-> 0, premium |-> FALSE]

MaxDonations == 2   \* effective_run_budget, when it is positive

\* The first enabled donation on the screen: none, for resources within the
\* policy, or for gems
Offers == {"none", "resources", "gems"}
Confirmations == {"SAFE_RESOURCE", "PREMIUM_CURRENCY", "UNKNOWN"}

\* validate_input may find the daily budget spent.
Prepare(s, c) ==
  IF s = "validate_input"
    THEN Then(Opening(s, c), LAMBDA d : Stop(d, "SKIPPED", "plain")
           \cup UNION {Ok([d EXCEPT !.m.premium = premium]) : premium \in BOOLEAN})
    ELSE Opening(s, c)

SelectTechnology(c) ==
  Need(c, c.char /\ c.policy,
    StopSaying(c, "FATAL_FAILURE") \cup StopSaying(c, "BLOCKED")
      \cup ActionToStep(c, [c EXCEPT !.m.selected = TRUE]))

SafeAction_AnyCurrency(c) == c.m.offer \in {"resources", "gems"}

\* _select_safe_action, _unsafe_action_reason
SafeAction(c) == c.m.offer = "resources" \/ (c.m.offer = "gems" /\ c.m.premium)

ScanDonationState(c) ==
  Need(c, c.char /\ c.m.selected /\ c.policy,
    StopSaying(c, "FATAL_FAILURE") \cup StopSaying(c, "BLOCKED") \cup StopSaying(c, "SKIPPED")
      \cup UNION {LET d == [c EXCEPT !.m.offer = offer] IN
                    IF SafeAction(d) THEN Ok(d) ELSE Stop(d, "SKIPPED", "plain") : offer \in Offers})

\* _donation_failure
DonationAction(c) == ActionToStep(c, c)

HandleConfirmation(c) ==
  Ok(c) \cup UNION {
    IF confirmation = "UNKNOWN" \/ (confirmation = "PREMIUM_CURRENCY" /\ ~c.m.premium)
      THEN Stop(c, "BLOCKED", "manual")
      ELSE DonationAction([c EXCEPT !.h.wrong =
                             @ \/ (confirmation = "PREMIUM_CURRENCY" /\ ~c.m.premium)])
    : confirmation \in Confirmations}

\* One donation may count for more than one.
VerifyDonationState(c) ==
  StopSaying(c, "BLOCKED")
    \cup UNION {Ok(Verified([c EXCEPT !.m.count = @ + n], c.m.count)) : n \in 1..MaxDonations}

RECURSIVE DonateMore(_)
DonateMore(c) ==
  LET rescanned(d) ==   \* anything but READY ends the loop
        IF d.m.count >= MaxDonations THEN Ok(d)
        ELSE Ok(d) \cup Stop(d, "BLOCKED", "plain")
               \cup UNION {DonateMore([d EXCEPT !.m.offer = offer]) : offer \in Offers}
      paid == Act(c, c.m.offer = "gems" => c.m.premium, c.m.count)
  IN
    IF ~SafeAction(c)
      THEN Stop(c, "SKIPPED", "plain")
      ELSE Then(HandleConfirmation(paid), LAMBDA d :
           Then(DonationAction(d), LAMBDA e :
           Then(VerifyDonationState(e), rescanned)))

Donate(c) == Need(c, c.policy /\ c.char /\ c.m.selected /\ c.m.offer # "unread", DonateMore(c))

Concludes(s, c) == Conclude(s, c)

Handler(s, c) ==
  Guarded(s, c, {"recover", "complete", "skipped", "failed"},
    CASE s = "select_technology" -> SelectTechnology(c)
      [] s = "scan_donation_state" -> ScanDonationState(c)
      [] s = "donate" -> Donate(c)
      [] s \in {"handle_confirmation", "verify_donation_state"} -> Skip(c)
      [] s \in {"complete", "skipped", "recover", "failed"} -> Concludes(s, c)
      [] OTHER -> Prepare(s, c))

Report == UsualReport

ActLimit == MaxDonations
=============================================================================
