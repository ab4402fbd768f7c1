---------------------------- MODULE AccountSwitch ---------------------------
(* The handlers of account_switch_workflow.py: log in to another account of    *)
(* the game, unless the session says it is the current one already.            *)
EXTENDS TaskSteps

Steps ==
  <<"validate_input", "load_account", "validate_credentials", "ensure_game_running",
    "open_settings", "open_account_menu", "select_account", "wait_for_loading",
    "verify_account", "complete", "recover", "failed", "cancelled">>

Retried ==
  {"ensure_game_running", "open_settings", "open_account_menu", "select_account",
   "wait_for_loading", "verify_account"}

\* The budget is for fewer retries than there may be: a run that uses all of them fails.
Slack == 4

\* already_active, what the metadata of the session say
Memory == [active |-> FALSE]

\* The account is the char of the state.
LoadAccount(c) ==
  Fail(c, "plain") \cup UNION {Ok([c EXCEPT !.char = TRUE, !.m.active = active]) : active \in BOOLEAN}

ValidateCredentials(c) ==
  Need(c, c.char, IF c.m.active THEN Ok(c) ELSE Ok(c) \cup Fail(c, "plain"))

Prepare(s, c) ==
  CASE s = "load_account" -> LoadAccount(c)
    [] s = "validate_credentials" -> ValidateCredentials(c)
    [] OTHER -> OpeningOrFail(s, c)

\* _driver_result: open_settings, open_account_menu, wait_for_loading
DriverResult(c) ==
  IF c.m.active THEN Skip(c) ELSE Need(c, c.char, ActionOrFail(c, c))

SelectAccount(c) ==
  LET selected == Act(c, ~c.m.active, "account") IN
    IF c.m.active THEN Skip(c) ELSE Need(c, c.char, ActionOrFail(selected, selected))

\* A verification screen or another account opens an incident here; what was verified
\* is saved in the session.
VerifyAccount(c) ==
  Need(c, c.char, Ok(Verified(c, "account")) \cup FailSaying([c EXCEPT !.incident = TRUE]))

\* failed opens no incident
Concludes(s, c) ==
  IF s = "failed" THEN (IF Failed(c) THEN Raise(c) ELSE Skip(c)) ELSE Conclude(s, c)

Handler(s, c) ==
  Guarded(s, c, {"recover", "complete", "failed"},
    CASE s \in {"open_settings", "open_account_menu", "wait_for_loading"} -> DriverResult(c)
      [] s = "select_account" -> SelectAccount(c)
      [] s = "verify_account" -> VerifyAccount(c)
      [] s \in {"complete", "recover", "failed"} -> Concludes(s, c)
      [] OTHER -> Prepare(s, c))

Report == LatchedReport

ActLimit == 2   \* the attempts of select_account
=============================================================================
