--------------------------- MODULE CharacterSwitch --------------------------
(* The handlers of character_switch_workflow.py: find a character on the       *)
(* pages of the account's characters and switch to it, unless it is active.    *)
EXTENDS TaskSteps

Steps ==
  <<"validate_input", "load_character", "ensure_game_running", "verify_account",
    "verify_current_character", "open_character_management", "find_character",
    "select_character", "confirm_switch", "wait_for_reload", "verify_character", "complete",
    "recover", "failed", "cancelled">>

Retried ==
  {"ensure_game_running", "verify_account", "verify_current_character",
   "open_character_management", "find_character", "select_character", "confirm_switch",
   "wait_for_reload", "verify_character"}

\* CharacterSwitchConfig.max_character_pages
MaxPages == 2

\* The budget is for fewer retries than there may be: a run that uses all of them fails.
Slack == MaxPages + 4

\* already_active, and the observation that matched: none, or one of as many as
\* matched on the pages that were looked at
Memory == [active |-> FALSE, found |-> 0]

Prepare(s, c) == OpeningOrFail(s, c)

\* Another account, or a verification screen, opens an incident.
VerifyAccount(c) == Need(c, c.char, Ok(c) \cup FailSaying([c EXCEPT !.incident = TRUE]))

\* The character that is active already is saved in the session; another one is no failure.
VerifyCurrentCharacter(c) ==
  Need(c, c.char,
    Ok(c) \cup Ok([c EXCEPT !.m.active = TRUE]) \cup Fail([c EXCEPT !.incident = TRUE], "manual"))

\* open_character_management, wait_for_reload: nothing to do if it is active
Unless(c, results) == IF c.m.active THEN Skip(c) ELSE results

OpenCharacterManagement(c) == Unless(c, Need(c, c.char, ActionOrFail(c, c)))

\* One page, on which the match makes at most limit of them so far
Page(c, limit) ==
  Retry(c) \cup UNION {IF c.m.found + n > limit THEN Fail(c, "plain")
                                                ELSE Ok([c EXCEPT !.m.found = @ + n]) : n \in 0..2}

\* The pages are turned until there is a match or the last one was seen.
FindWithin(c, limit) ==
  LET again == [c EXCEPT !.m.found = 0]
      results == ForEach(again, [k \in 1..MaxPages |-> k],
                   LAMBDA d, k :
                     CASE d.m.found # 0 -> Ok(d)
                       [] k = 1 -> Page(d, limit)
                       [] OTHER -> Ok(d) \cup Then(ActionOrFail(d, d), LAMBDA e : Page(e, limit)))
  IN Unless(c, Need(c, c.char,
       UNION {IF r.out = "SUCCESS" /\ r.c.stop = "none" /\ r.c.m.found = 0
                THEN Fail(r.c, "plain") ELSE {r} : r \in results}))

\* _find_character: two matches are ambiguous.
FindCharacter(c) == FindWithin(c, 1)

SelectCharacter(c) == Unless(c, Need(c, c.m.found # 0 /\ c.char, ActionOrFail(c, c)))

ConfirmSwitch(c) ==
  LET confirmed == Act(c, c.m.found = 1, "character") IN
    Unless(c, Need(c, c.char, ActionOrFail(confirmed, confirmed)))

WaitForReload(c) == Unless(c, Need(c, c.char, ActionOrFail(c, c)))

VerifyCharacter(c) ==
  Unless(c, Need(c, c.char,
    Ok(Verified(c, "character")) \cup FailSaying([c EXCEPT !.incident = TRUE])))

\* failed opens no incident
Concludes(s, c) ==
  IF s = "failed" THEN (IF Failed(c) THEN Raise(c) ELSE Skip(c)) ELSE Conclude(s, c)

Handler(s, c) ==
  Guarded(s, c, {"recover", "complete", "failed"},
    CASE s = "verify_account" -> VerifyAccount(c)
      [] s = "verify_current_character" -> VerifyCurrentCharacter(c)
      [] s = "open_character_management" -> OpenCharacterManagement(c)
      [] s = "find_character" -> FindCharacter(c)
      [] s = "select_character" -> SelectCharacter(c)
      [] s = "confirm_switch" -> ConfirmSwitch(c)
      [] s = "wait_for_reload" -> WaitForReload(c)
      [] s = "verify_character" -> VerifyCharacter(c)
      [] s \in {"complete", "recover", "failed"} -> Concludes(s, c)
      [] OTHER -> Prepare(s, c))

Report == LatchedReport

ActLimit == 2   \* the attempts of confirm_switch
=============================================================================
