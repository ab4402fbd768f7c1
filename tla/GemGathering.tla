---------------------------- MODULE GemGathering ----------------------------
(* The handlers of gem_gathering_workflow.py: search for a gem deposit, a     *)
(* bounded number of times, and send a march to it.                           *)
EXTENDS TaskSteps

Steps ==
  <<"validate_input", "load_character", "ensure_account", "ensure_character",
    "ensure_game_running", "search_gem", "validate_node", "validate_march", "dispatch_march",
    "verify_dispatch", "complete", "recover", "failed", "cancelled">>

Retried ==
  {"ensure_account", "ensure_character", "ensure_game_running", "dispatch_march",
   "verify_dispatch"}

\* GemSearchPolicy.attempt_limit
AttemptLimit == 2
Slack == AttemptLimit + 8

\* The deposit that was selected, the one that was validated, whether a march is
\* free, whether one was dispatched
Memory == [selected |-> "none", validated |-> "none", march |-> FALSE, dispatched |-> FALSE]

\* GemDepositStatus, with an available deposit that is of a level the policy allows
\* and above the confidence threshold, or not
Deposits == {"clickable", "available", "occupied", "verification"}

Prepare(s, c) == OpeningOrFail(s, c)

\* One observation: _observation_is_clickable, or the search goes on
Look(c) ==
  UNION {CASE deposit = "verification" -> FailSaying(c)
           [] deposit = "clickable" -> Ok([c EXCEPT !.m.selected = deposit])
           [] OTHER -> Ok(c) : deposit \in Deposits}

\* _search_gem, the deadline of which may end it before the last attempt
SearchGem(c) ==
  LET again == [c EXCEPT !.m.selected = "none"]
      found == ForEach(again, [k \in 1..AttemptLimit |-> k],
                 LAMBDA d, k : IF d.m.selected # "none" THEN Ok(d) ELSE Look(d))
  IN UNION {IF r.c.stop = "none" /\ r.c.m.selected = "none" THEN Fail(r.c, "plain") ELSE {r}
            : r \in found}

\* The deposit is observed again: only its status is checked.
ValidateNode(c) ==
  Need(c, c.m.selected # "none",
    UNION {IF deposit \in {"clickable", "available"}
             THEN Ok([c EXCEPT !.m.validated = deposit])
             ELSE FailSaying(c) : deposit \in Deposits})

ValidateMarch(c) ==
  Need(c, c.m.validated # "none", Ok([c EXCEPT !.m.march = TRUE]) \cup FailSaying(c))

DispatchMarch(c) ==
  LET sent == [Act(c, c.m.validated \in {"clickable", "available"}, "march")
                 EXCEPT !.m.dispatched = TRUE] IN
    Need(c, c.m.validated # "none" /\ c.m.march, ActionOrFail(sent, sent))

VerifyDispatch(c) ==
  Need(c, c.m.validated # "none" /\ c.m.dispatched, ActionOrFail(c, Verified(c, "march")))

Concludes(s, c) == Conclude(s, c)

Handler(s, c) ==
  Guarded(s, c, {"recover", "complete", "failed"},
    CASE s = "search_gem" -> SearchGem(c)
      [] s = "validate_node" -> ValidateNode(c)
      [] s = "validate_march" -> ValidateMarch(c)
      [] s = "dispatch_march" -> DispatchMarch(c)
      [] s = "verify_dispatch" -> VerifyDispatch(c)
      [] s \in {"complete", "recover", "failed"} -> Concludes(s, c)
      [] OTHER -> Prepare(s, c))

\* A verification screen is left to the user.
Report == [LatchedReport EXCEPT !.minds = TRUE]

ActLimit == 2   \* the attempts of dispatch_march
=============================================================================
