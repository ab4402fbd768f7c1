--------------------------- MODULE ResourceSearch ---------------------------
(* The handlers of resource_search_workflow.py (ResourceGatheringWorkflow):   *)
(* search for a resource node the request prefers, level by level, and send a *)
(* march to gather there.                                                     *)
EXTENDS TaskSteps
LOCAL INSTANCE SequencesExt

Steps ==
  <<"validate_input", "load_character", "ensure_account", "ensure_character",
    "ensure_game_running", "navigate_to_resource_search", "select_resource", "search_resource",
    "validate_march", "dispatch_march", "verify_dispatch", "complete", "recover", "failed",
    "cancelled">>

Retried ==
  {"ensure_account", "ensure_character", "ensure_game_running",
   "navigate_to_resource_search", "select_resource", "search_resource", "dispatch_march",
   "verify_dispatch"}

Slack == 8

\* The selection on the screen, the one a node was found for, whether a march is
\* free and whether one was dispatched
Memory == [pending |-> <<>>, selected |-> <<>>, march |-> FALSE, dispatched |-> FALSE]

\* Two preferences: food of level 3 down to 2, wood of level 2 without a fallback
Preferences ==
  <<[type |-> "food", target |-> 3, minimum |-> 2, fallback |-> TRUE],
    [type |-> "wood", target |-> 2, minimum |-> 1, fallback |-> FALSE]>>

\* What the user would have a march sent to
Acceptable ==
  {<<p.type, level>> : p \in {q \in ToSet(Preferences) : q.fallback}, level \in 2..3}
    \cup {<<"wood", 2>>}

\* candidate_levels: from the target down to the minimum, if a fallback is allowed
CandidateLevels(p) ==
  [k \in 1..(IF p.fallback THEN p.target - p.minimum + 1 ELSE 1) |-> <<p.type, p.target - k + 1>>]

Candidates == FlattenSeq([k \in DOMAIN Preferences |-> CandidateLevels(Preferences[k])])

Prepare(s, c) ==
  IF s = "navigate_to_resource_search"
    THEN Need(c, c.char, ActionOrFail(c, c))
    ELSE OpeningOrFail(s, c)

\* _next_pending_selection: without a pending selection, the first preference
SelectResource(c) ==
  LET pending == [c EXCEPT !.m.pending = IF @ = <<>> THEN Head(Candidates) ELSE @] IN
    IF ~c.policy THEN Fail(c, "plain") ELSE ActionOrFail(pending, pending)

\* Nothing was found so far: one more candidate is selected, unless it is, and searched.
Search(c, candidate) ==
  LET selected == [c EXCEPT !.m.pending = candidate]
      searched == Ok(selected) \cup Ok([selected EXCEPT !.m.selected = candidate])
  IN IF c.m.pending = candidate
       THEN searched
       ELSE searched \cup Retry(c) \cup FailSaying(c)

\* _search_resource: a candidate after which a node was found ends the search
SearchResource(c) ==
  LET again == [c EXCEPT !.m.selected = <<>>]
      found == ForEach(again, Candidates,
                 LAMBDA d, x : IF d.m.selected # <<>> THEN Ok(d) ELSE Search(d, x))
  IN IF ~c.policy
       THEN Fail(c, "plain")
       ELSE UNION {IF r.out = "SUCCESS" /\ r.c.stop = "none" /\ r.c.m.selected = <<>>
                     THEN Fail(r.c, "plain") ELSE {r} : r \in found}

ValidateMarch(c) ==
  Need(c, c.m.selected # <<>>, Ok([c EXCEPT !.m.march = TRUE]) \cup FailSaying(c))

\* A dispatch that failed is kept as well; _persist_march_dispatch follows one that did not.
DispatchMarch(c) ==
  LET sent == [Act(c, c.m.selected \in Acceptable, "march") EXCEPT !.m.dispatched = TRUE] IN
    Need(c, c.m.selected # <<>> /\ c.m.march, ActionOrFail(sent, sent))

VerifyDispatch(c) == Need(c, c.m.dispatched, ActionOrFail(c, Verified(c, "march")))

Concludes(s, c) == Conclude(s, c)

Handler(s, c) ==
  Guarded(s, c, {"recover", "complete", "failed"},
    CASE s = "select_resource" -> SelectResource(c)
      [] s = "search_resource" -> SearchResource(c)
      [] s = "validate_march" -> ValidateMarch(c)
      [] s = "dispatch_march" -> DispatchMarch(c)
      [] s = "verify_dispatch" -> VerifyDispatch(c)
      [] s \in {"complete", "recover", "failed"} -> Concludes(s, c)
      [] OTHER -> Prepare(s, c))

Report == LatchedReport

ActLimit == 2   \* the attempts of dispatch_march
=============================================================================
