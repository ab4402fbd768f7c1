--------------------------- MODULE MCWorkflowRun ----------------------------
(* An action with a postcondition and a retry, then a bounded_repeat of two *)
(* iterations over an action, then an if_else with one empty branch.        *)
EXTENDS WorkflowRun

MCSteps == {"tap", "loop", "swipe", "branch", "wait"}
MCBranches ==
  [s \in MCSteps \cup {"workflow"} |->
     CASE s = "workflow" -> {<<"tap", "loop", "branch">>}
       [] s = "loop"     -> {<<"swipe">>}
       [] s = "branch"   -> {<<"wait">>, <<>>}
       [] OTHER          -> {}]
MCRepeat == [s \in MCSteps |-> IF s = "loop" THEN 2 ELSE 0]
MCAttempts == [s \in MCSteps |-> IF s \in {"tap", "loop"} THEN 2 ELSE 1]
=============================================================================
