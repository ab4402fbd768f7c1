---------------------------- MODULE JobLifecycle ----------------------------
(***************************************************************************)
(* What the durable job queue promises, without claims, payloads, clocks   *)
(* or threads: a job is offered to the workflow dispatcher by at most one  *)
(* caller at a time, it is never offered again once a workflow has been    *)
(* started for it, and a closed job is never offered.  JobDispatch refines *)
(* this specification.                                                     *)
(***************************************************************************)
EXTENDS Naturals

CONSTANT Jobs

VARIABLES
  stage,      \* stage[j]: "absent" (no row yet), "open" or "closed"
  offered,    \* the jobs some caller is offering to the dispatcher right now
  starts      \* starts[j]: how many workflows were started for j

vars == <<stage, offered, starts>>

Stages == {"absent", "open", "closed"}

Init ==
  /\ stage \in [Jobs -> {"absent", "open"}]
  /\ offered = {}
  /\ starts = [j \in Jobs |-> 0]

Publish(j) ==
  /\ stage[j] = "absent"
  /\ stage' = [stage EXCEPT ![j] = "open"]
  /\ UNCHANGED <<offered, starts>>

Offer(j) ==
  /\ stage[j] = "open"
  /\ starts[j] = 0
  /\ j \notin offered
  /\ offered' = offered \cup {j}
  /\ UNCHANGED <<stage, starts>>

Start(j) ==
  /\ j \in offered
  /\ starts[j] = 0
  /\ offered' = offered \ {j}
  /\ starts' = [starts EXCEPT ![j] = 1]
  /\ UNCHANGED stage

Refuse(j) ==
  /\ j \in offered
  /\ offered' = offered \ {j}
  /\ UNCHANGED <<stage, starts>>

Close(j) ==
  /\ stage[j] = "open"
  /\ stage' = [stage EXCEPT ![j] = "closed"]
  /\ UNCHANGED <<offered, starts>>

\* The process dies: offers under way are lost, the rows stay.
Abandon ==
  /\ offered' = {}
  /\ UNCHANGED <<stage, starts>>

Next ==
  \/ \E j \in Jobs : Publish(j) \/ Offer(j) \/ Start(j) \/ Refuse(j) \/ Close(j)
  \/ Abandon

Spec == Init /\ [][Next]_vars
=============================================================================
