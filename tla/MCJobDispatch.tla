--------------------------- MODULE MCJobDispatch ----------------------------
(* Two jobs, the service thread and one more caller of run_once.           *)
EXTENDS JobDispatch

CONSTANTS j1, j2

MCJobs == {j1, j2}
MCRank == [j \in MCJobs |-> IF j = j1 THEN 1 ELSE 2]
MCDueAt == [j \in MCJobs |-> IF j = j1 THEN 0 ELSE 1]
MCDamaged == {j2}
=============================================================================
