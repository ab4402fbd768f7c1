--------------------------- MODULE MCTaskDispatch ---------------------------
(* Rows for gathering, which may ask for a delay, for helping the alliance,  *)
(* and for a task without plugin, each for work of its own.                  *)
EXTENDS TaskDispatch

MCWork == [t \in Tasks |-> t]
MCPriority == [t \in Tasks |-> IF t = "gathering" THEN 100 ELSE 40]
=============================================================================
