------------------------- MODULE MCSchedulePlanner --------------------------
(* One schedule, every three or six time units. The settings start it at    *)
(* time 1, or ask for time 2, which is no occurrence counted from there.    *)
EXTENDS SchedulePlanner, TLC

CONSTANTS plain, asking, garbled, service, legacy

MCStartAt == [e \in Editions |-> 1]
MCAskedAt == [e \in Editions |-> IF e = asking THEN 2 ELSE Never]

\* The service's thread always evaluates, and the schedule starts enabled, every
\* three units; with a second thread a save has to make it ask for a time.
MCInit ==
  /\ Init
  /\ service \in callers
  /\ \A s \in Schedules :
       /\ config[s].enabled /\ config[s].interval = Unit /\ ~Refused(config[s])
       /\ OneEvaluator \/ config[s].edition = plain

MCSpec == MCInit /\ [][Next]_vars /\ Fairness
=============================================================================
