------------------------ MODULE RecoveryLadderProofs ------------------------
(***************************************************************************)
(* The recovery ladder for any instances, pictures, limits and faults: an  *)
(* instance is cut off only after the whole ladder, an incident without a  *)
(* breaker needs a fault, a frozen screen is not called recovered, and the *)
(* scheduler starts nothing on an instance that is cut off.                *)
(***************************************************************************)
EXTENDS RecoveryLadder, SequenceTheorems, TLAPS

----------------------------------------------------------------------------
(* Types *)

LEMMA LadderFacts ==
  /\ Ladder \in AttemptRows /\ Len(Ladder) = 5
  /\ \A n \in 1..5 : Ladder[n] \in Phases \cup {"open_incident"}
  <1>1. Ladder \in Seq(Phases) /\ Len(Ladder) = 5 BY DEF Ladder, Phases
  <1>2. ASSUME NEW n \in 1..5 PROVE Ladder[n] \in Phases
    BY <1>1, ElementOfSeq
  <1>3. Ladder \in Seq(Phases \cup {"open_incident"}) BY DEF Ladder, Phases
  <1> QED BY <1>1, <1>2, <1>3 DEF AttemptRows

\* What the actions write is a row, a history or a call.
LEMMA RowTypes ==
  /\ NoRow \in BreakerRows /\ Unseen \in Histories /\ Resting \in Calls
  /\ \A n \in Nat, by \in {"watchdog", "reboot"} :
       [status |-> "open", incident |-> n, by |-> by] \in BreakerRows
  /\ \A r \in BreakerRows : [r EXCEPT !.status = "closed"] \in BreakerRows
  BY RecoveryLadderAssumption, LadderFacts
  DEF NoRow, Unseen, Resting, BreakerRows, Histories, Calls, Places

LEMMA CallTypes ==
  ASSUME NEW c \in Calls
  PROVE  /\ c.phase \in 0..5 /\ c.at \in Places /\ c.incident \in Nat
         /\ \A place \in Places : [c EXCEPT !.at = place] \in Calls
         /\ \A n \in Nat : [c EXCEPT !.at = "breaker", !.incident = n] \in Calls
         /\ c.phase < 5 => [c EXCEPT !.at = "phase", !.phase = @ + 1] \in Calls
  <1>1. c.phase \in 0..5 /\ c.at \in Places /\ c.incident \in Nat BY LadderFacts DEF Calls
  <1>2. \A place \in Places : [c EXCEPT !.at = place] \in Calls BY DEF Calls
  <1>3. ASSUME NEW n \in Nat PROVE [c EXCEPT !.at = "breaker", !.incident = n] \in Calls
    <2>1. "breaker" \in Places BY DEF Places
    <2> QED BY <2>1 DEF Calls
  <1>4. c.phase < 5 => [c EXCEPT !.at = "phase", !.phase = @ + 1] \in Calls
    <2> SUFFICES ASSUME c.phase < 5 PROVE [c EXCEPT !.at = "phase", !.phase = @ + 1] \in Calls
      OBVIOUS
    <2>1. c.phase + 1 \in 0..Len(Ladder) BY <1>1, LadderFacts
    <2>2. "phase" \in Places BY DEF Places
    <2> QED BY <2>1, <2>2 DEF Calls
  <1> QED BY <1>1, <1>2, <1>3, <1>4

\* A call goes to a place where it needs no phase, or keeps the one it has.
LEMMA GoTypes ==
  ASSUME TypeOK, NEW i \in Instances, NEW place \in Places, Go(i, place),
         place \in {"phase", "worked", "failed", "look"} =>
           watch[i].at \in {"phase", "worked", "failed", "look"}
  PROVE  /\ watch' \in [Instances -> Calls]
         /\ \A j \in Instances : watch'[j].at \in {"phase", "worked", "failed", "look"} =>
              watch'[j].phase # 0
  <1>1. watch' = [watch EXCEPT ![i] = [watch[i] EXCEPT !.at = place]] BY DEF Go
  <1>2. [watch[i] EXCEPT !.at = place] \in Calls BY CallTypes DEF TypeOK
  <1>3. /\ [watch[i] EXCEPT !.at = place].at = place
        /\ [watch[i] EXCEPT !.at = place].phase = watch[i].phase
    BY DEF TypeOK, Calls
  <1> QED BY <1>1, <1>2, <1>3 DEF TypeOK

LEMMA NextPhaseTypes ==
  ASSUME TypeOK, NEW i \in Instances, NextPhase(i)
  PROVE  /\ watch' \in [Instances -> Calls]
         /\ \A j \in Instances : watch'[j].at \in {"phase", "worked", "failed", "look"} =>
              watch'[j].phase # 0
  <1> DEFINE next == [watch[i] EXCEPT !.at = "phase", !.phase = @ + 1]
  <1>0. watch[i] \in Calls /\ watch[i].phase \in 0..5 BY CallTypes DEF TypeOK
  <1>1. CASE watch[i].phase < 5
    <2>0. watch[i].phase < Len(Ladder) BY <1>1, LadderFacts
    <2>1. watch' = [watch EXCEPT ![i] = next] BY <1>0, <2>0 DEF NextPhase
    <2>2. next \in Calls BY <1>0, <1>1, CallTypes
    <2>3. next.phase = watch[i].phase + 1 /\ next.at = "phase" BY <1>0 DEF Calls
    <2> HIDE DEF next
    <2> QED BY <1>0, <2>1, <2>2, <2>3 DEF TypeOK
  <1>2. CASE ~(watch[i].phase < 5)
    <2>0. ~(watch[i].phase < Len(Ladder)) BY <1>2, LadderFacts
    <2>1. Go(i, "incident") BY <2>0 DEF NextPhase, Go
    <2> QED BY <2>1, GoTypes DEF Places
  <1> QED BY <1>1, <1>2

LEMMA ObserveTypes ==
  ASSUME TypeOK, NEW i \in Instances, NEW shown \in Pictures \cup {"sick"}, NEW late \in BOOLEAN
  PROVE  /\ shown \in Pictures => Sighted(i, shown, late) \in Histories
         /\ Observe(i, shown, late) => screens' \in [Instances -> Histories]
  <1>1. screens[i] \in Histories BY DEF TypeOK
  <1>2. shown \in Pictures => Sighted(i, shown, late) \in Histories
    BY <1>1, RecoveryLadderAssumption DEF Sighted, First, Again, Histories
  <1> QED BY <1>2 DEF Observe, TypeOK

LEMMA TypesInit == Init => TypeOK
  BY RowTypes DEF Init, TypeOK, AttemptRows, Resting

LEMMA TypesStep == TypeOK /\ [Next]_vars => TypeOK'
  <1> SUFFICES ASSUME TypeOK, [Next]_vars PROVE TypeOK' OBVIOUS
  <1> USE DEF TypeOK, tables, legacy, counts
  <1>1. ASSUME NEW i \in Instances, Monitor(i) PROVE TypeOK'
    BY <1>1, GoTypes DEF Monitor, Places
  <1>2. ASSUME NEW i \in Instances, FirstLook(i) PROVE TypeOK'
    <2>1. PICK shown \in Pictures \cup {"sick"}, late \in BOOLEAN : FirstLook(i)!2!(shown, late)
      BY <1>2 DEF FirstLook
    <2> DEFINE issue == Issue(i, shown, late)
               climbs == Climbing(issue, shown)
    <2>2. issue \in {"none", "sick", "same_screen"} BY DEF Issue
    <2>3. climbs \in Calls /\ climbs.phase = 1
      <3>1. 1 \in 0..Len(Ladder) /\ "phase" \in Places BY LadderFacts DEF Places
      <3> HIDE DEF issue
      <3> QED BY <2>2, <3>1 DEF Climbing, Calls
    <2>4. Resting \in Calls /\ Resting.at = "idle" BY RowTypes DEF Resting
    <2>5. watch' = [watch EXCEPT ![i] = IF issue = "none" THEN Resting ELSE climbs] BY <2>1
    <2>6. attempts' = IF issue = "none" THEN attempts ELSE [attempts EXCEPT ![i] = <<>>]
      BY <2>1
    <2>7. attempts' \in [Instances -> AttemptRows] BY <2>6 DEF AttemptRows
    <2>8. screens' \in [Instances -> Histories] BY <2>1, ObserveTypes
    <2> HIDE DEF issue, climbs
    <2>9. /\ watch' \in [Instances -> Calls]
          /\ \A j \in Instances : watch'[j].at \in {"phase", "worked", "failed", "look"} =>
               watch'[j].phase # 0
      BY <2>3, <2>4, <2>5
    <2>10. UNCHANGED <<breaker, incidents, openings, reboot, legacy, counts>>
      BY <1>2 DEF FirstLook
    <2> QED BY <2>7, <2>8, <2>9, <2>10
  <1>3. ASSUME NEW i \in Instances, RunPhase(i) PROVE TypeOK'
    BY <1>3, GoTypes DEF RunPhase, At, Places
  <1>4. ASSUME NEW i \in Instances, SaveAttempt(i) PROVE TypeOK'
    <2>0. watch[i] \in Calls /\ watch[i].phase # 0 BY <1>4 DEF SaveAttempt, At
    <2>5. watch[i].phase \in 0..5 BY <2>0, CallTypes
    <2>1. watch[i].phase \in 1..5 BY <2>0, <2>5
    <2>2. Append(attempts[i], Ladder[watch[i].phase]) \in AttemptRows
      BY <2>1, LadderFacts, AppendProperties DEF AttemptRows
    <2>3. CASE At(i, "worked")
      <3>1. Go(i, "look") BY <1>4, <2>3 DEF SaveAttempt
      <3> QED BY <1>4, <2>2, <2>3, <3>1, GoTypes DEF SaveAttempt, At, Places
    <2>4. CASE ~At(i, "worked")
      <3>1. NextPhase(i) BY <1>4, <2>4 DEF SaveAttempt
      <3> QED BY <1>4, <2>2, <3>1, NextPhaseTypes DEF SaveAttempt
    <2> QED BY <2>3, <2>4
  <1>5. ASSUME NEW i \in Instances, Look(i) PROVE TypeOK'
    BY <1>5, NextPhaseTypes, GoTypes, ObserveTypes DEF Look, Places, At
  <1>6. ASSUME NEW i \in Instances, SaveIncident(i) PROVE TypeOK'
    <2> DEFINE next == [watch[i] EXCEPT !.at = "breaker", !.incident = incidents[i] + 1]
    <2>1. watch' = [watch EXCEPT ![i] = next] BY <1>6 DEF SaveIncident
    <2>2. watch[i] \in Calls /\ incidents[i] + 1 \in Nat OBVIOUS
    <2>3. next \in Calls BY <2>2, CallTypes
    <2>4. next.at = "breaker" BY <2>2 DEF Calls
    <2> HIDE DEF next
    <2> QED BY <1>6, <2>1, <2>2, <2>3, <2>4 DEF SaveIncident
  <1>7. ASSUME NEW i \in Instances, OpenBreaker(i) PROVE TypeOK'
    <2>1. watch[i].incident \in Nat BY CallTypes
    <2>2. breaker' \in [Instances -> BreakerRows] BY <1>7, <2>1, RowTypes DEF OpenBreaker, OpenRow
    <2> QED BY <1>7, <2>2, GoTypes DEF OpenBreaker, OpenRow, Places
  <1>8. ASSUME NEW i \in Instances, RecordExhausted(i) PROVE TypeOK'
    <2>1. Append(attempts[i], "open_incident") \in AttemptRows BY AppendProperties DEF AttemptRows
    <2> QED BY <1>8, <2>1, GoTypes DEF RecordExhausted, Places
  <1>9. ASSUME NEW i \in Instances, FinalLook(i) PROVE TypeOK'
    BY <1>9, ObserveTypes, RowTypes DEF FinalLook, Resting
  <1>10. ASSUME NEW i \in Instances, CallFails(i) PROVE TypeOK'
    BY <1>10, RowTypes DEF CallFails, Resting
  <1>11. ASSUME NEW i \in Instances, RebootFails(i) PROVE TypeOK'
    BY <1>11 DEF RebootFails
  <1>12. ASSUME NEW i \in Instances, RebootOpens(i) PROVE TypeOK'
    <2>1. reboot[i] \in Nat OBVIOUS
    <2>2. breaker' \in [Instances -> BreakerRows] BY <1>12, <2>1, RowTypes DEF RebootOpens, OpenRow
    <2> QED BY <1>12, <2>2 DEF RebootOpens, OpenRow
  <1>13. ASSUME NEW i \in Instances, CloseBreaker(i) PROVE TypeOK'
    BY <1>13, RowTypes DEF CloseBreaker
  <1>14. ASSUME NEW i \in Instances, LetThrough(i) PROVE TypeOK'
    BY <1>14 DEF LetThrough
  <1>15. ASSUME NEW i \in Instances, Submit(i) PROVE TypeOK'
    BY <1>15 DEF Submit
  <1>16. ASSUME NEW i \in Instances, TaskEnds(i) PROVE TypeOK'
    BY <1>16 DEF TaskEnds
  <1>17. ASSUME Crash PROVE TypeOK'
    BY <1>17, RowTypes DEF Crash, Resting
  <1>18. ASSUME UNCHANGED vars PROVE TypeOK'
    BY <1>18 DEF vars
  <1> QED BY <1>1, <1>2, <1>3, <1>4, <1>5, <1>6, <1>7, <1>8, <1>9, <1>10, <1>11, <1>12, <1>13,
             <1>14, <1>15, <1>16, <1>17, <1>18 DEF Next, Watch

\* The variables keep their types, whatever fails (TypeOK).
THEOREM LadderTypeCorrect == Spec => []TypeOK
  <1>1. Init => TypeOK BY TypesInit
  <1>2. TypeOK /\ [Next]_vars => TypeOK' BY TypesStep
  <1> QED BY <1>1, <1>2, PTL DEF Spec

----------------------------------------------------------------------------
(* Where a step leaves the calls *)

LEMMA GoFacts ==
  ASSUME TypeOK, NEW i \in Instances, NEW place \in Places, Go(i, place)
  PROVE  /\ watch'[i].at = place /\ watch'[i].phase = watch[i].phase
         /\ watch'[i].issue = watch[i].issue /\ watch'[i].picture = watch[i].picture
         /\ watch'[i].incident = watch[i].incident
         /\ \A j \in Instances \ {i} : watch'[j] = watch[j]
  <1> DEFINE next == [watch[i] EXCEPT !.at = place]
  <1>1. watch' = [watch EXCEPT ![i] = next] BY DEF Go
  <1>2. watch[i] \in Calls /\ watch \in [Instances -> Calls] BY DEF TypeOK
  <1>3. /\ next.at = place /\ next.phase = watch[i].phase /\ next.issue = watch[i].issue
        /\ next.picture = watch[i].picture /\ next.incident = watch[i].incident
    BY <1>2 DEF Calls
  <1> HIDE DEF next
  <1> QED BY <1>1, <1>2, <1>3

LEMMA NextPhaseFacts ==
  ASSUME TypeOK, NEW i \in Instances, NextPhase(i)
  PROVE  /\ \/ /\ watch[i].phase < 5
               /\ watch'[i].at = "phase" /\ watch'[i].phase = watch[i].phase + 1
            \/ /\ watch[i].phase = 5
               /\ watch'[i].at = "incident" /\ watch'[i].phase = watch[i].phase
         /\ watch'[i].issue = watch[i].issue /\ watch'[i].picture = watch[i].picture
         /\ \A j \in Instances \ {i} : watch'[j] = watch[j]
  <1> DEFINE next == [watch[i] EXCEPT !.at = "phase", !.phase = @ + 1]
  <1>0. watch[i] \in Calls /\ watch \in [Instances -> Calls] BY DEF TypeOK
  <1>1. watch[i].phase \in 0..5 BY <1>0, CallTypes
  <1>2. CASE watch[i].phase < 5
    <2>0. watch[i].phase < Len(Ladder) BY <1>2, LadderFacts
    <2>1. watch' = [watch EXCEPT ![i] = next] BY <1>0, <2>0 DEF NextPhase
    <2>2. /\ next.phase = watch[i].phase + 1 /\ next.at = "phase"
          /\ next.issue = watch[i].issue /\ next.picture = watch[i].picture
      BY <1>0 DEF Calls
    <2> HIDE DEF next
    <2> QED BY <1>0, <1>2, <2>1, <2>2
  <1>3. CASE watch[i].phase = 5
    <2>0. ~(watch[i].phase < Len(Ladder)) BY <1>3, LadderFacts
    <2>1. Go(i, "incident") BY <2>0 DEF NextPhase
    <2> QED BY <1>3, <2>1, GoFacts DEF Places
  <1> QED BY <1>1, <1>2, <1>3

LEMMA SaveIncidentFacts ==
  ASSUME TypeOK, NEW i \in Instances, SaveIncident(i)
  PROVE  /\ watch'[i].at = "breaker" /\ watch'[i].incident = incidents[i] + 1
         /\ \A j \in Instances \ {i} : watch'[j] = watch[j]
  <1> DEFINE next == [watch[i] EXCEPT !.at = "breaker", !.incident = incidents[i] + 1]
  <1>1. watch[i] \in Calls /\ watch \in [Instances -> Calls] BY DEF TypeOK
  <1>2. watch' = [watch EXCEPT ![i] = next] BY DEF SaveIncident
  <1>3. next.at = "breaker" /\ next.incident = incidents[i] + 1 BY <1>1 DEF Calls
  <1> HIDE DEF next
  <1> QED BY <1>1, <1>2, <1>3

LEMMA FirstLookFacts ==
  ASSUME TypeOK, NEW i \in Instances, FirstLook(i)
  PROVE  /\ \/ watch'[i] = Resting /\ attempts' = attempts
            \/ /\ watch'[i].at = "phase" /\ watch'[i].phase = 1
               /\ attempts' = [attempts EXCEPT ![i] = <<>>]
         /\ \A j \in Instances \ {i} : watch'[j] = watch[j]
  <1>1. PICK shown \in Pictures \cup {"sick"}, late \in BOOLEAN : FirstLook(i)!2!(shown, late)
    BY DEF FirstLook
  <1>2. watch \in [Instances -> Calls] BY DEF TypeOK
  <1> DEFINE issue == Issue(i, shown, late)
  <1>3. watch' = [watch EXCEPT ![i] = IF issue = "none" THEN Resting ELSE Climbing(issue, shown)]
    BY <1>1
  <1>4. attempts' = IF issue = "none" THEN attempts ELSE [attempts EXCEPT ![i] = <<>>] BY <1>1
  <1>5. Climbing(issue, shown).at = "phase" /\ Climbing(issue, shown).phase = 1 BY DEF Climbing
  <1> HIDE DEF issue
  <1> QED BY <1>2, <1>3, <1>4, <1>5

----------------------------------------------------------------------------
(* Incidents and breakers *)

\* An incident is saved together with the place from which the breaker is opened;
\* only a fault leaves that place without opening it, for the watchdog and for a
\* failed reboot at most once each.
LEMMA IncidentsStep == TypeOK /\ IncidentsCutOff /\ [Next]_vars => IncidentsCutOff'
  <1> DEFINE Enough(i) ==
        incidents[i] <= openings[i] + 2 * faults + (IF watch[i].at = "breaker" THEN 1 ELSE 0)
                                                 + (IF reboot[i] # 0 THEN 1 ELSE 0)
  <1> SUFFICES ASSUME TypeOK, IncidentsCutOff, [Next]_vars, NEW k \in Instances PROVE Enough(k)'
    BY DEF IncidentsCutOff, At
  <1>a. Enough(k) BY DEF IncidentsCutOff, At
  <1>b. incidents[k] \in Nat /\ openings[k] \in Nat /\ faults \in Nat BY DEF TypeOK
  <1>c. incidents \in [Instances -> Nat] /\ openings \in [Instances -> Nat]
        /\ reboot \in [Instances -> Nat] /\ watch \in [Instances -> Calls]
    BY DEF TypeOK
  <1> USE DEF tables, legacy, counts
  <1>1. ASSUME NEW i \in Instances, Monitor(i) PROVE Enough(k)'
    <2>1. watch[i].at = "idle" /\ Go(i, "first_look") BY <1>1 DEF Monitor, At
    <2>2. watch'[k].at = "breaker" <=> watch[k].at = "breaker" BY <2>1, GoFacts DEF Places
    <2> QED BY <1>a, <1>1, <2>2 DEF Monitor
  <1>2. ASSUME NEW i \in Instances, FirstLook(i) PROVE Enough(k)'
    <2>0. watch[i].at = "first_look" BY <1>2 DEF FirstLook, At
    <2>3. watch'[i].at # "breaker" BY <1>2, FirstLookFacts DEF Resting
    <2>1. watch'[k].at = "breaker" <=> watch[k].at = "breaker"
      BY <1>2, <2>0, <2>3, FirstLookFacts
    <2>2. UNCHANGED <<incidents, openings, reboot, faults>> BY <1>2 DEF FirstLook
    <2> QED BY <1>a, <2>1, <2>2
  <1>3. ASSUME NEW i \in Instances, RunPhase(i) PROVE Enough(k)'
    <2>1. watch'[k].at = "breaker" <=> watch[k].at = "breaker"
      BY <1>3, GoFacts DEF RunPhase, At, Places
    <2> QED BY <1>a, <1>3, <2>1 DEF RunPhase
  <1>4. ASSUME NEW i \in Instances, SaveAttempt(i) PROVE Enough(k)'
    <2>1. watch'[k].at = "breaker" <=> watch[k].at = "breaker"
      BY <1>4, GoFacts, NextPhaseFacts DEF SaveAttempt, At, Places
    <2> QED BY <1>a, <1>4, <2>1 DEF SaveAttempt
  <1>5. ASSUME NEW i \in Instances, Look(i) PROVE Enough(k)'
    <2>1. watch'[k].at = "breaker" <=> watch[k].at = "breaker"
      BY <1>5, GoFacts, NextPhaseFacts DEF Look, At, Places
    <2> QED BY <1>a, <1>5, <2>1 DEF Look
  <1>6. ASSUME NEW i \in Instances, SaveIncident(i) PROVE Enough(k)'
    <2>0. watch[i].at = "incident" /\ UNCHANGED <<openings, reboot, faults>>
          /\ incidents' = [incidents EXCEPT ![i] = @ + 1]
      BY <1>6 DEF SaveIncident, At
    <2>1. CASE k = i BY <1>a, <1>b, <1>c, <1>6, <2>0, <2>1, SaveIncidentFacts
    <2>2. CASE k # i BY <1>a, <1>c, <1>6, <2>0, <2>2, SaveIncidentFacts
    <2> QED BY <2>1, <2>2
  <1>7. ASSUME NEW i \in Instances, OpenBreaker(i) PROVE Enough(k)'
    <2>0. watch[i].at = "breaker" /\ UNCHANGED <<incidents, reboot, faults>>
          /\ openings' = [openings EXCEPT ![i] = @ + 1] /\ Go(i, "exhausted")
      BY <1>7 DEF OpenBreaker, OpenRow, At
    <2>1. CASE k = i BY <1>a, <1>b, <1>c, <2>0, <2>1, GoFacts DEF Places
    <2>2. CASE k # i BY <1>a, <1>c, <2>0, <2>2, GoFacts DEF Places
    <2> QED BY <2>1, <2>2
  <1>8. ASSUME NEW i \in Instances, RecordExhausted(i) PROVE Enough(k)'
    <2>1. watch'[k].at = "breaker" <=> watch[k].at = "breaker"
      BY <1>8, GoFacts DEF RecordExhausted, At, Places
    <2> QED BY <1>a, <1>8, <2>1 DEF RecordExhausted
  <1>9. ASSUME NEW i \in Instances, FinalLook(i) PROVE Enough(k)'
    <2>1. watch'[k].at = "breaker" <=> watch[k].at = "breaker"
      BY <1>c, <1>9 DEF FinalLook, At, Resting
    <2> QED BY <1>a, <1>9, <2>1 DEF FinalLook
  <1>10. ASSUME NEW i \in Instances, CallFails(i) PROVE Enough(k)'
    BY <1>a, <1>b, <1>10 DEF CallFails
  <1>11. ASSUME NEW i \in Instances, RebootFails(i) PROVE Enough(k)'
    <2>0. reboot[i] = 0 /\ UNCHANGED <<openings, watch, faults>>
          /\ incidents' = [incidents EXCEPT ![i] = @ + 1]
          /\ reboot' = [reboot EXCEPT ![i] = incidents[i] + 1]
      BY <1>11 DEF RebootFails
    <2>1. CASE k = i BY <1>a, <1>b, <1>c, <2>0, <2>1
    <2>2. CASE k # i BY <1>a, <1>c, <2>0, <2>2
    <2> QED BY <2>1, <2>2
  <1>12. ASSUME NEW i \in Instances, RebootOpens(i) PROVE Enough(k)'
    <2>0. UNCHANGED <<incidents, watch, faults>> /\ reboot[i] # 0
          /\ openings' = [openings EXCEPT ![i] = @ + 1] /\ reboot' = [reboot EXCEPT ![i] = 0]
      BY <1>12 DEF RebootOpens, OpenRow
    <2>1. CASE k = i BY <1>a, <1>b, <1>c, <2>0, <2>1
    <2>2. CASE k # i BY <1>a, <1>c, <2>0, <2>2
    <2> QED BY <2>1, <2>2
  <1>13. ASSUME NEW i \in Instances, CloseBreaker(i) \/ LetThrough(i) \/ Submit(i) \/ TaskEnds(i)
         PROVE  Enough(k)'
    BY <1>a, <1>13 DEF CloseBreaker, LetThrough, Submit, TaskEnds
  <1>14. ASSUME Crash PROVE Enough(k)'
    BY <1>a, <1>b, <1>14 DEF Crash
  <1>15. ASSUME UNCHANGED vars PROVE Enough(k)'
    BY <1>a, <1>15 DEF vars
  <1> QED BY <1>1, <1>2, <1>3, <1>4, <1>5, <1>6, <1>7, <1>8, <1>9, <1>10, <1>11, <1>12, <1>13,
             <1>14, <1>15 DEF Next, Watch

\* An incident without an opening of the breaker needs a fault or is about to be
\* followed by it (_recover, _open_terminal_incident).
THEOREM IncidentsNeedBreakers == Spec => []IncidentsCutOff
  <1>1. Init => IncidentsCutOff
    <2> SUFFICES ASSUME Init, NEW i \in Instances
                 PROVE  incidents[i] <= openings[i] + 2 * faults
                          + (IF At(i, "breaker") THEN 1 ELSE 0) + (IF reboot[i] # 0 THEN 1 ELSE 0)
      BY DEF IncidentsCutOff
    <2>1. /\ incidents[i] = 0 /\ openings[i] = 0 /\ faults = 0 /\ reboot[i] = 0
          /\ watch[i] = Resting
      BY DEF Init
    <2>2. ~At(i, "breaker") BY <2>1 DEF At, Resting
    <2> QED BY <2>1, <2>2
  <1>2. TypeOK /\ IncidentsCutOff /\ [Next]_vars => IncidentsCutOff' BY IncidentsStep
  <1>3. Spec => []TypeOK BY LadderTypeCorrect
  <1> QED BY <1>1, <1>2, <1>3, PTL DEF Spec

----------------------------------------------------------------------------
(* Tasks *)

\* A task that was let through has seen no opening of the breaker later than now.
TasksLookBack == \A i \in Instances : task[i] # "pending" => seen[i] <= openings[i]

LEMMA TasksStep ==
  TypeOK /\ TasksLookBack /\ TasksAreHeld /\ [Next]_vars => TasksLookBack' /\ TasksAreHeld'
  <1> DEFINE Held(i) == task[i] # "pending" =>
                          seen[i] <= openings[i] /\ (Open(i) => openings[i] > seen[i])
  <1> SUFFICES ASSUME TypeOK, TasksLookBack, TasksAreHeld, [Next]_vars, NEW k \in Instances
               PROVE  Held(k)'
    BY DEF TasksLookBack, TasksAreHeld
  <1>a. Held(k) BY DEF TasksLookBack, TasksAreHeld
  <1>b. /\ breaker \in [Instances -> BreakerRows] /\ openings \in [Instances -> Nat]
        /\ seen \in [Instances -> Nat]
        /\ task \in [Instances -> {"pending", "let_through", "submitted"}]
    BY DEF TypeOK
  <1> USE DEF tables, legacy, counts, Open
  <1>1. ASSUME NEW i \in Instances, NEW incident, NEW by, OpenRow(i, incident, by),
               UNCHANGED legacy
        PROVE  Held(k)'
    <2>1. openings'[k] \in Nat /\ openings'[k] >= openings[k] /\ seen'[k] = seen[k]
          /\ task'[k] = task[k]
      BY <1>1, <1>b DEF OpenRow
    <2>2. k = i => openings'[k] > openings[k] BY <1>1, <1>b DEF OpenRow
    <2>3. k # i => breaker'[k] = breaker[k] BY <1>1, <1>b DEF OpenRow
    <2>4. seen[k] \in Nat /\ openings[k] \in Nat BY <1>b
    <2> QED BY <1>a, <2>1, <2>2, <2>3, <2>4
  <1>2. ASSUME UNCHANGED <<breaker, openings, legacy>> PROVE Held(k)'
    BY <1>2, <1>a
  <1>3. ASSUME NEW i \in Instances, Watch(i) PROVE Held(k)'
    <2>1. CASE OpenBreaker(i) BY <1>1, <2>1 DEF OpenBreaker
    <2>2. CASE ~OpenBreaker(i)
      BY <1>2, <1>3, <2>2
      DEF Watch, FirstLook, RunPhase, SaveAttempt, Look, SaveIncident, RecordExhausted, FinalLook
    <2> QED BY <2>1, <2>2
  <1>4. ASSUME NEW i \in Instances, RebootOpens(i) PROVE Held(k)'
    BY <1>1, <1>4 DEF RebootOpens
  <1>5. ASSUME NEW i \in Instances, Monitor(i) \/ CallFails(i) \/ RebootFails(i) PROVE Held(k)'
    BY <1>2, <1>5 DEF Monitor, CallFails, RebootFails
  <1>6. ASSUME NEW i \in Instances, CloseBreaker(i) PROVE Held(k)'
    <2>1. CASE k = i
      <3>1. breaker[i] \in BreakerRows /\ breaker'[i] = [breaker[i] EXCEPT !.status = "closed"]
        BY <1>6, <1>b DEF CloseBreaker
      <3>2. breaker'[i].status = "closed" BY <3>1 DEF BreakerRows
      <3> QED BY <1>a, <1>6, <2>1, <3>2 DEF CloseBreaker
    <2>2. CASE k # i BY <1>a, <1>b, <1>6, <2>2 DEF CloseBreaker
    <2> QED BY <2>1, <2>2
  <1>7. ASSUME NEW i \in Instances, LetThrough(i) PROVE Held(k)'
    BY <1>a, <1>b, <1>7 DEF LetThrough, MayDispatch
  <1>8. ASSUME NEW i \in Instances, Submit(i) \/ TaskEnds(i) PROVE Held(k)'
    BY <1>a, <1>b, <1>8 DEF Submit, TaskEnds
  <1>9. ASSUME Crash PROVE Held(k)'
    BY <1>9 DEF Crash
  <1>10. ASSUME UNCHANGED vars PROVE Held(k)'
    BY <1>2, <1>10 DEF vars
  <1> QED BY <1>3, <1>4, <1>5, <1>6, <1>7, <1>8, <1>9, <1>10 DEF Next

\* No task is let through to an instance while its breaker is open
\* (Scheduler._can_dispatch_task).
THEOREM CutOffTasksAreHeld == Spec => []TasksAreHeld
  <1>1. Init => TasksLookBack /\ TasksAreHeld BY DEF Init, TasksLookBack, TasksAreHeld
  <1>2. TypeOK /\ TasksLookBack /\ TasksAreHeld /\ [Next]_vars => TasksLookBack' /\ TasksAreHeld'
    BY TasksStep
  <1>3. Spec => []TypeOK BY LadderTypeCorrect
  <1> QED BY <1>1, <1>2, <1>3, PTL DEF Spec

----------------------------------------------------------------------------
(* The ladder *)

\* The rows are those of the first n phases, in order.
Climbed(s, n) == Len(s) = n /\ \A k \in 1..n : s[k] = Ladder[k]

\* A call that climbs has saved a row of every phase it has left behind, and its
\* incident before it opens the breaker.
OnLadder(i) ==
  /\ watch[i].at \in {"phase", "worked", "failed"} => Climbed(attempts[i], watch[i].phase - 1)
  /\ watch[i].at = "look" => Climbed(attempts[i], watch[i].phase)
  /\ watch[i].at \in {"incident", "breaker", "exhausted"} => attempts[i] = Ladder
  /\ watch[i].at \in {"breaker", "exhausted"} => watch[i].incident \in 1..incidents[i]

\* An instance the watchdog cut off is not climbed for.
CutOffAtRest(i) ==
  breaker[i].by = "watchdog" /\ Open(i) => watch[i].at \in {"idle", "exhausted", "given_up"}

Earned(i) ==
  breaker[i].by = "watchdog" /\ Open(i) =>
    /\ breaker[i].incident \in 1..incidents[i]
    /\ attempts[i] \in {Ladder, Append(Ladder, "open_incident")}

Followed(i) == OnLadder(i) /\ CutOffAtRest(i) /\ Earned(i)

LEMMA ClimbedAppend ==
  ASSUME NEW s \in AttemptRows, NEW n \in 1..5, Climbed(s, n - 1)
  PROVE  Climbed(Append(s, Ladder[n]), n)
  <1>1. Ladder[n] \in Phases \cup {"open_incident"} BY LadderFacts
  <1>2. /\ Len(Append(s, Ladder[n])) = Len(s) + 1
        /\ \A k \in 1..Len(s) : Append(s, Ladder[n])[k] = s[k]
        /\ Append(s, Ladder[n])[Len(s) + 1] = Ladder[n]
    BY <1>1, AppendProperties DEF AttemptRows
  <1>3. Len(s) = n - 1 /\ \A k \in 1..(n - 1) : s[k] = Ladder[k] BY DEF Climbed
  <1>4. Len(Append(s, Ladder[n])) = n BY <1>2, <1>3
  <1>5. ASSUME NEW k \in 1..n PROVE Append(s, Ladder[n])[k] = Ladder[k]
    <2>1. CASE k = n BY <1>2, <1>3, <2>1
    <2>2. CASE k \in 1..(n - 1) BY <1>2, <1>3, <2>2
    <2>3. k = n \/ k \in 1..(n - 1) OBVIOUS
    <2> QED BY <2>1, <2>2, <2>3
  <1> QED BY <1>4, <1>5 DEF Climbed

LEMMA ClimbedAll ==
  ASSUME NEW s \in AttemptRows, Climbed(s, 5)
  PROVE  s = Ladder
  <1>1. Ladder \in AttemptRows /\ Len(Ladder) = 5 BY LadderFacts
  <1>2. Len(s) = Len(Ladder) /\ \A k \in 1..Len(s) : s[k] = Ladder[k] BY <1>1 DEF Climbed
  <1> QED BY <1>1, <1>2, SeqEqual DEF AttemptRows

\* What another instance's step leaves alone.
LEMMA FollowedKept ==
  ASSUME NEW k \in Instances, Followed(k),
         incidents[k] \in Nat, incidents'[k] \in Nat, incidents[k] <= incidents'[k],
         attempts'[k] = attempts[k],
         \/ watch'[k] = watch[k]
         \/ watch'[k].at = "idle",
         \/ breaker'[k] = breaker[k]
         \/ breaker'[k].status # "open"
         \/ breaker'[k].by # "watchdog"
  PROVE  Followed(k)'
  BY DEF Followed, OnLadder, CutOffAtRest, Earned, Open

LEMMA FollowedStep ==
  TypeOK /\ (\A k \in Instances : Followed(k)) /\ [Next]_vars => \A k \in Instances : Followed(k)'
  <1> SUFFICES ASSUME TypeOK, \A k \in Instances : Followed(k), [Next]_vars,
                      NEW k \in Instances
               PROVE  Followed(k)'
    OBVIOUS
  <1>a. Followed(k) OBVIOUS
  <1>b. /\ breaker \in [Instances -> BreakerRows] /\ incidents \in [Instances -> Nat]
        /\ attempts \in [Instances -> AttemptRows] /\ watch \in [Instances -> Calls]
    BY DEF TypeOK
  <1>c. watch[k].phase \in 0..5 /\ incidents[k] \in Nat BY <1>b, CallTypes
  <1> USE DEF tables, legacy, counts
  \* a step of another instance
  <1>1. ASSUME watch'[k] = watch[k], attempts'[k] = attempts[k], breaker'[k] = breaker[k],
               incidents'[k] \in Nat, incidents[k] <= incidents'[k]
        PROVE  Followed(k)'
    BY <1>1, <1>a, <1>c, FollowedKept
  \* an end of the call
  <1>2. ASSUME watch'[k].at = "idle", attempts'[k] = attempts[k], breaker'[k] = breaker[k],
               incidents'[k] = incidents[k]
        PROVE  Followed(k)'
    BY <1>2, <1>a, <1>c, FollowedKept
  <1>3. ASSUME NEW i \in Instances, Monitor(i) PROVE Followed(k)'
    <2>1. Go(i, "first_look") /\ ~Open(i) /\ UNCHANGED <<breaker, incidents, attempts>>
      BY <1>3 DEF Monitor
    <2>2. CASE k = i
      BY <2>1, <2>2, GoFacts DEF Places, Followed, OnLadder, CutOffAtRest, Earned, Open
    <2>3. CASE k # i BY <1>1, <1>c, <2>1, <2>3, GoFacts DEF Places
    <2> QED BY <2>2, <2>3
  <1>4. ASSUME NEW i \in Instances, FirstLook(i) PROVE Followed(k)'
    <2>1. watch[i].at = "first_look" /\ UNCHANGED <<breaker, incidents>>
      BY <1>4 DEF FirstLook, At
    <2>2. CASE k = i
      <3>1. ~(breaker[k].by = "watchdog" /\ Open(k))
        BY <1>a, <2>1, <2>2 DEF Followed, CutOffAtRest
      <3>2. CASE watch'[k] = Resting
        BY <2>1, <3>1, <3>2 DEF Resting, Followed, OnLadder, CutOffAtRest, Earned, Open
      <3>3. CASE watch'[k].at = "phase" /\ watch'[k].phase = 1 /\ attempts'[k] = <<>>
        <4>1. Climbed(<<>>, 0) BY DEF Climbed
        <4> QED BY <2>1, <3>1, <3>3, <4>1
                DEF Followed, OnLadder, CutOffAtRest, Earned, Open
      <3> QED BY <1>4, <1>b, <2>2, <3>2, <3>3, FirstLookFacts
    <2>3. CASE k # i
      <3>1. watch'[k] = watch[k] /\ attempts'[k] = attempts[k]
        BY <1>4, <1>b, <2>3, FirstLookFacts
      <3> QED BY <1>1, <1>c, <2>1, <3>1
    <2> QED BY <2>2, <2>3
  <1>5. ASSUME NEW i \in Instances, RunPhase(i) PROVE Followed(k)'
    <2>1. /\ watch[i].at = "phase" /\ UNCHANGED <<breaker, incidents, attempts>>
          /\ Go(i, "worked") \/ Go(i, "failed")
      BY <1>5 DEF RunPhase, At
    <2>2. /\ watch'[i].at \in {"worked", "failed"} /\ watch'[i].phase = watch[i].phase
          /\ \A j \in Instances \ {i} : watch'[j] = watch[j]
      BY <2>1, GoFacts DEF Places
    <2>3. CASE k = i
      BY <1>a, <2>1, <2>2, <2>3 DEF Followed, OnLadder, CutOffAtRest, Earned, Open
    <2>4. CASE k # i BY <1>1, <1>c, <2>1, <2>2, <2>4
    <2> QED BY <2>3, <2>4
  <1>6. ASSUME NEW i \in Instances, SaveAttempt(i) PROVE Followed(k)'
    <2>1. /\ watch[i].at \in {"worked", "failed"} /\ UNCHANGED <<breaker, incidents>>
          /\ attempts' = [attempts EXCEPT ![i] = Append(@, Ladder[watch[i].phase])]
          /\ (watch[i].at = "worked" /\ Go(i, "look")) \/ NextPhase(i)
      BY <1>6 DEF SaveAttempt, At
    <2>2. CASE k = i
      <3>1. watch[k].phase \in 1..5 BY <1>c, <2>1, <2>2 DEF TypeOK
      <3>2. Climbed(attempts[k], watch[k].phase - 1)
        BY <1>a, <2>1, <2>2 DEF Followed, OnLadder
      <3>3. Climbed(attempts'[k], watch[k].phase)
        BY <1>b, <2>1, <2>2, <3>1, <3>2, ClimbedAppend
      <3>4. ~(breaker[k].by = "watchdog" /\ Open(k))
        BY <1>a, <2>1, <2>2 DEF Followed, CutOffAtRest
      <3>5. attempts'[k] \in AttemptRows BY TypesStep DEF TypeOK
      <3>6. CASE Go(k, "look")
        BY <2>1, <3>3, <3>4, <3>6, GoFacts
        DEF Places, Followed, OnLadder, CutOffAtRest, Earned, Open
      <3>7. CASE NextPhase(k)
        <4>1. CASE watch'[k].at = "phase" /\ watch'[k].phase = watch[k].phase + 1
          BY <2>1, <3>1, <3>3, <3>4, <4>1 DEF Followed, OnLadder, CutOffAtRest, Earned, Open
        <4>2. CASE watch'[k].at = "incident" /\ watch[k].phase = 5
          <5>1. attempts'[k] = Ladder BY <3>3, <3>5, <4>2, ClimbedAll
          <5> QED BY <2>1, <3>4, <4>2, <5>1 DEF Followed, OnLadder, CutOffAtRest, Earned, Open
        <4> QED BY <3>7, <4>1, <4>2, NextPhaseFacts
      <3> QED BY <2>1, <2>2, <3>6, <3>7
    <2>3. CASE k # i
      <3>1. watch'[k] = watch[k] BY <2>1, <2>3, GoFacts, NextPhaseFacts DEF Places
      <3>2. attempts'[k] = attempts[k] BY <1>b, <2>1, <2>3
      <3> QED BY <1>1, <1>c, <2>1, <3>1, <3>2
    <2> QED BY <2>2, <2>3
  <1>7. ASSUME NEW i \in Instances, Look(i) PROVE Followed(k)'
    <2>1. /\ watch[i].at = "look" /\ UNCHANGED <<breaker, incidents, attempts>>
          /\ Go(i, "recovered") \/ NextPhase(i)
      BY <1>7 DEF Look, At
    <2>2. CASE k = i
      <3>1. Climbed(attempts[k], watch[k].phase) /\ ~(breaker[k].by = "watchdog" /\ Open(k))
        BY <1>a, <2>1, <2>2 DEF Followed, OnLadder, CutOffAtRest
      <3>2. CASE Go(k, "recovered")
        BY <2>1, <3>1, <3>2, GoFacts DEF Places, Followed, OnLadder, CutOffAtRest, Earned, Open
      <3>3. CASE watch'[k].at = "phase" /\ watch'[k].phase = watch[k].phase + 1
        BY <1>c, <2>1, <3>1, <3>3 DEF Followed, OnLadder, CutOffAtRest, Earned, Open
      <3>4. CASE watch'[k].at = "incident" /\ watch[k].phase = 5
        <4>1. attempts[k] = Ladder BY <1>b, <3>1, <3>4, ClimbedAll
        <4> QED BY <2>1, <3>1, <3>4, <4>1 DEF Followed, OnLadder, CutOffAtRest, Earned, Open
      <3> QED BY <2>1, <2>2, <3>2, <3>3, <3>4, NextPhaseFacts
    <2>3. CASE k # i
      <3>1. watch'[k] = watch[k] BY <2>1, <2>3, GoFacts, NextPhaseFacts DEF Places
      <3> QED BY <1>1, <1>c, <2>1, <3>1
    <2> QED BY <2>2, <2>3
  <1>8. ASSUME NEW i \in Instances, SaveIncident(i) PROVE Followed(k)'
    <2>1. /\ watch[i].at = "incident" /\ UNCHANGED <<breaker, attempts>>
          /\ incidents' = [incidents EXCEPT ![i] = @ + 1]
      BY <1>8 DEF SaveIncident, At
    <2>2. CASE k = i
      <3>1. incidents'[k] = incidents[k] + 1 BY <1>b, <2>1, <2>2
      <3>2. watch'[k].at = "breaker" /\ watch'[k].incident \in 1..incidents'[k]
        BY <1>8, <1>c, <2>2, <3>1, SaveIncidentFacts
      <3>3. attempts[k] = Ladder /\ ~(breaker[k].by = "watchdog" /\ Open(k))
        BY <1>a, <2>1, <2>2 DEF Followed, OnLadder, CutOffAtRest
      <3> QED BY <2>1, <3>2, <3>3 DEF Followed, OnLadder, CutOffAtRest, Earned, Open
    <2>3. CASE k # i BY <1>1, <1>8, <1>b, <1>c, <2>1, <2>3, SaveIncidentFacts
    <2> QED BY <2>2, <2>3
  <1>9. ASSUME NEW i \in Instances, OpenBreaker(i) PROVE Followed(k)'
    <2>1. /\ watch[i].at = "breaker" /\ UNCHANGED <<incidents, attempts>> /\ Go(i, "exhausted")
          /\ breaker' = [breaker EXCEPT ![i] =
               [status |-> "open", incident |-> watch[i].incident, by |-> "watchdog"]]
      BY <1>9 DEF OpenBreaker, OpenRow, At
    <2>2. CASE k = i
      <3>1. breaker'[k].incident = watch[k].incident BY <1>b, <2>1, <2>2
      <3>2. watch'[k].at = "exhausted" /\ watch'[k].incident = watch[k].incident
        BY <2>1, <2>2, GoFacts DEF Places
      <3>3. attempts[k] = Ladder /\ watch[k].incident \in 1..incidents[k]
        BY <1>a, <2>1, <2>2 DEF Followed, OnLadder
      <3> QED BY <2>1, <3>1, <3>2, <3>3 DEF Followed, OnLadder, CutOffAtRest, Earned
    <2>3. CASE k # i BY <1>1, <1>b, <1>c, <2>1, <2>3, GoFacts DEF Places
    <2> QED BY <2>2, <2>3
  <1>10. ASSUME NEW i \in Instances, RecordExhausted(i) PROVE Followed(k)'
    <2>1. /\ watch[i].at = "exhausted" /\ UNCHANGED <<breaker, incidents>> /\ Go(i, "given_up")
          /\ attempts' = [attempts EXCEPT ![i] = Append(@, "open_incident")]
      BY <1>10 DEF RecordExhausted, At
    <2>2. CASE k = i
      <3>1. attempts[k] = Ladder BY <1>a, <2>1, <2>2 DEF Followed, OnLadder
      <3>2. attempts'[k] = Append(Ladder, "open_incident") BY <1>b, <2>1, <2>2, <3>1
      <3>3. watch'[k].at = "given_up" BY <2>1, <2>2, GoFacts DEF Places
      <3> QED BY <1>a, <2>1, <3>2, <3>3 DEF Followed, OnLadder, CutOffAtRest, Earned, Open
    <2>3. CASE k # i BY <1>1, <1>b, <1>c, <2>1, <2>3, GoFacts DEF Places
    <2> QED BY <2>2, <2>3
  <1>11. ASSUME NEW i \in Instances, FinalLook(i) \/ CallFails(i) PROVE Followed(k)'
    <2>1. watch' = [watch EXCEPT ![i] = Resting] /\ UNCHANGED <<breaker, incidents, attempts>>
      BY <1>11 DEF FinalLook, CallFails
    <2>2. CASE k = i
      <3>1. watch'[k].at = "idle" BY <1>b, <2>1, <2>2 DEF Resting
      <3> QED BY <1>2, <2>1, <3>1
    <2>3. CASE k # i
      <3>1. watch'[k] = watch[k] BY <1>b, <2>1, <2>3
      <3> QED BY <1>1, <1>c, <2>1, <3>1
    <2> QED BY <2>2, <2>3
  <1>12. ASSUME NEW i \in Instances, RebootFails(i) PROVE Followed(k)'
    <2>1. UNCHANGED <<breaker, attempts, watch>> /\ incidents' = [incidents EXCEPT ![i] = @ + 1]
      BY <1>12 DEF RebootFails
    <2>2. incidents'[k] \in Nat /\ incidents[k] <= incidents'[k] BY <1>b, <1>c, <2>1
    <2> QED BY <1>1, <2>1, <2>2
  <1>13. ASSUME NEW i \in Instances, RebootOpens(i) PROVE Followed(k)'
    <2>1. /\ UNCHANGED <<incidents, attempts, watch>>
          /\ breaker' = [breaker EXCEPT ![i] =
               [status |-> "open", incident |-> reboot[i], by |-> "reboot"]]
      BY <1>13 DEF RebootOpens, OpenRow
    <2>2. breaker'[k] = breaker[k] \/ breaker'[k].by # "watchdog" BY <1>b, <2>1
    <2> QED BY <1>a, <1>c, <2>1, <2>2, FollowedKept
  <1>14. ASSUME NEW i \in Instances, CloseBreaker(i) PROVE Followed(k)'
    <2>1. /\ UNCHANGED <<incidents, attempts, watch>>
          /\ breaker' = [breaker EXCEPT ![i] = [breaker[i] EXCEPT !.status = "closed"]]
      BY <1>14 DEF CloseBreaker
    <2>2. [breaker[i] EXCEPT !.status = "closed"].status = "closed" BY <1>b DEF BreakerRows
    <2>3. breaker'[k] = breaker[k] \/ breaker'[k].status # "open" BY <1>b, <2>1, <2>2
    <2> QED BY <1>a, <1>c, <2>1, <2>3, FollowedKept
  <1>15. ASSUME NEW i \in Instances, LetThrough(i) \/ Submit(i) \/ TaskEnds(i) PROVE Followed(k)'
    <2>1. UNCHANGED <<breaker, incidents, attempts, watch>>
      BY <1>15 DEF LetThrough, Submit, TaskEnds
    <2> QED BY <1>1, <1>c, <2>1
  <1>16. ASSUME Crash PROVE Followed(k)'
    <2>1. watch'[k].at = "idle" /\ UNCHANGED <<breaker, incidents, attempts>>
      BY <1>16 DEF Crash, Resting
    <2> QED BY <1>2, <2>1
  <1>17. ASSUME UNCHANGED vars PROVE Followed(k)'
    BY <1>1, <1>c, <1>17 DEF vars
  <1> QED BY <1>3, <1>4, <1>5, <1>6, <1>7, <1>8, <1>9, <1>10, <1>11, <1>12, <1>13, <1>14, <1>15,
             <1>16, <1>17 DEF Next, Watch

\* An instance the watchdog cut off has been through the whole ladder, phase by
\* phase, and its breaker refers to a saved incident (_recover).
THEOREM BreakersFollowLadder == Spec => []BreakersAreEarned
  <1> DEFINE Inv == \A k \in Instances : Followed(k)
  <1>1. Init => Inv
    BY DEF Init, Followed, OnLadder, CutOffAtRest, Earned, Open, Resting, NoRow
  <1>2. TypeOK /\ Inv /\ [Next]_vars => Inv' BY FollowedStep
  <1>3. Inv => BreakersAreEarned BY DEF Followed, Earned, BreakersAreEarned
  <1>4. Spec => []TypeOK BY LadderTypeCorrect
  <1> QED BY <1>1, <1>2, <1>3, <1>4, PTL DEF Spec

----------------------------------------------------------------------------
(* A screen that does not change *)

\* While a call climbs for an unchanging screen, that screen is the one seen last
\* and its count stays at the limit.
Frozen(i) ==
  watch[i].issue = "same_screen" /\ watch[i].at \in {"phase", "worked", "failed", "look"} =>
    /\ watch[i].picture \in Pictures
    /\ screens[i].picture = watch[i].picture /\ screens[i].count = Sightings

Changed(i) ==
  watch[i].at = "recovered" /\ watch[i].issue = "same_screen" =>
    screens[i].picture # watch[i].picture

\* The screen that was seen is the one that is kept; the same again stays at the limit.
LEMMA SightedFacts ==
  ASSUME TypeOK, NEW i \in Instances, NEW shown \in Pictures \cup {"sick"}, NEW late \in BOOLEAN,
         Observe(i, shown, late)
  PROVE  /\ \A j \in Instances \ {i} : screens'[j] = screens[j]
         /\ shown \notin Pictures => screens' = screens
         /\ shown \in Pictures => screens'[i] = Sighted(i, shown, late)
         /\ Sighted(i, shown, late).picture = shown
         /\ Issue(i, shown, late) = "same_screen" => shown \in Pictures
         /\ Issue(i, shown, late) = "same_screen" => Sighted(i, shown, late).count = Sightings
         /\ Issue(i, shown, late) = "same_screen" => screens[i].picture = shown
         /\ shown \in Pictures /\ screens[i].picture = shown /\ screens[i].count = Sightings =>
              Issue(i, shown, late) = "same_screen"
  <1>1. screens \in [Instances -> Histories] /\ screens[i] \in Histories BY DEF TypeOK
  <1>2. /\ \A j \in Instances \ {i} : screens'[j] = screens[j]
        /\ shown \notin Pictures => screens' = screens
        /\ shown \in Pictures => screens'[i] = Sighted(i, shown, late)
    BY <1>1 DEF Observe
  <1>3. Sighted(i, shown, late).picture = shown BY <1>1 DEF Sighted, Again, First, Histories
  <1>4. /\ Issue(i, shown, late) = "same_screen" => shown \in Pictures
        /\ Issue(i, shown, late) = "same_screen" => Sighted(i, shown, late).count = Sightings
    BY DEF Issue
  <1>5. ASSUME shown \in Pictures, screens[i].picture = shown, screens[i].count = Sightings
        PROVE  Issue(i, shown, late) = "same_screen"
    <2>1. Sighted(i, shown, late).count = Sightings
      BY <1>1, <1>5, RecoveryLadderAssumption DEF Sighted, Again, Histories
    <2> QED BY <1>5, <2>1 DEF Issue
  <1>6. Issue(i, shown, late) = "same_screen" => screens[i].picture = shown
    BY <1>4, RecoveryLadderAssumption DEF Sighted, Again, First
  <1> QED BY <1>2, <1>3, <1>4, <1>5, <1>6

LEMMA StuckStep ==
  TypeOK /\ (\A k \in Instances : Frozen(k) /\ Changed(k)) /\ [Next]_vars =>
    \A k \in Instances : Frozen(k)' /\ Changed(k)'
  <1> SUFFICES ASSUME TypeOK, \A k \in Instances : Frozen(k) /\ Changed(k), [Next]_vars,
                      NEW k \in Instances
               PROVE  Frozen(k)' /\ Changed(k)'
    OBVIOUS
  <1>a. Frozen(k) /\ Changed(k) OBVIOUS
  <1>b. /\ watch \in [Instances -> Calls] /\ screens \in [Instances -> Histories]
    BY DEF TypeOK
  <1> USE DEF tables, legacy, counts
  \* a step of another instance
  <1>1. ASSUME watch'[k] = watch[k], screens'[k] = screens[k] PROVE Frozen(k)' /\ Changed(k)'
    BY <1>1, <1>a DEF Frozen, Changed
  \* the call is not on the ladder
  <1>2. ASSUME watch'[k].at \notin {"phase", "worked", "failed", "look", "recovered"}
        PROVE  Frozen(k)' /\ Changed(k)'
    BY <1>2 DEF Frozen, Changed
  \* the call goes on climbing, with the same screen
  <1>3. ASSUME watch[k].at \in {"phase", "worked", "failed", "look"},
               watch'[k].at \in {"phase", "worked", "failed", "look", "incident"},
               watch'[k].issue = watch[k].issue, watch'[k].picture = watch[k].picture,
               watch[k].issue = "same_screen" => screens'[k] = screens[k]
        PROVE  Frozen(k)' /\ Changed(k)'
    BY <1>3, <1>a DEF Frozen, Changed
  <1>4. ASSUME NEW i \in Instances, Monitor(i) PROVE Frozen(k)' /\ Changed(k)'
    <2>1. Go(i, "first_look") /\ UNCHANGED screens BY <1>4 DEF Monitor
    <2>2. CASE k = i BY <1>2, <2>1, <2>2, GoFacts DEF Places
    <2>3. CASE k # i BY <1>1, <2>1, <2>3, GoFacts DEF Places
    <2> QED BY <2>2, <2>3
  <1>5. ASSUME NEW i \in Instances, FirstLook(i) PROVE Frozen(k)' /\ Changed(k)'
    <2>1. PICK shown \in Pictures \cup {"sick"}, late \in BOOLEAN : FirstLook(i)!2!(shown, late)
      BY <1>5 DEF FirstLook
    <2> DEFINE issue == Issue(i, shown, late)
    <2>2. watch' = [watch EXCEPT ![i] = IF issue = "none" THEN Resting ELSE Climbing(issue, shown)]
      BY <2>1
    <2>3. Observe(i, shown, late) BY <2>1
    <2> HIDE DEF issue
    <2>4. CASE k = i
      <3>1. CASE issue = "none"
        <4>1. watch'[k].at = "idle" BY <1>b, <2>2, <2>4, <3>1 DEF Resting
        <4> QED BY <1>2, <4>1
      <3>2. CASE issue # "none"
        <4>1. watch'[k].at = "phase" /\ watch'[k].issue = issue /\ watch'[k].picture = shown
          BY <1>b, <2>2, <2>4, <3>2 DEF Climbing
        <4>2. issue = "same_screen" =>
                /\ shown \in Pictures
                /\ screens'[k].picture = shown /\ screens'[k].count = Sightings
          BY <2>3, <2>4, SightedFacts DEF issue
        <4> QED BY <4>1, <4>2 DEF Frozen, Changed
      <3> QED BY <3>1, <3>2
    <2>5. CASE k # i
      <3>1. watch'[k] = watch[k] BY <1>b, <2>2, <2>5
      <3> QED BY <1>1, <2>3, <2>5, <3>1, SightedFacts
    <2> QED BY <2>4, <2>5
  <1>6. ASSUME NEW i \in Instances, RunPhase(i) PROVE Frozen(k)' /\ Changed(k)'
    <2>1. /\ watch[i].at = "phase" /\ UNCHANGED screens
          /\ Go(i, "worked") \/ Go(i, "failed")
      BY <1>6 DEF RunPhase, At
    <2>2. CASE k = i BY <1>3, <2>1, <2>2, GoFacts DEF Places
    <2>3. CASE k # i BY <1>1, <2>1, <2>3, GoFacts DEF Places
    <2> QED BY <2>2, <2>3
  <1>7. ASSUME NEW i \in Instances, SaveAttempt(i) PROVE Frozen(k)' /\ Changed(k)'
    <2>1. /\ watch[i].at \in {"worked", "failed"} /\ UNCHANGED screens
          /\ Go(i, "look") \/ NextPhase(i)
      BY <1>7 DEF SaveAttempt, At
    <2>2. CASE k = i BY <1>3, <2>1, <2>2, GoFacts, NextPhaseFacts DEF Places
    <2>3. CASE k # i BY <1>1, <2>1, <2>3, GoFacts, NextPhaseFacts DEF Places
    <2> QED BY <2>2, <2>3
  <1>8. ASSUME NEW i \in Instances, Look(i) PROVE Frozen(k)' /\ Changed(k)'
    <2>1. PICK shown \in Pictures \cup {"sick"}, late \in BOOLEAN :
            /\ Observe(i, shown, late)
            /\ IF Issue(i, shown, late) = "none" THEN Go(i, "recovered") ELSE NextPhase(i)
      BY <1>8 DEF Look
    <2>2. watch[i].at = "look" BY <1>8 DEF Look, At
    <2>3. CASE k = i
      <3>1. CASE Issue(i, shown, late) = "none"
        <4>1. /\ watch'[k].at = "recovered"
              /\ watch'[k].issue = watch[k].issue /\ watch'[k].picture = watch[k].picture
          BY <2>1, <2>3, <3>1, GoFacts DEF Places
        <4>2. shown \in Pictures BY <3>1 DEF Issue
        <4>3. screens'[k].picture = shown BY <2>1, <2>3, <4>2, SightedFacts
        <4>4. watch[k].issue = "same_screen" => shown # watch[k].picture
          BY <1>a, <2>1, <2>2, <2>3, <3>1, <4>2, SightedFacts DEF Frozen
        <4> QED BY <4>1, <4>3, <4>4 DEF Frozen, Changed
      <3>2. CASE Issue(i, shown, late) # "none" /\ watch[k].issue = "same_screen"
        <4>1. NextPhase(k) BY <2>1, <2>3, <3>2
        <4>2. screens'[k].picture = watch[k].picture /\ screens'[k].count = Sightings
          <5>1. CASE shown \notin Pictures
            BY <1>a, <2>1, <2>2, <2>3, <3>2, <5>1, SightedFacts DEF Frozen
          <5>2. CASE shown \in Pictures
            <6>1. Issue(i, shown, late) = "same_screen" BY <3>2, <5>2 DEF Issue
            <6> QED BY <1>a, <2>1, <2>2, <2>3, <3>2, <5>2, <6>1, SightedFacts DEF Frozen
          <5> QED BY <5>1, <5>2
        <4>3. Frozen(k)' BY <1>a, <2>2, <2>3, <3>2, <4>1, <4>2, NextPhaseFacts DEF Frozen
        <4> QED BY <4>1, <4>3, NextPhaseFacts DEF Changed
      <3>3. CASE Issue(i, shown, late) # "none" /\ watch[k].issue # "same_screen"
        <4>1. NextPhase(k) BY <2>1, <2>3, <3>3
        <4> QED BY <1>3, <2>2, <2>3, <3>3, <4>1, NextPhaseFacts
      <3> QED BY <3>1, <3>2, <3>3
    <2>4. CASE k # i
      <3>1. watch'[k] = watch[k] BY <2>1, <2>4, GoFacts, NextPhaseFacts DEF Places
      <3> QED BY <1>1, <2>1, <2>4, <3>1, SightedFacts
    <2> QED BY <2>3, <2>4
  <1>9. ASSUME NEW i \in Instances, SaveIncident(i) PROVE Frozen(k)' /\ Changed(k)'
    <2>1. UNCHANGED screens BY <1>9 DEF SaveIncident
    <2>2. CASE k = i BY <1>2, <1>9, <2>2, SaveIncidentFacts
    <2>3. CASE k # i BY <1>1, <1>9, <2>1, <2>3, SaveIncidentFacts
    <2> QED BY <2>2, <2>3
  <1>10. ASSUME NEW i \in Instances, OpenBreaker(i) PROVE Frozen(k)' /\ Changed(k)'
    <2>1. UNCHANGED screens /\ Go(i, "exhausted") BY <1>10 DEF OpenBreaker
    <2>2. CASE k = i BY <1>2, <2>1, <2>2, GoFacts DEF Places
    <2>3. CASE k # i BY <1>1, <2>1, <2>3, GoFacts DEF Places
    <2> QED BY <2>2, <2>3
  <1>11. ASSUME NEW i \in Instances, RecordExhausted(i) PROVE Frozen(k)' /\ Changed(k)'
    <2>1. UNCHANGED screens /\ Go(i, "given_up") BY <1>11 DEF RecordExhausted
    <2>2. CASE k = i BY <1>2, <2>1, <2>2, GoFacts DEF Places
    <2>3. CASE k # i BY <1>1, <2>1, <2>3, GoFacts DEF Places
    <2> QED BY <2>2, <2>3
  <1>12. ASSUME NEW i \in Instances, FinalLook(i) \/ CallFails(i) PROVE Frozen(k)' /\ Changed(k)'
    <2>1. watch' = [watch EXCEPT ![i] = Resting] BY <1>12 DEF FinalLook, CallFails
    <2>2. \A j \in Instances \ {i} : screens'[j] = screens[j]
      BY <1>12, SightedFacts DEF FinalLook, CallFails
    <2>3. CASE k = i
      <3>1. watch'[k].at = "idle" BY <1>b, <2>1, <2>3 DEF Resting
      <3> QED BY <1>2, <3>1
    <2>4. CASE k # i BY <1>1, <1>b, <2>1, <2>2, <2>4
    <2> QED BY <2>3, <2>4
  <1>13. ASSUME NEW i \in Instances,
                \/ RebootFails(i) \/ RebootOpens(i) \/ CloseBreaker(i)
                \/ LetThrough(i) \/ Submit(i) \/ TaskEnds(i)
         PROVE  Frozen(k)' /\ Changed(k)'
    <2>1. UNCHANGED <<screens, watch>>
      BY <1>13 DEF RebootFails, RebootOpens, CloseBreaker, LetThrough, Submit, TaskEnds
    <2> QED BY <1>1, <2>1
  <1>14. ASSUME Crash PROVE Frozen(k)' /\ Changed(k)'
    <2>1. watch'[k].at = "idle" BY <1>14 DEF Crash, Resting
    <2> QED BY <1>2, <2>1
  <1>15. ASSUME UNCHANGED vars PROVE Frozen(k)' /\ Changed(k)'
    BY <1>1, <1>15 DEF vars
  <1> QED BY <1>4, <1>5, <1>6, <1>7, <1>8, <1>9, <1>10, <1>11, <1>12, <1>13, <1>14, <1>15
          DEF Next, Watch

\* A ladder climbed for an unchanging screen ends as a recovery only when the
\* screen has changed (_same_screen_timed_out).
THEOREM StuckScreensChange == Spec => []StuckMustChange
  <1> DEFINE Inv == \A k \in Instances : Frozen(k) /\ Changed(k)
  <1>1. Init => Inv BY DEF Init, Frozen, Changed, Resting
  <1>2. TypeOK /\ Inv /\ [Next]_vars => Inv' BY StuckStep
  <1>3. Inv => StuckMustChange BY DEF Changed, StuckMustChange, At
  <1>4. Spec => []TypeOK BY LadderTypeCorrect
  <1> QED BY <1>1, <1>2, <1>3, <1>4, PTL DEF Spec
=============================================================================
