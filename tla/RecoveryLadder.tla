--------------------------- MODULE RecoveryLadder ---------------------------
(***************************************************************************)
(* RecoveryWatchdog.monitor: an instance is observed and, when it is sick, *)
(* recovered by phases of growing force, each recorded, until one of them  *)
(* leaves it healthy.  A ladder that is exhausted saves an incident and    *)
(* opens the instance's circuit breaker, which keeps the watchdog away     *)
(* from the instance and Scheduler from dispatching its tasks.  A failed   *)
(* game_reboot run opens incident and breaker as well.                     *)
(*                                                                         *)
(* Abstracted: what made an instance sick; of an observation only "sick"   *)
(* or the picture of a known scene is kept.  Time: a picture seen before   *)
(* may have been there for the timeout or not.  Rows of attempts of        *)
(* earlier calls.                                                          *)
(*                                                                         *)
(* An operator Name_Variant is a plausible mistake in Name, used by        *)
(* nothing: it shows which property would catch it.                        *)
(***************************************************************************)
EXTENDS Naturals, Sequences

CONSTANTS
  Instances,
  Pictures,     \* digests of screenshots of known scenes
  Sightings,    \* same_screen_max_observations
  MaxCalls,     \* bound on calls of monitor
  MaxReboots,   \* bound on failed game_reboot runs
  MaxFaults     \* bound on failing database calls and crashes

ASSUME RecoveryLadderAssumption ==
  /\ "sick" \notin Pictures /\ "none" \notin Pictures
  /\ Sightings \in Nat /\ Sightings >= 2
  /\ MaxCalls \in Nat /\ MaxReboots \in Nat /\ MaxFaults \in Nat

VARIABLES
  breaker,    \* breaker[i]: the row of instance_circuit_breakers
  incidents,  \* incidents[i]: how many incidents are saved
  attempts,   \* attempts[i]: phases of the rows saved by the last ladder
  screens,    \* screens[i]: RecoveryWatchdog._screens
  watch,      \* the call of monitor: where it is and its locals
  reboot,     \* reboot[i]: a failed game_reboot run, where its incident is
  task,       \* task[i]: a scheduled task of the instance
  seen,       \* history: openings of the breaker when the task was let through
  openings,   \* history: how often the breaker was opened
  calls, reboots, faults

tables == <<breaker, incidents, attempts, openings>>
legacy == <<task, seen>>
counts == <<calls, reboots, faults>>
vars == <<tables, screens, watch, reboot, legacy, counts>>

Ladder == <<"reconnect_adb", "send_back", "normalize_home", "relaunch_game", "restart_emulator">>

Unseen == [picture |-> "none", count |-> 0]
NoRow == [status |-> "none", incident |-> 0, by |-> "none"]
Resting == [at |-> "idle", issue |-> "none", picture |-> "none", phase |-> 0,
            incident |-> 0]

\* _recover has begun, with its first phase
Climbing(issue, shown) ==
  [at |-> "phase", issue |-> issue, picture |-> shown, phase |-> 1, incident |-> 0]

Open(i) == breaker[i].status = "open"

Init ==
  /\ breaker = [i \in Instances |-> NoRow]
  /\ incidents = [i \in Instances |-> 0]
  /\ attempts = [i \in Instances |-> <<>>]
  /\ screens = [i \in Instances |-> Unseen]
  /\ watch = [i \in Instances |-> Resting]
  /\ reboot = [i \in Instances |-> 0]
  /\ task = [i \in Instances |-> "pending"]
  /\ seen = [i \in Instances |-> 0]
  /\ openings = [i \in Instances |-> 0]
  /\ calls = 0 /\ reboots = 0 /\ faults = 0

At(i, place) == watch[i].at = place

Go(i, place) == watch' = [watch EXCEPT ![i].at = place]

----------------------------------------------------------------------------
(* An observation *)

Again(i, shown) == screens[i].picture = shown

First(shown) == [picture |-> shown, count |-> 1]

\* The limit restarts the count, as if the screen had been dealt with
Sighted_Forgetting(i, shown, late) ==
  IF Again(i, shown) /\ screens[i].count < Sightings
  THEN [screens[i] EXCEPT !.count = IF late \/ @ + 1 >= Sightings THEN Sightings ELSE @ + 1]
  ELSE First(shown)

\* _same_screen_timed_out counts the sightings of a picture, those between the
\* phases of a ladder included.  late: it was first seen longer ago than the
\* timeout, which is as good as the limit, and stays so.
Sighted(i, shown, late) ==
  IF Again(i, shown)
  THEN [screens[i] EXCEPT !.count = IF late \/ @ + 1 >= Sightings THEN Sightings ELSE @ + 1]
  ELSE First(shown)

Issue(i, shown, late) ==
  IF shown \notin Pictures THEN "sick"
  ELSE IF Sighted(i, shown, late).count = Sightings THEN "same_screen" ELSE "none"

\* _observe gets to the screen's history only when nothing else is wrong
Observe(i, shown, late) ==
  screens' = IF shown \in Pictures THEN [screens EXCEPT ![i] = Sighted(i, shown, late)]
                                   ELSE screens

----------------------------------------------------------------------------
(* monitor *)

\* With an open circuit monitor returns at once
Monitor(i) ==
  /\ \A j \in Instances : At(j, "idle")
  /\ calls < MaxCalls
  /\ ~Open(i)
  /\ calls' = calls + 1
  /\ Go(i, "first_look")
  /\ UNCHANGED <<tables, screens, reboot, legacy, reboots, faults>>

FirstLook(i) ==
  /\ At(i, "first_look")
  /\ \E shown \in Pictures \cup {"sick"}, late \in BOOLEAN :
       LET issue == Issue(i, shown, late) IN
       /\ Observe(i, shown, late)
       /\ watch' = [watch EXCEPT ![i] =
            IF issue = "none" THEN Resting ELSE Climbing(issue, shown)]
       /\ attempts' = IF issue = "none" THEN attempts
                      ELSE [attempts EXCEPT ![i] = <<>>]
  /\ UNCHANGED <<breaker, incidents, openings, reboot, legacy, counts>>

\* _run_phase: the emulator's answer, for restart_emulator that of both of its
\* calls together
RunPhase(i) ==
  /\ At(i, "phase")
  /\ \/ Go(i, "worked")
     \/ Go(i, "failed")
  /\ UNCHANGED <<tables, screens, reboot, legacy, counts>>

\* One phase too many
NextPhase_OneMore(i) ==
  IF watch[i].phase <= Len(Ladder)
  THEN watch' = [watch EXCEPT ![i].at = "phase", ![i].phase = @ + 1]
  ELSE Go(i, "incident")

\* The loop of _recover goes on, or has tried every phase
NextPhase(i) ==
  IF watch[i].phase < Len(Ladder)
  THEN watch' = [watch EXCEPT ![i].at = "phase", ![i].phase = @ + 1]
  ELSE Go(i, "incident")

\* _persist_attempt
SaveAttempt(i) ==
  /\ At(i, "worked") \/ At(i, "failed")
  /\ attempts' = [attempts EXCEPT ![i] = Append(@, Ladder[watch[i].phase])]
  /\ IF At(i, "worked") THEN Go(i, "look") ELSE NextPhase(i)
  /\ UNCHANGED <<breaker, incidents, openings, screens, reboot, legacy, counts>>

Look(i) ==
  /\ At(i, "look")
  /\ \E shown \in Pictures \cup {"sick"}, late \in BOOLEAN :
       /\ Observe(i, shown, late)
       /\ IF Issue(i, shown, late) = "none" THEN Go(i, "recovered") ELSE NextPhase(i)
  /\ UNCHANGED <<tables, reboot, legacy, counts>>

\* _open_incident
SaveIncident(i) ==
  /\ At(i, "incident")
  /\ incidents' = [incidents EXCEPT ![i] = @ + 1]
  /\ watch' = [watch EXCEPT ![i].at = "breaker", ![i].incident = incidents[i] + 1]
  /\ UNCHANGED <<breaker, attempts, openings, screens, reboot, legacy, counts>>

\* INSERT ... ON CONFLICT DO NOTHING: a closed breaker stays closed
OpenRow_InsertOnly(i, incident, by) ==
  /\ breaker' = [breaker EXCEPT ![i] =
       IF @ = NoRow THEN [status |-> "open", incident |-> incident, by |-> by] ELSE @]
  /\ openings' = [openings EXCEPT ![i] = IF breaker[i] = NoRow THEN @ + 1 ELSE @]

\* InstanceCircuitBreakerRepository.open
OpenRow(i, incident, by) ==
  /\ breaker' = [breaker EXCEPT ![i] = [status |-> "open", incident |-> incident, by |-> by]]
  /\ openings' = [openings EXCEPT ![i] = @ + 1]

OpenBreaker(i) ==
  /\ At(i, "breaker")
  /\ OpenRow(i, watch[i].incident, "watchdog")
  /\ Go(i, "exhausted")
  /\ UNCHANGED <<incidents, attempts, screens, reboot, legacy, counts>>

RecordExhausted(i) ==
  /\ At(i, "exhausted")
  /\ attempts' = [attempts EXCEPT ![i] = Append(@, "open_incident")]
  /\ Go(i, "given_up")
  /\ UNCHANGED <<breaker, incidents, openings, screens, reboot, legacy, counts>>

\* The last observation of monitor, which counts as a sighting too
FinalLook(i) ==
  /\ At(i, "recovered") \/ At(i, "given_up")
  /\ \E shown \in Pictures \cup {"sick"}, late \in BOOLEAN : Observe(i, shown, late)
  /\ watch' = [watch EXCEPT ![i] = Resting]
  /\ UNCHANGED <<tables, reboot, legacy, counts>>

\* An attempt that cannot be saved is only logged
CallFails_Logged(i) ==
  /\ faults < MaxFaults
  /\ watch[i].at \in {"worked", "failed"}
  /\ faults' = faults + 1
  /\ IF At(i, "worked") THEN Go(i, "look") ELSE NextPhase(i)
  /\ UNCHANGED <<tables, screens, reboot, legacy, calls, reboots>>

\* A repository raises: monitor is left where it is
CallFails(i) ==
  /\ faults < MaxFaults
  /\ watch[i].at \in {"worked", "failed", "incident", "breaker", "exhausted", "given_up", "recovered"}
  /\ faults' = faults + 1
  /\ watch' = [watch EXCEPT ![i] = Resting]
  /\ UNCHANGED <<tables, screens, reboot, legacy, calls, reboots>>

----------------------------------------------------------------------------
(* The other users of the tables *)

\* _open_terminal_incident of a failed game_reboot run: the incident ...
RebootFails(i) ==
  /\ reboots < MaxReboots /\ reboot[i] = 0
  /\ reboots' = reboots + 1
  /\ incidents' = [incidents EXCEPT ![i] = @ + 1]
  /\ reboot' = [reboot EXCEPT ![i] = incidents[i] + 1]
  /\ UNCHANGED <<breaker, attempts, openings, screens, watch, legacy, calls, faults>>

\* ... and the breaker
RebootOpens(i) ==
  /\ reboot[i] # 0
  /\ OpenRow(i, reboot[i], "reboot")
  /\ reboot' = [reboot EXCEPT ![i] = 0]
  /\ UNCHANGED <<incidents, attempts, screens, watch, legacy, counts>>

\* InstanceCircuitBreakerRepository.close: an operation without a caller yet
CloseBreaker(i) ==
  /\ Open(i)
  /\ breaker' = [breaker EXCEPT ![i].status = "closed"]
  /\ UNCHANGED <<incidents, attempts, openings, screens, watch, reboot, legacy, counts>>

\* A running emulator is let through before its breaker is looked at
MayDispatch_RunningFirst(i) == TRUE

\* _can_dispatch_task: the circuit breaker
MayDispatch(i) == ~Open(i)

\* dispatch_due_tasks lets the task through ...
LetThrough(i) ==
  /\ task[i] = "pending"
  /\ \A j \in Instances : task[j] # "let_through"
  /\ MayDispatch(i)
  /\ task' = [task EXCEPT ![i] = "let_through"]
  /\ seen' = [seen EXCEPT ![i] = openings[i]]
  /\ UNCHANGED <<tables, screens, watch, reboot, counts>>

\* ... and marks and submits it, whatever has become of the breaker
Submit(i) ==
  /\ task[i] = "let_through"
  /\ task' = [task EXCEPT ![i] = "submitted"]
  /\ UNCHANGED <<tables, screens, watch, reboot, seen, counts>>

\* The task is over and another one of the instance is waiting
TaskEnds(i) ==
  /\ task[i] = "submitted"
  /\ task' = [task EXCEPT ![i] = "pending"]
  /\ seen' = [seen EXCEPT ![i] = 0]
  /\ UNCHANGED <<tables, screens, watch, reboot, counts>>

\* What was in memory is lost; the rows of tasks under way become pending
Crash ==
  /\ faults < MaxFaults
  /\ faults' = faults + 1
  /\ screens' = [i \in Instances |-> Unseen]
  /\ watch' = [i \in Instances |-> Resting]
  /\ reboot' = [i \in Instances |-> 0]
  /\ task' = [i \in Instances |-> "pending"]
  /\ seen' = [i \in Instances |-> 0]
  /\ UNCHANGED <<tables, calls, reboots>>

----------------------------------------------------------------------------
Watch(i) ==
  \/ FirstLook(i) \/ RunPhase(i) \/ SaveAttempt(i) \/ Look(i)
  \/ SaveIncident(i) \/ OpenBreaker(i) \/ RecordExhausted(i) \/ FinalLook(i)

Next ==
  \/ \E i \in Instances :
       \/ Monitor(i) \/ Watch(i) \/ CallFails(i)
       \/ RebootFails(i) \/ RebootOpens(i) \/ CloseBreaker(i)
       \/ LetThrough(i) \/ Submit(i) \/ TaskEnds(i)
  \/ Crash

Spec == Init /\ [][Next]_vars

----------------------------------------------------------------------------
(* Properties *)

Places == {"idle", "first_look", "phase", "worked", "failed", "look", "recovered",
           "incident", "breaker", "exhausted", "given_up"}
Phases == {"reconnect_adb", "send_back", "normalize_home", "relaunch_game", "restart_emulator"}

BreakerRows == [status : {"none", "open", "closed"}, incident : Nat,
                by : {"none", "watchdog", "reboot"}]
AttemptRows == Seq(Phases \cup {"open_incident"})
Histories == [picture : Pictures \cup {"none"}, count : 0..Sightings]
Calls == [at : Places, issue : {"none", "sick", "same_screen"},
          picture : Pictures \cup {"sick", "none"}, phase : 0..Len(Ladder), incident : Nat]

\* Every variable keeps its type, and a call that climbs is at a phase of the
\* ladder (RecoveryWatchdog and its tables).
TypeOK ==
  /\ breaker \in [Instances -> BreakerRows]
  /\ incidents \in [Instances -> Nat]
  /\ attempts \in [Instances -> AttemptRows]
  /\ screens \in [Instances -> Histories]
  /\ watch \in [Instances -> Calls]
  /\ \A i \in Instances : watch[i].at \in {"phase", "worked", "failed", "look"} =>
       watch[i].phase # 0
  /\ reboot \in [Instances -> Nat]
  /\ task \in [Instances -> {"pending", "let_through", "submitted"}]
  /\ seen \in [Instances -> Nat] /\ openings \in [Instances -> Nat]
  /\ calls \in Nat /\ reboots \in Nat /\ faults \in Nat

\* An instance is cut off only after the whole ladder: a breaker the watchdog
\* opened refers to a saved incident, and each of the five phases has a row, in
\* the order of their force, whatever calls failed before (_recover).
BreakersAreEarned ==
  \A i \in Instances : breaker[i].by = "watchdog" /\ Open(i) =>
    /\ breaker[i].incident \in 1..incidents[i]
    /\ attempts[i] \in {Ladder, Append(Ladder, "open_incident")}

\* An incident is followed by the opening of the breaker, unless a call failed
\* or the process died between the two: there are never more incidents than
\* openings, faults and callers between the two calls (_recover,
\* _open_terminal_incident).
IncidentsCutOff ==
  \A i \in Instances :
    incidents[i] <= openings[i] + 2 * faults + (IF At(i, "breaker") THEN 1 ELSE 0)
                                            + (IF reboot[i] # 0 THEN 1 ELSE 0)

\* A ladder climbed for an unchanging screen is called a recovery only when the
\* screen has changed: a phase that brings the same picture back is not enough
\* (_same_screen_timed_out).
StuckMustChange ==
  \A i \in Instances :
    At(i, "recovered") /\ watch[i].issue = "same_screen" =>
      screens[i].picture # watch[i].picture

\* Tasks of an instance that is cut off are not started: one that is let through
\* or submitted while the breaker is open was let through before the breaker was
\* opened (Scheduler._can_dispatch_task).
TasksAreHeld ==
  \A i \in Instances :
    task[i] # "pending" /\ Open(i) => openings[i] > seen[i]
=============================================================================
