----------------------- MODULE SchedulePlannerProofs ------------------------
(***************************************************************************)
(* The planner for any number of schedules, settings, intervals and        *)
(* threads. That occurrences are real is not inductive: a thread writes    *)
(* back the row it listed and a save the one its writer read, so what is   *)
(* listed and what was read have to be real as well, and the clock of a    *)
(* thread not ahead. The arithmetic of the grid comes first; that what was *)
(* dealt with is past, with one thread, comes last.                        *)
(***************************************************************************)
EXTENDS SchedulePlanner, TLAPS

----------------------------------------------------------------------------
(* The grid of occurrences *)

\* Integer division by a positive number.
LEMMA Division ==
  ASSUME NEW a \in Nat, NEW b \in Nat \ {0}
  PROVE  /\ a \div b \in Nat
         /\ (a \div b) * b <= a /\ a < (a \div b) * b + b
  OBVIOUS

\* A product of natural numbers is one: the solver does not see it by itself.
LEMMA Product ==
  ASSUME NEW a \in Nat, NEW b \in Nat
  PROVE  a * b \in Nat
  OBVIOUS

\* A number without remainder is a multiple.
LEMMA Multiple ==
  ASSUME NEW a \in Nat, NEW b \in Nat \ {0}
  PROVE  a % b = 0 <=> \E k \in Nat : a = k * b
  <1>1. a = (a \div b) * b + (a % b) OBVIOUS
  <1>2. a \div b \in Nat BY Division
  <1>3. ASSUME NEW k \in Nat, a = k * b PROVE a % b = 0
    BY <1>3
  <1>4. ASSUME a % b = 0 PROVE a = (a \div b) * b BY <1>1, <1>2, <1>4
  <1> QED BY <1>2, <1>3, <1>4

\* Settings start from and ask for times, and never ask for Never.
LEMMA WantedTimes ==
  /\ Wanted \subseteq Nat
  /\ \A e \in Editions : StartAt[e] \in Wanted /\ (AskedAt[e] # Never => AskedAt[e] \in Wanted)
  BY SchedulePlannerAssumption DEF Wanted, Never

\* A point of the grid is a number of units after a wanted time.
LEMMA GridPoint ==
  ASSUME NEW o \in Int
  PROVE  OnGrid(o) <=> \E from \in Wanted, k \in Nat : o = from + k * Unit
  <1>1. Unit \in Nat \ {0} BY SchedulePlannerAssumption
  <1>2. ASSUME NEW from \in Wanted, NEW k \in Nat, o = from + k * Unit PROVE OnGrid(o)
    <2>1. k * Unit \in Nat /\ from \in Nat BY <1>1, Product, WantedTimes
    <2>2. o - from = k * Unit BY <1>2, <2>1
    <2>3. (o - from) % Unit = 0 BY <1>1, <2>1, <2>2, Multiple
    <2> QED BY <1>2, <2>1, <2>3 DEF OnGrid
  <1>3. ASSUME NEW from \in Wanted, o >= from, (o - from) % Unit = 0
        PROVE  \E k \in Nat : o = from + k * Unit
    <2>1. o - from \in Nat /\ from \in Nat BY <1>3, WantedTimes
    <2>2. PICK k \in Nat : o - from = k * Unit BY <1>1, <1>3, <2>1, Multiple
    <2>3. k * Unit \in Nat BY <1>1, Product
    <2> QED BY <2>1, <2>2, <2>3
  <1> QED BY <1>2, <1>3 DEF OnGrid

\* Any number of intervals after a point of the grid is another one.
LEMMA GridSteps ==
  ASSUME NEW o \in Nat, OnGrid(o), NEW i \in Intervals, NEW m \in Nat
  PROVE  o + m * i \in Nat /\ OnGrid(o + m * i)
  <1>1. Unit \in Nat \ {0} /\ i \in Nat /\ i % Unit = 0 BY SchedulePlannerAssumption
  <1>2. PICK c \in Nat : i = c * Unit BY <1>1, Multiple
  <1>3. PICK from \in Wanted, k \in Nat : o = from + k * Unit BY GridPoint
  <1>4. from \in Nat BY WantedTimes
  <1>5. m * i \in Nat /\ m * c \in Nat BY <1>1, Product
  <1>6. m * i = (m * c) * Unit BY <1>1, <1>2
  <1>7. k * Unit \in Nat /\ (m * c) * Unit \in Nat BY <1>1, <1>5, Product
  <1> DEFINE n == m * c
  <1>8. n \in Nat /\ n * Unit \in Nat /\ m * i = n * Unit BY <1>5, <1>6, <1>7
  <1> HIDE DEF n
  <1>9. (k + n) * Unit = k * Unit + n * Unit BY <1>1, <1>8
  <1>10. o + m * i = from + (k + n) * Unit BY <1>3, <1>4, <1>7, <1>8, <1>9
  <1>11. o + m * i \in Nat /\ k + n \in Nat BY <1>5, <1>8
  <1> QED BY <1>10, <1>11, GridPoint

\* A wanted time is on its own grid.
LEMMA WantedOnGrid == \A from \in Wanted : OnGrid(from)
  <1> SUFFICES ASSUME NEW from \in Wanted PROVE OnGrid(from) OBVIOUS
  <1>1. from \in Nat /\ Unit \in Nat BY WantedTimes, SchedulePlannerAssumption
  <1>2. from = from + 0 * Unit BY <1>1
  <1> QED BY <1>1, <1>2, GridPoint

\* _advance_after returns an occurrence of value's grid, and a later one than t.
LEMMA AdvanceAfterFacts ==
  ASSUME NEW i \in Intervals \ {0}, NEW value \in Nat, NEW t \in Nat, OnGrid(value)
  PROVE  AdvanceAfter(i, value, t) \in Nat /\ AdvanceAfter(i, value, t) > t
         /\ OnGrid(AdvanceAfter(i, value, t))
  <1> DEFINE next == value + i
  <1>1. i \in Nat \ {0} BY SchedulePlannerAssumption
  <1>2. PICK m \in Nat : AdvanceAfter(i, value, t) = value + m * i /\ value + m * i > t
    <2>1. CASE next > t
      <3>1. 1 * i = i BY <1>1
      <3> QED BY <1>1, <2>1, <3>1 DEF AdvanceAfter
    <2>2. CASE ~(next > t)
      <3>1. t - next \in Nat BY <1>1, <2>2
      <3> DEFINE q == (t - next) \div i
      <3>2. q \in Nat /\ t - next < q * i + i BY <1>1, <3>1, Division
      <3>3. AdvanceAfter(i, value, t) = next + (q + 1) * i BY <2>2 DEF AdvanceAfter
      <3> HIDE DEF q
      <3>4. q * i \in Nat BY <1>1, <3>2, Product
      <3>5. (q + 1) * i = q * i + i /\ (q + 2) * i = q * i + i + i BY <1>1, <3>2
      <3>6. next + (q + 1) * i = value + (q + 2) * i BY <1>1, <3>4, <3>5
      <3>7. next + (q + 1) * i > t BY <1>1, <3>2, <3>4, <3>5
      <3> QED BY <3>2, <3>3, <3>6, <3>7
    <2> QED BY <2>1, <2>2
  <1> QED BY <1>2, GridSteps

\* The last occurrence before t counted from the start, and the one after it.
LEMMA LastDueFacts ==
  ASSUME NEW row \in Rows, row.interval # 0, NEW t \in Nat, StartAt[row.edition] <= t
  PROVE  /\ LastDue(row, t) \in Nat /\ LastDue(row, t) <= t /\ LastDue(row, t) + row.interval > t
         /\ OnGrid(LastDue(row, t)) /\ OnGrid(LastDue(row, t) + row.interval)
  <1> DEFINE i == row.interval
             start == StartAt[row.edition]
  <1>1. i \in Intervals /\ i \in Nat \ {0} /\ start \in Nat /\ OnGrid(start)
    BY SchedulePlannerAssumption, WantedTimes, WantedOnGrid DEF Rows
  <1>0. t - start \in Nat BY <1>1
  <1> DEFINE q == (t - start) \div i
  <1>3. LastDue(row, t) = start + q * i BY DEF LastDue
  <1>4. start <= t OBVIOUS
  <1>5. SUFFICES /\ start + q * i \in Nat /\ start + q * i <= t /\ (start + q * i) + i > t
                 /\ OnGrid(start + q * i) /\ OnGrid((start + q * i) + i)
    BY <1>3
  <1> HIDE DEF i, start
  <1>2. q \in Nat /\ q * i <= t - start /\ t - start < q * i + i BY <1>1, <1>0, Division
  <1> HIDE DEF q
  <1>6. q * i \in Nat BY <1>1, <1>2, Product
  <1>7. start + q * i \in Nat /\ OnGrid(start + q * i) BY <1>1, <1>2, GridSteps
  <1>8. (start + q * i) + 1 * i = (start + q * i) + i BY <1>1, <1>6
  <1>9. OnGrid((start + q * i) + i) BY <1>1, <1>7, <1>8, GridSteps
  <1> QED BY <1>1, <1>2, <1>4, <1>6, <1>7, <1>9

\* _occurrence_timing: what is due is an occurrence that is not early, and what is
\* next is an occurrence later than t, and not before the one that was next.
LEMMA TimingFacts ==
  ASSUME NEW row \in Rows, ~Refused(row), NEW t \in Nat,
         row.next # Never => OnGrid(row.next)
  PROVE  /\ Timing(row, t).due # Never =>
              Timing(row, t).due \in Nat /\ Timing(row, t).due <= t /\ OnGrid(Timing(row, t).due)
         /\ Timing(row, t).next \in Nat /\ Timing(row, t).next > t
         /\ OnGrid(Timing(row, t).next)
         /\ row.next # Never => Timing(row, t).next >= row.next
  <1> DEFINE next == NextOf(row)
             start == StartAt[row.edition]
  <1>1. row.edition \in Editions /\ row.interval \in Intervals \ {0} /\ row.next \in NextTimes
    BY DEF Rows, Refused
  <1>2. row.interval \in Nat \ {0} /\ start \in Nat /\ start \in Wanted /\ OnGrid(start)
    BY <1>1, SchedulePlannerAssumption, WantedTimes, WantedOnGrid
  <1>3. next # Never => next \in Nat /\ OnGrid(next)
    BY <1>1, WantedTimes, WantedOnGrid DEF NextOf, NextTimes
  <1>4. row.next # Never => next = row.next BY DEF NextOf
  <1>5. Timing(row, t) =
          CASE next # Never /\ next > t  -> [due |-> Never, next |-> next]
            [] next # Never /\ next <= t ->
                 [due |-> next, next |-> AdvanceAfter(row.interval, next, t)]
            [] next = Never /\ start > t  -> [due |-> Never, next |-> start]
            [] next = Never /\ start <= t ->
                 [due |-> LastDue(row, t), next |-> LastDue(row, t) + row.interval]
    BY DEF Timing
  <1>6. start = StartAt[row.edition] OBVIOUS
  <1> HIDE DEF next, start
  <1>7. CASE next # Never /\ next > t
    <2>1. Timing(row, t) = [due |-> Never, next |-> next] BY <1>3, <1>5, <1>7
    <2> QED BY <1>3, <1>4, <1>7, <2>1
  <1>8. CASE next # Never /\ ~(next > t)
    <2>1. Timing(row, t) = [due |-> next, next |-> AdvanceAfter(row.interval, next, t)]
      BY <1>3, <1>5, <1>8
    <2> DEFINE later == AdvanceAfter(row.interval, next, t)
    <2>2. later \in Nat /\ later > t /\ OnGrid(later) BY <1>1, <1>3, <1>8, AdvanceAfterFacts
    <2>3. Timing(row, t).due = next /\ Timing(row, t).next = later BY <2>1
    <2> HIDE DEF later
    <2>4. next \in Nat /\ next <= t /\ OnGrid(next) BY <1>3, <1>8
    <2>5. row.next # Never => later >= row.next BY <1>4, <2>2, <2>4
    <2> QED BY <2>2, <2>3, <2>4, <2>5
  <1>9. CASE next = Never /\ start > t
    <2>1. Timing(row, t) = [due |-> Never, next |-> start] BY <1>2, <1>5, <1>9
    <2> QED BY <1>2, <1>4, <1>9, <2>1
  <1>10. CASE next = Never /\ ~(start > t)
    <2>1. Timing(row, t) = [due |-> LastDue(row, t), next |-> LastDue(row, t) + row.interval]
      BY <1>2, <1>5, <1>10
    <2>2. start <= t BY <1>2, <1>10
    <2>3. LastDue(row, t) \in Nat /\ LastDue(row, t) <= t /\ LastDue(row, t) + row.interval > t
          /\ OnGrid(LastDue(row, t)) /\ OnGrid(LastDue(row, t) + row.interval)
      BY <1>1, <1>6, <2>2, LastDueFacts
    <2> QED BY <1>2, <1>4, <1>10, <2>1, <2>3
  <1> QED BY <1>7, <1>8, <1>9, <1>10

----------------------------------------------------------------------------
(* The inductive invariant *)

\* Whatever a thread listed is a row the schedule once had.
ListedRowsAreReal ==
  /\ todo = [t \in Evaluators |-> todo[t]]
  /\ \A t \in Evaluators : \A s \in DOMAIN todo[t] :
       todo[t][s].next # Never => OnGrid(todo[t][s].next)

\* What somebody may have read is a state the schedule once had.
CopiesAreReal == \A s \in Schedules : \A next \in copies[s] : next # Never => OnGrid(next)

\* No thread works with a time to come.
ClocksAreRead == \A t \in Evaluators : at[t] <= now

PlannerInv == TypeOK /\ ListedRowsAreReal /\ CopiesAreReal /\ ClocksAreRead /\ OccurrencesAreReal

\* The invariant holds before anything is evaluated.
LEMMA PlannerInitially == Init => PlannerInv
  <1> SUFFICES ASSUME Init PROVE PlannerInv OBVIOUS
  <1>1. \A t \in Evaluators : DOMAIN todo[t] = {} BY DEF Init
  <1>2. 0 \in Times BY SchedulePlannerAssumption DEF Times
  <1>3. \A s \in Schedules : config[s].next = Never BY DEF Init
  <1>4. config \in [Schedules -> Rows] /\ copies \in [Schedules -> SUBSET NextTimes]
    BY DEF Init, Rows, NextTimes
  <1>5. TypeOK BY <1>1, <1>2, <1>4, SchedulePlannerAssumption DEF Init, TypeOK
  <1>6. ListedRowsAreReal BY <1>1 DEF Init, ListedRowsAreReal
  <1>9. CopiesAreReal BY DEF Init, CopiesAreReal
  <1>7. ClocksAreRead BY DEF Init, ClocksAreRead
  <1>8. OccurrencesAreReal BY <1>3 DEF Init, OccurrencesAreReal, Times
  <1> QED BY <1>5, <1>6, <1>7, <1>8, <1>9 DEF PlannerInv

\* What one schedule's evaluation computes is of the right kind.
LEMMA EvaluationFacts ==
  ASSUME PlannerInv, NEW t \in Evaluators, NEW s \in Schedules, s \in DOMAIN todo[t],
         ~Refused(todo[t][s])
  PROVE  LET row == todo[t][s]
             timing == Timing(row, at[t])
         IN /\ row \in Rows
            /\ timing.due # Never => timing.due \in Times /\ timing.due <= now
                                     /\ timing.due <= at[t] /\ OnGrid(timing.due)
            /\ timing.next \in Nat /\ timing.next > at[t] /\ OnGrid(timing.next)
            /\ row.next # Never => timing.next >= row.next
  <1> DEFINE row == todo[t][s]
             timing == Timing(row, at[t])
  <1>1. row \in Rows BY DEF PlannerInv, TypeOK
  <1>2. ~Refused(row) OBVIOUS
  <1>3. row.next # Never => OnGrid(row.next) BY DEF PlannerInv, ListedRowsAreReal
  <1>4. at[t] \in Nat /\ at[t] <= now /\ now \in Nat /\ now <= MaxTime /\ MaxTime \in Nat
    BY SchedulePlannerAssumption DEF PlannerInv, TypeOK, ClocksAreRead, Times
  <1> HIDE DEF row
  <1>5. /\ timing.due # Never => timing.due \in Nat /\ timing.due <= at[t] /\ OnGrid(timing.due)
        /\ timing.next \in Nat /\ timing.next > at[t] /\ OnGrid(timing.next)
        /\ row.next # Never => timing.next >= row.next
    BY <1>1, <1>2, <1>3, <1>4, TimingFacts
  <1> HIDE DEF timing
  <1>6. timing.due # Never => timing.due \in Times /\ timing.due <= now BY <1>4, <1>5 DEF Times
  <1> QED BY <1>1, <1>5, <1>6 DEF timing, row

\* A step that only drops listed rows, and leaves rows, jobs and the clock alone,
\* keeps the invariant.
LEMMA DroppingRows ==
  ASSUME PlannerInv, UNCHANGED <<callers, config, copies, putBack, usable, jobs, now, edits>>,
         pc' \in [Evaluators -> {"idle", "list", "evaluate"}],
         at' \in [Evaluators -> Times], \A t \in Evaluators : at'[t] <= now,
         todo' = [t \in Evaluators |-> todo'[t]],
         \A t \in Evaluators :
            /\ DOMAIN todo'[t] \subseteq DOMAIN todo[t]
            /\ todo'[t] = [s \in DOMAIN todo'[t] |-> todo[t][s]]
  PROVE  PlannerInv'
  <1>1. TypeOK'
    <2>1. ASSUME NEW t \in Evaluators
          PROVE  DOMAIN todo'[t] \subseteq Schedules /\ todo'[t] \in [DOMAIN todo'[t] -> Rows]
      <3>1. DOMAIN todo[t] \subseteq Schedules /\ todo[t] \in [DOMAIN todo[t] -> Rows]
        BY DEF PlannerInv, TypeOK
      <3> QED BY <3>1
    <2> QED BY <2>1 DEF PlannerInv, TypeOK
  <1>2. ListedRowsAreReal'
    <2>1. ASSUME NEW t \in Evaluators, NEW s \in DOMAIN todo'[t]
          PROVE  todo'[t][s].next # Never => OnGrid(todo'[t][s].next)
      <3>1. s \in DOMAIN todo[t] /\ todo'[t][s] = todo[t][s] OBVIOUS
      <3> QED BY <3>1 DEF PlannerInv, ListedRowsAreReal
    <2> QED BY <2>1 DEF ListedRowsAreReal, OnGrid
  <1>3. ClocksAreRead' BY DEF PlannerInv, ClocksAreRead
  <1>4. OccurrencesAreReal' BY DEF PlannerInv, OccurrencesAreReal, OnGrid
  <1>5. CopiesAreReal' BY DEF PlannerInv, CopiesAreReal, OnGrid
  <1> QED BY <1>1, <1>2, <1>3, <1>4, <1>5 DEF PlannerInv

\* Every step keeps the invariant.
LEMMA PlannerStep == PlannerInv /\ [Next]_vars => PlannerInv'
  <1> SUFFICES ASSUME PlannerInv, [Next]_vars PROVE PlannerInv' OBVIOUS
  <1> USE DEF PlannerInv
  <1>0. now \in Nat /\ now <= MaxTime /\ MaxTime \in Nat /\ Times = 0..MaxTime
    BY SchedulePlannerAssumption DEF TypeOK, Times
  <1>1. CASE Tick
    <2>1. now' \in Times /\ now' = now + 1 BY <1>0, <1>1 DEF Tick
    <2>2. TypeOK' BY <1>1, <2>1 DEF Tick, TypeOK
    <2>3. ListedRowsAreReal' BY <1>1 DEF Tick, ListedRowsAreReal, OnGrid
    <2>4. ClocksAreRead' BY <1>0, <1>1, <2>1 DEF Tick, TypeOK, ClocksAreRead
    <2>5. OccurrencesAreReal' BY <1>0, <1>1, <2>1 DEF Tick, OccurrencesAreReal, OnGrid
    <2>6. CopiesAreReal' BY <1>1 DEF Tick, CopiesAreReal, OnGrid
    <2> QED BY <2>2, <2>3, <2>4, <2>5, <2>6
  <1>2. ASSUME NEW s \in Schedules, SaveSchedule(s) PROVE PlannerInv'
    <2>1. PICK edition \in Editions, enabled \in BOOLEAN, interval \in Intervals, next \in copies[s] :
            /\ config' = [config EXCEPT ![s] = [edition |-> edition, enabled |-> enabled,
                                               interval |-> interval, next |-> next]]
            /\ putBack' = IF next = config[s].next THEN putBack ELSE putBack \cup {s}
      BY <1>2 DEF SaveSchedule
    <2>2. config \in [Schedules -> Rows] BY DEF TypeOK
    <2>3. next \in NextTimes /\ (next # Never => OnGrid(next)) BY DEF TypeOK, CopiesAreReal
    <2>4. config' \in [Schedules -> Rows]
          /\ \A r \in Schedules : config'[r].next \in {config[r].next, next}
      <3> DEFINE saved == [edition |-> edition, enabled |-> enabled,
                           interval |-> interval, next |-> next]
      <3>1. saved \in Rows /\ saved.next = next BY <2>3 DEF Rows
      <3>2. config' = [config EXCEPT ![s] = saved] BY <2>1
      <3> HIDE DEF saved
      <3> QED BY <2>2, <3>1, <3>2
    <2>5. edits' \in 0..MaxEdits /\ putBack' \subseteq Schedules
      BY <1>2, <2>1, SchedulePlannerAssumption DEF SaveSchedule, TypeOK
    <2>6. TypeOK' BY <1>2, <2>4, <2>5 DEF SaveSchedule, TypeOK
    <2>7. CopiesAreReal' BY <1>2 DEF SaveSchedule, CopiesAreReal, OnGrid
    <2>8. ListedRowsAreReal' BY <1>2 DEF SaveSchedule, ListedRowsAreReal, OnGrid
    <2>9. ClocksAreRead' BY <1>2 DEF SaveSchedule, ClocksAreRead
    <2>10. OccurrencesAreReal'
      <3>1. ASSUME NEW r \in Schedules, config'[r].next # Never PROVE OnGrid(config'[r].next)
        BY <2>3, <2>4, <3>1 DEF OccurrencesAreReal
      <3>2. UNCHANGED <<jobs, now>> BY <1>2 DEF SaveSchedule
      <3> QED BY <3>1, <3>2 DEF OccurrencesAreReal, OnGrid
    <2> QED BY <2>6, <2>7, <2>8, <2>9, <2>10
  <1>3. ASSUME NEW s \in Schedules, ChangeWorkflow(s) PROVE PlannerInv'
    <2>1. edits' \in 0..MaxEdits BY <1>3, SchedulePlannerAssumption DEF ChangeWorkflow, TypeOK
    <2>2. usable' \in [Schedules -> BOOLEAN]
      <3>1. usable \in [Schedules -> BOOLEAN] /\ (~usable[s]) \in BOOLEAN BY DEF TypeOK
      <3> QED BY <1>3, <3>1, Zenon DEF ChangeWorkflow
    <2>3. TypeOK' BY <1>3, <2>1, <2>2 DEF ChangeWorkflow, TypeOK
    <2>4. ListedRowsAreReal' BY <1>3 DEF ChangeWorkflow, ListedRowsAreReal, OnGrid
    <2>5. ClocksAreRead' BY <1>3 DEF ChangeWorkflow, ClocksAreRead
    <2>6. OccurrencesAreReal' BY <1>3 DEF ChangeWorkflow, OccurrencesAreReal, OnGrid
    <2>7. CopiesAreReal' BY <1>3 DEF ChangeWorkflow, CopiesAreReal, OnGrid
    <2> QED BY <2>3, <2>4, <2>5, <2>6, <2>7
  <1>4. ASSUME NEW t \in Evaluators, ReadClock(t) PROVE PlannerInv'
    <2>1. pc' \in [Evaluators -> {"idle", "list", "evaluate"}] /\ at' \in [Evaluators -> Times]
      BY <1>4 DEF ReadClock, TypeOK
    <2>2. \A u \in Evaluators : at'[u] <= now
      BY <1>0, <1>4 DEF ReadClock, TypeOK, ClocksAreRead
    <2>3. \A u \in Evaluators : todo[u] = [s \in DOMAIN todo[u] |-> todo[u][s]] BY DEF TypeOK
    <2>4. UNCHANGED <<callers, config, copies, putBack, usable, jobs, now, edits, todo>> BY <1>4 DEF ReadClock
    <2>5. todo' = [u \in Evaluators |-> todo'[u]] BY <2>4 DEF ListedRowsAreReal
    <2> QED BY <2>1, <2>2, <2>3, <2>4, <2>5, DroppingRows
  <1>5. ASSUME NEW t \in Evaluators, ListSchedules(t) PROVE PlannerInv'
    <2> DEFINE listed == [s \in {r \in Schedules : config[r].enabled} |-> config[s]]
    <2>1. todo' = [todo EXCEPT ![t] = listed]
          /\ UNCHANGED <<callers, config, copies, putBack, usable, jobs, now, at, edits>>
      BY <1>5 DEF ListSchedules
    <2>2. DOMAIN listed \subseteq Schedules /\ listed \in [DOMAIN listed -> Rows]
          /\ \A s \in DOMAIN listed : listed[s] = config[s]
      BY DEF TypeOK
    <2> HIDE DEF listed
    <2>3. todo = [u \in Evaluators |-> todo[u]] BY DEF ListedRowsAreReal
    <2>4. todo' = [u \in Evaluators |-> todo'[u]]
          /\ \A u \in Evaluators : todo'[u] = IF u = t THEN listed ELSE todo[u]
      BY <2>1, <2>3
    <2>5. pc' \in [Evaluators -> {"idle", "list", "evaluate"}] BY <1>5 DEF ListSchedules, TypeOK
    <2>6. TypeOK' BY <2>1, <2>2, <2>4, <2>5 DEF TypeOK
    <2>7. ListedRowsAreReal'
      BY <2>1, <2>2, <2>4 DEF ListedRowsAreReal, OccurrencesAreReal, OnGrid
    <2>8. ClocksAreRead' BY <2>1 DEF ClocksAreRead
    <2>9. OccurrencesAreReal' BY <2>1 DEF OccurrencesAreReal, OnGrid
    <2>10. CopiesAreReal' BY <2>1 DEF CopiesAreReal, OnGrid
    <2> QED BY <2>6, <2>7, <2>8, <2>9, <2>10
  <1>6. ASSUME NEW t \in Evaluators, NEW s \in Schedules, EvaluateSchedule(t, s) PROVE PlannerInv'
    <2> DEFINE row == todo[t][s]
               timing == Timing(row, at[t])
    <2>1. s \in DOMAIN todo[t] /\ Evaluated(t, s)
          /\ UNCHANGED <<callers, putBack, usable, now, pc, at, edits>>
      BY <1>6 DEF EvaluateSchedule
    <2>2. \/ UNCHANGED <<config, copies, jobs>>
          \/ /\ ~Refused(row)
             /\ Persist(t, s, timing.next)
             /\ \/ jobs' = jobs
                \/ /\ timing.due # Never
                   /\ jobs' = [jobs EXCEPT ![s][timing.due] = row.edition]
      BY <1>6 DEF EvaluateSchedule
    <2>4. todo' = [u \in Evaluators |-> todo'[u]]
          /\ \A u \in Evaluators : DOMAIN todo'[u] \subseteq DOMAIN todo[u]
                /\ todo'[u] = [r \in DOMAIN todo'[u] |-> todo[u][r]]
      <3>1. todo = [u \in Evaluators |-> todo[u]] BY DEF ListedRowsAreReal
      <3>2. \A u \in Evaluators : todo[u] = [r \in DOMAIN todo[u] |-> todo[u][r]] BY DEF TypeOK
      <3>3. todo' = [todo EXCEPT ![t] = [r \in DOMAIN todo[t] \ {s} |-> todo[t][r]]]
        BY <2>1 DEF Evaluated
      <3>4. /\ todo'[t] = [r \in DOMAIN todo[t] \ {s} |-> todo[t][r]]
            /\ \A u \in Evaluators \ {t} : todo'[u] = todo[u]
            /\ todo' = [u \in Evaluators |-> todo'[u]]
        BY <3>1, <3>3
      <3>5. ASSUME NEW u \in Evaluators
            PROVE  DOMAIN todo'[u] \subseteq DOMAIN todo[u]
                   /\ todo'[u] = [r \in DOMAIN todo'[u] |-> todo[u][r]]
        <4>1. CASE u = t BY <3>4, <4>1
        <4>2. CASE u # t BY <3>2, <3>4, <4>2
        <4> QED BY <4>1, <4>2
      <3> QED BY <3>4, <3>5
    <2>5. ListedRowsAreReal'
      <3>1. ASSUME NEW u \in Evaluators, NEW r \in DOMAIN todo'[u]
            PROVE  todo'[u][r].next # Never => OnGrid(todo'[u][r].next)
        BY <2>4 DEF ListedRowsAreReal
      <3> QED BY <2>4, <3>1 DEF ListedRowsAreReal, OnGrid
    <2>6. ClocksAreRead' BY <2>1 DEF ClocksAreRead
    <2>7. ASSUME NEW u \in Evaluators
          PROVE  DOMAIN todo'[u] \subseteq Schedules /\ todo'[u] \in [DOMAIN todo'[u] -> Rows]
      BY <2>4 DEF TypeOK
    <2>8. CASE UNCHANGED <<config, copies, jobs>>
      <3>1. TypeOK' BY <2>1, <2>7, <2>8 DEF TypeOK
      <3>2. CopiesAreReal' /\ OccurrencesAreReal'
        BY <2>1, <2>8 DEF CopiesAreReal, OccurrencesAreReal, OnGrid
      <3> QED BY <2>5, <2>6, <3>1, <3>2
    <2>9. CASE /\ ~Refused(row)
               /\ Persist(t, s, timing.next)
               /\ \/ jobs' = jobs
                  \/ /\ timing.due # Never
                     /\ jobs' = [jobs EXCEPT ![s][timing.due] = row.edition]
      <3>1. /\ row \in Rows
            /\ timing.due # Never => timing.due \in Times /\ timing.due <= now /\ OnGrid(timing.due)
            /\ timing.next \in Nat /\ timing.next > at[t] /\ OnGrid(timing.next)
        BY <2>1, <2>9, EvaluationFacts
      <3> DEFINE persisted == [config[s] EXCEPT !.edition = row.edition, !.next = timing.next]
      <3>2. config' = [config EXCEPT ![s] = persisted]
            /\ copies' = [copies EXCEPT ![s] = copies[s] \cup {timing.next}]
        BY <2>9 DEF Persist
      <3> HIDE DEF timing, row
      <3>3. config \in [Schedules -> Rows] /\ config[s] \in Rows BY DEF TypeOK
      <3>4. persisted \in Rows /\ persisted.next = timing.next
        <4>1. row.edition \in Editions /\ timing.next \in NextTimes BY <3>1 DEF Rows, NextTimes
        <4> QED BY <3>3, <4>1 DEF Rows
      <3> HIDE DEF persisted
      <3>5. config' \in [Schedules -> Rows]
            /\ \A r \in Schedules : \/ config'[r].next = config[r].next
                                    \/ r = s /\ config'[r].next = timing.next
        BY <3>2, <3>3, <3>4
      <3>6. copies' \in [Schedules -> SUBSET NextTimes]
            /\ \A r \in Schedules : copies'[r] \subseteq copies[r] \cup {timing.next}
        BY <3>1, <3>2 DEF TypeOK, NextTimes
      <3>7. jobs \in [Schedules -> [Times -> Editions \cup {NoJob}]] BY DEF TypeOK
      <3>8. row.edition \in Editions BY <3>1 DEF Rows
      <3>9. jobs' \in [Schedules -> [Times -> Editions \cup {NoJob}]]
            /\ \A r \in Schedules, o \in Times :
                 jobs'[r][o] = jobs[r][o] \/ (r = s /\ o = timing.due /\ timing.due # Never)
        BY <2>9, <3>1, <3>7, <3>8
      <3>10. TypeOK' BY <2>1, <2>7, <3>5, <3>6, <3>9 DEF TypeOK
      <3>11. CopiesAreReal'
        <4>1. ASSUME NEW r \in Schedules, NEW next \in copies'[r], next # Never PROVE OnGrid(next)
          BY <3>1, <3>6, <4>1 DEF CopiesAreReal
        <4> QED BY <4>1 DEF CopiesAreReal, OnGrid
      <3>12. OccurrencesAreReal'
        <4>1. ASSUME NEW r \in Schedules
              PROVE  config'[r].next # Never => OnGrid(config'[r].next)
          BY <3>1, <3>5 DEF OccurrencesAreReal
        <4>2. ASSUME NEW r \in Schedules, NEW o \in Times, jobs'[r][o] # NoJob
              PROVE  OnGrid(o) /\ o <= now
          BY <3>1, <3>9, <4>2 DEF OccurrencesAreReal
        <4> QED BY <2>1, <4>1, <4>2 DEF OccurrencesAreReal, OnGrid
      <3> QED BY <2>5, <2>6, <3>10, <3>11, <3>12
    <2> QED BY <2>2, <2>8, <2>9
  <1>7. ASSUME NEW t \in Evaluators, EvaluationFails(t) \/ EndEvaluation(t) PROVE PlannerInv'
    <2>1. UNCHANGED <<callers, config, copies, putBack, usable, jobs, now, edits>>
      BY <1>7 DEF EvaluationFails, EndEvaluation
    <2>2. /\ pc' = pc \/ pc' = [pc EXCEPT ![t] = "idle"]
          /\ at' = at \/ at' = [at EXCEPT ![t] = 0]
          /\ todo' = todo \/ \E s \in DOMAIN todo[t] : Evaluated(t, s)
      BY <1>7 DEF EvaluationFails, EndEvaluation, Leave
    <2>3. pc' \in [Evaluators -> {"idle", "list", "evaluate"}] BY <2>2 DEF TypeOK
    <2>4. at' \in [Evaluators -> Times] BY <1>0, <2>2 DEF TypeOK
    <2>5. \A u \in Evaluators : at'[u] <= now
      BY <1>0, <2>2 DEF TypeOK, ClocksAreRead
    <2>6. todo = [u \in Evaluators |-> todo[u]] BY DEF ListedRowsAreReal
    <2>7. \A u \in Evaluators : todo[u] = [r \in DOMAIN todo[u] |-> todo[u][r]] BY DEF TypeOK
    <2>8. todo' = [u \in Evaluators |-> todo'[u]]
          /\ \A u \in Evaluators : DOMAIN todo'[u] \subseteq DOMAIN todo[u]
                /\ todo'[u] = [r \in DOMAIN todo'[u] |-> todo[u][r]]
      <3>1. CASE todo' = todo BY <2>6, <2>7, <3>1
      <3>2. ASSUME NEW s \in DOMAIN todo[t], Evaluated(t, s)
            PROVE  todo' = [u \in Evaluators |-> todo'[u]]
              /\ \A u \in Evaluators : DOMAIN todo'[u] \subseteq DOMAIN todo[u]
                    /\ todo'[u] = [r \in DOMAIN todo'[u] |-> todo[u][r]]
        <4>1. todo' = [todo EXCEPT ![t] = [r \in DOMAIN todo[t] \ {s} |-> todo[t][r]]]
          BY <3>2 DEF Evaluated
        <4>2. /\ todo'[t] = [r \in DOMAIN todo[t] \ {s} |-> todo[t][r]]
              /\ \A u \in Evaluators \ {t} : todo'[u] = todo[u]
              /\ todo' = [u \in Evaluators |-> todo'[u]]
          BY <2>6, <4>1
        <4>3. ASSUME NEW u \in Evaluators
              PROVE  DOMAIN todo'[u] \subseteq DOMAIN todo[u]
                     /\ todo'[u] = [r \in DOMAIN todo'[u] |-> todo[u][r]]
          <5>1. CASE u = t BY <4>2, <5>1
          <5>2. CASE u # t BY <2>7, <4>2, <5>2
          <5> QED BY <5>1, <5>2
        <4> QED BY <4>2, <4>3
      <3> QED BY <2>2, <3>1, <3>2
    <2> QED BY <2>1, <2>3, <2>4, <2>5, <2>8, DroppingRows
  <1>8. CASE Crash
    <2>1. UNCHANGED <<callers, config, copies, putBack, usable, jobs, now, edits>> BY <1>8 DEF Crash
    <2>2. pc' \in [Evaluators -> {"idle", "list", "evaluate"}] /\ at' \in [Evaluators -> Times]
          /\ \A u \in Evaluators : at'[u] <= now
      BY <1>0, <1>8 DEF Crash
    <2>3. todo' = [u \in Evaluators |-> [s \in {} |-> config]] BY <1>8 DEF Crash
    <2>4. \A u \in Evaluators : DOMAIN todo'[u] = {} /\ todo'[u] = [s \in DOMAIN todo'[u] |-> todo[u][s]]
      BY <2>3
    <2>5. todo' = [u \in Evaluators |-> todo'[u]] BY <2>3
    <2> QED BY <2>1, <2>2, <2>4, <2>5, DroppingRows
  <1>9. CASE UNCHANGED vars
    BY <1>9 DEF vars, TypeOK, ListedRowsAreReal, CopiesAreReal, ClocksAreRead, OccurrencesAreReal, OnGrid
  <1> QED BY <1>1, <1>2, <1>3, <1>4, <1>5, <1>6, <1>7, <1>8, <1>9 DEF Next, Evaluate

\* The planner's state always satisfies the invariant.
LEMMA PlannerInvariance == Spec => []PlannerInv
  <1> QED BY PlannerInitially, PlannerStep, PTL DEF Spec

\* Rows, jobs and threads keep their types, whatever the number of schedules, their
\* intervals and their threads.
THEOREM PlannerTypeCorrect == Spec => []TypeOK
  <1>1. PlannerInv => TypeOK BY DEF PlannerInv
  <1> QED BY <1>1, PlannerInvariance, PTL

\* SchedulePlanner never invents an occurrence: late polls, lost or restored planner's
\* states and changed intervals keep jobs and next occurrences on the grid of a time
\* that some settings start from or ask for, and no job is early.
THEOREM OccurrencesStayReal == Spec => []OccurrencesAreReal
  <1>1. PlannerInv => OccurrencesAreReal BY DEF PlannerInv
  <1> QED BY <1>1, PlannerInvariance, PTL

\* One evaluation of a schedule deals with its whole backlog: the next occurrence
\* it persists is later than the time it evaluated at, and it makes one job at most.
THEOREM BacklogAlwaysCollapses == Spec => BacklogCollapses
  <1> DEFINE Collapse ==
        \A t \in Evaluators, s \in Schedules :
          s \in DOMAIN todo[t] /\ s \notin DOMAIN todo'[t] =>
            /\ config'[s] # config[s] => config'[s].next > at[t]
            /\ \A o, p \in Times : jobs'[s][o] # jobs[s][o] /\ jobs'[s][p] # jobs[s][p] => o = p
  <1>1. PlannerInv /\ [Next]_vars => [Collapse]_vars
    <2> SUFFICES ASSUME PlannerInv, Next,
                        NEW t \in Evaluators, NEW s \in Schedules,
                        s \in DOMAIN todo[t], s \notin DOMAIN todo'[t]
                 PROVE  /\ config'[s] # config[s] => config'[s].next > at[t]
                        /\ \A o, p \in Times :
                             jobs'[s][o] # jobs[s][o] /\ jobs'[s][p] # jobs[s][p] => o = p
      OBVIOUS
    <2>1. CASE UNCHANGED <<config, jobs>> BY <2>1
    <2>2. ASSUME NEW r \in Schedules, SaveSchedule(r) PROVE FALSE BY <2>2 DEF SaveSchedule
    <2>3. ASSUME NEW u \in Evaluators, NEW r \in Schedules, EvaluateSchedule(u, r)
          PROVE  /\ config'[s] # config[s] => config'[s].next > at[t]
                 /\ \A o, p \in Times :
                      jobs'[s][o] # jobs[s][o] /\ jobs'[s][p] # jobs[s][p] => o = p
      <3> DEFINE row == todo[u][r]
                 timing == Timing(row, at[u])
      <3>1. r \in DOMAIN todo[u] /\ Evaluated(u, r) BY <2>3 DEF EvaluateSchedule
      <3>2. u = t /\ r = s
        <4>1. todo = [v \in Evaluators |-> todo[v]] BY DEF PlannerInv, ListedRowsAreReal
        <4>2. todo' = [todo EXCEPT ![u] = [q \in DOMAIN todo[u] \ {r} |-> todo[u][q]]]
          BY <3>1 DEF Evaluated
        <4> QED BY <4>1, <4>2
      <3>3. \/ UNCHANGED <<config, jobs>>
            \/ /\ ~Refused(row)
               /\ Persist(u, r, timing.next)
               /\ \/ jobs' = jobs
                  \/ /\ timing.due # Never
                     /\ jobs' = [jobs EXCEPT ![r][timing.due] = row.edition]
        BY <2>3 DEF EvaluateSchedule
      <3>4. CASE UNCHANGED <<config, jobs>> BY <3>4
      <3>5. CASE /\ ~Refused(row)
                 /\ Persist(u, r, timing.next)
                 /\ \/ jobs' = jobs
                    \/ /\ timing.due # Never
                       /\ jobs' = [jobs EXCEPT ![r][timing.due] = row.edition]
        <4>1. timing.next > at[u] /\ (timing.due # Never => timing.due \in Times)
          BY <3>1, <3>5, EvaluationFacts
        <4> HIDE DEF timing, row
        <4>2. config \in [Schedules -> Rows] /\ config[r] \in Rows
              /\ jobs \in [Schedules -> [Times -> Editions \cup {NoJob}]]
          BY DEF PlannerInv, TypeOK
        <4>3. config'[r].next = timing.next BY <3>5, <4>2 DEF Persist, Rows
        <4>4. \A o, p \in Times : jobs'[s][o] # jobs[s][o] /\ jobs'[s][p] # jobs[s][p] => o = p
          BY <3>2, <3>5, <4>1, <4>2
        <4> QED BY <3>2, <4>1, <4>3, <4>4
      <3> QED BY <3>3, <3>4, <3>5
    <2> QED BY <2>1, <2>2, <2>3
          DEF Next, Evaluate, Tick, ChangeWorkflow, ReadClock, ListSchedules, EndEvaluation,
              EvaluationFails, Crash
  <1> QED BY <1>1, PlannerInvariance, PTL DEF Spec, BacklogCollapses

----------------------------------------------------------------------------
(* What was dealt with is past *)

\* Threads that never call evaluate() have listed nothing.
CallersWork ==
  \A t \in Evaluators : t \notin callers => pc[t] = "idle" /\ DOMAIN todo[t] = {}

\* With one thread nothing overtakes a listed row but a save.
ListedRowsAreCurrent ==
  \A s \in Schedules \ putBack : OneEvaluator =>
    \A t \in Evaluators : s \in DOMAIN todo[t] => todo[t][s].next = config[s].next

PastInv == CallersWork /\ ListedRowsAreCurrent /\ DealtWithIsPast

\* An evaluation only drops the row it evaluated.
LEMMA EvaluatedRows ==
  ASSUME PlannerInv, NEW t \in Evaluators, NEW r \in DOMAIN todo[t], Evaluated(t, r)
  PROVE  \A u \in Evaluators :
           /\ DOMAIN todo'[u] \subseteq DOMAIN todo[u]
           /\ \A s \in DOMAIN todo'[u] : todo'[u][s] = todo[u][s]
           /\ u = t => r \notin DOMAIN todo'[u]
  <1>1. todo = [u \in Evaluators |-> todo[u]] BY DEF PlannerInv, ListedRowsAreReal
  <1>2. todo' = [todo EXCEPT ![t] = [s \in DOMAIN todo[t] \ {r} |-> todo[t][s]]] BY DEF Evaluated
  <1>3. todo'[t] = [s \in DOMAIN todo[t] \ {r} |-> todo[t][s]]
        /\ \A u \in Evaluators \ {t} : todo'[u] = todo[u]
    BY <1>1, <1>2
  <1> QED BY <1>3

\* A step that changes neither rows nor jobs, drops listed rows at most and ends at
\* most an evaluation keeps what is dealt with in the past.
LEMMA PastKept ==
  ASSUME PastInv, UNCHANGED <<callers, config, putBack, jobs>>,
         \A u \in Evaluators :
            /\ pc'[u] = pc[u] \/ pc'[u] = "idle" \/ u \in callers
            /\ DOMAIN todo'[u] \subseteq DOMAIN todo[u]
            /\ \A s \in DOMAIN todo'[u] : todo'[u][s] = todo[u][s]
  PROVE  PastInv'
  <1>1. CallersWork' BY DEF PastInv, CallersWork
  <1>2. ListedRowsAreCurrent' BY DEF PastInv, ListedRowsAreCurrent, OneEvaluator
  <1>3. DealtWithIsPast' BY DEF PastInv, DealtWithIsPast, OneEvaluator
  <1> QED BY <1>1, <1>2, <1>3 DEF PastInv

\* Before anything is evaluated nothing is dealt with.
LEMMA PastInitially == Init => PastInv
  <1> SUFFICES ASSUME Init PROVE PastInv OBVIOUS
  <1>1. \A t \in Evaluators : pc[t] = "idle" /\ DOMAIN todo[t] = {} BY DEF Init
  <1>2. \A s \in Schedules, o \in Times : jobs[s][o] = NoJob BY DEF Init
  <1> QED BY <1>1, <1>2 DEF PastInv, CallersWork, ListedRowsAreCurrent, DealtWithIsPast

\* Every step keeps what is dealt with in the past.
LEMMA PastStep == PlannerInv /\ PastInv /\ [Next]_vars => PastInv'
  <1> SUFFICES ASSUME PlannerInv, PastInv, [Next]_vars PROVE PastInv' OBVIOUS
  <1>0. todo = [u \in Evaluators |-> todo[u]] /\ pc \in [Evaluators -> {"idle", "list", "evaluate"}]
    BY DEF PlannerInv, ListedRowsAreReal, TypeOK
  <1>1. CASE Tick BY <1>1, PastKept DEF Tick
  <1>2. ASSUME NEW r \in Schedules, SaveSchedule(r) PROVE PastInv'
    <2>1. PICK edition \in Editions, enabled \in BOOLEAN, interval \in Intervals, next \in copies[r] :
            /\ config' = [config EXCEPT ![r] = [edition |-> edition, enabled |-> enabled,
                                               interval |-> interval, next |-> next]]
            /\ putBack' = IF next = config[r].next THEN putBack ELSE putBack \cup {r}
      BY <1>2 DEF SaveSchedule
    <2>2. UNCHANGED <<callers, jobs, pc, todo>> BY <1>2 DEF SaveSchedule
    <2>3. config \in [Schedules -> Rows] BY DEF PlannerInv, TypeOK
    <2>4. \A s \in Schedules \ putBack' : s \notin putBack /\ config'[s].next = config[s].next
      BY <2>1, <2>3
    <2>5. CallersWork' BY <2>2 DEF PastInv, CallersWork
    <2>6. ListedRowsAreCurrent' BY <2>2, <2>4 DEF PastInv, ListedRowsAreCurrent, OneEvaluator
    <2>7. DealtWithIsPast' BY <2>2, <2>4 DEF PastInv, DealtWithIsPast, OneEvaluator
    <2> QED BY <2>5, <2>6, <2>7 DEF PastInv
  <1>3. ASSUME NEW r \in Schedules, ChangeWorkflow(r) PROVE PastInv'
    BY <1>3, PastKept DEF ChangeWorkflow
  <1>4. ASSUME NEW t \in Evaluators, ReadClock(t) PROVE PastInv'
    BY <1>0, <1>4, PastKept DEF ReadClock
  <1>5. ASSUME NEW t \in Evaluators, ListSchedules(t) PROVE PastInv'
    <2> DEFINE listed == [s \in {r \in Schedules : config[r].enabled} |-> config[s]]
    <2>1. pc[t] = "list" /\ pc' = [pc EXCEPT ![t] = "evaluate"] /\ todo' = [todo EXCEPT ![t] = listed]
          /\ UNCHANGED <<callers, config, putBack, jobs>>
      BY <1>5 DEF ListSchedules
    <2>2. t \in callers BY <2>1 DEF PastInv, CallersWork
    <2>3. \A s \in DOMAIN listed : listed[s] = config[s] OBVIOUS
    <2> HIDE DEF listed
    <2>4. \A u \in Evaluators : todo'[u] = IF u = t THEN listed ELSE todo[u] BY <1>0, <2>1
    <2>5. CallersWork' BY <1>0, <2>1, <2>2, <2>4 DEF PastInv, CallersWork
    <2>6. ListedRowsAreCurrent'
      BY <2>1, <2>3, <2>4 DEF PastInv, ListedRowsAreCurrent, OneEvaluator
    <2>7. DealtWithIsPast' BY <2>1 DEF PastInv, DealtWithIsPast, OneEvaluator
    <2> QED BY <2>5, <2>6, <2>7 DEF PastInv
  <1>6. ASSUME NEW t \in Evaluators, NEW r \in Schedules, EvaluateSchedule(t, r) PROVE PastInv'
    <2> DEFINE row == todo[t][r]
               timing == Timing(row, at[t])
    <2>1. r \in DOMAIN todo[t] /\ Evaluated(t, r) /\ UNCHANGED <<callers, putBack, pc, at>>
      BY <1>6 DEF EvaluateSchedule
    <2>2. \/ UNCHANGED <<config, jobs>>
          \/ /\ ~Refused(row)
             /\ Persist(t, r, timing.next)
             /\ \/ jobs' = jobs
                \/ /\ timing.due # Never
                   /\ jobs' = [jobs EXCEPT ![r][timing.due] = row.edition]
      BY <1>6 DEF EvaluateSchedule
    <2>3. \A u \in Evaluators :
            /\ DOMAIN todo'[u] \subseteq DOMAIN todo[u]
            /\ \A s \in DOMAIN todo'[u] : todo'[u][s] = todo[u][s]
            /\ u = t => r \notin DOMAIN todo'[u]
      BY <2>1, EvaluatedRows
    <2>4. CASE UNCHANGED <<config, jobs>> BY <2>1, <2>3, <2>4, PastKept
    <2>5. CASE /\ ~Refused(row)
               /\ Persist(t, r, timing.next)
               /\ \/ jobs' = jobs
                  \/ /\ timing.due # Never
                     /\ jobs' = [jobs EXCEPT ![r][timing.due] = row.edition]
      <3>1. /\ timing.due # Never => timing.due \in Times /\ timing.due <= at[t]
            /\ timing.next \in Nat /\ timing.next > at[t]
            /\ row.next # Never => timing.next >= row.next
        BY <2>1, <2>5, EvaluationFacts
      <3>2. row \in Rows /\ at[t] \in Nat BY <2>1 DEF PlannerInv, TypeOK, Times
      <3> HIDE DEF timing
      <3>3. config \in [Schedules -> Rows] /\ config[r] \in Rows
            /\ jobs \in [Schedules -> [Times -> Editions \cup {NoJob}]]
        BY DEF PlannerInv, TypeOK
      <3>4. config'[r].next = timing.next /\ \A s \in Schedules \ {r} : config'[s] = config[s]
        BY <2>5, <3>3 DEF Persist, Rows
      <3>5. /\ \A s \in Schedules \ {r} : jobs'[s] = jobs[s]
            /\ \A o \in Times : jobs'[r][o] = jobs[r][o] \/ (o = timing.due /\ timing.due # Never)
        BY <2>5, <3>1, <3>3
      <3>6. CallersWork' BY <2>1, <2>3 DEF PastInv, CallersWork
      <3>7. ListedRowsAreCurrent'
        <4> SUFFICES ASSUME NEW s \in Schedules \ putBack, OneEvaluator,
                            NEW u \in Evaluators, s \in DOMAIN todo'[u]
                     PROVE  todo'[u][s].next = config'[s].next
          BY <2>1 DEF ListedRowsAreCurrent, OneEvaluator
        <4>1. u \in callers /\ t \in callers BY <2>1, <2>3 DEF PastInv, CallersWork
        <4>2. u = t BY <4>1 DEF OneEvaluator
        <4>3. s # r BY <2>3, <4>2
        <4> QED BY <2>3, <3>4, <4>3 DEF PastInv, ListedRowsAreCurrent
      <3>8. DealtWithIsPast'
        <4> SUFFICES ASSUME NEW s \in Schedules \ putBack, OneEvaluator,
                            NEW o \in Times, jobs'[s][o] # NoJob
                     PROVE  o < config'[s].next
          BY <2>1 DEF DealtWithIsPast, OneEvaluator
        <4>1. CASE s # r BY <3>4, <3>5, <4>1 DEF PastInv, DealtWithIsPast
        <4>2. CASE s = r /\ jobs[s][o] # NoJob
          <5>1. o < config[s].next BY <4>2 DEF PastInv, DealtWithIsPast
          <5>2. config[s].next = row.next BY <2>1, <4>2 DEF PastInv, ListedRowsAreCurrent
          <5>3. o \in Nat BY DEF Times
          <5>4. row.next \in NextTimes BY <3>2 DEF Rows
          <5>5. row.next # Never BY <5>1, <5>2, <5>3 DEF Never
          <5>6. row.next \in Nat BY <5>4, <5>5 DEF NextTimes
          <5> QED BY <3>1, <3>4, <4>2, <5>1, <5>2, <5>3, <5>5, <5>6
        <4>3. CASE s = r /\ o = timing.due
          <5>1. timing.due # Never BY <4>3 DEF Times, Never
          <5>2. timing.due \in Int BY <3>1, <5>1 DEF Times
          <5> QED BY <3>1, <3>2, <3>4, <4>3, <5>1, <5>2
        <4> QED BY <3>5, <4>1, <4>2, <4>3
      <3> QED BY <3>6, <3>7, <3>8 DEF PastInv
    <2> QED BY <2>2, <2>4, <2>5
  <1>7. ASSUME NEW t \in Evaluators, EvaluationFails(t) \/ EndEvaluation(t) PROVE PastInv'
    <2>1. UNCHANGED <<callers, config, putBack, jobs>> BY <1>7 DEF EvaluationFails, EndEvaluation
    <2>2. pc' = pc \/ pc' = [pc EXCEPT ![t] = "idle"]
      BY <1>7 DEF EvaluationFails, EndEvaluation, Leave
    <2>3. \A u \in Evaluators : pc'[u] = pc[u] \/ pc'[u] = "idle" BY <1>0, <2>2
    <2>4. todo' = todo \/ \E r \in DOMAIN todo[t] : Evaluated(t, r)
      BY <1>7 DEF EvaluationFails, EndEvaluation
    <2>5. \A u \in Evaluators :
            /\ DOMAIN todo'[u] \subseteq DOMAIN todo[u]
            /\ \A s \in DOMAIN todo'[u] : todo'[u][s] = todo[u][s]
      BY <2>4, EvaluatedRows
    <2> QED BY <2>1, <2>3, <2>5, PastKept
  <1>8. CASE Crash
    <2>1. \A u \in Evaluators : pc'[u] = "idle" /\ DOMAIN todo'[u] = {} BY <1>8 DEF Crash
    <2>2. UNCHANGED <<callers, config, putBack, jobs>> BY <1>8 DEF Crash
    <2> QED BY <2>1, <2>2, PastKept
  <1>9. CASE UNCHANGED vars BY <1>9, PastKept DEF vars
  <1> QED BY <1>1, <1>2, <1>3, <1>4, <1>5, <1>6, <1>7, <1>8, <1>9 DEF Next, Evaluate

\* With one evaluating thread, whatever has a job lies before the next occurrence, for
\* any schedules, settings and failures: nothing comes up again unless a save put an
\* older planner's state back, or none.
THEOREM DealtWithStaysPast == Spec => []DealtWithIsPast
  <1>1. PastInv => DealtWithIsPast BY DEF PastInv
  <1> QED BY <1>1, PastInitially, PastStep, PlannerInvariance, PTL DEF Spec
=============================================================================
