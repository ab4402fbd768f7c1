---------------------------- MODULE EmulatorSlots ----------------------------
(***************************************************************************)
(* The limit on running emulators: EmulatorManager.launch_instance decides *)
(* under its lock, from the running instances and those being started,     *)
(* whether one more may be launched, and runs the MEmu command outside the *)
(* lock; close_instance runs its command without looking at launches.      *)
(* Worker threads and the GUI's background threads call both, for the same *)
(* instances; restart_instance is one call of each.                        *)
(*                                                                         *)
(* Abstracted: instances have a MEmu index (those driven by a configured   *)
(* command are not modelled), their _states entry is not kept, since       *)
(* is_running overwrites it with what MEmu says before anything reads it.  *)
(*                                                                         *)
(* An operator Name_Variant is a plausible mistake in Name, used by        *)
(* nothing: it shows which property would catch it.                        *)
(***************************************************************************)
EXTENDS Naturals, FiniteSets, FiniteSetTheorems, TLAPS

CONSTANTS
  Instances,   \* the enabled instances
  Threads,     \* the threads that launch and close
  MaxActive,   \* scheduler.max_active_instances
  MaxFaults    \* bound on failing MEmu commands

ASSUME EmulatorSlotsAssumption ==
  /\ IsFiniteSet(Instances) /\ Instances # {}
  /\ MaxActive \in Nat \ {0} /\ MaxFaults \in Nat

VARIABLES
  on,        \* the emulators that are running
  late,      \* emulators still booting after their command was given up
  starting,  \* EmulatorManager._starting_instances
  pc,        \* pc[t]: where thread t is
  target,    \* target[t]: the instance it works on
  faults,
  raced      \* history: instances worked on by two threads at a time, booted
             \* late, or taken for stopped because MEmu did not answer

vars == <<on, late, starting, pc, target, faults, raced>>

Launching(i) == {t \in Threads : pc[t] \in {"launch", "launched"} /\ target[t] = i}
Closing(i) == {t \in Threads : pc[t] \in {"close", "closed"} /\ target[t] = i}

Races(i) == IF Launching(i) \cup Closing(i) = {} THEN {} ELSE {i}

Init ==
  /\ on = {} /\ late = {}
  /\ starting = {}
  /\ pc = [t \in Threads |-> "idle"]
  /\ target \in [Threads -> {CHOOSE i \in Instances : TRUE}]
  /\ faults = 0
  /\ raced = {}

----------------------------------------------------------------------------
(* launch_instance *)

\* What the running checks of one pass answer: a failing one counts as stopped.
Answers == {seen \in SUBSET on : Cardinality(on \ seen) + faults <= MaxFaults}

RunningCount_WithoutStarting(seen) == Cardinality(seen)

\* running_count
RunningCount(seen) == Cardinality(starting \cup seen)

Work(t, i, place) ==
  /\ pc' = [pc EXCEPT ![t] = place]
  /\ target' = [target EXCEPT ![t] = i]

\* Under the lock: a running instance is reused, the limit refuses, or the
\* instance is registered as starting.
CheckLaunch(t, i) ==
  /\ pc[t] = "idle"
  /\ \E seen \in Answers :
       /\ faults' = faults + Cardinality(on \ seen)
       /\ \/ /\ i \in seen \/ RunningCount(seen) >= MaxActive
             /\ raced' = raced \cup (on \ seen)
             /\ UNCHANGED <<starting, pc, target>>
          \/ /\ i \notin seen /\ RunningCount(seen) < MaxActive
             /\ starting' = starting \cup {i}
             /\ Work(t, i, "launch")
             /\ raced' = raced \cup (on \ seen) \cup Races(i)
  /\ UNCHANGED <<on, late>>

\* external: memuc start boots the instance
Boot(t) ==
  /\ pc[t] = "launch"
  /\ on' = on \cup {target[t]}
  /\ pc' = [pc EXCEPT ![t] = "launched"]
  /\ UNCHANGED <<late, starting, target, faults, raced>>

LaunchReturns_Forgets(t) ==
  /\ pc[t] = "launched"
  /\ pc' = [pc EXCEPT ![t] = "idle"]
  /\ UNCHANGED <<on, late, starting, target, faults, raced>>

LaunchReturns(t) ==
  /\ pc[t] = "launched"
  /\ starting' = starting \ {target[t]}
  /\ pc' = [pc EXCEPT ![t] = "idle"]
  /\ UNCHANGED <<on, late, target, faults, raced>>

\* The command fails or times out; what it began may go on.
LaunchFails(t) ==
  /\ pc[t] \in {"launch", "launched"}
  /\ faults < MaxFaults
  /\ faults' = faults + 1
  /\ starting' = starting \ {target[t]}
  /\ \/ UNCHANGED <<late, raced>>
     \/ /\ pc[t] = "launch"
        /\ late' = late \cup {target[t]}
        /\ raced' = raced \cup {target[t]}
  /\ pc' = [pc EXCEPT ![t] = "idle"]
  /\ UNCHANGED <<on, target>>

BootLate(i) ==
  /\ i \in late
  /\ late' = late \ {i}
  /\ on' = on \cup {i}
  /\ UNCHANGED <<starting, pc, target, faults, raced>>

----------------------------------------------------------------------------
(* close_instance *)

BeginClose(t, i) ==
  /\ pc[t] = "idle"
  /\ Work(t, i, "close")
  /\ raced' = raced \cup Races(i)
  /\ UNCHANGED <<on, late, starting, faults>>

\* external: memuc stop ends the instance
Halt(t) ==
  /\ pc[t] = "close"
  /\ on' = on \ {target[t]}
  /\ pc' = [pc EXCEPT ![t] = "closed"]
  /\ UNCHANGED <<late, starting, target, faults, raced>>

\* Whether the command succeeded or not, the instance is no longer starting.
CloseReturns(t) ==
  /\ \/ pc[t] = "closed" /\ UNCHANGED faults
     \/ /\ pc[t] \in {"close", "closed"}
        /\ faults < MaxFaults
        /\ faults' = faults + 1
  /\ starting' = starting \ {target[t]}
  /\ pc' = [pc EXCEPT ![t] = "idle"]
  /\ UNCHANGED <<on, late, target, raced>>

Next ==
  \/ \E t \in Threads :
       \/ \E i \in Instances : CheckLaunch(t, i) \/ BeginClose(t, i)
       \/ Boot(t) \/ LaunchReturns(t) \/ LaunchFails(t)
       \/ Halt(t) \/ CloseReturns(t)
  \/ \E i \in Instances : BootLate(i)

Spec == Init /\ [][Next]_vars

----------------------------------------------------------------------------
(* Properties *)

\* The sets hold instances, and every thread works on one.
TypeOK ==
  /\ on \subseteq Instances /\ late \subseteq Instances
  /\ starting \subseteq Instances /\ raced \subseteq Instances
  /\ pc \in [Threads -> {"idle", "launch", "launched", "close", "closed"}]
  /\ target \in [Threads -> Instances]
  /\ faults \in 0..MaxFaults

\* A place is never lost: an instance is registered as starting only while some
\* thread launches it, whatever fails or is closed meanwhile.
PlacesAreReleased == \A i \in starting : Launching(i) # {}

\* Launches that are decided at the same time and booted at any time keep to the
\* limit among them; only an instance that was raced can come on top.
LaunchesKeepLimit == Cardinality(on \ raced) <= MaxActive

\* README.md: "scheduler.max_active_instances: Maximum emulator profiles handled
\* concurrently", stated of runs in which every MEmu command succeeds.
ActiveBounded == faults = 0 => Cardinality(on) <= MaxActive

----------------------------------------------------------------------------
(* Theorems, for any number of instances and threads.  What is counted is       *)
(* on \cup starting: a launch adds to it under the lock and its boot only moves *)
(* an instance within it, as long as nobody else works on the instance.         *)

Busy(i) == Launching(i) \cup Closing(i)

\* An instance with two threads at work, or booting late, is on record as raced.
RacesAreSeen ==
  /\ late \subseteq raced
  /\ \A i \in Instances \ raced : \A t, u \in Busy(i) : t = u

\* The place of a launch is taken until it ends.
LaunchesAreCounted == \A i \in Instances \ raced : Launching(i) # {} => i \in starting

Counted == (on \cup starting) \ raced

SlotInv ==
  /\ PlacesAreReleased
  /\ RacesAreSeen
  /\ LaunchesAreCounted
  /\ Cardinality(Counted) <= MaxActive

Places == {"idle", "launch", "launched", "close", "closed"}

SlotTypes ==
  /\ on \subseteq Instances /\ late \subseteq Instances
  /\ starting \subseteq Instances /\ raced \subseteq Instances
  /\ pc \in [Threads -> Places]
  /\ target \in [Threads -> Instances]
  /\ faults \in 0..MaxFaults

----------------------------------------------------------------------------

\* Sets of instances are finite, and a part is no larger than the whole.
LEMMA Sizes ==
  ASSUME NEW S \in SUBSET Instances, NEW P \in SUBSET S
  PROVE  /\ IsFiniteSet(S)
         /\ Cardinality(S) \in Nat
         /\ Cardinality(P) <= Cardinality(S)
  <1>1. IsFiniteSet(S) BY EmulatorSlotsAssumption, FS_Subset
  <1>2. Cardinality(S) \in Nat BY <1>1, FS_CardinalityType
  <1>3. Cardinality(P) <= Cardinality(S) BY <1>1, FS_Subset
  <1> QED BY <1>1, <1>2, <1>3

\* What MEmu answers costs no more faults than there are left.
LEMMA AnswersCost ==
  ASSUME SlotTypes, NEW seen \in Answers
  PROVE  seen \subseteq on /\ faults + Cardinality(on \ seen) \in 0..MaxFaults
  <1>1. Cardinality(on \ seen) \in Nat BY Sizes DEF SlotTypes
  <1> QED BY <1>1, EmulatorSlotsAssumption DEF Answers, SlotTypes

LEMMA TypesInit == Init => SlotTypes
  <1> SUFFICES ASSUME Init PROVE SlotTypes OBVIOUS
  <1>1. (CHOOSE i \in Instances : TRUE) \in Instances BY EmulatorSlotsAssumption
  <1>2. target \in [Threads -> Instances] BY <1>1 DEF Init
  <1>3. faults \in 0..MaxFaults BY EmulatorSlotsAssumption DEF Init
  <1> QED BY <1>2, <1>3 DEF Init, SlotTypes, Places

LEMMA TypesStep == SlotTypes /\ [Next]_vars => SlotTypes'
  <1> SUFFICES ASSUME SlotTypes, [Next]_vars PROVE SlotTypes' OBVIOUS
  <1> USE EmulatorSlotsAssumption
  <1>1. ASSUME NEW t \in Threads, NEW i \in Instances, CheckLaunch(t, i) PROVE SlotTypes'
    <2> PICK seen \in Answers :
          /\ faults' = faults + Cardinality(on \ seen)
          /\ \/ /\ raced' = raced \cup (on \ seen)
                /\ UNCHANGED <<starting, pc, target>>
             \/ /\ starting' = starting \cup {i}
                /\ Work(t, i, "launch")
                /\ raced' = raced \cup (on \ seen) \cup Races(i)
      BY <1>1 DEF CheckLaunch
    <2>1. faults' \in 0..MaxFaults BY AnswersCost
    <2>2. Races(i) \subseteq Instances BY DEF Races
    <2>3. UNCHANGED <<on, late>> BY <1>1 DEF CheckLaunch
    <2> QED BY <2>1, <2>2, <2>3 DEF SlotTypes, Work, Places
  <1>2. ASSUME NEW t \in Threads, NEW i \in Instances, BeginClose(t, i) PROVE SlotTypes'
    <2>1. Races(i) \subseteq Instances BY DEF Races
    <2> QED BY <1>2, <2>1 DEF BeginClose, SlotTypes, Work, Places
  <1>3. ASSUME NEW t \in Threads, Boot(t) PROVE SlotTypes'
    BY <1>3 DEF Boot, SlotTypes, Places
  <1>4. ASSUME NEW t \in Threads, LaunchReturns(t) PROVE SlotTypes'
    BY <1>4 DEF LaunchReturns, SlotTypes, Places
  <1>5. ASSUME NEW t \in Threads, LaunchFails(t) PROVE SlotTypes'
    BY <1>5 DEF LaunchFails, SlotTypes, Places
  <1>6. ASSUME NEW t \in Threads, Halt(t) PROVE SlotTypes'
    BY <1>6 DEF Halt, SlotTypes, Places
  <1>7. ASSUME NEW t \in Threads, CloseReturns(t) PROVE SlotTypes'
    BY <1>7 DEF CloseReturns, SlotTypes, Places
  <1>8. ASSUME NEW i \in Instances, BootLate(i) PROVE SlotTypes'
    BY <1>8 DEF BootLate, SlotTypes
  <1>9. CASE UNCHANGED vars
    BY <1>9 DEF vars, SlotTypes
  <1> QED BY <1>1, <1>2, <1>3, <1>4, <1>5, <1>6, <1>7, <1>8, <1>9 DEF Next

LEMMA Typing == Spec => []SlotTypes
  <1> QED BY TypesInit, TypesStep, PTL DEF Spec

\* Every variable keeps its type.
THEOREM SlotsTypeCorrect == Spec => []TypeOK
  <1>1. SlotTypes => TypeOK BY DEF SlotTypes, TypeOK, Places
  <1> QED BY <1>1, Typing, PTL

----------------------------------------------------------------------------

LEMMA SlotInit == Init => SlotInv
  <1> SUFFICES ASSUME Init PROVE SlotInv OBVIOUS
  <1>1. \A i : Busy(i) = {} BY DEF Init, Busy, Launching, Closing
  <1>2. Cardinality({}) = 0 BY FS_EmptySet
  <1>3. Counted = {} BY DEF Init, Counted
  <1>4. Cardinality(Counted) <= MaxActive BY <1>2, <1>3, EmulatorSlotsAssumption
  <1> QED BY <1>1, <1>4 DEF Init, SlotInv, PlacesAreReleased, RacesAreSeen, LaunchesAreCounted, Busy

\* A launch that is let through adds one to less than the limit.
LEMMA LaunchKeepsSlots ==
  ASSUME SlotTypes, SlotInv, NEW t \in Threads, NEW i \in Instances, CheckLaunch(t, i)
  PROVE  SlotInv'
  <1> PICK seen \in Answers :
        /\ faults' = faults + Cardinality(on \ seen)
        /\ \/ /\ raced' = raced \cup (on \ seen)
              /\ UNCHANGED <<starting, pc, target>>
           \/ /\ i \notin seen /\ RunningCount(seen) < MaxActive
              /\ starting' = starting \cup {i}
              /\ Work(t, i, "launch")
              /\ raced' = raced \cup (on \ seen) \cup Races(i)
    BY DEF CheckLaunch
  <1>1. pc[t] = "idle" /\ UNCHANGED <<on, late>> BY DEF CheckLaunch
  <1>2. CASE raced' = raced \cup (on \ seen) /\ UNCHANGED <<starting, pc, target>>
    <2>1. Counted' \subseteq Counted /\ Counted \in SUBSET Instances
      BY <1>1, <1>2 DEF Counted, SlotTypes
    <2>2. Cardinality(Counted') <= Cardinality(Counted) /\ Cardinality(Counted) \in Nat
      /\ Cardinality(Counted') \in Nat
      BY <2>1, Sizes
    <2>3. Cardinality(Counted') <= MaxActive BY <2>2, EmulatorSlotsAssumption DEF SlotInv
    <2>4. \A j : Launching(j)' = Launching(j) /\ Closing(j)' = Closing(j)
      BY <1>2 DEF Launching, Closing
    <2> QED BY <1>1, <1>2, <2>3, <2>4 DEF SlotInv, PlacesAreReleased, RacesAreSeen, LaunchesAreCounted, Busy
  <1>3. CASE /\ i \notin seen /\ RunningCount(seen) < MaxActive
             /\ starting' = starting \cup {i}
             /\ Work(t, i, "launch")
             /\ raced' = raced \cup (on \ seen) \cup Races(i)
    <2> DEFINE Known == starting \cup seen
    <2>1. Known \in SUBSET Instances /\ Known \cup {i} \in SUBSET Instances
      BY AnswersCost DEF SlotTypes
    <2>2. Cardinality(Known) \in Nat /\ IsFiniteSet(Known) BY <2>1, Sizes
    <2>3. Cardinality(Known) < MaxActive BY <1>3 DEF RunningCount
    <2> HIDE DEF Known
    <2>4. Cardinality(Known \cup {i}) <= Cardinality(Known) + 1
      <3>1. Cardinality(Known \cup {i})
              = IF i \in Known THEN Cardinality(Known) ELSE Cardinality(Known) + 1
        BY <2>2, FS_AddElement
      <3> QED BY <2>2, <3>1
    <2>5. Counted' \subseteq Known \cup {i} BY <1>1, <1>3 DEF Counted, Known
    <2>6. Cardinality(Counted') <= Cardinality(Known \cup {i}) /\ Cardinality(Counted') \in Nat
          /\ Cardinality(Known \cup {i}) \in Nat
      BY <2>1, <2>5, Sizes
    <2>7. Cardinality(Counted') <= MaxActive BY <2>2, <2>3, <2>4, <2>6, EmulatorSlotsAssumption
    <2>8. /\ Launching(i)' = Launching(i) \cup {t} /\ Closing(i)' = Closing(i)
          /\ \A j : j # i => Launching(j)' = Launching(j) /\ Closing(j)' = Closing(j)
      BY <1>1, <1>3 DEF Launching, Closing, Work, SlotTypes
    <2>9. PlacesAreReleased' BY <1>3, <2>8 DEF SlotInv, PlacesAreReleased
    <2>10. RacesAreSeen'
      BY <1>1, <1>3, <2>8 DEF SlotInv, RacesAreSeen, Races, Busy
    <2>11. LaunchesAreCounted'
      BY <1>3, <2>8 DEF SlotInv, LaunchesAreCounted
    <2> QED BY <2>7, <2>9, <2>10, <2>11 DEF SlotInv
  <1> QED BY <1>2, <1>3

\* A thread that ends its work gives up a place nobody else needs.
LEMMA EndKeepsSlots ==
  ASSUME SlotTypes, SlotInv, NEW t \in Threads, t \in Busy(target[t]),
         starting' = starting \ {target[t]}, pc' = [pc EXCEPT ![t] = "idle"],
         UNCHANGED <<on, target>>, raced \subseteq raced', late' \subseteq raced'
  PROVE  SlotInv'
  <1>1. \A j : /\ Launching(j)' = Launching(j) \ {t}
               /\ Closing(j)' = Closing(j) \ {t}
    BY DEF Launching, Closing, SlotTypes
  <1>2. \A j : j # target[t] => t \notin Busy(j) BY DEF Busy, Launching, Closing
  <1>3. PlacesAreReleased'
    BY <1>1, <1>2 DEF SlotInv, PlacesAreReleased, Busy
  <1>4. RacesAreSeen'
    BY <1>1 DEF SlotInv, RacesAreSeen, Busy
  <1>5. LaunchesAreCounted'
    <2> SUFFICES ASSUME NEW j \in Instances \ raced', Launching(j)' # {} PROVE j \in starting'
      BY DEF LaunchesAreCounted
    <2>1. j \in starting BY <1>1 DEF SlotInv, LaunchesAreCounted
    <2>2. PICK u \in Launching(j) : u # t BY <1>1
    <2>3. j # target[t]
      BY <2>2 DEF SlotInv, RacesAreSeen, Busy
    <2> QED BY <2>1, <2>3
  <1>6. Counted' \subseteq Counted /\ Counted \in SUBSET Instances BY DEF Counted, SlotTypes
  <1>7. Cardinality(Counted') <= Cardinality(Counted) /\ Cardinality(Counted) \in Nat
        /\ Cardinality(Counted') \in Nat
    BY <1>6, Sizes
  <1>8. Cardinality(Counted') <= MaxActive BY <1>7, EmulatorSlotsAssumption DEF SlotInv
  <1> QED BY <1>3, <1>4, <1>5, <1>8 DEF SlotInv

\* Nothing but the emulators changes, and nothing is counted that was not before.
LEMMA BootKeepsSlots ==
  ASSUME SlotTypes, SlotInv, UNCHANGED <<starting, target, raced>>, late' \subseteq late,
         \A j \in Instances : Launching(j)' = Launching(j) /\ Closing(j)' = Closing(j),
         (on' \ raced) \subseteq on \cup starting
  PROVE  SlotInv'
  <1>1. Counted' \subseteq Counted /\ Counted \in SUBSET Instances BY DEF Counted, SlotTypes
  <1>2. Cardinality(Counted') <= Cardinality(Counted) /\ Cardinality(Counted) \in Nat
        /\ Cardinality(Counted') \in Nat
    BY <1>1, Sizes
  <1>3. Cardinality(Counted') <= MaxActive BY <1>2, EmulatorSlotsAssumption DEF SlotInv
  <1> QED
    BY <1>3 DEF SlotInv, SlotTypes, PlacesAreReleased, RacesAreSeen, LaunchesAreCounted, Busy

LEMMA BeginCloseKeepsSlots ==
  ASSUME SlotTypes, SlotInv, NEW t \in Threads, NEW i \in Instances, BeginClose(t, i)
  PROVE  SlotInv'
  <1>1. /\ Closing(i)' = Closing(i) \cup {t}
        /\ \A j : Launching(j)' = Launching(j) /\ (j # i => Closing(j)' = Closing(j))
    BY DEF BeginClose, Launching, Closing, Work, SlotTypes
  <1>2. UNCHANGED <<on, late, starting>> /\ raced' = raced \cup Races(i) BY DEF BeginClose
  <1>3. Counted' \subseteq Counted /\ Counted \in SUBSET Instances
    BY <1>2 DEF Counted, SlotTypes
  <1>4. Cardinality(Counted') <= Cardinality(Counted) /\ Cardinality(Counted) \in Nat
        /\ Cardinality(Counted') \in Nat
    BY <1>3, Sizes
  <1>5. Cardinality(Counted') <= MaxActive BY <1>4, EmulatorSlotsAssumption DEF SlotInv
  <1>6. RacesAreSeen'
    BY <1>1, <1>2 DEF SlotInv, RacesAreSeen, Races, Busy
  <1> QED BY <1>1, <1>2, <1>5, <1>6 DEF SlotInv, PlacesAreReleased, LaunchesAreCounted

LEMMA SlotStep == SlotTypes /\ SlotInv /\ [Next]_vars => SlotInv'
  <1> SUFFICES ASSUME SlotTypes, SlotInv, [Next]_vars PROVE SlotInv' OBVIOUS
  <1>1. ASSUME NEW t \in Threads, NEW i \in Instances, CheckLaunch(t, i) PROVE SlotInv'
    BY <1>1, LaunchKeepsSlots
  <1>2. ASSUME NEW t \in Threads, NEW i \in Instances, BeginClose(t, i) PROVE SlotInv'
    BY <1>2, BeginCloseKeepsSlots
  <1>3. ASSUME NEW t \in Threads, Boot(t) PROVE SlotInv'
    <2>1. \A j : Launching(j)' = Launching(j) /\ Closing(j)' = Closing(j)
      BY <1>3 DEF Boot, Launching, Closing, SlotTypes
    <2>2. target[t] \in Instances /\ Launching(target[t]) # {}
      BY <1>3 DEF Boot, Launching, SlotTypes
    <2>3. target[t] \in starting \cup raced BY <2>2 DEF SlotInv, LaunchesAreCounted
    <2> QED BY <1>3, <2>1, <2>3, BootKeepsSlots DEF Boot
  <1>4. ASSUME NEW t \in Threads, LaunchReturns(t) PROVE SlotInv'
    <2>1. t \in Busy(target[t]) BY <1>4 DEF LaunchReturns, Busy, Launching
    <2>2. late' \subseteq raced' BY <1>4 DEF LaunchReturns, SlotInv, RacesAreSeen
    <2> QED BY <1>4, <2>1, <2>2, EndKeepsSlots DEF LaunchReturns
  <1>5. ASSUME NEW t \in Threads, LaunchFails(t) PROVE SlotInv'
    <2>1. t \in Busy(target[t]) BY <1>5 DEF LaunchFails, Busy, Launching
    <2>2. late' \subseteq raced' /\ raced \subseteq raced'
      BY <1>5 DEF LaunchFails, SlotInv, RacesAreSeen
    <2> QED BY <1>5, <2>1, <2>2, EndKeepsSlots DEF LaunchFails
  <1>6. ASSUME NEW t \in Threads, Halt(t) PROVE SlotInv'
    <2>1. \A j : Launching(j)' = Launching(j) /\ Closing(j)' = Closing(j)
      BY <1>6 DEF Halt, Launching, Closing, SlotTypes
    <2> QED BY <1>6, <2>1, BootKeepsSlots DEF Halt
  <1>7. ASSUME NEW t \in Threads, CloseReturns(t) PROVE SlotInv'
    <2>1. t \in Busy(target[t]) BY <1>7 DEF CloseReturns, Busy, Closing
    <2>2. late' \subseteq raced' BY <1>7 DEF CloseReturns, SlotInv, RacesAreSeen
    <2> QED BY <1>7, <2>1, <2>2, EndKeepsSlots DEF CloseReturns
  <1>8. ASSUME NEW i \in Instances, BootLate(i) PROVE SlotInv'
    <2>1. \A j : Launching(j)' = Launching(j) /\ Closing(j)' = Closing(j)
      BY <1>8 DEF BootLate, Launching, Closing
    <2>2. i \in raced BY <1>8 DEF BootLate, SlotInv, RacesAreSeen
    <2> QED BY <1>8, <2>1, <2>2, BootKeepsSlots DEF BootLate
  <1>9. CASE UNCHANGED vars
    BY <1>9 DEF vars, SlotInv, PlacesAreReleased, RacesAreSeen, LaunchesAreCounted, Counted, Busy, Launching, Closing
  <1> QED BY <1>1, <1>2, <1>3, <1>4, <1>5, <1>6, <1>7, <1>8, <1>9 DEF Next

LEMMA Slots == Spec => [](SlotTypes /\ SlotInv)
  <1> QED BY TypesInit, TypesStep, SlotInit, SlotStep, PTL DEF Spec

\* An instance is registered as starting only while some thread launches it,
\* whatever commands fail or are overtaken.
THEOREM EveryPlaceIsReleased == Spec => []PlacesAreReleased
  <1>1. SlotInv => PlacesAreReleased BY DEF SlotInv
  <1> QED BY <1>1, Slots, PTL

\* Only raced instances can come on top of the limit.
THEOREM LimitIsKept == Spec => []LaunchesKeepLimit
  <1>1. SlotTypes /\ SlotInv => LaunchesKeepLimit
    <2> SUFFICES ASSUME SlotTypes, SlotInv PROVE Cardinality(on \ raced) <= MaxActive
      BY DEF LaunchesKeepLimit
    <2>1. on \ raced \subseteq Counted /\ Counted \in SUBSET Instances
      BY DEF Counted, SlotTypes
    <2>2. /\ Cardinality(on \ raced) <= Cardinality(Counted)
          /\ Cardinality(on \ raced) \in Nat /\ Cardinality(Counted) \in Nat
      BY <2>1, Sizes
    <2> QED BY <2>2, EmulatorSlotsAssumption DEF SlotInv
  <1> QED BY <1>1, Slots, PTL
=============================================================================
