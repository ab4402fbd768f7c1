------------------------- MODULE TaskDispatchProofs -------------------------
(***************************************************************************)
(* What the scheduled_tasks queue keeps for any rows, any number of worker *)
(* threads, stops, crashes and failing database calls: its types, that a   *)
(* row is in one place, and that no marked row is lost.                    *)
(***************************************************************************)
EXTENDS TaskDispatch, FiniteSetTheorems, SequenceTheorems, TLAPS

Busy(w) == worker[w] \in {"taken", "runs"}

\* A thread with a task holds an item of the queue.
TypeInv == TypeOK /\ \A w \in Workers : Busy(w) => held[w] \in Items

LEMMA NoBatch == [t \in {} |-> 0] \in [DOMAIN [t \in {} |-> 0] -> Nat] /\ DOMAIN [t \in {} |-> 0] = {}
  OBVIOUS

\* What is left of a queue once its i-th item is taken.
LEMMA TakenFrom ==
  ASSUME NEW i \in DOMAIN queue, queue \in Seq(Items), NEW left,
         left = SubSeq(queue, 1, i - 1) \o SubSeq(queue, i + 1, Len(queue))
  PROVE  /\ left \in Seq(Items)
         /\ DOMAIN left = 1 .. Len(queue) - 1
         /\ \A j \in DOMAIN left : left[j] = IF j < i THEN queue[j] ELSE queue[j + 1]
  <1>1. Len(queue) \in Nat /\ DOMAIN queue = 1 .. Len(queue) BY LenProperties
  <1>2. i \in 1 .. Len(queue) BY <1>1
  <1> DEFINE a == SubSeq(queue, 1, i - 1)
             b == SubSeq(queue, i + 1, Len(queue))
  <1>0. Len(queue) \in Nat /\ i \in Int /\ 1 <= i /\ i <= Len(queue) BY <1>1, <1>2
  <1>9. \A j \in 1 .. Len(queue) : queue[j] \in Items BY <1>1, ElementOfSeq
  <1>3. /\ a \in Seq(Items) /\ Len(a) = i - 1
        /\ \A j \in 1 .. i - 1 : a[j] = queue[j]
    <2>1. /\ a \in Seq(Items) /\ Len(a) = IF 1 <= i - 1 THEN (i - 1) - 1 + 1 ELSE 0
          /\ \A j \in 1 .. (i - 1) - 1 + 1 : a[j] = queue[1 + j - 1]
      BY <1>0, <1>9, SubSeqProperties
    <2> HIDE DEF a
    <2> QED BY <1>0, <2>1
  <1>4. /\ b \in Seq(Items) /\ Len(b) = Len(queue) - i
        /\ \A j \in 1 .. Len(queue) - i : b[j] = queue[j + i]
    <2>1. /\ b \in Seq(Items) /\ Len(b) = IF i + 1 <= Len(queue) THEN Len(queue) - (i + 1) + 1 ELSE 0
          /\ \A j \in 1 .. Len(queue) - (i + 1) + 1 : b[j] = queue[i + 1 + j - 1]
      BY <1>0, <1>9, SubSeqProperties
    <2> HIDE DEF b
    <2>2. Len(b) = Len(queue) - i BY <1>0, <2>1
    <2>3. ASSUME NEW j \in 1 .. Len(queue) - i PROVE b[j] = queue[j + i]
      <3>1. j \in 1 .. Len(queue) - (i + 1) + 1 /\ i + 1 + j - 1 = j + i BY <1>0
      <3> QED BY <2>1, <3>1
    <2> QED BY <2>1, <2>2, <2>3
  <1> HIDE DEF a, b
  <1>5. left = a \o b BY DEF a, b
  <1>6. left \in Seq(Items) /\ Len(left) = Len(queue) - 1
    <2>1. left \in Seq(Items) /\ Len(left) = Len(a) + Len(b) BY <1>3, <1>4, <1>5, ConcatProperties
    <2>2. (i - 1) + (Len(queue) - i) = Len(queue) - 1 BY <1>0
    <2>3. Len(a) + Len(b) = (i - 1) + (Len(queue) - i) BY <1>3, <1>4
    <2> QED BY <2>1, <2>2, <2>3
  <1>7. DOMAIN left = 1 .. Len(queue) - 1 BY <1>6, LenProperties
  <1>8. ASSUME NEW j \in DOMAIN left PROVE left[j] = IF j < i THEN queue[j] ELSE queue[j + 1]
    <2>1. j \in Int /\ 1 <= j /\ j <= Len(queue) - 1 BY <1>0, <1>7
    <2>2. j \in 1 .. Len(a) + Len(b) BY <1>0, <1>3, <1>4, <2>1
    <2>3. left[j] = IF j <= i - 1 THEN a[j] ELSE b[j - (i - 1)]
      <3>1. left[j] = IF j <= Len(a) THEN a[j] ELSE b[j - Len(a)]
        <4>1. a \in Seq(Items) /\ b \in Seq(Items) BY <1>3, <1>4
        <4>2. \A k \in 1 .. Len(a) + Len(b) : (a \o b)[k] = IF k <= Len(a) THEN a[k] ELSE b[k - Len(a)]
          BY <4>1, ConcatProperties
        <4> QED BY <1>5, <2>2, <4>2
      <3> QED BY <1>3, <3>1
    <2>4. CASE j < i BY <1>0, <1>3, <2>1, <2>3, <2>4
    <2>5. CASE ~(j < i)
      <3>1. j - (i - 1) \in 1 .. Len(queue) - i /\ (j - (i - 1)) + i = j + 1 BY <1>0, <2>1, <2>5
      <3>2. b[j - (i - 1)] = queue[j + 1] BY <1>4, <3>1
      <3>3. ~(j <= i - 1) BY <1>0, <2>1, <2>5
      <3> QED BY <2>3, <2>5, <3>2, <3>3
    <2> QED BY <2>4, <2>5
  <1> QED BY <1>6, <1>7, <1>8

\* The worker removes item i and holds it.
LEMMA TakeStep ==
  ASSUME TypeInv, NEW w \in Workers, Take(w)
  PROVE  \E i \in DOMAIN queue :
           /\ held' = [held EXCEPT ![w] = queue[i]] /\ queue[i] \in Items
           /\ queue' \in Seq(Items) /\ DOMAIN queue' = 1 .. Len(queue) - 1
           /\ \A j \in DOMAIN queue' : queue'[j] = IF j < i THEN queue[j] ELSE queue[j + 1]
  <1>1. PICK i \in DOMAIN queue : held' = [held EXCEPT ![w] = queue[i]] /\ queue' = RemoveAt(queue, i)
    BY DEF Take
  <1>2. queue' = SubSeq(queue, 1, i - 1) \o SubSeq(queue, i + 1, Len(queue)) BY <1>1 DEF RemoveAt
  <1>3. queue \in Seq(Items) BY DEF TypeInv, TypeOK
  <1>4. queue[i] \in Items BY <1>3, LenProperties, ElementOfSeq
  <1> QED BY <1>1, <1>2, <1>3, <1>4, TakenFrom

----------------------------------------------------------------------------
(* Types *)

LEMMA TypesInit == Init => TypeInv
  <1> SUFFICES ASSUME Init PROVE TypeInv OBVIOUS
  <1>1. queue \in Seq(Items) BY EmptySeq DEF Init
  <1>2. DOMAIN batch \subseteq Tasks /\ batch \in [DOMAIN batch -> Nat] BY DEF Init
  <1>3. faults \in 0..MaxFaults /\ stops \in 0..MaxStops BY TaskDispatchAssumption DEF Init
  <1> QED BY <1>1, <1>2, <1>3 DEF Init, TypeInv, TypeOK, Busy

\* What stops put into the queue is a number of items.
LEMMA PillsCount == ASSUME TypeInv PROVE Cardinality(pool) \in Nat
  BY TaskDispatchAssumption, FS_Subset, FS_CardinalityType DEF TypeInv, TypeOK

LEMMA TypesStep == TypeInv /\ [Next]_vars => TypeInv'
  <1> SUFFICES ASSUME TypeInv, [Next]_vars PROVE TypeInv' OBVIOUS
  <1> USE DEF TypeInv, TypeOK, Busy, rows, threads, service, counts
  <1>1. ASSUME NEW t \in Tasks, Enqueue(t) PROVE TypeInv' BY <1>1 DEF Enqueue
  <1>2. ASSUME NEW t \in Tasks, RetryComesDue(t) PROVE TypeInv' BY <1>2 DEF RetryComesDue
  <1>3. CASE StartScheduler BY <1>3 DEF StartScheduler, StartPool, Alive
  <1>4. CASE StopScheduler BY <1>4, TaskDispatchAssumption DEF StopScheduler
  <1>5. CASE StopPool BY <1>5, PillsCount DEF StopPool
  <1>6. CASE EndStop BY <1>6 DEF EndStop
  <1>7. CASE ListDue BY <1>7 DEF ListDue, Due
  <1>8. CASE EndBatch BY <1>8 DEF EndBatch
  <1>9. CASE SchedulerEnds BY <1>9 DEF SchedulerEnds
  <1>10. CASE IterationFails BY <1>10, TaskDispatchAssumption DEF IterationFails
  <1>11. ASSUME NEW t \in Tasks, Refuse(t) PROVE TypeInv' BY <1>11 DEF Refuse, Rest, First
  <1>12. ASSUME NEW t \in Tasks, Dispatch(t) PROVE TypeInv'
    <2>1. [task |-> t, seen |-> batch[t]] \in Items BY <1>12 DEF Dispatch, First, Items
    <2>2. queue' \in Seq(Items) BY <1>12, <2>1, AppendProperties DEF Dispatch
    <2> QED BY <1>12, <2>2 DEF Dispatch, Rest, First
  <1>13. ASSUME NEW w \in Workers, Await(w) PROVE TypeInv' BY <1>13 DEF Await, Goto
  <1>14. ASSUME NEW w \in Workers, WorkerEnds(w) PROVE TypeInv' BY <1>14 DEF WorkerEnds, Goto
  <1>15. ASSUME NEW w \in Workers, GetTimesOut(w) PROVE TypeInv' BY <1>15 DEF GetTimesOut, Goto
  <1>16. ASSUME NEW w \in Workers, Take(w) PROVE TypeInv'
    <2>1. PICK i \in DOMAIN queue :
            held' = [held EXCEPT ![w] = queue[i]] /\ queue[i] \in Items /\ queue' \in Seq(Items)
      BY <1>16, TakeStep
    <2> QED BY <1>16, <2>1 DEF Take, Goto
  <1>17. ASSUME NEW w \in Workers, TakePill(w) PROVE TypeInv' BY <1>17 DEF TakePill, Goto
  <1>18. ASSUME NEW w \in Workers, MarkRunning(w) PROVE TypeInv'
    <2>0. held[w].task \in Tasks BY <1>18 DEF MarkRunning, Items
    <2>1. attempts' \in [Tasks -> Nat] BY <1>18, <2>0 DEF MarkRunning
    <2>2. status' = [status EXCEPT ![held[w].task] = "running"] /\ worker' = [worker EXCEPT ![w] = "runs"]
          /\ worker[w] = "taken" /\ UNCHANGED <<due, queue, pills, pool, quitting, held, service, counts>>
      BY <1>18 DEF MarkRunning, Goto
    <2> QED BY <2>1, <2>2
  <1>19. ASSUME NEW w \in Workers, NoPlugin(w) PROVE TypeInv' BY <1>19 DEF NoPlugin, LetGo, Goto
  <1>20. ASSUME NEW w \in Workers, Finish(w) PROVE TypeInv'
    <2> DEFINE t == held[w].task
    <2>1. \/ \E outcome \in {"completed", "aborted", "failed"} : Close(t, outcome)
          \/ Retry(t)
      BY <1>20 DEF Finish
    <2>2. /\ status' \in [Tasks -> {"absent", "pending", "queued", "running", "retrying",
                                    "completed", "failed", "aborted"}]
          /\ due' \in [Tasks -> BOOLEAN]
      BY <2>1 DEF Close, Retry
    <2>3. LetGo(w, "loop") /\ UNCHANGED <<attempts, queue, pills, pool, quitting, service, counts>>
      BY <1>20 DEF Finish
    <2> QED BY <2>2, <2>3 DEF LetGo, Goto
  <1>21. ASSUME NEW w \in Workers, WorkerDies(w) PROVE TypeInv'
    <2>1. held[w].task \in Tasks BY <1>21 DEF WorkerDies, Items
    <2>2. faults' \in 0..MaxFaults BY <1>21, TaskDispatchAssumption DEF WorkerDies
    <2> QED BY <1>21, <2>1, <2>2 DEF WorkerDies, LetGo, Goto
  <1>22. CASE Crash
    <2>1. queue' \in Seq(Items) BY <1>22, EmptySeq DEF Crash
    <2>2. faults' \in 0..MaxFaults BY <1>22, TaskDispatchAssumption DEF Crash
    <2>3. DOMAIN batch' \subseteq Tasks /\ batch' \in [DOMAIN batch' -> Nat] BY <1>22 DEF Crash
    <2>4. /\ worker' = [w \in Workers |-> "ended"] /\ held' = [w \in Workers |-> None]
          /\ pills' = 0 /\ pool' = {} /\ quitting' = FALSE /\ sched' = "ended" /\ halting' = FALSE
          /\ gui' = "idle" /\ UNCHANGED <<rows, stops>>
          /\ dropped' = dropped \cup {t \in Tasks : status[t] \in {"queued", "running"}}
      BY <1>22 DEF Crash
    <2> QED BY <2>1, <2>2, <2>3, <2>4
  <1>23. CASE UNCHANGED vars BY <1>23 DEF vars
  <1> QED BY <1>1, <1>2, <1>3, <1>4, <1>5, <1>6, <1>7, <1>8, <1>9, <1>10, <1>11, <1>12, <1>13, <1>14,
             <1>15, <1>16, <1>17, <1>18, <1>19, <1>20, <1>21, <1>22, <1>23 DEF Next, WorkerStep

LEMMA Typing == Spec => []TypeInv
  BY TypesInit, TypesStep, PTL DEF Spec

\* Rows, queue and threads keep their types (TypeOK), whatever stops, crashes and
\* failing database calls come between.
THEOREM DispatchTypeCorrect == Spec => []TypeOK
  <1>1. TypeInv => TypeOK BY DEF TypeInv
  <1> QED BY <1>1, Typing, PTL

----------------------------------------------------------------------------
(* Where the rows are *)

HeldTask(w) == held[w].task

\* A row's status says where it is.
PlaceInv ==
  /\ \A t \in DOMAIN batch : status[t] \in {"pending", "retrying"}
  /\ \A i \in DOMAIN queue : status[queue[i].task] = "queued"
  /\ \A i, j \in DOMAIN queue : queue[i].task = queue[j].task => i = j
  /\ \A w \in Workers : worker[w] = "taken" =>
       status[HeldTask(w)] = "queued" /\ \A i \in DOMAIN queue : queue[i].task # HeldTask(w)
  /\ \A w \in Workers : worker[w] = "runs" => status[HeldTask(w)] = "running"
  /\ \A v, w \in Workers : Busy(v) /\ Busy(w) /\ HeldTask(v) = HeldTask(w) => v = w

\* A row marked queued or running is in the queue or in a thread's hands.
FoundInv ==
  \A t \in Tasks \ dropped :
    /\ status[t] = "queued" =>
         \/ \E i \in DOMAIN queue : queue[i].task = t
         \/ \E w \in Workers : worker[w] = "taken" /\ HeldTask(w) = t
    /\ status[t] = "running" => \E w \in Workers : worker[w] = "runs" /\ HeldTask(w) = t

LEMMA PlacesInit == Init => PlaceInv /\ FoundInv
  BY DEF Init, PlaceInv, FoundInv, Busy

\* The tasks of items are rows.
LEMMA ItemTasks ==
  ASSUME TypeInv
  PROVE  /\ \A i \in DOMAIN queue : queue[i].task \in Tasks
         /\ \A w \in Workers : Busy(w) => HeldTask(w) \in Tasks
  <1>1. \A i \in DOMAIN queue : queue[i] \in Items
    BY LenProperties, ElementOfSeq DEF TypeInv, TypeOK
  <1> QED BY <1>1 DEF TypeInv, Items, HeldTask

\* A step that takes nothing from the queue and no task from a thread, and lists
\* only rows that wait, leaves every row where it is.
LEMMA Unmoved ==
  ASSUME PlaceInv, FoundInv, UNCHANGED <<status, queue>>, dropped \subseteq dropped',
         \A t \in DOMAIN batch' : status[t] \in {"pending", "retrying"},
         \A w \in Workers : Busy(w) \/ Busy(w)' => worker'[w] = worker[w] /\ held'[w] = held[w]
  PROVE  PlaceInv' /\ FoundInv'
  <1>1. \A w \in Workers : Busy(w) <=> Busy(w)' BY DEF Busy
  <1>2. \A w \in Workers : Busy(w) => HeldTask(w)' = HeldTask(w) BY DEF HeldTask
  <1>3. PlaceInv' BY <1>1, <1>2 DEF PlaceInv, Busy
  <1>4. FoundInv' BY <1>1, <1>2 DEF FoundInv, Busy
  <1> QED BY <1>3, <1>4

\* A thread lets go of its row, and the row's status says so.
LEMMA SettledRow ==
  ASSUME TypeInv, PlaceInv, FoundInv, NEW w \in Workers, Busy(w), LetGo(w, "loop"),
         NEW outcome \in {"completed", "failed", "aborted", "retrying"},
         status' = [status EXCEPT ![HeldTask(w)] = outcome],
         UNCHANGED <<queue, batch, dropped>>
  PROVE  PlaceInv' /\ FoundInv'
  <1> DEFINE t == HeldTask(w)
  <1>1. t \in Tasks /\ status[t] \in {"queued", "running"} BY ItemTasks DEF PlaceInv, Busy
  <1>2. status'[t] = outcome /\ \A u \in Tasks : u # t => status'[u] = status[u]
    BY <1>1 DEF TypeInv, TypeOK
  <1>3. /\ worker'[w] = "loop" /\ ~Busy(w)'
        /\ \A v \in Workers : v # w => worker'[v] = worker[v] /\ HeldTask(v)' = HeldTask(v)
    BY DEF LetGo, Goto, Busy, HeldTask, TypeInv, TypeOK
  <1>4. t \notin DOMAIN batch BY <1>1 DEF PlaceInv
  <1>5. \A i \in DOMAIN queue : queue[i].task # t BY DEF PlaceInv, Busy
  <1>6. \A v \in Workers : Busy(v) /\ v # w => HeldTask(v) # t BY DEF PlaceInv
  <1>10. HeldTask(w) = t /\ t \in Tasks BY <1>1
  <1> HIDE DEF t
  <1>7. DOMAIN batch \subseteq Tasks BY DEF TypeInv, TypeOK
  <1>8. PlaceInv' BY <1>2, <1>3, <1>4, <1>5, <1>6, <1>7, ItemTasks DEF PlaceInv, Busy
  <1>9. FoundInv' BY <1>2, <1>3, <1>5, <1>6, <1>10 DEF FoundInv, Busy
  <1> QED BY <1>8, <1>9

LEMMA PlacesStep == TypeInv /\ PlaceInv /\ FoundInv /\ [Next]_vars => PlaceInv' /\ FoundInv'
  <1> SUFFICES ASSUME TypeInv, PlaceInv, FoundInv, [Next]_vars PROVE PlaceInv' /\ FoundInv' OBVIOUS
  <1> USE DEF rows, threads, service, counts
  <1>a. \A t \in DOMAIN batch : status[t] \in {"pending", "retrying"} BY DEF PlaceInv
  <1>b. /\ worker \in [Workers -> {"ended", "loop", "waits", "taken", "runs"}]
        /\ held \in [Workers -> Items \cup {None}]
    BY DEF TypeInv, TypeOK
  <1>c. \A t \in DOMAIN batch : t \in Tasks BY DEF TypeInv, TypeOK
  <1>d. status \in [Tasks -> {"absent", "pending", "queued", "running", "retrying",
                              "completed", "failed", "aborted"}]
    BY DEF TypeInv, TypeOK
  <1>1. ASSUME NEW t \in Tasks, Enqueue(t) PROVE PlaceInv' /\ FoundInv'
    <2>1. /\ status[t] = "absent" /\ status' = [status EXCEPT ![t] = "pending"]
          /\ UNCHANGED <<queue, worker, held, batch, dropped>>
      BY <1>1 DEF Enqueue
    <2>2. PlaceInv' BY <1>c, <1>d, <2>1, ItemTasks DEF PlaceInv, Busy, HeldTask
    <2>3. FoundInv' BY <1>d, <2>1 DEF FoundInv, HeldTask
    <2> QED BY <2>2, <2>3
  <1>2. ASSUME NEW t \in Tasks, RetryComesDue(t) PROVE PlaceInv' /\ FoundInv'
    BY <1>2, <1>a, Unmoved DEF RetryComesDue
  <1>3. CASE StartScheduler
    BY <1>3, <1>a, Unmoved DEF StartScheduler, StartPool, Alive, Busy
  <1>4. CASE StopScheduler BY <1>4, <1>a, Unmoved DEF StopScheduler
  <1>5. CASE StopPool BY <1>5, <1>a, Unmoved DEF StopPool
  <1>6. CASE EndStop BY <1>6, <1>a, Unmoved DEF EndStop
  <1>7. CASE ListDue BY <1>7, Unmoved DEF ListDue, Due
  <1>8. CASE EndBatch BY <1>8, <1>a, Unmoved DEF EndBatch
  <1>9. CASE SchedulerEnds BY <1>9, <1>a, Unmoved DEF SchedulerEnds
  <1>10. CASE IterationFails BY <1>10, Unmoved DEF IterationFails
  <1>11. ASSUME NEW t \in Tasks, Refuse(t) PROVE PlaceInv' /\ FoundInv'
    BY <1>11, <1>a, Unmoved DEF Refuse, Rest
  <1>12. ASSUME NEW t \in Tasks, Dispatch(t) PROVE PlaceInv' /\ FoundInv'
    <2> DEFINE item == [task |-> t, seen |-> batch[t]]
    <2>1. /\ status' = [status EXCEPT ![t] = "queued"] /\ queue' = Append(queue, item)
          /\ DOMAIN batch' = DOMAIN batch \ {t} /\ status[t] \in {"pending", "retrying"}
          /\ UNCHANGED <<worker, held, dropped>>
      BY <1>12, <1>a DEF Dispatch, First, Rest
    <2>2. item \in Items BY <1>12 DEF Dispatch, First, Items, TypeInv, TypeOK
    <2>3. /\ Len(queue) \in Nat /\ DOMAIN queue = 1 .. Len(queue) /\ DOMAIN queue' = 1 .. Len(queue) + 1
          /\ \A i \in DOMAIN queue : queue'[i] = queue[i]
          /\ queue'[Len(queue) + 1] = item
      BY <2>1, <2>2, LenProperties, AppendProperties DEF TypeInv, TypeOK
    <2>4. item.task = t OBVIOUS
    <2> HIDE DEF item
    <2>5. \A i \in DOMAIN queue : queue[i].task # t /\ queue[i].task \in Tasks
      BY <2>1, ItemTasks DEF PlaceInv
    <2>6. \A w \in Workers : Busy(w) => HeldTask(w) # t /\ HeldTask(w) \in Tasks
      BY <2>1, ItemTasks DEF PlaceInv, Busy
    <2>7. \A w \in Workers : HeldTask(w)' = HeldTask(w) BY <2>1 DEF HeldTask
    <2>8. status'[t] = "queued" /\ \A u \in Tasks : u # t => status'[u] = status[u] BY <1>d, <2>1
    <2>9. \A i \in DOMAIN queue' : i \in DOMAIN queue \/ i = Len(queue) + 1 BY <2>3
    <2>10. PlaceInv'
      BY <1>c, <2>1, <2>3, <2>4, <2>5, <2>6, <2>7, <2>8, <2>9 DEF PlaceInv, Busy
    <2>11. FoundInv'
      <3>1. \E i \in DOMAIN queue' : queue'[i].task = t BY <2>3, <2>4
      <3>2. DOMAIN queue \subseteq DOMAIN queue' BY <2>3
      <3> QED BY <2>1, <2>3, <2>7, <2>8, <3>1, <3>2 DEF FoundInv
    <2> QED BY <2>10, <2>11
  <1>13. ASSUME NEW w \in Workers, Await(w) PROVE PlaceInv' /\ FoundInv'
    BY <1>13, <1>a, <1>b, Unmoved DEF Await, Goto, Busy
  <1>14. ASSUME NEW w \in Workers, WorkerEnds(w) PROVE PlaceInv' /\ FoundInv'
    BY <1>14, <1>a, <1>b, Unmoved DEF WorkerEnds, Goto, Busy
  <1>15. ASSUME NEW w \in Workers, GetTimesOut(w) PROVE PlaceInv' /\ FoundInv'
    BY <1>15, <1>a, <1>b, Unmoved DEF GetTimesOut, Goto, Busy
  <1>16. ASSUME NEW w \in Workers, TakePill(w) PROVE PlaceInv' /\ FoundInv'
    BY <1>16, <1>a, <1>b, Unmoved DEF TakePill, Goto, Busy
  <1>17. ASSUME NEW w \in Workers, Take(w) PROVE PlaceInv' /\ FoundInv'
    <2>1. PICK i \in DOMAIN queue :
            /\ held' = [held EXCEPT ![w] = queue[i]]
            /\ DOMAIN queue' = 1 .. Len(queue) - 1
            /\ \A j \in DOMAIN queue' : queue'[j] = IF j < i THEN queue[j] ELSE queue[j + 1]
      BY <1>17, TakeStep
    <2>2. Len(queue) \in Nat /\ DOMAIN queue = 1 .. Len(queue) BY LenProperties DEF TypeInv, TypeOK
    <2>3. /\ worker[w] = "waits" /\ worker' = [worker EXCEPT ![w] = "taken"]
          /\ UNCHANGED <<status, batch, dropped>>
      BY <1>17 DEF Take, Goto
    <2> DEFINE t == queue[i].task
               Old(j) == IF j < i THEN j ELSE j + 1
    <2>4. /\ worker'[w] = "taken" /\ HeldTask(w)' = t /\ Busy(w)' /\ ~Busy(w)
          /\ \A v \in Workers : v # w => worker'[v] = worker[v] /\ HeldTask(v)' = HeldTask(v)
      BY <1>b, <2>1, <2>3 DEF HeldTask, Busy
    <2>5. \A j \in DOMAIN queue' : Old(j) \in DOMAIN queue /\ Old(j) # i /\ queue'[j] = queue[Old(j)]
      BY <2>1, <2>2
    <2>6. \A j, k \in DOMAIN queue' : Old(j) = Old(k) => j = k BY <2>1, <2>2
    <2>7. \A k \in DOMAIN queue : k # i => \E j \in DOMAIN queue' : Old(j) = k
      <3> SUFFICES ASSUME NEW k \in DOMAIN queue, k # i PROVE \E j \in DOMAIN queue' : Old(j) = k OBVIOUS
      <3>1. CASE k < i
        <4>1. k \in DOMAIN queue' /\ Old(k) = k BY <2>1, <2>2, <3>1
        <4> QED BY <4>1
      <3>2. CASE ~(k < i)
        <4>1. k - 1 \in DOMAIN queue' /\ Old(k - 1) = k BY <2>1, <2>2, <3>2
        <4> QED BY <4>1
      <3> QED BY <3>1, <3>2
    <2> HIDE DEF t, Old
    <2>8. \A k \in DOMAIN queue : k # i => queue[k].task # t BY <2>1 DEF PlaceInv, t
    <2>9. /\ status[t] = "queued"
          /\ \A v \in Workers : Busy(v) => HeldTask(v) # t
      BY <2>1 DEF PlaceInv, Busy, t
    <2>10. PlaceInv' BY <2>3, <2>4, <2>5, <2>6, <2>8, <2>9 DEF PlaceInv, Busy
    <2>11. FoundInv'
      <3> SUFFICES ASSUME NEW u \in Tasks \ dropped
                   PROVE  /\ status[u] = "queued" =>
                               \/ \E j \in DOMAIN queue' : queue'[j].task = u
                               \/ \E v \in Workers : worker'[v] = "taken" /\ HeldTask(v)' = u
                          /\ status[u] = "running" =>
                               \E v \in Workers : worker'[v] = "runs" /\ HeldTask(v)' = u
        BY <2>3 DEF FoundInv
      <3>1. ASSUME status[u] = "queued", NEW k \in DOMAIN queue, queue[k].task = u
            PROVE  \/ \E j \in DOMAIN queue' : queue'[j].task = u
                   \/ \E v \in Workers : worker'[v] = "taken" /\ HeldTask(v)' = u
        <4>1. CASE k = i BY <2>4, <3>1, <4>1 DEF t
        <4>2. CASE k # i BY <2>5, <2>7, <3>1, <4>2
        <4> QED BY <4>1, <4>2
      <3> QED BY <2>3, <2>4, <3>1 DEF FoundInv
    <2> QED BY <2>10, <2>11
  <1>18. ASSUME NEW w \in Workers, MarkRunning(w) PROVE PlaceInv' /\ FoundInv'
    <2> DEFINE t == HeldTask(w)
    <2>1. /\ worker[w] = "taken" /\ worker' = [worker EXCEPT ![w] = "runs"]
          /\ status' = [status EXCEPT ![t] = "running"] /\ UNCHANGED <<queue, held, batch, dropped>>
      BY <1>18 DEF MarkRunning, Goto, HeldTask
    <2>2. t \in Tasks /\ status[t] = "queued" BY <2>1, ItemTasks DEF PlaceInv, Busy
    <2>3. status'[t] = "running" /\ \A u \in Tasks : u # t => status'[u] = status[u] BY <1>d, <2>1, <2>2
    <2>4. /\ worker'[w] = "runs" /\ Busy(w) /\ HeldTask(w)' = t
          /\ \A v \in Workers : v # w => worker'[v] = worker[v]
          /\ \A v \in Workers : HeldTask(v)' = HeldTask(v)
      BY <1>b, <2>1 DEF Busy, HeldTask
    <2>5. /\ t \notin DOMAIN batch
          /\ \A i \in DOMAIN queue : queue[i].task # t
          /\ \A v \in Workers : Busy(v) /\ v # w => HeldTask(v) # t
      BY <2>1, <2>2, <2>4 DEF PlaceInv
    <2> HIDE DEF t
    <2>6. PlaceInv' BY <1>c, <2>1, <2>3, <2>4, <2>5, ItemTasks DEF PlaceInv, Busy
    <2>7. FoundInv' BY <2>1, <2>3, <2>4, <2>5 DEF FoundInv, Busy
    <2> QED BY <2>6, <2>7
  <1>19. ASSUME NEW w \in Workers, NoPlugin(w) PROVE PlaceInv' /\ FoundInv'
    BY <1>19, SettledRow DEF NoPlugin, HeldTask, Busy
  <1>20. ASSUME NEW w \in Workers, Finish(w) PROVE PlaceInv' /\ FoundInv'
    <2>1. PICK outcome \in {"completed", "failed", "aborted", "retrying"} :
            status' = [status EXCEPT ![HeldTask(w)] = outcome]
      BY <1>20 DEF Finish, Close, Retry, HeldTask
    <2>2. Busy(w) /\ LetGo(w, "loop") /\ UNCHANGED <<queue, batch, dropped>> BY <1>20 DEF Finish, Busy
    <2> QED BY <2>1, <2>2, SettledRow
  <1>21. ASSUME NEW w \in Workers, WorkerDies(w) PROVE PlaceInv' /\ FoundInv'
    <2>1. /\ Busy(w) /\ dropped' = dropped \cup {HeldTask(w)}
          /\ worker'[w] = "ended" /\ UNCHANGED <<status, queue, batch>>
          /\ \A v \in Workers : v # w => worker'[v] = worker[v] /\ HeldTask(v)' = HeldTask(v)
      BY <1>21, <1>b DEF WorkerDies, Busy, LetGo, Goto, HeldTask
    <2>2. PlaceInv' BY <2>1 DEF PlaceInv, Busy
    <2>3. FoundInv' BY <2>1 DEF FoundInv, Busy
    <2> QED BY <2>2, <2>3
  <1>22. CASE Crash
    <2>1. /\ queue' = <<>> /\ worker' = [w \in Workers |-> "ended"] /\ batch' = [t \in {} |-> 0]
          /\ dropped' = dropped \cup {t \in Tasks : status[t] \in {"queued", "running"}}
          /\ UNCHANGED status
      BY <1>22 DEF Crash
    <2>2. PlaceInv' BY <2>1 DEF PlaceInv, Busy
    <2>3. FoundInv' BY <2>1 DEF FoundInv
    <2> QED BY <2>2, <2>3
  <1>23. CASE UNCHANGED vars BY <1>23, <1>a, Unmoved DEF vars
  <1> QED BY <1>1, <1>2, <1>3, <1>4, <1>5, <1>6, <1>7, <1>8, <1>9, <1>10, <1>11, <1>12, <1>13, <1>14,
             <1>15, <1>16, <1>17, <1>18, <1>19, <1>20, <1>21, <1>22, <1>23 DEF Next, WorkerStep

LEMMA Places == Spec => [](TypeInv /\ PlaceInv /\ FoundInv)
  BY TypesInit, TypesStep, PlacesInit, PlacesStep, PTL DEF Spec

\* A set whose members are all the same has at most one.
LEMMA AtMostOne ==
  ASSUME NEW S, \A x, y \in S : x = y
  PROVE  Cardinality(S) \in 0..1 /\ (S = {} => Cardinality(S) = 0)
  <1>1. CASE S = {} BY <1>1, FS_EmptySet
  <1>2. ASSUME NEW x \in S PROVE Cardinality(S) = 1
    <2>1. S = {x} OBVIOUS
    <2> QED BY <2>1, FS_Singleton
  <1> QED BY <1>1, <1>2

\* A row is in one place: never queued twice, held by two workers, or run while it
\* is queued or listed, whatever threads of stopped and started pools do.
THEOREM RowsRunAlone == Spec => []TasksRunAlone
  <1>1. ASSUME TypeInv, PlaceInv, NEW t \in Tasks
        PROVE  Cardinality(InQueue(t)) + Cardinality(Holders(t))
                 + (IF t \in DOMAIN batch THEN 1 ELSE 0) <= 1
    <2>1. \A i, j \in InQueue(t) : i = j BY <1>1 DEF PlaceInv, InQueue
    <2>2. \A v, w \in Holders(t) : v = w BY <1>1 DEF PlaceInv, Holders, Busy, HeldTask
    <2>3. InQueue(t) # {} => status[t] = "queued" /\ Holders(t) = {}
      BY <1>1 DEF PlaceInv, InQueue, Holders, HeldTask
    <2>4. Holders(t) # {} => status[t] \in {"queued", "running"}
      BY <1>1 DEF PlaceInv, Holders, HeldTask
    <2>5. t \in DOMAIN batch => InQueue(t) = {} /\ Holders(t) = {} BY <1>1, <2>3, <2>4 DEF PlaceInv
    <2>6. Cardinality(InQueue(t)) \in 0..1 /\ (InQueue(t) = {} => Cardinality(InQueue(t)) = 0)
      BY <2>1, AtMostOne
    <2>7. Cardinality(Holders(t)) \in 0..1 /\ (Holders(t) = {} => Cardinality(Holders(t)) = 0)
      BY <2>2, AtMostOne
    <2> QED BY <2>3, <2>5, <2>6, <2>7
  <1>2. TypeInv /\ PlaceInv => TasksRunAlone BY <1>1 DEF TasksRunAlone
  <1> QED BY <1>2, Places, PTL

\* Short of a crash or a failing database call, a row marked queued or running is
\* in the queue or in a worker's hands, and only then is it so marked.
THEOREM MarkedRowsAreHeld == Spec => []MarkedTasksAreHeld
  <1>1. PlaceInv /\ FoundInv => MarkedTasksAreHeld
    BY DEF PlaceInv, FoundInv, MarkedTasksAreHeld, InQueue, Holders, HeldTask
  <1> QED BY <1>1, Places, PTL
=============================================================================
