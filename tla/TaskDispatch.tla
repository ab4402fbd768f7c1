---------------------------- MODULE TaskDispatch -----------------------------
(***************************************************************************)
(* The scheduled_tasks queue: Scheduler's thread lists the due rows, marks *)
(* them queued and submits them to WorkerPool's priority queue; worker     *)
(* threads take them and run them through TaskManager.execute, which       *)
(* counts the attempt and records the outcome.  The GUI thread starts and  *)
(* stops all of it, waiting for threads only so long.                      *)
(*                                                                         *)
(* Abstracted: the clock.  A retrying row comes due some time, and the     *)
(* order of the rows by scheduled_for is left open where the code uses it  *)
(* (list_due within a priority, list_recent).                              *)
(*                                                                         *)
(* An operator Name_Variant is a plausible mistake in Name, used by        *)
(* nothing: it shows which property would catch it.                        *)
(***************************************************************************)
EXTENDS Naturals, Sequences, FiniteSets, SequencesExt

CONSTANTS
  Tasks,         \* the rows scheduled_tasks may get
  Work,          \* Work[t]: the character, march slot and task type of row t
  Priority,      \* Priority[t]: lower is sooner
  Delaying,      \* rows whose plugin may ask for a later retry (gathering)
  Unregistered,  \* rows whose task type has no plugin
  Workers,       \* thread identities
  MaxWorkers,    \* scheduler.max_workers
  MaxAttempts,   \* ErrorRecoveryPolicy.max_attempts
  RecentLimit,   \* how many rows list_recent returns
  MaxFaults,     \* bound on failing database calls and crashes
  MaxStops       \* bound on stops

ASSUME TaskDispatchAssumption ==
  /\ Delaying \subseteq Tasks /\ Unregistered \subseteq Tasks
  /\ IsFiniteSet(Workers)
  /\ Priority \in [Tasks -> Nat]
  /\ MaxWorkers \in Nat \ {0} /\ MaxAttempts \in Nat /\ RecentLimit \in Nat \ {0}
  /\ MaxFaults \in Nat /\ MaxStops \in Nat

VARIABLES
  status,    \* status[t] of the row
  attempts,  \* attempts[t] of the row
  due,       \* due[t]: scheduled_for is not in the future
  queue,     \* the pool's queue of [task, seen], seen the attempts when listed
  pills,     \* items without a task, put by WorkerPool.stop
  pool,      \* WorkerPool._threads
  quitting,  \* WorkerPool._stop_event
  worker,    \* worker[w]: where thread w is
  held,      \* held[w]: the item w took
  sched,     \* where the scheduler's thread is
  halting,   \* Scheduler._stop_event
  batch,     \* batch[t]: attempts of the listed rows yet to be dispatched
  gui,       \* where the GUI thread is in Scheduler.stop
  faults, stops,
  dropped    \* history: the rows a fault took out of every thread's hands

rows == <<status, attempts, due>>
threads == <<queue, pills, pool, quitting, worker, held>>
service == <<sched, halting, batch, gui>>
counts == <<faults, stops, dropped>>
vars == <<rows, threads, service, counts>>

None == [task |-> "none", seen |-> 0]

Open(t) == status[t] \in {"pending", "queued", "running", "retrying"}
Closed(t) == status[t] \in {"completed", "failed", "aborted"}
Alive(w) == worker[w] # "ended"

Init ==
  /\ status = [t \in Tasks |-> "absent"]
  /\ attempts = [t \in Tasks |-> 0]
  /\ due = [t \in Tasks |-> FALSE]
  /\ queue = <<>> /\ pills = 0
  /\ pool = {} /\ quitting = FALSE
  /\ worker = [w \in Workers |-> "ended"]
  /\ held = [w \in Workers |-> None]
  /\ sched = "ended" /\ halting = FALSE
  /\ batch = [t \in {} |-> 0]
  /\ gui = "idle"
  /\ faults = 0 /\ stops = 0
  /\ dropped = {}

----------------------------------------------------------------------------
(* Rows *)

\* schedule_enabled_work: a new row, unless an open one is for the same work
Enqueue(t) ==
  /\ status[t] = "absent"
  /\ \A u \in Tasks : Work[u] = Work[t] => ~Open(u)
  /\ status' = [status EXCEPT ![t] = "pending"]
  /\ due' = [due EXCEPT ![t] = TRUE]
  /\ UNCHANGED <<attempts, threads, service, counts>>

RetryComesDue(t) ==
  /\ status[t] = "retrying" /\ ~due[t]
  /\ due' = [due EXCEPT ![t] = TRUE]
  /\ UNCHANGED <<status, attempts, threads, service, counts>>

Due == {t \in Tasks : status[t] \in {"pending", "retrying"} /\ due[t]}

Capacity == MaxWorkers * 2

\* list_due: the rows it may return, by priority and limited
Listed(S) ==
  /\ S \subseteq Due
  /\ Cardinality(S) = IF Cardinality(Due) < Capacity THEN Cardinality(Due) ELSE Capacity
  /\ \A t \in S, u \in Due \ S : Priority[t] <= Priority[u]

\* list_recent may leave row t out: enough other rows can be later ones
MayBeHidden(t) == Cardinality({u \in Tasks \ {t} : status[u] # "absent"}) >= RecentLimit

\* The attempts TaskManager.execute hands to the policy
KnownAttempts(item) ==
  {attempts[item.task]} \cup (IF MayBeHidden(item.task) THEN {item.seen} ELSE {})

\* ErrorRecoveryPolicy.decide
GivesUp(n) == n >= MaxAttempts

----------------------------------------------------------------------------
(* The GUI thread: Scheduler.start and stop *)

\* WorkerPool.start: MaxWorkers new threads, whatever threads of an earlier start
\* do.  Its list is empty here: every stop ends by clearing it.
StartPool ==
  \E new \in SUBSET {w \in Workers : ~Alive(w)} :
    /\ Cardinality(new) = MaxWorkers
    /\ pool' = new
    /\ worker' = [w \in Workers |-> IF w \in new THEN "loop" ELSE worker[w]]

StartScheduler ==
  /\ gui = "idle" /\ sched = "ended"
  /\ halting' = FALSE
  /\ pool = {} /\ StartPool
  /\ quitting' = FALSE
  /\ sched' = "loop"
  /\ UNCHANGED <<rows, queue, pills, held, batch, gui, counts>>

\* Scheduler.stop sets its event and waits up to 3 s for its thread.
StopScheduler ==
  /\ gui = "idle" /\ sched # "ended"
  /\ stops < MaxStops
  /\ stops' = stops + 1
  /\ halting' = TRUE
  /\ gui' = "waits"
  /\ UNCHANGED <<rows, threads, sched, batch, faults, dropped>>

StopPool_Drains ==
  /\ gui = "waits"
  /\ quitting' = TRUE
  /\ queue' = <<>> /\ pills' = Cardinality(pool)
  /\ gui' = "joins"
  /\ UNCHANGED <<rows, pool, worker, held, sched, halting, batch, counts>>

\* WorkerPool.stop: one item without a task for each thread
StopPool ==
  /\ gui = "waits"
  /\ quitting' = TRUE
  /\ pills' = pills + Cardinality(pool)
  /\ gui' = "joins"
  /\ UNCHANGED <<rows, queue, pool, worker, held, sched, halting, batch, counts>>

\* Every thread is joined for up to 2 s, enough for one that waits in queue.get
\* (for 0.5 s) and not for one with a task; then the list is cleared.
EndStop ==
  /\ gui = "joins"
  /\ \A w \in pool : worker[w] \in {"taken", "runs", "ended"}
  /\ pool' = {}
  /\ gui' = "idle"
  /\ UNCHANGED <<rows, queue, pills, quitting, worker, held, sched, halting, batch, counts>>

----------------------------------------------------------------------------
(* The scheduler's thread: _run_loop and dispatch_due_tasks *)

ListDue ==
  /\ sched = "loop" /\ ~halting
  /\ \E S \in SUBSET Due :
       /\ Listed(S)
       /\ batch' = [t \in S |-> attempts[t]]
  /\ sched' = "dispatch"
  /\ UNCHANGED <<rows, threads, halting, gui, counts>>

First(t) == t \in DOMAIN batch /\ \A u \in DOMAIN batch : Priority[t] <= Priority[u]

Rest(t) == [u \in DOMAIN batch \ {t} |-> batch[u]]

\* external: an open circuit breaker or the limit of running instances refuses
Refuse(t) ==
  /\ sched = "dispatch" /\ First(t)
  /\ batch' = Rest(t)
  /\ UNCHANGED <<rows, threads, sched, halting, gui, counts>>

Dispatch_Unmarked(t) ==
  /\ sched = "dispatch" /\ First(t)
  /\ queue' = Append(queue, [task |-> t, seen |-> batch[t]])
  /\ batch' = Rest(t)
  /\ UNCHANGED <<rows, pills, pool, quitting, worker, held, sched, halting, gui, counts>>

\* mark_queued, whatever the row's status is by now, and submit
Dispatch(t) ==
  /\ sched = "dispatch" /\ First(t)
  /\ status' = [status EXCEPT ![t] = "queued"]
  /\ queue' = Append(queue, [task |-> t, seen |-> batch[t]])
  /\ batch' = Rest(t)
  /\ UNCHANGED <<attempts, due, pills, pool, quitting, worker, held, sched, halting, gui, counts>>

EndBatch ==
  /\ sched = "dispatch" /\ batch = [t \in {} |-> 0]
  /\ sched' = "loop"
  /\ UNCHANGED <<rows, threads, halting, batch, gui, counts>>

SchedulerEnds ==
  /\ sched = "loop" /\ halting
  /\ sched' = "ended"
  /\ UNCHANGED <<rows, threads, halting, batch, gui, counts>>

\* A database call fails: the iteration is over, the listed rows stay as they are.
IterationFails ==
  /\ faults < MaxFaults
  /\ faults' = faults + 1
  /\ sched = "dispatch"
  /\ sched' = "loop"
  /\ batch' = [t \in {} |-> 0]
  /\ UNCHANGED <<rows, threads, halting, gui, stops, dropped>>

----------------------------------------------------------------------------
(* The worker threads: _worker_loop and TaskManager.execute *)

Goto(w, place) == worker' = [worker EXCEPT ![w] = place]

\* while not stop_event: queue.get
Await(w) ==
  /\ worker[w] = "loop" /\ ~quitting
  /\ Goto(w, "waits")
  /\ UNCHANGED <<rows, queue, pills, pool, quitting, held, service, counts>>

WorkerEnds(w) ==
  /\ worker[w] = "loop" /\ quitting
  /\ Goto(w, "ended")
  /\ UNCHANGED <<rows, queue, pills, pool, quitting, held, service, counts>>

GetTimesOut(w) ==
  /\ worker[w] = "waits" /\ queue = <<>> /\ pills = 0
  /\ Goto(w, "loop")
  /\ UNCHANGED <<rows, queue, pills, pool, quitting, held, service, counts>>

\* The item of lowest priority, and of those the one put first
Foremost(i) ==
  \A j \in DOMAIN queue :
    \/ Priority[queue[i].task] < Priority[queue[j].task]
    \/ Priority[queue[i].task] = Priority[queue[j].task] /\ i <= j

Take(w) ==
  /\ worker[w] = "waits"
  /\ \E i \in DOMAIN queue :
       /\ Foremost(i)
       /\ held' = [held EXCEPT ![w] = queue[i]]
       /\ queue' = RemoveAt(queue, i)
  /\ Goto(w, "taken")
  /\ UNCHANGED <<rows, pills, pool, quitting, service, counts>>

TakePill_FromEmpty(w) ==
  /\ worker[w] = "waits" /\ queue = <<>>
  /\ pills' = pills - 1
  /\ Goto(w, "loop")
  /\ UNCHANGED <<rows, queue, pool, quitting, held, service, counts>>

\* Tasks come before items without a task.
TakePill(w) ==
  /\ worker[w] = "waits" /\ queue = <<>> /\ pills > 0
  /\ pills' = pills - 1
  /\ Goto(w, "loop")
  /\ UNCHANGED <<rows, queue, pool, quitting, held, service, counts>>

LetGo(w, place) == Goto(w, place) /\ held' = [held EXCEPT ![w] = None]

MarkRunning(w) ==
  LET t == held[w].task IN
    /\ worker[w] = "taken" /\ t \notin Unregistered
    /\ status' = [status EXCEPT ![t] = "running"]
    /\ attempts' = [attempts EXCEPT ![t] = @ + 1]
    /\ Goto(w, "runs")
    /\ UNCHANGED <<due, queue, pills, pool, quitting, held, service, counts>>

NoPlugin(w) ==
  LET t == held[w].task IN
    /\ worker[w] = "taken" /\ t \in Unregistered
    /\ status' = [status EXCEPT ![t] = "failed"]
    /\ LetGo(w, "loop")
    /\ UNCHANGED <<attempts, due, queue, pills, pool, quitting, service, counts>>

Retry(t) ==
  /\ status' = [status EXCEPT ![t] = "retrying"]
  /\ due' = [due EXCEPT ![t] = FALSE]

Close(t, outcome) == status' = [status EXCEPT ![t] = outcome] /\ UNCHANGED due

\* The plugin returns, or raises, and its outcome is recorded.  A delay asked for
\* by the plugin is granted without the policy (here at most MaxAttempts times).
Finish(w) ==
  LET t == held[w].task IN
    /\ worker[w] = "runs"
    /\ \/ Close(t, "completed")
       \/ Close(t, "aborted")
       \/ t \in Delaying /\ attempts[t] <= MaxAttempts /\ Retry(t)
       \/ \E n \in KnownAttempts(held[w]) : IF GivesUp(n) THEN Close(t, "failed") ELSE Retry(t)
    /\ LetGo(w, "loop")
    /\ UNCHANGED <<attempts, queue, pills, pool, quitting, service, counts>>

\* mark_running or the recording of the outcome raises: nothing in _worker_loop
\* catches it, the thread ends and the row keeps its status.
WorkerDies(w) ==
  /\ faults < MaxFaults
  /\ faults' = faults + 1
  /\ worker[w] \in {"taken", "runs"}
  /\ dropped' = dropped \cup {held[w].task}
  /\ LetGo(w, "ended")
  /\ UNCHANGED <<rows, queue, pills, pool, quitting, service, stops>>

\* The process dies and is started again: only the rows survive.
Crash ==
  /\ faults < MaxFaults
  /\ faults' = faults + 1
  /\ dropped' = dropped \cup {t \in Tasks : status[t] \in {"queued", "running"}}
  /\ queue' = <<>> /\ pills' = 0
  /\ pool' = {} /\ quitting' = FALSE
  /\ worker' = [w \in Workers |-> "ended"]
  /\ held' = [w \in Workers |-> None]
  /\ sched' = "ended" /\ halting' = FALSE
  /\ batch' = [t \in {} |-> 0]
  /\ gui' = "idle"
  /\ UNCHANGED <<rows, stops>>

WorkerStep(w) ==
  \/ Await(w) \/ WorkerEnds(w) \/ GetTimesOut(w) \/ Take(w) \/ TakePill(w)
  \/ MarkRunning(w) \/ NoPlugin(w) \/ Finish(w)

Next ==
  \/ \E t \in Tasks : Enqueue(t) \/ RetryComesDue(t)
  \/ StartScheduler \/ StopScheduler \/ StopPool \/ EndStop
  \/ ListDue \/ EndBatch \/ SchedulerEnds \/ IterationFails
  \/ \E t \in Tasks : Refuse(t) \/ Dispatch(t)
  \/ \E w \in Workers : WorkerStep(w) \/ WorkerDies(w)
  \/ Crash

Spec == Init /\ [][Next]_vars

\* Threads are scheduled, plugins return, retries come due, and the guard of
\* dispatch does not refuse the same row for ever.
LiveSpec ==
  /\ Spec
  /\ WF_vars(ListDue) /\ WF_vars(EndBatch) /\ WF_vars(SchedulerEnds)
  /\ WF_vars(StopPool) /\ WF_vars(EndStop)
  /\ \A t \in Tasks : WF_vars(RetryComesDue(t)) /\ WF_vars(Refuse(t)) /\ SF_vars(Dispatch(t))
  /\ \A w \in Workers :
       WF_vars(WorkerStep(w)) /\ SF_vars(Take(w))

----------------------------------------------------------------------------
(* Properties *)

Items == [task : Tasks, seen : Nat]

\* Rows, queue and threads keep their types.
TypeOK ==
  /\ status \in [Tasks -> {"absent", "pending", "queued", "running", "retrying",
                           "completed", "failed", "aborted"}]
  /\ attempts \in [Tasks -> Nat]
  /\ due \in [Tasks -> BOOLEAN]
  /\ queue \in Seq(Items) /\ pills \in Nat
  /\ pool \subseteq Workers /\ quitting \in BOOLEAN
  /\ worker \in [Workers -> {"ended", "loop", "waits", "taken", "runs"}]
  /\ held \in [Workers -> Items \cup {None}]
  /\ sched \in {"ended", "loop", "dispatch"} /\ halting \in BOOLEAN
  /\ DOMAIN batch \subseteq Tasks /\ batch \in [DOMAIN batch -> Nat]
  /\ gui \in {"idle", "waits", "joins"}
  /\ faults \in 0..MaxFaults /\ stops \in 0..MaxStops
  /\ dropped \subseteq Tasks

InQueue(t) == {i \in DOMAIN queue : queue[i].task = t}
Holders(t) == {w \in Workers : worker[w] \in {"taken", "runs"} /\ held[w].task = t}

\* A row is in one place: whatever threads of stopped and started pools do, no row
\* is queued twice, held by two workers, or run while it is queued or listed.
TasksRunAlone ==
  \A t \in Tasks :
    Cardinality(InQueue(t)) + Cardinality(Holders(t)) + (IF t \in DOMAIN batch THEN 1 ELSE 0) <= 1

\* Short of a crash or a failing database call, a row marked queued or running is
\* in the queue or in a worker's hands: stops, joins that time out and the items
\* that wake workers up lose none.
MarkedTasksAreHeld ==
  \A t \in Tasks \ dropped :
    /\ status[t] = "queued" <=>
         InQueue(t) # {} \/ \E w \in Holders(t) : worker[w] = "taken"
    /\ status[t] = "running" <=> \E w \in Holders(t) : worker[w] = "runs"

\* The scheduler runs and has a worker left.
Serving == sched # "ended" /\ gui = "idle" /\ \E w \in pool : Alive(w)

\* While it is serving, every open row is settled, unless a fault dropped it.
TasksSettle ==
  \A t \in Tasks : Open(t) ~> Closed(t) \/ t \in dropped \/ ~Serving

\* docs/architecture.md: "Stop retrying after max attempts.", stated of rows whose
\* plugin never asks for a delay.
RetriesStop == \A t \in Tasks \ Delaying : attempts[t] <= MaxAttempts

\* README.md: "scheduler.max_workers: Maximum worker threads".  Stated of those that
\* run a task, however many idle threads there are.
WorkersBounded == Cardinality({w \in Workers : worker[w] = "runs"}) <= MaxWorkers
=============================================================================
