# TLA+ models of rok_assistant

The repository automates an Android game on MEmu emulators from a PyQt desktop
program. What can go wrong in it without anyone noticing is not on the screen but in
the machinery behind it: rows in SQLite that decide, after any crash, what has
already been done; several threads that read a row, act and write it back; stops that
do not wait; a limit on emulators several threads compete for. This directory models
that machinery, checks it with TLC and proves the most important part of it with TLAPS.

All source paths below are relative to `src/src/rok_assistant/`.

## 1. The system

| Component | State it keeps | Operations | What makes it correct |
|---|---|---|---|
| Scheduler service (`scheduler/service.py`, `claiming.py`, `dispatcher.py`) and the `jobs` table (`db/v2_repositories.py`) | rows `(status, payload_json)`; the service's thread, stop event, reconciliation report | `run_once` (plan, list due, claim, mark dispatching, submit, mark accepted or return), `start` with reconciliation, `stop` | no job starts two workflows, whoever interleaves or dies; nobody owns a pending row; queued rows are resolved |
| Schedule planner (`scheduler/planner.py`) | the planner's state inside `schedule_definitions.config_json` | `evaluate` | occurrences on the grid of a time the settings name, none dealt with comes up again, backlog collapsed, no schedule stuck |
| Workflow engine (`workflow_runtime.py`, `workflow_context.py`) and its recorder (`workflow_persistence.py`, `workflow_recovery.py`) | `job_runs` and `step_runs` rows, the call stack, step budget, deadline, cancellation token | `execute` over a tree of steps, with retries, postconditions and recovery of an interrupted run | no action twice in one attempt, success only when earned and verified, settled rows final, runs end |
| Legacy scheduler (`scheduler/scheduler.py`, `worker_pool.py`, `tasks/manager.py`, `recovery.py`, `TaskRepository`) | `scheduled_tasks` rows, a priority queue, worker threads, two stop events | list due, mark queued, submit; worker: mark running, run the plugin, record; start, stop | a row is in one place, stops lose nothing, retries end, workers are bounded |
| Emulator manager (`emulator/manager.py`) | `_starting_instances`, `_states`, `_processes` | launch, close, restart, running count | the limit on running emulators |
| Recovery watchdog (`recovery_watchdog.py`) with incidents, attempts and circuit breakers | the last screen of each instance, rows | observe, phases of recovery, incident, open breaker | an instance is cut off only after the whole ladder; an exhausted one is cut off and gets no tasks |
| Database (`db/database.py`, `migrations.py`, `export_import.py`) | connection, transaction depth, the database's files | initialize, migrate with backup, restore, the GUI's backup and restore | what was committed is never lost, whatever step is cut off |
| Automation tasks (`db/core_repositories.py`, `application/automation.py`, `task_engine.py`, `action_engine.py`, `workflow_legacy_adapter.py`) | ordered steps, the runner's stop flag | edit, reorder, duplicate, run | orders stay 1..n; a stopped run stops |
| Task queue view model (`application/task_queue.py`) | snapshot cache, refreshes under way | refresh, invalidate | no late refresh replaces a newer one |
| Definitions (`workflow_validation.py`, `workflow_types.py`, `workflow_serialization.py`, `workflow_registry.py`, `workflow_invocation.py`) | none | validate, serialize, look up | what is accepted can be executed |
| Game workflows (`tasks/*_workflow.py`, 25 of them) and plugins (`tasks/gathering.py`, `alliance.py`) | the memory of one run, lost in a crash; its row | observe, act, verify, recover, report | irreversible actions within limit and policy, no success without verification, no failure without a report |
| Vision, provider, security, observability, configuration, accounts, GUI, logging | caches, files, widgets | device and file I/O, pure functions on images and text | outside a model checker's reach |

### How they interact

The legacy `Scheduler` thread calls `SchedulerService.run_once` before it dispatches
its own tasks, and the service may run the same method in a thread of its own: two
callers of one queue. `run_once` calls `SchedulePlanner.evaluate`, whose jobs it then
claims and hands to the `WorkflowDispatcher` protocol, behind which a workflow is
executed under a run key. Worker threads run plugins that launch emulators through
`EmulatorManager`, as do background threads of the GUI; the scheduler's dispatch guard
asks the same manager and the circuit breakers the watchdog opens. The GUI thread
starts and stops the scheduler, saves settings, and restores databases. Every part
shares one `Database` connection under one lock, so a single statement or a
`transaction()` block is atomic and nothing larger is.

Hard behaviours, by kind (each hazard with its line is listed in `PROJECT.json`): threads
that act on rows listed earlier; crashes between an effect and its record; calls that
fail half-way through; joins with a timeout followed by a start; the retry limit and
capacity limits; a whole JSON column written back; liveness after any of these.

## 2. Modules

| Module | Models | Extended by |
|---|---|---|
| `JobLifecycle` | abstract: what the job queue promises | instantiated by `JobDispatch` |
| `JobDispatch` | scheduler service and job rows | `MCJobDispatch`, `JobDispatchProofs` |
| `WorkflowRun` | one run key of the workflow engine | `MCWorkflowRun`, `WorkflowRunProofs` |
| `SchedulePlanner` | schedule evaluation | `MCSchedulePlanner`, `SchedulePlannerProofs` |
| `TaskDispatch` | legacy scheduler, worker pool, task manager | `MCTaskDispatch`, `TaskDispatchProofs` |
| `EmulatorSlots` | the limit of `EmulatorManager`, with its theorems | run as it is |
| `TaskSteps` | what the handlers of the game workflows have in common | the 24 modules of workflows, `TaskRun` |
| `AllianceHelp`, `AllianceGiftCollection`, `AllianceTechnologyDonation`, `AllianceResourceCollection`, `AlliancePit`, `AllianceRallyJoin`, `CityResourceCollection`, `CityTroopCollection`, `CityMailCollection`, `CityMaterialProduction`, `CityTavernChest`, `VipClaim`, `QuestClaim`, `TroopTraining`, `TroopUpgrade`, `InventoryItemUse`, `ResourceSearch`, `GemGathering`, `MapFogExploration`, `SunsetCanyon`, `LostCanyon`, `AccountSwitch`, `CharacterSwitch`, `GameReboot` | the steps and handlers of one workflow each | instantiated by `MCTaskRun`, `AllianceHelp` by `TaskRunProofs` |
| `TaskRun` | a run key of any of them: engine, restarts, report | `MCTaskRun`, `TaskRunProofs` |
| `RecoveryLadder` | watchdog, incidents, circuit breakers, the scheduler's look at them | `RecoveryLadderProofs` |
| `DatabaseFiles` | initialization, restore and backup of the database | `DatabaseFilesProofs` |

In every module an operator `Name_Variant` is a plausible mistake in `Name` (a dropped
guard, a forgotten write). Nothing uses it; `PROJECT.json` pairs it with the
property that must fail when it replaces `Name`, so that each property is known to
depend on the code.

### JobDispatch

`row[j]` is the job's row: its status and, of its payload, the claim time, the
dispatch phase and whether `last_recovery` is there. Every repository method is a
compare-and-set on `(status, payload_json)` in a transaction, hence one action
(`Claim`, `MarkDispatching`, `MarkAccepted`, `ReturnRejected`, `RecoverJob`); between two
of them `pc[t]`, `cur[t]` and `seen[t]` hold the local variables of
`_dispatch_claimed_job`: the place, the job and the payload the thread expects.
`submit` is two external actions, one that starts the workflow (`starts[j]`, a history
variable) and one that does not. `IterationFails` is an exception of any call, caught in
`_run_loop`; `StartService`, `RecoverJob`, `RecoverFails` and `FinishStart` are the
startup reconciliation, which handles the rows it listed (`snap`) one by one;
`StopService` ends or outlives its join; `Crash` keeps rows, `starts` and the clock.
The dispatcher is trusted in one point, as the code trusts it: an exception of
`submit` means that nothing was started.

`JobLifecycle` says it without claims, payloads or threads: offers of one job do not
overlap, a started job is not offered again, a closed one neither. `ImplementsLifecycle`
is the refinement: a row is *open* until it is terminal, and *offered* while some thread
is inside `submit`.

### WorkflowRun

`stack` is the Python call stack, one frame per step with its attempt, the steps that
are left of its sequence and the iterations left; `rows` and `run` are the recorder's
tables; `pc` is the engine's place in the top frame. An attempt is found in the rows
(`Fresh`, `Interrupted`, `SkipAttempt`, `RecoverAttempt`, `ProbeEffect`), begun, marked
(the write-ahead record), executed, verified, and finished, each recorder call an action of its
own, since each may raise (`RecorderFails`) and the process may die before it (`Crash`).
`Execute` is called again with the same key as long as the run is not settled.
`acted` and `verified` are history variables.

### SchedulePlanner

`config[s]` is the row: the *edition* of the user's settings, `enabled`, the interval,
and `next`, the `next_occurrence_at` of the planner's own state, which lives in the same
JSON column. Without it the settings' own `next_occurrence_at` counts (`AskedAt`,
`NextOf`), which need not be an occurrence counted from their start, and without that the
start. `ListSchedules` takes the copy the whole evaluation works with,
`EvaluateSchedule` is `_evaluate_schedule` for one schedule with its transaction, and
`Persist` writes the listed settings back, as the code does. `Timing` and
`AdvanceAfter` are the arithmetic of `_occurrence_timing` in whole seconds.

`SaveSchedule` and `ChangeWorkflow` are the environment: nothing under `src/`
calls them together with the planner, so any settings change may come at any time.
`ScheduleDefinitionRepository.save` replaces every column, the planner's state included:
what it writes there is nothing, or the state of any row its writer may have
read (`copies`), which evaluations have moved on since. The history variable `putBack` holds the
schedules whose planner's state was replaced so. A writer who makes up a planner's state is left
out: without a state of its own the row asks for the same time through its settings.

### TaskDispatch

`status`, `attempts` and `due` are the row; `queue` holds the submitted copies with
the attempts they were listed with, `pills` the items without a task that wake workers
up. `worker[w]` follows `_worker_loop` and `TaskManager.execute`: the check of the stop
event, `queue.get`, the item taken, the plugin running. The plugin's outcome and its
record are one action: nothing but this worker's own thread touches the row between
them, and a fault before the record is `WorkerDies` or `Crash`. The GUI thread's `stop`
is three steps, and its joins may time out on a worker that has a task. The order of rows by
`scheduled_for` is left open, so `list_recent` may hide a row as soon as there are
enough others; `dropped` is a history variable.

### EmulatorSlots

`on` is what MEmu runs, `starting` the manager's set. The decision in `launch_instance`
is atomic (it holds the lock throughout), the command and the final bookkeeping are
separate steps; `close_instance` is another thread's three steps. A failing command may
still boot its emulator later (`late`), a failing running check counts the emulator as
stopped. `raced` records the instances on which two threads worked at once, that came up
late or were taken for stopped.

### TaskSteps, the workflows and TaskRun

A workflow is a list of step keys and a handler. `Handler(s, c)` is the set of results
the step `s` may have in the state `c` of its Python object: an outcome and the state after
it. Whatever a driver, a detector or a precondition may answer is in that set, once for each
answer the handler tells apart, so that the modules hold the control of the handlers
(guards, early returns, stops, loops over claims) and nothing of what is on
the screen. `TaskSteps` has the record of the state, the first and last steps most
workflows share, `Guarded` (a stopped run skips its steps) and `Then`/`ForEach` for handlers
of several calls. The field `h` is history: how often the irreversible action
was invoked, on which targets it is not verified, whether it ever had no business.

`TaskRun` runs any of them. It takes the steps, the handler, the retried steps, the step
budget, the report and the limit of a workflow as operator constants. The engine is
that of `WorkflowRun` on a flat list, small enough to run all workflows: `NextStep`,
`BeginAttempt`, `StepReturns` with cancellation or deadline over the handler's outcome,
`FinishRun`; then what `execute()` does with the result: `RecordFailure` with the
watchdog, `OpenIncident`, `UpdateRun`, the differences between workflows being the
record `Report`. `Crash` keeps rows and history and forgets the workflow's memory, and
`Execute` is called again.

### RecoveryLadder

`watch[i]` is a call of `monitor`: its place in `monitor` and `_recover` and its locals.
`screens[i]` is `_screens`, which every observation may change, the ones between the
phases included; it lives as long as the process. `breaker`, `incidents` and `attempts` are
the tables. Each repository call is an action, since each may raise (`CallFails` leaves
`monitor` there) and the process may die before it. A failed `game_reboot` run opens
incident and breaker in two steps of its own. `task[i]` is `Scheduler.dispatch_due_tasks`, which
looks at the breaker and submits later. `RecoveryWatchdog` has no caller outside
the tests yet, and `close` of the breaker none at all: both are modelled as operations
that may be called at any time.

### DatabaseFiles

A file is the schema version and the number of the commit it holds, and which of two
databases it belongs to, as a write-ahead log is of use only with its own. `Begin`
to `EndCopy` are `initialize` and its backup, which a database of version 0 gets as well if it has
tables (`HasUserSchema`), `Migrate` one migration, `ForeignKeysFail` the check without one, `Stage`,
`Replace`, `Validate` the restore by renames, `RemoveCurrent`, `PutBackMain`,
`PutBackWal`, `RemoveTemp` its recovery, `Delete` the removal of staged files. The GUI's
backup and restore copy in two steps, so that a crash finds half a file. `Resolve` is the user who
puts together a database from leftovers when a start refuses to. `promised` is the last commit, or what
the user chose to restore.

## 3. Runs

| Run | Instance | Shows |
|---|---|---|
| `job_dispatch` | 2 jobs, service thread and one more caller, time 0..3 | the five safety properties, that queued jobs are resolved, and the refinement of `JobLifecycle` |
| `workflow_run` | 5 steps: action with retry and postcondition, a repeat of 2, an if/else with an empty branch; 2 faults | `ActedAtMostOnce`, `EffectIsRecorded`, `SuccessIsVerified`, `SuccessIsEarned`, `SettledIsFinal`, `RunSettles` |
| `workflow_repeat` (violated) | the same tree, no faults | a persisted `bounded_repeat` runs its body once |
| `schedule_planner` | 1 or 2 evaluators (chosen by the initial state), interval 3 or 6 from time 1, time 0..4, 3 editions of the settings, one asking for time 2 and one broken, 1 edit; 340 thousand states | `OccurrencesAreReal`, `BacklogCollapses`; with one evaluator `DealtWithIsPast`, `SchedulesMoveOn` |
| `task_dispatch` | 2 rows of different work, one without a plugin, 2 workers and a straggler, 1 fault, 1 stop | `TasksRunAlone`, `MarkedTasksAreHeld`, `TasksSettle` |
| `task_retries` (violated) | 2 rows, no faults | one attempt more than `max_attempts` |
| `task_workers` (violated) | 2 rows, `max_workers` 1, one stop | two tasks run at once |
| `emulator_slots` | 3 instances, 3 threads, limit 2, 2 faults | `PlacesAreReleased`, `LaunchesKeepLimit` |
| `emulator_limit` (violated) | the same, no faults | three emulators under a limit of two |
| `task_runs` | 24 workflows, each executed twice under one run key, 1 crash; 520 thousand states | `ActsAreBounded`, `ActsAreAllowed`, `SuccessIsVerified`, `FailureIsReported`, `RowTellsAnswer`, `SettledNeverActs` |
| `recovery_ladder` | 1 instance, 2 pictures, limit of 3 sightings, 3 calls, 1 failed reboot, 2 faults; 340 thousand states | `BreakersAreEarned`, `IncidentsCutOff`, `StuckMustChange`, `TasksAreHeld` |
| `database_files` | 3 schema versions, 4 commits, 2 failing migrations, 3 faults; 350 thousand states | `RunsOnWhole`, `RowsSurvive` |

**Bounds.** Two jobs and two threads are enough for every conflict on a row and for the
order of a batch; time 3 lets a claim become stale (`StaleAfter` = 1) and be claimed
again. The workflow tree has each container once, a retried leaf and a retried
container, and two faults, which is a crash during the recovery from a crash. Time 4 with an
interval of 3 from time 1 lets an evaluator be a whole interval late and another one
overtake it; the edition that asks for time 2 is off that grid, and one edit is enough to put
an older planner's state back, to lose it, to lengthen the interval or to break the settings. One stop
and one start leave stragglers of one pool among the workers of the next, and one
fault kills a worker or the process at each place; `RecentLimit` is 500 in the code
and 1 here, against as many rows fewer. `MaxAttempts` = 1 already distinguishes the attempt
that is counted from the one that is not. The two rows of `task_dispatch` are of
different work: that the same work is not enqueued while a row of it is open is a guard
this instance does not exercise. Three instances and threads can fill a limit of two,
race on one instance and launch the next.

Of the lists and pages a workflow handles its module takes as many elements as its
limits distinguish, named in the module; one crash and two executions are a restart at
every place followed by the whole rest of the run, and, without the crash, the
repetition of a settled run. One instance is enough for the ladder, as calls of
`monitor` share nothing between instances but the watchdog's turn; three calls are one that
cuts the instance off, one after the breaker was closed, and one with the history of screens
of the others. A start finds any version from 0 to 3, so that one migration may fail after
another is committed; three faults cut off the start, the restore and the recovery
of the restore in a row.

`MaxTime`, `MaxEdits`, `MaxFaults`, `MaxFailures`, `MaxStops`, `MaxCrashes`,
`MaxExecutions`, `MaxCalls`, `MaxReboots`, `MaxRows` and the number of thread identities are
bounds of the models, not of the code. No run uses symmetry. Deadlock is checked everywhere except in `job_dispatch` and
`task_runs`, where the system may stop: the clock is at its bound and all jobs are closed;
the run key is settled and `execute()` is not called again.

**Fairness.** `job_dispatch`: threads are scheduled and calls return (weak fairness of
their steps) and the clock runs; restarts are not assumed but required by the property
(`QueuedResolves` is stated for services that are started successfully again and
again). `workflow_run`: the engine's loop runs on, handlers return, as each has a
timeout or a deadline, and an unfinished run is executed again. `schedule_planner`: the
polling loop comes round; a read that fails now and then succeeds in the end (strong
fairness). `task_dispatch`: threads run, plugins return, retries come due, and the
dispatch guard, which asks about circuit breakers and running instances, does not
refuse the same row for ever; without the last the code promises nothing, see the hazard
at `scheduler.py:117`. `task_runs`, `recovery_ladder` and `database_files` state safety only
and assume nothing.

**Disagreements found.** Each was also reproduced with the Python classes.

* A `bounded_repeat` run with a recorder executes its body once: iterations share their
  step keys, and the second finds the first one's rows (`workflow_repeat`).
* A failing task is attempted once more than `max_attempts` when 500 other rows are
  scheduled later: with the row out of `list_recent`, the count read before the attempt
  is used (`task_retries`).
* `scheduler.max_workers` does not bound the threads that run tasks after a stop and a
  start: threads the stop did not wait for stay in the loop (`task_workers`).
* `scheduler.max_active_instances` does not bound the emulators when one is closed while
  it is being launched (`emulator_limit`).

**Seen while modelling.** These contradict no document this project could quote, or
contradict it in a way no run shows, and are recorded for whoever works on the code next.

* `game_reboot`: the handler of `handle_safe_popups` never gets to a popup, because the readiness that shows
  one has already failed the normal restart, whose remaining steps are skipped; and the
  retry limits of the restart's steps have no effect, as their handlers never ask for another
  attempt (`GameReboot`).
  After a crash between a failed normal restart and `emulator_reboot` the resumed run answers
  SUCCESS without having verified the home scene.
* Most workflows read the character and the policy in their first steps and keep them in
  memory: a restart past those steps ends in FATAL_FAILURE, whatever was done. In
  `troop_training`, `troop_upgrade`, `city_tavern_chest` and `vip_claim` a restart between the
  action and its verification goes through with nothing left to verify.
* `SuccessIsVerified` is therefore stated for runs without a crash. In `alliance_pit`, `alliance_rally_join`
  and `resource_search` such a restart leaves a march without a row.
* A run that skipped something is settled as SUCCESS by the engine and as SKIPPED by the
  workflow's report: a crash between the two loses the difference. CANCELLED becomes "failed".
* RETRYABLE_FAILURE opens no incident, and the canyons turn it into BLOCKED without one; the
  incident code of `alliance_pit`, `alliance_rally_join` and `map_fog_exploration` is not reached.
  The step budgets of `account_switch`, `character_switch` and `alliance_pit` do not cover all their retries.
* Observations between the phases of a ladder count as sightings of the same screen: a game
  that recovers to an unchanged picture is still "stuck", and the next phase is tried. The
  scheduler looks at the breaker once, before it dispatches.
* A save that puts back the planner's state of an older row, or none, with settings that make
  another job blocks the schedule: the occurrence has its job already, `create_if_absent` raises
  at every evaluation and the state is never written, even with one evaluator. `SchedulesMoveOn`
  excludes just that conflict, and `DealtWithIsPast` says that with one evaluator nothing else leads to
  it. With two, an overtaken evaluator moves the schedule back by itself.
* The GUI's backup copies the database file without its write-ahead log, and its
  restore overwrites the database in place; a crash in the middle of either leaves a torn file
  (`torn` excludes it from the properties, as nothing in the code detects it). After an
  interrupted restore by renames the leftovers do not tell which half was done, so a start
  refuses and leaves the choice to the user.

## 4. Proofs

Checked by TLAPS for every value of the constants, under the assumption each module
names (`JobDispatchAssumption` and so on), which TLC evaluates on every run.
`TaskDispatchAssumption` says that the worker threads of a process are finitely many, which a
cardinality needs, and `TaskRunAssumption` that steps are a sequence of keys. Every safety
property of a passing run, every action property and the refinement is the subject of
a theorem; some about workflows have a premise on the tree of steps or on the handlers, and
two are about one workflow, as said below.

*Job queue* (`JobDispatchProofs`): `TypeCorrect`, `AtMostOnce`, `OneSubmitter`,
`StartedStaysVisible`, `PendingStaysUnowned`, `QueueImplementsLifecycle`. That no job is
started twice is not inductive: it rests on `Custody` (while a thread is inside a submission
the row still holds the very payload it wrote, or is closed), on unmarked rows being
unstarted, on claims having been read without a dispatch record and on the answer in hand
being true. `SafetyInv` is the conjunction; the lemmas `QuietStep` and `FreeRowStep` deal with
the many actions that leave rows in custody alone. With it every step of the queue is a
step of `JobLifecycle` or leaves its variables alone (`LifecycleStep`). One more fact is needed
there: a startup lists only rows that were open (`ListedAreActive`), so that what it
closes was open.

*Workflow run* (`WorkflowRunProofs`): `EngineTypeCorrect`, `ActsAtMostOnce`,
`EffectsAreRecorded`, `SuccessesAreVerified`, `SettledStaysFinal`, `SuccessesAreEarned`.
`TypeInv` adds to the types what every place of the engine has in hand and
the shape of rows; the lemmas on `SetTop`, `Pop` and `Push` show that the stack stays a
well nested path of the tree, of any depth. `WriteAheadInv` says that an attempt whose row is
not marked has not acted, and one that is marked and about to act has not acted yet.
`VerifiedInv` follows a verified attempt from the check to its row.

That settled rows are final is not a matter of one guard: the engine finishes the row of the
frame on top, and a frame further down of the same step and attempt would be finished
under it. `SettledStaysFinal` therefore has the premise `StepsNest`: no step key is
nested inside itself. `WorkflowValidator` refuses cyclic sub-workflows and duplicate keys
in one definition; what it does not see is a sub-workflow that uses a step key of its
caller, the hazard listed at `workflow_runtime.py:875`, and there the property
fails. Under the premise the steps on the stack descend (`DescendInv`), so every key on it is
there once and its row is running (`OpenInv`). `SuccessesAreEarned` takes the same premise and
adds that what is no longer to do in the outermost sequence is done in the rows
(`SequenceInv`) and that the run's row is completed only then (`AnswerInv`).

*Schedule planner* (`SchedulePlannerProofs`): `PlannerTypeCorrect`, `OccurrencesStayReal`,
`DealtWithStaysPast`, `BacklogAlwaysCollapses`, for any editions, whatever they ask for, and any
intervals that are multiples of `Unit`, which is one second if nothing better is known. An
evaluator works with rows it read earlier and a save with states somebody read, so the invariant
is stated for those copies as for the table: what was listed, or can be put back, lies on
the grid of a time some settings name (`ListedRowsAreReal`, `CopiesAreReal`), and no evaluator's time
is in the future (`ClocksAreRead`). The rest is the arithmetic of `_advance_after`: lemmas on the
quotient show that it stays on the grid and goes beyond the time it was given. For
`DealtWithIsPast` the one evaluator's copy is compared with the row: unless a save
replaced the planner's state, both have the same `next` (`ListedRowsAreCurrent`).

*Legacy queue* (`TaskDispatchProofs`): `DispatchTypeCorrect`, `RowsRunAlone`, `MarkedRowsAreHeld`.
A row's status says where it is (`PlaceInv`: listed rows are open, queued rows are in the queue or
just taken, running ones with a thread, each at one place), and but for the rows a fault
dropped it is there (`FoundInv`). The threads of stopped pools need no case of their own: the
invariant counts threads, not pools.

*Emulators* (in `EmulatorSlots`): the types (`SlotsTypeCorrect`), `EveryPlaceIsReleased`, `LimitIsKept`. What is
bounded inductively is `on` together with `starting`, without the raced instances: a launch
adds one to less than the limit, a boot moves an instance within the set, and the end of a
launch or close gives up a place nobody else needs, because two threads on one instance would
have raced.

*Game workflows* (`TaskRunProofs`): for any steps and handlers, `RowsTellAnswers`: `StageInv` says
that the row is settled exactly while `execute()` reports, and that a workflow which leaves the
row to the engine answers what the engine did. Four more have premises on the handlers,
which are external to the engine:

* `RunTypeCorrect` and `SettledRunsRest`: handlers return outcomes and keep the types of the
  state they are given (`HandlersKeepTypes`).
* `FailuresAreReported`: besides, a handler of a workflow that opens incidents stops a run
  only with an outcome that is reported or that replaces the engine's (`StopsAreTold`). `ToldInv`
  hands this on from `RecordFailure` to `OpenIncident` to the answer.
* `ActsStayBounded`: besides, one call of a step acts a bounded number of times, and the sum of
  these costs, doubled where a step has a retry, stays below the workflow's limit
  (`ActsAreBudgeted`). The engine's part is `CallsInv`: a step whose row is there is only called
  again by the execution that wrote the row, so that no crash adds a call.

The premises are discharged for alliance help (`HelpKeepsTypes`), from the definitions of its
handlers; `HelpPressesOnce` restates the theorems for it without them. For the same workflow
`HelpPressesWhatItSaw` and `HelpVerifiesItsPress` are proved: `HelpInv` says that past the
detection a run that goes on has seen the button ready or, resumed, nothing at all, and that
while a press is not verified the run is at the step that verifies it or has failed (`Owing`).

*Recovery* (`RecoveryLadderProofs`): `LadderTypeCorrect`, `IncidentsNeedBreakers`, `CutOffTasksAreHeld`,
`BreakersFollowLadder`, `StuckScreensChange`. The rows of a call that climbs are the
phases it has left behind (`OnLadder`), and an instance the watchdog cut off is not
climbed for (`CutOffAtRest`): together they give `BreakersAreEarned`. A task that was let
through has seen no opening of the breaker later than now (`TasksLookBack`), which is what
the next opening needs. While a call climbs for an unchanging screen, that screen is the last one
seen and its count stays at the limit (`Frozen`), so that a healthy observation is one of
another screen.

*Database* (`DatabaseFilesProofs`): `FilesTypeCorrect`, `ApplicationRunsOnWhole`,
`CommittedRowsSurvive`. Neither property says anything in the middle of a restore, where a crash
decides both, so the invariant is what each place has on disk: the files a start needs
(`StartInv`), the two halves of a restore, of which one always holds the original database
and, until it is validated, the other does not count (`RestoreInv`), and where the promised rows
are (`KeptInv`, unless the GUI's own restore was interrupted). `SafeInv` is the conjunction.

*Only model-checked*: `ActsAreBounded` and `FailureIsReported` for workflows whose handlers were not
shown to meet the premises above, `ActsAreAllowed` and `SuccessIsVerified` of `TaskRun` for every
workflow but alliance help (they rest on what each detector and handler remembers; the loops
over claims are folds, about which nothing can be proved without induction over data), and all
liveness: `QueuedResolves`, `RunSettles`, `SchedulesMoveOn`, `TasksSettle`. Liveness under
fairness, ENABLED and induction over data are out of the prover's reach. One module declares a
RECURSIVE operator, `AllianceTechnologyDonation` (`DonateMore`); only TLC's run reaches it.

## 5. Not modelled

`PROJECT.json` lists every component with its status. Vision, the emulator provider, security,
observability, configuration and the widgets hold no protocol a model checker could
explore: they are images, commands, strings and layout. Editing and reordering of automation
steps happen in one transaction behind the database's lock, so nobody sees a state
between. Validation and serialization of workflow documents are checks without state;
the models take trees and lists that pass them. `peace_shield_workflow.py` does not use the
engine: it is one pass on one thread that creates jobs (`JobDispatch!CreateJob`).

Within the modelled parts, left out are messages, diagnostics and evidence files, JSON that
another program damaged beyond the cases named in the modules, the content of workflow
results and metadata, how a screen is classified, the dashboard's counters, emulators driven by
configured commands, an exception of the launch command itself (`EmulatorManager` keeps its
place then; a command that fails or times out is modelled), nested savepoints, the other side files of SQLite and other processes
that have the database open.

## 6. Plan

1. Proofs: the premises of `ActsStayBounded` and `FailuresAreReported` for the workflows that
   dispatch one march or switch an account, whose handlers have no loops; then what they saw and
   verified, as for alliance help.
2. Two evaluators of the planner with the queue they fill, composed: what a job of a schedule
   that was edited meanwhile is claimed with.
3. The action handlers of `workflow_actions.py` as steps of `WorkflowRun`, in place of its
   environment.
