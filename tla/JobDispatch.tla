---------------------------- MODULE JobDispatch -----------------------------
(***************************************************************************)
(* The durable job queue of the v2 scheduler: the rows of the jobs table,  *)
(* the threads that run SchedulerService.run_once over them, and the       *)
(* startup reconciliation.  Every UPDATE is a compare-and-set on           *)
(* (status, payload_json) inside one transaction, so one action; between   *)
(* two of them any other thread, the reconciler, the owner of the          *)
(* workflow or a crash may step in.                                        *)
(*                                                                         *)
(* Abstracted: the payload keeps the claim time, the dispatch phase and    *)
(* whether last_recovery is present (a coarser payload makes more          *)
(* compare-and-sets succeed, never fewer).  The dispatcher is external: an *)
(* exception of submit() is one of its refusals, as the code treats it.    *)
(*                                                                         *)
(* An operator Name_Variant is a plausible mistake in Name: nothing uses   *)
(* it, it is there to show which property would catch it.                  *)
(***************************************************************************)
EXTENDS Integers, FiniteSets

CONSTANTS
  Jobs,        \* the job ids
  Service,     \* the thread of SchedulerService._run_loop
  Callers,     \* other threads that call run_once (the legacy Scheduler's)
  Rank,        \* Rank[j]: position in ORDER BY priority, scheduled_for, id
  DueAt,       \* DueAt[j]: scheduled_for
  BatchSize,   \* SchedulerConfig.batch_size
  StaleAfter,  \* SchedulerConfig.stale_claim_timeout_seconds
  MaxTime,     \* bound on the clock
  NoJob,       \* not a job
  Damaged      \* jobs whose row another program left queued with an unreadable claim

Threads == {Service} \cup Callers

ASSUME JobDispatchAssumption ==
  /\ Service \notin Callers
  /\ Rank \in [Jobs -> Nat]
  /\ DueAt \in [Jobs -> Nat]
  /\ BatchSize \in Nat \ {0}
  /\ StaleAfter \in Nat \ {0}
  /\ MaxTime \in Nat
  /\ Damaged \subseteq Jobs
  /\ NoJob \notin Jobs

VARIABLES
  row,      \* row[j]: the jobs table
  starts,   \* starts[j]: workflows the dispatcher has started for j (history)
  now,      \* the UTC clock, in units of the timestamps' resolution
  svc,      \* the service thread: "off", "starting" (reconciling) or "on"
  stop,     \* _stop_event
  snap,     \* the reconciler's list: the stale rows it read and has not handled
  failed,   \* some recovery of this reconciliation raised
  pc,       \* pc[t]: where thread t is in run_once
  batch,    \* batch[t]: due jobs t listed and has not looked at yet
  cur,      \* cur[t]: the job t is dispatching, NoJob between two jobs
  seen      \* seen[t]: the payload t expects to find on it

vars == <<row, starts, now, svc, stop, snap, failed, pc, batch, cur, seen>>
reconciliation == <<snap, failed>>
threads == <<pc, batch, cur, seen>>

----------------------------------------------------------------------------
(* The rows *)

NoClaim == -1          \* no _scheduler.claim
Unreadable == -2       \* a claim without a usable claimed_at

Active == {"queued", "running"}
Terminal == {"completed", "failed", "aborted", "cancelled"}
Statuses == {"absent", "pending"} \cup Active \cup Terminal

\* SCHEDULER_JOB_STATUS_TRANSITIONS
Transitions(status) ==
  CASE status = "pending" -> {"queued", "cancelled"}
    [] status = "queued"  -> {"pending", "running", "failed", "aborted", "cancelled"}
    [] status = "running" -> {"completed", "failed", "aborted", "cancelled"}
    [] OTHER -> {}

Payloads == [claim : Int, dispatch : {"none", "dispatching", "accepted"}, recovered : BOOLEAN]
Rows == [status : Statuses, payload : Payloads]

\* The UPDATE of a row
Write(j, status, payload) ==
  row' = [row EXCEPT ![j] = [status |-> status, payload |-> payload]]

Fresh == [claim |-> NoClaim, dispatch |-> "none", recovered |-> FALSE]

\* current is None or current.status != "queued" or payload_json differs: conflict
QueuedAs(j, payload) == row[j].status = "queued" /\ row[j].payload = payload

\* _with_claim_metadata, _payload_for_dispatching, _payload_for_dispatch_accepted
Claimed(payload, at) == [payload EXCEPT !.claim = at]
Dispatching(payload) == [payload EXCEPT !.dispatch = "dispatching"]
Accepted(payload) == [payload EXCEPT !.dispatch = "accepted"]

Stripped_NullDispatch(payload) ==
  [claim |-> NoClaim, dispatch |-> "null", recovered |-> payload.recovered]

\* _without_active_scheduler_metadata
Stripped(payload) ==
  [claim |-> NoClaim, dispatch |-> "none", recovered |-> payload.recovered]

\* _payload_for_recovery: the claim goes, the dispatch record stays
Recovered(payload) ==
  [claim |-> NoClaim, dispatch |-> payload.dispatch, recovered |-> TRUE]

RecoveryTarget_RetriesDispatch(r) ==
  IF r.status = "queued" THEN "pending" ELSE "failed"

\* _stale_recovery_target: only a claim that never reached submit() may be retried
RecoveryTarget(r) ==
  IF r.status = "queued" /\ r.payload.claim # Unreadable /\ r.payload.dispatch = "none"
    THEN "pending"
    ELSE "failed"

Stale_RunningOnly(r) ==
  /\ r.status = "running"
  /\ r.payload.claim # NoClaim /\ r.payload.claim <= now - StaleAfter

\* list_stale_active_for_recovery: a claim at the threshold or before, or unreadable
Stale(r) ==
  /\ r.status \in Active
  /\ \/ r.payload.claim = Unreadable
     \/ r.payload.claim # NoClaim /\ r.payload.claim <= now - StaleAfter

\* list_due_for_claim: ORDER BY ... LIMIT BatchSize
Due == {j \in Jobs : row[j].status = "pending" /\ DueAt[j] <= now}
Earlier(k, j) == Rank[k] < Rank[j]
FirstDue == {j \in Due : Cardinality({k \in Due : Earlier(k, j)}) < BatchSize}

\* MaxTime's clock leaves a new claim room to become stale
ClockHasRoom == now + StaleAfter < MaxTime

----------------------------------------------------------------------------

Init ==
  /\ row = [j \in Jobs |->
       IF j \in Damaged
         THEN [status |-> "queued", payload |-> Claimed(Fresh, Unreadable)]
         ELSE [status |-> "absent", payload |-> Fresh]]
  /\ starts = [j \in Jobs |-> 0]
  /\ now = 0
  /\ svc = "off"
  /\ stop = FALSE
  /\ snap = [j \in {} |-> Fresh]
  /\ failed = FALSE
  /\ pc = [t \in Threads |-> "idle"]
  /\ batch = [t \in Threads |-> {}]
  /\ cur = [t \in Threads |-> NoJob]
  /\ seen = [t \in Threads |-> Fresh]

Tick ==
  /\ now < MaxTime
  /\ now' = now + 1
  /\ UNCHANGED <<row, starts, svc, stop, reconciliation, threads>>

\* The planner inserts the row of an occurrence (JobRepository.create_if_absent).
CreateJob(j) ==
  /\ row[j].status = "absent"
  /\ Write(j, "pending", row[j].payload)
  /\ UNCHANGED <<starts, now, svc, stop, reconciliation, threads>>

\* Whoever owns the workflow, or a user, closes the job (transition_status_if_current).
CloseJob(j, new) ==
  /\ new \in Transitions(row[j].status) \cap Terminal
  /\ Write(j, new, row[j].payload)
  /\ UNCHANGED <<starts, now, svc, stop, reconciliation, threads>>

----------------------------------------------------------------------------
(* One iteration of a scheduler thread *)

Goto(t, place) == pc' = [pc EXCEPT ![t] = place]

\* _dispatch_claimed_job returns and its locals are gone
Leave(t, place) ==
  /\ Goto(t, place)
  /\ cur' = [cur EXCEPT ![t] = NoJob]
  /\ seen' = [seen EXCEPT ![t] = Fresh]

BeginIteration(t) ==
  /\ pc[t] = "idle"
  /\ t = Service => svc = "on" /\ ~stop
  /\ batch' = [batch EXCEPT ![t] = FirstDue]
  /\ Goto(t, "next")
  /\ UNCHANGED <<row, starts, now, svc, stop, reconciliation, cur, seen>>

EndIteration(t) ==
  /\ pc[t] = "next"
  /\ batch[t] = {} \/ stop \/ ~ClockHasRoom
  /\ batch' = [batch EXCEPT ![t] = {}]
  /\ Goto(t, "idle")
  /\ UNCHANGED <<row, starts, now, svc, stop, reconciliation, cur, seen>>

\* The next job of the list; the list may be out of date by now.
Claim(t) ==
  \E j \in batch[t] :
    /\ pc[t] = "next"
    /\ ~stop
    /\ ClockHasRoom
    /\ \A k \in batch[t] : ~Earlier(k, j)
    /\ batch' = [batch EXCEPT ![t] = @ \ {j}]
    /\ \/ /\ row[j].status = "pending"
          /\ Write(j, "queued", Claimed(row[j].payload, now))
          /\ cur' = [cur EXCEPT ![t] = j]
          /\ seen' = [seen EXCEPT ![t] = Claimed(row[j].payload, now)]
          /\ Goto(t, "claimed")
       \/ /\ row[j].status # "pending"
          /\ UNCHANGED <<row, cur, seen, pc>>
    /\ UNCHANGED <<starts, now, svc, stop, reconciliation>>

MarkDispatching_AnyPayload(t) ==
  LET j == cur[t] IN
    /\ pc[t] = "claimed"
    /\ \/ /\ row[j].status = "queued"
          /\ Write(j, "queued", Dispatching(row[j].payload))
          /\ seen' = [seen EXCEPT ![t] = Dispatching(row[j].payload)]
          /\ Goto(t, "submitting")
          /\ UNCHANGED cur
       \/ /\ row[j].status # "queued"
          /\ Leave(t, "next")
          /\ UNCHANGED row
    /\ UNCHANGED <<starts, now, svc, stop, reconciliation, batch>>

\* mark_dispatching_if_current, then the call of submit() begins
MarkDispatching(t) ==
  LET j == cur[t] IN
    /\ pc[t] = "claimed"
    /\ \/ /\ QueuedAs(j, seen[t])
          /\ Write(j, "queued", Dispatching(row[j].payload))
          /\ seen' = [seen EXCEPT ![t] = Dispatching(row[j].payload)]
          /\ Goto(t, "submitting")
          /\ UNCHANGED cur
       \/ /\ ~QueuedAs(j, seen[t])
          /\ Leave(t, "next")
          /\ UNCHANGED row
    /\ UNCHANGED <<starts, now, svc, stop, reconciliation, batch>>

\* external: the dispatcher starts a workflow and answers "accepted"
DispatcherAccepts(t) ==
  /\ pc[t] = "submitting"
  /\ starts' = [starts EXCEPT ![cur[t]] = @ + 1]
  /\ Goto(t, "accepted")
  /\ UNCHANGED <<row, now, svc, stop, reconciliation, batch, cur, seen>>

\* external: the dispatcher answers "rejected", or raises
DispatcherRejects(t) ==
  /\ pc[t] = "submitting"
  /\ Goto(t, "rejected")
  /\ UNCHANGED <<row, starts, now, svc, stop, reconciliation, batch, cur, seen>>

\* mark_dispatch_accepted_if_current
MarkAccepted(t) ==
  LET j == cur[t] IN
    /\ pc[t] = "accepted"
    /\ \/ /\ QueuedAs(j, seen[t])
          /\ Write(j, "running", Accepted(row[j].payload))
       \/ /\ ~QueuedAs(j, seen[t])
          /\ UNCHANGED row
    /\ Leave(t, "next")
    /\ UNCHANGED <<starts, now, svc, stop, reconciliation, batch>>

ReturnRejected_KeepsMetadata(t) ==
  LET j == cur[t] IN
    /\ pc[t] = "rejected"
    /\ \/ /\ QueuedAs(j, seen[t])
          /\ Write(j, "pending", row[j].payload)
       \/ /\ ~QueuedAs(j, seen[t])
          /\ UNCHANGED row
    /\ Leave(t, "next")
    /\ UNCHANGED <<starts, now, svc, stop, reconciliation, batch>>

\* return_dispatch_rejected_to_pending_if_current
ReturnRejected(t) ==
  LET j == cur[t]
      safe == QueuedAs(j, seen[t]) /\ row[j].payload.dispatch = "dispatching"
  IN
    /\ pc[t] = "rejected"
    /\ \/ /\ safe
          /\ Write(j, "pending", Stripped(row[j].payload))
       \/ /\ ~safe
          /\ UNCHANGED row
    /\ Leave(t, "next")
    /\ UNCHANGED <<starts, now, svc, stop, reconciliation, batch>>

\* The database call the thread is about to make raises: the iteration is given up.
IterationFails(t) ==
  /\ pc[t] \in {"next", "claimed", "accepted", "rejected"}
  /\ batch' = [batch EXCEPT ![t] = {}]
  /\ Leave(t, "idle")
  /\ UNCHANGED <<row, starts, now, svc, stop, reconciliation>>

----------------------------------------------------------------------------
(* Life of the service and of the process *)

\* start(): clears the events and lists the stale rows
StartService ==
  /\ svc = "off"
  /\ svc' = "starting"
  /\ stop' = FALSE
  /\ snap' = [j \in {k \in Jobs : Stale(row[k])} |-> row[j]]
  /\ failed' = FALSE
  /\ UNCHANGED <<row, starts, now, threads>>

Handled(j) == snap' = [k \in DOMAIN snap \ {j} |-> snap[k]]

RecoverJob_AnyRow(j) ==
  /\ svc = "starting"
  /\ j \in DOMAIN snap
  /\ Handled(j)
  /\ Write(j, RecoveryTarget(snap[j]), Recovered(snap[j].payload))
  /\ UNCHANGED <<starts, now, svc, stop, failed, threads>>

\* recover_stale_active_job: the row must still be the one that was listed
RecoverJob(j) ==
  /\ svc = "starting"
  /\ j \in DOMAIN snap
  /\ Handled(j)
  /\ \/ /\ row[j] = snap[j]
        /\ Write(j, RecoveryTarget(row[j]), Recovered(row[j].payload))
     \/ /\ row[j] # snap[j]
        /\ UNCHANGED row
  /\ UNCHANGED <<starts, now, svc, stop, failed, threads>>

\* The recovery of one job raises; the loop goes on with the next one.
RecoverFails(j) ==
  /\ svc = "starting"
  /\ j \in DOMAIN snap
  /\ Handled(j)
  /\ failed' = TRUE
  /\ UNCHANGED <<row, starts, now, svc, stop, threads>>

\* The thread is started, or start() raises SchedulerStartupReconciliationError.
FinishStart ==
  /\ svc = "starting"
  /\ DOMAIN snap = {}
  /\ svc' = IF failed THEN "off" ELSE "on"
  /\ UNCHANGED <<row, starts, now, stop, reconciliation, threads>>

\* stop(); the lock start() holds keeps it out of a reconciliation
StopService ==
  /\ svc # "starting"
  /\ stop' = TRUE
  /\ UNCHANGED <<row, starts, now, svc, reconciliation, threads>>

ServiceExits ==
  /\ svc = "on"
  /\ stop
  /\ pc[Service] = "idle"
  /\ svc' = "off"
  /\ UNCHANGED <<row, starts, now, stop, reconciliation, threads>>

\* The process dies and is launched again: only the table survives.
Crash ==
  /\ svc' = "off"
  /\ stop' = FALSE
  /\ snap' = [j \in {} |-> Fresh]
  /\ failed' = FALSE
  /\ pc' = [t \in Threads |-> "idle"]
  /\ batch' = [t \in Threads |-> {}]
  /\ cur' = [t \in Threads |-> NoJob]
  /\ seen' = [t \in Threads |-> Fresh]
  /\ UNCHANGED <<row, starts, now>>

----------------------------------------------------------------------------

ThreadStep(t) ==
  \/ BeginIteration(t)
  \/ EndIteration(t)
  \/ Claim(t)
  \/ MarkDispatching(t)
  \/ DispatcherAccepts(t)
  \/ DispatcherRejects(t)
  \/ MarkAccepted(t)
  \/ ReturnRejected(t)

Reconcile ==
  \/ StartService
  \/ \E j \in Jobs : RecoverJob(j)
  \/ FinishStart

Next ==
  \/ Tick
  \/ \E j \in Jobs : CreateJob(j)
  \/ \E j \in Jobs, new \in Terminal : CloseJob(j, new)
  \/ \E t \in Threads : ThreadStep(t) \/ IterationFails(t)
  \/ Reconcile
  \/ \E j \in Jobs : RecoverFails(j)
  \/ StopService
  \/ ServiceExits
  \/ Crash

Spec == Init /\ [][Next]_vars

\* Threads are scheduled, calls return and the clock runs; nothing forces a
\* restart, a stop, an insert or an error.
Fairness ==
  /\ WF_vars(Tick)
  /\ \A t \in Threads : WF_vars(ThreadStep(t))
  /\ WF_vars(\E j \in Jobs : RecoverJob(j))
  /\ WF_vars(FinishStart)

LiveSpec == Spec /\ Fairness

----------------------------------------------------------------------------
(* Properties *)

InFlight(t, j) == pc[t] \in {"submitting", "accepted", "rejected"} /\ cur[t] = j

\* The rows, the threads and the reconciler keep their types: a thread past a claim
\* has a job in hand, and a row is one its writers can produce.
TypeOK ==
  /\ row \in [Jobs -> Rows]
  /\ starts \in [Jobs -> Nat]
  /\ now \in Nat
  /\ svc \in {"off", "starting", "on"}
  /\ stop \in BOOLEAN
  /\ DOMAIN snap \subseteq Jobs
  /\ snap \in [DOMAIN snap -> Rows]
  /\ failed \in BOOLEAN
  /\ pc \in [Threads -> {"idle", "next", "claimed", "submitting", "accepted", "rejected"}]
  /\ batch \in [Threads -> SUBSET Jobs]
  /\ cur \in [Threads -> Jobs \cup {NoJob}]
  /\ seen \in [Threads -> Payloads]
  /\ \A t \in Threads : pc[t] \in {"idle", "next"} \/ cur[t] \in Jobs

\* However claims, refusals, failed database calls, crashes and startup
\* reconciliations interleave, the dispatcher never starts two workflows for
\* one job row.
StartedAtMostOnce == \A j \in Jobs : starts[j] <= 1

\* Two threads are never both inside the submission of the same job, although
\* claims are decided on lists that may be out of date.
SingleSubmission ==
  \A t, u \in Threads, j \in Jobs : InFlight(t, j) /\ InFlight(u, j) => t = u

\* A job whose workflow was started shows it in its row from the first moment
\* on: whatever a later startup finds, it will not take the job for one that
\* is safe to run again.
StartedIsVisible ==
  \A j \in Jobs : starts[j] > 0 =>
    \/ row[j].status \in {"running"} \cup Terminal
    \/ row[j].status = "queued" /\ row[j].payload.dispatch = "dispatching"

\* A pending row belongs to nobody: no thread is submitting it, it carries no
\* claim and no dispatch record, and nothing was started for it.
PendingIsUnowned ==
  \A j \in Jobs : row[j].status = "pending" =>
    /\ row[j].payload.claim = NoClaim
    /\ row[j].payload.dispatch = "none"
    /\ starts[j] = 0
    /\ \A t \in Threads : ~InFlight(t, j)

\* If the service is started successfully again and again, no job stays queued
\* for ever: its thread moves it, or a startup after the stale timeout does.
QueuedResolves ==
  []<><<FinishStart /\ ~failed>>_vars =>
    \A j \in Jobs : row[j].status = "queued" ~> row[j].status # "queued"

\* The queue implements JobLifecycle: a row is open until it is terminal, and
\* an offer is a submit() call under way.
Lifecycle == INSTANCE JobLifecycle WITH
  stage   <- [j \in Jobs |->
                CASE row[j].status = "absent" -> "absent"
                  [] row[j].status \in Terminal -> "closed"
                  [] OTHER -> "open"],
  offered <- {j \in Jobs : \E t \in Threads : pc[t] = "submitting" /\ cur[t] = j},
  starts  <- starts

ImplementsLifecycle == Lifecycle!Spec
=============================================================================
