-------------------------- MODULE JobDispatchProofs -------------------------
(***************************************************************************)
(* The safety of the job queue for any number of jobs and threads: the     *)
(* inductive invariant behind StartedAtMostOnce.  Its heart is Custody: a  *)
(* thread inside the submission of a job owns the row, because the row     *)
(* still holds the very payload the thread wrote, or is already closed.    *)
(***************************************************************************)
EXTENDS JobDispatch, TLAPS

\* A row whose workflow may have been started
Marked(j) == row[j].status = "queued" /\ row[j].payload.dispatch = "dispatching"

Custody ==
  \A t \in Threads, j \in Jobs : InFlight(t, j) =>
    \/ row[j].status \in Terminal
    \/ Marked(j) /\ row[j].payload = seen[t]

\* What a claim read had no dispatch record.
ClaimIsUnmarked == \A t \in Threads : pc[t] = "claimed" => seen[t].dispatch = "none"

\* A queued job with no dispatch record, like a pending one, has not started.
UnmarkedIsUnstarted ==
  \A j \in Jobs :
    /\ row[j].status \in {"absent", "pending"} =>
         starts[j] = 0 /\ row[j].payload.dispatch = "none"
    /\ row[j].status = "queued" /\ row[j].payload.dispatch = "none" => starts[j] = 0
    /\ row[j].status = "queued" => row[j].payload.dispatch # "accepted"

\* The answer decides whether the job in hand has started.
AnswerIsTrue ==
  \A t \in Threads, j \in Jobs : cur[t] = j =>
    /\ pc[t] \in {"submitting", "rejected"} => starts[j] = 0
    /\ pc[t] = "accepted" => starts[j] = 1

PendingIsUnclaimed ==
  \A j \in Jobs : row[j].status \in {"absent", "pending"} => row[j].payload.claim = NoClaim

SafetyInv ==
  /\ StartedAtMostOnce
  /\ SingleSubmission
  /\ Custody
  /\ ClaimIsUnmarked
  /\ UnmarkedIsUnstarted
  /\ AnswerIsTrue
  /\ PendingIsUnclaimed

----------------------------------------------------------------------------

\* What each edit of a payload returns.
LEMMA PayloadEdits ==
  ASSUME NEW p \in Payloads
  PROVE  /\ \A at \in Int : /\ Claimed(p, at) \in Payloads
                            /\ Claimed(p, at).claim = at
                            /\ Claimed(p, at).dispatch = p.dispatch
         /\ /\ Dispatching(p) \in Payloads
            /\ Dispatching(p).claim = p.claim
            /\ Dispatching(p).dispatch = "dispatching"
         /\ /\ Accepted(p) \in Payloads
            /\ Accepted(p).claim = p.claim
            /\ Accepted(p).dispatch = "accepted"
         /\ /\ Stripped(p) \in Payloads
            /\ Stripped(p).claim = NoClaim
            /\ Stripped(p).dispatch = "none"
         /\ /\ Recovered(p) \in Payloads
            /\ Recovered(p).claim = NoClaim
            /\ Recovered(p).dispatch = p.dispatch
<1> USE DEF Payloads
<1>1. ASSUME NEW at \in Int
      PROVE  /\ Claimed(p, at) \in Payloads
             /\ Claimed(p, at).claim = at
             /\ Claimed(p, at).dispatch = p.dispatch
  BY DEF Claimed
<1>2. /\ Dispatching(p) \in Payloads
      /\ Dispatching(p).claim = p.claim
      /\ Dispatching(p).dispatch = "dispatching"
  BY DEF Dispatching
<1>3. /\ Accepted(p) \in Payloads
      /\ Accepted(p).claim = p.claim
      /\ Accepted(p).dispatch = "accepted"
  BY DEF Accepted
<1>4. /\ Stripped(p) \in Payloads
      /\ Stripped(p).claim = NoClaim
      /\ Stripped(p).dispatch = "none"
  BY DEF Stripped, NoClaim
<1>5. /\ Recovered(p) \in Payloads
      /\ Recovered(p).claim = NoClaim
      /\ Recovered(p).dispatch = p.dispatch
  BY DEF Recovered, NoClaim
<1>6. QED BY <1>1, <1>2, <1>3, <1>4, <1>5

\* A fresh payload and the sentinel values are well typed.
LEMMA FreshPayload ==
  /\ Fresh \in Payloads /\ Fresh.claim = NoClaim /\ Fresh.dispatch = "none"
  /\ NoClaim \in Int /\ Unreadable \in Int
  BY DEF Fresh, Payloads, NoClaim, Unreadable

\* Writing a row changes that row only.
LEMMA WriteRow ==
  ASSUME TypeOK, NEW j \in Jobs, NEW status \in Statuses, NEW p \in Payloads,
         Write(j, status, p)
  PROVE  /\ row' \in [Jobs -> Rows]
         /\ row'[j].status = status
         /\ row'[j].payload = p
         /\ \A k \in Jobs : k # j => row'[k] = row[k]
  BY DEF Write, TypeOK, Rows

\* Every variable keeps its type, whatever the jobs, the threads and the bounds.
THEOREM TypeCorrect == Spec => []TypeOK
<1>1. Init => TypeOK
  <2> SUFFICES ASSUME Init PROVE TypeOK
    OBVIOUS
  <2>1. Claimed(Fresh, Unreadable) \in Payloads
    BY PayloadEdits, FreshPayload
  <2>2. row \in [Jobs -> Rows]
    BY <2>1, FreshPayload DEF Init, Rows, Statuses, Active
  <2>3. QED
    BY <2>2, FreshPayload DEF Init, TypeOK
<1>2. TypeOK /\ [Next]_vars => TypeOK'
  <2> SUFFICES ASSUME TypeOK, [Next]_vars PROVE TypeOK'
    OBVIOUS
  <2> USE JobDispatchAssumption DEF reconciliation, threads, Leave, Goto
  <2>0. /\ {"pending", "queued", "running", "failed"} \subseteq Statuses
        /\ Terminal \subseteq Statuses
        /\ \A j \in Jobs : row[j].payload \in Payloads
        /\ \A j \in DOMAIN snap : snap[j] \in Rows
    BY DEF Statuses, Active, Terminal, TypeOK, Rows
  <2>1. CASE Tick
    BY <2>1 DEF Tick, TypeOK
  <2>2. ASSUME NEW j \in Jobs, CreateJob(j) PROVE TypeOK'
    BY <2>0, <2>2, WriteRow DEF CreateJob, TypeOK
  <2>3. ASSUME NEW j \in Jobs, NEW new \in Terminal, CloseJob(j, new) PROVE TypeOK'
    BY <2>0, <2>3, WriteRow DEF CloseJob, TypeOK
  <2>4. ASSUME NEW t \in Threads, BeginIteration(t) PROVE TypeOK'
    <3>1. FirstDue \subseteq Jobs
      BY DEF FirstDue, Due
    <3>2. QED BY <2>4, <3>1 DEF BeginIteration, TypeOK
  <2>5. ASSUME NEW t \in Threads, EndIteration(t) PROVE TypeOK'
    BY <2>5 DEF EndIteration, TypeOK
  <2>6. ASSUME NEW t \in Threads, Claim(t) PROVE TypeOK'
    <3>1. PICK j \in batch[t] :
            /\ batch' = [batch EXCEPT ![t] = @ \ {j}]
            /\ \/ /\ Write(j, "queued", Claimed(row[j].payload, now))
                  /\ cur' = [cur EXCEPT ![t] = j]
                  /\ seen' = [seen EXCEPT ![t] = Claimed(row[j].payload, now)]
                  /\ pc' = [pc EXCEPT ![t] = "claimed"]
               \/ UNCHANGED <<row, cur, seen, pc>>
            /\ UNCHANGED <<starts, now, svc, stop, reconciliation>>
      BY <2>6 DEF Claim
    <3>0. j \in Jobs /\ now \in Int
      BY DEF TypeOK
    <3>2. /\ j \in Jobs
          /\ Claimed(row[j].payload, now) \in Payloads
      BY <2>0, <3>0, PayloadEdits
    <3>3. row' \in [Jobs -> Rows]
      BY <2>0, <3>1, <3>2, WriteRow DEF TypeOK
    <3>4. QED BY <3>1, <3>2, <3>3 DEF TypeOK
  <2>7. ASSUME NEW t \in Threads, MarkDispatching(t) PROVE TypeOK'
    <3>1. cur[t] \in Jobs
      BY <2>7 DEF MarkDispatching, TypeOK
    <3>2. Dispatching(row[cur[t]].payload) \in Payloads
      BY <2>0, <3>1, PayloadEdits
    <3>3. row' \in [Jobs -> Rows]
      BY <2>0, <2>7, <3>1, <3>2, WriteRow DEF MarkDispatching, TypeOK
    <3>4. QED BY <2>7, <3>2, <3>3, FreshPayload DEF MarkDispatching, TypeOK
  <2>8. ASSUME NEW t \in Threads, DispatcherAccepts(t) PROVE TypeOK'
    <3>1. cur[t] \in Jobs
      BY <2>8 DEF DispatcherAccepts, TypeOK
    <3>2. \A k \in Jobs : starts[k] + 1 \in Nat
      BY DEF TypeOK
    <3>3. starts' \in [Jobs -> Nat]
      BY <2>8, <3>1, <3>2 DEF DispatcherAccepts, TypeOK
    <3>4. /\ pc' = [pc EXCEPT ![t] = "accepted"]
          /\ UNCHANGED <<row, now, svc, stop, snap, failed, batch, cur, seen>>
      BY <2>8 DEF DispatcherAccepts
    <3>5. QED BY <3>1, <3>3, <3>4 DEF TypeOK
  <2>9. ASSUME NEW t \in Threads, DispatcherRejects(t) PROVE TypeOK'
    BY <2>9 DEF DispatcherRejects, TypeOK
  <2>10. ASSUME NEW t \in Threads, MarkAccepted(t) PROVE TypeOK'
    <3>1. cur[t] \in Jobs
      BY <2>10 DEF MarkAccepted, TypeOK
    <3>2. Accepted(row[cur[t]].payload) \in Payloads
      BY <2>0, <3>1, PayloadEdits
    <3>3. row' \in [Jobs -> Rows]
      BY <2>0, <2>10, <3>1, <3>2, WriteRow DEF MarkAccepted, TypeOK
    <3>4. QED BY <2>10, <3>2, <3>3, FreshPayload DEF MarkAccepted, TypeOK
  <2>11. ASSUME NEW t \in Threads, ReturnRejected(t) PROVE TypeOK'
    <3>1. cur[t] \in Jobs
      BY <2>11 DEF ReturnRejected, TypeOK
    <3>2. Stripped(row[cur[t]].payload) \in Payloads
      BY <2>0, <3>1, PayloadEdits
    <3>3. row' \in [Jobs -> Rows]
      BY <2>0, <2>11, <3>1, <3>2, WriteRow DEF ReturnRejected, TypeOK
    <3>4. QED BY <2>11, <3>2, <3>3, FreshPayload DEF ReturnRejected, TypeOK
  <2>12. ASSUME NEW t \in Threads, IterationFails(t) PROVE TypeOK'
    BY <2>12, FreshPayload DEF IterationFails, TypeOK
  <2>13. CASE StartService
    BY <2>13 DEF StartService, TypeOK
  <2>14. ASSUME NEW j \in Jobs, RecoverJob(j) PROVE TypeOK'
    <3>1. /\ RecoveryTarget(row[j]) \in Statuses
          /\ Recovered(row[j].payload) \in Payloads
      BY <2>0, PayloadEdits DEF RecoveryTarget
    <3>2. row' \in [Jobs -> Rows]
      BY <2>14, <3>1, WriteRow DEF RecoverJob, TypeOK
    <3>3. QED BY <2>0, <2>14, <3>2 DEF RecoverJob, Handled, TypeOK
  <2>15. CASE FinishStart
    BY <2>15 DEF FinishStart, TypeOK
  <2>16. ASSUME NEW j \in Jobs, RecoverFails(j) PROVE TypeOK'
    BY <2>16 DEF RecoverFails, Handled, TypeOK
  <2>17. CASE StopService
    BY <2>17 DEF StopService, TypeOK
  <2>18. CASE ServiceExits
    BY <2>18 DEF ServiceExits, TypeOK
  <2>19. CASE Crash
    BY <2>19, FreshPayload DEF Crash, TypeOK
  <2>20. CASE UNCHANGED vars
    BY <2>20 DEF vars, TypeOK
  <2>21. QED
    BY <2>1, <2>2, <2>3, <2>4, <2>5, <2>6, <2>7, <2>8, <2>9, <2>10, <2>11, <2>12, <2>13,
       <2>14, <2>15, <2>16, <2>17, <2>18, <2>19, <2>20 DEF Next, ThreadStep, Reconcile
<1>3. QED BY <1>1, <1>2, PTL DEF Spec

----------------------------------------------------------------------------

\* A step that writes no row and starts nothing, and after which every thread
\* stands where it stood or is out of the submission, keeps SafetyInv.
LEMMA QuietStep ==
  ASSUME TypeOK, SafetyInv, UNCHANGED <<row, starts>>,
         \A t \in Threads :
           \/ pc'[t] = pc[t] /\ cur'[t] = cur[t] /\ seen'[t] = seen[t]
           \/ pc'[t] \in {"idle", "next"}
  PROVE  SafetyInv'
<1>1. \A t \in Threads, j \in Jobs :
        InFlight(t, j)' => InFlight(t, j) /\ seen'[t] = seen[t]
  BY DEF InFlight
<1>2. (StartedAtMostOnce /\ UnmarkedIsUnstarted /\ PendingIsUnclaimed)'
  BY DEF SafetyInv, StartedAtMostOnce, UnmarkedIsUnstarted, PendingIsUnclaimed
<1>3. SingleSubmission'
  BY <1>1 DEF SafetyInv, SingleSubmission
<1>4. Custody'
  BY <1>1 DEF SafetyInv, Custody, Marked
<1>5. ClaimIsUnmarked'
  BY DEF SafetyInv, ClaimIsUnmarked
<1>6. AnswerIsTrue'
  BY DEF SafetyInv, AnswerIsTrue
<1>7. QED BY <1>2, <1>3, <1>4, <1>5, <1>6 DEF SafetyInv

\* So does a write to a row no thread is submitting, if what it leaves there is
\* consistent with what was started.
LEMMA FreeRowStep ==
  ASSUME TypeOK, TypeOK', SafetyInv, UNCHANGED starts, NEW j \in Jobs,
         \A k \in Jobs : k # j => row'[k] = row[k],
         \A t \in Threads :
           \/ pc'[t] = pc[t] /\ cur'[t] = cur[t] /\ seen'[t] = seen[t]
           \/ pc'[t] \in {"idle", "next"}
           \/ pc'[t] = "claimed" /\ seen'[t].dispatch = "none",
         row'[j].status \in Terminal \/ \A t \in Threads : ~InFlight(t, j)',
         row'[j].status \in {"absent", "pending"} =>
           /\ starts[j] = 0
           /\ row'[j].payload.dispatch = "none"
           /\ row'[j].payload.claim = NoClaim,
         row'[j].status = "queued" => row'[j].payload.dispatch = "none" /\ starts[j] = 0
  PROVE  SafetyInv'
<1>1. \A t \in Threads, k \in Jobs :
        InFlight(t, k)' => InFlight(t, k) /\ seen'[t] = seen[t]
  BY DEF InFlight
<1>2. StartedAtMostOnce'
  BY DEF SafetyInv, StartedAtMostOnce
<1>3. UnmarkedIsUnstarted' /\ PendingIsUnclaimed'
  BY DEF SafetyInv, UnmarkedIsUnstarted, PendingIsUnclaimed
<1>4. SingleSubmission'
  BY <1>1 DEF SafetyInv, SingleSubmission
<1>5. Custody'
  <2> SUFFICES ASSUME NEW t \in Threads, NEW k \in Jobs, InFlight(t, k)'
               PROVE  \/ row'[k].status \in Terminal
                      \/ Marked(k)' /\ row'[k].payload = seen'[t]
    BY DEF Custody
  <2>1. CASE k = j
    BY <2>1
  <2>2. CASE k # j
    BY <1>1, <2>2 DEF SafetyInv, Custody, Marked
  <2>3. QED BY <2>1, <2>2
<1>6. ClaimIsUnmarked'
  BY DEF SafetyInv, ClaimIsUnmarked
<1>7. AnswerIsTrue'
  BY DEF SafetyInv, AnswerIsTrue
<1>8. QED BY <1>2, <1>3, <1>4, <1>5, <1>6, <1>7 DEF SafetyInv

\* SafetyInv holds of an empty queue.
LEMMA SafetyInit == Init => SafetyInv
<1> SUFFICES ASSUME Init PROVE SafetyInv
  OBVIOUS
<1>1. /\ Claimed(Fresh, Unreadable).dispatch = "none"
      /\ Fresh.dispatch = "none" /\ Fresh.claim = NoClaim
  BY PayloadEdits, FreshPayload
<1>2. \A j \in Jobs : /\ row[j].status \in {"absent", "queued"}
                      /\ row[j].payload.dispatch = "none"
                      /\ row[j].status = "absent" => row[j].payload.claim = NoClaim
                      /\ starts[j] = 0
  BY <1>1 DEF Init
<1>3. \A t \in Threads : pc[t] = "idle"
  BY DEF Init
<1>4. QED
  BY <1>2, <1>3 DEF SafetyInv, StartedAtMostOnce, SingleSubmission, Custody, ClaimIsUnmarked,
     UnmarkedIsUnstarted, AnswerIsTrue, PendingIsUnclaimed, InFlight

\* No thread is submitting a job whose row is not closed and not marked.
LEMMA UnmarkedIsFree ==
  ASSUME SafetyInv, NEW j \in Jobs, row[j].status \notin Terminal, ~Marked(j)
  PROVE  \A t \in Threads : ~InFlight(t, j)
  BY DEF SafetyInv, Custody

\* SafetyInv is inductive.
LEMMA SafetyStep == TypeOK /\ TypeOK' /\ SafetyInv /\ [Next]_vars => SafetyInv'
<1> SUFFICES ASSUME TypeOK, TypeOK', SafetyInv, [Next]_vars PROVE SafetyInv'
  OBVIOUS
<1> USE DEF reconciliation, threads, Leave, Goto
<1>0. \A j \in Jobs : row[j].payload \in Payloads
  BY DEF TypeOK, Rows
<1>1. CASE Tick
  BY <1>1, QuietStep DEF Tick
<1>2. ASSUME NEW j \in Jobs, CreateJob(j) PROVE SafetyInv'
  <2>1. /\ row'[j].status = "pending" /\ row'[j].payload = row[j].payload
        /\ \A k \in Jobs : k # j => row'[k] = row[k]
    BY <1>0, <1>2, WriteRow DEF CreateJob, Statuses
  <2>2. \A t \in Threads : ~InFlight(t, j)
    BY <1>2, UnmarkedIsFree DEF CreateJob, Marked, Terminal
  <2>3. /\ starts[j] = 0 /\ row[j].payload.dispatch = "none"
        /\ row[j].payload.claim = NoClaim
    BY <1>2 DEF CreateJob, SafetyInv, UnmarkedIsUnstarted, PendingIsUnclaimed
  <2>4. UNCHANGED <<starts, pc, cur, seen>>
    BY <1>2 DEF CreateJob
  <2>5. \A t \in Threads : ~InFlight(t, j)'
    BY <2>2, <2>4 DEF InFlight
  <2>6. QED
    BY <2>1, <2>3, <2>4, <2>5, FreeRowStep
<1>3. ASSUME NEW j \in Jobs, NEW new \in Terminal, CloseJob(j, new) PROVE SafetyInv'
  <2>1. /\ row'[j].status = new
        /\ \A k \in Jobs : k # j => row'[k] = row[k]
    BY <1>0, <1>3, WriteRow DEF CloseJob, Statuses
  <2>2. UNCHANGED <<starts, pc, cur, seen>>
    BY <1>3 DEF CloseJob
  <2>3. new \notin {"absent", "pending", "queued"}
    BY DEF Terminal
  <2>4. QED
    BY <2>1, <2>2, <2>3, FreeRowStep
<1>4. ASSUME NEW t \in Threads, BeginIteration(t) PROVE SafetyInv'
  BY <1>4, QuietStep DEF BeginIteration, TypeOK
<1>5. ASSUME NEW t \in Threads, EndIteration(t) PROVE SafetyInv'
  BY <1>5, QuietStep DEF EndIteration, TypeOK
<1>6. ASSUME NEW t \in Threads, Claim(t) PROVE SafetyInv'
  <2>1. CASE UNCHANGED <<row, starts, pc, cur, seen>>
    BY <2>1, QuietStep
  <2>2. CASE ~UNCHANGED <<row, starts, pc, cur, seen>>
    <3>1. PICK j \in batch[t] :
            /\ row[j].status = "pending"
            /\ Write(j, "queued", Claimed(row[j].payload, now))
            /\ cur' = [cur EXCEPT ![t] = j]
            /\ seen' = [seen EXCEPT ![t] = Claimed(row[j].payload, now)]
            /\ pc' = [pc EXCEPT ![t] = "claimed"]
            /\ UNCHANGED starts
      BY <1>6, <2>2 DEF Claim
    <3>2. j \in Jobs /\ now \in Int
      BY DEF TypeOK
    <3>3. /\ starts[j] = 0 /\ row[j].payload.dispatch = "none"
          /\ \A u \in Threads : ~InFlight(u, j)
      BY <3>1, <3>2, UnmarkedIsFree DEF SafetyInv, UnmarkedIsUnstarted, Marked, Terminal
    <3>4. /\ Claimed(row[j].payload, now) \in Payloads
          /\ Claimed(row[j].payload, now).dispatch = "none"
      BY <1>0, <3>2, <3>3, PayloadEdits
    <3>5. /\ row'[j].status = "queued" /\ row'[j].payload.dispatch = "none"
          /\ \A k \in Jobs : k # j => row'[k] = row[k]
      BY <3>1, <3>2, <3>4, WriteRow DEF Statuses, Active
    <3>6. \A u \in Threads : \/ pc'[u] = pc[u] /\ cur'[u] = cur[u] /\ seen'[u] = seen[u]
                             \/ pc'[u] = "claimed" /\ seen'[u].dispatch = "none"
      BY <3>1, <3>4 DEF TypeOK
    <3>7. \A u \in Threads : ~InFlight(u, j)'
      BY <3>1, <3>3 DEF InFlight, TypeOK
    <3>8. QED
      BY <3>1, <3>2, <3>3, <3>5, <3>6, <3>7, FreeRowStep
  <2>3. QED BY <2>1, <2>2
<1>7. ASSUME NEW t \in Threads, MarkDispatching(t) PROVE SafetyInv'
  <2> DEFINE j == cur[t]
             marked == Dispatching(row[j].payload)
  <2>1. CASE UNCHANGED row /\ pc'[t] = "next"
    BY <1>7, <2>1, QuietStep DEF MarkDispatching, TypeOK
  <2>2. CASE /\ QueuedAs(j, seen[t])
             /\ Write(j, "queued", marked)
             /\ seen' = [seen EXCEPT ![t] = marked]
             /\ pc' = [pc EXCEPT ![t] = "submitting"]
             /\ UNCHANGED cur
    <3>1. j \in Jobs /\ pc[t] = "claimed" /\ UNCHANGED starts
      BY <1>7 DEF MarkDispatching, TypeOK
    <3>2. /\ row[j].status = "queued" /\ row[j].payload.dispatch = "none" /\ starts[j] = 0
          /\ \A u \in Threads : ~InFlight(u, j)
      BY <2>2, <3>1, UnmarkedIsFree
         DEF SafetyInv, ClaimIsUnmarked, UnmarkedIsUnstarted, QueuedAs, Marked, Terminal
    <3>3. marked \in Payloads /\ marked.dispatch = "dispatching"
      BY <1>0, <3>1, PayloadEdits
    <3>4. /\ row'[j].status = "queued" /\ row'[j].payload = marked
          /\ \A k \in Jobs : k # j => row'[k] = row[k]
      BY <2>2, <3>1, <3>3, WriteRow DEF Statuses, Active
    <3>5. /\ \A u \in Threads : u # t => pc'[u] = pc[u] /\ seen'[u] = seen[u]
          /\ pc'[t] = "submitting" /\ seen'[t] = marked
      BY <2>2 DEF TypeOK
    <3> HIDE DEF marked
    <3>6. \A u \in Threads, k \in Jobs : InFlight(u, k)' =>
            \/ u = t /\ k = j
            \/ u # t /\ k # j /\ InFlight(u, k) /\ seen'[u] = seen[u]
      BY <2>2, <3>1, <3>2, <3>5 DEF InFlight
    <3>7. (StartedAtMostOnce /\ UnmarkedIsUnstarted /\ PendingIsUnclaimed)'
      BY <3>1, <3>2, <3>3, <3>4
         DEF SafetyInv, StartedAtMostOnce, UnmarkedIsUnstarted, PendingIsUnclaimed
    <3>8. SingleSubmission'
      BY <3>6 DEF SafetyInv, SingleSubmission
    <3>9. Custody'
      BY <3>3, <3>4, <3>5, <3>6 DEF SafetyInv, Custody, Marked
    <3>10. (ClaimIsUnmarked /\ AnswerIsTrue)'
      BY <2>2, <3>1, <3>2, <3>5 DEF SafetyInv, ClaimIsUnmarked, AnswerIsTrue
    <3>11. QED BY <3>7, <3>8, <3>9, <3>10 DEF SafetyInv
  <2>3. QED BY <1>7, <2>1, <2>2 DEF MarkDispatching, TypeOK
<1>8. ASSUME NEW t \in Threads, DispatcherAccepts(t) PROVE SafetyInv'
  <2> DEFINE j == cur[t]
  <2>1. /\ j \in Jobs /\ InFlight(t, j) /\ starts[j] = 0
        /\ UNCHANGED <<row, cur, seen>>
    BY <1>8 DEF DispatcherAccepts, TypeOK, InFlight, SafetyInv, AnswerIsTrue
  <2>2. /\ starts'[j] = 1
        /\ \A k \in Jobs : k # j => starts'[k] = starts[k]
    BY <1>8, <2>1 DEF DispatcherAccepts, TypeOK
  <2>3. /\ pc[t] = "submitting" /\ pc'[t] = "accepted"
        /\ \A u \in Threads : u # t => pc'[u] = pc[u]
    BY <1>8 DEF DispatcherAccepts, TypeOK
  <2>4. \A u \in Threads, k \in Jobs : InFlight(u, k)' => InFlight(u, k)
    BY <2>1, <2>3 DEF InFlight
  <2>5. row[j].status \in Terminal \/ Marked(j)
    BY <2>1 DEF SafetyInv, Custody
  <2>6. StartedAtMostOnce'
    BY <2>2 DEF SafetyInv, StartedAtMostOnce
  <2>7. UnmarkedIsUnstarted'
    BY <2>1, <2>2, <2>5 DEF SafetyInv, UnmarkedIsUnstarted, Marked, Terminal
  <2>8. (SingleSubmission /\ Custody)'
    BY <2>1, <2>4 DEF SafetyInv, SingleSubmission, Custody, Marked
  <2>9. (ClaimIsUnmarked /\ PendingIsUnclaimed)'
    BY <2>1, <2>3 DEF SafetyInv, ClaimIsUnmarked, PendingIsUnclaimed
  <2>10. AnswerIsTrue'
    <3>1. \A u \in Threads : cur[u] = j /\ pc[u] \in {"submitting", "rejected"} => u = t
      BY <2>1 DEF SafetyInv, SingleSubmission, InFlight
    <3>2. QED BY <2>1, <2>2, <2>3, <3>1 DEF SafetyInv, AnswerIsTrue
  <2>11. QED BY <2>6, <2>7, <2>8, <2>9, <2>10 DEF SafetyInv
<1>9. ASSUME NEW t \in Threads, DispatcherRejects(t) PROVE SafetyInv'
  <2>1. /\ UNCHANGED <<row, starts, cur, seen>>
        /\ pc[t] = "submitting" /\ pc'[t] = "rejected"
        /\ \A u \in Threads : u # t => pc'[u] = pc[u]
    BY <1>9 DEF DispatcherRejects, TypeOK
  <2>2. \A u \in Threads, k \in Jobs : InFlight(u, k)' => InFlight(u, k)
    BY <2>1 DEF InFlight
  <2>3. (StartedAtMostOnce /\ UnmarkedIsUnstarted /\ PendingIsUnclaimed)'
    BY <2>1 DEF SafetyInv, StartedAtMostOnce, UnmarkedIsUnstarted, PendingIsUnclaimed
  <2>4. (SingleSubmission /\ Custody)'
    BY <2>1, <2>2 DEF SafetyInv, SingleSubmission, Custody, Marked
  <2>5. (ClaimIsUnmarked /\ AnswerIsTrue)'
    BY <2>1 DEF SafetyInv, ClaimIsUnmarked, AnswerIsTrue
  <2>6. QED BY <2>3, <2>4, <2>5 DEF SafetyInv
<1>10. ASSUME NEW t \in Threads, MarkAccepted(t) PROVE SafetyInv'
  <2>0. PICK j \in Jobs : j = cur[t]
    BY <1>10 DEF MarkAccepted, TypeOK
  <2> DEFINE edited == Accepted(row[j].payload)
  <2>1. CASE UNCHANGED row
    BY <1>10, <2>1, QuietStep DEF MarkAccepted, TypeOK
  <2>2. CASE Write(j, "running", edited)
    <3>1. UNCHANGED starts /\ InFlight(t, j)
      BY <2>0, <1>10 DEF MarkAccepted, TypeOK, InFlight
    <3>2. /\ edited \in Payloads
      BY <1>0, <3>1, PayloadEdits
    <3> HIDE DEF edited
    <3>3. /\ row'[j].status = "running" /\ row'[j].payload = edited
          /\ \A k \in Jobs : k # j => row'[k] = row[k]
      BY <2>2, <3>1, <3>2, WriteRow DEF Statuses, Active
    <3>5. /\ pc'[t] = "next"
          /\ \A u \in Threads : u # t => pc'[u] = pc[u] /\ cur'[u] = cur[u] /\ seen'[u] = seen[u]
      BY <1>10 DEF MarkAccepted, TypeOK
    <3>6. ~InFlight(t, j)'
      BY <3>5 DEF InFlight
    <3>7. \A u \in Threads : u # t => ~InFlight(u, j)
      BY <3>1 DEF SafetyInv, SingleSubmission
    <3>8. \A u \in Threads : ~InFlight(u, j)'
      <4> SUFFICES ASSUME NEW u \in Threads, u # t PROVE ~InFlight(u, j)'
        BY <3>6
      <4>1. QED BY <3>5, <3>7 DEF InFlight
    <3>9. QED
      BY <3>1, <3>2, <3>3, <3>5, <3>8, FreeRowStep DEF Terminal
  <2>3. QED BY <2>0, <1>10, <2>1, <2>2 DEF MarkAccepted
<1>11. ASSUME NEW t \in Threads, ReturnRejected(t) PROVE SafetyInv'
  <2>0. PICK j \in Jobs : j = cur[t]
    BY <1>11 DEF ReturnRejected, TypeOK
  <2> DEFINE edited == Stripped(row[j].payload)
  <2>1. CASE UNCHANGED row
    BY <1>11, <2>1, QuietStep DEF ReturnRejected, TypeOK
  <2>2. CASE Write(j, "pending", edited)
    <3>1. UNCHANGED starts /\ InFlight(t, j)
      BY <2>0, <1>11 DEF ReturnRejected, TypeOK, InFlight
    <3>2. /\ edited \in Payloads /\ edited.claim = NoClaim
          /\ edited.dispatch = "none"
      BY <1>0, <3>1, PayloadEdits
    <3> HIDE DEF edited
    <3>3. /\ row'[j].status = "pending" /\ row'[j].payload = edited
          /\ \A k \in Jobs : k # j => row'[k] = row[k]
      BY <2>2, <3>1, <3>2, WriteRow DEF Statuses, Active
    <3>4. starts[j] = 0
      BY <1>11, <2>0, <3>1 DEF ReturnRejected, SafetyInv, AnswerIsTrue
    <3>5. /\ pc'[t] = "next"
          /\ \A u \in Threads : u # t => pc'[u] = pc[u] /\ cur'[u] = cur[u] /\ seen'[u] = seen[u]
      BY <1>11 DEF ReturnRejected, TypeOK
    <3>6. ~InFlight(t, j)'
      BY <3>5 DEF InFlight
    <3>7. \A u \in Threads : u # t => ~InFlight(u, j)
      BY <3>1 DEF SafetyInv, SingleSubmission
    <3>8. \A u \in Threads : ~InFlight(u, j)'
      <4> SUFFICES ASSUME NEW u \in Threads, u # t PROVE ~InFlight(u, j)'
        BY <3>6
      <4>1. QED BY <3>5, <3>7 DEF InFlight
    <3>9. QED
      BY <3>1, <3>2, <3>3, <3>4, <3>5, <3>8, FreeRowStep DEF Terminal
  <2>3. QED BY <2>0, <1>11, <2>1, <2>2 DEF ReturnRejected
<1>12. ASSUME NEW t \in Threads, IterationFails(t) PROVE SafetyInv'
  BY <1>12, QuietStep DEF IterationFails, TypeOK
<1>13. CASE StartService
  BY <1>13, QuietStep DEF StartService
<1>14. ASSUME NEW j \in Jobs, RecoverJob(j) PROVE SafetyInv'
  <2> DEFINE target == RecoveryTarget(row[j])
             edited == Recovered(row[j].payload)
  <2>1. CASE UNCHANGED row
    BY <1>14, <2>1, QuietStep DEF RecoverJob
  <2>2. CASE Write(j, target, edited)
    <3>1. /\ target \in {"pending", "failed"}
          /\ edited \in Payloads /\ edited.claim = NoClaim
          /\ edited.dispatch = row[j].payload.dispatch
      BY <1>0, PayloadEdits DEF RecoveryTarget
    <3>2. /\ row'[j].status = target /\ row'[j].payload = edited
          /\ \A k \in Jobs : k # j => row'[k] = row[k]
      BY <2>2, <3>1, WriteRow DEF Statuses, Active, Terminal
    <3>3. UNCHANGED <<starts, pc, cur, seen>>
      BY <1>14 DEF RecoverJob
    <3>4. CASE target = "failed"
      <4>1. target \in Terminal /\ target \notin {"absent", "pending", "queued"}
        BY <3>4 DEF Terminal
      <4>2. QED
        BY <3>2, <3>3, <4>1, FreeRowStep
    <3>5. CASE target = "pending"
      <4>1. row[j].status = "queued" /\ row[j].payload.dispatch = "none"
        BY <3>5 DEF RecoveryTarget
      <4>2. starts[j] = 0 /\ \A u \in Threads : ~InFlight(u, j)
        BY <4>1, UnmarkedIsFree DEF SafetyInv, UnmarkedIsUnstarted, Marked, Terminal
      <4>3. \A u \in Threads : ~InFlight(u, j)'
        BY <3>3, <4>2 DEF InFlight
      <4> HIDE DEF target, edited
      <4>4. QED
        BY <3>1, <3>2, <3>3, <3>5, <4>1, <4>2, <4>3, FreeRowStep
    <3>6. QED BY <3>1, <3>4, <3>5
  <2>3. QED BY <1>14, <2>1, <2>2 DEF RecoverJob
<1>15. CASE FinishStart
  BY <1>15, QuietStep DEF FinishStart
<1>16. ASSUME NEW j \in Jobs, RecoverFails(j) PROVE SafetyInv'
  BY <1>16, QuietStep DEF RecoverFails
<1>17. CASE StopService
  BY <1>17, QuietStep DEF StopService
<1>18. CASE ServiceExits
  BY <1>18, QuietStep DEF ServiceExits
<1>19. CASE Crash
  BY <1>19, QuietStep DEF Crash
<1>20. CASE UNCHANGED vars
  BY <1>20, QuietStep DEF vars
<1>21. QED
  BY <1>1, <1>2, <1>3, <1>4, <1>5, <1>6, <1>7, <1>8, <1>9, <1>10, <1>11, <1>12, <1>13,
     <1>14, <1>15, <1>16, <1>17, <1>18, <1>19, <1>20 DEF Next, ThreadStep, Reconcile

----------------------------------------------------------------------------

\* The invariant holds in every state of every behaviour.
LEMMA Safety == Spec => []SafetyInv
<1>1. TypeOK /\ TypeOK' /\ SafetyInv /\ [Next]_vars => SafetyInv'
  BY SafetyStep
<1>2. QED BY <1>1, TypeCorrect, SafetyInit, PTL DEF Spec

\* No job row ever starts two workflows, for any number of jobs, threads,
\* errors, crashes and restarts.
THEOREM AtMostOnce == Spec => []StartedAtMostOnce
<1>1. SafetyInv => StartedAtMostOnce
  BY DEF SafetyInv
<1>2. QED BY <1>1, Safety, PTL

\* Two threads are never inside the submission of one job.
THEOREM OneSubmitter == Spec => []SingleSubmission
<1>1. SafetyInv => SingleSubmission
  BY DEF SafetyInv
<1>2. QED BY <1>1, Safety, PTL

\* A started job carries the mark that keeps recovery from running it again.
THEOREM StartedStaysVisible == Spec => []StartedIsVisible
<1>1. TypeOK /\ SafetyInv => StartedIsVisible
  <2> SUFFICES ASSUME TypeOK, SafetyInv, NEW j \in Jobs, starts[j] > 0
               PROVE  \/ row[j].status \in {"running"} \cup Terminal
                      \/ row[j].status = "queued" /\ row[j].payload.dispatch = "dispatching"
    BY DEF StartedIsVisible
  <2>1. row[j].status \in Statuses /\ row[j].payload.dispatch \in {"none", "dispatching", "accepted"}
    BY DEF TypeOK, Rows, Payloads
  <2>2. QED
    BY <2>1 DEF SafetyInv, UnmarkedIsUnstarted, Statuses, Active
<1>2. QED BY <1>1, Safety, TypeCorrect, PTL

\* A pending row is nobody's: unclaimed, unmarked, unstarted and not in flight.
THEOREM PendingStaysUnowned == Spec => []PendingIsUnowned
<1>1. SafetyInv => PendingIsUnowned
  BY DEF SafetyInv, PendingIsUnowned, PendingIsUnclaimed, UnmarkedIsUnstarted, Custody, Marked,
     Terminal
<1>2. QED BY <1>1, Safety, PTL

----------------------------------------------------------------------------
(* The queue implements JobLifecycle *)

\* What JobLifecycle sees of the queue
StageOf(status) ==
  CASE status = "absent" -> "absent"
    [] status \in Terminal -> "closed"
    [] OTHER -> "open"

Stage == [j \in Jobs |-> StageOf(row[j].status)]

Offered == {j \in Jobs : \E t \in Threads : pc[t] = "submitting" /\ cur[t] = j}

\* The steps of JobLifecycle, of the stages and offers of the queue.
LEMMA LifecycleSteps ==
  /\ Lifecycle!Init <=>
       /\ Stage \in [Jobs -> {"absent", "open"}]
       /\ Offered = {}
       /\ starts = [j \in Jobs |-> 0]
  /\ Lifecycle!vars = <<Stage, Offered, starts>>
  /\ \A j \in Jobs :
       /\ Stage[j] = "absent" /\ Stage' = [Stage EXCEPT ![j] = "open"]
          /\ Offered' = Offered /\ starts' = starts => Lifecycle!Publish(j)
       /\ Stage[j] = "open" /\ Stage' = [Stage EXCEPT ![j] = "closed"]
          /\ Offered' = Offered /\ starts' = starts => Lifecycle!Close(j)
       /\ Stage[j] = "open" /\ starts[j] = 0 /\ j \notin Offered /\ Offered' = Offered \cup {j}
          /\ Stage' = Stage /\ starts' = starts => Lifecycle!Offer(j)
       /\ j \in Offered /\ starts[j] = 0 /\ Offered' = Offered \ {j}
          /\ starts' = [starts EXCEPT ![j] = 1] /\ Stage' = Stage => Lifecycle!Start(j)
       /\ j \in Offered /\ Offered' = Offered \ {j}
          /\ Stage' = Stage /\ starts' = starts => Lifecycle!Refuse(j)
  /\ Offered' = {} /\ Stage' = Stage /\ starts' = starts => Lifecycle!Abandon
  BY DEF Stage, StageOf, Offered, Lifecycle!Init, Lifecycle!vars, Lifecycle!Publish, Lifecycle!Close,
         Lifecycle!Offer, Lifecycle!Start, Lifecycle!Refuse, Lifecycle!Abandon

\* What each status looks like.
LEMMA StageFacts ==
  /\ StageOf("absent") = "absent"
  /\ \A status \in {"pending", "queued", "running"} : StageOf(status) = "open"
  /\ \A status \in Terminal : StageOf(status) = "closed"
  BY DEF StageOf, Terminal

\* A write shows in the stage of its row only.
LEMMA StageWritten ==
  ASSUME TypeOK, NEW j \in Jobs, NEW status \in Statuses, NEW p \in Payloads, Write(j, status, p)
  PROVE  /\ Stage' = [Stage EXCEPT ![j] = StageOf(status)]
         /\ StageOf(status) = Stage[j] => Stage' = Stage
  <1>1. /\ row'[j].status = status
        /\ \A k \in Jobs : k # j => row'[k] = row[k]
    BY WriteRow
  <1> QED BY <1>1 DEF Stage

\* A step that leaves the stages and the submissions under way alone shows nothing.
LEMMA HiddenStep ==
  ASSUME Stage' = Stage, UNCHANGED starts,
         \A t \in Threads :
           \/ pc'[t] = pc[t] /\ cur'[t] = cur[t]
           \/ pc[t] # "submitting" /\ pc'[t] # "submitting"
  PROVE  UNCHANGED Lifecycle!vars
  <1>1. Offered' = Offered BY DEF Offered
  <1>2. (Lifecycle!vars = <<Stage, Offered, starts>>)' BY LifecycleSteps, PTL
  <1> QED BY <1>1, <1>2, LifecycleSteps

\* So does one that leaves the rows alone.
LEMMA HiddenQuietStep ==
  ASSUME UNCHANGED <<row, starts>>,
         \A t \in Threads :
           \/ pc'[t] = pc[t] /\ cur'[t] = cur[t]
           \/ pc[t] # "submitting" /\ pc'[t] # "submitting"
  PROVE  UNCHANGED Lifecycle!vars
  <1>1. Stage' = Stage BY DEF Stage
  <1> QED BY <1>1, HiddenStep

\* At the beginning nothing is offered, and damaged rows are open.
LEMMA LifecycleInitially == Init => Lifecycle!Init
  <1> SUFFICES ASSUME Init PROVE Lifecycle!Init OBVIOUS
  <1>1. \A j \in Jobs : row[j].status \in {"absent", "queued"} BY DEF Init
  <1>2. Stage \in [Jobs -> {"absent", "open"}] BY <1>1, StageFacts DEF Stage
  <1>3. Offered = {} BY DEF Init, Offered
  <1> QED BY <1>2, <1>3, LifecycleSteps DEF Init

\* The reconciler lists rows that are queued or running: what it closes was open.
ListedAreActive == \A j \in DOMAIN snap : snap[j].status \in Active

\* start() lists such rows only, and nothing else adds to its list.
LEMMA ListingActive == Spec => []ListedAreActive
  <1>1. Init => ListedAreActive BY DEF Init, ListedAreActive
  <1>2. ListedAreActive /\ [Next]_vars => ListedAreActive'
    <2> SUFFICES ASSUME ListedAreActive, [Next]_vars PROVE ListedAreActive' OBVIOUS
    <2>1. CASE UNCHANGED snap BY <2>1 DEF ListedAreActive
    <2>2. CASE StartService BY <2>2 DEF StartService, Stale, ListedAreActive
    <2>3. ASSUME NEW j \in Jobs, Handled(j) PROVE ListedAreActive'
      BY <2>3 DEF Handled, ListedAreActive
    <2>4. CASE Crash BY <2>4 DEF Crash, ListedAreActive
    <2> QED BY <2>1, <2>2, <2>3, <2>4
          DEF Next, ThreadStep, Reconcile, Tick, CreateJob, CloseJob, BeginIteration, EndIteration,
              Claim, MarkDispatching, DispatcherAccepts, DispatcherRejects, MarkAccepted,
              ReturnRejected, IterationFails, RecoverJob, RecoverFails, FinishStart, StopService,
              ServiceExits, vars, reconciliation
  <1> QED BY <1>1, <1>2, PTL DEF Spec

\* Every step of the queue is one of JobLifecycle, or shows nothing.
LEMMA LifecycleStep ==
  TypeOK /\ TypeOK' /\ SafetyInv /\ ListedAreActive /\ [Next]_vars => [Lifecycle!Next]_(Lifecycle!vars)
  <1> SUFFICES ASSUME TypeOK, TypeOK', SafetyInv, ListedAreActive, [Next]_vars
               PROVE  Lifecycle!Next \/ UNCHANGED Lifecycle!vars
    OBVIOUS
  <1> USE DEF reconciliation, threads, Leave, Goto
  <1>0. /\ \A j \in Jobs : row[j].payload \in Payloads /\ row[j].status \in Statuses
        /\ Terminal \subseteq Statuses /\ {"absent", "pending"} \cup Active \subseteq Statuses
        /\ \A j \in Jobs : Stage[j] = StageOf(row[j].status)
    BY DEF TypeOK, Rows, Statuses, Stage
  <1>1. CASE Tick BY <1>1, HiddenQuietStep DEF Tick
  <1>2. ASSUME NEW j \in Jobs, CreateJob(j) PROVE Lifecycle!Next
    <2>1. Stage' = [Stage EXCEPT ![j] = "open"] /\ Stage[j] = "absent"
      BY <1>0, <1>2, StageWritten, StageFacts DEF CreateJob
    <2>2. Offered' = Offered BY <1>2 DEF CreateJob, Offered
    <2>3. Lifecycle!Publish(j) BY <1>2, <2>1, <2>2, LifecycleSteps DEF CreateJob
    <2> QED BY <2>3 DEF Lifecycle!Next
  <1>3. ASSUME NEW j \in Jobs, NEW new \in Terminal, CloseJob(j, new) PROVE Lifecycle!Next
    <2>1. Stage' = [Stage EXCEPT ![j] = "closed"]
      BY <1>0, <1>3, StageWritten, StageFacts DEF CloseJob
    <2>2. row[j].status \in {"pending", "queued", "running"}
      BY <1>0, <1>3 DEF CloseJob, Transitions, Statuses, Active, Terminal
    <2>3. Stage[j] = "open" BY <1>0, <2>2, StageFacts
    <2>4. Offered' = Offered BY <1>3 DEF CloseJob, Offered
    <2>5. Lifecycle!Close(j) BY <1>3, <2>1, <2>3, <2>4, LifecycleSteps DEF CloseJob
    <2> QED BY <2>5 DEF Lifecycle!Next
  <1>4. ASSUME NEW t \in Threads, BeginIteration(t) PROVE UNCHANGED Lifecycle!vars
    BY <1>4, HiddenQuietStep DEF BeginIteration, TypeOK
  <1>5. ASSUME NEW t \in Threads, EndIteration(t) PROVE UNCHANGED Lifecycle!vars
    BY <1>5, HiddenQuietStep DEF EndIteration, TypeOK
  <1>6. ASSUME NEW t \in Threads, Claim(t) PROVE UNCHANGED Lifecycle!vars
    <2>1. PICK j \in batch[t] :
            /\ \/ row[j].status = "pending" /\ Write(j, "queued", Claimed(row[j].payload, now))
               \/ UNCHANGED row
            /\ \/ cur' = [cur EXCEPT ![t] = j] /\ pc' = [pc EXCEPT ![t] = "claimed"]
               \/ UNCHANGED <<cur, pc>>
            /\ pc[t] = "next" /\ UNCHANGED starts
      BY <1>6 DEF Claim
    <2>2. j \in Jobs /\ now \in Int BY DEF TypeOK
    <2>3. Claimed(row[j].payload, now) \in Payloads BY <1>0, <2>2, PayloadEdits
    <2>4. Stage' = Stage
      <3>1. CASE UNCHANGED row BY <3>1 DEF Stage
      <3>2. CASE row[j].status = "pending" /\ Write(j, "queued", Claimed(row[j].payload, now))
        <4>1. Stage[j] = StageOf("queued") BY <1>0, <2>2, <3>2, StageFacts
        <4>2. "queued" \in Statuses BY DEF Statuses, Active
        <4> QED BY <2>2, <2>3, <3>2, <4>1, <4>2, StageWritten
      <3> QED BY <2>1, <3>1, <3>2
    <2>5. \A u \in Threads : \/ pc'[u] = pc[u] /\ cur'[u] = cur[u]
                             \/ pc[u] # "submitting" /\ pc'[u] # "submitting"
      BY <2>1 DEF TypeOK
    <2> QED BY <2>1, <2>4, <2>5, HiddenStep
  <1>7. ASSUME NEW t \in Threads, MarkDispatching(t)
        PROVE  Lifecycle!Next \/ UNCHANGED Lifecycle!vars
    <2>0. PICK j \in Jobs : j = cur[t] BY <1>7 DEF MarkDispatching, TypeOK
    <2>1. CASE UNCHANGED row /\ pc'[t] = "next"
      BY <1>7, <2>1, HiddenQuietStep DEF MarkDispatching, TypeOK
    <2>2. CASE /\ QueuedAs(j, seen[t])
               /\ Write(j, "queued", Dispatching(row[j].payload))
               /\ pc' = [pc EXCEPT ![t] = "submitting"]
               /\ UNCHANGED cur
      <3>1. pc[t] = "claimed" /\ UNCHANGED starts BY <1>7 DEF MarkDispatching
      <3>2. /\ row[j].status = "queued" /\ row[j].payload.dispatch = "none" /\ starts[j] = 0
            /\ \A u \in Threads : ~InFlight(u, j)
        BY <2>2, <3>1, UnmarkedIsFree
           DEF SafetyInv, ClaimIsUnmarked, UnmarkedIsUnstarted, QueuedAs, Marked, Terminal
      <3>3. Dispatching(row[j].payload) \in Payloads BY <1>0, PayloadEdits
      <3>4. Stage[j] = "open" /\ Stage' = Stage
        <4>1. Stage[j] = StageOf("queued") BY <1>0, <3>2
        <4>2. "queued" \in Statuses BY DEF Statuses, Active
        <4> QED BY <2>2, <3>3, <4>1, <4>2, StageFacts, StageWritten
      <3>5. j \notin Offered BY <3>2 DEF Offered, InFlight
      <3>6. Offered' = Offered \cup {j} BY <2>0, <2>2, <3>1 DEF Offered, TypeOK
      <3>7. Lifecycle!Offer(j) BY <3>1, <3>2, <3>4, <3>5, <3>6, LifecycleSteps
      <3> QED BY <3>7 DEF Lifecycle!Next
    <2> QED BY <1>7, <2>0, <2>1, <2>2 DEF MarkDispatching, TypeOK
  <1>8. ASSUME NEW t \in Threads, DispatcherAccepts(t) \/ DispatcherRejects(t) PROVE Lifecycle!Next
    <2>0. PICK j \in Jobs : j = cur[t]
      BY <1>8 DEF DispatcherAccepts, DispatcherRejects, TypeOK
    <2>1. /\ pc[t] = "submitting" /\ pc'[t] \in {"accepted", "rejected"}
          /\ \A u \in Threads : u # t => pc'[u] = pc[u]
          /\ UNCHANGED <<row, cur>>
      BY <1>8 DEF DispatcherAccepts, DispatcherRejects, TypeOK
    <2>2. \A u \in Threads : pc[u] = "submitting" /\ cur[u] = j => u = t
      BY <2>0, <2>1 DEF SafetyInv, SingleSubmission, InFlight
    <2>3. j \in Offered /\ starts[j] = 0
      BY <2>0, <2>1 DEF Offered, SafetyInv, AnswerIsTrue
    <2>4. Offered' = Offered \ {j} BY <2>0, <2>1, <2>2 DEF Offered
    <2>5. Stage' = Stage BY <2>1 DEF Stage
    <2>6. CASE DispatcherAccepts(t)
      <3>1. starts' = [starts EXCEPT ![j] = 1]
        BY <2>0, <2>3, <2>6 DEF DispatcherAccepts, TypeOK
      <3>2. Lifecycle!Start(j) BY <2>3, <2>4, <2>5, <3>1, LifecycleSteps
      <3> QED BY <3>2 DEF Lifecycle!Next
    <2>7. CASE DispatcherRejects(t)
      <3>1. Lifecycle!Refuse(j) BY <2>3, <2>4, <2>5, <2>7, LifecycleSteps DEF DispatcherRejects
      <3> QED BY <3>1 DEF Lifecycle!Next
    <2> QED BY <1>8, <2>6, <2>7
  <1>9. ASSUME NEW t \in Threads, MarkAccepted(t) \/ ReturnRejected(t)
        PROVE  UNCHANGED Lifecycle!vars
    <2>0. PICK j \in Jobs : j = cur[t] BY <1>9 DEF MarkAccepted, ReturnRejected, TypeOK
    <2>1. \/ UNCHANGED row
          \/ \E status \in {"running", "pending"}, p \in Payloads :
               row[j].status = "queued" /\ Write(j, status, p)
      <3>1. Accepted(row[j].payload) \in Payloads /\ Stripped(row[j].payload) \in Payloads
        BY <1>0, PayloadEdits
      <3> QED BY <1>9, <2>0, <3>1 DEF MarkAccepted, ReturnRejected, QueuedAs
    <2>2. Stage' = Stage
      <3>1. CASE UNCHANGED row BY <3>1 DEF Stage
      <3>2. ASSUME NEW status \in {"running", "pending"}, NEW p \in Payloads,
                   row[j].status = "queued", Write(j, status, p)
            PROVE  Stage' = Stage
        <4>1. status \in Statuses BY DEF Statuses, Active
        <4>2. StageOf(status) = Stage[j] BY <1>0, <3>2, StageFacts
        <4> QED BY <3>2, <4>1, <4>2, StageWritten
      <3> QED BY <2>1, <3>1, <3>2
    <2>3. /\ UNCHANGED starts
          /\ \A u \in Threads : \/ pc'[u] = pc[u] /\ cur'[u] = cur[u]
                                \/ pc[u] # "submitting" /\ pc'[u] # "submitting"
      BY <1>9 DEF MarkAccepted, ReturnRejected, TypeOK
    <2> QED BY <2>2, <2>3, HiddenStep
  <1>10. ASSUME NEW t \in Threads, IterationFails(t) PROVE UNCHANGED Lifecycle!vars
    BY <1>10, HiddenQuietStep DEF IterationFails, TypeOK
  <1>11. CASE StartService BY <1>11, HiddenQuietStep DEF StartService
  <1>12. ASSUME NEW j \in Jobs, RecoverJob(j) PROVE Lifecycle!Next \/ UNCHANGED Lifecycle!vars
    <2> DEFINE target == RecoveryTarget(row[j])
    <2>0. UNCHANGED <<starts, pc, cur>> BY <1>12 DEF RecoverJob
    <2>1. Offered' = Offered BY <2>0 DEF Offered
    <2>2. CASE UNCHANGED row BY <2>0, <2>2, HiddenQuietStep
    <2>3. CASE Write(j, target, Recovered(row[j].payload)) /\ row[j].status \in Active
      <3>1. target \in {"pending", "failed"} BY DEF RecoveryTarget
      <3>2. Stage[j] = "open" BY <1>0, <2>3, StageFacts DEF Active
      <3>3. Stage' = [Stage EXCEPT ![j] = StageOf(target)]
            /\ (StageOf(target) = Stage[j] => Stage' = Stage)
        <4>1. Recovered(row[j].payload) \in Payloads BY <1>0, PayloadEdits
        <4>2. target \in Statuses BY <3>1 DEF Statuses, Terminal
        <4> QED BY <2>3, <4>1, <4>2, StageWritten
      <3>4. CASE target = "pending" BY <2>0, <3>2, <3>3, <3>4, StageFacts, HiddenStep
      <3>5. CASE target = "failed"
        <4>1. StageOf(target) = "closed" BY <3>5, StageFacts DEF Terminal
        <4>2. Lifecycle!Close(j) BY <2>0, <2>1, <3>2, <3>3, <4>1, LifecycleSteps
        <4> QED BY <4>2 DEF Lifecycle!Next
      <3> QED BY <3>1, <3>4, <3>5
    <2> QED BY <1>12, <2>2, <2>3 DEF RecoverJob, ListedAreActive
  <1>13. CASE FinishStart BY <1>13, HiddenQuietStep DEF FinishStart
  <1>14. ASSUME NEW j \in Jobs, RecoverFails(j) PROVE UNCHANGED Lifecycle!vars
    BY <1>14, HiddenQuietStep DEF RecoverFails
  <1>15. CASE StopService BY <1>15, HiddenQuietStep DEF StopService
  <1>16. CASE ServiceExits BY <1>16, HiddenQuietStep DEF ServiceExits
  <1>17. CASE Crash
    <2>1. Offered' = {} BY <1>17 DEF Crash, Offered
    <2>2. Stage' = Stage BY <1>17 DEF Crash, Stage
    <2>3. Lifecycle!Abandon BY <1>17, <2>1, <2>2, LifecycleSteps DEF Crash
    <2> QED BY <2>3 DEF Lifecycle!Next
  <1>18. CASE UNCHANGED vars BY <1>18, HiddenQuietStep DEF vars
  <1> QED
    BY <1>1, <1>2, <1>3, <1>4, <1>5, <1>6, <1>7, <1>8, <1>9, <1>10, <1>11, <1>12, <1>13, <1>14,
       <1>15, <1>16, <1>17, <1>18 DEF Next, ThreadStep, Reconcile

\* SchedulerService's queue implements the life of a job that JobLifecycle states:
\* one submission at a time, none after a start, none of a closed job.
THEOREM QueueImplementsLifecycle == Spec => ImplementsLifecycle
  <1> QED BY LifecycleInitially, LifecycleStep, TypeCorrect, Safety, ListingActive, PTL
           DEF Spec, ImplementsLifecycle, Lifecycle!Spec
=============================================================================
