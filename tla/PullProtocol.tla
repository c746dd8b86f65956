----------------------------- MODULE PullProtocol -----------------------------
(***************************************************************************)
(* The pull protocol: worker slots (internal/worker/pull.go) that claim,   *)
(* execute, renew and submit over HTTP, and the coordinator's handlers     *)
(* (internal/coordinator/pull.go) in front of the lease queue.             *)
(*                                                                         *)
(* A slot is one goroutine of runSlot together with the renewLoop it       *)
(* starts for each claim.  Slots of one worker share its worker ID.        *)
(*                                                                         *)
(* The network (external).  A request is in net from the moment it is sent *)
(* until it is handled or lost.  The client may give up on a request that  *)
(* is still on its way (30 s timeout, broken connection): the request can  *)
(* be handled long after.  A response may be lost as well.  A response     *)
(* that arrives is taken in the step that produced it: between the two the *)
(* slot does nothing, and a lost response covers every interruption.       *)
(*                                                                         *)
(* Waiting (claim interval, backoff, renewal interval) is time passing     *)
(* between two steps of a slot and has no state here.                      *)
(***************************************************************************)
EXTENDS LeaseQueue

CONSTANTS
    Slots,        \* the execution slots of all workers
    Owners,       \* the ways considered to spread the slots over workers
    NoTask,       \* no task claimed
    Mortal,       \* the workers that may stop, crash and come back
    MaxInFlight,  \* bound: how many requests are on their way at a time
    MaxFaults,    \* bound: how often workers stop or crash
    MaxRestarts   \* bound: how often the coordinator is restarted

ASSUME OwnersAssumption == Owners \subseteq [Slots -> Workers]
ASSUME NoTaskAssumption == NoTask \notin TaskIDs
ASSUME MortalAssumption == Mortal \subseteq Workers
ASSUME BoundsAssumption == MaxInFlight \in Nat /\ MaxFaults \in Nat /\ MaxRestarts \in Nat

VARIABLES
    owner,     \* the worker each slot belongs to; never changes
    pc,        \* where runSlot is, per slot
    grant,     \* the claim a slot works on: task and lease, as the response said
    result,    \* what its executor returned
    renewing,  \* whether its renewLoop runs
    up,        \* per worker: its context is not cancelled
    net,       \* the requests on their way
    faults, restarts,           \* how many of each there have been
    used,                       \* history: the task IDs ever submitted
    started, finished, accepted \* history: leases whose execution began; results
                                \* executors returned; results workers were told
                                \* are "task_completed"

slotVars == <<pc, grant, result, renewing>>
history  == <<used, started, finished, accepted>>
poolVars == <<tasks, queued, order, issued, owner, pc, grant, result, renewing, up, net,
              faults, restarts, used, started, finished, accepted>>

NoGrant == [task |-> NoTask, lease |-> 0]

Outcomes == {"output", "error", "oversized"}

\* The requests a slot sends.  swept: the claim handler is past RequeueExpired
\* and has not called Claim yet.  late: the slot no longer waits for the claim.
ClaimRequest(s) == [kind |-> "claim", slot |-> s, late |-> FALSE, swept |-> FALSE]
RenewRequest(s) == [kind |-> "renew", slot |-> s, grant |-> grant[s]]
ResultRequest(s) == [kind |-> "result", slot |-> s, grant |-> grant[s], result |-> result[s]]

Send(m) == Cardinality(net) < MaxInFlight /\ net' = net \union {m}

Requests(kind) == {m \in net : m.kind = kind}

PoolInit ==
    /\ Init
    /\ owner \in Owners
    /\ pc = [s \in Slots |-> "idle"]
    /\ grant = [s \in Slots |-> NoGrant]
    /\ result = [s \in Slots |-> "none"]
    /\ renewing = [s \in Slots |-> FALSE]
    /\ up = [w \in Workers |-> TRUE]
    /\ net = {}
    /\ faults = 0 /\ restarts = 0
    /\ used = {} /\ started = {} /\ finished = {} /\ accepted = {}

-----------------------------------------------------------------------------
(* The coordinator *)

\* handlePullSubmit enqueues a task.  Task IDs carry the submission time and an
\* index, so an ID is submitted once, whether or not the coordinator restarted.
Submit(t) ==
    /\ t \notin used
    /\ Enqueue(t)
    /\ used' = used \union {t}
    /\ UNCHANGED <<owner, slotVars, up, net, faults, restarts, started, finished, accepted>>

\* handlePullClaim, first critical section: sweep and log the expired leases.
HandleClaimSweep(m) ==
    /\ ~m.swept
    /\ RequeueExpired
    /\ net' = (net \ {m}) \union {[m EXCEPT !.swept = TRUE]}
    /\ UNCHANGED <<owner, slotVars, up, faults, restarts, history>>

\* Second critical section: Claim, and the response to the slot if it arrives.
HandleClaim(m, delivered) ==
    /\ m.swept
    /\ delivered => ~m.late
    /\ net' = net \ {m}
    /\ \/ /\ ClaimNothing(owner[m.slot])
          /\ pc' = IF delivered THEN [pc EXCEPT ![m.slot] = "idle"] ELSE pc
          /\ UNCHANGED <<grant, result, renewing, started>>
       \/ /\ Claim(owner[m.slot])
          /\ IF delivered
             THEN \E t \in TaskIDs :
                    /\ tasks'[t].lease.id = issued'
                    /\ pc' = [pc EXCEPT ![m.slot] = "running"]
                    /\ grant' = [grant EXCEPT ![m.slot] = [task |-> t, lease |-> issued']]
                    /\ renewing' = [renewing EXCEPT ![m.slot] = TRUE]
                    /\ started' = started \union {grant'[m.slot]}
                    /\ UNCHANGED result
             ELSE UNCHANGED <<slotVars, started>>
    /\ UNCHANGED <<owner, up, faults, restarts, used, finished, accepted>>

\* Mutant: a late result is answered as if it had been taken.
pullErrorResponseLenient ==
    [not_found |-> "rejected", already_completed |-> "task_completed",
     stale_lease |-> "task_completed", task_failed |-> "task_failed",
     wrong_worker |-> "rejected"]

\* pullErrorResponse: the status a refused call is answered with.
pullErrorResponse ==
    [not_found |-> "rejected", already_completed |-> "task_completed",
     stale_lease |-> "stale_lease", task_failed |-> "task_failed",
     wrong_worker |-> "rejected"]

\* Whether the slot still waits for this very answer.
Awaits(m) == /\ grant[m.slot] = m.grant
             /\ IF m.kind = "result" THEN pc[m.slot] = "submitting" ELSE renewing[m.slot]

\* Mutant: the renewLoop ends when a renewal gets no answer.
HandleRenewOnce(m, delivered) ==
    LET verdict == activeLease(m.grant.task, m.grant.lease, owner[m.slot])
    IN /\ Renew(m.grant.task, m.grant.lease, owner[m.slot])
       /\ delivered => Awaits(m)
       /\ net' = net \ {m}
       /\ renewing' = IF delivered /\ verdict = "active"
                      THEN renewing ELSE [renewing EXCEPT ![m.slot] = FALSE]
       /\ UNCHANGED <<owner, pc, grant, result, up, faults, restarts, history>>

\* handlePullRenew.  Only a status other than "lease_renewed" ends the renewLoop;
\* a lost response is an error, after which it ticks on.
HandleRenew(m, delivered) ==
    LET verdict == activeLease(m.grant.task, m.grant.lease, owner[m.slot])
    IN /\ Renew(m.grant.task, m.grant.lease, owner[m.slot])
       /\ delivered => Awaits(m)
       /\ net' = net \ {m}
       /\ renewing' = IF delivered /\ verdict # "active"
                      THEN [renewing EXCEPT ![m.slot] = FALSE] ELSE renewing
       /\ UNCHANGED <<owner, pc, grant, result, up, faults, restarts, history>>

\* The status of handlePullResult's response.  A result over the size limits is
\* refused before it reaches the queue.
ResultStatus(m) ==
    LET verdict == activeLease(m.grant.task, m.grant.lease, owner[m.slot])
    IN CASE m.result = "oversized" -> "rejected"
         [] m.result # "oversized" /\ verdict # "active" -> pullErrorResponse[verdict]
         [] m.result = "output" /\ verdict = "active" -> "task_completed"
         [] m.result = "error" /\ verdict = "active" ->
                IF CanRetry(tasks[m.grant.task]) THEN "task_requeued" ELSE "task_failed"

\* Mutant: cancelRenew is not called.
ReleaseStillRenewing(s, next) ==
    /\ pc' = [pc EXCEPT ![s] = next]
    /\ grant' = [grant EXCEPT ![s] = NoGrant]
    /\ result' = [result EXCEPT ![s] = "none"]
    /\ UNCHANGED renewing

\* executeClaim after submitResultUntilResolved: the renewLoop is stopped and
\* waited for, and the slot claims again (or ends, its context cancelled).
Release(s, next) ==
    /\ pc' = [pc EXCEPT ![s] = next]
    /\ grant' = [grant EXCEPT ![s] = NoGrant]
    /\ result' = [result EXCEPT ![s] = "none"]
    /\ renewing' = [renewing EXCEPT ![s] = FALSE]

\* Mutant: ValidateResult is not called.
HandleResultUnchecked(m, delivered) ==
    /\ Complete(m.grant.task, m.grant.lease, owner[m.slot], m.result = "output")
    /\ net' = net \ {m}
    /\ delivered => Awaits(m)
    /\ IF delivered
       THEN /\ Release(m.slot, "idle")
            /\ accepted' = IF ResultStatus(m) = "task_completed"
                           THEN accepted \union {m.grant} ELSE accepted
       ELSE UNCHANGED <<slotVars, accepted>>
    /\ UNCHANGED <<owner, up, faults, restarts, used, started, finished>>

HandleResult(m, delivered) ==
    /\ IF m.result = "oversized"
       THEN UNCHANGED vars
       ELSE Complete(m.grant.task, m.grant.lease, owner[m.slot], m.result = "output")
    /\ net' = net \ {m}
    /\ delivered => Awaits(m)
    /\ IF delivered
       THEN /\ Release(m.slot, "idle")
            /\ accepted' = IF ResultStatus(m) = "task_completed"
                           THEN accepted \union {m.grant} ELSE accepted
       ELSE UNCHANGED <<slotVars, accepted>>
    /\ UNCHANGED <<owner, up, faults, restarts, used, started, finished>>

\* Any other caller that sweeps: the job, status and stats requests.
HandleRead ==
    /\ RequeueExpired
    /\ UNCHANGED <<owner, slotVars, up, net, faults, restarts, history>>

\* The coordinator's memory is all there is: a restart forgets every task, and
\* the requests being handled end with it.
CoordinatorRestart ==
    /\ restarts < MaxRestarts
    /\ restarts' = restarts + 1
    /\ tasks' = [t \in TaskIDs |-> Absent]
    /\ queued' = <<>> /\ order' = <<>>
    /\ net' = {m \in net : m.kind = "claim" => ~m.swept}
    /\ UNCHANGED <<issued, owner, slotVars, up, faults, history>>

-----------------------------------------------------------------------------
(* A worker slot *)

\* runSlot sends a claim when it has nothing to do.
SendClaim(s) ==
    /\ pc[s] = "idle" /\ up[owner[s]]
    /\ pc' = [pc EXCEPT ![s] = "claiming"]
    /\ Send(ClaimRequest(s))
    /\ UNCHANGED <<vars, owner, grant, result, renewing, up, faults, restarts, history>>

\* The claims of slot s still on their way, once it stops waiting for them.
Overdue(s) == {IF m.kind = "claim" /\ m.slot = s THEN [m EXCEPT !.late = TRUE] ELSE m : m \in net}

\* The claim failed: markUnavailable, back off, claim again.
ClaimFails(s) ==
    /\ pc[s] = "claiming"
    /\ pc' = [pc EXCEPT ![s] = "idle"]
    /\ net' = Overdue(s)
    /\ UNCHANGED <<vars, owner, grant, result, renewing, up, faults, restarts, history>>

\* The renewLoop ticks, beside whatever the slot itself is doing.
SendRenew(s) ==
    /\ renewing[s]
    /\ Send(RenewRequest(s))
    /\ UNCHANGED <<vars, owner, slotVars, up, faults, restarts, history>>

\* The executor returns.  It does not look at the context; the loop that submits
\* its result does, and drops the result of a worker that is stopping.
FinishExecution(s, r) ==
    /\ pc[s] = "running"
    /\ finished' = finished \union {[grant |-> grant[s], result |-> r]}
    /\ IF up[owner[s]]
       THEN /\ pc' = [pc EXCEPT ![s] = "done"]
            /\ result' = [result EXCEPT ![s] = r]
            /\ UNCHANGED <<grant, renewing>>
       ELSE Release(s, "stopped")
    /\ UNCHANGED <<vars, owner, up, net, faults, restarts, used, started, accepted>>

SendResult(s) ==
    /\ pc[s] = "done"
    /\ pc' = [pc EXCEPT ![s] = "submitting"]
    /\ Send(ResultRequest(s))
    /\ UNCHANGED <<vars, owner, grant, result, renewing, up, faults, restarts, history>>

\* Mutant: the HTTP client has no timeout, and waits for the answer forever.
SubmitFailsNever(s) ==
    /\ FALSE
    /\ pc' = [pc EXCEPT ![s] = "done"]
    /\ UNCHANGED <<vars, owner, grant, result, renewing, up, net, faults, restarts, history>>

\* No answer: submitResultUntilResolved backs off and submits again.
SubmitFails(s) ==
    /\ pc[s] = "submitting"
    /\ pc' = [pc EXCEPT ![s] = "done"]
    /\ UNCHANGED <<vars, owner, grant, result, renewing, up, net, faults, restarts, history>>

Lose(m) ==
    /\ net' = net \ {m}
    /\ UNCHANGED <<vars, owner, slotVars, up, faults, restarts, history>>

-----------------------------------------------------------------------------
(* Worker processes *)

SlotsOf(w) == {s \in Slots : owner[s] = w}

\* No slot of w waits for a claim any more.
AllOverdue(w) ==
    {IF m.kind = "claim" /\ owner[m.slot] = w THEN [m EXCEPT !.late = TRUE] ELSE m : m \in net}

\* Ctrl+C: the context is cancelled.  The slots of S end now, and every
\* renewLoop of w; the others are still executing.
Cancel(w, S) ==
    /\ w \in Mortal /\ faults < MaxFaults /\ faults' = faults + 1
    /\ pc' = [s \in Slots |-> IF s \in S THEN "stopped" ELSE pc[s]]
    /\ grant' = [s \in Slots |-> IF s \in S THEN NoGrant ELSE grant[s]]
    /\ result' = [s \in Slots |-> IF s \in S THEN "none" ELSE result[s]]
    /\ renewing' = [s \in Slots |-> renewing[s] /\ owner[s] # w]
    /\ up' = [up EXCEPT ![w] = FALSE]
    /\ net' = AllOverdue(w)
    /\ UNCHANGED <<vars, owner, restarts, history>>

Stop(w) == up[w] /\ Cancel(w, {s \in SlotsOf(w) : pc[s] # "running"})

Crash(w) == (\E s \in SlotsOf(w) : pc[s] # "stopped") /\ Cancel(w, SlotsOf(w))

\* The worker is started again under the same worker ID.
Restart(w) ==
    /\ ~up[w]
    /\ \A s \in SlotsOf(w) : pc[s] = "stopped"
    /\ up' = [up EXCEPT ![w] = TRUE]
    /\ pc' = [s \in Slots |-> IF owner[s] = w THEN "idle" ELSE pc[s]]
    /\ UNCHANGED <<vars, owner, grant, result, renewing, net, faults, restarts, history>>

PassTime == Tick /\ UNCHANGED <<owner, slotVars, up, net, faults, restarts, history>>

-----------------------------------------------------------------------------
(* Specification *)

PoolNext ==
    \/ \E t \in TaskIDs : Submit(t)
    \/ \E m \in Requests("claim") : HandleClaimSweep(m)
    \/ \E m \in Requests("claim"), delivered \in BOOLEAN : HandleClaim(m, delivered)
    \/ \E m \in Requests("renew"), delivered \in BOOLEAN : HandleRenew(m, delivered)
    \/ \E m \in Requests("result"), delivered \in BOOLEAN : HandleResult(m, delivered)
    \/ \E m \in net : Lose(m)
    \/ HandleRead
    \/ CoordinatorRestart
    \/ \E s \in Slots : SendClaim(s) \/ ClaimFails(s) \/ SendRenew(s)
    \/ \E s \in Slots, r \in Outcomes : FinishExecution(s, r)
    \/ \E s \in Slots : SendResult(s) \/ SubmitFails(s)
    \/ \E w \in Workers : Stop(w) \/ Crash(w) \/ Restart(w)
    \/ PassTime

PoolSpec == PoolInit /\ [][PoolNext]_poolVars

\* The goroutines of a worker run, an executor returns, and the client's timeout
\* ends every wait.  The network keeps no request forever, and of the requests
\* that are sent again and again it lets some through: it may lose any message,
\* not all of them.  It need not be fair to each slot: one slot that gets through
\* is enough.  Sending is strongly fair because the bound MaxInFlight, not the
\* code, can keep a slot from it.
PoolFairness ==
    /\ WF_poolVars(PassTime)
    /\ \A s \in Slots :
        /\ WF_poolVars(ClaimFails(s) \/ SubmitFails(s))
        /\ WF_poolVars(\E r \in Outcomes : FinishExecution(s, r))
    /\ WF_poolVars(PoolNext /\ \E m \in net : m \notin net')
    /\ SF_poolVars(\E s \in Slots : SendClaim(s))
    /\ SF_poolVars(\E s \in Slots : SendResult(s))
    /\ SF_poolVars(\E m \in Requests("claim") : HandleClaimSweep(m))
    /\ SF_poolVars(\E m \in Requests("claim"), delivered \in BOOLEAN :
                      HandleClaim(m, delivered))
    /\ SF_poolVars(\E m \in Requests("result") : HandleResult(m, TRUE))

FairPoolSpec == PoolSpec /\ PoolFairness

-----------------------------------------------------------------------------
(* Correctness *)

Grants == [task : TaskIDs, lease : 1..issued]

\* With the types: a slot has a grant exactly while it works on one, and its
\* renewLoop does not outlive that.
PoolTypeOK ==
    /\ TypeOK
    /\ owner \in Owners
    /\ \A s \in Slots : grant[s] # NoGrant <=> pc[s] \in {"running", "done", "submitting"}
    /\ \A s \in Slots : renewing[s] => grant[s] \in started
    /\ pc \in [Slots -> {"idle", "claiming", "running", "done", "submitting", "stopped"}]
    /\ grant \in [Slots -> Grants \union {NoGrant}]
    /\ result \in [Slots -> Outcomes \union {"none"}]
    /\ renewing \in [Slots -> BOOLEAN]
    /\ up \in [Workers -> BOOLEAN]
    /\ \A m \in net : m.slot \in Slots /\ (m.kind # "claim" => m.grant \in Grants)
    /\ faults \in 0..MaxFaults /\ restarts \in 0..MaxRestarts
    /\ used \subseteq TaskIDs /\ started \subseteq Grants
    /\ \A f \in finished : f.grant \in Grants /\ f.result \in Outcomes
    /\ accepted \subseteq Grants

\* Whatever is recorded for a task was produced: some slot executed that very
\* task under the lease the record names and its executor returned this result.
\* Nothing is recorded from a result that was over the limits.
RecordedWasProduced ==
    \A t \in TaskIDs :
        tasks[t].result.kind \in {"output", "error"} =>
            [grant |-> [task |-> t, lease |-> tasks[t].result.from],
             result |-> tasks[t].result.kind] \in finished

\* "A worker renews the lease while its executor is running" (SPEC.md:44): as
\* long as a slot's lease is the live one, nothing ends its renewLoop but the
\* end of the slot's work or of the worker.
RenewedWhileHeld ==
    \A s \in Slots :
        /\ grant[s] # NoGrant /\ up[owner[s]]
        /\ tasks[grant[s].task].lease.id = grant[s].lease
        /\ Live(grant[s].task)
        => renewing[s]

\* A worker is told "task_completed" only about a task that is completed, and
\* it stays so unless the coordinator was restarted.
CompletedAsTold ==
    \A g \in accepted :
        \/ tasks[g.task].state = "completed"
        \/ restarts > 0 /\ tasks[g.task].state = "absent"

\* A live lease ends only after the execution begun under it has returned; any other
\* ends by time alone.  So no lost, late or repeated request of another claim takes
\* a task from the slot at work on it, be it of the worker's other slots, which share
\* its ID, or of the worker's earlier run.
LeaseEndsByHolderOrTime ==
    [][\A t \in TaskIDs :
          LET l == tasks[t].lease.id
          IN l # 0 /\ tasks'[t].lease.id # l /\ restarts' = restarts =>
                \/ ~Live(t)
                \/ \E f \in finished : f.grant = [task |-> t, lease |-> l]]_poolVars

\* A submitted task ends: as long as one worker stays, lost messages, stopped and
\* crashed workers and refused results delay it, and cost attempts, no more.
EveryTaskEnds ==
    \A t \in TaskIDs : tasks[t].state = "queued" ~> Terminal(tasks[t])

\* A slot that began to execute is free again some day: its result is answered,
\* whatever happened to the lease meanwhile, or the worker stops.
EverySlotReturns ==
    \A s \in Slots : pc[s] = "running" ~> pc[s] \in {"idle", "stopped"}

\* worker/pull.go:242 logs "result accepted": the result recorded for the task
\* would be the one this slot sent.
AcceptedIsRecorded ==
    \A g \in accepted :
        tasks[g.task].state = "completed" => tasks[g.task].result.from = g.lease

=============================================================================
