------------------------------ MODULE LeaseQueue ------------------------------
(***************************************************************************)
(* The coordinator's pull-based task queue, internal/leasequeue/queue.go.  *)
(* Every exported method of Queue holds one mutex from its first read to   *)
(* its return, so each method is one atomic action here.                   *)
(*                                                                         *)
(* Time.  The code stamps a lease with ExpiresAt and compares it with the  *)
(* monotonic q.now().  The model keeps the time a lease has left, counted  *)
(* in units of LeaseDuration; Tick is the passing of one unit.  A lease    *)
(* has expired (!now.Before(ExpiresAt)) exactly when nothing is left.      *)
(* Expiry is not an event of its own: a lease that ran out stays in the    *)
(* table until some call sweeps it.                                        *)
(*                                                                         *)
(* External.  newLeaseID draws 16 random bytes; the model takes the next   *)
(* natural number, which is the assumption that lease IDs never collide.   *)
(***************************************************************************)
EXTENDS Naturals, Sequences, FiniteSets

CONSTANTS
    TaskIDs,        \* the task IDs a submitter can enqueue
    Workers,        \* the worker IDs that call the queue
    NoWorker,       \* the empty worker ID of a task nobody has claimed
    LeaseDuration,  \* Config.LeaseDuration, in ticks
    MaxAttempts     \* Config.MaxAttempts

ASSUME FiniteTaskIDs == IsFiniteSet(TaskIDs)
ASSUME NoWorkerAssumption == NoWorker \notin Workers
\* New rejects a configuration without these (lines 113-118).
ASSUME LeaseDurationAssumption == LeaseDuration \in Nat \ {0}
ASSUME MaxAttemptsAssumption == MaxAttempts \in Nat \ {0}

VARIABLES
    tasks,   \* q.tasks: one record per task ID, "absent" while not in the map
    queued,  \* q.queued: the IDs waiting to be claimed, oldest first
    order,   \* q.order: every ID ever enqueued, in enqueue order
    issued   \* how many lease IDs newLeaseID has handed out

vars == <<tasks, queued, order, issued>>

-----------------------------------------------------------------------------
(* Data *)

NoLease == [id |-> 0, workerID |-> NoWorker, left |-> 0]

(* A result keeps what the properties tell apart: whether it is an output,  *)
(* a worker-reported error or the queue's own "retry policy was exhausted", *)
(* and the lease under which its sender says it was produced.               *)
NoResult  == [kind |-> "none", from |-> 0]
Exhausted == [kind |-> "exhausted", from |-> 0]

Lease  == [id : Nat, workerID : Workers \union {NoWorker}, left : 0..LeaseDuration]
Result == [kind : {"none", "output", "error", "exhausted"}, from : Nat]
States == {"absent", "queued", "leased", "completed", "failed"}
Task   == [state : States, attempts : Nat,
           workerID : Workers \union {NoWorker}, lease : Lease, result : Result]

Absent == [state |-> "absent", attempts |-> 0, workerID |-> NoWorker,
           lease |-> NoLease, result |-> NoResult]

Terminal(task) == task.state \in {"completed", "failed"}

-----------------------------------------------------------------------------
(* Expiry *)

\* Mutant: the comparison with ExpiresAt is a tick early.
ExpiredEarly(t) == tasks[t].state = "leased" /\ tasks[t].lease # NoLease /\ tasks[t].lease.left <= 1

Expired(t) == tasks[t].state = "leased" /\ tasks[t].lease # NoLease /\ tasks[t].lease.left = 0

\* Mutant: one attempt too many.
CanRetryOnceMore(task) == task.attempts <= MaxAttempts

CanRetry(task) == task.attempts < MaxAttempts

\* Mutant: the lease is not cleared.
RequeuedLeased(task) == [task EXCEPT !.state = "queued", !.result = NoResult]

\* Mutant: a task that goes back starts over.
RequeuedAfresh(task) ==
    [task EXCEPT !.state = "queued", !.lease = NoLease, !.result = NoResult, !.attempts = 0]

\* A task goes back to the queue: no lease, no result, the attempts kept.
Requeued(task) == [task EXCEPT !.state = "queued", !.lease = NoLease, !.result = NoResult]

\* A task that used up its attempts, with the result that says why.
Failed(task, result) ==
    [task EXCEPT !.state = "failed", !.lease = NoLease, !.result = result]

\* Mutant: expiry ignores the retry policy.
AfterExpiryForever(task) == Requeued(task)

\* expireTaskLocked, for one task.
AfterExpiry(task) == IF CanRetry(task) THEN Requeued(task) ELSE Failed(task, Exhausted)

\* The table after expireLocked went over it.
Swept == [t \in TaskIDs |-> IF Expired(t) THEN AfterExpiry(tasks[t]) ELSE tasks[t]]

Precedes(t, u) == \E i, j \in 1..Len(order) : i < j /\ order[i] = t /\ order[j] = u

\* expireLocked walks q.order, so it appends the tasks it requeues in that
\* order: this set holds the one sequence that lists them so.
GoingBack == {t \in TaskIDs : Expired(t) /\ CanRetry(tasks[t])}

Returned ==
    {s \in [1..Cardinality(GoingBack) -> GoingBack] :
        \A i, j \in 1..Cardinality(GoingBack) : i < j => Precedes(s[i], s[j])}

-----------------------------------------------------------------------------
(* The active lease *)

Holds(t, l, w) ==
    /\ tasks[t].state = "leased"
    /\ tasks[t].lease.id = l
    /\ tasks[t].lease.workerID = w

Live(t) == tasks[t].lease.left > 0

\* Mutant: only the worker is checked, not the state nor the lease.
activeLeaseByWorker(t, l, w) ==
    IF tasks[t].workerID = w THEN "active" ELSE "wrong_worker"

\* Mutant: the holder's call is taken whether or not the lease still runs.
activeLeaseUntimed(t, l, w) == IF Holds(t, l, w) THEN "active" ELSE "stale_lease"

\* activeLeaseLocked's verdict on a call about task t that shows lease l.
activeLease(t, l, w) ==
    CASE tasks[t].state = "absent"    -> "not_found"
      [] tasks[t].state = "completed" -> "already_completed"
      [] tasks[t].state = "failed"    -> "task_failed"
      [] tasks[t].state = "queued"    -> "stale_lease"
      [] tasks[t].state = "leased" /\ tasks[t].lease.id # l -> "stale_lease"
      [] tasks[t].state = "leased" /\ tasks[t].lease.id = l
             /\ tasks[t].lease.workerID # w -> "wrong_worker"
      [] Holds(t, l, w) /\ ~Live(t)   -> "stale_lease"
      [] Holds(t, l, w) /\ Live(t)    -> "active"

\* Mutant: the expired task is not put back into q.queued.
expireTaskDropped(t) ==
    /\ tasks' = [tasks EXCEPT ![t] = AfterExpiry(tasks[t])]
    /\ UNCHANGED queued

\* A call under a lease that has run out expires it on the spot (lines 349-351).
expireTask(t) ==
    /\ tasks' = [tasks EXCEPT ![t] = AfterExpiry(tasks[t])]
    /\ queued' = IF CanRetry(tasks[t]) THEN Append(queued, t) ELSE queued

\* What Renew and Complete do to the queue when activeLeaseLocked refuses them.
Refuse(t, l, w) ==
    /\ activeLease(t, l, w) # "active"
    /\ IF Holds(t, l, w) THEN expireTask(t) ELSE UNCHANGED <<tasks, queued>>

-----------------------------------------------------------------------------
(* Operations *)

Init ==
    /\ tasks = [t \in TaskIDs |-> Absent]
    /\ queued = <<>>
    /\ order = <<>>
    /\ issued = 0

\* Mutant: Enqueue does not look whether the task exists.
EnqueueTwice(t) ==
    /\ tasks' = [tasks EXCEPT ![t].state = "queued"]
    /\ queued' = Append(queued, t)
    /\ order' = Append(order, t)
    /\ Len(order) < 4
    /\ UNCHANGED issued

\* A second Enqueue of an ID returns ErrTaskExists and changes nothing.
Enqueue(t) ==
    /\ tasks[t].state = "absent"
    /\ tasks' = [tasks EXCEPT ![t].state = "queued"]
    /\ queued' = Append(queued, t)
    /\ order' = Append(order, t)
    /\ UNCHANGED issued

\* The task record Claim leaves behind, under a fresh lease for w.
Granted(task, w) ==
    [task EXCEPT !.state = "leased", !.attempts = @ + 1, !.workerID = w,
                 !.lease = [id |-> issued + 1, workerID |-> w, left |-> LeaseDuration]]

\* The entry Claim's loop stops at: it drops every entry of q that is not queued.
FirstQueued(table, q, k) ==
    /\ table[q[k]].state = "queued"
    /\ \A j \in 1..(k - 1) : table[q[j]].state # "queued"

\* Claim sweeps expired leases, then leases the oldest queued task.
Claim(w) ==
    \E back \in Returned :
        LET q == queued \o back
        IN \E k \in 1..Len(q) :
            /\ FirstQueued(Swept, q, k)
            /\ tasks' = [Swept EXCEPT ![q[k]] = Granted(Swept[q[k]], w)]
            /\ queued' = SubSeq(q, k + 1, Len(q))
            /\ issued' = issued + 1
            /\ UNCHANGED order

\* Claim found no task: it swept, and dropped every entry there was.
ClaimNothing(w) ==
    \E back \in Returned :
        LET q == queued \o back
        IN /\ \A k \in 1..Len(q) : Swept[q[k]].state # "queued"
           /\ tasks' = Swept
           /\ queued' = <<>>
           /\ UNCHANGED <<order, issued>>

\* Mutant: the lease is extended from its old end, not from now.
RenewExtending(t, l, w) ==
    /\ \/ /\ activeLease(t, l, w) = "active"
          /\ tasks' = [tasks EXCEPT ![t].lease.left = @ + LeaseDuration]
          /\ UNCHANGED queued
       \/ Refuse(t, l, w)
    /\ UNCHANGED <<order, issued>>

Renew(t, l, w) ==
    /\ \/ /\ activeLease(t, l, w) = "active"
          /\ tasks' = [tasks EXCEPT ![t].lease.left = LeaseDuration]
          /\ UNCHANGED queued
       \/ Refuse(t, l, w)
    /\ UNCHANGED <<order, issued>>

\* Complete with a successful result.
CompleteOutput(t, l, w) ==
    /\ activeLease(t, l, w) = "active"
    /\ tasks' = [tasks EXCEPT ![t].state = "completed", ![t].lease = NoLease,
                              ![t].result = [kind |-> "output", from |-> l]]
    /\ UNCHANGED queued

\* Mutant: a failed task jumps the line.
CompleteErrorInFront(t, l, w) ==
    /\ activeLease(t, l, w) = "active"
    /\ IF CanRetry(tasks[t])
       THEN /\ tasks' = [tasks EXCEPT ![t] = Requeued(tasks[t])]
            /\ queued' = <<t>> \o queued
       ELSE /\ tasks' = [tasks EXCEPT
                           ![t] = Failed(tasks[t], [kind |-> "error", from |-> l])]
            /\ UNCHANGED queued

\* Complete with a worker-reported error: retried until the policy is exhausted.
CompleteError(t, l, w) ==
    /\ activeLease(t, l, w) = "active"
    /\ IF CanRetry(tasks[t])
       THEN /\ tasks' = [tasks EXCEPT ![t] = Requeued(tasks[t])]
            /\ queued' = Append(queued, t)
       ELSE /\ tasks' = [tasks EXCEPT
                           ![t] = Failed(tasks[t], [kind |-> "error", from |-> l])]
            /\ UNCHANGED queued

Complete(t, l, w, ok) ==
    /\ \/ ok /\ CompleteOutput(t, l, w)
       \/ ~ok /\ CompleteError(t, l, w)
       \/ Refuse(t, l, w)
    /\ UNCHANGED <<order, issued>>

\* expireLocked, and with it the whole effect of RequeueExpired.  The reads
\* Get, JobTasks, Snapshot and Stats call expireLocked too and change nothing
\* else.  Observe does not even do that.
RequeueExpired ==
    /\ tasks' = Swept
    /\ \E back \in Returned : queued' = queued \o back
    /\ UNCHANGED <<order, issued>>

\* The passing of one unit of time.
Tick ==
    /\ \E t \in TaskIDs : tasks[t].lease.left > 0
    /\ tasks' = [t \in TaskIDs |->
                    IF tasks[t].lease.left > 0
                    THEN [tasks[t] EXCEPT !.lease.left = @ - 1]
                    ELSE tasks[t]]
    /\ UNCHANGED <<queued, order, issued>>

-----------------------------------------------------------------------------
(* Specification *)

\* A caller shows any lease that was ever issued, or one that never was (0):
\* the task, the lease and the worker of a call need not belong together.
LeaseIDs == 0..issued

Next ==
    \/ \E t \in TaskIDs : Enqueue(t)
    \/ \E w \in Workers : Claim(w)
    \/ \E w \in Workers : ClaimNothing(w)
    \/ \E t \in TaskIDs, l \in LeaseIDs, w \in Workers : Renew(t, l, w)
    \/ \E t \in TaskIDs, l \in LeaseIDs, w \in Workers, ok \in BOOLEAN : Complete(t, l, w, ok)
    \/ RequeueExpired
    \/ Tick

Spec == Init /\ [][Next]_vars

-----------------------------------------------------------------------------
(* Correctness *)

TypeOK ==
    /\ tasks \in [TaskIDs -> Task]
    /\ queued \in Seq(TaskIDs)
    /\ order \in Seq(TaskIDs)
    /\ issued \in Nat

\* Sequence q holds exactly the task IDs of S, each of them once.
Lists(q, S) ==
    /\ \A i, j \in 1..Len(q) : i # j => q[i] # q[j]
    /\ \A t \in TaskIDs : t \in S <=> \E i \in 1..Len(q) : q[i] = t

Waiting(table) == {t \in TaskIDs : table[t].state = "queued"}
Known(table)   == {t \in TaskIDs : table[t].state # "absent"}

\* Waiting tasks and q.queued are two records of one fact, kept by four
\* different methods: a task is in state "queued" exactly when its ID is in
\* q.queued, and it is there once.  A task missing from q.queued is never
\* claimed again; a task listed twice runs under two leases at a time.
QueueConsistent == Lists(queued, Waiting(tasks))

\* q.order lists every task of the map once, so that expireLocked, which walks
\* q.order and not the map, cannot miss a lease that ran out.
OrderConsistent == Lists(order, Known(tasks))

\* A lease is held by exactly one task and a task is leased exactly while it
\* holds one; the worker the status calls report is the one that holds it.
LeaseConsistent ==
    /\ \A t \in TaskIDs :
          /\ tasks[t].state = "leased" <=> tasks[t].lease # NoLease
          /\ tasks[t].state = "leased" =>
                /\ tasks[t].lease.id \in 1..issued
                /\ tasks[t].lease.workerID = tasks[t].workerID
                /\ tasks[t].workerID \in Workers
    /\ \A t, u \in TaskIDs :
          t # u /\ tasks[t].state = "leased" /\ tasks[u].state = "leased"
              => tasks[t].lease.id # tasks[u].lease.id

\* The retry policy: a task is given out at most MaxAttempts times, a waiting
\* task always has an attempt left, a task fails for good only when it has
\* none, and only a finished task carries a result.
RetryPolicy ==
    \A t \in TaskIDs :
        /\ tasks[t].attempts <= MaxAttempts
        /\ tasks[t].state = "queued" => CanRetry(tasks[t])
        /\ tasks[t].state = "failed" => tasks[t].attempts = MaxAttempts
        /\ tasks[t].state \in {"leased", "completed"} => tasks[t].attempts >= 1
        /\ tasks[t].state = "absent" => tasks[t].attempts = 0
        /\ Terminal(tasks[t]) <=> tasks[t].result # NoResult

\* A finished task is never touched again, by whichever late result, renewal,
\* sweep or claim comes after ("A completed task is never duplicated").
TerminalIsFinal ==
    [][\A t \in TaskIDs : Terminal(tasks[t]) => tasks'[t] = tasks[t]]_vars

\* What is recorded for a task comes from the lease it was under at that
\* moment, while that lease still ran: a result that is late, or shows a lease
\* that was replaced, is never recorded.  The queue writes its own verdict
\* only over a lease that has run out.
ResultFromLiveLease ==
    [][\A t \in TaskIDs :
          tasks'[t].result # tasks[t].result =>
              IF tasks'[t].result.kind = "exhausted"
              THEN Expired(t)
              ELSE Live(t) /\ tasks'[t].result.from = tasks[t].lease.id]_vars

\* A lease that still runs is ended by nobody but its holder: no other
\* worker's claim, renewal or result, and no sweep, takes the task away.
LiveLeaseKept ==
    [][\A t \in TaskIDs :
          Live(t) =>
              \/ tasks'[t].lease.id = tasks[t].lease.id
              \/ \E ok \in BOOLEAN :
                    Complete(t, tasks[t].lease.id, tasks[t].lease.workerID, ok)]_vars

\* Everyone in the line from place k on moves k - 1 places to the front.
Stays(k) ==
    \A i \in k..Len(queued) :
        i - k + 1 <= Len(queued') /\ queued'[i - k + 1] = queued[i]

\* First come, first served: the line loses nothing but its head, only to a
\* lease, and whoever comes or comes back joins at its end.
FirstComeFirstServed ==
    [][Stays(1) \/ (Stays(2) /\ tasks'[Head(queued)].state = "leased")]_vars

\* Each task on its own behaves as TaskLifecycle promises: this is
\* \A t \in TaskIDs : Life(t)!LifeSpec, with the quantifier moved inwards.
Life(t) == INSTANCE TaskLifecycle WITH
    phase <- IF tasks[t].state = "queued" THEN "waiting"
             ELSE IF tasks[t].state = "leased" THEN "held" ELSE tasks[t].state,
    grants <- tasks[t].attempts,
    outcome <- tasks[t].result,
    Outcomes <- Result \ {NoResult},
    NoOutcome <- NoResult

LifecyclePromise ==
    /\ \A t \in TaskIDs : Life(t)!LifeInit
    /\ [][\A t \in TaskIDs : [Life(t)!LifeNext]_(Life(t)!lifeVars)]_vars

=============================================================================
