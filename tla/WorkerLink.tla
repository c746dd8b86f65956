------------------------------ MODULE WorkerLink ------------------------------
(***************************************************************************)
(* One worker from the inside: what its slots and their renewal loops      *)
(* (internal/worker/pull.go) tell the worker's log and its screen          *)
(* (internal/monitor/worker.go) about the coordinator and about the tasks  *)
(* they execute, and how all of them end when the worker is told to stop.  *)
(*                                                                         *)
(* A slot is a goroutine of runSlot, and for each claim there is one of    *)
(* renewLoop beside it.  Both send requests, one at a time, and call       *)
(* markUnavailable or markConnected when one ends.  The first takes two    *)
(* locks one after the other and writes the log under neither; the second  *)
(* does everything under the lock of connectionState.                      *)
(*                                                                         *)
(* The coordinator is reduced to its answers: a claim is answered with a   *)
(* task or none, a renewal and a result with any status.  Left out are the *)
(* wording of errors, times, retry counters and the events about tasks;    *)
(* "unavailable" stands for what the screen says about any kind of error.  *)
(***************************************************************************)
EXTENDS FiniteSets, Integers

CONSTANTS
    Slots,        \* the execution slots of the worker
    TaskIDs,      \* the tasks a claim can be answered with
    NoTask,       \* what an idle slot works on
    MaxGrants,    \* bound: how many claims are answered with a task
    MaxFailures   \* bound: how many requests fail

\* Run starts Config.Concurrency of them (lines 94-99).
ASSUME SlotsAssumption == IsFiniteSet(Slots)
ASSUME NoTaskAssumption == NoTask \notin TaskIDs
ASSUME BoundsAssumption == MaxGrants \in Nat /\ MaxFailures \in Nat

\* Who sends requests: a slot, and the renewLoop beside it.
Senders == Slots \X {"slot", "loop"}

VARIABLES
    live,        \* the worker's context is not cancelled
    stopped,     \* Run has told the screen that the worker stops
    pc,          \* where runSlot is, per slot
    loop,        \* where its renewLoop is
    task,        \* the task it works on
    mark,        \* how far markUnavailable is, per sender
    everConnected, unavailable,   \* connectionState
    connection,  \* WorkerTracker: the coordinator, as the screen shows it
    activeTasks, \* WorkerTracker: the tasks shown as active
    outages,     \* the log: reports of an outage less reports of its end
    granted,     \* history: how often each task was handed to this worker
    grants,      \* history: how many claims were answered with a task
    over,        \* the tasks the coordinator has called completed or failed
    failures     \* how many requests have failed

linkVars == <<live, stopped, pc, loop, task, mark, everConnected, unavailable,
              connection, activeTasks, outages, granted, grants, over, failures>>

state == <<everConnected, unavailable>>
offers == <<granted, grants, over>>
slots == <<pc, loop, task, offers>>

LinkInit ==
    /\ live = TRUE /\ stopped = FALSE
    /\ pc = [s \in Slots |-> "idle"]
    /\ loop = [s \in Slots |-> "off"]
    /\ task = [s \in Slots |-> NoTask]
    /\ mark = [g \in Senders |-> "none"]
    /\ everConnected = FALSE /\ unavailable = FALSE
    /\ connection = "starting"
    /\ activeTasks = {}
    /\ outages = 0
    /\ granted = [t \in TaskIDs |-> 0] /\ grants = 0
    /\ over = {}
    /\ failures = 0

-----------------------------------------------------------------------------
(* markUnavailable and markConnected *)

\* markUnavailable, first step: WorkerTracker.Unavailable.
tellMonitor(g) ==
    /\ failures < MaxFailures
    /\ failures' = failures + 1
    /\ connection' = "unavailable"
    /\ mark' = [mark EXCEPT ![g] = "told"]
    /\ UNCHANGED <<live, stopped, state, activeTasks, outages>>

\* Second step, under the lock of connectionState.
raiseFlag(g) ==
    /\ mark[g] = "told"
    /\ unavailable' = TRUE
    /\ mark' = [mark EXCEPT ![g] = IF unavailable THEN "none" ELSE "raised"]
    /\ UNCHANGED <<live, stopped, slots, everConnected, connection, activeTasks, outages,
                   failures>>

\* Mutant: WorkerTracker.Unavailable is called last, beside the log.
reportOutageToScreen(g) ==
    /\ mark[g] = "raised"
    /\ outages' = outages + 1
    /\ connection' = "unavailable"
    /\ mark' = [mark EXCEPT ![g] = "none"]
    /\ UNCHANGED <<live, stopped, slots, state, activeTasks, failures>>

\* Third step, under no lock: the log and the event.
reportOutage(g) ==
    /\ mark[g] = "raised"
    /\ outages' = outages + 1
    /\ mark' = [mark EXCEPT ![g] = "none"]
    /\ UNCHANGED <<live, stopped, slots, state, connection, activeTasks, failures>>

\* markConnected holds the lock throughout, also over WorkerTracker.Connected and
\* the log.  The first connection is reported as one, a later one as restored.
markConnected ==
    /\ everConnected' = TRUE
    /\ unavailable' = FALSE
    /\ connection' = "connected"
    /\ outages' = IF unavailable THEN outages - 1 ELSE outages
    /\ UNCHANGED <<live, stopped, mark, failures>>

\* A sender that is through with markUnavailable.
Free(s, who) == mark[<<s, who>>] = "none"

Goto(s, place) == pc' = [pc EXCEPT ![s] = place]

-----------------------------------------------------------------------------
(* runSlot *)

SendClaim(s) ==
    /\ pc[s] = "idle" /\ Free(s, "slot") /\ live
    /\ Goto(s, "claiming")
    /\ UNCHANGED <<live, stopped, loop, task, mark, state, connection, activeTasks, outages,
                   offers, failures>>

\* Under a cancelled context runSlot ends, whether at the head of its loop or in a
\* wait; so does a claim that fails for that reason.
SlotEnds(s) ==
    /\ pc[s] \in {"idle", "claiming"} /\ Free(s, "slot") /\ ~live
    /\ Goto(s, "ended")
    /\ UNCHANGED <<live, stopped, loop, task, mark, state, connection, activeTasks, outages,
                   offers, failures>>

ClaimFails(s) ==
    /\ pc[s] = "claiming" /\ live
    /\ Goto(s, "idle")
    /\ tellMonitor(<<s, "slot">>)
    /\ UNCHANGED <<loop, task, offers>>

\* A task may be granted to a second slot while the first one executes it: its lease
\* ran out.  A task that is over is not granted any more.
ClaimArrives(s) ==
    /\ pc[s] = "claiming"
    /\ markConnected
    /\ \/ Goto(s, "idle") /\ UNCHANGED <<task, granted, grants>>
       \/ \E t \in TaskIDs \ over :
             /\ grants < MaxGrants
             /\ grants' = grants + 1
             /\ granted' = [granted EXCEPT ![t] = @ + 1]
             /\ task' = [task EXCEPT ![s] = t]
             /\ Goto(s, "starting")
    /\ UNCHANGED <<loop, over, activeTasks>>

\* WorkerTracker.TaskStarted, which replaces an entry of the same task, and the
\* beginning of executeClaim.
TaskStarted(s) ==
    /\ pc[s] = "starting"
    /\ activeTasks' = activeTasks \union {task[s]}
    /\ Goto(s, "executing")
    /\ loop' = [loop EXCEPT ![s] = "ticking"]
    /\ UNCHANGED <<live, stopped, task, mark, state, connection, outages, offers, failures>>

\* The executor does not look at the context.
ExecutorReturns(s) ==
    /\ pc[s] = "executing"
    /\ Goto(s, "ready")
    /\ UNCHANGED <<live, stopped, loop, task, mark, state, connection, activeTasks, outages,
                   offers, failures>>

\* submitResultUntilResolved.
SendResult(s) ==
    /\ pc[s] = "ready" /\ Free(s, "slot") /\ live
    /\ Goto(s, "submitting")
    /\ UNCHANGED <<live, stopped, loop, task, mark, state, connection, activeTasks, outages,
                   offers, failures>>

ResultFails(s) ==
    /\ pc[s] = "submitting" /\ live
    /\ Goto(s, "ready")
    /\ tellMonitor(<<s, "slot">>)
    /\ UNCHANGED <<loop, task, offers>>

\* Any status resolves the result.
ResultArrives(s, final) ==
    /\ pc[s] = "submitting"
    /\ markConnected
    /\ over' = IF final THEN over \union {task[s]} ELSE over
    /\ Goto(s, "joining")
    /\ UNCHANGED <<loop, task, granted, grants, activeTasks>>

\* Under a cancelled context the result is dropped.
ResultDropped(s) ==
    /\ pc[s] \in {"ready", "submitting"} /\ Free(s, "slot") /\ ~live
    /\ Goto(s, "joining")
    /\ UNCHANGED <<live, stopped, loop, task, mark, state, connection, activeTasks, outages,
                   offers, failures>>

\* Mutant: a result that was dropped is not taken off the screen.
TaskFinishedIfResolved(s) ==
    /\ pc[s] = "joining" /\ loop[s] = "off"
    /\ activeTasks' = IF live THEN activeTasks \ {task[s]} ELSE activeTasks
    /\ task' = [task EXCEPT ![s] = NoTask]
    /\ Goto(s, "idle")
    /\ UNCHANGED <<live, stopped, loop, mark, state, connection, outages, offers, failures>>

\* Mutant: executeClaim does not wait for its renewLoop.
TaskFinishedUnjoined(s) ==
    /\ pc[s] = "joining"
    /\ activeTasks' = activeTasks \ {task[s]}
    /\ task' = [task EXCEPT ![s] = NoTask]
    /\ Goto(s, "idle")
    /\ UNCHANGED <<live, stopped, loop, mark, state, connection, outages, offers, failures>>

\* The end of executeClaim: cancelRenew, renewWG.Wait, WorkerTracker.TaskFinished.
TaskFinished(s) ==
    /\ pc[s] = "joining" /\ loop[s] = "off"
    /\ activeTasks' = activeTasks \ {task[s]}
    /\ task' = [task EXCEPT ![s] = NoTask]
    /\ Goto(s, "idle")
    /\ UNCHANGED <<live, stopped, loop, mark, state, connection, outages, offers, failures>>

-----------------------------------------------------------------------------
(* renewLoop *)

GotoLoop(s, place) == loop' = [loop EXCEPT ![s] = place]

\* The loop's context: the worker's, cancelled also when the slot is done.
RenewLive(s) == live /\ pc[s] # "joining"

SendRenewal(s) ==
    /\ loop[s] = "ticking" /\ Free(s, "loop") /\ RenewLive(s)
    /\ GotoLoop(s, "renewing")
    /\ UNCHANGED <<live, stopped, pc, task, mark, state, connection, activeTasks, outages,
                   offers, failures>>

RenewalFails(s) ==
    /\ loop[s] = "renewing" /\ RenewLive(s)
    /\ GotoLoop(s, "ticking")
    /\ tellMonitor(<<s, "loop">>)
    /\ UNCHANGED <<pc, task, offers>>

RenewalArrives(s, renewed) ==
    /\ loop[s] = "renewing"
    /\ markConnected
    /\ GotoLoop(s, IF renewed THEN "ticking" ELSE "off")
    /\ UNCHANGED <<pc, task, offers, activeTasks>>

\* Mutant: the loop does not look at its context: it goes on to the next renewal.
LoopEndsNever(s) ==
    /\ loop[s] \in {"ticking", "renewing"} /\ Free(s, "loop") /\ ~RenewLive(s)
    /\ GotoLoop(s, IF loop[s] = "ticking" THEN "renewing" ELSE "ticking")
    /\ UNCHANGED <<live, stopped, pc, task, mark, state, connection, activeTasks, outages,
                   offers, failures>>

\* Its context ends the loop and any request of it.
LoopEnds(s) ==
    /\ loop[s] \in {"ticking", "renewing"} /\ Free(s, "loop") /\ ~RenewLive(s)
    /\ GotoLoop(s, "off")
    /\ UNCHANGED <<live, stopped, pc, task, mark, state, connection, activeTasks, outages,
                   offers, failures>>

-----------------------------------------------------------------------------
(* Run *)

\* A signal, or the user leaving the screen.
Cancel ==
    /\ live
    /\ live' = FALSE
    /\ UNCHANGED <<stopped, slots, mark, state, connection, activeTasks, outages, failures>>

\* WorkerTracker.Stopping.
Stopping ==
    /\ ~live /\ ~stopped
    /\ stopped' = TRUE
    /\ connection' = "stopping"
    /\ UNCHANGED <<live, slots, mark, state, activeTasks, outages, failures>>

\* Run waits for every slot and returns.
Returned == stopped /\ \A s \in Slots : pc[s] = "ended"

Terminated == Returned /\ UNCHANGED linkVars

-----------------------------------------------------------------------------
(* Specification *)

\* What a slot's goroutines do by themselves: no request ends in these.
Runs(s) ==
    \/ SlotEnds(s) \/ TaskStarted(s) \/ SendResult(s) \/ ResultDropped(s)
    \/ TaskFinished(s) \/ LoopEnds(s)

\* How the requests of a slot end.
Answered(s) == ClaimArrives(s) \/ (\E final \in BOOLEAN : ResultArrives(s, final))

LoopAnswered(s) == \E renewed \in BOOLEAN : RenewalArrives(s, renewed)

LinkNext ==
    \/ \E s \in Slots :
          \/ Runs(s) \/ Answered(s) \/ LoopAnswered(s) \/ ExecutorReturns(s)
          \/ SendClaim(s) \/ SendRenewal(s)
          \/ ClaimFails(s) \/ ResultFails(s) \/ RenewalFails(s)
    \/ \E g \in Senders : raiseFlag(g) \/ reportOutage(g)
    \/ Cancel \/ Stopping \/ Terminated

LinkSpec == LinkInit /\ [][LinkNext]_linkVars

\* The goroutines run and an executor returns (probes and sleeps have limits).
\* Nothing is asked of the coordinator: a request that is never answered is ended
\* by the context.
LinkFairness ==
    /\ WF_linkVars(Stopping)
    /\ \A g \in Senders : WF_linkVars(raiseFlag(g) \/ reportOutage(g))
    /\ \A s \in Slots :
        /\ WF_linkVars(SlotEnds(s) \/ TaskStarted(s) \/ ResultDropped(s) \/ TaskFinished(s))
        /\ WF_linkVars(ExecutorReturns(s))
        /\ WF_linkVars(LoopEnds(s))

FairLinkSpec == LinkSpec /\ LinkFairness

-----------------------------------------------------------------------------
(* Correctness *)

Working == {"executing", "ready", "submitting", "joining"}

\* With the types: a slot has a task while it works on one, a renewLoop does not
\* outlive that, and it is never left in markUnavailable by a slot that went on.
LinkTypeOK ==
    /\ live \in BOOLEAN /\ stopped \in BOOLEAN /\ (stopped => ~live)
    /\ pc \in [Slots -> {"idle", "claiming", "starting", "ended"} \union Working]
    /\ loop \in [Slots -> {"off", "ticking", "renewing"}]
    /\ task \in [Slots -> TaskIDs \union {NoTask}]
    /\ \A s \in Slots : task[s] # NoTask <=> pc[s] \in {"starting"} \union Working
    /\ \A s \in Slots : (loop[s] # "off" \/ ~Free(s, "loop")) => pc[s] \in Working
    /\ mark \in [Senders -> {"none", "told", "raised"}]
    /\ everConnected \in BOOLEAN /\ unavailable \in BOOLEAN
    /\ connection \in {"starting", "connected", "unavailable", "stopping"}
    /\ activeTasks \subseteq TaskIDs
    /\ outages \in -MaxFailures..MaxFailures
    /\ granted \in [TaskIDs -> 0..MaxGrants] /\ grants \in 0..MaxGrants
    /\ over \subseteq TaskIDs
    /\ failures \in 0..MaxFailures

Marking(place) == {g \in Senders : mark[g] = place}

\* The screen says "unavailable" only during an outage: the flag that makes the next
\* answer end it is up, or a sender is about to raise it.  So an outage shown is
\* always taken back, although the screen is told before the flag is raised.
\* And each outage is reported once, and its end once, however many slots and loops
\* run into it: what is left of the count is the outage that lasts.
OutageAccounted ==
    /\ connection = "unavailable" => unavailable \/ Marking("told") # {}
    /\ outages + Cardinality(Marking("raised")) = IF unavailable THEN 1 ELSE 0

Executing(t) == {s \in Slots : pc[s] \in Working /\ task[s] = t}

\* A task shown as active is being executed, also when slots shared it and when a
\* result was dropped.  A task this worker got once is shown exactly that long.
ShownTasksExecute ==
    \A t \in TaskIDs :
        /\ t \in activeTasks => Executing(t) # {}
        /\ granted[t] = 1 /\ Executing(t) # {} => t \in activeTasks

\* Run returns after the context is cancelled: no slot waits forever for its
\* renewLoop, for a lock or for an answer.
WorkerStops == ~live ~> Returned

=============================================================================
