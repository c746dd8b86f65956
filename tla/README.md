# Inoculum in TLA+

Inoculum hands tasks to workers that pull them: a coordinator keeps a queue in memory and grants
leases, workers claim, renew, execute and report, and a submit command sends a manifest, polls its
job and exports the results. These modules model that code, TLC checks them on small instances, and
TLAPS proves what matters most for every instance. Paths below are relative to the repository's
`internal/`.

## 1. The system

| Component | State | Operations | Talks to |
|---|---|---|---|
| Lease queue, `leasequeue/queue.go` | task table, `queued` (waiting line), `order` (every task ever), under one lock | Enqueue, Claim, Renew, Complete, RequeueExpired, Get, JobTasks, Snapshot, Observe, Stats; every one but Enqueue and Observe may expire leases | called by the coordinator |
| Coordinator, worker API, `coordinator/pull.go` | none of its own | claim, renew, result handlers; several entries into the queue's lock per request | workers over HTTPS |
| Coordinator, client API, `coordinator/pull.go`, `status.go` | none | submit (one Enqueue per task), job, status | submit commands |
| Coordinator's screen, `coordinator/monitor.go` | recent workers, event ring | MonitorSnapshot, from `Observe`, without a sweep | terminal |
| Worker, `worker/pull.go` | per slot: claim, result; a renewal loop per claim; connection state | Run, runSlot, executeClaim, renewLoop, submitResultUntilResolved, stop | coordinator |
| Worker's screen, `monitor/worker.go` | connection, active tasks, counters | Connected, Unavailable, Stopping, TaskStarted, TaskFinished | terminal |
| Executor, `worker/executor.go` | none | HTTP probe or sleep | the outside |
| Submit command, `cli/submit.go`, `results.go`, `monitor/submit.go`, `job.go` | tracker, context, execute's result | submit once, poll until finished, quit, time out, export | coordinator, user |
| Coordinator identity, `crypto/tls.go` | certificate and key file | load, migrate, create | the file system, other coordinators |
| Client trust, `crypto/tls.go` | per client: the identity it trusts, whether it has to save it; the trust record all clients of an account share | start, verify a peer, rewrite the record | peers, the file system, other clients |
| Terminal, `presentation/tui/run.go` | key channel, help | open, loop, read keys, leave | the command around it, tcell |
| Manifests, flags, authentication, audit, presentation | files, or none | parsing, checking, drawing | |

What is hard about it:

* **Time.** A lease ends by itself, but nobody notices until some call sweeps. The holder, the next
  holder and the sweep race at the boundary.
* **Messages.** Every request can be lost before or after it was handled, or answered after the
  sender gave up; claims, renewals and results are sent again, submissions are not.
* **Interleaving.** The coordinator's handlers enter the queue's lock two or three times per
  request; a worker's slots share a worker ID; a slot and its renewal loop run side by side; so do
  a submit command's screen, its key reader and its polling.
* **Stops.** Workers stop and crash and come back under the same ID; the coordinator's restart
  forgets every task; coordinators starting together write the same two files, and clients of one
  account rewrite the same record in place. A command ends by a key, a signal, a limit or its work.

What makes each part correct: the queue loses no task, gives each task to one holder at a time,
and follows the retry policy; the protocol attributes each record to the execution it came from and
brings every task to an end; a job is reported whole, and a command's exit, files and screen say what
became of it; renewals are in time; one identity is ever served, and clients talk to identities a user vouched for
only; the worker's log and screen tell what goes on; whatever is told to stop stops. `PROJECT.json` lists the hazards at
their lines, with the properties aimed at each.

## 2. The modules

```
TaskLifecycle   <-- refined by -- LeaseQueue <-- extended by -- PullProtocol   (workers)
                                             <-- extended by -- JobClient      (submit commands)
JobPromise      <-- refined by -- JobClient

RenewTiming     CoordinatorIdentity     ClientTrust
WorkerLink      (one worker inside)     Terminal    (a command and its screen)

LeaseQueueProofs <-- PullProtocolProofs
                 <-- JobClientProofs
RenewTimingProofs   CoordinatorIdentityProofs   ClientTrustProofs   WorkerLinkProofs   TerminalProofs
```

A proof module extends the module it is named after. `LeaseQueueProofs` has the queue's invariant and
what one step may do to one task; the proofs about the two compositions build on both.

Each `MC*` module only gives constants their values. Definitions headed `Mutant` are altered copies
of the definition that follows them; nothing uses them, they show that a property notices the error
they stand for.

**LeaseQueue.** `tasks`, `queued`, `order` are the queue's fields. `issued` counts lease IDs (128
random bits in the code, taken to be fresh). Wall-clock time becomes the time a lease has left:
`Tick` shortens every running lease by one, so a lease may run out at any moment between two calls,
and at zero (`now` equal to `ExpiresAt`) it is expired, as in `expireLocked` and `activeLeaseLocked`.
Each method is one action, since it holds the lock throughout, with the sweep it starts with.
`Claim` goes through the line as the code does, dropping entries that are not queued. `Complete` and
`Renew` may be called by anybody with any lease ID ever issued or none, and every refusal is there,
with the expiry `activeLeaseLocked` performs on the way. The readers are one action,
`RequeueExpired`, because sweeping is all they change. Input, output and errors are reduced to the
lease they were produced under.

**TaskLifecycle** is what the queue promises about one task whatever else happens: at most
`MaxAttempts` grants, given back while attempts remain and failed for good when none do, one
outcome, never changed. `LifecyclePromise` states that LeaseQueue implements it for each task.

**PullProtocol** adds workers and the network. A slot's `pc` is its place in `runSlot` and
`executeClaim`; `grant` is the claim it works on; `renewing` its renewal loop; `net` holds requests
on their way. A claim is handled in two steps, the sweep of `handlePullClaim` and then
`Queue.Claim`, with everything else in between. A handler's last step carries `delivered`: whether
its answer reaches a slot that still waits. A slot gives up on a request at any time, and what it
sent may be handled later (`late`). `owner` says which worker each slot belongs to, chosen at the
start, so that one run covers slots of two workers and slots the coordinator cannot tell apart. `Stop` is the cancelled context (an executor is not interrupted,
its result is dropped), `Crash` the end of the process, `Restart` the same worker ID again,
`CoordinatorRestart` the loss of the queue. `used`, `started`, `finished`, `accepted` are history.

**JobClient** adds jobs. `handlePullSubmit` enqueues one task per step; a poll is two steps of the
coordinator (the handler's sweep; `JobTasks`) and two of the client. `execute` runs beside the screen
(`Quit`), the timeout (`ContextEnds`) and `Finish`, the end of `runSubmit` with `finishSubmit` and the
results file. `manifest`, chosen at the start, gives each job its tasks; a job without any is not
submitted. The workers are reduced to the queue calls they can make. `MonitorState` and `JobState`
are the two derivations of a job's state. `JobTasks` numbers the places of `q.order` that hold a
task of the job, which is what its loop comes to. Exporting is taken to have been asked for.

**JobPromise** is what the coordinator and the command promise about one job: it is spoken of only when
all of it is submitted, decided once, lost by a restart only and for good; what the command hears was
so when it was said, and how it ends is the last it heard. `JobsKeepPromise` states that JobClient
implements it for each job. `fate` is derived from `handler` and the tasks (`FateOf`), `answer` from the
reply on its way, `heard` from the tracker's view, `ending` is `exit`.

**RenewTiming** looks at one claim's renewals in time units: the interval is chosen once from what
the worker's clock says is left; the ticker keeps one tick; a renewal takes up to a round trip and
may be lost; a lost one is not repeated before the next tick. `skew`, `roundTrip`, `losses` describe
the circumstances. `Enough` is the condition on them under which no lease runs out.

**CoordinatorIdentity** is `LoadOrCreateCoordinatorIdentity` as file-system steps: two looks, two
reads, and per file an exclusive creation and a write, by any number of processes, each of which may
end at any step. An older version's files are looked for relative to the working directory, so
processes may see different ones; those files may be missing, torn or mismatched to begin with.

**ClientTrust** is the other side of that: `Start` is `NewCoordinatorClientConfig`; a handshake is
`Refused`, or `Connect` (the token follows), or begins to rewrite the record: `Truncate`, `Write`,
`Save`, any of which can fail (`SaveFails`) or be the last of its process (`Exit`). `record` is what
processes read and `disk` what `PowerFails` may leave, alone or torn. The verifier's lock is the
client's `pc`. A fingerprint is the identity it names.

**WorkerLink** looks at one worker from the inside. PullProtocol says what its requests do to the
queue; here the coordinator is reduced to any answer, and what counts is what slots and renewal
loops do beside each other: `markUnavailable` in three steps under two locks and none (`mark`),
`markConnected` in one, the screen's `connection` and `activeTasks`, `cancelRenew` and the waiting for
the loop, and `Run`'s waiting for the slots. `outages` is the log, reports of an outage less reports
of its end. `granted` and `grants` count what claims were answered with.

**Terminal** is `tui.Run` with what surrounds it in `runSubmit`, `runWorker` and `runCoordinator`: the
screen loop, the key reader, tcell's queue and the channel between them, the context, the work, and
the ways out. A step of the loop is one pass through its select. Drawing, the ticker and the help
screen change nothing that matters to it.

## 3. What is checked

Passing runs:

| Run | Instance | Shows |
|---|---|---|
| `queue_safety` | 3 tasks, 2 workers, 2 ticks, 2 attempts | the table, the line and the order agree; finished tasks stay finished; results are taken from live leases only and live leases are left alone; first come, first served; TaskLifecycle is implemented |
| `pull_faults` | 2 slots, of two workers or of one, 1 task, 2 requests in flight, a stop or crash, a restart of the coordinator | claims, renewals and results stay with the execution they belong to, also where worker IDs do not tell slots apart |
| `pull_liveness` | 2 workers, one mortal, 1 task | every task ends, every slot becomes free |
| `job_safety` | 2 tasks in one job, alone or beside another job, 2 attempts, a coordinator restart | a command's view, exit and file are true and of its own whole job; its view never goes backwards; the coordinator's screen and its API say the same of a job, but for the two cases below; JobPromise is implemented; it returns |
| `renew_defaults` | a 6 s lease, limits 500 ms and 5 s, in units of 250 ms | no lease runs out under a worker at work |
| `identity` | 2 processes, 2 working directories, 3 starts | one identity, on disk, and nothing replaced |
| `trust` | 2 clients, 3 identities, 4 starts, power failures | the token goes where a user said; a record that was saved lasts, unless a rewrite of it is cut short |
| `worker_link` | 2 slots with their loops, 2 tasks, 2 grants, 3 failed requests | every outage is reported once and taken back once; the screen shows tasks that execute; the worker stops |
| `terminal` | queue and channel of 2, 7 keys, each of the three commands | keys arrive in order, none lost while they are read; the command exits, whatever ends it |

Runs that find a violation, each a disagreement of the code with what it says of itself (quoted in
`PROJECT.json`, "findings"):

| Run | Found |
|---|---|
| `pull_accepted` | a late result is answered like a recorded one if the task was completed by another worker |
| `job_stopped_waiting` | quitting as the job completes reports a job that "may still be running", beside its results |
| `renew_short_lease` | leases of 500 ms or less are accepted and can never be renewed in time |

**Bounds.** `MaxAttempts = 2` gives a first, a last and a refused attempt. Three tasks are the fewest
with which a sweep returns several behind one that waits. `LeaseDuration = 2` tells a renewed lease
from an old one; 1 suffices where only expired and live matter. Two workers or slots are one holder
and one stale holder. `MaxInFlight = 2` is a request and its repetition or its rival; it limits
sending only. `MaxFaults` counts stops and crashes, `MaxRestarts` coordinator restarts, `MaxStarts`
coordinator starts (one to crash, one to race, one to find what they left), `New` the identities that
can be generated, `Watched` the jobs whose command polls. Symmetry is used in safety runs only,
over sets nothing in the modules distinguishes.

In `worker_link` a task granted twice is shared by the slots, and three failures are enough for a slot
and a loop to fail side by side and once more while that is being reported. `MaxGrants` and
`MaxFailures` limit claims that get a task and requests that fail. In `terminal` two places stand for
the 8 of the channel and tcell's far larger queue: 7 keys fill both and the reader's hand.

**Deadlock** is checked in the pull runs with workers that go on (`pull_faults`, `pull_liveness`), in
`queue_safety`, and in `worker_link`, where `Terminated` is the state the worker is meant to stop in.
The commands, the identity, the clients and the claim end, and their runs say `CHECK_DEADLOCK FALSE`.

**Limits the properties state.** Some things the models show are as the code has them, and the
properties are stated to say so. The coordinator's screen and the job API differ in two cases
(`ScreensAgree`). The screen does not sweep, so it shows as running a job that the API, which sweeps,
finds finished because a lease ran out. And the screen counts states where the API asks for attempts
(`monitor.go:82`, `pull.go:251`): when all of a job's tasks wait and one of them was tried before, the
screen says queued and the API running. The second needs no expired lease, a reported error that is
retried is enough, and it lasts until a worker claims one of them; no document says which is meant.
A worker's screen may say "connected" while a request is failing
(never the other way round without somebody about to correct it), may go from "stopping" back to
"connected", and shows one task where two slots execute it; the first to finish takes it off. The
message "active task(s) may continue" of a stopping worker counts those. A client that starts between
another one's truncation and writing of the record is refused, and one killed there leaves the record
to be replaced with a fingerprint. And a screen loop that leaves while fast typing has filled tcell's
queue, with no reader left to empty it, waits forever (`Stuck`). A renewal that gets no answer for the
HTTP client's 30 s outlasts a default lease, which is then lost: `HeldWhileExecuting` is stated where
`Enough` holds. `LegacyKept` asks for a coordinator whose working directory has nothing to migrate, not that
it was the one started. A lock that is taken and never given back cannot happen in WorkerLink, where
each section under a lock is one step. Also, lost claim responses use up
attempts: `MaxAttempts` of them fail a task that nobody executed.

**Fairness.** `FairPoolSpec`: time passes, executors return (probe and sleep both have limits), the
HTTP client's 30 s timeout ends each wait, the goroutines run, and the network neither keeps a
request forever nor loses every one of those sent again and again. Sending is strongly fair because
`MaxInFlight`, which is ours, can disable it. No fairness is given to renewals, stops, crashes or
restarts, and one worker is not mortal. `FairJobSpec`: `--timeout` runs out, requests end by the
context or the client's timeout, and the command's goroutines run. Nothing is asked there of the
coordinator, the workers or the network: the command must return without them. `FairLinkSpec` asks
the same little: the goroutines run and executors return; whether anything is ever answered is open,
since the context ends every wait. `FairTerminalSpec`: the goroutines run, a select takes each of its
ready cases sooner or later (Go chooses among them at random), and work ends after its context, which
is `CommandReturns` for a submit command and `WorkerStops` for a worker; nothing of the kind is asked of
the coordinator's server, nor of the user's typing.

## 4. What is proved

Every theorem holds for all values of the constants that meet the named assumptions: finitely many
tasks, positive lease duration and `MaxAttempts`, `NoWorker` no worker; values that stand for "none"
differ from the real ones; bounds are natural numbers; finitely many slots in WorkerLink; manifests
are sequences in which no task occurs twice; for RenewTiming positive durations, the lower limit not
above the upper one. Theorems are about the specification without fairness, which the fair ones of the
runs imply. Each invariant below was checked by TLC on the instance of its run first.

**The queue's states** (*LeaseQueueProofs*). `TypeCorrect`, `NoTaskLost` (`QueueConsistent`),
`NoLeaseMissed` (`OrderConsistent`), `OneLeasePerTask` (`LeaseConsistent`) and `AttemptsBounded`
(`RetryPolicy`). None is inductive alone: a sweep puts exactly the expired tasks back only because
`order` lists them all once, and appends no task twice only because a leased task has no place in the
line. `IInv` is their conjunction. The proof splits it into a part about single tasks (`TableOK`, kept
by `Requeued`, `Failed` and `Granted`, one lemma each) and a part about the two sequences (`Lists`,
with lemmas on appending, concatenating and taking the head). `SweptOK` and `SweepLists` describe a
sweep once, for every action that begins with one; then there is one lemma per action.

**The queue's steps** (*LeaseQueueProofs*). `StepChanges` says what a step can mean to one task:
it is enqueued, runs out, is given out (as it stood or as the sweep before the claim left it), is
renewed, ages, is left alone, or has a result reported by the holder of its live lease. From these
ways follow `FinishedForGood` (`TerminalIsFinal`), `ResultsInTime` (`ResultFromLiveLease`) and
`NobodyElseEndsALease` (`LiveLeaseKept`); `ServedInOrder` (`FirstComeFirstServed`) follows from how a
step moves the line. `TasksKeepTheirPromise` is the refinement: `LifeInitial` maps initial states to
initial states of TaskLifecycle, and `LifeSimulation` maps each way a task changes to one of its steps
or to a stutter. The one that takes thought is a claim that sweeps the task it then grants: it maps
to a single grant, since giving back and granting come to that.

**Workers** (*PullProtocolProofs*). `QueueStep` shows that each step of the protocol is a step of the
queue, leaves the queue alone, or is a coordinator restart, so the queue's lemmas apply. `PoolInv` adds
to `IInv`:
`SlotsOK` (a slot has a grant exactly while it works on one, and only then renews), `MessagesOK` (at
most one claim is awaited per slot, by a slot that does nothing else), `ExecutedOK` (whatever a slot
or a message offers as a result was returned by that execution), `OwnedOK` (a lease whose task still
has it is under the worker it was granted to: lease IDs come from one counter that restarts keep, so
none is met again), `UsedOK` and `CountsOK` (a submitted task ID is not submitted again, so what a
restart forgot does not come back), and the properties themselves. Results: `PoolTypeCorrect`,
`RecordsAreProduced`, `HeldLeasesRenewed`, `ToldTheTruth`, and `LeasesEndProperly` for the action
property. `RefusedNotHeld` carries `HeldLeasesRenewed`: a refusal that arrives, however late, is about
a lease that is not the slot's live one. `QueueServesWorkers` states what `QueueStep` comes to: the
queue's invariants hold in this composition, every step is an operation of the queue, a restart or none of
its, and only a restart touches a finished task.

**Submit commands** (*JobClientProofs*). `JobsOK` is the coordinator's part: the tasks of a job in the
table are the first n of its manifest, in that order in `order`, and all or, after a restart, none once
its submission was handled to the end. `JobTasksAre` derives from it what a poll is answered with, by
`AscendingNth` (a set given in ascending order is numbered in that order). `AnswersOK` is the commands'
part: an entry they hold agrees with the task or with what a restart forgot (`Agrees`), and an answer
on its way follows the one before (`Follows`). `CommandsOK` relates what execute returned, the exit and
the file. From these, `JobsReportedWhole`, `FinalViewsStand`, `ExitsTellTheOutcome`,
`ScreenAndApiAgree` (which needs only that a task with no attempt is neither claimed nor finished, and what
a sweep changes), `JobTypeCorrect` and, as an action property, `ProgressIsKept`; `QueueServesJobs` is to
jobs what `QueueServesWorkers` is to workers.

**The promise to a command** (*JobClientProofs*, end). `JobsKeepTheirPromise` is the second refinement.
`Moves` is a step of JobPromise on the values its variables stand for, and `StepOfMoves` carries such a
step over. `FateStep` says how a job's fate can move with each step of the coordinator: `QuietFate` uses
that a finished task never changes and that tasks come and go only by submissions and restarts, so
that a job seen open can only become decided or lost. `ReadFate` is the centre: an answer read between
other jobs' enqueues and workers' calls says exactly the job's fate at that moment, because the tasks
of a job whose submission is over are all there or all gone (`HandlerAt`). Reading may itself decide the
job, by its sweep, which is why `Answer` may. Then there is one lemma per place where the command
moves: `AnswerSimulation`, `HearSimulation`, `ReturnSimulation`, `EndSimulation`; every other step is a
move of the fate or a stutter. The first and the last needed one more conjunct in `CommandsOK`: who has
heard a verdict has returned with it.

**Renewals** (*RenewTimingProofs*). `LeaseHeldThroughout`: wherever `Enough` holds,
`HeldWhileExecuting` does, for every duration. The invariant `Covered` says that what is left of the
lease covers the way to the next tick, a period for each renewal that may still be lost, and the round
trip of the one that is not. `IntervalWithinLimits` covers clocks wrong by any amount, and
`SkewDoesNotMatter` gives a condition without the clock where no renewal is lost: a lease longer than
the upper limit and two round trips. The default 6 s lease meets it for round trips below half a second.
`TimingTypeCorrect` does not need `Enough`.

**Inside a worker** (*WorkerLinkProofs*). `LinkInv` has three parts: `SlotsOK` (a goroutine sends
nothing while it is in `markUnavailable`), `ReportsOK` (whoever is there got there by a request that
failed, and the log is one report ahead exactly while the worker is marked unavailable, give or take
those on their way, `OutageAccounted`), and `TasksOK` (two slots share a task only if it was granted
twice, which is what `ShownTasksExecute` has to allow for). Results: `LinkTypeCorrect`,
`OutageReportedOnce`, `ActiveTasksExecute`.

**Clients' trust** (*ClientTrustProofs*). All three invariants of ClientTrust, for any number of
clients. `VouchInv` adds to `VouchedOnly` that a running client's identity was given and a writing
client has met it. `RefusalHasCause` rests on `CauseInv`: where the record and the disk differ a
writer is at work or was cut short, and a torn record has a client that is about to write it, or an
interruption.

**The coordinator's identity** (*CoordinatorIdentityProofs*). `OneIdentity`, `RestartServes`,
`NeverReplaced`, `OldIdentityKept` (`LegacyKept`) and the types, for any number of processes.
`Exclusive` says that a file being written is torn and has one writer, `Owned` that who creates the
certificate still finds its own key, and who read the certificate still finds it; with these a served
identity stays on disk whole. `FindsIt` follows a process that started after that, `LegacyInv` one that
found an older version's files.

**A command's screen** (*TerminalProofs*). `TerminalTypeCorrect`, `KeysArriveInOrder` (`KeysInOrder`) and
`NoWorkIsLeftAlone` (`WorkToldToStop`), for queues of every capacity. `KeysInOrder` follows the keys
through the queue, the reader's hand and the channel as one sequence, which every hand-over leaves as it
is (`HandedOn`); once the reader has ended, what the loop received and what the channel still holds is
a beginning of it. `WorkToldToStop` needs `LoopOK`: the loop returns by the context, by the end of the work
or by a key, and with the last `tui.Run`'s caller cancels the context.

**Only model-checked.** The liveness properties `EveryTaskEnds`, `EverySlotReturns`, `CommandReturns`,
`CommandExits` and `WorkerStops`: liveness under fairness is out of the prover's reach. Every invariant
and action property of a passing run is stated by a theorem. Three invariants are proved and no longer part
of a run: `JobTypeOK`, `TerminalTypeOK`, and `WorkToldToStop`, without which `CommandExits` would fail. The
findings are counterexamples.

## 5. What is not modelled

Executors, manifests and flags (pure functions of their input), authentication and the audit log
(stateless in front of each handler), wording and layout. Sizes and character sets only as far as
`ValidateResult` refuses a result. Lease IDs do not repeat. A power failure that takes files of the
coordinator's identity, which are not synced. Memory use. Error texts, counters and event rings of the
screens; drawing. The coordinator's recent workers, and with them when one is shown as "not
responding".

## 6. Plan

1. The status handler's and MonitorSnapshot's counters, and the recent-worker map that both prune.
2. Composition: jobs over PullProtocol's workers, for the life of a job end to end.
