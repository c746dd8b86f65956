------------------------------ MODULE JobClient ------------------------------
(***************************************************************************)
(* Jobs: the submit handler and the job handler of the coordinator         *)
(* (internal/coordinator/pull.go), and the submit command that waits for   *)
(* a job and exports its results (internal/cli/submit.go, results.go).     *)
(*                                                                         *)
(* Workers are the lease queue's callers, in any order the queue allows;   *)
(* what they do between two calls is the matter of PullProtocol.           *)
(*                                                                         *)
(* A submit command is two goroutines: execute, which submits and polls,   *)
(* and the one that runs the screen and, when execute has returned,        *)
(* finishSubmit.  They share the context and the tracker.                  *)
(***************************************************************************)
EXTENDS LeaseQueue

CONSTANTS
    Jobs,        \* the jobs, each submitted by a command of its own
    Manifests,   \* the batches considered, each the task IDs of each job in manifest
                 \* order; a job without tasks is not submitted
    Watched,     \* bound: the jobs whose command is followed past sending its submission
    MaxRestarts  \* bound: how often the coordinator is restarted

ASSUME ManifestAssumption ==
    \A m \in Manifests :
        /\ DOMAIN m = Jobs
        /\ \A j \in Jobs : m[j] \in Seq(TaskIDs)
        /\ \A j, k \in Jobs : \A i \in 1..Len(m[j]), l \in 1..Len(m[k]) :
              m[j][i] = m[k][l] => j = k /\ i = l

ASSUME JobBoundsAssumption == Watched \subseteq Jobs /\ MaxRestarts \in Nat

VARIABLES
    manifest, \* the task IDs of each job; never changes
    handler,  \* handlePullSubmit, per job
    execute,  \* where execute is, per job
    reply,    \* the answer to the poll that is being answered
    view,     \* the job as the tracker last heard of it, nothing before
    live,     \* the command's context is not cancelled
    quit,     \* the user has left the screen
    err,      \* what execute returned
    exit,     \* how the command ended
    exported, \* the results file it left
    restarts

clientVars == <<execute, reply, view, live, quit, err, exit, exported>>
jobVars == <<tasks, queued, order, issued, manifest, handler, execute, reply, view, live, quit,
             err, exit, exported, restarts>>

JobInit ==
    /\ Init
    /\ manifest \in Manifests
    /\ handler = [j \in Jobs |-> "none"]
    /\ execute = [j \in Jobs |-> "start"]
    /\ reply = [j \in Jobs |-> <<>>]
    /\ view = [j \in Jobs |-> <<>>]
    /\ live = [j \in Jobs |-> TRUE]
    /\ quit = [j \in Jobs |-> FALSE]
    /\ err = [j \in Jobs |-> "none"]
    /\ exit = [j \in Jobs |-> "running"]
    /\ exported = [j \in Jobs |-> <<>>]
    /\ restarts = 0

-----------------------------------------------------------------------------
(* The coordinator *)

Tasks(j) == {manifest[j][i] : i \in 1..Len(manifest[j])}

Unsubmitted(j) == {i \in 1..Len(manifest[j]) : tasks[manifest[j][i]].state = "absent"}

\* handlePullSubmit enqueues task by task; others use the queue in between.
SubmitNext(j) ==
    /\ execute[j] # "start" /\ handler[j] \in {"none", "running"}
    /\ \E i \in Unsubmitted(j) :
          /\ \A k \in Unsubmitted(j) : i <= k
          /\ Enqueue(manifest[j][i])
          /\ handler' = [handler EXCEPT ![j] = IF i = Len(manifest[j]) THEN "over" ELSE "running"]
    /\ UNCHANGED <<manifest, clientVars, restarts>>

\* Mutant: the tasks of every job.
JobTasksOfAll(table, j) ==
    [i \in 1..Len(order) |-> [task |-> order[i], state |-> table[order[i]].state,
                              attempts |-> table[order[i]].attempts,
                              result |-> table[order[i]].result]]

\* The n-th smallest number of S.
Nth(S, n) == CHOOSE i \in S : Cardinality({k \in S : k < i}) = n - 1

\* JobTasks walks q.order and keeps the tasks of the job.
JobTasks(table, j) ==
    LET places == {i \in 1..Len(order) : order[i] \in Tasks(j)}
        id(n) == order[Nth(places, n)]
    IN [n \in 1..Cardinality(places) |->
           [task |-> id(n), state |-> table[id(n)].state,
            attempts |-> table[id(n)].attempts, result |-> table[id(n)].result]]

Count(entries, states) == Cardinality({i \in 1..Len(entries) : entries[i].state \in states})

\* The state handlePullJob reports.
JobState(entries) ==
    IF Count(entries, {"completed", "failed"}) = Len(entries)
    THEN IF Count(entries, {"failed"}) > 0 THEN "failed" ELSE "completed"
    ELSE IF \E i \in 1..Len(entries) : entries[i].attempts > 0 THEN "running"
    ELSE "queued"

\* Mutant: nothing asks whether every task is finished.
MonitorStateEager(entries) ==
    IF Count(entries, {"failed"}) > 0 THEN "failed"
    ELSE IF Count(entries, {"completed"}) = Len(entries) THEN "completed"
    ELSE IF Count(entries, {"leased", "completed", "failed"}) > 0 THEN "running"
    ELSE "queued"

\* The state MonitorSnapshot shows on the coordinator's own screen.
MonitorState(entries) ==
    IF Count(entries, {"failed"}) > 0 /\ Count(entries, {"completed", "failed"}) = Len(entries)
    THEN "failed"
    ELSE IF Count(entries, {"completed"}) = Len(entries) THEN "completed"
    ELSE IF Count(entries, {"leased", "completed", "failed"}) > 0 THEN "running"
    ELSE "queued"

\* handlePullJob, first critical section.
JobSweep(j) ==
    /\ execute[j] = "polling"
    /\ RequeueExpired
    /\ execute' = [execute EXCEPT ![j] = "swept"]
    /\ UNCHANGED <<manifest, handler, reply, view, live, quit, err, exit, exported, restarts>>

\* Second critical section: JobTasks sweeps once more and copies the tasks.  The
\* reply is on its way from here on.  No task is "job not found".
JobRead(j) ==
    /\ execute[j] = "swept"
    /\ RequeueExpired
    /\ reply' = [reply EXCEPT ![j] = JobTasks(tasks', j)]
    /\ execute' = [execute EXCEPT ![j] = "answered"]
    /\ UNCHANGED <<manifest, handler, view, live, quit, err, exit, exported, restarts>>

\* The workers, and every other reader.
Work ==
    /\ \/ \E w \in Workers : Claim(w) \/ ClaimNothing(w)
       \/ \E t \in TaskIDs, l \in LeaseIDs, w \in Workers, ok \in BOOLEAN : Complete(t, l, w, ok)
       \/ \E t \in TaskIDs, l \in LeaseIDs, w \in Workers : Renew(t, l, w)
       \/ RequeueExpired
       \/ Tick
    /\ UNCHANGED <<manifest, handler, clientVars, restarts>>

\* A restart forgets every task and ends the submissions it was working on.  A
\* poll it interrupts fails or, sent again by nobody, finds no job: both end
\* execute with the same error.
CoordinatorRestart ==
    /\ restarts < MaxRestarts
    /\ restarts' = restarts + 1
    /\ tasks' = [t \in TaskIDs |-> Absent]
    /\ queued' = <<>> /\ order' = <<>>
    /\ handler' = [j \in Jobs |-> IF handler[j] = "running" THEN "cut_off" ELSE handler[j]]
    /\ UNCHANGED <<issued, manifest, clientVars>>

-----------------------------------------------------------------------------
(* execute *)

SendSubmit(j) ==
    /\ execute[j] = "start" /\ live[j] /\ manifest[j] # <<>>
    /\ execute' = [execute EXCEPT ![j] = "submitting"]
    /\ UNCHANGED <<vars, manifest, handler, reply, view, live, quit, err, exit, exported, restarts>>

\* Mutant: the job ID is answered as soon as the first task is enqueued.
SubmitArrivesEarly(j) ==
    /\ execute[j] = "submitting" /\ handler[j] \in {"running", "over"} /\ j \in Watched
    /\ execute' = [execute EXCEPT ![j] = "waiting"]
    /\ UNCHANGED <<vars, manifest, handler, reply, view, live, quit, err, exit, exported, restarts>>

\* The response with the job ID arrives: tracker.Submitted.
SubmitArrives(j) ==
    /\ execute[j] = "submitting" /\ handler[j] = "over" /\ j \in Watched
    /\ execute' = [execute EXCEPT ![j] = "waiting"]
    /\ UNCHANGED <<vars, manifest, handler, reply, view, live, quit, err, exit, exported, restarts>>

Returns(j, e) ==
    /\ execute' = [execute EXCEPT ![j] = "returned"]
    /\ err' = [err EXCEPT ![j] = e]
    /\ reply' = [reply EXCEPT ![j] = <<>>]

\* No answer to the submission: execute does not try again, and the handler goes
\* on, or has yet to begin.
SubmitFails(j) ==
    /\ execute[j] = "submitting" /\ j \in Watched
    /\ Returns(j, "request")
    /\ UNCHANGED <<vars, manifest, handler, view, live, quit, exit, exported, restarts>>

\* Under a context that has ended the request fails before it is sent, which is
\* StopsWaiting.
SendPoll(j) ==
    /\ execute[j] = "waiting" /\ live[j]
    /\ execute' = [execute EXCEPT ![j] = "polling"]
    /\ UNCHANGED <<vars, manifest, handler, reply, view, live, quit, err, exit, exported, restarts>>

\* An answer arrives: tracker.Update, and the loop ends with a finished job.
PollArrives(j) ==
    /\ execute[j] = "answered"
    /\ IF reply[j] = <<>>
       THEN Returns(j, "request") /\ UNCHANGED view
       ELSE /\ view' = [view EXCEPT ![j] = reply[j]]
            /\ CASE JobState(reply[j]) = "completed" -> Returns(j, "none")
                 [] JobState(reply[j]) = "failed"    -> Returns(j, "job_failed")
                 [] JobState(reply[j]) \in {"queued", "running"} ->
                      /\ execute' = [execute EXCEPT ![j] = "waiting"]
                      /\ reply' = [reply EXCEPT ![j] = <<>>]
                      /\ UNCHANGED err
    /\ UNCHANGED <<vars, manifest, handler, live, quit, exit, exported, restarts>>

\* Mutant: the poll has neither the context nor a timeout.
PollFailsNever(j) ==
    /\ FALSE
    /\ Returns(j, "request")
    /\ UNCHANGED <<vars, manifest, handler, view, live, quit, exit, exported, restarts>>

\* A poll that fails ends the wait; a cancelled context is told from the rest.
PollFails(j) ==
    /\ execute[j] \in {"polling", "swept", "answered"}
    /\ Returns(j, IF live[j] THEN "request" ELSE "stopped_waiting")
    /\ UNCHANGED <<vars, manifest, handler, view, live, quit, exit, exported, restarts>>

StopsWaiting(j) ==
    /\ execute[j] = "waiting" /\ ~live[j]
    /\ Returns(j, "stopped_waiting")
    /\ UNCHANGED <<vars, manifest, handler, view, live, quit, exit, exported, restarts>>

-----------------------------------------------------------------------------
(* The command *)

\* --timeout runs out, or a signal comes.
ContextEnds(j) ==
    /\ live[j] /\ execute[j] # "start" /\ exit[j] = "running" /\ j \in Watched
    /\ live' = [live EXCEPT ![j] = FALSE]
    /\ UNCHANGED <<vars, manifest, handler, execute, reply, view, quit, err, exit, exported, restarts>>

\* q or Ctrl+C on the screen.  The select of tui.Run may take the key although
\* execute has returned meanwhile.
Quit(j) ==
    /\ ~quit[j] /\ execute[j] # "start" /\ exit[j] = "running" /\ j \in Watched
    /\ quit' = [quit EXCEPT ![j] = TRUE]
    /\ live' = [live EXCEPT ![j] = FALSE]
    /\ UNCHANGED <<vars, manifest, handler, execute, reply, view, err, exit, exported, restarts>>

Finished(entries) == entries # <<>> /\ Count(entries, {"completed", "failed"}) = Len(entries)

\* The results file is written through a temporary file and a rename, so it is there
\* whole or not at all; if it is not, that is what the command reports.
WriteResults(j, e) ==
    \/ /\ exported' = [exported EXCEPT ![j] = view[j]]
       /\ exit' = [exit EXCEPT ![j] = e]
    \/ /\ exit' = [exit EXCEPT ![j] = "not_written"]
       /\ UNCHANGED exported

\* The end of runSubmit, and finishSubmit.
Finish(j) ==
    /\ execute[j] = "returned" /\ exit[j] = "running"
    /\ LET e == IF quit[j] /\ err[j] = "none" THEN "stopped_waiting" ELSE err[j]
       IN IF Finished(view[j])
          THEN WriteResults(j, e)
          ELSE exit' = [exit EXCEPT ![j] = e] /\ UNCHANGED exported
    /\ UNCHANGED <<vars, manifest, handler, execute, reply, view, live, quit, err, restarts>>

-----------------------------------------------------------------------------
(* Specification *)

JobNext ==
    \/ \E j \in Jobs :
          \/ SubmitNext(j) \/ JobSweep(j) \/ JobRead(j)
          \/ SendSubmit(j) \/ SubmitArrives(j) \/ SubmitFails(j)
          \/ SendPoll(j) \/ PollArrives(j) \/ PollFails(j) \/ StopsWaiting(j)
          \/ ContextEnds(j) \/ Quit(j) \/ Finish(j)
    \/ Work
    \/ CoordinatorRestart

JobSpec == JobInit /\ [][JobNext]_jobVars

\* --timeout runs out some day, the HTTP client's timeout and the context end
\* every request, and the goroutines of the command run.  Nothing is asked of the
\* coordinator, the workers or the network.
JobFairness ==
    \A j \in Watched :
        /\ WF_jobVars(ContextEnds(j))
        /\ WF_jobVars(SubmitFails(j) \/ PollFails(j))
        /\ WF_jobVars(SendPoll(j) \/ StopsWaiting(j))
        /\ WF_jobVars(Finish(j))

FairJobSpec == JobSpec /\ JobFairness

-----------------------------------------------------------------------------
(* Correctness *)

Entry == [task : TaskIDs, state : States, attempts : Nat, result : Result]

JobTypeOK ==
    /\ TypeOK
    /\ manifest \in Manifests
    /\ handler \in [Jobs -> {"none", "running", "over", "cut_off"}]
    /\ execute \in [Jobs -> {"start", "submitting", "waiting", "polling", "swept",
                             "answered", "returned"}]
    /\ \A j \in Jobs : {reply[j], view[j], exported[j]} \subseteq Seq(Entry)
    /\ live \in [Jobs -> BOOLEAN] /\ quit \in [Jobs -> BOOLEAN]
    /\ err \in [Jobs -> {"none", "job_failed", "stopped_waiting", "request"}]
    /\ exit \in [Jobs -> {"running", "none", "job_failed", "stopped_waiting", "request",
                          "not_written"}]
    /\ restarts \in 0..MaxRestarts

\* "Final exported tasks preserve manifest order" (SPEC.md), and a job is never
\* reported in part, although its tasks are enqueued one at a time between other
\* jobs' tasks and are worked on before the last one is there.
WholeJobInOrder ==
    \A j \in Jobs :
        view[j] # <<>> => [i \in 1..Len(view[j]) |-> view[j][i].task] = manifest[j]

\* What a command ended with is what the coordinator has: a reply may be old when
\* it arrives, but a job it calls finished has not changed since and never will,
\* unless the coordinator was restarted.
FinalViewIsTrue ==
    \A j \in Jobs :
        Finished(view[j]) =>
            \A i \in 1..Len(view[j]) :
                LET task == tasks[view[j][i].task]
                IN \/ /\ view[j][i].state = task.state
                      /\ view[j][i].attempts = task.attempts
                      /\ view[j][i].result = task.result
                   \/ restarts > 0 /\ task.state = "absent"

\* Success means that every task of the manifest completed; a job reported failed
\* is all finished, with a failed task in it.  Either way the results are on disk
\* by the time the command ends ("still produces an output file before the submit
\* process returns failure", SPEC.md).
ExitTellsOutcome ==
    \A j \in Jobs :
        /\ exit[j] = "none" =>
              /\ Len(exported[j]) = Len(manifest[j])
              /\ \A i \in 1..Len(exported[j]) : exported[j][i].state = "completed"
        /\ exit[j] = "job_failed" =>
              /\ Finished(exported[j]) /\ Len(exported[j]) = Len(manifest[j])
              /\ \E i \in 1..Len(exported[j]) : exported[j][i].state = "failed"

\* From one answer to the next a job's finished tasks stay as they were, and no
\* task's attempts go down.
ProgressNeverRetracted ==
    [][\A j \in Jobs : \A i \in 1..Len(view[j]) :
          /\ view'[j][i].attempts >= view[j][i].attempts
          /\ view[j][i].state \in {"completed", "failed"} => view'[j][i] = view[j][i]]_jobVars

\* The coordinator's screen and its job API derive a job's state by two different
\* programs, and they differ in two ways only.  The screen does not sweep: it still
\* shows as running a job that the API, which sweeps first, finds finished, because
\* a lease of it ran out.  And the screen counts the states of the tasks, the API
\* asks whether one was ever claimed: a job whose tasks all wait, one of them to be
\* tried again, is queued on the screen and running in the API, for as long as no
\* worker claims one of them.
ScreensAgree ==
    \A j \in Jobs :
        LET entries == JobTasks(tasks, j)
            screen == MonitorState(entries)
            api == JobState(JobTasks(Swept, j))
        IN entries # <<>> =>
              \/ screen = api
              \/ /\ screen = "running" /\ api \in {"completed", "failed"}
                 /\ \E t \in Tasks(j) : Expired(t)
              \/ /\ screen = "queued" /\ api = "running"
                 /\ \A i \in 1..Len(entries) : entries[i].state = "queued"
                 /\ \E i \in 1..Len(entries) : entries[i].attempts > 0

\* What JobPromise calls the fate of a job, and the last word on it.
FateOf(j) ==
    CASE handler[j] = "none" -> "none"
      [] handler[j] = "running" -> "partial"
      [] handler[j] = "cut_off" -> "lost"
      [] handler[j] = "over" ->
           IF \A t \in Tasks(j) : tasks[t].state = "absent" THEN "lost"
           ELSE IF \E t \in Tasks(j) : ~Terminal(tasks[t]) THEN "open"
           ELSE IF \E t \in Tasks(j) : tasks[t].state = "failed" THEN "failed"
           ELSE "completed"

Word(entries) == IF Finished(entries) THEN JobState(entries) ELSE "open"

\* Each job is to its command as JobPromise says: this is
\* \A j \in Jobs : Promise(j)!PromiseSpec, with the quantifier moved inwards.
Promise(j) == INSTANCE JobPromise WITH
    fate <- FateOf(j),
    answer <- IF execute[j] # "answered" THEN "none"
              ELSE IF reply[j] = <<>> THEN "lost" ELSE Word(reply[j]),
    heard <- IF view[j] = <<>> THEN "nothing" ELSE Word(view[j]),
    ending <- exit[j]

JobsKeepPromise ==
    /\ \A j \in Jobs : Promise(j)!PromiseInit
    /\ [][\A j \in Jobs : UNCHANGED Promise(j)!promiseVars \/ Promise(j)!PromiseNext]_jobVars

\* The command comes back, whatever becomes of the job: "--timeout controls only
\* how long submit waits locally" (README.md).
CommandReturns == \A j \in Watched : execute[j] = "submitting" ~> exit[j] # "running"

\* cli/submit.go:65 says of a client that stopped waiting that the job "was not
\* marked failed and may still be running": the job would not have been seen to end.
StoppedWaitingWasUnfinished ==
    \A j \in Jobs : exit[j] = "stopped_waiting" => ~Finished(view[j])

=============================================================================
