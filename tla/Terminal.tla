------------------------------- MODULE Terminal -------------------------------
(***************************************************************************)
(* The full-screen view of a command (internal/presentation/tui/run.go)    *)
(* and how a command ends that has one (internal/cli: submit.go, worker.go *)
(* and coordinator.go).  Three parties end in any order: the screen loop,  *)
(* the goroutine that reads keys for it, and the command's work, which is  *)
(* the waiting for a job, the worker, or the coordinator's server.         *)
(*                                                                         *)
(* Keys pass through the queue of the screen (tcell, an external library), *)
(* the hand of the reader, and the channel between the reader and the      *)
(* loop; the queue and the channel are bounded.  What is drawn is left     *)
(* out, and with it the ticker and the keys that only change it: they are  *)
(* "other".                                                                *)
(***************************************************************************)
EXTENDS Naturals, Sequences

CONSTANTS
    QueueCap,   \* capacity of the screen's queue
    EventsCap,  \* capacity of the channel events, 8 in the code
    MaxKeys     \* bound: how many keys the user presses

ASSUME CapsAssumption == QueueCap \in Nat \ {0} /\ EventsCap \in Nat \ {0}
ASSUME KeysAssumption == MaxKeys \in Nat

Commands == {"submit", "worker", "coordinator"}
Keys == {"quit", "other"}   \* q, Q and Ctrl+C quit
Events == Keys \union {"interrupt"}

VARIABLES
    command,   \* which command runs
    owner,     \* it: in tui.Run, watching without a screen, leaving, exited
    live,      \* its context is not cancelled
    work,      \* the goroutine of its work, and the channel done with it
    loop,      \* RunWithScreen
    result,    \* what it has returned
    reader,    \* the goroutine that reads keys
    hand,      \* the event it holds, if any
    queue,     \* the screen's queue
    events,    \* the channel between the reader and the loop
    typed,     \* history: the keys pressed
    handled    \* history: the keys the loop has received

terminalVars == <<command, owner, live, work, loop, result, reader, hand,
                  queue, events, typed, handled>>

keys == <<reader, hand, queue, events, typed, handled>>

TerminalInit ==
    /\ command \in Commands
    /\ owner = "screen" /\ live = TRUE /\ work = "running"
    /\ loop = "opening" /\ result = "none"
    /\ reader = "off" /\ hand = <<>> /\ queue = <<>> /\ events = <<>>
    /\ typed = <<>> /\ handled = <<>>

Running == owner # "exited"

-----------------------------------------------------------------------------
(* The command and its work *)

\* A signal, or the time limit of a submit command.
Cancel ==
    /\ Running /\ live
    /\ live' = FALSE
    /\ UNCHANGED <<command, owner, work, loop, result, keys>>

\* A job ends or its command stops waiting, a worker stops when it is told to, and a
\* server fails; it does not look at the context.
WorkEnds ==
    /\ Running /\ work = "running"
    /\ command = "worker" => ~live
    /\ work' = "done"
    /\ UNCHANGED <<command, owner, live, loop, result, keys>>

\* There is no terminal to open: the command goes on without.
ScreenFails ==
    /\ loop = "opening"
    /\ loop' = "returned"
    /\ owner' = "plain"
    /\ UNCHANGED <<command, live, work, result, keys>>

\* A submit command watches until its work is done, the others also look at the
\* context.
PlainEnds ==
    /\ owner = "plain"
    /\ work = "done" \/ (command # "submit" /\ ~live)
    /\ owner' = "leaving"
    /\ UNCHANGED <<command, live, work, loop, result, keys>>

\* Mutant: the context is not cancelled when the user quits.
RunReturnsOnly ==
    /\ owner = "screen" /\ loop = "returned"
    /\ owner' = "leaving"
    /\ UNCHANGED <<command, live, work, loop, result, keys>>

\* tui.Run returns; if the user quit, the context is cancelled.
RunReturns ==
    /\ owner = "screen" /\ loop = "returned"
    /\ owner' = "leaving"
    /\ live' = (live /\ result # "quit")
    /\ UNCHANGED <<command, work, loop, result, keys>>

\* A submit command and a worker wait for their work, a coordinator does not.
Exits ==
    /\ owner = "leaving"
    /\ command # "coordinator" => work = "done"
    /\ owner' = "exited"
    /\ UNCHANGED <<command, live, work, loop, result, keys>>

-----------------------------------------------------------------------------
(* RunWithScreen *)

OpenScreen ==
    /\ loop = "opening"
    /\ loop' = "selecting"
    /\ reader' = "polling"
    /\ UNCHANGED <<command, owner, live, work, result, hand, queue, events, typed, handled>>

\* The select takes the context or done, whichever it comes upon.
SelectsEnd ==
    /\ Running /\ loop = "selecting"
    /\ ~live \/ work = "done"
    /\ loop' = "posting"
    /\ UNCHANGED <<command, owner, live, work, result, keys>>

\* PostEventWait, which wakes the reader, waits for room in the queue.  Then the loop
\* returns, and the deferred Fini closes the screen.
Post ==
    /\ Running /\ loop = "posting"
    /\ Len(queue) < QueueCap
    /\ queue' = Append(queue, "interrupt")
    /\ loop' = "returned"
    /\ result' = "nil"
    /\ UNCHANGED <<command, owner, live, work, reader, hand, events, typed, handled>>

\* The select takes an event.  Only a key that quits matters.
Receives ==
    /\ Running /\ loop = "selecting"
    /\ events # <<>>
    /\ events' = Tail(events)
    /\ handled' = Append(handled, Head(events))
    /\ IF Head(events) = "quit"
       THEN loop' = "returned" /\ result' = "quit"
       ELSE UNCHANGED <<loop, result>>
    /\ UNCHANGED <<command, owner, live, work, reader, hand, queue, typed>>

-----------------------------------------------------------------------------
(* The reader *)

\* tcell: a key waits for room in the queue.
Type(key) ==
    /\ Running /\ loop \in {"selecting", "posting"}
    /\ Len(typed) < MaxKeys /\ Len(queue) < QueueCap
    /\ typed' = Append(typed, key)
    /\ queue' = Append(queue, key)
    /\ UNCHANGED <<command, owner, live, work, loop, result, reader, hand, events, handled>>

\* PollEvent.
Polls ==
    /\ Running /\ reader = "polling"
    /\ queue # <<>>
    /\ hand' = <<Head(queue)>>
    /\ queue' = Tail(queue)
    /\ reader' = "sending"
    /\ UNCHANGED <<command, owner, live, work, loop, result, events, typed, handled>>

\* After Fini it returns nil, even if the queue is not empty.
PollsNil ==
    /\ Running /\ reader = "polling"
    /\ loop = "returned"
    /\ reader' = "ended"
    /\ UNCHANGED <<command, owner, live, work, loop, result, hand, queue, events, typed,
                   handled>>

\* Mutant: the reader does not wait for room in the channel.
SendsOrDrops ==
    /\ Running /\ reader = "sending"
    /\ events' = IF Len(events) < EventsCap THEN events \o hand ELSE events
    /\ hand' = <<>>
    /\ reader' = "polling"
    /\ UNCHANGED <<command, owner, live, work, loop, result, queue, typed, handled>>

Sends ==
    /\ Running /\ reader = "sending"
    /\ Len(events) < EventsCap
    /\ events' = events \o hand
    /\ hand' = <<>>
    /\ reader' = "polling"
    /\ UNCHANGED <<command, owner, live, work, loop, result, queue, typed, handled>>

\* The context ends the reader, with the event it holds.
GivesUp ==
    /\ Running /\ reader = "sending" /\ ~live
    /\ hand' = <<>>
    /\ reader' = "ended"
    /\ UNCHANGED <<command, owner, live, work, loop, result, queue, events, typed, handled>>

-----------------------------------------------------------------------------
(* Specification *)

TerminalNext ==
    \/ Cancel \/ WorkEnds \/ ScreenFails \/ PlainEnds \/ RunReturns \/ Exits
    \/ OpenScreen \/ SelectsEnd \/ Post \/ Receives
    \/ \E key \in Keys : Type(key)
    \/ Polls \/ PollsNil \/ Sends \/ GivesUp

TerminalSpec == TerminalInit /\ [][TerminalNext]_terminalVars

\* The goroutines run, and a select that is ready takes each of its cases sooner or
\* later.  Work ends after its context: a submit command by CommandReturns of
\* JobClient, a worker by WorkerStops of WorkerLink.
TerminalFairness ==
    /\ WF_terminalVars(OpenScreen \/ ScreenFails)
    /\ WF_terminalVars(PlainEnds \/ RunReturns \/ Exits)
    /\ WF_terminalVars(SelectsEnd \/ Post)
    /\ WF_terminalVars(Receives)
    /\ WF_terminalVars(Polls \/ Sends)
    /\ WF_terminalVars(WorkEnds /\ ~live /\ command # "coordinator")

FairTerminalSpec == TerminalSpec /\ TerminalFairness

-----------------------------------------------------------------------------
(* Correctness *)

TerminalTypeOK ==
    /\ command \in Commands
    /\ owner \in {"screen", "plain", "leaving", "exited"}
    /\ live \in BOOLEAN /\ work \in {"running", "done"}
    /\ loop \in {"opening", "selecting", "posting", "returned"}
    /\ result \in {"none", "nil", "quit"}
    /\ reader \in {"off", "polling", "sending", "ended"}
    /\ hand \in Seq(Events) /\ queue \in Seq(Events) /\ events \in Seq(Events)
    /\ typed \in Seq(Keys) /\ handled \in Seq(Keys)
    /\ reader = "sending" <=> hand # <<>>
    /\ Len(hand) <= 1 /\ Len(queue) <= QueueCap /\ Len(events) <= EventsCap

\* Everything the reader is given: the keys, and the interrupt of a loop that ends.
Given == IF result = "nil" THEN Append(typed, "interrupt") ELSE typed

Begins(received, sent) ==
    /\ Len(received) <= Len(sent)
    /\ \A i \in 1..Len(received) : received[i] = sent[i]

\* The loop receives the keys as they were typed, in order and without a gap, and while
\* the reader runs none is lost, however full the queue and the channel are.
KeysInOrder ==
    /\ Begins(handled, typed)
    /\ Begins(handled \o events, Given)
    /\ reader # "ended" => handled \o events \o hand \o queue = Given

\* A command leaves its screen, or the watching without one, only when its work is done
\* or has been told to stop: otherwise it would wait for work that nobody ends.
WorkToldToStop == owner \in {"leaving", "exited"} => ~live \/ work = "done"

\* The loop waits for room in a queue that nobody empties.
Stuck ==
    /\ loop = "posting" /\ Len(queue) = QueueCap
    /\ reader = "ended" \/ (reader = "sending" /\ Len(events) = EventsCap)

\* Once the user has pressed a key that quits, the context is cancelled or the work is
\* done, the command exits, with a screen or without.  The one thing that can
\* keep it is a queue that fast typing filled while the loop was not receiving.
CommandExits ==
    (~live \/ work = "done" \/ \E i \in 1..Len(typed) : typed[i] = "quit") ~> (owner = "exited" \/ Stuck)

=============================================================================
