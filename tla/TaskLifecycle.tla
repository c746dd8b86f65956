---------------------------- MODULE TaskLifecycle ----------------------------
(***************************************************************************)
(* What the queue promises about ONE task, whatever the other tasks, the   *)
(* workers and the clock do (SPEC.md, "Task lifecycle"): it is granted at  *)
(* most MaxAttempts times, a grant that ends without a success gives it    *)
(* back while attempts remain and fails it for good when none do, one      *)
(* outcome is recorded at most once, and an outcome is never changed.      *)
(***************************************************************************)
EXTENDS Naturals

CONSTANTS
    MaxAttempts,  \* how often the task may be granted
    Outcomes,     \* what can be recorded for it
    NoOutcome     \* nothing recorded yet

VARIABLES
    phase,    \* "absent", "waiting", "held", "completed" or "failed"
    grants,   \* how many times the task has been granted
    outcome   \* what was recorded for it

lifeVars == <<phase, grants, outcome>>

LifeInit == phase = "absent" /\ grants = 0 /\ outcome = NoOutcome

Submit == phase = "absent" /\ phase' = "waiting" /\ UNCHANGED <<grants, outcome>>

Grant ==
    /\ phase = "waiting"
    /\ grants < MaxAttempts
    /\ phase' = "held"
    /\ grants' = grants + 1
    /\ UNCHANGED outcome

\* A grant that ran out is given to the next claimant in the same step.
Regrant ==
    /\ phase = "held"
    /\ grants < MaxAttempts
    /\ grants' = grants + 1
    /\ UNCHANGED <<phase, outcome>>

GiveBack ==
    /\ phase = "held"
    /\ grants < MaxAttempts
    /\ phase' = "waiting"
    /\ UNCHANGED <<grants, outcome>>

Succeed ==
    /\ phase = "held"
    /\ phase' = "completed"
    /\ outcome' \in Outcomes
    /\ UNCHANGED grants

GiveUp ==
    /\ phase = "held"
    /\ grants = MaxAttempts
    /\ phase' = "failed"
    /\ outcome' \in Outcomes
    /\ UNCHANGED grants

LifeNext == Submit \/ Grant \/ Regrant \/ GiveBack \/ Succeed \/ GiveUp

LifeSpec == LifeInit /\ [][LifeNext]_lifeVars

=============================================================================
