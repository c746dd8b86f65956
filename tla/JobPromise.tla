------------------------------ MODULE JobPromise ------------------------------
(***************************************************************************)
(* What Inoculum promises about ONE job to the command that submits it,    *)
(* whatever other jobs, workers, leases and lost answers do (SPEC.md,      *)
(* "Manifest mode", "State and persistence"): the coordinator speaks of a  *)
(* job only when all of it has been submitted, decides it once, and loses  *)
(* it only by a restart, for good; what the command hears was so when it   *)
(* was said; and the way the command ends is the last thing it heard.      *)
(***************************************************************************)

VARIABLES
    fate,    \* what the coordinator has of the job: "none", "partial", "open",
             \* "completed", "failed" or, after a restart, "lost"
    answer,  \* what an answer on its way says, "none" while there is none
    heard,   \* what the command has heard last: "nothing", "open" or a verdict
    ending   \* how it ended, "running" before

promiseVars == <<fate, answer, heard, ending>>

Verdicts == {"completed", "failed"}

PromiseInit == fate = "none" /\ answer = "none" /\ heard = "nothing" /\ ending = "running"

Submitting ==
    /\ fate \in {"none", "partial"}
    /\ fate' \in {"partial", "open"}
    /\ UNCHANGED <<answer, heard, ending>>

Decide ==
    /\ fate = "open" /\ fate' \in Verdicts
    /\ UNCHANGED <<answer, heard, ending>>

Lose ==
    /\ fate # "none" /\ fate' = "lost"
    /\ UNCHANGED <<answer, heard, ending>>

\* Looking at the job may be what decides it: the leases that ran out are swept.
Answer ==
    /\ answer = "none" /\ heard \notin Verdicts /\ ending = "running"
    /\ fate' = fate \/ (fate = "open" /\ fate' \in Verdicts)
    /\ fate' \notin {"none", "partial"}
    /\ answer' = fate'
    /\ UNCHANGED <<heard, ending>>

Hear ==
    /\ answer \notin {"none", "lost"}
    /\ heard' = answer /\ answer' = "none"
    /\ UNCHANGED <<fate, ending>>

\* An answer that got lost, or says that there is no such job.
HearNothing ==
    /\ answer # "none" /\ answer' = "none"
    /\ UNCHANGED <<fate, heard, ending>>

\* A verdict that was heard can only be kept from the user by a results file that
\* cannot be written, and success by leaving at that moment.
End ==
    /\ ending = "running" /\ answer = "none"
    /\ \/ heard = "completed" /\ ending' \in {"none", "stopped_waiting", "not_written"}
       \/ heard = "failed" /\ ending' \in {"job_failed", "not_written"}
       \/ heard \notin Verdicts /\ ending' \in {"request", "stopped_waiting"}
    /\ UNCHANGED <<fate, answer, heard>>

PromiseNext ==
    Submitting \/ Decide \/ Lose \/ Answer \/ Hear \/ HearNothing \/ End

PromiseSpec == PromiseInit /\ [][PromiseNext]_promiseVars

=============================================================================
