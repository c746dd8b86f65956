----------------------------- MODULE MCJobClient -----------------------------
(***************************************************************************)
(* JobClient on small instances.                                           *)
(***************************************************************************)
EXTENDS JobClient, TLC

CONSTANTS t1, t2, j1, j2

\* One job of two tasks; and two jobs that meet in the queue.
OneJob == {(j1 :> <<t1, t2>>) @@ (j2 :> <<>>)}
TwoJobs == {(j1 :> <<t1>>) @@ (j2 :> <<t2>>)}
Batches == OneJob \union TwoJobs

=============================================================================
