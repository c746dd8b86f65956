---------------------------- MODULE MCLeaseQueue ----------------------------
(***************************************************************************)
(* LeaseQueue on a small instance.                                         *)
(***************************************************************************)
EXTENDS LeaseQueue, TLC

\* Nothing tells one task, or one worker, from another.
Symmetry == Permutations(TaskIDs) \union Permutations(Workers)

=============================================================================
