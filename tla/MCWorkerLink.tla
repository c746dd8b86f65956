---------------------------- MODULE MCWorkerLink ----------------------------
(***************************************************************************)
(* WorkerLink with two slots that can be handed the same task.             *)
(***************************************************************************)
EXTENDS WorkerLink

=============================================================================
