------------------------------ MODULE MCTerminal ------------------------------
(***************************************************************************)
(* Terminal with a queue and a channel that a few keys fill.               *)
(***************************************************************************)
EXTENDS Terminal

=============================================================================
