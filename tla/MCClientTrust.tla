---------------------------- MODULE MCClientTrust ----------------------------
(***************************************************************************)
(* ClientTrust with two processes at a time, four in all, and three        *)
(* identities: two coordinators of the account, and a stranger.            *)
(***************************************************************************)
EXTENDS ClientTrust

=============================================================================
