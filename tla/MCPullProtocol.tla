--------------------------- MODULE MCPullProtocol ---------------------------
(***************************************************************************)
(* PullProtocol on small instances.                                        *)
(***************************************************************************)
EXTENDS PullProtocol, TLC

CONSTANTS s1, s2, w1, w2

\* Each slot on a worker of its own, or both on one worker.
TwoWorkers == {(s1 :> w1) @@ (s2 :> w2)}
OneWorker == {(s1 :> w1) @@ (s2 :> w1)}
AnyWorkers == TwoWorkers \union OneWorker

=============================================================================
