---------------------------- MODULE MCRenewTiming ----------------------------
(***************************************************************************)
(* RenewTiming with the default durations, in units of 250 ms: a lease of  *)
(* 6 s is 24, the interval's limits 500 ms and 5 s are 2 and 20.           *)
(***************************************************************************)
EXTENDS RenewTiming

\* Each is Enough.  Clocks that are 15 s behind and a quarter of a second to answer;
\* clocks that are 15 s ahead and two renewals in a row lost; clocks in step, 1.25 s
\* to answer and every other renewal lost.
DefaultNetworks ==
    {[skew |-> 60, roundTrip |-> 1, losses |-> 0],
     [skew |-> -60, roundTrip |-> 1, losses |-> 2],
     [skew |-> 0, roundTrip |-> 5, losses |-> 1]}

\* The best there can be.
Instant == {[skew |-> 0, roundTrip |-> 0, losses |-> 0]}

=============================================================================
