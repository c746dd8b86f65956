----------------------------- MODULE RenewTiming -----------------------------
(***************************************************************************)
(* The timing of one claim's renewals: renewLoop in internal/worker/pull.go *)
(* against the lease it renews.  The loop chooses its interval once, from  *)
(* what the worker's own clock says is left of the lease; the coordinator  *)
(* measures the lease by its own.                                          *)
(*                                                                         *)
(* Time is in units of any length; a duration d of the code is d units.    *)
(* A renewal is handled somewhere between its sending and its answer.  The *)
(* delay of a goroutine that was not scheduled at once counts as part of   *)
(* the round trip that follows it.                                         *)
(***************************************************************************)
EXTENDS Integers

CONSTANTS
    LeaseDuration,  \* --lease-duration
    MinInterval,    \* 500 ms
    MaxInterval,    \* 5 s
    Networks        \* the circumstances considered, see Network

\* skew: how far the worker's clock is behind the coordinator's.  roundTrip: no
\* request takes longer, and an error is noticed as fast.  losses: how many
\* renewals in a row may be lost on their way.
Network == [skew : Int, roundTrip : Nat, losses : Nat]

ASSUME DurationsAssumption ==
    /\ LeaseDuration \in Nat \ {0}
    /\ MinInterval \in Nat \ {0}
    /\ MaxInterval \in Nat
    /\ MinInterval <= MaxInterval

ASSUME NetworksAssumption == Networks \subseteq Network

VARIABLES
    network,    \* the circumstances of this behavior
    executing,  \* the claim is being worked on
    left,       \* what is left of the lease, on the coordinator's clock
    interval,   \* the ticker's period
    toTick,     \* time until the ticker fires
    pending,    \* a tick waits in the ticker's channel, which holds one
    request,    \* the renewal on its way
    age,        \* for how long it has been
    lost        \* how many were lost since the last that was handled

timingVars == <<network, executing, left, interval, toTick, pending, request, age, lost>>

-----------------------------------------------------------------------------

\* Mutant: no upper limit.
IntervalUncapped(leaseLength) ==
    IF leaseLength \div 3 < MinInterval THEN MinInterval ELSE leaseLength \div 3

\* Mutant: no lower limit.
IntervalUnfloored(leaseLength) ==
    IF leaseLength \div 3 > MaxInterval THEN MaxInterval ELSE leaseLength \div 3

\* A third of the lease, between the two limits.
Interval(leaseLength) ==
    IF leaseLength \div 3 < MinInterval THEN MinInterval
    ELSE IF leaseLength \div 3 > MaxInterval THEN MaxInterval
    ELSE leaseLength \div 3

\* The claim's response took delay to arrive; the loop starts with it.
TimingInit ==
    /\ network \in Networks
    /\ executing = TRUE
    /\ \E delay \in 0..network.roundTrip :
          /\ left = IF delay < LeaseDuration THEN LeaseDuration - delay ELSE 0
          /\ interval = Interval(LeaseDuration - delay + network.skew)
    /\ toTick = interval
    /\ pending = FALSE
    /\ request = "none"
    /\ age = 0
    /\ lost = 0

\* The loop takes the tick as soon as it is back from the last renewal.
SendRenewal ==
    /\ executing /\ pending /\ request = "none"
    /\ pending' = FALSE
    /\ request' = "sent"
    /\ age' = 0
    /\ UNCHANGED <<network, executing, left, interval, toTick, lost>>

\* Queue.Renew.  A lease that ran out is not renewed; the status then ends the loop.
HandleRenewal ==
    /\ request = "sent"
    /\ IF left > 0
       THEN left' = LeaseDuration /\ request' = "renewed" /\ lost' = 0
       ELSE request' = "refused" /\ UNCHANGED <<left, lost>>
    /\ UNCHANGED <<network, executing, interval, toTick, pending, age>>

LoseRenewal ==
    /\ request = "sent" /\ lost < network.losses
    /\ request' = "lost"
    /\ UNCHANGED <<network, executing, left, interval, toTick, pending, age, lost>>

\* The answer, or the error, is back.  After an error the loop waits for the next
\* tick; it does not try again at once.
RenewalReturns ==
    /\ request \in {"renewed", "lost"}
    /\ request' = "none"
    /\ age' = 0
    /\ lost' = IF request = "lost" THEN lost + 1 ELSE lost
    /\ UNCHANGED <<network, executing, left, interval, toTick, pending>>

\* The executor is back and its result resolved: cancelRenew.
WorkEnds ==
    /\ executing
    /\ executing' = FALSE
    /\ UNCHANGED <<network, left, interval, toTick, pending, request, age, lost>>

\* Time does not pass over a tick the idle loop has to take, nor over the end of a
\* round trip.  A tick that finds the channel full is dropped.
PassTime ==
    /\ executing
    /\ ~(pending /\ request = "none")
    /\ request # "none" => age < network.roundTrip
    /\ left' = IF left > 0 THEN left - 1 ELSE 0
    /\ toTick' = IF toTick = 1 THEN interval ELSE toTick - 1
    /\ pending' = (pending \/ toTick = 1)
    /\ age' = IF request = "none" THEN 0 ELSE age + 1
    /\ UNCHANGED <<network, executing, interval, request, lost>>

TimingNext ==
    SendRenewal \/ HandleRenewal \/ LoseRenewal \/ RenewalReturns \/ WorkEnds \/ PassTime

TimingSpec == TimingInit /\ [][TimingNext]_timingVars

-----------------------------------------------------------------------------
(* Correctness *)

\* What the types hide: the interval is positive, whatever the worker's clock says
\* is left of the lease.  time.NewTicker panics otherwise.
TimingTypeOK ==
    /\ network \in Networks
    /\ executing \in BOOLEAN /\ pending \in BOOLEAN
    /\ left \in 0..LeaseDuration
    /\ interval \in MinInterval..MaxInterval
    /\ toTick \in 1..interval
    /\ request \in {"none", "sent", "renewed", "refused", "lost"}
    /\ age \in 0..network.roundTrip
    /\ lost \in 0..network.losses

\* "A worker renews the lease while its executor is running" (SPEC.md:44): the
\* lease does not run out under a worker that is at work.
HeldWhileExecuting == executing => left > 0

\* The circumstances in which that is so.  The claim's own delay, a period for
\* each renewal in a row that can be lost and one for the one that is not, and the
\* way of that one must fit into a lease.  A period is no shorter than a round trip.
Period(i, r) == IF i < r THEN r ELSE i

Enough(n) ==
    \A delay \in 0..n.roundTrip :
        delay + (n.losses + 1) * Period(Interval(LeaseDuration - delay + n.skew), n.roundTrip)
              + n.roundTrip < LeaseDuration

=============================================================================
