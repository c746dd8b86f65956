-------------------------- MODULE RenewTimingProofs --------------------------
(***************************************************************************)
(* For every lease duration, limits and circumstances: where they leave    *)
(* enough time (Enough), a lease does not run out under a worker at work.  *)
(*                                                                         *)
(* HeldWhileExecuting is not inductive.  What is: at every moment the rest *)
(* of the lease covers the way to the next renewal, a period for each that *)
(* may still be lost, and the round trip of the one that is not.           *)
(***************************************************************************)
EXTENDS RenewTiming, TLAPS

\* The time k renewals in a row can cost when each costs p.
Reserve(k, p) == k * p

Roundtrip == network.roundTrip
Pace      == Period(interval, Roundtrip)
Left      == network.losses - lost

\* From here the next renewal that is handled is at most this far away.
Covered ==
    /\ Reserve(network.losses + 1, Pace) + Roundtrip < LeaseDuration
    /\ request = "none" /\ ~pending => toTick + Reserve(Left, Pace) + Roundtrip < left
    /\ request = "none" /\ pending => Reserve(Left, Pace) + Roundtrip < left
    /\ request \in {"sent", "lost"} => Reserve(Left, Pace) + Roundtrip < left + age
    /\ request = "renewed" => LeaseDuration <= left + age /\ lost = 0
    /\ request = "lost" => lost < network.losses
    /\ request # "refused"
    /\ request # "none" /\ ~pending => toTick + age <= interval

TimingInv == TimingTypeOK /\ Covered

-----------------------------------------------------------------------------
(* Arithmetic *)

\* A reserve is a natural number.
LEMMA ReserveNat == \A k, p \in Nat : Reserve(k, p) \in Nat
<1>1. SUFFICES ASSUME NEW k \in Nat, NEW p \in Nat PROVE k * p \in Nat
  BY DEF Reserve
<1>2. QED
  OBVIOUS

\* One renewal more costs one period more.
LEMMA ReserveStep == \A k, p \in Nat : Reserve(k + 1, p) = Reserve(k, p) + p
<1>1. SUFFICES ASSUME NEW k \in Nat, NEW p \in Nat PROVE (k + 1) * p = k * p + p
  BY DEF Reserve
<1>2. QED
  OBVIOUS

\* A period is no shorter than the ticker's and no shorter than a round trip.
LEMMA PeriodBounds ==
    \A i, r \in Nat : Period(i, r) \in Nat /\ i <= Period(i, r) /\ r <= Period(i, r)
BY DEF Period

\* renewLoop's interval lies between its limits, for every length of the lease the
\* worker believes in, negative ones included.
THEOREM IntervalWithinLimits ==
    \A leaseLength \in Int : Interval(leaseLength) \in MinInterval..MaxInterval
BY DurationsAssumption DEF Interval

-----------------------------------------------------------------------------
(* The invariant *)

LEMMA TimingInitInv == (\A n \in Networks : Enough(n)) /\ TimingInit => TimingInv
<1> SUFFICES ASSUME \A n \in Networks : Enough(n), TimingInit PROVE TimingInv
  OBVIOUS
<1> USE DurationsAssumption, NetworksAssumption
<1> DEFINE R == network.roundTrip
           K == network.losses
<1>1. network \in Networks /\ R \in Nat /\ K \in Nat /\ network.skew \in Int
  BY DEF TimingInit, Network
<1>2. PICK delay \in 0..R :
        /\ left = IF delay < LeaseDuration THEN LeaseDuration - delay ELSE 0
        /\ interval = Interval(LeaseDuration - delay + network.skew)
  BY DEF TimingInit
<1>3. interval \in MinInterval..MaxInterval
  <2>1. LeaseDuration - delay + network.skew \in Int
    BY <1>1
  <2>2. QED
    BY <1>2, <2>1, IntervalWithinLimits
<1>4. interval \in Nat \ {0}
  BY <1>3
<1>5. delay + (K + 1) * Period(interval, R) + R < LeaseDuration
  BY <1>1, <1>2 DEF Enough
<1>6. delay + Reserve(K + 1, Period(interval, R)) + R < LeaseDuration
  BY <1>5 DEF Reserve
<1>7. /\ Period(interval, R) \in Nat
      /\ interval <= Period(interval, R)
  BY <1>1, <1>4, PeriodBounds
<1>8. /\ Reserve(K, Period(interval, R)) \in Nat
      /\ Reserve(K + 1, Period(interval, R)) = Reserve(K, Period(interval, R)) + Period(interval, R)
  BY <1>1, <1>7, ReserveNat, ReserveStep
<1>9. /\ toTick = interval /\ pending = FALSE /\ request = "none"
      /\ age = 0 /\ lost = 0 /\ executing = TRUE
  BY DEF TimingInit
<1>10. left = LeaseDuration - delay
  <2>1. delay < LeaseDuration
    BY <1>1, <1>6, <1>7, <1>8
  <2>2. QED
    BY <1>2, <2>1
<1>11. TimingTypeOK
  <2>1. left \in 0..LeaseDuration
    BY <1>1, <1>6, <1>7, <1>8, <1>10
  <2>2. toTick \in 1..interval
    BY <1>4, <1>9
  <2>3. age \in 0..network.roundTrip /\ lost \in 0..network.losses
    BY <1>1, <1>9
  <2>4. QED
    BY <1>1, <1>3, <1>9, <2>1, <2>2, <2>3 DEF TimingTypeOK
<1>12. Covered
  <2>1. Left = K
    BY <1>1, <1>9 DEF Left
  <2>2. Pace = Period(interval, R) /\ Roundtrip = R
    BY DEF Pace, Roundtrip
  <2>3. Reserve(K + 1, Pace) + R < LeaseDuration
    BY <1>1, <1>6, <1>7, <1>8, <2>2
  <2>4. toTick + Reserve(K, Pace) + R < left
    BY <1>1, <1>4, <1>6, <1>7, <1>8, <1>9, <1>10, <2>2
  <2>5. QED
    BY <1>9, <2>1, <2>2, <2>3, <2>4 DEF Covered
<1>13. QED
  BY <1>11, <1>12 DEF TimingInv

\* The quantities the steps argue about.
LEMMA Quantities ==
    TimingInv =>
        /\ Roundtrip \in Nat /\ network.losses \in Nat
        /\ interval \in Nat \ {0} /\ toTick \in 1..interval
        /\ Pace \in Nat /\ interval <= Pace /\ Roundtrip <= Pace
        /\ Left \in Nat
        /\ Reserve(Left, Pace) \in Nat
        /\ Reserve(network.losses, Pace) \in Nat
        /\ Reserve(network.losses + 1, Pace) = Reserve(network.losses, Pace) + Pace
        /\ Left > 0 => /\ Left - 1 \in Nat
                       /\ Reserve(Left - 1, Pace) \in Nat
                       /\ Reserve(Left, Pace) = Reserve(Left - 1, Pace) + Pace
<1> SUFFICES ASSUME TimingInv
    PROVE /\ Roundtrip \in Nat /\ network.losses \in Nat
          /\ interval \in Nat \ {0} /\ toTick \in 1..interval
          /\ Pace \in Nat /\ interval <= Pace /\ Roundtrip <= Pace
          /\ Left \in Nat
          /\ Reserve(Left, Pace) \in Nat
          /\ Reserve(network.losses, Pace) \in Nat
          /\ Reserve(network.losses + 1, Pace) = Reserve(network.losses, Pace) + Pace
          /\ Left > 0 => /\ Left - 1 \in Nat
                         /\ Reserve(Left - 1, Pace) \in Nat
                         /\ Reserve(Left, Pace) = Reserve(Left - 1, Pace) + Pace
  OBVIOUS
<1>1. TimingTypeOK
  BY DEF TimingInv
<1>2. Roundtrip \in Nat /\ network.losses \in Nat
  BY <1>1, NetworksAssumption DEF TimingTypeOK, Network, Roundtrip
<1>3. interval \in Nat \ {0} /\ toTick \in 1..interval
  BY <1>1, DurationsAssumption DEF TimingTypeOK
<1>4. Pace \in Nat /\ interval <= Pace /\ Roundtrip <= Pace
  BY <1>2, <1>3, PeriodBounds DEF Pace
<1>5. Left \in Nat
  BY <1>1, <1>2 DEF TimingTypeOK, Left
<1>6. /\ Reserve(Left, Pace) \in Nat
      /\ Reserve(network.losses, Pace) \in Nat
      /\ Reserve(network.losses + 1, Pace) = Reserve(network.losses, Pace) + Pace
  BY <1>2, <1>4, <1>5, ReserveNat, ReserveStep
<1>7. ASSUME Left > 0
      PROVE /\ Left - 1 \in Nat
            /\ Reserve(Left - 1, Pace) \in Nat
            /\ Reserve(Left, Pace) = Reserve(Left - 1, Pace) + Pace
  <2>1. Left - 1 \in Nat /\ (Left - 1) + 1 = Left
    BY <1>5, <1>7
  <2>2. /\ Reserve(Left - 1, Pace) \in Nat
        /\ Reserve((Left - 1) + 1, Pace) = Reserve(Left - 1, Pace) + Pace
    BY <1>4, <2>1, ReserveNat, ReserveStep
  <2>3. QED
    BY <2>1, <2>2
<1>8. QED
  BY <1>2, <1>3, <1>4, <1>5, <1>6, <1>7

-----------------------------------------------------------------------------
(* The steps *)

\* A tick is taken: the reserve starts from the sending.
LEMMA SendKeeps == TimingInv /\ SendRenewal => TimingInv'
<1> SUFFICES ASSUME TimingInv, SendRenewal PROVE TimingInv'
  OBVIOUS
<1>1. TimingTypeOK /\ Covered
  BY DEF TimingInv
<1>2. /\ UNCHANGED <<network, executing, left, interval, toTick, lost>>
      /\ pending /\ request = "none" /\ pending' = FALSE /\ request' = "sent" /\ age' = 0
  BY DEF SendRenewal
<1>3. Roundtrip' = Roundtrip /\ Pace' = Pace /\ Left' = Left
  BY <1>2 DEF Roundtrip, Pace, Left
<1>4. /\ Roundtrip \in Nat /\ Pace \in Nat /\ interval \in Nat /\ toTick \in 1..interval
      /\ Reserve(Left, Pace) \in Nat
  BY Quantities
<1>5. TimingTypeOK'
  <2>1. age' \in 0..network'.roundTrip
    BY <1>2, <1>4 DEF Roundtrip
  <2>2. QED
    BY <1>1, <1>2, <2>1 DEF TimingTypeOK
<1>6. Covered'
  <2>1. Reserve(network.losses + 1, Pace) + Roundtrip < LeaseDuration
    BY <1>1 DEF Covered
  <2>2. Reserve(Left, Pace) + Roundtrip < left
    BY <1>1, <1>2 DEF Covered
  <2>3. left \in Nat
    BY <1>1, DurationsAssumption DEF TimingTypeOK
  <2>4. Reserve(Left, Pace) + Roundtrip < left + 0 /\ toTick + 0 <= interval
    BY <1>4, <2>2, <2>3
  <2>5. QED
    BY <1>2, <1>3, <2>1, <2>4 DEF Covered
<1>7. QED
  BY <1>5, <1>6 DEF TimingInv

\* A renewal is handled: the lease is whole again.
LEMMA HandleKeeps == TimingInv /\ HandleRenewal => TimingInv'
<1> SUFFICES ASSUME TimingInv, HandleRenewal PROVE TimingInv'
  OBVIOUS
<1>1. TimingTypeOK /\ Covered
  BY DEF TimingInv
<1>2. /\ UNCHANGED <<network, executing, interval, toTick, pending, age>>
      /\ request = "sent"
  BY DEF HandleRenewal
<1>3. Roundtrip' = Roundtrip /\ Pace' = Pace
  BY <1>2 DEF Roundtrip, Pace
<1>4. /\ Roundtrip \in Nat /\ Pace \in Nat /\ Roundtrip <= Pace /\ network.losses \in Nat
      /\ Reserve(Left, Pace) \in Nat
  BY Quantities
<1>5. left \in Nat /\ age \in 0..Roundtrip /\ LeaseDuration \in Nat
  BY <1>1, <1>4, DurationsAssumption DEF TimingTypeOK, Roundtrip
<1>6. left > 0
  <2>1. Reserve(Left, Pace) + Roundtrip < left + age
    BY <1>1, <1>2 DEF Covered
  <2>2. QED
    BY <1>4, <1>5, <2>1
<1>7. left' = LeaseDuration /\ request' = "renewed" /\ lost' = 0
  BY <1>6 DEF HandleRenewal
<1>8. TimingTypeOK'
  <2>1. left' \in 0..LeaseDuration
    BY <1>5, <1>7
  <2>2. lost' \in 0..network.losses
    BY <1>4, <1>7
  <2>3. QED
    BY <1>1, <1>2, <1>7, <2>1, <2>2 DEF TimingTypeOK
<1>9. Covered'
  <2>1. Reserve(network.losses + 1, Pace) + Roundtrip < LeaseDuration
    BY <1>1 DEF Covered
  <2>2. ~pending => toTick + age <= interval
    BY <1>1, <1>2 DEF Covered
  <2>3. LeaseDuration <= LeaseDuration + age
    BY <1>5
  <2>4. QED
    BY <1>2, <1>3, <1>7, <2>1, <2>2, <2>3 DEF Covered
<1>10. QED
  BY <1>8, <1>9 DEF TimingInv

\* A renewal is lost: the reserve holds one for it.
LEMMA LoseKeeps == TimingInv /\ LoseRenewal => TimingInv'
<1> SUFFICES ASSUME TimingInv, LoseRenewal PROVE TimingInv'
  OBVIOUS
<1>1. TimingTypeOK /\ Covered
  BY DEF TimingInv
<1>2. /\ UNCHANGED <<network, executing, left, interval, toTick, pending, age, lost>>
      /\ request = "sent" /\ request' = "lost" /\ lost < network.losses
  BY DEF LoseRenewal
<1>3. Roundtrip' = Roundtrip /\ Pace' = Pace /\ Left' = Left
  BY <1>2 DEF Roundtrip, Pace, Left
<1>4. TimingTypeOK'
  BY <1>1, <1>2 DEF TimingTypeOK
<1>5. Covered'
  BY <1>1, <1>2, <1>3 DEF Covered
<1>6. QED
  BY <1>4, <1>5 DEF TimingInv

\* The loop is back.  The next tick is in the channel, or no further off than a
\* period from when the renewal was sent.
LEMMA ReturnKeeps == TimingInv /\ RenewalReturns => TimingInv'
<1> SUFFICES ASSUME TimingInv, RenewalReturns PROVE TimingInv'
  OBVIOUS
<1>1. TimingTypeOK /\ Covered
  BY DEF TimingInv
<1>2. /\ UNCHANGED <<network, executing, left, interval, toTick, pending>>
      /\ request \in {"renewed", "lost"} /\ request' = "none" /\ age' = 0
      /\ lost' = IF request = "lost" THEN lost + 1 ELSE lost
  BY DEF RenewalReturns
<1>3. Roundtrip' = Roundtrip /\ Pace' = Pace
  BY <1>2 DEF Roundtrip, Pace
<1>4. /\ Roundtrip \in Nat /\ network.losses \in Nat
      /\ interval \in Nat /\ toTick \in 1..interval
      /\ Pace \in Nat /\ interval <= Pace /\ Roundtrip <= Pace
      /\ Left \in Nat
  BY Quantities
<1>5. /\ left \in Nat /\ age \in 0..Roundtrip /\ LeaseDuration \in Nat
      /\ lost \in 0..network.losses
  BY <1>1, <1>4, DurationsAssumption DEF TimingTypeOK, Roundtrip
<1>6. /\ Reserve(network.losses + 1, Pace) + Roundtrip < LeaseDuration
      /\ ~pending => toTick + age <= interval
  BY <1>1, <1>2 DEF Covered
<1>7. /\ Reserve(Left', Pace) + Pace + Roundtrip < left + age
      /\ Reserve(Left', Pace) \in Nat
      /\ lost' \in 0..network.losses
  <2>1. CASE request = "renewed"
    <3>1. lost = 0 /\ lost' = 0 /\ LeaseDuration <= left + age
      BY <1>1, <1>2, <2>1 DEF Covered
    <3>2. Left' = network.losses
      BY <1>2, <1>4, <3>1 DEF Left
    <3>3. /\ Reserve(network.losses, Pace) \in Nat
          /\ Reserve(network.losses + 1, Pace) = Reserve(network.losses, Pace) + Pace
      BY Quantities
    <3>4. Reserve(network.losses, Pace) + Pace + Roundtrip < left + age
      BY <1>4, <1>5, <1>6, <3>1, <3>3
    <3>5. QED
      BY <1>4, <3>1, <3>2, <3>3, <3>4
  <2>2. CASE request = "lost"
    <3>1. lost < network.losses /\ Reserve(Left, Pace) + Roundtrip < left + age
      BY <1>1, <2>2 DEF Covered
    <3>2. lost' = lost + 1
      BY <1>2, <2>2
    <3>3. Left > 0 /\ Left' = Left - 1 /\ lost' \in 0..network.losses
      BY <1>2, <1>4, <1>5, <3>1, <3>2 DEF Left
    <3>4. /\ Reserve(Left - 1, Pace) \in Nat
          /\ Reserve(Left, Pace) = Reserve(Left - 1, Pace) + Pace
      BY <3>3, Quantities
    <3>5. Reserve(Left - 1, Pace) + Pace + Roundtrip < left + age
      BY <1>4, <1>5, <3>1, <3>4
    <3>6. QED
      BY <3>3, <3>4, <3>5
  <2>3. QED
    BY <1>2, <2>1, <2>2
<1>8. TimingTypeOK'
  <2>1. 0 \in 0..network.roundTrip
    BY <1>4 DEF Roundtrip
  <2>2. QED
    BY <1>1, <1>2, <1>7, <2>1 DEF TimingTypeOK
<1>9. Covered'
  <2> DEFINE rest == Reserve(Left', Pace)
  <2>1. rest \in Nat /\ rest + Pace + Roundtrip < left + age
    BY <1>7
  <2> HIDE DEF rest
  <2>2. rest + Roundtrip < left
    BY <1>4, <1>5, <2>1
  <2>3. ~pending => toTick + rest + Roundtrip < left
    BY <1>4, <1>5, <1>6, <2>1
  <2> USE DEF rest
  <2>4. Reserve(network.losses + 1, Pace) + Roundtrip < LeaseDuration
    BY <1>6
  <2>5. QED
    BY <1>2, <1>3, <2>2, <2>3, <2>4 DEF Covered
<1>10. QED
  BY <1>8, <1>9 DEF TimingInv

\* The work ends, and the lease may run out.
LEMMA EndKeeps == TimingInv /\ WorkEnds => TimingInv'
<1> SUFFICES ASSUME TimingInv, WorkEnds PROVE TimingInv'
  OBVIOUS
<1>1. TimingTypeOK /\ Covered
  BY DEF TimingInv
<1>2. /\ UNCHANGED <<network, left, interval, toTick, pending, request, age, lost>>
      /\ executing' = FALSE
  BY DEF WorkEnds
<1>3. TimingTypeOK'
  BY <1>1, <1>2 DEF TimingTypeOK
<1>4. Covered'
  BY <1>1, <1>2 DEF Covered, Roundtrip, Pace, Left
<1>5. QED
  BY <1>3, <1>4 DEF TimingInv

\* Time takes from the rest of the lease what it takes from the way to the next
\* renewal.
LEMMA PassTimeKeeps == TimingInv /\ PassTime => TimingInv'
<1> SUFFICES ASSUME TimingInv, PassTime PROVE TimingInv'
  OBVIOUS
<1>1. TimingTypeOK /\ Covered
  BY DEF TimingInv
<1>2. /\ UNCHANGED <<network, executing, interval, request, lost>>
      /\ ~(pending /\ request = "none")
      /\ request # "none" => age < Roundtrip
      /\ left' = IF left > 0 THEN left - 1 ELSE 0
      /\ toTick' = IF toTick = 1 THEN interval ELSE toTick - 1
      /\ pending' = (pending \/ toTick = 1)
      /\ age' = IF request = "none" THEN 0 ELSE age + 1
  BY DEF PassTime, Roundtrip
<1>3. Roundtrip' = Roundtrip /\ Pace' = Pace /\ Left' = Left
  BY <1>2 DEF Roundtrip, Pace, Left
<1>4. /\ Roundtrip \in Nat /\ interval \in Nat \ {0} /\ toTick \in 1..interval
      /\ Reserve(Left, Pace) \in Nat
  BY Quantities
<1>5. left \in 0..LeaseDuration /\ age \in 0..Roundtrip /\ LeaseDuration \in Nat \ {0}
  BY <1>1, DurationsAssumption DEF TimingTypeOK, Roundtrip
<1>6. left > 0
  <2>1. CASE request = "none"
    <3>1. toTick + Reserve(Left, Pace) + Roundtrip < left
      BY <1>1, <1>2, <2>1 DEF Covered
    <3>2. QED
      BY <1>4, <1>5, <3>1
  <2>2. CASE request \in {"sent", "lost"}
    <3>1. Reserve(Left, Pace) + Roundtrip < left + age
      BY <1>1, <2>2 DEF Covered
    <3>2. QED
      BY <1>4, <1>5, <3>1
  <2>3. CASE request = "renewed"
    <3>1. LeaseDuration <= left + age
      BY <1>1, <2>3 DEF Covered
    <3>2. Reserve(network.losses + 1, Pace) + Roundtrip < LeaseDuration
      BY <1>1 DEF Covered
    <3>3. /\ Pace \in Nat /\ Reserve(network.losses, Pace) \in Nat
          /\ Reserve(network.losses + 1, Pace) = Reserve(network.losses, Pace) + Pace
      BY Quantities
    <3>4. QED
      BY <1>4, <1>5, <3>1, <3>2, <3>3
  <2>4. QED
    BY <1>1, <2>1, <2>2, <2>3 DEF Covered, TimingTypeOK
<1>7. left' = left - 1
  BY <1>2, <1>6
<1>8. ~pending' => ~pending /\ toTick # 1
  BY <1>2, Zenon
<1>9. TimingTypeOK'
  <2>1. left' \in 0..LeaseDuration
    BY <1>5, <1>6, <1>7
  <2>2. toTick' \in 1..interval
    BY <1>2, <1>4
  <2>3. age' \in 0..Roundtrip
    BY <1>2, <1>4, <1>5
  <2>4. pending' \in BOOLEAN
    BY <1>2
  <2>5. QED
    BY <1>1, <1>2, <2>1, <2>2, <2>3, <2>4 DEF TimingTypeOK, Roundtrip
<1>10. Covered'
  <2> DEFINE rest == Reserve(Left, Pace)
  <2>1. rest \in Nat
    BY <1>4
  <2> HIDE DEF rest
  <2>2. CASE request = "none"
    <3>1. ~pending /\ toTick + rest + Roundtrip < left
      BY <1>1, <1>2, <2>2 DEF Covered, rest
    <3>2. ~pending' => toTick' + rest + Roundtrip < left'
      BY <1>2, <1>4, <1>5, <1>7, <1>8, <2>1, <3>1
    <3>3. pending' => rest + Roundtrip < left'
      BY <1>2, <1>4, <1>5, <1>7, <2>1, <3>1
    <3>4. Reserve(network.losses + 1, Pace) + Roundtrip < LeaseDuration
      BY <1>1 DEF Covered
    <3>5. QED
      BY <1>2, <1>3, <2>2, <3>2, <3>3, <3>4 DEF Covered, rest
  <2>3. CASE request # "none"
    <3>1. left' + age' = left + age
      BY <1>2, <1>4, <1>5, <1>7, <2>3
    <3>2. ~pending' => toTick' + age' <= interval
      <4>1. ~pending => toTick + age <= interval
        BY <1>1, <2>3 DEF Covered
      <4>2. QED
        BY <1>2, <1>4, <1>5, <1>8, <2>3, <4>1
    <3>3. QED
      BY <1>1, <1>2, <1>3, <2>3, <3>1, <3>2 DEF Covered
  <2>4. QED
    BY <2>2, <2>3
<1>11. QED
  BY <1>9, <1>10 DEF TimingInv

LEMMA TimingStepInv == TimingInv /\ [TimingNext]_timingVars => TimingInv'
<1> SUFFICES ASSUME TimingInv, [TimingNext]_timingVars PROVE TimingInv'
  OBVIOUS
<1>1. CASE UNCHANGED timingVars
  BY <1>1 DEF timingVars, TimingInv, TimingTypeOK, Covered, Roundtrip, Pace, Left
<1>2. QED
  BY <1>1, SendKeeps, HandleKeeps, LoseKeeps, ReturnKeeps, EndKeeps, PassTimeKeeps
  DEF TimingNext

\* The rest of the lease covers the way to the next renewal, and is never nothing.
LEMMA CoveredHolds == TimingInv => HeldWhileExecuting
<1> SUFFICES ASSUME TimingInv PROVE left > 0
  BY DEF HeldWhileExecuting
<1>1. TimingTypeOK /\ Covered
  BY DEF TimingInv
<1>2. /\ Roundtrip \in Nat /\ Pace \in Nat /\ Roundtrip <= Pace /\ toTick \in Nat
      /\ Reserve(Left, Pace) \in Nat
      /\ Reserve(network.losses, Pace) \in Nat
      /\ Reserve(network.losses + 1, Pace) = Reserve(network.losses, Pace) + Pace
  BY Quantities
<1>3. left \in Nat /\ age \in 0..Roundtrip /\ LeaseDuration \in Nat
  BY <1>1, DurationsAssumption DEF TimingTypeOK, Roundtrip
<1>4. CASE request = "none"
  <2>1. \/ toTick + Reserve(Left, Pace) + Roundtrip < left
        \/ Reserve(Left, Pace) + Roundtrip < left
    BY <1>1, <1>4 DEF Covered
  <2>2. QED
    BY <1>2, <1>3, <2>1
<1>5. CASE request \in {"sent", "lost"}
  <2>1. Reserve(Left, Pace) + Roundtrip < left + age
    BY <1>1, <1>5 DEF Covered
  <2>2. QED
    BY <1>2, <1>3, <2>1
<1>6. CASE request = "renewed"
  <2>1. LeaseDuration <= left + age /\ Reserve(network.losses + 1, Pace) + Roundtrip < LeaseDuration
    BY <1>1, <1>6 DEF Covered
  <2>2. QED
    BY <1>2, <1>3, <2>1
<1>7. QED
  BY <1>1, <1>4, <1>5, <1>6 DEF Covered, TimingTypeOK

-----------------------------------------------------------------------------
(* Theorems *)

\* The lease of a claim does not run out under a worker at work ("A worker renews
\* the lease while its executor is running", SPEC.md:44), for every lease duration
\* and all circumstances that leave enough time.
THEOREM LeaseHeldThroughout ==
    ASSUME \A n \in Networks : Enough(n)
    PROVE  TimingSpec => []HeldWhileExecuting
<1>1. TimingInit => TimingInv
  BY TimingInitInv
<1>2. TimingInv /\ [TimingNext]_timingVars => TimingInv'
  BY TimingStepInv
<1>3. TimingInv => HeldWhileExecuting
  BY CoveredHolds
<1>4. QED
  BY <1>1, <1>2, <1>3, PTL DEF TimingSpec

\* With no renewal lost, a round trip may take anything the lease has over and above
\* twice that time and the longest interval, however wrong the worker's clock is.
THEOREM SkewDoesNotMatter ==
    \A n \in Network :
        n.losses = 0 /\ n.roundTrip <= MaxInterval /\ MaxInterval + 2 * n.roundTrip < LeaseDuration
            => Enough(n)
<1> SUFFICES ASSUME NEW n \in Network, n.losses = 0, n.roundTrip <= MaxInterval,
                    MaxInterval + 2 * n.roundTrip < LeaseDuration
             PROVE  Enough(n)
  OBVIOUS
<1> USE DurationsAssumption
<1>1. n.roundTrip \in Nat /\ n.skew \in Int
  BY DEF Network
<1>2. ASSUME NEW delay \in 0..n.roundTrip
      PROVE  delay + Period(Interval(LeaseDuration - delay + n.skew), n.roundTrip)
                   + n.roundTrip < LeaseDuration
  <2>1. Interval(LeaseDuration - delay + n.skew) \in MinInterval..MaxInterval
    <3>1. LeaseDuration - delay + n.skew \in Int
      BY <1>1
    <3>2. QED
      BY <3>1, IntervalWithinLimits
  <2> DEFINE i == Interval(LeaseDuration - delay + n.skew)
  <2>2. i \in Nat /\ i <= MaxInterval
    BY <2>1
  <2> HIDE DEF i
  <2>3. Period(i, n.roundTrip) \in Nat /\ Period(i, n.roundTrip) <= MaxInterval
    BY <1>1, <2>2 DEF Period
  <2>4. delay + Period(i, n.roundTrip) + n.roundTrip < LeaseDuration
    BY <1>1, <2>3
  <2>5. QED
    BY <2>4 DEF i
<1>3. QED
  <2>1. ASSUME NEW p \in Int PROVE (n.losses + 1) * p = p
    BY DEF Network
  <2>2. ASSUME NEW delay \in 0..n.roundTrip
        PROVE Period(Interval(LeaseDuration - delay + n.skew), n.roundTrip) \in Int
    <3>1. Interval(LeaseDuration - delay + n.skew) \in Int
      BY <1>1, IntervalWithinLimits
    <3>2. QED
      BY <1>1, <3>1 DEF Period
  <2>3. QED
    BY <1>2, <2>1, <2>2 DEF Enough

-----------------------------------------------------------------------------
(* The types, in any circumstances. *)

\* A renewal is lost only while one more may be.
TypeInv == TimingTypeOK /\ (request = "lost" => lost < network.losses)

LEMMA TypeInit == TimingInit => TypeInv
<1> SUFFICES ASSUME TimingInit PROVE TypeInv
  OBVIOUS
<1>1. network \in Networks /\ network.skew \in Int /\ network.roundTrip \in Nat
      /\ network.losses \in Nat
  BY NetworksAssumption DEF TimingInit, Network
<1>2. PICK delay \in 0..network.roundTrip :
          /\ left = IF delay < LeaseDuration THEN LeaseDuration - delay ELSE 0
          /\ interval = Interval(LeaseDuration - delay + network.skew)
  BY DEF TimingInit
<1>3. left \in 0..LeaseDuration
  BY <1>1, <1>2, DurationsAssumption
<1>4. LeaseDuration - delay + network.skew \in Int
  BY <1>1, DurationsAssumption
<1>5. interval \in MinInterval..MaxInterval
  BY <1>2, <1>4, IntervalWithinLimits
<1>6. toTick \in 1..interval
  BY <1>5, DurationsAssumption DEF TimingInit
<1>7. executing \in BOOLEAN /\ pending \in BOOLEAN
  BY DEF TimingInit
<1>8. /\ request = "none" /\ age \in 0..network.roundTrip
      /\ lost \in 0..network.losses
  BY <1>1 DEF TimingInit
<1> QED BY <1>1, <1>3, <1>5, <1>6, <1>7, <1>8 DEF TypeInv, TimingTypeOK

LEMMA TypeStep == TypeInv /\ [TimingNext]_timingVars => TypeInv'
<1> SUFFICES ASSUME TypeInv, [TimingNext]_timingVars PROVE TypeInv'
  OBVIOUS
<1>0. network \in Networks /\ network.roundTrip \in Nat /\ network.losses \in Nat
  BY NetworksAssumption DEF TypeInv, TimingTypeOK, Network
<1> USE DurationsAssumption DEF TypeInv, TimingTypeOK
<1>1. CASE SendRenewal
  <2>1. executing' \in BOOLEAN /\ pending' \in BOOLEAN
    BY <1>1 DEF SendRenewal
  <2>2. /\ UNCHANGED <<network, left, interval, toTick, lost>>
        /\ request' = "sent" /\ age' \in 0..network.roundTrip
    BY <1>0, <1>1 DEF SendRenewal
  <2> QED BY <2>1, <2>2
<1>2. CASE HandleRenewal
  BY <1>0, <1>2 DEF HandleRenewal
<1>3. CASE LoseRenewal
  BY <1>0, <1>3 DEF LoseRenewal
<1>4. CASE RenewalReturns
  BY <1>0, <1>4 DEF RenewalReturns
<1>5. CASE WorkEnds
  BY <1>0, <1>5 DEF WorkEnds
<1>6. CASE PassTime
  <2>1. pending' \in BOOLEAN
    BY <1>6 DEF PassTime
  <2>2. /\ left' \in 0..LeaseDuration /\ toTick' \in 1..interval
        /\ age' \in 0..network.roundTrip
    BY <1>0, <1>6 DEF PassTime
  <2> QED BY <1>6, <2>1, <2>2 DEF PassTime
<1>7. CASE UNCHANGED timingVars
  BY <1>7 DEF timingVars
<1> QED BY <1>1, <1>2, <1>3, <1>4, <1>5, <1>6, <1>7 DEF TimingNext

\* The ticker's period is positive and within its limits for as long as the loop
\* runs, whatever the clocks say and however slow the network is.
THEOREM TimingTypeCorrect == TimingSpec => []TimingTypeOK
<1>1. TypeInv => TimingTypeOK
  BY DEF TypeInv
<1> QED BY <1>1, TypeInit, TypeStep, PTL DEF TimingSpec

=============================================================================
