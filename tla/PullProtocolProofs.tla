--------------------------- MODULE PullProtocolProofs ---------------------------
(***************************************************************************)
(* Theorems about PullProtocol, for any tasks, workers, slots and bounds.  *)
(***************************************************************************)
EXTENDS PullProtocol, LeaseQueueProofs

-----------------------------------------------------------------------------
(* The inductive invariant.                                                  *)

Claims   == [kind : {"claim"}, slot : Slots, late : BOOLEAN, swept : BOOLEAN]
Renewals == [kind : {"renew"}, slot : Slots, grant : Grants]
Results  == [kind : {"result"}, slot : Slots, grant : Grants, result : Outcomes]

Awaited(m) == m \in Claims /\ m.late = FALSE

\* A slot waits for at most one claim, and only while it does nothing else.
MessagesOK ==
    /\ net \subseteq Claims \union Renewals \union Results
    /\ \A m \in net : Awaited(m) => pc[m.slot] = "claiming"
    /\ \A m, n \in net : Awaited(m) /\ Awaited(n) /\ m.slot = n.slot => m = n

Holding == {"running", "done", "submitting"}

SlotsOK ==
    /\ owner \in Owners
    /\ pc \in [Slots -> {"idle", "claiming", "stopped"} \union Holding]
    /\ grant \in [Slots -> Grants \union {NoGrant}]
    /\ result \in [Slots -> Outcomes \union {"none"}]
    /\ renewing \in [Slots -> BOOLEAN]
    /\ up \in [Workers -> BOOLEAN]
    /\ \A s \in Slots : grant[s] # NoGrant <=> pc[s] \in Holding
    /\ \A s \in Slots : renewing[s] = TRUE => pc[s] \in Holding
    /\ \A s \in Slots : pc[s] \in {"done", "submitting"} => result[s] \in Outcomes

LEMMA GrantsGrow == ASSUME issued \in Nat, issued' \in Nat, issued <= issued'
                    PROVE  Grants \subseteq Grants'
BY DEF Grants

LEMMA NoGrantNotGrant == NoGrant \notin Grants
BY NoTaskAssumption DEF NoGrant, Grants

LEMMA OwnerType == ASSUME SlotsOK, NEW s \in Slots PROVE owner[s] \in Workers
BY OwnersAssumption DEF SlotsOK

-----------------------------------------------------------------------------
(* The requests. *)

LEMMA RequestTypes ==
    ASSUME MessagesOK
    PROVE  /\ Requests("claim") = net \intersect Claims
           /\ Requests("renew") = net \intersect Renewals
           /\ Requests("result") = net \intersect Results
BY DEF MessagesOK, Requests, Claims, Renewals, Results

LEMMA GrantFields ==
    ASSUME issued \in Nat, NEW g \in Grants
    PROVE  g.task \in TaskIDs /\ g.lease \in LeaseIDs /\ g.lease \in 1..issued
BY DEF Grants, LeaseIDs

-----------------------------------------------------------------------------
(* The handlers use the queue through its operations only: every step of the *)
(* protocol is a step of the queue, or leaves it alone, or is a restart.     *)

LEMMA QueueStep ==
    ASSUME IInv, SlotsOK, MessagesOK, [PoolNext]_poolVars
    PROVE  [Next]_vars \/ CoordinatorRestart
<1>0. issued \in Nat /\ \A s \in Slots : owner[s] \in Workers
  BY OwnerType DEF IInv, TypeOK
<1>1. ASSUME NEW t \in TaskIDs, Submit(t) PROVE Next
  BY <1>1 DEF Submit, Next
<1>2. ASSUME NEW m \in Requests("claim"), HandleClaimSweep(m) PROVE Next
  BY <1>2 DEF HandleClaimSweep, Next
<1>3. ASSUME NEW m \in Requests("claim"), NEW d \in BOOLEAN, HandleClaim(m, d) PROVE Next
  <2>1. owner[m.slot] \in Workers
    BY <1>0, RequestTypes DEF Claims
  <2>2. Claim(owner[m.slot]) \/ ClaimNothing(owner[m.slot])
    BY <1>3 DEF HandleClaim
  <2> QED BY <2>1, <2>2 DEF Next
<1>4. ASSUME NEW m \in Requests("renew"), NEW d \in BOOLEAN, HandleRenew(m, d) PROVE Next
  <2>1. /\ owner[m.slot] \in Workers /\ m.grant.task \in TaskIDs
        /\ m.grant.lease \in LeaseIDs
    BY <1>0, RequestTypes, GrantFields DEF Renewals
  <2>2. Renew(m.grant.task, m.grant.lease, owner[m.slot])
    BY <1>4 DEF HandleRenew
  <2> QED BY <2>1, <2>2 DEF Next
<1>5. ASSUME NEW m \in Requests("result"), NEW d \in BOOLEAN, HandleResult(m, d)
      PROVE  [Next]_vars
  <2>1. /\ owner[m.slot] \in Workers /\ m.grant.task \in TaskIDs
        /\ m.grant.lease \in LeaseIDs
    BY <1>0, RequestTypes, GrantFields DEF Results
  <2>2. CASE m.result = "oversized"
    BY <1>5, <2>2 DEF HandleResult
  <2>3. CASE m.result # "oversized"
    <3> DEFINE ok == m.result = "output"
    <3>1. Complete(m.grant.task, m.grant.lease, owner[m.slot], ok) /\ ok \in BOOLEAN
      BY <1>5, <2>3 DEF HandleResult
    <3> HIDE DEF ok
    <3>2. \E t \in TaskIDs, l \in LeaseIDs, w \in Workers, b \in BOOLEAN :
             Complete(t, l, w, b)
      BY <2>1, <3>1, Zenon
    <3> QED BY <3>2 DEF Next
  <2> QED BY <2>2, <2>3
<1>6. CASE HandleRead
  BY <1>6 DEF HandleRead, Next
<1>7. CASE PassTime
  BY <1>7 DEF PassTime, Next
<1>8. ASSUME NEW m \in net, Lose(m) PROVE UNCHANGED vars
  BY <1>8 DEF Lose
<1>9. ASSUME NEW s \in Slots, SendClaim(s) \/ ClaimFails(s) \/ SendRenew(s)
      PROVE  UNCHANGED vars
  BY <1>9 DEF SendClaim, ClaimFails, SendRenew
<1>10. ASSUME NEW s \in Slots, NEW r \in Outcomes, FinishExecution(s, r)
       PROVE  UNCHANGED vars
  BY <1>10 DEF FinishExecution
<1>11. ASSUME NEW s \in Slots, SendResult(s) \/ SubmitFails(s) PROVE UNCHANGED vars
  BY <1>11 DEF SendResult, SubmitFails
<1>12. ASSUME NEW w \in Workers, Stop(w) \/ Crash(w) \/ Restart(w) PROVE UNCHANGED vars
  BY <1>12 DEF Stop, Crash, Cancel, Restart
<1>13. CASE UNCHANGED poolVars
  BY <1>13 DEF poolVars, vars
<1> QED BY <1>1, <1>2, <1>3, <1>4, <1>5, <1>6, <1>7, <1>8, <1>9, <1>10, <1>11, <1>12,
           <1>13 DEF PoolNext

\* A coordinator that restarts has an empty queue, and hands out no lease twice.
LEMMA RestartInv == ASSUME IInv, CoordinatorRestart PROVE IInv'
BY ForgottenInv DEF CoordinatorRestart

LEMMA QueueInv ==
    ASSUME IInv, SlotsOK, MessagesOK, [PoolNext]_poolVars
    PROVE  IInv'
BY QueueStep, NextInv, RestartInv

\* No lease ID is taken back.
LEMMA IssuedGrows ==
    ASSUME IInv, SlotsOK, MessagesOK, [PoolNext]_poolVars
    PROVE  issued \in Nat /\ issued' \in Nat /\ issued <= issued' /\ Grants \subseteq Grants'
<1>1. issued \in Nat
  BY DEF IInv, TypeOK
<1>2. ASSUME [Next]_vars PROVE issued' \in {issued, issued + 1}
  BY <1>2 DEF Next, vars, Enqueue, Claim, ClaimNothing, Renew, Complete, RequeueExpired, Tick
<1>3. issued' \in {issued, issued + 1}
  BY <1>2, QueueStep DEF CoordinatorRestart
<1> QED BY <1>1, <1>3, GrantsGrow


-----------------------------------------------------------------------------
(* The slots. *)

LEMMA SlotsKept ==
    ASSUME SlotsOK, Grants \subseteq Grants', UNCHANGED <<owner, slotVars, up>>
    PROVE  SlotsOK'
BY DEF SlotsOK, slotVars

LEMMA SlotsRelease ==
    ASSUME SlotsOK, Grants \subseteq Grants', NEW s \in Slots,
           NEW next \in {"idle", "stopped"}, Release(s, next), UNCHANGED <<owner, up>>
    PROVE  SlotsOK'
BY DEF SlotsOK, Release, Holding

\* A claim that is answered gives its slot the task, under a lease of its own.
LEMMA ClaimGrants ==
    ASSUME IInv, NEW w \in Workers, Claim(w), NEW t \in TaskIDs,
           tasks'[t].lease.id = issued'
    PROVE  /\ issued' = issued + 1 /\ issued \in Nat
           /\ tasks'[t].lease.workerID = w
           /\ [task |-> t, lease |-> issued'] \in Grants'
<1>1. PICK h \in TaskIDs : /\ Swept[h].state = "queued"
                           /\ tasks' = [Swept EXCEPT ![h] = Granted(Swept[h], w)]
  BY ClaimEffect
<1>2. issued' = issued + 1 /\ issued \in Nat
  BY DEF IInv, TypeOK, Claim
<1>3. t = h
  <2>1. SUFFICES ASSUME t # h PROVE FALSE
    OBVIOUS
  <2>2. tasks'[t] = Swept[t]
    BY <1>1, <2>1 DEF Swept
  <2>3. Swept[t] \in Task /\ TaskOK(Swept[t], issued)
    BY SweptOK DEF TableOK
  <2>4. Swept[t].lease.id \in 0..issued
    BY <1>2, <2>3 DEF TaskOK, Task, Lease, NoLease
  <2> QED BY <1>2, <2>2, <2>4
<1>4. tasks'[t] = Granted(Swept[t], w) /\ Swept[t] \in Task
  BY <1>1, <1>3, SweptOK DEF Swept, TableOK
<1>5. tasks'[t].lease.workerID = w
  BY <1>4 DEF Granted, Task
<1>6. [task |-> t, lease |-> issued'] \in Grants'
  BY <1>2 DEF Grants
<1> QED BY <1>2, <1>5, <1>6

\* Whatever HandleClaim does, it does it for a slot that waits for the answer.
LEMMA ClaimedSlots ==
    ASSUME IInv, SlotsOK, MessagesOK, Grants \subseteq Grants', NEW m \in Requests("claim"),
           NEW d \in BOOLEAN, HandleClaim(m, d)
    PROVE  SlotsOK'
<1>1. m \in net /\ m \in Claims /\ m.slot \in Slots /\ owner[m.slot] \in Workers
  BY RequestTypes, OwnerType DEF Claims
<1>2. owner' = owner /\ up' = up
  BY DEF HandleClaim
<1>3. CASE d = FALSE
  <2>1. UNCHANGED slotVars
    BY <1>3 DEF HandleClaim, slotVars
  <2> QED BY <1>2, <2>1, SlotsKept
<1>4. CASE d = TRUE
  <2>1. pc[m.slot] = "claiming"
    BY <1>1, <1>4 DEF HandleClaim, MessagesOK, Awaited, Claims
  <2>2. CASE pc' = [pc EXCEPT ![m.slot] = "idle"] /\ UNCHANGED <<grant, result, renewing>>
    BY <1>1, <1>2, <2>1, <2>2 DEF SlotsOK, Holding
  <2>3. CASE /\ Claim(owner[m.slot])
             /\ \E t \in TaskIDs :
                    /\ tasks'[t].lease.id = issued'
                    /\ pc' = [pc EXCEPT ![m.slot] = "running"]
                    /\ grant' = [grant EXCEPT ![m.slot] = [task |-> t, lease |-> issued']]
                    /\ renewing' = [renewing EXCEPT ![m.slot] = TRUE]
                    /\ UNCHANGED result
    <3>1. PICK t \in TaskIDs :
                    /\ tasks'[t].lease.id = issued'
                    /\ pc' = [pc EXCEPT ![m.slot] = "running"]
                    /\ grant' = [grant EXCEPT ![m.slot] = [task |-> t, lease |-> issued']]
                    /\ renewing' = [renewing EXCEPT ![m.slot] = TRUE]
                    /\ UNCHANGED result
      BY <2>3
    <3> DEFINE g == [task |-> t, lease |-> issued']
    <3>2. g \in Grants' /\ g # NoGrant
      BY <1>1, <2>3, <3>1, ClaimGrants, NoTaskAssumption DEF NoGrant
    <3>3. grant' = [grant EXCEPT ![m.slot] = g]
      BY <3>1
    <3> HIDE DEF g
    <3> QED BY <1>1, <1>2, <2>1, <3>1, <3>2, <3>3 DEF SlotsOK, Holding
  <2> QED BY <1>4, <2>2, <2>3 DEF HandleClaim
<1> QED BY <1>3, <1>4

LEMMA CancelledSlots ==
    ASSUME SlotsOK, Grants \subseteq Grants', NEW w \in Workers,
           NEW S \in SUBSET SlotsOf(w), Cancel(w, S)
    PROVE  SlotsOK'
<1>1. /\ pc' = [s \in Slots |-> IF s \in S THEN "stopped" ELSE pc[s]]
      /\ grant' = [s \in Slots |-> IF s \in S THEN NoGrant ELSE grant[s]]
      /\ result' = [s \in Slots |-> IF s \in S THEN "none" ELSE result[s]]
      /\ up' = [up EXCEPT ![w] = FALSE] /\ owner' = owner
  BY DEF Cancel
<1>2. renewing' \in [Slots -> BOOLEAN]
  BY Zenon DEF Cancel
<1>3. \A s \in Slots : renewing'[s] = TRUE => renewing[s] = TRUE /\ s \notin S
  <2>1. \A s \in Slots : renewing'[s] = TRUE => renewing[s] = TRUE /\ owner[s] # w
    BY DEF Cancel, SlotsOK
  <2> QED BY <2>1 DEF SlotsOf
<1>4. S \subseteq Slots
  BY DEF SlotsOf
<1> QED BY <1>1, <1>2, <1>3, <1>4 DEF SlotsOK, Holding

LEMMA SlotsStep ==
    ASSUME IInv, SlotsOK, MessagesOK, [PoolNext]_poolVars
    PROVE  SlotsOK'
<1>0. Grants \subseteq Grants'
  BY IssuedGrows
<1>1. ASSUME NEW t \in TaskIDs, Submit(t) PROVE SlotsOK'
  BY <1>0, <1>1, SlotsKept DEF Submit
<1>2. ASSUME NEW m \in Requests("claim"), HandleClaimSweep(m) PROVE SlotsOK'
  BY <1>0, <1>2, SlotsKept DEF HandleClaimSweep
<1>3. ASSUME NEW m \in Requests("claim"), NEW d \in BOOLEAN, HandleClaim(m, d) PROVE SlotsOK'
  BY <1>0, <1>3, ClaimedSlots
<1>4. ASSUME NEW m \in Requests("renew"), NEW d \in BOOLEAN, HandleRenew(m, d) PROVE SlotsOK'
  <2>1. m.slot \in Slots
    BY RequestTypes DEF Renewals
  <2>2. UNCHANGED <<owner, pc, grant, result, up>>
    BY <1>4 DEF HandleRenew
  <2>3. renewing' \in {renewing, [renewing EXCEPT ![m.slot] = FALSE]}
    BY <1>4 DEF HandleRenew
  <2>4. /\ renewing' \in [Slots -> BOOLEAN]
        /\ \A s \in Slots : renewing'[s] = TRUE => renewing[s] = TRUE
    BY <2>1, <2>3 DEF SlotsOK
  <2> QED BY <1>0, <2>2, <2>4 DEF SlotsOK
<1>5. ASSUME NEW m \in Requests("result"), NEW d \in BOOLEAN, HandleResult(m, d)
      PROVE  SlotsOK'
  <2>1. m.slot \in Slots
    BY RequestTypes DEF Results
  <2>2. UNCHANGED <<owner, up>> /\ (Release(m.slot, "idle") \/ UNCHANGED slotVars)
    BY <1>5 DEF HandleResult
  <2> QED BY <1>0, <2>1, <2>2, SlotsRelease, SlotsKept
<1>6. CASE HandleRead
  BY <1>0, <1>6, SlotsKept DEF HandleRead
<1>7. CASE PassTime
  BY <1>0, <1>7, SlotsKept DEF PassTime
<1>8. ASSUME NEW m \in net, Lose(m) PROVE SlotsOK'
  BY <1>0, <1>8, SlotsKept DEF Lose
<1>9. CASE CoordinatorRestart
  BY <1>0, <1>9, SlotsKept DEF CoordinatorRestart
<1>10. ASSUME NEW s \in Slots, SendClaim(s) PROVE SlotsOK'
  BY <1>0, <1>10 DEF SendClaim, SlotsOK, Holding
<1>11. ASSUME NEW s \in Slots, ClaimFails(s) PROVE SlotsOK'
  BY <1>0, <1>11 DEF ClaimFails, SlotsOK, Holding
<1>12. ASSUME NEW s \in Slots, SendRenew(s) PROVE SlotsOK'
  BY <1>0, <1>12, SlotsKept DEF SendRenew
<1>13. ASSUME NEW s \in Slots, NEW r \in Outcomes, FinishExecution(s, r) PROVE SlotsOK'
  <2>1. CASE Release(s, "stopped")
    BY <1>0, <1>13, <2>1, SlotsRelease DEF FinishExecution
  <2>2. CASE /\ pc' = [pc EXCEPT ![s] = "done"]
             /\ result' = [result EXCEPT ![s] = r]
             /\ UNCHANGED <<grant, renewing>>
    BY <1>0, <1>13, <2>2 DEF FinishExecution, SlotsOK, Holding
  <2> QED BY <1>13, <2>1, <2>2 DEF FinishExecution
<1>14. ASSUME NEW s \in Slots, SendResult(s) PROVE SlotsOK'
  BY <1>0, <1>14 DEF SendResult, SlotsOK, Holding
<1>15. ASSUME NEW s \in Slots, SubmitFails(s) PROVE SlotsOK'
  BY <1>0, <1>15 DEF SubmitFails, SlotsOK, Holding
<1>16. ASSUME NEW w \in Workers, Stop(w) PROVE SlotsOK'
  BY <1>0, <1>16, CancelledSlots DEF Stop, SlotsOf
<1>17. ASSUME NEW w \in Workers, Crash(w) PROVE SlotsOK'
  BY <1>0, <1>17, CancelledSlots DEF Crash, SlotsOf
<1>18. ASSUME NEW w \in Workers, Restart(w) PROVE SlotsOK'
  BY <1>0, <1>18 DEF Restart, SlotsOf, SlotsOK, Holding
<1>19. CASE UNCHANGED poolVars
  BY <1>0, <1>19, SlotsKept DEF poolVars, slotVars
<1> QED BY <1>1, <1>2, <1>3, <1>4, <1>5, <1>6, <1>7, <1>8, <1>9, <1>10, <1>11, <1>12,
           <1>13, <1>14, <1>15, <1>16, <1>17, <1>18, <1>19 DEF PoolNext

-----------------------------------------------------------------------------
(* The messages. *)

Messages == Claims \union Renewals \union Results

\* Requests that were on their way before, and slots that wait as they did.
LEMMA FewerMessages ==
    ASSUME MessagesOK, Grants \subseteq Grants', net' \subseteq net,
           \A m \in net' : Awaited(m) => pc'[m.slot] = pc[m.slot]
    PROVE  MessagesOK'
<1>1. Messages \subseteq Messages'
  BY DEF Messages, Claims, Renewals, Results
<1>2. net \subseteq Messages
  BY DEF MessagesOK, Messages
<1>3. net' \subseteq Messages'
  BY <1>1, <1>2
<1>4. \A m : Awaited(m)' <=> Awaited(m)
  BY DEF Awaited, Claims
<1>5. \A m \in net' : Awaited(m) => pc'[m.slot] = "claiming"
  BY DEF MessagesOK
<1>6. \A m, n \in net' : Awaited(m) /\ Awaited(n) /\ m.slot = n.slot => m = n
  BY DEF MessagesOK
<1> QED BY <1>3, <1>4, <1>5, <1>6 DEF MessagesOK, Messages

\* One request more, which no slot waits for but perhaps its own.
LEMMA OneMoreMessage ==
    ASSUME MessagesOK, Grants \subseteq Grants', NEW r \in Messages, net' = net \union {r},
           \A m \in net' : Awaited(m) => pc'[m.slot] = "claiming",
           Awaited(r) => pc[r.slot] # "claiming"
    PROVE  MessagesOK'
<1>1. Messages \subseteq Messages'
  BY DEF Messages, Claims, Renewals, Results
<1>2. net \subseteq Messages
  BY DEF MessagesOK, Messages
<1>3. net' \subseteq Messages'
  BY <1>1, <1>2
<1>4. \A m : Awaited(m)' <=> Awaited(m)
  BY DEF Awaited, Claims
<1>5. \A m \in net : Awaited(r) /\ Awaited(m) => m.slot # r.slot
  BY DEF MessagesOK
<1>6. \A m, n \in net' : Awaited(m) /\ Awaited(n) /\ m.slot = n.slot => m = n
  BY <1>5 DEF MessagesOK
<1> QED BY <1>3, <1>4, <1>6 DEF MessagesOK, Messages

\* Claims of the slots of S are no longer waited for.
LateFor(S) == {IF m.kind = "claim" /\ m.slot \in S THEN [m EXCEPT !.late = TRUE] ELSE m :
                 m \in net}

LEMMA LateMessages ==
    ASSUME MessagesOK, Grants \subseteq Grants', NEW S, net' = LateFor(S),
           \A s \in Slots \ S : pc'[s] = pc[s]
    PROVE  MessagesOK'
<1>1. Messages \subseteq Messages'
  BY DEF Messages, Claims, Renewals, Results
<1>2. net \subseteq Messages
  BY DEF MessagesOK, Messages
<1>3. \A m \in Claims : [m EXCEPT !.late = TRUE] \in Claims
                        /\ [m EXCEPT !.late = TRUE].late = TRUE
  BY DEF Claims
<1>4. \A m \in Messages : m.kind = "claim" <=> m \in Claims
  BY DEF Messages, Claims, Renewals, Results
<1>5. net' \subseteq Messages
  <2>1. \A m \in net : (IF m.kind = "claim" /\ m.slot \in S THEN [m EXCEPT !.late = TRUE]
                        ELSE m) \in Messages
    BY <1>2, <1>3, <1>4 DEF Messages
  <2> QED BY <2>1 DEF LateFor
<1>6. \A m \in net' : Awaited(m) => m \in net /\ m.slot \in Slots \ S
  <2>1. TRUE # FALSE
    OBVIOUS
  <2>2. \A m \in net : m.kind = "claim" /\ m.slot \in S
                         => ~Awaited([m EXCEPT !.late = TRUE])
    BY <1>2, <1>3, <1>4, <2>1 DEF Awaited
  <2>3. \A m \in net : Awaited(m) => m.kind = "claim" /\ m.slot \in Slots
    BY DEF Awaited, Claims
  <2> QED BY <2>2, <2>3 DEF LateFor
<1>7. \A m : Awaited(m)' <=> Awaited(m)
  BY DEF Awaited, Claims
<1>8. \A m \in net' : Awaited(m) => pc'[m.slot] = "claiming"
  BY <1>6 DEF MessagesOK
<1>9. \A m, n \in net' : Awaited(m) /\ Awaited(n) /\ m.slot = n.slot => m = n
  BY <1>6 DEF MessagesOK
<1> QED BY <1>1, <1>5, <1>7, <1>8, <1>9 DEF MessagesOK, Messages

\* The claim handler is past its sweep; the slot waits on.
LEMMA SweptMessage ==
    ASSUME MessagesOK, Grants \subseteq Grants', NEW m \in net, m \in Claims,
           net' = (net \ {m}) \union {[m EXCEPT !.swept = TRUE]}, pc' = pc
    PROVE  MessagesOK'
<1> DEFINE r == [m EXCEPT !.swept = TRUE]
<1>1. r \in Claims /\ r.slot = m.slot /\ r.late = m.late
  BY DEF Claims
<1>2. net' = (net \ {m}) \union {r}
  OBVIOUS
<1> HIDE DEF r
<1>3. Messages \subseteq Messages' /\ r \in Messages
  BY <1>1 DEF Messages, Claims, Renewals, Results
<1>4. net' \subseteq Messages'
  BY <1>2, <1>3 DEF MessagesOK, Messages
<1>5. Awaited(r) <=> Awaited(m)
  BY <1>1 DEF Awaited
<1>6. \A n \in net \ {m} : Awaited(r) /\ Awaited(n) => n.slot # r.slot
  BY <1>1, <1>5 DEF MessagesOK
<1>7. \A n : Awaited(n)' <=> Awaited(n)
  BY DEF Awaited, Claims
<1>8. \A n \in net' : Awaited(n) => pc'[n.slot] = "claiming"
  BY <1>1, <1>2, <1>5 DEF MessagesOK
<1>9. \A k, n \in net' : Awaited(k) /\ Awaited(n) /\ k.slot = n.slot => k = n
  BY <1>2, <1>6 DEF MessagesOK
<1> QED BY <1>4, <1>7, <1>8, <1>9 DEF MessagesOK, Messages

LEMMA MessagesStep ==
    ASSUME IInv, SlotsOK, MessagesOK, [PoolNext]_poolVars
    PROVE  MessagesOK'
<1>0. Grants \subseteq Grants'
  BY IssuedGrows
<1>1. ASSUME NEW t \in TaskIDs, Submit(t) PROVE MessagesOK'
  BY <1>0, <1>1, FewerMessages DEF Submit, slotVars
<1>2. ASSUME NEW m \in Requests("claim"), HandleClaimSweep(m) PROVE MessagesOK'
  BY <1>0, <1>2, SweptMessage, RequestTypes DEF HandleClaimSweep, slotVars
<1>3. ASSUME NEW m \in Requests("claim"), NEW d \in BOOLEAN, HandleClaim(m, d)
      PROVE  MessagesOK'
  <2>1. m \in net /\ net' = net \ {m} /\ (d = TRUE => Awaited(m))
    BY <1>3, RequestTypes DEF HandleClaim, Awaited, Claims
  <2>2. (d = TRUE) \/ pc' = pc
    BY <1>3 DEF HandleClaim, slotVars
  <2>3. m.slot \in Slots /\ pc \in [Slots -> {"idle", "claiming", "stopped"} \union Holding]
    BY RequestTypes DEF Claims, SlotsOK
  <2>4. \A s \in Slots \ {m.slot} : pc'[s] = pc[s]
    BY <1>3, <2>3 DEF HandleClaim, slotVars
  <2>5. \A n \in net' : Awaited(n) => pc'[n.slot] = pc[n.slot]
    BY <2>1, <2>2, <2>4 DEF MessagesOK, Awaited, Claims
  <2> QED BY <1>0, <2>1, <2>5, FewerMessages
<1>4. ASSUME NEW m \in Requests("renew"), NEW d \in BOOLEAN, HandleRenew(m, d)
      PROVE  MessagesOK'
  BY <1>0, <1>4, FewerMessages DEF HandleRenew
<1>5. ASSUME NEW m \in Requests("result"), NEW d \in BOOLEAN, HandleResult(m, d)
      PROVE  MessagesOK'
  <2>1. m \in net /\ net' = net \ {m}
    BY <1>5, RequestTypes DEF HandleResult
  <2>2. CASE UNCHANGED slotVars
    BY <1>0, <2>1, <2>2, FewerMessages DEF slotVars
  <2>3. CASE d = TRUE /\ Release(m.slot, "idle")
    <3>1. pc[m.slot] = "submitting"
      BY <1>5, <2>3, RequestTypes DEF HandleResult, Awaits, Results
    <3>2. \A n \in net : Awaited(n) => n.slot \in Slots /\ n.slot # m.slot
      BY <3>1 DEF MessagesOK, Awaited, Claims
    <3>3. \A s \in Slots \ {m.slot} : pc'[s] = pc[s]
      BY <2>3 DEF Release, SlotsOK
    <3> QED BY <1>0, <2>1, <3>2, <3>3, FewerMessages
  <2> QED BY <1>5, <2>2, <2>3 DEF HandleResult
<1>6. CASE HandleRead
  BY <1>0, <1>6, FewerMessages DEF HandleRead, slotVars
<1>7. CASE PassTime
  BY <1>0, <1>7, FewerMessages DEF PassTime, slotVars
<1>8. ASSUME NEW m \in net, Lose(m) PROVE MessagesOK'
  BY <1>0, <1>8, FewerMessages DEF Lose, slotVars
<1>9. CASE CoordinatorRestart
  BY <1>0, <1>9, FewerMessages DEF CoordinatorRestart, slotVars
<1>10. ASSUME NEW s \in Slots, SendClaim(s) PROVE MessagesOK'
  <2> DEFINE r == ClaimRequest(s)
  <2>1. r \in Messages /\ r.slot = s /\ net' = net \union {r}
    BY <1>10 DEF SendClaim, Send, ClaimRequest, Messages, Claims
  <2> HIDE DEF r
  <2>2. pc[s] = "idle" /\ pc' = [pc EXCEPT ![s] = "claiming"]
    BY <1>10 DEF SendClaim
  <2>3. \A m \in net : Awaited(m) => m.slot \in Slots \ {s} /\ pc[m.slot] = "claiming"
    BY <2>2 DEF MessagesOK, Awaited, Claims
  <2>4. \A m \in net' : Awaited(m) => pc'[m.slot] = "claiming"
    BY <2>1, <2>2, <2>3 DEF SlotsOK
  <2> QED BY <1>0, <2>1, <2>2, <2>4, OneMoreMessage
<1>11. ASSUME NEW s \in Slots, ClaimFails(s) PROVE MessagesOK'
  <2>1. net' = LateFor({s})
    BY <1>11 DEF ClaimFails, Overdue, LateFor
  <2>2. \A x \in Slots \ {s} : pc'[x] = pc[x]
    BY <1>11 DEF ClaimFails, SlotsOK
  <2> QED BY <1>0, <2>1, <2>2, LateMessages
<1>12. ASSUME NEW s \in Slots, SendRenew(s) PROVE MessagesOK'
  <2> DEFINE r == RenewRequest(s)
  <2>0. grant[s] \in Grants
    BY <1>12 DEF SendRenew, SlotsOK
  <2>1. r \in Messages /\ r \notin Claims /\ net' = net \union {r}
    BY <1>12, <2>0 DEF SendRenew, Send, RenewRequest, Messages, Renewals, Claims
  <2> HIDE DEF r
  <2>2. pc' = pc /\ ~Awaited(r)
    BY <1>12, <2>1 DEF SendRenew, slotVars, Awaited
  <2> QED BY <1>0, <2>1, <2>2, OneMoreMessage DEF MessagesOK
<1>13. ASSUME NEW s \in Slots, NEW r \in Outcomes, FinishExecution(s, r) PROVE MessagesOK'
  <2>1. pc[s] = "running" /\ net' = net
    BY <1>13 DEF FinishExecution
  <2>2. \A x \in Slots \ {s} : pc'[x] = pc[x]
    BY <1>13 DEF FinishExecution, Release, SlotsOK
  <2>3. \A m \in net : Awaited(m) => m.slot \in Slots \ {s}
    BY <2>1 DEF MessagesOK, Awaited, Claims
  <2> QED BY <1>0, <2>1, <2>2, <2>3, FewerMessages
<1>14. ASSUME NEW s \in Slots, SendResult(s) PROVE MessagesOK'
  <2> DEFINE r == ResultRequest(s)
  <2>1. pc[s] = "done" /\ pc' = [pc EXCEPT ![s] = "submitting"]
    BY <1>14 DEF SendResult
  <2>2. grant[s] \in Grants /\ result[s] \in Outcomes
    BY <2>1 DEF SlotsOK, Holding
  <2>3. r \in Messages /\ r \notin Claims /\ net' = net \union {r}
    BY <1>14, <2>2 DEF SendResult, Send, ResultRequest, Messages, Results, Claims
  <2> HIDE DEF r
  <2>4. ~Awaited(r)
    BY <2>3 DEF Awaited
  <2>5. \A m \in net : Awaited(m) => m.slot \in Slots \ {s} /\ pc[m.slot] = "claiming"
    BY <2>1 DEF MessagesOK, Awaited, Claims
  <2>6. \A m \in net' : Awaited(m) => pc'[m.slot] = "claiming"
    BY <2>1, <2>3, <2>4, <2>5 DEF SlotsOK
  <2> QED BY <1>0, <2>3, <2>4, <2>6, OneMoreMessage
<1>15. ASSUME NEW s \in Slots, SubmitFails(s) PROVE MessagesOK'
  <2>1. pc[s] = "submitting" /\ net' = net /\ pc' = [pc EXCEPT ![s] = "done"]
    BY <1>15 DEF SubmitFails
  <2>2. \A m \in net : Awaited(m) => m.slot \in Slots \ {s}
    BY <2>1 DEF MessagesOK, Awaited, Claims
  <2>3. \A x \in Slots \ {s} : pc'[x] = pc[x]
    BY <2>1 DEF SlotsOK
  <2> QED BY <1>0, <2>1, <2>2, <2>3, FewerMessages
<1>16. ASSUME NEW w \in Workers, NEW S \in SUBSET SlotsOf(w), Cancel(w, S) PROVE MessagesOK'
  <2>1. net' = LateFor(SlotsOf(w))
    <3>1. \A m \in net : m.slot \in Slots
      BY DEF MessagesOK, Claims, Renewals, Results
    <3>2. \A m \in net : owner[m.slot] = w <=> m.slot \in SlotsOf(w)
      BY <3>1 DEF SlotsOf
    <3> QED BY <1>16, <3>2 DEF Cancel, AllOverdue, LateFor
  <2>2. \A x \in Slots \ SlotsOf(w) : pc'[x] = pc[x]
    BY <1>16 DEF Cancel
  <2> QED BY <1>0, <2>1, <2>2, LateMessages
<1>17. ASSUME NEW w \in Workers, Stop(w) \/ Crash(w) PROVE MessagesOK'
  BY <1>16, <1>17 DEF Stop, Crash
<1>18. ASSUME NEW w \in Workers, Restart(w) PROVE MessagesOK'
  <2>1. net' = net /\ \A s \in SlotsOf(w) : pc[s] = "stopped"
    BY <1>18 DEF Restart
  <2>2. \A s \in Slots \ SlotsOf(w) : pc'[s] = pc[s]
    BY <1>18 DEF Restart, SlotsOf
  <2>3. \A m \in net : Awaited(m) => m.slot \in Slots \ SlotsOf(w)
    BY <2>1 DEF MessagesOK, Awaited, Claims
  <2> QED BY <1>0, <2>1, <2>2, <2>3, FewerMessages
<1>19. CASE UNCHANGED poolVars
  BY <1>0, <1>19, FewerMessages DEF poolVars
<1> QED BY <1>1, <1>2, <1>3, <1>4, <1>5, <1>6, <1>7, <1>8, <1>9, <1>10, <1>11, <1>12,
           <1>13, <1>14, <1>15, <1>17, <1>18, <1>19 DEF PoolNext

-----------------------------------------------------------------------------
(* What was executed.  A slot submits, and the network carries, only results *)
(* that the slot's executor returned for the grant they name.                *)

Produced(g, r) == [grant |-> g, result |-> r] \in finished

ExecutedOK ==
    /\ started \subseteq Grants
    /\ finished \subseteq [grant : Grants, result : Outcomes]
    /\ \A s \in Slots : renewing[s] = TRUE => grant[s] \in started
    /\ \A s \in Slots : pc[s] \in {"done", "submitting"} => Produced(grant[s], result[s])
    /\ \A m \in net : m.kind = "result" => Produced(m.grant, m.result)

\* The slots as they were, and no result sent.
LEMMA ExecutedKept ==
    ASSUME ExecutedOK, Grants \subseteq Grants', UNCHANGED <<slotVars, started, finished>>,
           \A m \in net' : m.kind = "result" => m \in net
    PROVE  ExecutedOK'
<1>1. [grant : Grants, result : Outcomes] \subseteq [grant : Grants', result : Outcomes]
  OBVIOUS
<1>2. \A g, r : Produced(g, r)' <=> Produced(g, r)
  BY DEF Produced
<1> QED BY <1>1, <1>2 DEF ExecutedOK, slotVars

\* Slots that go on as they were, or end their work.
LEMMA ExecutedEnds ==
    ASSUME ExecutedOK, SlotsOK, Grants \subseteq Grants', started' = started,
           finished \subseteq finished',
           finished' \subseteq [grant : Grants, result : Outcomes],
           net' \subseteq net,
           \A s \in Slots :
              \/ /\ grant'[s] = grant[s] /\ result'[s] = result[s]
                 /\ renewing'[s] = TRUE => renewing[s] = TRUE
                 /\ pc'[s] \in {"done", "submitting"} => pc[s] \in {"done", "submitting"}
              \/ renewing'[s] = FALSE /\ pc'[s] \notin {"done", "submitting"}
    PROVE  ExecutedOK'
<1>1. [grant : Grants, result : Outcomes] \subseteq [grant : Grants', result : Outcomes]
  OBVIOUS
<1>2. \A g, r : Produced(g, r) => Produced(g, r)'
  BY DEF Produced
<1>3. \A m \in net' : m.kind = "result" => Produced(m.grant, m.result)'
  BY <1>2 DEF ExecutedOK
<1>4. \A s \in Slots : renewing'[s] = TRUE => grant'[s] \in started
  BY DEF ExecutedOK
<1>5. \A s \in Slots :
         pc'[s] \in {"done", "submitting"} => Produced(grant'[s], result'[s])
  BY DEF ExecutedOK
<1>6. \A s \in Slots :
         pc'[s] \in {"done", "submitting"} => Produced(grant[s], result[s])'
  BY <1>2, <1>5 DEF Produced
<1> QED BY <1>1, <1>3, <1>4, <1>6 DEF ExecutedOK

LEMMA ExecutedClaim ==
    ASSUME IInv, SlotsOK, MessagesOK, ExecutedOK, Grants \subseteq Grants',
           NEW m \in Requests("claim"), NEW d \in BOOLEAN, HandleClaim(m, d)
    PROVE  ExecutedOK'
<1>1. m.slot \in Slots /\ owner[m.slot] \in Workers
  BY RequestTypes, OwnerType DEF Claims
<1>2. net' \subseteq net /\ finished' = finished
  BY DEF HandleClaim
<1>3. CASE UNCHANGED <<slotVars, started>>
  BY <1>2, <1>3, ExecutedKept
<1>4. CASE /\ pc' = [pc EXCEPT ![m.slot] = "idle"]
           /\ UNCHANGED <<grant, result, renewing, started>>
  <2>1. finished' \subseteq [grant : Grants, result : Outcomes]
    BY <1>2 DEF ExecutedOK
  <2>2. \A s \in Slots : pc'[s] \in {"done", "submitting"} => pc[s] \in {"done", "submitting"}
    BY <1>1, <1>4 DEF SlotsOK
  <2> QED BY <1>2, <1>4, <2>1, <2>2, ExecutedEnds
<1>5. CASE /\ Claim(owner[m.slot])
           /\ \E t \in TaskIDs :
                 /\ tasks'[t].lease.id = issued'
                 /\ pc' = [pc EXCEPT ![m.slot] = "running"]
                 /\ grant' = [grant EXCEPT ![m.slot] = [task |-> t, lease |-> issued']]
                 /\ renewing' = [renewing EXCEPT ![m.slot] = TRUE]
                 /\ started' = started \union {grant'[m.slot]}
                 /\ UNCHANGED result
  <2>1. PICK t \in TaskIDs :
                 /\ tasks'[t].lease.id = issued'
                 /\ pc' = [pc EXCEPT ![m.slot] = "running"]
                 /\ grant' = [grant EXCEPT ![m.slot] = [task |-> t, lease |-> issued']]
                 /\ renewing' = [renewing EXCEPT ![m.slot] = TRUE]
                 /\ started' = started \union {grant'[m.slot]}
                 /\ UNCHANGED result
    BY <1>5
  <2> DEFINE g == [task |-> t, lease |-> issued']
  <2>2. g \in Grants'
    BY <1>1, <1>5, <2>1, ClaimGrants
  <2>3. grant' = [grant EXCEPT ![m.slot] = g]
    BY <2>1
  <2> HIDE DEF g
  <2>4. grant'[m.slot] = g /\ started' = started \union {g}
    BY <1>1, <2>1, <2>3 DEF SlotsOK
  <2>5. \A s \in Slots \ {m.slot} : /\ grant'[s] = grant[s] /\ renewing'[s] = renewing[s]
                                    /\ pc'[s] = pc[s] /\ result'[s] = result[s]
    BY <2>1, <2>3 DEF SlotsOK
  <2>6. pc'[m.slot] = "running"
    BY <1>1, <2>1 DEF SlotsOK
  <2>7. \A x, r : Produced(x, r)' <=> Produced(x, r)
    BY <1>2 DEF Produced
  <2>8. /\ started' \subseteq Grants'
        /\ finished' \subseteq [grant : Grants', result : Outcomes]
    BY <1>2, <2>2, <2>4 DEF ExecutedOK
  <2>9. \A s \in Slots : renewing'[s] = TRUE => grant'[s] \in started'
    BY <2>4, <2>5 DEF ExecutedOK
  <2>10. \A s \in Slots :
            pc'[s] \in {"done", "submitting"} => Produced(grant'[s], result'[s])
    BY <2>5, <2>6 DEF ExecutedOK
  <2>11. \A s \in Slots :
            pc'[s] \in {"done", "submitting"} => Produced(grant[s], result[s])'
    BY <1>2, <2>10 DEF Produced
  <2>12. \A n \in net' : n.kind = "result" => Produced(n.grant, n.result)'
    BY <1>2, <2>7 DEF ExecutedOK
  <2> QED BY <2>8, <2>9, <2>11, <2>12 DEF ExecutedOK
<1> QED BY <1>3, <1>4, <1>5 DEF HandleClaim, slotVars

LEMMA ExecutedStep ==
    ASSUME IInv, SlotsOK, MessagesOK, ExecutedOK, [PoolNext]_poolVars
    PROVE  ExecutedOK'
<1>0. /\ Grants \subseteq Grants'
      /\ finished \subseteq [grant : Grants, result : Outcomes]
  BY IssuedGrows DEF ExecutedOK
<1>1. ASSUME NEW t \in TaskIDs, Submit(t) PROVE ExecutedOK'
  BY <1>0, <1>1, ExecutedKept DEF Submit
<1>2. ASSUME NEW m \in Requests("claim"), HandleClaimSweep(m) PROVE ExecutedOK'
  <2>1. [m EXCEPT !.swept = TRUE].kind = "claim"
    BY RequestTypes DEF Claims
  <2>2. \A n \in net' : n.kind = "result" => n \in net
    BY <1>2, <2>1 DEF HandleClaimSweep
  <2> QED BY <1>0, <1>2, <2>2, ExecutedKept DEF HandleClaimSweep, history
<1>3. ASSUME NEW m \in Requests("claim"), NEW d \in BOOLEAN, HandleClaim(m, d)
      PROVE  ExecutedOK'
  BY <1>0, <1>3, ExecutedClaim
<1>4. ASSUME NEW m \in Requests("renew"), NEW d \in BOOLEAN, HandleRenew(m, d)
      PROVE  ExecutedOK'
  <2>1. m.slot \in Slots
    BY RequestTypes DEF Renewals
  <2>2. renewing' \in {renewing, [renewing EXCEPT ![m.slot] = FALSE]}
    BY <1>4 DEF HandleRenew
  <2>3. \A s \in Slots : renewing'[s] = TRUE => renewing[s] = TRUE
    BY <2>1, <2>2 DEF SlotsOK
  <2> QED BY <1>0, <1>4, <2>3, ExecutedEnds DEF HandleRenew, history
<1>5. ASSUME NEW m \in Requests("result"), NEW d \in BOOLEAN, HandleResult(m, d)
      PROVE  ExecutedOK'
  <2>1. m.slot \in Slots /\ net' \subseteq net /\ started' = started /\ finished' = finished
    BY <1>5, RequestTypes DEF HandleResult, Results
  <2>2. CASE UNCHANGED slotVars
    BY <1>0, <2>1, <2>2, ExecutedKept
  <2>3. CASE Release(m.slot, "idle")
    <3>1. \A s \in Slots \ {m.slot} :
             /\ grant'[s] = grant[s] /\ renewing'[s] = renewing[s]
             /\ pc'[s] = pc[s] /\ result'[s] = result[s]
      BY <2>3 DEF Release, SlotsOK
    <3>2. renewing'[m.slot] = FALSE /\ pc'[m.slot] = "idle"
      BY <2>1, <2>3 DEF Release, SlotsOK
    <3> QED BY <1>0, <2>1, <3>1, <3>2, ExecutedEnds
  <2> QED BY <1>5, <2>2, <2>3 DEF HandleResult
<1>6. CASE HandleRead
  BY <1>0, <1>6, ExecutedKept DEF HandleRead, history
<1>7. CASE PassTime
  BY <1>0, <1>7, ExecutedKept DEF PassTime, history
<1>8. ASSUME NEW m \in net, Lose(m) PROVE ExecutedOK'
  BY <1>0, <1>8, ExecutedKept DEF Lose, history
<1>9. CASE CoordinatorRestart
  BY <1>0, <1>9, ExecutedKept DEF CoordinatorRestart, history
<1>10. ASSUME NEW s \in Slots, SendClaim(s) PROVE ExecutedOK'
  <2>1. ClaimRequest(s).kind # "result"
    BY DEF ClaimRequest
  <2>2. \A n \in net' : n.kind = "result" => n \in net
    BY <1>10, <2>1 DEF SendClaim, Send
  <2>3. \A x \in Slots : pc'[x] \in {"done", "submitting"} => pc[x] \in {"done", "submitting"}
    BY <1>10 DEF SendClaim, SlotsOK
  <2>4. UNCHANGED <<grant, result, renewing, started, finished>>
    BY <1>10 DEF SendClaim, history
  <2>5. \A x, r : Produced(x, r)' <=> Produced(x, r)
    BY <2>4 DEF Produced
  <2> QED BY <1>0, <2>2, <2>3, <2>4, <2>5 DEF ExecutedOK
<1>11. ASSUME NEW s \in Slots, ClaimFails(s) PROVE ExecutedOK'
  <2>1. \A n \in net' : n.kind = "result" => n \in net
    <3>1. \A n \in net : n.kind = "claim" => [n EXCEPT !.late = TRUE].kind = "claim"
      BY DEF MessagesOK, Claims, Renewals, Results
    <3> QED BY <1>11, <3>1 DEF ClaimFails, Overdue
  <2>2. \A x \in Slots : pc'[x] \in {"done", "submitting"} => pc[x] \in {"done", "submitting"}
    BY <1>11 DEF ClaimFails, SlotsOK
  <2>3. UNCHANGED <<grant, result, renewing, started, finished>>
    BY <1>11 DEF ClaimFails, history
  <2>4. \A x, r : Produced(x, r)' <=> Produced(x, r)
    BY <2>3 DEF Produced
  <2> QED BY <1>0, <2>1, <2>2, <2>3, <2>4 DEF ExecutedOK
<1>12. ASSUME NEW s \in Slots, SendRenew(s) PROVE ExecutedOK'
  <2>1. RenewRequest(s).kind # "result"
    BY DEF RenewRequest
  <2>2. \A n \in net' : n.kind = "result" => n \in net
    BY <1>12, <2>1 DEF SendRenew, Send
  <2> QED BY <1>0, <1>12, <2>2, ExecutedKept DEF SendRenew, history
<1>13. ASSUME NEW s \in Slots, NEW r \in Outcomes, FinishExecution(s, r) PROVE ExecutedOK'
  <2> DEFINE f == [grant |-> grant[s], result |-> r]
  <2>1. grant[s] \in Grants
    BY <1>13 DEF FinishExecution, SlotsOK, Holding
  <2>2. f \in [grant : Grants, result : Outcomes] /\ finished' = finished \union {f}
    BY <1>13, <2>1 DEF FinishExecution
  <2>3. net' = net /\ started' = started
    BY <1>13 DEF FinishExecution
  <2>4. CASE Release(s, "stopped")
    <3> HIDE DEF f
    <3>1. \A x \in Slots \ {s} : /\ grant'[x] = grant[x] /\ renewing'[x] = renewing[x]
                                 /\ pc'[x] = pc[x] /\ result'[x] = result[x]
      BY <2>4 DEF Release, SlotsOK
    <3>2. renewing'[s] = FALSE /\ pc'[s] = "stopped"
      BY <2>4 DEF Release, SlotsOK
    <3> QED BY <1>0, <2>2, <2>3, <3>1, <3>2, ExecutedEnds
  <2>5. CASE /\ pc' = [pc EXCEPT ![s] = "done"]
             /\ result' = [result EXCEPT ![s] = r]
             /\ UNCHANGED <<grant, renewing>>
    <3>1. \A x, y : Produced(x, y) => Produced(x, y)'
      BY <2>2 DEF Produced
    <3>2. grant' = grant /\ result'[s] = r /\ Produced(grant[s], r)'
      BY <2>2, <2>5 DEF Produced, SlotsOK
    <3>3. \A x \in Slots \ {s} : pc'[x] = pc[x] /\ result'[x] = result[x]
      BY <2>5 DEF SlotsOK
    <3> HIDE DEF f
    <3>4. \A x \in Slots :
             pc'[x] \in {"done", "submitting"}
                => [grant |-> grant'[x], result |-> result'[x]] \in finished'
      BY <3>1, <3>2, <3>3 DEF ExecutedOK, Produced
    <3>5. \A m \in net' : m.kind = "result" => Produced(m.grant, m.result)'
      BY <2>3, <3>1 DEF ExecutedOK
    <3> QED BY <1>0, <2>2, <2>3, <2>5, <3>4, <3>5 DEF ExecutedOK, Produced
  <2> QED BY <1>13, <2>4, <2>5 DEF FinishExecution
<1>14. ASSUME NEW s \in Slots, SendResult(s) PROVE ExecutedOK'
  <2> DEFINE q == ResultRequest(s)
  <2>1. pc[s] = "done" /\ pc' = [pc EXCEPT ![s] = "submitting"]
    BY <1>14 DEF SendResult
  <2>2. UNCHANGED <<grant, result, renewing, started, finished>>
    BY <1>14 DEF SendResult, history
  <2>3. Produced(grant[s], result[s])
    BY <2>1 DEF ExecutedOK
  <2>4. q.grant = grant[s] /\ q.result = result[s] /\ net' = net \union {q}
    BY <1>14 DEF SendResult, Send, ResultRequest
  <2> HIDE DEF q
  <2>5. \A x \in Slots : pc'[x] \in {"done", "submitting"} => pc[x] \in {"done", "submitting"}
    BY <2>1 DEF SlotsOK
  <2>6. \A x, r : Produced(x, r)' <=> Produced(x, r)
    BY <2>2 DEF Produced
  <2>7. \A m \in net' : m.kind = "result" => Produced(m.grant, m.result)
    BY <2>3, <2>4 DEF ExecutedOK
  <2> QED BY <1>0, <2>2, <2>5, <2>6, <2>7 DEF ExecutedOK
<1>15. ASSUME NEW s \in Slots, SubmitFails(s) PROVE ExecutedOK'
  <2>1. UNCHANGED <<grant, result, renewing, started, finished, net>>
    BY <1>15 DEF SubmitFails, history
  <2>2. \A x \in Slots : pc'[x] \in {"done", "submitting"} => pc[x] \in {"done", "submitting"}
    BY <1>15 DEF SubmitFails, SlotsOK
  <2> QED BY <1>0, <2>1, <2>2, ExecutedEnds
<1>16. ASSUME NEW w \in Workers, NEW S \in SUBSET SlotsOf(w), Cancel(w, S) PROVE ExecutedOK'
  <2>1. UNCHANGED <<started, finished>>
    BY <1>16 DEF Cancel, history
  <2>2. \A m \in net' : m.kind = "result" => m \in net
    <3>1. \A n \in net : n.kind = "claim" => [n EXCEPT !.late = TRUE].kind = "claim"
      BY DEF MessagesOK, Claims, Renewals, Results
    <3> QED BY <1>16, <3>1 DEF Cancel, AllOverdue
  <2>3. \A s \in Slots :
           /\ renewing'[s] = TRUE => renewing[s] = TRUE /\ s \notin S
           /\ s \notin S => pc'[s] = pc[s] /\ grant'[s] = grant[s] /\ result'[s] = result[s]
           /\ s \in S => pc'[s] = "stopped"
    <3>1. \A s \in Slots : renewing'[s] = TRUE => renewing[s] = TRUE /\ owner[s] # w
      BY <1>16 DEF Cancel, SlotsOK
    <3>2. \A s \in Slots :
             /\ s \notin S => pc'[s] = pc[s] /\ grant'[s] = grant[s] /\ result'[s] = result[s]
             /\ s \in S => pc'[s] = "stopped"
      BY <1>16 DEF Cancel
    <3> QED BY <3>1, <3>2 DEF SlotsOf
  <2>4. \A x, r : Produced(x, r)' <=> Produced(x, r)
    BY <2>1 DEF Produced
  <2>5. \A s \in Slots : renewing'[s] = TRUE => grant'[s] \in started
    BY <2>3 DEF ExecutedOK
  <2>6. \A s \in Slots :
           pc'[s] \in {"done", "submitting"} => Produced(grant'[s], result'[s])
    BY <2>3 DEF ExecutedOK
  <2>7. \A s \in Slots :
           pc'[s] \in {"done", "submitting"} => Produced(grant[s], result[s])'
    BY <2>1, <2>6 DEF Produced
  <2>8. \A m \in net' : m.kind = "result" => Produced(m.grant, m.result)'
    BY <2>2, <2>4 DEF ExecutedOK
  <2> QED BY <1>0, <2>1, <2>5, <2>7, <2>8 DEF ExecutedOK
<1>17. ASSUME NEW w \in Workers, Stop(w) \/ Crash(w) PROVE ExecutedOK'
  BY <1>16, <1>17 DEF Stop, Crash
<1>18. ASSUME NEW w \in Workers, Restart(w) PROVE ExecutedOK'
  <2>1. UNCHANGED <<grant, result, renewing, started, finished, net>>
    BY <1>18 DEF Restart, history
  <2>2. \A x \in Slots : pc'[x] \in {"done", "submitting"} => pc[x] \in {"done", "submitting"}
    BY <1>18 DEF Restart, SlotsOK
  <2> QED BY <1>0, <2>1, <2>2, ExecutedEnds
<1>19. CASE UNCHANGED poolVars
  BY <1>0, <1>19, ExecutedKept DEF poolVars, slotVars
<1> QED BY <1>1, <1>2, <1>3, <1>4, <1>5, <1>6, <1>7, <1>8, <1>9, <1>10, <1>11, <1>12,
           <1>13, <1>14, <1>15, <1>17, <1>18, <1>19 DEF PoolNext

-----------------------------------------------------------------------------
(* The tasks. *)

\* The result that m carries is taken: its lease is the live one.
TakenFrom(m, t) ==
    /\ m.kind = "result" /\ m.result \in {"output", "error"} /\ t = m.grant.task
    /\ Reported(t, m.grant.lease, m.result = "output")

\* A task changes without a result, by the result of one message, or by a restart.
LEMMA TaskStep ==
    ASSUME IInv, SlotsOK, MessagesOK, [PoolNext]_poolVars, ~CoordinatorRestart,
           NEW t \in TaskIDs
    PROVE  Unreported(t) \/ \E m \in net : TakenFrom(m, t)
<1>1. ASSUME NEW u \in TaskIDs, Submit(u) PROVE Unreported(t)
  BY <1>1, EnqueueChanges DEF Submit
<1>2. ASSUME NEW m \in Requests("claim"), HandleClaimSweep(m) PROVE Unreported(t)
  BY <1>2, SweepChanges DEF HandleClaimSweep, RequeueExpired
<1>3. ASSUME NEW m \in Requests("claim"), NEW d \in BOOLEAN, HandleClaim(m, d)
      PROVE  Unreported(t)
  <2>1. owner[m.slot] \in Workers
    BY OwnerType, RequestTypes DEF Claims
  <2>2. Claim(owner[m.slot]) \/ ClaimNothing(owner[m.slot])
    BY <1>3 DEF HandleClaim
  <2> QED BY <2>1, <2>2, ClaimChanges, SweepChanges DEF ClaimNothing
<1>4. ASSUME NEW m \in Requests("renew"), NEW d \in BOOLEAN, HandleRenew(m, d)
      PROVE  Unreported(t)
  <2>1. m.grant.task \in TaskIDs
    BY RequestTypes, GrantFields DEF Renewals, IInv, TypeOK
  <2>2. Renew(m.grant.task, m.grant.lease, owner[m.slot])
    BY <1>4 DEF HandleRenew
  <2> QED BY <2>1, <2>2, RenewChanges
<1>5. ASSUME NEW m \in Requests("result"), NEW d \in BOOLEAN, HandleResult(m, d)
      PROVE  Unreported(t) \/ TakenFrom(m, t)
  <2>1. /\ m.grant.task \in TaskIDs /\ m.kind = "result"
        /\ m.result \in {"output", "error", "oversized"}
    BY RequestTypes, GrantFields DEF Results, Outcomes, IInv, TypeOK
  <2>2. CASE m.result = "oversized"
    BY <1>5, <2>2 DEF HandleResult, vars, Unreported
  <2>3. CASE m.result # "oversized"
    <3> DEFINE ok == m.result = "output"
    <3>1. Complete(m.grant.task, m.grant.lease, owner[m.slot], ok) /\ ok \in BOOLEAN
      BY <1>5, <2>3 DEF HandleResult
    <3> HIDE DEF ok
    <3>2. Unreported(t) \/ (t = m.grant.task /\ Reported(t, m.grant.lease, ok))
      BY <2>1, <3>1, CompleteChanges
    <3> QED BY <2>1, <2>3, <3>2 DEF TakenFrom, ok
  <2> QED BY <2>2, <2>3
<1>6. CASE HandleRead
  BY <1>6, SweepChanges DEF HandleRead, RequeueExpired
<1>7. CASE PassTime
  BY <1>7, TickChanges DEF PassTime
<1>8. ASSUME UNCHANGED vars PROVE Unreported(t)
  BY <1>8 DEF vars, Unreported
<1>9. ASSUME NEW m \in net, Lose(m) PROVE UNCHANGED vars
  BY <1>9 DEF Lose
<1>10. ASSUME NEW s \in Slots,
              SendClaim(s) \/ ClaimFails(s) \/ SendRenew(s) \/ SendResult(s) \/ SubmitFails(s)
       PROVE  UNCHANGED vars
  BY <1>10 DEF SendClaim, ClaimFails, SendRenew, SendResult, SubmitFails
<1>11. ASSUME NEW s \in Slots, NEW r \in Outcomes, FinishExecution(s, r)
       PROVE  UNCHANGED vars
  BY <1>11 DEF FinishExecution
<1>12. ASSUME NEW w \in Workers, Stop(w) \/ Crash(w) \/ Restart(w) PROVE UNCHANGED vars
  BY <1>12 DEF Stop, Crash, Cancel, Restart
<1>13. ASSUME UNCHANGED poolVars PROVE UNCHANGED vars
  BY <1>13 DEF poolVars, vars
<1>14. Requests("result") \subseteq net
  BY DEF Requests
<1> QED BY <1>1, <1>2, <1>3, <1>4, <1>5, <1>6, <1>7, <1>8, <1>9, <1>10, <1>11, <1>12,
           <1>13, <1>14 DEF PoolNext

\* Results that were returned are remembered.
LEMMA FinishedGrows ==
    ASSUME [PoolNext]_poolVars
    PROVE  finished \subseteq finished'
BY DEF PoolNext, poolVars, history, Submit, HandleClaimSweep, HandleClaim, HandleRenew,
       HandleResult, Lose, HandleRead, CoordinatorRestart, SendClaim, ClaimFails, SendRenew,
       FinishExecution, SendResult, SubmitFails, Stop, Crash, Cancel, Restart, PassTime

LEMMA RestartForgets ==
    ASSUME CoordinatorRestart, NEW t \in TaskIDs
    PROVE  /\ tasks'[t].state = "absent" /\ tasks'[t].lease.id = 0
           /\ tasks'[t].result.kind = "none"
BY DEF CoordinatorRestart, Absent, NoLease, NoResult

\* What is recorded for t was produced.
RecordOK(t) ==
    tasks[t].result.kind \in {"output", "error"} =>
        Produced([task |-> t, lease |-> tasks[t].result.from], tasks[t].result.kind)

LEMMA RecordStep ==
    ASSUME IInv, SlotsOK, MessagesOK, ExecutedOK, [PoolNext]_poolVars,
           NEW t \in TaskIDs, RecordOK(t)
    PROVE  RecordOK(t)'
<1>1. finished \subseteq finished'
  BY FinishedGrows
<1>2. CASE CoordinatorRestart
  BY <1>2, RestartForgets DEF RecordOK
<1>3. CASE tasks'[t].result = tasks[t].result
  BY <1>1, <1>3 DEF RecordOK, Produced
<1>4. CASE Unreported(t)
  BY <1>3, <1>4, UnreportedResult DEF RecordOK, Exhausted
<1>5. ASSUME NEW m \in net, TakenFrom(m, t) PROVE RecordOK(t)'
  <2> DEFINE l == m.grant.lease
             k == IF m.result = "output" THEN "output" ELSE "error"
  <2>1. /\ \/ tasks'[t].result = tasks[t].result
           \/ tasks'[t].result = [kind |-> k, from |-> l]
        /\ k = m.result
    BY <1>5, ReportedResult DEF TakenFrom
  <2>2. Produced(m.grant, m.result)
    BY <1>5 DEF ExecutedOK, TakenFrom
  <2>3. m.grant = [task |-> t, lease |-> l]
    BY <1>5 DEF TakenFrom, MessagesOK, Claims, Renewals, Results, Grants
  <2>4. ASSUME tasks'[t].result = [kind |-> k, from |-> l] PROVE RecordOK(t)'
    BY <1>1, <2>1, <2>2, <2>3, <2>4 DEF RecordOK, Produced
  <2> QED BY <1>3, <2>1, <2>4
<1> QED BY <1>2, <1>4, <1>5, TaskStep

-----------------------------------------------------------------------------
(* What workers were told.  A task ID is submitted once, so a task that was  *)
(* completed and forgotten by a restart does not come back under its ID.     *)

\* A task appears in the table by being submitted only.
LEMMA AppearsSubmitted ==
    ASSUME IInv, SlotsOK, MessagesOK, [PoolNext]_poolVars,
           NEW t \in TaskIDs, tasks[t].state = "absent", tasks'[t].state # "absent"
    PROVE  Submit(t)
<1>1. tasks \in [TaskIDs -> Task] /\ OrderConsistent /\ OrderConsistent'
  BY QueueInv DEF IInv, TypeOK
<1>2. ASSUME NEW u \in TaskIDs, Submit(u) PROVE Submit(t)
  <2>1. u = t
    BY <1>1, <1>2 DEF Submit, Enqueue
  <2> QED BY <1>2, <2>1
<1>3. CASE CoordinatorRestart
  BY <1>3, RestartForgets
<1>4. CASE order' = order
  BY <1>1, <1>4 DEF OrderConsistent, Lists, Known
<1>5. ASSUME NEW m \in net, \/ HandleClaimSweep(m) \/ Lose(m)
                            \/ \E d \in BOOLEAN : HandleClaim(m, d)
      PROVE  order' = order
  BY <1>5 DEF HandleClaimSweep, HandleClaim, Lose, RequeueExpired, Claim, ClaimNothing, vars
<1>6. ASSUME NEW m \in net, NEW d \in BOOLEAN, HandleRenew(m, d) \/ HandleResult(m, d)
      PROVE  order' = order
  BY <1>6 DEF HandleRenew, HandleResult, Renew, Complete, vars
<1>7. ASSUME HandleRead \/ PassTime PROVE order' = order
  BY <1>7 DEF HandleRead, PassTime, RequeueExpired, Tick
<1>8. ASSUME NEW s \in Slots,
             \/ SendClaim(s) \/ ClaimFails(s) \/ SendRenew(s) \/ SendResult(s) \/ SubmitFails(s)
             \/ \E r \in Outcomes : FinishExecution(s, r)
      PROVE  order' = order
  BY <1>8 DEF SendClaim, ClaimFails, SendRenew, SendResult, SubmitFails, FinishExecution, vars
<1>9. ASSUME NEW w \in Workers, Stop(w) \/ Crash(w) \/ Restart(w) PROVE order' = order
  BY <1>9 DEF Stop, Crash, Cancel, Restart, vars
<1>10. ASSUME UNCHANGED poolVars PROVE order' = order
  BY <1>10 DEF poolVars
<1>11. \A kind : Requests(kind) \subseteq net
  BY DEF Requests
<1> QED BY <1>2, <1>3, <1>4, <1>5, <1>6, <1>7, <1>8, <1>9, <1>10, <1>11 DEF PoolNext

UsedOK ==
    /\ used \subseteq TaskIDs /\ Known(tasks) \subseteq used
    /\ accepted \subseteq Grants
    /\ \A g \in accepted : g.task \in used

\* A result is answered "task_completed" only when its task is completed after
\* the call, whether this call completed it or an earlier one had.
LEMMA ToldCompleted ==
    ASSUME IInv, SlotsOK, MessagesOK, NEW m \in Requests("result"), NEW d \in BOOLEAN,
           HandleResult(m, d), ResultStatus(m) = "task_completed"
    PROVE  /\ m.grant \in Grants /\ m.grant.task \in TaskIDs
           /\ tasks[m.grant.task].state \in {"leased", "completed"}
           /\ tasks'[m.grant.task].state = "completed"
<1> DEFINE t == m.grant.task
           l == m.grant.lease
           w == owner[m.slot]
           verdict == activeLease(t, l, w)
<1>1. /\ m.grant \in Grants /\ t \in TaskIDs
      /\ m.result \in {"output", "error", "oversized"}
  BY RequestTypes, GrantFields DEF Results, Outcomes, IInv, TypeOK
<1>2. tasks[t].state \in States /\ tasks \in [TaskIDs -> Task]
  BY <1>1, TaskOfInv DEF IInv, TypeOK
<1>3. m.result # "oversized" /\ Complete(t, l, w, m.result = "output")
  BY DEF ResultStatus, HandleResult
<1>4. CASE verdict = "active"
  <2>1. m.result = "output"
    BY <1>1, <1>3, <1>4 DEF ResultStatus
  <2>2. CompleteOutput(t, l, w)
    BY <1>3, <1>4, <2>1 DEF Complete, Refuse
  <2>3. tasks[t].state = "leased"
    BY <1>1, <1>2, <1>4, ActiveLease DEF Holds
  <2>4. tasks'[t].state = "completed"
    BY <1>1, <1>2, <2>2 DEF CompleteOutput, Task
  <2> QED BY <1>1, <2>3, <2>4
<1>5. CASE verdict # "active"
  <2>1. pullErrorResponse[verdict] = "task_completed"
    BY <1>1, <1>3, <1>5 DEF ResultStatus
  <2>2. verdict \in {"not_found", "already_completed", "stale_lease", "task_failed",
                     "wrong_worker", "active"}
    BY <1>2 DEF activeLease, States, Holds
  <2>3. verdict = "already_completed"
    <3> HIDE DEF verdict
    <3> QED BY <1>5, <2>1, <2>2 DEF pullErrorResponse
  <2>4. tasks[t].state = "completed"
    BY <1>2, <2>3 DEF activeLease, States, Holds
  <2>5. ~Holds(t, l, w) /\ Refuse(t, l, w)
    BY <1>3, <1>5, <2>4 DEF Complete, CompleteOutput, CompleteError, Holds
  <2>6. tasks' = tasks
    BY <2>5 DEF Refuse
  <2> QED BY <1>1, <2>4, <2>6
<1> QED BY <1>4, <1>5

LEMMA AcceptedGrows ==
    ASSUME [PoolNext]_poolVars, accepted' # accepted
    PROVE  \E m \in Requests("result"), d \in BOOLEAN :
              /\ HandleResult(m, d) /\ ResultStatus(m) = "task_completed"
              /\ accepted' = accepted \union {m.grant} /\ used' = used /\ restarts' = restarts
<1>1. ASSUME NEW m \in Requests("result"), NEW d \in BOOLEAN, HandleResult(m, d)
      PROVE  /\ ResultStatus(m) = "task_completed"
             /\ accepted' = accepted \union {m.grant} /\ used' = used /\ restarts' = restarts
  BY <1>1 DEF HandleResult
<1>2. \E m \in Requests("result"), d \in BOOLEAN : HandleResult(m, d)
  BY DEF PoolNext, poolVars, history, Submit, HandleClaimSweep, HandleClaim, HandleRenew,
         Lose, HandleRead, CoordinatorRestart, SendClaim, ClaimFails, SendRenew,
         FinishExecution, SendResult, SubmitFails, Stop, Crash, Cancel, Restart, PassTime
<1> QED BY <1>1, <1>2

LEMMA UsedGrows ==
    ASSUME [PoolNext]_poolVars
    PROVE  used' = used \/ \E t \in TaskIDs : t \notin used /\ used' = used \union {t}
BY DEF PoolNext, poolVars, history, Submit, HandleClaimSweep, HandleClaim, HandleRenew,
       HandleResult, Lose, HandleRead, CoordinatorRestart, SendClaim, ClaimFails, SendRenew,
       FinishExecution, SendResult, SubmitFails, Stop, Crash, Cancel, Restart, PassTime

LEMMA UsedStep ==
    ASSUME IInv, SlotsOK, MessagesOK, UsedOK, [PoolNext]_poolVars
    PROVE  UsedOK'
<1>1. used \subseteq used' /\ used' \subseteq TaskIDs /\ Grants \subseteq Grants'
  BY UsedGrows, IssuedGrows DEF UsedOK
<1>2. ASSUME NEW t \in TaskIDs, tasks'[t].state # "absent" PROVE t \in used'
  BY <1>1, <1>2, AppearsSubmitted DEF UsedOK, Known, Submit
<1>3. accepted' \subseteq Grants' /\ \A g \in accepted' : g.task \in used'
  <2>1. CASE accepted' = accepted
    BY <1>1, <2>1 DEF UsedOK
  <2>2. CASE accepted' # accepted
    <3>1. PICK m \in Requests("result"), d \in BOOLEAN :
              /\ HandleResult(m, d) /\ ResultStatus(m) = "task_completed"
              /\ accepted' = accepted \union {m.grant}
      BY <2>2, AcceptedGrows
    <3>2. /\ m.grant \in Grants /\ m.grant.task \in TaskIDs
          /\ tasks[m.grant.task].state # "absent"
      BY <3>1, ToldCompleted
    <3> QED BY <1>1, <3>1, <3>2 DEF UsedOK, Known
  <2> QED BY <2>1, <2>2
<1> QED BY <1>1, <1>2, <1>3 DEF UsedOK, Known

CountsOK == faults \in 0..MaxFaults /\ restarts \in 0..MaxRestarts

LEMMA CountsStep ==
    ASSUME CountsOK, [PoolNext]_poolVars
    PROVE  CountsOK' /\ restarts <= restarts' /\ (CoordinatorRestart => restarts' > 0)
<1>1. /\ faults' = faults \/ (faults < MaxFaults /\ faults' = faults + 1)
      /\ restarts' = restarts \/ CoordinatorRestart
  BY DEF PoolNext, poolVars, Submit, HandleClaimSweep, HandleClaim, HandleRenew,
         HandleResult, Lose, HandleRead, CoordinatorRestart, SendClaim, ClaimFails, SendRenew,
         FinishExecution, SendResult, SubmitFails, Stop, Crash, Cancel, Restart, PassTime
<1> QED BY <1>1, BoundsAssumption DEF CountsOK, CoordinatorRestart

\* What a worker was told about task t still stands.
ToldOK(t) == \/ tasks[t].state = "completed"
             \/ restarts > 0 /\ tasks[t].state = "absent"

LEMMA ToldStays ==
    ASSUME IInv, SlotsOK, MessagesOK, UsedOK, CountsOK, [PoolNext]_poolVars,
           NEW t \in TaskIDs, t \in used, ToldOK(t)
    PROVE  ToldOK(t)'
<1>1. restarts' \in Nat /\ restarts \in Nat /\ restarts <= restarts'
  BY CountsStep, BoundsAssumption DEF CountsOK
<1>2. CASE CoordinatorRestart
  BY <1>2, RestartForgets, CountsStep DEF ToldOK
<1>3. CASE tasks[t].state = "completed" /\ ~CoordinatorRestart
  BY <1>3, QueueStep, TerminalStep DEF Terminal, ToldOK
<1>4. CASE restarts > 0 /\ tasks[t].state = "absent"
  BY <1>1, <1>4, AppearsSubmitted DEF Submit, ToldOK
<1> QED BY <1>2, <1>3, <1>4 DEF ToldOK

LEMMA ToldStep ==
    ASSUME IInv, SlotsOK, MessagesOK, UsedOK, CountsOK, CompletedAsTold, [PoolNext]_poolVars
    PROVE  CompletedAsTold'
<1>1. \A g \in accepted : g.task \in TaskIDs /\ g.task \in used
  BY DEF UsedOK
<1>2. \A g \in accepted : ToldOK(g.task)
  BY DEF CompletedAsTold, ToldOK
<1>3. \A g \in accepted : ToldOK(g.task)'
  BY <1>1, <1>2, ToldStays
<1>4. \A g \in accepted' : ToldOK(g.task)'
  <2>1. CASE accepted' = accepted
    BY <1>3, <2>1
  <2>2. CASE accepted' # accepted
    <3>1. PICK m \in Requests("result"), d \in BOOLEAN :
              /\ HandleResult(m, d) /\ ResultStatus(m) = "task_completed"
              /\ accepted' = accepted \union {m.grant}
      BY <2>2, AcceptedGrows
    <3> DEFINE h == m.grant
    <3>2. tasks'[h.task].state = "completed" /\ accepted' = accepted \union {h}
      BY <3>1, ToldCompleted
    <3> HIDE DEF h
    <3>3. \A g : tasks'[g.task].state = "completed" => ToldOK(g.task)'
      BY DEF ToldOK
    <3> QED BY <1>3, <3>2, <3>3
  <2> QED BY <2>1, <2>2
<1> QED BY <1>4 DEF CompletedAsTold, ToldOK

-----------------------------------------------------------------------------
(* The leases.  The lease a slot works under was given to the slot's own     *)
(* worker, so the coordinator refuses a renewal of it only once it ran out.  *)

LeasedTo(t, l, w) == tasks[t].lease.id = l => tasks[t].lease.workerID = w

OwnedOK == \A s \in Slots : grant[s] # NoGrant =>
                LeasedTo(grant[s].task, grant[s].lease, owner[s])

\* Leases do not change hands, and no later lease has the ID of an earlier one.
LEMMA LeasedToStays ==
    ASSUME IInv, SlotsOK, MessagesOK, [PoolNext]_poolVars,
           NEW t \in TaskIDs, NEW l \in 1..issued, NEW w, LeasedTo(t, l, w)
    PROVE  LeasedTo(t, l, w)'
<1>1. CASE CoordinatorRestart
  BY <1>1, RestartForgets DEF LeasedTo, IInv, TypeOK
<1>2. CASE [Next]_vars
  BY <1>2, OldLease DEF LeasedTo
<1> QED BY <1>1, <1>2, QueueStep

\* How the slots' grants may change.
LEMMA GrantStep ==
    ASSUME IInv, SlotsOK, MessagesOK, [PoolNext]_poolVars, NEW s \in Slots
    PROVE  /\ owner' = owner
           /\ \/ grant'[s] = grant[s]
              \/ grant'[s] = NoGrant
              \/ /\ renewing'[s] = TRUE
                 /\ tasks'[grant'[s].task].lease.workerID = owner[s]
<1>1. ASSUME NEW m \in Requests("claim"), NEW d \in BOOLEAN, HandleClaim(m, d),
             grant'[s] # grant[s]
      PROVE  renewing'[s] = TRUE /\ tasks'[grant'[s].task].lease.workerID = owner[s]
  <2>1. owner[m.slot] \in Workers /\ m.slot \in Slots
    BY OwnerType, RequestTypes DEF Claims
  <2>2. /\ Claim(owner[m.slot])
        /\ \E t \in TaskIDs :
              /\ tasks'[t].lease.id = issued'
              /\ grant' = [grant EXCEPT ![m.slot] = [task |-> t, lease |-> issued']]
              /\ renewing' = [renewing EXCEPT ![m.slot] = TRUE]
    BY <1>1 DEF HandleClaim, slotVars
  <2>3. PICK t \in TaskIDs :
              /\ tasks'[t].lease.id = issued'
              /\ grant' = [grant EXCEPT ![m.slot] = [task |-> t, lease |-> issued']]
              /\ renewing' = [renewing EXCEPT ![m.slot] = TRUE]
    BY <2>2
  <2> DEFINE g == [task |-> t, lease |-> issued']
  <2>4. grant' = [grant EXCEPT ![m.slot] = g] /\ g.task = t
    BY <2>3
  <2> HIDE DEF g
  <2>5. s = m.slot /\ grant'[s] = g
    BY <1>1, <2>1, <2>4 DEF SlotsOK
  <2>6. renewing'[s] = TRUE
    BY <2>3, <2>5 DEF SlotsOK
  <2>7. tasks'[t].lease.workerID = owner[s]
    BY <2>1, <2>2, <2>3, <2>5, ClaimGrants
  <2> QED BY <2>4, <2>5, <2>6, <2>7
<1>2. ASSUME NEW x \in Slots, NEW y, Release(x, y) PROVE grant'[s] \in {grant[s], NoGrant}
  BY <1>2 DEF Release, SlotsOK
<1>3. ASSUME NEW m \in Requests("result"), NEW d \in BOOLEAN, HandleResult(m, d)
      PROVE  grant'[s] \in {grant[s], NoGrant}
  <2>1. m.slot \in Slots
    BY RequestTypes DEF Results
  <2> QED BY <1>2, <1>3, <2>1 DEF HandleResult, slotVars
<1>4. ASSUME NEW x \in Slots, NEW r \in Outcomes, FinishExecution(x, r)
      PROVE  grant'[s] \in {grant[s], NoGrant}
  BY <1>2, <1>4 DEF FinishExecution
<1>5. ASSUME NEW w \in Workers, NEW S, Cancel(w, S) PROVE grant'[s] \in {grant[s], NoGrant}
  BY <1>5 DEF Cancel
<1>6. \/ \E m \in Requests("claim"), d \in BOOLEAN : HandleClaim(m, d)
      \/ \E m \in Requests("result"), d \in BOOLEAN : HandleResult(m, d)
      \/ \E x \in Slots, r \in Outcomes : FinishExecution(x, r)
      \/ \E w \in Workers : Stop(w) \/ Crash(w)
      \/ grant' = grant
  BY DEF PoolNext, poolVars, slotVars, Submit, HandleClaimSweep, HandleRenew, Lose,
         HandleRead, CoordinatorRestart, SendClaim, ClaimFails, SendRenew, SendResult,
         SubmitFails, Restart, PassTime
<1>7. owner' = owner
  BY DEF PoolNext, poolVars, Submit, HandleClaimSweep, HandleClaim, HandleRenew,
         HandleResult, Lose, HandleRead, CoordinatorRestart, SendClaim, ClaimFails, SendRenew,
         FinishExecution, SendResult, SubmitFails, Stop, Crash, Cancel, Restart, PassTime
<1> QED BY <1>1, <1>3, <1>4, <1>5, <1>6, <1>7 DEF Stop, Crash

LEMMA OwnedStep ==
    ASSUME IInv, SlotsOK, MessagesOK, OwnedOK, [PoolNext]_poolVars
    PROVE  OwnedOK'
<1>1. ASSUME NEW s \in Slots, grant'[s] # NoGrant
      PROVE  LeasedTo(grant[s].task, grant[s].lease, owner[s])'
  <2>1. owner' = owner
    BY GrantStep
  <2>2. PICK t, l : t = grant'[s].task /\ l = grant'[s].lease
    OBVIOUS
  <2>3. CASE grant'[s] = grant[s]
    <3>1. grant[s] \in Grants /\ issued \in Nat
      BY <1>1, <2>3 DEF SlotsOK, IInv, TypeOK
    <3>2. t \in TaskIDs /\ l \in 1..issued /\ LeasedTo(t, l, owner[s])
      BY <1>1, <2>2, <2>3, <3>1, GrantFields DEF OwnedOK
    <3>3. LeasedTo(t, l, owner[s])'
      BY <2>1, <3>2, LeasedToStays DEF LeasedTo
    <3> QED BY <2>1, <2>2, <3>3 DEF LeasedTo
  <2>4. CASE tasks'[grant'[s].task].lease.workerID = owner[s]
    BY <2>1, <2>4 DEF LeasedTo
  <2> QED BY <1>1, <2>3, <2>4, GrantStep
<1> QED BY <1>1 DEF OwnedOK, LeasedTo

\* The slot holds the live lease of its task.
HoldsLive(s) ==
    /\ grant[s] # NoGrant
    /\ tasks[grant[s].task].lease.id = grant[s].lease
    /\ Live(grant[s].task)

RenewsOK == \A s \in Slots : HoldsLive(s) /\ up[owner[s]] = TRUE => renewing[s] = TRUE

\* A slot that holds its task's live lease held it before, or was just given it.
LEMMA HoldsLiveBefore ==
    ASSUME IInv, SlotsOK, MessagesOK, [PoolNext]_poolVars, NEW s \in Slots, HoldsLive(s)'
    PROVE  (HoldsLive(s) /\ grant'[s] = grant[s]) \/ renewing'[s] = TRUE
<1>1. CASE grant'[s] = grant[s]
  <2>1. grant[s] \in Grants /\ issued \in Nat
    BY <1>1 DEF HoldsLive, NoGrant, SlotsOK, IInv, TypeOK
  <2>2. PICK t, l : t = grant[s].task /\ l = grant[s].lease
    OBVIOUS
  <2>3. /\ t \in TaskIDs /\ l \in 1..issued
        /\ tasks'[t].lease.id = l /\ tasks'[t].lease.left > 0
    BY <1>1, <2>1, <2>2, GrantFields DEF HoldsLive, Live
  <2>4. ~CoordinatorRestart
    BY <2>1, <2>3, RestartForgets
  <2>5. [Next]_vars
    BY <2>4, QueueStep
  <2>6. tasks[t].lease.id = l /\ Live(t)
    BY <2>3, <2>5, OldLease
  <2> QED BY <1>1, <2>2, <2>6 DEF HoldsLive, NoGrant
<1>2. CASE renewing'[s] = TRUE
  BY <1>2
<1> QED BY <1>1, <1>2, GrantStep DEF HoldsLive, NoGrant

\* A renewal is refused only when the lease is not the task's live one any more.
LEMMA RefusedNotHeld ==
    ASSUME IInv, SlotsOK, MessagesOK, OwnedOK, NEW m \in Requests("renew"),
           NEW d \in BOOLEAN, HandleRenew(m, d), renewing' # renewing
    PROVE  ~HoldsLive(m.slot) /\ renewing' = [renewing EXCEPT ![m.slot] = FALSE]
<1> DEFINE s == m.slot
           t == m.grant.task
           l == m.grant.lease
<1>1. /\ activeLease(t, l, owner[s]) # "active"
      /\ renewing' = [renewing EXCEPT ![s] = FALSE]
      /\ grant[s] = m.grant
  BY DEF HandleRenew, Awaits
<1>2. /\ s \in Slots /\ t \in TaskIDs /\ l \in 1..issued /\ issued \in Nat
  BY RequestTypes, GrantFields DEF Renewals, IInv, TypeOK
<1>3. SUFFICES ASSUME HoldsLive(s) PROVE FALSE
  BY <1>1
<1>4. tasks[t].lease.id = l /\ Live(t) /\ tasks[t].lease.workerID = owner[s]
  BY <1>1, <1>2, <1>3 DEF HoldsLive, OwnedOK, LeasedTo
<1>5. tasks[t].state = "leased"
  BY <1>2, <1>4, TaskOfInv
<1> QED BY <1>1, <1>4, <1>5 DEF activeLease, Holds

LEMMA RenewsStep ==
    ASSUME IInv, SlotsOK, MessagesOK, OwnedOK, RenewsOK, [PoolNext]_poolVars
    PROVE  RenewsOK'
<1> SUFFICES ASSUME NEW s \in Slots, HoldsLive(s)', up'[owner[s]] = TRUE,
                    HoldsLive(s), grant'[s] = grant[s]
             PROVE  renewing'[s] = TRUE
  BY HoldsLiveBefore, GrantStep DEF RenewsOK
<1>1. grant'[s] # NoGrant /\ grant[s] # NoGrant
  BY DEF HoldsLive
<1>2. ASSUME renewing' = renewing, up' = up PROVE renewing'[s] = TRUE
  BY <1>2 DEF RenewsOK
<1>3. ASSUME NEW m \in Requests("renew"), NEW d \in BOOLEAN, HandleRenew(m, d)
      PROVE  renewing'[s] = TRUE
  <2>1. up' = up
    BY <1>3 DEF HandleRenew
  <2>2. m.slot # s \/ renewing' = renewing
    BY <1>3, RefusedNotHeld
  <2>3. m.slot # s => renewing'[s] = renewing[s]
    BY <1>3, RefusedNotHeld DEF SlotsOK
  <2> QED BY <2>1, <2>2, <2>3 DEF RenewsOK
<1>4. ASSUME NEW x \in Slots, NEW y, Release(x, y), up' = up PROVE renewing'[s] = TRUE
  <2>1. x # s
    BY <1>1, <1>4 DEF Release, SlotsOK
  <2>2. renewing'[s] = renewing[s]
    BY <1>4, <2>1 DEF Release, SlotsOK
  <2> QED BY <1>4, <2>2 DEF RenewsOK
<1>5. ASSUME NEW m \in Requests("result"), NEW d \in BOOLEAN, HandleResult(m, d)
      PROVE  renewing'[s] = TRUE
  <2>1. m.slot \in Slots
    BY RequestTypes DEF Results
  <2> QED BY <1>2, <1>4, <1>5, <2>1 DEF HandleResult, slotVars
<1>6. ASSUME NEW x \in Slots, NEW r \in Outcomes, FinishExecution(x, r)
      PROVE  renewing'[s] = TRUE
  BY <1>2, <1>4, <1>6 DEF FinishExecution
<1>7. ASSUME NEW m \in Requests("claim"), NEW d \in BOOLEAN, HandleClaim(m, d)
      PROVE  renewing'[s] = TRUE
  <2>1. up' = up /\ m.slot \in Slots
    BY <1>7, RequestTypes DEF HandleClaim, Claims
  <2>2. renewing' = renewing \/ renewing' = [renewing EXCEPT ![m.slot] = TRUE]
    BY <1>7 DEF HandleClaim, slotVars
  <2>3. renewing'[s] = renewing[s] \/ renewing'[s] = TRUE
    BY <2>1, <2>2 DEF SlotsOK
  <2> QED BY <2>1, <2>3 DEF RenewsOK
<1>8. ASSUME NEW w \in Workers, NEW S, Cancel(w, S) PROVE renewing'[s] = TRUE
  <2>1. owner[s] # w /\ up'[owner[s]] = up[owner[s]]
    BY <1>8, OwnerType DEF Cancel, SlotsOK
  <2>2. renewing'[s] = renewing[s]
    <3>1. renewing' = [x \in Slots |-> renewing[x] /\ owner[x] # w]
      BY <1>8 DEF Cancel
    <3>2. renewing'[s] = (renewing[s] /\ owner[s] # w)
      BY <3>1
    <3>3. renewing[s] \in BOOLEAN
      BY DEF SlotsOK
    <3> QED BY <2>1, <3>2, <3>3
  <2> QED BY <2>1, <2>2 DEF RenewsOK
<1>9. ASSUME NEW w \in Workers, Restart(w) PROVE renewing'[s] = TRUE
  <2>1. owner[s] # w
    BY <1>1, <1>9 DEF Restart, SlotsOf, SlotsOK, Holding
  <2>2. up'[owner[s]] = up[owner[s]] /\ renewing' = renewing
    BY <1>9, <2>1, OwnerType DEF Restart, SlotsOK
  <2> QED BY <2>2 DEF RenewsOK
<1>10. \/ \E m \in Requests("claim"), d \in BOOLEAN : HandleClaim(m, d)
       \/ \E m \in Requests("renew"), d \in BOOLEAN : HandleRenew(m, d)
       \/ \E m \in Requests("result"), d \in BOOLEAN : HandleResult(m, d)
       \/ \E x \in Slots, r \in Outcomes : FinishExecution(x, r)
       \/ \E w \in Workers : Stop(w) \/ Crash(w) \/ Restart(w)
       \/ renewing' = renewing /\ up' = up
  BY DEF PoolNext, poolVars, slotVars, Submit, HandleClaimSweep, Lose,
         HandleRead, CoordinatorRestart, SendClaim, ClaimFails, SendRenew, SendResult,
         SubmitFails, PassTime
<1> QED BY <1>2, <1>3, <1>5, <1>6, <1>7, <1>8, <1>9, <1>10 DEF Stop, Crash

-----------------------------------------------------------------------------
(* The inductive invariant, and what follows from it. *)

PoolInv ==
    /\ IInv /\ SlotsOK /\ MessagesOK /\ ExecutedOK /\ UsedOK /\ CountsOK /\ OwnedOK
    /\ RenewsOK
    /\ \A t \in TaskIDs : RecordOK(t)
    /\ CompletedAsTold

LEMMA PoolInitInv == PoolInit => PoolInv
<1> SUFFICES ASSUME PoolInit PROVE PoolInv
  OBVIOUS
<1>1. IInv
  BY InitInv DEF PoolInit
<1>2. SlotsOK
  BY DEF PoolInit, SlotsOK, Holding
<1>3. MessagesOK /\ ExecutedOK
  BY DEF PoolInit, MessagesOK, ExecutedOK
<1>4. UsedOK /\ CompletedAsTold
  BY DEF PoolInit, UsedOK, Init, Known, Absent, CompletedAsTold
<1>5. CountsOK
  BY BoundsAssumption DEF PoolInit, CountsOK
<1>6. OwnedOK /\ RenewsOK
  BY DEF PoolInit, OwnedOK, RenewsOK, HoldsLive
<1>7. \A t \in TaskIDs : RecordOK(t)
  BY DEF PoolInit, Init, Absent, NoResult, RecordOK
<1> QED BY <1>1, <1>2, <1>3, <1>4, <1>5, <1>6, <1>7 DEF PoolInv

LEMMA PoolNextInv == PoolInv /\ [PoolNext]_poolVars => PoolInv'
<1> SUFFICES ASSUME PoolInv, [PoolNext]_poolVars PROVE PoolInv'
  OBVIOUS
<1>1. \A t \in TaskIDs : RecordOK(t)'
  BY RecordStep DEF PoolInv
<1> QED BY <1>1, QueueInv, SlotsStep, MessagesStep, ExecutedStep, UsedStep, CountsStep,
           OwnedStep, RenewsStep, ToldStep DEF PoolInv

LEMMA PoolInvariant == PoolSpec => []PoolInv
BY PoolInitInv, PoolNextInv, PTL DEF PoolSpec

\* The protocol's variables keep their types, a slot has a grant exactly while it
\* works on one, and its renewLoop does not outlive that, whatever the network loses
\* or delays and whoever stops, crashes or comes back.
THEOREM PoolTypeCorrect == PoolSpec => []PoolTypeOK
<1>1. PoolInv => PoolTypeOK
  <2> SUFFICES ASSUME PoolInv PROVE PoolTypeOK
    OBVIOUS
  <2>1. \A s \in Slots : renewing[s] => grant[s] \in started
    BY DEF PoolInv, ExecutedOK, SlotsOK
  <2>2. \A m \in net : m.slot \in Slots /\ (m.kind # "claim" => m.grant \in Grants)
    BY DEF PoolInv, MessagesOK, Claims, Renewals, Results
  <2>3. \A f \in finished : f.grant \in Grants /\ f.result \in Outcomes
    BY DEF PoolInv, ExecutedOK
  <2>4. pc \in [Slots -> {"idle", "claiming", "running", "done", "submitting", "stopped"}]
    BY DEF PoolInv, SlotsOK, Holding
  <2> QED BY <2>1, <2>2, <2>3, <2>4
          DEF PoolInv, IInv, SlotsOK, ExecutedOK, UsedOK, CountsOK, PoolTypeOK, Holding
<1> QED BY <1>1, PoolInvariant, PTL

\* Nothing is recorded for a task but what an executor returned for it under the
\* lease the record names, over a network that delays and repeats every request.
THEOREM RecordsAreProduced == PoolSpec => []RecordedWasProduced
<1>1. PoolInv => RecordedWasProduced
  BY DEF PoolInv, RecordOK, Produced, RecordedWasProduced
<1> QED BY <1>1, PoolInvariant, PTL

\* As long as its lease is the live one, a slot of a running worker renews it.
THEOREM HeldLeasesRenewed == PoolSpec => []RenewedWhileHeld
<1>1. PoolInv => RenewedWhileHeld
  <2> SUFFICES ASSUME PoolInv, NEW s \in Slots, HoldsLive(s), up[owner[s]] PROVE renewing[s]
    BY DEF HoldsLive, RenewedWhileHeld
  <2>1. up[owner[s]] = TRUE
    BY OwnerType DEF PoolInv, SlotsOK
  <2>2. renewing[s] = TRUE
    BY <2>1 DEF PoolInv, RenewsOK
  <2> QED BY <2>2
<1> QED BY <1>1, PoolInvariant, PTL

\* A worker that was told "task_completed" was told the truth, and it stays true:
\* even a coordinator that forgot the task does not run it again.
THEOREM ToldTheTruth == PoolSpec => []CompletedAsTold
<1>1. PoolInv => CompletedAsTold
  BY DEF PoolInv
<1> QED BY <1>1, PoolInvariant, PTL

\* A lease of t goes by its holder's result or by time.
EndsByHolderOrTime(t) ==
    LET l == tasks[t].lease.id
    IN l # 0 /\ tasks'[t].lease.id # l /\ restarts' = restarts =>
          \/ ~Live(t)
          \/ \E f \in finished : f.grant = [task |-> t, lease |-> l]

LEMMA LeaseEnds ==
    ASSUME PoolInv, [PoolNext]_poolVars, NEW t \in TaskIDs
    PROVE  EndsByHolderOrTime(t)
<1> DEFINE l == tasks[t].lease.id
<1> SUFFICES ASSUME tasks'[t].lease.id # l, restarts' = restarts, Live(t)
             PROVE  \E f \in finished : f.grant = [task |-> t, lease |-> l]
  BY DEF EndsByHolderOrTime
<1>1. ~CoordinatorRestart
  BY BoundsAssumption DEF PoolInv, CountsOK, CoordinatorRestart
<1>2. PICK m \in net : TakenFrom(m, t)
  BY <1>1, TaskStep, UnreportedLease DEF PoolInv
<1>3. m.kind = "result" /\ t = m.grant.task /\ l = m.grant.lease
  BY <1>2 DEF TakenFrom, Reported
<1>4. m.grant = [task |-> t, lease |-> l]
  BY <1>3 DEF PoolInv, MessagesOK, Claims, Renewals, Results, Grants
<1>5. [grant |-> m.grant, result |-> m.result] \in finished
  BY <1>3 DEF PoolInv, ExecutedOK, Produced
<1> QED BY <1>4, <1>5

\* No request of another slot, lost, late or repeated, ends a lease that runs: the
\* executor that works under it returned, or time ran out.
THEOREM LeasesEndProperly == PoolSpec => LeaseEndsByHolderOrTime
<1> DEFINE Proper == \A t \in TaskIDs : EndsByHolderOrTime(t)
<1>1. PoolInv /\ [PoolNext]_poolVars => [Proper]_poolVars
  BY LeaseEnds
<1>2. PoolSpec => [][Proper]_poolVars
  BY <1>1, PoolInvariant, PTL DEF PoolSpec
<1> QED BY <1>2 DEF LeaseEndsByHolderOrTime, EndsByHolderOrTime

-----------------------------------------------------------------------------
(* The queue among its callers. *)

\* What is proved of the queue alone holds of the one that serves workers over a
\* network that loses, delays and repeats: the handlers only use its operations, a
\* restart leaves it well formed, and nothing else touches a finished task.
THEOREM QueueServesWorkers ==
    PoolSpec => /\ [](QueueConsistent /\ OrderConsistent /\ LeaseConsistent /\ RetryPolicy)
                /\ [][[Next]_vars \/ CoordinatorRestart]_poolVars
                /\ [][\/ CoordinatorRestart
                      \/ \A t \in TaskIDs : Terminal(tasks[t]) => tasks'[t] = tasks[t]]_poolVars
<1> DEFINE Served == [Next]_vars \/ CoordinatorRestart
           Kept == \/ CoordinatorRestart
                   \/ \A t \in TaskIDs : Terminal(tasks[t]) => tasks'[t] = tasks[t]
<1>1. PoolInv => QueueConsistent /\ OrderConsistent /\ LeaseConsistent /\ RetryPolicy
  BY DEF PoolInv, IInv
<1>2. PoolInv /\ [PoolNext]_poolVars => Served
  BY QueueStep DEF PoolInv
<1>3. PoolInv /\ Served => Kept
  BY TerminalStep DEF PoolInv
<1> HIDE DEF Served, Kept
<1>4. PoolSpec => [][Served]_poolVars /\ [][Kept]_poolVars
  BY <1>2, <1>3, PoolInvariant, PTL DEF PoolSpec
<1> QED BY <1>1, <1>4, PoolInvariant, PTL DEF Served, Kept

=============================================================================
