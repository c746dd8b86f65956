---------------------------- MODULE JobClientProofs ----------------------------
(***************************************************************************)
(* Theorems about JobClient, for any jobs, manifests, workers and bounds.  *)
(***************************************************************************)
EXTENDS JobClient, LeaseQueueProofs

-----------------------------------------------------------------------------
(* Counting and numbering *)

\* A set given in ascending order is numbered in that order.
LEMMA AscendingNth ==
    ASSUME NEW n \in Nat, NEW f \in [1..n -> Nat],
           \A i, k \in 1..n : i < k => f[i] < f[k],
           NEW S, S = {f[i] : i \in 1..n}
    PROVE  /\ Cardinality(S) = n
           /\ \A i \in 1..n : Nth(S, i) = f[i]
<1>1. \A i, k \in 1..n : f[i] < f[k] <=> i < k
  <2> SUFFICES ASSUME NEW i \in 1..n, NEW k \in 1..n PROVE f[i] < f[k] <=> i < k
    OBVIOUS
  <2>1. f[i] \in Nat /\ f[k] \in Nat
    OBVIOUS
  <2>2. CASE i < k
    BY <2>2
  <2>3. CASE k < i
    BY <2>1, <2>3
  <2>4. CASE i = k
    BY <2>1, <2>4
  <2> QED BY <2>2, <2>3, <2>4
<1>2. ASSUME NEW m \in 0..n
      PROVE  Cardinality({f[i] : i \in 1..m}) = m
  <2> DEFINE T == {f[i] : i \in 1..m}
             g == [i \in 1..m |-> f[i]]
  <2>1. \A i, k \in 1..m : i # k => f[i] # f[k]
    BY <1>1
  <2>2. /\ g \in [1..m -> T]
        /\ \A i, k \in 1..m : g[i] = g[k] => i = k
        /\ \A x \in T : \E i \in 1..m : g[i] = x
    BY <2>1
  <2>3. IsFiniteSet(1..m) /\ Cardinality(1..m) = m
    BY FS_Interval
  <2>4. g \in Bijection(1..m, T)
    BY <2>2, Fun_IsBij, Zenon
  <2> QED BY <2>3, <2>4, FS_Bijection, Zenon DEF ExistsBijection
<1>3. ASSUME NEW i \in 1..n
      PROVE  Cardinality({k \in S : k < f[i]}) = i - 1
  <2>1. {k \in S : k < f[i]} = {f[k] : k \in 1..(i - 1)}
    BY <1>1
  <2>2. PICK m \in 0..n : m = i - 1
    OBVIOUS
  <2>3. {k \in S : k < f[i]} = {f[k] : k \in 1..m}
    BY <2>1, <2>2
  <2> QED BY <1>2, <2>2, <2>3
<1>4. ASSUME NEW i \in 1..n PROVE Nth(S, i) = f[i]
  <2> DEFINE c == Nth(S, i)
  <2>1. c \in S /\ Cardinality({k \in S : k < c}) = i - 1
    BY <1>3 DEF Nth
  <2>2. PICK m \in 1..n : c = f[m]
    BY <2>1
  <2>3. m - 1 = i - 1
    BY <1>3, <2>1, <2>2
  <2> QED BY <2>2, <2>3
<1> QED BY <1>2, <1>4

LEMMA Counted ==
    ASSUME NEW X, NEW entries \in Seq(X), NEW states
    PROVE  /\ Count(entries, states) \in Nat
           /\ Count(entries, states) = Len(entries)
                  <=> \A i \in 1..Len(entries) : entries[i].state \in states
           /\ Count(entries, states) > 0
                  <=> \E i \in 1..Len(entries) : entries[i].state \in states
<1> DEFINE n == Len(entries)
           S == {i \in 1..n : entries[i].state \in states}
<1>1. n \in Nat
  OBVIOUS
<1> HIDE DEF n
<1>2. IsFiniteSet(1..n) /\ Cardinality(1..n) = n
  BY <1>1, FS_Interval
<1>3. IsFiniteSet(S) /\ (Cardinality(1..n) = Cardinality(S) => 1..n = S)
  BY <1>2, FS_Subset
<1>4. Cardinality(S) \in Nat /\ (Cardinality(S) = 0 <=> S = {})
  BY <1>3, FS_CardinalityType, FS_EmptySet
<1>5. Cardinality(S) = n <=> S = 1..n
  BY <1>2, <1>3
<1>6. Cardinality(S) > 0 <=> \E i \in 1..n : entries[i].state \in states
  BY <1>4
<1>7. Cardinality(S) = n <=> \A i \in 1..n : entries[i].state \in states
  BY <1>5
<1> QED BY <1>4, <1>6, <1>7 DEF Count, n

-----------------------------------------------------------------------------
(* The coordinator's part.  handlePullSubmit enqueues a manifest from its     *)
(* first task to its last, so the tasks of a job in the table are always the *)
(* first n of its manifest, and q.order has them in manifest order.          *)

Submitted(j, n) ==
    \A i \in 1..Len(manifest[j]) : tasks[manifest[j][i]].state # "absent" <=> i <= n

InOrder(j) ==
    \A p, q \in 1..Len(order), i, k \in 1..Len(manifest[j]) :
        order[p] = manifest[j][i] /\ order[q] = manifest[j][k] /\ i < k => p < q

HandlerAt(j, n) ==
    /\ handler[j] = "none" => n = 0
    /\ handler[j] = "over" => n = Len(manifest[j]) \/ (n = 0 /\ restarts > 0)

JobOK(j) ==
    /\ InOrder(j)
    /\ \E n \in 0..Len(manifest[j]) : Submitted(j, n) /\ HandlerAt(j, n)

JobsOK ==
    /\ manifest \in Manifests
    /\ handler \in [Jobs -> {"none", "running", "over", "cut_off"}]
    /\ restarts \in 0..MaxRestarts
    /\ \A j \in Jobs : JobOK(j)

LEMMA ManifestType ==
    ASSUME JobsOK, NEW j \in Jobs
    PROVE  /\ manifest[j] \in Seq(TaskIDs) /\ Len(manifest[j]) \in Nat
           /\ \A i \in 1..Len(manifest[j]) : manifest[j][i] \in TaskIDs
           /\ \A k \in Jobs : \A i \in 1..Len(manifest[j]), l \in 1..Len(manifest[k]) :
                 manifest[j][i] = manifest[k][l] => j = k /\ i = l
<1>1. manifest[j] \in Seq(TaskIDs)
  BY ManifestAssumption DEF JobsOK
<1>2. Len(manifest[j]) \in Nat /\ \A i \in 1..Len(manifest[j]) : manifest[j][i] \in TaskIDs
  BY <1>1, LenProperties, ElementOfSeq
<1>3. \A k \in Jobs : \A i \in 1..Len(manifest[j]), l \in 1..Len(manifest[k]) :
        manifest[j][i] = manifest[k][l] => j = k /\ i = l
  BY ManifestAssumption DEF JobsOK
<1> QED BY <1>1, <1>2, <1>3

\* A step that is not an Enqueue or a restart.
Quiet == [Next]_vars /\ UNCHANGED <<order, manifest, handler, restarts>>

LEMMA JobStep ==
    ASSUME [JobNext]_jobVars
    PROVE  \/ \E j \in Jobs : SubmitNext(j)
           \/ CoordinatorRestart
           \/ Quiet
<1>1. ASSUME UNCHANGED <<vars, manifest, handler, restarts>> PROVE Quiet
  BY <1>1 DEF Quiet, vars
<1>2. ASSUME RequeueExpired, UNCHANGED <<manifest, handler, restarts>> PROVE Quiet
  BY <1>2 DEF Quiet, Next, RequeueExpired
<1>3. ASSUME NEW j \in Jobs, JobSweep(j) \/ JobRead(j) PROVE Quiet
  BY <1>2, <1>3 DEF JobSweep, JobRead
<1>4. ASSUME NEW j \in Jobs,
             \/ SendSubmit(j) \/ SubmitArrives(j) \/ SubmitFails(j)
             \/ SendPoll(j) \/ PollFails(j) \/ StopsWaiting(j)
             \/ ContextEnds(j) \/ Quit(j) \/ Finish(j)
      PROVE  Quiet
  BY <1>1, <1>4 DEF SendSubmit, SubmitArrives, SubmitFails, SendPoll, PollFails,
                    StopsWaiting, ContextEnds, Quit, Finish
<1>5. ASSUME NEW j \in Jobs, PollArrives(j) PROVE Quiet
  BY <1>1, <1>5 DEF PollArrives
<1>6. CASE Work
  <2>1. UNCHANGED <<manifest, handler, restarts>>
    BY <1>6 DEF Work
  <2>2. ASSUME NEW w \in Workers, Claim(w) \/ ClaimNothing(w) PROVE Next /\ order' = order
    BY <2>2 DEF Next, Claim, ClaimNothing
  <2>3. ASSUME NEW t \in TaskIDs, NEW l \in LeaseIDs, NEW w \in Workers, Renew(t, l, w)
        PROVE  Next /\ order' = order
    BY <2>3 DEF Next, Renew
  <2>4. ASSUME NEW t \in TaskIDs, NEW l \in LeaseIDs, NEW w \in Workers, NEW ok \in BOOLEAN,
               Complete(t, l, w, ok)
        PROVE  Next /\ order' = order
    BY <2>4 DEF Next, Complete
  <2>5. ASSUME RequeueExpired \/ Tick PROVE Next /\ order' = order
    BY <2>5 DEF Next, RequeueExpired, Tick
  <2> QED BY <1>6, <2>1, <2>2, <2>3, <2>4, <2>5 DEF Work, Quiet
<1>7. CASE UNCHANGED jobVars
  BY <1>1, <1>7 DEF jobVars, vars
<1> QED BY <1>3, <1>4, <1>5, <1>6, <1>7 DEF JobNext

LEMMA SubmitIsStep == ASSUME JobsOK, NEW j \in Jobs, SubmitNext(j) PROVE [Next]_vars
BY ManifestType DEF SubmitNext, Unsubmitted, Next

LEMMA JobQueueInv == ASSUME IInv, JobsOK, [JobNext]_jobVars PROVE IInv'
<1>1. ASSUME CoordinatorRestart PROVE IInv'
  BY <1>1, ForgottenInv DEF CoordinatorRestart
<1> QED BY <1>1, JobStep, SubmitIsStep, NextInv DEF Quiet

\* Tasks come to the table and leave it by submissions and restarts only.
LEMMA QuietTable ==
    ASSUME IInv, Quiet, NEW t \in TaskIDs
    PROVE  tasks'[t].state # "absent" <=> tasks[t].state # "absent"
<1>1. OrderConsistent /\ OrderConsistent' /\ order' = order
  BY NextInv DEF IInv, Quiet
<1> QED BY <1>1 DEF OrderConsistent, Lists, Known

\* The next task to enqueue is the one after those that are there.
LEMMA NextSubmitted ==
    ASSUME JobsOK, IInv, NEW j \in Jobs, SubmitNext(j),
           NEW n \in 0..Len(manifest[j]), Submitted(j, n)
    PROVE  /\ n < Len(manifest[j]) /\ Enqueue(manifest[j][n + 1])
           /\ manifest[j][n + 1] \in TaskIDs
           /\ handler' = [handler EXCEPT ![j] =
                             IF n + 1 = Len(manifest[j]) THEN "over" ELSE "running"]
<1> DEFINE m == Len(manifest[j])
<1>1. PICK i \in Unsubmitted(j) :
        /\ \A k \in Unsubmitted(j) : i <= k
        /\ Enqueue(manifest[j][i])
        /\ handler' = [handler EXCEPT ![j] = IF i = m THEN "over" ELSE "running"]
  BY DEF SubmitNext
<1>2. i \in 1..m /\ n < i /\ m \in Nat
  BY ManifestType DEF Unsubmitted, Submitted
<1>3. n + 1 \in Unsubmitted(j)
  BY <1>2 DEF Unsubmitted, Submitted
<1>4. i = n + 1
  BY <1>1, <1>2, <1>3
<1> QED BY <1>1, <1>2, <1>4, ManifestType

LEMMA JobsStep == ASSUME IInv, JobsOK, [JobNext]_jobVars PROVE JobsOK'
<1>1. CASE Quiet
  <2>1. ASSUME NEW j \in Jobs PROVE JobOK(j)'
    <3>1. PICK n \in 0..Len(manifest[j]) : Submitted(j, n) /\ HandlerAt(j, n)
      BY DEF JobsOK, JobOK
    <3>2. Submitted(j, n)'
      BY <1>1, <3>1, QuietTable, ManifestType DEF Submitted, Quiet
    <3>3. HandlerAt(j, n)' /\ InOrder(j)'
      BY <1>1, <3>1 DEF HandlerAt, InOrder, Quiet, JobsOK, JobOK
    <3> QED BY <1>1, <3>2, <3>3 DEF JobOK, Quiet
  <2> QED BY <1>1, <2>1 DEF JobsOK, Quiet
<1>2. CASE CoordinatorRestart
  <2>1. /\ manifest' = manifest /\ restarts' = restarts + 1 /\ restarts < MaxRestarts
        /\ handler' = [j \in Jobs |-> IF handler[j] = "running" THEN "cut_off" ELSE handler[j]]
        /\ order' = <<>> /\ \A t \in TaskIDs : tasks'[t].state = "absent"
    BY <1>2 DEF CoordinatorRestart, Absent
  <2>2. restarts' \in 0..MaxRestarts /\ restarts' > 0
    BY <2>1, JobBoundsAssumption DEF JobsOK
  <2>3. ASSUME NEW j \in Jobs PROVE JobOK(j)'
    <3>1. Submitted(j, 0)'
      BY <2>1, ManifestType DEF Submitted
    <3>2. HandlerAt(j, 0)'
      BY <2>2 DEF HandlerAt
    <3>3. InOrder(j)'
      BY <2>1, EmptySeq DEF InOrder
    <3>4. 0 \in 0..Len(manifest'[j])
      BY <2>1, ManifestType
    <3> QED BY <3>1, <3>2, <3>3, <3>4 DEF JobOK
  <2> QED BY <2>1, <2>2, <2>3 DEF JobsOK
<1>3. ASSUME NEW j \in Jobs, SubmitNext(j) PROVE JobsOK'
  <2>1. PICK n \in 0..Len(manifest[j]) : Submitted(j, n)
    BY DEF JobsOK, JobOK
  <2>2. PICK t \in TaskIDs :
          /\ t = manifest[j][n + 1] /\ n < Len(manifest[j])
          /\ tasks[t].state = "absent"
          /\ tasks' = [tasks EXCEPT ![t].state = "queued"] /\ order' = Append(order, t)
          /\ handler' = [handler EXCEPT ![j] =
                            IF n + 1 = Len(manifest[j]) THEN "over" ELSE "running"]
    BY <1>3, <2>1, NextSubmitted DEF Enqueue
  <2>3. UNCHANGED <<manifest, restarts>>
    BY <1>3 DEF SubmitNext
  <2>4. /\ tasks'[t].state = "queued"
        /\ \A u \in TaskIDs \ {t} : tasks'[u] = tasks[u]
    BY <2>2 DEF IInv, TypeOK, Task
  <2>5. /\ order \in Seq(TaskIDs) /\ Len(order) \in Nat /\ Len(order') = Len(order) + 1
        /\ \A p \in 1..Len(order) : order'[p] = order[p]
        /\ order'[Len(order) + 1] = t
        /\ \A p \in 1..Len(order) : tasks[order[p]].state # "absent"
    <3>1. order \in Seq(TaskIDs) /\ \A p \in 1..Len(order) : order[p] \in TaskIDs
      BY ElementOfSeq DEF IInv, TypeOK
    <3>2. \A p \in 1..Len(order) : tasks[order[p]].state # "absent"
      BY <3>1 DEF IInv, OrderConsistent, Lists, Known
    <3> QED BY <2>2, <3>1, <3>2
  <2>6. /\ Len(manifest[j]) \in Nat /\ n \in Nat /\ n + 1 \in 1..Len(manifest[j])
        /\ \A i \in 1..Len(manifest[j]) :
              manifest[j][i] \in TaskIDs /\ (manifest[j][i] = t => i = n + 1)
    <3>1. Len(manifest[j]) \in Nat /\ n \in Nat /\ n + 1 \in 1..Len(manifest[j])
      BY <2>1, <2>2, ManifestType
    <3> QED BY <2>2, <3>1, ManifestType
  <2>7. ASSUME NEW k \in Jobs, k # j, NEW i \in 1..Len(manifest[k])
        PROVE  manifest[k][i] # t /\ manifest[k][i] \in TaskIDs
    BY <2>2, <2>6, <2>7, ManifestType
  <2>8. JobOK(j)'
    <3>1. Submitted(j, n + 1)'
      <4> SUFFICES ASSUME NEW i \in 1..Len(manifest[j])
                   PROVE  tasks'[manifest[j][i]].state # "absent" <=> i <= n + 1
        BY <2>3 DEF Submitted
      <4>2. CASE i = n + 1
        BY <2>2, <2>4, <4>2
      <4>3. CASE i # n + 1
        BY <2>1, <2>4, <2>6, <4>3 DEF Submitted
      <4> QED BY <4>2, <4>3
    <3>2. HandlerAt(j, n + 1)'
      BY <2>2, <2>3 DEF HandlerAt, JobsOK
    <3>3. InOrder(j)'
      <4> SUFFICES ASSUME NEW p \in 1..Len(order'), NEW q \in 1..Len(order'),
                          NEW i \in 1..Len(manifest[j]), NEW k \in 1..Len(manifest[j]),
                          order'[p] = manifest[j][i], order'[q] = manifest[j][k], i < k
                   PROVE  p < q
        BY <2>3 DEF InOrder
      <4>1. CASE p \in 1..Len(order) /\ q \in 1..Len(order)
        BY <2>5, <4>1 DEF JobsOK, JobOK, InOrder
      <4>2. CASE p = Len(order) + 1
        <5>1. i = n + 1
          BY <2>5, <2>6, <4>2
        <5>2. k > n + 1 /\ manifest[j][k] # t
          BY <2>6, <5>1
        <5>3. q \in 1..Len(order)
          BY <2>5, <5>2
        <5>4. k <= n
          BY <2>1, <2>5, <5>3 DEF Submitted
        <5> QED BY <2>6, <5>2, <5>4
      <4>3. CASE p # Len(order) + 1 /\ q = Len(order) + 1
        BY <2>5, <4>3
      <4> QED BY <2>5, <4>1, <4>2, <4>3
    <3>4. n + 1 \in 0..Len(manifest'[j])
      BY <2>1, <2>2, <2>3, ManifestType
    <3> QED BY <3>1, <3>2, <3>3, <3>4 DEF JobOK
  <2>9. ASSUME NEW k \in Jobs, k # j PROVE JobOK(k)'
    <3>1. \A i \in 1..Len(manifest[k]) : manifest[k][i] # t /\ manifest[k][i] \in TaskIDs
      BY <2>7, <2>9
    <3>2. PICK m \in 0..Len(manifest[k]) : Submitted(k, m) /\ HandlerAt(k, m)
      BY DEF JobsOK, JobOK
    <3>3. Submitted(k, m)'
      BY <2>3, <2>4, <3>1, <3>2 DEF Submitted
    <3>4. HandlerAt(k, m)'
      BY <2>2, <2>3, <2>9, <3>2 DEF HandlerAt, JobsOK
    <3>5. InOrder(k)'
      <4> SUFFICES ASSUME NEW p \in 1..Len(order'), NEW q \in 1..Len(order'),
                          NEW i \in 1..Len(manifest[k]), NEW l \in 1..Len(manifest[k]),
                          order'[p] = manifest[k][i], order'[q] = manifest[k][l], i < l
                   PROVE  p < q
        BY <2>3 DEF InOrder
      <4>1. order'[p] # t /\ order'[q] # t
        BY <3>1
      <4>2. p \in 1..Len(order) /\ q \in 1..Len(order)
        <5> HIDE <3>1
        <5> QED BY <2>5, <4>1
      <4> QED BY <2>5, <4>2 DEF JobsOK, JobOK, InOrder
    <3> QED BY <2>3, <3>2, <3>3, <3>4, <3>5 DEF JobOK
  <2> QED BY <2>2, <2>3, <2>8, <2>9 DEF JobsOK
<1> QED BY <1>1, <1>2, <1>3, JobStep

-----------------------------------------------------------------------------
(* What JobTasks returns: the entries of the first n tasks of the manifest.  *)

EntryOf(table, t) == [task |-> t, state |-> table[t].state,
                      attempts |-> table[t].attempts, result |-> table[t].result]

LEMMA JobTasksAre ==
    ASSUME IInv, JobsOK, NEW j \in Jobs, NEW n \in 0..Len(manifest[j]), Submitted(j, n),
           NEW table
    PROVE  JobTasks(table, j) = [i \in 1..n |-> EntryOf(table, manifest[j][i])]
<1> DEFINE places == {p \in 1..Len(order) : order[p] \in Tasks(j)}
           f == [i \in 1..n |-> CHOOSE p \in 1..Len(order) : order[p] = manifest[j][i]]
<1>1. /\ Len(order) \in Nat /\ n \in Nat /\ 1..n \subseteq 1..Len(manifest[j])
      /\ \A p \in 1..Len(order) : order[p] \in TaskIDs
      /\ \A p \in 1..Len(order) : tasks[order[p]].state # "absent"
      /\ \A p, q \in 1..Len(order) : order[p] = order[q] => p = q
      /\ \A t \in TaskIDs : tasks[t].state # "absent" => \E p \in 1..Len(order) : order[p] = t
  <2>1. order \in Seq(TaskIDs) /\ OrderConsistent
    BY DEF IInv, TypeOK
  <2>2. Len(order) \in Nat /\ \A p \in 1..Len(order) : order[p] \in TaskIDs
    BY <2>1, LenProperties, ElementOfSeq
  <2>3. Len(manifest[j]) \in Nat
    BY ManifestType
  <2>4. n \in Nat /\ 1..n \subseteq 1..Len(manifest[j])
    BY <2>3
  <2> QED BY <2>1, <2>2, <2>4 DEF OrderConsistent, Lists, Known
<1>2. \A i \in 1..n : f[i] \in 1..Len(order) /\ order[f[i]] = manifest[j][i]
  <2> SUFFICES ASSUME NEW i \in 1..n
               PROVE  f[i] \in 1..Len(order) /\ order[f[i]] = manifest[j][i]
    OBVIOUS
  <2>1. manifest[j][i] \in TaskIDs /\ tasks[manifest[j][i]].state # "absent"
    BY <1>1, ManifestType DEF Submitted
  <2>2. \E p \in 1..Len(order) : order[p] = manifest[j][i]
    BY <1>1, <2>1
  <2> QED BY <2>2
<1> HIDE DEF f
<1>3. \A i, k \in 1..n : i < k => f[i] < f[k]
  BY <1>1, <1>2 DEF JobsOK, JobOK, InOrder
<1>4. places = {f[i] : i \in 1..n}
  <2>1. ASSUME NEW p \in places PROVE p \in {f[i] : i \in 1..n}
    <3>1. PICK i \in 1..Len(manifest[j]) : order[p] = manifest[j][i]
      BY DEF Tasks
    <3>2. i <= n
      BY <1>1, <3>1 DEF Submitted
    <3>3. i \in 1..n /\ order[f[i]] = order[p]
      BY <1>1, <1>2, <3>1, <3>2
    <3>4. f[i] = p
      BY <1>1, <1>2, <3>3
    <3> QED BY <3>3, <3>4
  <2>2. ASSUME NEW i \in 1..n PROVE f[i] \in places
    BY <1>1, <1>2 DEF Tasks
  <2> QED BY <2>1, <2>2
<1>5. f \in [1..n -> Nat]
  BY <1>1, <1>2 DEF f
<1>6. Cardinality(places) = n /\ \A i \in 1..n : Nth(places, i) = f[i]
  <2> HIDE DEF places
  <2>1. n \in Nat
    BY <1>1
  <2> QED BY <1>3, <1>4, <1>5, <2>1, AscendingNth, Zenon
<1>7. JobTasks(table, j) =
        [i \in 1..Cardinality(places) |-> EntryOf(table, order[Nth(places, i)])]
  BY DEF JobTasks, EntryOf
<1> HIDE DEF places
<1> QED BY <1>2, <1>6, <1>7

\* All of the job's tasks, or none of them.
LEMMA JobTasksWhole ==
    ASSUME IInv, JobsOK, NEW j \in Jobs, handler[j] = "over", NEW table
    PROVE  \/ JobTasks(table, j) = <<>>
           \/ /\ JobTasks(table, j) =
                    [i \in 1..Len(manifest[j]) |-> EntryOf(table, manifest[j][i])]
              /\ \A i \in 1..Len(manifest[j]) : tasks[manifest[j][i]].state # "absent"
<1>1. PICK n \in 0..Len(manifest[j]) : Submitted(j, n) /\ HandlerAt(j, n)
  BY DEF JobsOK, JobOK
<1>2. JobTasks(table, j) = [i \in 1..n |-> EntryOf(table, manifest[j][i])]
  BY <1>1, JobTasksAre
<1>3. CASE n = 0
  <2>1. 1..n = {}
    BY <1>3
  <2>2. JobTasks(table, j) = [i \in {} |-> EntryOf(table, manifest[j][i])]
    BY <1>2, <2>1
  <2> QED BY <2>2
<1>4. CASE n = Len(manifest[j])
  BY <1>1, <1>2, <1>4 DEF Submitted
<1> QED BY <1>1, <1>3, <1>4 DEF HandlerAt

\* An Entry, where the table has one.
LEMMA EntryTyped ==
    ASSUME NEW table \in [TaskIDs -> Task], NEW t \in TaskIDs
    PROVE  EntryOf(table, t) \in Entry
BY DEF EntryOf, Entry, Task

Over == {"completed", "failed"}

\* Screen and API look at the same entries, not swept and swept.
LEMMA ScreensOfInv == ASSUME IInv, JobsOK PROVE ScreensAgree
<1> SUFFICES ASSUME NEW j \in Jobs, JobTasks(tasks, j) # <<>>
             PROVE  LET entries == JobTasks(tasks, j)
                        screen == MonitorState(entries)
                        api == JobState(JobTasks(Swept, j))
                    IN \/ screen = api
                       \/ /\ screen = "running" /\ api \in {"completed", "failed"}
                          /\ \E t \in Tasks(j) : Expired(t)
                       \/ /\ screen = "queued" /\ api = "running"
                          /\ \A i \in 1..Len(entries) : entries[i].state = "queued"
                          /\ \E i \in 1..Len(entries) : entries[i].attempts > 0
  BY DEF ScreensAgree
<1> DEFINE s == JobTasks(tasks, j)
           a == JobTasks(Swept, j)
           m == manifest[j]
<1>1. PICK n \in 0..Len(m) : Submitted(j, n)
  BY DEF JobsOK, JobOK
<1>2. /\ s = [i \in 1..n |-> EntryOf(tasks, m[i])]
      /\ a = [i \in 1..n |-> EntryOf(Swept, m[i])]
  BY <1>1, JobTasksAre
<1>3. /\ n \in Nat /\ tasks \in [TaskIDs -> Task] /\ Swept \in [TaskIDs -> Task]
      /\ \A i \in 1..n : m[i] \in TaskIDs /\ m[i] \in Tasks(j)
  <2>1. Len(m) \in Nat /\ \A i \in 1..Len(m) : m[i] \in TaskIDs /\ m[i] \in Tasks(j)
    BY ManifestType DEF Tasks
  <2>2. tasks \in [TaskIDs -> Task] /\ Swept \in [TaskIDs -> Task]
    BY SweptOK DEF IInv, TypeOK, TableOK
  <2> QED BY <2>1, <2>2
<1> HIDE DEF s, a, m
<1>4. s \in Seq(Entry) /\ a \in Seq(Entry) /\ Len(s) = n /\ Len(a) = n
  <2>1. \A i \in 1..n : EntryOf(tasks, m[i]) \in Entry /\ EntryOf(Swept, m[i]) \in Entry
    BY <1>3, EntryTyped
  <2> QED BY <1>2, <1>3, <2>1
<1>5. ASSUME NEW i \in 1..n
      PROVE  /\ s[i].state \in States \ {"absent"} /\ a[i].state \in States
             /\ s[i].state \in Over => a[i].state = s[i].state
             /\ a[i].state \in Over => a[i].state = s[i].state \/ Expired(m[i])
             /\ s[i].state \in {"leased"} \union Over => a[i].attempts > 0
             /\ a[i].attempts = s[i].attempts
             /\ Expired(m[i]) => s[i].state = "leased"
  <2>1. /\ s[i].state = tasks[m[i]].state /\ a[i].state = Swept[m[i]].state
        /\ a[i].attempts = Swept[m[i]].attempts /\ s[i].attempts = tasks[m[i]].attempts
    BY <1>2 DEF EntryOf
  <2>2. /\ m[i] \in TaskIDs /\ tasks[m[i]] \in Task /\ Swept[m[i]] \in Task
        /\ tasks[m[i]].state # "absent"
    BY <1>1, <1>3 DEF Submitted, m
  <2>3. /\ Swept[m[i]] = IF Expired(m[i]) THEN AfterExpiry(tasks[m[i]]) ELSE tasks[m[i]]
        /\ Expired(m[i]) => tasks[m[i]].state = "leased"
    BY <2>2 DEF Swept, Expired
  <2>4. AfterExpiry(tasks[m[i]]).attempts = tasks[m[i]].attempts
    BY <2>2 DEF AfterExpiry, Requeued, Failed, Task
  <2>5. tasks[m[i]].state \in {"leased"} \union Over => tasks[m[i]].attempts > 0
    BY <2>2, MaxAttemptsAssumption DEF IInv, RetryPolicy, Over, Task
  <2>6. tasks[m[i]].state \in States /\ Swept[m[i]].state \in States
    BY <2>2 DEF Task
  <2> QED BY <2>1, <2>2, <2>3, <2>4, <2>5, <2>6 DEF Over
<1>6. \A states : /\ Count(s, states) \in Nat /\ Count(a, states) \in Nat
                  /\ Count(s, states) = n <=> \A i \in 1..n : s[i].state \in states
                  /\ Count(a, states) = n <=> \A i \in 1..n : a[i].state \in states
                  /\ Count(s, states) > 0 <=> \E i \in 1..n : s[i].state \in states
                  /\ Count(a, states) > 0 <=> \E i \in 1..n : a[i].state \in states
  BY <1>4, Counted
<1>7. JobState(a) =
        IF \A i \in 1..n : a[i].state \in Over
        THEN IF \E i \in 1..n : a[i].state = "failed" THEN "failed" ELSE "completed"
        ELSE IF \E i \in 1..n : a[i].attempts > 0 THEN "running" ELSE "queued"
  BY <1>4, <1>6 DEF JobState, Over
<1>8. MonitorState(s) =
        IF (\E i \in 1..n : s[i].state = "failed") /\ \A i \in 1..n : s[i].state \in Over
        THEN "failed"
        ELSE IF \A i \in 1..n : s[i].state = "completed" THEN "completed"
        ELSE IF \E i \in 1..n : s[i].state \in {"leased"} \union Over THEN "running"
        ELSE "queued"
  <2>1. /\ Count(s, {"failed"}) > 0 <=> \E i \in 1..n : s[i].state = "failed"
        /\ Count(s, Over) = n <=> \A i \in 1..n : s[i].state \in Over
        /\ Count(s, {"completed"}) = n <=> \A i \in 1..n : s[i].state = "completed"
        /\ Count(s, {"leased"} \union Over) > 0
              <=> \E i \in 1..n : s[i].state \in {"leased"} \union Over
    <3>1. /\ Count(s, {"failed"}) > 0 <=> \E i \in 1..n : s[i].state \in {"failed"}
          /\ Count(s, {"completed"}) = n <=> \A i \in 1..n : s[i].state \in {"completed"}
      BY <1>6, Zenon
    <3>2. /\ Count(s, Over) = n <=> \A i \in 1..n : s[i].state \in Over
          /\ Count(s, {"leased"} \union Over) > 0
                <=> \E i \in 1..n : s[i].state \in {"leased"} \union Over
      BY <1>6, Zenon
    <3> QED BY <3>1, <3>2
  <2>2. {"leased"} \union Over = {"leased", "completed", "failed"}
    BY DEF Over
  <2> QED BY <1>4, <2>1, <2>2 DEF MonitorState, Over
<1>9. ASSUME MonitorState(s) \in {"completed", "failed"} PROVE JobState(a) = MonitorState(s)
  <2>1. \A i \in 1..n : s[i].state \in Over /\ a[i].state = s[i].state
    BY <1>5, <1>8, <1>9 DEF Over
  <2> QED BY <1>7, <1>8, <1>9, <2>1 DEF Over
<1>10. ASSUME JobState(a) \in {"completed", "failed"}, MonitorState(s) # JobState(a)
       PROVE  MonitorState(s) = "running" /\ \E t \in Tasks(j) : Expired(t)
  <2>1. \A i \in 1..n : a[i].state \in Over
    BY <1>7, <1>10
  <2>2. \E i \in 1..n : s[i].state \notin Over
    <3>1. SUFFICES ASSUME \A i \in 1..n : s[i].state \in Over PROVE FALSE
      OBVIOUS
    <3>2. \A i \in 1..n : a[i].state = s[i].state
      BY <1>5, <3>1
    <3>3. CASE \E i \in 1..n : s[i].state = "failed"
      <4>1. MonitorState(s) = "failed" /\ JobState(a) = "failed"
        BY <1>7, <1>8, <2>1, <3>1, <3>2, <3>3
      <4> QED BY <1>10, <4>1
    <3>4. CASE ~ \E i \in 1..n : s[i].state = "failed"
      <4>1. \A i \in 1..n : s[i].state = "completed"
        BY <3>1, <3>4 DEF Over
      <4>2. MonitorState(s) = "completed" /\ JobState(a) = "completed"
        BY <1>7, <1>8, <2>1, <3>2, <3>4, <4>1
      <4> QED BY <1>10, <4>2
    <3> QED BY <3>3, <3>4
  <2>3. PICK i \in 1..n : s[i].state \notin Over
    BY <2>2
  <2>4. a[i].state # s[i].state /\ Expired(m[i]) /\ s[i].state = "leased"
    BY <1>5, <2>1, <2>3
  <2> QED BY <1>3, <1>8, <2>3, <2>4 DEF Over
<1>11. ASSUME JobState(a) = "queued" PROVE MonitorState(s) = "queued"
  <2>1. /\ ~ \A i \in 1..n : a[i].state \in Over
        /\ \A i \in 1..n : ~(a[i].attempts > 0)
    BY <1>7, <1>11
  <2>2. n > 0
    BY <1>3, <2>1
  <2>3. \A i \in 1..n : s[i].state \notin {"leased"} \union Over
    BY <1>5, <2>1
  <2> QED BY <1>8, <2>2, <2>3 DEF Over
<1>12. ASSUME JobState(a) = "running", MonitorState(s) = "queued"
       PROVE  /\ \A i \in 1..n : s[i].state = "queued"
              /\ \E i \in 1..n : s[i].attempts > 0
  <2>1. \A i \in 1..n : s[i].state \notin {"leased"} \union Over
    BY <1>8, <1>12
  <2>2. \A i \in 1..n : s[i].state = "queued"
    BY <1>5, <2>1 DEF States, Over
  <2>3. \E i \in 1..n : a[i].attempts > 0
    BY <1>7, <1>12
  <2> QED BY <1>5, <2>2, <2>3
<1>13. /\ MonitorState(s) \in {"completed", "failed", "running", "queued"}
       /\ JobState(a) \in {"completed", "failed", "running", "queued"}
  BY <1>7, <1>8
<1>14. \/ MonitorState(s) = JobState(a)
       \/ /\ MonitorState(s) = "running" /\ JobState(a) \in {"completed", "failed"}
          /\ \E t \in Tasks(j) : Expired(t)
       \/ /\ MonitorState(s) = "queued" /\ JobState(a) = "running"
          /\ \A i \in 1..n : s[i].state = "queued"
          /\ \E i \in 1..n : s[i].attempts > 0
  BY <1>9, <1>10, <1>11, <1>12, <1>13
<1> QED BY <1>4, <1>14 DEF s, a

-----------------------------------------------------------------------------
(* What the commands were told.  An entry of an answer is a task as it was,  *)
(* and a task only gains attempts until it is finished; what is finished is  *)
(* as it was told, or forgotten by a restart, whose task IDs do not return.  *)

Agrees(e) ==
    \/ /\ tasks[e.task].state # "absent" /\ e.attempts <= tasks[e.task].attempts
       /\ e.state \in Over => e = EntryOf(tasks, e.task)
    \/ restarts > 0 /\ tasks[e.task].state = "absent"

Heard(j, answer) ==
    /\ answer \in Seq(Entry)
    /\ answer # <<>> =>
          /\ handler[j] = "over" /\ Len(answer) = Len(manifest[j])
          /\ \A i \in 1..Len(manifest[j]) :
                answer[i].task = manifest[j][i] /\ Agrees(answer[i])

\* What a later answer may say after an earlier one.
Follows(before, after) ==
    \A i \in 1..Len(before) :
        /\ after[i].attempts >= before[i].attempts
        /\ before[i].state \in Over => after[i] = before[i]

Places == {"start", "submitting", "waiting", "polling", "swept", "answered", "returned"}
Asking == {"waiting", "polling", "swept", "answered"}

Told(j) ==
    /\ execute[j] \in Asking => handler[j] = "over"
    /\ Heard(j, reply[j]) /\ Heard(j, view[j])
    /\ view[j] # <<>> /\ reply[j] # <<>> => Follows(view[j], reply[j])

AnswersOK ==
    /\ execute \in [Jobs -> Places]
    /\ reply \in [Jobs -> Seq(Entry)] /\ view \in [Jobs -> Seq(Entry)]
    /\ \A j \in Jobs : Told(j)

\* A submission that was handled to its end is not handled again: what a restart
\* forgets of it stays forgotten.
LEMMA OverStays ==
    ASSUME IInv, JobsOK, [JobNext]_jobVars, NEW j \in Jobs, handler[j] = "over"
    PROVE  /\ handler'[j] = "over" /\ manifest' = manifest
           /\ restarts \in Nat /\ restarts' \in Nat /\ restarts <= restarts'
           /\ \A i \in 1..Len(manifest[j]) :
                 tasks[manifest[j][i]].state = "absent" => tasks'[manifest[j][i]].state = "absent"
<1>1. restarts \in Nat
  BY JobBoundsAssumption DEF JobsOK
<1>2. CASE Quiet
  BY <1>1, <1>2, QuietTable, ManifestType DEF Quiet
<1>3. CASE CoordinatorRestart
  BY <1>1, <1>3, ManifestType DEF CoordinatorRestart, Absent, JobsOK
<1>4. ASSUME NEW k \in Jobs, SubmitNext(k)
      PROVE  /\ handler'[j] = "over" /\ UNCHANGED <<manifest, restarts>>
             /\ \A i \in 1..Len(manifest[j]) :
                   tasks'[manifest[j][i]] = tasks[manifest[j][i]]
  <2>1. k # j /\ UNCHANGED <<manifest, restarts>>
    BY <1>4 DEF SubmitNext
  <2>2. PICK n \in 0..Len(manifest[k]) : Submitted(k, n)
    BY DEF JobsOK, JobOK
  <2>3. /\ n \in Nat /\ Len(manifest[k]) \in Nat
        /\ n < Len(manifest[k]) /\ Enqueue(manifest[k][n + 1])
        /\ handler' = [handler EXCEPT ![k] =
                          IF n + 1 = Len(manifest[k]) THEN "over" ELSE "running"]
    BY <1>4, <2>2, NextSubmitted, ManifestType
  <2>4. n + 1 \in 1..Len(manifest[k])
    BY <2>3
  <2>5. \A i \in 1..Len(manifest[j]) :
          manifest[j][i] \in TaskIDs /\ manifest[j][i] # manifest[k][n + 1]
    BY <2>1, <2>4, ManifestType
  <2>6. \A i \in 1..Len(manifest[j]) : tasks'[manifest[j][i]] = tasks[manifest[j][i]]
    BY <2>3, <2>5 DEF Enqueue, IInv, TypeOK
  <2>7. handler'[j] = "over"
    BY <2>1, <2>3 DEF JobsOK
  <2> QED BY <2>1, <2>6, <2>7
<1> QED BY <1>1, <1>2, <1>3, <1>4, JobStep

LEMMA AgreesStep ==
    ASSUME IInv, JobsOK, [JobNext]_jobVars, NEW j \in Jobs, handler[j] = "over",
           NEW i \in 1..Len(manifest[j]), NEW e \in Entry, e.task = manifest[j][i], Agrees(e)
    PROVE  Agrees(e)'
<1> DEFINE t == manifest[j][i]
<1>1. t \in TaskIDs /\ e.attempts \in Nat /\ e.task = t
  BY ManifestType DEF Entry
<1>2. restarts \in Nat /\ restarts' \in Nat /\ restarts <= restarts'
      /\ (tasks[t].state = "absent" => tasks'[t].state = "absent")
  BY OverStays
<1> HIDE DEF t
<1>3. CASE CoordinatorRestart
  <2>1. restarts' > 0 /\ tasks'[t].state = "absent"
    BY <1>1, <1>2, <1>3 DEF CoordinatorRestart, Absent
  <2> QED BY <1>1, <2>1 DEF Agrees
<1>4. CASE restarts > 0 /\ tasks[t].state = "absent"
  BY <1>1, <1>2, <1>4 DEF Agrees
<1>5. CASE [Next]_vars /\ ~(restarts > 0 /\ tasks[t].state = "absent")
  <2>1. /\ tasks[t].state # "absent" /\ e.attempts <= tasks[t].attempts
        /\ e.state \in Over => e = EntryOf(tasks, t)
    BY <1>1, <1>5 DEF Agrees
  <2>2. tasks'[t].state # "absent" /\ e.attempts <= tasks'[t].attempts
    BY <1>1, <1>5, <2>1, ProgressStep
  <2>3. ASSUME e.state \in Over PROVE e = EntryOf(tasks', t)
    <3>1. tasks[t].state \in Over /\ e = EntryOf(tasks, t)
      BY <2>1, <2>3 DEF EntryOf
    <3>2. tasks'[t] = tasks[t]
      BY <1>1, <1>5, <3>1, TerminalStep DEF Terminal, Over
    <3> QED BY <3>1, <3>2 DEF EntryOf
  <2>4. EntryOf(tasks, e.task)' = EntryOf(tasks', t)
    BY <1>1 DEF EntryOf
  <2> QED BY <1>1, <2>2, <2>3, <2>4 DEF Agrees
<1> QED BY <1>3, <1>4, <1>5, JobStep, SubmitIsStep DEF Quiet

LEMMA HeardStep ==
    ASSUME IInv, JobsOK, [JobNext]_jobVars, NEW j \in Jobs, NEW answer, Heard(j, answer)
    PROVE  Heard(j, answer)'
<1>1. CASE answer = <<>>
  BY <1>1 DEF Heard
<1>2. CASE answer # <<>>
  <2>1. /\ handler[j] = "over" /\ Len(answer) = Len(manifest[j]) /\ answer \in Seq(Entry)
        /\ \A i \in 1..Len(manifest[j]) :
              answer[i].task = manifest[j][i] /\ Agrees(answer[i])
    BY <1>2 DEF Heard
  <2>2. handler'[j] = "over" /\ manifest' = manifest
    BY <2>1, OverStays
  <2>3. ASSUME NEW i \in 1..Len(manifest[j]) PROVE Agrees(answer[i])'
    <3>1. PICK e \in Entry : e = answer[i]
      BY <2>1, ElementOfSeq
    <3>2. Agrees(e)'
      BY <2>1, <3>1, AgreesStep
    <3> QED BY <3>1, <3>2
  <2> QED BY <2>1, <2>2, <2>3 DEF Heard
<1> QED BY <1>1, <1>2

\* What JobTasks returns in the second critical section of a poll.
LEMMA ReadAnswer ==
    ASSUME IInv, JobsOK, AnswersOK, [JobNext]_jobVars, NEW j \in Jobs, JobRead(j),
           NEW answer, reply'[j] = answer
    PROVE  /\ Heard(j, answer)'
           /\ view[j] # <<>> /\ answer # <<>> => Follows(view[j], answer)
<1> DEFINE m == manifest[j]
<1>1. Quiet
  BY DEF JobRead, Quiet, Next, RequeueExpired
<1>2. handler[j] = "over" /\ Heard(j, view[j])
  BY DEF AnswersOK, Told, Asking, JobRead
<1>3. answer = JobTasks(tasks', j)
  BY DEF JobRead, AnswersOK
<1>4. /\ Len(m) \in Nat /\ \A i \in 1..Len(m) : m[i] \in TaskIDs
      /\ handler'[j] = "over" /\ manifest' = manifest
  BY <1>2, ManifestType, OverStays
<1>5. \/ answer = <<>>
      \/ /\ answer = [i \in 1..Len(m) |-> EntryOf(tasks', m[i])]
         /\ \A i \in 1..Len(m) : tasks[m[i]].state # "absent"
  BY <1>2, <1>3, JobTasksWhole
<1>6. CASE answer = <<>>
  BY <1>6 DEF Heard
<1>7. CASE /\ answer = [i \in 1..Len(m) |-> EntryOf(tasks', m[i])]
           /\ \A i \in 1..Len(m) : tasks[m[i]].state # "absent"
  <2> HIDE DEF m
  <2>1. tasks' \in [TaskIDs -> Task]
    BY JobQueueInv DEF IInv, TypeOK
  <2>2. /\ answer \in Seq(Entry) /\ Len(answer) = Len(m)
        /\ \A i \in 1..Len(m) : answer[i] = EntryOf(tasks', m[i])
    BY <1>4, <1>7, <2>1, EntryTyped
  <2>3. ASSUME NEW i \in 1..Len(m)
        PROVE  answer[i].task = m[i] /\ Agrees(answer[i])'
    <3>1. PICK t \in TaskIDs : t = m[i]
      BY <1>4
    <3>2. PICK e : e = answer[i]
      OBVIOUS
    <3>3. e = EntryOf(tasks', t) /\ e.task = t /\ e.attempts = tasks'[t].attempts
      BY <2>2, <3>1, <3>2 DEF EntryOf
    <3>4. tasks'[t].state # "absent" /\ tasks'[t].attempts \in Nat
      BY <1>1, <1>7, <2>1, <3>1, QuietTable DEF Task
    <3>5. EntryOf(tasks, e.task)' = EntryOf(tasks', t)
      BY <3>3 DEF EntryOf
    <3>6. Agrees(e)'
      BY <3>3, <3>4, <3>5 DEF Agrees
    <3> QED BY <3>1, <3>2, <3>3, <3>6
  <2>4. Heard(j, answer)'
    BY <1>4, <2>2, <2>3 DEF Heard, m
  <2>5. ASSUME view[j] # <<>> PROVE Follows(view[j], answer)
    <3>1. /\ view[j] \in Seq(Entry) /\ Len(view[j]) = Len(m)
          /\ \A i \in 1..Len(m) : view[j][i].task = m[i] /\ Agrees(view[j][i])
      BY <1>2, <2>5 DEF Heard, m
    <3>2. ASSUME NEW i \in 1..Len(m)
          PROVE  /\ answer[i].attempts >= view[j][i].attempts
                 /\ view[j][i].state \in Over => answer[i] = view[j][i]
      <4>1. PICK e \in Entry : e = view[j][i]
        BY <3>1, ElementOfSeq
      <4>2. PICK t \in TaskIDs : t = m[i]
        BY <1>4
      <4>3. Agrees(e)'
        BY <1>2, <3>1, <4>1, AgreesStep DEF m
      <4>4. e.task = t /\ e.attempts \in Nat
        BY <3>1, <4>1, <4>2 DEF Entry
      <4>5. tasks'[t].state # "absent" /\ tasks'[t].attempts \in Nat
        BY <1>1, <1>7, <2>1, <4>2, QuietTable DEF Task
      <4>6. EntryOf(tasks, e.task)' = EntryOf(tasks', t)
        BY <4>4 DEF EntryOf
      <4>7. e.attempts <= tasks'[t].attempts /\ (e.state \in Over => e = EntryOf(tasks', t))
        BY <4>3, <4>4, <4>5, <4>6 DEF Agrees
      <4>8. answer[i] = EntryOf(tasks', t) /\ answer[i].attempts = tasks'[t].attempts
        BY <2>2, <4>2 DEF EntryOf
      <4> QED BY <4>1, <4>4, <4>5, <4>7, <4>8
    <3> QED BY <3>1, <3>2 DEF Follows
  <2> QED BY <2>4, <2>5
<1> QED BY <1>5, <1>6, <1>7

\* A tracker changes by the answer that arrives; an answer is read, or gone.
LEMMA ClientStep ==
    ASSUME AnswersOK, [JobNext]_jobVars, NEW j \in Jobs
    PROVE  \/ view'[j] = view[j] /\ (reply'[j] = reply[j] \/ reply'[j] = <<>>)
           \/ view'[j] = view[j] /\ JobRead(j)
           \/ view'[j] = reply[j] /\ reply[j] # <<>> /\ reply'[j] = <<>>
<1> USE DEF AnswersOK
<1>1. ASSUME UNCHANGED <<reply, view>>
      PROVE  view'[j] = view[j] /\ reply'[j] = reply[j]
  BY <1>1
<1>2. ASSUME NEW k \in Jobs, JobRead(k)
      PROVE  view'[j] = view[j] /\ (reply'[j] = reply[j] \/ JobRead(j))
  BY <1>2 DEF JobRead
<1>3. ASSUME NEW k \in Jobs, SubmitFails(k) \/ PollFails(k) \/ StopsWaiting(k)
      PROVE  view'[j] = view[j] /\ (reply'[j] = reply[j] \/ reply'[j] = <<>>)
  BY <1>3 DEF SubmitFails, PollFails, StopsWaiting, Returns
<1>4. ASSUME NEW k \in Jobs, PollArrives(k)
      PROVE  \/ view'[j] = view[j] /\ (reply'[j] = reply[j] \/ reply'[j] = <<>>)
             \/ view'[j] = reply[j] /\ reply[j] # <<>> /\ reply'[j] = <<>>
  <2>1. \/ reply[k] = <<>> /\ view' = view
        \/ reply[k] # <<>> /\ view' = [view EXCEPT ![k] = reply[k]]
    BY <1>4 DEF PollArrives
  <2>2. reply' = [reply EXCEPT ![k] = <<>>]
    <3>1. JobState(reply[k]) \in {"completed", "failed", "queued", "running"}
      BY DEF JobState
    <3> QED BY <1>4, <3>1 DEF PollArrives, Returns
  <2> QED BY <2>1, <2>2
<1>5. ASSUME NEW k \in Jobs,
             \/ SubmitNext(k) \/ JobSweep(k) \/ SendSubmit(k) \/ SubmitArrives(k) \/ SendPoll(k)
             \/ ContextEnds(k) \/ Quit(k) \/ Finish(k)
      PROVE  UNCHANGED <<reply, view>>
  BY <1>5 DEF SubmitNext, JobSweep, SendSubmit, SubmitArrives, SendPoll, ContextEnds, Quit,
              Finish, clientVars
<1>6. ASSUME Work \/ CoordinatorRestart \/ UNCHANGED jobVars PROVE UNCHANGED <<reply, view>>
  BY <1>6 DEF Work, CoordinatorRestart, clientVars, jobVars
<1> QED BY <1>1, <1>2, <1>3, <1>4, <1>5, <1>6 DEF JobNext

\* execute asks for a job whose submission was answered.
LEMMA PlaceStep ==
    ASSUME AnswersOK, [JobNext]_jobVars
    PROVE  /\ execute' \in [Jobs -> Places]
           /\ \A j \in Jobs : execute'[j] \in Asking =>
                 execute[j] \in Asking \/ handler[j] = "over"
<1> USE DEF AnswersOK, Places, Asking
<1>1. ASSUME NEW k \in Jobs, NEW p \in Places, execute' = [execute EXCEPT ![k] = p],
             p \in Asking => execute[k] \in Asking \/ handler[k] = "over"
      PROVE  /\ execute' \in [Jobs -> Places]
             /\ \A j \in Jobs : execute'[j] \in Asking =>
                   execute[j] \in Asking \/ handler[j] = "over"
  BY <1>1
<1>2. ASSUME NEW k \in Jobs, JobSweep(k) \/ JobRead(k) \/ SendPoll(k)
      PROVE  execute[k] \in Asking /\ \E p \in Asking : execute' = [execute EXCEPT ![k] = p]
  BY <1>2 DEF JobSweep, JobRead, SendPoll
<1>3. ASSUME NEW k \in Jobs, PollArrives(k)
      PROVE  execute[k] \in Asking
             /\ \E p \in {"waiting", "returned"} : execute' = [execute EXCEPT ![k] = p]
  <2>1. JobState(reply[k]) \in {"completed", "failed", "queued", "running"}
    BY DEF JobState
  <2> QED BY <1>3, <2>1 DEF PollArrives, Returns
<1>4. ASSUME NEW k \in Jobs, SubmitFails(k) \/ PollFails(k) \/ StopsWaiting(k)
      PROVE  execute' = [execute EXCEPT ![k] = "returned"]
  BY <1>4 DEF SubmitFails, PollFails, StopsWaiting, Returns
<1>5. ASSUME NEW k \in Jobs, SendSubmit(k)
      PROVE  execute' = [execute EXCEPT ![k] = "submitting"]
  BY <1>5 DEF SendSubmit
<1>6. ASSUME NEW k \in Jobs, SubmitArrives(k)
      PROVE  execute' = [execute EXCEPT ![k] = "waiting"] /\ handler[k] = "over"
  BY <1>6 DEF SubmitArrives
<1>7. ASSUME NEW k \in Jobs, SubmitNext(k) \/ ContextEnds(k) \/ Quit(k) \/ Finish(k)
      PROVE  execute' = execute
  BY <1>7 DEF SubmitNext, ContextEnds, Quit, Finish, clientVars
<1>8. ASSUME Work \/ CoordinatorRestart \/ UNCHANGED jobVars PROVE execute' = execute
  BY <1>8 DEF Work, CoordinatorRestart, clientVars, jobVars
<1> QED BY <1>1, <1>2, <1>3, <1>4, <1>5, <1>6, <1>7, <1>8 DEF JobNext

\* One command's reply or view at a time.
LEMMA OneClient ==
    ASSUME [JobNext]_jobVars
    PROVE  /\ reply' = reply \/ \E k \in Jobs : \E a : reply' = [reply EXCEPT ![k] = a]
           /\ view' = view \/ \E k \in Jobs : \E a : view' = [view EXCEPT ![k] = a]
<1>1. ASSUME NEW k \in Jobs, PollArrives(k)
      PROVE  /\ reply' = [reply EXCEPT ![k] = <<>>]
             /\ view' = view \/ view' = [view EXCEPT ![k] = reply[k]]
  <2>1. JobState(reply[k]) \in {"completed", "failed", "queued", "running"}
    BY DEF JobState
  <2> QED BY <1>1, <2>1 DEF PollArrives, Returns
<1>2. ASSUME NEW k \in Jobs, JobRead(k)
      PROVE  view' = view /\ reply' = [reply EXCEPT ![k] = JobTasks(tasks', k)]
  BY <1>2 DEF JobRead
<1>3. ASSUME NEW k \in Jobs, SubmitFails(k) \/ PollFails(k) \/ StopsWaiting(k)
      PROVE  view' = view /\ reply' = [reply EXCEPT ![k] = <<>>]
  BY <1>3 DEF SubmitFails, PollFails, StopsWaiting, Returns
<1>4. ASSUME NEW k \in Jobs,
             \/ SubmitNext(k) \/ JobSweep(k) \/ SendSubmit(k) \/ SubmitArrives(k) \/ SendPoll(k)
             \/ ContextEnds(k) \/ Quit(k) \/ Finish(k)
      PROVE  UNCHANGED <<reply, view>>
  BY <1>4 DEF SubmitNext, JobSweep, SendSubmit, SubmitArrives, SendPoll, ContextEnds, Quit,
              Finish, clientVars
<1>5. ASSUME Work \/ CoordinatorRestart \/ UNCHANGED jobVars PROVE UNCHANGED <<reply, view>>
  BY <1>5 DEF Work, CoordinatorRestart, clientVars, jobVars
<1>6. CASE \E k \in Jobs : PollArrives(k)
  BY <1>1, <1>6
<1>7. CASE \E k \in Jobs : JobRead(k)
  BY <1>2, <1>7
<1> QED BY <1>3, <1>4, <1>5, <1>6, <1>7 DEF JobNext

LEMMA AnswersStep ==
    ASSUME IInv, JobsOK, AnswersOK, [JobNext]_jobVars
    PROVE  AnswersOK'
<1>1. ASSUME NEW j \in Jobs PROVE Told(j)' /\ view'[j] \in Seq(Entry) /\ reply'[j] \in Seq(Entry)
  <2>1. execute'[j] \in Asking => handler'[j] = "over"
    BY PlaceStep, OverStays DEF AnswersOK, Told, Asking
  <2>2. PICK r, v : r = reply[j] /\ v = view[j]
    OBVIOUS
  <2>3. PICK s, w : s = reply'[j] /\ w = view'[j]
    OBVIOUS
  <2>4. Heard(j, r)' /\ Heard(j, v)' /\ (v # <<>> /\ r # <<>> => Follows(v, r))
    BY <2>2, HeardStep DEF AnswersOK, Told
  <2>5. Heard(j, <<>>)'
    BY EmptySeq DEF Heard
  <2>6. Heard(j, s)' /\ Heard(j, w)' /\ (w # <<>> /\ s # <<>> => Follows(w, s))
    <3>1. CASE w = v /\ (s = r \/ s = <<>>)
      BY <2>4, <2>5, <3>1
    <3>2. CASE w = v /\ JobRead(j)
      BY <2>2, <2>3, <2>4, <3>2, ReadAnswer
    <3>3. CASE w = r /\ s = <<>>
      BY <2>4, <2>5, <3>3
    <3> QED BY <2>2, <2>3, <3>1, <3>2, <3>3, ClientStep
  <2>7. Heard(j, reply[j])' /\ Heard(j, view[j])'
    BY <2>3, <2>6 DEF Heard
  <2>8. (view'[j] # <<>> /\ reply'[j] # <<>> => Follows(view[j], reply[j])')
    BY <2>3, <2>6 DEF Follows
  <2> QED BY <2>1, <2>3, <2>6, <2>7, <2>8 DEF Told, Heard, Asking
<1>2. reply' \in [Jobs -> Seq(Entry)] /\ view' \in [Jobs -> Seq(Entry)]
  <2>1. /\ reply' = [j \in Jobs |-> reply'[j]]
        /\ view' = [j \in Jobs |-> view'[j]]
    BY OneClient DEF AnswersOK
  <2> QED BY <1>1, <2>1, Zenon
<1> QED BY <1>1, <1>2, PlaceStep DEF AnswersOK, Places

-----------------------------------------------------------------------------
(* How a command ends. *)

Errors == {"none", "job_failed", "stopped_waiting", "request"}

\* Where execute is, what it returned, how the command ended and what it left.
Accords(place, answer, error, end, file) ==
    /\ place # "returned" => error = "none" /\ end = "running"
    /\ place = "returned" /\ error = "none" => answer # <<>> /\ JobState(answer) = "completed"
    /\ error = "job_failed" => answer # <<>> /\ JobState(answer) = "failed"
    /\ answer # <<>> /\ JobState(answer) \in Over =>
          place = "returned" /\ error \in {"none", "job_failed"}
    /\ end \in {"none", "job_failed"} => file = answer /\ error = end

Outcome(j) == Accords(execute[j], view[j], err[j], exit[j], exported[j])

CommandsOK ==
    /\ live \in [Jobs -> BOOLEAN] /\ quit \in [Jobs -> BOOLEAN]
    /\ err \in [Jobs -> Errors]
    /\ exit \in [Jobs -> Errors \union {"running", "not_written"}]
    /\ exported \in [Jobs -> Seq(Entry)]
    /\ \A j \in Jobs : Outcome(j)

LEMMA StateFinished ==
    ASSUME NEW entries, entries # <<>>, JobState(entries) \in Over
    PROVE  Finished(entries)
BY DEF JobState, Finished, Over

\* One command's step: the others' variables stay, and its own are typed.
CommandOnly(j) ==
    /\ live' \in [Jobs -> BOOLEAN] /\ quit' \in [Jobs -> BOOLEAN] /\ err' \in [Jobs -> Errors]
    /\ exit' \in [Jobs -> Errors \union {"running", "not_written"}]
    /\ exported' \in [Jobs -> Seq(Entry)]
    /\ \A k \in Jobs : k # j =>
          /\ execute'[k] = execute[k] /\ view'[k] = view[k] /\ err'[k] = err[k]
          /\ exit'[k] = exit[k] /\ exported'[k] = exported[k]

LEMMA OneCommand ==
    ASSUME CommandsOK, NEW j \in Jobs, CommandOnly(j),
           Accords(execute'[j], view'[j], err'[j], exit'[j], exported'[j])
    PROVE  CommandsOK'
<1>1. ASSUME NEW k \in Jobs
      PROVE  Outcome(k)' <=> Accords(execute'[k], view'[k], err'[k], exit'[k], exported'[k])
  BY DEF Outcome, Accords, JobState, Count
<1>2. ASSUME NEW k \in Jobs, k # j
      PROVE  Accords(execute'[k], view'[k], err'[k], exit'[k], exported'[k])
  BY <1>2 DEF CommandOnly, CommandsOK, Outcome
<1>3. \A k \in Jobs : Outcome(k)'
  BY <1>1, <1>2
<1> QED BY <1>3 DEF CommandsOK, CommandOnly

LEMMA CommandsStep ==
    ASSUME AnswersOK, CommandsOK, [JobNext]_jobVars
    PROVE  CommandsOK'
<1>0. ASSUME NEW j \in Jobs
      PROVE  /\ execute[j] \in Places /\ view[j] \in Seq(Entry)
             /\ err[j] \in Errors /\ exported[j] \in Seq(Entry)
             /\ Accords(execute[j], view[j], err[j], exit[j], exported[j])
  BY DEF AnswersOK, CommandsOK, Outcome
<1>1. ASSUME UNCHANGED <<execute, view, live, quit, err, exit, exported>> PROVE CommandsOK'
  BY <1>1 DEF CommandsOK, Outcome, Accords, JobState, Count
<1>2. ASSUME Work \/ CoordinatorRestart \/ UNCHANGED jobVars PROVE CommandsOK'
  BY <1>1, <1>2 DEF Work, CoordinatorRestart, clientVars, jobVars
<1>3. ASSUME NEW j \in Jobs, SubmitNext(j) PROVE CommandsOK'
  BY <1>1, <1>3 DEF SubmitNext, clientVars
<1>4. ASSUME NEW j \in Jobs, NEW p \in Places \ {"returned"},
             execute[j] # "returned", execute' = [execute EXCEPT ![j] = p],
             UNCHANGED <<view, live, quit, err, exit, exported>>
      PROVE  CommandsOK'
  <2>1. CommandOnly(j) /\ execute'[j] = p
    BY <1>4 DEF CommandOnly, CommandsOK, AnswersOK
  <2>2. Accords(execute'[j], view'[j], err'[j], exit'[j], exported'[j])
    BY <1>0, <1>4, <2>1 DEF Accords
  <2> QED BY <2>1, <2>2, OneCommand
<1>5. ASSUME NEW j \in Jobs,
             JobSweep(j) \/ JobRead(j) \/ SendSubmit(j) \/ SubmitArrives(j) \/ SendPoll(j)
      PROVE  CommandsOK'
  BY <1>4, <1>5 DEF JobSweep, JobRead, SendSubmit, SubmitArrives, SendPoll, Places
<1>6. ASSUME NEW j \in Jobs, NEW e \in {"request", "stopped_waiting"}, execute[j] # "returned",
             execute' = [execute EXCEPT ![j] = "returned"], err' = [err EXCEPT ![j] = e],
             UNCHANGED <<view, live, quit, exit, exported>>
      PROVE  CommandsOK'
  <2>1. CommandOnly(j) /\ execute'[j] = "returned" /\ err'[j] = e
    BY <1>6 DEF CommandOnly, CommandsOK, AnswersOK, Errors
  <2>2. Accords(execute'[j], view'[j], err'[j], exit'[j], exported'[j])
    BY <1>0, <1>6, <2>1 DEF Accords
  <2> QED BY <2>1, <2>2, OneCommand
<1>7. ASSUME NEW j \in Jobs, SubmitFails(j) \/ PollFails(j) \/ StopsWaiting(j)
      PROVE  CommandsOK'
  BY <1>6, <1>7 DEF SubmitFails, PollFails, StopsWaiting, Returns
<1>8. ASSUME NEW j \in Jobs, PollArrives(j) PROVE CommandsOK'
  <2>1. /\ UNCHANGED <<live, quit, exit, exported>>
        /\ execute[j] # "returned" /\ err[j] = "none" /\ exit[j] = "running"
    BY <1>0, <1>8 DEF PollArrives, Accords
  <2>2. CASE reply[j] = <<>>
    BY <1>6, <1>8, <2>1, <2>2 DEF PollArrives, Returns
  <2>3. CASE reply[j] # <<>>
    <3>1. view' = [view EXCEPT ![j] = reply[j]]
      BY <1>8, <2>3 DEF PollArrives
    <3>2. JobState(reply[j]) \in {"completed", "failed", "queued", "running"}
      BY DEF JobState
    <3>3. \E p \in Places, e \in Errors :
            /\ execute' = [execute EXCEPT ![j] = p] /\ err' = [err EXCEPT ![j] = e]
            /\ p # "returned" => e = "none"
            /\ p = "returned" /\ e = "none" => JobState(reply[j]) = "completed"
            /\ e = "job_failed" => JobState(reply[j]) = "failed"
            /\ JobState(reply[j]) \in Over => p = "returned" /\ e \in {"none", "job_failed"}
      <4>1. CASE JobState(reply[j]) = "completed"
        BY <1>8, <2>3, <4>1 DEF PollArrives, Returns, Places, Errors, Over
      <4>2. CASE JobState(reply[j]) = "failed"
        BY <1>8, <2>3, <4>2 DEF PollArrives, Returns, Places, Errors, Over
      <4>3. CASE JobState(reply[j]) \in {"queued", "running"}
        <5>1. execute' = [execute EXCEPT ![j] = "waiting"] /\ err' = err
          BY <1>8, <2>3, <4>3 DEF PollArrives
        <5>2. err' = [err EXCEPT ![j] = "none"]
          BY <2>1, <5>1 DEF CommandsOK
        <5>3. JobState(reply[j]) \notin Over
          BY <4>3 DEF Over
        <5> QED BY <5>1, <5>2, <5>3 DEF Places, Errors
      <4> QED BY <3>2, <4>1, <4>2, <4>3
    <3>4. PICK p \in Places, e \in Errors :
            /\ execute' = [execute EXCEPT ![j] = p] /\ err' = [err EXCEPT ![j] = e]
            /\ p # "returned" => e = "none"
            /\ p = "returned" /\ e = "none" => JobState(reply[j]) = "completed"
            /\ e = "job_failed" => JobState(reply[j]) = "failed"
            /\ JobState(reply[j]) \in Over => p = "returned" /\ e \in {"none", "job_failed"}
      BY <3>3
    <3>5. CommandOnly(j) /\ execute'[j] = p /\ err'[j] = e /\ view'[j] = reply[j]
      BY <2>1, <3>1, <3>4 DEF CommandOnly, CommandsOK, AnswersOK
    <3>6. Accords(execute'[j], view'[j], err'[j], exit'[j], exported'[j])
      BY <2>1, <2>3, <3>4, <3>5 DEF Accords
    <3> QED BY <3>5, <3>6, OneCommand
  <2> QED BY <2>2, <2>3
<1>9. ASSUME NEW j \in Jobs, ContextEnds(j) \/ Quit(j) PROVE CommandsOK'
  <2>1. CommandOnly(j) /\ UNCHANGED <<execute, view, err, exit, exported>>
    BY <1>9 DEF ContextEnds, Quit, CommandOnly, CommandsOK
  <2> QED BY <1>0, <2>1, OneCommand
<1>10. ASSUME NEW j \in Jobs, Finish(j) PROVE CommandsOK'
  <2> DEFINE e == IF quit[j] /\ err[j] = "none" THEN "stopped_waiting" ELSE err[j]
  <2>1. /\ execute[j] = "returned"
        /\ \/ exit' = [exit EXCEPT ![j] = e] /\ exported' = [exported EXCEPT ![j] = view[j]]
           \/ exit' = [exit EXCEPT ![j] = "not_written"] /\ UNCHANGED exported
           \/ ~Finished(view[j]) /\ exit' = [exit EXCEPT ![j] = e] /\ UNCHANGED exported
        /\ UNCHANGED <<execute, view, live, quit, err>>
    BY <1>10 DEF Finish, WriteResults
  <2>2. e \in Errors /\ (e \in {"none", "job_failed"} => err[j] = e)
    BY <1>0 DEF Errors
  <2> HIDE DEF e
  <2>3. err[j] \in {"none", "job_failed"} => Finished(view[j])
    BY <1>0, <2>1, StateFinished DEF Accords, Over
  <2>4. CommandOnly(j)
    BY <1>0, <2>1, <2>2 DEF CommandOnly, CommandsOK
  <2>5. \/ exit'[j] = e /\ exported'[j] = view[j]
        \/ exit'[j] = "not_written"
        \/ exit'[j] = e /\ ~Finished(view[j])
    BY <2>1 DEF CommandsOK
  <2>6. Accords(execute'[j], view'[j], err'[j], exit'[j], exported'[j])
    BY <1>0, <2>1, <2>2, <2>3, <2>5 DEF Accords
  <2> QED BY <2>4, <2>6, OneCommand
<1> QED BY <1>2, <1>3, <1>5, <1>7, <1>8, <1>9, <1>10 DEF JobNext

-----------------------------------------------------------------------------
(* Invariance *)

JobInv == IInv /\ JobsOK /\ AnswersOK /\ CommandsOK

LEMMA JobInitInv == JobInit => JobInv
<1> SUFFICES ASSUME JobInit PROVE JobInv
  OBVIOUS
<1>1. IInv
  BY InitInv DEF JobInit
<1>2. JobsOK
  <2>1. manifest \in Manifests /\ order = <<>> /\ \A t \in TaskIDs : tasks[t].state = "absent"
    BY DEF JobInit, Init, Absent
  <2>2. /\ handler \in [Jobs -> {"none", "running", "over", "cut_off"}]
        /\ restarts \in 0..MaxRestarts
    BY JobBoundsAssumption DEF JobInit
  <2>3. ASSUME NEW j \in Jobs PROVE JobOK(j)
    <3>1. /\ Len(manifest[j]) \in Nat
          /\ \A i \in 1..Len(manifest[j]) : manifest[j][i] \in TaskIDs
      BY <2>1, ManifestAssumption, LenProperties, ElementOfSeq
    <3>2. Submitted(j, 0) /\ 0 \in 0..Len(manifest[j])
      BY <2>1, <3>1 DEF Submitted
    <3>3. HandlerAt(j, 0)
      BY DEF HandlerAt, JobInit
    <3>4. InOrder(j)
      BY <2>1, EmptySeq DEF InOrder
    <3> QED BY <3>2, <3>3, <3>4 DEF JobOK
  <2> QED BY <2>1, <2>2, <2>3 DEF JobsOK
<1>3. AnswersOK
  BY EmptySeq DEF AnswersOK, Told, Heard, JobInit, Places, Asking
<1>4. CommandsOK
  BY EmptySeq DEF CommandsOK, Outcome, Accords, JobInit, Errors
<1> QED BY <1>1, <1>2, <1>3, <1>4 DEF JobInv

LEMMA JobNextInv == JobInv /\ [JobNext]_jobVars => JobInv'
BY JobQueueInv, JobsStep, AnswersStep, CommandsStep DEF JobInv

LEMMA JobInvariant == JobSpec => []JobInv
BY JobInitInv, JobNextInv, PTL DEF JobSpec

-----------------------------------------------------------------------------
(* What it says of jobs and commands. *)

LEMMA ViewOf ==
    ASSUME JobInv, NEW j \in Jobs
    PROVE  Heard(j, view[j])
BY DEF JobInv, AnswersOK, Told

\* Every reachable state of the coordinator and its commands is well formed, for
\* any number of jobs, of any sizes, and of restarts.
THEOREM JobTypeCorrect == JobSpec => []JobTypeOK
<1>1. ASSUME JobInv PROVE JobTypeOK
  <2>1. \A j \in Jobs : {reply[j], view[j], exported[j]} \subseteq Seq(Entry)
    BY <1>1 DEF JobInv, AnswersOK, CommandsOK
  <2> QED BY <1>1, <2>1
          DEF JobTypeOK, JobInv, IInv, JobsOK, AnswersOK, CommandsOK, Places, Errors
<1> QED BY <1>1, JobInvariant, PTL

\* handlePullJob answers with all of a job's tasks in manifest order, or none,
\* although handlePullSubmit enqueues one at a time: nobody knows the job's ID
\* before it is through.
THEOREM JobsReportedWhole == JobSpec => []WholeJobInOrder
<1>1. ASSUME JobInv PROVE WholeJobInOrder
  <2> SUFFICES ASSUME NEW j \in Jobs, view[j] # <<>>
               PROVE  [i \in 1..Len(view[j]) |-> view[j][i].task] = manifest[j]
    BY DEF WholeJobInOrder
  <2>1. /\ Len(view[j]) = Len(manifest[j])
        /\ \A i \in 1..Len(manifest[j]) : view[j][i].task = manifest[j][i]
    BY <1>1, ViewOf DEF Heard
  <2>2. manifest[j] \in Seq(TaskIDs)
    BY <1>1, ManifestType DEF JobInv
  <2>3. manifest[j] = [i \in 1..Len(manifest[j]) |-> manifest[j][i]]
    BY <2>2
  <2> QED BY <2>1, <2>3
<1> QED BY <1>1, JobInvariant, PTL

\* Where a command's view says the job has ended, it says what the queue has for
\* each task, or had before a restart.
THEOREM FinalViewsStand == JobSpec => []FinalViewIsTrue
<1>1. ASSUME JobInv PROVE FinalViewIsTrue
  <2> SUFFICES ASSUME NEW j \in Jobs, Finished(view[j]), NEW i \in 1..Len(view[j])
               PROVE  LET task == tasks[view[j][i].task]
                      IN \/ /\ view[j][i].state = task.state
                            /\ view[j][i].attempts = task.attempts
                            /\ view[j][i].result = task.result
                         \/ restarts > 0 /\ task.state = "absent"
    BY DEF FinalViewIsTrue
  <2>1. view[j] \in Seq(Entry) /\ view[j] # <<>> /\ Count(view[j], Over) = Len(view[j])
    BY <1>1, ViewOf DEF Heard, Finished, Over
  <2>2. view[j][i].state \in Over
    BY <2>1, Counted
  <2>3. Agrees(view[j][i])
    BY <1>1, <2>1, ViewOf DEF Heard
  <2> QED BY <2>2, <2>3 DEF Agrees, EntryOf
<1> QED BY <1>1, JobInvariant, PTL

\* runSubmit succeeds only with a file that has every task completed, and reports
\* a failed job only with a file that has every task finished and one failed.
THEOREM ExitsTellTheOutcome == JobSpec => []ExitTellsOutcome
<1>1. ASSUME JobInv PROVE ExitTellsOutcome
  <2> SUFFICES ASSUME NEW j \in Jobs
               PROVE  /\ exit[j] = "none" =>
                            /\ Len(exported[j]) = Len(manifest[j])
                            /\ \A i \in 1..Len(exported[j]) : exported[j][i].state = "completed"
                      /\ exit[j] = "job_failed" =>
                            /\ Finished(exported[j]) /\ Len(exported[j]) = Len(manifest[j])
                            /\ \E i \in 1..Len(exported[j]) : exported[j][i].state = "failed"
    BY DEF ExitTellsOutcome
  <2> DEFINE v == view[j]
  <2>1. /\ v \in Seq(Entry) /\ (v # <<>> => Len(v) = Len(manifest[j]))
        /\ Accords(execute[j], v, err[j], exit[j], exported[j])
    BY <1>1, ViewOf DEF Heard, JobInv, CommandsOK, Outcome
  <2> HIDE DEF v
  <2>2. ASSUME v # <<>>
        PROVE  /\ JobState(v) = "completed" => \A i \in 1..Len(v) : v[i].state = "completed"
               /\ JobState(v) = "failed" =>
                     Finished(v) /\ \E i \in 1..Len(v) : v[i].state = "failed"
    <3>1. /\ Count(v, Over) = Len(v) <=> \A i \in 1..Len(v) : v[i].state \in Over
          /\ Count(v, {"failed"}) > 0 <=> \E i \in 1..Len(v) : v[i].state \in {"failed"}
      BY <2>1, Counted
    <3>2. JobState(v) = IF Count(v, Over) = Len(v)
                        THEN IF Count(v, {"failed"}) > 0 THEN "failed" ELSE "completed"
                        ELSE IF \E i \in 1..Len(v) : v[i].attempts > 0 THEN "running"
                        ELSE "queued"
      BY DEF JobState, Over
    <3> QED BY <2>2, <3>1, <3>2 DEF Finished, Over
  <2>3. ASSUME exit[j] = "none"
        PROVE  exported[j] = v /\ v # <<>> /\ JobState(v) = "completed"
    BY <2>1, <2>3 DEF Accords
  <2>4. ASSUME exit[j] = "job_failed"
        PROVE  exported[j] = v /\ v # <<>> /\ JobState(v) = "failed"
    BY <2>1, <2>4 DEF Accords
  <2> QED BY <2>1, <2>2, <2>3, <2>4
<1> QED BY <1>1, JobInvariant, PTL

\* MonitorSnapshot and handlePullJob say the same of a job, but for a lease that ran
\* out and nobody has swept (running, where it is finished) and for a task that waits
\* to be tried again while none is claimed or finished (queued, where it is running).
THEOREM ScreenAndApiAgree == JobSpec => []ScreensAgree
BY JobInvariant, ScreensOfInv, PTL DEF JobInv

LEMMA ViewStep ==
    ASSUME JobInv, [JobNext]_jobVars, NEW j \in Jobs, NEW i \in 1..Len(view[j])
    PROVE  /\ view'[j][i].attempts >= view[j][i].attempts
           /\ view[j][i].state \in Over => view'[j][i] = view[j][i]
<1>1. view[j] \in Seq(Entry) /\ view[j] # <<>>
  <2>1. view[j] \in Seq(Entry)
    BY ViewOf DEF Heard
  <2>2. Len(view[j]) # 0
    BY <2>1, LenProperties
  <2> QED BY <2>1, <2>2, EmptySeq
<1>2. view[j][i].attempts \in Nat
  <2>1. view[j][i] \in Entry
    BY <1>1, ElementOfSeq
  <2> QED BY <2>1 DEF Entry
<1>3. reply[j] # <<>> => Follows(view[j], reply[j])
  BY <1>1 DEF JobInv, AnswersOK, Told
<1>4. view'[j] = view[j] \/ (view'[j] = reply[j] /\ reply[j] # <<>>)
  BY ClientStep DEF JobInv
<1> QED BY <1>2, <1>3, <1>4 DEF Follows

\* No answer, early or late, takes back what tracker.Update was told before it.
THEOREM ProgressIsKept == JobSpec => ProgressNeverRetracted
<1> DEFINE Kept == \A j \in Jobs : \A i \in 1..Len(view[j]) :
                      /\ view'[j][i].attempts >= view[j][i].attempts
                      /\ view[j][i].state \in Over => view'[j][i] = view[j][i]
<1>1. JobInv /\ [JobNext]_jobVars => [Kept]_jobVars
  BY ViewStep
<1>2. JobSpec => [][Kept]_jobVars
  BY <1>1, JobInvariant, PTL DEF JobSpec
<1> QED BY <1>2 DEF ProgressNeverRetracted, Over

-----------------------------------------------------------------------------
(* The refinement of JobPromise. *)

\* What the promise calls an answer on its way, and what the tracker has heard.
Saying(place, entries) ==
    IF place # "answered" THEN "none" ELSE IF entries = <<>> THEN "lost" ELSE Word(entries)

Hears(entries) == IF entries = <<>> THEN "nothing" ELSE Word(entries)

Ended == {"completed", "failed"}

PromiseStep(j) == UNCHANGED Promise(j)!promiseVars \/ Promise(j)!PromiseNext

LEMMA WordIs ==
    ASSUME NEW entries
    PROVE  /\ Word(entries) \in Ended \union {"open"}
           /\ entries # <<>> =>
                 /\ Word(entries) \in Ended <=> JobState(entries) \in Over
                 /\ Word(entries) \in Ended => Word(entries) = JobState(entries)
BY DEF Word, Finished, JobState, Ended, Over

\* While the submission is handled, and once it has been, for each way the
\* coordinator can move.
FateMoves(before, after) ==
    \/ after = before
    \/ before \in {"none", "partial"} /\ after \in {"partial", "open"}
    \/ before = "open" /\ after \in Ended
    \/ before # "none" /\ after = "lost"

\* The fate of a job whose submission is over, by its manifest.
Standing(table, m) ==
    IF \A i \in 1..Len(m) : table[m[i]].state = "absent" THEN "lost"
    ELSE IF \E i \in 1..Len(m) : ~Terminal(table[m[i]]) THEN "open"
    ELSE IF \E i \in 1..Len(m) : table[m[i]].state = "failed" THEN "failed"
    ELSE "completed"

LEMMA FateIs ==
    ASSUME NEW j \in Jobs
    PROVE  /\ FateOf(j) = CASE handler[j] = "none" -> "none"
                            [] handler[j] = "running" -> "partial"
                            [] handler[j] = "cut_off" -> "lost"
                            [] handler[j] = "over" -> Standing(tasks, manifest[j])
           /\ FateOf(j)' = CASE handler'[j] = "none" -> "none"
                             [] handler'[j] = "running" -> "partial"
                             [] handler'[j] = "cut_off" -> "lost"
                             [] handler'[j] = "over" -> Standing(tasks', manifest'[j])
BY DEF FateOf, Standing, Tasks, Terminal

\* All of the tasks of such a job are there, or none is.
LEMMA OverWhole ==
    ASSUME JobsOK, NEW j \in Jobs, handler[j] = "over"
    PROVE  \/ \A i \in 1..Len(manifest[j]) : tasks[manifest[j][i]].state = "absent"
           \/ /\ \A i \in 1..Len(manifest[j]) : tasks[manifest[j][i]].state # "absent"
              /\ Len(manifest[j]) # 0
<1>1. PICK n \in 0..Len(manifest[j]) : Submitted(j, n) /\ HandlerAt(j, n)
  BY DEF JobsOK, JobOK
<1>2. Len(manifest[j]) \in Nat
  BY ManifestType
<1> QED BY <1>1, <1>2 DEF Submitted, HandlerAt

\* Nothing but the verdict of an open job moves without a submission or a restart.
LEMMA QuietFate ==
    ASSUME IInv, JobsOK, Quiet, NEW j \in Jobs
    PROVE  FateOf(j)' = FateOf(j) \/ (FateOf(j) = "open" /\ FateOf(j)' \in Ended)
<1> DEFINE m == manifest[j]
<1>1. manifest' = manifest /\ handler' = handler /\ [Next]_vars
  BY DEF Quiet
<1>2. /\ Len(m) \in Nat
      /\ \A i \in 1..Len(m) :
            /\ m[i] \in TaskIDs
            /\ tasks'[m[i]].state # "absent" <=> tasks[m[i]].state # "absent"
            /\ Terminal(tasks[m[i]]) => tasks'[m[i]] = tasks[m[i]]
  BY <1>1, ManifestType, QuietTable, TerminalStep
<1> HIDE DEF m
<1>3. CASE handler[j] = "over"
  <2>1. \/ \A i \in 1..Len(m) : tasks[m[i]].state = "absent"
        \/ \A i \in 1..Len(m) : tasks[m[i]].state # "absent"
    BY <1>3, OverWhole DEF m
  <2>2. \/ Standing(tasks', m) = Standing(tasks, m)
        \/ Standing(tasks, m) = "open" /\ Standing(tasks', m) \in Ended
    <3>1. CASE \A i \in 1..Len(m) : tasks[m[i]].state = "absent"
      BY <1>2, <3>1 DEF Standing
    <3>2. CASE /\ \A i \in 1..Len(m) : tasks[m[i]].state # "absent"
               /\ \A i \in 1..Len(m) : Terminal(tasks[m[i]])
      BY <1>2, <3>2 DEF Standing
    <3>3. CASE /\ \A i \in 1..Len(m) : tasks[m[i]].state # "absent"
               /\ \E i \in 1..Len(m) : ~Terminal(tasks[m[i]])
      <4>1. Standing(tasks, m) = "open" /\ Standing(tasks', m) \in {"open"} \union Ended
        BY <1>2, <3>3 DEF Standing, Ended
      <4> QED BY <4>1
    <3> QED BY <2>1, <3>1, <3>2, <3>3
  <2> QED BY <1>1, <1>3, <2>2, FateIs DEF m
<1>4. CASE handler[j] # "over"
  BY <1>1, <1>4, FateIs DEF JobsOK
<1> QED BY <1>3, <1>4

LEMMA FateStep ==
    ASSUME IInv, JobsOK, [JobNext]_jobVars, NEW j \in Jobs
    PROVE  FateMoves(FateOf(j), FateOf(j)')
<1>1. CASE Quiet
  BY <1>1, QuietFate DEF FateMoves
<1>2. CASE CoordinatorRestart
  <2>1. /\ handler'[j] = IF handler[j] = "running" THEN "cut_off" ELSE handler[j]
        /\ manifest' = manifest
        /\ \A i \in 1..Len(manifest[j]) : tasks'[manifest[j][i]].state = "absent"
    BY <1>2, ManifestType DEF CoordinatorRestart, Absent
  <2>2. CASE handler[j] = "none"
    BY <2>1, <2>2, FateIs DEF FateMoves
  <2>3. CASE handler[j] # "none"
    <3>1. FateOf(j)' = "lost"
      BY <2>1, <2>3, FateIs DEF Standing, JobsOK
    <3>2. FateOf(j) # "none"
      BY <2>3, FateIs DEF Standing, JobsOK
    <3> QED BY <3>1, <3>2 DEF FateMoves
  <2> QED BY <2>2, <2>3
<1>3. CASE SubmitNext(j)
  <2>0. /\ handler[j] \in {"none", "running"} /\ manifest' = manifest
        /\ Len(manifest[j]) \in Nat
    BY <1>3, ManifestType DEF SubmitNext
  <2>1. PICK n \in 0..Len(manifest[j]) : Submitted(j, n)
    BY DEF JobsOK, JobOK
  <2>2. /\ n \in Nat /\ n < Len(manifest[j]) /\ Enqueue(manifest[j][n + 1])
        /\ manifest[j][n + 1] \in TaskIDs
        /\ handler' = [handler EXCEPT ![j] =
                          IF n + 1 = Len(manifest[j]) THEN "over" ELSE "running"]
    BY <1>3, <2>0, <2>1, NextSubmitted
  <2>3. tasks'[manifest[j][n + 1]].state = "queued" /\ n + 1 \in 1..Len(manifest[j])
    BY <2>0, <2>2 DEF Enqueue, IInv, TypeOK, Task
  <2>4. Standing(tasks', manifest[j]) = "open"
    BY <2>3 DEF Standing, Terminal
  <2>5. handler'[j] \in {"over", "running"}
    BY <2>2 DEF JobsOK
  <2>6. FateOf(j) \in {"none", "partial"} /\ FateOf(j)' \in {"partial", "open"}
    BY <2>0, <2>4, <2>5, FateIs
  <2> QED BY <2>6 DEF FateMoves
<1>4. ASSUME NEW k \in Jobs, k # j, SubmitNext(k) PROVE FateOf(j)' = FateOf(j)
  <2>1. handler'[j] = handler[j] /\ manifest' = manifest
    BY <1>4 DEF SubmitNext, JobsOK
  <2>2. PICK l \in 1..Len(manifest[k]) : Enqueue(manifest[k][l])
    BY <1>4 DEF SubmitNext, Unsubmitted
  <2>3. \A i \in 1..Len(manifest[j]) : tasks'[manifest[j][i]] = tasks[manifest[j][i]]
    <3>1. ASSUME NEW i \in 1..Len(manifest[j])
          PROVE  manifest[j][i] \in TaskIDs /\ manifest[j][i] # manifest[k][l]
      BY <1>4, ManifestType
    <3> QED BY <2>2, <3>1 DEF Enqueue, IInv, TypeOK
  <2>4. Standing(tasks', manifest[j]) = Standing(tasks, manifest[j])
    BY <2>3 DEF Standing
  <2> QED BY <2>1, <2>4, FateIs
<1> QED BY <1>1, <1>2, <1>3, <1>4, JobStep DEF FateMoves

\* An answer says what is so of the job when it is read.
LEMMA ReadFate ==
    ASSUME IInv, JobsOK, AnswersOK, [JobNext]_jobVars, NEW j \in Jobs, JobRead(j),
           NEW answer, reply'[j] = answer
    PROVE  /\ FateOf(j)' \notin {"none", "partial"}
           /\ FateOf(j)' = IF answer = <<>> THEN "lost" ELSE Word(answer)
<1> DEFINE m == manifest[j]
<1>1. Quiet
  BY DEF JobRead, Quiet, Next, RequeueExpired
<1>2. handler[j] = "over" /\ handler' = handler /\ manifest' = manifest
  BY <1>1 DEF AnswersOK, Told, Asking, JobRead, Quiet
<1>3. answer = JobTasks(tasks', j)
  BY DEF JobRead, AnswersOK
<1>4. /\ Len(m) \in Nat /\ tasks' \in [TaskIDs -> Task]
      /\ \A i \in 1..Len(m) :
            /\ m[i] \in TaskIDs
            /\ tasks'[m[i]].state # "absent" <=> tasks[m[i]].state # "absent"
  BY <1>1, ManifestType, QuietTable, JobQueueInv DEF IInv, TypeOK
<1>5. PICK n \in 0..Len(m) : Submitted(j, n) /\ HandlerAt(j, n)
  BY DEF JobsOK, JobOK
<1>6. answer = [i \in 1..n |-> EntryOf(tasks', m[i])] /\ (n = 0 \/ n = Len(m))
  BY <1>2, <1>3, <1>5, JobTasksAre DEF HandlerAt
<1>7. FateOf(j)' = Standing(tasks', m) /\ Standing(tasks', m) \in Ended \union {"open", "lost"}
  BY <1>2, FateIs DEF Standing, Ended
<1>8. \A i \in 1..Len(m) : tasks'[m[i]].state # "absent" <=> i <= n
  BY <1>4, <1>5 DEF Submitted
<1> HIDE DEF m
<1>9. CASE n = 0
  <2>1. answer = <<>>
    <3>1. 1..n = {}
      BY <1>9
    <3>2. answer = [i \in {} |-> EntryOf(tasks', m[i])]
      BY <1>6, <3>1
    <3> QED BY <3>2
  <2>2. Standing(tasks', m) = "lost"
    BY <1>4, <1>8, <1>9 DEF Standing
  <2> QED BY <1>7, <2>1, <2>2
<1>10. CASE n = Len(m) /\ n # 0
  <2>1. answer \in Seq(Entry) /\ Len(answer) = n
    <3>1. \A i \in 1..n : EntryOf(tasks', m[i]) \in Entry
      BY <1>4, <1>10, EntryTyped
    <3> QED BY <1>4, <1>6, <1>10, <3>1
  <2>2. answer # <<>>
    BY <1>10, <2>1, EmptySeq
  <2>3. \A i \in 1..n : answer[i].state = tasks'[m[i]].state
    BY <1>6 DEF EntryOf
  <2>4. /\ Count(answer, Over) = n <=> \A i \in 1..n : tasks'[m[i]].state \in Over
        /\ Count(answer, {"failed"}) > 0 <=> \E i \in 1..n : tasks'[m[i]].state \in {"failed"}
    <3>1. /\ Count(answer, Over) = n <=> \A i \in 1..n : answer[i].state \in Over
          /\ Count(answer, {"failed"}) > 0 <=> \E i \in 1..n : answer[i].state \in {"failed"}
      BY <2>1, Counted
    <3> QED BY <2>3, <3>1
  <2>5. ~ \A i \in 1..n : tasks'[m[i]].state = "absent"
    BY <1>4, <1>8, <1>10
  <2>6. Word(answer) = IF \A i \in 1..n : tasks'[m[i]].state \in Over
                       THEN IF \E i \in 1..n : tasks'[m[i]].state \in {"failed"}
                            THEN "failed" ELSE "completed"
                       ELSE "open"
    BY <2>1, <2>2, <2>4 DEF Word, Finished, JobState, Over
  <2>7. Standing(tasks', m) = Word(answer)
    BY <1>10, <2>5, <2>6 DEF Standing, Terminal, Over
  <2>8. Word(answer) \in Ended \union {"open"}
    BY WordIs
  <2> QED BY <1>7, <2>2, <2>7, <2>8 DEF Ended
<1> QED BY <1>6, <1>9, <1>10

\* A step of JobPromise on the four values it is about.
Moves(fate, answer, heard, ending, fate2, answer2, heard2, ending2) ==
    \/ FateMoves(fate, fate2) /\ <<answer2, heard2, ending2>> = <<answer, heard, ending>>
    \/ /\ answer = "none" /\ heard \notin Ended /\ ending = "running"
       /\ fate2 = fate \/ (fate = "open" /\ fate2 \in Ended)
       /\ fate2 \notin {"none", "partial"} /\ answer2 = fate2
       /\ heard2 = heard /\ ending2 = ending
    \/ /\ answer \notin {"none", "lost"} /\ heard2 = answer /\ answer2 = "none"
       /\ fate2 = fate /\ ending2 = ending
    \/ /\ answer # "none" /\ answer2 = "none"
       /\ fate2 = fate /\ heard2 = heard /\ ending2 = ending
    \/ /\ ending = "running" /\ answer = "none"
       /\ \/ heard = "completed" /\ ending2 \in {"none", "stopped_waiting", "not_written"}
          \/ heard = "failed" /\ ending2 \in {"job_failed", "not_written"}
          \/ heard \notin Ended /\ ending2 \in {"request", "stopped_waiting"}
       /\ fate2 = fate /\ answer2 = answer /\ heard2 = heard

LEMMA StepOfMoves ==
    ASSUME NEW j \in Jobs,
           Moves(FateOf(j), Saying(execute[j], reply[j]), Hears(view[j]), exit[j],
                 FateOf(j)', Saying(execute'[j], reply'[j]), Hears(view'[j]), exit'[j])
    PROVE  PromiseStep(j)
<1>1. /\ (IF execute[j] # "answered" THEN "none"
          ELSE IF reply[j] = <<>> THEN "lost" ELSE Word(reply[j]))' = Saying(execute'[j], reply'[j])
      /\ (IF view[j] = <<>> THEN "nothing" ELSE Word(view[j]))' = Hears(view'[j])
  BY DEF Saying, Hears, Word, Finished, JobState, Count
<1>2. /\ (IF execute[j] # "answered" THEN "none"
          ELSE IF reply[j] = <<>> THEN "lost" ELSE Word(reply[j])) = Saying(execute[j], reply[j])
      /\ (IF view[j] = <<>> THEN "nothing" ELSE Word(view[j])) = Hears(view[j])
  BY DEF Saying, Hears
<1> QED BY <1>1, <1>2
        DEF Moves, FateMoves, Ended, PromiseStep, Promise!PromiseNext, Promise!promiseVars,
            Promise!Submitting, Promise!Decide, Promise!Lose, Promise!Answer, Promise!Hear,
            Promise!HearNothing, Promise!End, Promise!Verdicts

\* The coordinator moves, and the command stays or goes where no answer is.
LEMMA FateOnly ==
    ASSUME IInv, JobsOK, [JobNext]_jobVars, NEW j \in Jobs,
           Saying(execute'[j], reply'[j]) = Saying(execute[j], reply[j]),
           view'[j] = view[j], exit'[j] = exit[j]
    PROVE  PromiseStep(j)
BY FateStep, StepOfMoves DEF Moves

LEMMA AnswerSimulation ==
    ASSUME JobInv, [JobNext]_jobVars, NEW j \in Jobs, JobRead(j)
    PROVE  PromiseStep(j)
<1>1. Quiet
  BY DEF JobRead, Quiet, Next, RequeueExpired
<1>2. PICK answer : reply'[j] = answer
  OBVIOUS
<1>3. /\ execute[j] = "swept" /\ execute'[j] = "answered"
      /\ view'[j] = view[j] /\ exit'[j] = exit[j]
  BY DEF JobRead, JobInv, AnswersOK
<1>4. FateOf(j)' = FateOf(j) \/ (FateOf(j) = "open" /\ FateOf(j)' \in Ended)
  BY <1>1, QuietFate DEF JobInv
<1>5. /\ FateOf(j)' \notin {"none", "partial"}
      /\ FateOf(j)' = Saying(execute'[j], reply'[j])
  BY <1>2, <1>3, ReadFate DEF JobInv, Saying
<1>6. Saying(execute[j], reply[j]) = "none"
  BY <1>3 DEF Saying
<1>7. Hears(view[j]) \notin Ended /\ exit[j] = "running"
  <2>1. Accords(execute[j], view[j], err[j], exit[j], exported[j])
    BY DEF JobInv, CommandsOK, Outcome
  <2> QED BY <1>3, <2>1, WordIs DEF Accords, Hears, Ended
<1> QED BY <1>3, <1>4, <1>5, <1>6, <1>7, StepOfMoves DEF Moves

LEMMA HearSimulation ==
    ASSUME JobInv, [JobNext]_jobVars, NEW j \in Jobs, PollArrives(j)
    PROVE  PromiseStep(j)
<1> DEFINE r == reply[j]
<1>1. /\ execute[j] = "answered" /\ exit'[j] = exit[j]
      /\ tasks' = tasks /\ handler' = handler /\ manifest' = manifest
  BY DEF PollArrives, vars
<1>2. FateOf(j)' = FateOf(j)
  BY <1>1, FateIs
<1>3. /\ execute'[j] \in {"waiting", "returned"}
      /\ view'[j] = IF r = <<>> THEN view[j] ELSE r
  <2>1. JobState(r) \in {"completed", "failed", "queued", "running"}
    BY DEF JobState
  <2> QED BY <2>1 DEF PollArrives, Returns, JobInv, AnswersOK
<1>4. Saying(execute'[j], reply'[j]) = "none"
  BY <1>3 DEF Saying
<1>5. Saying(execute[j], reply[j]) = IF r = <<>> THEN "lost" ELSE Word(r)
  BY <1>1 DEF Saying
<1> HIDE DEF r
<1>6. CASE r = <<>>
  BY <1>1, <1>2, <1>3, <1>4, <1>5, <1>6, StepOfMoves DEF Moves
<1>7. CASE r # <<>>
  <2>1. Word(r) \notin {"none", "lost"}
    BY WordIs DEF Ended
  <2>2. Hears(view'[j]) = Word(r)
    BY <1>3, <1>7 DEF Hears
  <2> QED BY <1>1, <1>2, <1>4, <1>5, <1>7, <2>1, <2>2, StepOfMoves DEF Moves
<1> QED BY <1>6, <1>7

LEMMA ReturnSimulation ==
    ASSUME JobInv, [JobNext]_jobVars, NEW j \in Jobs,
           SubmitFails(j) \/ PollFails(j) \/ StopsWaiting(j)
    PROVE  PromiseStep(j)
<1>1. /\ execute'[j] = "returned" /\ exit'[j] = exit[j] /\ view'[j] = view[j]
      /\ tasks' = tasks /\ handler' = handler /\ manifest' = manifest
  BY DEF SubmitFails, PollFails, StopsWaiting, Returns, JobInv, AnswersOK, vars
<1>2. Saying(execute'[j], reply'[j]) = "none"
  BY <1>1 DEF Saying
<1>3. FateOf(j)' = FateOf(j)
  BY <1>1, FateIs
<1> QED BY <1>1, <1>2, <1>3, StepOfMoves DEF Moves, FateMoves

LEMMA EndSimulation ==
    ASSUME JobInv, [JobNext]_jobVars, NEW j \in Jobs, Finish(j)
    PROVE  PromiseStep(j)
<1> DEFINE e == IF quit[j] /\ err[j] = "none" THEN "stopped_waiting" ELSE err[j]
<1>1. /\ execute[j] = "returned" /\ execute'[j] = "returned" /\ exit[j] = "running"
      /\ view'[j] = view[j] /\ reply'[j] = reply[j]
      /\ tasks' = tasks /\ handler' = handler /\ manifest' = manifest
      /\ exit'[j] = e \/ (Finished(view[j]) /\ exit'[j] = "not_written")
  BY DEF Finish, WriteResults, JobInv, CommandsOK, vars
<1>2. FateOf(j)' = FateOf(j)
  BY <1>1, FateIs
<1>3. Saying(execute'[j], reply'[j]) = "none" /\ Saying(execute[j], reply[j]) = "none"
  BY <1>1 DEF Saying
<1>4. Accords(execute[j], view[j], err[j], exit[j], exported[j]) /\ err[j] \in Errors
  BY DEF JobInv, CommandsOK, Outcome
<1>5. \/ Hears(view[j]) = "completed" /\ exit'[j] \in {"none", "stopped_waiting", "not_written"}
      \/ Hears(view[j]) = "failed" /\ exit'[j] \in {"job_failed", "not_written"}
      \/ Hears(view[j]) \notin Ended /\ exit'[j] \in {"request", "stopped_waiting"}
  <2>1. CASE view[j] # <<>> /\ JobState(view[j]) = "completed"
    BY <1>1, <1>4, <2>1, WordIs DEF Accords, Errors, Over, Hears, Ended
  <2>2. CASE view[j] # <<>> /\ JobState(view[j]) = "failed"
    BY <1>1, <1>4, <2>2, WordIs DEF Accords, Errors, Over, Hears, Ended
  <2>3. CASE view[j] = <<>> \/ JobState(view[j]) \notin Over
    <3>1. ~Finished(view[j]) /\ Hears(view[j]) \notin Ended
      BY <2>3, WordIs DEF Hears, Finished, JobState, Over, Ended
    <3>2. err[j] \in {"request", "stopped_waiting"}
      BY <1>1, <1>4, <2>3 DEF Accords, Errors, Over
    <3> QED BY <1>1, <3>1, <3>2
  <2> QED BY <2>1, <2>2, <2>3 DEF Over
<1> QED BY <1>1, <1>2, <1>3, <1>5, StepOfMoves DEF Moves

LEMMA PromiseSimulation ==
    ASSUME JobInv, [JobNext]_jobVars, NEW j \in Jobs
    PROVE  PromiseStep(j)
<1>0. IInv /\ JobsOK
  BY DEF JobInv
<1>1. ASSUME execute'[j] = execute[j], reply'[j] = reply[j], view'[j] = view[j], exit'[j] = exit[j]
      PROVE  PromiseStep(j)
  BY <1>0, <1>1, FateOnly
<1>2. ASSUME NEW k \in Jobs, k # j,
             \/ JobSweep(k) \/ JobRead(k) \/ SendSubmit(k) \/ SubmitArrives(k) \/ SubmitFails(k)
             \/ SendPoll(k) \/ PollArrives(k) \/ PollFails(k) \/ StopsWaiting(k) \/ Finish(k)
      PROVE  PromiseStep(j)
  <2>1. JobState(reply[k]) \in {"completed", "failed", "queued", "running"}
    BY DEF JobState
  <2>2. /\ execute'[j] = execute[j] /\ reply'[j] = reply[j]
        /\ view'[j] = view[j] /\ exit'[j] = exit[j]
    BY <1>2, <2>1
       DEF JobSweep, JobRead, SendSubmit, SubmitArrives, SubmitFails, SendPoll, PollArrives,
           PollFails, StopsWaiting, Finish, WriteResults, Returns, JobInv, AnswersOK, CommandsOK
  <2> QED BY <1>1, <2>2
<1>3. ASSUME JobSweep(j) \/ SendSubmit(j) \/ SubmitArrives(j) \/ SendPoll(j)
      PROVE  PromiseStep(j)
  <2>1. /\ execute[j] # "answered" /\ execute'[j] # "answered"
        /\ view'[j] = view[j] /\ exit'[j] = exit[j]
    BY <1>3 DEF JobSweep, SendSubmit, SubmitArrives, SendPoll, JobInv, AnswersOK
  <2> QED BY <1>0, <2>1, FateOnly DEF Saying
<1>4. ASSUME \/ \E k \in Jobs : SubmitNext(k) \/ ContextEnds(k) \/ Quit(k)
             \/ Work \/ CoordinatorRestart \/ UNCHANGED jobVars
      PROVE  PromiseStep(j)
  <2>1. UNCHANGED <<execute, reply, view, exit>>
    BY <1>4 DEF SubmitNext, ContextEnds, Quit, Work, CoordinatorRestart, clientVars, jobVars
  <2> QED BY <1>1, <2>1
<1> QED BY <1>2, <1>3, <1>4, AnswerSimulation, HearSimulation, ReturnSimulation, EndSimulation
        DEF JobNext

LEMMA PromiseInitial == ASSUME JobInit, NEW j \in Jobs PROVE Promise(j)!PromiseInit
BY FateIs DEF JobInit, Promise!PromiseInit

\* Each job implements JobPromise, whatever other jobs, workers, lost answers and
\* restarts do: handlePullJob says nothing of a job that is half submitted and
\* decides each job once, and what finishSubmit makes of it is what it was told.
THEOREM JobsKeepTheirPromise == JobSpec => JobsKeepPromise
<1> DEFINE Simulated == \A j \in Jobs : PromiseStep(j)
<1>1. JobInit => \A j \in Jobs : Promise(j)!PromiseInit
  BY PromiseInitial
<1>2. JobInv /\ [JobNext]_jobVars => [Simulated]_jobVars
  BY PromiseSimulation
<1>3. JobSpec => [][Simulated]_jobVars
  BY <1>2, JobInvariant, PTL DEF JobSpec
<1>4. JobSpec => \A j \in Jobs : Promise(j)!PromiseInit
  BY <1>1 DEF JobSpec
<1> QED BY <1>3, <1>4 DEF JobsKeepPromise, PromiseStep

-----------------------------------------------------------------------------
(* The queue among its callers. *)

\* What is proved of the queue alone holds of the one that serves jobs: handlers
\* and workers only use its operations, a restart leaves it well formed, and nothing
\* else touches a finished task.
THEOREM QueueServesJobs ==
    JobSpec => /\ [](QueueConsistent /\ OrderConsistent /\ LeaseConsistent /\ RetryPolicy)
               /\ [][[Next]_vars \/ CoordinatorRestart]_jobVars
               /\ [][\/ CoordinatorRestart
                     \/ \A t \in TaskIDs : Terminal(tasks[t]) => tasks'[t] = tasks[t]]_jobVars
<1> DEFINE Served == [Next]_vars \/ CoordinatorRestart
           Kept == \/ CoordinatorRestart
                   \/ \A t \in TaskIDs : Terminal(tasks[t]) => tasks'[t] = tasks[t]
<1>1. JobInv => QueueConsistent /\ OrderConsistent /\ LeaseConsistent /\ RetryPolicy
  BY DEF JobInv, IInv
<1>2. JobInv /\ [JobNext]_jobVars => Served
  BY JobStep, SubmitIsStep DEF JobInv, Quiet
<1>3. JobInv /\ Served => Kept
  BY TerminalStep DEF JobInv
<1> HIDE DEF Served, Kept
<1>4. JobSpec => [][Served]_jobVars /\ [][Kept]_jobVars
  BY <1>2, <1>3, JobInvariant, PTL DEF JobSpec
<1> QED BY <1>1, <1>4, JobInvariant, PTL DEF Served, Kept

=============================================================================
