--------------------------- MODULE LeaseQueueProofs ---------------------------
(***************************************************************************)
(* Theorems about LeaseQueue, for every set of tasks and workers, every    *)
(* lease duration and every attempt limit: first what holds in its states, *)
(* then what one step may do to one task, and from that the action         *)
(* properties and the refinement of TaskLifecycle.                         *)
(***************************************************************************)
EXTENDS LeaseQueue, SequenceTheorems, FiniteSetTheorems, FunctionTheorems, TLAPS

-----------------------------------------------------------------------------
(* What the sequence operations do to a sequence that lists a set. *)

\* Appending an ID that is not listed yet.
LEMMA ListsAppend ==
    ASSUME NEW q \in Seq(TaskIDs), NEW S \in SUBSET TaskIDs, Lists(q, S),
           NEW t \in TaskIDs, t \notin S
    PROVE  /\ Append(q, t) \in Seq(TaskIDs)
           /\ Lists(Append(q, t), S \union {t})
<1> DEFINE r == Append(q, t)
<1>1. /\ r \in Seq(TaskIDs) /\ Len(r) = Len(q) + 1
      /\ \A i \in 1..Len(q) : r[i] = q[i]
      /\ r[Len(q) + 1] = t
      /\ Len(q) \in Nat
  BY AppendProperties, LenProperties
<1>2. \A i \in 1..Len(q) : q[i] # t
  BY DEF Lists
<1>3. \A i, j \in 1..Len(r) : i # j => r[i] # r[j]
  BY <1>1, <1>2 DEF Lists
<1>4. ASSUME NEW u \in TaskIDs
      PROVE  u \in S \union {t} <=> \E i \in 1..Len(r) : r[i] = u
  <2>1. CASE u = t
    BY <1>1, <2>1
  <2>2. CASE u # t
    BY <1>1, <2>2 DEF Lists
  <2> QED BY <2>1, <2>2
<1> QED BY <1>1, <1>3, <1>4 DEF Lists

\* Concatenating two sequences that list disjoint sets.
LEMMA ListsConcat ==
    ASSUME NEW q \in Seq(TaskIDs), NEW S \in SUBSET TaskIDs, Lists(q, S),
           NEW r \in Seq(TaskIDs), NEW R \in SUBSET TaskIDs, Lists(r, R),
           S \intersect R = {}
    PROVE  /\ q \o r \in Seq(TaskIDs)
           /\ Lists(q \o r, S \union R)
<1> DEFINE c == q \o r
<1>1. /\ c \in Seq(TaskIDs) /\ Len(c) = Len(q) + Len(r)
      /\ \A i \in 1..(Len(q) + Len(r)) :
            c[i] = IF i <= Len(q) THEN q[i] ELSE r[i - Len(q)]
      /\ Len(q) \in Nat /\ Len(r) \in Nat
  BY ConcatProperties, LenProperties
<1>2. \A i \in 1..Len(q) : q[i] \in S
  BY ElementOfSeq DEF Lists
<1>3. \A i \in 1..Len(r) : r[i] \in R
  BY ElementOfSeq DEF Lists
<1>4. /\ \A i \in 1..Len(q) : i \in 1..Len(c) /\ c[i] = q[i]
      /\ \A i \in 1..Len(r) : i + Len(q) \in 1..Len(c) /\ c[i + Len(q)] = r[i]
  BY <1>1
<1>5. \A i, j \in 1..Len(c) : i # j => c[i] # c[j]
  <2> SUFFICES ASSUME NEW i \in 1..Len(c), NEW j \in 1..Len(c), i < j
               PROVE  c[i] # c[j]
    BY <1>1
  <2>1. CASE j <= Len(q)
    BY <1>1, <2>1 DEF Lists
  <2>2. CASE i <= Len(q) /\ j > Len(q)
    <3>1. c[i] \in S
      BY <1>1, <1>2, <2>2
    <3>2. c[j] = r[j - Len(q)] /\ j - Len(q) \in 1..Len(r)
      BY <1>1, <2>2
    <3>3. c[j] \in R
      BY <3>2, <1>3
    <3> QED BY <3>1, <3>3
  <2>3. CASE i > Len(q)
    <3>1. /\ c[i] = r[i - Len(q)] /\ i - Len(q) \in 1..Len(r)
          /\ c[j] = r[j - Len(q)] /\ j - Len(q) \in 1..Len(r)
          /\ i - Len(q) # j - Len(q)
      BY <1>1, <2>3
    <3> QED BY <3>1 DEF Lists
  <2> QED BY <2>1, <2>2, <2>3, <1>1
<1>6. ASSUME NEW u \in TaskIDs
      PROVE  u \in S \union R <=> \E i \in 1..Len(c) : c[i] = u
  <2>1. ASSUME u \in S PROVE \E i \in 1..Len(c) : c[i] = u
    BY <1>4, <2>1 DEF Lists
  <2>2. ASSUME u \in R PROVE \E i \in 1..Len(c) : c[i] = u
    BY <1>1, <1>4, <2>2 DEF Lists
  <2>3. ASSUME NEW i \in 1..Len(c), c[i] = u PROVE u \in S \union R
    <3>1. CASE i <= Len(q)
      BY <1>1, <1>2, <2>3, <3>1
    <3>2. CASE i > Len(q)
      <4>1. i - Len(q) \in 1..Len(r) /\ c[i] = r[i - Len(q)]
        BY <1>1, <3>2
      <4> QED BY <4>1, <1>3, <2>3
    <3> QED BY <3>1, <3>2, <1>1
  <2> QED BY <2>1, <2>2, <2>3
<1> QED BY <1>1, <1>5, <1>6 DEF Lists

\* Dropping the head.
LEMMA ListsRest ==
    ASSUME NEW q \in Seq(TaskIDs), NEW S \in SUBSET TaskIDs, Lists(q, S),
           Len(q) >= 1
    PROVE  /\ q[1] \in S
           /\ SubSeq(q, 2, Len(q)) \in Seq(TaskIDs)
           /\ Lists(SubSeq(q, 2, Len(q)), S \ {q[1]})
<1> DEFINE n == Len(q)
           r == SubSeq(q, 2, n)
<1>0. n \in Nat /\ n >= 1 /\ \A i \in 2..n : q[i] \in TaskIDs
  BY LenProperties, ElementOfSeq
<1>1. /\ r \in Seq(TaskIDs) /\ Len(r) = n - 1
      /\ \A i \in 1..(n - 1) : r[i] = q[i + 1]
  <2>1. /\ r \in Seq(TaskIDs)
        /\ Len(r) = IF 2 <= n THEN n - 2 + 1 ELSE 0
        /\ \A i \in 1..(n - 2 + 1) : r[i] = q[2 + i - 1]
    BY <1>0, SubSeqProperties
  <2> HIDE DEF r, n
  <2>2. Len(r) = n - 1
    BY <1>0, <2>1
  <2>3. ASSUME NEW i \in 1..(n - 1) PROVE r[i] = q[i + 1]
    <3>1. i \in 1..(n - 2 + 1) /\ 2 + i - 1 = i + 1
      BY <1>0
    <3> QED BY <2>1, <3>1
  <2> QED BY <2>1, <2>2, <2>3
<1>2. q[1] \in S
  BY ElementOfSeq DEF Lists
<1>3. \A i, j \in 1..Len(r) : i # j => r[i] # r[j]
  BY <1>0, <1>1 DEF Lists
<1>4. ASSUME NEW u \in TaskIDs
      PROVE  u \in S \ {q[1]} <=> \E i \in 1..Len(r) : r[i] = u
  <2>1. ASSUME u \in S \ {q[1]} PROVE \E i \in 1..Len(r) : r[i] = u
    <3>1. PICK j \in 1..Len(q) : q[j] = u
      BY <2>1 DEF Lists
    <3>2. j - 1 \in 1..Len(r) /\ r[j - 1] = u
      BY <1>0, <1>1, <2>1, <3>1
    <3> QED BY <3>2
  <2>2. ASSUME NEW i \in 1..Len(r), r[i] = u PROVE u \in S \ {q[1]}
    <3>1. i + 1 \in 1..Len(q) /\ q[i + 1] = u /\ i + 1 # 1
      BY <1>0, <1>1, <2>2
    <3> QED BY <3>1 DEF Lists
  <2> QED BY <2>1, <2>2
<1> QED BY <1>1, <1>2, <1>3, <1>4 DEF Lists

-----------------------------------------------------------------------------
(* The inductive invariant.  The five invariants of LeaseQueue are           *)
(* inductive only together: Claim keeps q.queued right because a waiting     *)
(* task has an attempt left, a sweep keeps it right because q.order lists    *)
(* every task once, and leases stay distinct because their IDs are at most   *)
(* issued.  TableOK restates the part of it that is about the task table     *)
(* alone, for any table and any number of leases issued.                     *)

IInv == TypeOK /\ QueueConsistent /\ OrderConsistent /\ LeaseConsistent /\ RetryPolicy

TaskOK(task, n) ==
    /\ task.state = "leased" <=> task.lease # NoLease
    /\ task.state = "leased" => /\ task.lease.id \in 1..n
                                /\ task.lease.workerID = task.workerID
                                /\ task.workerID \in Workers
    /\ task.attempts <= MaxAttempts
    /\ task.state = "queued" => CanRetry(task)
    /\ task.state = "failed" => task.attempts = MaxAttempts
    /\ task.state \in {"leased", "completed"} => task.attempts >= 1
    /\ task.state = "absent" => task.attempts = 0
    /\ Terminal(task) <=> task.result # NoResult

TableOK(table, n) ==
    /\ table \in [TaskIDs -> Task]
    /\ \A t \in TaskIDs : TaskOK(table[t], n)
    /\ \A t, u \in TaskIDs :
          t # u /\ table[t].state = "leased" /\ table[u].state = "leased"
              => table[t].lease.id # table[u].lease.id

LEMMA TableOfInv == IInv => TableOK(tasks, issued)
BY DEF IInv, TypeOK, LeaseConsistent, RetryPolicy, TableOK, TaskOK

LEMMA InvOfTable ==
    ASSUME TableOK(tasks, issued)', issued' \in Nat,
           queued' \in Seq(TaskIDs), Lists(queued', Waiting(tasks')),
           order' \in Seq(TaskIDs), Lists(order', Known(tasks'))
    PROVE  IInv'
BY DEF IInv, TypeOK, QueueConsistent, OrderConsistent, LeaseConsistent,
       RetryPolicy, TableOK, TaskOK

-----------------------------------------------------------------------------
(* What each way of changing one task leaves behind. *)

LEMMA NothingTyped == NoLease \in Lease /\ NoResult \in Result
BY LeaseDurationAssumption DEF NoLease, NoResult, Lease, Result

LEMMA RequeuedOK ==
    ASSUME NEW n \in Nat, NEW task \in Task, TaskOK(task, n),
           task.state = "leased", CanRetry(task)
    PROVE  /\ Requeued(task) \in Task
           /\ TaskOK(Requeued(task), n)
           /\ Requeued(task).state = "queued"
<1> DEFINE r == Requeued(task)
<1>1. /\ r \in Task
      /\ r.state = "queued" /\ r.lease = NoLease /\ r.result = NoResult
      /\ r.attempts = task.attempts
  BY NothingTyped DEF Requeued, Task, States
<1>2. task.attempts <= MaxAttempts /\ CanRetry(r)
  BY <1>1 DEF TaskOK, CanRetry
<1> QED BY <1>1, <1>2 DEF TaskOK, Terminal

LEMMA FailedOK ==
    ASSUME NEW n \in Nat, NEW task \in Task, TaskOK(task, n),
           task.state = "leased", ~CanRetry(task),
           NEW result \in Result, result # NoResult
    PROVE  /\ Failed(task, result) \in Task
           /\ TaskOK(Failed(task, result), n)
           /\ Failed(task, result).state = "failed"
<1> DEFINE r == Failed(task, result)
<1>1. /\ r \in Task
      /\ r.state = "failed" /\ r.lease = NoLease /\ r.result = result
      /\ r.attempts = task.attempts
  BY NothingTyped DEF Failed, Task, States
<1>2. task.attempts = MaxAttempts
  BY MaxAttemptsAssumption DEF TaskOK, CanRetry, Task
<1> QED BY <1>1, <1>2, MaxAttemptsAssumption DEF TaskOK, Terminal

LEMMA AfterExpiryOK ==
    ASSUME NEW n \in Nat, NEW task \in Task, TaskOK(task, n), task.state = "leased"
    PROVE  /\ AfterExpiry(task) \in Task
           /\ TaskOK(AfterExpiry(task), n)
           /\ AfterExpiry(task).state = IF CanRetry(task) THEN "queued" ELSE "failed"
<1>1. Exhausted \in Result /\ Exhausted # NoResult
  BY DEF Exhausted, NoResult, Result
<1> QED BY <1>1, RequeuedOK, FailedOK DEF AfterExpiry

LEMMA GrantedOK ==
    ASSUME issued \in Nat, NEW task \in Task, TaskOK(task, issued),
           task.state = "queued", NEW w \in Workers
    PROVE  /\ Granted(task, w) \in Task
           /\ TaskOK(Granted(task, w), issued + 1)
           /\ Granted(task, w).state = "leased"
           /\ Granted(task, w).lease.id = issued + 1
<1> DEFINE l == [id |-> issued + 1, workerID |-> w, left |-> LeaseDuration]
           r == Granted(task, w)
<1>1. l \in Lease /\ l # NoLease
  BY LeaseDurationAssumption DEF Lease, NoLease
<1> HIDE DEF l
<1>2. /\ r \in Task
      /\ r.state = "leased" /\ r.lease = l /\ r.workerID = w
      /\ r.attempts = task.attempts + 1 /\ r.result = task.result
  <2> DEFINE k == task.attempts + 1
  <2>1. r = [task EXCEPT !.state = "leased", !.attempts = k,
                         !.workerID = w, !.lease = l]
    BY DEF Granted, l
  <2>2. k \in Nat
    BY DEF Task
  <2> HIDE DEF r, k
  <2>3. r = [state |-> "leased", attempts |-> k, workerID |-> w,
             lease |-> l, result |-> task.result]
    BY <2>1 DEF Task
  <2>4. r \in Task
    BY <1>1, <2>2, <2>3 DEF Task, States
  <2> QED BY <2>3, <2>4 DEF k
<1>3. /\ task.attempts \in Nat /\ task.attempts < MaxAttempts
      /\ task.result = NoResult
  BY DEF TaskOK, CanRetry, Task, Terminal
<1>4. /\ l.id \in 1..(issued + 1) /\ l.id = issued + 1 /\ l.workerID = w
  BY DEF l
<1> QED BY <1>1, <1>2, <1>3, <1>4, MaxAttemptsAssumption DEF TaskOK, Terminal

\* Issuing more leases disturbs no task.
LEMMA TaskOKMonotone ==
    ASSUME NEW n \in Nat, NEW task, TaskOK(task, n)
    PROVE  TaskOK(task, n + 1)
BY DEF TaskOK

\* Replacing one task by one that holds no lease, or still holds its own.
LEMMA TableUpdate ==
    ASSUME NEW n \in Nat, NEW table, TableOK(table, n),
           NEW t \in TaskIDs, NEW task \in Task, TaskOK(task, n),
           task.state = "leased" =>
               table[t].state = "leased" /\ task.lease.id = table[t].lease.id
    PROVE  TableOK([table EXCEPT ![t] = task], n)
BY DEF TableOK

-----------------------------------------------------------------------------
(* Sweeping expired leases. *)

\* Returned lists exactly the tasks a sweep gives back: ordered by q.order, it
\* repeats none, and an injection between sets of one size misses none.
LEMMA ReturnedLists ==
    ASSUME IInv, NEW s \in Returned
    PROVE  s \in Seq(TaskIDs) /\ Lists(s, GoingBack)
<1> DEFINE n == Cardinality(GoingBack)
<1>1. GoingBack \subseteq TaskIDs /\ IsFiniteSet(GoingBack) /\ n \in Nat
  BY FiniteTaskIDs, FS_Subset, FS_CardinalityType DEF GoingBack
<1> HIDE DEF n
<1>2. /\ s \in [1..n -> GoingBack]
      /\ \A i, j \in 1..n : i < j => Precedes(s[i], s[j])
  BY DEF Returned, n
<1>3. s \in Seq(GoingBack) /\ s \in Seq(TaskIDs) /\ Len(s) = n
  BY <1>1, <1>2
<1>4. ASSUME NEW i \in 1..n, NEW j \in 1..n, i < j
      PROVE  s[i] # s[j]
  <2>1. PICK a, b \in 1..Len(order) : a < b /\ order[a] = s[i] /\ order[b] = s[j]
    BY <1>2, <1>4 DEF Precedes
  <2>2. Len(order) \in Nat
    BY LenProperties DEF IInv, TypeOK
  <2>3. a # b
    BY <2>1, <2>2
  <2> QED BY <2>1, <2>3 DEF IInv, OrderConsistent, Lists
<1>5. \A i, j \in 1..n : i # j => s[i] # s[j]
  <2> SUFFICES ASSUME NEW i \in 1..n, NEW j \in 1..n, i # j
               PROVE  s[i] # s[j]
    OBVIOUS
  <2>1. CASE i < j
    BY <1>4, <2>1
  <2>2. CASE j < i
    BY <1>4, <2>2
  <2> QED BY <1>1, <2>1, <2>2
<1>6. s \in Surjection(1..n, GoingBack)
  <2>1. s \in Injection(1..n, GoingBack)
    BY <1>2, <1>5, Fun_IsInj
  <2>2. Cardinality(1..n) = n
    BY <1>1, FS_Interval
  <2> QED BY <1>1, <2>1, <2>2, FS_Injection DEF n
<1>7. ASSUME NEW t \in TaskIDs
      PROVE  t \in GoingBack <=> \E i \in 1..Len(s) : s[i] = t
  BY <1>2, <1>3, <1>6, Fun_SurjectionProperties
<1> QED BY <1>3, <1>5, <1>7 DEF Lists

\* The table after a sweep is in order, and the tasks that wait in it are those
\* that waited before and those the sweep gave back.
LEMMA SweptOK ==
    ASSUME IInv
    PROVE  /\ TableOK(Swept, issued)
           /\ Waiting(Swept) = Waiting(tasks) \union GoingBack
           /\ Waiting(tasks) \intersect GoingBack = {}
           /\ Known(Swept) = Known(tasks)
<1>1. issued \in Nat /\ TableOK(tasks, issued)
  BY TableOfInv DEF IInv, TypeOK
<1>2. \A t \in TaskIDs :
        /\ Swept[t] \in Task
        /\ TaskOK(Swept[t], issued)
        /\ Swept[t].state =
             IF Expired(t) THEN IF CanRetry(tasks[t]) THEN "queued" ELSE "failed"
             ELSE tasks[t].state
        /\ ~Expired(t) => Swept[t] = tasks[t]
  <2> SUFFICES ASSUME NEW t \in TaskIDs
               PROVE  /\ Swept[t] \in Task
                      /\ TaskOK(Swept[t], issued)
                      /\ Swept[t].state =
                           IF Expired(t)
                           THEN IF CanRetry(tasks[t]) THEN "queued" ELSE "failed"
                           ELSE tasks[t].state
                      /\ ~Expired(t) => Swept[t] = tasks[t]
    OBVIOUS
  <2>1. tasks[t] \in Task /\ TaskOK(tasks[t], issued)
    BY <1>1 DEF TableOK
  <2>2. CASE Expired(t)
    <3>1. Swept[t] = AfterExpiry(tasks[t]) /\ tasks[t].state = "leased"
      BY <2>2 DEF Swept, Expired
    <3> QED BY <1>1, <2>1, <2>2, <3>1, AfterExpiryOK
  <2>3. CASE ~Expired(t)
    BY <2>1, <2>3 DEF Swept
  <2> QED BY <2>2, <2>3
<1>3. TableOK(Swept, issued)
  <2>1. Swept \in [TaskIDs -> Task]
    BY <1>2 DEF Swept
  <2>2. \A t \in TaskIDs : Swept[t].state = "leased" => Swept[t] = tasks[t]
    BY <1>2
  <2> QED BY <1>1, <1>2, <2>1, <2>2 DEF TableOK
<1>4. \A t \in TaskIDs : Expired(t) => tasks[t].state = "leased"
  BY DEF Expired
<1>5. /\ Waiting(Swept) = Waiting(tasks) \union GoingBack
      /\ Waiting(tasks) \intersect GoingBack = {}
      /\ Known(Swept) = Known(tasks)
  BY <1>2, <1>4 DEF Waiting, Known, GoingBack
<1> QED BY <1>3, <1>5

\* After a sweep the queue is in order again.
LEMMA SweepLists ==
    ASSUME IInv, NEW s \in Returned
    PROVE  /\ queued \o s \in Seq(TaskIDs)
           /\ Lists(queued \o s, Waiting(Swept))
<1>1. s \in Seq(TaskIDs) /\ Lists(s, GoingBack)
  BY ReturnedLists
<1>2. queued \in Seq(TaskIDs) /\ Lists(queued, Waiting(tasks))
  BY DEF IInv, TypeOK, QueueConsistent
<1>3. Waiting(tasks) \in SUBSET TaskIDs /\ GoingBack \in SUBSET TaskIDs
  BY DEF Waiting, GoingBack
<1> QED BY <1>1, <1>2, <1>3, SweptOK, ListsConcat

\* Every entry of a queue in order is waiting, so Claim's loop stops at the
\* head: it never drops an entry, and only an empty queue gives no task.
LEMMA ClaimTakesHead ==
    ASSUME NEW q \in Seq(TaskIDs), NEW table, Lists(q, Waiting(table))
    PROVE  /\ \A k \in 1..Len(q) : table[q[k]].state = "queued"
           /\ \A k \in 1..Len(q) : FirstQueued(table, q, k) => k = 1
<1>1. \A k \in 1..Len(q) : table[q[k]].state = "queued"
  BY ElementOfSeq DEF Lists, Waiting
<1>2. ASSUME NEW k \in 1..Len(q), FirstQueued(table, q, k), k # 1
      PROVE  FALSE
  <2> DEFINE n == Len(q)
  <2>1. n \in Nat
    BY LenProperties
  <2> HIDE DEF n
  <2>2. k \in 1..n
    BY <1>2 DEF n
  <2>3. 1 \in 1..(k - 1) /\ 1 \in 1..n
    BY <1>2, <2>1, <2>2
  <2> QED BY <1>1, <1>2, <2>3 DEF FirstQueued, n
<1> QED BY <1>1, <1>2

\* Claim grants the head of the line, whether it waited or was swept into it.
LEMMA ClaimEffect ==
    ASSUME IInv, NEW w \in Workers, Claim(w)
    PROVE  \E back \in Returned :
              LET q == queued \o back
              IN /\ q \in Seq(TaskIDs) /\ Lists(q, Waiting(Swept))
                 /\ Len(q) >= 1 /\ Len(q) \in Nat
                 /\ q[1] \in TaskIDs /\ Swept[q[1]].state = "queued"
                 /\ tasks' = [Swept EXCEPT ![q[1]] = Granted(Swept[q[1]], w)]
                 /\ queued' = SubSeq(q, 2, Len(q))
                 /\ issued' = issued + 1 /\ order' = order
<1>1. PICK back \in Returned :
        \E k \in 1..Len(queued \o back) :
            /\ FirstQueued(Swept, queued \o back, k)
            /\ tasks' = [Swept EXCEPT ![(queued \o back)[k]] =
                            Granted(Swept[(queued \o back)[k]], w)]
            /\ queued' = SubSeq(queued \o back, k + 1, Len(queued \o back))
            /\ issued' = issued + 1 /\ order' = order
  BY DEF Claim
<1> DEFINE q == queued \o back
<1>2. q \in Seq(TaskIDs) /\ Lists(q, Waiting(Swept))
  BY SweepLists
<1>3. PICK k \in 1..Len(q) :
        /\ FirstQueued(Swept, q, k)
        /\ tasks' = [Swept EXCEPT ![q[k]] = Granted(Swept[q[k]], w)]
        /\ queued' = SubSeq(q, k + 1, Len(q))
        /\ issued' = issued + 1 /\ order' = order
  BY <1>1
<1> HIDE DEF q
<1>4. k = 1 /\ \A j \in 1..Len(q) : Swept[q[j]].state = "queued"
  BY <1>2, <1>3, ClaimTakesHead
<1>5. Len(q) \in Nat /\ Len(q) >= 1
  <2> DEFINE n == Len(q)
  <2>1. n \in Nat
    BY <1>2, LenProperties
  <2> HIDE DEF n
  <2>2. k \in 1..n
    BY <1>3 DEF n
  <2>3. n >= 1
    BY <2>1, <2>2
  <2> QED BY <2>1, <2>3 DEF n
<1>6. 1 \in 1..Len(q)
  BY <1>3, <1>4
<1>7. q[1] \in TaskIDs /\ Swept[q[1]].state = "queued"
  BY <1>2, <1>4, <1>6, ElementOfSeq
<1>8. /\ tasks' = [Swept EXCEPT ![q[1]] = Granted(Swept[q[1]], w)]
      /\ queued' = SubSeq(q, 2, Len(q)) /\ issued' = issued + 1 /\ order' = order
  BY <1>3, <1>4
<1> QED BY <1>2, <1>5, <1>7, <1>8 DEF q

\* Claim that finds nothing dropped nothing: the line it swept was empty.
LEMMA ClaimNothingEffect ==
    ASSUME IInv, NEW w \in Workers, ClaimNothing(w)
    PROVE  \E back \in Returned :
              tasks' = Swept /\ queued' = queued \o back /\ UNCHANGED <<order, issued>>
<1>1. PICK back \in Returned :
        /\ \A k \in 1..Len(queued \o back) : Swept[(queued \o back)[k]].state # "queued"
        /\ tasks' = Swept /\ queued' = <<>> /\ UNCHANGED <<order, issued>>
  BY DEF ClaimNothing
<1> DEFINE q == queued \o back
<1>2. q \in Seq(TaskIDs) /\ Lists(q, Waiting(Swept))
  BY SweepLists
<1>3. \A k \in 1..Len(q) : Swept[q[k]].state # "queued"
  BY <1>1
<1> HIDE DEF q
<1>4. \A k \in 1..Len(q) : FALSE
  BY <1>2, <1>3, ClaimTakesHead
<1>5. q = <<>>
  BY <1>2, <1>4, EmptySeq
<1> QED BY <1>1, <1>5 DEF q

-----------------------------------------------------------------------------
(* One lemma per way the operations change the queue. *)

LEMMA UpdateSets ==
    ASSUME NEW table \in [TaskIDs -> Task], NEW t \in TaskIDs, NEW task \in Task
    PROVE  /\ Waiting([table EXCEPT ![t] = task]) =
                IF task.state = "queued" THEN Waiting(table) \union {t}
                ELSE Waiting(table) \ {t}
           /\ Known([table EXCEPT ![t] = task]) =
                IF task.state # "absent" THEN Known(table) \union {t}
                ELSE Known(table) \ {t}
BY DEF Waiting, Known

\* A task gives its lease up: it expired, or its holder reported a result.
LEMMA LeaseEndInv ==
    ASSUME IInv, NEW t \in TaskIDs, tasks[t].state = "leased",
           NEW task \in Task, TaskOK(task, issued),
           task.state \in {"queued", "completed", "failed"},
           tasks' = [tasks EXCEPT ![t] = task],
           queued' = IF task.state = "queued" THEN Append(queued, t) ELSE queued,
           UNCHANGED <<order, issued>>
    PROVE  IInv'
<1>1. /\ issued \in Nat /\ TableOK(tasks, issued)
      /\ queued \in Seq(TaskIDs) /\ Lists(queued, Waiting(tasks))
      /\ order \in Seq(TaskIDs) /\ Lists(order, Known(tasks))
  BY TableOfInv DEF IInv, TypeOK, QueueConsistent, OrderConsistent
<1>2. TableOK(tasks', issued')
  BY <1>1, TableUpdate
<1>3. /\ Waiting(tasks') = IF task.state = "queued" THEN Waiting(tasks) \union {t}
                           ELSE Waiting(tasks) \ {t}
      /\ Known(tasks') = Known(tasks) \union {t}
  BY <1>1, UpdateSets DEF TableOK
<1>4. t \notin Waiting(tasks) /\ t \in Known(tasks) /\ Waiting(tasks) \in SUBSET TaskIDs
  BY DEF Waiting, Known
<1>5. queued' \in Seq(TaskIDs) /\ Lists(queued', Waiting(tasks'))
  <2>1. CASE task.state = "queued"
    <3>1. /\ Append(queued, t) \in Seq(TaskIDs)
          /\ Lists(Append(queued, t), Waiting(tasks) \union {t})
      BY <1>1, <1>4, ListsAppend
    <3> QED BY <1>3, <2>1, <3>1, Zenon
  <2>2. CASE task.state # "queued"
    <3>1. Waiting(tasks') = Waiting(tasks) /\ queued' = queued
      BY <1>3, <1>4, <2>2
    <3> QED BY <1>1, <3>1
  <2> QED BY <2>1, <2>2
<1>6. Known(tasks') = Known(tasks)
  BY <1>3, <1>4
<1> QED BY <1>1, <1>2, <1>5, <1>6, InvOfTable

LEMMA ExpireTaskInv ==
    ASSUME IInv, NEW t \in TaskIDs, tasks[t].state = "leased",
           expireTask(t), UNCHANGED <<order, issued>>
    PROVE  IInv'
<1>1. issued \in Nat /\ tasks[t] \in Task /\ TaskOK(tasks[t], issued)
  BY TableOfInv DEF IInv, TypeOK, TableOK
<1>2. /\ AfterExpiry(tasks[t]) \in Task
      /\ TaskOK(AfterExpiry(tasks[t]), issued)
      /\ AfterExpiry(tasks[t]).state = IF CanRetry(tasks[t]) THEN "queued" ELSE "failed"
  BY <1>1, AfterExpiryOK
<1> QED BY <1>2, LeaseEndInv DEF expireTask

LEMMA StutterInv == ASSUME IInv, UNCHANGED vars PROVE IInv'
BY DEF IInv, TypeOK, QueueConsistent, OrderConsistent, LeaseConsistent, RetryPolicy,
       Lists, Waiting, Known, CanRetry, vars

LEMMA RefuseInv ==
    ASSUME IInv, NEW t \in TaskIDs, NEW l, NEW w,
           Refuse(t, l, w), UNCHANGED <<order, issued>>
    PROVE  IInv'
<1>1. CASE Holds(t, l, w)
  BY <1>1, ExpireTaskInv DEF Refuse, Holds
<1>2. CASE ~Holds(t, l, w)
  BY <1>2, StutterInv DEF Refuse, vars
<1> QED BY <1>1, <1>2

\* A lease is active only if the call shows the one the task is under.
LEMMA ActiveLease ==
    ASSUME NEW t \in TaskIDs, NEW l, NEW w, tasks[t].state \in States,
           activeLease(t, l, w) = "active"
    PROVE  Holds(t, l, w) /\ Live(t)
BY DEF activeLease, Holds, States

LEMMA EnqueueInv ==
    ASSUME IInv, NEW t \in TaskIDs, Enqueue(t)
    PROVE  IInv'
<1> DEFINE task == [tasks[t] EXCEPT !.state = "queued"]
<1>1. /\ issued \in Nat /\ TableOK(tasks, issued)
      /\ queued \in Seq(TaskIDs) /\ Lists(queued, Waiting(tasks))
      /\ order \in Seq(TaskIDs) /\ Lists(order, Known(tasks))
      /\ tasks[t] \in Task /\ TaskOK(tasks[t], issued)
  BY TableOfInv DEF IInv, TypeOK, QueueConsistent, OrderConsistent, TableOK
<1>2. /\ task \in Task /\ TaskOK(task, issued) /\ task.state = "queued"
      /\ tasks' = [tasks EXCEPT ![t] = task]
  <2>1. task \in Task /\ task.state = "queued"
        /\ task.attempts = tasks[t].attempts /\ task.lease = tasks[t].lease
        /\ task.result = tasks[t].result
    BY <1>1 DEF Task, States
  <2>2. tasks[t].state = "absent" /\ tasks' = [tasks EXCEPT ![t] = task]
    BY DEF Enqueue
  <2> QED BY <1>1, <2>1, <2>2, MaxAttemptsAssumption
          DEF TaskOK, Terminal, CanRetry
<1> HIDE DEF task
<1>e. /\ tasks[t].state = "absent" /\ queued' = Append(queued, t)
      /\ order' = Append(order, t) /\ issued' = issued
  BY DEF Enqueue
<1>3. TableOK(tasks', issued')
  <2>1. TableOK([tasks EXCEPT ![t] = task], issued)
    BY <1>1, <1>2, TableUpdate
  <2> QED BY <1>2, <1>e, <2>1, Zenon
<1>4. /\ Waiting(tasks') = Waiting(tasks) \union {t}
      /\ Known(tasks') = Known(tasks) \union {t}
  BY <1>1, <1>2, UpdateSets DEF TableOK
<1>5. /\ t \notin Waiting(tasks) /\ t \notin Known(tasks)
      /\ Waiting(tasks) \in SUBSET TaskIDs /\ Known(tasks) \in SUBSET TaskIDs
  BY <1>e DEF Waiting, Known
<1>6. queued' \in Seq(TaskIDs) /\ Lists(queued', Waiting(tasks'))
  <2>1. /\ Append(queued, t) \in Seq(TaskIDs)
        /\ Lists(Append(queued, t), Waiting(tasks) \union {t})
    BY <1>1, <1>5, ListsAppend
  <2> QED BY <1>4, <1>e, <2>1, Zenon
<1>7. order' \in Seq(TaskIDs) /\ Lists(order', Known(tasks'))
  <2>1. /\ Append(order, t) \in Seq(TaskIDs)
        /\ Lists(Append(order, t), Known(tasks) \union {t})
    BY <1>1, <1>5, ListsAppend
  <2> QED BY <1>4, <1>e, <2>1, Zenon
<1> QED BY <1>1, <1>3, <1>6, <1>7, <1>e, InvOfTable

LEMMA ClaimInv ==
    ASSUME IInv, NEW w \in Workers, Claim(w)
    PROVE  IInv'
<1>1. PICK back \in Returned :
        LET q == queued \o back
        IN /\ q \in Seq(TaskIDs) /\ Lists(q, Waiting(Swept))
           /\ Len(q) >= 1
           /\ tasks' = [Swept EXCEPT ![q[1]] = Granted(Swept[q[1]], w)]
           /\ queued' = SubSeq(q, 2, Len(q))
           /\ issued' = issued + 1 /\ order' = order
  BY ClaimEffect
<1> DEFINE q == queued \o back
           t == q[1]
           task == Granted(Swept[t], w)
<1>2. /\ issued \in Nat /\ TableOK(Swept, issued)
      /\ q \in Seq(TaskIDs) /\ Lists(q, Waiting(Swept))
      /\ order \in Seq(TaskIDs) /\ Lists(order, Known(Swept))
  BY <1>1, SweptOK DEF IInv, TypeOK, OrderConsistent
<1>3. /\ Len(q) >= 1 /\ tasks' = [Swept EXCEPT ![t] = task]
      /\ queued' = SubSeq(q, 2, Len(q)) /\ issued' = issued + 1 /\ order' = order
  BY <1>1
<1> HIDE DEF q
<1>4. /\ t \in Waiting(Swept)
      /\ queued' \in Seq(TaskIDs) /\ Lists(queued', Waiting(Swept) \ {t})
  BY <1>2, <1>3, ListsRest DEF Waiting
<1>5. t \in TaskIDs /\ Swept[t].state = "queued"
  BY <1>4 DEF Waiting
<1>6. /\ task \in Task /\ TaskOK(task, issued + 1)
      /\ task.state = "leased" /\ task.lease.id = issued + 1
  BY <1>2, <1>5, GrantedOK DEF TableOK
<1> HIDE DEF t, task
<1>7. TableOK(tasks', issued')
  <2>1. \A u \in TaskIDs : /\ TaskOK(Swept[u], issued + 1)
                           /\ Swept[u].state = "leased" => Swept[u].lease.id # issued + 1
    BY <1>2, TaskOKMonotone DEF TableOK, TaskOK
  <2> QED BY <1>2, <1>3, <1>5, <1>6, <2>1 DEF TableOK
<1>8. Waiting(tasks') = Waiting(Swept) \ {t} /\ Known(tasks') = Known(Swept)
  <2>1. t \in Known(Swept)
    BY <1>5 DEF Known
  <2>2. /\ Waiting([Swept EXCEPT ![t] = task]) = Waiting(Swept) \ {t}
        /\ Known([Swept EXCEPT ![t] = task]) = Known(Swept) \union {t}
    BY <1>2, <1>5, <1>6, UpdateSets DEF TableOK
  <2>3. Known(Swept) \union {t} = Known(Swept)
    BY <2>1
  <2> QED BY <1>3, <2>2, <2>3, Zenon
<1>9. /\ queued' \in Seq(TaskIDs) /\ Lists(queued', Waiting(tasks'))
      /\ order' \in Seq(TaskIDs) /\ Lists(order', Known(tasks'))
  BY <1>2, <1>3, <1>4, <1>8, Zenon
<1>10. issued' \in Nat
  BY <1>2, <1>3
<1> QED BY <1>7, <1>9, <1>10, InvOfTable

\* A sweep, with no task leased out after it.
LEMMA SweepInv ==
    ASSUME IInv, NEW back \in Returned,
           tasks' = Swept, queued' = queued \o back, UNCHANGED <<order, issued>>
    PROVE  IInv'
<1>1. /\ issued \in Nat /\ TableOK(Swept, issued)
      /\ order \in Seq(TaskIDs) /\ Lists(order, Known(Swept))
  BY SweptOK DEF IInv, TypeOK, OrderConsistent
<1>2. TableOK(tasks', issued') /\ issued' \in Nat
  BY <1>1, Zenon
<1>3. order' \in Seq(TaskIDs) /\ Lists(order', Known(tasks'))
  BY <1>1, Zenon
<1>4. queued' \in Seq(TaskIDs) /\ Lists(queued', Waiting(tasks'))
  BY SweepLists, Zenon
<1> QED BY <1>2, <1>3, <1>4, InvOfTable

LEMMA ClaimNothingInv ==
    ASSUME IInv, NEW w \in Workers, ClaimNothing(w)
    PROVE  IInv'
BY ClaimNothingEffect, SweepInv

LEMMA RenewInv ==
    ASSUME IInv, NEW t \in TaskIDs, NEW l, NEW w, Renew(t, l, w)
    PROVE  IInv'
<1> DEFINE lease == [tasks[t].lease EXCEPT !.left = LeaseDuration]
           task == [tasks[t] EXCEPT !.lease = lease]
<1>1. /\ issued \in Nat /\ TableOK(tasks, issued)
      /\ tasks[t] \in Task /\ TaskOK(tasks[t], issued)
      /\ queued \in Seq(TaskIDs) /\ Lists(queued, Waiting(tasks))
      /\ order \in Seq(TaskIDs) /\ Lists(order, Known(tasks))
  BY TableOfInv DEF IInv, TypeOK, QueueConsistent, OrderConsistent, TableOK
<1>2. CASE Refuse(t, l, w)
  BY <1>2, RefuseInv DEF Renew
<1>3. CASE /\ activeLease(t, l, w) = "active"
           /\ tasks' = [tasks EXCEPT ![t].lease.left = LeaseDuration]
           /\ UNCHANGED queued
  <2>1. tasks[t].state = "leased"
    <3>1. tasks[t].state \in States
      BY <1>1 DEF Task
    <3> QED BY <1>3, <3>1, ActiveLease DEF Holds
  <2>2. tasks[t].lease \in Lease /\ tasks[t].lease.id # 0
    BY <1>1, <2>1 DEF Task, TaskOK
  <2>3. /\ lease \in Lease /\ lease # NoLease
        /\ lease.id = tasks[t].lease.id /\ lease.workerID = tasks[t].lease.workerID
    BY <2>2, LeaseDurationAssumption DEF Lease, NoLease
  <2>4. tasks' = [tasks EXCEPT ![t] = task]
    BY <1>1, <1>3, <2>2 DEF TableOK, Task, Lease
  <2> HIDE DEF lease
  <2>5. /\ task \in Task /\ task.state = "leased" /\ task.lease = lease
        /\ task.workerID = tasks[t].workerID /\ task.attempts = tasks[t].attempts
        /\ task.result = tasks[t].result
    BY <1>1, <2>1, <2>3 DEF Task
  <2> HIDE DEF task
  <2>6. TaskOK(task, issued)
    BY <1>1, <2>1, <2>3, <2>5 DEF TaskOK, Terminal, CanRetry
  <2>7. TableOK(tasks', issued')
    <3>1. TableOK([tasks EXCEPT ![t] = task], issued)
      BY <1>1, <2>1, <2>3, <2>5, <2>6, TableUpdate
    <3>2. issued' = issued
      BY DEF Renew
    <3> QED BY <2>4, <3>1, <3>2, Zenon
  <2>8. Waiting(tasks') = Waiting(tasks) /\ Known(tasks') = Known(tasks)
    <3>1. /\ Waiting([tasks EXCEPT ![t] = task]) = Waiting(tasks) \ {t}
          /\ Known([tasks EXCEPT ![t] = task]) = Known(tasks) \union {t}
      BY <1>1, <2>5, UpdateSets DEF TableOK
    <3>2. t \notin Waiting(tasks) /\ t \in Known(tasks)
      BY <2>1 DEF Waiting, Known
    <3> QED BY <2>4, <3>1, <3>2
  <2>9. queued' = queued /\ order' = order /\ issued' = issued
    BY <1>3 DEF Renew
  <2> QED BY <1>1, <2>7, <2>8, <2>9, InvOfTable
<1> QED BY <1>2, <1>3 DEF Renew

LEMMA CompleteInv ==
    ASSUME IInv, NEW t \in TaskIDs, NEW l \in Nat, NEW w, NEW ok, Complete(t, l, w, ok)
    PROVE  IInv'
<1>1. /\ issued \in Nat /\ tasks[t] \in Task /\ TaskOK(tasks[t], issued)
      /\ tasks[t].state \in States
  BY TableOfInv DEF IInv, TypeOK, TableOK, Task
<1>2. CASE Refuse(t, l, w)
  BY <1>2, RefuseInv DEF Complete
<1>3. CASE CompleteOutput(t, l, w)
  <2> DEFINE result == [kind |-> "output", from |-> l]
             task == [tasks[t] EXCEPT !.state = "completed", !.lease = NoLease,
                                      !.result = result]
  <2>1. tasks[t].state = "leased"
    BY <1>1, <1>3, ActiveLease DEF CompleteOutput, Holds
  <2>2. result \in Result /\ result # NoResult
    BY DEF Result, NoResult
  <2>3. tasks' = [tasks EXCEPT ![t] = task] /\ queued' = queued
    BY <1>1, <1>3 DEF CompleteOutput, IInv, TypeOK, Task
  <2> HIDE DEF result
  <2>4. /\ task \in Task /\ task.state = "completed" /\ task.lease = NoLease
        /\ task.attempts = tasks[t].attempts /\ task.result = result
    BY <1>1, <2>2, NothingTyped DEF Task, States
  <2> HIDE DEF task
  <2>5. TaskOK(task, issued)
    BY <1>1, <2>1, <2>2, <2>4 DEF TaskOK, Terminal
  <2> QED BY <2>1, <2>3, <2>4, <2>5, LeaseEndInv DEF Complete
<1>4. CASE CompleteError(t, l, w)
  <2>1. tasks[t].state = "leased"
    BY <1>1, <1>4, ActiveLease DEF CompleteError, Holds
  <2>2. CASE CanRetry(tasks[t])
    <3>1. /\ Requeued(tasks[t]) \in Task /\ TaskOK(Requeued(tasks[t]), issued)
          /\ Requeued(tasks[t]).state = "queued"
      BY <1>1, <2>1, <2>2, RequeuedOK
    <3> QED BY <1>4, <2>1, <2>2, <3>1, LeaseEndInv DEF Complete, CompleteError
  <2>3. CASE ~CanRetry(tasks[t])
    <3> DEFINE result == [kind |-> "error", from |-> l]
    <3>1. result \in Result /\ result # NoResult
      BY DEF Result, NoResult
    <3>2. tasks' = [tasks EXCEPT ![t] = Failed(tasks[t], result)] /\ queued' = queued
      BY <1>4, <2>3 DEF CompleteError
    <3> HIDE DEF result
    <3>3. /\ Failed(tasks[t], result) \in Task /\ TaskOK(Failed(tasks[t], result), issued)
          /\ Failed(tasks[t], result).state = "failed"
      BY <1>1, <2>1, <2>3, <3>1, FailedOK
    <3> QED BY <2>1, <3>2, <3>3, LeaseEndInv DEF Complete
  <2> QED BY <2>2, <2>3
<1> QED BY <1>2, <1>3, <1>4 DEF Complete

LEMMA TickInv ==
    ASSUME IInv, Tick
    PROVE  IInv'
<1>1. /\ issued \in Nat /\ TableOK(tasks, issued)
      /\ queued \in Seq(TaskIDs) /\ Lists(queued, Waiting(tasks))
      /\ order \in Seq(TaskIDs) /\ Lists(order, Known(tasks))
  BY TableOfInv DEF IInv, TypeOK, QueueConsistent, OrderConsistent, TableOK
<1>2. queued' = queued /\ order' = order /\ issued' = issued
  BY DEF Tick
<1>3. ASSUME NEW t \in TaskIDs
      PROVE  /\ tasks'[t] \in Task /\ TaskOK(tasks'[t], issued)
             /\ tasks'[t].state = tasks[t].state
             /\ tasks'[t].lease.id = tasks[t].lease.id
  <2>1. tasks[t] \in Task /\ TaskOK(tasks[t], issued)
    BY <1>1 DEF TableOK
  <2>2. CASE tasks[t].lease.left > 0
    <3> DEFINE lease == [tasks[t].lease EXCEPT !.left = tasks[t].lease.left - 1]
               task == [tasks[t] EXCEPT !.lease = lease]
    <3>1. tasks[t].lease \in Lease /\ tasks[t].lease # NoLease
      BY <2>1, <2>2 DEF Task, NoLease
    <3>2. tasks[t].state = "leased" /\ tasks[t].lease.id \in Nat \ {0}
      BY <1>1, <2>1, <3>1 DEF TaskOK
    <3>3. tasks'[t] = task
      BY <2>1, <2>2, <3>1 DEF Tick, Task, Lease
    <3>4. tasks[t].lease.left \in 0..LeaseDuration
      BY <3>1 DEF Lease
    <3>5. tasks[t].lease.left - 1 \in 0..LeaseDuration
      BY <2>2, <3>4, LeaseDurationAssumption
    <3>6. /\ lease \in Lease /\ lease.id = tasks[t].lease.id
          /\ lease.workerID = tasks[t].lease.workerID
      BY <3>1, <3>5 DEF Lease
    <3>7. lease # NoLease
      BY <3>2, <3>6 DEF NoLease
    <3> HIDE DEF lease
    <3>8. /\ task \in Task /\ task.state = "leased" /\ task.lease = lease
          /\ task.workerID = tasks[t].workerID /\ task.attempts = tasks[t].attempts
          /\ task.result = tasks[t].result
      BY <2>1, <3>2, <3>6 DEF Task
    <3> HIDE DEF task
    <3>9. TaskOK(task, issued)
      BY <2>1, <3>2, <3>6, <3>7, <3>8 DEF TaskOK, Terminal, CanRetry
    <3> QED BY <3>2, <3>3, <3>6, <3>8, <3>9
  <2>3. CASE ~(tasks[t].lease.left > 0)
    BY <2>1, <2>3 DEF Tick
  <2> QED BY <2>2, <2>3
<1>4. TableOK(tasks', issued')
  <2>1. tasks' \in [TaskIDs -> Task]
    BY <1>3 DEF Tick
  <2> QED BY <1>1, <1>2, <1>3, <2>1 DEF TableOK
<1>5. Waiting(tasks') = Waiting(tasks) /\ Known(tasks') = Known(tasks)
  BY <1>3 DEF Waiting, Known
<1> QED BY <1>1, <1>2, <1>4, <1>5, InvOfTable

-----------------------------------------------------------------------------
(* The theorems. *)

LEMMA InitInv == Init => IInv
<1> SUFFICES ASSUME Init PROVE IInv
  OBVIOUS
<1>1. Absent \in Task /\ TaskOK(Absent, 0)
  BY NothingTyped, MaxAttemptsAssumption
     DEF Absent, Task, TaskOK, States, Terminal, CanRetry, NoWorkerAssumption
<1>2. Len(queued) = 0 /\ Len(order) = 0 /\ queued \in Seq(TaskIDs) /\ order \in Seq(TaskIDs)
  BY EmptySeq DEF Init
<1>3. \A t \in TaskIDs : tasks[t] = Absent
  BY DEF Init
<1>4. tasks \in [TaskIDs -> Task] /\ issued = 0
  BY <1>1 DEF Init
<1>5. Lists(queued, Waiting(tasks)) /\ Lists(order, Known(tasks))
  BY <1>2, <1>3 DEF Lists, Waiting, Known, Absent
<1>6. TypeOK /\ QueueConsistent /\ OrderConsistent
  BY <1>2, <1>4, <1>5 DEF TypeOK, QueueConsistent, OrderConsistent
<1>7. Absent.state = "absent"
  BY DEF Absent
<1>8. LeaseConsistent
  BY <1>1, <1>3, <1>7 DEF LeaseConsistent, TaskOK
<1>9. RetryPolicy
  BY <1>1, <1>3 DEF RetryPolicy, TaskOK
<1> QED BY <1>6, <1>8, <1>9 DEF IInv

\* A queue whose tasks are all forgotten is well formed again.
LEMMA ForgottenInv ==
    ASSUME IInv, tasks' = [t \in TaskIDs |-> Absent], queued' = <<>>, order' = <<>>,
           issued' = issued
    PROVE  IInv'
<1>1. Absent \in Task /\ TaskOK(Absent, issued)
  BY NothingTyped, MaxAttemptsAssumption
     DEF Absent, Task, TaskOK, States, Terminal, CanRetry, NoWorkerAssumption
<1>2. issued' \in Nat /\ Absent.state = "absent"
  BY DEF IInv, TypeOK, Absent
<1>3. TableOK(tasks', issued')
  BY <1>1, <1>2 DEF TableOK
<1>4. Len(queued') = 0 /\ Len(order') = 0 /\ queued' \in Seq(TaskIDs) /\ order' \in Seq(TaskIDs)
  BY EmptySeq
<1>5. Lists(queued', Waiting(tasks')) /\ Lists(order', Known(tasks'))
  BY <1>2, <1>4 DEF Lists, Waiting, Known
<1> QED BY <1>2, <1>3, <1>4, <1>5, InvOfTable

LEMMA NextInv == IInv /\ [Next]_vars => IInv'
<1> SUFFICES ASSUME IInv, [Next]_vars PROVE IInv'
  OBVIOUS
<1>1. ASSUME NEW t \in TaskIDs, Enqueue(t) PROVE IInv'
  BY <1>1, EnqueueInv
<1>2. ASSUME NEW w \in Workers, Claim(w) PROVE IInv'
  BY <1>2, ClaimInv
<1>3. ASSUME NEW w \in Workers, ClaimNothing(w) PROVE IInv'
  BY <1>3, ClaimNothingInv
<1>4. ASSUME NEW t \in TaskIDs, NEW l \in LeaseIDs, NEW w \in Workers, Renew(t, l, w)
      PROVE  IInv'
  BY <1>4, RenewInv
<1>5. ASSUME NEW t \in TaskIDs, NEW l \in LeaseIDs, NEW w \in Workers,
             NEW ok \in BOOLEAN, Complete(t, l, w, ok)
      PROVE  IInv'
  BY <1>5, CompleteInv DEF LeaseIDs
<1>6. CASE RequeueExpired
  BY <1>6, SweepInv DEF RequeueExpired
<1>7. CASE Tick
  BY <1>7, TickInv
<1>8. CASE UNCHANGED vars
  BY <1>8, StutterInv
<1> QED BY <1>1, <1>2, <1>3, <1>4, <1>5, <1>6, <1>7, <1>8 DEF Next

LEMMA InductiveInvariant == Spec => []IInv
BY InitInv, NextInv, PTL DEF Spec

\* Every reachable state of the queue is well formed, for any number of tasks,
\* workers, attempts and ticks of a lease.
THEOREM TypeCorrect == Spec => []TypeOK
BY InductiveInvariant, PTL DEF IInv

\* No waiting task is ever lost from q.queued or listed in it twice: Enqueue,
\* Claim, Complete and both ways a lease expires agree on who waits.
THEOREM NoTaskLost == Spec => []QueueConsistent
BY InductiveInvariant, PTL DEF IInv

\* expireLocked, walking q.order, reaches every task there is, once.
THEOREM NoLeaseMissed == Spec => []OrderConsistent
BY InductiveInvariant, PTL DEF IInv

\* At any moment a task has at most one lease, and a lease at most one task.
THEOREM OneLeasePerTask == Spec => []LeaseConsistent
BY InductiveInvariant, PTL DEF IInv

\* MaxAttempts is respected on every path that gives a task back.
THEOREM AttemptsBounded == Spec => []RetryPolicy
BY InductiveInvariant, PTL DEF IInv

-----------------------------------------------------------------------------
(* The ways a task changes.  Next has seven actions, some of which touch     *)
(* every task; seen from one task there are six ways to change.              *)

Enqueued(t) ==
    /\ tasks[t].state = "absent"
    /\ tasks'[t] = [tasks[t] EXCEPT !.state = "queued"]

RanOut(t) == Expired(t) /\ tasks'[t] = AfterExpiry(tasks[t])

\* Claimed as it stood, or as the sweep in front of the claim left it.
GivenOut(t) ==
    /\ Swept[t].state = "queued"
    /\ \E w \in Workers : tasks'[t] = Granted(Swept[t], w)

Renewed(t) ==
    /\ tasks[t].state = "leased" /\ Live(t)
    /\ tasks'[t] = [tasks[t] EXCEPT !.lease.left = LeaseDuration]

Aged(t) ==
    /\ tasks[t].state = "leased" /\ Live(t)
    /\ tasks'[t] = [tasks[t] EXCEPT !.lease.left = @ - 1]

\* What can happen to a task without a result about it.
Unreported(t) ==
    \/ tasks'[t] = tasks[t]
    \/ Enqueued(t) \/ RanOut(t) \/ GivenOut(t) \/ Renewed(t) \/ Aged(t)

\* A result under lease l, from its holder and while it runs.
Reported(t, l, ok) ==
    /\ tasks[t].state = "leased" /\ Live(t) /\ tasks[t].lease.id = l
    /\ IF ok
       THEN tasks'[t] = [tasks[t] EXCEPT !.state = "completed", !.lease = NoLease,
                                         !.result = [kind |-> "output", from |-> l]]
       ELSE tasks'[t] = IF CanRetry(tasks[t]) THEN Requeued(tasks[t])
                        ELSE Failed(tasks[t], [kind |-> "error", from |-> l])

\* The holder of t's lease calls Complete, and that is what happens to t.
ReportedByHolder(t) ==
    \E ok \in BOOLEAN :
        /\ Reported(t, tasks[t].lease.id, ok)
        /\ Complete(t, tasks[t].lease.id, tasks[t].lease.workerID, ok)

Changed(t) == Unreported(t) \/ ReportedByHolder(t)

\* The part of the invariant that is about one task.
LEMMA TaskOfInv ==
    ASSUME IInv, NEW t \in TaskIDs
    PROVE  /\ tasks[t] \in Task /\ tasks[t].state \in States
           /\ tasks[t].lease \in Lease /\ tasks[t].lease.left \in 0..LeaseDuration
           /\ TaskOK(tasks[t], issued)
           /\ tasks[t].state = "leased" <=> tasks[t].lease # NoLease
           /\ Live(t) => tasks[t].state = "leased"
<1>1. tasks[t] \in Task /\ TaskOK(tasks[t], issued)
  BY TableOfInv DEF TableOK
<1>2. tasks[t].state \in States /\ tasks[t].lease \in Lease
  BY <1>1 DEF Task
<1>3. tasks[t].lease.left \in 0..LeaseDuration
  BY <1>2 DEF Lease
<1>4. tasks[t].state = "leased" <=> tasks[t].lease # NoLease
  BY <1>1 DEF TaskOK
<1>5. Live(t) => tasks[t].lease # NoLease
  BY DEF Live, NoLease
<1> QED BY <1>1, <1>2, <1>3, <1>4, <1>5

\* The holder's call is refused only when its lease has run out.
LEMMA RefusedHolder ==
    ASSUME IInv, NEW t \in TaskIDs, NEW l, NEW w, Holds(t, l, w),
           activeLease(t, l, w) # "active"
    PROVE  Expired(t)
<1>1. ~Live(t)
  BY DEF activeLease, Holds
<1>2. tasks[t].state = "leased" /\ tasks[t].lease # NoLease
      /\ tasks[t].lease.left \in 0..LeaseDuration
  BY TaskOfInv DEF Holds
<1> QED BY <1>1, <1>2 DEF Expired, Live

\* A refused call changes at most its own task, and that only by expiry.
LEMMA RefuseChanges ==
    ASSUME IInv, NEW t \in TaskIDs, NEW l, NEW w, Refuse(t, l, w)
    PROVE  /\ \A u \in TaskIDs : Unreported(u)
           /\ queued' = queued \/ queued' = Append(queued, t)
<1>1. CASE Holds(t, l, w)
  <2>1. Expired(t) /\ expireTask(t)
    BY <1>1, RefusedHolder DEF Refuse
  <2>2. tasks \in [TaskIDs -> Task]
    BY DEF IInv, TypeOK
  <2>3. tasks'[t] = AfterExpiry(tasks[t]) /\ \A u \in TaskIDs \ {t} : tasks'[u] = tasks[u]
    BY <2>1, <2>2 DEF expireTask
  <2> QED BY <2>1, <2>3 DEF Unreported, RanOut, expireTask
<1>2. CASE ~Holds(t, l, w)
  BY <1>2 DEF Refuse, Unreported
<1> QED BY <1>1, <1>2

\* What a sweep alone does.
LEMMA SweepChanges ==
    ASSUME NEW t \in TaskIDs, tasks'[t] = Swept[t]
    PROVE  Unreported(t)
BY DEF Swept, Unreported, RanOut

LEMMA EnqueueChanges ==
    ASSUME IInv, NEW t \in TaskIDs, Enqueue(t), NEW u \in TaskIDs
    PROVE  Unreported(u)
<1>1. tasks \in [TaskIDs -> Task]
  BY DEF IInv, TypeOK
<1>2. tasks'[t] = [tasks[t] EXCEPT !.state = "queued"] /\ (u # t => tasks'[u] = tasks[u])
  BY <1>1 DEF Enqueue
<1> QED BY <1>2 DEF Enqueue, Unreported, Enqueued

LEMMA ClaimChanges ==
    ASSUME IInv, NEW w \in Workers, Claim(w), NEW t \in TaskIDs
    PROVE  Unreported(t)
<1>1. PICK h \in TaskIDs : /\ Swept[h].state = "queued"
                           /\ tasks' = [Swept EXCEPT ![h] = Granted(Swept[h], w)]
  BY ClaimEffect
<1>2. CASE t = h
  <2>1. tasks'[t] = Granted(Swept[t], w)
    BY <1>1, <1>2 DEF Swept
  <2> QED BY <1>1, <1>2, <2>1 DEF Unreported, GivenOut
<1>3. CASE t # h
  <2>1. tasks'[t] = Swept[t]
    BY <1>1, <1>3 DEF Swept
  <2> QED BY <2>1, SweepChanges
<1> QED BY <1>2, <1>3

LEMMA RenewChanges ==
    ASSUME IInv, NEW t \in TaskIDs, NEW l, NEW w, Renew(t, l, w), NEW u \in TaskIDs
    PROVE  Unreported(u)
<1>1. CASE Refuse(t, l, w)
  BY <1>1, RefuseChanges
<1>2. CASE /\ activeLease(t, l, w) = "active"
           /\ tasks' = [tasks EXCEPT ![t].lease.left = LeaseDuration]
  <2>1. tasks[t].state = "leased" /\ Live(t)
    BY <1>2, TaskOfInv, ActiveLease DEF Holds
  <2>2. tasks \in [TaskIDs -> Task]
    BY DEF IInv, TypeOK
  <2>3. /\ tasks'[t] = [tasks[t] EXCEPT !.lease.left = LeaseDuration]
        /\ u # t => tasks'[u] = tasks[u]
    BY <1>2, <2>2
  <2> QED BY <2>1, <2>3 DEF Unreported, Renewed
<1> QED BY <1>1, <1>2 DEF Renew

LEMMA CompleteChanges ==
    ASSUME IInv, NEW t \in TaskIDs, NEW l, NEW w, NEW ok \in BOOLEAN,
           Complete(t, l, w, ok), NEW u \in TaskIDs
    PROVE  \/ Unreported(u)
           \/ u = t /\ Reported(t, l, ok) /\ tasks[t].lease.workerID = w
<1>1. CASE Refuse(t, l, w)
  BY <1>1, RefuseChanges
<1>2. ASSUME activeLease(t, l, w) = "active"
      PROVE  /\ tasks[t].state = "leased" /\ Live(t)
             /\ tasks[t].lease.id = l /\ tasks[t].lease.workerID = w
  BY <1>2, TaskOfInv, ActiveLease DEF Holds
<1>3. tasks \in [TaskIDs -> Task]
  BY DEF IInv, TypeOK
<1>4. CASE ok /\ CompleteOutput(t, l, w)
  <2>1. /\ tasks'[t] = [tasks[t] EXCEPT !.state = "completed", !.lease = NoLease,
                                        !.result = [kind |-> "output", from |-> l]]
        /\ u # t => tasks'[u] = tasks[u]
    BY <1>3, <1>4 DEF CompleteOutput
  <2>2. Reported(t, l, ok) /\ tasks[t].lease.workerID = w
    BY <1>2, <1>4, <2>1 DEF CompleteOutput, Reported
  <2> QED BY <2>1, <2>2 DEF Unreported
<1>5. CASE ~ok /\ CompleteError(t, l, w)
  <2>1. /\ tasks'[t] = IF CanRetry(tasks[t]) THEN Requeued(tasks[t])
                       ELSE Failed(tasks[t], [kind |-> "error", from |-> l])
        /\ u # t => tasks'[u] = tasks[u]
    BY <1>3, <1>5 DEF CompleteError
  <2>2. Reported(t, l, ok) /\ tasks[t].lease.workerID = w
    BY <1>2, <1>5, <2>1 DEF CompleteError, Reported
  <2> QED BY <2>1, <2>2 DEF Unreported
<1> QED BY <1>1, <1>4, <1>5 DEF Complete

LEMMA TickChanges ==
    ASSUME IInv, Tick, NEW t \in TaskIDs
    PROVE  Unreported(t)
<1>1. CASE Live(t)
  <2>1. tasks[t].state = "leased"
    BY <1>1, TaskOfInv
  <2>2. tasks'[t] = [tasks[t] EXCEPT !.lease.left = @ - 1]
    BY <1>1 DEF Tick, Live
  <2> QED BY <1>1, <2>1, <2>2 DEF Unreported, Aged
<1>2. CASE ~Live(t)
  BY <1>2 DEF Tick, Live, Unreported
<1> QED BY <1>1, <1>2

\* Every step changes every task in one of the six ways, or leaves it alone.
LEMMA StepChanges ==
    ASSUME IInv, [Next]_vars, NEW u \in TaskIDs
    PROVE  Changed(u)
<1>1. ASSUME NEW t \in TaskIDs, Enqueue(t) PROVE Unreported(u)
  BY <1>1, EnqueueChanges
<1>2. ASSUME NEW w \in Workers, Claim(w) PROVE Unreported(u)
  BY <1>2, ClaimChanges
<1>3. ASSUME NEW w \in Workers, ClaimNothing(w) PROVE Unreported(u)
  BY <1>3, SweepChanges DEF ClaimNothing
<1>4. ASSUME NEW t \in TaskIDs, NEW l \in LeaseIDs, NEW w \in Workers, Renew(t, l, w)
      PROVE  Unreported(u)
  BY <1>4, RenewChanges
<1>5. ASSUME NEW t \in TaskIDs, NEW l \in LeaseIDs, NEW w \in Workers,
             NEW ok \in BOOLEAN, Complete(t, l, w, ok)
      PROVE  Changed(u)
  <2>1. CASE Unreported(u)
    BY <2>1 DEF Changed
  <2>2. CASE u = t /\ Reported(t, l, ok) /\ tasks[t].lease.workerID = w
    <3>1. tasks[u].lease.id = l /\ tasks[u].lease.workerID = w
      BY <2>2 DEF Reported
    <3>2. ReportedByHolder(u)
      BY <1>5, <2>2, <3>1 DEF ReportedByHolder
    <3> QED BY <3>2 DEF Changed
  <2> QED BY <1>5, <2>1, <2>2, CompleteChanges
<1>6. CASE RequeueExpired
  BY <1>6, SweepChanges DEF RequeueExpired, Changed
<1>7. CASE Tick
  BY <1>7, TickChanges DEF Changed
<1>8. CASE UNCHANGED vars
  BY <1>8 DEF vars, Changed, Unreported
<1> QED BY <1>1, <1>2, <1>3, <1>4, <1>5, <1>6, <1>7, <1>8 DEF Next, Changed

-----------------------------------------------------------------------------
(* What a granted task was before: given out as it waited, or after its      *)
(* lease had run out with an attempt left.                                   *)

LEMMA GivenOutFrom ==
    ASSUME IInv, NEW t \in TaskIDs, GivenOut(t)
    PROVE  /\ tasks[t].state = "queued" \/ Expired(t)
           /\ ~Live(t) /\ CanRetry(tasks[t])
           /\ tasks'[t].state = "leased"
           /\ tasks'[t].attempts = tasks[t].attempts + 1
           /\ tasks'[t].result = tasks[t].result
           /\ tasks[t].result = NoResult
<1>1. /\ tasks[t] \in Task /\ TaskOK(tasks[t], issued)
      /\ Live(t) => tasks[t].state = "leased"
  BY TaskOfInv
<1>2. PICK w \in Workers : tasks'[t] = Granted(Swept[t], w)
  BY DEF GivenOut
<1>3. Swept[t] \in Task /\ Swept[t].state = "queued"
  BY SweptOK DEF TableOK, GivenOut
<1>4. /\ tasks'[t].state = "leased"
      /\ tasks'[t].attempts = Swept[t].attempts + 1
      /\ tasks'[t].result = Swept[t].result
  BY <1>2, <1>3 DEF Granted, Task
<1>5. CASE Expired(t)
  <2>1. tasks[t].state = "leased" /\ ~Live(t) /\ tasks[t].result = NoResult
    BY <1>1, <1>5 DEF Expired, Live, TaskOK, Terminal
  <2>2. CanRetry(tasks[t]) /\ Swept[t] = Requeued(tasks[t])
    BY <1>1, <1>3, <1>5 DEF Swept, AfterExpiry, Failed, Task
  <2>3. Swept[t].attempts = tasks[t].attempts /\ Swept[t].result = NoResult
    BY <1>1, <2>2 DEF Requeued, Task
  <2> QED BY <1>4, <1>5, <2>1, <2>2, <2>3
<1>6. CASE ~Expired(t)
  <2>1. Swept[t] = tasks[t]
    BY <1>6 DEF Swept
  <2>2. tasks[t].state = "queued"
    BY <1>3, <2>1
  <2>3. ~Live(t) /\ CanRetry(tasks[t]) /\ tasks[t].result = NoResult
    BY <1>1, <2>2 DEF TaskOK, Terminal
  <2> QED BY <1>4, <2>1, <2>2, <2>3
<1> QED BY <1>5, <1>6

-----------------------------------------------------------------------------
(* The action properties. *)

LEMMA TerminalStep ==
    ASSUME IInv, [Next]_vars, NEW t \in TaskIDs, Terminal(tasks[t])
    PROVE  tasks'[t] = tasks[t]
<1>1. tasks[t].state \notin {"absent", "queued", "leased"}
  BY DEF Terminal
<1>2. ~GivenOut(t)
  BY <1>1, GivenOutFrom DEF Expired
<1> QED BY <1>1, <1>2, StepChanges
        DEF Changed, Unreported, ReportedByHolder, Enqueued, RanOut, Renewed, Reported,
            Aged, Expired

\* A finished task is never touched again, whatever call comes after: late
\* results, renewals, sweeps and claims of any worker.
THEOREM FinishedForGood == Spec => TerminalIsFinal
<1> DEFINE Kept == \A t \in TaskIDs : Terminal(tasks[t]) => tasks'[t] = tasks[t]
<1>1. IInv /\ [Next]_vars => [Kept]_vars
  BY TerminalStep
<1>2. Spec => [][Kept]_vars
  BY <1>1, InductiveInvariant, PTL DEF Spec
<1> QED BY <1>2 DEF TerminalIsFinal

\* No step of the queue forgets a task or takes an attempt back.
LEMMA ProgressStep ==
    ASSUME IInv, [Next]_vars, NEW t \in TaskIDs
    PROVE  /\ tasks[t].attempts \in Nat /\ tasks'[t].attempts \in Nat
           /\ tasks'[t].attempts >= tasks[t].attempts
           /\ tasks[t].state # "absent" => tasks'[t].state # "absent"
<1>1. tasks[t] \in Task /\ tasks[t].attempts \in Nat
  BY TaskOfInv DEF Task
<1>2. CASE tasks'[t] = tasks[t]
  BY <1>1, <1>2
<1>3. CASE Enqueued(t)
  BY <1>1, <1>3 DEF Enqueued, Task
<1>4. CASE RanOut(t)
  BY <1>1, <1>4 DEF RanOut, AfterExpiry, Requeued, Failed, Task
<1>5. CASE GivenOut(t)
  BY <1>1, <1>5, GivenOutFrom
<1>6. CASE Renewed(t)
  BY <1>1, <1>6 DEF Renewed, Task
<1>7. CASE Aged(t)
  BY <1>1, <1>7 DEF Aged, Task
<1>8. CASE ReportedByHolder(t)
  <2>1. PICK ok \in BOOLEAN : Reported(t, tasks[t].lease.id, ok)
    BY <1>8 DEF ReportedByHolder
  <2> DEFINE out == [kind |-> "output", from |-> tasks[t].lease.id]
             err == [kind |-> "error", from |-> tasks[t].lease.id]
  <2>2. \/ tasks'[t] = [tasks[t] EXCEPT !.state = "completed", !.lease = NoLease,
                                        !.result = out]
        \/ tasks'[t] = Requeued(tasks[t])
        \/ tasks'[t] = Failed(tasks[t], err)
    BY <2>1 DEF Reported
  <2> HIDE DEF out, err
  <2>3. tasks'[t].attempts = tasks[t].attempts
    BY <1>1, <2>2 DEF Requeued, Failed, Task
  <2>4. tasks'[t].state \in {"completed", "queued", "failed"}
    BY <1>1, <2>2 DEF Requeued, Failed, Task
  <2> QED BY <1>1, <2>3, <2>4
<1> QED BY <1>2, <1>3, <1>4, <1>5, <1>6, <1>7, <1>8, StepChanges DEF Changed, Unreported

\* Without a result reported, the only one recorded is the queue's own verdict.
LEMMA UnreportedResult ==
    ASSUME IInv, NEW t \in TaskIDs, Unreported(t)
    PROVE  tasks'[t].result = tasks[t].result \/ (Expired(t) /\ tasks'[t].result = Exhausted)
<1>1. tasks[t] \in Task /\ (tasks[t].state = "leased" => tasks[t].result = NoResult)
  BY TaskOfInv DEF TaskOK, Terminal
<1>2. CASE Enqueued(t)
  BY <1>1, <1>2 DEF Enqueued, Task
<1>3. CASE RanOut(t)
  <2>1. \/ tasks'[t] = Requeued(tasks[t])
        \/ tasks'[t] = Failed(tasks[t], Exhausted)
    BY <1>3 DEF RanOut, AfterExpiry
  <2>2. tasks'[t].result \in {NoResult, Exhausted}
    BY <1>1, <2>1 DEF Requeued, Failed, Task
  <2>3. Expired(t) /\ tasks[t].state = "leased"
    BY <1>3 DEF RanOut, Expired
  <2> QED BY <1>1, <2>2, <2>3
<1>4. CASE GivenOut(t)
  BY <1>4, GivenOutFrom
<1>5. CASE Renewed(t)
  BY <1>1, <1>5 DEF Renewed, Task
<1>6. CASE Aged(t)
  BY <1>1, <1>6 DEF Aged, Task
<1> QED BY <1>2, <1>3, <1>4, <1>5, <1>6 DEF Unreported

LEMMA ReportedResult ==
    ASSUME IInv, NEW t \in TaskIDs, NEW l, NEW ok \in BOOLEAN, Reported(t, l, ok)
    PROVE  \/ tasks'[t].result = tasks[t].result
           \/ tasks'[t].result = [kind |-> IF ok THEN "output" ELSE "error", from |-> l]
<1>1. tasks[t] \in Task /\ tasks[t].result = NoResult
  BY TaskOfInv DEF TaskOK, Terminal, Reported
<1> DEFINE out == [kind |-> "output", from |-> l]
           err == [kind |-> "error", from |-> l]
<1>2. CASE ok
  <2>1. tasks'[t] = [tasks[t] EXCEPT !.state = "completed", !.lease = NoLease,
                                     !.result = out]
    BY <1>2 DEF Reported
  <2> HIDE DEF out
  <2>2. tasks'[t].result = out
    BY <1>1, <2>1 DEF Task
  <2> QED BY <1>2, <2>2 DEF out
<1>3. CASE ~ok
  <2>1. tasks'[t] = Requeued(tasks[t]) \/ tasks'[t] = Failed(tasks[t], err)
    BY <1>3 DEF Reported
  <2> HIDE DEF err
  <2>2. tasks'[t].result \in {NoResult, err}
    BY <1>1, <2>1 DEF Requeued, Failed, Task
  <2> QED BY <1>1, <1>3, <2>2 DEF err
<1> QED BY <1>2, <1>3

ResultSound(t) ==
    tasks'[t].result # tasks[t].result =>
        IF tasks'[t].result.kind = "exhausted"
        THEN Expired(t)
        ELSE Live(t) /\ tasks'[t].result.from = tasks[t].lease.id

LEMMA ResultStep ==
    ASSUME IInv, [Next]_vars, NEW t \in TaskIDs
    PROVE  ResultSound(t)
<1>1. CASE Unreported(t)
  <2>1. Exhausted.kind = "exhausted"
    BY DEF Exhausted
  <2> QED BY <1>1, <2>1, UnreportedResult DEF ResultSound
<1>2. CASE ReportedByHolder(t)
  <2>1. PICK ok \in BOOLEAN : Reported(t, tasks[t].lease.id, ok)
    BY <1>2 DEF ReportedByHolder
  <2>2. Live(t)
    BY <2>1 DEF Reported
  <2> DEFINE r == [kind |-> IF ok THEN "output" ELSE "error", from |-> tasks[t].lease.id]
  <2>3. r.kind # "exhausted" /\ r.from = tasks[t].lease.id
    OBVIOUS
  <2> HIDE DEF r
  <2>4. tasks'[t].result = tasks[t].result \/ tasks'[t].result = r
    BY <2>1, ReportedResult DEF r
  <2> QED BY <2>2, <2>3, <2>4 DEF ResultSound
<1> QED BY <1>1, <1>2, StepChanges DEF Changed

\* A late result, or one that shows a lease that was replaced, is never
\* recorded, and the queue gives a task up only over a lease that ran out.
THEOREM ResultsInTime == Spec => ResultFromLiveLease
<1> DEFINE Sound == \A t \in TaskIDs : ResultSound(t)
<1>1. IInv /\ [Next]_vars => [Sound]_vars
  BY ResultStep
<1>2. Spec => [][Sound]_vars
  BY <1>1, InductiveInvariant, PTL DEF Spec
<1> QED BY <1>2 DEF ResultFromLiveLease, ResultSound

\* Without a result, a lease that runs stays: it is renewed or ages.  A lease ends
\* when it ran out, and a new one has an ID of its own.
LEMMA UnreportedLease ==
    ASSUME IInv, NEW t \in TaskIDs, Unreported(t)
    PROVE  /\ Live(t) => tasks'[t].lease.id = tasks[t].lease.id
           /\ tasks'[t].lease.id \in 1..issued =>
                 /\ tasks'[t].lease.id = tasks[t].lease.id
                 /\ tasks'[t].lease.workerID = tasks[t].lease.workerID
                 /\ tasks'[t].lease.left > 0 => Live(t)
<1>1. /\ tasks[t] \in Task /\ tasks[t].lease \in Lease /\ issued \in Nat
      /\ Live(t) => tasks[t].state = "leased"
  BY TaskOfInv DEF IInv, TypeOK
<1>2. CASE tasks'[t] = tasks[t]
  BY <1>2 DEF Live
<1>3. CASE Enqueued(t)
  <2>1. tasks'[t].lease = tasks[t].lease
    BY <1>1, <1>3 DEF Enqueued, Task
  <2> QED BY <2>1 DEF Live
<1>4. CASE RanOut(t)
  <2>1. ~Live(t)
    BY <1>4 DEF RanOut, Expired, Live
  <2>2. tasks'[t].lease = NoLease
    BY <1>1, <1>4 DEF RanOut, AfterExpiry, Requeued, Failed, Task
  <2>3. tasks'[t].lease.id = 0
    BY <2>2 DEF NoLease
  <2> QED BY <1>1, <2>1, <2>3
<1>5. CASE GivenOut(t)
  <2>1. Swept[t] \in Task /\ TaskOK(Swept[t], issued) /\ Swept[t].state = "queued"
    BY <1>5, SweptOK DEF TableOK, GivenOut
  <2>2. tasks'[t].lease.id = issued + 1
    BY <1>1, <1>5, <2>1, GrantedOK DEF GivenOut
  <2> QED BY <1>1, <1>5, <2>2, GivenOutFrom
<1>6. CASE Renewed(t)
  <2>1. Live(t) /\ tasks'[t].lease = [tasks[t].lease EXCEPT !.left = LeaseDuration]
    BY <1>1, <1>6 DEF Renewed, Task
  <2> QED BY <1>1, <2>1 DEF Lease
<1>7. CASE Aged(t)
  <2>1. Live(t) /\ tasks'[t].lease = [tasks[t].lease EXCEPT !.left = @ - 1]
    BY <1>1, <1>7 DEF Aged, Task
  <2> QED BY <1>1, <2>1 DEF Lease
<1> QED BY <1>2, <1>3, <1>4, <1>5, <1>6, <1>7 DEF Unreported

LEMMA ReportedLease ==
    ASSUME IInv, NEW t \in TaskIDs, NEW l, NEW ok \in BOOLEAN, Reported(t, l, ok)
    PROVE  tasks'[t].lease.id = 0
<1>1. tasks[t] \in Task
  BY TaskOfInv
<1>2. tasks'[t].lease = NoLease
  BY <1>1 DEF Reported, Requeued, Failed, Task
<1> QED BY <1>2 DEF NoLease

\* A lease that is there after a step, and is not the one just issued, was there
\* before it, with the same worker, and running if it runs now.
LEMMA OldLease ==
    ASSUME IInv, [Next]_vars, NEW t \in TaskIDs, tasks'[t].lease.id \in 1..issued
    PROVE  /\ tasks'[t].lease.id = tasks[t].lease.id
           /\ tasks'[t].lease.workerID = tasks[t].lease.workerID
           /\ tasks'[t].lease.left > 0 => Live(t)
<1>1. ~ReportedByHolder(t)
  BY ReportedLease DEF ReportedByHolder, IInv, TypeOK
<1> QED BY <1>1, StepChanges, UnreportedLease DEF Changed

LeaseStays(t) ==
    Live(t) =>
        \/ tasks'[t].lease.id = tasks[t].lease.id
        \/ \E ok \in BOOLEAN :
              Complete(t, tasks[t].lease.id, tasks[t].lease.workerID, ok)

LEMMA LeaseStep ==
    ASSUME IInv, [Next]_vars, NEW t \in TaskIDs
    PROVE  LeaseStays(t)
<1>1. CASE Unreported(t)
  BY <1>1, UnreportedLease DEF LeaseStays
<1>2. CASE ReportedByHolder(t)
  BY <1>2 DEF ReportedByHolder, LeaseStays
<1> QED BY <1>1, <1>2, StepChanges DEF Changed

\* While a lease runs, nobody ends it but the worker that holds it: not a sweep,
\* not another worker's claim, and no call that shows another lease.
THEOREM NobodyElseEndsALease == Spec => LiveLeaseKept
<1> DEFINE Kept == \A t \in TaskIDs : LeaseStays(t)
<1>1. IInv /\ [Next]_vars => [Kept]_vars
  BY LeaseStep
<1>2. Spec => [][Kept]_vars
  BY <1>1, InductiveInvariant, PTL DEF Spec
<1> QED BY <1>2 DEF LiveLeaseKept, LeaseStays

LineMoves == Stays(1) \/ (Stays(2) /\ tasks'[Head(queued)].state = "leased")

LEMMA JoinedAtEnd ==
    ASSUME queued \in Seq(TaskIDs), NEW back \in Seq(TaskIDs), queued' = queued \o back
    PROVE  Stays(1)
<1> DEFINE n == Len(queued)
<1>1. /\ n \in Nat /\ Len(back) \in Nat /\ Len(queued') = n + Len(back)
      /\ \A i \in 1..n : queued'[i] = queued[i]
  BY ConcatProperties, LenProperties
<1> HIDE DEF n
<1>2. \A i \in 1..n : i - 1 + 1 = i /\ i <= Len(queued')
  BY <1>1
<1> QED BY <1>1, <1>2 DEF Stays, n

LEMMA OneJoined ==
    ASSUME queued \in Seq(TaskIDs), NEW t \in TaskIDs, queued' = Append(queued, t)
    PROVE  Stays(1)
<1>1. Append(queued, t) = queued \o <<t>> /\ <<t>> \in Seq(TaskIDs)
  BY AppendIsConcat
<1> QED BY <1>1, JoinedAtEnd

LEMMA LineKept == ASSUME queued \in Seq(TaskIDs), queued' = queued PROVE Stays(1)
<1> DEFINE n == Len(queued)
<1>1. n \in Nat
  BY LenProperties
<1> HIDE DEF n
<1>2. \A i \in 1..n : i - 1 + 1 = i /\ i <= n
  BY <1>1
<1> QED BY <1>2 DEF Stays, n

LEMMA HeadServed ==
    ASSUME IInv, NEW w \in Workers, Claim(w)
    PROVE  LineMoves
<1>1. PICK back \in Returned :
        LET q == queued \o back
        IN /\ q \in Seq(TaskIDs) /\ Len(q) >= 1 /\ Len(q) \in Nat
           /\ q[1] \in TaskIDs /\ Swept[q[1]].state = "queued"
           /\ tasks' = [Swept EXCEPT ![q[1]] = Granted(Swept[q[1]], w)]
           /\ queued' = SubSeq(q, 2, Len(q))
  BY ClaimEffect
<1> DEFINE q == queued \o back
           n == Len(queued)
           m == Len(q)
<1>2. /\ queued \in Seq(TaskIDs) /\ back \in Seq(TaskIDs) /\ q \in Seq(TaskIDs)
      /\ m >= 1 /\ q[1] \in TaskIDs /\ queued' = SubSeq(q, 2, m)
  BY <1>1, ReturnedLists DEF IInv, TypeOK
<1>3. /\ n \in Nat /\ m \in Nat /\ n <= m /\ \A i \in 1..n : q[i] = queued[i]
  BY <1>2, ConcatProperties, LenProperties
<1>4. /\ Len(queued') = m - 1
      /\ \A i \in 1..(m - 1) : queued'[i] = q[i + 1]
  <2>1. \A i \in 2..m : q[i] \in TaskIDs
    BY <1>2, ElementOfSeq
  <2>2. /\ Len(queued') = IF 2 <= m THEN m - 2 + 1 ELSE 0
        /\ \A i \in 1..(m - 2 + 1) : queued'[i] = q[2 + i - 1]
    BY <1>2, <1>3, <2>1, SubSeqProperties
  <2> HIDE DEF q, m, n
  <2>3. Len(queued') = m - 1
    BY <1>2, <1>3, <2>2
  <2>4. ASSUME NEW i \in 1..(m - 1) PROVE queued'[i] = q[i + 1]
    <3>1. i \in 1..(m - 2 + 1) /\ 2 + i - 1 = i + 1
      BY <1>3
    <3> QED BY <2>2, <3>1
  <2> QED BY <2>3, <2>4
<1>5. Swept \in [TaskIDs -> Task] /\ tasks'[q[1]].state = "leased"
  <2>1. Swept[q[1]] \in Task /\ TaskOK(Swept[q[1]], issued) /\ issued \in Nat
        /\ Swept \in [TaskIDs -> Task]
    BY <1>1, SweptOK DEF TableOK, IInv, TypeOK
  <2>2. Granted(Swept[q[1]], w).state = "leased"
    BY <1>1, <2>1, GrantedOK
  <2> QED BY <1>1, <2>1, <2>2
<1> HIDE DEF q, m
<1>6. CASE n = 0
  <2>1. \A i \in 1..n : FALSE
    BY <1>6
  <2> QED BY <2>1 DEF LineMoves, Stays
<1>7. CASE n # 0
  <2>1. 1 \in 1..n /\ Head(queued) = queued[1]
    BY <1>2, <1>3, <1>7, HeadTailProperties
  <2>2. tasks'[Head(queued)].state = "leased"
    BY <1>3, <1>5, <2>1
  <2> HIDE DEF n
  <2>3. ASSUME NEW i \in 2..n
        PROVE  i - 2 + 1 <= Len(queued') /\ queued'[i - 2 + 1] = queued[i]
    <3>1. /\ i - 2 + 1 = i - 1 /\ i - 1 \in 1..(m - 1) /\ (i - 1) + 1 = i
          /\ i \in 1..n
      BY <1>3
    <3>2. queued'[i - 1] = q[i] /\ q[i] = queued[i]
      BY <1>3, <1>4, <3>1
    <3> QED BY <1>3, <1>4, <3>1, <3>2
  <2> QED BY <2>2, <2>3 DEF LineMoves, Stays, n
<1> QED BY <1>6, <1>7

LEMMA LineStep == ASSUME IInv, [Next]_vars PROVE LineMoves
<1>0. queued \in Seq(TaskIDs) /\ \A s \in Returned : s \in Seq(TaskIDs)
  BY ReturnedLists DEF IInv, TypeOK
<1>1. ASSUME NEW t \in TaskIDs, Enqueue(t) PROVE LineMoves
  BY <1>0, <1>1, OneJoined DEF Enqueue, LineMoves
<1>2. ASSUME NEW w \in Workers, Claim(w) PROVE LineMoves
  BY <1>2, HeadServed
<1>3. ASSUME NEW w \in Workers, ClaimNothing(w) PROVE LineMoves
  BY <1>0, <1>3, ClaimNothingEffect, JoinedAtEnd DEF LineMoves
<1>4. ASSUME NEW t \in TaskIDs, NEW l \in LeaseIDs, NEW w \in Workers, Renew(t, l, w)
      PROVE  LineMoves
  <2>1. queued' = queued \/ queued' = Append(queued, t)
    BY <1>4, RefuseChanges DEF Renew
  <2> QED BY <1>0, <2>1, OneJoined, LineKept DEF LineMoves
<1>5. ASSUME NEW t \in TaskIDs, NEW l \in LeaseIDs, NEW w \in Workers,
             NEW ok \in BOOLEAN, Complete(t, l, w, ok)
      PROVE  LineMoves
  <2>1. queued' = queued \/ queued' = Append(queued, t)
    BY <1>5, RefuseChanges DEF Complete, CompleteOutput, CompleteError
  <2> QED BY <1>0, <2>1, OneJoined, LineKept DEF LineMoves
<1>6. CASE RequeueExpired
  BY <1>0, <1>6, JoinedAtEnd DEF RequeueExpired, LineMoves
<1>7. CASE Tick
  BY <1>0, <1>7, LineKept DEF Tick, LineMoves
<1>8. CASE UNCHANGED vars
  BY <1>0, <1>8, LineKept DEF vars, LineMoves
<1> QED BY <1>1, <1>2, <1>3, <1>4, <1>5, <1>6, <1>7, <1>8 DEF Next

\* The line is served in order: nobody is overtaken or dropped from the middle,
\* whoever comes or comes back joins at the end, and the head leaves to a lease.
THEOREM ServedInOrder == Spec => FirstComeFirstServed
<1>1. IInv /\ [Next]_vars => [LineMoves]_vars
  BY LineStep
<1>2. Spec => [][LineMoves]_vars
  BY <1>1, InductiveInvariant, PTL DEF Spec
<1> QED BY <1>2 DEF FirstComeFirstServed, LineMoves

-----------------------------------------------------------------------------
(* The refinement of TaskLifecycle. *)

LifeStep(t) == [Life(t)!LifeNext]_(Life(t)!lifeVars)

LEMMA GivenBackLife ==
    ASSUME IInv, NEW t \in TaskIDs, tasks[t].state = "leased",
           CanRetry(tasks[t]), tasks'[t] = Requeued(tasks[t])
    PROVE  LifeStep(t)
<1>1. /\ tasks[t] \in Task /\ tasks[t].result = NoResult
  BY TaskOfInv DEF TaskOK, Terminal
<1>2. /\ tasks'[t].state = "queued" /\ tasks'[t].result = NoResult
      /\ tasks'[t].attempts = tasks[t].attempts
  BY <1>1 DEF Requeued, Task
<1> QED BY <1>1, <1>2 DEF LifeStep, Life!LifeNext, Life!GiveBack, CanRetry

LEMMA GivenUpLife ==
    ASSUME IInv, NEW t \in TaskIDs, tasks[t].state = "leased", ~CanRetry(tasks[t]),
           NEW result \in Result \ {NoResult}, tasks'[t] = Failed(tasks[t], result)
    PROVE  LifeStep(t)
<1>1. /\ tasks[t] \in Task /\ tasks[t].attempts = MaxAttempts
  BY TaskOfInv, MaxAttemptsAssumption DEF TaskOK, CanRetry, Task
<1>2. /\ tasks'[t].state = "failed" /\ tasks'[t].result = result
      /\ tasks'[t].attempts = tasks[t].attempts
  BY <1>1 DEF Failed, Task
<1> QED BY <1>1, <1>2 DEF LifeStep, Life!LifeNext, Life!GiveUp

LEMMA LifeSimulation ==
    ASSUME IInv, [Next]_vars, NEW t \in TaskIDs
    PROVE  LifeStep(t)
<1>1. /\ tasks[t] \in Task /\ TaskOK(tasks[t], issued)
      /\ tasks[t].lease \in Lease /\ tasks[t].lease.id \in Nat
  BY TaskOfInv DEF Lease
<1>2. CASE tasks'[t] = tasks[t]
  BY <1>2 DEF LifeStep, Life!lifeVars
<1>3. CASE Enqueued(t)
  <2>1. /\ tasks[t].state = "absent" /\ tasks'[t].state = "queued"
        /\ tasks'[t].attempts = tasks[t].attempts /\ tasks'[t].result = tasks[t].result
    BY <1>1, <1>3 DEF Enqueued, Task
  <2> QED BY <2>1 DEF LifeStep, Life!LifeNext, Life!Submit
<1>4. CASE RanOut(t)
  <2>1. tasks[t].state = "leased" /\ Exhausted \in Result \ {NoResult}
    BY <1>4 DEF RanOut, Expired, Exhausted, NoResult, Result
  <2> QED BY <1>4, <2>1, GivenBackLife, GivenUpLife DEF RanOut, AfterExpiry
<1>5. CASE GivenOut(t)
  <2>1. /\ tasks[t].state \in {"queued", "leased"} /\ tasks[t].attempts < MaxAttempts
        /\ tasks'[t].state = "leased" /\ tasks'[t].attempts = tasks[t].attempts + 1
        /\ tasks'[t].result = tasks[t].result
    BY <1>5, GivenOutFrom DEF Expired, CanRetry
  <2> QED BY <2>1 DEF LifeStep, Life!LifeNext, Life!Grant, Life!Regrant
<1>6. CASE Renewed(t)
  <2>1. /\ tasks'[t].state = tasks[t].state
        /\ tasks'[t].attempts = tasks[t].attempts /\ tasks'[t].result = tasks[t].result
    BY <1>1, <1>6 DEF Renewed, Task
  <2> QED BY <2>1 DEF LifeStep, Life!lifeVars
<1>7. CASE ReportedByHolder(t)
  <2> DEFINE out == [kind |-> "output", from |-> tasks[t].lease.id]
             err == [kind |-> "error", from |-> tasks[t].lease.id]
  <2>1. /\ tasks[t].state = "leased"
        /\ \/ tasks'[t] = [tasks[t] EXCEPT !.state = "completed", !.lease = NoLease,
                                           !.result = out]
           \/ CanRetry(tasks[t]) /\ tasks'[t] = Requeued(tasks[t])
           \/ ~CanRetry(tasks[t]) /\ tasks'[t] = Failed(tasks[t], err)
    BY <1>7 DEF ReportedByHolder, Reported
  <2>2. out \in Result \ {NoResult} /\ err \in Result \ {NoResult}
    BY <1>1 DEF Result, NoResult
  <2> HIDE DEF out, err
  <2>3. CASE tasks'[t] = [tasks[t] EXCEPT !.state = "completed", !.lease = NoLease,
                                          !.result = out]
    <3>1. /\ tasks'[t].state = "completed" /\ tasks'[t].result = out
          /\ tasks'[t].attempts = tasks[t].attempts
      BY <1>1, <2>3 DEF Task
    <3> QED BY <2>1, <2>2, <3>1 DEF LifeStep, Life!LifeNext, Life!Succeed
  <2> QED BY <2>1, <2>2, <2>3, GivenBackLife, GivenUpLife
<1>8. CASE Aged(t)
  <2>1. /\ tasks'[t].state = tasks[t].state
        /\ tasks'[t].attempts = tasks[t].attempts /\ tasks'[t].result = tasks[t].result
    BY <1>1, <1>8 DEF Aged, Task
  <2> QED BY <2>1 DEF LifeStep, Life!lifeVars
<1> QED BY <1>2, <1>3, <1>4, <1>5, <1>6, <1>7, <1>8, StepChanges DEF Changed, Unreported

LEMMA LifeInitial == ASSUME Init, NEW t \in TaskIDs PROVE Life(t)!LifeInit
<1>1. tasks[t] = Absent
  BY DEF Init
<1> QED BY <1>1 DEF Absent, Life!LifeInit

\* Each task on its own implements TaskLifecycle, under any interleaving of any
\* number of tasks and workers: granted at most MaxAttempts times, given back
\* while attempts remain, failed when none do, one outcome, never changed.
THEOREM TasksKeepTheirPromise == Spec => LifecyclePromise
<1> DEFINE Simulated == \A t \in TaskIDs : LifeStep(t)
<1>1. Init => \A t \in TaskIDs : Life(t)!LifeInit
  BY LifeInitial
<1>2. IInv /\ [Next]_vars => [Simulated]_vars
  BY LifeSimulation
<1>3. Spec => [][Simulated]_vars
  BY <1>2, InductiveInvariant, PTL DEF Spec
<1>4. Spec => \A t \in TaskIDs : Life(t)!LifeInit
  BY <1>1 DEF Spec
<1> QED BY <1>3, <1>4 DEF LifecyclePromise, LifeStep

=============================================================================
