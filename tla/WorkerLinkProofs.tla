---------------------------- MODULE WorkerLinkProofs ----------------------------
(***************************************************************************)
(* Theorems about WorkerLink, for any finite number of slots, any set of   *)
(* tasks and any bounds.                                                   *)
(***************************************************************************)
EXTENDS WorkerLink, FiniteSetTheorems, TLAPS

-----------------------------------------------------------------------------
(* The inductive invariant, in three parts.                                  *)

\* A goroutine sends nothing while it is in markUnavailable: it is there only
\* where a failed request leaves it, and goes on when it is through.
SlotsOK ==
    /\ pc \in [Slots -> {"idle", "claiming", "starting", "ended"} \union Working]
    /\ loop \in [Slots -> {"off", "ticking", "renewing"}]
    /\ task \in [Slots -> TaskIDs \union {NoTask}]
    /\ mark \in [Senders -> {"none", "told", "raised"}]
    /\ \A s \in Slots :
          /\ task[s] # NoTask <=> pc[s] \in {"starting"} \union Working
          /\ loop[s] # "off" => pc[s] \in Working
          /\ pc[s] \notin {"idle", "ready"} => Free(s, "slot")
          /\ loop[s] # "ticking" => Free(s, "loop")

\* Whoever is in markUnavailable got there by a request that failed.
Marked == {g \in Senders : mark[g] # "none"}

ReportsOK ==
    /\ live \in BOOLEAN /\ stopped \in BOOLEAN /\ (stopped => ~live)
    /\ everConnected \in BOOLEAN /\ unavailable \in BOOLEAN
    /\ connection \in {"starting", "connected", "unavailable", "stopping"}
    /\ failures \in 0..MaxFailures /\ outages \in Int
    /\ Cardinality(Marked) <= failures
    /\ unavailable => failures >= 1
    /\ OutageAccounted

\* Two slots share a task only if it was granted twice.
TasksOK ==
    /\ activeTasks \subseteq TaskIDs /\ over \subseteq TaskIDs
    /\ granted \in [TaskIDs -> Nat] /\ grants \in 0..MaxGrants
    /\ \A t \in TaskIDs : granted[t] <= grants
    /\ \A s \in Slots : task[s] # NoTask => granted[task[s]] >= 1
    /\ \A s, r \in Slots : s # r /\ task[s] # NoTask /\ task[s] = task[r]
                              => granted[task[s]] >= 2
    /\ ShownTasksExecute

LinkInv == SlotsOK /\ ReportsOK /\ TasksOK

-----------------------------------------------------------------------------
(* Slots and their loops *)

USE DEF Working, Senders

LEMMA SlotsStep == ASSUME SlotsOK, [LinkNext]_linkVars PROVE SlotsOK'
<1> USE DEF SlotsOK, Free, Goto, GotoLoop, tellMonitor, markConnected, slots, state, offers
<1>1. ASSUME NEW s \in Slots, SlotEnds(s) PROVE SlotsOK'
  BY <1>1, NoTaskAssumption DEF SlotEnds
<1>2. ASSUME NEW s \in Slots, TaskStarted(s) PROVE SlotsOK'
  BY <1>2, NoTaskAssumption DEF TaskStarted
<1>3. ASSUME NEW s \in Slots, SendResult(s) PROVE SlotsOK'
  BY <1>3, NoTaskAssumption DEF SendResult
<1>4. ASSUME NEW s \in Slots, ResultDropped(s) PROVE SlotsOK'
  BY <1>4, NoTaskAssumption DEF ResultDropped
<1>5. ASSUME NEW s \in Slots, TaskFinished(s) PROVE SlotsOK'
  BY <1>5, NoTaskAssumption DEF TaskFinished
<1>6. ASSUME NEW s \in Slots, LoopEnds(s) PROVE SlotsOK'
  BY <1>6, NoTaskAssumption DEF LoopEnds, RenewLive
<1>7. ASSUME NEW s \in Slots, ClaimArrives(s) PROVE SlotsOK'
  BY <1>7, NoTaskAssumption DEF ClaimArrives
<1>8. ASSUME NEW s \in Slots, NEW b \in BOOLEAN, ResultArrives(s, b) PROVE SlotsOK'
  BY <1>8, NoTaskAssumption DEF ResultArrives
<1>9. ASSUME NEW s \in Slots, NEW b \in BOOLEAN, RenewalArrives(s, b) PROVE SlotsOK'
  BY <1>9, NoTaskAssumption DEF RenewalArrives
<1>10. ASSUME NEW s \in Slots, ExecutorReturns(s) PROVE SlotsOK'
  BY <1>10, NoTaskAssumption DEF ExecutorReturns
<1>11. ASSUME NEW s \in Slots, SendClaim(s) PROVE SlotsOK'
  BY <1>11, NoTaskAssumption DEF SendClaim
<1>12. ASSUME NEW s \in Slots, SendRenewal(s) PROVE SlotsOK'
  BY <1>12, NoTaskAssumption DEF SendRenewal, RenewLive
<1>13. ASSUME NEW s \in Slots, ClaimFails(s) PROVE SlotsOK'
  BY <1>13, NoTaskAssumption DEF ClaimFails
<1>14. ASSUME NEW s \in Slots, ResultFails(s) PROVE SlotsOK'
  BY <1>14, NoTaskAssumption DEF ResultFails
<1>15. ASSUME NEW s \in Slots, RenewalFails(s) PROVE SlotsOK'
  BY <1>15, NoTaskAssumption DEF RenewalFails, RenewLive
<1>16. ASSUME NEW g \in Senders, raiseFlag(g) PROVE SlotsOK'
  BY <1>16, NoTaskAssumption DEF raiseFlag
<1>17. ASSUME NEW g \in Senders, reportOutage(g) PROVE SlotsOK'
  BY <1>17, NoTaskAssumption DEF reportOutage
<1>18. CASE Cancel
  BY <1>18, NoTaskAssumption DEF Cancel
<1>19. CASE Stopping
  BY <1>19, NoTaskAssumption DEF Stopping
<1>20. CASE Terminated
  BY <1>20, NoTaskAssumption DEF Terminated, linkVars
<1>21. CASE UNCHANGED linkVars
  BY <1>21 DEF linkVars
<1> QED BY <1>1, <1>2, <1>3, <1>4, <1>5, <1>6, <1>7, <1>8, <1>9, <1>10, <1>11, <1>12,
           <1>13, <1>14, <1>15, <1>16, <1>17, <1>18, <1>19, <1>20, <1>21
       DEF LinkNext, Runs, Answered, LoopAnswered

-----------------------------------------------------------------------------
(* The reports of outages *)

LEMMA SendersFinite == IsFiniteSet(Senders)
<1>1. {"slot", "loop"} = {"slot"} \union {"loop"}
  OBVIOUS
<1>2. IsFiniteSet({"slot"} \union {"loop"})
  BY FS_Singleton, FS_AddElement
<1>3. IsFiniteSet({"slot", "loop"})
  BY <1>1, <1>2
<1> QED BY <1>3, SlotsAssumption, FS_Product

\* There are some senders in each place, and no more of them than in all.
LEMMA Counts ==
    /\ IsFiniteSet(Marked) /\ Cardinality(Marked) \in Nat
    /\ IsFiniteSet(Marking("raised")) /\ Cardinality(Marking("raised")) \in Nat
    /\ Cardinality(Marking("raised")) <= Cardinality(Marked)
<1>1. Marked \in SUBSET Senders /\ Marking("raised") \in SUBSET Marked
  BY DEF Marked, Marking
<1>2. IsFiniteSet(Marked)
  BY <1>1, SendersFinite, FS_Subset
<1> QED BY <1>1, <1>2, FS_Subset, FS_CardinalityType

LEMMA TellReports ==
    ASSUME SlotsOK, ReportsOK, NEW g \in Senders, mark[g] = "none", tellMonitor(g)
    PROVE  ReportsOK'
<1>1. /\ Marked' = Marked \union {g} /\ Marking("raised")' = Marking("raised")
      /\ g \in Marking("told")'
  BY DEF SlotsOK, Marked, Marking, tellMonitor
<1>2. Cardinality(Marked)' <= Cardinality(Marked) + 1 /\ Cardinality(Marked)' \in Nat
  <2>1. /\ Cardinality(Marked \union {g}) \in {Cardinality(Marked), Cardinality(Marked) + 1}
        /\ Cardinality(Marked) \in Nat
    BY Counts, FS_AddElement
  <2>2. /\ Cardinality(Marked \union {g}) <= Cardinality(Marked) + 1
        /\ Cardinality(Marked \union {g}) \in Nat
    BY <2>1
  <2> QED BY <1>1, <2>2
<1>3. failures' = failures + 1 /\ failures' \in 0..MaxFailures
  BY BoundsAssumption DEF ReportsOK, tellMonitor
<1>4. Cardinality(Marked)' <= failures'
  BY <1>2, <1>3, Counts DEF ReportsOK
<1>5. OutageAccounted'
  BY <1>1 DEF ReportsOK, OutageAccounted, tellMonitor, state
<1> QED BY <1>3, <1>4, <1>5 DEF ReportsOK, tellMonitor, state

LEMMA RaiseReports ==
    ASSUME SlotsOK, ReportsOK, NEW g \in Senders, raiseFlag(g)
    PROVE  ReportsOK'
<1>1. g \in Marked /\ g \notin Marking("raised") /\ Marked' \in SUBSET Marked
  BY DEF SlotsOK, Marked, Marking, raiseFlag
<1>2. Cardinality(Marked) >= 1
  BY <1>1, Counts, FS_EmptySet
<1>3. Cardinality(Marked)' <= Cardinality(Marked)
  BY <1>1, Counts, FS_Subset
<1>4. failures >= 1 /\ Cardinality(Marked)' <= failures /\ failures' = failures
  <2>1. Cardinality(Marked)' \in Nat
    BY <1>1, Counts, FS_Subset, FS_CardinalityType
  <2> QED BY <1>2, <1>3, <2>1, Counts DEF ReportsOK, raiseFlag
<1>5. OutageAccounted'
  <2>1. CASE unavailable
    <3>1. Marking("raised")' = Marking("raised")
      BY <1>1, <2>1 DEF SlotsOK, Marking, raiseFlag
    <3> QED BY <2>1, <3>1 DEF ReportsOK, OutageAccounted, raiseFlag
  <2>2. CASE ~unavailable
    <3>1. Marking("raised")' = Marking("raised") \union {g}
      BY <1>1, <2>2 DEF SlotsOK, Marking, raiseFlag
    <3>2. Cardinality(Marking("raised"))' = Cardinality(Marking("raised")) + 1
      BY <1>1, <3>1, Counts, FS_AddElement
    <3> QED BY <2>2, <3>2, Counts DEF ReportsOK, OutageAccounted, raiseFlag
  <2> QED BY <2>1, <2>2
<1> QED BY <1>4, <1>5 DEF ReportsOK, raiseFlag

LEMMA ReportReports ==
    ASSUME SlotsOK, ReportsOK, NEW g \in Senders, reportOutage(g)
    PROVE  ReportsOK'
<1>1. /\ g \in Marking("raised") /\ Marking("raised")' = Marking("raised") \ {g}
      /\ Marked' \in SUBSET Marked /\ Marking("told")' = Marking("told")
  BY DEF SlotsOK, Marked, Marking, reportOutage
<1>2. Cardinality(Marking("raised"))' = Cardinality(Marking("raised")) - 1
  BY <1>1, Counts, FS_RemoveElement
<1>3. Cardinality(Marked)' <= failures /\ failures' = failures
  <2>1. Cardinality(Marked)' \in Nat /\ Cardinality(Marked)' <= Cardinality(Marked)
    BY <1>1, Counts, FS_Subset, FS_CardinalityType
  <2> QED BY <2>1, Counts DEF ReportsOK, reportOutage
<1>4. OutageAccounted'
  BY <1>1, <1>2, Counts DEF ReportsOK, OutageAccounted, reportOutage, state
<1> QED BY <1>3, <1>4 DEF ReportsOK, reportOutage, state

LEMMA ConnectReports ==
    ASSUME ReportsOK, markConnected
    PROVE  ReportsOK'
<1>1. Marked' = Marked /\ Marking("raised")' = Marking("raised")
  BY DEF Marked, Marking, markConnected
<1>2. OutageAccounted'
  BY <1>1, Counts DEF ReportsOK, OutageAccounted, markConnected
<1>3. outages' \in Int
  BY DEF ReportsOK, markConnected
<1> QED BY <1>1, <1>2, <1>3 DEF ReportsOK, markConnected

\* Steps that tell nobody about the coordinator.
LEMMA QuietReports ==
    ASSUME ReportsOK,
           UNCHANGED <<live, stopped, mark, state, connection, outages, failures>>
    PROVE  ReportsOK'
BY DEF ReportsOK, OutageAccounted, Marked, Marking, state

LEMMA ReportsStep == ASSUME SlotsOK, ReportsOK, [LinkNext]_linkVars PROVE ReportsOK'
<1>1. ASSUME NEW s \in Slots, Runs(s) PROVE ReportsOK'
  BY <1>1, QuietReports DEF Runs, SlotEnds, TaskStarted, SendResult, ResultDropped,
                            TaskFinished, LoopEnds
<1>2. ASSUME NEW s \in Slots, Answered(s) \/ LoopAnswered(s) PROVE ReportsOK'
  BY <1>2, ConnectReports DEF Answered, LoopAnswered, ClaimArrives, ResultArrives,
                              RenewalArrives
<1>3. ASSUME NEW s \in Slots, ExecutorReturns(s) \/ SendClaim(s) \/ SendRenewal(s)
      PROVE  ReportsOK'
  BY <1>3, QuietReports DEF ExecutorReturns, SendClaim, SendRenewal
<1>4. ASSUME NEW s \in Slots, ClaimFails(s) \/ ResultFails(s) PROVE ReportsOK'
  <2>1. /\ <<s, "slot">> \in Senders /\ tellMonitor(<<s, "slot">>)
        /\ mark[<<s, "slot">>] = "none"
    BY <1>4 DEF ClaimFails, ResultFails, SlotsOK, Free
  <2> QED BY <2>1, TellReports
<1>5. ASSUME NEW s \in Slots, RenewalFails(s) PROVE ReportsOK'
  <2>1. /\ <<s, "loop">> \in Senders /\ tellMonitor(<<s, "loop">>)
        /\ mark[<<s, "loop">>] = "none"
    BY <1>5 DEF RenewalFails, SlotsOK, Free
  <2> QED BY <2>1, TellReports
<1>6. ASSUME NEW g \in Senders, raiseFlag(g) \/ reportOutage(g) PROVE ReportsOK'
  BY <1>6, RaiseReports, ReportReports
<1>7. CASE Cancel \/ Stopping
  <2>1. UNCHANGED <<mark, everConnected, unavailable, outages, failures>>
    BY <1>7 DEF Cancel, Stopping, state
  <2>2. /\ connection' \in {"starting", "connected", "unavailable", "stopping"}
        /\ connection' = "unavailable" => connection = "unavailable"
    BY <1>7 DEF Cancel, Stopping, ReportsOK
  <2>5. /\ live' \in BOOLEAN /\ stopped' \in BOOLEAN /\ (stopped' => ~live')
    <3>1. \/ live' = FALSE /\ stopped' = stopped
          \/ live' = live /\ live = FALSE /\ stopped' = TRUE
      BY <1>7 DEF Cancel, Stopping, ReportsOK
    <3>2. live \in BOOLEAN /\ stopped \in BOOLEAN
      BY DEF ReportsOK
    <3>3. CASE live' = FALSE /\ stopped' = stopped
      BY <3>2, <3>3
    <3>4. CASE live' = live /\ live = FALSE /\ stopped' = TRUE
      <4>1. ~live' /\ live' \in BOOLEAN
        BY <3>4
      <4>2. stopped' \in BOOLEAN
        BY <3>4
      <4> QED BY <4>1, <4>2
    <3> QED BY <3>1, <3>3, <3>4
  <2>3. Marked' = Marked /\ \A p : Marking(p)' = Marking(p)
    BY <2>1 DEF Marked, Marking
  <2>4. OutageAccounted'
    BY <2>1, <2>2, <2>3 DEF ReportsOK, OutageAccounted
  <2> QED BY <2>1, <2>2, <2>3, <2>4, <2>5 DEF ReportsOK
<1>8. CASE Terminated \/ UNCHANGED linkVars
  BY <1>8, QuietReports DEF Terminated, linkVars, state
<1> QED BY <1>1, <1>2, <1>3, <1>4, <1>5, <1>6, <1>7, <1>8 DEF LinkNext

-----------------------------------------------------------------------------
(* The tasks shown as active *)

\* Steps that neither begin nor end the execution of a task.
LEMMA SameTasks ==
    ASSUME TasksOK, UNCHANGED <<task, granted, grants, activeTasks>>,
           over' \subseteq TaskIDs,
           \A s \in Slots : pc'[s] \in Working <=> pc[s] \in Working
    PROVE  TasksOK'
<1>1. \A t \in TaskIDs : Executing(t)' = Executing(t)
  BY DEF Executing
<1> QED BY <1>1 DEF TasksOK, ShownTasksExecute

LEMMA ClaimTasks ==
    ASSUME SlotsOK, TasksOK, NEW s \in Slots, ClaimArrives(s)
    PROVE  TasksOK'
<1>1. \A t \in TaskIDs : Executing(t)' = Executing(t)
  BY DEF SlotsOK, Executing, ClaimArrives, Goto
<1>2. /\ activeTasks' = activeTasks /\ over' = over
      /\ task[s] = NoTask /\ pc[s] = "claiming"
  BY DEF ClaimArrives, SlotsOK
<1>3. CASE UNCHANGED <<task, granted, grants>>
  BY <1>1, <1>2, <1>3 DEF TasksOK, ShownTasksExecute
<1>4. ASSUME NEW t \in TaskIDs, grants < MaxGrants, grants' = grants + 1,
             granted' = [granted EXCEPT ![t] = @ + 1], task' = [task EXCEPT ![s] = t]
      PROVE  TasksOK'
  <2>1. /\ granted' \in [TaskIDs -> Nat] /\ grants' \in 0..MaxGrants
        /\ \A u \in TaskIDs : /\ granted[u] <= granted'[u]
                              /\ granted'[u] <= grants' /\ granted[u] \in Nat
        /\ granted'[t] = granted[t] + 1
    BY <1>4, BoundsAssumption DEF TasksOK
  <2>2. task'[s] = t /\ \A r \in Slots \ {s} : task'[r] = task[r]
    BY <1>4 DEF SlotsOK
  <2>3. \A r \in Slots : task[r] \in TaskIDs \union {NoTask}
    BY DEF SlotsOK
  <2>4. \A r \in Slots : task'[r] # NoTask => granted'[task'[r]] >= 1
    BY <2>1, <2>2, <2>3 DEF TasksOK
  <2>5. ASSUME NEW p \in Slots, NEW r \in Slots, p # r, task'[p] # NoTask,
               task'[p] = task'[r]
        PROVE  granted'[task'[p]] >= 2
    <3>1. CASE p = s
      <4>1. task[r] = t /\ granted[t] >= 1
        BY <2>2, <2>3, <2>5, <3>1, NoTaskAssumption DEF TasksOK
      <4> QED BY <2>1, <2>2, <3>1, <4>1
    <3>2. CASE r = s
      <4>1. task[p] = t /\ granted[t] >= 1
        BY <2>2, <2>3, <2>5, <3>2, NoTaskAssumption DEF TasksOK
      <4> QED BY <2>1, <2>2, <2>5, <3>2, <4>1
    <3>3. CASE p # s /\ r # s
      <4>1. task[p] # NoTask /\ task[p] = task[r] /\ task[p] \in TaskIDs
        BY <2>2, <2>3, <2>5, <3>3
      <4>2. granted[task[p]] >= 2
        BY <2>5, <4>1 DEF TasksOK
      <4> QED BY <2>1, <2>2, <3>3, <4>1, <4>2
    <3> QED BY <3>1, <3>2, <3>3
  <2>6. ASSUME NEW u \in TaskIDs
        PROVE  /\ u \in activeTasks' => Executing(u)' # {}
               /\ granted'[u] = 1 /\ Executing(u)' # {} => u \in activeTasks'
    <3>1. CASE Executing(u) = {}
      BY <1>1, <1>2, <3>1 DEF TasksOK, ShownTasksExecute
    <3>2. CASE Executing(u) # {}
      <4>1. PICK r \in Slots : task[r] = u
        BY <3>2 DEF Executing
      <4>2. granted[u] >= 1
        BY <4>1, NoTaskAssumption DEF TasksOK
      <4>3. granted'[u] = 1 => granted[u] = 1
        BY <2>1, <4>2
      <4> QED BY <1>1, <1>2, <3>2, <4>3 DEF TasksOK, ShownTasksExecute
    <3> QED BY <3>1, <3>2
  <2>7. activeTasks' \subseteq TaskIDs /\ over' \subseteq TaskIDs
    BY <1>2 DEF TasksOK
  <2> QED BY <2>1, <2>4, <2>5, <2>6, <2>7 DEF TasksOK, ShownTasksExecute
<1> QED BY <1>3, <1>4 DEF ClaimArrives

LEMMA StartedTasks ==
    ASSUME SlotsOK, TasksOK, NEW s \in Slots, TaskStarted(s)
    PROVE  TasksOK'
<1>1. task[s] \in TaskIDs /\ pc[s] = "starting"
  BY DEF SlotsOK, TaskStarted
<1>2. \A t \in TaskIDs :
        Executing(t)' = IF t = task[s] THEN Executing(t) \union {s} ELSE Executing(t)
  BY <1>1 DEF SlotsOK, Executing, TaskStarted, Goto
<1>3. /\ activeTasks' = activeTasks \union {task[s]}
      /\ UNCHANGED <<task, granted, grants, over>>
  BY DEF TaskStarted, offers
<1> QED BY <1>1, <1>2, <1>3 DEF TasksOK, ShownTasksExecute

LEMMA FinishedTasks ==
    ASSUME SlotsOK, TasksOK, NEW s \in Slots, TaskFinished(s)
    PROVE  TasksOK'
<1>1. PICK t \in TaskIDs : t = task[s]
  BY DEF SlotsOK, TaskFinished
<1>2. \A u \in TaskIDs :
        Executing(u)' = IF u = t THEN Executing(u) \ {s} ELSE Executing(u)
  BY <1>1, NoTaskAssumption DEF SlotsOK, Executing, TaskFinished, Goto
<1>3. /\ activeTasks' = activeTasks \ {t}
      /\ UNCHANGED <<granted, grants, over>>
      /\ task'[s] = NoTask /\ \A r \in Slots \ {s} : task'[r] = task[r]
  BY <1>1 DEF TaskFinished, offers, SlotsOK
<1>4. ASSUME granted[t] = 1, Executing(t)' # {} PROVE FALSE
  <2>1. PICK r \in Executing(t) : r # s
    BY <1>2, <1>4
  <2>2. r \in Slots /\ task[r] = task[s] /\ task[s] # NoTask
    BY <1>1, <2>1, NoTaskAssumption DEF Executing
  <2>3. granted[t] >= 2
    BY <1>1, <2>1, <2>2 DEF TasksOK
  <2> QED BY <1>4, <2>3
<1>5. ShownTasksExecute'
  <2> SUFFICES ASSUME NEW u \in TaskIDs
               PROVE  /\ u \in activeTasks' => Executing(u)' # {}
                      /\ granted'[u] = 1 /\ Executing(u)' # {} => u \in activeTasks'
    BY DEF ShownTasksExecute
  <2>1. CASE u = t
    BY <1>3, <1>4, <2>1
  <2>2. CASE u # t
    BY <1>2, <1>3, <2>2 DEF TasksOK, ShownTasksExecute
  <2> QED BY <2>1, <2>2
<1>6. /\ \A r \in Slots : task'[r] # NoTask => granted'[task'[r]] >= 1
      /\ \A p, r \in Slots : p # r /\ task'[p] # NoTask /\ task'[p] = task'[r]
                                => granted'[task'[p]] >= 2
  BY <1>3 DEF TasksOK
<1> QED BY <1>3, <1>5, <1>6 DEF TasksOK

LEMMA TasksStep == ASSUME SlotsOK, TasksOK, [LinkNext]_linkVars PROVE TasksOK'
<1> USE DEF SlotsOK, Goto, GotoLoop, tellMonitor, markConnected, slots, state, offers
<1>0. over \subseteq TaskIDs
  BY DEF TasksOK
<1>1. ASSUME NEW s \in Slots, TaskStarted(s) PROVE TasksOK'
  BY <1>1, StartedTasks
<1>2. ASSUME NEW s \in Slots, TaskFinished(s) PROVE TasksOK'
  BY <1>2, FinishedTasks
<1>3. ASSUME NEW s \in Slots, ClaimArrives(s) PROVE TasksOK'
  BY <1>3, ClaimTasks
<1>4. ASSUME NEW s \in Slots, NEW b \in BOOLEAN, ResultArrives(s, b) PROVE TasksOK'
  <2>1. over' \subseteq TaskIDs
    BY <1>0, <1>4 DEF ResultArrives
  <2> QED BY <1>4, <2>1, SameTasks DEF ResultArrives
<1>5. ASSUME NEW s \in Slots, SlotEnds(s) PROVE TasksOK'
  BY <1>0, <1>5, SameTasks DEF SlotEnds
<1>6. ASSUME NEW s \in Slots, SendResult(s) PROVE TasksOK'
  BY <1>0, <1>6, SameTasks DEF SendResult
<1>7. ASSUME NEW s \in Slots, ResultDropped(s) PROVE TasksOK'
  BY <1>0, <1>7, SameTasks DEF ResultDropped
<1>8. ASSUME NEW s \in Slots, LoopEnds(s) PROVE TasksOK'
  BY <1>0, <1>8, SameTasks DEF LoopEnds
<1>9. ASSUME NEW s \in Slots, NEW b \in BOOLEAN, RenewalArrives(s, b) PROVE TasksOK'
  BY <1>0, <1>9, SameTasks DEF RenewalArrives
<1>10. ASSUME NEW s \in Slots, ExecutorReturns(s) PROVE TasksOK'
  BY <1>0, <1>10, SameTasks DEF ExecutorReturns
<1>11. ASSUME NEW s \in Slots, SendClaim(s) PROVE TasksOK'
  BY <1>0, <1>11, SameTasks DEF SendClaim
<1>12. ASSUME NEW s \in Slots, SendRenewal(s) PROVE TasksOK'
  BY <1>0, <1>12, SameTasks DEF SendRenewal
<1>13. ASSUME NEW s \in Slots, ClaimFails(s) PROVE TasksOK'
  BY <1>0, <1>13, SameTasks DEF ClaimFails
<1>14. ASSUME NEW s \in Slots, ResultFails(s) PROVE TasksOK'
  BY <1>0, <1>14, SameTasks DEF ResultFails
<1>15. ASSUME NEW s \in Slots, RenewalFails(s) PROVE TasksOK'
  BY <1>0, <1>15, SameTasks DEF RenewalFails
<1>16. ASSUME NEW g \in Senders, raiseFlag(g) PROVE TasksOK'
  BY <1>0, <1>16, SameTasks DEF raiseFlag
<1>17. ASSUME NEW g \in Senders, reportOutage(g) PROVE TasksOK'
  BY <1>0, <1>17, SameTasks DEF reportOutage
<1>18. CASE Cancel
  BY <1>0, <1>18, SameTasks DEF Cancel
<1>19. CASE Stopping
  BY <1>0, <1>19, SameTasks DEF Stopping
<1>20. CASE Terminated
  BY <1>0, <1>20, SameTasks DEF Terminated, linkVars
<1>21. CASE UNCHANGED linkVars
  BY <1>0, <1>21, SameTasks DEF linkVars
<1> QED BY <1>1, <1>2, <1>3, <1>4, <1>5, <1>6, <1>7, <1>8, <1>9, <1>10, <1>11, <1>12,
           <1>13, <1>14, <1>15, <1>16, <1>17, <1>18, <1>19, <1>20, <1>21
       DEF LinkNext, Runs, Answered, LoopAnswered

-----------------------------------------------------------------------------
(* The theorems *)

LEMMA LinkInitInv == LinkInit => LinkInv
<1> SUFFICES ASSUME LinkInit PROVE LinkInv
  OBVIOUS
<1>1. SlotsOK
  BY DEF LinkInit, SlotsOK, Free
<1>2. Marked = {} /\ Marking("raised") = {}
  BY DEF LinkInit, Marked, Marking
<1>3. Cardinality(Marked) = 0 /\ Cardinality(Marking("raised")) = 0
  BY <1>2, FS_EmptySet
<1>6. OutageAccounted
  BY <1>3 DEF LinkInit, OutageAccounted
<1>7. ReportsOK
  <2>1. /\ live \in BOOLEAN /\ stopped \in BOOLEAN /\ (stopped => ~live)
        /\ everConnected \in BOOLEAN /\ unavailable \in BOOLEAN /\ ~unavailable
    BY Zenon DEF LinkInit
  <2>2. /\ failures \in 0..MaxFailures /\ outages \in Int
        /\ Cardinality(Marked) <= failures
    BY <1>3, BoundsAssumption DEF LinkInit
  <2>3. connection \in {"starting", "connected", "unavailable", "stopping"}
    BY DEF LinkInit
  <2> QED BY <1>6, <2>1, <2>2, <2>3 DEF ReportsOK
<1>4. \A t \in TaskIDs : Executing(t) = {}
  BY DEF LinkInit, Executing
<1>5. TasksOK
  BY <1>4, BoundsAssumption DEF LinkInit, TasksOK, ShownTasksExecute
<1> QED BY <1>1, <1>7, <1>5 DEF LinkInv

LEMMA LinkNextInv == LinkInv /\ [LinkNext]_linkVars => LinkInv'
BY SlotsStep, ReportsStep, TasksStep DEF LinkInv

LEMMA LinkInvariant == LinkSpec => []LinkInv
BY LinkInitInv, LinkNextInv, PTL DEF LinkSpec

\* The count of the log stays within the number of failed requests: it is the
\* outage that lasts, less those that were raised and not reported yet.
LEMMA LinkTypes == LinkInv => LinkTypeOK
<1> SUFFICES ASSUME LinkInv PROVE LinkTypeOK
  OBVIOUS
<1> DEFINE r == Cardinality(Marking("raised"))
<1>1. r \in Nat /\ r <= failures /\ failures \in 0..MaxFailures
  BY Counts DEF LinkInv, ReportsOK
<1>2. outages \in Int /\ outages + r = IF unavailable THEN 1 ELSE 0
  BY DEF LinkInv, ReportsOK, OutageAccounted
<1> HIDE DEF r
<1>3. outages \in -MaxFailures..MaxFailures
  <2>1. unavailable => failures >= 1
    BY DEF LinkInv, ReportsOK
  <2> QED BY <1>1, <1>2, <2>1, BoundsAssumption
<1>4. granted \in [TaskIDs -> 0..MaxGrants]
  BY BoundsAssumption DEF LinkInv, TasksOK
<1>5. \A s \in Slots : (loop[s] # "off" \/ ~Free(s, "loop")) => pc[s] \in Working
  BY DEF LinkInv, SlotsOK
<1> QED BY <1>3, <1>4, <1>5 DEF LinkInv, SlotsOK, ReportsOK, TasksOK, LinkTypeOK

\* Slots, loops and reports are where they should be, for any number of slots:
\* no renewLoop outlives its slot's work, none is left inside markUnavailable.
THEOREM LinkTypeCorrect == LinkSpec => []LinkTypeOK
BY LinkInvariant, LinkTypes, PTL

\* However many slots and loops run into an outage, and in whatever order the two
\* locks of markUnavailable are taken, the outage is reported once, its end once,
\* and the screen never stays on "unavailable" when it is over.
THEOREM OutageReportedOnce == LinkSpec => []OutageAccounted
BY LinkInvariant, PTL DEF LinkInv, ReportsOK

\* The screen shows a task as active only while a slot executes it, and a task
\* this worker got once exactly as long.
THEOREM ActiveTasksExecute == LinkSpec => []ShownTasksExecute
BY LinkInvariant, PTL DEF LinkInv, TasksOK

=============================================================================
