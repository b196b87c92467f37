------------------------ MODULE ScanLifecycleProofs ------------------------
(***************************************************************************)
(* Theorems about ScanLifecycle for every set of sites, requests and       *)
(* ticks, every credit limit and every bound.                              *)
(***************************************************************************)
EXTENDS ScanLifecycle, FiniteSetTheorems, TLAPS

USE ConstantsAssumption

LEMMA TypeInit == Init => TypeOK
  BY DEF Init, TypeOK, IdleRequest, tick, Scans, Actors, Statuses, Active, Terminal,
         DispatchStates, FlowStates, RequestStates

LEMMA SiteStateTypes ==
  ASSUME TypeOK, NEW x, NEW s \in 0..MaxScans, NEW st \in Statuses, SetSiteScanState(x, s, st)
  PROVE  /\ lastScan' \in [Sites -> 0..MaxScans]
         /\ lastStatus' \in [Sites -> Statuses]
  BY DEF SetSiteScanState, TypeOK

LEMMA FinishScanTypes ==
  ASSUME TypeOK, NEW s \in Scans, NEW outcome \in {"completed", "failed"},
         FinishScan(s, outcome)
  PROVE  /\ status' \in [Scans -> Statuses]
         /\ lastScan' \in [Sites -> 0..MaxScans]
         /\ lastStatus' \in [Sites -> Statuses]
<1>1. outcome \in Statuses /\ s \in 0..MaxScans
  BY ConstantsAssumption DEF Statuses, Terminal, Scans
<1>2. CASE status[s] = "canceled"
  BY <1>2 DEF FinishScan, siteCache, TypeOK
<1>3. CASE status[s] # "canceled"
  <2>1. /\ SetSiteScanState(siteOf[s], s, outcome)
        /\ status' = [status EXCEPT ![s] = outcome]
    BY <1>3 DEF FinishScan
  <2>2. status' \in [Scans -> Statuses]
    BY <2>1, <1>1 DEF TypeOK
  <2>3. QED
    BY <1>1, <2>1, <2>2, SiteStateTypes
<1>4. QED
  BY <1>2, <1>3

LEMMA TypeStep == TypeOK /\ [Next]_vars => TypeOK'
<1> SUFFICES ASSUME TypeOK, [Next]_vars PROVE TypeOK'
  OBVIOUS
<1> USE DEF TypeOK, Scans, Actors, Statuses, Active, Terminal, DispatchStates, FlowStates,
            siteCache, credits, IdleRequest, tick
<1>1. ASSUME NEW r \in Requests, NEW x \in Sites, LockSite(r, x) PROVE TypeOK'
  <2>1. req' \in [Requests -> RequestStates]
    BY <1>1 DEF LockSite, RequestStates
  <2>2. QED
    BY <1>1, <2>1 DEF LockSite
<1>2. ASSUME NEW r \in Requests, InsertAndSpend(r) PROVE TypeOK'
  <2>1. made + 1 \in Scans /\ req[r].site \in Sites \union {None}
    BY <1>2 DEF InsertAndSpend, RequestStates
  <2>2. req' \in [Requests -> RequestStates]
    BY <1>2, <2>1 DEF InsertAndSpend, RequestStates
  <2>3. used' \in 0..CreditLimit /\ charges' \in SUBSET Scans /\ anonCharges' \in Nat
    BY <1>2, <2>1 DEF InsertAndSpend, SpendCredit
  <2>4. /\ made' \in 0..MaxScans
        /\ status' \in [Scans -> Statuses]
        /\ siteOf' \in [Scans -> Sites \union {None}]
        /\ lastScan' \in [Sites -> 0..MaxScans]
        /\ lastStatus' \in [Sites -> Statuses]
    BY <1>2, <2>1, SiteStateTypes DEF InsertAndSpend, InsertScan
  <2>5. refunds' = refunds /\ lock' \in [Sites -> Actors \union {None}]
    BY <1>2 DEF InsertAndSpend, SpendCredit
  <2>6. QED
    BY <1>2, <2>2, <2>3, <2>4, <2>5 DEF InsertAndSpend
<1>3. ASSUME NEW r \in Requests, CreditLimitReached(r) PROVE TypeOK'
  <2>1. req' \in [Requests -> RequestStates]
    BY <1>3 DEF CreditLimitReached, RequestStates
  <2>2. QED
    BY <1>3, <2>1 DEF CreditLimitReached
<1>4. ASSUME NEW r \in Requests, EnqueueScan(r) PROVE TypeOK'
  <2>1. req' \in [Requests -> RequestStates]
    BY <1>4 DEF EnqueueScan, RequestStates
  <2>2. QED
    BY <1>4, <2>1 DEF EnqueueScan, EnqueueDispatcher
<1>5. ASSUME NEW r \in Requests, RequestDies(r) PROVE TypeOK'
  <2>1. req' \in [Requests -> RequestStates]
    BY <1>5 DEF RequestDies, RequestStates
  <2>2. QED
    BY <1>5, <2>1 DEF RequestDies, Fault
<1>6. ASSUME NEW s \in Scans, CancelScan(s) PROVE TypeOK'
  <2>1. used' \in 0..CreditLimit /\ refunds' \in SUBSET Scans /\ wasCanceled' \in SUBSET Scans
    BY <1>6 DEF CancelScan
  <2>2. /\ status' \in [Scans -> Statuses]
        /\ lastScan' \in [Sites -> 0..MaxScans]
        /\ lastStatus' \in [Sites -> Statuses]
    BY <1>6, SiteStateTypes DEF CancelScan
  <2>3. QED
    BY <1>6, <2>1, <2>2 DEF CancelScan
<1>7. ASSUME NEW x \in Sites, BecomesDue(x) PROVE TypeOK'
  BY <1>7 DEF BecomesDue
<1>8. ASSUME NEW t \in Ticks, SelectDueSites(t) PROVE TypeOK'
  BY <1>8 DEF SelectDueSites
<1>9. ASSUME NEW t \in Ticks, NEW x \in Sites, SkipOverlap(t, x) PROVE TypeOK'
  BY <1>9 DEF SkipOverlap, TakeSite
<1>10. ASSUME NEW t \in Ticks, NEW x \in Sites, SkipForCredit(t, x) PROVE TypeOK'
  BY <1>10 DEF SkipForCredit, TakeSite
<1>11. ASSUME NEW t \in Ticks, NEW x \in Sites, StartScheduledScan(t, x) PROVE TypeOK'
  <2>1. made + 1 \in Scans
    BY <1>11 DEF StartScheduledScan
  <2>2. used' \in 0..CreditLimit /\ charges' \in SUBSET Scans /\ anonCharges' \in Nat
    BY <1>11 DEF StartScheduledScan, SpendCredit
  <2>3. /\ made' \in 0..MaxScans
        /\ status' \in [Scans -> Statuses]
        /\ siteOf' \in [Scans -> Sites \union {None}]
        /\ lastScan' \in [Sites -> 0..MaxScans]
        /\ lastStatus' \in [Sites -> Statuses]
    BY <1>11, <2>1, SiteStateTypes DEF StartScheduledScan, InsertScan
  <2>4. /\ todo' \in [Ticks -> SUBSET Sites]
        /\ due' \in [Sites -> BOOLEAN]
        /\ runs' \in [Ticks -> SUBSET Scans]
        /\ subLock' \in Actors \union {None}
    BY <1>11, <2>1 DEF StartScheduledScan, TakeSite
  <2>5. QED
    BY <1>11, <2>2, <2>3, <2>4 DEF StartScheduledScan, TakeSite, SpendCredit
<1>12. ASSUME NEW t \in Ticks, CommitBatch(t) PROVE TypeOK'
  BY <1>12 DEF CommitBatch, ReleaseLocks
<1>13. ASSUME NEW t \in Ticks, RollbackBatch(t) PROVE TypeOK'
  BY <1>13 DEF RollbackBatch, ReleaseLocks, Fault
<1>14. ASSUME NEW t \in Ticks, NEW s \in Scans, EnqueueRun(t, s) PROVE TypeOK'
  BY <1>14 DEF EnqueueRun, EnqueueDispatcher
<1>15. ASSUME NEW t \in Ticks, EndTick(t) PROVE TypeOK'
  BY <1>15 DEF EndTick
<1>16. ASSUME NEW t \in Ticks, TickAborts(t) PROVE TypeOK'
  BY <1>16 DEF TickAborts, Fault
<1>17. ASSUME NEW s \in Scans, DispatcherStep(s) PROVE TypeOK'
  <2>1. CASE DispatcherReads(s)
    BY <2>1 DEF DispatcherReads
  <2>2. CASE WriteProgressSkeleton(s)
    BY <2>2 DEF WriteProgressSkeleton
  <2>3. CASE EnqueueScanCrawl(s)
    BY <2>3 DEF EnqueueScanCrawl
  <2>4. QED
    BY <1>17, <2>1, <2>2, <2>3 DEF DispatcherStep
<1>18. ASSUME NEW s \in Scans, FlowStep(s) PROVE TypeOK'
  <2>1. CASE FlowSeesCancel(s)
    BY <2>1 DEF FlowSeesCancel
  <2>2. CASE Aggregate(s)
    BY <2>2, FinishScanTypes DEF Aggregate
  <2>3. CASE AggregateNotifies(s)
    BY <2>3 DEF AggregateNotifies
  <2>4. CASE MarkScanFailed(s)
    BY <2>4, FinishScanTypes DEF MarkScanFailed
  <2>5. QED
    BY <1>18, <2>1, <2>2, <2>3, <2>4 DEF FlowStep
<1>19. ASSUME NEW s \in Scans,
              DispatcherDies(s) \/ FlowJobFails(s) \/ FailureIsLost(s) \/ AggregateStalls(s)
       PROVE  TypeOK'
  <2>1. CASE DispatcherDies(s)
    BY <2>1 DEF DispatcherDies, Fault
  <2>2. CASE FlowJobFails(s)
    BY <2>2 DEF FlowJobFails, Fault
  <2>3. CASE FailureIsLost(s)
    BY <2>3 DEF FailureIsLost, Fault
  <2>4. CASE AggregateStalls(s)
    BY <2>4 DEF AggregateStalls, Fault
  <2>5. QED
    BY <1>19, <2>1, <2>2, <2>3, <2>4
<1>20. CASE UNCHANGED vars
  BY <1>20 DEF vars
<1>21. QED
  BY <1>1, <1>2, <1>3, <1>4, <1>5, <1>6, <1>7, <1>8, <1>9, <1>10, <1>11, <1>12, <1>13,
     <1>14, <1>15, <1>16, <1>17, <1>18, <1>19, <1>20
     DEF Next, RequestStep, TickStep, FaultStep

(***************************************************************************)
(* Every variable keeps its type; in particular credits_used never leaves  *)
(* 0..CreditLimit, whatever spends and refunds interleave.                 *)
(***************************************************************************)
THEOREM TypeCorrect == Spec => []TypeOK
<1>1. QED
  BY TypeInit, TypeStep, PTL DEF Spec

-----------------------------------------------------------------------------
(* The inductive invariant.                                                *)

(***************************************************************************)
(* Rows, jobs and flows of a scan appear in the order of the code: row,    *)
(* dispatcher job, flow; only a scan with a flow is ever finished.         *)
(***************************************************************************)
WorkInv ==
    /\ \A s \in Scans : s > made => status[s] = "absent" /\ dispatch[s] = "none"
    /\ \A s \in Scans : s <= made => status[s] # "absent" /\ siteOf[s] \in Sites
    /\ \A s \in Scans : dispatch[s] = "none" => flow[s] = "none"
    /\ \A s \in Scans : flow[s] # "none" => dispatch[s] = "done"
    /\ \A s \in Scans : status[s] \in {"completed", "failed"} => flow[s] # "none"
    /\ \A s \in Scans : dispatch[s] = "written" \/ flow[s] # "none" => status[s] # "queued"
    /\ \A r \in Requests : req[r].scan <= made
    /\ \A t \in Ticks : \A s \in runs[t] : s <= made

(***************************************************************************)
(* Whoever is about to insert a scan for a site holds the lock on its row. *)
(***************************************************************************)
LockInv ==
    /\ \A r \in Requests : req[r].pc = "checked" =>
          req[r].site \in Sites /\ lock[req[r].site] = r
    /\ \A t \in Ticks : \A x \in todo[t] : lock[x] = t

(***************************************************************************)
(* What the overlap check found stays true until the insert: a canceled    *)
(* scan may be revived meanwhile, but no other scan becomes active.        *)
(***************************************************************************)
OverlapInv ==
    /\ OneQueuedScanPerSite
    /\ OneUncanceledActiveScanPerSite
    /\ \A s \in Scans : status[s] = "canceled" => s \in wasCanceled
    /\ \A r \in Requests : req[r].pc = "checked" =>
          \A s \in Scans : siteOf[s] = req[r].site =>
              /\ status[s] # "queued"
              /\ s \notin wasCanceled => status[s] # "running"

LEMMA FinishScanStatus ==
  ASSUME TypeOK, NEW s \in Scans, NEW outcome \in {"completed", "failed"},
         FinishScan(s, outcome)
  PROVE  /\ status' \in [Scans -> Statuses]
         /\ \A u \in Scans : \/ status'[u] = status[u]
                             \/ u = s /\ status[s] # "canceled" /\ status'[u] = outcome
<1>1. status' \in [Scans -> Statuses]
  BY FinishScanTypes
<1>2. \/ status' = status
      \/ status[s] # "canceled" /\ status' = [status EXCEPT ![s] = outcome]
  BY DEF FinishScan, siteCache
<1>3. status \in [Scans -> Statuses]
  BY DEF TypeOK
<1>4. ASSUME NEW u \in Scans
      PROVE  \/ status'[u] = status[u]
             \/ u = s /\ status[s] # "canceled" /\ status'[u] = outcome
  BY <1>2, <1>3
<1>5. QED
  BY <1>1, <1>4

LEMMA LockInit == Init => LockInv
  BY DEF Init, LockInv, IdleRequest, tick

LEMMA LockStep == TypeOK /\ LockInv /\ [Next]_vars => LockInv'
<1> SUFFICES ASSUME TypeOK, LockInv, [Next]_vars PROVE LockInv'
  OBVIOUS
<1> USE DEF LockInv, Actors
<1>0. /\ req \in [Requests -> RequestStates] /\ todo \in [Ticks -> SUBSET Sites]
      /\ lock \in [Sites -> Actors \union {None}]
  BY DEF TypeOK
<1>1. ASSUME NEW r \in Requests, NEW x \in Sites, LockSite(r, x) PROVE LockInv'
  BY <1>0, <1>1 DEF LockSite, tick
<1>2. ASSUME NEW r \in Requests, InsertAndSpend(r) PROVE LockInv'
  BY <1>0, <1>2 DEF InsertAndSpend, tick
<1>3. ASSUME NEW r \in Requests, CreditLimitReached(r) PROVE LockInv'
  BY <1>0, <1>3 DEF CreditLimitReached, IdleRequest, tick
<1>4. ASSUME NEW r \in Requests, EnqueueScan(r) PROVE LockInv'
  BY <1>0, <1>4 DEF EnqueueScan, IdleRequest, tick
<1>5. ASSUME NEW r \in Requests, RequestDies(r) PROVE LockInv'
  BY <1>0, <1>5 DEF RequestDies, IdleRequest, tick
<1>6. ASSUME NEW t \in Ticks, SelectDueSites(t) PROVE LockInv'
  BY <1>0, <1>6 DEF SelectDueSites
<1>7. ASSUME NEW t \in Ticks, NEW x \in Sites, TakeSite(t, x) PROVE LockInv'
  BY <1>0, <1>7 DEF TakeSite
<1>8. ASSUME NEW t \in Ticks, CommitBatch(t) \/ RollbackBatch(t) PROVE LockInv'
  BY <1>0, <1>8 DEF CommitBatch, RollbackBatch, ReleaseLocks
<1>9. ASSUME UNCHANGED <<lock, req, todo>> PROVE LockInv'
  BY <1>9
<1>10. ASSUME NEW s \in Scans, DispatcherStep(s) \/ FlowStep(s) \/ CancelScan(s)
       PROVE  UNCHANGED <<lock, req, todo>>
  BY <1>10 DEF DispatcherStep, FlowStep, DispatcherReads, WriteProgressSkeleton, EnqueueScanCrawl,
     FlowSeesCancel, Aggregate, AggregateNotifies, MarkScanFailed, CancelScan, tick
<1>11. ASSUME NEW s \in Scans,
              DispatcherDies(s) \/ FlowJobFails(s) \/ FailureIsLost(s) \/ AggregateStalls(s)
       PROVE  UNCHANGED <<lock, req, todo>>
  BY <1>11 DEF DispatcherDies, FlowJobFails, FailureIsLost, AggregateStalls, tick
<1>12. QED
  BY <1>1, <1>2, <1>3, <1>4, <1>5, <1>6, <1>7, <1>8, <1>9, <1>10, <1>11
     DEF Next, RequestStep, TickStep, FaultStep, BecomesDue, SkipOverlap, SkipForCredit,
         StartScheduledScan, EnqueueRun, EndTick, TickAborts, vars, tick

LEMMA WorkInit == Init => WorkInv
  BY DEF Init, WorkInv, Scans, tick, IdleRequest

LEMMA WorkStep == TypeOK /\ LockInv /\ WorkInv /\ [Next]_vars => WorkInv'
<1> SUFFICES ASSUME TypeOK, LockInv, WorkInv, [Next]_vars PROVE WorkInv'
  OBVIOUS
<1> USE DEF WorkInv, Scans
<1>0. /\ made \in 0..MaxScans /\ status \in [Scans -> Statuses]
      /\ dispatch \in [Scans -> DispatchStates] /\ flow \in [Scans -> FlowStates]
      /\ siteOf \in [Scans -> Sites \union {None}]
      /\ req \in [Requests -> RequestStates] /\ runs \in [Ticks -> SUBSET Scans]
      /\ MaxScans \in Nat
  BY DEF TypeOK
<1>1. ASSUME NEW r \in Requests, NEW x \in Sites, LockSite(r, x) PROVE WorkInv'
  BY <1>0, <1>1 DEF LockSite, tick
<1>2. ASSUME NEW r \in Requests, InsertAndSpend(r) PROVE WorkInv'
  <2>1. req[r].site \in Sites /\ made + 1 \in Scans
    BY <1>0, <1>2 DEF InsertAndSpend, LockInv
  <2>2. /\ made' = made + 1
        /\ status' = [status EXCEPT ![made + 1] = "queued"]
        /\ siteOf' = [siteOf EXCEPT ![made + 1] = req[r].site]
        /\ \A q \in Requests : req'[q].scan <= made + 1
        /\ UNCHANGED <<dispatch, flow, runs>>
    BY <1>0, <1>2, <2>1 DEF InsertAndSpend, InsertScan, RequestStates, tick
  <2>3. \A u \in Scans : /\ status'[u] = IF u = made + 1 THEN "queued" ELSE status[u]
                         /\ siteOf'[u] = IF u = made + 1 THEN req[r].site ELSE siteOf[u]
    BY <1>0, <2>1, <2>2
  <2>4. \A q \in Ticks : \A u \in runs'[q] : u <= made'
    BY <1>0, <2>2
  <2>5. QED
    BY <1>0, <2>1, <2>2, <2>3, <2>4
<1>3. ASSUME NEW r \in Requests, CreditLimitReached(r) PROVE WorkInv'
  BY <1>0, <1>3 DEF CreditLimitReached, IdleRequest, tick
<1>4. ASSUME NEW r \in Requests, EnqueueScan(r) PROVE WorkInv'
  BY <1>0, <1>4 DEF EnqueueScan, EnqueueDispatcher, IdleRequest, tick
<1>5. ASSUME NEW r \in Requests, RequestDies(r) PROVE WorkInv'
  BY <1>0, <1>5 DEF RequestDies, IdleRequest, tick
<1>6. ASSUME NEW s \in Scans, CancelScan(s) PROVE WorkInv'
  BY <1>0, <1>6 DEF CancelScan, Cancelable, Active, tick
<1>7. ASSUME NEW t \in Ticks, NEW x \in Sites, StartScheduledScan(t, x) PROVE WorkInv'
  <2>1. made + 1 \in Scans
    BY <1>0, <1>7 DEF StartScheduledScan
  <2>2. /\ made' = made + 1
        /\ status' = [status EXCEPT ![made + 1] = "queued"]
        /\ siteOf' = [siteOf EXCEPT ![made + 1] = x]
        /\ runs' = [runs EXCEPT ![t] = @ \union {made + 1}]
        /\ UNCHANGED <<dispatch, flow, req>>
    BY <1>7 DEF StartScheduledScan, TakeSite, InsertScan
  <2>3. \A q \in Ticks : \A u \in runs'[q] : u <= made + 1
    BY <1>0, <2>1, <2>2
  <2>4. \A u \in Scans : /\ status'[u] = IF u = made + 1 THEN "queued" ELSE status[u]
                         /\ siteOf'[u] = IF u = made + 1 THEN x ELSE siteOf[u]
    BY <1>0, <2>1, <2>2
  <2>5. \A q \in Requests : req'[q].scan <= made'
    <3>1. \A q \in Requests : req[q].scan \in 0..MaxScans
      BY <1>0 DEF RequestStates
    <3>2. QED
      BY <1>0, <2>2, <3>1
  <2>6. QED
    BY <1>0, <2>1, <2>2, <2>3, <2>4, <2>5
<1>8. ASSUME NEW t \in Ticks, NEW s \in Scans, EnqueueRun(t, s) PROVE WorkInv'
  BY <1>0, <1>8 DEF EnqueueRun, EnqueueDispatcher
<1>9. ASSUME NEW t \in Ticks, TickAborts(t) PROVE WorkInv'
  BY <1>0, <1>9 DEF TickAborts
<1>10. ASSUME NEW s \in Scans, DispatcherStep(s) PROVE WorkInv'
  <2>1. CASE DispatcherReads(s)
    BY <1>0, <2>1 DEF DispatcherReads, tick
  <2>2. CASE WriteProgressSkeleton(s)
    BY <1>0, <2>2 DEF WriteProgressSkeleton, tick
  <2>3. CASE EnqueueScanCrawl(s)
    BY <1>0, <2>3 DEF EnqueueScanCrawl, tick
  <2>4. QED
    BY <1>10, <2>1, <2>2, <2>3 DEF DispatcherStep
<1>11. ASSUME NEW s \in Scans, FlowStep(s) PROVE WorkInv'
  <2>1. CASE FlowSeesCancel(s) \/ AggregateNotifies(s)
    BY <1>0, <2>1 DEF FlowSeesCancel, AggregateNotifies, tick
  <2>2. CASE Aggregate(s)
    <3>1. \A u \in Scans : status'[u] = status[u] \/ (u = s /\ status'[u] = "completed")
      BY <2>2, FinishScanStatus DEF Aggregate
    <3>2. QED
      BY <1>0, <2>2, <3>1 DEF Aggregate, tick
  <2>3. CASE MarkScanFailed(s)
    <3>1. \A u \in Scans : status'[u] = status[u] \/ (u = s /\ status'[u] = "failed")
      BY <2>3, FinishScanStatus DEF MarkScanFailed
    <3>2. QED
      BY <1>0, <2>3, <3>1 DEF MarkScanFailed, tick
  <2>4. QED
    BY <1>11, <2>1, <2>2, <2>3 DEF FlowStep
<1>12. ASSUME NEW s \in Scans,
              DispatcherDies(s) \/ FlowJobFails(s) \/ FailureIsLost(s) \/ AggregateStalls(s)
       PROVE  WorkInv'
  BY <1>0, <1>12 DEF DispatcherDies, FlowJobFails, FailureIsLost, AggregateStalls, tick
<1>13. ASSUME UNCHANGED <<status, siteOf, made, req, runs, dispatch, flow>> PROVE WorkInv'
  BY <1>0, <1>13
<1>14. QED
  BY <1>1, <1>2, <1>3, <1>4, <1>5, <1>6, <1>7, <1>8, <1>9, <1>10, <1>11, <1>12, <1>13
     DEF Next, RequestStep, TickStep, FaultStep, BecomesDue, SelectDueSites, SkipOverlap,
         SkipForCredit, TakeSite, CommitBatch, RollbackBatch, EndTick, vars, tick

LEMMA OverlapInit == Init => OverlapInv
  BY DEF Init, OverlapInv, OneQueuedScanPerSite, OneUncanceledActiveScanPerSite, Active, IdleRequest

LEMMA InsertKeepsOverlap ==
  ASSUME TypeOK, OverlapInv, NEW s \in Scans, NEW x \in Sites,
         status' = [status EXCEPT ![s] = "queued"],
         siteOf' = [siteOf EXCEPT ![s] = x],
         wasCanceled' = wasCanceled,
         \A u \in Scans : siteOf[u] = x => /\ status[u] # "queued"
                                           /\ u \notin wasCanceled => status[u] # "running",
         \A r \in Requests : req'[r].pc = "checked" =>
             /\ req[r].pc = "checked"
             /\ req'[r].site = req[r].site
             /\ req[r].site # x
  PROVE  OverlapInv'
<1>1. status \in [Scans -> Statuses] /\ siteOf \in [Scans -> Sites \union {None}]
  BY DEF TypeOK
<1>2. \A u \in Scans : /\ status'[u] = IF u = s THEN "queued" ELSE status[u]
                       /\ siteOf'[u] = IF u = s THEN x ELSE siteOf[u]
  BY <1>1
<1>3. OneQueuedScanPerSite'
  BY <1>2 DEF OverlapInv, OneQueuedScanPerSite
<1>4. OneUncanceledActiveScanPerSite'
  BY <1>2 DEF OverlapInv, OneUncanceledActiveScanPerSite, Active
<1>5. \A u \in Scans : status'[u] = "canceled" => u \in wasCanceled'
  BY <1>2 DEF OverlapInv
<1>6. \A r \in Requests : req'[r].pc = "checked" =>
        \A u \in Scans : siteOf'[u] = req'[r].site =>
            /\ status'[u] # "queued"
            /\ u \notin wasCanceled' => status'[u] # "running"
  BY <1>2 DEF OverlapInv
<1>7. QED
  BY <1>3, <1>4, <1>5, <1>6 DEF OverlapInv

\* A step that makes no scan of a site queued, and none active that is not a canceled one.
LEMMA QuietKeepsOverlap ==
  ASSUME OverlapInv,
         UNCHANGED siteOf,
         wasCanceled \subseteq wasCanceled',
         \A u \in Scans : /\ status'[u] = "queued" => status[u] = "queued"
                          /\ status'[u] = "running" /\ u \notin wasCanceled' => status[u] \in Active
                          /\ status'[u] = "canceled" => u \in wasCanceled',
         \A r \in Requests : req'[r].pc = "checked" =>
             /\ req[r].pc = "checked"
             /\ req'[r].site = req[r].site
  PROVE  OverlapInv'
<1>1. OneQueuedScanPerSite'
  BY DEF OverlapInv, OneQueuedScanPerSite
<1>2. OneUncanceledActiveScanPerSite'
  BY DEF OverlapInv, OneUncanceledActiveScanPerSite, Active
<1>3. \A r \in Requests : req'[r].pc = "checked" =>
        \A u \in Scans : siteOf'[u] = req'[r].site =>
            /\ status'[u] # "queued"
            /\ u \notin wasCanceled' => status'[u] # "running"
  BY DEF OverlapInv, Active
<1>4. QED
  BY <1>1, <1>2, <1>3 DEF OverlapInv

LEMMA OverlapStep == TypeOK /\ LockInv /\ WorkInv /\ OverlapInv /\ [Next]_vars => OverlapInv'
<1> SUFFICES ASSUME TypeOK, LockInv, WorkInv, OverlapInv, [Next]_vars PROVE OverlapInv'
  OBVIOUS
<1>0. /\ status \in [Scans -> Statuses] /\ siteOf \in [Scans -> Sites \union {None}]
      /\ req \in [Requests -> RequestStates] /\ made \in 0..MaxScans /\ MaxScans \in Nat
      /\ \A u \in Scans : status[u] = "canceled" => u \in wasCanceled
  BY DEF TypeOK, OverlapInv
<1>1. ASSUME NEW r \in Requests, NEW x \in Sites, LockSite(r, x) PROVE OverlapInv'
  <2>1. /\ UNCHANGED <<status, siteOf, wasCanceled>>
        /\ \A u \in Scans : siteOf[u] = x => status[u] \notin Active
        /\ \A q \in Requests : q # r => req'[q] = req[q]
        /\ req'[r].site = x
    BY <1>0, <1>1 DEF LockSite, HasActiveScan
  <2>2. OneQueuedScanPerSite' /\ OneUncanceledActiveScanPerSite'
    BY <2>1 DEF OverlapInv, OneQueuedScanPerSite, OneUncanceledActiveScanPerSite
  <2>3. \A q \in Requests : req'[q].pc = "checked" =>
          \A u \in Scans : siteOf'[u] = req'[q].site =>
              /\ status'[u] # "queued"
              /\ u \notin wasCanceled' => status'[u] # "running"
    BY <2>1 DEF OverlapInv, Active
  <2>4. QED
    BY <1>0, <2>1, <2>2, <2>3 DEF OverlapInv
<1>2. ASSUME NEW r \in Requests, InsertAndSpend(r) PROVE OverlapInv'
  <2>1. PICK s \in Scans, x \in Sites : s = made + 1 /\ x = req[r].site
    BY <1>0, <1>2 DEF InsertAndSpend, LockInv, Scans
  <2>2. /\ status' = [status EXCEPT ![s] = "queued"]
        /\ siteOf' = [siteOf EXCEPT ![s] = x]
        /\ wasCanceled' = wasCanceled
    BY <1>2, <2>1 DEF InsertAndSpend, InsertScan
  <2>3. \A q \in Requests : req'[q].pc = "checked" =>
          req[q].pc = "checked" /\ req'[q].site = req[q].site /\ req[q].site # x
    BY <1>0, <1>2, <2>1 DEF InsertAndSpend, LockInv
  <2>4. \A u \in Scans : siteOf[u] = x => /\ status[u] # "queued"
                                          /\ u \notin wasCanceled => status[u] # "running"
    BY <1>2, <2>1 DEF InsertAndSpend, OverlapInv
  <2>5. QED
    BY <2>2, <2>3, <2>4, InsertKeepsOverlap
<1>3. ASSUME NEW t \in Ticks, NEW x \in Sites, StartScheduledScan(t, x) PROVE OverlapInv'
  <2>1. made + 1 \in Scans
    BY <1>0, <1>3 DEF StartScheduledScan, Scans
  <2>2. /\ status' = [status EXCEPT ![made + 1] = "queued"]
        /\ siteOf' = [siteOf EXCEPT ![made + 1] = x]
        /\ UNCHANGED <<wasCanceled, req>>
        /\ x \in todo[t]
    BY <1>3 DEF StartScheduledScan, InsertScan, TakeSite
  <2>3. \A q \in Requests : req[q].pc = "checked" => req[q].site # x
    BY <2>2 DEF LockInv, Actors
  <2>4. \A u \in Scans : siteOf[u] = x => status[u] \notin Active
    BY <1>3 DEF StartScheduledScan, HasActiveScan
  <2>5. QED
    BY <2>1, <2>2, <2>3, <2>4, InsertKeepsOverlap DEF Active
<1>4. ASSUME NEW r \in Requests,
             CreditLimitReached(r) \/ EnqueueScan(r) \/ RequestDies(r)
      PROVE  OverlapInv'
  <2>1. UNCHANGED <<status, siteOf, wasCanceled>> /\ req' = [req EXCEPT ![r] = IdleRequest]
    BY <1>4 DEF CreditLimitReached, EnqueueScan, RequestDies
  <2>2. \A q \in Requests : req'[q].pc = "checked" => req'[q] = req[q]
    BY <1>0, <2>1 DEF IdleRequest
  <2>3. QED
    BY <1>0, <2>1, <2>2, QuietKeepsOverlap DEF Active
<1>5. ASSUME NEW s \in Scans, CancelScan(s) PROVE OverlapInv'
  <2>1. /\ UNCHANGED <<siteOf, req>>
        /\ wasCanceled' = wasCanceled \union {s}
        /\ status' = [status EXCEPT ![s] = "canceled"]
    BY <1>5 DEF CancelScan
  <2>2. QED
    BY <1>0, <2>1, QuietKeepsOverlap DEF Active
<1>6. ASSUME NEW s \in Scans, WriteProgressSkeleton(s) PROVE OverlapInv'
  <2>1. /\ UNCHANGED <<siteOf, req, wasCanceled>>
        /\ status' = [status EXCEPT ![s] = "running"]
    BY <1>6 DEF WriteProgressSkeleton
  <2>2. status[s] \in Active \union {"canceled"}
    <3>1. dispatch[s] = "read"
      BY <1>6 DEF WriteProgressSkeleton
    <3>2. flow[s] = "none" /\ ~(s > made)
      BY <3>1 DEF WorkInv
    <3>3. status[s] \notin {"absent", "completed", "failed"}
      BY <1>0, <3>2 DEF WorkInv, Scans
    <3>4. QED
      BY <1>0, <3>3 DEF Statuses, Active, Terminal
  <2>3. QED
    BY <1>0, <2>1, <2>2, QuietKeepsOverlap DEF Active
<1>7. ASSUME NEW s \in Scans, Aggregate(s) \/ MarkScanFailed(s) PROVE OverlapInv'
  <2>1. /\ UNCHANGED <<siteOf, req, wasCanceled>>
        /\ \A u \in Scans : status'[u] = status[u] \/ status'[u] \in {"completed", "failed"}
    BY <1>7, FinishScanStatus DEF Aggregate, MarkScanFailed
  <2>2. QED
    BY <1>0, <2>1, QuietKeepsOverlap DEF Active
<1>8. ASSUME UNCHANGED <<status, siteOf, req, wasCanceled>> PROVE OverlapInv'
  BY <1>0, <1>8, QuietKeepsOverlap DEF Active
<1>9. ASSUME NEW s \in Scans,
             \/ DispatcherReads(s) \/ EnqueueScanCrawl(s) \/ DispatcherDies(s)
             \/ FlowSeesCancel(s) \/ AggregateNotifies(s) \/ FlowJobFails(s)
             \/ FailureIsLost(s) \/ AggregateStalls(s)
      PROVE  OverlapInv'
  BY <1>8, <1>9 DEF DispatcherReads, EnqueueScanCrawl, DispatcherDies, FlowSeesCancel,
     AggregateNotifies, FlowJobFails, FailureIsLost, AggregateStalls
<1>10. ASSUME NEW t \in Ticks, TickStep(t) \/ RollbackBatch(t) \/ TickAborts(t) PROVE OverlapInv'
  BY <1>3, <1>8, <1>10 DEF TickStep, RollbackBatch, TickAborts, SelectDueSites, SkipOverlap,
     SkipForCredit, TakeSite, CommitBatch, EnqueueRun, EndTick
<1>11. QED
  BY <1>1, <1>2, <1>4, <1>5, <1>6, <1>7, <1>8, <1>9, <1>10
     DEF Next, RequestStep, DispatcherStep, FlowStep, FaultStep, BecomesDue, vars

LEMMA ShownInit == Init => ShownResultIsReal
  BY DEF Init, ShownResultIsReal

\* The site shows a scan of its own, and no other site shows that scan.
LEMMA SiteShowsItsScan ==
  ASSUME TypeOK, ShownResultIsReal, NEW s \in Scans, NEW st \in Statuses, siteOf[s] \in Sites,
         SetSiteScanState(siteOf[s], s, st),
         status' = [status EXCEPT ![s] = st],
         UNCHANGED siteOf
  PROVE  ShownResultIsReal'
<1>1. /\ status \in [Scans -> Statuses] /\ lastScan \in [Sites -> 0..MaxScans]
      /\ lastStatus \in [Sites -> Statuses]
  BY DEF TypeOK
<1>2. /\ lastScan' = [lastScan EXCEPT ![siteOf[s]] = s]
      /\ lastStatus' = [lastStatus EXCEPT ![siteOf[s]] = st]
  BY DEF SetSiteScanState
<1>3. QED
  BY <1>1, <1>2 DEF ShownResultIsReal

LEMMA NewScanShown ==
  ASSUME TypeOK, WorkInv, ShownResultIsReal, NEW x \in Sites, made + 1 \in Scans,
         InsertScan(made + 1, x)
  PROVE  ShownResultIsReal'
<1>1. /\ status \in [Scans -> Statuses] /\ siteOf \in [Scans -> Sites \union {None}]
      /\ lastScan \in [Sites -> 0..MaxScans] /\ lastStatus \in [Sites -> Statuses]
      /\ made \in 0..MaxScans
  BY DEF TypeOK
<1>2. /\ status' = [status EXCEPT ![made + 1] = "queued"]
      /\ siteOf' = [siteOf EXCEPT ![made + 1] = x]
      /\ lastScan' = [lastScan EXCEPT ![x] = made + 1]
      /\ lastStatus' = [lastStatus EXCEPT ![x] = "queued"]
  BY DEF InsertScan, SetSiteScanState
<1>3. status[made + 1] = "absent"
  BY <1>1 DEF WorkInv
<1>4. QED
  BY <1>1, <1>2, <1>3 DEF ShownResultIsReal

LEMMA ShownStep ==
  TypeOK /\ LockInv /\ WorkInv /\ ShownResultIsReal /\ [Next]_vars => ShownResultIsReal'
<1> SUFFICES ASSUME TypeOK, LockInv, WorkInv, ShownResultIsReal, [Next]_vars
             PROVE  ShownResultIsReal'
  OBVIOUS
<1>0. /\ status \in [Scans -> Statuses] /\ siteOf \in [Scans -> Sites \union {None}]
      /\ lastStatus \in [Sites -> Statuses] /\ made \in 0..MaxScans /\ MaxScans \in Nat
      /\ \A s \in Scans : s > made \/ s <= made
  BY DEF TypeOK, Scans
<1>1. ASSUME NEW s \in Scans, status[s] # "absent" PROVE siteOf[s] \in Sites
  BY <1>0, <1>1 DEF WorkInv
<1>2. ASSUME NEW r \in Requests, InsertAndSpend(r) PROVE ShownResultIsReal'
  <2>1. made + 1 \in Scans /\ req[r].site \in Sites /\ InsertScan(made + 1, req[r].site)
    BY <1>0, <1>2 DEF InsertAndSpend, LockInv, Scans
  <2>2. QED
    BY <2>1, NewScanShown
<1>3. ASSUME NEW t \in Ticks, NEW x \in Sites, StartScheduledScan(t, x) PROVE ShownResultIsReal'
  <2>1. made + 1 \in Scans /\ InsertScan(made + 1, x)
    BY <1>0, <1>3 DEF StartScheduledScan, Scans
  <2>2. QED
    BY <2>1, NewScanShown
<1>4. ASSUME NEW s \in Scans, CancelScan(s) PROVE ShownResultIsReal'
  <2>1. /\ status' = [status EXCEPT ![s] = "canceled"]
        /\ SetSiteScanState(siteOf[s], s, "canceled")
        /\ UNCHANGED siteOf
        /\ status[s] \in Active
    BY <1>4 DEF CancelScan, Cancelable
  <2>2. QED
    BY <1>1, <2>1, SiteShowsItsScan DEF Active, Statuses, Terminal
<1>5. ASSUME NEW s \in Scans, WriteProgressSkeleton(s) PROVE ShownResultIsReal'
  <2>1. status[s] \notin {"completed", "failed"}
    BY <1>5 DEF WriteProgressSkeleton, WorkInv
  <2>2. UNCHANGED <<siteOf, lastScan, lastStatus>> /\ status' = [status EXCEPT ![s] = "running"]
    BY <1>5 DEF WriteProgressSkeleton, siteCache
  <2>3. QED
    BY <1>0, <2>1, <2>2 DEF ShownResultIsReal
<1>6. ASSUME NEW s \in Scans, NEW outcome \in {"completed", "failed"}, FinishScan(s, outcome),
             flow[s] # "none", UNCHANGED siteOf
      PROVE  ShownResultIsReal'
  <2>1. CASE status[s] = "canceled"
    BY <1>6, <2>1 DEF FinishScan, siteCache, ShownResultIsReal
  <2>2. CASE status[s] # "canceled"
    <3>1. siteOf[s] \in Sites
      BY <1>0, <1>6 DEF WorkInv
    <3>2. SetSiteScanState(siteOf[s], s, outcome) /\ status' = [status EXCEPT ![s] = outcome]
      BY <1>6, <2>2 DEF FinishScan
    <3>3. QED
      BY <1>6, <3>1, <3>2, SiteShowsItsScan DEF Statuses, Terminal
  <2>3. QED
    BY <2>1, <2>2
<1>7. ASSUME NEW s \in Scans, Aggregate(s) \/ MarkScanFailed(s) PROVE ShownResultIsReal'
  BY <1>6, <1>7 DEF Aggregate, MarkScanFailed
<1>8. ASSUME UNCHANGED <<status, siteOf, lastScan, lastStatus>> PROVE ShownResultIsReal'
  BY <1>8 DEF ShownResultIsReal
<1>9. ASSUME NEW s \in Scans,
             \/ DispatcherReads(s) \/ EnqueueScanCrawl(s) \/ DispatcherDies(s)
             \/ FlowSeesCancel(s) \/ AggregateNotifies(s) \/ FlowJobFails(s)
             \/ FailureIsLost(s) \/ AggregateStalls(s)
      PROVE  ShownResultIsReal'
  BY <1>8, <1>9 DEF DispatcherReads, EnqueueScanCrawl, DispatcherDies, FlowSeesCancel,
     AggregateNotifies, FlowJobFails, FailureIsLost, AggregateStalls, siteCache
<1>10. ASSUME NEW t \in Ticks, TickStep(t) \/ RollbackBatch(t) \/ TickAborts(t)
       PROVE  ShownResultIsReal'
  BY <1>3, <1>8, <1>10 DEF TickStep, RollbackBatch, TickAborts, SelectDueSites, SkipOverlap,
     SkipForCredit, TakeSite, CommitBatch, EnqueueRun, EndTick, siteCache
<1>11. ASSUME NEW r \in Requests, RequestStep(r) \/ RequestDies(r) PROVE ShownResultIsReal'
  BY <1>2, <1>8, <1>11 DEF RequestStep, RequestDies, LockSite, CreditLimitReached, EnqueueScan,
     siteCache
<1>12. QED
  BY <1>4, <1>5, <1>7, <1>8, <1>9, <1>10, <1>11
     DEF Next, DispatcherStep, FlowStep, FaultStep, BecomesDue, vars, siteCache

(***************************************************************************)
(* The ledger.                                                             *)
(***************************************************************************)
LedgerInv == LedgerBalances /\ EveryScanIsPaid

LEMMA LedgerInit == Init => LedgerInv
  BY FS_EmptySet, FS_Interval DEF Init, LedgerInv, LedgerBalances, EveryScanIsPaid

LEMMA PaidScansCounted ==
  ASSUME NEW n \in Nat, NEW S \in SUBSET (1..n)
  PROVE  /\ IsFiniteSet(S)
         /\ Cardinality(S) \in Nat
         /\ Cardinality(1..n) = n
         /\ Cardinality(1..(n + 1)) = n + 1
<1>1. IsFiniteSet(1..n) /\ Cardinality(1..n) = n /\ Cardinality(1..(n + 1)) = n + 1
  BY FS_Interval
<1>2. IsFiniteSet(S)
  BY <1>1, FS_Subset
<1>3. QED
  BY <1>1, <1>2, FS_CardinalityType

\* A new row with its transaction, under its own id or anonymous.
LEMMA SpendKeepsLedger ==
  ASSUME TypeOK, LedgerInv, made' = made + 1,
         SpendCredit({made + 1}, 0) \/ SpendCredit({}, 1),
         wasCanceled' = wasCanceled
  PROVE  LedgerInv'
<1>1. made \in Nat /\ used \in Nat /\ anonCharges \in Nat
  BY DEF TypeOK
<1>2. charges \subseteq 1..made /\ refunds \subseteq charges
  BY DEF LedgerInv, LedgerBalances, EveryScanIsPaid
<1>3. /\ IsFiniteSet(charges) /\ Cardinality(charges) \in Nat
      /\ Cardinality(1..made) = made /\ Cardinality(1..(made + 1)) = made + 1
  BY <1>1, <1>2, PaidScansCounted
<1>4. Cardinality(refunds) \in Nat
  BY <1>2, <1>3, FS_Subset, FS_CardinalityType
<1>5. Cardinality(charges \union {made + 1}) = Cardinality(charges) + 1
  <2>1. made + 1 \notin charges
    BY <1>1, <1>2
  <2>2. QED
    BY <1>3, <2>1, FS_AddElement
<1>6. /\ used = Cardinality(charges) + anonCharges - Cardinality(refunds)
      /\ refunds \subseteq charges \intersect wasCanceled
      /\ anonCharges = made - Cardinality(charges)
  BY <1>3 DEF LedgerInv, LedgerBalances, EveryScanIsPaid
<1>7. Cardinality(1..made') = made + 1
  BY <1>3
<1>8. CASE SpendCredit({made + 1}, 0)
  <2>1. /\ charges' = charges \union {made + 1} /\ anonCharges' = anonCharges
        /\ used' = used + 1 /\ refunds' = refunds
    BY <1>1, <1>8 DEF SpendCredit
  <2>2. Cardinality(charges') = Cardinality(charges) + 1
    BY <1>5, <2>1
  <2>3. LedgerBalances'
    <3>1. refunds' \subseteq charges' \intersect wasCanceled'
      BY <1>6, <2>1
    <3>2. used' = Cardinality(charges') + anonCharges' - Cardinality(refunds')
      BY SMTT(40), <1>1, <1>3, <1>4, <1>6, <2>1, <2>2
    <3>3. QED
      BY <3>1, <3>2 DEF LedgerBalances
  <2>4. charges' \subseteq 1..made'
    BY <1>1, <1>2, <2>1
  <2>5. QED
    BY <1>1, <1>3, <1>6, <1>7, <2>1, <2>2, <2>3, <2>4 DEF LedgerInv, EveryScanIsPaid
<1>9. CASE SpendCredit({}, 1)
  <2>1. /\ charges' = charges /\ anonCharges' = anonCharges + 1
        /\ used' = used + 1 /\ refunds' = refunds
    BY <1>9 DEF SpendCredit
  <2>2. LedgerBalances'
    <3>1. refunds' \subseteq charges' \intersect wasCanceled'
      BY <1>6, <2>1
    <3>2. used' = Cardinality(charges') + anonCharges' - Cardinality(refunds')
      BY SMTT(40), <1>1, <1>3, <1>4, <1>6, <2>1
    <3>3. QED
      BY <3>1, <3>2 DEF LedgerBalances
  <2>3. charges' \subseteq 1..made'
    BY <1>1, <1>2, <2>1
  <2>4. QED
    BY <1>1, <1>3, <1>6, <1>7, <2>1, <2>2, <2>3 DEF LedgerInv, EveryScanIsPaid
<1>10. QED
  BY <1>8, <1>9

LEMMA CancelKeepsLedger ==
  ASSUME TypeOK, LedgerInv, NEW s \in Scans, CancelScan(s)
  PROVE  LedgerInv'
<1>1. made \in Nat /\ used \in Nat /\ anonCharges \in Nat
  BY DEF TypeOK
<1>2. charges \subseteq 1..made /\ refunds \subseteq charges \intersect wasCanceled
  BY DEF LedgerInv, LedgerBalances, EveryScanIsPaid
<1>3. IsFiniteSet(charges) /\ Cardinality(charges) \in Nat
  BY <1>1, <1>2, PaidScansCounted
<1>4. IsFiniteSet(refunds) /\ Cardinality(refunds) \in Nat
  BY <1>2, <1>3, FS_Subset, FS_CardinalityType
<1>5. UNCHANGED <<made, charges, anonCharges>> /\ wasCanceled' = wasCanceled \union {s}
  BY DEF CancelScan
<1>6. CASE Refundable(s)
  <2>1. s \in charges /\ s \notin refunds
    BY <1>6 DEF Refundable
  <2>2. Cardinality(refunds \union {s}) = Cardinality(refunds) + 1
    BY <1>4, <2>1, FS_AddElement
  <2>3. Cardinality(refunds \union {s}) <= Cardinality(charges)
    BY <1>2, <1>3, <2>1, FS_Subset
  <2>4. used > 0
    BY <1>1, <1>3, <1>4, <2>2, <2>3 DEF LedgerInv, LedgerBalances
  <2>5. used' = used - 1 /\ refunds' = refunds \union {s}
    BY <1>6, <2>4 DEF CancelScan
  <2>6. QED
    BY SMTT(40), <1>1, <1>2, <1>3, <1>4, <1>5, <2>1, <2>2, <2>5
       DEF LedgerInv, LedgerBalances, EveryScanIsPaid
<1>7. CASE ~Refundable(s)
  <2>1. used' = used /\ refunds' = refunds
    BY <1>7 DEF CancelScan
  <2>2. QED
    BY <1>2, <1>5, <2>1 DEF LedgerInv, LedgerBalances, EveryScanIsPaid
<1>8. QED
  BY <1>6, <1>7

LEMMA LedgerStep == TypeOK /\ LedgerInv /\ [Next]_vars => LedgerInv'
<1> SUFFICES ASSUME TypeOK, LedgerInv, [Next]_vars PROVE LedgerInv'
  OBVIOUS
<1>1. ASSUME UNCHANGED <<made, credits, wasCanceled>> PROVE LedgerInv'
  BY <1>1 DEF credits, LedgerInv, LedgerBalances, EveryScanIsPaid
<1>2. ASSUME NEW r \in Requests, RequestStep(r) \/ RequestDies(r) PROVE LedgerInv'
  <2>1. CASE InsertAndSpend(r)
    BY <2>1, SpendKeepsLedger DEF InsertAndSpend, InsertScan
  <2>2. CASE ~InsertAndSpend(r)
    BY <1>1, <1>2, <2>2 DEF RequestStep, RequestDies, LockSite, CreditLimitReached, EnqueueScan
  <2>3. QED
    BY <2>1, <2>2
<1>3. ASSUME NEW t \in Ticks, TickStep(t) \/ RollbackBatch(t) \/ TickAborts(t) PROVE LedgerInv'
  <2>1. ASSUME NEW x \in Sites, StartScheduledScan(t, x) PROVE LedgerInv'
    BY <2>1, SpendKeepsLedger DEF StartScheduledScan, InsertScan, TakeSite
  <2>2. QED
    BY <1>1, <1>3, <2>1 DEF TickStep, RollbackBatch, TickAborts, SelectDueSites, SkipOverlap,
       SkipForCredit, TakeSite, CommitBatch, EnqueueRun, EndTick
<1>4. ASSUME NEW s \in Scans,
             \/ DispatcherStep(s) \/ FlowStep(s) \/ DispatcherDies(s) \/ FlowJobFails(s)
             \/ FailureIsLost(s) \/ AggregateStalls(s)
      PROVE  LedgerInv'
  BY <1>1, <1>4 DEF DispatcherStep, DispatcherReads, WriteProgressSkeleton, EnqueueScanCrawl,
     FlowStep, FlowSeesCancel, Aggregate, AggregateNotifies, MarkScanFailed, DispatcherDies,
     FlowJobFails, FailureIsLost, AggregateStalls
<1>5. QED
  BY <1>1, <1>2, <1>3, <1>4, CancelKeepsLedger DEF Next, FaultStep, BecomesDue, vars, credits

(***************************************************************************)
(* All parts together are inductive.                                       *)
(***************************************************************************)
Inv == TypeOK /\ LockInv /\ WorkInv /\ OverlapInv /\ ShownResultIsReal /\ LedgerInv

LEMMA InvInit == Init => Inv
  BY TypeInit, LockInit, WorkInit, OverlapInit, ShownInit, LedgerInit DEF Inv

LEMMA InvStep == Inv /\ [Next]_vars => Inv'
  BY TypeStep, LockStep, WorkStep, OverlapStep, ShownStep, LedgerStep DEF Inv

LEMMA InvCorrect == Spec => []Inv
<1>1. QED
  BY InvInit, InvStep, PTL DEF Spec

(***************************************************************************)
(* The row locks of createManualScan and processDueSites keep the scans of *)
(* a site apart: never two scans of one site that wait for the dispatcher. *)
(***************************************************************************)
THEOREM QueuedOnce == Spec => []OneQueuedScanPerSite
<1>1. Inv => OneQueuedScanPerSite
  BY DEF Inv, OverlapInv
<1>2. QED
  BY <1>1, InvCorrect, PTL

(***************************************************************************)
(* Two scans of one site are active together only when one was canceled.   *)
(***************************************************************************)
THEOREM ActiveOnce == Spec => []OneUncanceledActiveScanPerSite
<1>1. Inv => OneUncanceledActiveScanPerSite
  BY DEF Inv, OverlapInv
<1>2. QED
  BY <1>1, InvCorrect, PTL

(***************************************************************************)
(* credits_used always equals the charges minus the refunds of the ledger, *)
(* and only canceled scans that were charged by their id are refunded.     *)
(***************************************************************************)
THEOREM LedgerAlwaysBalances == Spec => []LedgerBalances
<1>1. Inv => LedgerBalances
  BY DEF Inv, LedgerInv
<1>2. QED
  BY <1>1, InvCorrect, PTL

(***************************************************************************)
(* There are as many charges as scan rows, whichever path inserted them.   *)
(***************************************************************************)
THEOREM ScansArePaid == Spec => []EveryScanIsPaid
<1>1. Inv => EveryScanIsPaid
  BY DEF Inv, LedgerInv
<1>2. QED
  BY <1>1, InvCorrect, PTL

(***************************************************************************)
(* A result shown on a site is that of a scan of this site.                *)
(***************************************************************************)
THEOREM ShownResultsAreReal == Spec => []ShownResultIsReal
<1>1. Inv => ShownResultIsReal
  BY DEF Inv
<1>2. QED
  BY <1>1, InvCorrect, PTL

(***************************************************************************)
(* The only ways the status of a scan changes: insert, cancel, skeleton of *)
(* a scan without a flow, finishScan of a scan with one.                   *)
(***************************************************************************)
StatusChange(s) ==
    \/ status'[s] = status[s]
    \/ status[s] = "absent" /\ status'[s] = "queued"
    \/ status[s] \in Active /\ status'[s] = "canceled"
    \/ dispatch[s] = "read" /\ flow[s] = "none" /\ status'[s] = "running"
    \/ status[s] # "canceled" /\ status'[s] \in {"completed", "failed"}

LEMMA StatusChanges == ASSUME Inv, [Next]_vars, NEW s \in Scans PROVE StatusChange(s)
<1>0. /\ status \in [Scans -> Statuses] /\ made \in 0..MaxScans
      /\ TypeOK /\ WorkInv
  BY DEF Inv, TypeOK
<1>1. CASE UNCHANGED status
  BY <1>1 DEF StatusChange
<1>2. ASSUME NEW x, InsertScan(made + 1, x), made < MaxScans PROVE StatusChange(s)
  <2>1. made + 1 \in Scans /\ status[made + 1] = "absent"
    BY <1>0, <1>2 DEF Scans, WorkInv
  <2>2. status' = [status EXCEPT ![made + 1] = "queued"]
    BY <1>2 DEF InsertScan
  <2>3. QED
    BY <1>0, <2>1, <2>2 DEF StatusChange
<1>3. ASSUME NEW r \in Requests, RequestStep(r) \/ RequestDies(r) PROVE StatusChange(s)
  BY <1>1, <1>2, <1>3 DEF RequestStep, RequestDies, LockSite, InsertAndSpend,
     CreditLimitReached, EnqueueScan
<1>4. ASSUME NEW t \in Ticks, TickStep(t) \/ RollbackBatch(t) \/ TickAborts(t)
      PROVE  StatusChange(s)
  BY <1>1, <1>2, <1>4 DEF TickStep, RollbackBatch, TickAborts, SelectDueSites, SkipOverlap,
     SkipForCredit, StartScheduledScan, CommitBatch, EnqueueRun, EndTick
<1>5. ASSUME NEW u \in Scans, CancelScan(u) PROVE StatusChange(s)
  BY <1>0, <1>5 DEF CancelScan, Cancelable, StatusChange
<1>6. ASSUME NEW u \in Scans, WriteProgressSkeleton(u) PROVE StatusChange(s)
  <2>1. dispatch[u] = "read" /\ flow[u] = "none"
    BY <1>0, <1>6 DEF WriteProgressSkeleton, WorkInv
  <2>2. status' = [status EXCEPT ![u] = "running"]
    BY <1>6 DEF WriteProgressSkeleton
  <2>3. QED
    BY <1>0, <2>1, <2>2 DEF StatusChange
<1>7. ASSUME NEW u \in Scans, Aggregate(u) \/ MarkScanFailed(u) PROVE StatusChange(s)
  BY <1>0, <1>7, FinishScanStatus DEF Aggregate, MarkScanFailed, StatusChange
<1>8. ASSUME NEW u \in Scans,
             \/ DispatcherReads(u) \/ EnqueueScanCrawl(u) \/ DispatcherDies(u)
             \/ FlowSeesCancel(u) \/ AggregateNotifies(u) \/ FlowJobFails(u)
             \/ FailureIsLost(u) \/ AggregateStalls(u)
      PROVE  StatusChange(s)
  BY <1>1, <1>8 DEF DispatcherReads, EnqueueScanCrawl, DispatcherDies, FlowSeesCancel,
     AggregateNotifies, FlowJobFails, FailureIsLost, AggregateStalls
<1>9. QED
  BY <1>1, <1>3, <1>4, <1>5, <1>6, <1>7, <1>8
     DEF Next, DispatcherStep, FlowStep, FaultStep, BecomesDue, vars

(***************************************************************************)
(* No late dispatcher, cancel or failure handler makes a completed or      *)
(* failed scan active or canceled again.                                   *)
(***************************************************************************)
THEOREM FinishedForever == Spec => FinishedStaysFinished
<1>1. Inv /\ [Next]_vars => [StayFinished]_vars
  <2> SUFFICES ASSUME Inv, [Next]_vars PROVE StayFinished
    OBVIOUS
  <2> USE DEF StayFinished
  <2> TAKE s \in Scans
  <2> HAVE status[s] \in {"completed", "failed"}
  <2>1. flow[s] # "none"
    BY DEF Inv, WorkInv
  <2>2. QED
    BY <2>1, StatusChanges DEF StatusChange, Active
<1>2. QED
  BY <1>1, InvCorrect, PTL DEF Spec, FinishedStaysFinished

(***************************************************************************)
(* The window between the dispatcher's read and its skeleton is the only   *)
(* one through which a canceled scan comes back.                           *)
(***************************************************************************)
THEOREM OnlyDispatcherRevives == Spec => RevivedOnlyByDispatcher
<1>1. Inv /\ [Next]_vars => [ReviveByDispatcher]_vars
  <2> SUFFICES ASSUME Inv, [Next]_vars PROVE ReviveByDispatcher
    OBVIOUS
  <2>1. QED
    BY StatusChanges DEF StatusChange, Active, ReviveByDispatcher
<1>2. QED
  BY <1>1, InvCorrect, PTL DEF Spec, RevivedOnlyByDispatcher

(***************************************************************************)
(* The refinement.                                                         *)
(***************************************************************************)
LEMMA ContractInitial == Init => Contract!ContractInit
  BY DEF Init, Contract!ContractInit

LEMMA TriggerStep ==
  ASSUME Inv, NEW x \in Sites, made < MaxScans, InsertScan(made + 1, x),
         SpendCredit({made + 1}, 0) \/ SpendCredit({}, 1),
         UNCHANGED wasCanceled, Contract!Free(x)
  PROVE  Contract!ContractNext
<1>1. made + 1 \in Scans /\ status[made + 1] = "absent"
  BY DEF Inv, TypeOK, WorkInv, Scans
<1>2. Contract!Trigger(made + 1, x)
  BY <1>1 DEF Contract!Trigger, InsertScan, SpendCredit
<1>3. QED
  BY <1>1, <1>2 DEF Contract!ContractNext

LEMMA ContractStep == Inv /\ [Next]_vars => [Contract!ContractNext]_Contract!contractVars
<1> SUFFICES ASSUME Inv, [Next]_vars PROVE [Contract!ContractNext]_Contract!contractVars
  OBVIOUS
<1> DEFINE Step == [Contract!ContractNext]_Contract!contractVars
<1>0. /\ status \in [Scans -> Statuses] /\ used \in 0..CreditLimit /\ CreditLimit \in Nat
      /\ OverlapInv /\ WorkInv /\ LockInv
      /\ \A s \in Scans : s > made \/ s <= made
  BY DEF Inv, TypeOK, Scans
<1>1. ASSUME UNCHANGED <<status, siteOf, used, wasCanceled>> PROVE Step
  BY <1>1 DEF Contract!contractVars
<1>2. ASSUME NEW r \in Requests, RequestStep(r) \/ RequestDies(r) PROVE Step
  <2>1. CASE InsertAndSpend(r)
    <3>1. req[r].site \in Sites /\ Contract!Free(req[r].site)
      BY <1>0, <2>1 DEF InsertAndSpend, LockInv, OverlapInv, Contract!Free
    <3>2. QED
      BY <2>1, <3>1, TriggerStep DEF InsertAndSpend
  <2>2. CASE ~InsertAndSpend(r)
    BY <1>1, <1>2, <2>2
       DEF RequestStep, RequestDies, LockSite, CreditLimitReached, EnqueueScan, credits
  <2>3. QED
    BY <2>1, <2>2
<1>3. ASSUME NEW t \in Ticks, TickStep(t) \/ RollbackBatch(t) \/ TickAborts(t) PROVE Step
  <2>1. ASSUME NEW x \in Sites, StartScheduledScan(t, x) PROVE Step
    <3>1. Contract!Free(x)
      BY <2>1 DEF StartScheduledScan, HasActiveScan, Active, Contract!Free
    <3>2. QED
      BY <2>1, <3>1, TriggerStep DEF StartScheduledScan, TakeSite
  <2>2. QED
    BY <1>1, <1>3, <2>1 DEF TickStep, RollbackBatch, TickAborts, SelectDueSites, SkipOverlap,
       SkipForCredit, TakeSite, CommitBatch, EnqueueRun, EndTick, credits
<1>4. ASSUME NEW s \in Scans, CancelScan(s) PROVE Step
  <2>1. Contract!Cancel(s)
    BY <1>0, <1>4 DEF CancelScan, Cancelable, Active, Contract!Cancel
  <2>2. QED
    BY <2>1 DEF Contract!ContractNext
<1>5. ASSUME NEW s \in Scans, WriteProgressSkeleton(s) PROVE Step
  <2>1. dispatch[s] = "read" /\ flow[s] = "none" /\ ~(s > made)
    BY <1>0, <1>5 DEF WriteProgressSkeleton, WorkInv
  <2>2. status[s] \in {"queued", "running", "canceled"}
    BY <1>0, <2>1 DEF WorkInv, Statuses, Active, Terminal
  <2>3. /\ status' = [status EXCEPT ![s] = "running"]
        /\ UNCHANGED <<siteOf, used, wasCanceled>>
    BY <1>5 DEF WriteProgressSkeleton, credits
  <2>4. CASE status[s] = "running"
    BY <1>0, <1>1, <2>3, <2>4
  <2>5. CASE status[s] = "queued"
    BY <2>3, <2>5 DEF Contract!Start, Contract!ContractNext
  <2>6. CASE status[s] = "canceled"
    BY <2>3, <2>6 DEF Contract!Resume, Contract!ContractNext
  <2>7. QED
    BY <2>2, <2>4, <2>5, <2>6
<1>6. ASSUME NEW s \in Scans, NEW outcome \in {"completed", "failed"}, FinishScan(s, outcome),
             flow[s] # "none", UNCHANGED <<siteOf, used, wasCanceled>>
      PROVE  Step
  <2>1. CASE status[s] = "canceled"
    BY <1>1, <1>6, <2>1 DEF FinishScan
  <2>2. CASE status[s] # "canceled"
    <3>1. status[s] \notin {"absent", "queued"}
      BY <1>0, <1>6 DEF WorkInv
    <3>2. status[s] \in {"running", "completed", "failed"}
      BY <1>0, <2>2, <3>1 DEF Statuses, Active, Terminal
    <3>3. Contract!Finish(s)
      BY <1>6, <2>2, <3>2 DEF FinishScan, Contract!Finish
    <3>4. QED
      BY <3>3 DEF Contract!ContractNext
  <2>3. QED
    BY <2>1, <2>2
<1>7. ASSUME NEW s \in Scans, Aggregate(s) \/ MarkScanFailed(s) PROVE Step
  BY <1>6, <1>7 DEF Aggregate, MarkScanFailed, credits
<1>8. ASSUME NEW s \in Scans,
             \/ DispatcherReads(s) \/ EnqueueScanCrawl(s) \/ DispatcherDies(s)
             \/ FlowSeesCancel(s) \/ AggregateNotifies(s) \/ FlowJobFails(s)
             \/ FailureIsLost(s) \/ AggregateStalls(s)
      PROVE  Step
  BY <1>1, <1>8 DEF DispatcherReads, EnqueueScanCrawl, DispatcherDies, FlowSeesCancel,
     AggregateNotifies, FlowJobFails, FailureIsLost, AggregateStalls, credits
<1>9. QED
  BY <1>1, <1>2, <1>3, <1>4, <1>5, <1>7, <1>8
     DEF Next, DispatcherStep, FlowStep, FaultStep, BecomesDue, vars, credits

(***************************************************************************)
(* Every behaviour of the requests, ticks, locks and jobs is a behaviour   *)
(* of the contract: triggers, cancels and results look atomic.             *)
(***************************************************************************)
THEOREM LifecycleImplementsContract == Spec => ImplementsContract
<1>1. QED
  BY ContractInitial, ContractStep, InvCorrect, PTL
     DEF Spec, ImplementsContract, Contract!ContractSpec
=============================================================================
