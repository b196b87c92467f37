--------------------------- MODULE ScanLifecycle ---------------------------
(***************************************************************************)
(* The life of the scans of one team, from the trigger (web request or    *)
(* scheduler tick) to a terminal status: apps/web/lib/scans-core.ts,      *)
(* apps/scheduler/src/core.ts, apps/worker/src/queues/*.ts and            *)
(* packages/scan-core/src/{credits,finish-scan,progress,queue}.ts.        *)
(*                                                                         *)
(* Grain of atomicity.  One action per Postgres transaction or statement,  *)
(* per Redis call and per awaited effect.  A transaction that takes row    *)
(* locks and then waits is split at the wait: the lock tables `lock` (rows *)
(* of sites) and `subLock` (the team's row of subscriptions) say who is    *)
(* inside, exactly as SELECT ... FOR UPDATE does.                          *)
(*                                                                         *)
(* The fan-out of one scan over the BullMQ flow (crawl, http, browser,     *)
(* github, aggregate) is module ScanPipeline; here it is one process per   *)
(* scan (variable flow) that ends by calling finishScan.                   *)
(*                                                                         *)
(* Bounds: MaxScans scan rows are ever created, MaxFaults infrastructure   *)
(* faults (a process dies, Redis or Postgres refuses a call) occur.        *)
(***************************************************************************)
EXTENDS Integers, FiniteSets

CONSTANTS Sites,        \* the sites of one team
          Requests,     \* concurrent web requests that start a scan
          Ticks,        \* scheduler ticks; setInterval does not await them, so they overlap
          CreditLimit,  \* creditsPerPeriod of the team's plan
          MaxScans,     \* bound on the scan rows
          MaxFaults,    \* bound on the infrastructure faults
          None          \* no owner, no site

Scans  == 1..MaxScans   \* scan ids, in the order of created_at
Actors == Requests \union Ticks

ASSUME ConstantsAssumption ==
    /\ CreditLimit \in Nat
    /\ MaxScans \in Nat
    /\ MaxFaults \in Nat
    /\ IsFiniteSet(Sites)
    /\ None \notin Sites \union Actors
    /\ Requests \intersect Ticks = {}

Active   == {"queued", "running"}
Terminal == {"completed", "failed", "canceled"}
Statuses == {"absent"} \union Active \union Terminal

VARIABLES
    status,      \* [Scans -> Statuses]: scans.status, "absent" before the insert
    siteOf,      \* [Scans -> Sites \union {None}]: scans.site_id
    made,        \* number of scan rows inserted so far
    lastScan,    \* [Sites -> 0..MaxScans]: sites.last_scan_id (0: null)
    lastStatus,  \* [Sites -> Statuses]: sites.last_scan_status ("absent": null)
    due,         \* [Sites -> BOOLEAN]: scan_frequency # none and next_scan_at <= now()
    used,        \* subscriptions.credits_used
    charges,     \* scans with a credit_transactions row (amount 1, this scan_id)
    anonCharges, \* number of credit_transactions rows with amount 1 and scan_id null
    refunds,     \* scans with a credit_transactions row (amount -1, 'scan_cancel')
    lock,        \* [Sites -> Actors \union {None}]: FOR UPDATE lock on the row of sites
    subLock,     \* Actors \union {None}: FOR UPDATE lock on the row of subscriptions
    req,         \* [Requests -> [pc, site, scan]]: a POST /api/scans
    tickPc,      \* [Ticks -> {"idle", "batch", "enqueue"}]: a processDueSites
    todo,        \* [Ticks -> SUBSET Sites]: due sites its loop still has to take
    runs,        \* [Ticks -> SUBSET Scans]: scans it created and has to enqueue
    dispatch,    \* [Scans -> DispatchStates]: the scan.dispatcher job
    flow,        \* [Scans -> FlowStates]: the scan.crawl job and the flow it creates
    wasCanceled, \* history: scans that were canceled at some time
    faults       \* faults so far

credits   == <<used, charges, anonCharges, refunds>>
siteCache == <<lastScan, lastStatus>>
tick      == <<tickPc, todo, runs>>
vars == <<status, siteOf, made, lastScan, lastStatus, due, used, charges, anonCharges,
          refunds, lock, subLock, req, tickPc, todo, runs, dispatch, flow, wasCanceled, faults>>

(***************************************************************************)
(* The dispatcher job: added to the queue, its scan read as queued, the    *)
(* progress skeleton written, finished; "dead" is a job in the DLQ.        *)
(***************************************************************************)
DispatchStates == {"none", "waiting", "read", "written", "done", "dead"}

(***************************************************************************)
(* The flow: its jobs run; the aggregator has committed and notifies; the  *)
(* `failed` event of a job is being handled; a child has failed, so the    *)
(* aggregator never runs but the other children still do; ended.           *)
(***************************************************************************)
FlowStates == {"none", "jobs", "notify", "failing", "lame", "done"}

IdleRequest == [pc |-> "idle", site |-> None, scan |-> 0]

RequestStates == [pc   : {"idle", "checked", "enqueue"},
                  site : Sites \union {None},
                  scan : 0..MaxScans]

TypeOK ==
    /\ status \in [Scans -> Statuses]
    /\ siteOf \in [Scans -> Sites \union {None}]
    /\ made \in 0..MaxScans
    /\ lastScan \in [Sites -> 0..MaxScans]
    /\ lastStatus \in [Sites -> Statuses]
    /\ due \in [Sites -> BOOLEAN]
    /\ used \in 0..CreditLimit
    /\ charges \in SUBSET Scans
    /\ anonCharges \in Nat
    /\ refunds \in SUBSET Scans
    /\ lock \in [Sites -> Actors \union {None}]
    /\ subLock \in Actors \union {None}
    /\ req \in [Requests -> RequestStates]
    /\ tickPc \in [Ticks -> {"idle", "batch", "enqueue"}]
    /\ todo \in [Ticks -> SUBSET Sites]
    /\ runs \in [Ticks -> SUBSET Scans]
    /\ dispatch \in [Scans -> DispatchStates]
    /\ flow \in [Scans -> FlowStates]
    /\ wasCanceled \in SUBSET Scans
    /\ faults \in 0..MaxFaults

Init ==
    /\ status = [s \in Scans |-> "absent"]
    /\ siteOf = [s \in Scans |-> None]
    /\ made = 0
    /\ lastScan = [x \in Sites |-> 0]
    /\ lastStatus = [x \in Sites |-> "absent"]
    /\ due = [x \in Sites |-> FALSE]
    /\ used = 0
    /\ charges = {}
    /\ anonCharges = 0
    /\ refunds = {}
    /\ lock = [x \in Sites |-> None]
    /\ subLock = None
    /\ req = [r \in Requests |-> IdleRequest]
    /\ tickPc = [t \in Ticks |-> "idle"]
    /\ todo = [t \in Ticks |-> {}]
    /\ runs = [t \in Ticks |-> {}]
    /\ dispatch = [s \in Scans |-> "none"]
    /\ flow = [s \in Scans |-> "none"]
    /\ wasCanceled = {}
    /\ faults = 0

HasActiveScan_QueuedOnly(x)  == \E s \in Scans : siteOf[s] = x /\ status[s] = "queued"

\* The overlap check of createManualScan and processDueSites.
HasActiveScan(x) == \E s \in Scans : siteOf[s] = x /\ status[s] \in Active

SetSiteScanState(x, s, st) ==
    /\ lastScan' = [lastScan EXCEPT ![x] = s]
    /\ lastStatus' = [lastStatus EXCEPT ![x] = st]

InsertScan(s, x) ==
    /\ made' = s
    /\ status' = [status EXCEPT ![s] = "queued"]
    /\ siteOf' = [siteOf EXCEPT ![s] = x]
    /\ SetSiteScanState(x, s, "queued")

SpendCredit_NoLimit(newCharges, newAnonymous) ==
    /\ used' = used + 1
    /\ charges' = charges \union newCharges
    /\ anonCharges' = anonCharges + newAnonymous
    /\ UNCHANGED refunds

SpendCredit_NoTransaction(newCharges, newAnonymous) ==
    /\ used < CreditLimit
    /\ used' = used + 1
    /\ UNCHANGED <<charges, anonCharges, refunds>>

\* spendCredit and its copy spendScheduleCredit, within one credit period.
SpendCredit(newCharges, newAnonymous) ==
    /\ used < CreditLimit
    /\ used' = used + 1
    /\ charges' = charges \union newCharges
    /\ anonCharges' = anonCharges + newAnonymous
    /\ UNCHANGED refunds

OutOfCredit == used >= CreditLimit \/ made >= MaxScans

\* queue.add with jobId = scanId: a no-op when the job exists.
EnqueueDispatcher(s) ==
    dispatch' = [dispatch EXCEPT ![s] = IF @ = "none" THEN "waiting" ELSE @]

\* A fault of the infrastructure, within the bound.
Fault == faults < MaxFaults /\ faults' = faults + 1

-----------------------------------------------------------------------------
(* Web: POST /api/scans.  The `overlap` answer changes nothing.            *)

LockSite(r, x) ==
    /\ req[r].pc = "idle"
    /\ lock[x] = None
    /\ ~HasActiveScan(x)
    /\ lock' = [lock EXCEPT ![x] = r]
    /\ req' = [req EXCEPT ![r] = [pc |-> "checked", site |-> x, scan |-> 0]]
    /\ UNCHANGED <<status, siteOf, made, siteCache, due, credits, subLock, tick,
                   dispatch, flow, wasCanceled, faults>>

InsertAndSpend(r) ==
    LET s == made + 1
        x == req[r].site
    IN  /\ req[r].pc = "checked"
        /\ subLock = None
        /\ made < MaxScans
        /\ InsertScan(s, x)
        /\ SpendCredit({s}, 0)
        /\ lock' = [lock EXCEPT ![x] = None]
        /\ req' = [req EXCEPT ![r] = [pc |-> "enqueue", site |-> None, scan |-> s]]
        /\ UNCHANGED <<due, subLock, tick, dispatch, flow, wasCanceled, faults>>

CreditLimitReached(r) ==
    /\ req[r].pc = "checked"
    /\ subLock = None
    /\ OutOfCredit
    /\ lock' = [lock EXCEPT ![req[r].site] = None]
    /\ req' = [req EXCEPT ![r] = IdleRequest]
    /\ UNCHANGED <<status, siteOf, made, siteCache, due, credits, subLock, tick,
                   dispatch, flow, wasCanceled, faults>>

EnqueueScan(r) ==
    /\ req[r].pc = "enqueue"
    /\ EnqueueDispatcher(req[r].scan)
    /\ req' = [req EXCEPT ![r] = IdleRequest]
    /\ UNCHANGED <<status, siteOf, made, siteCache, due, credits, lock, subLock, tick,
                   flow, wasCanceled, faults>>

\* The process dies or a call fails: Postgres rolls the open transaction back, the
\* enqueue that was to follow a committed one is lost.
RequestDies(r) ==
    /\ req[r].pc # "idle"
    /\ Fault
    /\ lock' = [x \in Sites |-> IF lock[x] = r THEN None ELSE lock[x]]
    /\ req' = [req EXCEPT ![r] = IdleRequest]
    /\ UNCHANGED <<status, siteOf, made, siteCache, due, credits, subLock, tick,
                   dispatch, flow, wasCanceled>>

Cancelable(s) == status[s] \in Active

Refundable_Again(s) == s \in charges

\* A transaction with amount 1 names the scan and no scan_cancel refund does.
Refundable(s) == s \in charges /\ s \notin refunds

\* POST /api/scans/[id]/cancel: one transaction, FOR UPDATE on the scan and its site.
CancelScan(s) ==
    /\ Cancelable(s)
    /\ lock[siteOf[s]] = None
    /\ subLock = None
    /\ status' = [status EXCEPT ![s] = "canceled"]
    /\ SetSiteScanState(siteOf[s], s, "canceled")
    /\ used' = IF Refundable(s) /\ used > 0 THEN used - 1 ELSE used
    /\ refunds' = IF Refundable(s) THEN refunds \union {s} ELSE refunds
    /\ wasCanceled' = wasCanceled \union {s}
    /\ UNCHANGED <<siteOf, made, due, charges, anonCharges, lock, subLock, req, tick,
                   dispatch, flow, faults>>

-----------------------------------------------------------------------------
(* Scheduler.  A site becomes due when the clock passes next_scan_at.      *)

BecomesDue(x) ==
    /\ ~due[x]
    /\ lock[x] \notin Ticks
    /\ due' = [due EXCEPT ![x] = TRUE]
    /\ UNCHANGED <<status, siteOf, made, siteCache, credits, lock, subLock, req, tick,
                   dispatch, flow, wasCanceled, faults>>

\* select ... for update skip locked
SelectDueSites(t) ==
    LET batch == {x \in Sites : due[x] /\ lock[x] = None}
    IN  /\ tickPc[t] = "idle"
        /\ batch # {}
        /\ lock' = [x \in Sites |-> IF x \in batch THEN t ELSE lock[x]]
        /\ tickPc' = [tickPc EXCEPT ![t] = "batch"]
        /\ todo' = [todo EXCEPT ![t] = batch]
        /\ UNCHANGED <<status, siteOf, made, siteCache, due, credits, subLock, req, runs,
                       dispatch, flow, wasCanceled, faults>>

\* One turn of the loop over the due sites: next_scan_at always advances.
TakeSite(t, x) ==
    /\ tickPc[t] = "batch"
    /\ x \in todo[t]
    /\ todo' = [todo EXCEPT ![t] = @ \ {x}]
    /\ due' = [due EXCEPT ![x] = FALSE]
    /\ UNCHANGED <<lock, req, tickPc, dispatch, flow, wasCanceled, faults>>

SkipOverlap(t, x) ==
    /\ TakeSite(t, x)
    /\ HasActiveScan(x)
    /\ UNCHANGED <<status, siteOf, made, siteCache, credits, subLock, runs>>

SkipForCredit_NotAdvancing(t, x) ==
    /\ tickPc[t] = "batch"
    /\ x \in todo[t]
    /\ ~HasActiveScan(x)
    /\ subLock \in {None, t}
    /\ OutOfCredit
    /\ subLock' = t
    /\ todo' = [todo EXCEPT ![t] = @ \ {x}]
    /\ UNCHANGED <<status, siteOf, made, siteCache, due, credits, lock, req, tickPc, runs,
                   dispatch, flow, wasCanceled, faults>>

SkipForCredit(t, x) ==
    /\ TakeSite(t, x)
    /\ ~HasActiveScan(x)
    /\ subLock \in {None, t}
    /\ OutOfCredit
    /\ subLock' = t
    /\ UNCHANGED <<status, siteOf, made, siteCache, credits, runs>>

\* spendScheduleCredit is called before the insert, without a scan id.
StartScheduledScan(t, x) ==
    LET s == made + 1
    IN  /\ TakeSite(t, x)
        /\ ~HasActiveScan(x)
        /\ subLock \in {None, t}
        /\ made < MaxScans
        /\ SpendCredit({}, 1)
        /\ InsertScan(s, x)
        /\ subLock' = t
        /\ runs' = [runs EXCEPT ![t] = @ \union {s}]

ReleaseLocks(t) ==
    /\ lock' = [x \in Sites |-> IF lock[x] = t THEN None ELSE lock[x]]
    /\ subLock' = IF subLock = t THEN None ELSE subLock

CommitBatch(t) ==
    /\ tickPc[t] = "batch"
    /\ todo[t] = {}
    /\ ReleaseLocks(t)
    /\ tickPc' = [tickPc EXCEPT ![t] = "enqueue"]
    /\ UNCHANGED <<status, siteOf, made, siteCache, due, credits, req, todo, runs, dispatch,
                   flow, wasCanceled, faults>>

\* A fault in the loop rolls the whole batch back, as if it struck before the first site.
RollbackBatch(t) ==
    /\ tickPc[t] = "batch"
    /\ todo[t] = {x \in Sites : lock[x] = t}
    /\ Fault
    /\ ReleaseLocks(t)
    /\ tickPc' = [tickPc EXCEPT ![t] = "idle"]
    /\ todo' = [todo EXCEPT ![t] = {}]
    /\ UNCHANGED <<status, siteOf, made, siteCache, due, credits, req, runs, dispatch, flow,
                   wasCanceled>>

EnqueueRun(t, s) ==
    /\ tickPc[t] = "enqueue"
    /\ s \in runs[t]
    /\ EnqueueDispatcher(s)
    /\ runs' = [runs EXCEPT ![t] = @ \ {s}]
    /\ UNCHANGED <<status, siteOf, made, siteCache, due, credits, lock, subLock, req,
                   tickPc, todo, flow, wasCanceled, faults>>

EndTick_Early(t) ==
    /\ tickPc[t] = "enqueue"
    /\ tickPc' = [tickPc EXCEPT ![t] = "idle"]
    /\ runs' = [runs EXCEPT ![t] = {}]
    /\ UNCHANGED <<status, siteOf, made, siteCache, due, credits, lock, subLock, req, todo,
                   dispatch, flow, wasCanceled, faults>>

EndTick(t) ==
    /\ tickPc[t] = "enqueue"
    /\ runs[t] = {}
    /\ tickPc' = [tickPc EXCEPT ![t] = "idle"]
    /\ UNCHANGED <<status, siteOf, made, siteCache, due, credits, lock, subLock, req, todo,
                   runs, dispatch, flow, wasCanceled, faults>>

\* onCreditSkip or an enqueue throws, or the process dies: the other runs are never enqueued.
TickAborts(t) ==
    /\ tickPc[t] = "enqueue"
    /\ runs[t] # {}
    /\ Fault
    /\ tickPc' = [tickPc EXCEPT ![t] = "idle"]
    /\ runs' = [runs EXCEPT ![t] = {}]
    /\ UNCHANGED <<status, siteOf, made, siteCache, due, credits, lock, subLock, req, todo,
                   dispatch, flow, wasCanceled>>

-----------------------------------------------------------------------------
(* Worker: the dispatcher reads the scan without a lock and writes the     *)
(* skeleton (status running) later, whatever the status is by then.        *)

DispatcherReads(s) ==
    /\ dispatch[s] = "waiting"
    /\ dispatch' = [dispatch EXCEPT ![s] = IF status[s] = "queued" THEN "read" ELSE "done"]
    /\ UNCHANGED <<status, siteOf, made, siteCache, due, credits, lock, subLock, req, tick,
                   flow, wasCanceled, faults>>

WriteProgressSkeleton(s) ==
    /\ dispatch[s] = "read"
    /\ dispatch' = [dispatch EXCEPT ![s] = "written"]
    /\ status' = [status EXCEPT ![s] = "running"]
    /\ UNCHANGED <<siteOf, made, siteCache, due, credits, lock, subLock, req, tick,
                   flow, wasCanceled, faults>>

EnqueueScanCrawl(s) ==
    /\ dispatch[s] = "written"
    /\ dispatch' = [dispatch EXCEPT ![s] = "done"]
    /\ flow' = [flow EXCEPT ![s] = IF @ = "none" THEN "jobs" ELSE @]
    /\ UNCHANGED <<status, siteOf, made, siteCache, due, credits, lock, subLock, req, tick,
                   wasCanceled, faults>>

\* The worker dies (the stalled job is taken again) or the job throws: attempts is 1
\* and markScan is false for the dispatcher, so the scan keeps its status.
DispatcherDies(s) ==
    /\ dispatch[s] \in {"read", "written"}
    /\ Fault
    /\ \E st \in {"waiting", "dead"} : dispatch' = [dispatch EXCEPT ![s] = st]
    /\ UNCHANGED <<status, siteOf, made, siteCache, due, credits, lock, subLock, req, tick,
                   flow, wasCanceled>>

-----------------------------------------------------------------------------
(* Worker: the flow of one scan, down to finishScan.                       *)

FinishScan_SiteAlways(s, outcome) ==
    /\ lock[siteOf[s]] = None
    /\ status' = [status EXCEPT ![s] = IF @ = "canceled" THEN @ ELSE outcome]
    /\ SetSiteScanState(siteOf[s], s, outcome)

\* finishScan: the update of the sites row waits for a FOR UPDATE lock on it.
FinishScan(s, outcome) ==
    IF status[s] = "canceled"
    THEN UNCHANGED <<status, siteCache>>
    ELSE /\ lock[siteOf[s]] = None
         /\ status' = [status EXCEPT ![s] = outcome]
         /\ SetSiteScanState(siteOf[s], s, outcome)

\* crawl, http, browser and github return early on a canceled scan.
FlowSeesCancel(s) ==
    /\ flow[s] \in {"jobs", "lame"}
    /\ status[s] = "canceled"
    /\ flow' = [flow EXCEPT ![s] = "done"]
    /\ UNCHANGED <<status, siteOf, made, siteCache, due, credits, lock, subLock, req, tick,
                   dispatch, wasCanceled, faults>>

Aggregate(s) ==
    /\ flow[s] = "jobs"
    /\ FinishScan(s, "completed")
    /\ flow' = [flow EXCEPT ![s] = IF status[s] = "canceled" THEN "done" ELSE "notify"]
    /\ UNCHANGED <<siteOf, made, due, credits, lock, subLock, req, tick, dispatch,
                   wasCanceled, faults>>

AggregateNotifies(s) ==
    /\ flow[s] = "notify"
    /\ flow' = [flow EXCEPT ![s] = "done"]
    /\ UNCHANGED <<status, siteOf, made, siteCache, due, credits, lock, subLock, req, tick,
                   dispatch, wasCanceled, faults>>

\* A job of the flow throws: its work, or a notification after the aggregator's commit.
FlowJobFails(s) ==
    /\ flow[s] \in {"jobs", "notify", "lame"}
    /\ Fault
    /\ flow' = [flow EXCEPT ![s] = "failing"]
    /\ UNCHANGED <<status, siteOf, made, siteCache, due, credits, lock, subLock, req, tick,
                   dispatch, wasCanceled>>

\* The `failed` handler of the worker.
MarkScanFailed(s) ==
    /\ flow[s] = "failing"
    /\ FinishScan(s, "failed")
    /\ flow' = [flow EXCEPT ![s] = "lame"]
    /\ UNCHANGED <<siteOf, made, due, credits, lock, subLock, req, tick, dispatch,
                   wasCanceled, faults>>

\* The handler lives in memory: it is lost with its process, and its errors are only logged.
FailureIsLost(s) ==
    /\ flow[s] = "failing"
    /\ Fault
    /\ flow' = [flow EXCEPT ![s] = "lame"]
    /\ UNCHANGED <<status, siteOf, made, siteCache, due, credits, lock, subLock, req, tick,
                   dispatch, wasCanceled>>

\* The worker dies while the aggregator notifies: the stalled job runs again from the start.
AggregateStalls(s) ==
    /\ flow[s] = "notify"
    /\ Fault
    /\ flow' = [flow EXCEPT ![s] = "jobs"]
    /\ UNCHANGED <<status, siteOf, made, siteCache, due, credits, lock, subLock, req, tick,
                   dispatch, wasCanceled>>

-----------------------------------------------------------------------------
RequestStep(r) ==
    \/ \E x \in Sites : LockSite(r, x)
    \/ InsertAndSpend(r)
    \/ CreditLimitReached(r)
    \/ EnqueueScan(r)

TickStep(t) ==
    \/ SelectDueSites(t)
    \/ \E x \in Sites : SkipOverlap(t, x) \/ SkipForCredit(t, x) \/ StartScheduledScan(t, x)
    \/ CommitBatch(t)
    \/ \E s \in Scans : EnqueueRun(t, s)
    \/ EndTick(t)

DispatcherStep(s) == DispatcherReads(s) \/ WriteProgressSkeleton(s) \/ EnqueueScanCrawl(s)

FlowStep(s) == FlowSeesCancel(s) \/ Aggregate(s) \/ AggregateNotifies(s) \/ MarkScanFailed(s)

FaultStep ==
    \/ \E r \in Requests : RequestDies(r)
    \/ \E t \in Ticks : RollbackBatch(t) \/ TickAborts(t)
    \/ \E s \in Scans : \/ DispatcherDies(s)
                        \/ FlowJobFails(s)
                        \/ FailureIsLost(s)
                        \/ AggregateStalls(s)

Next ==
    \/ \E r \in Requests : RequestStep(r)
    \/ \E t \in Ticks : TickStep(t)
    \/ \E s \in Scans : CancelScan(s) \/ DispatcherStep(s) \/ FlowStep(s)
    \/ \E x \in Sites : BecomesDue(x)
    \/ FaultStep

Spec == Init /\ [][Next]_vars

\* Every process that has work goes on; nobody is obliged to start or cancel a scan.
\* A step that waits for a row lock needs strong fairness: other transactions take the
\* lock again and again, but Postgres grants a row lock in the order of arrival.
Fairness ==
    /\ \A r \in Requests :
         /\ SF_vars(InsertAndSpend(r) \/ CreditLimitReached(r))
         /\ WF_vars(EnqueueScan(r))
    /\ \A t \in Ticks : SF_vars(TickStep(t))
    /\ \A s \in Scans : WF_vars(DispatcherStep(s)) /\ SF_vars(FlowStep(s))

FairSpec == Spec /\ Fairness
-----------------------------------------------------------------------------
(* Safety.                                                                 *)

(***************************************************************************)
(* The row locks of the trigger paths serialise them: however web requests *)
(* and overlapping ticks interleave, one site never has two scans waiting  *)
(* for the dispatcher, nor two active scans of which none was ever         *)
(* canceled (createManualScan's lock, processDueSites' skip locked).       *)
(***************************************************************************)
OneQueuedScanPerSite ==
    \A s, u \in Scans : /\ s # u
                        /\ siteOf[s] = siteOf[u]
                        /\ status[s] = "queued"
                        => status[u] # "queued"

OneUncanceledActiveScanPerSite ==
    \A s, u \in Scans \ wasCanceled : /\ s # u
                                      /\ siteOf[s] = siteOf[u]
                                      /\ status[s] \in Active
                                      => status[u] \notin Active

(***************************************************************************)
(* The credit counter and the ledger of transactions always agree, and     *)
(* only a scan that was paid for under its own id and then canceled is     *)
(* refunded, once (spendCredit, spendScheduleCredit, refundCredit).        *)
(***************************************************************************)
LedgerBalances ==
    /\ used = Cardinality(charges) + anonCharges - Cardinality(refunds)
    /\ refunds \subseteq charges \intersect wasCanceled

(***************************************************************************)
(* Every scan row was paid for by exactly one transaction: the rows that   *)
(* no transaction names are as many as the transactions without scan id.   *)
(***************************************************************************)
EveryScanIsPaid ==
    /\ charges \subseteq 1..made
    /\ anonCharges = Cardinality(1..made) - Cardinality(charges)

(***************************************************************************)
(* The denormalised state of a site never invents a result: when it shows  *)
(* completed or failed, the scan it points at has exactly that status and  *)
(* belongs to the site (setSiteScanState).                                 *)
(***************************************************************************)
ShownResultIsReal ==
    \A x \in Sites :
        lastStatus[x] \in {"completed", "failed"} =>
            /\ lastScan[x] \in Scans
            /\ siteOf[lastScan[x]] = x
            /\ status[lastScan[x]] = lastStatus[x]

(***************************************************************************)
(* A finished scan never becomes active or canceled again, whatever late   *)
(* dispatcher, cancel or failed handler arrives; a failed scan stays       *)
(* failed, unless its aggregator still runs after a stall.                 *)
(***************************************************************************)
StayFinished ==
    \A s \in Scans : status[s] \in {"completed", "failed"}
                         => status'[s] \in {"completed", "failed"}

FinishedStaysFinished == [][StayFinished]_vars

(***************************************************************************)
(* A canceled scan comes back only through the one window the dispatcher   *)
(* leaves: it read the scan as queued before the cancel and writes its     *)
(* skeleton after it.  No other worker step revives a canceled scan.       *)
(***************************************************************************)
ReviveByDispatcher ==
    \A s \in Scans : status[s] = "canceled" /\ status'[s] # "canceled"
                         => dispatch[s] = "read" /\ status'[s] = "running"

RevivedOnlyByDispatcher == [][ReviveByDispatcher]_vars

(***************************************************************************)
(* Requests, ticks, row locks, jobs and faults add up to the atomic        *)
(* operations of ScanContract: however they interleave, a scan appears     *)
(* together with its payment on a free site, and it moves only along the   *)
(* transitions of the contract.                                            *)
(***************************************************************************)
Contract == INSTANCE ScanContract WITH NoSite <- None

ImplementsContract == Contract!ContractSpec

-----------------------------------------------------------------------------
(* What the comments say and the code does not do: refuted by runs.        *)

(***************************************************************************)
(* finish-scan.ts:36-38 and plan 19: a canceled scan stays canceled.       *)
(***************************************************************************)
CanceledIsFinal ==
    [][\A s \in Scans : status[s] = "canceled" => status'[s] = "canceled"]_vars

-----------------------------------------------------------------------------
(* Liveness, without faults.                                               *)

(***************************************************************************)
(* Without infrastructure faults every scan that is created reaches a      *)
(* terminal status, whatever the cancels and the other triggers do: no     *)
(* trigger path forgets its enqueue and no worker waits for another.       *)
(***************************************************************************)
EveryScanEnds ==
    \A s \in Scans : status[s] \in Active ~> status[s] \in Terminal

(***************************************************************************)
(* A site that is due is always dealt with by a later tick: next_scan_at   *)
(* advances also when the site is skipped for an overlap or for credit, so *)
(* one site never keeps the scheduler busy for ever.  Stated without       *)
(* competing web requests, which skip locked lets overtake a tick.         *)
(***************************************************************************)
DueSitesAdvance == \A x \in Sites : due[x] ~> ~due[x]
=============================================================================
