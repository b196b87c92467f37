---------------------------- MODULE ScanPipeline ----------------------------
(***************************************************************************)
(* One scan on its way through the BullMQ flow: the crawl job fans out to  *)
(* the children (http, browser, github) and to their parent, the           *)
(* aggregator, which BullMQ starts when every child has completed.         *)
(* apps/worker/src/queues/{crawl,scan-worker,aggregate,boot}.ts and        *)
(* packages/scan-core/src/{progress,checks,finish-scan}.ts.                *)
(*                                                                         *)
(* ScanLifecycle sees this flow as one process per scan; here its jobs,    *)
(* their check rows and the progress bar are apart.  The module starts     *)
(* when the dispatcher has written the skeleton and enqueued the crawl.    *)
(*                                                                         *)
(* A check is a catalog id that one child's worker runs.  Its outcome, the *)
(* routes and the scores are data the properties do not tell apart.        *)
(*                                                                         *)
(* Bound: MaxFaults infrastructure faults (a job throws, its worker dies,  *)
(* a `failed` handler is lost).                                            *)
(***************************************************************************)
EXTENDS Integers, FiniteSets

CONSTANTS Checks,    \* the check ids of this scan
          Owner,     \* [Checks -> Children]: the queue whose worker runs the check
          Category,  \* [Checks -> categories]: the category of the check in the catalog
          MaxFaults, \* bound on the infrastructure faults
          NoCheck    \* no check whose progress is pending

Children   == {Owner[c] : c \in Checks}
Categories == {Category[c] : c \in Checks}
Jobs       == Children \union {"crawl", "aggregate"}
Total      == Cardinality(Checks)

ASSUME ChecksAssumption ==
    /\ IsFiniteSet(Checks)
    /\ Checks # {}
    /\ NoCheck \notin Checks
    /\ {"crawl", "aggregate"} \intersect Children = {}
    /\ MaxFaults \in Nat

VARIABLES
    status,     \* scans.status, from the skeleton on
    job,        \* [Jobs -> JobStates]: the state BullMQ keeps of each job
    crawlAt,    \* where the crawl processor is
    todo,       \* [Children -> SUBSET Checks]: checks the processor still has to write
    pending,    \* [Children -> Checks \union {NoCheck}]: rows written, progress not yet
    aggregateAt,\* where the aggregate processor is
    snapshot,   \* the rows of `checks` the aggregator has read
    rows,       \* checks whose rows of `checks` are written (a passing check may have none)
    done,       \* [Categories -> Nat]: progress_details.categories[_].done
    checksDone, \* progress_details.checks_done
    progress,   \* scans.progress, in checks: Total is 100%
    findings,   \* scans.findings: the checks in the payload, or {"error"}
    handlers,   \* jobs whose `failed` event is being handled
    faults      \* faults so far

vars == <<status, job, crawlAt, todo, pending, aggregateAt, snapshot, rows, done, checksDone,
          progress, findings, handlers, faults>>

scan    == <<status, findings>>
details == <<done, checksDone>>
locals  == <<crawlAt, todo, pending, aggregateAt, snapshot>>

JobStates == {"none", "waiting", "active", "blocked", "completed", "failed"}

TypeOK ==
    /\ status \in {"running", "completed", "failed", "canceled"}
    /\ job \in [Jobs -> JobStates]
    /\ crawlAt \in {"idle", "discover", "fanout", "end"}
    /\ todo \in [Children -> SUBSET Checks]
    /\ pending \in [Children -> Checks \union {NoCheck}]
    /\ aggregateAt \in {"idle", "finish", "notify"}
    /\ snapshot \in SUBSET Checks
    /\ rows \in SUBSET Checks
    /\ done \in [Categories -> 0..Total]
    /\ checksDone \in 0..Total
    /\ progress \in 0..Total
    /\ findings \in SUBSET (Checks \union {"error"})
    /\ handlers \in SUBSET Jobs
    /\ faults \in 0..MaxFaults

Init ==
    /\ status = "running"
    /\ job = [j \in Jobs |-> IF j = "crawl" THEN "waiting" ELSE "none"]
    /\ crawlAt = "idle"
    /\ todo = [q \in Children |-> {}]
    /\ pending = [q \in Children |-> NoCheck]
    /\ aggregateAt = "idle"
    /\ snapshot = {}
    /\ rows = {}
    /\ done = [k \in Categories |-> 0]
    /\ checksDone = 0
    /\ progress = 0
    /\ findings = {}
    /\ handlers = {}
    /\ faults = 0

\* The totals of the skeleton (skeletonTotals of the dispatcher).
TotalOf(k) == Cardinality({c \in Checks : Category[c] = k})

Fault == faults < MaxFaults /\ faults' = faults + 1
-----------------------------------------------------------------------------
(* The crawler.                                                            *)

CrawlStarts ==
    /\ job["crawl"] = "waiting"
    /\ IF status = "canceled"
       THEN /\ job' = [job EXCEPT !["crawl"] = "completed"]
            /\ UNCHANGED crawlAt
       ELSE /\ job' = [job EXCEPT !["crawl"] = "active"]
            /\ crawlAt' = "discover"
    /\ UNCHANGED <<scan, todo, pending, aggregateAt, snapshot, rows, details, progress,
                   handlers, faults>>

\* Discovery, scan_routes and route_count: the route list, which replaces an older one.
CrawlDiscovers ==
    /\ crawlAt = "discover"
    /\ crawlAt' = "fanout"
    /\ UNCHANGED <<scan, job, todo, pending, aggregateAt, snapshot, rows, details, progress,
                   handlers, faults>>

FanOut_NoDependency(j) ==
    IF job[j] # "none" THEN job[j] ELSE IF j = "crawl" THEN "active" ELSE "waiting"

\* flowProducer.add: one atomic write; a job whose id exists is left as it is.
FanOut(j) ==
    IF job[j] # "none" THEN job[j] ELSE IF j = "aggregate" THEN "blocked" ELSE "waiting"

CrawlFansOut ==
    /\ crawlAt = "fanout"
    /\ job' = [j \in Jobs |-> FanOut(j)]
    /\ crawlAt' = "end"
    /\ UNCHANGED <<scan, todo, pending, aggregateAt, snapshot, rows, details, progress,
                   handlers, faults>>

CrawlEnds ==
    /\ crawlAt = "end"
    /\ job' = [job EXCEPT !["crawl"] = "completed"]
    /\ crawlAt' = "idle"
    /\ UNCHANGED <<scan, todo, pending, aggregateAt, snapshot, rows, details, progress,
                   handlers, faults>>

-----------------------------------------------------------------------------
(* The children.                                                           *)

\* BullMQ starts the parent when its last child completes.
Complete(q) ==
    LET after == [job EXCEPT ![q] = "completed"]
    IN  IF /\ after["aggregate"] = "blocked"
           /\ \A p \in Children : after[p] = "completed"
        THEN [after EXCEPT !["aggregate"] = "waiting"]
        ELSE after

ChildStarts(q) ==
    /\ job[q] = "waiting"
    /\ IF status = "canceled"
       THEN job' = Complete(q) /\ UNCHANGED todo
       ELSE /\ job' = [job EXCEPT ![q] = "active"]
            /\ todo' = [todo EXCEPT ![q] = {c \in Checks : Owner[c] = q}]
    /\ UNCHANGED <<scan, crawlAt, pending, aggregateAt, snapshot, rows, details, progress,
                   handlers, faults>>

\* The checks have run on the routes; a check that throws has become an error finding.
UpsertChecks(q, c) ==
    /\ job[q] = "active"
    /\ pending[q] = NoCheck
    /\ c \in todo[q]
    /\ rows' = rows \union {c}
    /\ todo' = [todo EXCEPT ![q] = @ \ {c}]
    /\ pending' = [pending EXCEPT ![q] = c]
    /\ UNCHANGED <<scan, job, crawlAt, aggregateAt, snapshot, details, progress, handlers,
                   faults>>

AdvanceDetails_Unbounded(k) ==
    /\ done' = [done EXCEPT ![k] = @ + 1]
    /\ checksDone' = checksDone + 1
    /\ progress' = checksDone + 1

AdvanceDetails_Category(k) ==
    IF done[k] < TotalOf(k)
    THEN /\ done' = [done EXCEPT ![k] = @ + 1]
         /\ checksDone' = checksDone + 1
         /\ progress' = done[k] + 1
    ELSE UNCHANGED <<details, progress>>

\* advanceProgressDetails and overallProgress: a category that is done is left alone.
AdvanceDetails(k) ==
    IF done[k] < TotalOf(k)
    THEN /\ done' = [done EXCEPT ![k] = @ + 1]
         /\ checksDone' = IF checksDone < Total THEN checksDone + 1 ELSE Total
         /\ progress' = checksDone'
    ELSE UNCHANGED <<details, progress>>

\* One transaction, whatever the status of the scan has become.
AdvanceCategoryProgress(q) ==
    /\ job[q] = "active"
    /\ pending[q] # NoCheck
    /\ AdvanceDetails(Category[pending[q]])
    /\ pending' = [pending EXCEPT ![q] = NoCheck]
    /\ UNCHANGED <<scan, job, crawlAt, todo, aggregateAt, snapshot, rows, handlers, faults>>

ChildEnds(q) ==
    /\ job[q] = "active"
    /\ todo[q] = {}
    /\ pending[q] = NoCheck
    /\ job' = Complete(q)
    /\ UNCHANGED <<scan, locals, rows, details, progress, handlers, faults>>

-----------------------------------------------------------------------------
(* The aggregator, finishScan and the cancel request.                      *)

AggregateStarts ==
    /\ job["aggregate"] = "waiting"
    /\ job' = [job EXCEPT !["aggregate"] = "active"]
    /\ snapshot' = rows
    /\ aggregateAt' = "finish"
    /\ UNCHANGED <<scan, crawlAt, todo, pending, rows, details, progress, handlers, faults>>

FinishScan_NoRaceGuard(outcome, payload) ==
    /\ status' = outcome
    /\ findings' = payload
    /\ progress' = Total

FinishScan(outcome, payload) ==
    IF status = "canceled"
    THEN UNCHANGED <<scan, progress>>
    ELSE /\ status' = outcome
         /\ findings' = payload
         /\ progress' = Total

AggregateFinishes ==
    /\ aggregateAt = "finish"
    /\ FinishScan("completed", snapshot)
    /\ IF status = "canceled"
       THEN aggregateAt' = "idle" /\ job' = [job EXCEPT !["aggregate"] = "completed"]
       ELSE aggregateAt' = "notify" /\ UNCHANGED job
    /\ UNCHANGED <<crawlAt, todo, pending, snapshot, rows, details, handlers, faults>>

AggregateNotifies ==
    /\ aggregateAt = "notify"
    /\ aggregateAt' = "idle"
    /\ job' = [job EXCEPT !["aggregate"] = "completed"]
    /\ UNCHANGED <<scan, crawlAt, todo, pending, snapshot, rows, details, progress, handlers,
                   faults>>

CancelScan ==
    /\ status = "running"
    /\ status' = "canceled"
    /\ UNCHANGED <<findings, job, locals, rows, details, progress, handlers, faults>>

-----------------------------------------------------------------------------
(* Faults.                                                                 *)

\* What the processor of j had in memory is gone.
Forget(j) ==
    /\ crawlAt' = IF j = "crawl" THEN "idle" ELSE crawlAt
    /\ todo' = [q \in Children |-> IF q = j THEN {} ELSE todo[q]]
    /\ pending' = [q \in Children |-> IF q = j THEN NoCheck ELSE pending[q]]
    /\ aggregateAt' = IF j = "aggregate" THEN "idle" ELSE aggregateAt
    /\ UNCHANGED snapshot

\* The processor throws.  The worker options carry no attempts for its jobs, so the job
\* has failed for good: the parent of a failed child waits for ever.
JobFails(j) ==
    /\ job[j] = "active"
    /\ Fault
    /\ job' = [job EXCEPT ![j] = "failed"]
    /\ handlers' = handlers \union {j}
    /\ Forget(j)
    /\ UNCHANGED <<scan, rows, details, progress>>

MarkScanFailed_Children(j) ==
    /\ j \in handlers
    /\ IF j = "crawl" THEN UNCHANGED <<scan, progress>> ELSE FinishScan("failed", {"error"})
    /\ handlers' = handlers \ {j}
    /\ UNCHANGED <<job, locals, rows, details, faults>>

\* The `failed` handler of the worker: markScanFailed.
MarkScanFailed(j) ==
    /\ j \in handlers
    /\ FinishScan("failed", {"error"})
    /\ handlers' = handlers \ {j}
    /\ UNCHANGED <<job, locals, rows, details, faults>>

HandlerIsLost(j) ==
    /\ j \in handlers
    /\ Fault
    /\ handlers' = handlers \ {j}
    /\ UNCHANGED <<scan, job, locals, rows, details, progress>>

\* The worker process dies: its job is found stalled and another worker takes it.
WorkerDies(j) ==
    /\ job[j] = "active"
    /\ Fault
    /\ job' = [job EXCEPT ![j] = "waiting"]
    /\ Forget(j)
    /\ UNCHANGED <<scan, rows, details, progress, handlers>>

-----------------------------------------------------------------------------
Crawl == CrawlStarts \/ CrawlDiscovers \/ CrawlFansOut \/ CrawlEnds

Child(q) ==
    \/ ChildStarts(q)
    \/ \E c \in Checks : UpsertChecks(q, c)
    \/ AdvanceCategoryProgress(q)
    \/ ChildEnds(q)

Aggregator == AggregateStarts \/ AggregateFinishes \/ AggregateNotifies

Faults == \E j \in Jobs : JobFails(j) \/ HandlerIsLost(j) \/ WorkerDies(j)

\* The flow rests: nothing is left that a worker or the user could do.
Rests ==
    /\ status # "running" \/ faults = MaxFaults
    /\ \A j \in Jobs : job[j] \notin {"waiting", "active"}
    /\ handlers = {}
    /\ UNCHANGED vars

Next ==
    \/ Crawl
    \/ \E q \in Children : Child(q)
    \/ Aggregator
    \/ \E j \in Jobs : MarkScanFailed(j)
    \/ CancelScan
    \/ Faults
    \/ Rests

Spec == Init /\ [][Next]_vars

\* Workers keep running: a waiting job is taken, a processor and a handler go on.
Fairness ==
    /\ WF_vars(Crawl)
    /\ \A q \in Children : WF_vars(Child(q))
    /\ WF_vars(Aggregator)
    /\ \A j \in Jobs : WF_vars(MarkScanFailed(j))

FairSpec == Spec /\ Fairness
-----------------------------------------------------------------------------
(* Properties.                                                             *)

(***************************************************************************)
(* A completed scan is complete: its payload holds the findings of every   *)
(* check of every child, also after stalls and re-runs, because the        *)
(* aggregator is the parent of all children and a child that stops early   *)
(* does so only for a canceled scan (crawl.ts fan-out, aggregate.ts).      *)
(***************************************************************************)
ResultIsComplete == status = "completed" => findings = Checks

(***************************************************************************)
(* The bar of a completed scan stands at 100%: no child is left that could *)
(* write its own idea of the progress after finishScan's.                  *)
(***************************************************************************)
CompletedShowsFull == status = "completed" => progress = Total

(***************************************************************************)
(* However often a child is run again, the counters of the categories stay *)
(* within their totals and add up to the overall counter                   *)
(* (advanceProgressDetails).                                               *)
(***************************************************************************)
CountersAddUp ==
    /\ \A k \in Categories : done[k] <= TotalOf(k)
    /\ checksDone = Cardinality(UNION {{k} \X (1..done[k]) : k \in Categories})

(***************************************************************************)
(* The bar never goes back while the scan runs or once it has completed.   *)
(* (After a failure it may: the other children go on counting below 100%.) *)
(***************************************************************************)
NeverGoBack == status # "failed" => progress' >= progress

ProgressNeverGoesBack == [][NeverGoBack]_vars

(***************************************************************************)
(* A canceled scan keeps its status and its findings, whatever jobs still  *)
(* run and whatever handlers come late (race guard of finishScan).         *)
(***************************************************************************)
StayCanceled == status = "canceled" => UNCHANGED <<status, findings>>

CanceledStaysCanceled == [][StayCanceled]_vars

(***************************************************************************)
(* One fault, wherever it strikes, never leaves a scan running for ever:   *)
(* a dead worker's job is taken again and a failed job marks the scan.     *)
(* It takes two: a failed job and the loss of its handler.                 *)
(***************************************************************************)
ScanEnds == status = "running" ~> status # "running" \/ faults > 1
=============================================================================
