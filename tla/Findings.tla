------------------------------ MODULE Findings -------------------------------
(***************************************************************************)
(* The findings of a site from scan to scan: what the aggregator makes of  *)
(* the rows of the checks, what it takes over from the scan before, how it *)
(* compares them with the last clean scan, and what it tells the team of.  *)
(* People edit the findings of any completed scan meanwhile: the PATCH     *)
(* route reads the whole payload and writes it back.                       *)
(*                                                                         *)
(* A finding is known by its check and its title, of which the route is    *)
(* part when there are several; here a check writes one finding.  A scan   *)
(* is numbered by its place among the scans of the site that got this far, *)
(* which follow each other (ScanLifecycle).  The aggregate job is taken    *)
(* again when its worker dies; a notification of the diff that fails is    *)
(* its end, and its failed handler, a step of its own in ScanPipeline,     *)
(* makes the completed scan a failed one.  The row that the aggregator     *)
(* derives itself, of CrUX, is one of the rows measured.                   *)
(***************************************************************************)
EXTENDS Hub, CheckKit

CONSTANTS Titled,      \* checks with a line in ISSUE_TITLES for each bad status
          ActiveIds,   \* active tests: in no score and no diff
          Compliance,  \* checks of the category compliance
          CriticalIds, \* checks that name their failure critical, as those of secrets do
          Results,     \* what a scan may measure: functions from checks to statuses
          Triggers,    \* "manual", "schedule", "deploy"
          Editors,     \* requests that edit findings
          Patches,     \* what they ask: [status, snooze], either of which may be Keep
          MaxScans,
          MaxEdits

ASSUME FindingsAssumption ==
    /\ "aggregator" \in Callers /\ MaxScans \in Nat /\ MaxEdits \in Nat
    /\ \A r \in Results : \A c \in DOMAIN r : r[c] \in Statuses

VARIABLES
    history,  \* scans of the site, oldest first: [items, score, diff, trigger, failed]
    job,      \* the aggregate job: [pc, scan, measured, trigger]
    editor,   \* [Editors -> [pc, scan, items, id, patch]]
    edits     \* edits so far

findingVars == <<history, job, editor, edits>>

Keep      == "keep"
NoItems   == [c \in {} |-> {}]
NoJob     == [pc |-> "idle", scan |-> 0, measured |-> NoItems, trigger |-> "manual"]
NoEdit    == [pc |-> "idle", scan |-> 0, items |-> NoItems, id |-> "", patch |-> {}]
NoDiff    == [new |-> {}, resolved |-> {}, regressed |-> {}, unchanged |-> {}, muted |-> {}]
IsBad(severity, least) == SeverityRank[severity] >= SeverityRank[least]

(***************************************************************************)
(* The findings of one scan and their score.                               *)
(***************************************************************************)
\* wrong: one title per check, whatever its status
Title_Name(c, status) == <<c>>
\* inlineChecksToFindings: the title of a problem, or the name of the check.
Title(c, status) == IF status \in {"pass", "info"} \/ c \notin Titled THEN <<c>> ELSE <<c, status>>

ToFindings(measured) ==
    [c \in DOMAIN measured |->
        [title |-> Title(c, measured[c]),
         severity |-> IF c \in CriticalIds /\ measured[c] = "fail" THEN "critical"
                      ELSE SeverityByStatus[measured[c]],
         status |-> "open", snooze |-> "none", regressed |-> FALSE]]

PassRatio(items, C) ==
    LET n == Cardinality(C)
        passed == Cardinality({c \in C : items[c].severity = "info"})
    IN  IF n = 0 THEN 0 ELSE (200 * passed + n) \div (2 * n)

\* overallScoreFromFindings: compliance counts for a tenth.
Score(items) ==
    LET counted == DOMAIN items \ ActiveIds
        legal == counted \intersect Compliance
        rest == counted \ legal
    IN  IF legal = {} THEN PassRatio(items, rest)
        ELSE IF rest = {} THEN PassRatio(items, legal)
        ELSE (9 * PassRatio(items, rest) + PassRatio(items, legal) + 5) \div 10

(***************************************************************************)
(* What a scan takes over, and what it is compared with.                   *)
(***************************************************************************)
Same(a, b, c) == c \in DOMAIN a /\ c \in DOMAIN b /\ a[c].title = b[c].title

\* applyFindingStatusCarryOver: the snooze always, the status when it is not open.
CarryOver(items, previous) ==
    [c \in DOMAIN items |->
        IF ~Same(items, previous, c) THEN items[c]
        ELSE [items[c] EXCEPT !.snooze = previous[c].snooze, !.status = previous[c].status]]

IsClean(scan) ==
    \/ scan.score >= 80
    \/ \A c \in DOMAIN scan.items \ ActiveIds :
          ~(scan.items[c].status = "open" /\ IsBad(scan.items[c].severity, "high"))

\* carryOverFindingStatuses and findCleanSnapshot: the newest of the completed scans before.
Completed(n) == {k \in 1..(n - 1) : ~history[k].failed}
Newest(scans) == IF scans = {} THEN NoItems ELSE history[Max(scans)].items
Previous(n) == Newest(Completed(n))
Snapshot(n) == Newest({k \in Completed(n) : IsClean(history[k])})

IsSnoozed(item, late) == item.snooze = "next-scan" \/ (item.snooze = "date" /\ ~late)
Dismissed(item) == item.status \in {"fixed", "ignored"}

\* wrong: dismissed or not, what the snapshot has and is open comes back
Regresses_Open(items, snapshot, c) == items[c].status = "open" /\ IsBad(items[c].severity, "high")
Regresses(items, snapshot, c) == items[c].status = "open" /\ Dismissed(snapshot[c])

\* computeScanDiff: sets of checks where the code counts by severity; late when the dates snoozed to are past.
Diff(items, snapshot, late) ==
    LET counted   == DOMAIN items \ ActiveIds
        known     == {c \in counted : Same(items, snapshot, c)}
        regressed == {c \in known : Regresses(items, snapshot, c)}
    IN  [new       |-> counted \ known,
         regressed |-> regressed,
         unchanged |-> known \ regressed,
         resolved  |-> {c \in DOMAIN snapshot \ ActiveIds : ~Same(items, snapshot, c)},
         muted     |-> {c \in counted : IsSnoozed(items[c], late)}]

\* The items as computeAndWriteScanDiff writes them.
Marked(items, diff) ==
    [c \in DOMAIN items |->
        [items[c] EXCEPT !.regressed = c \in diff.regressed,
                         !.snooze = IF @ = "next-scan" THEN "none" ELSE @]]

Finished(n, measured, trigger, late) ==
    LET fresh   == ToFindings(measured)
        carried == CarryOver(fresh, Previous(n))
        diff    == Diff(carried, Snapshot(n), late)
    IN  [items |-> Marked(carried, diff), score |-> Score(fresh), diff |-> diff, trigger |-> trigger,
        failed |-> FALSE]

\* emitScanDiffAlert: something bad that is new or back and not snoozed, or a score five lower.
AlertDue(n) ==
    LET scan == history[n]
        bad  == {c \in (scan.diff.new \union scan.diff.regressed) \ scan.diff.muted :
                    IsBad(scan.items[c].severity, "medium")}
    IN  /\ scan.trigger # "manual"
        /\ bad # {} \/ (Completed(n) # {} /\ history[Max(Completed(n))].score - scan.score >= 5)

HasCritical(n) == \E c \in DOMAIN history[n].items : history[n].items[c].severity = "critical"

(***************************************************************************)
(* Steps.                                                                  *)
(***************************************************************************)
FindingsInit ==
    /\ history = <<>>
    /\ job = NoJob
    /\ editor = [e \in Editors |-> NoEdit]
    /\ edits = 0

\* The rows of the checks of the next scan are there.
StartJob ==
    /\ job.pc = "idle"
    /\ Len(history) < MaxScans
    /\ \E r \in Results, t \in Triggers :
          job' = [pc |-> "finish", scan |-> Len(history) + 1, measured |-> r, trigger |-> t]
    /\ UNCHANGED <<hubVars, history, editor, edits>>

\* finishScan, one transaction; a second try writes over what the first one wrote.
Finish ==
    /\ job.pc = "finish"
    /\ \E late \in BOOLEAN :
       LET n == job.scan
           scan == Finished(n, job.measured, job.trigger, late)
       IN  history' = IF n > Len(history) THEN Append(history, scan) ELSE [history EXCEPT ![n] = scan]
    /\ job' = [job EXCEPT !.pc = "scan_done"]
    /\ UNCHANGED <<hubVars, editor, edits>>

\* The calls of the hub: scan_done always, critical_finding when there is one, scan_diff when there is
\* something to tell.  The first two share a try, so that a failing scan_done is also the end of the second.
TellDone ==
    /\ job.pc = "scan_done"
    /\ Notify("aggregator", <<"scan_done", job.scan>>)
    /\ job' = [job EXCEPT !.pc = IF HasCritical(job.scan) THEN "critical" ELSE "diff"]
    /\ UNCHANGED <<history, editor, edits>>

TellCritical ==
    /\ job.pc = "critical" /\ call["aggregator"].pc = "idle"
    /\ Notify("aggregator", <<"critical_finding", job.scan>>)
    /\ job' = [job EXCEPT !.pc = "diff"]
    /\ UNCHANGED <<history, editor, edits>>

TellDiff ==
    /\ job.pc = "diff" /\ call["aggregator"].pc = "idle"
    /\ IF AlertDue(job.scan)
       THEN Notify("aggregator", <<"scan_diff", job.scan>>) /\ job' = [job EXCEPT !.pc = "end"]
       ELSE job' = NoJob /\ UNCHANGED hubVars
    /\ UNCHANGED <<history, editor, edits>>

EndJob ==
    /\ job.pc = "end" /\ call["aggregator"].pc = "idle"
    /\ job' = NoJob
    /\ UNCHANGED <<hubVars, history, editor, edits>>

HubWorks ==
    /\ HubStep("aggregator")
    /\ UNCHANGED findingVars

\* A failing scan_done or critical_finding is logged and the job goes on with the diff; a failing
\* scan_diff ends it, and the scan with it.
Fails(pc) == pc = "end"

HubFails ==
    /\ CallFails("aggregator")
    /\ IF Fails(job.pc)
       THEN history' = [history EXCEPT ![job.scan].failed = TRUE] /\ job' = NoJob
       ELSE job' = [job EXCEPT !.pc = "diff"] /\ UNCHANGED history
    /\ UNCHANGED <<editor, edits>>

\* The worker dies; the queue finds the job stalled and gives it to another.
WorkerDies ==
    /\ job.pc \notin {"idle", "finish"}
    /\ Dies("aggregator")
    /\ job' = [job EXCEPT !.pc = "finish"]
    /\ UNCHANGED <<history, editor, edits>>

\* PATCH of a finding: the payload is read, changed and written, in two statements.
ReadFindings(e) ==
    /\ editor[e].pc = "idle" /\ edits < MaxEdits
    /\ \E n \in Completed(Len(history) + 1), p \in Patches : \E c \in DOMAIN history[n].items :
          editor' = [editor EXCEPT ![e] = [pc |-> "write", scan |-> n, items |-> history[n].items,
                                           id |-> c, patch |-> p]]
    /\ edits' = edits + 1
    /\ UNCHANGED <<hubVars, history, job>>

WriteFindings(e) ==
    /\ editor[e].pc = "write"
    /\ LET p == editor[e].patch
           old == editor[e].items[editor[e].id]
           new == [old EXCEPT !.status = IF p.status = Keep THEN @ ELSE p.status,
                              !.snooze = IF p.snooze = Keep THEN @ ELSE p.snooze]
       IN  history' = [history EXCEPT ![editor[e].scan].items =
                          [editor[e].items EXCEPT ![editor[e].id] = new]]
    /\ editor' = [editor EXCEPT ![e] = NoEdit]
    /\ UNCHANGED <<hubVars, job, edits>>

FindingsNext ==
    \/ StartJob \/ Finish \/ TellDone \/ TellCritical \/ TellDiff \/ EndJob
    \/ HubWorks \/ HubFails \/ WorkerDies
    \/ \E e \in Editors : ReadFindings(e) \/ WriteFindings(e)

(***************************************************************************)
(* Properties.                                                             *)
(***************************************************************************)
\* A problem that no completed scan of the site saw before reaches everybody who wants to hear of it and
\* every webhook, before the job of the scan is over and whatever was edited meanwhile or taken again by
\* another worker; when telling it fails the scan does not stay completed, so that the next one tells.
\* The problem is of a check with titles of its own, in a scan that nobody started by hand.
IsFirstProblem(n, c) ==
    /\ history[n].trigger # "manual"
    /\ c \in DOMAIN history[n].items \intersect Titled
    /\ c \notin ActiveIds
    /\ IsBad(history[n].items[c].severity, "medium")
    /\ \A k \in Completed(n) : c \in DOMAIN history[k].items => history[k].items[c].severity = "info"

AlertReachesTeam ==
    \A n \in Completed(Len(history) + 1) :
        (job.scan # n /\ \E c \in DOMAIN history[n].items : IsFirstProblem(n, c))
            => /\ \A u \in wanted : <<<<"scan_diff", n>>, u>> \in rows
               /\ \A w \in Hooks : <<<<"scan_diff", n>>, w>> \in outbox

\* A finding is shown as back only when somebody dismissed that same finding in an earlier scan, and the
\* scan right before no longer has it as dismissed: it was gone, or opened again.
RegressedWasDismissed ==
    [][job.pc = "finish" /\ job'.pc = "scan_done" =>
        LET n   == job.scan
            now == history'[n].items
        IN  \A c \in DOMAIN now : now[c].regressed
                 => /\ \E k \in 1..(n - 1) : Same(now, history[k].items, c) /\ Dismissed(history[k].items[c])
                    /\ ~(Same(now, Previous(n), c) /\ Dismissed(Previous(n)[c]))]_job
=============================================================================
