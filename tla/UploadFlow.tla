----------------------------- MODULE UploadFlow ------------------------------
(***************************************************************************)
(* upload-scan: a browser uploads harmless files, canaries, through every  *)
(* upload form it finds, looks whether they are stored and can be fetched, *)
(* and deletes them where the site lets it (apps/worker/src/checks/browser:*)
(* file-upload.ts, and runUploadFlowCapture of playwright-runner.ts).      *)
(***************************************************************************)
EXTENDS CheckRegistry

CONSTANTS UploadProbes,     \* UPLOAD_PROBES: a sequence of [id, active]
          MaxUploadForms    \* MAX_UPLOAD_FORMS

VARIABLES uploadStep,       \* "start", "probe" or "done"
          uploadForms,      \* the number of forms found, public ones first
          restricted,       \* whether a form has an accept attribute
          canary,           \* the number of the canary: forms times probes
          worst,            \* by id, the worst outcome so far and its canary
          leftoverFiles,    \* leftover_files, canaries by number
          stored,           \* canaries seen stored, a history variable
          uploadRows        \* the findings, with the leftover each one names

uploadVars == <<uploadStep, uploadForms, restricted, canary, worst, leftoverFiles, stored, uploadRows>>

NoOutcome == [severity |-> "none", canary |-> 0, told |-> 0]
Nothing   == [id \in UploadIds |-> NoOutcome]

UploadInit == /\ uploadStep = "start" /\ uploadForms = 0 /\ restricted = FALSE /\ canary = 1
              /\ worst = Nothing /\ leftoverFiles = {} /\ stored = {} /\ uploadRows = {}

UploadRow(id, status, severity, told) == [id |-> id, status |-> status, severity |-> severity, told |-> told]
InfoRows == {UploadRow(id, "info", "info", 0) : id \in UploadIds}

\* createFileUploadCheck, discoverUploadForms, loginForUploadDiscovery: ownership and the limit first;
\* forms behind a login only when the account gets in; forms of another origin do not count.
DiscoverUploads ==
    /\ uploadStep = "start"
    /\ \/ uploadStep' = "done" /\ uploadRows' = InfoRows /\ UNCHANGED <<uploadForms, restricted>>
       \/ \E public \in 0..MaxUploadForms, behindLogin \in 0..1, accept \in BOOLEAN :
            /\ uploadForms' = Min({public + behindLogin, MaxUploadForms})
            /\ restricted' = accept
            /\ uploadStep' = IF uploadForms' = 0 THEN "done" ELSE "probe"
            /\ uploadRows' = IF uploadForms' = 0 THEN InfoRows ELSE {}
    /\ UNCHANGED <<canary, worst, leftoverFiles, stored>>

Canaries  == uploadForms * Len(UploadProbes)
ProbeOf(c) == UploadProbes[((c - 1) % Len(UploadProbes)) + 1]

\* UploadProbeResult.  A page, form or script that would send the canary to another origin is refused
\* before anything leaves (installUploadOriginGuard), which looks like an upload the site refused.
Observations == {o \in [accepted: BOOLEAN, url: BOOLEAN, retrieved: BOOLEAN, executed: BOOLEAN, cleaned: BOOLEAN] :
                    /\ o.retrieved \/ o.cleaned => o.url
                    /\ o.executed => o.retrieved}

\* classifyUploadOutcome
Classify(o, id, active) ==
    LET isStored == o.accepted /\ o.url
    IN  IF ~isStored THEN "info"
        ELSE IF o.executed \/ (o.retrieved /\ active /\ id = "upload-content-sniff") THEN "high"
        ELSE IF restricted /\ active THEN "low" ELSE "medium"

\* relevantProbes: the canaries of an id; those that were executed also count for upload-executable.
Relevant(o, probe) == {probe.id} \union (IF probe.active /\ o.executed THEN {"upload-executable"} ELSE {})

\* findingFor keeps the first of the worst.
Worse_Last(old, o, id, probe) ==           \* wrong: the last one, whatever it is
    [severity |-> Classify(o, id, probe.active), canary |-> canary, told |-> IF o.url /\ ~o.cleaned THEN canary ELSE 0]
Worse(old, o, id, probe) ==
    LET severity == Classify(o, id, probe.active)
    IN  IF old.severity = "none" \/ SeverityRank[severity] > SeverityRank[old.severity]
        THEN [severity |-> severity, canary |-> canary, told |-> IF o.url /\ ~o.cleaned THEN canary ELSE 0]
        ELSE old

UploadProbe ==
    /\ uploadStep = "probe" /\ canary <= Canaries
    /\ \E o \in Observations :
         LET probe == ProbeOf(canary)
         IN  /\ worst' = [id \in UploadIds |-> IF id \in Relevant(o, probe) THEN Worse(worst[id], o, id, probe) ELSE worst[id]]
             /\ leftoverFiles' = IF o.url /\ ~o.cleaned THEN leftoverFiles \union {canary} ELSE leftoverFiles
             /\ stored' = IF o.accepted /\ o.url THEN stored \union {<<probe.id, canary>>} ELSE stored
    /\ canary' = canary + 1
    /\ UNCHANGED <<uploadStep, uploadForms, restricted, uploadRows>>

UploadStatus(severity) == CASE severity = "high" -> "fail" [] severity \in {"medium", "low"} -> "warn" [] OTHER -> "pass"
JudgeUploads ==
    /\ uploadStep = "probe" /\ canary > Canaries
    /\ uploadStep' = "done"
    /\ uploadRows' = {LET w == worst[id] IN IF w.severity = "none" THEN UploadRow(id, "info", "info", 0)
                                            ELSE UploadRow(id, UploadStatus(w.severity), w.severity, w.told) : id \in UploadIds}
    /\ UNCHANGED <<uploadForms, restricted, canary, worst, leftoverFiles, stored>>

UploadFails_NoRows ==                      \* wrong: a browser that fails leaves no rows
    /\ uploadStep = "probe"
    /\ uploadStep' = "done"
    /\ UNCHANGED <<uploadForms, restricted, canary, worst, leftoverFiles, stored, uploadRows>>
\* The browser fails: what was observed is dropped with it, and no form is left to report on.
UploadFails ==
    /\ uploadStep = "probe"
    /\ uploadStep' = "done" /\ uploadRows' = InfoRows
    /\ UNCHANGED <<uploadForms, restricted, canary, worst, leftoverFiles, stored>>

UploadNext == DiscoverUploads \/ UploadProbe \/ JudgeUploads \/ UploadFails

\* Once the scan ends in order, every canary the site stored weighs on the row of its test.
StoredIsReported ==
    uploadStep = "done" /\ uploadRows # InfoRows =>
        \A s \in stored : \A r \in uploadRows : r.id = s[1] => r.status # "pass"

(* docs/plans/78: a canary that stays behind on the site is noted in the finding. *)
LeftoversAreTold ==
    uploadStep = "done" /\ uploadRows # InfoRows =>
        \A c \in leftoverFiles : \E r \in uploadRows : r.told = c
=============================================================================
