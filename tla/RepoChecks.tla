----------------------------- MODULE RepoChecks ------------------------------
(***************************************************************************)
(* The checks of the github queue.  repo-health asks the API of GitHub     *)
(* four questions; semgrep, gitleaks and osv-scanner each clone the        *)
(* repository and run a tool over it in a container.                       *)
(***************************************************************************)
EXTENDS CheckKit

\* parseRepoSlug: an address, an ssh form or owner/repo, none of it escaping the repository.
SlugForms == {"empty", "owner/repo", "address", "ssh", "one segment", "dot segment", "odd characters"}
ParseRepoSlug(form) == form \in {"owner/repo", "address", "ssh"}

(* repo-health.ts: answers are HTTP statuses; 0 stands for a failed fetch.     *)
Answers == {200, 404, 403, 500, 0}
LicenseSignal(named) == IF named THEN "ok" ELSE "missing"
ReadmeSignal(status) == CASE status = 200 -> "ok" [] status = 404 -> "missing" [] OTHER -> "unknown"
CiSignal(status, workflows) ==
    IF status \notin {200, 404} THEN "unknown"
    ELSE IF status = 200 /\ workflows > 0 THEN "ok" ELSE "missing"
\* Without a body ("null") the branch counts as unprotected, whatever the status.
BranchProtectionSignal(status, body) ==
    IF status \in {401, 403} THEN "unknown"
    ELSE IF status = 404 \/ body = "null" THEN "missing" ELSE "ok"
MfaSignal(branch, body) ==
    CASE branch = "unknown" -> "unknown" [] branch = "missing" -> "missing"
      [] OTHER              -> IF body = "enforce_admins" THEN "ok" ELSE "missing"

RepoHealthFacts ==
    {LET branch == BranchProtectionSignal(status, body)
         signals == [license |-> LicenseSignal(named), readme |-> ReadmeSignal(readme),
                     ci |-> CiSignal(ci, workflows), branch |-> branch, mfa |-> MfaSignal(branch, body)]
     IN  {<<n, signals[n]>> : n \in {n \in DOMAIN signals : signals[n] # "ok"}}
     : named \in BOOLEAN, readme \in {200, 404, 0}, ci \in {200, 404, 0}, workflows \in 0..1,
       status \in Answers, body \in {"null", "enforce_admins", "other rules"}}
RepoHealthOverall(F) == Verdict(<<"branch", "missing">> \in F, F # {})

\* sees: why the metadata of the repository was not read, or "ok".
RepoHealthCheck(sees, F) ==
    {Result("repo-health", IF sees = "ok" THEN RepoHealthOverall(F) ELSE Verdict(sees = "not found", TRUE))}

(* What each tool's report is worth; a report that cannot be read holds no issues. *)
SemgrepLevels == {"ERROR", "WARNING", "INFO", "unknown level"}
ParseSemgrep(levels) == {CASE l = "ERROR" -> "high" [] l = "INFO" -> "low" [] OTHER -> "medium" : l \in levels}
SemgrepStatus(sevs)  == Verdict("high" \in sevs, "medium" \in sevs)
ParseGitleaks(leaks) == {"critical" : l \in leaks}
GitleaksStatus(sevs) == Verdict(sevs # {}, FALSE)
OsvScannerStatus(sevs) == Verdict(Meets(sevs, {"critical", "high"}), Meets(sevs, {"medium", "low"}))

Tools == {"semgrep", "gitleaks", "osv-scanner"}
ToolStatus(tool, sevs) ==
    CASE tool = "semgrep"  -> SemgrepStatus(sevs)
      [] tool = "gitleaks" -> GitleaksStatus(sevs)
      [] OTHER             -> OsvScannerStatus(sevs)
ToolFacts(tool) ==
    CASE tool = "semgrep"  -> {ParseSemgrep(levels) : levels \in SUBSET SemgrepLevels}
      [] tool = "gitleaks" -> {ParseGitleaks(leaks) : leaks \in Few({1, 2}, 1)}
      [] OTHER             -> SUBSET {"low", "medium", "high", "critical"}
OnToolRun(sees, status) == IF sees = "ok" THEN status ELSE Verdict(sees = "not cloned", TRUE)
SemgrepCheck(sees, F) == {Result("semgrep", OnToolRun(sees, SemgrepStatus(F)))}
GitleaksCheck(sees, F) ==
    {IF sees = "ok" /\ F # {} THEN Rated("gitleaks", GitleaksStatus(F), "critical")
     ELSE Result("gitleaks", OnToolRun(sees, "pass"))}
OsvScannerCheck(sees, F) == {Result("osv-scanner", OnToolRun(sees, OsvScannerStatus(F)))}
=============================================================================
