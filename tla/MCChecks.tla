------------------------------ MODULE MCChecks -------------------------------
(***************************************************************************)
(* The checks, for TLC.  The workers run them side by side and they share  *)
(* no state, so a behaviour here follows one of them: focus says which.    *)
(* What holds of all of them is stated once, over whatever the one in      *)
(* focus reports.                                                          *)
(***************************************************************************)
EXTENDS CheckRun, BundleScan, BaasScan, ActiveTests, AuthFlow, UploadFlow, RepoScan

VARIABLE focus

vars == <<focus, runVars, bundleVars, baasVars, activeVars, burstVars, authVars, uploadVars, repoVars>>

Areas == {"page", "bundles", "baas", "active", "burst", "auth", "upload", "repo"}

(* Values of the constants.                                                *)
MCTexts     == {{}, {<<"live key", 1>>}, {<<"test key", 1>>, <<"jwt anon", 1>>}, {<<"plain token", 1>>, <<"live key", 2>>}}
MCSites     == {<<>>, <<"supabase">>, <<"supabase", "rtdb and bucket">>, <<"rtdb", "bucket", "rtdb", "convex">>,
                <<"rtdb and bucket", "rtdb and bucket", "convex">>}
MCPayloads  == [t \in {"debug-endpoints", "sqli-probe", "xss-probe", "open-redirect-probe", "idor-probe",
                       "input-validation", "graphql-introspection"} |->
                  IF t = "debug-endpoints" THEN 6 ELSE IF t \in {"open-redirect-probe", "graphql-introspection"} THEN 2 ELSE 3]
MCPages     == {[params |-> 0, redirects |-> 0, ids |-> 0], [params |-> 2, redirects |-> 1, ids |-> 1]}
MCAuthSites == {SiteOf({}, Never, Never, FALSE, TRUE), SiteOf({"login", "signup"}, 3, Never, FALSE, TRUE),
                SiteOf({"login", "reset"}, Never, 5, FALSE, FALSE), SiteOf({"login", "signup", "reset"}, 2, Never, TRUE, FALSE)}
MCUploads   == <<[id |-> "upload-unrestricted-type", active |-> TRUE],
                 [id |-> "upload-unrestricted-type", active |-> TRUE],
                 [id |-> "upload-content-sniff", active |-> TRUE],
                 [id |-> "upload-size-limit", active |-> FALSE]>>

\* The check in focus starts from any of its initial states, the others from one.
RunFixed    == check = "https" /\ sight = "not scanned" /\ facts = {} /\ rows = {}
AuthFixed   == AuthInit /\ site = SiteOf({}, Never, Never, FALSE, TRUE)
RepoFixed   == RepoInit /\ tool = "semgrep" /\ ~token

Init == /\ focus \in Areas
        /\ IF focus = "page" THEN RunInit ELSE RunFixed
        /\ BundleInit /\ BaasInit /\ ActiveInit /\ BurstInit /\ UploadInit
        /\ IF focus = "auth" THEN AuthInit ELSE AuthFixed
        /\ IF focus = "repo" THEN RepoInit ELSE RepoFixed

OnPage    == /\ focus = "page" /\ RunNext
             /\ UNCHANGED <<focus, bundleVars, baasVars, activeVars, burstVars, authVars, uploadVars, repoVars>>
OnBundles == /\ focus = "bundles" /\ BundleNext
             /\ UNCHANGED <<focus, runVars, baasVars, activeVars, burstVars, authVars, uploadVars, repoVars>>
OnBaas    == /\ focus = "baas" /\ BaasNext
             /\ UNCHANGED <<focus, runVars, bundleVars, activeVars, burstVars, authVars, uploadVars, repoVars>>
OnActive  == /\ focus = "active" /\ ActiveNext
             /\ UNCHANGED <<focus, runVars, bundleVars, baasVars, burstVars, authVars, uploadVars, repoVars>>
OnBurst   == /\ focus = "burst" /\ BurstNext
             /\ UNCHANGED <<focus, runVars, bundleVars, baasVars, activeVars, authVars, uploadVars, repoVars>>
OnAuth    == /\ focus = "auth" /\ AuthNext
             /\ UNCHANGED <<focus, runVars, bundleVars, baasVars, activeVars, burstVars, uploadVars, repoVars>>
OnUpload  == /\ focus = "upload" /\ UploadNext
             /\ UNCHANGED <<focus, runVars, bundleVars, baasVars, activeVars, burstVars, authVars, repoVars>>
OnRepo    == /\ focus = "repo" /\ RepoNext
             /\ UNCHANGED <<focus, runVars, bundleVars, baasVars, activeVars, burstVars, authVars, uploadVars>>

Next == OnPage \/ OnBundles \/ OnBaas \/ OnActive \/ OnBurst \/ OnAuth \/ OnUpload \/ OnRepo
Spec == Init /\ [][Next]_vars

(***************************************************************************)
(* Properties of the runs.                                                 *)
(***************************************************************************)
IdsOf(results) == {r.id : r \in results}

\* Whatever a check meets, once it is over its rows are the ones the registry counts the progress by: each
\* of them, once, and no other.  Two exceptions: the active tests of a page that cannot be fetched write a
\* row of their own, and baas-security writes only rows of the platforms it found.
RowsAsRegistered ==
    /\ rows # {} => IdsOf(rows) = OutputCheckIds(check)
    /\ bundleStep = "done" => IdsOf(bundleRow) = OutputCheckIds("secrets-in-bundles")
    /\ IdsOf(baasRow) \subseteq OutputCheckIds("baas-security")
    /\ testNo = Over => \/ IdsOf(testRows) \union {"rate-limit-burst"} = OutputCheckIds("active-tests")
                        \/ IdsOf(testRows) = {"active-tests"}
    /\ authRows # {} => IdsOf(authRows) = OutputCheckIds("auth-flow") /\ Cardinality(authRows) = 7
    /\ uploadStep = "done" => IdsOf(uploadRows) = OutputCheckIds("upload-scan") /\ Cardinality(uploadRows) = 5
    /\ repoStep = "done" => IdsOf(repoRows) = OutputCheckIds(tool)

\* No check says "pass" of something it has not looked at.  (A report of a tool that cannot be read, a
\* library OSV was not asked about and two kinds of source map are the exceptions the code makes.)
NothingUnseenPasses ==
    /\ sight \notin {"ok", "not scanned", "osv limited"} => \A r \in rows : r.status # "pass"
    /\ BundlesPassHonestly
    /\ BurstPassesForALimit
    /\ AuthJudgedOnSight
    /\ ToolPassesOnRun

\* What a check knows of a page that is good news, or the lack of something that would have been judged.
GoodNews(c) ==
    CASE c = "threat-intel"     -> {Edge}
      [] c = "security-headers" -> {<<"frame-ancestors", "csp">>}
      [] c = "dns-email"        -> {"no mx", "rua"}
      [] c = "robots-sitemap"   -> {"no sitemap directive"}
      [] c = "hosting-security" -> {"unknown platform"}
      [] c = "waf-resilience"   -> {"answered 429"}
      [] OTHER                  -> {}
LooksBetter(before, after) ==
    \E r \in before, q \in after :
        /\ r.id = q.id
        /\ \/ StatusRank[q.status] < StatusRank[r.status]
           \/ q.status = r.status /\ SeverityRank[q.severity] < SeverityRank[r.severity]
MoreTrouble == facts \subseteq facts' /\ ~Meets(facts' \ facts, GoodNews(check))

\* A site on which something more is wrong than at the scan before never gets a better row for it.
MoreTroubleNeverLooksBetter ==
    [][sight = "ok" /\ sight' = "ok" /\ check # "domain-watchtower" /\ MoreTrouble
          => ~LooksBetter(rows, rows')]_vars

\* What a check found on its way is in its rows at the end, whatever it met after that.
FindingsAreReported == SecretsAreReported /\ OpenIsReported /\ TestsSayOneThing /\ StoredIsReported

\* The limits a check sets itself hold: requests to the projects of a site, secrets in one row, but for the
\* one secret more that a script adds which is read after a source map has filled the row.
LimitsHold == BudgetHolds /\ Cardinality(matches) <= MaxMatches + 1

\* A flow does not stand in its own way, and leaves nothing of a repository behind.
FlowsClearUp == SessionSeenBeforeBurst /\ NothingLeftOnDisk
=============================================================================
