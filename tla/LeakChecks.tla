----------------------------- MODULE LeakChecks ------------------------------
(***************************************************************************)
(* What a page gives away: secrets in its HTML, libraries with known       *)
(* vulnerabilities, and the patterns and severities these checks share     *)
(* with the ones over bundles and repositories.                            *)
(***************************************************************************)
EXTENDS CheckKit

(***************************************************************************)
(* bundle-secrets.ts.  A token is what one pattern matches; a JWT counts   *)
(* only when it is of Supabase, a generic token only when it looks random. *)
(***************************************************************************)
Tokens == {"live key", "jwt service role", "jwt anon", "jwt other",
           "aws key", "test key", "random token", "plain token"}

ClassifySupabaseJwt(token) == IF token = "jwt service role" THEN "critical" ELSE "low"
LooksRandom(token)         == token # "plain token"
SeverityForKeyType(token) ==
    CASE token = "live key"                        -> "critical"
      [] token \in {"jwt service role", "jwt anon"} -> ClassifySupabaseJwt(token)
      [] token = "aws key"                         -> "high"
      [] OTHER                                     -> "medium"
ExtractBundleSecrets(tokens) == {t \in tokens : LooksRandom(t) /\ t # "jwt other"}

\* How a set of matches is reported, by this check and by the one over bundles.
MatchSeverity(tokens) == Worst({SeverityForKeyType(t) : t \in tokens})
MatchStatus(tokens)   == IF SeverityRank[MatchSeverity(tokens)] >= SeverityRank["high"] THEN "fail" ELSE "warn"

(* secrets-in-html.ts: a secret shown twice counts once; below maxMatches of them. *)
Places     == {"inline script", "comment", "raw html", "style", "body of script src"}
HtmlTokens == Tokens \X Places
ScanHtmlForSecrets(found) ==
    ExtractBundleSecrets({f[1] : f \in {f \in found : f[2] \notin {"style", "body of script src"}}})
HtmlSecretFacts == {ScanHtmlForSecrets(found) : found \in Few(HtmlTokens, 2)}
HtmlSecretsCheck(sees, F) ==
    {IF sees # "ok" THEN Result("secrets-in-html", "info")
     ELSE Rated("secrets-in-html", IF F = {} THEN "pass" ELSE MatchStatus(F), MatchSeverity(F))}

(***************************************************************************)
(* sast-findings.ts and osv.ts.  A record of OSV: the number at the end of *)
(* its CVSS text (-1 when it ends otherwise) and what the database says.   *)
(***************************************************************************)
OsvScores  == {-1, 1, 4, 7, 9}
OsvNames   == {"none", "low", "medium", "high", "critical"}
OsvRecord(score, name) == [score |-> score, name |-> name]

CvssToSeverity(score) == IF score >= 9 THEN "critical" ELSE IF score >= 7 THEN "high"
                         ELSE IF score >= 4 THEN "medium" ELSE "low"
ExtractOsvSeverities(r) == (IF r.score < 0 THEN {} ELSE {CvssToSeverity(r.score)})
                           \union (IF r.name = "none" THEN {} ELSE {r.name})
NormalizeOsv(r) == LET sevs == ExtractOsvSeverities(r) IN IF sevs = {} THEN "medium" ELSE Worst(sevs)

\* fetchOsvVuln: the record behind an id, or nothing after an error; only the first ids are asked for.
FetchOsvVuln(r, answered)   == IF answered THEN r ELSE OsvRecord(-1, "none")
\* queryOsvBatch: no answer at all is no vulnerability.
QueryOsvBatch(batch, found) == IF batch = "failed" THEN {} ELSE {NormalizeOsv(f) : f \in found}

(* client-deps-cve: libraries are recognised by the address they come from. *)
Scripts == {"jsdelivr", "unpkg", "classic cdn", "own"}
DetectClientDeps(scripts) == scripts \ {"own"}
ClientDepsFacts ==
    {IF DetectClientDeps(scripts) = {} THEN {}
     ELSE {"library"} \union QueryOsvBatch(batch, found)
     : scripts \in Few(Scripts, 2), batch \in {"answered", "failed"},
       found \in Few({FetchOsvVuln(OsvRecord(score, name), answered)
                      : score \in OsvScores, name \in OsvNames, answered \in BOOLEAN}, 2)}
ClientDepsStatus(sevs) == Verdict(Meets(sevs, {"critical", "high"}), Meets(sevs, {"medium", "low"}))
ClientDepsCheck(sees, F) ==
    {Result("client-deps-cve",
            IF sees \in {"unreachable", "not html"} THEN "info"
            ELSE IF "library" \notin F THEN "pass"
            ELSE IF sees = "osv limited" THEN "warn"
            ELSE ClientDepsStatus(F))}

(* client-deps-runtime: the versions the page's globals tell, looked up the same way. *)
DetectRuntimeDeps(globals) == {g \in globals : g # "no version"}
RuntimeDepsFacts ==
    {IF DetectRuntimeDeps(globals) = {} THEN {} ELSE {"library"} \union QueryOsvBatch(batch, found)
     : globals \in Few({"jquery", "react", "no version"}, 2), batch \in {"answered", "failed"},
       found \in Few({OsvRecord(-1, name) : name \in OsvNames}, 2)}
RuntimeDepsCheck(sees, F) ==
    {Result("client-deps-runtime",
            IF sees = "limited" THEN "warn"
            ELSE IF sees = "unreachable" THEN "info"
            ELSE IF "library" \notin F THEN "pass"
            ELSE ClientDepsStatus(F))}
=============================================================================
