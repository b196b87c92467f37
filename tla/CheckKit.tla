------------------------------ MODULE CheckKit ------------------------------
(***************************************************************************)
(* What the checks of apps/worker/src/checks have in common.  A check sees *)
(* its target or it does not (Sights), finds a set of facts about it, and  *)
(* turns them into results.  A fact is named for what is the case ("no     *)
(* title"); the text it was read from is left out.  Most facts are         *)
(* trouble; the ones that are not are listed by the module that uses them. *)
(*                                                                         *)
(* Severities: a result that names none gets that of its status            *)
(* (SEVERITY_BY_STATUS of packages/shared/src/findings.ts).                *)
(***************************************************************************)
EXTENDS Integers, Sequences, FiniteSets, FiniteSetsExt

Statuses   == {"pass", "info", "warn", "fail"}
Severities == {"info", "low", "medium", "high", "critical"}

SeverityRank == [info |-> 0, low |-> 1, medium |-> 2, high |-> 3, critical |-> 4]
StatusRank   == [pass |-> 0, info |-> 0, warn |-> 1, fail |-> 2]

SeverityByStatus == [pass |-> "info", info |-> "info", warn |-> "medium", fail |-> "high"]

\* One InlineCheckLike.
Rated(id, status, severity) == [id |-> id, status |-> status, severity |-> severity]
Result(id, status)          == Rated(id, status, SeverityByStatus[status])

Verdict(fail, warn) == IF fail THEN "fail" ELSE IF warn THEN "warn" ELSE "pass"

Meets(F, S)   == F \intersect S # {}
Few(S, n)     == {{}} \union {{f[i] : i \in 1..n} : f \in [1..n -> S]}   \* at most n of S
Worst(sevs) == IF sevs = {} THEN "info"
               ELSE CHOOSE s \in sevs : \A t \in sevs : SeverityRank[t] <= SeverityRank[s]

(***************************************************************************)
(* assertOutboundAllowed and fetchPage: the hops of one fetch, each        *)
(* guarded, at most MaxRedirects of them followed.  A hop is what one      *)
(* request meets; the body is read after the timer of the fetch is gone,   *)
(* up to a number of bytes, beyond which reading it fails ("error").       *)
(***************************************************************************)
Hops == {"blocked", "dns-failure", "timeout", "redirect", "page"}

Fetch(hops, maxRedirects) ==
    LET end == CHOOSE i \in 1..Len(hops) : /\ hops[i] # "redirect" \/ i = Len(hops)
                                           /\ \A j \in 1..(i - 1) : hops[j] = "redirect"
    IN  IF end - 1 > maxRedirects \/ hops[end] # "page" THEN "unreachable" ELSE "ok"

\* A check of one page: what it answers when the page is not there or is not HTML.
OnHtml(sees, unreachable, notHtml, status) ==
    CASE sees = "unreachable" -> unreachable
      [] sees = "not html"    -> notHtml
      [] OTHER                -> status

\* A check that asks for permission first and says "info" whenever it could not measure.
OnMeasured(sees, status) == IF sees = "ok" THEN status ELSE "info"

HtmlSights == {"ok", "unreachable", "not html"}
PageSights == {"ok", "unreachable"}
=============================================================================
