---------------------------- MODULE BrowserChecks ----------------------------
(***************************************************************************)
(* The checks of the browser queue that only watch a page being loaded.    *)
(* Each opens a browser of its own through a capture of                    *)
(* playwright-runner.ts, which either tells what the page did or fails;    *)
(* the facts of a check are what its capture can hold.                     *)
(***************************************************************************)
EXTENDS LeakChecks

\* limited, or the capture failed: "warn".
OnCaptured(sees, status) == IF sees = "ok" THEN status ELSE "warn"

(* core-web-vitals: a metric the page never reported is "unknown", which is no trouble. *)
Metrics == {"lcp", "cls", "inp"}
RateMetric(m, v) ==
    LET good == CASE m = "lcp" -> 2500 [] m = "cls" -> 100 [] OTHER -> 200    \* cls in thousandths
        poor == CASE m = "lcp" -> 4000 [] m = "cls" -> 250 [] OTHER -> 500
    IN  IF v < 0 THEN "unknown" ELSE IF v <= good THEN "good" ELSE IF v > poor THEN "poor" ELSE "needs improvement"
CaptureVitals == [Metrics -> {-1, 0, 100, 101, 201, 251, 501, 2501, 4001}]
VitalsFacts   == {{RateMetric(m, v[m]) : m \in Metrics} \ {"good"} : v \in CaptureVitals}
CwvOverall(F) == Verdict("poor" \in F, "needs improvement" \in F)
VitalsCheck(sees, F) == {Result("core-web-vitals", OnCaptured(sees, CwvOverall(F)))}

(* accessibility: what axe reports; a violation without impact is "minor". *)
Impacts == {"critical", "serious", "moderate", "minor"}
ParseAxe(violations) == {IF v = "no impact" THEN "minor" ELSE v : v \in violations}
AxeFacts == {ParseAxe(violations) : violations \in SUBSET (Impacts \union {"no impact"})}
AxeOverall(F) == Verdict(Meets(F, {"critical", "serious"}), Meets(F, {"moderate", "minor"}))
AccessibilityCheck(sees, F) == {Result("accessibility", OnCaptured(sees, AxeOverall(F)))}

(* console-errors: messages, and the requests that failed or were refused. *)
Messages == {"error", "warning", "log", "page error"}
Requests == {200, 301, 404, 429, 500, 0}        \* 0: no answer
NormalizeConsole(m)  == IF m = "page error" THEN "error" ELSE m
RequestFailures(rs)  == {r \in rs : r = 0 \/ r >= 400}
CaptureConsole(ms, rs) ==
    ({NormalizeConsole(m) : m \in ms} \intersect {"error", "warning"})
    \union {IF r = 0 \/ r >= 500 THEN "network failure" ELSE "client error" : r \in RequestFailures(rs)}
ConsoleFacts == {CaptureConsole(ms, rs) : ms \in SUBSET Messages, rs \in Few(Requests, 3)}
ConsoleOverall(F) == Verdict(Meets(F, {"error", "network failure"}), Meets(F, {"warning", "client error"}))
ConsoleCheck(sees, F) == {Result("console-errors", OnCaptured(sees, ConsoleOverall(F)))}

(* mobile-responsive: two viewports; overflow of up to 8 pixels on mobile is let pass. *)
Overflows == {0, 1, 8, 9}
TapTargets == {<<0, 30>>, <<23, 40>>, <<24, 24>>}
ParseTapTargets(ts) == {t \in ts : t[1] > 0 /\ t[2] > 0 /\ (t[1] < 24 \/ t[2] < 24)}
CaptureResponsive(mobile, desktop, ts) ==
    {f \in {"mobile scroll", "desktop scroll", "small tap target"} :
        CASE f = "mobile scroll"  -> mobile > 8
          [] f = "desktop scroll" -> desktop > 0
          [] OTHER                -> ParseTapTargets(ts) # {}}
ResponsiveFacts == {CaptureResponsive(m, d, ts) : m, d \in Overflows, ts \in SUBSET TapTargets}
ResponsiveOverall(F) == Verdict("mobile scroll" \in F, Meets(F, {"small tap target", "desktop scroll"}))
ResponsiveCheck(sees, F) == {Result("mobile-responsive", OnCaptured(sees, ResponsiveOverall(F)))}

(* aeo-scan: the text of the server's HTML against that of the rendered page. *)
Lengths == {0, 1, 99, 100, 300, 499, 500, 1000, 4999}
TextRatio10(server, rendered) ==        \* in tenths, rounded
    LET d == IF server > 1 THEN server ELSE 1 IN (rendered * 20 + d) \div (2 * d)
CaptureRender(server, rendered, heads) ==
    (IF server < 100 /\ rendered >= 500 THEN {"empty without js"} ELSE {})
    \union (IF server > 0 /\ TextRatio10(server, rendered) >= 100 THEN {"ratio fail"} ELSE {})
    \union (IF TextRatio10(server, rendered) >= 30 THEN {"ratio warn"} ELSE {})
    \union heads
RenderFacts == {CaptureRender(s, r, heads) : s, r \in Lengths,
                heads \in SUBSET {"heading by js", "title by js", "description by js"}}
RenderOverall(F) == Verdict(Meets(F, {"empty without js", "ratio fail"}), F # {})
AeoRenderCheck(sees, F) == {Result("aeo-scan", OnCaptured(sees, RenderOverall(F)))}

(* browser-storage: what local and session storage hold once the page is loaded.           *)
(* A value is a token of LeakChecks, a JWT by the days it lives on (-1: no exp), or plain. *)
Kept == [token : {"live key", "jwt service role", "jwt anon", "aws key", "none"},
         jwt   : {-2, -1, 0, 30, 31},       \* -2: no JWT
         key   : {"session name", "other name"}]
ClassifyStorage(e) ==
    IF ExtractBundleSecrets({e.token} \ {"none"}) # {} THEN "secret"
    ELSE IF e.jwt # -2 THEN "jwt"
    ELSE IF e.key = "session name" THEN "session-token"
    ELSE "other"
StorageSeverity(e) ==
    CASE ClassifyStorage(e) = "secret" -> IF SeverityForKeyType(e.token) = "critical" THEN "critical" ELSE "high"
      [] ClassifyStorage(e) = "jwt"    -> IF e.jwt = -1 \/ e.jwt > 30 THEN "medium" ELSE "low"
      [] ClassifyStorage(e) = "session-token" -> "low"
      [] OTHER                         -> "info"
StorageFacts == {{StorageSeverity(e) : e \in es} : es \in Few(Kept, 2)}
StorageCheck(sees, F) ==
    {IF sees # "ok" \/ F = {} THEN Result("browser-storage", "info")
     ELSE Rated("browser-storage", IF Meets(F, {"critical", "high"}) THEN "fail"
                                   ELSE IF Meets(F, {"medium", "low"}) THEN "warn" ELSE "info", Worst(F))}
=============================================================================
