---------------------------- MODULE SignalChecks ----------------------------
(***************************************************************************)
(* The http checks that only look for signals in headers and text: hosting *)
(* platform, WAF and rate limits, observability, the field data of CrUX,   *)
(* and whether the bots of AI engines may and can read the page.           *)
(***************************************************************************)
EXTENDS CheckKit

(* hosting-fingerprint.ts: signals count only on a platform that is recognised. *)
Platforms      == {"cloudflare", "vercel", "netlify", "unknown"}
HostingSignals == {"public cache", "origin leak", "preview url"}

\* "private" also lists the answers that set no cookie of a session.
PublicSession(marks) == {"public", "session cookie"} \subseteq marks /\ "private" \notin marks
IsPreviewUrl(platform, marks) == platform \in {"vercel", "netlify"} /\ "branch host" \in marks
FingerprintHosting(platform, marks) ==
    {s \in HostingSignals : CASE s = "public cache" -> PublicSession(marks)
                              [] s = "origin leak"  -> platform = "cloudflare" /\ "origin server" \in marks
                              [] OTHER              -> IsPreviewUrl(platform, marks)}
HostingFacts ==
    {FingerprintHosting(p, marks) \union (IF p = "unknown" THEN {"unknown platform"} ELSE {})
     : p \in Platforms, marks \in SUBSET {"public", "private", "session cookie", "origin server", "branch host"}}

EvaluateHosting(F) ==
    CASE "unknown platform" \in F -> Result("hosting-security", "info")
      [] F = {}                   -> Result("hosting-security", "pass")
      [] OTHER -> Rated("hosting-security", "warn", IF "public cache" \in F THEN "medium" ELSE "low")
HostingCheck(sees, F) ==
    {IF sees = "unreachable" THEN Result("hosting-security", "warn") ELSE EvaluateHosting(F)}

(* waf-resilience.ts: never "pass"; a single 429 also counts as a sign of limits. *)
DetectWafCdn(marks)            == IF Meets(marks, {"waf", "cdn"}) THEN {} ELSE {"no protection"}
InspectRateLimitHeaders(marks) == IF "limit headers" \in marks THEN {} ELSE {"no limits"}
WafFacts == {DetectWafCdn(marks) \union InspectRateLimitHeaders(marks) : marks \in SUBSET {"waf", "cdn", "limit headers"}}
            \union {{"answered 429"}}
EvaluateWaf(F) == IF {"no protection", "no limits"} \subseteq F THEN Rated("waf-resilience", "warn", "low")
                  ELSE Result("waf-resilience", "info")
WafCheck(sees, F) == {IF sees = "unreachable" THEN Result("waf-resilience", "warn") ELSE EvaluateWaf(F)}

(* observability.ts: one signal of any kind is enough. *)
DetectReportingHeaders(marks) == marks \intersect {"report-to", "reporting-endpoints", "nel", "csp reporting"}
DetectBeacons(marks)          == marks \intersect {"vendor"}
\* hasSecurityTxt: a second fetch, which a limit or an error answers with "no".
HasSecurityTxt(marks)         == marks \intersect {"security.txt"}
ObservabilityFacts ==
    {IF DetectReportingHeaders(marks) \union DetectBeacons(marks) \union HasSecurityTxt(marks) = {}
     THEN {"no signal"} ELSE {} : marks \in Few({"report-to", "nel", "csp reporting", "vendor", "security.txt"}, 2)}
ClassifyObservability(F)    == IF F = {} THEN "pass" ELSE "info"
ObservabilityCheck(sees, F) ==
    {Result("observability-signals", IF sees = "unreachable" THEN "info" ELSE ClassifyObservability(F))}

(* crux-field-data.ts and lib/crux.ts: what the API answers; only an answer    *)
(* about the site, data or 404, is kept in the cache.                          *)
CruxAnswers == {"data", "no data", "too many", "error"}
ParseCrux(answer)       == IF answer = "data" THEN "data" ELSE "no data"
Cached(cache, answer)   == IF cache # "none" THEN cache
                           ELSE IF answer \in {"data", "no data"} THEN answer ELSE "none"
FetchCrux(cache, answer) == IF cache # "none" THEN cache ELSE ParseCrux(answer)
CruxFacts == {IF FetchCrux(cache, answer) = "data" THEN {} ELSE {"no data"}
              : cache \in {"none", "data", "no data"}, answer \in CruxAnswers}
CruxCheck(sees, F) == {Result("crux-field-data", IF sees = "ok" /\ F = {} THEN "pass" ELSE "info")}

(***************************************************************************)
(* aeo-engine-matrix.ts.  The name of a group of robots.txt, as one bot    *)
(* reads it: the number of characters it shares with the bot's token, Star *)
(* or Stranger; an empty name counts as zero characters shared.  A rule is *)
(* the length of a pattern that matches the path, 0 for an empty one.      *)
(***************************************************************************)
Star     == -1
Stranger == -2

Group(agents, allow, disallow) == [agents |-> agents, allow |-> allow, disallow |-> disallow]
NoRules == Group({}, {}, {})

\* parseRobotsGroups: agents in a row share the rules that follow; the next agent after a rule opens a new group.
ParseRobotsGroups(lines) ==
    LET Read(groups, line) ==
            LET g == groups[Len(groups)]
            IN  IF line[1] = "agent"
                THEN IF groups # <<>> /\ g.allow \union g.disallow = {}
                     THEN [groups EXCEPT ![Len(groups)].agents = @ \union {line[2]}]
                     ELSE Append(groups, Group({line[2]}, {}, {}))
                ELSE IF groups = <<>> THEN <<Group({}, IF line[1] = "allow" THEN {line[2]} ELSE {},
                                                       IF line[1] = "disallow" THEN {line[2]} ELSE {})>>
                ELSE IF line[1] = "allow" THEN [groups EXCEPT ![Len(groups)].allow = @ \union {line[2]}]
                ELSE [groups EXCEPT ![Len(groups)].disallow = @ \union {line[2]}]
        read[n \in 0..Len(lines)] == IF n = 0 THEN <<>> ELSE Read(read[n - 1], lines[n])
    IN  read[Len(lines)]

\* robotsRulesForAgent: the longest name wins, then the first; "*" only when no name fits.
RobotsRulesForAgent(groups) ==
    LET named == {x \in (1..Len(groups)) \X (0..9) : x[2] \in groups[x[1]].agents}
        stars == {i \in 1..Len(groups) : Star \in groups[i].agents}
    IN  IF named # {} THEN groups[(CHOOSE x \in named : \A y \in named :
                                       x[2] > y[2] \/ (x[2] = y[2] /\ x[1] <= y[1]))[1]]
        ELSE IF stars # {} THEN groups[Min(stars)] ELSE NoRules

\* isPathAllowed: an empty disallow allows everything; otherwise the longest rule, allow first.
IsPathAllowed(rules) ==
    LET allow == rules.allow \ {0}
    IN  \/ 0 \in rules.disallow \/ rules.disallow = {}
        \/ allow # {} /\ Max(allow) >= Max(rules.disallow)

\* The verdicts one bot can get from robots.txt files of at most n lines.
RobotsLines       == {"agent"} \X {Star, Stranger, 0, 3} \union {"allow", "disallow"} \X {0, 1, 4}
RobotsVerdicts(n) == {IsPathAllowed(RobotsRulesForAgent(ParseRobotsGroups(lines)))
                      : lines \in UNION {[1..k -> RobotsLines] : k \in 0..n}}

Probes == {"limited", "failed", "blocked", "poor page", "good page"}
\* probeWithUa and classifyProbe; renderlessParse finds a title, a heading and enough text, or not.
ClassifyProbe(probe)   == probe \in {"poor page", "good page"}
RenderlessParse(probe) == probe = "good page"
\* buildMatrixRow
MatrixRow(allowed, probe) ==
    [reachable |-> allowed /\ ClassifyProbe(probe),
     parseable |-> allowed /\ ClassifyProbe(probe) /\ RenderlessParse(probe)]

\* llms.txt is fine when it holds a link that is a web address.
LlmsTxts == {"limited", "absent", "too large", "empty", "no web link", "web link"}
ParseLlmsTxt(body) == body = "web link"

EvaluateEngineMatrix(rows, llmsOk) ==
    IF \A i \in DOMAIN rows : ~rows[i].reachable THEN "fail"
    ELSE IF llmsOk /\ \A i \in DOMAIN rows : rows[i].parseable THEN "pass" ELSE "warn"
AeoFacts ==
    {UNION {{<<"unreachable", e>> : e \in {e \in {1, 2} : ~rows[e].reachable}},
            {<<"unreadable", e>>  : e \in {e \in {1, 2} : ~rows[e].parseable}},
            IF ParseLlmsTxt(llms) THEN {} ELSE {<<"no llms.txt", 0>>}}
     : rows \in {<<MatrixRow(a, p), MatrixRow(b, q)>> : a, b \in RobotsVerdicts(2), p, q \in Probes}, llms \in LlmsTxts}
AeoMatrixCheck(sees, F) ==
    LET rows == [e \in {1, 2} |-> [reachable |-> <<"unreachable", e>> \notin F,
                                   parseable |-> <<"unreadable", e>> \notin F]]
    IN  {Result("aeo-engine-matrix",
                IF sees = "limited" THEN "info" ELSE EvaluateEngineMatrix(rows, <<"no llms.txt", 0>> \notin F))}
=============================================================================
