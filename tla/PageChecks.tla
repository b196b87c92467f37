----------------------------- MODULE PageChecks -----------------------------
(***************************************************************************)
(* The http checks that read one answer of the site: reachability, https,  *)
(* the certificate, security headers, cookies, CORS, redirects and mixed   *)
(* content, subresources, meta tags, structured data and the stack.  Each  *)
(* has the facts its extraction can find and the status it gives them.     *)
(***************************************************************************)
EXTENDS CheckKit

(* reachability.ts, https.ts *)
ReachabilityCheck(sees, F) ==
    {Result("reachability", IF sees = "unreachable" THEN "fail"
                            ELSE Verdict(FALSE, "error status" \in F))}

HttpsFacts == {{}, {"http site"}, {"http stays"}, {"http dead", "https dead"},
               {"http dead", "https error"}, {"http dead"}}

HttpsCheck(sees, F) ==
    {Result("https", IF sees # "bad url" /\ "http site" \in F THEN "info"
                     ELSE Verdict(sees = "bad url" \/ Meets(F, {"http stays", "https dead", "https error"}), FALSE))}

(* tls-cert.ts *)
TlsFlags == {"no certificate", "no dates", "not yet valid", "expired", "other host",
             "expires soon", "self-signed", "not authorized"}
TlsFacts == {F \in Few(TlsFlags, 4) : /\ "no certificate" \in F => F = {"no certificate"}
                                      /\ "expired" \in F => "expires soon" \in F}

EvaluateTlsCert(F) ==
    Verdict(Meets(F, {"no certificate", "no dates", "not yet valid", "expired", "other host"}),
            Meets(F, {"expires soon", "self-signed", "not authorized"}))

\* "http", "port", "limited", "blocked": nothing to measure; a handshake that fails or hangs is a fail.
TlsCertCheck(sees, F) ==
    {Result("tls-cert", CASE sees = "unreachable" -> "fail"
                          [] OTHER -> OnMeasured(sees, EvaluateTlsCert(F)))}

(* security-headers.ts *)
SecurityHeaders == {"csp", "hsts", "xcto", "xfo", "referrer-policy", "permissions-policy", "coop", "coep"}
HeaderId(h)     == "security-header-" \o h

\* The issues a value can have, by the severity they get; every header can also be missing.
MediumIssues == {"csp", "hsts", "xcto", "xfo", "referrer-policy", "coop"}
LowIssues    == {"csp", "hsts", "permissions-policy", "coep"}
HeaderFlags  == {<<"missing", h>> : h \in SecurityHeaders} \union {<<"medium", h>> : h \in MediumIssues}
                \union {<<"low", h>> : h \in LowIssues} \union {<<"frame-ancestors", "csp">>}
HeaderFacts  == {F \in Few(HeaderFlags, 2) :
                   \A h \in SecurityHeaders : <<"missing", h>> \in F =>
                       F \intersect ({"medium", "low", "frame-ancestors"} \X {h}) = {}}

MissingResult(h) ==
    CASE h \in {"csp", "hsts"} -> Result(HeaderId(h), "fail")
      [] h = "coep"            -> Rated(HeaderId(h), "warn", "low")
      [] OTHER                 -> Result(HeaderId(h), "warn")

EvaluateSecurityHeader(h, F) ==
    IF h = "xfo" /\ <<"frame-ancestors", "csp">> \in F THEN Result(HeaderId(h), "info")
    ELSE IF <<"missing", h>> \in F THEN MissingResult(h)
    ELSE IF <<"medium", h>> \in F THEN Rated(HeaderId(h), "warn", "medium")
    ELSE IF <<"low", h>> \in F THEN Rated(HeaderId(h), "warn", "low")
    ELSE Result(HeaderId(h), "pass")

SecurityHeadersCheck(sees, F) ==
    {IF sees = "ok" THEN EvaluateSecurityHeader(h, F) ELSE Result(HeaderId(h), "info")
       : h \in SecurityHeaders}

(* cookies.ts: F is the set of the cookies, each the set of what is the case with it. *)
CookieFlags == {"session", "no httponly", "no secure", "no samesite", "samesite none", "bad prefix", "persistent"}
Cookies     == {C \in Few(CookieFlags, 3) : {"no samesite", "samesite none"} \notin SUBSET C}
CookieFacts == {{}} \union {{C} : C \in Cookies}
               \union {{{"session", "no httponly"}, C} : C \in {D \in Cookies : "session" \notin D}}
CookieIds   == {"cookie-httponly", "cookie-secure", "cookie-samesite", "cookie-prefixes", "cookie-expiry"}

EvaluateCookies(F) ==
    LET With(S)     == {C \in F : S \subseteq C}
        Issue(S)    == With(S) # {}
        Theft(S)    == IF Issue(S \union {"session"}) THEN "high" ELSE "medium"
        Offends(id, offends, sev) == IF offends THEN Rated(id, "warn", sev) ELSE Result(id, "pass")
    IN  {Offends("cookie-httponly", Issue({"no httponly"}), Theft({"no httponly"})),
         Offends("cookie-secure", Issue({"no secure"}), Theft({"no secure"})),
         IF Issue({"samesite none", "no secure"})
         THEN Rated("cookie-samesite", "fail", "high")
         ELSE Offends("cookie-samesite", Issue({"no samesite"}), "medium"),
         Offends("cookie-prefixes", Issue({"bad prefix"}), "low"),
         Offends("cookie-expiry", Issue({"session", "persistent"}), "low")}

CookiesCheck(sees, F) ==
    IF sees = "ok" THEN EvaluateCookies(F) ELSE {Result(id, "info") : id \in CookieIds}

(* cors.ts: what Access-Control-Allow-Origin answers a strange origin. *)
CorsFacts == {{}, {"credentials"}} \union {{o} \union c : o \in {"echoes origin", "echoes null", "any origin"},
                                                          c \in {{}, {"credentials"}}}

EvaluateCors(F) ==
    IF "echoes origin" \in F THEN Verdict("credentials" \in F, TRUE)
    ELSE IF "echoes null" \in F THEN "warn"
    ELSE IF "any origin" \in F THEN IF "credentials" \in F THEN "warn" ELSE "info"
    ELSE "pass"

CorsCheck(sees, F) == {Result("cors", OnMeasured(sees, EvaluateCors(F)))}

(* redirects-mixed.ts *)
RedirectFlags == {"mixed content", "final not https"}
\* Mixed content is only looked for on a page that came over https.
RedirectFacts == SUBSET RedirectFlags \ {RedirectFlags}
EvaluateRedirectsMixed(F) == Verdict("mixed content" \in F, "final not https" \in F)
RedirectsMixedCheck(sees, F) ==
    {Result("redirects-mixed", IF sees = "unreachable" THEN "fail" ELSE EvaluateRedirectsMixed(F))}

(* subresources.ts: scripts and styles of another origin without integrity. *)
SubresourceFacts == SUBSET {"no integrity"}
EvaluateSubresources(F) == Verdict(FALSE, "no integrity" \in F)
SubresourcesCheck(sees, F) ==
    {Result("subresources", OnHtml(sees, "fail", "info", EvaluateSubresources(F)))}

(* meta-tags.ts *)
MetaTagsFacts == SUBSET {"no title", "no description", "no canonical"}
EvaluateMetaTags(F) == Verdict("no title" \in F, Meets(F, {"no description", "no canonical"}))
MetaTagsCheck(sees, F) == {Result("meta-tags", OnHtml(sees, "fail", "warn", EvaluateMetaTags(F)))}

(* structured-data.ts: without blocks nothing else can be wrong with them. *)
StructuredDataFacts ==
    {{"no blocks"}} \union {F \in SUBSET {"invalid block", "no types", "unknown type"} :
                              ~({"no types", "unknown type"} \subseteq F)}
EvaluateStructuredData(F) ==
    Verdict("invalid block" \in F, Meets(F, {"no blocks", "no types", "unknown type"}))
StructuredDataCheck(sees, F) ==
    {Result("structured-data", OnHtml(sees, "fail", "info", EvaluateStructuredData(F)))}

(* stack-detection.ts: "no stack" is no trouble, only nothing to say. *)
StackFacts == SUBSET {"no stack"}
EvaluateStackDetection(F) == IF "no stack" \in F THEN "info" ELSE "pass"
StackDetectionCheck(sees, F) ==
    {Result("stack-detection", IF sees = "unreachable" THEN "warn" ELSE EvaluateStackDetection(F))}
=============================================================================
