------------------------------ MODULE CheckRun -------------------------------
(***************************************************************************)
(* One check that measures a site again and again: the site changes in any *)
(* way between two scans (its facts, and whether it can be seen at all),   *)
(* and every scan judges what it sees then (CheckImplementation.run of     *)
(* apps/worker/src/checks/types.ts).  The checks with a course of their    *)
(* own, which send many requests, are modules of their own.                *)
(***************************************************************************)
EXTENDS CheckRegistry

VARIABLES check,        \* the check, one of Judged
          sight, facts, \* what the last scan saw
          rows          \* what it reported

runVars == <<check, sight, facts, rows>>

Judged == (UNION {Registry[q] : q \in DOMAIN Registry})
          \ {"secrets-in-bundles", "active-tests", "baas-security", "auth-flow", "upload-scan"}

\* By check, what it can see of the page, beside "ok".
BlindSights(c) ==
    CASE c = "https"             -> {"bad url"}
      [] c = "tls-cert"          -> {"http", "port", "limited", "blocked", "unreachable"}
      [] c \in {"domain-watchtower", "dns-email", "subdomain-takeover", "threat-intel",
                "security-headers", "cookies", "cors", "secrets-in-html", "compliance", "core-web-vitals",
                "accessibility", "console-errors", "mobile-responsive", "aeo-scan", "browser-storage"}
                                 -> {"limited", "unreachable"}
      [] c \in {"meta-tags", "structured-data", "subresources"} -> {"unreachable", "not html"}
      [] c = "mini-crawl"        -> {"limited", "unreachable", "not html"}
      [] c = "client-deps-cve"   -> {"osv limited", "unreachable", "not html"}
      [] c \in {"robots-sitemap", "client-deps-runtime"} -> {"limited", "unreachable"}
      [] c = "aeo-engine-matrix" -> {"limited"}
      [] c = "crux-field-data"   -> {"no key"}
      [] c = "repo-health"       -> {"no repository", "not found", "unreachable"}
      [] c \in {"semgrep", "gitleaks", "osv-scanner"} -> {"no repository", "not cloned", "tool failed"}
      [] OTHER                   -> {"unreachable"}

FactsOf(c) ==
    CASE c = "reachability"        -> SUBSET {"error status"}
      [] c = "https"               -> HttpsFacts
      [] c = "tls-cert"            -> TlsFacts
      [] c = "security-headers"    -> HeaderFacts
      [] c = "cookies"             -> CookieFacts
      [] c = "cors"                -> CorsFacts
      [] c = "redirects-mixed"     -> RedirectFacts
      [] c = "subresources"        -> SubresourceFacts
      [] c = "meta-tags"           -> MetaTagsFacts
      [] c = "structured-data"     -> StructuredDataFacts
      [] c = "stack-detection"     -> StackFacts
      [] c = "security-txt"        -> SecurityTxtFacts
      [] c = "robots-sitemap"      -> RobotsSitemapFacts
      [] c = "mini-crawl"          -> MiniCrawlFacts
      [] c = "compliance"          -> ComplianceFacts
      [] c = "hosting-security"    -> HostingFacts
      [] c = "waf-resilience"      -> WafFacts
      [] c = "observability-signals" -> ObservabilityFacts
      [] c = "crux-field-data"     -> CruxFacts
      [] c = "aeo-engine-matrix"   -> AeoFacts
      [] c = "domain-watchtower"   -> DomainFacts
      [] c = "dns-email"           -> EmailFacts
      [] c = "subdomain-takeover"  -> TakeoverFacts
      [] c = "threat-intel"        -> ThreatFacts
      [] c = "secrets-in-html"     -> HtmlSecretFacts
      [] c = "client-deps-cve"     -> ClientDepsFacts
      [] c = "client-deps-runtime" -> RuntimeDepsFacts
      [] c = "core-web-vitals"     -> VitalsFacts
      [] c = "accessibility"       -> AxeFacts
      [] c = "console-errors"      -> ConsoleFacts
      [] c = "mobile-responsive"   -> ResponsiveFacts
      [] c = "aeo-scan"            -> RenderFacts
      [] c = "browser-storage"     -> StorageFacts
      [] c = "repo-health"         -> RepoHealthFacts
      [] OTHER                     -> ToolFacts(c)

Judge(c, sees, F) ==
    CASE c = "reachability"        -> ReachabilityCheck(sees, F)
      [] c = "https"               -> HttpsCheck(sees, F)
      [] c = "tls-cert"            -> TlsCertCheck(sees, F)
      [] c = "security-headers"    -> SecurityHeadersCheck(sees, F)
      [] c = "cookies"             -> CookiesCheck(sees, F)
      [] c = "cors"                -> CorsCheck(sees, F)
      [] c = "redirects-mixed"     -> RedirectsMixedCheck(sees, F)
      [] c = "subresources"        -> SubresourcesCheck(sees, F)
      [] c = "meta-tags"           -> MetaTagsCheck(sees, F)
      [] c = "structured-data"     -> StructuredDataCheck(sees, F)
      [] c = "stack-detection"     -> StackDetectionCheck(sees, F)
      [] c = "security-txt"        -> SecurityTxtCheck(sees, F)
      [] c = "robots-sitemap"      -> RobotsSitemapCheck(sees, F)
      [] c = "mini-crawl"          -> MiniCrawlCheck(sees, F)
      [] c = "compliance"          -> ComplianceCheck(sees, F)
      [] c = "hosting-security"    -> HostingCheck(sees, F)
      [] c = "waf-resilience"      -> WafCheck(sees, F)
      [] c = "observability-signals" -> ObservabilityCheck(sees, F)
      [] c = "crux-field-data"     -> CruxCheck(sees, F)
      [] c = "aeo-engine-matrix"   -> AeoMatrixCheck(sees, F)
      [] c = "domain-watchtower"   -> DomainWatchtowerCheck(sees, F)
      [] c = "dns-email"           -> DnsEmailCheck(sees, F)
      [] c = "subdomain-takeover"  -> SubdomainTakeoverCheck(sees, F)
      [] c = "threat-intel"        -> ThreatIntelCheck(sees, F)
      [] c = "secrets-in-html"     -> HtmlSecretsCheck(sees, F)
      [] c = "client-deps-cve"     -> ClientDepsCheck(sees, F)
      [] c = "client-deps-runtime" -> RuntimeDepsCheck(sees, F)
      [] c = "core-web-vitals"     -> VitalsCheck(sees, F)
      [] c = "accessibility"       -> AccessibilityCheck(sees, F)
      [] c = "console-errors"      -> ConsoleCheck(sees, F)
      [] c = "mobile-responsive"   -> ResponsiveCheck(sees, F)
      [] c = "aeo-scan"            -> AeoRenderCheck(sees, F)
      [] c = "browser-storage"     -> StorageCheck(sees, F)
      [] c = "repo-health"         -> RepoHealthCheck(sees, F)
      [] c = "semgrep"             -> SemgrepCheck(sees, F)
      [] c = "gitleaks"            -> GitleaksCheck(sees, F)
      [] OTHER                     -> OsvScannerCheck(sees, F)

Scanned(c, sees, F) == /\ check' = c /\ sight' = sees /\ facts' = F
                       /\ rows' = Judge(c, sees, F)

RunInit == \E c \in Judged : /\ check = c /\ sight = "not scanned" /\ rows = {}
                             /\ facts \in FactsOf(c)

\* The site can be seen; what is the case with it is anything the check can find.
ScanSeen  == \E F \in FactsOf(check) : Scanned(check, "ok", F)
\* It cannot, for one of the reasons the check tells apart.
ScanBlind == \E s \in BlindSights(check) : Scanned(check, s, facts)

RunNext == ScanSeen \/ ScanBlind
=============================================================================
