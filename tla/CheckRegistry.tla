--------------------------- MODULE CheckRegistry -----------------------------
(***************************************************************************)
(* The registry of the workers (apps/worker/src/checks/registry.ts) and    *)
(* the catalogue of the site (packages/shared/src/check-catalog.ts): which *)
(* check runs in which queue, and which rows it writes.                    *)
(***************************************************************************)
EXTENDS PageChecks, SiteChecks, SignalChecks, DomainChecks, BrowserChecks, RepoChecks

AuthFlowIds == {"auth-transport", "auth-csrf", "auth-user-enumeration", "auth-rate-limit",
                "auth-password-policy", "auth-session-security", "auth-mfa"}
UploadIds   == {"upload-unrestricted-type", "upload-executable", "upload-content-sniff",
                "upload-size-limit", "upload-path-traversal"}
BaasIds     == {"supabase-security", "firebase-security", "convex-security"}

\* The entries of the catalogue marked active, less those of the two flows.
ActiveTestIds == {"debug-endpoints", "jwt-audit", "webhook-signature", "csrf-check", "sqli-probe",
                  "xss-probe", "open-redirect-probe", "idor-probe", "input-validation",
                  "graphql-introspection", "tenant-isolation", "rate-limit-burst"}

HttpChecks    == {"reachability", "https", "tls-cert", "domain-watchtower", "dns-email", "subdomain-takeover",
                  "threat-intel", "security-headers", "meta-tags", "cookies", "cors", "secrets-in-bundles",
                  "secrets-in-html", "active-tests", "aeo-engine-matrix", "crux-field-data", "compliance",
                  "stack-detection", "hosting-security", "observability-signals", "waf-resilience",
                  "client-deps-cve", "baas-security", "redirects-mixed", "subresources", "structured-data",
                  "security-txt", "robots-sitemap", "mini-crawl"}
BrowserQueue  == {"core-web-vitals", "accessibility", "console-errors", "mobile-responsive", "browser-storage",
                  "client-deps-runtime", "aeo-scan", "auth-flow", "upload-scan"}
GithubQueue   == {"repo-health", "semgrep", "gitleaks", "osv-scanner"}
Registry      == [http |-> HttpChecks, browser |-> BrowserQueue, github |-> GithubQueue]


OutputCheckIds(c) ==
    CASE c = "security-headers" -> {HeaderId(h) : h \in SecurityHeaders}
      [] c = "cookies"          -> CookieIds
      [] c = "compliance"       -> ComplianceIds
      [] c = "active-tests"     -> ActiveTestIds
      [] c = "baas-security"    -> BaasIds
      [] c = "auth-flow"        -> AuthFlowIds
      [] c = "upload-scan"      -> UploadIds
      [] OTHER                  -> {c}

=============================================================================
