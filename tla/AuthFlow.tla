------------------------------ MODULE AuthFlow -------------------------------
(***************************************************************************)
(* auth-flow: a browser looks for the login, signup and reset forms of a   *)
(* site, asks for a reset twice, logs in with a disposable account and, at *)
(* the end, logs in with wrong passwords until the site locks it out.  All *)
(* of it happens in one browser context and to one site, whose limits and  *)
(* locks outlive the scan (apps/worker/src/checks/browser: auth-flow.ts,   *)
(* and runAuthFlowCapture of playwright-runner.ts).                        *)
(***************************************************************************)
EXTENDS CheckRegistry

CONSTANTS MaxAttempts,     \* AUTH_RATE_LIMIT_MAX_ATTEMPTS
          ResetSamples,    \* ENUM_TIMING_SAMPLES
          AuthSites,       \* sites, see SiteOf
          MaxAuthScans     \* scans of the site, bound of the model

\* A site: the forms it has, after how many failures it locks the account (Never), after how many
\* requests for a reset it refuses more, whether its answers tell accounts apart, whether somebody
\* who is logged in still gets the login form.
Never == 99
SiteOf(forms, lockAfter, resetLimit, leaks, formStays) ==
    [forms |-> forms, lockAfter |-> lockAfter, resetLimit |-> resetLimit, leaks |-> leaks, formStays |-> formStays]

VARIABLES site,
          authScan,        \* the number of the scan, 0 before the first
          authStep,
          failures,        \* failed logins the site remembers
          lockedBy,        \* the scan whose failures locked the account, 0 if it is open
          resets,          \* requests for a reset the site remembers
          loggedIn,        \* whether the browser context is logged in
          capture,         \* AuthFlowCapture
          authRows

siteVars == <<failures, lockedBy, resets>>
authVars == <<site, authScan, authStep, siteVars, loggedIn, capture, authRows>>

NoCapture == [forms |-> "none", reset |-> <<>>, session |-> "none", seenBy |-> 0, mfa |-> "none", policy |-> "none", attempts |-> <<>>]

AuthInit == /\ site \in AuthSites /\ authScan = 0 /\ authStep = "idle"
            /\ failures = 0 /\ lockedBy = 0 /\ resets = 0 /\ loggedIn = FALSE
            /\ capture = NoCapture /\ authRows = {}

SkipFindings == {Result(id, "info") : id \in AuthFlowIds}

\* createAuthFlowCheck: without active tests nothing; without ownership, account or room in the limit only "info".
StartFlow ==
    /\ authStep = "idle" /\ authScan < MaxAuthScans
    /\ authScan' = authScan + 1
    /\ \/ authStep' = "forms" /\ authRows' = {}
       \/ authStep' = "idle" /\ authRows' = SkipFindings
    /\ capture' = NoCapture /\ loggedIn' = FALSE
    /\ UNCHANGED <<site, siteVars>>

Has(form)  == form \in site.forms
After_BurstFirst(step) ==                  \* wrong: the burst comes before the login
    CASE step = "forms"    -> IF Has("reset") THEN "reset" ELSE "attempts"
      [] step = "reset"    -> "attempts"
      [] step = "attempts" -> "session"
      [] step = "session"  -> "policy"
      [] OTHER             -> "judge"
After(step) == CASE step = "forms"   -> IF Has("reset") THEN "reset" ELSE "session"
                 [] step = "reset"   -> "session"
                 [] step = "session" -> "policy"
                 [] step = "policy"  -> "attempts"
                 [] OTHER            -> "judge"

\* discoverAuthUrls, captureFormMeta: what the forms look like.
DiscoverForms ==
    /\ authStep = "forms"
    /\ \E quality \in {"none"} \union (IF site.forms = {} THEN {} ELSE {"good", "bad transport", "no token"}) :
         capture' = [capture EXCEPT !.forms = quality]
    /\ authStep' = After("forms")
    /\ UNCHANGED <<site, authScan, siteVars, loggedIn, authRows>>

\* probeReset: several requests for an address nobody has, then as many for the account's own.
ResetAnswer(known) ==
    IF resets + ResetSamples > site.resetLimit THEN 429
    ELSE IF known /\ site.leaks THEN 404 ELSE 200
ProbeReset ==
    /\ authStep = "reset"
    /\ LET known == capture.reset # <<>>
       IN  /\ \E status \in {ResetAnswer(known), 0} :        \* 0: nothing reliable came back
                capture' = [capture EXCEPT !.reset = Append(@, status)]
           /\ authStep' = IF known THEN After("reset") ELSE "reset"
    /\ resets' = Min({resets + ResetSamples, Never - ResetSamples})
    /\ UNCHANGED <<site, authScan, failures, lockedBy, loggedIn, authRows>>

\* probeSession, then probeMfa when the login worked; it may fail for reasons of its own.
ProbeSession ==
    /\ authStep = "session"
    /\ \/ /\ Has("login") /\ lockedBy = 0
          /\ \E cookies \in {"good", "weak"}, mfa \in {"enforced", "available", "none"} :
               capture' = [capture EXCEPT !.session = cookies, !.mfa = mfa]
          /\ loggedIn' = TRUE /\ failures' = 0
       \/ /\ Has("login")
          /\ capture' = [capture EXCEPT !.session = "not logged in", !.seenBy = lockedBy]
          /\ UNCHANGED <<loggedIn, failures>>
       \/ ~Has("login") /\ UNCHANGED <<capture, loggedIn, failures>>
    /\ authStep' = After("session")
    /\ UNCHANGED <<site, authScan, lockedBy, resets, authRows>>

\* probePasswordPolicy: a weak password is typed, and never sent.
ProbePolicy ==
    /\ authStep = "policy"
    /\ \E policy \in {"none"} \union (IF Has("signup") \/ Has("reset") THEN {"unmeasurable", "accepted", "refused"} ELSE {}) :
         capture' = [capture EXCEPT !.policy = policy]
    /\ authStep' = After("policy")
    /\ UNCHANGED <<site, authScan, siteVars, loggedIn, authRows>>

\* probeRateLimit: one wrong login after the other until the site says it is enough.  Where the login
\* form is gone for somebody logged in, no login is sent and the attempt counts with status 0.
WrongLogin ==
    /\ authStep = "attempts" /\ Has("login")
    /\ IF loggedIn /\ ~site.formStays
       THEN capture' = [capture EXCEPT !.attempts = Append(@, "nothing sent")] /\ UNCHANGED <<failures, lockedBy>>
       ELSE LET locks == failures + 1 >= site.lockAfter
            IN  /\ failures' = Min({failures + 1, MaxAttempts})
                /\ lockedBy' = IF locks /\ lockedBy = 0 THEN authScan ELSE lockedBy
                /\ capture' = [capture EXCEPT !.attempts =
                                  Append(@, IF locks \/ lockedBy # 0 THEN "locked" ELSE "refused")]
    /\ authStep' = IF Contains(capture'.attempts, "locked") \/ Len(capture'.attempts) = MaxAttempts
                   THEN After("attempts") ELSE "attempts"
    /\ UNCHANGED <<site, authScan, resets, loggedIn, authRows>>
NoAttempts ==                              \* no login form, or its page cannot be opened any more
    /\ authStep = "attempts"
    /\ authStep' = After("attempts")
    /\ UNCHANGED <<site, authScan, siteVars, loggedIn, capture, authRows>>

\* The seven findings.
TransportFinding == CASE capture.forms = "none" -> "info" [] capture.forms = "bad transport" -> "warn" [] OTHER -> "pass"
CsrfFinding      == CASE capture.forms = "none" -> "info" [] capture.forms = "no token" -> "warn" [] OTHER -> "pass"
EnumerationFinding ==
    CASE Len(capture.reset) < 2 \/ Contains(capture.reset, 0) -> "info"
      [] OTHER -> Verdict(FALSE, capture.reset[1] # capture.reset[2])
RateLimitFinding ==
    CASE capture.attempts = <<>> -> "info"
      [] OTHER -> Verdict(FALSE, ~Contains(capture.attempts, "locked"))
PolicyFinding  == CASE capture.policy \in {"none", "unmeasurable"} -> "info" [] OTHER -> Verdict(FALSE, capture.policy = "accepted")
SessionFinding == CASE capture.session \in {"none", "not logged in"} -> "info" [] OTHER -> Verdict(FALSE, capture.session = "weak")
MfaFinding     == CASE capture.mfa = "enforced" -> "pass" [] capture.mfa = "available" -> "warn" [] OTHER -> "info"

JudgeFlow ==
    /\ authStep = "judge"
    /\ authStep' = "idle"
    /\ authRows' = {Result("auth-transport", TransportFinding), Result("auth-csrf", CsrfFinding),
                    Result("auth-user-enumeration", EnumerationFinding), Result("auth-rate-limit", RateLimitFinding),
                    Result("auth-password-policy", PolicyFinding), Result("auth-session-security", SessionFinding),
                    Result("auth-mfa", MfaFinding)}
    /\ UNCHANGED <<site, authScan, siteVars, loggedIn, capture>>

\* An exception of the browser: what was captured so far is dropped, what was done to the site is done.
BrowserFails ==
    /\ authStep \notin {"idle", "judge"}
    /\ capture' = NoCapture /\ authStep' = "judge"
    /\ UNCHANGED <<site, authScan, siteVars, loggedIn, authRows>>

\* The site forgets failures, locks and resets after a while.
SiteForgets ==
    /\ siteVars # <<0, 0, 0>> /\ authStep = "idle"
    /\ failures' = 0 /\ lockedBy' = 0 /\ resets' = 0
    /\ UNCHANGED <<site, authScan, authStep, loggedIn, capture, authRows>>

AuthNext == \/ StartFlow \/ DiscoverForms \/ ProbeReset \/ ProbeSession \/ ProbePolicy \/ WrongLogin
            \/ NoAttempts \/ JudgeFlow \/ BrowserFails \/ SiteForgets

\* The scan's own wrong logins never stand in the way of the login it wants to look at.
SessionSeenBeforeBurst == capture.seenBy # 0 => capture.seenBy # authScan

\* Session and MFA are judged only after a login, and a rate limit is credited only when one was met.
AuthJudgedOnSight ==
    \A r \in authRows :
        /\ r.id \in {"auth-session-security", "auth-mfa"} /\ r.status # "info" => capture.session \in {"good", "weak"}
        /\ r.id = "auth-rate-limit" /\ r.status = "pass" => Contains(capture.attempts, "locked")
        /\ r.id = "auth-user-enumeration" /\ r.status # "info" => ~Contains(capture.reset, 0)
=============================================================================
