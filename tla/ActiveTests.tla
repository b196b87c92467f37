----------------------------- MODULE ActiveTests -----------------------------
(***************************************************************************)
(* The active tests of a page: twelve tests one after the other, each a    *)
(* few requests to the site.  A request that fails, or that the limit of   *)
(* the host refuses, counts as one that found nothing                      *)
(* (apps/worker/src/checks/http/active-tests.ts).                          *)
(***************************************************************************)
EXTENDS CheckRegistry

CONSTANTS Payloads,            \* payloads of each kind of test, by test
          Pages,               \* how many targets the home page offers each kind of test
          BurstCount           \* RATE_LIMIT_BURST_COUNT

VARIABLES testNo,       \* the test that runs, 0 before the home page is fetched
          offers,       \* targets by kind of test
          target, payload, hits,
          testRows,
          burst, burstRow  \* the last of the tests, which shares nothing with the others: its answers, its row

activeVars == <<testNo, offers, target, payload, hits, testRows>>
burstVars  == <<burst, burstRow>>

Tests == <<"debug-endpoints", "jwt-audit", "webhook-signature", "csrf-check", "sqli-probe", "xss-probe",
           "open-redirect-probe", "idor-probe", "input-validation", "graphql-introspection",
           "tenant-isolation">>
Over == Len(Tests) + 1
Test == Tests[testNo]

\* What a test draws its targets from: parameters, redirect parameters, ids in paths, or fixed paths.
Offer(test) ==
    CASE test \in {"sqli-probe", "xss-probe", "input-validation"} -> "params"
      [] test = "open-redirect-probe" -> "redirects"
      [] test = "idor-probe"          -> "ids"
      [] OTHER                        -> "fixed"
Targets(test) == IF Offer(test) = "fixed" THEN 1 ELSE offers[Offer(test)]
Enough(test)  == CASE test \in {"debug-endpoints", "graphql-introspection"} -> 1
                   [] test = "idor-probe" -> 2 [] OTHER -> 3
Probing == {"debug-endpoints", "sqli-probe", "xss-probe", "open-redirect-probe", "idor-probe", "input-validation",
            "graphql-introspection"}

ASSUME ActiveAssumption ==
    /\ Payloads \in [Probing -> Nat \ {0}] /\ BurstCount \in Nat \ {0}
    /\ Pages \subseteq [params: Nat, redirects: Nat, ids: Nat]

\* Where the tests that only read the home page, or nothing, come out.
PassiveStatus == [test \in {"jwt-audit", "webhook-signature", "csrf-check", "tenant-isolation"} |->
    CASE test = "jwt-audit"         -> {"warn", "pass", "info"}
      [] test = "webhook-signature" -> {"info", "pass"}
      [] test = "csrf-check"        -> {"info", "warn", "pass"}
      [] OTHER                      -> {"info"}]

ActiveInit == /\ testNo = 0 /\ offers = [o \in {"params", "redirects", "ids"} |-> 0]
              /\ target = 1 /\ payload = 1 /\ hits = 0
              /\ testRows = {}

BeginTests ==
    /\ testNo = 0
    /\ \/ /\ testNo' = Over                   \* the home page cannot be fetched
          /\ testRows' = {Result("active-tests", "info")}
          /\ UNCHANGED offers
       \/ /\ offers' \in Pages /\ testNo' = 1
          /\ UNCHANGED testRows
    /\ UNCHANGED <<target, payload, hits>>

PassiveTest ==
    /\ testNo \in 1..Len(Tests) /\ Test \in DOMAIN PassiveStatus
    /\ \E status \in PassiveStatus[Test] : testRows' = testRows \union {Result(Test, status)}
    /\ testNo' = testNo + 1
    /\ UNCHANGED <<offers, target, payload, hits>>

\* probeGet: what a request comes back with; "none" is an error or a refusal.
PageAnswers == {"none", "nothing", "something"}

Ended == target > Targets(Test) \/ hits >= Enough(Test)
NextPayload == IF payload < Payloads[Test] THEN target' = target /\ payload' = payload + 1
               ELSE target' = target + 1 /\ payload' = 1
NextTarget  == target' = target + 1 /\ payload' = 1

\* The first request of the id test is what the others are compared with; without it there is nothing to compare.
IsBaseline == Test = "idor-probe" /\ payload = 1
Report(test) == IF test = "idor-probe" THEN Result(test, "info") ELSE Result(test, "warn")

Probe ==
    /\ testNo \in 1..Len(Tests) /\ Test \in Probing /\ ~Ended
    /\ \E answer \in PageAnswers :
         IF answer = "something" /\ ~IsBaseline
         THEN /\ hits' = hits + 1 /\ testRows' = testRows \union {Report(Test)}
              /\ NextTarget
         ELSE /\ IF IsBaseline /\ answer = "none" THEN NextTarget ELSE NextPayload
              /\ UNCHANGED <<hits, testRows>>
    /\ UNCHANGED <<testNo, offers>>

\* A test that found nothing passes, when it had anything to test.
Fallback(test) == CASE Targets(test) = 0 \/ test = "graphql-introspection" -> Result(test, "info")
                    [] OTHER -> Result(test, "pass")
EndTest ==
    /\ testNo \in 1..Len(Tests) /\ Test \in Probing /\ Ended
    /\ testRows' = IF hits = 0 THEN testRows \union {Fallback(Test)} ELSE testRows
    /\ testNo' = testNo + 1
    /\ target' = 1 /\ payload' = 1 /\ hits' = 0
    /\ UNCHANGED offers

ActiveNext == BeginTests \/ PassiveTest \/ Probe \/ EndTest

(***************************************************************************)
(* rate-limit-burst.  probeBurstRequest: six requests in a row, watched    *)
(* for signs of a limit.                                                   *)
(***************************************************************************)
BurstAnswers == {"none", "limited", "remaining", "nothing remaining", "plain"}

BurstInit == burst = <<>> /\ burstRow = {}

Burst ==
    /\ Len(burst) < BurstCount
    /\ \E answer \in BurstAnswers : burst' = Append(burst, answer)
    /\ UNCHANGED burstRow

\* A count that reaches zero during the burst; one that starts at zero was used up before.
HitZero(answers) == \E i, j \in 1..Len(answers) : i < j /\ answers[i] = "remaining" /\ answers[j] = "nothing remaining"

JudgeBurst(answers) ==
    LET valid == {i \in 1..Len(answers) : answers[i] # "none"}
    IN  IF 2 * Cardinality(valid) < BurstCount THEN Result("rate-limit-burst", "info")
        ELSE IF Contains(answers, "limited") \/ HitZero(answers) THEN Result("rate-limit-burst", "pass")
        ELSE Result("rate-limit-burst", "warn")
EndBurst ==
    /\ Len(burst) = BurstCount /\ burstRow = {}
    /\ burstRow' = {JudgeBurst(burst)}
    /\ UNCHANGED burst

BurstNext == Burst \/ EndBurst

\* A test that found something does not also say that all is well.
TestsSayOneThing == \A r, q \in testRows : r.id = q.id => r = q

\* The burst passes only for a limit it met.
BurstPassesForALimit ==
    \A r \in burstRow : r.status = "pass" =>
        \/ Contains(burst, "limited")
        \/ \E i \in 1..BurstCount : burst[i] = "nothing remaining"
                                   /\ \E k \in 1..(i - 1) : burst[k] = "remaining"
=============================================================================
