------------------------------ MODULE BaasScan -------------------------------
(***************************************************************************)
(* baas-security: the Supabase, Firebase and Convex projects a site names  *)
(* are asked whether they are open, a few of each platform and under one   *)
(* budget of requests for the whole check                                  *)
(* (apps/worker/src/checks/http/baas-security.ts).                         *)
(***************************************************************************)
EXTENDS CheckRegistry

CONSTANTS MaxProjectsPerPlatform, GlobalProbeBudget,   \* BAAS_SECURITY_LIMITS
          BaasSites     \* what a site can name: sequences of kinds, in the order of the platforms

Kinds == {"supabase", "rtdb", "bucket", "rtdb and bucket", "convex"}

ASSUME BaasAssumption ==
    /\ MaxProjectsPerPlatform \in Nat /\ GlobalProbeBudget \in Nat
    /\ \A site \in BaasSites : site \in Seq(Kinds)

VARIABLES baasStep,     \* "home", "first", "second" (the request a project is at) or "done"
          projects,     \* the projects still to be probed, <<kind, number>>; the lowest number is next
          anonKey,      \* whether the site shows the anon key of Supabase
          budget,       \* requests left
          probed, notProbed,
          opened,       \* what was found open, <<project, "without key" or "with key">>
          requests,     \* requests sent, a history variable
          baasRow

baasVars == <<baasStep, projects, anonKey, budget, probed, notProbed, opened, requests, baasRow>>

Platform(kind) == IF kind = "supabase" THEN "supabase" ELSE IF kind = "convex" THEN "convex" ELSE "firebase"
PlatformCheckId == [supabase |-> "supabase-security", firebase |-> "firebase-security", convex |-> "convex-security"]

\* collectBundleTexts, extractBaasFingerprints: a script that is not read names no project.
Fingerprints(site) == {<<site[i], i>> : i \in 1..Len(site)}
Rank(site, i)      == Cardinality({j \in 1..i : Platform(site[j]) = Platform(site[i])})
Capped(site)       == {p \in Fingerprints(site) : Rank(site, p[2]) <= MaxProjectsPerPlatform}

BaasInit == /\ baasStep = "home" /\ projects = {} /\ anonKey = FALSE /\ budget = GlobalProbeBudget
            /\ probed = {} /\ notProbed = {} /\ opened = {} /\ requests = 0 /\ baasRow = {}

FindProjects ==
    /\ baasStep = "home"
    /\ \E site \in BaasSites, key \in BOOLEAN :
         /\ projects' = Capped(site)
         /\ notProbed' = Fingerprints(site) \ Capped(site)
         /\ anonKey' = key
    /\ baasStep' = "first"
    /\ UNCHANGED <<budget, probed, opened, requests, baasRow>>

Project  == CHOOSE p \in projects : \A q \in projects : p[2] <= q[2]

\* Out of budget before the first request: the project is listed as not probed.
PassOver ==
    /\ baasStep = "first" /\ projects # {} /\ budget = 0
    /\ notProbed' = notProbed \union {Project}
    /\ projects' = projects \ {Project}
    /\ UNCHANGED <<baasStep, anonKey, budget, probed, opened, requests, baasRow>>

\* safeGet: a request the rate limiter refuses is not sent and still costs budget.
ProbeAnswers   == {"open", "401", "other", "error", "limited"}
Spend(answer) == /\ budget' = budget - 1
                 /\ requests' = IF answer = "limited" THEN requests ELSE requests + 1

\* The project is asked once more: Supabase with the key, a database for its bucket.
AsksAgain_Budget(answer) ==              \* wrong: the budget is not looked at again
    \/ Project[1] = "supabase" /\ answer = "401" /\ anonKey
    \/ Project[1] = "rtdb and bucket"
AsksAgain(answer) == /\ budget > 1
                     /\ \/ Project[1] = "supabase" /\ answer = "401" /\ anonKey
                        \/ Project[1] = "rtdb and bucket"

FirstProbe ==
    /\ baasStep = "first" /\ projects # {} /\ budget > 0
    /\ \E answer \in ProbeAnswers :
         /\ Spend(answer)
         /\ opened' = IF answer = "open" THEN opened \union {<<Project, "without key">>} ELSE opened
         /\ IF AsksAgain(answer)
            THEN baasStep' = "second" /\ UNCHANGED <<projects, probed>>
            ELSE /\ baasStep' = "first" /\ projects' = projects \ {Project}
                 /\ probed' = probed \union {Project}
    /\ UNCHANGED <<anonKey, notProbed, baasRow>>

SecondProbe ==
    /\ baasStep = "second"
    /\ \E answer \in ProbeAnswers :
         /\ Spend(answer)
         /\ opened' = IF answer = "open"
                      THEN opened \union {<<Project, IF Project[1] = "supabase" THEN "with key" ELSE "without key">>}
                      ELSE opened
    /\ probed' = probed \union {Project}
    /\ projects' = projects \ {Project} /\ baasStep' = "first"
    /\ UNCHANGED <<anonKey, notProbed, baasRow>>

\* evaluateSupabaseProbe, evaluateFirebaseProbe, evaluateConvexProbe
Evaluate(platform) ==
    LET found == {o \in opened : Platform(o[1][1]) = platform}
    IN  IF found = {} THEN Rated(PlatformCheckId[platform], "info", "info")
        ELSE IF platform = "convex" THEN Rated(PlatformCheckId[platform], "warn", "low")
        ELSE IF \E o \in found : o[2] = "without key" THEN Rated(PlatformCheckId[platform], "fail", "high")
        ELSE Rated(PlatformCheckId[platform], "warn", "medium")

JudgeProjects ==
    /\ baasStep = "first" /\ projects = {}
    /\ baasStep' = "done"
    /\ baasRow' = {Evaluate(Platform(p[1])) : p \in probed \union notProbed}
    /\ UNCHANGED <<projects, anonKey, budget, probed, notProbed, opened, requests>>

BaasNext == FindProjects \/ PassOver \/ FirstProbe \/ SecondProbe \/ JudgeProjects

\* Every project the site names ends as probed or as not probed, and one found open is reported.
OpenIsReported ==
    baasStep = "done" =>
        /\ probed \intersect notProbed = {}
        /\ \A o \in opened : \E r \in baasRow : r.id = PlatformCheckId[Platform(o[1][1])] /\ r.status # "info"

\* The budget of requests is kept.
BudgetHolds == requests <= GlobalProbeBudget /\ budget >= 0
=============================================================================
