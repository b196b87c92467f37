---------------------------- MODULE ChecksProofs -----------------------------
(***************************************************************************)
(* The checks, for any limits, pages, projects, payloads and sites.  Each  *)
(* flow has an invariant of its own; as they share no variable, a step of  *)
(* one leaves those of the others alone.                                   *)
(***************************************************************************)
EXTENDS MCChecks, FiniteSetTheorems, WellFoundedInduction, TLAPS

-----------------------------------------------------------------------------
(* The scripts of a page.                                                  *)

\* There are no more matches than the limit, or one more in the end.
BundleLimits ==
    /\ bundleStep \in {"home", "bundle", "map", "judge", "done"}
    /\ IsFiniteSet(matches)
    /\ bundleStep \in {"home", "bundle"} => Cardinality(matches) <= MaxMatches
    /\ bundleStep = "map" => Cardinality(matches) < MaxMatches
    /\ Cardinality(matches) <= MaxMatches + 1

\* What was read and holds a secret is among the matches, unless they are full.
BundleReport == ~Full(matches) => secretsRead \subseteq matches

\* What was not read is noted, but for what the code passes over and what comes after the limit.
BundleNotes ==
    /\ noted \in BOOLEAN
    /\ ~noted => unread \subseteq {"after the limit", "bad address", "not a map"}
    /\ "after the limit" \in unread => Full(matches)
    /\ bundleStep # "done" => bundleRow = {}
    /\ BundlesPassHonestly

BundleInv == BundleLimits /\ BundleReport /\ BundleNotes

LEMMA MaxOfTwo == ASSUME NEW a \in Int, NEW b \in Int PROVE Max({a, b}) = IF a >= b THEN a ELSE b
<1>1. PICK m \in {a, b} : \A x \in {a, b} : m >= x
  OBVIOUS
<1>2. Max({a, b}) \in {a, b} /\ \A x \in {a, b} : Max({a, b}) >= x
  BY <1>1 DEF Max
<1>3. QED
  BY <1>2

LEMMA MinOfTwo == ASSUME NEW a \in Int, NEW b \in Int PROVE Min({a, b}) = IF a <= b THEN a ELSE b
<1>1. PICK m \in {a, b} : \A x \in {a, b} : m <= x
  OBVIOUS
<1>2. Min({a, b}) \in {a, b} /\ \A x \in {a, b} : Min({a, b}) <= x
  BY <1>1 DEF Min
<1>3. QED
  BY <1>2

\* What the secrets of one text add: as many as there is room for, or one when there is none.
LEMMA Added ==
  ASSUME IsFiniteSet(matches), NEW text \in Texts, NEW ms \in AddMatches(text)
  PROVE  /\ IsFiniteSet(ms) /\ Cardinality(matches) \in Nat /\ Cardinality(ms) \in Nat
         /\ matches \subseteq ms /\ Cardinality(matches) <= Cardinality(ms)
         /\ Cardinality(matches) < MaxMatches => Cardinality(ms) <= MaxMatches
         /\ Cardinality(matches) >= MaxMatches => Cardinality(ms) <= Cardinality(matches) + 1
         /\ ~Full(ms) => Secrets(text) \subseteq ms
<1> DEFINE new == Secrets(text) \ matches
           k   == Cardinality(matches)
           n   == Cardinality(new)
           room == Max({1, MaxMatches - k})
<1>1. IsFiniteSet(new) /\ k \in Nat /\ n \in Nat
  <2>1. IsFiniteSet(text) /\ new \in SUBSET text
    BY BundleAssumption DEF Secrets
  <2>2. IsFiniteSet(new)
    BY <2>1, FS_Subset
  <2>3. QED
    BY <2>2, FS_CardinalityType
<1>2. MaxMatches \in Nat
  BY BundleAssumption
<1>3. PICK S \in SUBSET new : ms = matches \union S /\ Cardinality(S) = Min({room, n})
  BY DEF AddMatches
<1>4. IsFiniteSet(S) /\ Cardinality(S) \in Nat /\ (Cardinality(S) = n => S = new)
  BY <1>1, <1>3, FS_Subset, FS_CardinalityType
<1>5. IsFiniteSet(ms) /\ Cardinality(ms) = k + Cardinality(S)
  <2>1. matches \intersect S = {}
    BY <1>3
  <2>2. Cardinality({}) = 0
    BY FS_EmptySet
  <2>3. /\ IsFiniteSet(matches \union S)
        /\ Cardinality(matches \union S) = Cardinality(matches) + Cardinality(S) - Cardinality(matches \intersect S)
    BY <1>4, FS_Union, Zenon
  <2>4. Cardinality(matches \intersect S) = 0
    BY <2>1, <2>2, Zenon
  <2>5. QED
    BY <1>1, <1>3, <1>4, <2>3, <2>4
<1>6. room = IF 1 >= MaxMatches - k THEN 1 ELSE MaxMatches - k
  BY <1>1, <1>2, MaxOfTwo
<1>7. Cardinality(S) = IF room <= n THEN room ELSE n
  <2>1. room \in Int
    BY <1>1, <1>2, <1>6
  <2>2. n \in Int
    BY <1>1
  <2>3. Min({room, n}) = IF room <= n THEN room ELSE n
    BY <2>1, <2>2, MinOfTwo, Zenon
  <2>4. QED
    BY <1>3, <2>3, Zenon
<1>8. ASSUME ~Full(ms) PROVE Secrets(text) \subseteq ms
  <2>1. k + Cardinality(S) < MaxMatches
    BY <1>1, <1>2, <1>4, <1>5, <1>8 DEF Full
  <2>2. Cardinality(S) = n
    BY <1>1, <1>2, <1>6, <1>7, <2>1
  <2>3. QED
    BY <1>3, <1>4, <2>2
<1> HIDE DEF k, n, room
<1>9. /\ k <= k + Cardinality(S)
      /\ k < MaxMatches => k + Cardinality(S) <= MaxMatches
      /\ k >= MaxMatches => k + Cardinality(S) <= k + 1
  BY <1>1, <1>2, <1>4, <1>6, <1>7
<1>10. QED
  BY <1>1, <1>3, <1>4, <1>5, <1>8, <1>9 DEF k

LEMMA BundleStart == BundleInit => BundleInv
<1> SUFFICES ASSUME BundleInit PROVE BundleInv
  OBVIOUS
<1>1. IsFiniteSet(matches) /\ Cardinality(matches) = 0
  BY FS_EmptySet, Zenon DEF BundleInit
<1>2. BundleLimits
  BY <1>1, BundleAssumption DEF BundleInit, BundleLimits
<1>3. BundleReport /\ BundleNotes
  BY DEF BundleInit, BundleReport, BundleNotes, BundlesPassHonestly
<1>4. QED
  BY <1>2, <1>3 DEF BundleInv

\* Reading a text keeps what is said of the matches.
LEMMA BundleReads ==
  ASSUME BundleLimits, BundleReport, bundleStep \in {"bundle", "map"}, NEW text \in Texts,
         matches' \in AddMatches(text), secretsRead' = secretsRead \union Secrets(text),
         bundleStep' \in {"bundle", "map", "judge"}, Full(matches') /\ bundleStep = "bundle" => bundleStep' = "judge",
         bundleStep = "map" => bundleStep' # "map"
  PROVE  BundleLimits' /\ BundleReport' /\ (Full(matches) => Full(matches'))
<1>1. PICK ms : ms = matches'
  OBVIOUS
<1>2. MaxMatches \in Nat /\ IsFiniteSet(matches)
  BY BundleAssumption DEF BundleLimits
<1>3. /\ IsFiniteSet(ms) /\ Cardinality(matches) \in Nat /\ Cardinality(ms) \in Nat
      /\ matches \subseteq ms /\ Cardinality(matches) <= Cardinality(ms)
      /\ Cardinality(matches) < MaxMatches => Cardinality(ms) <= MaxMatches
      /\ Cardinality(matches) >= MaxMatches => Cardinality(ms) <= Cardinality(matches) + 1
      /\ ~Full(ms) => Secrets(text) \subseteq ms
  <2>1. ms \in AddMatches(text)
    BY <1>1
  <2>2. QED
    BY <1>2, <2>1, Added
<1>4. Full(ms) <=> Cardinality(ms) >= MaxMatches
  BY DEF Full
<1>5. Full(matches) <=> Cardinality(matches) >= MaxMatches
  BY DEF Full
<1>6. BundleLimits'
  <2>1. /\ bundleStep = "bundle" => Cardinality(ms) <= MaxMatches + 1
        /\ bundleStep = "map" => Cardinality(ms) <= MaxMatches
    BY <1>2, <1>3 DEF BundleLimits
  <2>2. bundleStep = "bundle" /\ bundleStep' # "judge" => Cardinality(ms) < MaxMatches
    BY <1>1, <1>2, <1>3, <1>4
  <2>3. QED
    BY <1>1, <1>2, <1>3, <2>1, <2>2 DEF BundleLimits
<1>7. ~Full(ms) => secretsRead' \subseteq ms
  BY <1>2, <1>3, <1>4, <1>5 DEF BundleReport
<1>8. QED
  BY <1>1, <1>2, <1>3, <1>4, <1>5, <1>6, <1>7 DEF BundleReport

LEMMA BundleStays == BundleInv /\ [BundleNext]_bundleVars => BundleInv'
<1> SUFFICES ASSUME BundleInv, [BundleNext]_bundleVars PROVE BundleInv'
  OBVIOUS
<1>0. BundleLimits /\ BundleReport /\ BundleNotes
  BY DEF BundleInv
<1>1. ASSUME UNCHANGED <<matches, secretsRead>>, bundleStep' \in {"bundle", "judge", "done"},
             bundleStep' = "bundle" => bundleStep \in {"home", "bundle", "map"}
      PROVE  BundleLimits' /\ BundleReport'
  <2>1. MaxMatches \in Nat /\ Cardinality(matches) \in Nat
    BY <1>0, FS_CardinalityType, BundleAssumption DEF BundleLimits
  <2>2. BundleLimits'
    BY <1>0, <1>1, <2>1 DEF BundleLimits
  <2>3. QED
    BY <1>0, <1>1, <2>2 DEF BundleReport, Full
<1>2. CASE FetchHome
  <2>1. bundleStep = "home" /\ bundleRow = {} /\ UNCHANGED <<matches, secretsRead>>
        /\ bundleStep' \in {"bundle", "judge", "done"}
    BY <1>0, <1>2 DEF FetchHome, BundleNotes
  <2>2. CASE /\ bundleStep' = "done" /\ bundleRow' = {Result("secrets-in-bundles", "info")}
             /\ UNCHANGED <<bundlesLeft, noted, unread>>
    <3>1. \A r \in bundleRow' : r.status = "info"
      BY <2>2 DEF Result, Rated
    <3>2. BundleNotes'
      BY <1>0, <2>1, <2>2, <3>1 DEF BundleNotes, BundlesPassHonestly, Full
    <3>3. QED
      BY <1>1, <2>1, <3>2 DEF BundleInv
  <2>3. CASE \E linked \in 0..(MaxBundles + 1) :
               /\ noted' = (linked > MaxBundles)
               /\ unread' = IF noted' THEN {"beyond the limit"} ELSE {}
               /\ bundleStep' = IF linked = 0 THEN "judge" ELSE "bundle"
               /\ UNCHANGED bundleRow
    <3>0. PICK linked \in 0..(MaxBundles + 1) :
               /\ noted' = (linked > MaxBundles)
               /\ unread' = IF noted' THEN {"beyond the limit"} ELSE {}
      BY <2>3
    <3>1. noted' \in BOOLEAN /\ unread' = IF noted' THEN {"beyond the limit"} ELSE {}
      <4>1. PICK beyond : beyond = (linked > MaxBundles)
        OBVIOUS
      <4>2. beyond \in BOOLEAN
        BY <4>1
      <4>3. QED
        BY <3>0, <4>1, <4>2, Zenon
    <3>2. /\ ~noted' => unread' \subseteq {"after the limit", "bad address", "not a map"}
          /\ "after the limit" \notin unread' /\ bundleRow' = {}
      BY <2>1, <2>3, <3>1
    <3>3. BundleNotes'
      BY <3>1, <3>2 DEF BundleNotes, BundlesPassHonestly
    <3>4. QED
      BY <1>1, <2>1, <3>3 DEF BundleInv
  <2>4. QED
    BY <1>2, <2>2, <2>3 DEF FetchHome
<1>3. CASE SkipBundle
  <2>1. bundleStep = "bundle" /\ bundleRow' = {} /\ UNCHANGED <<matches, secretsRead>>
        /\ bundleStep' \in {"bundle", "judge"} /\ noted' = TRUE /\ unread' = unread \union {"bundle"}
    BY <1>0, <1>3 DEF SkipBundle, NextOne, BundleNotes
  <2>2. BundleNotes'
    BY <1>0, <2>1 DEF BundleNotes, BundlesPassHonestly, Full
  <2>3. QED
    BY <1>1, <2>1, <2>2 DEF BundleInv
<1>4. CASE ScanBundle
  <2>1. PICK text \in Texts, map \in BOOLEAN :
           /\ matches' \in AddMatches(text)
           /\ secretsRead' = secretsRead \union Secrets(text)
           /\ IF Full(matches')
              THEN /\ bundleStep' = "judge"
                   /\ unread' = unread \union (IF map \/ bundlesLeft > 1 THEN {"after the limit"} ELSE {})
              ELSE bundleStep' = (IF map THEN "map" ELSE NextOne) /\ UNCHANGED unread
    BY <1>4 DEF ScanBundle
  <2>2. bundleStep = "bundle" /\ bundleRow' = {} /\ noted' = noted
    BY <1>0, <1>4 DEF ScanBundle, BundleNotes
  <2>3. bundleStep' \in {"bundle", "map", "judge"} /\ (Full(matches') => bundleStep' = "judge")
    BY <2>1 DEF NextOne
  <2>4. BundleLimits' /\ BundleReport' /\ (Full(matches) => Full(matches'))
    BY <1>0, <2>1, <2>2, <2>3, BundleReads
  <2>5. /\ ~noted => unread' \subseteq {"after the limit", "bad address", "not a map"}
        /\ "after the limit" \in unread' => Full(matches')
    BY <1>0, <2>1, <2>4 DEF BundleNotes
  <2>6. BundleNotes'
    BY <1>0, <2>2, <2>3, <2>5 DEF BundleNotes, BundlesPassHonestly, Full
  <2>7. QED
    BY <2>4, <2>6 DEF BundleInv
<1>5. CASE ReadMap
  <2>1. bundleStep = "map" /\ bundleRow' = {} /\ bundleStep' \in {"bundle", "judge"}
    BY <1>0, <1>5 DEF ReadMap, NextOne, BundleNotes
  <2>2. CASE \E why \in {"not decodable", "download failed", "bad address", "not a map"} :
               /\ noted' = (noted \/ SkippedMap(why))
               /\ unread' = unread \union {why}
               /\ UNCHANGED <<matches, secretsRead>>
    <3>1. PICK why \in {"not decodable", "download failed", "bad address", "not a map"} :
               /\ noted' = (noted \/ SkippedMap(why))
               /\ unread' = unread \union {why}
               /\ UNCHANGED <<matches, secretsRead>>
      BY <2>2
    <3>2. noted' \in BOOLEAN /\ (~noted' => ~noted /\ why \in {"bad address", "not a map"})
      BY <1>0, <3>1 DEF SkippedMap, BundleNotes
    <3>3. /\ ~noted' => unread' \subseteq {"after the limit", "bad address", "not a map"}
          /\ "after the limit" \in unread' => Full(matches)
      BY <1>0, <3>1, <3>2 DEF BundleNotes
    <3>4. BundleNotes'
      BY <2>1, <3>1, <3>2, <3>3 DEF BundleNotes, BundlesPassHonestly, Full
    <3>5. QED
      BY <1>1, <2>1, <3>1, <3>4 DEF BundleInv
  <2>3. CASE \E text \in Texts :
               /\ matches' \in AddMatches(text)
               /\ secretsRead' = secretsRead \union Secrets(text)
               /\ UNCHANGED <<noted, unread>>
    <3>1. BundleLimits' /\ BundleReport' /\ (Full(matches) => Full(matches'))
      BY <1>0, <2>1, <2>3, BundleReads
    <3>2. noted' = noted /\ unread' = unread
      BY <2>3
    <3>3. "after the limit" \in unread' => Full(matches')
      BY <1>0, <3>1, <3>2 DEF BundleNotes
    <3>4. BundleNotes'
      BY <1>0, <2>1, <3>2, <3>3 DEF BundleNotes, BundlesPassHonestly
    <3>5. QED
      BY <3>1, <3>4 DEF BundleInv
  <2>4. QED
    BY <1>5, <2>2, <2>3 DEF ReadMap
<1>6. CASE JudgeBundles
  <2>1. PICK kinds, status, severity :
           /\ kinds = {t[1] : t \in matches} /\ severity = MatchSeverity(kinds)
           /\ status = IF matches # {} THEN MatchStatus(kinds) ELSE IF noted THEN "info" ELSE "pass"
    OBVIOUS
  <2>2. bundleRow' = {Rated("secrets-in-bundles", status, severity)} /\ bundleStep' = "done"
        /\ UNCHANGED <<matches, noted, secretsRead, unread>>
    BY <1>6, <2>1 DEF JudgeBundles
  <2>3. status = "pass" => matches = {} /\ ~noted
    BY <2>1 DEF MatchStatus
  <2>4. matches = {} => ~Full(matches)
    <3>1. matches = {} => Cardinality(matches) = 0
      BY FS_EmptySet, Zenon
    <3>2. QED
      BY <3>1, BundleAssumption DEF Full
  <2>5. status = "pass" => unread \subseteq {"bad address", "not a map"}
    BY <1>0, <2>3, <2>4 DEF BundleNotes
  <2>6. \A r \in bundleRow' : r.status = status
    BY <2>2 DEF Rated
  <2>7. BundleNotes'
    BY <1>0, <2>2, <2>5, <2>6 DEF BundleNotes, BundlesPassHonestly, Full
  <2>8. QED
    BY <1>1, <2>2, <2>7 DEF BundleInv
<1>7. CASE UNCHANGED bundleVars
  <2>1. BundleLimits' /\ BundleReport'
    BY <1>0, <1>7 DEF bundleVars, BundleLimits, BundleReport, Full
  <2>2. BundleNotes'
    BY <1>0, <1>7 DEF bundleVars, BundleNotes, BundlesPassHonestly, Full
  <2>3. QED
    BY <2>1, <2>2 DEF BundleInv
<1>8. QED
  BY <1>2, <1>3, <1>4, <1>5, <1>6, <1>7 DEF BundleNext

-----------------------------------------------------------------------------
(* The projects of a site.                                                 *)

\* What was sent and what is left stay within the budget.
BaasBudget ==
    /\ baasStep \in {"home", "first", "second", "done"}
    /\ budget \in Nat /\ requests \in Nat /\ requests + budget <= GlobalProbeBudget
    /\ baasStep = "second" => budget >= 1 /\ projects # {}

\* A project is still to be probed, or was, or was passed over.
BaasProjects ==
    /\ \A p \in projects : p[2] \in Nat /\ p \notin probed /\ p \notin notProbed
    /\ probed \intersect notProbed = {}
    /\ baasStep = "home" => projects = {} /\ probed = {}

\* What was found open is of a project that was probed, or is asked once more.
BaasFound ==
    /\ \A o \in opened : o[1] \in probed \/ (baasStep = "second" /\ o[1] = Project)
    /\ baasRow = IF baasStep = "done" THEN {Evaluate(Platform(p[1])) : p \in probed \union notProbed} ELSE {}

BaasInv == BaasBudget /\ BaasProjects /\ BaasFound

\* There is a next project as long as there are any.
LEMMA NextProject == ASSUME \A p \in projects : p[2] \in Nat, projects # {} PROVE Project \in projects
<1> DEFINE numbers == {p[2] : p \in projects}
<1>1. numbers \subseteq Nat /\ numbers # {}
  OBVIOUS
<1>2. PICK n \in numbers : \A m \in numbers : ~(<<m, n>> \in OpToRel(<, Nat))
  BY <1>1, NatLessThanWellFounded, WFMin, Zenon
<1>3. \A m \in numbers : n <= m
  <2> TAKE m \in numbers
  <2>1. m \in Nat /\ n \in Nat
    BY <1>1
  <2>2. ~(m < n)
    BY <1>2, <2>1 DEF OpToRel
  <2>3. QED
    BY <2>1, <2>2
<1>4. PICK p \in projects : p[2] = n
  BY <1>2
<1>5. \E q \in projects : \A r \in projects : q[2] <= r[2]
  BY <1>3, <1>4
<1>6. QED
  BY <1>5 DEF Project

\* The row of a platform is named for it, and says so when a project of it was found open.
LEMMA EvaluateSays ==
  ASSUME NEW platform
  PROVE  /\ Evaluate(platform).id = PlatformCheckId[platform]
         /\ (\E o \in opened : Platform(o[1][1]) = platform) => Evaluate(platform).status # "info"
<1> DEFINE found == {o \in opened : Platform(o[1][1]) = platform}
<1>1. \/ found = {} /\ Evaluate(platform) = Rated(PlatformCheckId[platform], "info", "info")
      \/ found # {} /\ Evaluate(platform) = Rated(PlatformCheckId[platform], "warn", "low")
      \/ found # {} /\ Evaluate(platform) = Rated(PlatformCheckId[platform], "fail", "high")
      \/ found # {} /\ Evaluate(platform) = Rated(PlatformCheckId[platform], "warn", "medium")
  BY DEF Evaluate
<1>2. (\E o \in opened : Platform(o[1][1]) = platform) => found # {}
  OBVIOUS
<1> HIDE DEF found
<1>3. QED
  BY <1>1, <1>2 DEF Rated

LEMMA BaasStart == BaasInit => BaasInv
BY BaasAssumption DEF BaasInit, BaasInv, BaasBudget, BaasProjects, BaasFound

LEMMA BaasStays == BaasInv /\ [BaasNext]_baasVars => BaasInv'
<1> SUFFICES ASSUME BaasInv, [BaasNext]_baasVars PROVE BaasInv'
  OBVIOUS
<1>0. BaasBudget /\ BaasProjects /\ BaasFound
  BY DEF BaasInv
<1>a. projects # {} => Project \in projects
  BY <1>0, NextProject DEF BaasProjects
<1>b. GlobalProbeBudget \in Nat
  BY BaasAssumption
<1>1. CASE FindProjects
  <2>1. baasStep = "home" /\ projects = {} /\ probed = {} /\ opened = {} /\ baasRow = {}
    BY <1>0, <1>1 DEF FindProjects, BaasProjects, BaasFound
  <2>2. PICK home \in BaasSites : projects' = Capped(home) /\ notProbed' = Fingerprints(home) \ Capped(home)
    BY <1>1 DEF FindProjects
  <2>3. baasStep' = "first" /\ UNCHANGED <<budget, probed, opened, requests, baasRow>>
    BY <1>1 DEF FindProjects
  <2>4. home \in Seq(Kinds)
    BY BaasAssumption
  <2>5. \A p \in projects' : p[2] \in Nat /\ p \notin notProbed'
    BY <2>2, <2>4 DEF Capped, Fingerprints
  <2>6. BaasBudget' /\ BaasProjects'
    BY <1>0, <2>1, <2>3, <2>5 DEF BaasBudget, BaasProjects
  <2>7. BaasFound'
    BY <2>1, <2>3 DEF BaasFound
  <2>8. QED
    BY <2>6, <2>7 DEF BaasInv
<1>2. CASE PassOver
  <2>1. /\ baasStep = "first" /\ projects # {} /\ notProbed' = notProbed \union {Project}
        /\ projects' = projects \ {Project}
        /\ UNCHANGED <<baasStep, anonKey, budget, probed, opened, requests, baasRow>>
    BY <1>2 DEF PassOver
  <2>2. BaasBudget' /\ BaasProjects'
    BY <1>0, <1>a, <2>1 DEF BaasBudget, BaasProjects
  <2>3. BaasFound'
    BY <1>0, <2>1 DEF BaasFound
  <2>4. QED
    BY <2>2, <2>3 DEF BaasInv
<1>3. ASSUME NEW answer \in ProbeAnswers, Spend(answer), budget >= 1 PROVE
        budget' \in Nat /\ requests' \in Nat /\ requests' + budget' <= GlobalProbeBudget /\ budget' = budget - 1
  BY <1>0, <1>3, <1>b DEF BaasBudget, Spend
<1>4. CASE FirstProbe
  <2>1. PICK answer \in ProbeAnswers :
         /\ Spend(answer)
         /\ opened' = IF answer = "open" THEN opened \union {<<Project, "without key">>} ELSE opened
         /\ IF AsksAgain(answer)
            THEN baasStep' = "second" /\ UNCHANGED <<projects, probed>>
            ELSE /\ baasStep' = "first" /\ projects' = projects \ {Project}
                 /\ probed' = probed \union {Project}
    BY <1>4 DEF FirstProbe
  <2>2. baasStep = "first" /\ projects # {} /\ budget > 0 /\ UNCHANGED <<notProbed, baasRow>>
    BY <1>4 DEF FirstProbe
  <2>3. budget' \in Nat /\ requests' \in Nat /\ requests' + budget' <= GlobalProbeBudget /\ budget' = budget - 1
    <3>1. budget >= 1
      BY <1>0, <2>2 DEF BaasBudget
    <3>2. QED
      BY <1>3, <2>1, <3>1
  <2>4. \A o \in opened' : o[1] \in probed \/ o[1] = Project
    <3>1. PICK key : opened' \subseteq opened \union {<<Project, key>>}
      BY <2>1
    <3>2. \A o \in opened : o[1] \in probed \/ o[1] = Project
      BY <1>0 DEF BaasFound
    <3>3. <<Project, key>>[1] = Project
      OBVIOUS
    <3>4. QED
      BY <3>1, <3>2, <3>3, Zenon
  <2>5. CASE AsksAgain(answer)
    <3>1. baasStep' = "second" /\ UNCHANGED <<projects, probed>> /\ budget > 1
      BY <2>1, <2>5 DEF AsksAgain
    <3>2. Project' = Project
      BY <3>1 DEF Project
    <3>3. BaasBudget' /\ BaasProjects'
      BY <1>0, <2>2, <2>3, <3>1 DEF BaasBudget, BaasProjects
    <3>4. BaasFound'
      BY <1>0, <2>2, <2>4, <3>1, <3>2 DEF BaasFound
    <3>5. QED
      BY <3>3, <3>4 DEF BaasInv
  <2>6. CASE ~AsksAgain(answer)
    <3>1. baasStep' = "first" /\ projects' = projects \ {Project} /\ probed' = probed \union {Project}
      BY <2>1, <2>6
    <3>2. BaasBudget' /\ BaasProjects'
      BY <1>0, <1>a, <2>2, <2>3, <3>1 DEF BaasBudget, BaasProjects
    <3>3. BaasFound'
      BY <1>0, <2>2, <2>4, <3>1 DEF BaasFound
    <3>4. QED
      BY <3>2, <3>3 DEF BaasInv
  <2>7. QED
    BY <2>5, <2>6
<1>5. CASE SecondProbe
  <2>1. PICK answer \in ProbeAnswers :
         /\ Spend(answer)
         /\ opened' = IF answer = "open"
                      THEN opened \union {<<Project, IF Project[1] = "supabase" THEN "with key" ELSE "without key">>}
                      ELSE opened
    BY <1>5 DEF SecondProbe
  <2>2. /\ baasStep = "second" /\ probed' = probed \union {Project} /\ projects' = projects \ {Project}
        /\ baasStep' = "first" /\ UNCHANGED <<notProbed, baasRow>>
    BY <1>5 DEF SecondProbe
  <2>3. budget' \in Nat /\ requests' \in Nat /\ requests' + budget' <= GlobalProbeBudget /\ projects # {}
    BY <1>0, <1>3, <2>1, <2>2 DEF BaasBudget
  <2>4. \A o \in opened' : o[1] \in probed \/ o[1] = Project
    <3>1. PICK key : opened' \subseteq opened \union {<<Project, key>>}
      BY <2>1
    <3>2. \A o \in opened : o[1] \in probed \/ o[1] = Project
      BY <1>0 DEF BaasFound
    <3>3. <<Project, key>>[1] = Project
      OBVIOUS
    <3>4. QED
      BY <3>1, <3>2, <3>3, Zenon
  <2>5. BaasBudget' /\ BaasProjects'
    BY <1>0, <1>a, <2>2, <2>3 DEF BaasBudget, BaasProjects
  <2>6. BaasFound'
    BY <1>0, <2>2, <2>4 DEF BaasFound
  <2>7. QED
    BY <2>5, <2>6 DEF BaasInv
<1>6. CASE JudgeProjects
  <2>1. /\ baasStep = "first" /\ baasStep' = "done"
        /\ baasRow' = {Evaluate(Platform(p[1])) : p \in probed \union notProbed}
        /\ UNCHANGED <<projects, budget, probed, notProbed, opened, requests>>
    BY <1>6 DEF JudgeProjects
  <2>2. BaasBudget' /\ BaasProjects'
    BY <1>0, <2>1 DEF BaasBudget, BaasProjects
  <2>3. baasRow' = {Evaluate(Platform(p[1])) : p \in probed \union notProbed}'
    BY <2>1 DEF Evaluate
  <2>4. BaasFound'
    BY <1>0, <2>1, <2>3 DEF BaasFound
  <2>5. QED
    BY <2>2, <2>4 DEF BaasInv
<1>7. CASE UNCHANGED baasVars
  <2>1. BaasBudget' /\ BaasProjects'
    BY <1>0, <1>7 DEF baasVars, BaasBudget, BaasProjects
  <2>2. BaasFound'
    BY <1>0, <1>7 DEF baasVars, BaasFound, Project, Evaluate
  <2>3. QED
    BY <2>1, <2>2 DEF BaasInv
<1>8. QED
  BY <1>1, <1>2, <1>4, <1>5, <1>6, <1>7 DEF BaasNext

\* What the invariant says of a site that was probed.
LEMMA BaasHolds == BaasInv => BudgetHolds /\ OpenIsReported
<1> SUFFICES ASSUME BaasInv PROVE BudgetHolds /\ OpenIsReported
  OBVIOUS
<1>1. BudgetHolds
  BY BaasAssumption DEF BaasInv, BaasBudget, BudgetHolds
<1>2. ASSUME baasStep = "done", NEW o \in opened
      PROVE \E r \in baasRow : r.id = PlatformCheckId[Platform(o[1][1])] /\ r.status # "info"
  <2>1. o[1] \in probed
    BY <1>2 DEF BaasInv, BaasFound
  <2>2. Evaluate(Platform(o[1][1])) \in baasRow
    BY <1>2, <2>1 DEF BaasInv, BaasFound
  <2>3. QED
    BY <2>2, EvaluateSays
<1>3. QED
  BY <1>1, <1>2 DEF OpenIsReported, BaasInv, BaasProjects

-----------------------------------------------------------------------------
(* The active tests.                                                       *)

\* Only the test that runs has found something, and its row is there.
TestsInOrder ==
    /\ testNo \in 0..Over /\ hits \in Nat
    /\ hits > 0 => testNo \in 1..Len(Tests) /\ Test \in Probing /\ Report(Test) \in testRows

\* Each row is that of a test that has begun.
RowsOfTests ==
    \A r \in testRows : \E k \in 1..Len(Tests) :
        r.id = Tests[k] /\ k <= testNo /\ (k = testNo => hits > 0 /\ r = Report(Test))

\* Each test that is over has a row.
TestsHaveRows == \A k \in 1..Len(Tests) : k < testNo => \E r \in testRows : r.id = Tests[k]

ActiveInv ==
    /\ TestsInOrder
    /\ \/ testNo = Over /\ testRows = {Result("active-tests", "info")}
       \/ RowsOfTests /\ TestsHaveRows /\ TestsSayOneThing

LEMMA ResultIs == ASSUME NEW id, NEW status PROVE Result(id, status).id = id /\ Result(id, status).status = status
BY DEF Result, Rated

LEMMA ReportIs == ASSUME NEW test PROVE Report(test).id = test
BY ResultIs DEF Report

LEMMA TestsDiffer == Len(Tests) = 11 /\ Over = 12 /\ \A i, j \in 1..11 : Tests[i] = Tests[j] => i = j
<1>1. Len(Tests) = 11
  BY DEF Tests
<1>2. \A i, j \in 1..11 : Tests[i] = Tests[j] => i = j
  BY DEF Tests
<1>3. QED
  BY <1>1, <1>2 DEF Over

LEMMA ActiveStart == ActiveInit => ActiveInv
BY TestsDiffer DEF ActiveInit, ActiveInv, TestsInOrder, RowsOfTests, TestsHaveRows, TestsSayOneThing

\* A test that ends without a hit writes its first row, one with a hit has it already.
LEMMA NextTest ==
  ASSUME TestsInOrder, RowsOfTests, TestsHaveRows, TestsSayOneThing, testNo \in 1..Len(Tests),
         testNo' = testNo + 1, hits' = 0,
         NEW row, row.id = Test, testRows' = IF hits = 0 THEN testRows \union {row} ELSE testRows
  PROVE  ActiveInv'
<1>1. Len(Tests) = 11 /\ Over = 12 /\ testNo \in 1..11 /\ hits \in Nat
  BY TestsDiffer DEF TestsInOrder
<1>2. TestsInOrder'
  BY <1>1 DEF TestsInOrder
<1>3. RowsOfTests'
  <2> SUFFICES ASSUME NEW r \in testRows' PROVE \E k \in 1..11 : r.id = Tests[k] /\ k < testNo'
    BY <1>1 DEF RowsOfTests
  <2>1. CASE r \in testRows
    BY <1>1, <2>1 DEF RowsOfTests
  <2>2. CASE r = row
    BY <1>1, <2>2 DEF Test
  <2>3. QED
    BY <2>1, <2>2
<1>4. TestsHaveRows'
  <2> SUFFICES ASSUME NEW k \in 1..11, k <= testNo PROVE \E r \in testRows' : r.id = Tests[k]
    BY <1>1 DEF TestsHaveRows
  <2>1. CASE k < testNo
    BY <1>1, <2>1 DEF TestsHaveRows
  <2>2. CASE k = testNo /\ hits = 0
    BY <2>2 DEF Test
  <2>3. CASE k = testNo /\ hits > 0
    <3>1. Report(Test) \in testRows' /\ Report(Test).id = Tests[k]
      BY <1>1, <2>3, ReportIs DEF TestsInOrder, Test
    <3>2. QED
      BY <3>1
  <2>4. QED
    BY <1>1, <2>1, <2>2, <2>3
<1>5. TestsSayOneThing'
  <2>1. ASSUME hits = 0, NEW r \in testRows PROVE r.id # row.id
    BY <1>1, <2>1, TestsDiffer DEF RowsOfTests, Test
  <2>2. QED
    BY <2>1 DEF TestsSayOneThing
<1>6. QED
  BY <1>2, <1>3, <1>4, <1>5 DEF ActiveInv

LEMMA ActiveStays == ActiveInv /\ [ActiveNext]_activeVars => ActiveInv'
<1> SUFFICES ASSUME ActiveInv, [ActiveNext]_activeVars PROVE ActiveInv'
  OBVIOUS
<1>0. TestsInOrder /\ Len(Tests) = 11 /\ Over = 12
  BY TestsDiffer DEF ActiveInv
<1>1. CASE BeginTests
  <2>1. testNo = 0 /\ hits = 0 /\ hits' = hits
    BY <1>0, <1>1 DEF BeginTests, TestsInOrder
  <2>2. testRows = {}
    BY <1>0, <2>1 DEF ActiveInv, RowsOfTests
  <2>3. CASE testNo' = Over /\ testRows' = {Result("active-tests", "info")}
    BY <1>0, <2>1, <2>3 DEF ActiveInv, TestsInOrder
  <2>4. CASE testNo' = 1 /\ UNCHANGED testRows
    BY <1>0, <2>1, <2>2, <2>4 DEF ActiveInv, TestsInOrder, RowsOfTests, TestsHaveRows, TestsSayOneThing
  <2>5. QED
    BY <1>1, <2>3, <2>4 DEF BeginTests
<1>2. ASSUME testNo \in 1..Len(Tests) PROVE RowsOfTests /\ TestsHaveRows /\ TestsSayOneThing
  BY <1>0, <1>2 DEF ActiveInv
<1>3. CASE PassiveTest
  <2>1. testNo \in 1..Len(Tests) /\ testNo' = testNo + 1 /\ hits' = hits
    BY <1>3 DEF PassiveTest
  <2>2. hits = 0
    <3>1. Test \notin Probing
      BY <1>3 DEF PassiveTest, PassiveStatus, Probing
    <3>2. QED
      BY <1>0, <3>1 DEF TestsInOrder
  <2>3. PICK status : testRows' = testRows \union {Result(Test, status)}
    BY <1>3 DEF PassiveTest
  <2>4. Result(Test, status).id = Test
    BY ResultIs
  <2>5. QED
    BY <1>0, <1>2, <2>1, <2>2, <2>3, <2>4, NextTest
<1>4. CASE Probe
  <2>1. testNo \in 1..11 /\ Test \in Probing /\ testNo' = testNo /\ Test' = Test
    BY <1>0, <1>4 DEF Probe, Test
  <2>2. CASE hits' = hits /\ testRows' = testRows
    BY <1>0, <1>2, <2>1, <2>2 DEF ActiveInv, TestsInOrder, RowsOfTests, TestsHaveRows, TestsSayOneThing
  <2>3. CASE hits' = hits + 1 /\ testRows' = testRows \union {Report(Test)}
    <3>1. hits' > 0 /\ hits' \in Nat /\ Report(Test)' = Report(Test) /\ Report(Test).id = Test
      BY <1>0, <2>1, <2>3, ReportIs DEF TestsInOrder, Report
    <3>2. TestsInOrder'
      BY <1>0, <2>1, <2>3, <3>1 DEF TestsInOrder
    <3>3. RowsOfTests'
      <4> SUFFICES ASSUME NEW r \in testRows'
                   PROVE \E k \in 1..11 : r.id = Tests[k] /\ k <= testNo /\ (k = testNo => r = Report(Test))
        BY <1>0, <2>1, <3>1 DEF RowsOfTests
      <4>1. CASE r \in testRows
        BY <1>0, <1>2, <2>1, <4>1 DEF RowsOfTests
      <4>2. CASE r = Report(Test)
        BY <2>1, <3>1, <4>2 DEF Test
      <4>3. QED
        BY <2>3, <4>1, <4>2
    <3>4. TestsHaveRows'
      BY <1>0, <1>2, <2>1, <2>3 DEF TestsHaveRows
    <3>5. TestsSayOneThing'
      <4>1. ASSUME NEW r \in testRows, r.id = Report(Test).id PROVE r = Report(Test)
        <5>1. r.id = Tests[testNo]
          BY <3>1, <4>1 DEF Test
        <5>2. QED
          BY <1>0, <1>2, <2>1, <4>1, <5>1, TestsDiffer DEF RowsOfTests
      <4>2. QED
        BY <1>0, <1>2, <2>1, <2>3, <4>1 DEF TestsSayOneThing
    <3>6. QED
      BY <3>2, <3>3, <3>4, <3>5 DEF ActiveInv
  <2>4. QED
    BY <1>4, <2>2, <2>3 DEF Probe
<1>5. CASE EndTest
  <2>1. /\ testNo \in 1..Len(Tests) /\ testNo' = testNo + 1 /\ hits' = 0
        /\ testRows' = IF hits = 0 THEN testRows \union {Fallback(Test)} ELSE testRows
    BY <1>5 DEF EndTest
  <2>2. Fallback(Test).id = Test
    BY ResultIs DEF Fallback
  <2>3. PICK row : row = Fallback(Test)
    OBVIOUS
  <2>4. QED
    BY <1>0, <1>2, <2>1, <2>2, <2>3, NextTest
<1>6. CASE UNCHANGED activeVars
  BY <1>0, <1>6 DEF activeVars, ActiveInv, TestsInOrder, RowsOfTests, TestsHaveRows, TestsSayOneThing, Test, Report
<1>7. QED
  BY <1>1, <1>3, <1>4, <1>5, <1>6 DEF ActiveNext

\* What the invariant says of the rows of a page.
LEMMA ActiveHolds == ActiveInv => TestsSayOneThing
BY DEF ActiveInv, TestsSayOneThing

\* The burst is as long as it gets before it is judged.
BurstInv ==
    /\ burst \in Seq(BurstAnswers) /\ Len(burst) <= BurstCount
    /\ burstRow # {} => Len(burst) = BurstCount
    /\ BurstPassesForALimit

LEMMA BurstStart == BurstInit => BurstInv
BY ActiveAssumption DEF BurstInit, BurstInv, BurstPassesForALimit

LEMMA BurstStays == BurstInv /\ [BurstNext]_burstVars => BurstInv'
<1> SUFFICES ASSUME BurstInv, [BurstNext]_burstVars PROVE BurstInv'
  OBVIOUS
<1>0. burst \in Seq(BurstAnswers) /\ Len(burst) \in Nat /\ BurstCount \in Nat
  BY ActiveAssumption DEF BurstInv
<1>1. CASE Burst
  <2>1. PICK answer \in BurstAnswers : burst' = Append(burst, answer)
    BY <1>1 DEF Burst
  <2>2. burst' \in Seq(BurstAnswers) /\ Len(burst') = Len(burst) + 1
    BY <1>0, <2>1
  <2>3. burstRow = {} /\ burstRow' = {} /\ Len(burst) < BurstCount
    BY <1>0, <1>1 DEF Burst, BurstInv
  <2>4. QED
    BY <1>0, <2>2, <2>3 DEF BurstInv, BurstPassesForALimit
<1>2. CASE EndBurst
  <2>1. Len(burst) = BurstCount /\ burstRow' = {JudgeBurst(burst)} /\ burst' = burst
    BY <1>2 DEF EndBurst
  <2>2. JudgeBurst(burst).status = "pass" => Contains(burst, "limited") \/ HitZero(burst)
    BY ResultIs DEF JudgeBurst
  <2>3. HitZero(burst) => \E i \in 1..BurstCount : /\ burst[i] = "nothing remaining"
                                                   /\ \E k \in 1..(i - 1) : burst[k] = "remaining"
    <3>1. ASSUME NEW i \in 1..Len(burst), NEW j \in 1..Len(burst), i < j
          PROVE  j \in 1..BurstCount /\ i \in 1..(j - 1)
      BY <1>0, <2>1, <3>1
    <3>2. QED
      BY <3>1 DEF HitZero
  <2>4. BurstPassesForALimit'
    BY <2>1, <2>2, <2>3 DEF BurstPassesForALimit
  <2>5. QED
    BY <1>0, <2>1, <2>4 DEF BurstInv
<1>3. CASE UNCHANGED burstVars
  BY <1>0, <1>3 DEF burstVars, BurstInv, BurstPassesForALimit
<1>4. QED
  BY <1>1, <1>2, <1>3 DEF BurstNext

-----------------------------------------------------------------------------
(* The flow of the login.                                                  *)

CaptureFields == {"forms", "reset", "session", "seenBy", "mfa", "policy", "attempts"}
IsCapture(c)  == /\ DOMAIN c = CaptureFields
                 /\ c.session \in {"none", "not logged in", "good", "weak"} /\ c.seenBy \in Nat

AuthTyped == authScan \in Nat /\ lockedBy \in Nat /\ IsCapture(capture)

\* A lock is of this scan or an earlier one, and of an earlier one as long as the burst is to come.
LocksInOrder ==
    /\ lockedBy <= authScan
    /\ authStep \in {"forms", "reset", "session"} => lockedBy < authScan
    /\ capture.seenBy # 0 => capture.seenBy < authScan

\* MFA is known only of somebody who is logged in; there are rows only between two flows.
AuthKnown ==
    /\ capture.mfa # "none" => capture.session \in {"good", "weak"}
    /\ authStep \in {"forms", "reset", "session"} => capture.mfa = "none"
    /\ authStep # "idle" => authRows = {}
    /\ AuthJudgedOnSight

AuthInv == AuthTyped /\ LocksInOrder /\ AuthKnown

LEMMA NoCaptureYet == IsCapture(NoCapture) /\ NoCapture.seenBy = 0 /\ NoCapture.mfa = "none"
BY DEF NoCapture, CaptureFields, IsCapture

\* A field that has nothing to do with the login.
LEMMA FieldSet ==
  ASSUME NEW c, IsCapture(c), NEW x \in CaptureFields \ {"session", "seenBy", "mfa"}, NEW v,
         NEW d, d = [c EXCEPT ![x] = v]
  PROVE  IsCapture(d) /\ d.seenBy = c.seenBy /\ d.mfa = c.mfa /\ d.session = c.session
BY DEF IsCapture, CaptureFields

LEMMA AuthStart == AuthInit => AuthInv
BY NoCaptureYet DEF AuthInit, AuthInv, AuthTyped, LocksInOrder, AuthKnown, AuthJudgedOnSight

\* A step of the flow that leaves the lock, what is known of the login, and the rows alone.
LEMMA FlowGoesOn ==
  ASSUME AuthInv, authStep # "idle", authStep' # "idle", authRows' = authRows, authScan' = authScan,
         lockedBy' = lockedBy, IsCapture(capture'), capture'.seenBy = capture.seenBy,
         capture'.mfa = capture.mfa, capture'.session = capture.session,
         authStep' \in {"forms", "reset", "session"} => authStep \in {"forms", "reset", "session"}
  PROVE  AuthInv'
<1>1. AuthTyped' /\ LocksInOrder'
  BY DEF AuthInv, AuthTyped, LocksInOrder
<1>2. AuthKnown'
  BY DEF AuthInv, AuthKnown, AuthJudgedOnSight
<1>3. QED
  BY <1>1, <1>2 DEF AuthInv

LEMMA AuthStays == AuthInv /\ [AuthNext]_authVars => AuthInv'
<1> SUFFICES ASSUME AuthInv, [AuthNext]_authVars PROVE AuthInv'
  OBVIOUS
<1>0. AuthTyped /\ LocksInOrder /\ AuthKnown
  BY DEF AuthInv
<1>a. authScan \in Nat /\ lockedBy \in Nat /\ IsCapture(capture)
  BY <1>0 DEF AuthTyped
<1>1. CASE StartFlow
  <2>1. /\ authScan' = authScan + 1 /\ lockedBy' = lockedBy /\ capture' = NoCapture
        /\ \/ authStep' = "forms" /\ authRows' = {}
           \/ authStep' = "idle" /\ authRows' = SkipFindings
    BY <1>1 DEF StartFlow, siteVars
  <2>2. AuthTyped' /\ LocksInOrder'
    BY <1>0, <1>a, <2>1, NoCaptureYet DEF AuthTyped, LocksInOrder
  <2>3. \A r \in SkipFindings : r.status = "info"
    BY ResultIs DEF SkipFindings
  <2>5. AuthJudgedOnSight'
    BY <2>1, <2>3 DEF AuthJudgedOnSight
  <2>6. AuthKnown'
    BY <2>1, <2>5, NoCaptureYet DEF AuthKnown
  <2>7. QED
    BY <2>2, <2>6 DEF AuthInv
<1>2. CASE DiscoverForms
  <2>1. PICK quality : capture' = [capture EXCEPT !.forms = quality]
    BY <1>2 DEF DiscoverForms
  <2>2. /\ authStep = "forms" /\ authStep' \in {"reset", "session"}
        /\ UNCHANGED <<authScan, lockedBy, authRows>>
    BY <1>2 DEF DiscoverForms, siteVars, After
  <2>3. /\ IsCapture(capture') /\ capture'.seenBy = capture.seenBy
        /\ capture'.mfa = capture.mfa /\ capture'.session = capture.session
    BY <1>a, <2>1 DEF IsCapture, CaptureFields
  <2>4. QED
    BY <2>2, <2>3, FlowGoesOn
<1>3. CASE ProbeReset
  <2>1. PICK answers : capture' = [capture EXCEPT !.reset = answers]
    BY <1>3 DEF ProbeReset
  <2>2. /\ authStep = "reset" /\ authStep' \in {"reset", "session"}
        /\ UNCHANGED <<authScan, lockedBy, authRows>>
    BY <1>3 DEF ProbeReset, After
  <2>3. /\ IsCapture(capture') /\ capture'.seenBy = capture.seenBy
        /\ capture'.mfa = capture.mfa /\ capture'.session = capture.session
    BY <1>a, <2>1, FieldSet DEF CaptureFields
  <2>4. QED
    BY <2>2, <2>3, FlowGoesOn
<1>4. CASE ProbeSession
  <2>1. authStep = "session" /\ authStep' = "policy" /\ UNCHANGED <<authScan, lockedBy, authRows>>
    BY <1>4 DEF ProbeSession, After
  <2>2. capture.mfa = "none" /\ lockedBy < authScan /\ authRows = {}
    BY <1>0, <2>1 DEF LocksInOrder, AuthKnown
  <2>3. ASSUME NEW cookies \in {"good", "weak"}, NEW mfa \in {"enforced", "available", "none"},
               capture' = [capture EXCEPT !.session = cookies, !.mfa = mfa]
        PROVE  /\ IsCapture(capture') /\ capture'.seenBy = capture.seenBy
               /\ capture'.mfa # "none" => capture'.session \in {"good", "weak"}
    BY <1>a, <2>3 DEF IsCapture, CaptureFields
  <2>4. ASSUME capture' = [capture EXCEPT !.session = "not logged in", !.seenBy = lockedBy]
        PROVE  IsCapture(capture') /\ capture'.seenBy = lockedBy /\ capture'.mfa = "none"
    BY <1>a, <2>2, <2>4 DEF IsCapture, CaptureFields
  <2>5. /\ IsCapture(capture') /\ (capture'.seenBy = lockedBy \/ capture'.seenBy = capture.seenBy)
        /\ capture'.mfa # "none" => capture'.session \in {"good", "weak"}
    BY <1>4, <1>a, <2>2, <2>3, <2>4 DEF ProbeSession
  <2>6. AuthTyped' /\ LocksInOrder'
    BY <1>0, <1>a, <2>1, <2>2, <2>5 DEF AuthTyped, LocksInOrder
  <2>7. AuthKnown'
    BY <2>1, <2>2, <2>5 DEF AuthKnown, AuthJudgedOnSight
  <2>8. QED
    BY <2>6, <2>7 DEF AuthInv
<1>5. CASE ProbePolicy
  <2>1. PICK policy : capture' = [capture EXCEPT !.policy = policy]
    BY <1>5 DEF ProbePolicy
  <2>2. authStep = "policy" /\ authStep' = "attempts" /\ UNCHANGED <<authScan, lockedBy, authRows>>
    BY <1>5 DEF ProbePolicy, siteVars, After
  <2>3. /\ IsCapture(capture') /\ capture'.seenBy = capture.seenBy
        /\ capture'.mfa = capture.mfa /\ capture'.session = capture.session
    BY <1>a, <2>1 DEF IsCapture, CaptureFields
  <2>4. QED
    BY <2>2, <2>3, FlowGoesOn
<1>6. CASE WrongLogin
  <2>1. authStep = "attempts" /\ authStep' \in {"attempts", "judge"} /\ UNCHANGED <<authScan, authRows>>
    BY <1>6 DEF WrongLogin, After
  <2>2. PICK answers : capture' = [capture EXCEPT !.attempts = answers]
    BY <1>6 DEF WrongLogin
  <2>3. lockedBy' \in {lockedBy, authScan}
    BY <1>6 DEF WrongLogin
  <2>4. /\ IsCapture(capture') /\ capture'.seenBy = capture.seenBy
        /\ capture'.mfa = capture.mfa /\ capture'.session = capture.session
    BY <1>a, <2>2, FieldSet DEF CaptureFields
  <2>5. AuthTyped' /\ LocksInOrder'
    BY <1>0, <1>a, <2>1, <2>3, <2>4 DEF AuthTyped, LocksInOrder
  <2>6. AuthKnown'
    BY <1>0, <2>1, <2>4 DEF AuthKnown, AuthJudgedOnSight
  <2>7. QED
    BY <2>5, <2>6 DEF AuthInv
<1>7. CASE NoAttempts
  <2>1. authStep = "attempts" /\ authStep' = "judge" /\ UNCHANGED <<authScan, lockedBy, authRows, capture>>
    BY <1>7 DEF NoAttempts, siteVars, After
  <2>2. QED
    BY <1>a, <2>1, FlowGoesOn
<1>8. CASE JudgeFlow
  <2>1. authStep' = "idle" /\ UNCHANGED <<authScan, lockedBy, capture>>
    BY <1>8 DEF JudgeFlow, siteVars
  <2>2. AuthTyped' /\ LocksInOrder'
    BY <1>0, <2>1 DEF AuthTyped, LocksInOrder
  <2>3. /\ SessionFinding # "info" => capture.session \in {"good", "weak"}
        /\ MfaFinding # "info" => capture.session \in {"good", "weak"}
        /\ RateLimitFinding = "pass" => Contains(capture.attempts, "locked")
        /\ EnumerationFinding # "info" => ~Contains(capture.reset, 0)
    BY <1>0, <1>a DEF AuthKnown, IsCapture, SessionFinding, MfaFinding, RateLimitFinding, EnumerationFinding, Verdict
  <2>4. \A r \in authRows' :
           /\ r.id = "auth-session-security" => r.status = SessionFinding
           /\ r.id = "auth-mfa" => r.status = MfaFinding
           /\ r.id = "auth-rate-limit" => r.status = RateLimitFinding
           /\ r.id = "auth-user-enumeration" => r.status = EnumerationFinding
    BY <1>8, ResultIs DEF JudgeFlow
  <2>5. AuthJudgedOnSight'
    BY <2>1, <2>3, <2>4 DEF AuthJudgedOnSight
  <2>6. AuthKnown'
    BY <1>0, <2>1, <2>5 DEF AuthKnown
  <2>7. QED
    BY <2>2, <2>6 DEF AuthInv
<1>9. CASE BrowserFails
  <2>1. authStep # "idle" /\ authStep' = "judge" /\ capture' = NoCapture /\ UNCHANGED <<authScan, lockedBy, authRows>>
    BY <1>9 DEF BrowserFails, siteVars
  <2>2. AuthTyped' /\ LocksInOrder'
    BY <1>0, <1>a, <2>1, NoCaptureYet DEF AuthTyped, LocksInOrder
  <2>3. AuthKnown'
    BY <1>0, <2>1, NoCaptureYet DEF AuthKnown, AuthJudgedOnSight
  <2>4. QED
    BY <2>2, <2>3 DEF AuthInv
<1>10. CASE SiteForgets
  <2>1. authStep = "idle" /\ lockedBy' = 0 /\ UNCHANGED <<authScan, authStep, capture, authRows>>
    BY <1>10 DEF SiteForgets
  <2>2. AuthTyped' /\ LocksInOrder'
    BY <1>0, <1>a, <2>1 DEF AuthTyped, LocksInOrder
  <2>3. AuthKnown'
    BY <1>0, <2>1 DEF AuthKnown, AuthJudgedOnSight
  <2>4. QED
    BY <2>2, <2>3 DEF AuthInv
<1>11. CASE UNCHANGED authVars
  <2>1. UNCHANGED <<authScan, authStep, lockedBy, capture, authRows>>
    BY <1>11 DEF authVars, siteVars
  <2>2. QED
    BY <2>1 DEF AuthInv, AuthTyped, LocksInOrder, AuthKnown, AuthJudgedOnSight
<1>12. QED
  BY <1>1, <1>2, <1>3, <1>4, <1>5, <1>6, <1>7, <1>8, <1>9, <1>10, <1>11 DEF AuthNext

-----------------------------------------------------------------------------
(* The upload of files.                                                    *)

Bad == {"low", "medium", "high"}

\* What the site stored weighs on its test, and stays there.
UploadInv ==
    /\ \A id \in UploadIds : worst[id].severity \in {"none", "info"} \union Bad
    /\ \A s \in stored : s[1] \in UploadIds => worst[s[1]].severity \in Bad
    /\ StoredIsReported

LEMMA UploadStart == UploadInit => UploadInv
BY DEF UploadInit, UploadInv, Nothing, NoOutcome, StoredIsReported, Bad

\* A worse outcome takes the place of one that is less bad, and no other.
LEMMA WorseIsWorse ==
  ASSUME NEW old, old.severity \in {"none", "info"} \union Bad, NEW o, NEW id, NEW probe
  PROVE  /\ Worse(old, o, id, probe).severity \in {"none", "info"} \union Bad
         /\ (o.accepted /\ o.url) \/ old.severity \in Bad => Worse(old, o, id, probe).severity \in Bad
<1> DEFINE severity == Classify(o, id, probe.active)
<1>1. severity \in {"info"} \union Bad /\ (o.accepted /\ o.url => severity \in Bad)
  BY DEF Classify, Bad
<1>2. Worse(old, o, id, probe).severity = IF old.severity = "none" \/ SeverityRank[severity] > SeverityRank[old.severity]
                                          THEN severity ELSE old.severity
  BY DEF Worse
<1> HIDE DEF severity
<1>3. \A s, t \in {"info"} \union Bad : SeverityRank[s] > SeverityRank[t] => s \in Bad
  BY DEF Bad, SeverityRank
<1>4. \A s \in Bad : SeverityRank[s] > SeverityRank["info"]
  BY DEF Bad, SeverityRank
<1>5. "none" \notin Bad /\ "info" \notin Bad
  BY DEF Bad
<1>6. QED
  BY <1>1, <1>2, <1>3, <1>4, <1>5

LEMMA UploadStays == UploadInv /\ [UploadNext]_uploadVars => UploadInv'
<1> SUFFICES ASSUME UploadInv, [UploadNext]_uploadVars PROVE UploadInv'
  OBVIOUS
<1>1. ASSUME UNCHANGED <<worst, stored>>, uploadStep' # "done" \/ uploadRows' = InfoRows PROVE UploadInv'
  BY <1>1 DEF UploadInv, StoredIsReported
<1>2. CASE DiscoverUploads
  BY <1>1, <1>2 DEF DiscoverUploads
<1>3. CASE UploadProbe
  <2>1. PICK o \in Observations :
          /\ worst' = [id \in UploadIds |-> IF id \in Relevant(o, ProbeOf(canary))
                                            THEN Worse(worst[id], o, id, ProbeOf(canary)) ELSE worst[id]]
          /\ stored' = IF o.accepted /\ o.url THEN stored \union {<<ProbeOf(canary).id, canary>>} ELSE stored
    BY <1>3 DEF UploadProbe
  <2>2. PICK probe : probe = ProbeOf(canary)
    OBVIOUS
  <2>3. ASSUME NEW id \in UploadIds
        PROVE  /\ worst'[id].severity \in {"none", "info"} \union Bad
               /\ worst[id].severity \in Bad => worst'[id].severity \in Bad
               /\ id = probe.id /\ o.accepted /\ o.url => worst'[id].severity \in Bad
    <3>1. PICK old : old = worst[id] /\ old.severity \in {"none", "info"} \union Bad
      BY DEF UploadInv
    <3>2. worst'[id] = IF id \in Relevant(o, probe) THEN Worse(old, o, id, probe) ELSE old
      BY <2>1, <2>2, <3>1
    <3>3. probe.id \in Relevant(o, probe)
      BY DEF Relevant
    <3>4. QED
      BY <3>1, <3>2, <3>3, WorseIsWorse
  <2>4. \A s \in stored' : s \in stored \/ (s[1] = probe.id /\ o.accepted /\ o.url)
    BY <2>1, <2>2
  <2>5. \A s \in stored' : s[1] \in UploadIds => worst'[s[1]].severity \in Bad
    BY <2>3, <2>4 DEF UploadInv
  <2>6. uploadStep' = "probe"
    BY <1>3 DEF UploadProbe
  <2>7. QED
    BY <2>3, <2>5, <2>6 DEF UploadInv, StoredIsReported
<1>4. CASE JudgeUploads
  <2>1. UNCHANGED <<worst, stored>>
    BY <1>4 DEF JudgeUploads
  <2>2. ASSUME NEW r \in uploadRows' PROVE worst[r.id].severity \in Bad => r.status # "pass"
    <3>1. PICK id, w : /\ id \in UploadIds /\ w = worst[id]
                      /\ r = IF w.severity = "none" THEN UploadRow(id, "info", "info", 0)
                                                   ELSE UploadRow(id, UploadStatus(w.severity), w.severity, w.told)
      BY <1>4, <2>2 DEF JudgeUploads
    <3>2. r.id = id /\ (w.severity \in Bad => r.status = UploadStatus(w.severity))
      BY <3>1 DEF UploadRow, Bad
    <3>3. w.severity \in Bad => UploadStatus(w.severity) # "pass"
      BY DEF UploadStatus, Bad
    <3>4. QED
      BY <3>1, <3>2, <3>3
  <2>3. \A r \in uploadRows' : r.id \in UploadIds
    BY <1>4 DEF JudgeUploads, UploadRow
  <2>4. StoredIsReported'
    BY <2>1, <2>2, <2>3 DEF UploadInv, StoredIsReported
  <2>5. QED
    BY <2>1, <2>4 DEF UploadInv
<1>5. CASE UploadFails
  BY <1>1, <1>5 DEF UploadFails
<1>6. CASE UNCHANGED uploadVars
  BY <1>6 DEF uploadVars, UploadInv, StoredIsReported
<1>7. QED
  BY <1>2, <1>3, <1>4, <1>5, <1>6 DEF UploadNext

-----------------------------------------------------------------------------
(* A tool over a clone of the repository.                                  *)

\* There are directories only between the start and the end of a run.
RepoInv ==
    /\ tool \in Tools /\ dirs \subseteq {"clone", "askpass"}
    /\ repoStep \in {"start", "done"} => dirs = {}
    /\ ToolPassesOnRun

\* What did not come to a run of the tool is no pass.
LEMMA ToolJudged ==
  ASSUME NEW sees, NEW F
  PROVE  \A r \in JudgeTool(sees, F) : r.status = "pass" => sees = "ok"
<1>1. \A s \in {SemgrepStatus(F), OsvScannerStatus(F), "pass"} : OnToolRun(sees, s) = "pass" => sees = "ok"
  BY DEF OnToolRun, Verdict
<1>2. \A r \in SemgrepCheck(sees, F) \union OsvScannerCheck(sees, F) : r.status = "pass" => sees = "ok"
  BY <1>1, ResultIs DEF SemgrepCheck, OsvScannerCheck
<1>3. \A r \in GitleaksCheck(sees, F) : r.status = "pass" => sees = "ok"
  BY <1>1, ResultIs DEF GitleaksCheck
<1>4. QED
  BY <1>2, <1>3 DEF JudgeTool

LEMMA RepoStart == RepoInit => RepoInv
BY DEF RepoInit, RepoInv, ToolPassesOnRun

LEMMA RepoStays == RepoInv /\ [RepoNext]_repoVars => RepoInv'
<1> SUFFICES ASSUME RepoInv, [RepoNext]_repoVars PROVE RepoInv'
  OBVIOUS
<1>1. CASE StartTool
  BY <1>1, ToolJudged DEF StartTool, RepoInv, ToolPassesOnRun
<1>2. CASE CloneFails
  BY <1>2, ToolJudged DEF CloneFails, RemovedOnError, RepoInv, ToolPassesOnRun
<1>3. CASE WriteAskpass
  BY <1>3 DEF WriteAskpass, RepoInv, ToolPassesOnRun
<1>4. CASE CloneRepo
  BY <1>4 DEF CloneRepo, RepoInv, ToolPassesOnRun
<1>5. CASE RunTool
  <2>1. PICK F : repoRows' = JudgeTool(IF toolSaw' = "not run" THEN "tool failed" ELSE "ok", F)
    BY <1>5 DEF RunTool
  <2>2. toolSaw' \in ToolRuns /\ repoStep' = "cleanup" /\ UNCHANGED <<tool, dirs>>
    BY <1>5 DEF RunTool
  <2>3. \A r \in repoRows' : r.status = "pass" => toolSaw' # "not run"
    BY <2>1, ToolJudged
  <2>4. QED
    BY <2>2, <2>3 DEF RepoInv, ToolPassesOnRun, ToolRuns
<1>6. CASE Cleanup
  BY <1>6 DEF Cleanup, RepoInv, ToolPassesOnRun
<1>7. CASE WorkerDies
  BY <1>7 DEF WorkerDies, RepoInv, ToolPassesOnRun
<1>8. CASE UNCHANGED repoVars
  BY <1>8 DEF repoVars, RepoInv, ToolPassesOnRun
<1>9. QED
  BY <1>1, <1>2, <1>3, <1>4, <1>5, <1>6, <1>7, <1>8 DEF RepoNext

-----------------------------------------------------------------------------
(* The checks of one page: what each writes, and when it cannot see.       *)

\* One row, of the check, which does not pass unseen.
Unseen(c, sees) == sees \in BlindSights(c) \ {"osv limited"}
OneRowEach(c, sees, results) ==
    /\ results # {} /\ \A r \in results : r.id = c
    /\ Unseen(c, sees) => \A r \in results : r.status # "pass"

LEMMA RatedIs == ASSUME NEW id, NEW status, NEW severity
                 PROVE Rated(id, status, severity).id = id /\ Rated(id, status, severity).status = status
BY DEF Rated

LEMMA OneRow ==
  ASSUME NEW c, NEW sees, NEW status, Unseen(c, sees) => status # "pass"
  PROVE  OneRowEach(c, sees, {Result(c, status)})
BY ResultIs DEF OneRowEach

LEMMA OneRowChecks ==
  ASSUME NEW c \in Judged \ {"security-headers", "cookies", "compliance"}, NEW sees, NEW F
  PROVE  OneRowEach(c, sees, Judge(c, sees, F))
<1>1. CASE c = "reachability"
  <2> DEFINE status == IF sees = "unreachable" THEN "fail" ELSE Verdict(FALSE, "error status" \in F)
  <2>1. Judge(c, sees, F) = {Result(c, status)}
    BY <1>1 DEF Judge, ReachabilityCheck
  <2>2. Unseen(c, sees) => status # "pass"
    BY <1>1 DEF Unseen, BlindSights
  <2> HIDE DEF status
  <2>3. QED
    BY <2>1, <2>2, OneRow
<1>2. CASE c = "https"
  <2> DEFINE status == IF sees # "bad url" /\ "http site" \in F THEN "info"
                        ELSE Verdict(sees = "bad url" \/ Meets(F, {"http stays", "https dead", "https error"}), FALSE)
  <2>1. Judge(c, sees, F) = {Result(c, status)}
    BY <1>2 DEF Judge, HttpsCheck
  <2>2. Unseen(c, sees) => status # "pass"
    BY <1>2 DEF Unseen, BlindSights, Verdict
  <2> HIDE DEF status
  <2>3. QED
    BY <2>1, <2>2, OneRow
<1>3. CASE c = "tls-cert"
  <2> DEFINE status == CASE sees = "unreachable" -> "fail" [] OTHER -> OnMeasured(sees, EvaluateTlsCert(F))
  <2>1. Judge(c, sees, F) = {Result(c, status)}
    BY <1>3 DEF Judge, TlsCertCheck
  <2>2. Unseen(c, sees) => status # "pass"
    BY <1>3 DEF Unseen, BlindSights, OnMeasured
  <2> HIDE DEF status
  <2>3. QED
    BY <2>1, <2>2, OneRow
<1>4. CASE c = "cors"
  <2> DEFINE status == OnMeasured(sees, EvaluateCors(F))
  <2>1. Judge(c, sees, F) = {Result(c, status)}
    BY <1>4 DEF Judge, CorsCheck
  <2>2. Unseen(c, sees) => status # "pass"
    BY <1>4 DEF Unseen, BlindSights, OnMeasured
  <2> HIDE DEF status
  <2>3. QED
    BY <2>1, <2>2, OneRow
<1>5. CASE c = "redirects-mixed"
  <2> DEFINE status == IF sees = "unreachable" THEN "fail" ELSE EvaluateRedirectsMixed(F)
  <2>1. Judge(c, sees, F) = {Result(c, status)}
    BY <1>5 DEF Judge, RedirectsMixedCheck
  <2>2. Unseen(c, sees) => status # "pass"
    BY <1>5 DEF Unseen, BlindSights
  <2> HIDE DEF status
  <2>3. QED
    BY <2>1, <2>2, OneRow
<1>6. CASE c = "subresources"
  <2> DEFINE status == OnHtml(sees, "fail", "info", EvaluateSubresources(F))
  <2>1. Judge(c, sees, F) = {Result(c, status)}
    BY <1>6 DEF Judge, SubresourcesCheck
  <2>2. Unseen(c, sees) => status # "pass"
    BY <1>6 DEF Unseen, BlindSights, OnHtml
  <2> HIDE DEF status
  <2>3. QED
    BY <2>1, <2>2, OneRow
<1>7. CASE c = "meta-tags"
  <2> DEFINE status == OnHtml(sees, "fail", "warn", EvaluateMetaTags(F))
  <2>1. Judge(c, sees, F) = {Result(c, status)}
    BY <1>7 DEF Judge, MetaTagsCheck
  <2>2. Unseen(c, sees) => status # "pass"
    BY <1>7 DEF Unseen, BlindSights, OnHtml
  <2> HIDE DEF status
  <2>3. QED
    BY <2>1, <2>2, OneRow
<1>8. CASE c = "structured-data"
  <2> DEFINE status == OnHtml(sees, "fail", "info", EvaluateStructuredData(F))
  <2>1. Judge(c, sees, F) = {Result(c, status)}
    BY <1>8 DEF Judge, StructuredDataCheck
  <2>2. Unseen(c, sees) => status # "pass"
    BY <1>8 DEF Unseen, BlindSights, OnHtml
  <2> HIDE DEF status
  <2>3. QED
    BY <2>1, <2>2, OneRow
<1>9. CASE c = "stack-detection"
  <2> DEFINE status == IF sees = "unreachable" THEN "warn" ELSE EvaluateStackDetection(F)
  <2>1. Judge(c, sees, F) = {Result(c, status)}
    BY <1>9 DEF Judge, StackDetectionCheck
  <2>2. Unseen(c, sees) => status # "pass"
    BY <1>9 DEF Unseen, BlindSights
  <2> HIDE DEF status
  <2>3. QED
    BY <2>1, <2>2, OneRow
<1>10. CASE c = "security-txt"
  <2> DEFINE status == EvaluateSecurityTxt(IF sees = "unreachable" THEN {"no security.txt", "no favicon", "soft 404"} ELSE F)
  <2>1. Judge(c, sees, F) = {Result(c, status)}
    BY <1>10 DEF Judge, SecurityTxtCheck
  <2>2. Unseen(c, sees) => status # "pass"
    BY <1>10 DEF Unseen, BlindSights, EvaluateSecurityTxt, ParseSecurityTxt, Verdict
  <2> HIDE DEF status
  <2>3. QED
    BY <2>1, <2>2, OneRow
<1>11. CASE c = "robots-sitemap"
  <2> DEFINE status == CASE sees = "limited" -> "warn"
                          [] sees = "unreachable" -> EvaluateRobotsSitemap(InspectRobots({"no robots"}) \union {"no sitemap"})
                          [] OTHER -> EvaluateRobotsSitemap(F)
  <2>1. Judge(c, sees, F) = {Result(c, status)}
    BY <1>11 DEF Judge, RobotsSitemapCheck
  <2>2. Unseen(c, sees) => status # "pass"
    BY <1>11 DEF Unseen, BlindSights, EvaluateRobotsSitemap, RobotsStatus, InspectRobots, Verdict
  <2> HIDE DEF status
  <2>3. QED
    BY <2>1, <2>2, OneRow
<1>12. CASE c = "mini-crawl"
  <2> DEFINE status == IF sees = "limited" THEN "warn" ELSE OnHtml(sees, "fail", "warn", Verdict(FALSE, F # {}))
  <2>1. Judge(c, sees, F) = {Result(c, status)}
    BY <1>12 DEF Judge, MiniCrawlCheck
  <2>2. Unseen(c, sees) => status # "pass"
    BY <1>12 DEF Unseen, BlindSights, OnHtml
  <2> HIDE DEF status
  <2>3. QED
    BY <2>1, <2>2, OneRow
<1>13. CASE c = "hosting-security"
  <2>1. PICK row : row = IF sees = "unreachable" THEN Result(c, "warn") ELSE EvaluateHosting(F)
    OBVIOUS
  <2>2. Judge(c, sees, F) = {row}
    BY <1>13, <2>1 DEF Judge, HostingCheck
  <2>3. EvaluateHosting(F).id = c
    <3>1. EvaluateHosting(F) \in {Result(c, "info"), Result(c, "pass"), Rated(c, "warn", "medium"), Rated(c, "warn", "low")}
      BY <1>13 DEF EvaluateHosting
    <3>2. QED
      BY <3>1, ResultIs, RatedIs
  <2>4. row.id = c /\ (sees = "unreachable" => row.status # "pass")
    BY <2>1, <2>3, ResultIs
  <2>5. Unseen(c, sees) => sees = "unreachable"
    BY <1>13 DEF Unseen, BlindSights
  <2>6. QED
    BY <2>2, <2>4, <2>5 DEF OneRowEach
<1>14. CASE c = "waf-resilience"
  <2>1. PICK row : row = IF sees = "unreachable" THEN Result(c, "warn") ELSE EvaluateWaf(F)
    OBVIOUS
  <2>2. Judge(c, sees, F) = {row}
    BY <1>14, <2>1 DEF Judge, WafCheck
  <2>3. EvaluateWaf(F).id = c
    BY <1>14, ResultIs, RatedIs DEF EvaluateWaf
  <2>4. row.id = c /\ (sees = "unreachable" => row.status # "pass")
    BY <2>1, <2>3, ResultIs
  <2>5. Unseen(c, sees) => sees = "unreachable"
    BY <1>14 DEF Unseen, BlindSights
  <2>6. QED
    BY <2>2, <2>4, <2>5 DEF OneRowEach
<1>15. CASE c = "observability-signals"
  <2> DEFINE status == IF sees = "unreachable" THEN "info" ELSE ClassifyObservability(F)
  <2>1. Judge(c, sees, F) = {Result(c, status)}
    BY <1>15 DEF Judge, ObservabilityCheck
  <2>2. Unseen(c, sees) => status # "pass"
    BY <1>15 DEF Unseen, BlindSights
  <2> HIDE DEF status
  <2>3. QED
    BY <2>1, <2>2, OneRow
<1>16. CASE c = "crux-field-data"
  <2> DEFINE status == IF sees = "ok" /\ F = {} THEN "pass" ELSE "info"
  <2>1. Judge(c, sees, F) = {Result(c, status)}
    BY <1>16 DEF Judge, CruxCheck
  <2>2. Unseen(c, sees) => status # "pass"
    BY <1>16 DEF Unseen, BlindSights
  <2> HIDE DEF status
  <2>3. QED
    BY <2>1, <2>2, OneRow
<1>17. CASE c = "aeo-engine-matrix"
  <2> DEFINE seen == [e \in {1, 2} |-> [reachable |-> <<"unreachable", e>> \notin F,
                                       parseable |-> <<"unreadable", e>> \notin F]]
             status == IF sees = "limited" THEN "info" ELSE EvaluateEngineMatrix(seen, <<"no llms.txt", 0>> \notin F)
  <2>1. Judge(c, sees, F) = {Result(c, status)}
    BY <1>17 DEF Judge, AeoMatrixCheck
  <2>2. Unseen(c, sees) => status # "pass"
    BY <1>17 DEF Unseen, BlindSights
  <2> HIDE DEF status
  <2>3. QED
    BY <2>1, <2>2, OneRow
<1>18. CASE c = "domain-watchtower"
  <2> DEFINE status == OnMeasured(sees, EvaluateDomainMeasurement(F, 0))
  <2>1. Judge(c, sees, F) = {Result(c, status)}
    BY <1>18 DEF Judge, DomainWatchtowerCheck
  <2>2. Unseen(c, sees) => status # "pass"
    BY <1>18 DEF Unseen, BlindSights, OnMeasured
  <2> HIDE DEF status
  <2>3. QED
    BY <2>1, <2>2, OneRow
<1>19. CASE c = "dns-email"
  <2> DEFINE status == OnMeasured(sees, EvaluateEmailDns(F))
  <2>1. Judge(c, sees, F) = {Result(c, status)}
    BY <1>19 DEF Judge, DnsEmailCheck
  <2>2. Unseen(c, sees) => status # "pass"
    BY <1>19 DEF Unseen, BlindSights, OnMeasured
  <2> HIDE DEF status
  <2>3. QED
    BY <2>1, <2>2, OneRow
<1>20. CASE c = "subdomain-takeover"
  <2> DEFINE status == OnMeasured(sees, EvaluateSubdomainTakeover(F))
  <2>1. Judge(c, sees, F) = {Result(c, status)}
    BY <1>20 DEF Judge, SubdomainTakeoverCheck
  <2>2. Unseen(c, sees) => status # "pass"
    BY <1>20 DEF Unseen, BlindSights, OnMeasured
  <2> HIDE DEF status
  <2>3. QED
    BY <2>1, <2>2, OneRow
<1>21. CASE c = "threat-intel"
  <2>1. Judge(c, sees, F) = ThreatIntelCheck(sees, F)
    BY <1>21 DEF Judge
  <2>2. ThreatIntelCheck(sees, F) # {} /\ \A r \in ThreatIntelCheck(sees, F) : r.id = c
    BY <1>21, ResultIs, RatedIs DEF ThreatIntelCheck, InlineStatus
  <2>3. sees \in {"limited", "unreachable"} => \A r \in ThreatIntelCheck(sees, F) : r.status # "pass"
    BY ResultIs, RatedIs DEF ThreatIntelCheck, InlineStatus
  <2>4. Unseen(c, sees) => sees \in {"limited", "unreachable"}
    BY <1>21 DEF Unseen, BlindSights
  <2>5. QED
    BY <2>1, <2>2, <2>3, <2>4 DEF OneRowEach
<1>22. CASE c = "secrets-in-html"
  <2>1. Judge(c, sees, F) = HtmlSecretsCheck(sees, F)
    BY <1>22 DEF Judge
  <2>2. HtmlSecretsCheck(sees, F) # {} /\ \A r \in HtmlSecretsCheck(sees, F) : r.id = c
    BY <1>22, ResultIs, RatedIs DEF HtmlSecretsCheck
  <2>3. sees \in {"limited", "unreachable"} => \A r \in HtmlSecretsCheck(sees, F) : r.status # "pass"
    BY ResultIs, RatedIs DEF HtmlSecretsCheck
  <2>4. Unseen(c, sees) => sees \in {"limited", "unreachable"}
    BY <1>22 DEF Unseen, BlindSights
  <2>5. QED
    BY <2>1, <2>2, <2>3, <2>4 DEF OneRowEach
<1>23. CASE c = "client-deps-cve"
  <2> DEFINE status == IF sees \in {"unreachable", "not html"} THEN "info"
                        ELSE IF "library" \notin F THEN "pass"
                        ELSE IF sees = "osv limited" THEN "warn" ELSE ClientDepsStatus(F)
  <2>1. Judge(c, sees, F) = {Result(c, status)}
    BY <1>23 DEF Judge, ClientDepsCheck
  <2>2. Unseen(c, sees) => status # "pass"
    BY <1>23 DEF Unseen, BlindSights
  <2> HIDE DEF status
  <2>3. QED
    BY <2>1, <2>2, OneRow
<1>24. CASE c = "client-deps-runtime"
  <2> DEFINE status == IF sees = "limited" THEN "warn"
                        ELSE IF sees = "unreachable" THEN "info"
                        ELSE IF "library" \notin F THEN "pass" ELSE ClientDepsStatus(F)
  <2>1. Judge(c, sees, F) = {Result(c, status)}
    BY <1>24 DEF Judge, RuntimeDepsCheck
  <2>2. Unseen(c, sees) => status # "pass"
    BY <1>24 DEF Unseen, BlindSights
  <2> HIDE DEF status
  <2>3. QED
    BY <2>1, <2>2, OneRow
<1>25. CASE c = "core-web-vitals"
  <2> DEFINE status == OnCaptured(sees, CwvOverall(F))
  <2>1. Judge(c, sees, F) = {Result(c, status)}
    BY <1>25 DEF Judge, VitalsCheck
  <2>2. Unseen(c, sees) => status # "pass"
    BY <1>25 DEF Unseen, BlindSights, OnCaptured
  <2> HIDE DEF status
  <2>3. QED
    BY <2>1, <2>2, OneRow
<1>26. CASE c = "accessibility"
  <2> DEFINE status == OnCaptured(sees, AxeOverall(F))
  <2>1. Judge(c, sees, F) = {Result(c, status)}
    BY <1>26 DEF Judge, AccessibilityCheck
  <2>2. Unseen(c, sees) => status # "pass"
    BY <1>26 DEF Unseen, BlindSights, OnCaptured
  <2> HIDE DEF status
  <2>3. QED
    BY <2>1, <2>2, OneRow
<1>27. CASE c = "console-errors"
  <2> DEFINE status == OnCaptured(sees, ConsoleOverall(F))
  <2>1. Judge(c, sees, F) = {Result(c, status)}
    BY <1>27 DEF Judge, ConsoleCheck
  <2>2. Unseen(c, sees) => status # "pass"
    BY <1>27 DEF Unseen, BlindSights, OnCaptured
  <2> HIDE DEF status
  <2>3. QED
    BY <2>1, <2>2, OneRow
<1>28. CASE c = "mobile-responsive"
  <2> DEFINE status == OnCaptured(sees, ResponsiveOverall(F))
  <2>1. Judge(c, sees, F) = {Result(c, status)}
    BY <1>28 DEF Judge, ResponsiveCheck
  <2>2. Unseen(c, sees) => status # "pass"
    BY <1>28 DEF Unseen, BlindSights, OnCaptured
  <2> HIDE DEF status
  <2>3. QED
    BY <2>1, <2>2, OneRow
<1>29. CASE c = "aeo-scan"
  <2> DEFINE status == OnCaptured(sees, RenderOverall(F))
  <2>1. Judge(c, sees, F) = {Result(c, status)}
    BY <1>29 DEF Judge, AeoRenderCheck
  <2>2. Unseen(c, sees) => status # "pass"
    BY <1>29 DEF Unseen, BlindSights, OnCaptured
  <2> HIDE DEF status
  <2>3. QED
    BY <2>1, <2>2, OneRow
<1>30. CASE c = "browser-storage"
  <2>1. Judge(c, sees, F) = StorageCheck(sees, F)
    BY <1>30 DEF Judge
  <2>2. StorageCheck(sees, F) # {} /\ \A r \in StorageCheck(sees, F) : r.id = c
    BY <1>30, ResultIs, RatedIs DEF StorageCheck
  <2>3. sees \in {"limited", "unreachable"} => \A r \in StorageCheck(sees, F) : r.status # "pass"
    BY ResultIs, RatedIs DEF StorageCheck
  <2>4. Unseen(c, sees) => sees \in {"limited", "unreachable"}
    BY <1>30 DEF Unseen, BlindSights
  <2>5. QED
    BY <2>1, <2>2, <2>3, <2>4 DEF OneRowEach
<1>31. CASE c = "repo-health"
  <2> DEFINE status == IF sees = "ok" THEN RepoHealthOverall(F) ELSE Verdict(sees = "not found", TRUE)
  <2>1. Judge(c, sees, F) = {Result(c, status)}
    BY <1>31 DEF Judge, RepoHealthCheck
  <2>2. Unseen(c, sees) => status # "pass"
    BY <1>31 DEF Unseen, BlindSights, Verdict
  <2> HIDE DEF status
  <2>3. QED
    BY <2>1, <2>2, OneRow
<1>32. CASE c = "semgrep"
  <2> DEFINE status == OnToolRun(sees, SemgrepStatus(F))
  <2>1. Judge(c, sees, F) = {Result(c, status)}
    BY <1>32 DEF Judge, SemgrepCheck
  <2>2. Unseen(c, sees) => status # "pass"
    BY <1>32 DEF Unseen, BlindSights, OnToolRun, Verdict
  <2> HIDE DEF status
  <2>3. QED
    BY <2>1, <2>2, OneRow
<1>33. CASE c = "gitleaks"
  <2>1. Judge(c, sees, F) = GitleaksCheck(sees, F)
    BY <1>33 DEF Judge
  <2>2. Unseen(c, sees) => sees # "ok"
    BY <1>33 DEF Unseen, BlindSights
  <2>3. CASE sees = "ok" /\ F # {}
    <3>1. GitleaksCheck(sees, F) = {Rated(c, GitleaksStatus(F), "critical")}
      BY <1>33, <2>3 DEF GitleaksCheck
    <3>2. QED
      BY <2>1, <2>2, <2>3, <3>1, RatedIs DEF OneRowEach
  <2>4. CASE ~(sees = "ok" /\ F # {})
    <3>1. GitleaksCheck(sees, F) = {Result(c, OnToolRun(sees, "pass"))}
      BY <1>33, <2>4 DEF GitleaksCheck
    <3>2. Unseen(c, sees) => OnToolRun(sees, "pass") # "pass"
      BY <2>2 DEF OnToolRun, Verdict
    <3>3. QED
      BY <2>1, <3>1, <3>2, OneRow
  <2>5. QED
    BY <2>3, <2>4
<1>34. CASE c = "osv-scanner"
  <2> DEFINE status == OnToolRun(sees, OsvScannerStatus(F))
  <2>1. Judge(c, sees, F) = {Result(c, status)}
    BY <1>34 DEF Judge, OsvScannerCheck
  <2>2. Unseen(c, sees) => status # "pass"
    BY <1>34 DEF Unseen, BlindSights, OnToolRun, Verdict
  <2> HIDE DEF status
  <2>3. QED
    BY <2>1, <2>2, OneRow
<1>35. c \in (HttpChecks \union BrowserQueue \union GithubQueue)
          \ {"secrets-in-bundles", "active-tests", "baas-security", "auth-flow", "upload-scan",
             "security-headers", "cookies", "compliance"}
  <2>1. DOMAIN Registry = {"http", "browser", "github"} /\ Registry.http = HttpChecks
        /\ Registry.browser = BrowserQueue /\ Registry.github = GithubQueue
    BY DEF Registry
  <2>2. PICK q \in DOMAIN Registry : c \in Registry[q]
    BY DEF Judged
  <2>3. c \in HttpChecks \union BrowserQueue \union GithubQueue
    BY <2>1, <2>2
  <2>4. c \notin {"secrets-in-bundles", "active-tests", "baas-security", "auth-flow", "upload-scan"}
    BY DEF Judged
  <2>5. QED
    BY <2>3, <2>4
<1>36. CASE c \in HttpChecks
  BY <1>35, <1>36, <1>1, <1>2, <1>3, <1>4, <1>5, <1>6, <1>7, <1>8,
     <1>9, <1>10, <1>11, <1>12, <1>13, <1>14, <1>15, <1>16,
     <1>17, <1>18, <1>19, <1>20, <1>21, <1>22, <1>23
     DEF HttpChecks
<1>37. CASE c \in BrowserQueue
  BY <1>35, <1>37, <1>23, <1>24, <1>25, <1>26, <1>27, <1>28, <1>29, <1>30 DEF BrowserQueue
<1>38. CASE c \in GithubQueue
  BY <1>35, <1>38, <1>31, <1>32, <1>33, <1>34 DEF GithubQueue
<1>39. QED
  BY <1>35, <1>36, <1>37, <1>38

\* One row for each of a set of ids.
RowEach(ids, results) == IdsOf(results) = ids /\ \A r, q \in results : r.id = q.id => r = q

LEMMA AsManyAsIds ==
  ASSUME NEW ids, IsFiniteSet(ids), NEW results, RowEach(ids, results)
  PROVE  Cardinality(results) = Cardinality(ids)
<1> DEFINE f == [id \in ids |-> CHOOSE r \in results : r.id = id]
<1>1. \A id \in ids : f[id] \in results /\ f[id].id = id
  BY DEF RowEach, IdsOf
<1>2. \A r \in results : r.id \in ids /\ f[r.id] = r
  BY <1>1 DEF RowEach, IdsOf
<1>3. f \in [ids -> results]
  BY <1>1
<1> HIDE DEF f
<1>4. \A a, b \in ids : f[a] = f[b] => a = b
  BY <1>1
<1>5. f \in Injection(ids, results)
  BY <1>3, <1>4 DEF Injection, IsInjective
<1>6. f \in Surjection(ids, results)
  BY <1>2, <1>3 DEF Surjection
<1>7. ExistsBijection(ids, results)
  BY <1>5, <1>6 DEF ExistsBijection, Bijection
<1>8. QED
  BY <1>7, FS_Bijection

LEMMA IdsAreMany ==
  /\ IsFiniteSet(AuthFlowIds) /\ Cardinality(AuthFlowIds) = 7
  /\ IsFiniteSet(UploadIds) /\ Cardinality(UploadIds) = 5
<1>0. IsFiniteSet({}) /\ Cardinality({}) = 0
  BY FS_EmptySet, Zenon
<1>a. ASSUME NEW S, IsFiniteSet(S), NEW n \in Nat, Cardinality(S) = n, NEW x, x \notin S, NEW T, T = S \union {x}
      PROVE  IsFiniteSet(T) /\ Cardinality(T) = n + 1
  BY <1>a, FS_AddElement, Zenon
<1>1. IsFiniteSet(AuthFlowIds) /\ Cardinality(AuthFlowIds) = 7
  <2> DEFINE A1 == {"auth-transport"}
             A2 == A1 \union {"auth-csrf"}
             A3 == A2 \union {"auth-user-enumeration"}
             A4 == A3 \union {"auth-rate-limit"}
             A5 == A4 \union {"auth-password-policy"}
             A6 == A5 \union {"auth-session-security"}
  <2>1. IsFiniteSet(A1) /\ Cardinality(A1) = 1
    BY FS_Singleton, Zenon
  <2>2. IsFiniteSet(A2) /\ Cardinality(A2) = 2
    BY <1>a, <2>1
  <2>3. IsFiniteSet(A3) /\ Cardinality(A3) = 3
    BY <1>a, <2>2
  <2>4. IsFiniteSet(A4) /\ Cardinality(A4) = 4
    BY <1>a, <2>3
  <2>5. IsFiniteSet(A5) /\ Cardinality(A5) = 5
    BY <1>a, <2>4
  <2>6. IsFiniteSet(A6) /\ Cardinality(A6) = 6
    BY <1>a, <2>5
  <2>7. AuthFlowIds = A6 \union {"auth-mfa"}
    BY DEF AuthFlowIds
  <2>8. QED
    BY <1>a, <2>6, <2>7
<1>2. IsFiniteSet(UploadIds) /\ Cardinality(UploadIds) = 5
  <2> DEFINE U1 == {"upload-unrestricted-type"}
             U2 == U1 \union {"upload-executable"}
             U3 == U2 \union {"upload-content-sniff"}
             U4 == U3 \union {"upload-size-limit"}
  <2>1. IsFiniteSet(U1) /\ Cardinality(U1) = 1
    BY FS_Singleton, Zenon
  <2>2. IsFiniteSet(U2) /\ Cardinality(U2) = 2
    BY <1>a, <2>1
  <2>3. IsFiniteSet(U3) /\ Cardinality(U3) = 3
    BY <1>a, <2>2
  <2>4. IsFiniteSet(U4) /\ Cardinality(U4) = 4
    BY <1>a, <2>3
  <2>5. UploadIds = U4 \union {"upload-path-traversal"}
    BY DEF UploadIds
  <2>6. QED
    BY <1>a, <2>4, <2>5
<1>3. QED
  BY <1>1, <1>2

\* The three checks that write several rows.
LEMMA HeaderRows ==
  ASSUME NEW sees, NEW F
  PROVE  /\ IdsOf(Judge("security-headers", sees, F)) = OutputCheckIds("security-headers")
         /\ Unseen("security-headers", sees) => \A r \in Judge("security-headers", sees, F) : r.status # "pass"
<1> DEFINE row(h) == IF sees = "ok" THEN EvaluateSecurityHeader(h, F) ELSE Result(HeaderId(h), "info")
<1>1. \A h : MissingResult(h).id = HeaderId(h)
  BY ResultIs, RatedIs DEF MissingResult
<1>2. \A h : EvaluateSecurityHeader(h, F).id = HeaderId(h)
  BY <1>1, ResultIs, RatedIs DEF EvaluateSecurityHeader
<1>3. \A h : row(h).id = HeaderId(h)
  BY <1>2, ResultIs
<1>4. Unseen("security-headers", sees) => \A h : row(h).status # "pass"
  <2>1. Unseen("security-headers", sees) => sees # "ok"
    BY DEF Unseen, BlindSights
  <2>2. QED
    BY <2>1, ResultIs
<1>5. Judge("security-headers", sees, F) = {row(h) : h \in SecurityHeaders}
  BY DEF Judge, SecurityHeadersCheck
<1>6. OutputCheckIds("security-headers") = {HeaderId(h) : h \in SecurityHeaders}
  BY DEF OutputCheckIds
<1> HIDE DEF row
<1>7. QED
  BY <1>3, <1>4, <1>5, <1>6 DEF IdsOf

LEMMA CookieRows ==
  ASSUME NEW sees, NEW F
  PROVE  /\ IdsOf(Judge("cookies", sees, F)) = OutputCheckIds("cookies")
         /\ Unseen("cookies", sees) => \A r \in Judge("cookies", sees, F) : r.status # "pass"
<1>1. Judge("cookies", sees, F) = CookiesCheck(sees, F) /\ OutputCheckIds("cookies") = CookieIds
  BY DEF Judge, OutputCheckIds
<1>2. CASE sees = "ok"
  <2>1. ~Unseen("cookies", sees)
    BY <1>2 DEF Unseen, BlindSights
  <2> DEFINE Issue(S) == {C \in F : S \subseteq C} # {}
             Theft(S) == IF Issue(S \union {"session"}) THEN "high" ELSE "medium"
             Offends(id, offends, sev) == IF offends THEN Rated(id, "warn", sev) ELSE Result(id, "pass")
             a == Offends("cookie-httponly", Issue({"no httponly"}), Theft({"no httponly"}))
             b == Offends("cookie-secure", Issue({"no secure"}), Theft({"no secure"}))
             c == IF Issue({"samesite none", "no secure"}) THEN Rated("cookie-samesite", "fail", "high")
                  ELSE Offends("cookie-samesite", Issue({"no samesite"}), "medium")
             d == Offends("cookie-prefixes", Issue({"bad prefix"}), "low")
             e == Offends("cookie-expiry", Issue({"session", "persistent"}), "low")
  <2>2. EvaluateCookies(F) = {a, b, c, d, e}
    BY Zenon DEF EvaluateCookies
  <2>3. \A id, offends, sev : Offends(id, offends, sev).id = id
    BY ResultIs, RatedIs
  <2> HIDE DEF Issue, Theft, Offends
  <2>4. /\ a.id = "cookie-httponly" /\ b.id = "cookie-secure" /\ c.id = "cookie-samesite"
        /\ d.id = "cookie-prefixes" /\ e.id = "cookie-expiry"
    <3>1. Rated("cookie-samesite", "fail", "high").id = "cookie-samesite"
      BY RatedIs
    <3>2. Offends("cookie-samesite", Issue({"no samesite"}), "medium").id = "cookie-samesite"
      BY <2>3
    <3>3. c.id = "cookie-samesite"
      BY <3>1, <3>2
    <3>4. a.id = "cookie-httponly" /\ b.id = "cookie-secure"
      BY <2>3
    <3>5. d.id = "cookie-prefixes" /\ e.id = "cookie-expiry"
      BY <2>3
    <3>6. QED
      BY <3>3, <3>4, <3>5
  <2> HIDE DEF a, b, c, d, e
  <2>5. IdsOf(EvaluateCookies(F)) = CookieIds
    BY <2>2, <2>4 DEF IdsOf, CookieIds
  <2>6. QED
    BY <1>1, <1>2, <2>1, <2>5 DEF CookiesCheck
<1>3. CASE sees # "ok"
  <2>1. CookiesCheck(sees, F) = {Result(id, "info") : id \in CookieIds}
    BY <1>3 DEF CookiesCheck
  <2>2. QED
    BY <1>1, <2>1, ResultIs DEF IdsOf
<1>4. QED
  BY <1>2, <1>3

LEMMA ComplianceRows ==
  ASSUME NEW sees, NEW F
  PROVE  /\ IdsOf(Judge("compliance", sees, F)) = OutputCheckIds("compliance")
         /\ Unseen("compliance", sees) => \A r \in Judge("compliance", sees, F) : r.status # "pass"
<1>1. Judge("compliance", sees, F) = ComplianceCheck(sees, F) /\ OutputCheckIds("compliance") = ComplianceIds
  BY DEF Judge, OutputCheckIds
<1>2. CASE sees = "ok"
  <2>1. ~Unseen("compliance", sees)
    BY <1>2 DEF Unseen, BlindSights
  <2> DEFINE Lacks(id, fact) == Result(id, Verdict(FALSE, fact \in F))
             a == Lacks("cookie-banner", "no cmp")
             b == Lacks("consent-api", "no consent api")
             c == Lacks("gdpr-signals", "no gdpr")
             d == Lacks("legal-pages", "few legal links")
             e == Result("privacy-policy",
                         PrivacyPolicyCheck(IF F \intersect PrivacyPages = {} THEN "good"
                                            ELSE CHOOSE page \in PrivacyPages : page \in F))
  <2>2. ComplianceCheck(sees, F) = {a, b, c, d, e}
    BY <1>2, Zenon DEF ComplianceCheck
  <2>3. \A id, fact : Lacks(id, fact).id = id
    BY ResultIs
  <2> HIDE DEF Lacks
  <2>4. /\ a.id = "cookie-banner" /\ b.id = "consent-api" /\ c.id = "gdpr-signals"
        /\ d.id = "legal-pages" /\ e.id = "privacy-policy"
    BY <2>3, ResultIs
  <2> HIDE DEF a, b, c, d, e
  <2>5. IdsOf(ComplianceCheck(sees, F)) = ComplianceIds
    BY <2>2, <2>4 DEF IdsOf, ComplianceIds
  <2>6. QED
    BY <1>1, <2>1, <2>5
<1>3. CASE sees # "ok"
  <2>1. ComplianceCheck(sees, F) = {Result(id, "warn") : id \in ComplianceIds}
    BY <1>3 DEF ComplianceCheck
  <2>2. QED
    BY <1>1, <2>1, ResultIs DEF IdsOf
<1>4. QED
  BY <1>2, <1>3

\* Whatever a check of a page sees, it writes its own rows, and none of them passes unseen.
LEMMA PageJudged ==
  ASSUME NEW c \in Judged, NEW sees, NEW F
  PROVE  /\ IdsOf(Judge(c, sees, F)) = OutputCheckIds(c)
         /\ Unseen(c, sees) => \A r \in Judge(c, sees, F) : r.status # "pass"
<1>1. CASE c \in {"security-headers", "cookies", "compliance"}
  BY <1>1, HeaderRows, CookieRows, ComplianceRows
<1>2. CASE c \notin {"security-headers", "cookies", "compliance"}
  <2>1. OneRowEach(c, sees, Judge(c, sees, F))
    BY <1>2, OneRowChecks
  <2>2. c \notin {"active-tests", "baas-security", "auth-flow", "upload-scan"}
    BY DEF Judged
  <2>3. OutputCheckIds(c) = {c}
    BY <1>2, <2>2 DEF OutputCheckIds
  <2>4. QED
    BY <2>1, <2>3 DEF OneRowEach, IdsOf
<1>3. QED
  BY <1>1, <1>2

\* The rows of a page are the check's own; of what it could not see none passes.
PageInv ==
    /\ check \in Judged
    /\ rows # {} => IdsOf(rows) = OutputCheckIds(check)
    /\ sight \notin {"ok", "not scanned", "osv limited"} => \A r \in rows : r.status # "pass"

LEMMA PageStays == PageInv /\ [RunNext]_runVars => PageInv'
<1> SUFFICES ASSUME PageInv, [RunNext]_runVars PROVE PageInv'
  OBVIOUS
<1>1. CASE ScanSeen
  <2>1. PICK F : Scanned(check, "ok", F)
    BY <1>1 DEF ScanSeen
  <2>2. check' = check /\ sight' = "ok" /\ rows' = Judge(check, "ok", F) /\ check \in Judged
    BY <2>1 DEF Scanned, PageInv
  <2>3. QED
    BY <2>2, PageJudged DEF PageInv
<1>2. CASE ScanBlind
  <2>1. PICK s \in BlindSights(check) : Scanned(check, s, facts)
    BY <1>2 DEF ScanBlind
  <2>2. check' = check /\ sight' = s /\ rows' = Judge(check, s, facts) /\ check \in Judged
    BY <2>1 DEF Scanned, PageInv
  <2>3. s # "osv limited" => Unseen(check, s)
    BY <2>1 DEF Unseen
  <2>4. QED
    BY <2>2, <2>3, PageJudged DEF PageInv
<1>3. CASE UNCHANGED runVars
  BY <1>3 DEF runVars, PageInv
<1>4. QED
  BY <1>1, <1>2, <1>3 DEF RunNext

-----------------------------------------------------------------------------
(* The rows of the flows, and the flows together.                          *)

\* A flow that is over has its rows.
RowsOfFlows ==
    /\ bundleStep = "done" => IdsOf(bundleRow) = {"secrets-in-bundles"}
    /\ authRows = {} \/ RowEach(AuthFlowIds, authRows)
    /\ uploadStep = "done" => RowEach(UploadIds, uploadRows)
    /\ repoStep \in {"cleanup", "done"} => IdsOf(repoRows) = {tool}

LEMMA BundleRowsStay ==
  ASSUME bundleStep = "done" => IdsOf(bundleRow) = {"secrets-in-bundles"}, [BundleNext]_bundleVars
  PROVE  (bundleStep = "done" => IdsOf(bundleRow) = {"secrets-in-bundles"})'
<1>1. CASE FetchHome \/ JudgeBundles
  <2>1. ASSUME NEW row, row.id = "secrets-in-bundles" PROVE IdsOf({row}) = {"secrets-in-bundles"}
    BY <2>1 DEF IdsOf
  <2>2. \/ bundleStep' # "done"
        \/ \E row : bundleRow' = {row} /\ row.id = "secrets-in-bundles"
    <3>1. CASE FetchHome
      <4>1. bundleStep' # "done" \/ bundleRow' = {Result("secrets-in-bundles", "info")}
        BY <3>1 DEF FetchHome
      <4>2. Result("secrets-in-bundles", "info").id = "secrets-in-bundles"
        BY ResultIs
      <4>3. QED
        BY <4>1, <4>2
    <3>2. CASE JudgeBundles
      <4>1. PICK st, se : bundleRow' = {Rated("secrets-in-bundles", st, se)}
        BY <3>2, Zenon DEF JudgeBundles
      <4>2. Rated("secrets-in-bundles", st, se).id = "secrets-in-bundles"
        BY RatedIs
      <4>3. QED
        BY <4>1, <4>2
    <3>3. QED
      BY <1>1, <3>1, <3>2
  <2>3. QED
    BY <2>1, <2>2 DEF IdsOf
<1>2. CASE SkipBundle \/ ScanBundle \/ ReadMap
  BY <1>2 DEF SkipBundle, ScanBundle, ReadMap, NextOne
<1>3. CASE UNCHANGED bundleVars
  BY <1>3 DEF bundleVars, IdsOf
<1>4. QED
  BY <1>1, <1>2, <1>3 DEF BundleNext

LEMMA AuthRowsStay ==
  ASSUME authRows = {} \/ RowEach(AuthFlowIds, authRows), [AuthNext]_authVars
  PROVE  (authRows = {} \/ RowEach(AuthFlowIds, authRows))'
<1>1. ASSUME UNCHANGED authRows \/ authRows' = {} PROVE (authRows = {} \/ RowEach(AuthFlowIds, authRows))'
  BY <1>1 DEF RowEach, IdsOf
<1>2. CASE StartFlow
  <2>1. RowEach(AuthFlowIds, SkipFindings)
    BY ResultIs DEF SkipFindings, RowEach, IdsOf
  <2>2. authRows' = {} \/ authRows' = SkipFindings
    BY <1>2 DEF StartFlow
  <2>3. QED
    BY <2>1, <2>2 DEF RowEach, IdsOf
<1>3. CASE JudgeFlow
  <2>1. PICK a, b, c, d, e, f, g :
           /\ a = Result("auth-transport", TransportFinding) /\ b = Result("auth-csrf", CsrfFinding)
           /\ c = Result("auth-user-enumeration", EnumerationFinding) /\ d = Result("auth-rate-limit", RateLimitFinding)
           /\ e = Result("auth-password-policy", PolicyFinding) /\ f = Result("auth-session-security", SessionFinding)
           /\ g = Result("auth-mfa", MfaFinding)
    OBVIOUS
  <2>2. authRows' = {a, b, c, d, e, f, g}
    BY <1>3, <2>1 DEF JudgeFlow
  <2>3. /\ a.id = "auth-transport" /\ b.id = "auth-csrf" /\ c.id = "auth-user-enumeration" /\ d.id = "auth-rate-limit"
        /\ e.id = "auth-password-policy" /\ f.id = "auth-session-security" /\ g.id = "auth-mfa"
    BY <2>1, ResultIs
  <2>4. IdsOf({a, b, c, d, e, f, g}) = AuthFlowIds
    BY <2>3 DEF IdsOf, AuthFlowIds
  <2>5. \A r, q \in {a, b, c, d, e, f, g} : r.id = q.id => r = q
    BY <2>3
  <2>6. QED
    BY <2>2, <2>4, <2>5 DEF RowEach, IdsOf
<1>4. CASE DiscoverForms \/ ProbeReset \/ ProbeSession \/ ProbePolicy \/ WrongLogin \/ NoAttempts \/ BrowserFails \/ SiteForgets
  BY <1>1, <1>4 DEF DiscoverForms, ProbeReset, ProbeSession, ProbePolicy, WrongLogin, NoAttempts, BrowserFails, SiteForgets
<1>5. CASE UNCHANGED authVars
  BY <1>1, <1>5 DEF authVars
<1>6. QED
  BY <1>2, <1>3, <1>4, <1>5 DEF AuthNext

LEMMA UploadRowsStay ==
  ASSUME uploadStep = "done" => RowEach(UploadIds, uploadRows), [UploadNext]_uploadVars
  PROVE  (uploadStep = "done" => RowEach(UploadIds, uploadRows))'
<1>0. RowEach(UploadIds, InfoRows)
  <2> DEFINE row(id) == UploadRow(id, "info", "info", 0)
  <2>1. InfoRows = {row(id) : id \in UploadIds}
    BY DEF InfoRows
  <2>2. \A id : row(id).id = id
    BY DEF UploadRow
  <2> HIDE DEF row
  <2>3. QED
    BY <2>1, <2>2 DEF RowEach, IdsOf
<1>1. ASSUME uploadStep' # "done" \/ uploadRows' = InfoRows PROVE (uploadStep = "done" => RowEach(UploadIds, uploadRows))'
  BY <1>0, <1>1 DEF RowEach, IdsOf
<1>2. CASE DiscoverUploads \/ UploadProbe \/ UploadFails
  BY <1>1, <1>2 DEF DiscoverUploads, UploadProbe, UploadFails
<1>3. CASE JudgeUploads
  <2> DEFINE row(id) == LET w == worst[id] IN IF w.severity = "none" THEN UploadRow(id, "info", "info", 0)
                                              ELSE UploadRow(id, UploadStatus(w.severity), w.severity, w.told)
  <2>1. uploadRows' = {row(id) : id \in UploadIds}
    BY <1>3 DEF JudgeUploads
  <2>2. \A id : row(id).id = id
    BY DEF UploadRow
  <2> HIDE DEF row
  <2>3. QED
    BY <2>1, <2>2 DEF RowEach, IdsOf
<1>4. CASE UNCHANGED uploadVars
  BY <1>4 DEF uploadVars, RowEach, IdsOf
<1>5. QED
  BY <1>2, <1>3, <1>4 DEF UploadNext

LEMMA RepoRowsStay ==
  ASSUME tool \in Tools, repoStep \in {"cleanup", "done"} => IdsOf(repoRows) = {tool}, [RepoNext]_repoVars
  PROVE  (repoStep \in {"cleanup", "done"} => IdsOf(repoRows) = {tool})'
<1>0. ASSUME NEW sees, NEW F PROVE IdsOf(JudgeTool(sees, F)) = {tool}
  <2>1. Judge(tool, sees, F) = JudgeTool(sees, F)
    BY DEF Judge, JudgeTool, Tools
  <2>2. tool \in Judged \ {"security-headers", "cookies", "compliance"}
    <3>1. Registry.github = GithubQueue /\ "github" \in DOMAIN Registry
      BY DEF Registry
    <3>2. tool \in UNION {Registry[q] : q \in DOMAIN Registry}
      BY <3>1 DEF Tools, GithubQueue
    <3>3. QED
      BY <3>2 DEF Judged, Tools
  <2>3. QED
    BY <2>1, <2>2, OneRowChecks DEF OneRowEach, IdsOf
<1>1. CASE StartTool \/ CloneFails \/ RunTool
  <2>1. tool' = tool /\ (repoStep' \in {"cleanup", "done"} => \E sees, F : repoRows' = JudgeTool(sees, F))
    BY <1>1 DEF StartTool, CloneFails, RunTool
  <2>2. QED
    BY <1>0, <2>1 DEF IdsOf
<1>2. CASE WriteAskpass \/ CloneRepo \/ WorkerDies
  BY <1>2 DEF WriteAskpass, CloneRepo, WorkerDies
<1>3. CASE Cleanup
  BY <1>3 DEF Cleanup, IdsOf
<1>4. CASE UNCHANGED repoVars
  BY <1>4 DEF repoVars, IdsOf
<1>5. QED
  BY <1>1, <1>2, <1>3, <1>4 DEF RepoNext

FlowsInv == /\ BundleInv /\ BaasInv /\ ActiveInv /\ BurstInv /\ AuthInv /\ UploadInv /\ RepoInv
            /\ PageInv /\ RowsOfFlows

LEMMA FlowsStart == Init => FlowsInv
<1> SUFFICES ASSUME Init PROVE FlowsInv
  OBVIOUS
<1>1. BundleInit /\ BaasInit /\ ActiveInit /\ BurstInit /\ UploadInit /\ AuthInit /\ RepoInit
  BY DEF Init, AuthFixed, RepoFixed
<1>2. "https" \in Judged
  <2>1. Registry.http = HttpChecks /\ "http" \in DOMAIN Registry
    BY DEF Registry
  <2>2. "https" \in UNION {Registry[q] : q \in DOMAIN Registry}
    BY <2>1 DEF HttpChecks
  <2>3. QED
    BY <2>2 DEF Judged
<1>3. check \in Judged /\ rows = {}
  BY <1>2 DEF Init, RunInit, RunFixed
<1>4. PageInv
  BY <1>3 DEF PageInv
<1>5. RowsOfFlows
  BY <1>1 DEF RowsOfFlows, BundleInit, AuthInit, UploadInit, RepoInit
<1>6. QED
  BY <1>1, <1>4, <1>5, BundleStart, BaasStart, ActiveStart, BurstStart, AuthStart, UploadStart, RepoStart DEF FlowsInv

\* A step of one flow is a step, or none, of each.
LEMMA StepOfEach ==
  ASSUME [Next]_vars
  PROVE  /\ [RunNext]_runVars /\ [BundleNext]_bundleVars /\ [BaasNext]_baasVars /\ [ActiveNext]_activeVars
         /\ [BurstNext]_burstVars /\ [AuthNext]_authVars /\ [UploadNext]_uploadVars /\ [RepoNext]_repoVars
BY Zenon DEF Next, vars, OnPage, OnBundles, OnBaas, OnActive, OnBurst, OnAuth, OnUpload, OnRepo

LEMMA FlowsStay == FlowsInv /\ [Next]_vars => FlowsInv'
<1> SUFFICES ASSUME FlowsInv, [Next]_vars PROVE FlowsInv'
  OBVIOUS
<1>1. /\ [RunNext]_runVars /\ [BundleNext]_bundleVars /\ [BaasNext]_baasVars /\ [ActiveNext]_activeVars
      /\ [BurstNext]_burstVars /\ [AuthNext]_authVars /\ [UploadNext]_uploadVars /\ [RepoNext]_repoVars
  BY StepOfEach
<1>2. BundleInv' /\ BaasInv' /\ ActiveInv' /\ BurstInv' /\ AuthInv' /\ UploadInv' /\ RepoInv' /\ PageInv'
  BY <1>1, BundleStays, BaasStays, ActiveStays, BurstStays, AuthStays, UploadStays, RepoStays, PageStays DEF FlowsInv
<1>3. tool \in Tools
  BY DEF FlowsInv, RepoInv
<1>4. RowsOfFlows'
  BY <1>1, <1>3, BundleRowsStay, AuthRowsStay, UploadRowsStay, RepoRowsStay DEF FlowsInv, RowsOfFlows
<1>5. QED
  BY <1>2, <1>4 DEF FlowsInv

LEMMA FlowsAlways == Spec => []FlowsInv
BY FlowsStart, FlowsStay, PTL DEF Spec

\* Whatever the limits are, the requests to the projects of a site and the secrets in a row keep to them.
THEOREM LimitsAlwaysHold == Spec => []LimitsHold
<1>1. FlowsInv => LimitsHold
  BY BaasHolds DEF FlowsInv, BundleInv, BundleLimits, LimitsHold
<1>2. QED
  BY <1>1, FlowsAlways, PTL

\* Whatever a flow meets after it, what it has found is in its rows.
THEOREM FindingsAlwaysReported == Spec => []FindingsAreReported
<1>1. FlowsInv => SecretsAreReported
  BY DEF FlowsInv, BundleInv, BundleReport, SecretsAreReported
<1>2. FlowsInv => FindingsAreReported
  BY <1>1, BaasHolds, ActiveHolds DEF FlowsInv, UploadInv, FindingsAreReported
<1>3. QED
  BY <1>2, FlowsAlways, PTL

\* In any number of scans no flow is locked out by its own wrong logins, and no clone is left on disk.
THEOREM FlowsAlwaysClearUp == Spec => []FlowsClearUp
<1>1. FlowsInv => SessionSeenBeforeBurst
  <2> SUFFICES ASSUME FlowsInv, capture.seenBy # 0 PROVE capture.seenBy # authScan
    BY DEF SessionSeenBeforeBurst
  <2>1. AuthTyped /\ LocksInOrder
    BY DEF FlowsInv, AuthInv
  <2>2. capture.seenBy \in Nat /\ authScan \in Nat
    BY <2>1 DEF AuthTyped, IsCapture
  <2>3. capture.seenBy < authScan
    BY <2>1 DEF LocksInOrder
  <2>4. QED
    BY <2>2, <2>3
<1>2. FlowsInv => FlowsClearUp
  BY <1>1 DEF FlowsInv, RepoInv, NothingLeftOnDisk, FlowsClearUp
<1>3. QED
  BY <1>2, FlowsAlways, PTL

\* None of the checks passes something it has not looked at.
THEOREM NothingUnseenEverPasses == Spec => []NothingUnseenPasses
<1>1. FlowsInv => NothingUnseenPasses
  BY DEF FlowsInv, PageInv, BundleInv, BundleNotes, BurstInv, AuthInv, AuthKnown, RepoInv, NothingUnseenPasses
<1>2. QED
  BY <1>1, FlowsAlways, PTL

\* At the end of every flow, and after every check of a page.
LEMMA RegisteredRows == FlowsInv => RowsAsRegistered
<1> SUFFICES ASSUME FlowsInv PROVE RowsAsRegistered
  OBVIOUS
<1>1. rows # {} => IdsOf(rows) = OutputCheckIds(check)
  BY DEF FlowsInv, PageInv
<1>2. bundleStep = "done" => IdsOf(bundleRow) = OutputCheckIds("secrets-in-bundles")
  <2>1. OutputCheckIds("secrets-in-bundles") = {"secrets-in-bundles"}
    BY DEF OutputCheckIds
  <2>2. QED
    BY <2>1 DEF FlowsInv, RowsOfFlows
<1>3. IdsOf(baasRow) \subseteq OutputCheckIds("baas-security")
  <2>1. \A kind : PlatformCheckId[Platform(kind)] \in BaasIds
    BY DEF PlatformCheckId, Platform, BaasIds
  <2>2. \A r \in baasRow : r.id \in BaasIds
    BY <2>1, EvaluateSays DEF FlowsInv, BaasInv, BaasFound
  <2>3. OutputCheckIds("baas-security") = BaasIds
    BY DEF OutputCheckIds
  <2>4. QED
    BY <2>2, <2>3 DEF IdsOf
<1>4. testNo = Over => \/ IdsOf(testRows) \union {"rate-limit-burst"} = OutputCheckIds("active-tests")
                       \/ IdsOf(testRows) = {"active-tests"}
  <2>1. CASE testRows = {Result("active-tests", "info")}
    BY <2>1, ResultIs DEF IdsOf
  <2>2. CASE testNo = Over /\ RowsOfTests /\ TestsHaveRows
    <3>1. IdsOf(testRows) = {Tests[k] : k \in 1..11}
      BY <2>2, TestsDiffer DEF RowsOfTests, TestsHaveRows, IdsOf
    <3>2. {Tests[k] : k \in 1..11} \union {"rate-limit-burst"} = ActiveTestIds
      <4>1. \A k \in 1..11 : Tests[k] \in ActiveTestIds
        BY DEF Tests, ActiveTestIds
      <4>2. \A id \in ActiveTestIds \ {"rate-limit-burst"} : \E k \in 1..11 : Tests[k] = id
        BY DEF Tests, ActiveTestIds
      <4>3. "rate-limit-burst" \in ActiveTestIds
        BY DEF ActiveTestIds
      <4>4. QED
        BY <4>1, <4>2, <4>3
    <3>3. OutputCheckIds("active-tests") = ActiveTestIds
      BY DEF OutputCheckIds
    <3>4. QED
      BY <3>1, <3>2, <3>3
  <2>3. QED
    BY <2>1, <2>2 DEF FlowsInv, ActiveInv
<1>5. authRows # {} => IdsOf(authRows) = OutputCheckIds("auth-flow") /\ Cardinality(authRows) = 7
  <2>1. OutputCheckIds("auth-flow") = AuthFlowIds
    BY DEF OutputCheckIds
  <2>2. authRows # {} => RowEach(AuthFlowIds, authRows)
    BY DEF FlowsInv, RowsOfFlows
  <2>3. QED
    BY <2>1, <2>2, IdsAreMany, AsManyAsIds DEF RowEach
<1>6. uploadStep = "done" => IdsOf(uploadRows) = OutputCheckIds("upload-scan") /\ Cardinality(uploadRows) = 5
  <2>1. OutputCheckIds("upload-scan") = UploadIds
    BY DEF OutputCheckIds
  <2>2. uploadStep = "done" => RowEach(UploadIds, uploadRows)
    BY DEF FlowsInv, RowsOfFlows
  <2>3. QED
    BY <2>1, <2>2, IdsAreMany, AsManyAsIds DEF RowEach
<1>7. repoStep = "done" => IdsOf(repoRows) = OutputCheckIds(tool)
  <2>1. tool \in Tools => OutputCheckIds(tool) = {tool}
    BY DEF OutputCheckIds, Tools
  <2>2. QED
    BY <2>1 DEF FlowsInv, RepoInv, RowsOfFlows
<1>8. QED
  BY <1>1, <1>2, <1>3, <1>4, <1>5, <1>6, <1>7 DEF RowsAsRegistered

\* The rows of a check that is over are the ones the progress of a scan counts on.
THEOREM RowsAlwaysAsRegistered == Spec => []RowsAsRegistered
BY RegisteredRows, FlowsAlways, PTL
=============================================================================
