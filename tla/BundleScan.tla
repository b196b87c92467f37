----------------------------- MODULE BundleScan ------------------------------
(***************************************************************************)
(* secrets-in-bundles: the scripts a page links to are downloaded one by   *)
(* one, each with its source map, and searched for secrets until there are *)
(* enough.  What could not be read is noted, and a note keeps the row from *)
(* passing (apps/worker/src/checks/http/secrets-in-bundles.ts).            *)
(***************************************************************************)
EXTENDS CheckRegistry

CONSTANTS MaxBundles,   \* BUNDLE_SCAN_LIMITS.maxBundles
          MaxMatches,   \* BUNDLE_SCAN_LIMITS.maxMatches
          Texts         \* what a script or a source of a map can hold: sets of tokens, by number

ASSUME BundleAssumption ==
    /\ MaxBundles \in Nat /\ MaxMatches \in Nat \ {0}
    /\ \A text \in Texts : IsFiniteSet(text) /\ text \subseteq Tokens \X Nat

VARIABLES bundleStep,   \* "home", "bundle", "map" or "done"
          bundlesLeft,  \* the linked scripts still to be read
          matches,      \* the secrets to be reported
          noted,        \* whether a note was made
          secretsRead,  \* every secret in what was read
          unread,       \* what was linked and not read, and why
          bundleRow     \* the rows of the check

bundleVars == <<bundleStep, bundlesLeft, matches, noted, secretsRead, unread, bundleRow>>

BundleInit == /\ bundleStep = "home" /\ bundlesLeft = 0 /\ matches = {} /\ noted = FALSE
              /\ secretsRead = {} /\ unread = {} /\ bundleRow = {}

Secrets(text) == {t \in text : t[1] \in ExtractBundleSecrets({t[1]})}

\* addMatches: one new secret at least, then up to the limit; which come first is the text's order.
AddMatches(text) ==
    LET new   == Secrets(text) \ matches
        room  == Max({1, MaxMatches - Cardinality(matches)})
    IN  {matches \union S : S \in {S \in SUBSET new : Cardinality(S) = Min({room, Cardinality(new)})}}

Full(ms) == Cardinality(ms) >= MaxMatches
NextOne  == IF bundlesLeft = 1 THEN "judge" ELSE "bundle"

FetchHome ==
    /\ bundleStep = "home"
    /\ \/ /\ bundleStep' = "done"                               \* not there, or not HTML
          /\ bundleRow' = {Result("secrets-in-bundles", "info")}
          /\ UNCHANGED <<bundlesLeft, noted, unread>>
       \/ \E linked \in 0..(MaxBundles + 1) :                   \* extractScriptSrc
            /\ bundlesLeft' = Min({linked, MaxBundles})
            /\ noted' = (linked > MaxBundles)
            /\ unread' = IF noted' THEN {"beyond the limit"} ELSE {}
            /\ bundleStep' = IF linked = 0 THEN "judge" ELSE "bundle"
            /\ UNCHANGED bundleRow
    /\ UNCHANGED <<matches, secretsRead>>

\* downloadText gave nothing: the limit of the host, more than 5 MB, or an error.
SkipBundle ==
    /\ bundleStep = "bundle"
    /\ noted' = TRUE
    /\ unread' = unread \union {"bundle"}
    /\ bundlesLeft' = bundlesLeft - 1
    /\ bundleStep' = NextOne
    /\ UNCHANGED <<matches, secretsRead, bundleRow>>

\* Enough matches end the check; a script may name its source map.
ScanBundle ==
    /\ bundleStep = "bundle"
    /\ \E text \in Texts, map \in BOOLEAN :
         /\ matches' \in AddMatches(text)
         /\ secretsRead' = secretsRead \union Secrets(text)
         /\ IF Full(matches')
            THEN /\ bundleStep' = "judge" /\ bundlesLeft' = 0
                 /\ unread' = unread \union (IF map \/ bundlesLeft > 1 THEN {"after the limit"} ELSE {})
            ELSE /\ bundleStep' = IF map THEN "map" ELSE NextOne
                 /\ bundlesLeft' = IF map THEN bundlesLeft ELSE bundlesLeft - 1
                 /\ UNCHANGED unread
    /\ UNCHANGED <<noted, bundleRow>>

\* parseSourceMappingComment, decodeInlineMap, sourcesContentFromMap.
SkippedMap_Silent(why)  == FALSE         \* wrong: a map that is not there is not worth a note
SkippedMap(why) == why \in {"not decodable", "download failed"}

ReadMap ==
    /\ bundleStep = "map"
    /\ \/ \E why \in {"not decodable", "download failed", "bad address", "not a map"} :
            /\ noted' = (noted \/ SkippedMap(why))
            /\ unread' = unread \union {why}
            /\ UNCHANGED <<matches, secretsRead>>
       \/ \E text \in Texts :
            /\ matches' \in AddMatches(text)
            /\ secretsRead' = secretsRead \union Secrets(text)
            /\ UNCHANGED <<noted, unread>>
    /\ bundlesLeft' = bundlesLeft - 1
    /\ bundleStep' = NextOne
    /\ UNCHANGED bundleRow

JudgeBundles ==
    /\ bundleStep = "judge"
    /\ bundleStep' = "done"
    /\ bundleRow' = LET kinds == {t[1] : t \in matches}
                    IN  {Rated("secrets-in-bundles",
                               IF matches # {} THEN MatchStatus(kinds) ELSE IF noted THEN "info" ELSE "pass",
                               MatchSeverity(kinds))}
    /\ UNCHANGED <<bundlesLeft, matches, noted, secretsRead, unread>>

BundleNext == FetchHome \/ SkipBundle \/ ScanBundle \/ ReadMap \/ JudgeBundles

(***************************************************************************)
(* What the row says of the page.                                          *)
(***************************************************************************)
\* Nothing the page links to was left unread, but for the two cases the code passes over in silence.
BundlesPassHonestly ==
    \A r \in bundleRow : r.status = "pass" => unread \subseteq {"bad address", "not a map"}

\* Every secret in what was read is reported, until the limit of reports is reached.
SecretsAreReported ==
    bundleStep = "done" /\ ~Full(matches) => secretsRead \subseteq matches
=============================================================================
