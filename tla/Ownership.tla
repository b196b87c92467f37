----------------------------- MODULE Ownership ------------------------------
(***************************************************************************)
(* Proof that a team owns a site, for the tests that log in or upload: a   *)
(* token in sites.ownership_token that the owner puts in a TXT record.     *)
(* The verify route reads the token, looks the record up and writes the    *)
(* outcome; the token may be rotated in between, by a request of its own.  *)
(* A scan with active tests looks for itself, and only then loads the      *)
(* account the tests log in with.                                          *)
(***************************************************************************)
EXTENDS Integers

CONSTANTS Verifiers,   \* requests that verify at the same time
          MaxTokens,   \* tokens a site gets
          MaxRecords   \* changes of the TXT record

ASSUME OwnershipAssumption == MaxTokens \in Nat \ {0} /\ MaxRecords \in Nat

VARIABLES
    token,      \* ownership_token; 0 is null
    verified,   \* ownership_verified_at is set
    txt,        \* the token in the TXT record; 0 when there is none
    records,    \* changes of the record so far
    verifier,   \* [Verifiers -> [pc, token, found]]
    gate,       \* the gate of a running scan: [pc, token, account]
    account,    \* there is a row in site_auth_credentials
    shown       \* tokens a lookup has found in the record

ownerVars == <<token, verified, txt, records, verifier, gate, account, shown>>

Verifying(pc, t, found)  == [pc |-> pc, token |-> t, found |-> found]
Gate(pc, t, acc)         == [pc |-> pc, token |-> t, account |-> acc]
NoVerifier               == Verifying("idle", 0, FALSE)
NoGate                   == Gate("idle", 0, FALSE)

OwnerInit ==
    /\ token = 0 /\ verified = FALSE /\ txt = 0 /\ records = 0
    /\ verifier = [v \in Verifiers |-> NoVerifier]
    /\ gate = NoGate /\ account = FALSE /\ shown = {}

\* The owner puts a token he was given in the record, or takes the record away.
ChangeRecord ==
    /\ records < MaxRecords
    /\ txt' \in (0..token) \ {txt}
    /\ records' = records + 1
    /\ UNCHANGED <<token, verified, verifier, gate, account, shown>>

\* ensureOwnershipToken: coalesce(ownership_token, a new one).
EnsureToken(v) ==
    /\ verifier[v].pc = "idle"
    /\ token' = IF token = 0 THEN 1 ELSE token
    /\ verifier' = [verifier EXCEPT ![v] = Verifying("read", 0, FALSE)]
    /\ UNCHANGED <<verified, txt, records, gate, account, shown>>

\* checkOwnershipLive: the token, then the record; a lookup that fails finds nothing.
ReadToken(v) ==
    /\ verifier[v].pc = "read"
    /\ verifier' = [verifier EXCEPT ![v] = Verifying("lookup", token, FALSE)]
    /\ UNCHANGED <<token, verified, txt, records, gate, account, shown>>

Found(t) == {FALSE} \union {t = txt}
Shown(t, found) == IF found THEN shown \union {t} ELSE shown

Lookup(v) ==
    /\ verifier[v].pc = "lookup"
    /\ \E found \in Found(verifier[v].token) :
          /\ verifier' = [verifier EXCEPT ![v] = Verifying("record", verifier[v].token, found)]
          /\ shown' = Shown(verifier[v].token, found)
    /\ UNCHANGED <<token, verified, txt, records, gate, account>>

\* wrong: no "and ownership_token = $3"
Concerns_Any(checked) == TRUE
Concerns(checked) == checked = token

\* recordOwnershipCheck: the outcome is of the token that was checked, and of no other.
Record(v) ==
    /\ verifier[v].pc = "record"
    /\ verified' = IF Concerns(verifier[v].token) THEN verifier[v].found ELSE verified
    /\ verifier' = [verifier EXCEPT ![v] = NoVerifier]
    /\ UNCHANGED <<token, txt, records, gate, account, shown>>

Rotate ==
    /\ token < MaxTokens
    /\ token' = token + 1
    /\ verified' = FALSE
    /\ UNCHANGED <<txt, records, verifier, gate, account, shown>>

\* PUT and DELETE of the account for the tests.
ChangeAccount ==
    /\ account' = ~account
    /\ UNCHANGED <<token, verified, txt, records, verifier, gate, shown>>

(***************************************************************************)
(* The gate of the scan worker, for a scan with active tests.              *)
(***************************************************************************)
GateReads ==
    /\ gate.pc = "idle"
    /\ gate' = IF token = 0 THEN Gate("run", 0, FALSE) ELSE Gate("lookup", token, FALSE)
    /\ UNCHANGED <<token, verified, txt, records, verifier, account, shown>>

GateLooksUp ==
    /\ gate.pc = "lookup"
    /\ \E found \in Found(gate.token) :
          /\ gate' = Gate(IF found THEN "load" ELSE "run", gate.token, FALSE)
          /\ shown' = Shown(gate.token, found)
    /\ UNCHANGED <<token, verified, txt, records, verifier, account>>

\* loadAuthCredentials; an account that cannot be decrypted is none.
GateLoads ==
    /\ gate.pc = "load"
    /\ \E loaded \in {FALSE, account} : gate' = Gate("run", gate.token, loaded)
    /\ UNCHANGED <<token, verified, txt, records, verifier, account, shown>>

GateCloses ==
    /\ gate.pc = "run"
    /\ gate' = NoGate
    /\ UNCHANGED <<token, verified, txt, records, verifier, account, shown>>

OwnerNext ==
    \/ ChangeRecord \/ Rotate \/ ChangeAccount
    \/ \E v \in Verifiers : EnsureToken(v) \/ ReadToken(v) \/ Lookup(v) \/ Record(v)
    \/ GateReads \/ GateLooksUp \/ GateLoads \/ GateCloses

OwnerSpec == OwnerInit /\ [][OwnerNext]_ownerVars

(***************************************************************************)
(* Properties.                                                             *)
(***************************************************************************)
\* A site is shown as verified only when a lookup has found the token it has now, whichever requests
\* verified and rotated at the same time; and a scan logs in nowhere unless a lookup found its token.
OwnershipIsProven ==
    /\ verified => token \in shown
    /\ gate.account => gate.token \in shown
=============================================================================
