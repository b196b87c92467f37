----------------------------- MODULE MCServices ------------------------------
(***************************************************************************)
(* The services around a scan, for TLC: the findings with the hub that     *)
(* tells of them, the proof of ownership, the windows in Redis and the     *)
(* page that follows a scan.  They share no state, so a behaviour here     *)
(* follows one of them: focus says which.                                  *)
(***************************************************************************)
EXTENDS Findings, Ownership, RedisWindows, ProgressView

VARIABLE focus

vars == <<focus, hubVars, findingVars, ownerVars, windowVars, viewVars>>

(* Values of the constants: a titled check of the category compliance and  *)
(* an untitled one of another, of which at most one fails at a time.       *)
MCResults == {[banner |-> "pass", mail |-> "pass"],
              [banner |-> "fail", mail |-> "pass"],
              [banner |-> "pass", mail |-> "fail"]}
MCPatches == {[status |-> "ignored", snooze |-> Keep],
              [status |-> "open", snooze |-> Keep],
              [status |-> Keep, snooze |-> "next-scan"]}

Init == /\ focus \in {"findings", "ownership", "windows", "view"}
        /\ HubInit /\ FindingsInit /\ OwnerInit /\ WindowInit /\ ViewInit

\* Edits and the hub touch different state, so an edit may wait for the end of a call.
OnFindings  == /\ focus = "findings" /\ FindingsNext
               /\ editor' # editor => call["aggregator"].pc = "idle"
               /\ UNCHANGED <<focus, ownerVars, windowVars, viewVars>>
OnOwnership == /\ focus = "ownership" /\ OwnerNext
               /\ UNCHANGED <<focus, hubVars, findingVars, windowVars, viewVars>>
OnWindows   == /\ focus = "windows" /\ WindowNext
               /\ UNCHANGED <<focus, hubVars, findingVars, ownerVars, viewVars>>
OnView      == /\ focus = "view" /\ ViewNext
               /\ UNCHANGED <<focus, hubVars, findingVars, ownerVars, windowVars>>

Next == OnFindings \/ OnOwnership \/ OnWindows \/ OnView
Spec == Init /\ [][Next]_vars
=============================================================================
