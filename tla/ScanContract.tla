---------------------------- MODULE ScanContract ----------------------------
(***************************************************************************)
(* What the owner of a team may rely on: the scans of the team as if every *)
(* trigger, cancel and result were one atomic operation.  There are no     *)
(* locks, requests, ticks, jobs or processes here; ScanLifecycle, which    *)
(* has them all, is shown to implement this specification.                 *)
(*                                                                         *)
(* It is the contract the code keeps, so it has the one blemish the code   *)
(* has: a canceled scan may come back to life (Resume), which is why a     *)
(* second scan of the site may then be active beside it.                   *)
(***************************************************************************)
EXTENDS Integers

CONSTANTS Sites,        \* the sites of one team
          Scans,        \* scan ids
          CreditLimit,  \* creditsPerPeriod of the team's plan
          NoSite        \* the site of a scan that does not exist yet

VARIABLES status,       \* [Scans -> status]: scans.status
          siteOf,       \* [Scans -> Sites \union {NoSite}]: scans.site_id
          used,         \* subscriptions.credits_used
          wasCanceled   \* scans that were canceled at some time

contractVars == <<status, siteOf, used, wasCanceled>>

ContractInit ==
    /\ status = [s \in Scans |-> "absent"]
    /\ siteOf = [s \in Scans |-> NoSite]
    /\ used = 0
    /\ wasCanceled = {}

\* No scan of the site is queued, and none is running unless it was canceled.
Free(x) == \A s \in Scans : siteOf[s] = x => /\ status[s] # "queued"
                                             /\ s \notin wasCanceled => status[s] # "running"

\* By hand or by the scheduler: the scan and its payment appear together.
Trigger(s, x) ==
    /\ status[s] = "absent"
    /\ Free(x)
    /\ used < CreditLimit
    /\ status' = [status EXCEPT ![s] = "queued"]
    /\ siteOf' = [siteOf EXCEPT ![s] = x]
    /\ used' = used + 1
    /\ UNCHANGED wasCanceled

\* A scan that was paid for without its id is canceled without a refund.
Cancel(s) ==
    /\ status[s] \in {"queued", "running"}
    /\ status' = [status EXCEPT ![s] = "canceled"]
    /\ \/ used' = used
       \/ used > 0 /\ used' = used - 1
    /\ wasCanceled' = wasCanceled \union {s}
    /\ UNCHANGED siteOf

Start(s) ==
    /\ status[s] = "queued"
    /\ status' = [status EXCEPT ![s] = "running"]
    /\ UNCHANGED <<siteOf, used, wasCanceled>>

Resume(s) ==
    /\ status[s] = "canceled"
    /\ status' = [status EXCEPT ![s] = "running"]
    /\ UNCHANGED <<siteOf, used, wasCanceled>>

\* Also a correction: completed becomes failed, or failed completed.
Finish(s) ==
    /\ status[s] \in {"running", "completed", "failed"}
    /\ \E outcome \in {"completed", "failed"} : status' = [status EXCEPT ![s] = outcome]
    /\ UNCHANGED <<siteOf, used, wasCanceled>>

ContractNext ==
    \E s \in Scans : \/ \E x \in Sites : Trigger(s, x)
                     \/ Cancel(s)
                     \/ Start(s)
                     \/ Resume(s)
                     \/ Finish(s)

ContractSpec == ContractInit /\ [][ContractNext]_contractVars
=============================================================================
