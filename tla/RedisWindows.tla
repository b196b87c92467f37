---------------------------- MODULE RedisWindows -----------------------------
(***************************************************************************)
(* The two windows kept in Redis.  The rate limiter of the web server and  *)
(* the workers counts with INCR and, on the first request, sets the end of *)
(* the window with EXPIRE, a second command.  The cooldown of the deploy   *)
(* webhooks is one SET with NX and EX, taken before the scan is created    *)
(* and never given back.                                                   *)
(*                                                                         *)
(* A cooldown lasts longer than a request takes: it does not end between   *)
(* the reservation of a delivery and its scan.                             *)
(***************************************************************************)
EXTENDS Integers, FiniteSets

CONSTANTS Requests,     \* calls of the limiter at the same time, on one key
          Limit,        \* requests let through per window
          MaxCount,     \* bound of the counter
          Deploys,      \* deliveries of deploy webhooks at the same time, for one site
          Credits,      \* scans the team can pay
          MaxLosses     \* processes that die

ASSUME WindowsAssumption == Limit \in Nat \ {0} /\ MaxCount \in Nat /\ Credits \in Nat /\ MaxLosses \in Nat

VARIABLES
    count,      \* the counter of the key; 0 when there is no key
    ttl,        \* the key has an end
    request,    \* [Requests -> where a call is]
    orphaned,   \* the call that had to set the end died
    cooldown,   \* deploy:cd:<site> is there
    deploy,     \* [Deploys -> where a delivery is]
    scanning,   \* the site has an active scan
    credits,
    starts,     \* scans that deploys started in this cooldown
    losses

limiterVars  == <<count, ttl, request, orphaned>>
cooldownVars == <<cooldown, deploy, scanning, credits, starts>>
windowVars   == <<limiterVars, cooldownVars, losses>>

WindowInit ==
    /\ count = 0 /\ ttl = FALSE /\ orphaned = FALSE
    /\ request = [r \in Requests |-> "idle"]
    /\ cooldown = FALSE /\ scanning = FALSE /\ starts = 0
    /\ deploy = [d \in Deploys |-> "idle"]
    /\ credits = Credits
    /\ losses = 0

(***************************************************************************)
(* checkRateLimit                                                          *)
(***************************************************************************)
SetsEnd(n) == n = 1

Incr(r) ==
    /\ request[r] = "idle"
    /\ count < MaxCount
    /\ count' = count + 1
    /\ request' = [request EXCEPT ![r] = IF SetsEnd(count') THEN "expire" ELSE "judged"]
    /\ UNCHANGED <<ttl, orphaned, cooldownVars, losses>>

Expire(r) ==
    /\ request[r] = "expire"
    /\ ttl' = (count > 0)
    /\ request' = [request EXCEPT ![r] = "judged"]
    /\ UNCHANGED <<count, orphaned, cooldownVars, losses>>

\* The answer: let through, or the rest of the window to wait.
Answer(r) ==
    /\ request[r] = "judged"
    /\ request' = [request EXCEPT ![r] = "idle"]
    /\ UNCHANGED <<count, ttl, orphaned, cooldownVars, losses>>

WindowEnds ==
    /\ ttl
    /\ count' = 0 /\ ttl' = FALSE
    /\ UNCHANGED <<request, orphaned, cooldownVars, losses>>

RequestDies(r) ==
    /\ request[r] # "idle"
    /\ losses < MaxLosses
    /\ losses' = losses + 1
    /\ orphaned' = (orphaned \/ request[r] = "expire")
    /\ request' = [request EXCEPT ![r] = "idle"]
    /\ UNCHANGED <<count, ttl, cooldownVars>>

(***************************************************************************)
(* startDeployScan, after the plan of the team is found to include it.     *)
(***************************************************************************)
Deliver(d) ==
    /\ deploy[d] = "idle"
    /\ deploy' = [deploy EXCEPT ![d] = "reserve"]
    /\ UNCHANGED <<limiterVars, cooldown, scanning, credits, starts, losses>>

\* wrong: looks whether the key is there, and takes it later
Reserves_Get == cooldown
\* set ... NX EX
Reserves == TRUE

ReserveCooldown(d) ==
    /\ deploy[d] = "reserve"
    /\ deploy' = [deploy EXCEPT ![d] = IF cooldown THEN "idle" ELSE "create"]
    /\ cooldown' = Reserves
    /\ starts' = IF cooldown THEN starts ELSE 0
    /\ UNCHANGED <<limiterVars, scanning, credits, losses>>

\* createManualScan: an active scan and a lack of credits end it, the latter with a notification.
CreateScan(d) ==
    /\ deploy[d] = "create"
    /\ IF scanning \/ credits = 0
       THEN /\ deploy' = [deploy EXCEPT ![d] = "idle"]
            /\ UNCHANGED <<scanning, credits, starts>>
       ELSE /\ deploy' = [deploy EXCEPT ![d] = "enqueue"]
            /\ scanning' = TRUE /\ credits' = credits - 1 /\ starts' = starts + 1
    /\ UNCHANGED <<limiterVars, cooldown, losses>>

EnqueueScan(d) ==
    /\ deploy[d] = "enqueue"
    /\ deploy' = [deploy EXCEPT ![d] = "idle"]
    /\ UNCHANGED <<limiterVars, cooldown, scanning, credits, starts, losses>>

DeployDies(d) ==
    /\ deploy[d] # "idle"
    /\ losses < MaxLosses
    /\ losses' = losses + 1
    /\ deploy' = [deploy EXCEPT ![d] = "idle"]
    /\ UNCHANGED <<limiterVars, cooldown, scanning, credits, starts>>

CooldownEnds ==
    /\ cooldown
    /\ \A d \in Deploys : deploy[d] # "create"
    /\ cooldown' = FALSE
    /\ UNCHANGED <<limiterVars, deploy, scanning, credits, starts, losses>>

ScanEnds ==
    /\ scanning
    /\ scanning' = FALSE
    /\ UNCHANGED <<limiterVars, cooldown, deploy, credits, starts, losses>>

WindowNext ==
    \/ \E r \in Requests : Incr(r) \/ Expire(r) \/ Answer(r) \/ RequestDies(r)
    \/ WindowEnds
    \/ \E d \in Deploys : Deliver(d) \/ ReserveCooldown(d) \/ CreateScan(d) \/ EnqueueScan(d) \/ DeployDies(d)
    \/ CooldownEnds \/ ScanEnds

WindowSpec == WindowInit /\ [][WindowNext]_windowVars

(***************************************************************************)
(* Properties.                                                             *)
(***************************************************************************)
\* The call that began the window is about to set its end.
EndIsComing == \E r \in Requests : request[r] = "expire"

\* However the calls meet: a window of the limiter has an end or is about to get one, unless the call that
\* had to set it died, after which the key never opens again; and one cooldown of a site sees one scan,
\* however many deliveries come in together.
WindowsHold ==
    /\ count > 0 /\ ~ttl => orphaned \/ EndIsComing
    /\ starts <= 1
=============================================================================
