--------------------------- MODULE WebhookDelivery ---------------------------
(***************************************************************************)
(* The outbox of one outbound webhook and the processes that empty it: the *)
(* ticks of the scheduler, which may overlap, and the test button.         *)
(* packages/notify/src/{index,webhook-deliverer}.ts and                    *)
(* apps/web/lib/webhooks-core.ts.                                          *)
(*                                                                         *)
(* Deliveries are numbered in the order of created_at.  Time is counted in *)
(* units of one request timeout (DELIVERY_TIMEOUT_MS); next_attempt_at is  *)
(* the time left until it, and null and the past are both 0.  Statements   *)
(* take no time against a lease of 15 minutes, requests do.                *)
(*                                                                         *)
(* Left out: what is shown only (failure_count, last_http_status, error),  *)
(* the payload and its signature, and the limit of 50 rows per tick.  What *)
(* nobody reads is not kept: next_attempt_at of a row that has ended is 0, *)
(* and the attempts of a test, which decide nothing, are counted up to 2.  *)
(*                                                                         *)
(* Bounds: MaxToggles switches of the webhook by a user, MaxFaults aborts. *)
(***************************************************************************)
EXTENDS Integers, FiniteSets, FiniteSetsExt

CONSTANTS Deliveries,   \* 1..N: the rows that may come to be
          Tests,        \* those of event `test`, inserted by the test button
          Ticks,        \* scheduler ticks that may be under way together
          Web,          \* the request behind the test button
          MaxAttempts,  \* MAX_ATTEMPTS
          Backoff,      \* [1..MaxAttempts-1 -> Nat]: BACKOFF_MS
          Lease,        \* CLAIM_LEASE_MS
          Hops,         \* redirects the endpoint answers with, each with its own timeout
          MaxToggles,
          MaxFaults

ASSUME DeliveryAssumption ==
    /\ Deliveries \subseteq Nat \ {0} /\ IsFiniteSet(Deliveries)
    /\ Tests \subseteq Deliveries
    /\ Web \notin Ticks
    /\ MaxAttempts \in Nat \ {0}
    /\ Backoff \in [1..(MaxAttempts - 1) -> Nat]
    /\ Lease \in Nat /\ Hops \in Nat /\ MaxToggles \in Nat /\ MaxFaults \in Nat

VARIABLES
    hook,     \* webhooks.active, or "deleted"
    status,   \* [Deliveries -> Statuses]: webhook_deliveries.status
    attempts, \* [Deliveries -> Nat]: webhook_deliveries.attempts
    dueIn,    \* [Deliveries -> Nat]: time left until next_attempt_at
    batch,    \* [Processes -> SUBSET Deliveries]: claimed and not yet begun
    cur,      \* [Processes -> Deliveries \union {0}]: the delivery being sent
    at,       \* [Processes -> where]: where its deliverOne is
    tryNo,    \* [Processes -> Nat]: attempts, from the row it has read
    timer,    \* [Processes -> Nat]: time since the request was sent
    disables, \* how often the deliverer has switched the webhook off
    notices,  \* webhook_disabled notifications that were stored
    toggles, faults

vars == <<hook, status, attempts, dueIn, batch, cur, at, tryNo, timer, disables, notices,
          toggles, faults>>

rows   == <<status, attempts, dueIn>>
sender == <<batch, cur, at, tryNo, timer>>
counts == <<disables, notices, toggles, faults>>

Processes == Ticks \union {Web}
Due       == {"pending", "failed"}
Ended     == {"ok", "rejected", "disabled", "gone"}
Statuses  == {"absent"} \union Due \union Ended

Init ==
    /\ hook = "active"
    /\ status = [d \in Deliveries |-> "absent"]
    /\ attempts = [d \in Deliveries |-> 0]
    /\ dueIn = [d \in Deliveries |-> 0]
    /\ batch = [p \in Processes |-> {}]
    /\ cur = [p \in Processes |-> 0]
    /\ at = [p \in Processes |-> "idle"]
    /\ tryNo = [p \in Processes |-> 0]
    /\ timer = [p \in Processes |-> 0]
    /\ disables = 0 /\ notices = 0
    /\ toggles = 0 /\ faults = 0

\* An update `where id = $1`: it finds nothing once the row is deleted.
Write(d, s, n, wait) ==
    IF status[d] = "gone"
    THEN UNCHANGED rows
    ELSE /\ status' = [status EXCEPT ![d] = s]
         /\ attempts' = [attempts EXCEPT ![d] = n]
         /\ dueIn' = [dueIn EXCEPT ![d] = IF s \in Due THEN wait ELSE 0]

Rest(p) == /\ at' = [at EXCEPT ![p] = "idle"]
           /\ cur' = [cur EXCEPT ![p] = 0]
           /\ tryNo' = [tryNo EXCEPT ![p] = 0]
           /\ timer' = [timer EXCEPT ![p] = 0]

\* Rows are made in the order of their numbers.
Newest(d) == status[d] = "absent" /\ \A e \in Deliveries : e < d => status[e] # "absent"
-----------------------------------------------------------------------------
(* The hub and the user.                                                   *)

\* notify: an event puts one row in the outbox of an active webhook.
Notify(d) ==
    /\ d \notin Tests /\ Newest(d)
    /\ hook = "active"
    /\ status' = [status EXCEPT ![d] = "pending"]
    /\ UNCHANGED <<hook, attempts, dueIn, sender, counts>>

\* The test button: the row is inserted and sent at once, without a lease.
SendTestWebhook(d) ==
    /\ d \in Tests /\ Newest(d)
    /\ hook # "deleted"
    /\ at[Web] = "idle"
    /\ status' = [status EXCEPT ![d] = "pending"]
    /\ at' = [at EXCEPT ![Web] = "read"]
    /\ cur' = [cur EXCEPT ![Web] = d]
    /\ UNCHANGED <<hook, attempts, dueIn, batch, tryNo, timer, counts>>

UpdateWebhook ==
    /\ hook # "deleted"
    /\ toggles < MaxToggles
    /\ hook' = IF hook = "active" THEN "inactive" ELSE "active"
    /\ toggles' = toggles + 1
    /\ UNCHANGED <<rows, sender, disables, notices, faults>>

\* The deliveries go with the webhook (on delete cascade).
DeleteWebhook ==
    /\ hook # "deleted"
    /\ toggles < MaxToggles
    /\ hook' = "deleted"
    /\ status' = [d \in Deliveries |-> IF status[d] = "absent" THEN "absent" ELSE "gone"]
    /\ dueIn' = [d \in Deliveries |-> 0]
    /\ toggles' = toggles + 1
    /\ UNCHANGED <<attempts, sender, disables, notices, faults>>
-----------------------------------------------------------------------------
(* The deliverer.                                                          *)

ClaimWait_NoLease == 0

\* How long a claimed row stays invisible to other ticks.
ClaimWait == Lease

\* deliverDue: one transaction claims every due row (for update skip locked).
Claim(t) ==
    LET due == {d \in Deliveries : status[d] \in Due /\ dueIn[d] = 0}
    IN  /\ at[t] = "idle" /\ batch[t] = {}
        /\ due # {}
        /\ batch' = [batch EXCEPT ![t] = due]
        /\ dueIn' = [d \in Deliveries |-> IF d \in due THEN ClaimWait ELSE dueIn[d]]
        /\ UNCHANGED <<hook, status, attempts, cur, at, tryNo, timer, counts>>

NextOfBatch(t) ==
    /\ at[t] = "idle" /\ batch[t] # {}
    /\ LET d == Min(batch[t])
       IN  /\ batch' = [batch EXCEPT ![t] = @ \ {d}]
           /\ cur' = [cur EXCEPT ![t] = d]
    /\ at' = [at EXCEPT ![t] = "read"]
    /\ UNCHANGED <<hook, rows, tryNo, timer, counts>>

MayStillSend_Due(d) == dueIn[d] = 0

\* deliverOne reads the row again: it may have ended since it was claimed.
MayStillSend(d) == status[d] \in Due

ReadDelivery(p) ==
    /\ at[p] = "read"
    /\ UNCHANGED <<hook, batch, counts>>
    /\ \/ /\ ~MayStillSend(cur[p])
          /\ Rest(p) /\ UNCHANGED rows
       \/ /\ MayStillSend(cur[p]) /\ hook = "inactive"
          /\ Write(cur[p], "disabled", attempts[cur[p]], 0)
          /\ Rest(p)
       \/ /\ MayStillSend(cur[p]) /\ hook = "active"
          /\ at' = [at EXCEPT ![p] = "post"]
          /\ tryNo' = [tryNo EXCEPT ![p] = IF cur[p] \in Tests THEN Min({2, attempts[cur[p]] + 1})
                                          ELSE attempts[cur[p]] + 1]
          /\ UNCHANGED <<rows, cur, timer>>

\* 2xx
AnswerOk(p) ==
    /\ at[p] = "post"
    /\ Write(cur[p], "ok", tryNo[p], 0)
    /\ Rest(p)
    /\ UNCHANGED <<hook, batch, counts>>

\* 400, 401, 403, 404, 410, an address or a payload that is not allowed.
AnswerPermanent(p) ==
    /\ at[p] = "post"
    /\ Write(cur[p], "rejected", tryNo[p], 0)
    /\ Rest(p)
    /\ UNCHANGED <<hook, batch, counts>>

GivesUp_OneMore(n) == n > MaxAttempts

GivesUp(n) == n >= MaxAttempts

\* Any other answer, a timeout, or a secret that does not decrypt: handleFailure.
HandleFailure(p) ==
    /\ at[p] = "post"
    /\ UNCHANGED <<batch, notices, toggles, faults>>
    /\ LET d == cur[p]
       IN  \/ /\ d \in Tests
              /\ Write(d, "failed", tryNo[p], dueIn[d])
              /\ Rest(p) /\ UNCHANGED <<hook, disables>>
           \/ /\ d \notin Tests /\ ~GivesUp(tryNo[p])
              /\ Write(d, "failed", tryNo[p], Backoff[IF tryNo[p] < MaxAttempts THEN tryNo[p]
                                                      ELSE MaxAttempts - 1])
              /\ Rest(p) /\ UNCHANGED <<hook, disables>>
           \/ /\ d \notin Tests /\ GivesUp(tryNo[p])
              /\ hook' = IF hook = "deleted" THEN hook ELSE "inactive"
              /\ disables' = IF hook = "active" THEN disables + 1 ELSE disables
              /\ at' = [at EXCEPT ![p] = "disable"]
              /\ timer' = [timer EXCEPT ![p] = 0]
              /\ UNCHANGED <<rows, cur, tryNo>>

\* disableWebhook, second statement.
DisableDelivery(p) ==
    /\ at[p] = "disable"
    /\ Write(cur[p], "disabled", tryNo[p], 0)
    /\ at' = [at EXCEPT ![p] = "notify"]
    /\ UNCHANGED <<hook, batch, cur, tryNo, timer, counts>>

NotifyDisabled_Lost(p) ==
    /\ at[p] = "notify"
    /\ Rest(p)
    /\ UNCHANGED <<hook, rows, batch, counts>>

\* The notification's incident is the webhook itself: only the first one is stored.
NotifyDisabled(p) ==
    /\ at[p] = "notify"
    /\ notices' = 1
    /\ Rest(p)
    /\ UNCHANGED <<hook, rows, batch, disables, toggles, faults>>

\* A statement fails, or the process dies: the rest of the batch is left to its lease.
Abort(p) ==
    /\ at[p] # "idle" \/ batch[p] # {}
    /\ faults < MaxFaults /\ faults' = faults + 1
    /\ batch' = [batch EXCEPT ![p] = {}]
    /\ Rest(p)
    /\ UNCHANGED <<hook, rows, disables, notices, toggles>>

\* Time passes while nobody has anything to do but wait for an endpoint.
Pass ==
    /\ \A p \in Processes : \/ at[p] = "idle" /\ batch[p] = {}
                            \/ at[p] = "post" /\ timer[p] <= Hops
    /\ \/ \E d \in Deliveries : dueIn[d] > 0
       \/ \E p \in Processes : at[p] = "post"
    /\ dueIn' = [d \in Deliveries |-> IF dueIn[d] > 0 THEN dueIn[d] - 1 ELSE 0]
    /\ timer' = [p \in Processes |-> IF at[p] = "post" THEN timer[p] + 1 ELSE 0]
    /\ UNCHANGED <<hook, status, attempts, batch, cur, at, tryNo, counts>>
-----------------------------------------------------------------------------
Send(p) ==
    \/ ReadDelivery(p)
    \/ AnswerOk(p) \/ AnswerPermanent(p) \/ HandleFailure(p)
    \/ DisableDelivery(p)
    \/ NotifyDisabled(p)

Next ==
    \/ \E d \in Deliveries : Notify(d) \/ SendTestWebhook(d)
    \/ UpdateWebhook
    \/ DeleteWebhook
    \/ \E t \in Ticks : Claim(t) \/ NextOfBatch(t)
    \/ \E p \in Processes : Send(p) \/ Abort(p)
    \/ Pass

Spec == Init /\ [][Next]_vars

\* The scheduler starts a tick again and again, requests time out, time passes.
Fairness ==
    /\ \A t \in Ticks : WF_vars(Claim(t)) /\ WF_vars(NextOfBatch(t))
    /\ \A p \in Processes : WF_vars(Send(p))
    /\ WF_vars(Pass)

FairSpec == Spec /\ Fairness
-----------------------------------------------------------------------------
(* Properties.  Endpoint and processes are as the comments of the code     *)
(* assume (no redirects) unless a run says otherwise.                      *)

Events == Deliveries \ Tests

\* The deliveries a process is at or has still to begin.
Holds(p) == batch[p] \union ({cur[p]} \ {0})

(***************************************************************************)
(* The lease is a lock: no two ticks hold the same delivery, also when one *)
(* of them is slow and the other starts meanwhile, or one has died.        *)
(***************************************************************************)
OneSender ==
    \A p, q \in Processes : p # q => Holds(p) \intersect Holds(q) \intersect Events = {}

(***************************************************************************)
(* The deliverer switches a webhook off only when one and the same event   *)
(* has failed MaxAttempts times, and every try was recorded before.        *)
(***************************************************************************)
DisableHasCause ==
    disables' > disables => \E d \in Events : attempts[d] = MaxAttempts - 1 /\ status[d] \in Due \union {"gone"}

DisabledForCause == [][DisableHasCause]_vars

(***************************************************************************)
(* A team whose webhook the deliverer has switched off was told so, once   *)
(* no request or statement is under way (and none has failed).             *)
(***************************************************************************)
DisableIsNotified ==
    (\A p \in Processes : at[p] = "idle") /\ faults = 0 /\ disables > 0 => notices = 1

(***************************************************************************)
(* Every event that entered the outbox gets an outcome, whatever the       *)
(* endpoint answers, whatever the user switches and wherever a tick dies.  *)
(***************************************************************************)
EveryEventEnds == \A d \in Events : status[d] = "pending" ~> status[d] \in Ended
=============================================================================
