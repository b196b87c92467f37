-------------------------------- MODULE Hub ---------------------------------
(***************************************************************************)
(* The notification hub, createNotifier of packages/notify/src/index.ts:   *)
(* one call per event looks up the members of the team and their           *)
(* preferences, inserts one row per member that wants to know (a unique    *)
(* dedup_key), mails whoever got a new row, and queues a delivery for      *)
(* every webhook that listens.  Calls run side by side, in the worker, the *)
(* scheduler, the poller and the web server; each statement is a step.     *)
(*                                                                         *)
(* A mail that fails is logged and never tried again.  A statement that    *)
(* fails ends the call and is thrown to the caller, which drops the event  *)
(* or calls again (the aggregator in Findings, Stripe's route in Billing). *)
(***************************************************************************)
EXTENDS Integers, FiniteSets

CONSTANTS Callers,     \* processes that call the hub
          Users,       \* members of the team
          Hooks,       \* active webhooks of the team that listen to the event
          MaxHubFaults \* statements that fail and processes that die

ASSUME HubAssumption == MaxHubFaults \in Nat

VARIABLES
    call,     \* [Callers -> [pc, event, todo, user]]: what each call is at
    rows,     \* dedup keys in notifications: <<event, user>>
    mails,    \* [rows ever made -> mails sent], as a set of <<event, user, n>>
    outbox,   \* dedup keys in webhook_deliveries: <<event, webhook>>
    wanted,   \* members whose preference for these events is on; it does not change here
    hubFaults \* faults so far

hubVars == <<call, rows, mails, outbox, wanted, hubFaults>>

NoUser   == "nobody"
Call(pc, event, todo, user) == [pc |-> pc, event |-> event, todo |-> todo, user |-> user]
NoCall   == Call("idle", <<>>, {}, NoUser)

HubInit ==
    /\ call = [p \in Callers |-> NoCall]
    /\ rows = {} /\ mails = {} /\ outbox = {}
    /\ wanted \in SUBSET Users
    /\ hubFaults = 0

\* A call as it starts; event is the type, the entity and the incident, which make up the key.
Calls(event) == Call("members", event, {}, NoUser)

Notify(p, event) ==
    /\ call[p].pc = "idle"
    /\ call' = [call EXCEPT ![p] = Calls(event)]
    /\ UNCHANGED <<rows, mails, outbox, wanted, hubFaults>>

\* The query of the recipients, with their preference or the default of the type.
ReadRecipients(p) ==
    /\ call[p].pc = "members"
    /\ call' = [call EXCEPT ![p] = Call("insert", @.event, wanted, NoUser)]
    /\ UNCHANGED <<rows, mails, outbox, wanted, hubFaults>>

\* wrong: no unique key, every call makes a row of its own
IsNew_Always(key) == TRUE
IsNew(key) == key \notin rows

\* on conflict (dedup_key) do nothing: a key that is there makes the member skip.
InsertRow(p, u) ==
    /\ call[p].pc = "insert"
    /\ u \in call[p].todo
    /\ LET key == <<call[p].event, u>>
       IN  /\ rows' = rows \union {key}
           /\ call' = [call EXCEPT ![p] =
                  Call(IF IsNew(key) THEN "mail" ELSE "insert", @.event, @.todo \ {u}, u)]
    /\ UNCHANGED <<mails, outbox, wanted, hubFaults>>

MailsOf(event, u) == {t \in mails : t[1] = event /\ t[2] = u}

SendMail(p) ==
    /\ call[p].pc = "mail"
    /\ LET c == call[p]
       IN  \/ mails' = mails \union {<<c.event, c.user, Cardinality(MailsOf(c.event, c.user)) + 1>>}
              /\ UNCHANGED hubFaults
           \/ hubFaults < MaxHubFaults /\ hubFaults' = hubFaults + 1 /\ UNCHANGED mails
    /\ call' = [call EXCEPT ![p] = Call("insert", @.event, @.todo, NoUser)]
    /\ UNCHANGED <<rows, outbox, wanted>>

ReadWebhooks(p) ==
    /\ call[p].pc = "insert" /\ call[p].todo = {}
    /\ call' = [call EXCEPT ![p] = Call("queue", @.event, Hooks, NoUser)]
    /\ UNCHANGED <<rows, mails, outbox, wanted, hubFaults>>

QueueDelivery(p, w) ==
    /\ call[p].pc = "queue"
    /\ w \in call[p].todo
    /\ outbox' = outbox \union {<<call[p].event, w>>}
    /\ call' = [call EXCEPT ![p] = Call("queue", @.event, @.todo \ {w}, NoUser)]
    /\ UNCHANGED <<rows, mails, wanted, hubFaults>>

EndCall(p) ==
    /\ call[p].pc = "queue" /\ call[p].todo = {}
    /\ call' = [call EXCEPT ![p] = NoCall]
    /\ UNCHANGED <<rows, mails, outbox, wanted, hubFaults>>

\* A statement fails: what is written stays written.
CallFails(p) ==
    /\ call[p].pc # "idle"
    /\ hubFaults < MaxHubFaults
    /\ hubFaults' = hubFaults + 1
    /\ call' = [call EXCEPT ![p] = NoCall]
    /\ UNCHANGED <<rows, mails, outbox, wanted>>

\* The process dies, in a call or between two.
Dies(p) ==
    /\ hubFaults < MaxHubFaults
    /\ hubFaults' = hubFaults + 1
    /\ call' = [call EXCEPT ![p] = NoCall]
    /\ UNCHANGED <<rows, mails, outbox, wanted>>

HubStep(p) ==
    \/ ReadRecipients(p)
    \/ \E u \in Users : InsertRow(p, u)
    \/ SendMail(p)
    \/ ReadWebhooks(p)
    \/ \E w \in Hooks : QueueDelivery(p, w)
    \/ EndCall(p)

\* A job tried again, a worker that died and calls side by side never make a member get a second mail of
\* one event.
MailOncePerEvent == \A t \in mails : Cardinality(MailsOf(t[1], t[2])) <= 1
=============================================================================
