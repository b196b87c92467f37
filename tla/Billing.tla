------------------------------- MODULE Billing -------------------------------
(***************************************************************************)
(* The subscription of one team: the row of `subscriptions` and the events *)
(* Stripe sends about it (apps/web/app/api/webhooks/stripe/route.ts,       *)
(* apps/web/lib/billing-core.ts).  Stripe is external: it sends an event   *)
(* until it is answered with 2xx, in any order and several at a time.      *)
(*                                                                         *)
(* Grain of atomicity: processStripeEvent is one transaction.  It inserts  *)
(* the event id (a second delivery of the same event waits for it), looks  *)
(* for the row, and writes it; only the write takes a row lock, so what it *)
(* found may be old.  The notification comes after the commit.             *)
(*                                                                         *)
(* Bounds: MaxEvents events, MaxFaults deliveries that die.  A team buys   *)
(* its next subscription when the one before has ended.                    *)
(***************************************************************************)
EXTENDS Integers, Sequences

CONSTANTS Subs,        \* Stripe's subscription ids
          Paid,        \* plans that are sold: pro, max
          Statuses,    \* statuses Stripe gives a subscription
          Deliveries,  \* webhook requests the web server handles at a time
          MaxEvents, MaxFaults,
          NoSub

ASSUME BillingAssumption ==
    /\ MaxEvents \in Nat /\ MaxFaults \in Nat
    /\ NoSub \notin Subs
    /\ "free" \notin Paid /\ Paid # {}
    /\ {"active"} \subseteq Statuses /\ Statuses \subseteq {"active", "past_due", "unpaid"}

VARIABLES
    sold,       \* [Subs -> [state, plan, status, cancels]]: Stripe's subscriptions
    events,     \* the events, in the order Stripe made them
    unanswered, \* the events Stripe has to send (again)
    row,        \* the team's row: [plan, status, sub, customer, cancels]
    seen,       \* webhook_events
    at,         \* [Deliveries -> [pc, event, hit]]
    told,       \* payment_failed events the team was notified of
    faults,     \* deliveries that died
    inOrder     \* history: each event was received after all earlier ones were committed

billingVars == <<sold, events, unanswered, row, seen, at, told, faults, inOrder>>

\* STATUS_MAP: an unpaid subscription keeps its plan and gives no credits.
StatusOf(status) == IF status = "unpaid" THEN "canceled" ELSE status

NotSold == [state |-> "none", plan |-> CHOOSE p \in Paid : TRUE, status |-> "active", cancels |-> FALSE]
Free    == [plan |-> "free", status |-> "active", sub |-> NoSub, customer |-> FALSE,
            cancels |-> FALSE]
Resting == [pc |-> "idle", event |-> 0, hit |-> FALSE]

Kinds == {"checkout", "subscription", "deleted", "invoice"}

BillingInit ==
    /\ sold = [s \in Subs |-> NotSold]
    /\ events = <<>>
    /\ unanswered = {}
    /\ row = Free
    /\ seen = {}
    /\ at = [d \in Deliveries |-> Resting]
    /\ told = {}
    /\ faults = 0
    /\ inOrder = TRUE

-----------------------------------------------------------------------------
(***************************************************************************)
(* Stripe.                                                                 *)
(***************************************************************************)
app == <<row, seen, at, told, faults, inOrder>>

Event(kind, s, o) ==
    [kind |-> kind, sub |-> s, plan |-> o.plan, status |-> o.status, cancels |-> o.cancels]

Emit(new) ==
    /\ Len(events) + Len(new) <= MaxEvents
    /\ events' = events \o new
    /\ unanswered' = unanswered \union ((Len(events) + 1)..(Len(events) + Len(new)))

\* A checkout is paid: the session and its subscription are announced, in either order.
Checkout(s, p) ==
    LET o       == [state |-> "live", plan |-> p, status |-> "active", cancels |-> FALSE]
        session == Event("checkout", s, o)
        created == Event("subscription", s, o)
    IN  /\ sold[s].state = "none"
        /\ \A t \in Subs : sold[t].state # "live"
        /\ sold' = [sold EXCEPT ![s] = o]
        /\ Emit(<<session, created>>) \/ Emit(<<created, session>>)
        /\ UNCHANGED app

\* The owner switches plan, cancels or reactivates, a payment fails for long or succeeds.
Update(s, p, status, cancels) ==
    LET o == [state |-> "live", plan |-> p, status |-> status, cancels |-> cancels]
    IN  /\ sold[s].state = "live" /\ sold[s] # o
        /\ sold' = [sold EXCEPT ![s] = o]
        /\ Emit(<<Event("subscription", s, o)>>)
        /\ UNCHANGED app

Delete(s) ==
    /\ sold[s].state = "live"
    /\ sold' = [sold EXCEPT ![s].state = "ended"]
    /\ Emit(<<Event("deleted", s, sold[s])>>)
    /\ UNCHANGED app

PaymentFails(s) ==
    /\ sold[s].state = "live"
    /\ Emit(<<Event("invoice", s, sold[s])>>)
    /\ UNCHANGED <<sold, app>>

Stripe ==
    \E s \in Subs :
        \/ \E p \in Paid : Checkout(s, p)
        \/ \E p \in Paid, status \in Statuses, cancels \in BOOLEAN : Update(s, p, status, cancels)
        \/ Delete(s)
        \/ PaymentFails(s)

-----------------------------------------------------------------------------
(***************************************************************************)
(* POST /api/webhooks/stripe.                                              *)
(***************************************************************************)
Handled(d) == events[at[d].event]

\* A deletion is matched by its subscription only, other events also by customer.
Matches(e) ==
    CASE e.kind = "checkout"     -> TRUE
      [] e.kind = "subscription" -> row.sub = e.sub \/ row.customer
      [] e.kind = "deleted"      -> row.sub = e.sub
      [] e.kind = "invoice"      -> FALSE

Duplicate_Never(e) == FALSE

Duplicate(e) == e \in seen

Receive(d, e) ==
    /\ at[d].pc = "idle"
    /\ e \in unanswered /\ ~ Duplicate(e)
    /\ \A x \in Deliveries : at[x].pc = "found" => at[x].event # e
    /\ at' = [at EXCEPT ![d] = [pc |-> "found", event |-> e, hit |-> Matches(events[e])]]
    /\ inOrder' = (inOrder /\ 1..(e - 1) \subseteq seen)
    /\ UNCHANGED <<sold, events, unanswered, row, seen, told, faults>>

\* A delivery of what is in webhook_events changes nothing and is answered.
ReceiveAgain(e) ==
    /\ e \in unanswered /\ Duplicate(e)
    /\ unanswered' = unanswered \ {e}
    /\ UNCHANGED <<sold, events, app>>

CheckoutCompleted(e) ==
    [plan |-> e.plan, status |-> "active", sub |-> e.sub, customer |-> TRUE, cancels |-> row.cancels]

SubscriptionChanged(e) ==
    [plan |-> e.plan, status |-> StatusOf(e.status), sub |-> e.sub, customer |-> TRUE,
     cancels |-> e.cancels]

SubscriptionDeleted ==
    [plan |-> "free", status |-> "active", sub |-> NoSub, customer |-> row.customer, cancels |-> FALSE]

\* The write, the commit and, unless the team has to be notified first, the answer.
Apply(d) ==
    LET e == Handled(d)
    IN  /\ at[d].pc = "found"
        /\ row' = IF at[d].hit
                  THEN CASE e.kind = "checkout"     -> CheckoutCompleted(e)
                         [] e.kind = "subscription" -> SubscriptionChanged(e)
                         [] OTHER                   -> SubscriptionDeleted
                  ELSE row
        /\ seen' = seen \union {at[d].event}
        /\ IF e.kind = "invoice"
           THEN /\ at' = [at EXCEPT ![d].pc = "notify"]
                /\ UNCHANGED unanswered
           ELSE /\ at' = [at EXCEPT ![d] = Resting]
                /\ unanswered' = unanswered \ {at[d].event}
        /\ UNCHANGED <<sold, events, told, faults, inOrder>>

Notify_BySub(d) ==
    /\ at[d].pc = "notify"
    /\ told' = IF row.sub = Handled(d).sub THEN told \union {at[d].event} ELSE told
    /\ at' = [at EXCEPT ![d] = Resting]
    /\ unanswered' = unanswered \ {at[d].event}
    /\ UNCHANGED <<sold, events, row, seen, faults, inOrder>>

\* findTeamIdByStripeCustomer, the notifier, the answer.
Notify(d) ==
    /\ at[d].pc = "notify"
    /\ told' = IF row.customer THEN told \union {at[d].event} ELSE told
    /\ at' = [at EXCEPT ![d] = Resting]
    /\ unanswered' = unanswered \ {at[d].event}
    /\ UNCHANGED <<sold, events, row, seen, faults, inOrder>>

\* A query fails or the server dies: rollback before the commit, a lost notification after it.
DeliveryDies(d) ==
    /\ at[d].pc # "idle"
    /\ faults < MaxFaults
    /\ faults' = faults + 1
    /\ at' = [at EXCEPT ![d] = Resting]
    /\ UNCHANGED <<sold, events, unanswered, row, seen, told, inOrder>>

\* The answer did not reach Stripe, which sends the event again.
AnswerIsLost(e) ==
    /\ e \in seen \ unanswered
    /\ faults < MaxFaults
    /\ faults' = faults + 1
    /\ unanswered' = unanswered \union {e}
    /\ UNCHANGED <<sold, events, row, seen, at, told, inOrder>>

BillingNext ==
    \/ Stripe
    \/ \E e \in DOMAIN events :
          \/ \E d \in Deliveries : Receive(d, e)
          \/ ReceiveAgain(e) \/ AnswerIsLost(e)
    \/ \E d \in Deliveries : Apply(d) \/ Notify(d) \/ DeliveryDies(d)

BillingSpec == BillingInit /\ [][BillingNext]_billingVars

-----------------------------------------------------------------------------
Shown == [s \in Subs |-> [Free EXCEPT !.plan = sold[s].plan, !.status = StatusOf(sold[s].status),
                                      !.sub = s, !.customer = TRUE, !.cancels = sold[s].cancels]]

(***************************************************************************)
(* As long as the events are handled in Stripe's order, whatever is sent   *)
(* twice or dies half-way, the team has what it pays for when all of them  *)
(* are handled: plan, status and cancellation of its live subscription, or *)
(* the free plan (processStripeEvent, webhook_events).                     *)
(***************************************************************************)
AgreesInOrder ==
    inOrder /\ seen = DOMAIN events =>
        \/ \E s \in Subs : sold[s].state = "live" /\ row = Shown[s]
        \/ /\ \A s \in Subs : sold[s].state # "live"
           /\ row = [Free EXCEPT !.customer = row.customer]

(***************************************************************************)
(* A failed payment that Stripe need not report again was told to the      *)
(* team, unless a delivery died or the event overtook the checkout that    *)
(* makes the customer known (the route notifies after the commit).         *)
(***************************************************************************)
PaymentFailureIsTold ==
    \A e \in seen :
        \/ events[e].kind # "invoice"
        \/ e \in told
        \/ \E d \in Deliveries : at[d].pc = "notify" /\ at[d].event = e
        \/ faults > 0
        \/ ~ inOrder
=============================================================================
