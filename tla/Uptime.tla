------------------------------- MODULE Uptime -------------------------------
(***************************************************************************)
(* The uptime poller: the rounds of several poller processes, as they meet *)
(* at one monitored site.  A round reads the list of sites first, and      *)
(* comes to this site some time later with what the list said of it; the   *)
(* site's lock in Redis is held from then on, for at most its time to      *)
(* live.  apps/worker/src/uptime/{poller,state,lock,probe}.ts.             *)
(*                                                                         *)
(* A probe is the answer the site gives at that moment (probeUrl: any      *)
(* answer below 500, over http if https does not connect).  uptime_events  *)
(* is kept as far as a poller reads it: the failures since the last        *)
(* success, two standing for more, in the order of the commits.            *)
(*                                                                         *)
(* Moments (the `now` of a round) serve as incident ids only.  One that no *)
(* round and no column refers to can not come back, so it is taken for the *)
(* next new one, and what was sent under it is forgotten.                  *)
(*                                                                         *)
(* Bound: MaxFaults crashes, failing transactions and lost notifications.  *)
(***************************************************************************)
EXTENDS Integers, FiniteSets

CONSTANTS Pollers,   \* poller processes
          Moments,   \* enough for each poller and the column
          None,      \* no lock, no moment
          Overrun,   \* may a visit outlast its lock
          MaxFaults

ASSUME UptimeAssumption ==
    /\ None \notin Pollers /\ None \notin Moments
    /\ Overrun \in BOOLEAN
    /\ MaxFaults \in Nat

VARIABLES
    answers,   \* does the site answer
    enabled,   \* sites.uptime_enabled
    state,     \* sites.uptime_state
    changedAt, \* sites.uptime_state_changed_at
    failures,  \* 0..2: trailing down rows of uptime_events
    lock,      \* uptime:lock:{site}: the poller whose token it holds, or None
    pc,        \* [Pollers -> where]: where its round is
    row,       \* [Pollers -> [state, changedAt]]: what the list said of the site
    now,       \* [Pollers -> Moments \union {None}]: when its round began
    ok,        \* [Pollers -> BOOLEAN]: what its probe returned
    counted,   \* [Pollers -> 0..2]: the trailing failures it has counted
    sent,      \* dedup keys of the notifications, <<type, incident>>
    told,      \* the type of the notification that reached the team last, or None
    faults

vars == <<answers, enabled, state, changedAt, failures, lock, pc, row, now, ok, counted,
          sent, told, faults>>

site == <<answers, enabled>>
shown == <<state, changedAt, failures>>
hub  == <<sent, told>>

States == {"unknown", "up", "down"}
Alerts == {"site_down", "site_recovered"}
Rows   == [state : States, changedAt : Moments \union {None}]

\* From taking the lock to giving it back.
Inside == {"probe", "count", "write", "announce", "release"}

TypeOK ==
    /\ answers \in BOOLEAN /\ enabled \in BOOLEAN
    /\ state \in States /\ changedAt \in Moments \union {None}
    /\ failures \in 0..2
    /\ lock \in Pollers \union {None}
    /\ pc \in [Pollers -> {"idle", "listed"} \union Inside]
    /\ row \in [Pollers -> Rows]
    /\ now \in [Pollers -> Moments \union {None}]
    /\ ok \in [Pollers -> BOOLEAN]
    /\ counted \in [Pollers -> 0..2]
    /\ sent \subseteq Alerts \X Moments
    /\ told \in Alerts \union {None}
    /\ faults \in 0..MaxFaults

NoRow == [state |-> "unknown", changedAt |-> None]

Init ==
    /\ answers = TRUE /\ enabled = TRUE
    /\ state = "unknown" /\ changedAt = None
    /\ failures = 0
    /\ lock = None
    /\ pc = [p \in Pollers |-> "idle"]
    /\ row = [p \in Pollers |-> NoRow]
    /\ now = [p \in Pollers |-> None]
    /\ ok = [p \in Pollers |-> FALSE]
    /\ counted = [p \in Pollers |-> 0]
    /\ sent = {}
    /\ told = None
    /\ faults = 0

Goto(p, l) == pc' = [pc EXCEPT ![p] = l]

\* What a round has in hand is gone when it ends.
EndRound(p) ==
    /\ Goto(p, "idle")
    /\ row' = [row EXCEPT ![p] = NoRow]
    /\ now' = [now EXCEPT ![p] = None]
    /\ ok' = [ok EXCEPT ![p] = FALSE]
    /\ counted' = [counted EXCEPT ![p] = 0]

hand == <<row, now, ok, counted>>

Fault == faults < MaxFaults /\ faults' = faults + 1
-----------------------------------------------------------------------------
(* The site and the team.                                                  *)

SiteChanges ==
    /\ answers' = ~answers
    /\ UNCHANGED <<enabled, shown, lock, pc, hand, hub, faults>>

SetUptimeMonitoring ==
    /\ enabled' = ~enabled
    /\ UNCHANGED <<answers, shown, lock, pc, hand, hub, faults>>
-----------------------------------------------------------------------------
(* A round of a poller.                                                    *)

Referred == {changedAt} \union {row[p].changedAt : p \in Pollers} \union {now[p] : p \in Pollers}

NewMoment == CHOOSE m \in Moments : m \notin Referred

\* pollAllSites: `now` and the list of sites.
ListSites(p) ==
    /\ pc[p] = "idle"
    /\ enabled
    /\ Moments \ Referred # {}
    /\ now' = [now EXCEPT ![p] = NewMoment]
    /\ sent' = {k \in sent : k[2] \in Referred}
    /\ row' = [row EXCEPT ![p] = [state |-> state, changedAt |-> changedAt]]
    /\ Goto(p, "listed")
    /\ UNCHANGED <<site, shown, lock, ok, counted, told, faults>>

AcquireLock_NoNX(p) ==
    /\ pc[p] = "listed"
    /\ lock' = p
    /\ Goto(p, "probe")
    /\ UNCHANGED <<site, shown, hand, hub, faults>>

\* set NX
AcquireLock(p) ==
    /\ pc[p] = "listed" /\ lock = None
    /\ lock' = p
    /\ Goto(p, "probe")
    /\ UNCHANGED <<site, shown, hand, hub, faults>>

SkipLocked(p) ==
    /\ pc[p] = "listed" /\ lock # None
    /\ EndRound(p)
    /\ UNCHANGED <<site, shown, lock, hub, faults>>

\* The time to live of the lock (15 s) is over: its holder is gone, or slow (Overrun).
LockExpires ==
    /\ lock # None
    /\ Overrun \/ pc[lock] \notin Inside
    /\ lock' = None
    /\ UNCHANGED <<site, shown, pc, hand, hub, faults>>

Probe(p) ==
    /\ pc[p] = "probe"
    /\ ok' = [ok EXCEPT ![p] = answers]
    /\ Goto(p, "count")
    /\ UNCHANGED <<site, shown, lock, row, now, counted, hub, faults>>

CountTrailingFailures(p) ==
    /\ pc[p] = "count"
    /\ counted' = [counted EXCEPT ![p] = failures]
    /\ Goto(p, "write")
    /\ UNCHANGED <<site, shown, lock, row, now, ok, hub, faults>>

ChangesOnFailure_First(previous, n) == previous # "down"
ChangesOnFailure_UpOnly(previous, n) == previous = "up" /\ n + 1 >= 2

\* transitionUptimeState: does a failure change the state, n failures before it?
ChangesOnFailure(previous, n) ==
    \/ previous = "unknown"
    \/ previous = "up" /\ n + 1 >= 2

Target(p)  == IF ok[p] THEN "up" ELSE "down"

Changes(p) == IF ok[p] THEN row[p].state # "up"
              ELSE ChangesOnFailure(row[p].state, counted[p])

\* The event, the state if it changes, and commit.
WriteEvent(p) ==
    /\ pc[p] = "write"
    /\ failures' = IF ok[p] THEN 0 ELSE IF failures < 2 THEN failures + 1 ELSE 2
    /\ IF Changes(p)
       THEN /\ state' = Target(p) /\ changedAt' = now[p]
            /\ Goto(p, "announce")
       ELSE /\ UNCHANGED <<state, changedAt>>
            /\ Goto(p, "release")
    /\ UNCHANGED <<site, lock, hand, hub, faults>>

\* The transaction fails and is rolled back.
WriteFails(p) ==
    /\ pc[p] \in {"count", "write"}
    /\ Fault
    /\ Goto(p, "release")
    /\ UNCHANGED <<site, shown, lock, hand, hub>>

\* A recovery bears the moment of the outage it ends, as the list gave it.
Incident(p) ==
    IF Target(p) = "up" /\ row[p].changedAt # None THEN row[p].changedAt ELSE now[p]

Alert(p) == IF ok[p] THEN "site_recovered" ELSE "site_down"

\* notify: a key that was sent before sends nothing.
Announce(p) ==
    /\ pc[p] = "announce"
    /\ LET key == <<Alert(p), Incident(p)>>
       IN  /\ told' = IF key \in sent THEN told ELSE Alert(p)
           /\ sent' = sent \union {key}
    /\ Goto(p, "release")
    /\ UNCHANGED <<site, shown, lock, hand, faults>>

\* A notification that fails is logged.
AnnounceFails(p) ==
    /\ pc[p] = "announce"
    /\ Fault
    /\ Goto(p, "release")
    /\ UNCHANGED <<site, shown, lock, hand, hub>>

\* Only a lock that still holds the poller's own token is deleted.
Release(p) ==
    /\ pc[p] = "release"
    /\ lock' = IF lock = p THEN None ELSE lock
    /\ EndRound(p)
    /\ UNCHANGED <<site, shown, hub, faults>>

\* The process dies; its lock stays until it expires.
Crash(p) ==
    /\ pc[p] # "idle"
    /\ Fault
    /\ EndRound(p)
    /\ UNCHANGED <<site, shown, lock, hub>>
-----------------------------------------------------------------------------
Step(p) ==
    \/ ListSites(p)
    \/ AcquireLock(p) \/ SkipLocked(p)
    \/ Probe(p) \/ CountTrailingFailures(p) \/ WriteEvent(p)
    \/ Announce(p)
    \/ Release(p)

Next ==
    \/ SiteChanges \/ SetUptimeMonitoring
    \/ LockExpires
    \/ \E p \in Pollers : Step(p) \/ WriteFails(p) \/ AnnounceFails(p) \/ Crash(p)

Spec == Init /\ [][Next]_vars

\* Every poller's interval timer runs on, and Redis expires keys.
Fairness ==
    /\ \A p \in Pollers : WF_vars(Step(p))
    /\ WF_vars(LockExpires)

FairSpec == Spec /\ Fairness
-----------------------------------------------------------------------------
(***************************************************************************)
(* No two pollers are at the site together, whichever died with the lock   *)
(* in hand, as long as a visit does not outlast its lock.                  *)
(***************************************************************************)
NeverTwoProbes ==
    \A p, q \in Pollers : p # q => ~(pc[p] \in Inside /\ pc[q] \in Inside)

(***************************************************************************)
(* A site that was up is shown as down only after two failures in a row,   *)
(* unless the poller read its list before the site was ever probed: then   *)
(* one failure is enough, although the site was up in the meantime.        *)
(***************************************************************************)
DownHasTwo ==
    state = "up" /\ state' = "down" =>
        \/ failures' = 2
        \/ \E p \in Pollers : pc[p] = "write" /\ pc'[p] = "announce" /\ row[p].state = "unknown"

DownIsConfirmed == [][DownHasTwo]_vars

\* A notification goes out in this step.
Tells == ~(sent' \subseteq sent)

(***************************************************************************)
(* What the team is told is what the site shows at that moment: the lock   *)
(* is kept until the announcement is out, so nobody changes the state      *)
(* between the commit and the mail about it.                               *)
(***************************************************************************)
TellsWhatIsShown == Tells => (told' = "site_down" <=> state = "down")

AlertIsCurrent == [][TellsWhatIsShown]_vars

(***************************************************************************)
(* The shown state catches up: when a monitored site stays up, or stays    *)
(* down, the pollers show it so in the end, whatever they had read, ran    *)
(* into or left locked before.                                             *)
(***************************************************************************)
ShownStateCatchesUp ==
    /\ <>[](~answers /\ enabled) => <>[](state = "down")
    /\ <>[](answers /\ enabled) => <>[](state = "up")
=============================================================================
