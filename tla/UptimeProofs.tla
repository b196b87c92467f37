---------------------------- MODULE UptimeProofs ----------------------------
(***************************************************************************)
(* Theorems about Uptime, for any number of pollers, moments and faults.   *)
(*                                                                         *)
(* Types hold in any case.  The others assume that a visit does not        *)
(* outlast its lock (~Overrun).  Then a poller at the site holds the lock  *)
(* (LockInv), so it is alone there; what it has counted is still so when   *)
(* it writes (CountInv), and what it has written is still shown when it    *)
(* announces it (AnnounceInv).                                             *)
(***************************************************************************)
EXTENDS Uptime, TLAPS

\* A round that is under way knows when it began.
NowInv == \A p \in Pollers : pc[p] # "idle" => now[p] \in Moments

Types == TypeOK /\ NowInv

LockInv     == \A p \in Pollers : pc[p] \in Inside => lock = p
CountInv    == \A p \in Pollers : pc[p] = "write" => counted[p] = failures
AnnounceInv == \A p \in Pollers : pc[p] = "announce" => state = Target(p)

Inv == Types /\ LockInv /\ CountInv /\ AnnounceInv
-----------------------------------------------------------------------------
LEMMA InitTypes == Init => Types
  BY UptimeAssumption DEF Init, Types, TypeOK, NowInv, NoRow, Rows, States, Inside

\* A round that ends leaves nothing in hand, and the others as they were.
LEMMA EndRoundTypes ==
  ASSUME Types, NEW p \in Pollers, EndRound(p)
  PROVE  /\ pc' \in [Pollers -> {"idle", "listed"} \union Inside]
         /\ row' \in [Pollers -> Rows]
         /\ now' \in [Pollers -> Moments \union {None}]
         /\ ok' \in [Pollers -> BOOLEAN]
         /\ counted' \in [Pollers -> 0..2]
         /\ NowInv'
<1>1. NoRow \in Rows
  BY DEF NoRow, Rows, States
<1>2. QED
  BY <1>1 DEF Types, TypeOK, NowInv, EndRound, Goto

LEMMA NextTypes == Types /\ [Next]_vars => Types'
<1> SUFFICES ASSUME Types, [Next]_vars PROVE Types'
  OBVIOUS
<1> USE UptimeAssumption DEF Types
<1>1. CASE SiteChanges
  BY <1>1 DEF SiteChanges, TypeOK, NowInv, shown, hand, hub
<1>2. CASE SetUptimeMonitoring
  BY <1>2 DEF SetUptimeMonitoring, TypeOK, NowInv, shown, hand, hub
<1>3. CASE LockExpires
  BY <1>3 DEF LockExpires, TypeOK, NowInv, site, shown, hand, hub
<1>4. ASSUME NEW p \in Pollers, ListSites(p) PROVE Types'
  <2>1. NewMoment \in Moments
    BY <1>4 DEF ListSites, NewMoment
  <2>2. [state |-> state, changedAt |-> changedAt] \in Rows
    BY DEF TypeOK, Rows
  <2>3. row' \in [Pollers -> Rows] /\ now' \in [Pollers -> Moments \union {None}]
    BY <1>4, <2>1, <2>2 DEF ListSites, TypeOK
  <2>4. sent' \subseteq Alerts \X Moments
    BY <1>4 DEF ListSites, TypeOK
  <2>5. pc' \in [Pollers -> {"idle", "listed"} \union Inside]
    BY <1>4 DEF ListSites, TypeOK, Goto
  <2>6. NowInv'
    BY <1>4, <2>1 DEF ListSites, TypeOK, NowInv, Goto
  <2>7. QED
    BY <1>4, <2>3, <2>4, <2>5, <2>6 DEF ListSites, TypeOK, site, shown
<1>5. ASSUME NEW p \in Pollers, AcquireLock(p) PROVE Types'
  BY <1>5 DEF AcquireLock, TypeOK, NowInv, site, shown, hand, hub, Goto, Inside
<1>6. ASSUME NEW p \in Pollers, SkipLocked(p) PROVE Types'
  BY <1>6, EndRoundTypes DEF SkipLocked, TypeOK, site, shown, hub
<1>7. ASSUME NEW p \in Pollers, Probe(p) PROVE Types'
  BY <1>7 DEF Probe, TypeOK, NowInv, site, shown, hub, Goto, Inside
<1>8. ASSUME NEW p \in Pollers, CountTrailingFailures(p) PROVE Types'
  BY <1>8 DEF CountTrailingFailures, TypeOK, NowInv, site, shown, hub, Goto, Inside
<1>9. ASSUME NEW p \in Pollers, WriteEvent(p) PROVE Types'
  <2>1. failures' \in 0..2
    BY <1>9 DEF WriteEvent, TypeOK
  <2>2. state' \in States /\ changedAt' \in Moments \union {None}
    BY <1>9 DEF WriteEvent, TypeOK, Target, States
  <2>3. pc' \in [Pollers -> {"idle", "listed"} \union Inside] /\ NowInv'
    BY <1>9 DEF WriteEvent, TypeOK, NowInv, Goto, Inside, hand
  <2>4. QED
    BY <1>9, <2>1, <2>2, <2>3 DEF WriteEvent, TypeOK, site, hand, hub
<1>10. ASSUME NEW p \in Pollers, WriteFails(p) PROVE Types'
  BY <1>10 DEF WriteFails, Fault, TypeOK, NowInv, site, shown, hand, hub, Goto, Inside
<1>11. ASSUME NEW p \in Pollers, Announce(p) PROVE Types'
  <2>1. Alert(p) \in Alerts
    BY DEF Alert, Alerts
  <2>2. now[p] \in Moments /\ row[p] \in Rows
    BY <1>11 DEF Announce, NowInv, TypeOK
  <2>3. Incident(p) \in Moments
    BY <2>2 DEF Incident, Rows
  <2>4. told' \in Alerts \union {None} /\ sent' \subseteq Alerts \X Moments
    BY <1>11, <2>1, <2>3 DEF Announce, TypeOK
  <2>5. pc' \in [Pollers -> {"idle", "listed"} \union Inside] /\ NowInv'
    BY <1>11 DEF Announce, TypeOK, NowInv, Goto, Inside, hand
  <2>6. QED
    BY <1>11, <2>4, <2>5 DEF Announce, TypeOK, site, shown, hand
<1>12. ASSUME NEW p \in Pollers, AnnounceFails(p) PROVE Types'
  BY <1>12 DEF AnnounceFails, Fault, TypeOK, NowInv, site, shown, hand, hub, Goto, Inside
<1>13. ASSUME NEW p \in Pollers, Release(p) PROVE Types'
  BY <1>13, EndRoundTypes DEF Release, TypeOK, site, shown, hub
<1>14. ASSUME NEW p \in Pollers, Crash(p) PROVE Types'
  BY <1>14, EndRoundTypes DEF Crash, Fault, TypeOK, site, shown, hub
<1>15. CASE UNCHANGED vars
  BY <1>15 DEF vars, TypeOK, NowInv
<1>16. QED
  BY <1>1, <1>2, <1>3, <1>4, <1>5, <1>6, <1>7, <1>8, <1>9, <1>10, <1>11, <1>12, <1>13, <1>14,
     <1>15 DEF Next, Step

(***************************************************************************)
(* Every variable keeps its type (poller.ts and lock.ts), whatever the     *)
(* pollers, with or without overrun.                                       *)
(***************************************************************************)
THEOREM UptimeTypes == Spec => []TypeOK
<1>1. Types => TypeOK
  BY DEF Types
<1>2. QED
  BY InitTypes, NextTypes, <1>1, PTL DEF Spec
-----------------------------------------------------------------------------
(* A visit that does not outlast its lock.                                 *)

\* Where another poller is stays the same when one takes a step.
LEMMA NextLock == ASSUME Overrun = FALSE PROVE Types /\ LockInv /\ [Next]_vars => LockInv'
<1> SUFFICES ASSUME Types, LockInv, [Next]_vars PROVE LockInv'
  OBVIOUS
<1> USE UptimeAssumption DEF Types, TypeOK, LockInv
<1>1. CASE LockExpires
  <2>1. lock \in Pollers /\ pc[lock] \notin Inside /\ pc' = pc
    BY <1>1 DEF LockExpires
  <2>2. QED
    BY <2>1
<1>2. ASSUME NEW p \in Pollers, AcquireLock(p) PROVE LockInv'
  <2>1. \A q \in Pollers : pc[q] \notin Inside
    BY <1>2 DEF AcquireLock
  <2>2. QED
    BY <1>2, <2>1 DEF AcquireLock, Goto
<1>3. ASSUME NEW p \in Pollers, ListSites(p) \/ SkipLocked(p) \/ Crash(p) PROVE LockInv'
  BY <1>3 DEF ListSites, SkipLocked, Crash, EndRound, Goto, Inside
<1>4. ASSUME NEW p \in Pollers, Release(p) PROVE LockInv'
  <2>1. \A q \in Pollers \ {p} : pc'[q] = pc[q] /\ pc[q] \notin Inside
    BY <1>4 DEF Release, EndRound, Goto, Inside
  <2>2. pc'[p] = "idle"
    BY <1>4 DEF Release, EndRound, Goto
  <2>3. QED
    BY <2>1, <2>2 DEF Inside
<1>5. ASSUME NEW p \in Pollers,
             \/ Probe(p) \/ CountTrailingFailures(p) \/ WriteEvent(p) \/ WriteFails(p)
             \/ Announce(p) \/ AnnounceFails(p)
      PROVE  LockInv'
  <2>1. lock' = lock /\ pc[p] \in Inside
    BY <1>5 DEF Probe, CountTrailingFailures, WriteEvent, WriteFails, Announce, AnnounceFails, Inside
  <2>2. \A q \in Pollers \ {p} : pc'[q] = pc[q]
    BY <1>5 DEF Probe, CountTrailingFailures, WriteEvent, WriteFails, Announce, AnnounceFails, Goto
  <2>3. QED
    BY <2>1, <2>2
<1>6. CASE SiteChanges \/ SetUptimeMonitoring \/ UNCHANGED vars
  BY <1>6 DEF SiteChanges, SetUptimeMonitoring, vars
<1>7. QED
  BY <1>1, <1>2, <1>3, <1>4, <1>5, <1>6 DEF Next, Step

LEMMA Alone ==
  ASSUME Types, LockInv, NEW p \in Pollers, NEW q \in Pollers,
         pc[p] \in Inside, pc[q] \in Inside
  PROVE  p = q
  BY DEF LockInv

LEMMA NextCount == Types /\ LockInv /\ CountInv /\ [Next]_vars => CountInv'
<1> SUFFICES ASSUME Types, LockInv, CountInv, [Next]_vars PROVE CountInv'
  OBVIOUS
<1> USE DEF Types, TypeOK, CountInv
<1>1. ASSUME NEW p \in Pollers, CountTrailingFailures(p) PROVE CountInv'
  BY <1>1 DEF CountTrailingFailures, shown, Goto
<1>2. ASSUME NEW p \in Pollers, WriteEvent(p) PROVE CountInv'
  <2>1. pc[p] = "write" /\ pc'[p] # "write" /\ \A q \in Pollers \ {p} : pc'[q] = pc[q]
    BY <1>2 DEF WriteEvent, Goto
  <2>2. \A q \in Pollers \ {p} : pc[q] # "write"
    BY <2>1, Alone DEF Inside
  <2>3. QED
    BY <2>1, <2>2
<1>3. ASSUME NEW p \in Pollers, SkipLocked(p) \/ Release(p) \/ Crash(p) PROVE CountInv'
  BY <1>3 DEF SkipLocked, Release, Crash, EndRound, Goto, shown
<1>4. ASSUME NEW p \in Pollers,
             \/ ListSites(p) \/ AcquireLock(p) \/ Probe(p) \/ WriteFails(p)
             \/ Announce(p) \/ AnnounceFails(p)
      PROVE  CountInv'
  <2>1. failures' = failures /\ counted' = counted
    BY <1>4 DEF ListSites, AcquireLock, Probe, WriteFails, Announce, AnnounceFails, shown, hand
  <2>2. \A q \in Pollers : pc'[q] = "write" => pc[q] = "write"
    BY <1>4 DEF ListSites, AcquireLock, Probe, WriteFails, Announce, AnnounceFails, Goto
  <2>3. QED
    BY <2>1, <2>2
<1>5. CASE SiteChanges \/ SetUptimeMonitoring \/ LockExpires \/ UNCHANGED vars
  BY <1>5 DEF SiteChanges, SetUptimeMonitoring, LockExpires, vars, shown, hand
<1>6. QED
  BY <1>1, <1>2, <1>3, <1>4, <1>5 DEF Next, Step

LEMMA NextAnnounce == Types /\ LockInv /\ AnnounceInv /\ [Next]_vars => AnnounceInv'
<1> SUFFICES ASSUME Types, LockInv, AnnounceInv, [Next]_vars PROVE AnnounceInv'
  OBVIOUS
<1> USE DEF Types, TypeOK, AnnounceInv, Target
<1>1. ASSUME NEW p \in Pollers, WriteEvent(p) PROVE AnnounceInv'
  <2>1. pc[p] = "write" /\ ok' = ok /\ \A q \in Pollers \ {p} : pc'[q] = pc[q]
    BY <1>1 DEF WriteEvent, Goto, hand
  <2>2. \A q \in Pollers \ {p} : pc[q] # "announce"
    BY <2>1, Alone DEF Inside
  <2>3. pc'[p] = "announce" => state' = Target(p)
    BY <1>1 DEF WriteEvent, Goto
  <2>4. QED
    BY <2>1, <2>2, <2>3
<1>2. ASSUME NEW p \in Pollers, Probe(p) PROVE AnnounceInv'
  BY <1>2 DEF Probe, Goto, shown
<1>3. ASSUME NEW p \in Pollers, SkipLocked(p) \/ Release(p) \/ Crash(p) PROVE AnnounceInv'
  BY <1>3 DEF SkipLocked, Release, Crash, EndRound, Goto, shown
<1>4. ASSUME NEW p \in Pollers,
             \/ ListSites(p) \/ AcquireLock(p) \/ CountTrailingFailures(p) \/ WriteFails(p)
             \/ Announce(p) \/ AnnounceFails(p)
      PROVE  AnnounceInv'
  <2>1. state' = state /\ ok' = ok
    BY <1>4 DEF ListSites, AcquireLock, CountTrailingFailures, WriteFails, Announce, AnnounceFails,
                shown, hand
  <2>2. \A q \in Pollers : pc'[q] = "announce" => pc[q] = "announce"
    BY <1>4 DEF ListSites, AcquireLock, CountTrailingFailures, WriteFails, Announce, AnnounceFails,
                Goto
  <2>3. QED
    BY <2>1, <2>2
<1>5. CASE SiteChanges \/ SetUptimeMonitoring \/ LockExpires \/ UNCHANGED vars
  BY <1>5 DEF SiteChanges, SetUptimeMonitoring, LockExpires, vars, shown, hand
<1>6. QED
  BY <1>1, <1>2, <1>3, <1>4, <1>5 DEF Next, Step

LEMMA InitInv == Init => Inv
<1>1. Init => LockInv /\ CountInv /\ AnnounceInv
  BY DEF Init, LockInv, CountInv, AnnounceInv, Inside
<1>2. QED
  BY <1>1, InitTypes DEF Inv

LEMMA InvIsInvariant == ASSUME Overrun = FALSE PROVE Spec => []Inv
<1>1. Inv /\ [Next]_vars => Inv'
  BY NextTypes, NextLock, NextCount, NextAnnounce DEF Inv
<1>2. QED
  BY InitInv, <1>1, PTL DEF Spec

(***************************************************************************)
(* Pollers are never at the site together (lock.ts), however many they     *)
(* are and whichever of them die with the lock in hand.                    *)
(***************************************************************************)
THEOREM NeverTogether == ASSUME Overrun = FALSE PROVE Spec => []NeverTwoProbes
<1>1. Inv => NeverTwoProbes
  BY Alone DEF Inv, NeverTwoProbes
<1>2. QED
  BY InvIsInvariant, <1>1, PTL

(***************************************************************************)
(* No poller calls a site down that was up, without two failures in a row, *)
(* unless its list is from before the first probe (state.ts, poller.ts).   *)
(***************************************************************************)
THEOREM DownAfterTwo == ASSUME Overrun = FALSE PROVE Spec => DownIsConfirmed
<1>1. Inv /\ [Next]_vars => [DownHasTwo]_vars
  <2> SUFFICES ASSUME Inv, Next, state = "up", state' = "down" PROVE DownHasTwo
    BY DEF DownHasTwo, vars
  <2>1. PICK p \in Pollers : WriteEvent(p)
    BY DEF Next, Step, SiteChanges, SetUptimeMonitoring, LockExpires, ListSites, AcquireLock,
           SkipLocked, Probe, CountTrailingFailures, Announce, Release, WriteFails, AnnounceFails,
           Crash, shown
  <2>2. pc[p] = "write" /\ pc' = [pc EXCEPT ![p] = "announce"] /\ Changes(p) /\ ~ok[p]
    BY <2>1 DEF WriteEvent, Target, Goto
  <2>3. CASE row[p].state = "unknown"
    BY <2>2, <2>3 DEF DownHasTwo, Inv, Types, TypeOK
  <2>4. CASE row[p].state # "unknown"
    <3>1. counted[p] = failures /\ failures \in 0..2
      BY <2>2 DEF Inv, CountInv, Types, TypeOK
    <3>2. failures + 1 >= 2
      BY <2>2, <2>4, <3>1 DEF Changes, ChangesOnFailure
    <3>3. failures' = IF failures < 2 THEN failures + 1 ELSE 2
      BY <2>1, <2>2 DEF WriteEvent
    <3>4. failures' = 2
      BY <3>1, <3>2, <3>3
    <3>5. QED
      BY <3>4 DEF DownHasTwo
  <2>5. QED
    BY <2>3, <2>4
<1>2. QED
  BY InvIsInvariant, <1>1, PTL DEF Spec, DownIsConfirmed

(***************************************************************************)
(* The team is told what the site shows at that moment (poller.ts), since  *)
(* the lock is kept until the announcement is out.                         *)
(***************************************************************************)
THEOREM AlertsAreCurrent == ASSUME Overrun = FALSE PROVE Spec => AlertIsCurrent
<1>1. Inv /\ [Next]_vars => [TellsWhatIsShown]_vars
  <2> SUFFICES ASSUME Inv, Next, Tells PROVE told' = "site_down" <=> state = "down"
    BY DEF TellsWhatIsShown, vars
  <2>1. PICK p \in Pollers : Announce(p)
    BY DEF Tells, Next, Step, SiteChanges, SetUptimeMonitoring, LockExpires, ListSites, AcquireLock,
           SkipLocked, Probe, CountTrailingFailures, WriteEvent, Release, WriteFails, AnnounceFails,
           Crash, hub
  <2>2. pc[p] = "announce" /\ state = Target(p)
    BY <2>1 DEF Announce, Inv, AnnounceInv
  <2>3. told' = Alert(p)
    BY <2>1 DEF Announce, Tells
  <2>4. QED
    BY <2>2, <2>3 DEF Target, Alert
<1>2. QED
  BY InvIsInvariant, <1>1, PTL DEF Spec, AlertIsCurrent
=============================================================================
