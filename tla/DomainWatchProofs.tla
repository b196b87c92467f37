------------------------- MODULE DomainWatchProofs -------------------------
(***************************************************************************)
(* For any sites, ticks, worlds, outages and faults: a tick tells of       *)
(* nothing that did not change.                                            *)
(*                                                                         *)
(* The worlds there have been are a function of the epoch (the witness w   *)
(* of the invariant), and whatever carries the stamp of one epoch was      *)
(* measured in that world.  So two stamps that are the same mean two       *)
(* measurements that are.                                                  *)
(***************************************************************************)
EXTENDS DomainWatch, TLAPS

\* What is measured of site s in world v.
Measured(v, s) == MeasureDomain(v.zone[s], v.up, Today)

Now == [zone |-> zone, up |-> NetSources \ down]

Numbers == {"domain_expiry", "dnssec_enabled", "caa_present", "tls_expiry"}

\* What is known fits a measurement, but for nameservers that did not answer.
Fits(known, m) ==
    /\ \A f \in Numbers : known[f] = m[f]
    /\ m.nameservers \in {known.nameservers, {}}

WatchTypes ==
    /\ epoch \in Nat
    /\ row = [s \in Sites |-> row[s]]
    /\ events = [s \in Sites |-> events[s]]
    /\ tick = [t \in Ticks |-> tick[t]]
    /\ \A t \in Ticks : tick[t] = [pc |-> tick[t].pc, list |-> tick[t].list, m |-> tick[t].m,
                                   prev |-> tick[t].prev, alerts |-> tick[t].alerts]

\* The columns of a site and its last events are of one world each.
RowOf(w, s) ==
    /\ \E e \in -1..epoch : row[s].epochs = {e}
    /\ \A e \in 0..epoch : row[s].epochs = {e} => row[s].values = Measured(w[e], s)
EventsOf(w, s) ==
    /\ DOMAIN events[s].values = EventFields
    /\ \E e \in -1..epoch : events[s].epochs = {e}
    /\ \A e \in 0..epoch : events[s].epochs = {e} =>
          Measured(w[e], s).nameservers \in {events[s].values.nameservers, {}}

\* So are what a tick has measured and, if it is of one world, what it has read.
TickOf(w, t) ==
    /\ tick[t].pc \in {"read", "write"} =>
          /\ Site(t) \in Sites
          /\ \E e \in 0..epoch : tick[t].m.epochs = {e} /\ tick[t].m.values = Measured(w[e], Site(t))
    /\ tick[t].pc = "write" =>
          /\ tick[t].prev.epochs \subseteq -1..epoch
          /\ \A e \in 0..epoch :
                tick[t].prev.epochs = {e} => Fits(tick[t].prev.values, Measured(w[e], Site(t)))

Stamps(w) ==
    /\ w[epoch] = Now
    /\ \A s \in Sites : RowOf(w, s) /\ EventsOf(w, s)
    /\ \A t \in Ticks : TickOf(w, t)

WatchInv == WatchTypes /\ \E w : w = [e \in Nat |-> w[e]] /\ Stamps(w)

-----------------------------------------------------------------------------
LEMMA WatchStart == ASSUME Init PROVE WatchInv
<1>1. WatchTypes
  BY DEF Init, WatchTypes, Idle
<1>2. PICK w : w = [e \in Nat |-> Now]
  OBVIOUS
<1>3. epoch = 0 /\ w[epoch] = Now
  BY <1>2 DEF Init
<1>4. ASSUME NEW s \in Sites PROVE RowOf(w, s) /\ EventsOf(w, s)
  <2>1. /\ row[s].epochs = {-1} /\ events[s].epochs = {-1}
        /\ DOMAIN events[s].values = EventFields
    BY DEF Init, Stamped, EventFields
  <2>2. \A e \in 0..epoch : {-1} # {e}
    BY <1>3
  <2>3. QED
    BY <1>3, <2>1, <2>2 DEF RowOf, EventsOf
<1>5. ASSUME NEW t \in Ticks PROVE TickOf(w, t)
  BY DEF Init, Idle, TickOf
<1>6. QED
  BY <1>1, <1>2, <1>3, <1>4, <1>5 DEF WatchInv, Stamps

\* A tick with nothing measured.
LEMMA IdleRecord ==
  ASSUME NEW pc, NEW list
  PROVE  LET new == [Idle EXCEPT !.pc = pc, !.list = list]
         IN  new = [pc |-> pc, list |-> list, m |-> Idle.m, prev |-> Idle.prev, alerts |-> {}]
<1>1. PICK m0, p0 : m0 = Idle.m /\ p0 = Idle.prev
  OBVIOUS
<1>2. PICK a : a = [Idle EXCEPT !.pc = pc]
  OBVIOUS
<1>3. a = [pc |-> pc, list |-> <<>>, m |-> m0, prev |-> p0, alerts |-> {}]
  BY <1>1, <1>2 DEF Idle
<1>4. PICK b : b = [a EXCEPT !.list = list]
  OBVIOUS
<1>5. b = [pc |-> pc, list |-> list, m |-> m0, prev |-> p0, alerts |-> {}]
  BY <1>3, <1>4
<1>6. [Idle EXCEPT !.pc = pc, !.list = list] = [[Idle EXCEPT !.pc = pc] EXCEPT !.list = list]
  OBVIOUS
<1>7. QED
  BY <1>1, <1>2, <1>4, <1>5, <1>6

LEMMA TellRecord ==
  ASSUME NEW list, NEW alerts
  PROVE  LET new == [Idle EXCEPT !.pc = "tell", !.list = list, !.alerts = alerts]
         IN  /\ new = [pc |-> "tell", list |-> list, m |-> Idle.m, prev |-> Idle.prev, alerts |-> alerts]
             /\ new.alerts = alerts
<1>1. PICK m0, p0 : m0 = Idle.m /\ p0 = Idle.prev
  OBVIOUS
<1>2. PICK b : b = [Idle EXCEPT !.pc = "tell", !.list = list]
  OBVIOUS
<1>3. b = [pc |-> "tell", list |-> list, m |-> m0, prev |-> p0, alerts |-> {}]
  BY <1>1, <1>2, IdleRecord
<1>4. PICK new : new = [b EXCEPT !.alerts = alerts]
  OBVIOUS
<1>5. new = [pc |-> "tell", list |-> list, m |-> m0, prev |-> p0, alerts |-> alerts]
  BY <1>3, <1>4
<1>6. new = [Idle EXCEPT !.pc = "tell", !.list = list, !.alerts = alerts]
  BY <1>2, <1>4
<1>7. QED
  BY <1>1, <1>5, <1>6

\* What a tick knows stays of its world, in the worlds that follow too.
LEMMA WorldMoves ==
  ASSUME WatchInv, UNCHANGED <<row, events, tick>>, epoch' = epoch + 1
  PROVE  WatchInv'
<1>1. WatchTypes'
  BY DEF WatchInv, WatchTypes
<1>2. PICK w : w = [e \in Nat |-> w[e]] /\ Stamps(w)
  BY DEF WatchInv
<1>3. PICK new : new = [e \in Nat |-> IF e = epoch + 1 THEN Now' ELSE w[e]]
  OBVIOUS
<1>4. epoch \in Nat /\ epoch' \in Nat /\ epoch' = epoch + 1
  BY DEF WatchInv, WatchTypes
<1>5. new[epoch'] = Now' /\ \A e \in 0..epoch : new[e] = w[e]
  BY <1>3, <1>4
<1>6. -1..epoch \subseteq -1..epoch' /\ 0..epoch \subseteq 0..epoch' /\ epoch' \notin -1..epoch
      /\ \A e \in 0..epoch' : e \in 0..epoch \/ e = epoch'
  BY <1>4
<1>7. ASSUME NEW s \in Sites PROVE RowOf(new, s)' /\ EventsOf(new, s)'
  <2>1. /\ RowOf(w, s) /\ EventsOf(w, s)
        /\ row'[s] = row[s] /\ events'[s] = events[s]
    BY <1>2 DEF Stamps
  <2>2. row[s].epochs # {epoch'} /\ events[s].epochs # {epoch'}
    BY <1>6, <2>1 DEF RowOf, EventsOf
  <2>3. \A e \in 0..epoch' : row[s].epochs = {e} => row[s].values = Measured(new[e], s)
    BY <1>5, <1>6, <2>1, <2>2 DEF RowOf
  <2>4. \A e \in 0..epoch' : events[s].epochs = {e} =>
           Measured(new[e], s).nameservers \in {events[s].values.nameservers, {}}
    BY <1>5, <1>6, <2>1, <2>2 DEF EventsOf
  <2>5. RowOf(new, s)'
    BY <1>6, <2>1, <2>3 DEF RowOf
  <2>6. EventsOf(new, s)'
    BY <1>6, <2>1, <2>4 DEF EventsOf
  <2>7. QED
    BY <2>5, <2>6
<1>8. ASSUME NEW t \in Ticks PROVE TickOf(new, t)'
  <2>1. TickOf(w, t) /\ tick'[t] = tick[t]
    BY <1>2 DEF Stamps
  <2>2. \A e \in 0..epoch : e \in 0..epoch'
    BY <1>6
  <2>3. tick[t].pc \in {"read", "write"} =>
          /\ Site(t) \in Sites
          /\ \E e \in 0..epoch' : tick[t].m.epochs = {e} /\ tick[t].m.values = Measured(new[e], Site(t))
    BY <1>5, <2>1, <2>2 DEF TickOf
  <2>4. tick[t].pc = "write" =>
          /\ tick[t].prev.epochs \subseteq -1..epoch'
          /\ \A e \in 0..epoch' :
                tick[t].prev.epochs = {e} => Fits(tick[t].prev.values, Measured(new[e], Site(t)))
    BY <1>5, <1>6, <2>1 DEF TickOf
  <2>5. QED
    BY <2>1, <2>3, <2>4 DEF TickOf, Site
<1>9. QED
  BY <1>1, <1>3, <1>5, <1>7, <1>8 DEF WatchInv, Stamps

\* A step that leaves the worlds alone, and tick t with nothing it has measured.
LEMMA TickMoves ==
  ASSUME WatchInv, UNCHANGED <<world, row, events>>, NEW t \in Ticks, NEW new,
         new = [pc |-> new.pc, list |-> new.list, m |-> new.m, prev |-> new.prev, alerts |-> new.alerts],
         new.pc \notin {"read", "write"},
         tick' = [tick EXCEPT ![t] = new]
  PROVE  WatchInv'
<1>1. PICK w : w = [e \in Nat |-> w[e]] /\ Stamps(w)
  BY DEF WatchInv
<1>2. \A u \in Ticks : tick'[u] = IF u = t THEN new ELSE tick[u]
  BY DEF WatchInv, WatchTypes
<1>3. WatchTypes'
  <2>1. tick' = [u \in Ticks |-> tick'[u]]
    BY DEF WatchInv, WatchTypes
  <2>2. ASSUME NEW u \in Ticks
        PROVE  tick'[u] = [pc |-> tick'[u].pc, list |-> tick'[u].list, m |-> tick'[u].m,
                           prev |-> tick'[u].prev, alerts |-> tick'[u].alerts]
    BY <1>2 DEF WatchInv, WatchTypes
  <2>3. QED
    BY <2>1, <2>2 DEF WatchInv, WatchTypes, world
<1>4. ASSUME NEW u \in Ticks PROVE TickOf(w, u)'
  BY <1>1, <1>2 DEF Stamps, TickOf, Site, world
<1>5. \A s \in Sites : RowOf(w, s)' /\ EventsOf(w, s)'
  BY <1>1 DEF Stamps, RowOf, EventsOf, world
<1>6. (w[epoch] = Now)'
  BY <1>1 DEF Stamps, Now, world
<1>7. QED
  BY <1>1, <1>3, <1>4, <1>5, <1>6 DEF WatchInv, Stamps

\* What a tick measures is of the world as it is.
LEMMA MeasureKeeps ==
  ASSUME WatchInv, NEW t \in Ticks, Measure(t)
  PROVE  WatchInv'
<1>1. PICK w : w = [e \in Nat |-> w[e]] /\ Stamps(w)
  BY DEF WatchInv
<1>2. PICK s \in Sites :
         /\ s = Site(t)
         /\ tick' = [tick EXCEPT ![t].pc = "read",
                                 ![t].m  = Stamped(MeasureDomain(zone[s], NetSources \ down, Today), {epoch})]
  BY DEF Measure
<1>3. PICK old, m : old = tick[t] /\ m = Stamped(MeasureDomain(zone[s], NetSources \ down, Today), {epoch})
  OBVIOUS
<1>4. old = [pc |-> old.pc, list |-> old.list, m |-> old.m, prev |-> old.prev, alerts |-> old.alerts]
  BY <1>3 DEF WatchInv, WatchTypes
<1>5. PICK new : new = [[old EXCEPT !.pc = "read"] EXCEPT !.m = m]
  OBVIOUS
<1>6. new = [pc |-> "read", list |-> old.list, m |-> m, prev |-> old.prev, alerts |-> old.alerts]
  <2>1. PICK mid : mid = [old EXCEPT !.pc = "read"]
    OBVIOUS
  <2>2. mid = [pc |-> "read", list |-> old.list, m |-> old.m, prev |-> old.prev, alerts |-> old.alerts]
    BY <1>4, <2>1
  <2>3. QED
    BY <1>5, <2>1, <2>2
<1>7. tick' = [tick EXCEPT ![t] = new]
  BY <1>2, <1>3, <1>5
<1>8. UNCHANGED <<world, row, events>>
  BY DEF Measure, base
<1>9. \A u \in Ticks : tick'[u] = IF u = t THEN new ELSE tick[u]
  BY <1>7 DEF WatchInv, WatchTypes
<1>10. WatchTypes'
  <2>1. tick' = [u \in Ticks |-> tick'[u]]
    BY <1>7 DEF WatchInv, WatchTypes
  <2>2. ASSUME NEW u \in Ticks
        PROVE  tick'[u] = [pc |-> tick'[u].pc, list |-> tick'[u].list, m |-> tick'[u].m,
                           prev |-> tick'[u].prev, alerts |-> tick'[u].alerts]
    BY <1>6, <1>9 DEF WatchInv, WatchTypes
  <2>3. QED
    BY <1>8, <2>1, <2>2 DEF WatchInv, WatchTypes, world
<1>11. ASSUME NEW u \in Ticks PROVE TickOf(w, u)'
  <2>1. CASE u = t
    <3>1. epoch' \in 0..epoch' /\ epoch' = epoch
      BY <1>8 DEF world, WatchInv, WatchTypes
    <3>2. m.epochs = {epoch} /\ m.values = Measured(w[epoch], s)
      <4>1. w[epoch].zone = zone /\ w[epoch].up = NetSources \ down
        BY <1>1 DEF Stamps, Now
      <4>2. Measured(w[epoch], s) = MeasureDomain(zone[s], NetSources \ down, Today)
        BY <4>1 DEF Measured
      <4>3. QED
        BY <1>3, <4>2 DEF Stamped
    <3>3. /\ tick'[u].pc = "read" /\ tick'[u].m = m /\ Head(tick'[u].list) = s
      <4>1. tick'[u] = new /\ new.list = old.list /\ Head(old.list) = s
        BY <1>2, <1>3, <1>6, <1>9, <2>1 DEF Site
      <4>2. QED
        BY <1>6, <4>1
    <3>4. QED
      BY <3>1, <3>2, <3>3 DEF TickOf, Site
  <2>2. CASE u # t
    BY <1>1, <1>8, <1>9, <2>2 DEF Stamps, TickOf, Site, world
  <2>3. QED
    BY <2>1, <2>2
<1>12. \A r \in Sites : RowOf(w, r)' /\ EventsOf(w, r)'
  BY <1>1, <1>8 DEF Stamps, RowOf, EventsOf, world
<1>13. (w[epoch] = Now)'
  BY <1>1, <1>8 DEF Stamps, Now, world
<1>14. QED
  BY <1>1, <1>10, <1>11, <1>12, <1>13 DEF WatchInv, Stamps

\* What it reads fits the world of its stamp, if that is one.
LEMMA ReadKeeps ==
  ASSUME WatchInv, NEW t \in Ticks, ReadPrevStatus(t)
  PROVE  WatchInv'
<1>1. PICK w : w = [e \in Nat |-> w[e]] /\ Stamps(w)
  BY DEF WatchInv
<1>2. PICK s : s = Site(t)
  OBVIOUS
<1>3. PICK known, epochs : /\ known = [f \in Fields |-> IF f \in EventFields THEN events[s].values[f]
                                                                ELSE row[s].values[f]]
                           /\ epochs = events[s].epochs \union row[s].epochs
  OBVIOUS
<1>4. PICK old, prev : old = tick[t] /\ prev = Stamped(known, epochs)
  OBVIOUS
<1>5. old = [pc |-> old.pc, list |-> old.list, m |-> old.m, prev |-> old.prev, alerts |-> old.alerts]
  BY <1>4 DEF WatchInv, WatchTypes
<1>6. PICK new : new = [[old EXCEPT !.pc = "write"] EXCEPT !.prev = prev]
  OBVIOUS
<1>7. new = [pc |-> "write", list |-> old.list, m |-> old.m, prev |-> prev, alerts |-> old.alerts]
  <2>1. PICK mid : mid = [old EXCEPT !.pc = "write"]
    OBVIOUS
  <2>2. mid = [pc |-> "write", list |-> old.list, m |-> old.m, prev |-> old.prev, alerts |-> old.alerts]
    BY <1>5, <2>1
  <2>3. QED
    BY <1>6, <2>1, <2>2
<1>8. tick' = [tick EXCEPT ![t] = new] /\ UNCHANGED <<world, row, events>>
  BY <1>2, <1>3, <1>4, <1>6 DEF ReadPrevStatus, base
<1>9. \A u \in Ticks : tick'[u] = IF u = t THEN new ELSE tick[u]
  BY <1>8 DEF WatchInv, WatchTypes
<1>10. WatchTypes'
  <2>1. tick' = [u \in Ticks |-> tick'[u]]
    BY <1>8 DEF WatchInv, WatchTypes
  <2>2. ASSUME NEW u \in Ticks
        PROVE  tick'[u] = [pc |-> tick'[u].pc, list |-> tick'[u].list, m |-> tick'[u].m,
                           prev |-> tick'[u].prev, alerts |-> tick'[u].alerts]
    BY <1>7, <1>9 DEF WatchInv, WatchTypes
  <2>3. QED
    BY <1>8, <2>1, <2>2 DEF WatchInv, WatchTypes, world
<1>11. TickOf(w, t) /\ old.pc = "read"
  BY <1>1, <1>4 DEF Stamps, ReadPrevStatus
<1>12. s \in Sites /\ RowOf(w, s) /\ EventsOf(w, s)
  BY <1>1, <1>2, <1>4, <1>11 DEF TickOf, Stamps
<1>13. epochs \subseteq -1..epoch
  BY <1>3, <1>12 DEF RowOf, EventsOf
<1>14. ASSUME NEW e \in 0..epoch, epochs = {e} PROVE Fits(known, Measured(w[e], s))
  <2>1. row[s].epochs = {e} /\ events[s].epochs = {e}
    BY <1>3, <1>12, <1>14 DEF RowOf, EventsOf
  <2>2. row[s].values = Measured(w[e], s)
    BY <1>12, <2>1 DEF RowOf
  <2>3. Measured(w[e], s).nameservers \in {events[s].values.nameservers, {}}
    BY <1>12, <2>1 DEF EventsOf
  <2>4. known.nameservers = events[s].values.nameservers /\ \A f \in Numbers : known[f] = row[s].values[f]
    BY <1>3 DEF Fields, EventFields, Numbers
  <2>5. QED
    BY <2>2, <2>3, <2>4 DEF Fits
<1>15. ASSUME NEW u \in Ticks PROVE TickOf(w, u)'
  <2>1. CASE u = t
    <3>1. /\ tick'[u].pc = "write" /\ tick'[u].m = old.m /\ Head(tick'[u].list) = s
          /\ tick'[u].prev.values = known /\ tick'[u].prev.epochs = epochs
      BY <1>2, <1>4, <1>7, <1>9, <2>1 DEF Site, Stamped
    <3>2. epoch' = epoch
      BY <1>8 DEF world
    <3>3. \E e \in 0..epoch : old.m.epochs = {e} /\ old.m.values = Measured(w[e], s)
      BY <1>2, <1>4, <1>11 DEF TickOf
    <3>4. QED
      BY <1>12, <1>13, <1>14, <3>1, <3>2, <3>3 DEF TickOf, Site
  <2>2. CASE u # t
    BY <1>1, <1>8, <1>9, <2>2 DEF Stamps, TickOf, Site, world
  <2>3. QED
    BY <2>1, <2>2
<1>16. \A r \in Sites : RowOf(w, r)' /\ EventsOf(w, r)'
  BY <1>1, <1>8 DEF Stamps, RowOf, EventsOf, world
<1>17. (w[epoch] = Now)'
  BY <1>1, <1>8 DEF Stamps, Now, world
<1>18. QED
  BY <1>1, <1>10, <1>15, <1>16, <1>17 DEF WatchInv, Stamps

\* What it writes is of the world it was measured in.
LEMMA ApplyKeeps ==
  ASSUME WatchInv, NEW t \in Ticks, ApplyMeasurement(t)
  PROVE  WatchInv'
<1>1. PICK w : w = [e \in Nat |-> w[e]] /\ Stamps(w)
  BY DEF WatchInv
<1>2. PICK s, m, list : s = Site(t) /\ m = tick[t].m.values /\ list = tick[t].list
  OBVIOUS
<1>3. PICK diffs, alerts :
         /\ diffs = DiffDomainMeasurement(tick[t].prev.values, m)
         /\ alerts = {<<f, ToString(m[f])>> : f \in DomainAlerts(diffs, m, Today)}
  OBVIOUS
<1>4. PICK last : last = [f \in EventFields |-> LastEventValue(s, m, f, diffs)]
  OBVIOUS
<1>5. /\ tick[t].pc = "write"
      /\ row' = [row EXCEPT ![s] = tick[t].m]
      /\ events' = [events EXCEPT ![s] =
            Stamped(last, IF m.nameservers \in {last.nameservers, {}} THEN tick[t].m.epochs
                          ELSE events[s].epochs)]
      /\ tick' = [tick EXCEPT ![t] = [Idle EXCEPT !.pc = "tell", !.list = list, !.alerts = alerts]]
      /\ UNCHANGED world
  BY <1>2, <1>3, <1>4 DEF ApplyMeasurement, NewColumns
<1>6. PICK new : new = [Idle EXCEPT !.pc = "tell", !.list = list, !.alerts = alerts]
  OBVIOUS
<1>7. new = [pc |-> "tell", list |-> list, m |-> Idle.m, prev |-> Idle.prev, alerts |-> alerts]
  BY <1>6, TellRecord
<1>8. tick' = [tick EXCEPT ![t] = new]
  BY <1>5, <1>6
<1>9. \A u \in Ticks : tick'[u] = IF u = t THEN new ELSE tick[u]
  BY <1>8 DEF WatchInv, WatchTypes
<1>10. /\ \A r \in Sites : r # s => row'[r] = row[r] /\ events'[r] = events[r]
       /\ row' = [r \in Sites |-> row'[r]] /\ events' = [r \in Sites |-> events'[r]]
  BY <1>5 DEF WatchInv, WatchTypes
<1>11. WatchTypes'
  <2>1. tick' = [u \in Ticks |-> tick'[u]]
    BY <1>8 DEF WatchInv, WatchTypes
  <2>2. ASSUME NEW u \in Ticks
        PROVE  tick'[u] = [pc |-> tick'[u].pc, list |-> tick'[u].list, m |-> tick'[u].m,
                           prev |-> tick'[u].prev, alerts |-> tick'[u].alerts]
    BY <1>7, <1>9 DEF WatchInv, WatchTypes
  <2>3. QED
    BY <1>5, <1>10, <2>1, <2>2 DEF WatchInv, WatchTypes, world
<1>12. s \in Sites /\ TickOf(w, t)
  BY <1>1, <1>2, <1>5 DEF Stamps, TickOf
<1>13. PICK e \in 0..epoch : tick[t].m.epochs = {e} /\ m = Measured(w[e], s)
  BY <1>2, <1>5, <1>12 DEF TickOf
<1>14. RowOf(w, s)'
  <2>1. row'[s] = tick[t].m /\ epoch' = epoch /\ epoch \in Nat
    BY <1>5, <1>12 DEF WatchInv, WatchTypes, world
  <2>2. \A x : {x} = {e} => x = e
    OBVIOUS
  <2>3. e \in -1..epoch
    BY <2>1
  <2>4. QED
    BY <1>2, <1>13, <2>1, <2>2, <2>3 DEF RowOf
<1>15. EventsOf(w, s)'
  <2>1. PICK epochs : epochs = IF m.nameservers \in {last.nameservers, {}} THEN tick[t].m.epochs
                               ELSE events[s].epochs
    OBVIOUS
  <2>2. events'[s].values = last /\ events'[s].epochs = epochs /\ epoch' = epoch /\ epoch \in Nat
    BY <1>5, <1>12, <2>1 DEF WatchInv, WatchTypes, world, Stamped
  <2>3. EventsOf(w, s) /\ DOMAIN last = EventFields
    BY <1>1, <1>4, <1>12 DEF Stamps
  <2>4. CASE m.nameservers \in {last.nameservers, {}}
    <3>1. epochs = {e} /\ e \in -1..epoch /\ \A x : {x} = {e} => x = e
      BY <1>13, <2>1, <2>2, <2>4
    <3>2. QED
      BY <1>13, <2>2, <2>3, <2>4, <3>1 DEF EventsOf
  <2>5. CASE m.nameservers \notin {last.nameservers, {}}
    <3>1. last.nameservers = events[s].values.nameservers
      BY <1>4, <2>5 DEF LastEventValue, EventFields
    <3>2. epochs = events[s].epochs
      BY <2>1, <2>5
    <3>3. QED
      BY <2>2, <2>3, <3>1, <3>2 DEF EventsOf
  <2>6. QED
    BY <2>4, <2>5
<1>16. ASSUME NEW r \in Sites PROVE RowOf(w, r)' /\ EventsOf(w, r)'
  <2>1. CASE r = s
    BY <1>14, <1>15, <2>1
  <2>2. CASE r # s
    BY <1>1, <1>5, <1>10, <2>2 DEF Stamps, RowOf, EventsOf, world
  <2>3. QED
    BY <2>1, <2>2
<1>17. ASSUME NEW u \in Ticks PROVE TickOf(w, u)'
  BY <1>1, <1>5, <1>7, <1>9 DEF Stamps, TickOf, Site, world
<1>18. (w[epoch] = Now)'
  BY <1>1, <1>5 DEF Stamps, Now, world
<1>19. QED
  BY <1>1, <1>11, <1>16, <1>17, <1>18 DEF WatchInv, Stamps

-----------------------------------------------------------------------------
(* The other steps of a tick hold no measurement.                          *)

LEMMA SkipKeeps ==
  ASSUME WatchInv, NEW t \in Ticks, tick' = Skip(t), UNCHANGED <<world, row, events>>
  PROVE  WatchInv'
<1>0. PICK pc, list : list = Tail(tick[t].list) /\ pc = IF list = <<>> THEN "idle" ELSE "sites"
  OBVIOUS
<1>1. pc \in {"idle", "sites"} /\ tick' = [tick EXCEPT ![t] = [Idle EXCEPT !.pc = pc, !.list = list]]
  BY <1>0 DEF Skip
<1>2. PICK new : new = [Idle EXCEPT !.pc = pc, !.list = list]
  OBVIOUS
<1>3. PICK m0, p0 : m0 = Idle.m /\ p0 = Idle.prev
  OBVIOUS
<1>4. new = [pc |-> pc, list |-> list, m |-> m0, prev |-> p0, alerts |-> {}]
  BY <1>2, <1>3, IdleRecord
<1>5. tick' = [tick EXCEPT ![t] = new] /\ new.pc \notin {"read", "write"}
      /\ new = [pc |-> new.pc, list |-> new.list, m |-> new.m, prev |-> new.prev, alerts |-> new.alerts]
  BY <1>1, <1>2, <1>4
<1>6. QED
  BY <1>5, TickMoves

LEMMA ListKeeps ==
  ASSUME WatchInv, NEW t \in Ticks, ListDue(t)
  PROVE  WatchInv'
<1>1. PICK list : tick' = [tick EXCEPT ![t] = [Idle EXCEPT !.pc = "sites", !.list = list]]
  BY DEF ListDue
<1>2. PICK new : new = [Idle EXCEPT !.pc = "sites", !.list = list]
  OBVIOUS
<1>3. PICK m0, p0 : m0 = Idle.m /\ p0 = Idle.prev
  OBVIOUS
<1>4. new = [pc |-> "sites", list |-> list, m |-> m0, prev |-> p0, alerts |-> {}]
  BY <1>2, <1>3, IdleRecord
<1>5. tick' = [tick EXCEPT ![t] = new] /\ new.pc \notin {"read", "write"}
      /\ new = [pc |-> new.pc, list |-> new.list, m |-> new.m, prev |-> new.prev, alerts |-> new.alerts]
  BY <1>1, <1>2, <1>4
<1>6. UNCHANGED <<world, row, events>>
  BY DEF ListDue, base
<1>7. QED
  BY <1>5, <1>6, TickMoves

LEMMA NotifyKeeps ==
  ASSUME WatchInv, NEW t \in Ticks, Notify(t)
  PROVE  WatchInv'
<1>1. PICK a : tick' = [tick EXCEPT ![t].alerts = @ \ {a}]
  BY DEF Notify
<1>2. PICK old, left : old = tick[t] /\ left = tick[t].alerts \ {a}
  OBVIOUS
<1>3. old = [pc |-> old.pc, list |-> old.list, m |-> old.m, prev |-> old.prev, alerts |-> old.alerts]
  BY <1>2 DEF WatchInv, WatchTypes
<1>4. PICK new : new = [old EXCEPT !.alerts = left]
  OBVIOUS
<1>5. new = [pc |-> old.pc, list |-> old.list, m |-> old.m, prev |-> old.prev, alerts |-> left]
  BY <1>3, <1>4
<1>6. tick' = [tick EXCEPT ![t] = new] /\ old.pc = "tell" /\ UNCHANGED <<world, row, events>>
  BY <1>1, <1>2, <1>4 DEF Notify, base
<1>7. new.pc \notin {"read", "write"}
      /\ new = [pc |-> new.pc, list |-> new.list, m |-> new.m, prev |-> new.prev, alerts |-> new.alerts]
  BY <1>5, <1>6
<1>8. QED
  BY <1>6, <1>7, TickMoves

LEMMA DeathKeeps ==
  ASSUME WatchInv, SchedulerDies
  PROVE  WatchInv'
<1>1. PICK w : w = [e \in Nat |-> w[e]] /\ Stamps(w)
  BY DEF WatchInv
<1>2. tick' = [t \in Ticks |-> Idle] /\ UNCHANGED <<world, row, events>>
  BY DEF SchedulerDies, base
<1>3. WatchTypes'
  BY <1>2 DEF WatchInv, WatchTypes, Idle, world
<1>4. \A t \in Ticks : TickOf(w, t)'
  BY <1>2 DEF TickOf, Idle
<1>5. \A s \in Sites : RowOf(w, s)' /\ EventsOf(w, s)'
  BY <1>1, <1>2 DEF Stamps, RowOf, EventsOf, world
<1>6. (w[epoch] = Now)'
  BY <1>1, <1>2 DEF Stamps, Now, world
<1>7. QED
  BY <1>1, <1>3, <1>4, <1>5, <1>6 DEF WatchInv, Stamps

LEMMA RestKeeps ==
  ASSUME WatchInv, UNCHANGED <<world, row, events, tick>>
  PROVE  WatchInv'
<1>1. PICK w : w = [e \in Nat |-> w[e]] /\ Stamps(w)
  BY DEF WatchInv
<1>2. WatchTypes'
  BY DEF WatchInv, WatchTypes, world
<1>3. Stamps(w)'
  BY <1>1 DEF Stamps, TickOf, RowOf, EventsOf, Now, Site, world
<1>4. QED
  BY <1>1, <1>2, <1>3 DEF WatchInv

LEMMA WatchStays ==
  ASSUME WatchInv, [Next]_vars
  PROVE  WatchInv'
<1>1. CASE \E s \in Sites : ZoneChanges(s)
  <2>1. PICK s \in Sites : ZoneChanges(s)
    BY <1>1
  <2>2. epoch' = epoch + 1 /\ UNCHANGED <<row, events, tick>>
    BY <2>1 DEF ZoneChanges, base
  <2>3. QED
    BY <2>2, WorldMoves
<1>2. CASE SourcesFail \/ SourcesReturn
  <2>1. epoch' = epoch + 1 /\ UNCHANGED <<row, events, tick>>
    BY <1>2 DEF SourcesFail, SourcesReturn, base
  <2>2. QED
    BY <2>1, WorldMoves
<1>3. CASE BecomesDue \/ UNCHANGED vars
  <2>1. UNCHANGED <<world, row, events, tick>>
    BY <1>3 DEF BecomesDue, vars, world
  <2>2. QED
    BY <2>1, RestKeeps
<1>4. CASE SchedulerDies
  BY <1>4, DeathKeeps
<1>5. ASSUME NEW t \in Ticks, TickStep(t) \/ MeasureFails(t) \/ ApplyFails(t)
      PROVE  WatchInv'
  <2>1. CASE NextSite(t) \/ MeasureFails(t) \/ ApplyFails(t)
    <3>1. tick' = Skip(t) /\ UNCHANGED <<world, row, events>>
      BY <2>1 DEF NextSite, MeasureFails, ApplyFails, base
    <3>2. QED
      BY <3>1, SkipKeeps
  <2>2. QED
    BY <1>5, <2>1, ListKeeps, MeasureKeeps, ReadKeeps, ApplyKeeps, NotifyKeeps DEF TickStep
<1>6. QED
  BY <1>1, <1>2, <1>3, <1>4, <1>5 DEF Next

-----------------------------------------------------------------------------
\* What fits is no change, so nothing of it is told.
LEMMA NothingToTell ==
  ASSUME NEW known, NEW m, Fits(known, m)
  PROVE  {<<f, ToString(m[f])>> : f \in DomainAlerts(DiffDomainMeasurement(known, m), m, Today)}
            \subseteq {<<"nameservers", ToString({})>>}
<1>1. SUFFICES ASSUME NEW f \in DomainAlerts(DiffDomainMeasurement(known, m), m, Today)
               PROVE  f = "nameservers" /\ m[f] = {}
  OBVIOUS
<1>2. f \in Fields /\ known[f] # m[f] /\ f # "caa_records"
  BY DEF DomainAlerts, DiffDomainMeasurement
<1>3. f = "nameservers"
  BY <1>2 DEF Fits, Fields, Numbers
<1>4. QED
  BY <1>2, <1>3 DEF Fits

\* Only the write takes a tick from its reads to its alerts.
LEMMA OnlyWrites ==
  ASSUME WatchInv, [Next]_vars, NEW t \in Ticks, tick[t].pc = "write", tick'[t].pc = "tell"
  PROVE  ApplyMeasurement(t)
<1>1. /\ \A u \in Ticks : tick[u] = [pc |-> tick[u].pc, list |-> tick[u].list, m |-> tick[u].m,
                                     prev |-> tick[u].prev, alerts |-> tick[u].alerts]
      /\ tick = [u \in Ticks |-> tick[u]]
  BY DEF WatchInv, WatchTypes
<1>2. tick' # tick /\ tick' # [u \in Ticks |-> Idle]
  BY DEF Idle
<1>3. PICK u \in Ticks : TickStep(u) \/ MeasureFails(u) \/ ApplyFails(u)
  BY <1>2 DEF Next, ZoneChanges, SourcesFail, SourcesReturn, BecomesDue, SchedulerDies, vars
<1>4. u = t
  <2>1. \E new : tick' = [tick EXCEPT ![u] = new]
    BY <1>3 DEF TickStep, ListDue, Measure, ReadPrevStatus, ApplyMeasurement, Notify, NextSite, MeasureFails,
                ApplyFails, Skip
  <2>2. u # t => tick'[t] = tick[t]
    BY <1>1, <2>1
  <2>3. QED
    BY <2>2
<1>5. ~ListDue(t) /\ ~Measure(t) /\ ~ReadPrevStatus(t) /\ ~Notify(t) /\ ~NextSite(t) /\ ~MeasureFails(t)
  BY DEF ListDue, Measure, ReadPrevStatus, Notify, NextSite, MeasureFails
<1>6. ~ApplyFails(t)
  <2>1. SUFFICES ASSUME ApplyFails(t) PROVE FALSE
    OBVIOUS
  <2>2. PICK pc, list : list = Tail(tick[t].list) /\ pc = IF list = <<>> THEN "idle" ELSE "sites"
    OBVIOUS
  <2>3. tick' = [tick EXCEPT ![t] = [Idle EXCEPT !.pc = pc, !.list = list]]
    BY <2>1, <2>2 DEF ApplyFails, Skip
  <2>4. PICK m0, p0 : m0 = Idle.m /\ p0 = Idle.prev
    OBVIOUS
  <2>5. PICK new : new = [Idle EXCEPT !.pc = pc, !.list = list]
    OBVIOUS
  <2>6. new = [pc |-> pc, list |-> list, m |-> m0, prev |-> p0, alerts |-> {}]
    BY <2>4, <2>5, IdleRecord
  <2>7. tick'[t].pc = pc /\ pc # "tell"
    BY <1>1, <2>2, <2>3, <2>5, <2>6
  <2>8. QED
    BY <2>7
<1>7. QED
  BY <1>3, <1>4, <1>5, <1>6 DEF TickStep

\* A tick tells of nothing when the world was the same for its measurement and for what it read, but for
\* nameservers that do not answer (diffDomainMeasurement, readPrevStatus).
THEOREM NothingChangedNothingTold == Spec => NoFalseAlarm
<1> DEFINE Told == \A t \in Ticks :
        tick[t].pc = "write" /\ tick'[t].pc = "tell" /\ tick[t].prev.epochs = tick[t].m.epochs =>
           tick'[t].alerts \subseteq {<<"nameservers", ToString({})>>}
<1>1. Init => WatchInv
  BY WatchStart
<1>2. WatchInv /\ [Next]_vars => WatchInv'
  BY WatchStays
<1>3. WatchInv /\ [Next]_vars => [Told]_vars
  <2>1. SUFFICES ASSUME WatchInv, [Next]_vars, NEW t \in Ticks, tick[t].pc = "write", tick'[t].pc = "tell",
                        tick[t].prev.epochs = tick[t].m.epochs
                 PROVE  tick'[t].alerts \subseteq {<<"nameservers", ToString({})>>}
    OBVIOUS
  <2>2. ApplyMeasurement(t)
    BY <2>1, OnlyWrites
  <2>3. PICK w : Stamps(w)
    BY <2>1 DEF WatchInv
  <2>4. PICK known, m, list : known = tick[t].prev.values /\ m = tick[t].m.values /\ list = tick[t].list
    OBVIOUS
  <2>5. Fits(known, m)
    <3>1. TickOf(w, t)
      BY <2>3 DEF Stamps
    <3>2. QED
      BY <2>1, <2>4, <3>1 DEF TickOf
  <2>6. PICK alerts : alerts = {<<f, ToString(m[f])>> : f \in DomainAlerts(DiffDomainMeasurement(known, m), m, Today)}
    OBVIOUS
  <2>7. tick' = [tick EXCEPT ![t] = [Idle EXCEPT !.pc = "tell", !.list = list, !.alerts = alerts]]
    BY <2>2, <2>4, <2>6 DEF ApplyMeasurement
  <2>8. PICK new : new = [Idle EXCEPT !.pc = "tell", !.list = list, !.alerts = alerts]
    OBVIOUS
  <2>9. tick'[t] = new
    BY <2>1, <2>7, <2>8 DEF WatchInv, WatchTypes
  <2>10. new.alerts = alerts
    BY <2>8, TellRecord
  <2>11. alerts \subseteq {<<"nameservers", ToString({})>>}
    BY <2>5, <2>6, NothingToTell
  <2>12. QED
    BY <2>9, <2>10, <2>11
<1> HIDE DEF Told
<1>4. [][Told]_vars <=> NoFalseAlarm
  BY DEF Told, NoFalseAlarm
<1>5. QED
  BY <1>1, <1>2, <1>3, <1>4, PTL DEF Spec
=============================================================================
