----------------------------- MODULE DomainWatch -----------------------------
(***************************************************************************)
(* The daily watch over the domains of the sites: processDueDomainChecks   *)
(* of apps/scheduler/src/domain-watch.ts and applyDomainMeasurement of     *)
(* packages/scan-core/src/domain.ts.  Ticks come from a setInterval that   *)
(* does not wait for the tick before (apps/scheduler/src/index.ts), so     *)
(* several work through lists that overlap.  A tick measures a site        *)
(* (DomainChecks), reads what it knew, writes the columns, the events and  *)
(* the next date in one transaction, and then tells the team.              *)
(*                                                                         *)
(* The dates of two checks of a site are a day apart; here a site that is  *)
(* written goes to the end of the order and is due again some time later.  *)
(* The incident of an alert holds the time of its tick, so the hub never   *)
(* takes two alerts for one; telling is one step here, its parts are in    *)
(* Hub.  The registrar, which only makes events, is left out.              *)
(***************************************************************************)
EXTENDS DomainChecks, SequencesExt

CONSTANTS Sites,
          Ticks,             \* runs of the tick that may be under way together
          Batch,             \* limit 50 of the query
          Zone0,             \* [Sites -> zone]: the domains at first
          Worlds,            \* [Sites -> set of zones]: what a domain may turn into
          Outages,           \* sets of sources that may be away together
          MaxDisturbances,   \* changes of a zone and outages
          Today,             \* the dates of a zone are days; no date passes while the watch is looked at
          MaxWatchFaults     \* measurements, writes and calls that fail, processes that die

ASSUME WatchAssumption ==
    /\ Batch \in Nat \ {0} /\ MaxDisturbances \in Nat /\ Today \in Nat /\ MaxWatchFaults \in Nat
    /\ DOMAIN Worlds = Sites /\ DOMAIN Zone0 = Sites

VARIABLES
    zone,    \* [Sites -> zone]: the domain as it is
    down,    \* sources that do not answer
    epoch,   \* changes and outages so far; what is measured in one epoch is the same
    row,     \* [Sites -> columns of sites, with the epoch they were measured in]
    events,  \* [Sites -> last values other than null in domain_events, with the epoch they are of]
    order,   \* the sites by next_domain_check_at
    due,     \* those whose date has come
    tick,    \* [Ticks -> [pc, list, m, prev, alerts]]
    told,    \* alerts told: <<site, <<field, value>>>>
    faults

vars == <<zone, down, epoch, row, events, order, due, tick, told, faults>>
world == <<zone, down, epoch>>
base  == <<row, events, order, due>>

Unmeasured == [domain_expiry |-> Null, dnssec_enabled |-> Null, caa_present |-> Null, tls_expiry |-> Null,
               nameservers |-> {}, caa_records |-> {}]
EventFields == {"nameservers", "caa_records"}    \* sets, which have no column
Stamped(m, e) == [values |-> m, epochs |-> e]
Idle          == [pc |-> "idle", list |-> <<>>, m |-> Stamped(Unmeasured, {}),
                  prev |-> Stamped(Unmeasured, {}), alerts |-> {}]

Init ==
    /\ zone = Zone0
    /\ down = {} /\ epoch = 0
    /\ row = [s \in Sites |-> Stamped(Unmeasured, {-1})]
    /\ events = [s \in Sites |-> Stamped([nameservers |-> {}, caa_records |-> {}], {-1})]
    /\ order \in {q \in [1..Cardinality(Sites) -> Sites] : IsInjective(q)}
    /\ due = Sites
    /\ tick = [t \in Ticks |-> Idle]
    /\ told = {} /\ faults = 0

(***************************************************************************)
(* The world: a domain is changed, a source is away and back, days pass.   *)
(***************************************************************************)
ZoneChanges(s) ==
    /\ epoch < MaxDisturbances
    /\ \E z \in Worlds[s] \ {zone[s]} : zone' = [zone EXCEPT ![s] = z]
    /\ epoch' = epoch + 1
    /\ UNCHANGED <<down, base, tick, told, faults>>

SourcesFail ==
    /\ epoch < MaxDisturbances /\ down = {}
    /\ down' \in Outages
    /\ epoch' = epoch + 1
    /\ UNCHANGED <<zone, base, tick, told, faults>>

SourcesReturn ==
    /\ down # {} /\ down' = {}
    /\ epoch' = epoch + 1
    /\ UNCHANGED <<zone, base, tick, told, faults>>

\* The day between two checks of the site is over.
BecomesDue ==
    /\ due # Sites
    /\ due' = due \union {CHOOSE s \in Sites \ due : \A r \in Sites \ due :
                              SelectInSeq(order, LAMBDA x : x = s) <= SelectInSeq(order, LAMBDA x : x = r)}
    /\ UNCHANGED <<world, row, events, order, tick, told, faults>>

(***************************************************************************)
(* One tick.                                                               *)
(***************************************************************************)
Site(t) == Head(tick[t].list)
Skip(t) == LET rest == Tail(tick[t].list)      \* the tick ends with its list
           IN  [tick EXCEPT ![t] = [Idle EXCEPT !.pc = IF rest = <<>> THEN "idle" ELSE "sites", !.list = rest]]

ListDue_Unordered(t) ==          \* wrong: the batch is taken in the order of the table
    /\ tick[t].pc = "idle" /\ due # {}
    /\ tick' = [tick EXCEPT ![t] = [Idle EXCEPT !.pc = "sites",
                                                !.list = SubSeq(SetToSeq(due), 1, Batch)]]
    /\ UNCHANGED <<world, base, told, faults>>

ListDue(t) ==
    /\ tick[t].pc = "idle" /\ due # {}
    /\ LET listed == SelectSeq(order, LAMBDA s : s \in due)
       IN  tick' = [tick EXCEPT ![t] = [Idle EXCEPT !.pc = "sites",
                                                    !.list = SubSeq(listed, 1, IF Len(listed) < Batch THEN Len(listed) ELSE Batch)]]
    /\ UNCHANGED <<world, base, told, faults>>

Measure(t) ==
    /\ tick[t].pc = "sites"
    /\ \E s \in Sites :
          /\ s = Site(t)
          /\ tick' = [tick EXCEPT ![t].pc = "read",
                                  ![t].m  = Stamped(MeasureDomain(zone[s], NetSources \ down, Today), {epoch})]
    /\ UNCHANGED <<world, base, told, faults>>

\* A measurement that throws leaves the date of the site as it was.
MeasureFails(t) ==
    /\ tick[t].pc = "sites"
    /\ faults < MaxWatchFaults /\ faults' = faults + 1
    /\ tick' = Skip(t)
    /\ UNCHANGED <<world, base, told>>

\* readPrevStatus: the columns of the row and the last events, its three queries at once.
ReadPrevStatus(t) ==
    /\ tick[t].pc = "read"
    /\ LET s == Site(t)
       IN  tick' = [tick EXCEPT ![t].pc = "write",
                                ![t].prev = Stamped([f \in Fields |-> IF f \in EventFields THEN events[s].values[f]
                                                                      ELSE row[s].values[f]],
                                                    events[s].epochs \union row[s].epochs)]
    /\ UNCHANGED <<world, base, told, faults>>

\* readLastEventValue skips events that are null, so an empty value leaves the last one there.
LastEventValue(s, m, f, diffs) == IF f \in diffs /\ m[f] # {} THEN m[f] ELSE events[s].values[f]

NewColumns_OnAlert(t, diffs) ==  \* wrong: writes the columns when there is something to tell
    IF DomainAlerts(diffs, tick[t].m.values, Today) = {} THEN row[Site(t)] ELSE tick[t].m

NewColumns(t, diffs) == tick[t].m

\* applyDomainMeasurement: one transaction, of what was read and measured before it.
ApplyMeasurement(t) ==
    /\ tick[t].pc = "write"
    /\ LET s     == Site(t)
           m     == tick[t].m.values
           diffs == DiffDomainMeasurement(tick[t].prev.values, m)
       IN  /\ row'    = [row EXCEPT ![s] = NewColumns(t, diffs)]
           /\ events' = [events EXCEPT ![s] =
                  LET last == [f \in EventFields |-> LastEventValue(s, m, f, diffs)]
                  IN  Stamped(last, IF m.nameservers \in {last.nameservers, {}} THEN tick[t].m.epochs ELSE @.epochs)]
           /\ order'  = Append(SelectSeq(order, LAMBDA x : x # s), s)
           /\ due'    = due \ {s}
           /\ tick'   = [tick EXCEPT ![t] = [Idle EXCEPT !.pc = "tell", !.list = tick[t].list,
                                                         !.alerts = {<<f, ToString(m[f])>> : f \in DomainAlerts(diffs, m, Today)}]]
    /\ UNCHANGED <<world, told, faults>>

ApplyFails(t) ==
    /\ tick[t].pc = "write"
    /\ faults < MaxWatchFaults /\ faults' = faults + 1
    /\ tick' = Skip(t)
    /\ UNCHANGED <<world, base, told>>

\* input.notify, one alert after the other; one that fails is dropped.
Notify(t) ==
    /\ tick[t].pc = "tell"
    /\ \E a \in tick[t].alerts :
          /\ \/ told' = told \union {<<Site(t), a>>} /\ UNCHANGED faults
             \/ faults < MaxWatchFaults /\ faults' = faults + 1 /\ UNCHANGED told
          /\ tick' = [tick EXCEPT ![t].alerts = @ \ {a}]
    /\ UNCHANGED <<world, base>>

NextSite(t) ==
    /\ tick[t].pc = "tell" /\ tick[t].alerts = {}
    /\ tick' = Skip(t)
    /\ UNCHANGED <<world, base, told, faults>>

SchedulerDies ==
    /\ faults < MaxWatchFaults /\ faults' = faults + 1
    /\ tick' = [t \in Ticks |-> Idle]
    /\ UNCHANGED <<world, base, told>>

TickStep(t) ==
    \/ ListDue(t) \/ Measure(t) \/ ReadPrevStatus(t) \/ ApplyMeasurement(t)
    \/ Notify(t) \/ NextSite(t)

Next ==
    \/ \E s \in Sites : ZoneChanges(s)
    \/ SourcesFail \/ SourcesReturn \/ BecomesDue \/ SchedulerDies
    \/ \E t \in Ticks : TickStep(t) \/ MeasureFails(t) \/ ApplyFails(t)

Spec == Init /\ [][Next]_vars

\* Time passes and sources come back; the interval starts ticks and a tick goes on.
FairSpec ==
    /\ Spec
    /\ WF_vars(BecomesDue) /\ WF_vars(SourcesReturn)
    /\ \A t \in Ticks : WF_vars(TickStep(t))

(***************************************************************************)
(* Properties.                                                             *)
(***************************************************************************)
\* No false alarm: a tick tells of nothing when the world was the same for its measurement and for
\* the two reads of what was known (diffDomainMeasurement, readPrevStatus).  Nameservers that do
\* not answer are the exception: the event that says so is null and skipped, so each check tells again.
NoFalseAlarm ==
    [][\A t \in Ticks : tick[t].pc = "write" /\ tick'[t].pc = "tell" /\ tick[t].prev.epochs = tick[t].m.epochs =>
           tick'[t].alerts \subseteq {<<"nameservers", ToString({})>>}]_vars

\* Every site whose date has come is measured and written, whatever goes wrong with others before
\* it in the batch (domain-watch.ts: order by next_domain_check_at, limit 50, continue).
EverySiteIsMeasured == \A s \in Sites : s \in due ~> s \notin due

\* The columns end up as the domain is, although a slow tick may write an old measurement over a
\* newer one (applyDomainMeasurement writes whatever it was given).
ColumnsCatchUp == \A s \in Sites : <>[](row[s].values = MeasureDomain(zone[s], NetSources, Today))

\* New nameservers are told, unless they are changed again first or a call or process failed.
NameserversAreTold ==
    \A s \in Sites : \A z \in {w \in Worlds[s] : w.ns # {}} :
        zone[s] = z ~> \/ <<s, <<"nameservers", ToString(z.ns)>>>> \in told
                       \/ zone[s] # z \/ faults > 0
=============================================================================
