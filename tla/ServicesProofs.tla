--------------------------- MODULE ServicesProofs ----------------------------
(***************************************************************************)
(* The services around a scan, for any values of their constants.          *)
(*                                                                         *)
(* The hub: for any callers, members, webhooks, faults and events, nobody  *)
(* gets a second mail of one event.  The jobs of Findings are one way of   *)
(* calling the hub, so it holds of them as well.                           *)
(*                                                                         *)
(* The findings: for any checks, measurements, patches and number of       *)
(* scans, a problem that is new in a completed scan reaches the team, and  *)
(* what is marked as back was dismissed before.  The first rests on what   *)
(* the diff of each scan says of the findings it was made of, which later  *)
(* edits leave their titles and severities, and on the call of the job     *)
(* having told everybody who is no longer on its list.                     *)
(*                                                                         *)
(* The others: what a site is shown as and what a scan logs in with was    *)
(* proven; the windows in Redis hold; a page that shows the end of a scan  *)
(* goes on showing it.                                                     *)
(***************************************************************************)
EXTENDS Findings, Ownership, RedisWindows, ProgressView,
        FiniteSetTheorems, WellFoundedInduction, TLAPS

-----------------------------------------------------------------------------
(* The hub and the findings.                                               *)

HubAny == \E p \in Callers : (\E event : Notify(p, event)) \/ HubStep(p) \/ CallFails(p) \/ Dies(p)

HubTypes == DOMAIN call = Callers /\ call = [p \in Callers |-> call[p]]

Mailing(p, e, u) == call[p].pc = "mail" /\ call[p].event = e /\ call[p].user = u

\* What was mailed was mailed once, and its row is there.
OneEach == \A t \in mails : t = <<t[1], t[2], 1>> /\ <<t[1], t[2]>> \in rows

\* Whoever is about to mail has made the row, nobody else is about to, and nobody has.
RowFirst ==
    \A p \in Callers : \A e, u : Mailing(p, e, u) =>
        /\ <<e, u>> \in rows
        /\ \A t \in mails : ~(t[1] = e /\ t[2] = u)
        /\ \A q \in Callers : Mailing(q, e, u) => q = p

HubInv == HubTypes /\ OneEach /\ RowFirst

\* The initial state has the invariant: nothing is called, written or mailed.
LEMMA HubStart == HubInit => HubInv
<1> SUFFICES ASSUME HubInit PROVE HubInv
  OBVIOUS
<1>1. HubTypes
  BY DEF HubInit, HubTypes
<1>2. OneEach
  BY DEF HubInit, OneEach
<1>3. RowFirst
  BY DEF HubInit, RowFirst, Mailing, NoCall, Call
<1>4. QED BY <1>1, <1>2, <1>3 DEF HubInv

\* Whatever a step does to the call of p, it is a function of the callers.
LEMMA HubTypesStay == ASSUME HubTypes, HubAny PROVE HubTypes'
<1>1. PICK p \in Callers : (\E event : Notify(p, event)) \/ HubStep(p) \/ CallFails(p) \/ Dies(p)
  BY DEF HubAny
<1>2. \E c : call' = [call EXCEPT ![p] = c]
  BY <1>1 DEF Notify, HubStep, ReadRecipients, InsertRow, SendMail, ReadWebhooks, QueueDelivery, EndCall,
              CallFails, Dies
<1>3. QED BY <1>2 DEF HubTypes

\* A step after which p is not about to mail, and that writes no row and no mail, keeps the other two parts.
LEMMA QuietStep ==
    ASSUME HubTypes, OneEach, RowFirst, NEW p \in Callers,
           \A e, u : ~Mailing(p, e, u)', \A q \in Callers \ {p} : call'[q] = call[q],
           rows' = rows, mails' = mails
    PROVE  OneEach' /\ RowFirst'
<1>1. OneEach'
  BY DEF OneEach
<1>2. \A q \in Callers : \A e, u : Mailing(q, e, u)' => Mailing(q, e, u)
  BY DEF Mailing
<1>3. RowFirst'
  BY <1>2 DEF RowFirst
<1>4. QED BY <1>1, <1>3

\* The row comes first and only once, so that whoever makes it is alone with it.
LEMMA InsertKeeps ==
    ASSUME HubTypes, OneEach, RowFirst, NEW p \in Callers, NEW v \in Users, InsertRow(p, v)
    PROVE  OneEach' /\ RowFirst'
<1> DEFINE key == <<call[p].event, v>>
<1>1. mails' = mails /\ rows' = rows \union {key}
  BY DEF InsertRow
<1>2. OneEach'
  BY <1>1 DEF OneEach
<1>3. \A q \in Callers \ {p} : call'[q] = call[q]
  BY DEF InsertRow, HubTypes
<1>4. call'[p] = Call(IF IsNew(key) THEN "mail" ELSE "insert", call[p].event, call[p].todo \ {v}, v)
  BY DEF InsertRow, HubTypes
<1>5. CASE ~IsNew(key)
  <2>1. rows' = rows
    BY <1>1, <1>5 DEF IsNew
  <2>2. \A e, u : ~Mailing(p, e, u)'
    BY <1>4, <1>5 DEF Mailing, Call
  <2>3. QED BY <1>1, <1>3, <2>1, <2>2, QuietStep
<1>6. CASE IsNew(key)
  <2>1. key \notin rows
    BY <1>6 DEF IsNew
  <2>2. \A e, u : Mailing(p, e, u)' => <<e, u>> = key
    BY <1>4 DEF Mailing, Call
  <2>3. \A q \in Callers \ {p} : \A e, u : Mailing(q, e, u)' => Mailing(q, e, u)
    BY <1>3 DEF Mailing
  <2>4. \A q \in Callers \ {p} : \A e, u : Mailing(q, e, u)' => <<e, u>> # key
    BY <2>1, <2>3 DEF RowFirst
  <2>5. ASSUME NEW q \in Callers, NEW e, NEW u, Mailing(q, e, u)'
        PROVE  /\ <<e, u>> \in rows'
               /\ \A t \in mails' : ~(t[1] = e /\ t[2] = u)
               /\ \A r \in Callers : Mailing(r, e, u)' => r = q
    <3>1. CASE q = p
      <4>1. <<e, u>> = key
        BY <2>2, <2>5, <3>1
      <4>2. \A t \in mails : ~(t[1] = e /\ t[2] = u)
        BY <2>1, <4>1 DEF OneEach
      <4>3. \A r \in Callers : Mailing(r, e, u)' => r = q
        BY <2>4, <3>1, <4>1
      <4>4. QED BY <1>1, <4>1, <4>2, <4>3
    <3>2. CASE q # p
      <4>1. Mailing(q, e, u) /\ <<e, u>> # key
        BY <2>3, <2>4, <2>5, <3>2
      <4>2. \A r \in Callers : Mailing(r, e, u)' => Mailing(r, e, u)
        BY <2>2, <2>3, <4>1
      <4>3. QED BY <1>1, <4>1, <4>2 DEF RowFirst
    <3>3. QED BY <3>1, <3>2
  <2>6. QED BY <1>2, <2>5 DEF RowFirst
<1>7. QED BY <1>5, <1>6

\* The mail is the first of its event and member, and its caller is done with it.
LEMMA MailKeeps ==
    ASSUME HubTypes, OneEach, RowFirst, NEW p \in Callers, SendMail(p)
    PROVE  OneEach' /\ RowFirst'
<1> DEFINE e == call[p].event
           u == call[p].user
<1>1. /\ Mailing(p, e, u) /\ rows' = rows
      /\ \A q \in Callers \ {p} : call'[q] = call[q]
  BY DEF SendMail, Mailing, HubTypes
<1>2. call'[p] = Call("insert", call[p].event, call[p].todo, NoUser)
  BY DEF SendMail, HubTypes
<1>3. \A f, v : ~Mailing(p, f, v)'
  BY <1>2 DEF Mailing, Call
<1>4. CASE mails' = mails
  BY <1>1, <1>3, <1>4, QuietStep
<1>5. CASE mails' = mails \union {<<e, u, Cardinality(MailsOf(e, u)) + 1>>}
  <2>1. MailsOf(e, u) = {}
    <3>1. \A f, v : Mailing(p, f, v) => \A t \in mails : ~(t[1] = f /\ t[2] = v)
      BY Zenon DEF RowFirst
    <3>2. \A t \in mails : ~(t[1] = e /\ t[2] = u)
      BY <1>1, <3>1, Zenon
    <3>3. QED BY <3>2 DEF MailsOf
  <2>2. Cardinality(MailsOf(e, u)) + 1 = 1
    BY <2>1, FS_EmptySet
  <2>3. mails' = mails \union {<<e, u, 1>>}
    BY <1>5, <2>2
  <2>4. <<e, u>> \in rows
    BY <1>1 DEF RowFirst
  <2>5. OneEach'
    <3>1. \A t \in mails : t = <<t[1], t[2], 1>> /\ <<t[1], t[2]>> \in rows'
      BY <1>1 DEF OneEach
    <3>2. \A t \in {<<e, u, 1>>} : t = <<t[1], t[2], 1>> /\ <<t[1], t[2]>> \in rows'
      BY <1>1, <2>4
    <3>3. QED BY <2>3, <3>1, <3>2 DEF OneEach
  <2>6. ASSUME NEW q \in Callers, NEW f, NEW v, Mailing(q, f, v)'
        PROVE  Mailing(q, f, v) /\ ~(f = e /\ v = u)
    <3>1. q # p
      BY <1>3, <2>6
    <3>2. Mailing(q, f, v)
      BY <1>1, <2>6, <3>1 DEF Mailing
    <3>3. QED BY <1>1, <3>1, <3>2 DEF RowFirst
  <2>7. RowFirst'
    BY <1>1, <2>3, <2>6 DEF RowFirst
  <2>8. QED BY <2>5, <2>7
<1>6. QED BY <1>4, <1>5 DEF SendMail

\* Every step keeps the invariant.
LEMMA HubStays == ASSUME HubInv, [HubAny]_hubVars PROVE HubInv'
<1> USE DEF HubInv
<1>1. CASE UNCHANGED hubVars
  BY <1>1 DEF hubVars, HubTypes, OneEach, RowFirst, Mailing
<1>2. CASE HubAny
  <2>1. HubTypes'
    BY <1>2, HubTypesStay
  <2>2. PICK p \in Callers : (\E event : Notify(p, event)) \/ HubStep(p) \/ CallFails(p) \/ Dies(p)
    BY <1>2 DEF HubAny
  <2>3. ASSUME NEW event, Notify(p, event) PROVE OneEach' /\ RowFirst'
    <3>1. call'[p].pc = "members" /\ \A q \in Callers \ {p} : call'[q] = call[q]
      BY <2>3 DEF Notify, Calls, Call, HubTypes
    <3>2. rows' = rows /\ mails' = mails
      BY <2>3 DEF Notify
    <3>3. \A e, u : ~Mailing(p, e, u)'
      BY <3>1 DEF Mailing
    <3>4. QED BY <3>1, <3>2, <3>3, QuietStep
  <2>4. ASSUME CallFails(p) \/ Dies(p) \/ EndCall(p) PROVE OneEach' /\ RowFirst'
    <3>1. call'[p].pc = "idle" /\ \A q \in Callers \ {p} : call'[q] = call[q]
      BY <2>4 DEF CallFails, Dies, EndCall, NoCall, Call, HubTypes
    <3>2. rows' = rows /\ mails' = mails
      BY <2>4 DEF CallFails, Dies, EndCall
    <3>3. \A e, u : ~Mailing(p, e, u)'
      BY <3>1 DEF Mailing
    <3>4. QED BY <3>1, <3>2, <3>3, QuietStep
  <2>5. ASSUME ReadRecipients(p) \/ ReadWebhooks(p) \/ \E w \in Hooks : QueueDelivery(p, w)
        PROVE  OneEach' /\ RowFirst'
    <3>1. call'[p].pc # "mail" /\ \A q \in Callers \ {p} : call'[q] = call[q]
      BY <2>5 DEF ReadRecipients, ReadWebhooks, QueueDelivery, Call, HubTypes
    <3>2. rows' = rows /\ mails' = mails
      BY <2>5 DEF ReadRecipients, ReadWebhooks, QueueDelivery
    <3>3. \A e, u : ~Mailing(p, e, u)'
      BY <3>1 DEF Mailing
    <3>4. QED BY <3>1, <3>2, <3>3, QuietStep
  <2>6. OneEach' /\ RowFirst'
    BY <2>2, <2>3, <2>4, <2>5, InsertKeeps, MailKeeps DEF HubStep
  <2>7. QED BY <2>1, <2>6
<1>3. QED BY <1>1, <1>2

\* What was mailed once and with its number is one mail.
LEMMA InvGivesOnce == HubInv => MailOncePerEvent
<1> SUFFICES ASSUME HubInv, NEW t \in mails PROVE Cardinality(MailsOf(t[1], t[2])) <= 1
  BY DEF MailOncePerEvent
<1>1. MailsOf(t[1], t[2]) = {t}
  <2>1. \A s \in mails : s = <<s[1], s[2], 1>>
    BY DEF HubInv, OneEach
  <2>2. \A s \in MailsOf(t[1], t[2]) : s \in mails /\ s[1] = t[1] /\ s[2] = t[2]
    BY DEF MailsOf
  <2>3. \A s \in MailsOf(t[1], t[2]) : s = t
    BY <2>1, <2>2
  <2>4. t \in MailsOf(t[1], t[2])
    BY DEF MailsOf
  <2>5. QED BY <2>3, <2>4
<1>2. Cardinality({t}) = 1
  BY FS_Singleton
<1>3. QED BY <1>1, <1>2

HubSpec == HubInit /\ [][HubAny]_hubVars

\* Processes that call the hub side by side, for anything, again and again, and cut short anywhere: one
\* mail per event and member.
THEOREM MailedOnce == HubSpec => []MailOncePerEvent
<1>1. HubInit => HubInv
  BY HubStart
<1>2. HubInv /\ [HubAny]_hubVars => HubInv'
  BY HubStays
<1>3. HubInv => MailOncePerEvent
  BY InvGivesOnce
<1>4. QED BY <1>1, <1>2, <1>3, PTL DEF HubSpec

FindingsSpec == HubInit /\ FindingsInit /\ [][FindingsNext]_<<hubVars, findingVars>>

\* The job of the aggregator calls the hub, or leaves it alone.
LEMMA JobUsesHub ==
  ASSUME [FindingsNext]_<<hubVars, findingVars>>
  PROVE  HubAny \/ UNCHANGED hubVars
<1>1. CASE UNCHANGED <<hubVars, findingVars>>
  BY <1>1
<1>2. "aggregator" \in Callers
  BY FindingsAssumption
<1>3. CASE TellDone \/ TellCritical \/ TellDiff
  BY <1>2, <1>3 DEF TellDone, TellCritical, TellDiff, HubAny
<1>4. CASE HubWorks \/ HubFails \/ WorkerDies
  BY <1>2, <1>4 DEF HubWorks, HubFails, WorkerDies, HubAny
<1>5. CASE StartJob \/ Finish \/ EndJob \/ \E e \in Editors : ReadFindings(e) \/ WriteFindings(e)
  BY <1>5 DEF StartJob, Finish, EndJob, ReadFindings, WriteFindings
<1>6. QED BY <1>1, <1>3, <1>4, <1>5 DEF FindingsNext

\* The job of the aggregator, tried again after a failed call or a dead worker, uses the hub in such a way,
\* so that no scan is mailed twice.
THEOREM JobMailsOnce == FindingsSpec => []MailOncePerEvent
<1>1. [FindingsNext]_<<hubVars, findingVars>> => [HubAny]_hubVars
  BY JobUsesHub
<1>2. FindingsSpec => HubSpec
  BY <1>1, PTL DEF FindingsSpec, HubSpec
<1>3. QED BY <1>2, MailedOnce

-----------------------------------------------------------------------------
(* The alert of a new problem.                                             *)

SeverityOf(c, status) ==
    IF c \in CriticalIds /\ status = "fail" THEN "critical" ELSE SeverityByStatus[status]

\* A finding of check c, made of one of its statuses.
IsItem(c, item) ==
    /\ item = [title |-> item.title, severity |-> item.severity, status |-> item.status,
               snooze |-> item.snooze, regressed |-> item.regressed]
    /\ \E st \in Statuses : item.title = Title(c, st) /\ item.severity = SeverityOf(c, st)

IsItems(items) == items = [c \in DOMAIN items |-> items[c]] /\ \A c \in DOMAIN items : IsItem(c, items[c])

\* The same findings, whatever people made of them.
Alike(a, b) == DOMAIN a = DOMAIN b /\ \A c \in DOMAIN a : a[c].title = b[c].title /\ a[c].severity = b[c].severity

HistoryTypes ==
    /\ \E S : history \in Seq(S)
    /\ \A n \in DOMAIN history :
          /\ history[n] = [items |-> history[n].items, score |-> history[n].score, diff |-> history[n].diff,
                           trigger |-> history[n].trigger, failed |-> history[n].failed]
          /\ IsItems(history[n].items)

\* The job is about the newest scan; what it measured is what the scan holds once it is written.
JobInv ==
    /\ job = [pc |-> job.pc, scan |-> job.scan, measured |-> job.measured, trigger |-> job.trigger]
    /\ job.pc \in {"idle", "finish", "scan_done", "critical", "diff", "end"}
    /\ job.pc = "idle" => job.scan = 0
    /\ job.pc = "finish" => job.scan \in {Len(history), Len(history) + 1} \ {0}
    /\ job.pc \notin {"idle", "finish"} => job.scan \in {Len(history)} \ {0}
    /\ job.pc # "idle" => \A c \in DOMAIN job.measured : job.measured[c] \in Statuses
    /\ job.pc # "idle" /\ job.scan = Len(history) => Alike(ToFindings(job.measured), history[job.scan].items)

\* An edit writes back the findings of its scan.
EditInv ==
    /\ editor = [e \in Editors |-> editor[e]]
    /\ \A e \in Editors : editor[e].pc = "write" =>
          /\ editor[e].scan \in DOMAIN history /\ editor[e].id \in DOMAIN editor[e].items
          /\ IsItems(editor[e].items) /\ Alike(editor[e].items, history[editor[e].scan].items)

\* A problem of a titled check that no completed scan before n has.
NewProblem(n, c) ==
    /\ c \in DOMAIN history[n].items \intersect Titled /\ c \notin ActiveIds
    /\ IsBad(history[n].items[c].severity, "medium")
    /\ \A k \in Completed(n) : c \in DOMAIN history[k].items => history[k].items[c].severity = "info"

\* It is in the diff of its scan as new, and nothing mutes it.
DiffInv ==
    \A n \in DOMAIN history : \A c : NewProblem(n, c) => c \in history[n].diff.new \ history[n].diff.muted

Reached(event) ==
    /\ \A u \in wanted : <<event, u>> \in rows
    /\ \A w \in Hooks : <<event, w>> \in outbox

\* The call of the job: who is not on its list any more is told, and the job waits for it.
CallInv ==
    LET a == call["aggregator"]
    IN  /\ a.pc \in {"idle", "members", "insert", "mail", "queue"}
        /\ a.pc \in {"insert", "mail"} => \A u \in wanted : u \in a.todo \/ <<a.event, u>> \in rows
        /\ a.pc = "queue" => /\ \A u \in wanted : <<a.event, u>> \in rows
                             /\ \A w \in Hooks : w \in a.todo \/ <<a.event, w>> \in outbox
        /\ job.pc \in {"idle", "finish", "scan_done"} => a.pc = "idle"
        /\ job.pc = "end" => IF a.pc = "idle" THEN Reached(<<"scan_diff", job.scan>>)
                                              ELSE a.event = <<"scan_diff", job.scan>>

FindingsInv == /\ HubTypes /\ HistoryTypes /\ JobInv /\ EditInv /\ DiffInv /\ CallInv
               /\ wanted \subseteq Users /\ AlertReachesTeam

-----------------------------------------------------------------------------
(* The findings of one scan.                                               *)

\* The title of a problem of a titled check is not that of the check when it passes.
LEMMA TitlesTell ==
  ASSUME NEW c, NEW item, IsItem(c, item)
  PROVE  /\ item.severity = "info" => item.title = <<c>>
         /\ c \in Titled /\ IsBad(item.severity, "medium") => item.title # <<c>>
<1>1. PICK st \in Statuses : item.title = Title(c, st) /\ item.severity = SeverityOf(c, st)
  BY DEF IsItem
<1>2. CASE st \in {"pass", "info"}
  <2>1. item.title = <<c>> /\ item.severity = "info"
    BY <1>1, <1>2 DEF Title, SeverityOf, SeverityByStatus
  <2>2. ~IsBad("info", "medium")
    BY DEF IsBad, SeverityRank
  <2>3. QED
    BY <2>1, <2>2
<1>3. CASE st \in {"warn", "fail"}
  <2>1. item.severity # "info"
    BY <1>1, <1>3 DEF SeverityOf, SeverityByStatus
  <2>2. c \in Titled => item.title = <<c, st>>
    BY <1>1, <1>3 DEF Title
  <2>3. <<c, st>> # <<c>>
    OBVIOUS
  <2>4. QED
    BY <2>1, <2>2, <2>3
<1>4. QED
  BY <1>2, <1>3 DEF Statuses

\* Other marks on a finding leave it a finding of its check.
LEMMA ItemStays ==
  ASSUME NEW c, NEW item, IsItem(c, item), NEW x, NEW y, NEW z
  PROVE  LET new == [title |-> item.title, severity |-> item.severity, status |-> x, snooze |-> y, regressed |-> z]
         IN  IsItem(c, new) /\ new.title = item.title /\ new.severity = item.severity
BY DEF IsItem

LEMMA ItemExcept ==
  ASSUME NEW c, NEW item, IsItem(c, item), NEW x, NEW y
  PROVE  /\ [item EXCEPT !.snooze = y, !.status = x]
               = [title |-> item.title, severity |-> item.severity, status |-> x, snooze |-> y,
                  regressed |-> item.regressed]
         /\ [item EXCEPT !.status = x, !.snooze = y]
               = [title |-> item.title, severity |-> item.severity, status |-> x, snooze |-> y,
                  regressed |-> item.regressed]
         /\ [item EXCEPT !.regressed = x, !.snooze = y]
               = [title |-> item.title, severity |-> item.severity, status |-> item.status, snooze |-> y,
                  regressed |-> x]
<1>1. PICK t, s, u, v, w : item = [title |-> t, severity |-> s, status |-> u, snooze |-> v, regressed |-> w]
  BY DEF IsItem
<1>2. item.title = t /\ item.severity = s /\ item.status = u /\ item.regressed = w
  BY <1>1
<1>3. [item EXCEPT !.snooze = y, !.status = x]
         = [title |-> t, severity |-> s, status |-> x, snooze |-> y, regressed |-> w]
  <2>1. PICK new : new = [item EXCEPT !.snooze = y]
    OBVIOUS
  <2>2. new = [title |-> t, severity |-> s, status |-> u, snooze |-> y, regressed |-> w]
    BY <1>1, <2>1
  <2>3. [new EXCEPT !.status = x]
           = [title |-> t, severity |-> s, status |-> x, snooze |-> y, regressed |-> w]
    BY <2>2
  <2>4. [item EXCEPT !.snooze = y, !.status = x] = [[item EXCEPT !.snooze = y] EXCEPT !.status = x]
    OBVIOUS
  <2>5. QED
    BY <2>1, <2>3, <2>4
<1>4. [item EXCEPT !.status = x, !.snooze = y]
         = [title |-> t, severity |-> s, status |-> x, snooze |-> y, regressed |-> w]
  <2>1. PICK new : new = [item EXCEPT !.status = x]
    OBVIOUS
  <2>2. new = [title |-> t, severity |-> s, status |-> x, snooze |-> v, regressed |-> w]
    BY <1>1, <2>1
  <2>3. [new EXCEPT !.snooze = y]
           = [title |-> t, severity |-> s, status |-> x, snooze |-> y, regressed |-> w]
    BY <2>2
  <2>4. [item EXCEPT !.status = x, !.snooze = y] = [[item EXCEPT !.status = x] EXCEPT !.snooze = y]
    OBVIOUS
  <2>5. QED
    BY <2>1, <2>3, <2>4
<1>5. [item EXCEPT !.regressed = x, !.snooze = y]
         = [title |-> t, severity |-> s, status |-> u, snooze |-> y, regressed |-> x]
  <2>1. PICK new : new = [item EXCEPT !.regressed = x]
    OBVIOUS
  <2>2. new = [title |-> t, severity |-> s, status |-> u, snooze |-> v, regressed |-> x]
    BY <1>1, <2>1
  <2>3. [new EXCEPT !.snooze = y]
           = [title |-> t, severity |-> s, status |-> u, snooze |-> y, regressed |-> x]
    BY <2>2
  <2>4. [item EXCEPT !.regressed = x, !.snooze = y] = [[item EXCEPT !.regressed = x] EXCEPT !.snooze = y]
    OBVIOUS
  <2>5. QED
    BY <2>1, <2>3, <2>4
<1>6. QED
  BY <1>2, <1>3, <1>4, <1>5

LEMMA FreshItems ==
  ASSUME NEW measured, \A c \in DOMAIN measured : measured[c] \in Statuses
  PROVE  /\ IsItems(ToFindings(measured)) /\ DOMAIN ToFindings(measured) = DOMAIN measured
         /\ \A c \in DOMAIN measured : /\ ToFindings(measured)[c].snooze = "none"
                                       /\ ToFindings(measured)[c].status = "open"
<1>1. ASSUME NEW c \in DOMAIN measured
      PROVE  /\ IsItem(c, ToFindings(measured)[c])
             /\ ToFindings(measured)[c].snooze = "none" /\ ToFindings(measured)[c].status = "open"
  <2>1. ToFindings(measured)[c] = [title |-> Title(c, measured[c]), severity |-> SeverityOf(c, measured[c]),
                                   status |-> "open", snooze |-> "none", regressed |-> FALSE]
    BY DEF ToFindings, SeverityOf
  <2>2. PICK no : ToFindings(measured)[c] = [title |-> Title(c, measured[c]), severity |-> SeverityOf(c, measured[c]),
                                             status |-> "open", snooze |-> "none", regressed |-> no]
    BY <2>1
  <2>3. QED
    BY <2>2 DEF IsItem
<1>2. QED
  BY <1>1 DEF IsItems, ToFindings

\* What is taken over leaves the findings, and those that were not there before as they are.
LEMMA CarriedItems ==
  ASSUME NEW items, IsItems(items), NEW previous
  PROVE  /\ IsItems(CarryOver(items, previous)) /\ Alike(CarryOver(items, previous), items)
         /\ \A c \in DOMAIN items :
               /\ ~Same(items, previous, c) => CarryOver(items, previous)[c] = items[c]
               /\ Same(items, previous, c) => CarryOver(items, previous)[c].status = previous[c].status
<1>1. ASSUME NEW c \in DOMAIN items, ~Same(items, previous, c)
      PROVE  CarryOver(items, previous)[c] = items[c] /\ IsItem(c, items[c])
  BY <1>1 DEF CarryOver, IsItems
<1>2. ASSUME NEW c \in DOMAIN items, Same(items, previous, c)
      PROVE  /\ IsItem(c, CarryOver(items, previous)[c])
             /\ CarryOver(items, previous)[c].title = items[c].title
             /\ CarryOver(items, previous)[c].severity = items[c].severity
             /\ CarryOver(items, previous)[c].status = previous[c].status
  <2>1. PICK item, x, y : item = items[c] /\ x = previous[c].status /\ y = previous[c].snooze
    OBVIOUS
  <2>2. IsItem(c, item)
    BY <2>1 DEF IsItems
  <2>3. CarryOver(items, previous)[c] = [item EXCEPT !.snooze = y, !.status = x]
    BY <1>2, <2>1 DEF CarryOver
  <2>4. CarryOver(items, previous)[c] = [title |-> item.title, severity |-> item.severity, status |-> x,
                                         snooze |-> y, regressed |-> item.regressed]
    BY <2>2, <2>3, ItemExcept
  <2>5. QED
    BY <2>1, <2>2, <2>4, ItemStays
<1>3. DOMAIN CarryOver(items, previous) = DOMAIN items
      /\ CarryOver(items, previous) = [c \in DOMAIN items |-> CarryOver(items, previous)[c]]
  BY DEF CarryOver
<1>4. QED
  BY <1>1, <1>2, <1>3 DEF IsItems, Alike

LEMMA MarkedItems ==
  ASSUME NEW items, IsItems(items), NEW diff
  PROVE  /\ IsItems(Marked(items, diff)) /\ Alike(Marked(items, diff), items)
         /\ \A c \in DOMAIN items : Marked(items, diff)[c].regressed <=> c \in diff.regressed
<1>1. ASSUME NEW c \in DOMAIN items
      PROVE  /\ IsItem(c, Marked(items, diff)[c])
             /\ Marked(items, diff)[c].title = items[c].title
             /\ Marked(items, diff)[c].severity = items[c].severity
             /\ Marked(items, diff)[c].regressed <=> c \in diff.regressed
  <2>1. PICK item, x, y : /\ item = items[c] /\ x = (c \in diff.regressed)
                          /\ y = IF item.snooze = "next-scan" THEN "none" ELSE item.snooze
    OBVIOUS
  <2>2. IsItem(c, item)
    BY <2>1 DEF IsItems
  <2>3. Marked(items, diff)[c] = [item EXCEPT !.regressed = x, !.snooze = y]
    BY <2>1 DEF Marked
  <2>4. Marked(items, diff)[c] = [title |-> item.title, severity |-> item.severity, status |-> item.status,
                                  snooze |-> y, regressed |-> x]
    BY <2>2, <2>3, ItemExcept
  <2>5. Marked(items, diff)[c].regressed = x
    BY <2>4
  <2>6. Marked(items, diff)[c].regressed <=> c \in diff.regressed
    BY <2>1, <2>5, Zenon
  <2>7. QED
    BY <2>1, <2>2, <2>4, <2>6, ItemStays
<1>2. DOMAIN Marked(items, diff) = DOMAIN items
      /\ Marked(items, diff) = [c \in DOMAIN items |-> Marked(items, diff)[c]]
  BY DEF Marked
<1>3. QED
  BY <1>1, <1>2 DEF IsItems, Alike

\* The newest of some scans is one of them.
LEMMA MaxIsMember ==
  ASSUME NEW n \in Nat, NEW S, S \subseteq 1..n, S # {}
  PROVE  Max(S) \in S
<1> DEFINE T == {n - k : k \in S}
<1>1. T \subseteq Nat /\ T # {}
  <2>1. \A k \in S : k \in Nat /\ n - k \in Nat
    OBVIOUS
  <2>2. QED
    BY <2>1
<1>2. \A k \in S : n - k \in T
  OBVIOUS
<1>3. \A x \in T : \E m \in S : x = n - m
  OBVIOUS
<1> HIDE DEF T
<1>4. PICK x \in T : \A y \in T : ~(<<y, x>> \in OpToRel(<, Nat))
  BY <1>1, NatLessThanWellFounded, WFMin, Zenon
<1>5. \A y \in T : x <= y
  <2> TAKE y \in T
  <2>1. x \in Nat /\ y \in Nat
    BY <1>1
  <2>2. ~(y < x)
    BY <1>4, <2>1 DEF OpToRel
  <2>3. QED
    BY <2>1, <2>2
<1>6. PICK m \in S : x = n - m
  BY <1>3
<1>7. \A k \in S : m >= k
  BY <1>2, <1>5, <1>6
<1>8. QED
  BY <1>7 DEF Max

\* Those of a recorded scan, or none.
LEMMA NewestIs ==
  ASSUME HistoryTypes, NEW n \in 1..(Len(history) + 1), NEW S, S \subseteq Completed(n)
  PROVE  \/ Newest(S) = NoItems
         \/ \E k \in S : /\ Newest(S) = history[k].items
                         /\ k \in 1..(n - 1) /\ k \in DOMAIN history /\ IsItems(history[k].items)
<1>1. Len(history) \in Nat /\ DOMAIN history = 1..Len(history)
  BY DEF HistoryTypes
<1>2. n - 1 \in Nat /\ S \subseteq 1..(n - 1) /\ 1..(n - 1) \subseteq DOMAIN history
  BY <1>1 DEF Completed
<1>3. CASE S = {}
  BY <1>3 DEF Newest
<1>4. CASE S # {}
  <2>1. PICK m \in Nat : m = n - 1
    BY <1>2
  <2>2. Max(S) \in S
    BY <1>2, <1>4, <2>1, MaxIsMember
  <2>3. Newest(S) = history[Max(S)].items
    BY <1>4 DEF Newest
  <2>4. QED
    BY <1>2, <2>2, <2>3 DEF HistoryTypes
<1>5. QED
  BY <1>3, <1>4

LEMMA Likes ==
  ASSUME NEW a, NEW b, NEW d, Alike(a, b), Alike(b, d)
  PROVE  Alike(a, d) /\ Alike(b, a)
BY DEF Alike

(***************************************************************************)
(* What finishScan records: a problem that no completed scan has is new in *)
(* it and muted by nobody, and what is back was dismissed before but not   *)
(* in the scan right before.                                               *)
(***************************************************************************)
LEMMA FinishedIs ==
  ASSUME HistoryTypes, NEW n \in 1..(Len(history) + 1), NEW measured, NEW trigger, NEW late,
         \A c \in DOMAIN measured : measured[c] \in Statuses,
         NEW made, made = Finished(n, measured, trigger, late)
  PROVE  /\ made = [items |-> made.items, score |-> made.score, diff |-> made.diff,
                    trigger |-> made.trigger, failed |-> made.failed]
         /\ IsItems(made.items) /\ Alike(made.items, ToFindings(measured))
         /\ \A c \in DOMAIN made.items :
               /\ c \in Titled /\ c \notin ActiveIds /\ IsBad(made.items[c].severity, "medium")
               /\ \A k \in Completed(n) : c \in DOMAIN history[k].items => history[k].items[c].severity = "info"
               => c \in made.diff.new \ made.diff.muted
         /\ \A c \in DOMAIN made.items : made.items[c].regressed =>
               /\ \E k \in 1..(n - 1) :
                     Same(made.items, history[k].items, c) /\ Dismissed(history[k].items[c])
               /\ ~(Same(made.items, Previous(n), c) /\ Dismissed(Previous(n)[c]))
<1> DEFINE fresh    == ToFindings(measured)
           previous == Previous(n)
           snapshot == Snapshot(n)
<1>1. /\ IsItems(fresh) /\ DOMAIN fresh = DOMAIN measured
      /\ \A c \in DOMAIN fresh : fresh[c].snooze = "none" /\ fresh[c].status = "open"
  BY FreshItems
<1>2. /\ previous = NoItems \/ \E k \in Completed(n) :
            previous = history[k].items /\ IsItems(history[k].items)
      /\ snapshot = NoItems \/ \E k \in Completed(n) :
            snapshot = history[k].items /\ k \in 1..(n - 1) /\ IsItems(history[k].items)
  <2>1. {k \in Completed(n) : IsClean(history[k])} \subseteq Completed(n)
    OBVIOUS
  <2>2. QED
    BY <2>1, NewestIs DEF Previous, Snapshot
<1>3. \A c : ~Same(fresh, NoItems, c)
  BY DEF Same, NoItems
<1>4. PICK carried : carried = CarryOver(fresh, previous)
  OBVIOUS
<1>5. /\ IsItems(carried) /\ Alike(carried, fresh)
      /\ \A c \in DOMAIN fresh :
            /\ ~Same(fresh, previous, c) => carried[c] = fresh[c]
            /\ Same(fresh, previous, c) => carried[c].status = previous[c].status
  BY <1>1, <1>4, CarriedItems
<1>6. PICK diff : diff = Diff(carried, snapshot, late)
  OBVIOUS
<1>7. made = [items |-> Marked(carried, diff), score |-> Score(fresh), diff |-> diff,
              trigger |-> trigger, failed |-> FALSE]
  BY <1>4, <1>6 DEF Finished
<1>8. /\ made.items = Marked(carried, diff) /\ made.diff = diff
      /\ made = [items |-> made.items, score |-> made.score, diff |-> made.diff,
                 trigger |-> made.trigger, failed |-> made.failed]
  BY <1>7
<1>9. /\ IsItems(made.items) /\ Alike(made.items, carried)
      /\ \A c \in DOMAIN carried : made.items[c].regressed <=> c \in diff.regressed
  BY <1>5, <1>8, MarkedItems
<1>10. Alike(made.items, fresh)
  BY <1>5, <1>9, Likes
<1>11. \A c, other : Same(made.items, other, c) <=> Same(carried, other, c)
  BY <1>9 DEF Same, Alike
<1>12. \A c, other : Same(carried, other, c) <=> Same(fresh, other, c)
  BY <1>5 DEF Same, Alike
<1>13. DOMAIN made.items = DOMAIN carried /\ DOMAIN carried = DOMAIN fresh
  BY <1>5, <1>9 DEF Alike
<1>14. ASSUME NEW c \in DOMAIN made.items, c \in Titled, c \notin ActiveIds,
              IsBad(made.items[c].severity, "medium"),
              \A k \in Completed(n) : c \in DOMAIN history[k].items => history[k].items[c].severity = "info"
       PROVE  c \in made.diff.new \ made.diff.muted
  <2>1. made.items[c].title # <<c>>
    BY <1>9, <1>14, TitlesTell DEF IsItems
  <2>2. ASSUME NEW k \in Completed(n), IsItems(history[k].items)
        PROVE  ~Same(made.items, history[k].items, c)
    <3>1. c \in DOMAIN history[k].items => history[k].items[c].title = <<c>>
      BY <1>14, <2>2, TitlesTell DEF IsItems
    <3>2. QED
      BY <2>1, <3>1 DEF Same
  <2>3. ~Same(carried, previous, c) /\ ~Same(carried, snapshot, c)
    BY <1>2, <1>3, <1>11, <1>12, <2>2
  <2>4. carried[c].snooze = "none"
    BY <1>1, <1>5, <1>12, <1>13, <2>3
  <2>5. c \in diff.new
    BY <1>6, <1>13, <1>14, <2>3 DEF Diff
  <2>6. c \notin diff.muted
    BY <1>6, <2>4 DEF Diff, IsSnoozed
  <2>7. QED
    BY <1>8, <2>5, <2>6
<1>15. ASSUME NEW c \in DOMAIN made.items, made.items[c].regressed
       PROVE  /\ \E k \in 1..(n - 1) :
                    Same(made.items, history[k].items, c) /\ Dismissed(history[k].items[c])
              /\ ~(Same(made.items, previous, c) /\ Dismissed(previous[c]))
  <2>1. c \in diff.regressed
    BY <1>9, <1>13, <1>15
  <2>2. Same(carried, snapshot, c) /\ carried[c].status = "open" /\ Dismissed(snapshot[c])
    BY <1>6, <2>1 DEF Diff, Regresses
  <2>3. snapshot # NoItems
    BY <1>3, <1>12, <2>2
  <2>4. \E k \in 1..(n - 1) : Same(made.items, history[k].items, c) /\ Dismissed(history[k].items[c])
    BY <1>2, <1>11, <2>2, <2>3
  <2>5. ASSUME Same(made.items, previous, c), Dismissed(previous[c]) PROVE FALSE
    <3>1. carried[c].status = previous[c].status
      BY <1>5, <1>11, <1>12, <1>13, <2>5
    <3>2. QED
      BY <2>2, <2>5, <3>1 DEF Dismissed
  <2>6. QED
    BY <2>4, <2>5
<1>16. QED
  BY <1>8, <1>9, <1>10, <1>14, <1>15

\* finishScan writes the newest scan, once more when it is tried again.
LEMMA FinishIs ==
  ASSUME HistoryTypes, JobInv, Finish
  PROVE  LET n == job.scan
         IN  /\ job.pc = "finish" /\ job' = [job EXCEPT !.pc = "scan_done"] /\ UNCHANGED <<hubVars, editor>>
             /\ n \in 1..(Len(history) + 1) /\ Len(history) \in Nat /\ DOMAIN history = 1..Len(history)
             /\ \E S : history' \in Seq(S)
             /\ Len(history') = n /\ DOMAIN history' = 1..n /\ Len(history) <= n
             /\ \A k \in 1..(n - 1) : k \in DOMAIN history /\ history'[k] = history[k]
             /\ \E late : history'[n] = Finished(n, job.measured, job.trigger, late)
<1>1. PICK late \in BOOLEAN :
         history' = IF job.scan > Len(history) THEN Append(history, Finished(job.scan, job.measured, job.trigger, late))
                    ELSE [history EXCEPT ![job.scan] = Finished(job.scan, job.measured, job.trigger, late)]
  BY DEF Finish
<1>2. PICK made : made = Finished(job.scan, job.measured, job.trigger, late)
  OBVIOUS
<1>3. PICK S : history \in Seq(S)
  BY DEF HistoryTypes
<1>4. PICK m \in Nat : m = Len(history)
  BY <1>3
<1>5. PICK n \in {m, m + 1} \ {0} : n = job.scan
  BY <1>4 DEF JobInv, Finish
<1>6. /\ job.pc = "finish" /\ job' = [job EXCEPT !.pc = "scan_done"] /\ UNCHANGED <<hubVars, editor>>
  BY DEF Finish
<1> DEFINE T == S \union {made}
<1>7. history \in Seq(T) /\ made \in T /\ DOMAIN history = 1..m
  BY <1>3, <1>4
<1> HIDE DEF T
<1> DEFINE Written == /\ history' \in Seq(T) /\ Len(history') = n /\ DOMAIN history' = 1..n
                      /\ history'[n] = made /\ \A k \in 1..(n - 1) : history'[k] = history[k]
<1>8. ASSUME n = m + 1 PROVE Written
  <2>1. history' = Append(history, made)
    BY <1>1, <1>2, <1>4, <1>5, <1>8
  <2>2. QED
    BY <1>4, <1>7, <1>8, <2>1
<1>9. ASSUME n = m PROVE Written
  <2>1. history' = [history EXCEPT ![n] = made]
    BY <1>1, <1>2, <1>4, <1>5, <1>9
  <2>2. QED
    BY <1>4, <1>7, <1>9, <2>1
<1>11. Written
  BY <1>5, <1>8, <1>9
<1>12. QED
  <2>1. \E late2 : history'[n] = Finished(n, job.measured, job.trigger, late2)
    BY <1>2, <1>5, <1>11
  <2>2. /\ n \in 1..(m + 1) /\ m <= n
        /\ \A k \in 1..(n - 1) : k \in DOMAIN history /\ history'[k] = history[k]
    BY <1>4, <1>7, <1>11
  <2>3. QED
    BY <1>4, <1>5, <1>6, <1>7, <1>11, <2>1, <2>2

-----------------------------------------------------------------------------
(* What a step leaves alone.                                               *)

\* Whether a problem is new in a scan depends on the findings up to it and on which scans before completed.
LEMMA ProblemsStay ==
  ASSUME NEW m \in Nat, \A k \in 1..m : Alike(history[k].items, history'[k].items),
         \A k \in 1..(m - 1) : history'[k].failed = history[k].failed, m # 0
  PROVE  /\ Completed(m)' = Completed(m)
         /\ \A c : NewProblem(m, c)' <=> NewProblem(m, c)
<1>1. Completed(m)' = Completed(m)
  BY DEF Completed
<1>2. m \in 1..m /\ \A k \in Completed(m) : k \in 1..m
  BY DEF Completed
<1>3. \A k \in 1..m : \A c : /\ c \in DOMAIN history'[k].items <=> c \in DOMAIN history[k].items
                             /\ c \in DOMAIN history[k].items =>
                                   history'[k].items[c].severity = history[k].items[c].severity
  BY DEF Alike
<1>4. QED
  BY <1>1, <1>2, <1>3 DEF NewProblem

\* A problem nobody told of by hand is a new one.
LEMMA FirstIsNew ==
  ASSUME NEW n, NEW c
  PROVE  IsFirstProblem(n, c) <=> history[n].trigger # "manual" /\ NewProblem(n, c)
BY DEF IsFirstProblem, NewProblem

LEMMA FirstIsNewAfter ==
  ASSUME NEW n, NEW c
  PROVE  IsFirstProblem(n, c)' <=> history'[n].trigger # "manual" /\ NewProblem(n, c)'
BY DEF IsFirstProblem, NewProblem

\* Rows and deliveries stay.
LEMMA HubGrows ==
  ASSUME HubAny \/ UNCHANGED hubVars
  PROVE  rows \subseteq rows' /\ outbox \subseteq outbox' /\ wanted' = wanted
<1>1. CASE UNCHANGED hubVars
  BY <1>1 DEF hubVars
<1>2. CASE HubAny
  <2>1. PICK p \in Callers : (\E event : Notify(p, event)) \/ HubStep(p) \/ CallFails(p) \/ Dies(p)
    BY <1>2 DEF HubAny
  <2>2. QED
    BY <2>1 DEF Notify, HubStep, ReadRecipients, InsertRow, SendMail, ReadWebhooks, QueueDelivery, EndCall,
                CallFails, Dies
<1>3. QED
  BY <1>1, <1>2

(***************************************************************************)
(* A step that records no scan and lets the job go keeps what was told,    *)
(* once the scan the job lets go was told of or failed.                    *)
(***************************************************************************)
LEMMA AlertStays ==
  ASSUME FindingsInv, rows \subseteq rows' /\ outbox \subseteq outbox' /\ wanted' = wanted,
         Len(history') = Len(history),
         \A k \in DOMAIN history : /\ Alike(history[k].items, history'[k].items)
                                   /\ history'[k].trigger = history[k].trigger
                                   /\ k = job.scan \/ history'[k].failed = history[k].failed
                                   /\ history[k].failed => history'[k].failed,
         \/ job'.scan = job.scan
         \/ job.scan = 0
         \/ history'[job.scan].failed
         \/ \A c : ~IsFirstProblem(job.scan, c)
         \/ Reached(<<"scan_diff", job.scan>>)
  PROVE  AlertReachesTeam'
<1>1. Len(history) \in Nat /\ DOMAIN history = 1..Len(history)
  BY DEF FindingsInv, HistoryTypes
<1>2. SUFFICES ASSUME NEW n \in Completed(Len(history) + 1)', job'.scan # n, NEW c, IsFirstProblem(n, c)'
               PROVE  /\ \A u \in wanted : <<<<"scan_diff", n>>, u>> \in rows'
                      /\ \A w \in Hooks : <<<<"scan_diff", n>>, w>> \in outbox'
  BY DEF AlertReachesTeam
<1>3. n \in 1..Len(history) /\ ~history'[n].failed /\ n # 0 /\ n \in Nat
  BY <1>1 DEF Completed
<1>4. ~history[n].failed /\ n \in Completed(Len(history) + 1)
  BY <1>1, <1>3 DEF Completed
<1>5. job.scan = 0 \/ job.scan = Len(history) \/ job.scan = Len(history) + 1
  BY DEF FindingsInv, JobInv
<1>6. \A k \in 1..(n - 1) : history'[k].failed = history[k].failed
  <2>1. \A k \in 1..(n - 1) : k \in DOMAIN history /\ k # job.scan
    BY <1>1, <1>3, <1>5
  <2>2. QED
    BY <2>1
<1>7. \A k \in 1..n : Alike(history[k].items, history'[k].items)
  BY <1>1, <1>3
<1>8. NewProblem(n, c)' <=> NewProblem(n, c)
  BY <1>3, <1>6, <1>7, ProblemsStay
<1>9. IsFirstProblem(n, c)
  BY <1>1, <1>2, <1>3, <1>8, FirstIsNew, FirstIsNewAfter
<1>10. Reached(<<"scan_diff", n>>)
  <2>1. CASE job.scan = n
    BY <1>2, <1>3, <1>9, <2>1
  <2>2. CASE job.scan # n
    <3>1. c \in DOMAIN history[n].items
      BY <1>9 DEF IsFirstProblem
    <3>2. AlertReachesTeam
      BY DEF FindingsInv
    <3>3. QED
      BY <1>4, <1>9, <2>2, <3>1, <3>2 DEF AlertReachesTeam, Reached
  <2>3. QED
    BY <2>1, <2>2
<1>11. QED
  BY <1>10 DEF Reached

\* The call of the job is at one of its statements.
LEMMA CallMoves ==
  ASSUME FindingsInv, HubWorks
  PROVE  CallInv'
<1> DEFINE A == "aggregator"
           a == call[A]
<1>1. A \in Callers /\ HubStep(A) /\ UNCHANGED findingVars
  BY FindingsAssumption DEF HubWorks
<1>2. HubAny
  BY <1>1 DEF HubAny
<1>3. rows \subseteq rows' /\ outbox \subseteq outbox' /\ wanted' = wanted /\ job' = job
  BY <1>1, <1>2, HubGrows DEF findingVars
<1>4. call = [p \in Callers |-> call[p]] /\ DOMAIN call = Callers
  BY DEF FindingsInv, HubTypes
<1> HIDE DEF A
<1>5. /\ a.pc \in {"insert", "mail"} => \A u \in wanted : u \in a.todo \/ <<a.event, u>> \in rows
      /\ a.pc = "queue" => /\ \A u \in wanted : <<a.event, u>> \in rows
                           /\ \A w \in Hooks : w \in a.todo \/ <<a.event, w>> \in outbox
      /\ job.pc \in {"idle", "finish", "scan_done"} => a.pc = "idle"
      /\ job.pc = "end" => IF a.pc = "idle" THEN Reached(<<"scan_diff", job.scan>>)
                                            ELSE a.event = <<"scan_diff", job.scan>>
  BY DEF FindingsInv, CallInv, A
<1>6. SUFFICES LET b == call'[A]
               IN  /\ b.pc \in {"idle", "members", "insert", "mail", "queue"}
                   /\ b.pc \in {"insert", "mail"} => \A u \in wanted : u \in b.todo \/ <<b.event, u>> \in rows'
                   /\ b.pc = "queue" => /\ \A u \in wanted : <<b.event, u>> \in rows'
                                        /\ \A w \in Hooks : w \in b.todo \/ <<b.event, w>> \in outbox'
                   /\ job.pc \notin {"idle", "finish", "scan_done"}
                   /\ b.pc # "idle" => b.event = a.event /\ a.pc # "idle"
                   /\ b.pc = "idle" /\ job.pc = "end" =>
                         /\ \A u \in wanted : <<<<"scan_diff", job.scan>>, u>> \in rows'
                         /\ \A w \in Hooks : <<<<"scan_diff", job.scan>>, w>> \in outbox'
  BY <1>3, <1>5 DEF CallInv, Reached, A
<1>7. job.pc \notin {"idle", "finish", "scan_done"} /\ a.pc # "idle"
  BY <1>1, <1>5 DEF HubStep, ReadRecipients, InsertRow, SendMail, ReadWebhooks, QueueDelivery, EndCall
<1>8. CASE ReadRecipients(A)
  <2>1. call'[A] = Call("insert", a.event, wanted, NoUser)
    BY <1>1, <1>4, <1>8 DEF ReadRecipients
  <2>2. QED
    BY <1>7, <2>1 DEF Call
<1>9. CASE \E u \in Users : InsertRow(A, u)
  <2>1. PICK v \in Users : InsertRow(A, v)
    BY <1>9
  <2>2. PICK pc \in {"mail", "insert"} : call'[A] = Call(pc, a.event, a.todo \ {v}, v)
    BY <1>1, <1>4, <2>1 DEF InsertRow
  <2>3. a.pc = "insert" /\ rows' = rows \union {<<a.event, v>>}
    BY <2>1 DEF InsertRow
  <2>4. \A u \in wanted : u \in a.todo \ {v} \/ <<a.event, u>> \in rows'
    BY <1>5, <2>3
  <2>5. call'[A].pc = pc /\ call'[A].event = a.event /\ call'[A].todo = a.todo \ {v}
    BY <2>2 DEF Call
  <2>6. QED
    BY <1>7, <2>4, <2>5
<1>10. CASE SendMail(A)
  <2>1. call'[A] = Call("insert", a.event, a.todo, NoUser)
    BY <1>1, <1>4, <1>10 DEF SendMail
  <2>2. a.pc = "mail"
    BY <1>10 DEF SendMail
  <2>3. QED
    BY <1>3, <1>5, <1>7, <2>1, <2>2 DEF Call
<1>11. CASE ReadWebhooks(A)
  <2>1. call'[A] = Call("queue", a.event, Hooks, NoUser)
    BY <1>1, <1>4, <1>11 DEF ReadWebhooks
  <2>2. a.pc = "insert" /\ a.todo = {}
    BY <1>11 DEF ReadWebhooks
  <2>3. QED
    BY <1>3, <1>5, <1>7, <2>1, <2>2 DEF Call
<1>12. CASE \E w \in Hooks : QueueDelivery(A, w)
  <2>1. PICK w \in Hooks : QueueDelivery(A, w)
    BY <1>12
  <2>2. call'[A] = Call("queue", a.event, a.todo \ {w}, NoUser)
    BY <1>1, <1>4, <2>1 DEF QueueDelivery
  <2>3. a.pc = "queue" /\ outbox' = outbox \union {<<a.event, w>>}
    BY <2>1 DEF QueueDelivery
  <2>4. \A x \in Hooks : x \in a.todo \ {w} \/ <<a.event, x>> \in outbox'
    BY <1>5, <2>3
  <2>5. call'[A].pc = "queue" /\ call'[A].event = a.event /\ call'[A].todo = a.todo \ {w}
    BY <2>2 DEF Call
  <2>6. QED
    BY <1>3, <1>5, <1>7, <2>3, <2>4, <2>5
<1>13. CASE EndCall(A)
  <2>1. call'[A] = NoCall
    BY <1>1, <1>4, <1>13 DEF EndCall
  <2>2. a.pc = "queue" /\ a.todo = {}
    BY <1>13 DEF EndCall
  <2>3. call'[A].pc = "idle"
    BY <2>1 DEF NoCall, Call
  <2>4. QED
    BY <1>3, <1>5, <1>7, <2>2, <2>3
<1>14. QED
  BY <1>1, <1>8, <1>9, <1>10, <1>11, <1>12, <1>13 DEF HubStep

-----------------------------------------------------------------------------
(* The steps of the job and of the editors.                                *)

Grows == rows \subseteq rows' /\ outbox \subseteq outbox' /\ wanted' = wanted
Rest  == HistoryTypes /\ JobInv /\ EditInv /\ DiffInv /\ AlertReachesTeam

LEMMA SameHistory ==
  ASSUME FindingsInv, UNCHANGED history
  PROVE  /\ HistoryTypes' /\ DiffInv'
         /\ UNCHANGED editor => EditInv'
         /\ \A k \in DOMAIN history : /\ Alike(history[k].items, history'[k].items)
                                      /\ history'[k].trigger = history[k].trigger
                                      /\ history'[k].failed = history[k].failed
                                      /\ history[k].failed => history'[k].failed
BY DEF FindingsInv, HistoryTypes, DiffInv, NewProblem, Completed, EditInv, Alike

\* The job goes on about its scan, or from the start when its worker died.
LEMMA JobMoves ==
  ASSUME FindingsInv, NEW q \in {"finish", "scan_done", "critical", "diff", "end"},
         job.pc \notin {"idle", "finish"}, job' = [job EXCEPT !.pc = q], UNCHANGED <<history, editor>>, Grows
  PROVE  Rest'
<1>1. job'.pc = q /\ job'.scan = job.scan /\ job'.measured = job.measured /\ job'.trigger = job.trigger
      /\ job' = [pc |-> job'.pc, scan |-> job'.scan, measured |-> job'.measured, trigger |-> job'.trigger]
  BY DEF FindingsInv, JobInv
<1>2. JobInv'
  BY <1>1 DEF FindingsInv, JobInv
<1>3. AlertReachesTeam'
  BY <1>1, SameHistory, AlertStays DEF Grows
<1>4. QED
  BY <1>2, <1>3, SameHistory DEF Rest

\* The job is over: nothing to tell, or everybody is told.
LEMMA JobEnds ==
  ASSUME FindingsInv, job' = NoJob, UNCHANGED <<history, editor>>, Grows,
         job.scan = 0 \/ (\A c : ~IsFirstProblem(job.scan, c)) \/ Reached(<<"scan_diff", job.scan>>)
  PROVE  Rest'
<1>1. JobInv'
  BY DEF NoJob, JobInv
<1>2. AlertReachesTeam'
  BY SameHistory, AlertStays DEF Grows
<1>3. QED
  BY <1>1, <1>2, SameHistory DEF Rest

\* The next scan is still to be recorded.
LEMMA StartKeeps ==
  ASSUME FindingsInv, StartJob
  PROVE  Rest' /\ CallInv'
<1>1. PICK r \in Results, t \in Triggers :
         job' = [pc |-> "finish", scan |-> Len(history) + 1, measured |-> r, trigger |-> t]
  BY DEF StartJob
<1>2. job.pc = "idle" /\ UNCHANGED <<hubVars, history, editor>>
  BY DEF StartJob
<1>3. \A c \in DOMAIN r : r[c] \in Statuses
  BY FindingsAssumption
<1>4. Len(history) \in Nat
  BY DEF FindingsInv, HistoryTypes
<1>5. JobInv'
  BY <1>1, <1>2, <1>3, <1>4 DEF JobInv
<1>6. Grows /\ job.scan = 0
  BY <1>2 DEF Grows, hubVars, FindingsInv, JobInv
<1>7. AlertReachesTeam'
  BY <1>2, <1>6, SameHistory, AlertStays DEF Grows
<1>8. CallInv'
  BY <1>1, <1>2 DEF FindingsInv, CallInv, hubVars
<1>9. QED
  BY <1>2, <1>5, <1>7, <1>8, SameHistory DEF Rest

\* The record of the scan holds what is new in it, and edits under way are still about its findings.
LEMMA FinishKeeps ==
  ASSUME FindingsInv, Finish
  PROVE  Rest' /\ CallInv'
<1>1. PICK n : n = job.scan
  OBVIOUS
<1>2. /\ job.pc = "finish" /\ job' = [job EXCEPT !.pc = "scan_done"] /\ UNCHANGED <<hubVars, editor>>
      /\ n \in 1..(Len(history) + 1) /\ Len(history) \in Nat /\ DOMAIN history = 1..Len(history)
      /\ \E S : history' \in Seq(S)
      /\ Len(history') = n /\ DOMAIN history' = 1..n /\ Len(history) <= n
      /\ \A k \in 1..(n - 1) : k \in DOMAIN history /\ history'[k] = history[k]
      /\ \E late : history'[n] = Finished(n, job.measured, job.trigger, late)
  BY <1>1, FinishIs DEF FindingsInv
<1>3. n \in Nat \ {0} /\ \A k \in 1..n : k = n \/ k \in 1..(n - 1)
  BY <1>2
<1>4. \A c \in DOMAIN job.measured : job.measured[c] \in Statuses
  BY <1>2 DEF FindingsInv, JobInv
<1>5. PICK made : made = history'[n]
  OBVIOUS
<1>6. PICK late : made = Finished(n, job.measured, job.trigger, late)
  BY <1>2, <1>5
<1>7. PICK measured, trigger : measured = job.measured /\ trigger = job.trigger
  OBVIOUS
<1>8. /\ made = [items |-> made.items, score |-> made.score, diff |-> made.diff,
                 trigger |-> made.trigger, failed |-> made.failed]
      /\ IsItems(made.items) /\ Alike(made.items, ToFindings(measured))
      /\ \A c \in DOMAIN made.items :
            /\ c \in Titled /\ c \notin ActiveIds /\ IsBad(made.items[c].severity, "medium")
            /\ \A k \in Completed(n) : c \in DOMAIN history[k].items => history[k].items[c].severity = "info"
            => c \in made.diff.new \ made.diff.muted
  <2>1. HistoryTypes
    BY DEF FindingsInv
  <2>2. n \in 1..(Len(history) + 1) /\ (\A c \in DOMAIN measured : measured[c] \in Statuses)
        /\ made = Finished(n, measured, trigger, late)
    BY <1>2, <1>4, <1>6, <1>7
  <2>3. QED
    BY <2>1, <2>2, FinishedIs
<1>9. HistoryTypes'
  <2>1. ASSUME NEW k \in DOMAIN history'
        PROVE  /\ history'[k] = [items |-> history'[k].items, score |-> history'[k].score,
                                 diff |-> history'[k].diff, trigger |-> history'[k].trigger,
                                 failed |-> history'[k].failed]
               /\ IsItems(history'[k].items)
    BY <1>2, <1>3, <1>5, <1>8, <2>1 DEF FindingsInv, HistoryTypes
  <2>2. QED
    BY <1>2, <2>1 DEF HistoryTypes
<1>10. job'.pc = "scan_done" /\ job'.scan = n /\ job'.measured = measured
       /\ job' = [pc |-> job'.pc, scan |-> job'.scan, measured |-> job'.measured, trigger |-> job'.trigger]
  BY <1>1, <1>2, <1>7 DEF FindingsInv, JobInv
<1>11. Alike(ToFindings(measured), made.items)
  BY <1>8 DEF Alike
<1>12. JobInv'
  BY <1>2, <1>3, <1>4, <1>5, <1>7, <1>10, <1>11 DEF JobInv
<1>13. \A k \in DOMAIN history : Alike(history[k].items, history'[k].items) /\ k \in DOMAIN history'
  <2>1. ASSUME NEW k \in DOMAIN history PROVE Alike(history[k].items, history'[k].items) /\ k \in DOMAIN history'
    <3>1. k \in 1..n
      BY <1>2
    <3>2. CASE k = n
      <4>1. Alike(ToFindings(measured), history[k].items)
        BY <1>1, <1>2, <1>7, <3>2 DEF FindingsInv, JobInv
      <4>2. QED
        BY <1>5, <1>11, <3>1, <3>2, <4>1, <1>2 DEF Alike
    <3>3. CASE k # n
      BY <1>2, <1>3, <3>1, <3>3 DEF Alike
    <3>4. QED
      BY <3>2, <3>3
  <2>2. QED
    BY <2>1
<1>14. EditInv'
  <2>1. editor' = editor /\ editor = [e \in Editors |-> editor[e]]
    BY <1>2 DEF FindingsInv, EditInv
  <2>2. ASSUME NEW e \in Editors, editor[e].pc = "write"
        PROVE  /\ editor[e].scan \in DOMAIN history' /\ editor[e].id \in DOMAIN editor[e].items
               /\ IsItems(editor[e].items) /\ Alike(editor[e].items, history'[editor[e].scan].items)
    <3>1. /\ editor[e].scan \in DOMAIN history /\ editor[e].id \in DOMAIN editor[e].items
          /\ IsItems(editor[e].items) /\ Alike(editor[e].items, history[editor[e].scan].items)
      BY <2>2 DEF FindingsInv, EditInv
    <3>2. Alike(history[editor[e].scan].items, history'[editor[e].scan].items)
          /\ editor[e].scan \in DOMAIN history'
      BY <1>13, <3>1
    <3>3. QED
      BY <3>1, <3>2, Likes
  <2>3. QED
    BY <2>1, <2>2 DEF EditInv
<1>15. Completed(n)' = Completed(n) /\ \A k \in Completed(n) : history'[k] = history[k]
  BY <1>2 DEF Completed
<1>16. \A m \in 1..(n - 1) : /\ \A c : NewProblem(m, c)' <=> NewProblem(m, c)
                             /\ history'[m] = history[m] /\ m \in DOMAIN history
  <2>1. ASSUME NEW m \in 1..(n - 1) PROVE \A c : NewProblem(m, c)' <=> NewProblem(m, c)
    <3>1. /\ m \in Nat /\ m # 0
          /\ \A k \in 1..m : Alike(history[k].items, history'[k].items)
          /\ \A k \in 1..(m - 1) : history'[k].failed = history[k].failed
      BY <1>2, <1>3, <2>1 DEF Alike
    <3>2. QED
      BY <3>1, ProblemsStay
  <2>2. QED
    BY <1>2, <2>1
<1>17. DiffInv'
  <2>1. ASSUME NEW c, NewProblem(n, c)' PROVE c \in made.diff.new \ made.diff.muted
    BY <1>5, <1>8, <1>15, <2>1 DEF NewProblem
  <2>2. ASSUME NEW m \in 1..(n - 1), NEW c, NewProblem(m, c)'
        PROVE  c \in history'[m].diff.new \ history'[m].diff.muted
    BY <1>16, <2>2 DEF FindingsInv, DiffInv
  <2>3. QED
    BY <1>2, <1>3, <1>5, <2>1, <2>2 DEF DiffInv
<1>18. AlertReachesTeam'
  <2>1. SUFFICES ASSUME NEW m \in Completed(Len(history) + 1)', job'.scan # m, NEW c, IsFirstProblem(m, c)'
                 PROVE  /\ \A u \in wanted : <<<<"scan_diff", m>>, u>> \in rows
                        /\ \A w \in Hooks : <<<<"scan_diff", m>>, w>> \in outbox
    BY <1>2 DEF AlertReachesTeam, hubVars
  <2>2. m \in 1..n /\ m # n /\ ~history'[m].failed
    BY <1>2, <1>3, <1>10, <2>1 DEF Completed
  <2>3. m \in 1..(n - 1) /\ ~history[m].failed
    BY <1>3, <1>16, <2>2
  <2>4. m \in Completed(Len(history) + 1)
    BY <1>2, <2>3 DEF Completed
  <2>5. IsFirstProblem(m, c)
    BY <1>16, <2>1, <2>3, FirstIsNew, FirstIsNewAfter
  <2>6. c \in DOMAIN history[m].items /\ job.scan # m
    BY <1>1, <2>2, <2>5 DEF IsFirstProblem
  <2>7. QED
    BY <2>4, <2>5, <2>6 DEF FindingsInv, AlertReachesTeam
<1>19. CallInv'
  BY <1>2, <1>10 DEF FindingsInv, CallInv, hubVars
<1>20. QED
  BY <1>9, <1>12, <1>14, <1>17, <1>18, <1>19 DEF Rest

\* The job calls the hub, and waits for it to be done with the call before.
LEMMA CallStarts ==
  ASSUME FindingsInv, NEW event, Notify("aggregator", event)
  PROVE  /\ Grows
         /\ call'["aggregator"].pc = "members" /\ call'["aggregator"].event = event
<1>1. "aggregator" \in DOMAIN call
  BY FindingsAssumption DEF FindingsInv, HubTypes
<1>2. call' = [call EXCEPT !["aggregator"] = Calls(event)]
  BY DEF Notify
<1>3. Grows
  BY DEF Notify, Grows
<1>4. QED
  BY <1>1, <1>2, <1>3 DEF Calls, Call

LEMMA TellsKeep ==
  ASSUME FindingsInv, TellDone \/ TellCritical \/ (TellDiff /\ AlertDue(job.scan))
  PROVE  Rest' /\ CallInv'
<1>1. PICK q, event :
         /\ q \in {"critical", "diff", "end"} /\ job' = [job EXCEPT !.pc = q] /\ UNCHANGED <<history, editor>>
         /\ Notify("aggregator", event) /\ job.pc \in {"scan_done", "critical", "diff"}
         /\ q = "end" => event = <<"scan_diff", job.scan>>
  BY DEF TellDone, TellCritical, TellDiff
<1>2. /\ Grows
      /\ call'["aggregator"].pc = "members" /\ call'["aggregator"].event = event
  BY <1>1, CallStarts
<1>3. Rest'
  BY <1>1, <1>2, JobMoves
<1>4. job'.pc = q /\ job'.scan = job.scan
  BY <1>1 DEF FindingsInv, JobInv
<1>5. CallInv'
  BY <1>1, <1>2, <1>4 DEF CallInv
<1>6. QED
  BY <1>3, <1>5

\* Without an alert there is no new problem; after one everybody is told.
LEMMA EndsKeep ==
  ASSUME FindingsInv, EndJob \/ (TellDiff /\ ~AlertDue(job.scan))
  PROVE  Rest' /\ CallInv'
<1>1. job' = NoJob /\ UNCHANGED <<hubVars, history, editor>> /\ call["aggregator"].pc = "idle"
  BY DEF EndJob, TellDiff
<1>2. Grows
  BY <1>1 DEF Grows, hubVars
<1>3. (\A c : ~IsFirstProblem(job.scan, c)) \/ Reached(<<"scan_diff", job.scan>>)
  <2>1. CASE EndJob
    <3>1. job.pc = "end"
      BY <2>1 DEF EndJob
    <3>2. QED
      BY <1>1, <3>1 DEF FindingsInv, CallInv
  <2>2. CASE TellDiff /\ ~AlertDue(job.scan)
    <3>1. PICK n : n = job.scan
      OBVIOUS
    <3>2. n \in DOMAIN history
      BY <2>2, <3>1 DEF TellDiff, FindingsInv, JobInv, HistoryTypes
    <3>3. ASSUME NEW c, IsFirstProblem(n, c) PROVE FALSE
      <4>1. NewProblem(n, c) /\ history[n].trigger # "manual"
        BY <3>3, FirstIsNew
      <4>2. c \in history[n].diff.new \ history[n].diff.muted
        BY <3>2, <4>1 DEF FindingsInv, DiffInv
      <4>3. IsBad(history[n].items[c].severity, "medium")
        BY <4>1 DEF NewProblem
      <4>4. AlertDue(n)
        BY <4>1, <4>2, <4>3 DEF AlertDue
      <4>5. QED
        BY <2>2, <3>1, <4>4
    <3>4. QED
      BY <3>1, <3>3
  <2>3. QED
    BY <2>1, <2>2
<1>4. Rest'
  BY <1>1, <1>2, <1>3, JobEnds
<1>5. job'.pc = "idle" /\ call' = call
  BY <1>1 DEF NoJob, hubVars
<1>6. CallInv'
  BY <1>1, <1>5 DEF FindingsInv, CallInv
<1>7. QED
  BY <1>4, <1>6

\* A worker that dies leaves the job to the next, without a call.
LEMMA DeathKeeps ==
  ASSUME FindingsInv, WorkerDies
  PROVE  Rest' /\ CallInv'
<1>1. /\ job.pc \notin {"idle", "finish"} /\ job' = [job EXCEPT !.pc = "finish"]
      /\ UNCHANGED <<history, editor>>
      /\ call' = [call EXCEPT !["aggregator"] = NoCall] /\ Grows
  BY DEF WorkerDies, Dies, Grows
<1>2. Rest'
  BY <1>1, JobMoves
<1>3. call'["aggregator"].pc = "idle" /\ job'.pc = "finish"
  BY <1>1, FindingsAssumption DEF FindingsInv, HubTypes, JobInv, NoCall, Call
<1>4. CallInv'
  BY <1>3 DEF CallInv
<1>5. QED
  BY <1>2, <1>4

\* A call that fails is logged, or is the end of the scan.
LEMMA FailKeeps ==
  ASSUME FindingsInv, HubFails
  PROVE  Rest' /\ CallInv'
<1>1. /\ call' = [call EXCEPT !["aggregator"] = NoCall] /\ Grows
      /\ call["aggregator"].pc # "idle" /\ UNCHANGED editor
  BY DEF HubFails, CallFails, Grows
<1>2. call'["aggregator"].pc = "idle"
  BY <1>1, FindingsAssumption DEF FindingsInv, HubTypes, NoCall, Call
<1>3. job.pc \in {"critical", "diff", "end"}
  BY <1>1 DEF FindingsInv, CallInv, JobInv
<1>4. CASE job.pc # "end"
  <2>1. job' = [job EXCEPT !.pc = "diff"] /\ UNCHANGED history
    BY <1>4 DEF HubFails, Fails
  <2>2. Rest'
    BY <1>1, <1>3, <2>1, JobMoves
  <2>3. job'.pc = "diff"
    BY <2>1 DEF FindingsInv, JobInv
  <2>4. CallInv'
    BY <1>2, <2>3 DEF CallInv
  <2>5. QED
    BY <2>2, <2>4
<1>5. CASE job.pc = "end"
  <2>1. PICK n : n = job.scan
    OBVIOUS
  <2>2. /\ history' = [history EXCEPT ![n] = [history[n] EXCEPT !.failed = TRUE]]
        /\ job' = NoJob
    BY <1>5, <2>1 DEF HubFails, Fails
  <2>3. n = Len(history) /\ n \in DOMAIN history /\ n \in Nat /\ DOMAIN history = 1..n /\ n # 0
    BY <1>5, <2>1 DEF FindingsInv, JobInv, HistoryTypes
  <2>4. PICK made : made = history[n]
    OBVIOUS
  <2>5. PICK items, score, diff, trigger, failed :
           made = [items |-> items, score |-> score, diff |-> diff, trigger |-> trigger, failed |-> failed]
    BY <2>3, <2>4 DEF FindingsInv, HistoryTypes
  <2>6. PICK new : new = [made EXCEPT !.failed = TRUE]
    OBVIOUS
  <2>7. /\ new = [items |-> new.items, score |-> new.score, diff |-> new.diff, trigger |-> new.trigger,
                  failed |-> new.failed]
        /\ new.items = made.items /\ new.diff = made.diff /\ new.trigger = made.trigger /\ new.failed
    <3>1. PICK yes : yes = TRUE
      OBVIOUS
    <3>2. new = [made EXCEPT !.failed = yes]
      BY <2>6, <3>1, Zenon
    <3>3. new = [items |-> items, score |-> score, diff |-> diff, trigger |-> trigger, failed |-> yes]
      BY <2>5, <3>2
    <3>4. new.failed = yes
      BY <3>3
    <3>5. new.failed
      BY <3>1, <3>4, Zenon
    <3>6. QED
      BY <2>5, <3>3, <3>5
  <2>8. /\ \E S : history' \in Seq(S)
        /\ Len(history') = n /\ DOMAIN history' = 1..n /\ history'[n] = new
        /\ \A k \in 1..(n - 1) : history'[k] = history[k] /\ k \in DOMAIN history
    <3>1. PICK S : history \in Seq(S)
      BY DEF FindingsInv, HistoryTypes
    <3>2. PICK T : T = S \union {new}
      OBVIOUS
    <3>3. history \in Seq(T) /\ new \in T
      BY <3>1, <3>2
    <3>4. history' = [history EXCEPT ![n] = new]
      BY <2>2, <2>4, <2>6
    <3>5. history' \in Seq(T) /\ Len(history') = n /\ DOMAIN history' = 1..n /\ history'[n] = new
          /\ \A k \in 1..(n - 1) : history'[k] = history[k] /\ k \in DOMAIN history
      BY <2>3, <3>3, <3>4
    <3>6. QED
      BY <3>5
  <2>9. \A k \in 1..n : k = n \/ k \in 1..(n - 1)
    BY <2>3
  <2>10. \A k \in 1..n : /\ history'[k].items = history[k].items /\ history'[k].diff = history[k].diff
                         /\ Alike(history[k].items, history'[k].items)
                         /\ history'[k].trigger = history[k].trigger
                         /\ k = n \/ history'[k].failed = history[k].failed
                         /\ history[k].failed => history'[k].failed
    BY <2>4, <2>7, <2>8, <2>9 DEF Alike
  <2>11. HistoryTypes'
    <3>1. ASSUME NEW k \in 1..n
          PROVE  /\ history'[k] = [items |-> history'[k].items, score |-> history'[k].score,
                                   diff |-> history'[k].diff, trigger |-> history'[k].trigger,
                                   failed |-> history'[k].failed]
                 /\ IsItems(history'[k].items)
      BY <2>3, <2>4, <2>7, <2>8, <2>9, <3>1 DEF FindingsInv, HistoryTypes
    <3>2. QED
      BY <2>8, <3>1 DEF HistoryTypes
  <2>12. JobInv' /\ EditInv'
    BY <1>1, <2>2, <2>3, <2>8, <2>10 DEF FindingsInv, NoJob, JobInv, EditInv
  <2>13. DiffInv'
    <3>1. ASSUME NEW m \in 1..n, NEW c, NewProblem(m, c)' PROVE NewProblem(m, c)
      <4>1. /\ m \in Nat /\ m # 0
            /\ \A k \in 1..m : Alike(history[k].items, history'[k].items)
            /\ \A k \in 1..(m - 1) : history'[k].failed = history[k].failed
        BY <2>3, <2>10, <3>1
      <4>2. QED
        BY <3>1, <4>1, ProblemsStay
    <3>2. QED
      BY <2>3, <2>8, <2>10, <3>1 DEF FindingsInv, DiffInv
  <2>14. AlertReachesTeam'
    <3>1. history'[job.scan].failed
      BY <2>1, <2>7, <2>8
    <3>2. QED
      BY <1>1, <2>1, <2>3, <2>8, <2>10, <3>1, AlertStays DEF Grows
  <2>15. CallInv'
    BY <1>2, <2>2 DEF NoJob, CallInv
  <2>16. QED
    BY <2>11, <2>12, <2>13, <2>14, <2>15 DEF Rest
<1>6. QED
  BY <1>4, <1>5

\* An edit starts from the findings of a completed scan.
LEMMA ReadKeeps ==
  ASSUME FindingsInv, NEW e \in Editors, ReadFindings(e)
  PROVE  Rest' /\ CallInv'
<1>1. PICK n \in Completed(Len(history) + 1), p \in Patches : \E c \in DOMAIN history[n].items :
         editor' = [editor EXCEPT ![e] = [pc |-> "write", scan |-> n, items |-> history[n].items,
                                          id |-> c, patch |-> p]]
  BY DEF ReadFindings
<1>2. PICK c \in DOMAIN history[n].items :
         editor' = [editor EXCEPT ![e] = [pc |-> "write", scan |-> n, items |-> history[n].items,
                                          id |-> c, patch |-> p]]
  BY <1>1
<1>3. UNCHANGED <<hubVars, history, job>>
  BY DEF ReadFindings
<1>4. n \in DOMAIN history /\ IsItems(history[n].items)
  BY DEF FindingsInv, HistoryTypes, Completed
<1>5. EditInv'
  BY <1>2, <1>3, <1>4 DEF FindingsInv, EditInv, Alike
<1>6. Grows
  BY <1>3 DEF Grows, hubVars
<1>7. AlertReachesTeam'
  BY <1>3, <1>6, SameHistory, AlertStays DEF Grows
<1>8. JobInv' /\ CallInv'
  BY <1>3 DEF FindingsInv, JobInv, CallInv, hubVars, Reached
<1>9. QED
  BY <1>3, <1>5, <1>7, <1>8, SameHistory DEF Rest

\* What it writes back are those findings, marked.
LEMMA WriteKeeps ==
  ASSUME FindingsInv, NEW e \in Editors, WriteFindings(e)
  PROVE  Rest' /\ CallInv'
<1>1. PICK n, items, id : n = editor[e].scan /\ items = editor[e].items /\ id = editor[e].id
  OBVIOUS
<1>2. /\ n \in DOMAIN history /\ id \in DOMAIN items
      /\ IsItems(items) /\ Alike(items, history[n].items)
  BY <1>1 DEF WriteFindings, FindingsInv, EditInv
<1>3. PICK old, x, y : /\ old = items[id]
                       /\ x = IF editor[e].patch.status = Keep THEN old.status ELSE editor[e].patch.status
                       /\ y = IF editor[e].patch.snooze = Keep THEN old.snooze ELSE editor[e].patch.snooze
  OBVIOUS
<1>4. PICK new : new = [old EXCEPT !.status = x, !.snooze = y]
  OBVIOUS
<1>5. IsItem(id, old)
  BY <1>2, <1>3 DEF IsItems
<1>6. IsItem(id, new) /\ new.title = old.title /\ new.severity = old.severity
  <2>1. new = [title |-> old.title, severity |-> old.severity, status |-> x, snooze |-> y,
               regressed |-> old.regressed]
    BY <1>4, <1>5, ItemExcept
  <2>2. QED
    BY <1>5, <2>1, ItemStays
<1>7. PICK written : written = [items EXCEPT ![id] = new]
  OBVIOUS
<1>8. IsItems(written) /\ Alike(written, items)
  BY <1>2, <1>3, <1>6, <1>7 DEF IsItems, Alike
<1>9. Alike(written, history[n].items) /\ Alike(history[n].items, written)
  BY <1>2, <1>8 DEF Alike
<1>10. /\ history' = [history EXCEPT ![n] = [history[n] EXCEPT !.items = written]]
       /\ editor' = [editor EXCEPT ![e] = NoEdit] /\ UNCHANGED <<hubVars, job>>
  BY <1>1, <1>3, <1>4, <1>7 DEF WriteFindings
<1>11. PICK made, later : made = history[n] /\ later = [made EXCEPT !.items = written]
  OBVIOUS
<1>12. PICK oldItems, score, diff, trigger, failed :
          made = [items |-> oldItems, score |-> score, diff |-> diff, trigger |-> trigger, failed |-> failed]
  BY <1>2, <1>11 DEF FindingsInv, HistoryTypes
<1>13. /\ later = [items |-> later.items, score |-> later.score, diff |-> later.diff,
                   trigger |-> later.trigger, failed |-> later.failed]
       /\ later.items = written /\ later.diff = made.diff /\ later.trigger = made.trigger
       /\ later.failed = made.failed
  BY <1>11, <1>12
<1>14. PICK l \in Nat : l = Len(history) /\ DOMAIN history = 1..l
  BY DEF FindingsInv, HistoryTypes
<1>15. /\ \E S : history' \in Seq(S)
       /\ Len(history') = l /\ DOMAIN history' = 1..l /\ history'[n] = later
       /\ \A k \in 1..l : k # n => history'[k] = history[k]
  <2>1. PICK S : history \in Seq(S)
    BY DEF FindingsInv, HistoryTypes
  <2>2. PICK T : T = S \union {later}
    OBVIOUS
  <2>3. history \in Seq(T) /\ later \in T
    BY <2>1, <2>2
  <2>4. history' = [history EXCEPT ![n] = later]
    BY <1>10, <1>11
  <2>5. history' \in Seq(T) /\ Len(history') = l /\ DOMAIN history' = 1..l /\ history'[n] = later
        /\ \A k \in 1..l : k # n => history'[k] = history[k]
    BY <1>2, <1>14, <2>3, <2>4
  <2>6. QED
    BY <2>5
<1>16. \A k \in 1..l : /\ Alike(history[k].items, history'[k].items)
                       /\ history'[k].diff = history[k].diff
                       /\ history'[k].trigger = history[k].trigger
                       /\ history'[k].failed = history[k].failed
                       /\ history[k].failed => history'[k].failed
  <2>1. ASSUME NEW k \in 1..l, k = n
        PROVE  /\ Alike(history[k].items, history'[k].items)
               /\ history'[k].diff = history[k].diff /\ history'[k].trigger = history[k].trigger
               /\ history'[k].failed = history[k].failed
    BY <1>9, <1>11, <1>13, <1>15, <2>1
  <2>2. ASSUME NEW k \in 1..l, k # n
        PROVE  history'[k] = history[k] /\ Alike(history[k].items, history'[k].items)
    BY <1>15, <2>2 DEF Alike
  <2>3. QED
    BY <2>1, <2>2
<1>17. HistoryTypes'
  <2>1. ASSUME NEW k \in 1..l
        PROVE  /\ history'[k] = [items |-> history'[k].items, score |-> history'[k].score,
                                 diff |-> history'[k].diff, trigger |-> history'[k].trigger,
                                 failed |-> history'[k].failed]
               /\ IsItems(history'[k].items)
    <3>1. CASE k = n
      BY <1>8, <1>13, <1>15, <3>1
    <3>2. CASE k # n
      BY <1>14, <1>15, <3>2 DEF FindingsInv, HistoryTypes
    <3>3. QED
      BY <3>1, <3>2
  <2>2. QED
    BY <1>15, <2>1 DEF HistoryTypes
<1>18. JobInv'
  <2>1. /\ job' = job /\ Len(history') = Len(history)
        /\ job.pc # "idle" /\ job.scan = Len(history) => job.scan \in 1..l
    BY <1>10, <1>14, <1>15 DEF FindingsInv, JobInv
  <2>2. job.pc # "idle" /\ job.scan = Len(history) => Alike(ToFindings(job.measured), history'[job.scan].items)
    BY <1>16, <2>1, Likes DEF FindingsInv, JobInv
  <2>3. QED
    BY <2>1, <2>2 DEF FindingsInv, JobInv
<1>19. EditInv'
  <2>1. /\ editor' = [x2 \in Editors |-> editor'[x2]]
        /\ \A x2 \in Editors : editor'[x2].pc = "write" => editor'[x2] = editor[x2]
    BY <1>10 DEF FindingsInv, EditInv, NoEdit
  <2>2. ASSUME NEW x2 \in Editors, editor[x2].pc = "write"
        PROVE  /\ editor[x2].scan \in DOMAIN history' /\ editor[x2].id \in DOMAIN editor[x2].items
               /\ IsItems(editor[x2].items) /\ Alike(editor[x2].items, history'[editor[x2].scan].items)
    BY <1>14, <1>15, <1>16, <2>2, Likes DEF FindingsInv, EditInv
  <2>3. QED
    BY <2>1, <2>2 DEF EditInv
<1>20. DiffInv'
  <2>1. ASSUME NEW m \in 1..l, NEW c, NewProblem(m, c)' PROVE NewProblem(m, c)
    <3>1. /\ m \in Nat /\ m # 0
          /\ \A k \in 1..m : Alike(history[k].items, history'[k].items)
          /\ \A k \in 1..(m - 1) : history'[k].failed = history[k].failed
      BY <1>16, <2>1
    <3>2. QED
      BY <2>1, <3>1, ProblemsStay
  <2>2. QED
    BY <1>14, <1>15, <1>16, <2>1 DEF FindingsInv, DiffInv
<1>21. Grows /\ job' = job
  BY <1>10 DEF Grows, hubVars
<1>22. AlertReachesTeam'
  BY <1>14, <1>15, <1>16, <1>21, AlertStays DEF Grows
<1>23. CallInv'
  BY <1>10 DEF FindingsInv, CallInv, hubVars, Reached
<1>24. QED
  BY <1>17, <1>18, <1>19, <1>20, <1>22, <1>23 DEF Rest

-----------------------------------------------------------------------------
(* The theorems about the job.                                             *)

LEMMA FindingsStart ==
  ASSUME HubInit, FindingsInit
  PROVE  FindingsInv
<1>1. HubTypes /\ wanted \subseteq Users /\ call["aggregator"].pc = "idle"
  BY FindingsAssumption DEF HubInit, HubTypes, NoCall, Call
<1>2. history = <<>> /\ job = NoJob /\ editor = [e \in Editors |-> NoEdit]
  BY DEF FindingsInit
<1>3. HistoryTypes /\ DiffInv
  <2>1. history \in Seq({}) /\ DOMAIN history = {}
    BY <1>2
  <2>2. QED
    BY <2>1 DEF HistoryTypes, DiffInv
<1>4. JobInv /\ EditInv /\ CallInv
  BY <1>1, <1>2 DEF JobInv, EditInv, CallInv, NoJob, NoEdit
<1>5. AlertReachesTeam
  <2>1. Completed(Len(history) + 1) = {}
    BY <1>2 DEF Completed
  <2>2. QED
    BY <2>1 DEF AlertReachesTeam
<1>6. QED
  BY <1>1, <1>3, <1>4, <1>5 DEF FindingsInv

LEMMA WorkKeeps ==
  ASSUME FindingsInv, HubWorks
  PROVE  Rest' /\ CallInv'
<1>1. HubAny /\ UNCHANGED <<history, job, editor>>
  BY FindingsAssumption DEF HubWorks, HubAny, findingVars
<1>2. Grows
  BY <1>1, HubGrows DEF Grows
<1>3. JobInv'
  BY <1>1 DEF FindingsInv, JobInv
<1>4. AlertReachesTeam'
  BY <1>1, <1>2, SameHistory, AlertStays DEF Grows
<1>5. QED
  BY <1>1, <1>3, <1>4, SameHistory, CallMoves DEF Rest

LEMMA FindingsStay ==
  ASSUME FindingsInv, [FindingsNext]_<<hubVars, findingVars>>
  PROVE  FindingsInv'
<1>1. HubAny \/ UNCHANGED hubVars
  BY JobUsesHub
<1>2. HubTypes'
  <2>1. CASE HubAny
    BY <2>1, HubTypesStay DEF FindingsInv
  <2>2. CASE UNCHANGED hubVars
    BY <2>2 DEF FindingsInv, HubTypes, hubVars
  <2>3. QED
    BY <1>1, <2>1, <2>2
<1>3. Grows
  BY <1>1, HubGrows DEF Grows
<1>4. (wanted \subseteq Users)'
  BY <1>3 DEF FindingsInv, Grows
<1>5. Rest' /\ CallInv'
  <2>1. CASE UNCHANGED <<hubVars, findingVars>>
    <3>1. UNCHANGED <<history, job, editor>> /\ call' = call /\ rows' = rows /\ outbox' = outbox
      BY <2>1 DEF findingVars, hubVars
    <3>2. JobInv'
      BY <3>1 DEF FindingsInv, JobInv
    <3>3. AlertReachesTeam'
      BY <1>3, <3>1, SameHistory, AlertStays DEF Grows
    <3>4. CallInv'
      BY <1>3, <3>1 DEF FindingsInv, CallInv, Reached, Grows
    <3>5. QED
      BY <3>1, <3>2, <3>3, <3>4, SameHistory DEF Rest
  <2>2. CASE StartJob
    BY <2>2, StartKeeps
  <2>3. CASE Finish
    BY <2>3, FinishKeeps
  <2>4. CASE TellDone \/ TellCritical \/ TellDiff
    BY <2>4, TellsKeep, EndsKeep
  <2>5. CASE EndJob
    BY <2>5, EndsKeep
  <2>6. CASE HubWorks
    BY <2>6, WorkKeeps
  <2>7. CASE HubFails
    BY <2>7, FailKeeps
  <2>8. CASE WorkerDies
    BY <2>8, DeathKeeps
  <2>9. CASE \E e \in Editors : ReadFindings(e) \/ WriteFindings(e)
    BY <2>9, ReadKeeps, WriteKeeps
  <2>10. QED
    BY <2>1, <2>2, <2>3, <2>4, <2>5, <2>6, <2>7, <2>8, <2>9 DEF FindingsNext
<1>6. QED
  BY <1>2, <1>4, <1>5 DEF FindingsInv, Rest

\* Whatever is measured, edited, cut short or tried again: once the job of a completed scan is over, every
\* member who wants to hear of a problem that is new in it has a row of it, and every webhook a delivery.
THEOREM NewProblemIsTold == FindingsSpec => []AlertReachesTeam
<1>1. HubInit /\ FindingsInit => FindingsInv
  BY FindingsStart
<1>2. FindingsInv /\ [FindingsNext]_<<hubVars, findingVars>> => FindingsInv'
  BY FindingsStay
<1>3. FindingsInv => AlertReachesTeam
  BY DEF FindingsInv
<1>4. QED BY <1>1, <1>2, <1>3, PTL DEF FindingsSpec

\* Only finishScan takes the job from its start to its calls.
LEMMA OnlyFinish ==
  ASSUME FindingsInv, [FindingsNext]_<<hubVars, findingVars>>, job.pc = "finish", job'.pc = "scan_done"
  PROVE  Finish
<1>1. job' # job /\ job' # NoJob
  BY DEF NoJob
<1>2. ~HubWorks /\ ~HubFails
  <2>1. call["aggregator"].pc = "idle"
    BY DEF FindingsInv, CallInv
  <2>2. QED
    BY <1>1, <2>1 DEF HubWorks, HubFails, CallFails, findingVars
<1>3. ~StartJob /\ ~TellDone /\ ~TellCritical /\ ~TellDiff /\ ~EndJob /\ ~WorkerDies
  BY DEF StartJob, TellDone, TellCritical, TellDiff, EndJob, WorkerDies
<1>4. ~(UNCHANGED <<hubVars, findingVars>>) /\ ~(\E e \in Editors : ReadFindings(e) \/ WriteFindings(e))
  BY <1>1 DEF ReadFindings, WriteFindings, findingVars
<1>5. QED
  BY <1>2, <1>3, <1>4 DEF FindingsNext

\* What finishScan marks as back was dismissed in an earlier scan of the site, and is not dismissed in the
\* scan right before, from whose findings it takes the marks over.
THEOREM BackWasDismissed == FindingsSpec => RegressedWasDismissed
<1> DEFINE ReallyBack ==
        job.pc = "finish" /\ job'.pc = "scan_done" =>
            LET n   == job.scan
                now == history'[n].items
            IN  \A c \in DOMAIN now : now[c].regressed
                     => /\ \E k \in 1..(n - 1) : Same(now, history[k].items, c) /\ Dismissed(history[k].items[c])
                        /\ ~(Same(now, Previous(n), c) /\ Dismissed(Previous(n)[c]))
<1>1. HubInit /\ FindingsInit => FindingsInv
  BY FindingsStart
<1>2. FindingsInv /\ [FindingsNext]_<<hubVars, findingVars>> => FindingsInv'
  BY FindingsStay
<1>3. FindingsInv /\ [FindingsNext]_<<hubVars, findingVars>> => [ReallyBack]_job
  <2>1. SUFFICES ASSUME FindingsInv, [FindingsNext]_<<hubVars, findingVars>>, job.pc = "finish",
                        job'.pc = "scan_done"
                 PROVE  ReallyBack
    OBVIOUS
  <2>2. Finish /\ HistoryTypes /\ JobInv
    BY <2>1, OnlyFinish DEF FindingsInv
  <2>3. PICK n, measured, trigger : n = job.scan /\ measured = job.measured /\ trigger = job.trigger
    OBVIOUS
  <2>4. n \in 1..(Len(history) + 1) /\ \E late : history'[n] = Finished(n, job.measured, job.trigger, late)
    BY <2>2, <2>3, FinishIs
  <2>5. PICK late, made : history'[n] = Finished(n, measured, trigger, late) /\ made = history'[n]
    BY <2>3, <2>4
  <2>6. \A c \in DOMAIN measured : measured[c] \in Statuses
    BY <2>1, <2>3 DEF FindingsInv, JobInv
  <2>7. \A c \in DOMAIN made.items : made.items[c].regressed =>
           /\ \E k \in 1..(n - 1) : Same(made.items, history[k].items, c) /\ Dismissed(history[k].items[c])
           /\ ~(Same(made.items, Previous(n), c) /\ Dismissed(Previous(n)[c]))
    BY <2>2, <2>4, <2>5, <2>6, FinishedIs
  <2>8. QED
    BY <2>3, <2>5, <2>7
<1> HIDE DEF ReallyBack
<1>4. [][ReallyBack]_job <=> RegressedWasDismissed
  BY DEF ReallyBack, RegressedWasDismissed
<1>5. QED
  BY <1>1, <1>2, <1>3, <1>4, PTL DEF FindingsSpec

-----------------------------------------------------------------------------
(* Ownership.                                                              *)

OwnerTypes ==
    /\ token \in Nat
    /\ verified \in BOOLEAN
    /\ account \in BOOLEAN
    /\ verifier \in [Verifiers -> [pc: {"idle", "read", "lookup", "record"}, token: Nat, found: BOOLEAN]]
    /\ gate \in [pc: {"idle", "lookup", "load", "run"}, token: Nat, account: BOOLEAN]

\* Nobody verifies a site without a token, and what a request is about to write was looked up.
Founded ==
    /\ token = 0 => ~verified
    /\ \A v \in Verifiers :
          /\ verifier[v].pc # "idle" => token # 0
          /\ verifier[v].pc \in {"lookup", "record"} => verifier[v].token # 0
          /\ verifier[v].pc = "record" /\ verifier[v].found => verifier[v].token \in shown
    /\ gate.pc = "load" => gate.token \in shown

OwnerInv == OwnerTypes /\ Founded /\ OwnershipIsProven

USE OwnershipAssumption

\* The initial state has the invariant.
LEMMA OwnerStart == OwnerInit => OwnerInv
<1> SUFFICES ASSUME OwnerInit PROVE OwnerInv
  OBVIOUS
<1>1. OwnerTypes
  BY DEF OwnerInit, OwnerTypes, NoVerifier, NoGate, Verifying, Gate
<1>2. ~verified /\ ~gate.account /\ gate.pc = "idle"
  BY DEF OwnerInit, NoGate, Gate
<1>3. \A v \in Verifiers : verifier[v].pc = "idle"
  BY DEF OwnerInit, NoVerifier, Verifying
<1>4. QED BY <1>1, <1>2, <1>3 DEF OwnerInv, Founded, OwnershipIsProven

\* What the owner does leaves the invariant.
LEMMA OwnerActs ==
    ASSUME OwnerInv, ChangeRecord \/ Rotate \/ ChangeAccount
    PROVE  OwnerInv'
<1>1. CASE ChangeRecord
  BY <1>1 DEF ChangeRecord, OwnerInv, OwnerTypes, Founded, OwnershipIsProven
<1>2. CASE Rotate
  <2>1. token' \in Nat /\ token' # 0
    BY <1>2 DEF Rotate, OwnerInv, OwnerTypes
  <2>0. ~verified' /\ verified' \in BOOLEAN
    BY <1>2 DEF Rotate
  <2>2. verifier' = verifier /\ gate' = gate /\ account' = account /\ shown' = shown
    BY <1>2 DEF Rotate
  <2>3. OwnerTypes'
    BY <2>0, <2>1, <2>2 DEF OwnerInv, OwnerTypes
  <2>4. Founded' /\ OwnershipIsProven'
    BY <2>0, <2>1, <2>2 DEF OwnerInv, Founded, OwnershipIsProven
  <2>5. QED BY <2>3, <2>4 DEF OwnerInv
<1>3. CASE ChangeAccount
  BY <1>3 DEF ChangeAccount, OwnerInv, OwnerTypes, Founded, OwnershipIsProven
<1>4. QED BY <1>1, <1>2, <1>3

\* A request that verifies leaves the invariant: it writes only what it looked up, for the token it is about.
LEMMA VerifierActs ==
    ASSUME OwnerInv, NEW v \in Verifiers, EnsureToken(v) \/ ReadToken(v) \/ Lookup(v) \/ Record(v)
    PROVE  OwnerInv'
<1>1. CASE EnsureToken(v)
  BY <1>1 DEF EnsureToken, OwnerInv, OwnerTypes, Founded, OwnershipIsProven, Verifying
<1>2. CASE ReadToken(v)
  BY <1>2 DEF ReadToken, OwnerInv, OwnerTypes, Founded, OwnershipIsProven, Verifying
<1>3. CASE Lookup(v)
  <2>1. PICK found \in Found(verifier[v].token) :
           /\ verifier' = [verifier EXCEPT ![v] = Verifying("record", verifier[v].token, found)]
           /\ shown' = Shown(verifier[v].token, found)
    BY <1>3 DEF Lookup
  <2>2. found \in BOOLEAN /\ shown \subseteq shown' /\ (found => verifier[v].token \in shown')
    BY <2>1 DEF Found, Shown
  <2>3. QED BY <1>3, <2>1, <2>2 DEF Lookup, OwnerInv, OwnerTypes, Founded, OwnershipIsProven, Verifying
<1>4. CASE Record(v)
  BY <1>4 DEF Record, Concerns, OwnerInv, OwnerTypes, Founded, OwnershipIsProven, NoVerifier, Verifying
<1>5. QED BY <1>1, <1>2, <1>3, <1>4

\* The gate of a scan leaves the invariant: it loads an account only behind a lookup that found its token.
LEMMA GateActs ==
    ASSUME OwnerInv, GateReads \/ GateLooksUp \/ GateLoads \/ GateCloses
    PROVE  OwnerInv'
<1>1. CASE GateReads
  BY <1>1 DEF GateReads, OwnerInv, OwnerTypes, Founded, OwnershipIsProven, Gate
<1>2. CASE GateLooksUp
  <2>1. PICK found \in Found(gate.token) :
           /\ gate' = Gate(IF found THEN "load" ELSE "run", gate.token, FALSE)
           /\ shown' = Shown(gate.token, found)
    BY <1>2 DEF GateLooksUp
  <2>2. found \in BOOLEAN /\ shown \subseteq shown' /\ (found => gate.token \in shown')
    BY <2>1 DEF Found, Shown
  <2>3. QED BY <1>2, <2>1, <2>2 DEF GateLooksUp, OwnerInv, OwnerTypes, Founded, OwnershipIsProven, Gate
<1>3. CASE GateLoads
  <2>1. PICK loaded \in {FALSE, account} : gate' = Gate("run", gate.token, loaded)
    BY <1>3 DEF GateLoads
  <2>2. loaded \in BOOLEAN /\ gate.token \in Nat /\ gate.token \in shown
    BY <1>3, <2>1 DEF GateLoads, OwnerInv, OwnerTypes, Founded
  <2>3. gate'.pc = "run" /\ gate'.token = gate.token
    BY <2>1 DEF Gate
  <2>4. OwnerTypes'
    BY <1>3, <2>1, <2>2 DEF GateLoads, OwnerInv, OwnerTypes, Gate
  <2>5. QED BY <1>3, <2>2, <2>3, <2>4 DEF GateLoads, OwnerInv, Founded, OwnershipIsProven
<1>4. CASE GateCloses
  BY <1>4 DEF GateCloses, OwnerInv, OwnerTypes, Founded, OwnershipIsProven, NoGate, Gate
<1>5. QED BY <1>1, <1>2, <1>3, <1>4

\* Whichever requests verify and rotate at the same time, a site is shown as verified only for a token a
\* lookup has found, and no scan has an account in hand without such a lookup (recordOwnershipCheck,
\* checkOwnershipLive, the gate of processScanJob).
THEOREM OwnershipAlwaysProven == OwnerSpec => []OwnershipIsProven
<1>1. OwnerInit => OwnerInv
  BY OwnerStart
<1>2. OwnerInv /\ [OwnerNext]_ownerVars => OwnerInv'
  <2>1. CASE OwnerInv /\ OwnerNext
    BY <2>1, OwnerActs, VerifierActs, GateActs DEF OwnerNext
  <2>2. CASE OwnerInv /\ UNCHANGED ownerVars
    BY <2>2 DEF ownerVars, OwnerInv, OwnerTypes, Founded, OwnershipIsProven
  <2>3. QED BY <2>1, <2>2
<1>3. OwnerInv => OwnershipIsProven
  BY DEF OwnerInv
<1>4. QED BY <1>1, <1>2, <1>3, PTL DEF OwnerSpec

-----------------------------------------------------------------------------
(* Redis windows.                                                          *)

WindowTypes ==
    /\ count \in Nat /\ starts \in Nat /\ credits \in Nat
    /\ request \in [Requests -> {"idle", "expire", "judged"}]
    /\ deploy \in [Deploys -> {"idle", "reserve", "create", "enqueue"}]

\* Whoever is about to create a scan holds the cooldown, is the only one, and no scan was started in it.
OneCreator ==
    \A d \in Deploys : deploy[d] = "create" =>
        /\ cooldown /\ starts = 0
        /\ \A other \in Deploys : deploy[other] = "create" => other = d

LimiterInv  == count > 0 /\ ~ttl => orphaned \/ EndIsComing
CooldownInv == OneCreator /\ starts <= 1
WindowInv   == WindowTypes /\ LimiterInv /\ CooldownInv

USE WindowsAssumption

\* The initial state has the invariant.
LEMMA WindowStart == WindowInit => WindowInv
<1> SUFFICES ASSUME WindowInit PROVE WindowInv
  OBVIOUS
<1>1. WindowTypes
  BY DEF WindowInit, WindowTypes
<1>2. LimiterInv
  BY DEF WindowInit, LimiterInv
<1>3. CooldownInv
  BY DEF WindowInit, CooldownInv, OneCreator
<1>4. QED BY <1>1, <1>2, <1>3 DEF WindowInv

\* The types survive every step; that the flags are Boolean is of no use here.
LEMMA TypesStay == ASSUME WindowTypes, WindowNext PROVE WindowTypes'
<1>1. ASSUME NEW r \in Requests, Incr(r) \/ Expire(r) \/ Answer(r) \/ RequestDies(r) PROVE WindowTypes'
  <2>1. UNCHANGED cooldownVars
    BY <1>1 DEF Incr, Expire, Answer, RequestDies
  <2>2. count' \in Nat
    BY <1>1 DEF Incr, Expire, Answer, RequestDies, WindowTypes
  <2>3. request' \in [Requests -> {"idle", "expire", "judged"}]
    BY <1>1 DEF Incr, Expire, Answer, RequestDies, WindowTypes
  <2>4. QED BY <2>1, <2>2, <2>3 DEF WindowTypes, cooldownVars
<1>2. ASSUME NEW d \in Deploys, Deliver(d) \/ EnqueueScan(d) \/ DeployDies(d) PROVE WindowTypes'
  BY <1>2 DEF Deliver, EnqueueScan, DeployDies, WindowTypes, limiterVars
<1>3. ASSUME NEW d \in Deploys, ReserveCooldown(d) PROVE WindowTypes'
  <2>1. starts' \in Nat
    BY <1>3 DEF ReserveCooldown, WindowTypes
  <2>2. deploy' \in [Deploys -> {"idle", "reserve", "create", "enqueue"}]
    BY <1>3 DEF ReserveCooldown, WindowTypes
  <2>3. UNCHANGED <<limiterVars, credits>>
    BY <1>3 DEF ReserveCooldown
  <2>4. QED BY <2>1, <2>2, <2>3 DEF WindowTypes, limiterVars
<1>4. ASSUME NEW d \in Deploys, CreateScan(d) PROVE WindowTypes'
  <2>1. CASE scanning \/ credits = 0
    <3>1. UNCHANGED <<limiterVars, credits, starts>>
      BY <1>4, <2>1 DEF CreateScan
    <3>2. deploy' = [deploy EXCEPT ![d] = "idle"]
      BY <1>4, <2>1 DEF CreateScan
    <3>3. QED BY <3>1, <3>2 DEF WindowTypes, limiterVars
  <2>2. CASE ~(scanning \/ credits = 0)
    <3>1. deploy' = [deploy EXCEPT ![d] = "enqueue"]
      BY <1>4, <2>2 DEF CreateScan
    <3>2. credits' \in Nat /\ starts' \in Nat
      BY <1>4, <2>2 DEF CreateScan, WindowTypes
    <3>3. UNCHANGED limiterVars
      BY <1>4 DEF CreateScan
    <3>4. QED BY <3>1, <3>2, <3>3 DEF WindowTypes, limiterVars
  <2>3. QED BY <2>1, <2>2
<1>5. CASE WindowEnds
  BY <1>5 DEF WindowEnds, WindowTypes, cooldownVars
<1>6. CASE CooldownEnds
  BY <1>6 DEF CooldownEnds, WindowTypes, limiterVars
<1>7. CASE ScanEnds
  BY <1>7 DEF ScanEnds, WindowTypes, limiterVars
<1>8. QED BY <1>1, <1>2, <1>3, <1>4, <1>5, <1>6, <1>7 DEF WindowNext

\* The limiter: while no end is set, the call that has to set it is on its way or died.
LEMMA LimiterStays == ASSUME WindowTypes, LimiterInv, WindowNext PROVE LimiterInv'
<1>1. ASSUME NEW r \in Requests, Incr(r) PROVE LimiterInv'
  <2>1. CASE count = 0
    <3>1. request'[r] = "expire"
      BY <1>1, <2>1 DEF Incr, SetsEnd, WindowTypes
    <3>2. QED BY <3>1 DEF LimiterInv, EndIsComing
  <2>2. CASE count > 0
    <3>1. ttl' = ttl /\ orphaned' = orphaned
      BY <1>1 DEF Incr
    <3>2. \A q \in Requests : request[q] = "expire" => request'[q] = "expire"
      BY <1>1 DEF Incr, WindowTypes
    <3>3. QED BY <2>2, <3>1, <3>2 DEF LimiterInv, EndIsComing
  <2>3. QED BY <2>1, <2>2 DEF WindowTypes
<1>2. ASSUME NEW r \in Requests, Expire(r) PROVE LimiterInv'
  BY <1>2 DEF Expire, LimiterInv, WindowTypes
<1>3. ASSUME NEW r \in Requests, Answer(r) PROVE LimiterInv'
  <2>1. ttl' = ttl /\ orphaned' = orphaned /\ count' = count
    BY <1>3 DEF Answer
  <2>2. \A q \in Requests : request[q] = "expire" => request'[q] = "expire"
    BY <1>3 DEF Answer, WindowTypes
  <2>3. QED BY <2>1, <2>2 DEF LimiterInv, EndIsComing
<1>4. ASSUME NEW r \in Requests, RequestDies(r) PROVE LimiterInv'
  <2>1. ttl' = ttl /\ count' = count /\ orphaned' = (orphaned \/ request[r] = "expire")
    BY <1>4 DEF RequestDies
  <2>2. \A q \in Requests \ {r} : request[q] = "expire" => request'[q] = "expire"
    BY <1>4 DEF RequestDies, WindowTypes
  <2>3. QED BY <2>1, <2>2 DEF LimiterInv, EndIsComing
<1>5. CASE WindowEnds
  BY <1>5 DEF WindowEnds, LimiterInv
<1>6. ASSUME UNCHANGED limiterVars PROVE LimiterInv'
  BY <1>6 DEF limiterVars, LimiterInv, EndIsComing
<1>7. ASSUME NEW d \in Deploys,
             Deliver(d) \/ ReserveCooldown(d) \/ CreateScan(d) \/ EnqueueScan(d) \/ DeployDies(d)
      PROVE  UNCHANGED limiterVars
  BY <1>7 DEF Deliver, ReserveCooldown, CreateScan, EnqueueScan, DeployDies
<1>8. CASE CooldownEnds \/ ScanEnds
  <2>1. UNCHANGED limiterVars
    BY <1>8 DEF CooldownEnds, ScanEnds
  <2>2. QED BY <2>1, <1>6
<1>9. QED BY <1>1, <1>2, <1>3, <1>4, <1>5, <1>6, <1>7, <1>8 DEF WindowNext

\* The cooldown: NX lets one delivery through, and its scan is the only one of the cooldown.
LEMMA CooldownStays == ASSUME WindowTypes, CooldownInv, WindowNext PROVE CooldownInv'
<1>1. ASSUME NEW d \in Deploys, Deliver(d) \/ EnqueueScan(d) \/ DeployDies(d) PROVE CooldownInv'
  <2>1. cooldown' = cooldown /\ starts' = starts
    BY <1>1 DEF Deliver, EnqueueScan, DeployDies
  <2>2. \A e \in Deploys : deploy'[e] = "create" => deploy[e] = "create"
    BY <1>1 DEF Deliver, EnqueueScan, DeployDies, WindowTypes
  <2>3. QED BY <2>1, <2>2 DEF CooldownInv, OneCreator
<1>2. ASSUME NEW d \in Deploys, ReserveCooldown(d) PROVE CooldownInv'
  <2>1. CASE cooldown
    <3>1. cooldown' /\ starts' = starts
      BY <1>2, <2>1 DEF ReserveCooldown, Reserves
    <3>2. \A e \in Deploys : deploy'[e] = "create" => deploy[e] = "create"
      BY <1>2, <2>1 DEF ReserveCooldown, WindowTypes
    <3>3. QED BY <3>1, <3>2 DEF CooldownInv, OneCreator
  <2>2. CASE ~cooldown
    <3>1. cooldown' /\ starts' = 0
      BY <1>2, <2>2 DEF ReserveCooldown, Reserves
    <3>2. \A e \in Deploys : deploy'[e] = "create" => e = d
      BY <1>2, <2>2 DEF ReserveCooldown, WindowTypes, CooldownInv, OneCreator
    <3>3. QED BY <3>1, <3>2 DEF CooldownInv, OneCreator
  <2>3. QED BY <2>1, <2>2
<1>3. ASSUME NEW d \in Deploys, CreateScan(d) PROVE CooldownInv'
  <2>1. deploy[d] = "create" /\ starts = 0 /\ starts' \in {0, 1}
    BY <1>3 DEF CreateScan, CooldownInv, OneCreator
  <2>2. \A e \in Deploys : deploy'[e] # "create"
    BY <1>3, <2>1 DEF CreateScan, WindowTypes, CooldownInv, OneCreator
  <2>3. QED BY <2>1, <2>2 DEF CooldownInv, OneCreator
<1>4. CASE CooldownEnds
  BY <1>4 DEF CooldownEnds, CooldownInv, OneCreator
<1>5. ASSUME UNCHANGED <<cooldown, deploy, starts>> PROVE CooldownInv'
  BY <1>5 DEF CooldownInv, OneCreator
<1>6. ASSUME NEW r \in Requests, Incr(r) \/ Expire(r) \/ Answer(r) \/ RequestDies(r)
      PROVE  UNCHANGED <<cooldown, deploy, starts>>
  BY <1>6 DEF Incr, Expire, Answer, RequestDies, cooldownVars
<1>7. CASE WindowEnds \/ ScanEnds
  <2>1. UNCHANGED <<cooldown, deploy, starts>>
    BY <1>7 DEF WindowEnds, ScanEnds, cooldownVars
  <2>2. QED BY <2>1, <1>5
<1>8. QED BY <1>1, <1>2, <1>3, <1>4, <1>5, <1>6, <1>7 DEF WindowNext

\* However many calls of the limiter and deliveries of a site meet, a window gets an end unless the call
\* that had to set it dies, and a cooldown sees one scan (checkRateLimit, reserveDeployCooldown).
THEOREM WindowsAlwaysHold == WindowSpec => []WindowsHold
<1>1. WindowInit => WindowInv
  BY WindowStart
<1>2. WindowInv /\ [WindowNext]_windowVars => WindowInv'
  <2>1. CASE WindowInv /\ WindowNext
    BY <2>1, TypesStay, LimiterStays, CooldownStays DEF WindowInv
  <2>2. CASE WindowInv /\ UNCHANGED windowVars
    BY <2>2 DEF windowVars, limiterVars, cooldownVars, WindowInv, WindowTypes, LimiterInv, CooldownInv,
                OneCreator, EndIsComing
  <2>3. QED BY <2>1, <2>2
<1>3. WindowInv => WindowsHold
  BY DEF WindowInv, LimiterInv, CooldownInv, WindowsHold
<1>4. QED BY <1>1, <1>2, <1>3, PTL DEF WindowSpec

-----------------------------------------------------------------------------
(* The page that follows a scan.                                           *)

Shows    == Ends \union {"running"}
ScanRows == [status : Shows, progress : Nat]
Fetches  == [kind : {"first", "poll", "final", "done"}, expects : Ends \union {"any"},
             data : ScanRows \union {Waiting, Lost}]

ViewTypes ==
    /\ scan \in ScanRows
    /\ wire \in Seq(ScanRows)
    /\ fetches \in Seq(Fetches)
    /\ view \in [status : Shows, progress : Nat, full : BOOLEAN]

\* Whatever is on its way tells a status the scan has had.
Told ==
    /\ scan.status \in had /\ view.status \in had
    /\ \A i \in DOMAIN wire : wire[i].status \in had
    /\ \A i \in DOMAIN fetches :
          fetches[i].kind \in {"first", "poll"} /\ fetches[i].data # Waiting =>
             fetches[i].data \in ScanRows /\ fetches[i].data.status \in had

\* An end is the last event of the stream, and a page that shows one hears no other event.
LastWord ==
    /\ \A i \in DOMAIN wire : wire[i].status \in Ends => i = Len(wire) /\ stream = "closed"
    /\ terminal => source = "closed" \/ (wire = <<>> /\ stream = "closed")

\* Polls come after the stream, so a page that shows an end polls no more or ignores the answers; the
\* whole scan is shown only with the end that was announced.
Asking ==
    /\ view.status \in Ends => terminal
    /\ timer => source = "closed" /\ ~terminal
    /\ \A i \in DOMAIN fetches :
          /\ fetches[i].kind \in {"first", "poll"} => source = "closed" /\ (stopped \/ ~terminal)
          /\ fetches[i].kind = "final" => fetches[i].expects = view.status /\ view.status \in Ends

ViewInv == ViewTypes /\ Told /\ LastWord /\ Asking

\* The initial state has the invariant.
LEMMA ViewStart == ViewInit => ViewInv
BY DEF ViewInit, ViewInv, ViewTypes, Told, LastWord, Asking, ScanRows, Shows, Fetches, Ends

\* An event that is sent is one more at the end.
LEMMA Sends ==
  ASSUME NEW S, wire \in Seq(S), NEW e \in S, wire' = Append(wire, e)
  PROVE  /\ wire' \in Seq(S) /\ Len(wire') = Len(wire) + 1 /\ wire'[Len(wire')] = e
         /\ Len(wire) \in Nat /\ DOMAIN wire = 1..Len(wire) /\ DOMAIN wire' = 1..Len(wire')
         /\ \A i \in 1..Len(wire) : wire'[i] = wire[i]
OBVIOUS

\* A request is one more fetch, without an answer.
LEMMA RequestIsSent ==
  ASSUME fetches \in Seq(Fetches), NEW kind \in {"first", "poll", "final"}, NEW expects \in Ends \union {"any"},
         fetches' = Request(kind, expects)
  PROVE  /\ fetches' \in Seq(Fetches) /\ Len(fetches') = Len(fetches) + 1
         /\ Len(fetches) \in Nat /\ DOMAIN fetches = 1..Len(fetches) /\ DOMAIN fetches' = 1..Len(fetches')
         /\ \A i \in 1..Len(fetches) : fetches'[i] = fetches[i]
         /\ LET f == fetches'[Len(fetches')]
            IN  f.kind = kind /\ f.expects = expects /\ f.data = Waiting
<1>1. PICK f : f = [kind |-> kind, expects |-> expects, data |-> Waiting]
  OBVIOUS
<1>2. f \in Fetches /\ f.kind = kind /\ f.expects = expects /\ f.data = Waiting
  BY <1>1 DEF Fetches
<1>3. fetches' = Append(fetches, f)
  BY <1>1 DEF Request
<1>4. QED
  BY <1>2, <1>3

\* The scan moves: its new status is one it has had.
LEMMA ScanMovesKeeps == ASSUME ViewInv, ScanMoves PROVE ViewInv'
<1>1. /\ scan' \in ScanRows
      /\ had' = had \union {scan'.status}
      /\ UNCHANGED <<stream, wire, fetches, source, terminal, stopped, timer, view>>
  <2>1. scan' \in ScanRows
    BY DEF ScanMoves, ViewInv, ViewTypes, ScanRows, Shows, Ends
  <2>2. QED
    BY <2>1 DEF ScanMoves, flags
<1>2. QED
  BY <1>1 DEF ViewInv, ViewTypes, Told, LastWord, Asking

\* The stream sends what the row says, an end as its last event.
LEMMA StreamLooksKeeps == ASSUME ViewInv, StreamLooks PROVE ViewInv'
<1>1. /\ wire' = Append(wire, scan)
      /\ stream = "open" /\ (scan.status \in Ends => stream' = "closed")
      /\ UNCHANGED <<scan, had, fetches, source, terminal, stopped, timer, view>>
  BY DEF StreamLooks, flags
<1>2. PICK e \in ScanRows : e = scan
  BY DEF ViewInv, ViewTypes
<1>3. /\ wire' \in Seq(ScanRows) /\ Len(wire') = Len(wire) + 1 /\ wire'[Len(wire')] = e
      /\ Len(wire) \in Nat /\ DOMAIN wire = 1..Len(wire) /\ DOMAIN wire' = 1..Len(wire')
      /\ \A i \in 1..Len(wire) : wire'[i] = wire[i]
  BY <1>1, <1>2, Sends DEF ViewInv, ViewTypes
<1>4. ViewTypes' /\ Told' /\ Asking'
  BY <1>1, <1>2, <1>3 DEF ViewInv, ViewTypes, Told, Asking
<1>5. LastWord'
  BY <1>1, <1>2, <1>3 DEF ViewInv, LastWord
<1>6. QED
  BY <1>4, <1>5 DEF ViewInv

\* A stream that breaks sends no more.
LEMMA StreamBreaksKeeps == ASSUME ViewInv, StreamBreaks PROVE ViewInv'
<1>1. /\ stream' = "closed" /\ wire' \in {wire, <<>>}
      /\ UNCHANGED <<scan, had, fetches, source, terminal, stopped, timer, view>>
  BY DEF StreamBreaks, flags
<1>2. wire' \in Seq(ScanRows) /\ \A i \in DOMAIN wire' : wire'[i].status \in had
  <2>1. CASE wire' = wire
    BY <2>1 DEF ViewInv, ViewTypes, Told
  <2>2. CASE wire' = <<>>
    BY <2>2
  <2>3. QED
    BY <1>1, <2>1, <2>2
<1>3. LastWord'
  BY <1>1 DEF ViewInv, LastWord
<1>4. ViewTypes' /\ Told' /\ Asking'
  BY <1>1, <1>2 DEF ViewInv, ViewTypes, Told, Asking
<1>5. QED
  BY <1>3, <1>4 DEF ViewInv

\* An event is shown; after an end there is none left, and there were no polls yet.
LEMMA ReceiveEventKeeps == ASSUME ViewInv, ReceiveEvent PROVE ViewInv'
<1>1. PICK e : e = Head(wire)
  OBVIOUS
<1>2. /\ source = "open" /\ wire # <<>> /\ wire' = Tail(wire)
      /\ UNCHANGED <<scan, had, stream, source, stopped, timer>>
  BY DEF ReceiveEvent, serverVars
<1>3. e \in ScanRows /\ e = wire[1] /\ 1 \in DOMAIN wire
  BY <1>1, <1>2 DEF ViewInv, ViewTypes
<1>4. /\ wire' \in Seq(ScanRows) /\ Len(wire') = Len(wire) - 1
      /\ DOMAIN wire = 1..Len(wire) /\ DOMAIN wire' = 1..Len(wire')
      /\ \A i \in DOMAIN wire' : wire'[i] = wire[i + 1] /\ i + 1 \in DOMAIN wire
      /\ Len(wire) \in Nat
  BY <1>2 DEF ViewInv, ViewTypes
<1>5. ~terminal /\ view.status \notin Ends
  BY <1>2 DEF ViewInv, LastWord, Asking
<1>6. e.status \in had
  BY <1>3 DEF ViewInv, Told
<1>7. CASE e.status \in Ends
  <2>1. /\ terminal' = TRUE /\ view' = [view EXCEPT !.status = e.status]
        /\ fetches' = Request("final", e.status)
    BY <1>1, <1>7 DEF ReceiveEvent
  <2>2. /\ fetches' \in Seq(Fetches) /\ Len(fetches') = Len(fetches) + 1
        /\ Len(fetches) \in Nat /\ DOMAIN fetches = 1..Len(fetches) /\ DOMAIN fetches' = 1..Len(fetches')
        /\ \A i \in 1..Len(fetches) : fetches'[i] = fetches[i]
        /\ LET f == fetches'[Len(fetches')]
           IN  f.kind = "final" /\ f.expects = e.status /\ f.data = Waiting
    BY <1>7, <2>1, RequestIsSent DEF ViewInv, ViewTypes
  <2>3. view' \in [status : Shows, progress : Nat, full : BOOLEAN] /\ view'.status = e.status
    BY <1>3, <2>1 DEF ViewInv, ViewTypes, ScanRows
  <2>4. Len(wire) = 1 /\ stream = "closed"
    BY <1>3, <1>7 DEF ViewInv, LastWord
  <2>5. wire' = <<>>
    BY <1>4, <2>4
  <2>6. ViewTypes'
    BY <1>2, <1>4, <2>2, <2>3 DEF ViewInv, ViewTypes
  <2>7. Told'
    <3>1. /\ scan'.status \in had' /\ view'.status \in had' /\ had' = had
          /\ \A i \in DOMAIN wire' : wire'[i].status \in had
      BY <1>2, <1>6, <2>3, <2>5 DEF ViewInv, Told
    <3>2. \A i \in 1..Len(fetches) :
             fetches'[i].kind \in {"first", "poll"} /\ fetches'[i].data # Waiting =>
                fetches'[i].data \in ScanRows /\ fetches'[i].data.status \in had
      BY <2>2 DEF ViewInv, Told
    <3>3. \A i \in DOMAIN fetches' : i \in 1..Len(fetches) \/ i = Len(fetches')
      BY <2>2
    <3>4. fetches'[Len(fetches')].data = Waiting
      BY <2>2
    <3>5. QED
      BY <3>1, <3>2, <3>3, <3>4 DEF Told
  <2>8. LastWord'
    BY <1>2, <2>4, <2>5 DEF LastWord
  <2>9. Asking'
    <3>1. terminal' /\ ~timer' /\ view'.status \in Ends
      BY <1>2, <1>7, <2>1, <2>3 DEF ViewInv, Asking
    <3>2. \A i \in 1..Len(fetches) : fetches[i].kind \notin {"first", "poll", "final"}
      BY <1>2, <1>5, <2>2 DEF ViewInv, Asking
    <3>3. \A i \in DOMAIN fetches' :
             /\ fetches'[i].kind \notin {"first", "poll"}
             /\ fetches'[i].kind = "final" => fetches'[i].expects = e.status
      BY <2>2, <3>2
    <3>4. QED
      BY <2>3, <3>1, <3>3 DEF Asking
  <2>10. QED
    BY <2>6, <2>7, <2>8, <2>9 DEF ViewInv
<1>8. CASE e.status \notin Ends
  <2>1. /\ view' = [view EXCEPT !.status = e.status, !.progress = e.progress]
        /\ UNCHANGED <<terminal, fetches>>
    BY <1>1, <1>8 DEF ReceiveEvent
  <2>2. view' \in [status : Shows, progress : Nat, full : BOOLEAN] /\ view'.status = e.status
    BY <1>3, <2>1 DEF ViewInv, ViewTypes, ScanRows
  <2>3. ViewTypes' /\ Told'
    BY <1>2, <1>4, <1>6, <2>1, <2>2 DEF ViewInv, ViewTypes, Told
  <2>4. LastWord'
    BY <1>2, <1>4, <1>5, <2>1 DEF ViewInv, LastWord
  <2>5. Asking'
    BY <1>2, <1>5, <1>8, <2>1, <2>2 DEF ViewInv, Asking
  <2>6. QED
    BY <2>3, <2>4, <2>5 DEF ViewInv
<1>9. QED
  BY <1>7, <1>8

\* A page whose stream broke before an end starts to poll.
LEMMA SourceFailsKeeps == ASSUME ViewInv, SourceFails PROVE ViewInv'
<1>1. /\ source' = "closed" /\ UNCHANGED <<scan, had, stream, wire, terminal, stopped, view>>
  BY DEF SourceFails, serverVars
<1>2. CASE terminal \/ stopped
  <2>1. UNCHANGED <<fetches, timer>>
    BY <1>2 DEF SourceFails
  <2>2. QED
    BY <1>1, <2>1 DEF ViewInv, ViewTypes, Told, LastWord, Asking
<1>3. CASE ~(terminal \/ stopped)
  <2>1. fetches' = Request("first", "any")
    BY <1>3 DEF SourceFails
  <2>2. /\ fetches' \in Seq(Fetches) /\ Len(fetches') = Len(fetches) + 1
        /\ Len(fetches) \in Nat /\ DOMAIN fetches = 1..Len(fetches) /\ DOMAIN fetches' = 1..Len(fetches')
        /\ \A i \in 1..Len(fetches) : fetches'[i] = fetches[i]
        /\ LET f == fetches'[Len(fetches')]
           IN  f.kind = "first" /\ f.data = Waiting
    BY <2>1, RequestIsSent DEF ViewInv, ViewTypes
  <2>3. ViewTypes' /\ Told' /\ LastWord'
    BY <1>1, <2>2 DEF ViewInv, ViewTypes, Told, LastWord
  <2>4. Asking'
    BY <1>1, <1>3, <2>2 DEF ViewInv, Asking
  <2>5. QED
    BY <2>3, <2>4 DEF ViewInv
<1>4. QED
  BY <1>2, <1>3

\* A page that polls shows no end.
LEMMA TimerFiresKeeps == ASSUME ViewInv, TimerFires PROVE ViewInv'
<1>1. /\ timer /\ fetches' = Request("poll", "any")
      /\ UNCHANGED <<scan, had, stream, wire, source, terminal, stopped, timer, view>>
  BY DEF TimerFires, serverVars, flags
<1>2. /\ fetches' \in Seq(Fetches) /\ Len(fetches') = Len(fetches) + 1
      /\ Len(fetches) \in Nat /\ DOMAIN fetches = 1..Len(fetches) /\ DOMAIN fetches' = 1..Len(fetches')
      /\ \A i \in 1..Len(fetches) : fetches'[i] = fetches[i]
      /\ LET f == fetches'[Len(fetches')]
         IN  f.kind = "poll" /\ f.data = Waiting
  BY <1>1, RequestIsSent DEF ViewInv, ViewTypes
<1>3. ViewTypes' /\ Told' /\ LastWord'
  BY <1>1, <1>2 DEF ViewInv, ViewTypes, Told, LastWord
<1>4. Asking'
  BY <1>1, <1>2 DEF ViewInv, Asking
<1>5. QED
  BY <1>3, <1>4 DEF ViewInv

\* An answer holds the row of the scan, unless it is the one to the end and got lost.
LEMMA ServerAnswersKeeps == ASSUME ViewInv, NEW i \in DOMAIN fetches, ServerAnswers(i) PROVE ViewInv'
<1>1. PICK d : /\ d = scan \/ (fetches[i].kind = "final" /\ d = Lost)
               /\ fetches' = [fetches EXCEPT ![i] = [fetches[i] EXCEPT !.data = d]]
  BY DEF ServerAnswers
<1>2. UNCHANGED <<scan, had, stream, wire, source, terminal, stopped, timer, view>>
  BY DEF ServerAnswers, serverVars, flags
<1>3. fetches[i] \in Fetches /\ d \in ScanRows \union {Waiting, Lost}
  BY <1>1 DEF ViewInv, ViewTypes
<1>4. PICK g : g = [fetches[i] EXCEPT !.data = d]
  OBVIOUS
<1>5. g \in Fetches /\ g.data = d /\ g.kind = fetches[i].kind /\ g.expects = fetches[i].expects
  BY <1>3, <1>4 DEF Fetches
<1>6. /\ fetches' = [fetches EXCEPT ![i] = g]
      /\ fetches' \in Seq(Fetches) /\ DOMAIN fetches' = DOMAIN fetches
      /\ fetches'[i] = g /\ \A x \in DOMAIN fetches : x # i => fetches'[x] = fetches[x]
  BY <1>1, <1>4, <1>5 DEF ViewInv, ViewTypes
<1>7. ViewTypes' /\ LastWord'
  BY <1>2, <1>6 DEF ViewInv, ViewTypes, LastWord
<1>8. Told'
  <2>1. g.kind # "final" => g.data \in ScanRows /\ g.data.status \in had
    BY <1>1, <1>5 DEF ViewInv, ViewTypes, Told
  <2>2. \A x \in DOMAIN fetches' : x = i \/ fetches'[x] = fetches[x]
    BY <1>6
  <2>3. QED
    BY <1>2, <1>6, <2>1, <2>2 DEF ViewInv, Told
<1>9. Asking'
  BY <1>2, <1>5, <1>6 DEF ViewInv, Asking
<1>10. QED
  BY <1>7, <1>8, <1>9 DEF ViewInv

\* What an answer makes of the page: an end that is shown stays, and a new one ends the asking.
LEMMA ReceiveFetchIs ==
  ASSUME ViewInv, NEW i \in DOMAIN fetches, ReceiveFetch(i)
  PROVE  /\ view' \in [status : Shows, progress : Nat, full : BOOLEAN]
         /\ view'.status \in had
         /\ view.status \in Ends => view'.status = view.status
         /\ \/ /\ stopped' = TRUE /\ source' = "closed" /\ timer' = FALSE /\ wire' = <<>>
               /\ view'.status \in Ends => terminal'
               /\ terminal => terminal'
            \/ /\ UNCHANGED <<stopped, source, timer, wire, terminal>>
               /\ view'.status \in Ends => view.status \in Ends
<1>1. PICK f \in Fetches : f = fetches[i]
  BY DEF ViewInv, ViewTypes
<1>2. f.kind # "done" /\ f.data # Waiting
  BY <1>1 DEF ReceiveFetch
<1>3. view \in [status : Shows, progress : Nat, full : BOOLEAN] /\ view.status \in had
  BY DEF ViewInv, ViewTypes, Told
<1>4. ASSUME f.data.status \in Shows
      PROVE  Full(f.data) \in [status : Shows, progress : Nat, full : BOOLEAN]
             /\ Full(f.data).status = f.data.status
  BY <1>2, <1>4 DEF Fetches, ScanRows, Full, Shows, Ends, Lost, Waiting
<1>5. CASE f.kind = "final"
  <2>1. /\ view' = IF f.data.status = f.expects THEN Full(f.data) ELSE view
        /\ stopped' = TRUE /\ source' = "closed" /\ timer' = FALSE /\ wire' = <<>>
        /\ terminal' = terminal
    BY <1>1, <1>5 DEF ReceiveFetch, Stop
  <2>2. f.expects = view.status /\ view.status \in Ends /\ terminal
    BY <1>1, <1>5 DEF ViewInv, Asking
  <2>3. CASE f.data.status = f.expects
    BY <1>3, <1>4, <2>1, <2>2, <2>3 DEF Shows
  <2>4. CASE f.data.status # f.expects
    BY <1>3, <2>1, <2>2, <2>4
  <2>5. QED
    BY <2>3, <2>4
<1>6. CASE f.kind # "final"
  <2>1. f.kind \in {"first", "poll"}
    BY <1>2, <1>6 DEF Fetches
  <2>2. f.data.status \in had /\ f.data.status \in Shows /\ (stopped \/ ~terminal)
    BY <1>1, <1>2, <2>1 DEF ViewInv, Told, Asking, ScanRows
  <2>3. CASE stopped
    <3>1. UNCHANGED <<view, terminal, stopped, timer, source, wire>>
      BY <1>1, <1>6, <2>3 DEF ReceiveFetch, Ignored, flags
    <3>2. QED
      BY <1>3, <3>1
  <2>4. CASE ~stopped /\ f.data.status \in Ends
    <3>1. /\ view' = Full(f.data) /\ terminal' = TRUE
          /\ stopped' = TRUE /\ source' = "closed" /\ timer' = FALSE /\ wire' = <<>>
      BY <1>1, <1>6, <2>4 DEF ReceiveFetch, Ignored, Stop
    <3>2. view.status \notin Ends
      BY <2>2, <2>4 DEF ViewInv, Asking
    <3>3. QED
      BY <1>4, <2>2, <2>4, <3>1, <3>2 DEF Shows
  <2>5. CASE ~stopped /\ f.data.status \notin Ends
    <3>1. /\ view' = IF f.kind = "poll" THEN Full(f.data) ELSE view
          /\ UNCHANGED <<terminal, stopped, timer, source, wire>>
      BY <1>1, <1>6, <2>5 DEF ReceiveFetch, Ignored, flags
    <3>2. view.status \notin Ends
      BY <2>2, <2>5 DEF ViewInv, Asking
    <3>3. QED
      BY <1>3, <1>4, <2>2, <2>5, <3>1, <3>2
  <2>6. QED
    BY <2>3, <2>4, <2>5
<1>7. QED
  BY <1>5, <1>6

LEMMA ReceiveFetchKeeps == ASSUME ViewInv, NEW i \in DOMAIN fetches, ReceiveFetch(i) PROVE ViewInv'
<1>1. UNCHANGED <<scan, had, stream>>
  BY DEF ReceiveFetch, serverVars
<1>2. PICK g : g = [fetches[i] EXCEPT !.kind = "done", !.data = Lost]
  OBVIOUS
<1>3. fetches[i] \in Fetches
  BY DEF ViewInv, ViewTypes
<1>4. g \in Fetches /\ g.kind = "done"
  BY <1>2, <1>3 DEF Fetches
<1>5. fetches' = [fetches EXCEPT ![i] = g]
  BY <1>2 DEF ReceiveFetch
<1>6. /\ fetches' \in Seq(Fetches) /\ DOMAIN fetches' = DOMAIN fetches
      /\ fetches'[i] = g /\ \A x \in DOMAIN fetches : x # i => fetches'[x] = fetches[x]
  BY <1>4, <1>5 DEF ViewInv, ViewTypes
<1>7. /\ view' \in [status : Shows, progress : Nat, full : BOOLEAN]
      /\ view'.status \in had
      /\ view.status \in Ends => view'.status = view.status
      /\ \/ /\ stopped' = TRUE /\ source' = "closed" /\ timer' = FALSE /\ wire' = <<>>
            /\ view'.status \in Ends => terminal'
            /\ terminal => terminal'
         \/ /\ UNCHANGED <<stopped, source, timer, wire, terminal>>
            /\ view'.status \in Ends => view.status \in Ends
  BY ReceiveFetchIs
<1>8. wire' \in Seq(ScanRows) /\ (wire' = wire \/ wire' = <<>>)
  <2>1. wire \in Seq(ScanRows) /\ <<>> \in Seq(ScanRows)
    BY DEF ViewInv, ViewTypes
  <2>2. wire' = wire \/ wire' = <<>>
    BY <1>7
  <2>3. QED
    BY <2>1, <2>2
<1>9. ViewTypes'
  BY <1>1, <1>6, <1>7, <1>8 DEF ViewInv, ViewTypes
<1>10. Told'
  BY <1>1, <1>4, <1>6, <1>7, <1>8 DEF ViewInv, Told
<1>11. LastWord'
  BY <1>1, <1>7 DEF ViewInv, LastWord
<1>12. Asking'
  BY <1>4, <1>6, <1>7 DEF ViewInv, Asking
<1>13. QED
  BY <1>9, <1>10, <1>11, <1>12 DEF ViewInv

LEMMA ViewStep == ASSUME ViewInv, [ViewNext]_viewVars PROVE ViewInv'
<1>1. CASE UNCHANGED viewVars
  BY <1>1 DEF viewVars, flags, ViewInv, ViewTypes, Told, LastWord, Asking
<1>2. CASE ViewNext
  BY <1>2, ScanMovesKeeps, StreamLooksKeeps, StreamBreaksKeeps, ReceiveEventKeeps, SourceFailsKeeps,
     TimerFiresKeeps, ServerAnswersKeeps, ReceiveFetchKeeps DEF ViewNext
<1>3. QED
  BY <1>1, <1>2

\* Only an event and an answer change what is shown: no event comes after an end, and answers leave it.
LEMMA EndStays ==
  ASSUME ViewInv, [ViewNext]_viewVars
  PROVE  [/\ view.status \in Ends => view'.status = view.status
          /\ view'.status \in Ends => view'.status \in had]_view
<1>1. ASSUME ReceiveEvent
      PROVE  view.status \notin Ends /\ view'.status \in had
  <2>1. view.status \notin Ends
    BY <1>1 DEF ReceiveEvent, ViewInv, LastWord, Asking
  <2>2. PICK e : e = Head(wire)
    OBVIOUS
  <2>3. e.status \in had
    BY <1>1, <2>2 DEF ReceiveEvent, ViewInv, ViewTypes, Told
  <2>4. view'.status = e.status
    BY <1>1, <2>2 DEF ReceiveEvent, ViewInv, ViewTypes
  <2>5. QED
    BY <2>1, <2>3, <2>4
<1>2. ASSUME NEW i \in DOMAIN fetches, ReceiveFetch(i)
      PROVE  (view.status \in Ends => view'.status = view.status) /\ view'.status \in had
  BY <1>2, ReceiveFetchIs
<1>3. ASSUME \/ ScanMoves \/ StreamLooks \/ StreamBreaks \/ SourceFails \/ TimerFires
             \/ \E i \in DOMAIN fetches : ServerAnswers(i)
             \/ UNCHANGED viewVars
      PROVE  UNCHANGED view
  BY <1>3 DEF ScanMoves, StreamLooks, StreamBreaks, SourceFails, TimerFires, ServerAnswers, viewVars
<1>4. QED
  BY <1>1, <1>2, <1>3 DEF ViewNext

\* However events and answers overtake each other, the page goes on showing the end it has shown, and it is
\* one the scan has had (scan-progress-client.ts: handleEvent, startPolling).
THEOREM EndStaysShown == ViewSpec => EndIsShownForGood
<1>1. ViewInit => ViewInv
  BY ViewStart
<1>2. ViewInv /\ [ViewNext]_viewVars => ViewInv'
  BY ViewStep
<1>3. ViewInv /\ [ViewNext]_viewVars
         => [/\ view.status \in Ends => view'.status = view.status
             /\ view'.status \in Ends => view'.status \in had]_view
  BY EndStays
<1>4. QED
  BY <1>1, <1>2, <1>3, PTL DEF ViewSpec, EndIsShownForGood
=============================================================================
