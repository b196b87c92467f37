---------------------------- MODULE ProgressView -----------------------------
(***************************************************************************)
(* A page that follows a scan.  The stream route looks at the row of the   *)
(* scan every so often and sends what changed; the controller of           *)
(* apps/web/lib/scan-progress-client.ts shows it, fetches the whole scan   *)
(* when the end is announced, and goes over to polling when the stream     *)
(* breaks.  Polls are sent by a timer that does not wait for an answer, so *)
(* answers overtake each other.                                            *)
(*                                                                         *)
(* The scan itself is ScanPipeline's: it advances, ends, may be revived    *)
(* after a cancel and may fail after it completed.                         *)
(***************************************************************************)
EXTENDS Integers, Sequences

CONSTANTS MaxProgress,   \* steps of the bar
          MaxFetches     \* requests of the page

ASSUME ViewAssumption == MaxProgress \in Nat /\ MaxFetches \in Nat

VARIABLES
    scan,      \* the row of the scan: [status, progress]
    had,       \* statuses the scan has had
    revived,   \* the dispatcher has revived it, which it does once
    stream,    \* the loop of the route: "open" or "closed"
    sent,      \* fingerprint of the last progress event
    wire,      \* events sent and not received
    fetches,   \* requests of the page: [kind, expects, data]
    source,    \* the EventSource of the page: "open" or "closed"
    terminal, stopped, timer,
    view       \* what the page shows: [status, progress, full]

viewVars   == <<scan, had, revived, stream, sent, wire, fetches, source, terminal, stopped, timer, view>>
serverVars == <<scan, had, revived, stream, sent>>
flags      == <<terminal, stopped, timer>>

Ends       == {"completed", "failed", "canceled"}
NotSent    == -1
Waiting    == [status |-> "waiting", progress |-> 0]   \* no answer yet
Lost       == [status |-> "lost", progress |-> 0]      \* loadFull answers null

ViewInit ==
    /\ scan = [status |-> "running", progress |-> 0] /\ had = {"running"} /\ revived = FALSE
    /\ stream = "open" /\ sent = NotSent /\ wire = <<>>
    /\ fetches = <<>>
    /\ source = "open" /\ terminal = FALSE /\ stopped = FALSE /\ timer = FALSE
    /\ view = [status |-> "running", progress |-> 0, full |-> FALSE]

(***************************************************************************)
(* The scan and the stream.                                                *)
(***************************************************************************)
ScanMoves ==
    /\ \/ scan.status = "running" /\ scan.progress < MaxProgress /\ scan' = [scan EXCEPT !.progress = @ + 1]
       \/ scan.status = "running" /\ \E s \in Ends : scan' = [scan EXCEPT !.status = s]
       \/ scan.status = "canceled" /\ ~revived /\ scan' = [status |-> "running", progress |-> 0]
       \/ scan.status = "completed" /\ scan' = [scan EXCEPT !.status = "failed"]
    /\ had' = had \union {scan'.status}
    /\ revived' = (revived \/ scan.status = "canceled")
    /\ UNCHANGED <<stream, sent, wire, fetches, source, flags, view>>

\* One round of the loop: an end is sent and closes the stream, a change of the bar is sent once.
StreamLooks ==
    /\ stream = "open"
    /\ \/ /\ scan.status \in Ends
          /\ wire' = Append(wire, scan)
          /\ stream' = "closed" /\ UNCHANGED sent
       \/ /\ scan.status \notin Ends /\ scan.progress # sent
          /\ wire' = Append(wire, scan)
          /\ sent' = scan.progress /\ UNCHANGED stream
    /\ UNCHANGED <<scan, had, revived, fetches, source, flags, view>>

\* The longest a stream may last, a member who lost access, or a connection that breaks.
StreamBreaks ==
    /\ stream = "open"
    /\ stream' = "closed"
    /\ wire' \in {wire, <<>>}
    /\ UNCHANGED <<scan, had, revived, sent, fetches, source, flags, view>>

(***************************************************************************)
(* The controller.                                                         *)
(***************************************************************************)
Request(kind, expects) == Append(fetches, [kind |-> kind, expects |-> expects, data |-> Waiting])
Full(data) == [status |-> data.status, progress |-> data.progress, full |-> TRUE]

\* handleEvent: an end is shown at once and the whole scan is asked for.
ReceiveEvent ==
    /\ source = "open" /\ wire # <<>>
    /\ LET e == Head(wire)
       IN  IF e.status \in Ends
           THEN /\ terminal' = TRUE
                /\ view' = [view EXCEPT !.status = e.status]
                /\ fetches' = Request("final", e.status)
           ELSE /\ view' = [view EXCEPT !.status = e.status, !.progress = e.progress]
                /\ UNCHANGED <<terminal, fetches>>
    /\ wire' = Tail(wire)
    /\ UNCHANGED <<serverVars, source, stopped, timer>>

\* onerror: the source is closed for good; startPolling unless the end was announced.
SourceFails ==
    /\ source = "open" /\ stream = "closed" /\ wire = <<>>
    /\ source' = "closed"
    /\ IF terminal \/ stopped
       THEN UNCHANGED <<fetches, timer>>
       ELSE fetches' = Request("first", "any") /\ timer' = TRUE
    /\ UNCHANGED <<serverVars, wire, terminal, stopped, view>>

TimerFires ==
    /\ timer /\ Len(fetches) < MaxFetches
    /\ fetches' = Request("poll", "any")
    /\ UNCHANGED <<serverVars, wire, source, flags, view>>

\* GET of the scan reads the row; the answer is on its way.  One that fails is null, which only the
\* handler of an end looks at: for the others it is an answer that never comes.
ServerAnswers(i) ==
    /\ fetches[i].data = Waiting
    /\ \E d \in {scan} \union (IF fetches[i].kind = "final" THEN {Lost} ELSE {}) : fetches' = [fetches EXCEPT ![i].data = d]
    /\ UNCHANGED <<serverVars, wire, source, flags, view>>

Stop == stopped' = TRUE /\ source' = "closed" /\ timer' = FALSE /\ wire' = <<>>

\* wrong: an answer to a poll counts whenever it comes
Ignored_Never == FALSE
\* if (stopped) return
Ignored == stopped

ReceiveFetch(i) ==
    /\ fetches[i].kind # "done" /\ fetches[i].data # Waiting
    /\ LET f == fetches[i]
       IN  CASE f.kind = "final" ->
                  /\ view' = IF f.data.status = f.expects THEN Full(f.data) ELSE view
                  /\ Stop /\ UNCHANGED terminal
             [] f.kind # "final" /\ Ignored ->
                  UNCHANGED <<view, flags, source, wire>>
             [] f.kind # "final" /\ ~Ignored /\ f.data.status \in Ends ->
                  /\ view' = Full(f.data)
                  /\ terminal' = TRUE /\ Stop
             [] OTHER ->
                  /\ view' = IF f.kind = "poll" THEN Full(f.data) ELSE view
                  /\ UNCHANGED <<flags, source, wire>>
    /\ fetches' = [fetches EXCEPT ![i].kind = "done", ![i].data = Lost]
    /\ UNCHANGED serverVars

ViewNext ==
    \/ ScanMoves \/ StreamLooks \/ StreamBreaks
    \/ ReceiveEvent \/ SourceFails \/ TimerFires
    \/ \E i \in DOMAIN fetches : ServerAnswers(i) \/ ReceiveFetch(i)

ViewSpec == ViewInit /\ [][ViewNext]_viewVars

(***************************************************************************)
(* Properties.                                                             *)
(***************************************************************************)
\* Once the page shows an end it goes on showing that end, whichever events and answers are still on their
\* way, and it is an end the scan has had.
EndIsShownForGood ==
    [][/\ view.status \in Ends => view'.status = view.status
       /\ view'.status \in Ends => view'.status \in had]_view
=============================================================================
