------------------------------ MODULE LongQuery ------------------------------
(***************************************************************************)
(* Alerts about long-running queries of one registered database:           *)
(* process_long_queries (monitor/management/commands/monitor_locks.py) and *)
(* notify_long_query (monitor/notifications.py), with the setting that     *)
(* switches them on and the quiet hours.                                   *)
(*                                                                         *)
(* Abstractions.  An execution is its alert key: PID, user, start and SQL. *)
(* The running time is kept relative to the threshold, and an execution    *)
(* that ended never comes back, since a new one has another start.  Rows   *)
(* of excluded users and of healthgrid-control are not executions.         *)
(***************************************************************************)
EXTENDS Naturals, Functions

CONSTANTS
    Execution,   \* alert keys that can occur
    Alert,       \* primary keys of LongQueryAlert (bounds the rows kept at once)
    Poller,      \* monitor loops able to run a pass at the same time
    Webhooks     \* number of distinct destinations of a card: the shared channel,
                 \* the owner, both or none

ASSUME WebhooksAssumption == Webhooks \in Nat

VARIABLES
    query,      \* the monitored database: the stage of each execution
    enabled,    \* NotificationSettings.manual_query_alert_enabled
    window,     \* the notification window is open now
    row,        \* the LongQueryAlert table: a function from its primary keys
    pc,         \* where each poller is in process_long_queries
    open,       \* lock_notifications_open at the pass's `now`
    todo,       \* candidates without a row lookup yet
    seen,       \* seen_keys
    new,        \* new_alerts: rows that were not alerted when looked up
    hook,       \* number of webhooks already called
    delivered,  \* some webhook accepted the card
    got,        \* history: rows on a card each webhook accepted
    lost        \* history: rows on an accepted card whose pass was abandoned

passVars == <<pc, open, todo, seen, new, hook, delivered>>
history  == <<got, lost>>
vars     == <<query, enabled, window, row, passVars, history>>

Stage == {"absent", "short", "long", "ended"}
PC    == {"idle", "disabling", "tracking", "posting", "marking"}
Row   == [key : Execution, open : BOOLEAN, alerted : BOOLEAN]

Long == {e \in Execution : query[e] = "long"}
OpenRows == {i \in DOMAIN row : row[i].open}

Init ==
    /\ query = [e \in Execution |-> "absent"]
    /\ enabled \in BOOLEAN
    /\ window = TRUE
    /\ row = [i \in {} |-> 0]
    /\ pc = [p \in Poller |-> "idle"]
    /\ open = [p \in Poller |-> FALSE]
    /\ todo = [p \in Poller |-> {}]
    /\ seen = [p \in Poller |-> {}]
    /\ new = [p \in Poller |-> {}]
    /\ hook = [p \in Poller |-> 0]
    /\ delivered = [p \in Poller |-> FALSE]
    /\ got = [h \in 1..Webhooks |-> {}]
    /\ lost = {}

-----------------------------------------------------------------------------
(* The monitored database, the clock and the settings form.                *)

Advance(e, from, to) ==
    /\ query[e] = from
    /\ query' = [query EXCEPT ![e] = to]
    /\ UNCHANGED <<enabled, window, row, passVars, history>>

Begin(e)    == Advance(e, "absent", "short")
Lengthen(e) == Advance(e, "short", "long")
End(e)      == Advance(e, "short", "ended") \/ Advance(e, "long", "ended")

ToggleWindow ==
    /\ window' = ~window
    /\ UNCHANGED <<query, enabled, row, passVars, history>>

ToggleAlerts ==
    /\ enabled' = ~enabled
    /\ UNCHANGED <<query, window, row, passVars, history>>

\* cleanup_monitor_history: resolved rows past the retention are deleted.  The
\* retention is at least a day, so no running pass still refers to them.
CleanupHistory ==
    /\ \E old \in SUBSET (DOMAIN row \ (OpenRows \cup UNION Range(new))) :
         /\ old # {}
         /\ row' = Restrict(row, DOMAIN row \ old)
         /\ got' = [h \in 1..Webhooks |-> got[h] \ old]
         /\ lost' = lost \ old
    /\ UNCHANGED <<query, enabled, window, passVars>>

-----------------------------------------------------------------------------
(* A pass of process_long_queries.                                         *)

\* The pass is over: its local variables are gone.
Finish(p) ==
    /\ pc' = [pc EXCEPT ![p] = "idle"]
    /\ open' = [open EXCEPT ![p] = FALSE]
    /\ todo' = [todo EXCEPT ![p] = {}]
    /\ seen' = [seen EXCEPT ![p] = {}]
    /\ new' = [new EXCEPT ![p] = {}]
    /\ hook' = [hook EXCEPT ![p] = 0]
    /\ delivered' = [delivered EXCEPT ![p] = FALSE]

\* `now`, the snapshot and NotificationSettings.load.  A ConnectionError ends
\* the pass here with nothing changed: a stuttering step.
Fetch(p) ==
    /\ pc[p] = "idle"
    /\ pc' = [pc EXCEPT ![p] = IF enabled THEN "tracking" ELSE "disabling"]
    /\ open' = [open EXCEPT ![p] = window]
    /\ todo' = [todo EXCEPT ![p] = Long]
    /\ seen' = [seen EXCEPT ![p] = Long]
    /\ UNCHANGED <<query, enabled, window, row, new, hook, delivered, history>>

Closed(ids) == [i \in DOMAIN row |->
                  IF i \in ids THEN [row[i] EXCEPT !.open = FALSE] ELSE row[i]]

\* Alerts are switched off: every open row is resolved and the pass is over.
ResolveAll(p) ==
    /\ pc[p] = "disabling"
    /\ row' = Closed(OpenRows)
    /\ Finish(p)
    /\ UNCHANGED <<query, enabled, window, history>>

RowsOf(e) == {i \in OpenRows : row[i].key = e}

\* if alert.alerted_at is None: new_alerts.append(alert)
AlwaysFresh(i) == TRUE
Fresh(i) == i \in DOMAIN row => ~row[i].alerted

\* One iteration, a transaction: get_or_create(resolved_at=None).  The constraint
\* unique_active_long_query_alert makes the lookup and the insertion one step.
Track(p) ==
    /\ pc[p] = "tracking"
    /\ \E e \in todo[p] :
         /\ todo' = [todo EXCEPT ![p] = @ \ {e}]
         /\ \E i \in (IF RowsOf(e) = {} THEN Alert \ DOMAIN row
                                       ELSE RowsOf(e)) :
              /\ row' = IF i \in DOMAIN row THEN row
                        ELSE [j \in DOMAIN row \cup {i} |->
                                IF j = i THEN [key |-> e, open |-> TRUE,
                                               alerted |-> FALSE]
                                         ELSE row[j]]
              /\ new' = [new EXCEPT ![p] = IF Fresh(i) THEN @ \cup {i} ELSE @]
    /\ UNCHANGED <<query, enabled, window, pc, open, seen, hook, delivered,
                   history>>

\* Rows of executions that are no candidates any more are resolved; then
\* whether there is anything to send is decided.
ResolveEnded(p) ==
    /\ pc[p] = "tracking" /\ todo[p] = {}
    /\ row' = Closed({i \in OpenRows : row[i].key \notin seen[p]})
    /\ IF new[p] # {} /\ open[p] /\ Webhooks > 0
       THEN /\ pc' = [pc EXCEPT ![p] = "posting"]
            /\ UNCHANGED <<open, todo, seen, new, hook, delivered>>
       ELSE Finish(p)
    /\ UNCHANGED <<query, enabled, window, history>>

NeverLast(h) == FALSE
Last(h) == h = Webhooks

\* One iteration of notify_long_query: a webhook that fails is only logged.
Post(p) ==
    LET h == hook[p] + 1
    IN  /\ pc[p] = "posting"
        /\ \E accepted \in BOOLEAN :
             /\ got' = IF accepted THEN [got EXCEPT ![h] = @ \cup new[p]] ELSE got
             /\ delivered' = [delivered EXCEPT ![p] = @ \/ accepted]
        /\ IF Last(h)
           THEN /\ hook' = [hook EXCEPT ![p] = 0]
                /\ pc' = [pc EXCEPT ![p] = "marking"]
           ELSE hook' = [hook EXCEPT ![p] = h] /\ UNCHANGED pc
        /\ UNCHANGED <<query, enabled, window, row, open, todo, seen, new, lost>>

\* if notify_long_query(...): update(alerted_at=now)
SentAnyway(p) == TRUE
NeverSent(p) == FALSE
Sent(p) == delivered[p]

Mark(p) ==
    /\ pc[p] = "marking"
    /\ row' = [i \in DOMAIN row |->
                 IF Sent(p) /\ i \in new[p] THEN [row[i] EXCEPT !.alerted = TRUE]
                 ELSE row[i]]
    /\ Finish(p)
    /\ UNCHANGED <<query, enabled, window, history>>

\* An exception or a crash; what earlier statements committed stays.
Abandon(p) ==
    /\ pc[p] # "idle"
    /\ lost' = IF delivered[p] THEN lost \cup new[p] ELSE lost
    /\ Finish(p)
    /\ UNCHANGED <<query, enabled, window, row, got>>

-----------------------------------------------------------------------------
Pass(p) ==
    \/ Fetch(p) \/ ResolveAll(p) \/ Track(p) \/ ResolveEnded(p)
    \/ Post(p) \/ Mark(p)

Next ==
    \/ \E p \in Poller : Pass(p) \/ Abandon(p)
    \/ \E e \in Execution : Begin(e) \/ Lengthen(e) \/ End(e)
    \/ ToggleWindow \/ ToggleAlerts
    \/ CleanupHistory

Spec == Init /\ [][Next]_vars

\* The monitor loop never stops by itself and the daily cleanup runs from it.
FairSpec ==
    /\ Spec
    /\ \A p \in Poller : WF_vars(Pass(p))
    /\ WF_vars(CleanupHistory)

-----------------------------------------------------------------------------
(* Properties.                                                             *)

TypeOK ==
    /\ query \in [Execution -> Stage]
    /\ enabled \in BOOLEAN
    /\ window \in BOOLEAN
    /\ DOMAIN row \subseteq Alert
    /\ row \in [DOMAIN row -> Row]
    /\ pc \in [Poller -> PC]
    /\ open \in [Poller -> BOOLEAN]
    /\ todo \in [Poller -> SUBSET Execution]
    /\ seen \in [Poller -> SUBSET Execution]
    /\ new \in [Poller -> SUBSET Alert]
    /\ hook \in [Poller -> 0..Webhooks]
    /\ delivered \in [Poller -> BOOLEAN]
    /\ got \in [1..Webhooks -> SUBSET Alert]
    /\ lost \subseteq Alert

\* However many passes track at once, an execution has at most one open row
\* (get_or_create and the constraint unique_active_long_query_alert).
OneOpenRowPerExecution ==
    \A i, j \in OpenRows : row[i].key = row[j].key => i = j

\* alerted_at is the truth about delivery: it is set only on rows some webhook
\* accepted on a card, so a failed delivery is tried again by the next pass.
AlertedMeansSent ==
    \A i \in DOMAIN row :
        row[i].alerted => \E h \in 1..Webhooks : i \in got[h]

\* And conversely: outside a running pass an accepted row is marked, unless the
\* process died between the delivery and the update of alerted_at.
SentIsMarked ==
    \A h \in 1..Webhooks : \A i \in got[h] :
        \/ row[i].alerted
        \/ i \in lost
        \/ \E p \in Poller : i \in new[p] /\ delivered[p]

\* "Track and notify once" (monitor_locks.py:57): a webhook about to be
\* called has not accepted a card that lists one of the incidents of this one,
\* unless the process died between that delivery and the update of alerted_at.
IncidentSentOnce ==
    \A p \in Poller :
        pc[p] = "posting" =>
            \A h \in hook[p] + 1 .. Webhooks : got[h] \cap new[p] \subseteq lost

\* No pass is abandoned in this step (the step that ends a pass with nothing to
\* send changes the state as an abandoned pass does), and no card is refused by
\* every webhook.
Healthy ==
    \A p \in Poller : (Abandon(p) => Pass(p)) /\ ~(Mark(p) /\ ~delivered[p])

\* A query that keeps running long while alerts are on and the window is
\* open eventually appears on an accepted card, quiet hours and failed deliveries
\* before notwithstanding.
LongQueryReported ==
    \A e \in Execution :
        (<>[](query[e] = "long" /\ enabled /\ window) /\ <>[][Healthy]_vars) =>
            <>(\E h \in 1..Webhooks : \E i \in got[h] : row[i].key = e)
=============================================================================
