----------------------------- MODULE LockMonitor -----------------------------
(***************************************************************************)
(* The lock monitor of HealthGrid for one registered database: the passes  *)
(* of process_instance (monitor/management/commands/monitor_locks.py), the *)
(* LockAlert rows and the LockNotificationState row they maintain, the     *)
(* webhook they call, and the dashboard kills that attribute incidents     *)
(* (monitor/views.py) while passes run.                                    *)
(*                                                                         *)
(* One action is one transaction, or one statement executed outside a      *)
(* transaction, of the application database; the webhook call inside the   *)
(* last transaction is a step of its own, because the process can fail     *)
(* after the card has gone out and before the transaction commits.         *)
(*                                                                         *)
(* Abstractions.  A lock is its PID pair (lock_key).  The waiting time is  *)
(* kept only relative to the alert threshold.  summary_fingerprint is      *)
(* injective on key sets: the fingerprint of S is <<S>>, and the blank     *)
(* fingerprint is <<>>.  A card is its event and its set of PID pairs.     *)
(* Long-query rows are disjoint state and are not part of this module; an  *)
(* exception anywhere in a pass, theirs included, is Abandon.              *)
(***************************************************************************)
EXTENDS Naturals, FiniteSets, Functions

CONSTANTS
    Pid,              \* backend process ids of the monitored database
    Key,              \* lock keys <<blocked_pid, blocking_pid>> that can occur
    Killable,         \* the pids an operator may kill from the dashboard
    Poller,           \* monitor loops able to run a pass at the same time
    Incident,         \* primary keys of LockAlert (bounds the rows kept at once)
    StormThreshold,   \* NotificationSettings.lock_storm_threshold, 0 disables
    ScheduleEnabled   \* NotificationSettings.notification_schedule_enabled

ASSUME KeyAssumption == Key \subseteq Pid \X Pid
ASSUME KillableAssumption == Killable \subseteq Pid
ASSUME StormAssumption == StormThreshold \in Nat
ASSUME ScheduleAssumption == ScheduleEnabled \in BOOLEAN

VARIABLES
    lock,       \* the target database: what it reports about each PID pair
    window,     \* the notification window is open now
    killed,     \* pids terminated by an operator, attribution not yet written
    alert,      \* the LockAlert table: a function from its primary keys
    note,       \* the LockNotificationState row
    pc,         \* where each poller is in process_instance
    seen,       \* PID pairs of the snapshot of the pass
    due,        \* those of them waiting at least the threshold
    open,       \* lock_notifications_open at the pass's `now`
    toClear,    \* to_clear: rows that were open and are not in the snapshot
    manual,     \* some cleared_alerts copy carries clear_reason "manual_kill"
    current,    \* current_keys
    draft,      \* the card being delivered in the open transaction
    announced,  \* history: PID pairs on the last card a webhook accepted
    drift,      \* history: the row was rewritten or rolled back since that card
    stormSaid   \* history: a storm card is recorded and the table has not
                \*          been empty since

dbVars   == <<alert, note>>
passVars == <<pc, seen, due, open, toClear, manual, current, draft>>
history  == <<announced, drift, stormSaid>>
vars     == <<lock, window, killed, dbVars, passVars, history>>

Stage  == {"none", "young", "old"}
Reason == {"", "auto_clear", "manual_kill"}
Event  == {"storm", "initial", "update", "cleared"}
Row    == [key : Key, open : BOOLEAN, alerted : BOOLEAN, reason : Reason]
PC     == {"idle", "fetched", "tracked", "clearing", "labelling", "cleared",
           "listed", "sending", "sent"}

NoCard == [event |-> "cleared", keys |-> {}]

-----------------------------------------------------------------------------
(* Queries on the two tables.                                              *)

OpenRows == {i \in DOMAIN alert : alert[i].open}
KeysOf(ids) == {alert[i].key : i \in ids}
OpenKeys == KeysOf(OpenRows)

\* eligible_alerts: open incidents that reached the threshold at some pass.
EligibleRows == {i \in OpenRows : alert[i].alerted}

\* Some transaction holds the state row (SELECT ... FOR UPDATE).
NeverLocked == FALSE
RowLocked == \E p \in Poller : pc[p] \in {"sending", "sent"}

IsStorm == StormThreshold > 0 /\ Cardinality(OpenRows) >= StormThreshold

-----------------------------------------------------------------------------
Init ==
    /\ lock = [k \in Key |-> "none"]
    /\ window = TRUE
    /\ killed = {}
    /\ alert = [i \in {} |-> 0]
    /\ note = [fp |-> <<>>, keys |-> {}, storm |-> FALSE]
    /\ pc = [p \in Poller |-> "idle"]
    /\ seen = [p \in Poller |-> {}]
    /\ due = [p \in Poller |-> {}]
    /\ open = [p \in Poller |-> FALSE]
    /\ toClear = [p \in Poller |-> {}]
    /\ manual = [p \in Poller |-> FALSE]
    /\ current = [p \in Poller |-> {}]
    /\ draft = [p \in Poller |-> NoCard]
    /\ announced = {}
    /\ drift = FALSE
    /\ stormSaid = FALSE

-----------------------------------------------------------------------------
(* The monitored database, the clock and the operators.                    *)

Block(k) ==
    /\ lock[k] = "none"
    /\ lock' = [lock EXCEPT ![k] = "young"]
    /\ UNCHANGED <<window, killed, dbVars, passVars, history>>

\* The wait passes NotificationSettings.threshold_seconds.
Age(k) ==
    /\ lock[k] = "young"
    /\ lock' = [lock EXCEPT ![k] = "old"]
    /\ UNCHANGED <<window, killed, dbVars, passVars, history>>

Unblock(k) ==
    /\ lock[k] # "none"
    /\ lock' = [lock EXCEPT ![k] = "none"]
    /\ UNCHANGED <<window, killed, dbVars, passVars, history>>

ToggleWindow ==
    /\ ScheduleEnabled
    /\ window' = ~window
    /\ UNCHANGED <<lock, killed, dbVars, passVars, history>>

Involves(k, pid) == pid \in {k[1], k[2]}

\* kill_pid returns True: every lock the session takes part in is gone.
KillSession(pid) ==
    /\ pid \notin killed
    /\ lock' = [k \in Key |-> IF Involves(k, pid) THEN "none" ELSE lock[k]]
    /\ killed' = killed \cup {pid}
    /\ UNCHANGED <<window, dbVars, passVars, history>>

\* _mark_manual_kill: one UPDATE over the rows that are still open.
MarkManualKill(pid) ==
    /\ pid \in killed
    /\ killed' = killed \ {pid}
    /\ alert' = [i \in DOMAIN alert |->
                   IF alert[i].open /\ Involves(alert[i].key, pid)
                   THEN [alert[i] EXCEPT !.reason = "manual_kill"]
                   ELSE alert[i]]
    /\ UNCHANGED <<lock, window, note, passVars, history>>

\* _safe_mark_manual_kill swallows a DatabaseError; the worker may also die.
MarkFails(pid) ==
    /\ pid \in killed
    /\ killed' = killed \ {pid}
    /\ UNCHANGED <<lock, window, dbVars, passVars, history>>

\* cleanup_monitor_history: resolved rows past the retention are deleted.  The
\* retention is at least a day, so no running pass still refers to them.
CleanupHistory ==
    /\ \E old \in SUBSET (DOMAIN alert
                            \ (OpenRows \cup UNION {toClear[p] : p \in Poller})) :
         /\ old # {}
         /\ alert' = Restrict(alert, DOMAIN alert \ old)
    /\ UNCHANGED <<lock, window, killed, note, passVars, history>>

-----------------------------------------------------------------------------
(* A pass of process_instance.                                             *)

\* The pass is over: its local variables are gone.
Finish(p) ==
    /\ pc' = [pc EXCEPT ![p] = "idle"]
    /\ seen' = [seen EXCEPT ![p] = {}]
    /\ due' = [due EXCEPT ![p] = {}]
    /\ open' = [open EXCEPT ![p] = FALSE]
    /\ toClear' = [toClear EXCEPT ![p] = {}]
    /\ manual' = [manual EXCEPT ![p] = FALSE]
    /\ current' = [current EXCEPT ![p] = {}]
    /\ draft' = [draft EXCEPT ![p] = NoCard]

\* `now`, fetch_activity and NotificationSettings.load.  A ConnectionError
\* ends the pass here with nothing changed: a stuttering step.
Fetch(p) ==
    /\ pc[p] = "idle"
    /\ pc' = [pc EXCEPT ![p] = "fetched"]
    /\ seen' = [seen EXCEPT ![p] = {k \in Key : lock[k] # "none"}]
    /\ due' = [due EXCEPT ![p] = {k \in Key : lock[k] = "old"}]
    /\ open' = [open EXCEPT ![p] = window]
    /\ UNCHANGED <<lock, window, killed, dbVars, toClear, manual, current,
                   draft, history>>

\* get_or_create(resolved_at=None): only these keys need a new row.
MissingAlways(p) == seen[p]
Missing(p) == seen[p] \ OpenKeys

\* A row that is open keeps its state, and is eligible once it is due.
Reopened(p, r) ==
    IF r.key \in due[p] THEN [r EXCEPT !.open = TRUE, !.alerted = TRUE] ELSE r
Refreshed(p, r) ==
    IF r.open /\ r.key \in due[p] THEN [r EXCEPT !.alerted = TRUE] ELSE r

\* _upsert_lock_alerts, one transaction.
Upsert(p) ==
    /\ pc[p] = "fetched"
    /\ \E new \in SUBSET (Incident \ DOMAIN alert) :
       \E keyOf \in Bijection(new, Missing(p)) :
         alert' = [i \in DOMAIN alert \cup new |->
                     IF i \in new
                     THEN [key |-> keyOf[i], open |-> TRUE,
                           alerted |-> keyOf[i] \in due[p], reason |-> ""]
                     ELSE Refreshed(p, alert[i])]
    /\ pc' = [pc EXCEPT ![p] = "tracked"]
    /\ due' = [due EXCEPT ![p] = {}]
    /\ UNCHANGED <<lock, window, killed, note, seen, open, toClear, manual,
                   current, draft, history>>

\* The loop over active_alerts: decides on in-memory copies which rows to
\* clear and what their clear_reason is.
Scan(p) ==
    LET gone == {i \in OpenRows : alert[i].key \notin seen[p]}
    IN  /\ pc[p] = "tracked"
        /\ pc' = [pc EXCEPT ![p] = IF gone = {} THEN "cleared" ELSE "clearing"]
        /\ toClear' = [toClear EXCEPT ![p] = gone]
        /\ manual' = [manual EXCEPT ![p] =
             \E i \in gone : alert[i].alerted /\ alert[i].reason = "manual_kill"]
        /\ seen' = [seen EXCEPT ![p] = {}]
        /\ UNCHANGED <<lock, window, killed, dbVars, due, open, current, draft,
                       history>>

\* update(resolved_at=now)
Resolve(p) ==
    /\ pc[p] = "clearing"
    /\ pc' = [pc EXCEPT ![p] = "labelling"]
    /\ alert' = [i \in DOMAIN alert |->
                   IF i \in toClear[p] THEN [alert[i] EXCEPT !.open = FALSE]
                   ELSE alert[i]]
    /\ stormSaid' = (stormSaid /\ \E i \in DOMAIN alert : alert'[i].open)
    /\ UNCHANGED <<lock, window, killed, note, seen, due, open, toClear, manual,
                   current, draft, announced, drift>>

\* update(clear_reason="auto_clear") where clear_reason is still blank.
OverwrittenReason(r) == "auto_clear"
UnknownReason(r) == IF r = "" THEN "expired" ELSE r
AutoReason(r) == IF r = "" THEN "auto_clear" ELSE r

Label(p) ==
    /\ pc[p] = "labelling"
    /\ pc' = [pc EXCEPT ![p] = "cleared"]
    /\ alert' = [i \in DOMAIN alert |->
                   IF i \in toClear[p]
                   THEN [alert[i] EXCEPT !.reason = AutoReason(@)]
                   ELSE alert[i]]
    /\ toClear' = [toClear EXCEPT ![p] = {}]
    /\ UNCHANGED <<lock, window, killed, note, seen, due, open, manual, current,
                   draft, history>>

\* The eligible_alerts query, before the state row is locked.
ListEligible(p) ==
    /\ pc[p] = "cleared"
    /\ pc' = [pc EXCEPT ![p] = "listed"]
    /\ current' = [current EXCEPT ![p] = KeysOf(EligibleRows)]
    /\ UNCHANGED <<lock, window, killed, dbVars, seen, due, open, toClear,
                   manual, draft, history>>

-----------------------------------------------------------------------------
(* The transaction on the state row.  The five actions below are the ways  *)
(* it can decide; those that send nothing commit in the same step.         *)

Deciding(p) == pc[p] = "listed" /\ ~RowLocked

\* Outside the window the fingerprint is blanked and the key set replaced;
\* storm_active is left as it is.
QuietPass(p) ==
    /\ Deciding(p) /\ ~open[p]
    /\ note' = [note EXCEPT !.fp = <<>>, !.keys = current[p]]
    /\ drift' = TRUE
    /\ Finish(p)
    /\ UNCHANGED <<lock, window, killed, alert, announced, stormSaid>>

Send(p, card) ==
    /\ pc' = [pc EXCEPT ![p] = "sending"]
    /\ draft' = [draft EXCEPT ![p] = card]
    /\ current' = [current EXCEPT ![p] = {}]
    /\ UNCHANGED <<lock, window, killed, dbVars, seen, due, open, toClear,
                   manual, history>>

ReportStorm(p) ==
    /\ Deciding(p) /\ open[p]
    /\ IsStorm /\ ~note.storm
    /\ Send(p, [event |-> "storm", keys |-> OpenKeys])

\* A reported storm lasts until a pass finds no open incident at all.
StormLasts == note.storm /\ OpenRows # {}

Suppress(p) ==
    /\ Deciding(p) /\ open[p]
    /\ StormLasts
    /\ Finish(p)
    /\ UNCHANGED <<lock, window, killed, dbVars, history>>

NeverSame(p) == FALSE
SameAsLast(p) == note.fp = <<current[p]>>

Nothing(p) == note.keys = {} /\ current[p] = {}

\* Nothing to send: unchanged since the last card, or the first pass over a
\* database without locks, which only initialises the fingerprint.
NoChange(p) ==
    /\ Deciding(p) /\ open[p]
    /\ ~IsStorm /\ ~StormLasts
    /\ SameAsLast(p) \/ Nothing(p)
    /\ note' = [note EXCEPT !.fp = <<current[p]>>, !.storm = FALSE]
    /\ Finish(p)
    /\ UNCHANGED <<lock, window, killed, alert, history>>

ReportChange(p) ==
    /\ Deciding(p) /\ open[p]
    /\ ~IsStorm /\ ~StormLasts
    /\ ~SameAsLast(p) /\ ~Nothing(p)
    /\ Send(p, [event |-> CASE note.keys = {}    -> "initial"
                            [] current[p] = {}   -> "cleared"
                            [] OTHER             -> "update",
                keys |-> current[p]])

-----------------------------------------------------------------------------
(* Delivery, inside the transaction that holds the state row.              *)

\* notify_lock_summary returns True: at least one webhook accepted the card.
Deliver(p) ==
    /\ pc[p] = "sending"
    /\ pc' = [pc EXCEPT ![p] = "sent"]
    /\ announced' = draft[p].keys
    /\ UNCHANGED <<lock, window, killed, dbVars, seen, due, open, toClear,
                   manual, current, draft, drift, stormSaid>>

\* What the transaction commits once the card has been delivered.
RecordedWithoutStorm(p) ==
    [fp |-> <<draft[p].keys>>, keys |-> draft[p].keys, storm |-> FALSE]
RecordedEligible(p) ==
    [fp |-> <<draft[p].keys>>, keys |-> KeysOf(EligibleRows),
     storm |-> draft[p].event = "storm"]
Recorded(p) ==
    [fp |-> <<draft[p].keys>>, keys |-> draft[p].keys,
     storm |-> draft[p].event = "storm"]

Commit(p) ==
    /\ pc[p] = "sent"
    /\ note' = Recorded(p)
    /\ drift' = FALSE
    /\ stormSaid' = (stormSaid \/ (draft[p].event = "storm" /\ OpenRows # {}))
    /\ Finish(p)
    /\ UNCHANGED <<lock, window, killed, alert, announced>>

\* No webhook accepted it: only a reset of storm_active made earlier in the
\* same transaction is committed; the next pass tries again.
RecordedAnyway(p) == Recorded(p)
AfterFailure(p) == [note EXCEPT !.storm = FALSE]

DeliveryFails(p) ==
    /\ pc[p] = "sending"
    /\ note' = AfterFailure(p)
    /\ Finish(p)
    /\ UNCHANGED <<lock, window, killed, alert, history>>

\* An exception or a crash: the open transaction is rolled back and the pass
\* is not resumed; what earlier statements committed stays.
Abandon(p) ==
    /\ pc[p] # "idle"
    /\ drift' = (drift \/ pc[p] = "sent")
    /\ Finish(p)
    /\ UNCHANGED <<lock, window, killed, dbVars, announced, stormSaid>>

-----------------------------------------------------------------------------
Pass(p) ==
    \/ Fetch(p) \/ Upsert(p) \/ Scan(p) \/ Resolve(p) \/ Label(p)
    \/ ListEligible(p)
    \/ QuietPass(p) \/ ReportStorm(p) \/ Suppress(p) \/ NoChange(p)
    \/ ReportChange(p)
    \/ Deliver(p) \/ Commit(p) \/ DeliveryFails(p)

Environment ==
    \/ \E k \in Key : Block(k) \/ Age(k) \/ Unblock(k)
    \/ ToggleWindow
    \/ \E pid \in Killable :
         KillSession(pid) \/ MarkManualKill(pid) \/ MarkFails(pid)

Next ==
    \/ \E p \in Poller : Pass(p) \/ Abandon(p)
    \/ CleanupHistory
    \/ Environment

Spec == Init /\ [][Next]_vars

\* The monitor loop never stops by itself and the daily cleanup runs from it.
FairSpec ==
    /\ Spec
    /\ \A p \in Poller : WF_vars(Pass(p))
    /\ WF_vars(CleanupHistory)
-----------------------------------------------------------------------------
(* Properties.                                                             *)

Note == [fp : {<<>>} \cup {<<S>> : S \in SUBSET Key}, keys : SUBSET Key,
         storm : BOOLEAN]

\* Every variable keeps its type; in particular the table only holds rows
\* whose clear_reason is blank, "auto_clear" or "manual_kill" (models.LockAlert).
TypeOK ==
    /\ lock \in [Key -> Stage]
    /\ window \in BOOLEAN
    /\ killed \subseteq Killable
    /\ DOMAIN alert \subseteq Incident
    /\ alert \in [DOMAIN alert -> Row]
    /\ note \in Note
    /\ pc \in [Poller -> PC]
    /\ seen \in [Poller -> SUBSET Key]
    /\ due \in [Poller -> SUBSET Key]
    /\ open \in [Poller -> BOOLEAN]
    /\ toClear \in [Poller -> SUBSET Incident]
    /\ manual \in [Poller -> BOOLEAN]
    /\ current \in [Poller -> SUBSET Key]
    /\ draft \in [Poller -> [event : Event, keys : SUBSET Key]]
    /\ announced \subseteq Key
    /\ drift \in BOOLEAN
    /\ stormSaid \in BOOLEAN

\* However many passes upsert at once, a PID pair has at most one open
\* incident (_upsert_lock_alerts and the constraint unique_active_lock_alert).
OneOpenIncidentPerKey ==
    \A i, j \in OpenRows : alert[i].key = alert[j].key => i = j

\* The transactions on the state row are serialised by SELECT ... FOR UPDATE.
OneCardInFlight ==
    \A p, q \in Poller :
        pc[p] \in {"sending", "sent"} /\ pc[q] \in {"sending", "sent"} => p = q

\* last_fingerprint, unless blanked by quiet hours, is the fingerprint of
\* last_active_keys: the two fields that lines 205 and 250 of monitor_locks.py
\* compare with the current set never disagree about what was reported.
FingerprintMatchesKeys == note.fp # <<>> => note.fp = <<note.keys>>

\* last_active_keys is the set of PID pairs on the last card that went out,
\* except after quiet hours or a rollback that followed a delivery, and between
\* a delivery and its commit.
RecordMatchesLastCard ==
    ~drift /\ (\A p \in Poller : pc[p] # "sent") => announced = note.keys

\* "This storm alert will not repeat until all locks clear"
\* (notifications.py:94): while a recorded storm has not cleared, the flag that
\* suppresses a second card stays set, quiet hours and failed deliveries included.
StormFlagKept == stormSaid => note.storm

\* "Unchanged locks do not generate periodic duplicate cards" (README.md:509):
\* a card other than a storm card never repeats the PID pairs of the card
\* before it, unless quiet hours or a rollback came between.
NoRepeatedCard ==
    [][\A p \in Poller :
         pc[p] = "sending" /\ pc'[p] = "sent" /\ draft[p].event # "storm"
           => drift \/ draft[p].keys # announced]_vars

\* One card per storm: between a recorded storm card and the next storm card
\* the table of open incidents has been empty.
OneStormCardPerStorm ==
    [][\A p \in Poller :
         pc[p] = "sending" /\ pc'[p] = "sent" /\ draft[p].event = "storm"
           => ~stormSaid]_vars

\* Attribution is never lost: once a row names the operator who killed the
\* session, no pass turns its reason into "auto_clear", whatever in-memory copy
\* of the row the pass works on.
ManualKillSticks ==
    [][\A i \in DOMAIN alert \cap DOMAIN alert' :
         alert[i].reason = "manual_kill" => alert'[i].reason = "manual_kill"]_vars

\* An incident is never reopened: a second occurrence of the same PID pair is
\* a new row, so a resolved row keeps its resolution time.
ResolvedIsFinal ==
    [][\A i \in DOMAIN alert \cap DOMAIN alert' :
         alert'[i].open => alert[i].open /\ alert'[i].key = alert[i].key]_vars

Present(w) == {k \in Key : w[k] # "none"}
Overdue(w) == {k \in Key : w[k] = "old"}

\* No delivery fails and no pass is abandoned in this step (the step that ends
\* a pass with nothing to send changes the state as an abandoned pass does).
Healthy == \A p \in Poller : ~DeliveryFails(p) /\ (Abandon(p) => Pass(p))

\* Once the locks stop changing, the window stays open and failures stop, the
\* incident table comes to agree with the database, and either a storm is being
\* suppressed or the record lists every eligible incident, and so does the last
\* card, unless the record was rolled back or replaced by quiet hours after it.
AnnouncementConverges ==
    \A w \in [Key -> Stage] :
        (<>[](lock = w /\ window) /\ <>[][Healthy]_vars) =>
            <>[](/\ OpenKeys = Present(w)
                 /\ Overdue(w) \subseteq KeysOf(EligibleRows)
                 /\ \/ note.storm
                    \/ /\ note.fp = <<KeysOf(EligibleRows)>>
                       /\ drift \/ announced = KeysOf(EligibleRows))

-----------------------------------------------------------------------------
(* What the channel is promised.                                           *)

\* The card that is out and whose transaction has not committed.
Unrecorded ==
    IF \E p \in Poller : pc[p] = "sent" /\ draft[p].event = "storm" THEN "storm"
    ELSE IF \E p \in Poller : pc[p] = "sent" THEN "card" ELSE "none"

Ledger == INSTANCE CardLedger WITH
    Item <- Key, shown <- announced, pending <- Unrecorded, unsure <- drift, storm <- stormSaid

\* The passes implement CardLedger: whatever the passes, failures, restarts and
\* quiet hours, the cards of a channel are those of the ledger.  "Unchanged locks
\* do not generate periodic duplicate cards" (README.md:509) and "this storm alert
\* will not repeat until all locks clear" (notifications.py:94) are two of its
\* guards.
ImplementsCardLedger == Ledger!Spec

-----------------------------------------------------------------------------
(* What the documentation says and the code does not do.                   *)

\* README.md:517: "Eligible locks surviving until the window opens get a fresh
\* summary": when quiet hours blanked the fingerprint and eligible locks remain,
\* the first decision in the open window is not suppressed as part of a storm,
\* unless that storm was reported and is still going on.
SurvivorsAnnounced ==
    \A p \in Poller :
        Deciding(p) /\ open[p] /\ note.fp = <<>> /\ current[p] # {}
          => ~StormLasts \/ stormSaid

\* README.md:511: "Successful dashboard kills mark affected incidents with the
\* dashboard username for subsequent clear reporting": when every incident on
\* record for the reported pairs is marked, the final card says so.
KillReported ==
    [][\A p \in Poller :
         LET reported == {i \in DOMAIN alert :
                            alert[i].alerted /\ alert[i].key \in note.keys}
         IN  pc[p] = "sending" /\ pc'[p] = "sent" /\ draft[p].event = "cleared"
               /\ reported # {}
               /\ (\A i \in reported : alert[i].reason = "manual_kill")
               => manual[p]]_vars
=============================================================================
