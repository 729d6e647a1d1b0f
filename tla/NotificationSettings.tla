------------------------- MODULE NotificationSettings -------------------------
(***************************************************************************)
(* The NotificationSettings row and its three writers: the settings form   *)
(* (monitor/views.py), the weekly report and the history cleanup of the    *)
(* monitor loop (monitor/background.py), with the deliveries of a report   *)
(* (monitor/notifications.py).  The exclusion flags the form rewrites      *)
(* after the row are in Exclusions.  Left out are the LockReport rows      *)
(* behind the links of a report, and "Send weekly report now", which sends *)
(* the same report and writes nothing to the row.                          *)
(*                                                                         *)
(* Abstractions.  Time counts slots, WeekLength of them to an ISO week; a  *)
(* slot is a day of the report, from the chosen hour on.  A loop starts a  *)
(* report when it holds the monitor lease; that of another may have run    *)
(* out under a report still being sent (MonitorLease), so a start does not *)
(* wait for the others.  A delivery is refused when the webhook fails, has *)
(* no URL, or the report is too large to go inline.                        *)
(***************************************************************************)
EXTENDS Integers, FiniteSets

CONSTANTS
    WeekLength,     \* slots in an ISO week
    MaxTime,        \* bound: the last slot
    Destinations,   \* destinations of a report: the channel and the owners
    Loop            \* the monitor loops, one to a worker process

ASSUME SlotAssumption ==
    /\ WeekLength \in Nat \ {0} /\ MaxTime \in Nat /\ Destinations \in Nat \ {0}

VARIABLES
    time,       \* the current slot
    cfg,        \* the NotificationSettings row
    form,       \* copies of the row in settings requests (a set of at most one)
    run,        \* the loops: step, `now`, destinations left, delivered
    sends,      \* history: automatic runs of each week that some webhook accepted
    crashed,    \* history: weeks whose run died between a delivery and the marker
    reverted,   \* history: weeks whose marker a save of the form overwrote
    overlapped  \* history: weeks of automatic runs under way at the same time

history == <<sends, crashed, reverted, overlapped>>
vars == <<time, cfg, form, run, history>>

Slot == 0..MaxTime
Never == -1                    \* a date that is null
Week(t) == t \div WeekLength
Weeks == {Week(t) : t \in Slot}

Idle == [step |-> "idle", now |-> 0, left |-> 0, delivered |-> FALSE]

Init ==
    /\ time = 0
    /\ cfg \in [enabled : BOOLEAN, day : 0 .. WeekLength - 1,
                sentAt : {Never}, cleanedAt : {Never}]
    /\ form = {}
    /\ run = [s \in Loop |-> Idle]
    /\ sends = [w \in Weeks |-> 0]
    /\ crashed = {}
    /\ reverted = {}
    /\ overlapped = {}

Tick ==
    /\ time < MaxTime
    /\ time' = time + 1
    /\ UNCHANGED <<cfg, form, run, history>>

-----------------------------------------------------------------------------
(* The settings form: a request reads the row and writes back every column *)
(* of it.                                                                  *)

LoadForm ==
    /\ form = {}
    /\ form' = {cfg}
    /\ UNCHANGED <<time, cfg, run, history>>

\* report_day in range(7)
Days == 0 .. WeekLength - 1

\* config.save(): the markers go back to what they were when the form read them.
SaveForm ==
    /\ \E copy \in form, enabled \in BOOLEAN, day \in Days :
         /\ cfg' = [copy EXCEPT !.enabled = enabled, !.day = day]
         /\ reverted' = IF cfg.sentAt # copy.sentAt
                        THEN reverted \cup {Week(cfg.sentAt)} ELSE reverted
    /\ form' = {}
    /\ UNCHANGED <<time, run, sends, crashed, overlapped>>

\* A value is rejected, or the request dies.
RejectForm ==
    /\ form # {}
    /\ form' = {}
    /\ UNCHANGED <<time, cfg, run, history>>

-----------------------------------------------------------------------------
(* Sending reports.                                                        *)

\* send_weekly_reports: the channel gets no empty report, and a destination
\* without a webhook none at all.
Start(s) ==
    \E n \in 0..Destinations :
        run' = [run EXCEPT ![s] = [Idle EXCEPT !.step = "sending", !.now = time,
                                               !.left = n]]

\* The marker is a date; only its ISO week counts.
MarkerIgnored(now) == FALSE
SentThisWeek(now) == cfg.sentAt # Never /\ Week(cfg.sentAt) = Week(now)

Due(now) ==
    /\ cfg.enabled
    /\ now % WeekLength = cfg.day
    /\ ~SentThisWeek(now)

\* Automatic runs that are under way.
Running == {s \in Loop : run[s].step # "idle"}
RunWeek(s) == Week(run[s].now)

\* maybe_send_weekly_report, from its conditions into send_weekly_reports: the
\* row is read without a lock, and another loop may be sending.
StartWeekly(s) ==
    /\ run[s].step = "idle"
    /\ Due(time)
    /\ Start(s)
    /\ overlapped' = IF Running = {} THEN overlapped
                     ELSE overlapped \cup {Week(time)} \cup {RunWeek(q) : q \in Running}
    /\ UNCHANGED <<time, cfg, form, sends, crashed, reverted>>

\* The webhook of the next destination answers.
Post(s) ==
    /\ run[s].step = "sending" /\ run[s].left > 0
    /\ \E accepted \in BOOLEAN :
         /\ run' = [run EXCEPT ![s].left = @ - 1, ![s].delivered = @ \/ accepted]
         /\ sends' = IF accepted /\ ~run[s].delivered
                     THEN [sends EXCEPT ![RunWeek(s)] = IF @ < 2 THEN @ + 1 ELSE @]
                     ELSE sends
    /\ UNCHANGED <<time, cfg, form, crashed, reverted, overlapped>>

\* config.save(update_fields=["last_weekly_report_at", ...]) if delivered.
MarkedAnyway(s) == TRUE
Marked(s) == run[s].delivered

FinishSending(s) ==
    /\ run[s].step = "sending" /\ run[s].left = 0
    /\ cfg' = IF Marked(s) THEN [cfg EXCEPT !.sentAt = run[s].now] ELSE cfg
    /\ run' = [run EXCEPT ![s] = Idle]
    /\ UNCHANGED <<time, form, history>>

\* An exception or a crash: nothing is marked.
Die(s) ==
    /\ run[s].step # "idle"
    /\ crashed' = IF run[s].delivered THEN crashed \cup {RunWeek(s)} ELSE crashed
    /\ run' = [run EXCEPT ![s] = Idle]
    /\ UNCHANGED <<time, cfg, form, sends, reverted, overlapped>>

\* cleanup_monitor_history by a loop that sends nothing, one transaction that locks
\* the row: at most once in 24 hours, with a `now` that may be older than the lock.
Cleanup ==
    /\ Running # Loop
    /\ \E now \in Slot \cap (time - 1 .. time) :
         /\ cfg.cleanedAt = Never \/ now - cfg.cleanedAt >= 1
         /\ cfg' = [cfg EXCEPT !.cleanedAt = now]
    /\ UNCHANGED <<time, form, run, history>>

-----------------------------------------------------------------------------
Next ==
    \/ Tick
    \/ LoadForm \/ SaveForm \/ RejectForm
    \/ \E s \in Loop : StartWeekly(s) \/ Post(s) \/ FinishSending(s) \/ Die(s)
    \/ Cleanup

Spec == Init /\ [][Next]_vars

-----------------------------------------------------------------------------
(* Properties.                                                             *)

Settings == [enabled : BOOLEAN, day : 0 .. WeekLength - 1,
             sentAt : Slot \cup {Never}, cleanedAt : Slot \cup {Never}]

TypeOK ==
    /\ time \in Slot
    /\ cfg \in Settings
    /\ form \subseteq Settings /\ Cardinality(form) <= 1
    /\ run \in [Loop -> [step : {"idle", "sending"}, now : Slot,
                         left : 0..Destinations, delivered : BOOLEAN]]

\* The automatic report goes out once per ISO week, whatever the form does to
\* the day of the report and however often deliveries fail.  The exceptions: a run
\* that died before its marker, a form that wrote an older marker back, and runs of
\* two loops under way at once, which both passed the check of the marker or wrote
\* their markers in the other order.
OneReportPerWeek ==
    \A w \in Weeks \ (crashed \cup reverted \cup overlapped) : sends[w] <= 1

\* The marker is only set when an automatic report of that week was accepted:
\* a run that failed everywhere never uses the week up.
MarkerMeansSent == cfg.sentAt # Never => sends[Week(cfg.sentAt)] >= 1

-----------------------------------------------------------------------------
(* What the documentation says and the code does not do.                   *)

\* README.md:535: "tracked once per scheduled ISO week", crashes and loops that
\* overrun their lease apart.
TrackedOncePerWeek == \A w \in Weeks \ (crashed \cup overlapped) : sends[w] <= 1
=============================================================================
