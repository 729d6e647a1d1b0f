------------------------------- MODULE Exclusions -------------------------------
(***************************************************************************)
(* RDSInstance.exclude_from_global_notifications: the flag that keeps the  *)
(* cards of an instance off the shared Teams channel, its writers (adding  *)
(* and extending, the global settings form and the owner form of           *)
(* monitor/views.py, the API of monitor/serializers.py) and the monitor    *)
(* cycle that reads it.                                                    *)
(*                                                                         *)
(* Abstractions.  The other columns are those of InstanceRegistry and      *)
(* NotificationSettings, removal is in InstanceRegistry.  Requests are     *)
(* those of administrators: the forms ignore the flag of anybody else, the *)
(* API refuses it.  A form chooses when it is saved.  Both webhooks are    *)
(* configured; what a cycle finds to report is in LockMonitor and LongQuery. *)
(***************************************************************************)
CONSTANTS
    Admin,      \* administrators, each with one request at a time
    Instance    \* instances that may be registered

VARIABLES
    registered, \* registered instances
    active,     \* instances with is_active
    excluded,   \* instances with the flag
    request,    \* the request of each administrator
    cycle,      \* the instances a monitor cycle has still to process, as it read them
    wanted,     \* the instances whose exclusion was chosen last (history)
    doubtful    \* instances whose flag may not be the last choice (history)

flags == <<registered, active, excluded, wanted, doubtful>>
vars == <<flags, request, cycle>>

\* chosen: the instances ticked in the global form; covers: those the form has
\* cleared, or the row that was loaded; mine: those of them nobody has written since (history); copy: the
\* columns of that row, as they were.
Copy == [active : BOOLEAN, excluded : BOOLEAN]
Request == [stage : {"idle", "mark", "api", "extend"}, chosen : SUBSET Instance, covers : SUBSET Instance,
            mine : SUBSET Instance, copy : [Instance -> Copy]]
Idle == [stage |-> "idle", chosen |-> {}, covers |-> {}, mine |-> {},
         copy |-> [i \in Instance |-> [active |-> FALSE, excluded |-> FALSE]]]

\* excluded: the flag as read; sure: it was no doubtful one, and nothing else has
\* been chosen since (history).
Pending == [excluded : BOOLEAN, sure : BOOLEAN]
NoCycle == [i \in {} |-> [excluded |-> FALSE, sure |-> FALSE]]

NoRequests ==
    /\ excluded = {}
    /\ request = [a \in Admin |-> Idle]
    /\ cycle = NoCycle
    /\ wanted = {}
    /\ doubtful = {}

Init ==
    /\ registered \in SUBSET Instance
    /\ active = registered
    /\ NoRequests

\* What others know when the flags of S have been written.
Written(a, r, S) ==
    request' = [b \in Admin |-> IF b = a THEN r ELSE [request[b] EXCEPT !.mine = @ \ S]]

Chosen(S) ==
    cycle' = [i \in DOMAIN cycle |-> [cycle[i] EXCEPT !.sure = @ /\ i \notin S]]

Set(S, T, holds) == IF holds THEN S \cup T ELSE S \ T

-----------------------------------------------------------------------------
(* add_instance.                                                           *)

\* New rows are active; choice: what is wanted for them; doubt: whether their flag
\* may be another.
Insert(a, S, flag, choice, doubt) ==
    /\ S # {} /\ S \cap registered = {}
    /\ registered' = registered \cup S
    /\ active' = active \cup S
    /\ excluded' = Set(excluded, S, flag)
    /\ wanted' = Set(wanted, S, choice)
    /\ doubtful' = Set(doubtful, S, doubt)
    /\ Written(a, Idle, S)
    /\ Chosen(S)

AddInstance(a, S) ==
    /\ request[a].stage = "idle"
    /\ \E flag \in BOOLEAN : Insert(a, S, flag, flag, FALSE)

\* One row is loaded, to be copied or to be saved later.
Load(a, stage, i) ==
    /\ request[a].stage = "idle"
    /\ i \in registered
    /\ request' = [request EXCEPT ![a] = [Idle EXCEPT !.stage = stage, !.covers = {i},
           !.copy[i] = [active |-> i \in active, excluded |-> i \in excluded]]]
    /\ UNCHANGED <<flags, cycle>>

\* An extension copies the flag of its source, as it was loaded: what was chosen for
\* the source is chosen for the new targets, unless it was changed in between.
ExtendGroup(a, S) ==
    LET r == request[a] IN
    /\ r.stage = "extend"
    /\ \E i \in r.covers :
         LET flag == r.copy[i].excluded IN
         Insert(a, S, flag, i \in wanted, i \in doubtful \/ flag # (i \in excluded))

-----------------------------------------------------------------------------
(* notification_settings: two UPDATE statements over the active instances.  *)

ClearNothing == excluded
Cleared == excluded \ active

ClearFlags(a, S) ==
    /\ request[a].stage = "idle"
    /\ S \subseteq registered
    /\ excluded' = Cleared
    /\ doubtful' = doubtful \cup (excluded \cap active)
    /\ Written(a, [Idle EXCEPT !.stage = "mark", !.chosen = S, !.covers = active, !.mine = active],
               excluded \cap active)
    /\ UNCHANGED <<registered, active, cycle, wanted>>

\* A choice takes effect for the instances ticked, and for those the form cleared
\* if nobody has written them since; the others it covers are left in doubt.
MarkChosen(a) ==
    LET r == request[a]
        ticked == r.chosen \cap active
        settled == ticked \cup (r.mine \cap active) IN
    /\ r.stage = "mark"
    /\ excluded' = excluded \cup ticked
    /\ wanted' = (wanted \ settled) \cup ticked
    /\ doubtful' = (doubtful \ settled) \cup (r.covers \ (r.mine \cup ticked))
    /\ Written(a, Idle, settled)
    /\ Chosen(r.covers \cup ticked)
    /\ UNCHANGED <<registered, active>>

\* update_owner_webhook saves the two columns the form shows.
SaveOwnerForm(a, i) ==
    /\ request[a].stage = "idle"
    /\ i \in registered
    /\ \E flag \in BOOLEAN :
         /\ excluded' = Set(excluded, {i}, flag)
         /\ wanted' = Set(wanted, {i}, flag)
    /\ doubtful' = doubtful \ {i}
    /\ Written(a, Idle, {i})
    /\ Chosen({i})
    /\ UNCHANGED <<registered, active>>

-----------------------------------------------------------------------------
(* The API: the row is loaded, and later every column of it is saved.       *)

\* The flag is a field of the request, or it is the one that was loaded.
SaveRow(a) ==
    LET r == request[a] IN
    /\ r.stage = "api"
    /\ \E i \in r.covers, on \in BOOLEAN, given \in BOOLEAN, flag \in BOOLEAN :
         LET old == r.copy[i].excluded
             new == IF given THEN flag ELSE old IN
         /\ active' = Set(active, {i}, on)
         /\ excluded' = Set(excluded, {i}, new)
         /\ wanted' = IF given THEN Set(wanted, {i}, flag) ELSE wanted
         /\ doubtful' = IF given THEN doubtful \ {i}
                        ELSE IF old # (i \in excluded) THEN doubtful \cup {i} ELSE doubtful
         /\ Written(a, Idle, {i})
         /\ IF given THEN Chosen({i}) ELSE UNCHANGED cycle
    /\ UNCHANGED registered

\* The worker dies between two steps of a request.
Die(a) ==
    /\ request[a].stage # "idle"
    /\ request' = [request EXCEPT ![a] = Idle]
    /\ UNCHANGED <<flags, cycle>>

-----------------------------------------------------------------------------
(* The monitor cycle.                                                      *)

\* run_monitor_cycle reads the active instances once ...
ReadInstances ==
    /\ cycle = NoCycle
    /\ cycle' = [i \in active |-> [excluded |-> i \in excluded, sure |-> i \notin doubtful]]
    /\ UNCHANGED <<flags, request>>

\* ... and processes one after the other, with the row as it was read.
ProcessInstance(i) ==
    /\ i \in DOMAIN cycle
    /\ cycle' = [j \in DOMAIN cycle \ {i} |-> cycle[j]]
    /\ UNCHANGED <<flags, request>>

\* The webhooks of notify_lock_summary and notify_long_query.
Webhooks(p) == IF p.excluded THEN {"owner"} ELSE {"channel", "owner"}

Step(a) ==
    \/ \E S \in SUBSET Instance : ClearFlags(a, S)
    \/ \E i \in Instance : SaveOwnerForm(a, i) \/ Load(a, "api", i)
    \/ MarkChosen(a) \/ SaveRow(a) \/ Die(a)

Adds(a) ==
    \/ \E S \in SUBSET Instance : AddInstance(a, S) \/ ExtendGroup(a, S)
    \/ \E i \in Instance : Load(a, "extend", i)

Cycle == ReadInstances \/ \E i \in Instance : ProcessInstance(i)

Next == (\E a \in Admin : Step(a) \/ Adds(a)) \/ Cycle

Spec == Init /\ [][Next]_vars

-----------------------------------------------------------------------------
(* Properties.                                                             *)

\* Types of the flags, the requests, the cycle and the histories.
TypeOK ==
    /\ registered \subseteq Instance
    /\ active \subseteq Instance
    /\ excluded \subseteq Instance
    /\ request \in [Admin -> Request]
    /\ DOMAIN cycle \subseteq Instance
    /\ \A i \in DOMAIN cycle : cycle[i] \in Pending
    /\ wanted \subseteq Instance
    /\ doubtful \subseteq Instance

\* The cards of an instance go to the shared channel if and only if it was last
\* chosen to be included ("real-time lock and long-query cards for that instance
\* skip the shared/global channel", README.md:489-491), through any sequence of
\* additions, extensions, forms, API saves and deactivations.  The exceptions are a global form that is
\* between its two statements or died there, one that was overtaken by another
\* write of the flag, an API save or an extension of a row loaded before its flag
\* was changed,
\* and a choice made since the cycle read its instances.
ExclusionsRespected ==
    \A i \in DOMAIN cycle : cycle[i].sure => ("channel" \in Webhooks(cycle[i]) <=> i \notin wanted)

\* The same of the flags themselves, from which the next cycle starts.
FlagsAsChosen == \A i \in Instance \ doubtful : i \in excluded <=> i \in wanted
=================================================================================
