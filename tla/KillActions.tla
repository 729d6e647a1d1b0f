------------------------------ MODULE KillActions ------------------------------
(***************************************************************************)
(* The dashboard's actions on the sessions and replication slots of one    *)
(* monitored database (monitor/views.py, monitor/db.py): kill a session, a *)
(* selection or a blocking chain, with or without a lock check, terminate  *)
(* the backend of a slot, drop a slot; the audit log, the credit given to  *)
(* an operator in the lock incidents, and the two cached partials that     *)
(* show sessions and slots.                                                *)
(*                                                                         *)
(* Abstractions.  A process is a PID with the number of times the server   *)
(* has used it.  An effect is a process terminated or a slot dropped; a    *)
(* terminated process has been signalled and exits when it likes.  The     *)
(* role and MFA checks before a request are those of UserAccess and        *)
(* MfaLogin: a request modelled here has passed them.  Which sessions are  *)
(* in a lock, and which have an open incident, is chosen where it is read. *)
(* A snapshot kept for a partial is what it shows as untouched; one that   *)
(* could not be read is an error message and shows nothing.  Each web      *)
(* worker process has a cache of its own (settings.py, LocMemCache),       *)
(* filled by one dashboard request at a time.                              *)
(***************************************************************************)
EXTENDS Naturals, FiniteSets

CONSTANTS
    Pid,        \* backend PIDs of the monitored database
    MaxUse,     \* bound on the number of times a PID is used
    Slot,       \* its replication slots
    NoPid,      \* a slot nobody consumes
    Operator,   \* operators, each with one request at a time
    Worker,     \* web worker processes
    Postgres    \* the engine is PostgreSQL, not MySQL, MariaDB or MSSQL

ASSUME ConstantsAssumption ==
    /\ MaxUse \in Nat \ {0}
    /\ NoPid \notin Pid
    /\ Postgres \in BOOLEAN
    /\ Postgres \/ Slot = {}

VARIABLES
    use,        \* how often each PID has been used; the last use may be over
    live,       \* PIDs of running processes
    dying,      \* those that have been signalled to terminate
    slot,       \* the slots that exist, with the PID that consumes each
    request,    \* the last request of each operator
    cache       \* the two partials on each worker

target == <<use, live, dying, slot>>
vars == <<target, request, cache>>

Partial == {"activity", "repslots"}
Process == Pid \X (1..MaxUse)
Effect  == Process \cup (Slot \X {0})
Now(p)  == <<p, use[p]>>
Walsenders == {slot[s] : s \in DOMAIN slot} \ {NoPid}

\* What no action has touched.
Untouched == {Now(p) : p \in live \ dying} \cup ((DOMAIN slot) \X {0})

\* phase: a snapshot is absent, read but not stored yet, or stored.  untouched: what
\* was, of what it shows.  late: an action deleted the entry between the read and the
\* store.
Entry == [phase : {"absent", "read", "stored"}, untouched : SUBSET Effect, late : BOOLEAN]
Absent == [phase |-> "absent", untouched |-> {}, late |-> FALSE]

\* todo: PIDs without a result; yes, no: the results; hit: what really happened
\* (history); logged, denied: what the entry of the audit log says was terminated or
\* dropped, and was not running; credited: PIDs whose incidents were credited;
\* fault: the request met a failure it does not report (history).
Stages == {"done", "check", "kill", "select", "terminate", "drop", "audit", "credit", "invalidate"}
Request == [stage : Stages, worker : Worker, pids : SUBSET Pid, slots : SUBSET Slot,
            allow : BOOLEAN, todo : SUBSET Pid, yes : SUBSET Effect, no : SUBSET Process,
            hit : SUBSET Effect, logged : SUBSET Effect, denied : SUBSET Process,
            credited : SUBSET Pid, fault : BOOLEAN]

Fresh(stage, w, pids, slots, allow) ==
    [stage |-> stage, worker |-> w, pids |-> pids, slots |-> slots, allow |-> allow,
     todo |-> pids, yes |-> {}, no |-> {}, hit |-> {},
     logged |-> {}, denied |-> {}, credited |-> {}, fault |-> FALSE]

Init ==
    /\ use = [p \in Pid |-> 1]
    /\ live = Pid
    /\ dying = {}
    /\ slot = [s \in Slot |-> NoPid]
    /\ \E w \in Worker : request = [o \in Operator |-> Fresh("done", w, {}, {}, FALSE)]
    /\ cache = [w \in Worker |-> [k \in Partial |-> Absent]]

-----------------------------------------------------------------------------
(* The monitored database.                                                 *)

\* A process ends, of itself or because it was signalled.
Exit(p) ==
    /\ p \in live
    /\ live' = live \ {p}
    /\ dying' = dying \ {p}
    /\ slot' = [s \in DOMAIN slot |-> IF slot[s] = p THEN NoPid ELSE slot[s]]
    /\ UNCHANGED <<use, request, cache>>

\* A new process gets a PID that is free.
Start(p) ==
    /\ p \notin live
    /\ use[p] < MaxUse
    /\ use' = [use EXCEPT ![p] = @ + 1]
    /\ live' = live \cup {p}
    /\ UNCHANGED <<dying, slot, request, cache>>

Consume(s, p) ==
    /\ p \in live \ (dying \cup Walsenders)
    /\ s \in DOMAIN slot
    /\ slot[s] = NoPid
    /\ slot' = [slot EXCEPT ![s] = p]
    /\ UNCHANGED <<use, live, dying, request, cache>>

\* pg_terminate_backend returns TRUE once it has sent the signal.
Signal(p) ==
    /\ dying' = dying \cup {p}
    /\ UNCHANGED <<use, live, slot>>

-----------------------------------------------------------------------------
(* Requests.                                                               *)

Go(o, stage) == request' = [request EXCEPT ![o].stage = stage]

\* The request is over: its local variables are gone, the entry and the effects stay.
Finish(o, hit, fault) ==
    request' = [request EXCEPT ![o].stage = "done", ![o].hit = hit, ![o].fault = fault,
        ![o].pids = {}, ![o].todo = {}, ![o].allow = FALSE,
        ![o].yes = {}, ![o].no = {}, ![o].credited = {}]

Ask(o, r) ==
    /\ request[o].stage = "done"
    /\ request' = [request EXCEPT ![o] = r]
    /\ UNCHANGED <<target, cache>>

\* _kill_session_impl and _kill_chain_impl, with lock_only or without; `allow`
\* is can_manage_replication_slot(user, "terminate").  A selection of one PID
\* stands for the single kill as well, `pids` for the PIDs of a list that may
\* name some of them several times.
AskKill(o, w) ==
    \E pids \in SUBSET Pid \ {{}}, stage \in {"check", "kill"}, allow \in BOOLEAN :
        Ask(o, Fresh(stage, w, pids, {}, allow))

\* kill_replication_slot and drop_replication_slot.
AskSlot(o, w, s) ==
    \E stage \in {"select", "drop"} : Ask(o, Fresh(stage, w, {}, {s}, TRUE))

\* _current_lock_pids on a connection of its own: when a PID is not in a lock, or
\* the server cannot be reached, the request ends with a message.  The process that
\* has a PID later may be another one.
CheckLocks(o) ==
    /\ request[o].stage = "check"
    /\ \/ \E locked \in SUBSET live : request[o].pids \subseteq locked /\ Go(o, "kill")
       \/ Finish(o, {}, FALSE)
    /\ UNCHANGED <<target, cache>>

\* get_connection fails: an entry with result "failed" and no effects is next.
Unreachable(o) ==
    /\ \/ request[o].stage \in {"select", "drop"}
       \/ request[o].stage = "kill" /\ request[o].todo = request[o].pids
    /\ Go(o, "audit")
    /\ UNCHANGED <<target, cache>>

\* GUARDED_TERMINATE_QUERY: the slot guard and the termination are one statement.
KillableNoGrant(r, p) == Postgres /\ p \in live \ Walsenders
Killable(r, p) == Postgres /\ p \in live /\ (r.allow \/ p \notin Walsenders)

\* results[pid] = ...: a later result for a PID replaces the earlier one.
Other(results, p) == {e \in results : e[1] # p}

Succeed(o, p, stage) ==
    request' = [request EXCEPT ![o].stage = stage, ![o].todo = @ \ {p},
                               ![o].yes = Other(@, p) \cup {Now(p)}, ![o].no = Other(@, p),
                               ![o].hit = @ \cup {Now(p)}]

KillNext(o, p) ==
    /\ request[o].stage = "kill"
    /\ p \in request[o].pids
    /\ Killable(request[o], p)
    /\ Signal(p)
    /\ Succeed(o, p, "kill")
    /\ UNCHANGED cache

\* The statement returns FALSE.  For the other engines no PID passes the check
\* before KILL: _mysql_pid_in_db and _mssql_pid_in_db index with 0 a row that
\* their connections return as a dictionary; kill_pids takes the exception for a
\* PID it cannot kill, while kill_pid, for the single kill, lets it through (Fail).
SkipNext(o, p) ==
    /\ request[o].stage = "kill"
    /\ p \in request[o].pids
    /\ ~Killable(request[o], p)
    /\ request' = [request EXCEPT ![o].todo = @ \ {p}, ![o].yes = Other(@, p),
                                  ![o].no = Other(@, p) \cup {Now(p)}]
    /\ UNCHANGED <<target, cache>>

\* The loop over the PIDs is over.
FirstRefused(r) == r.todo = {} \/ r.no # {}
NoneLeft(r) == r.todo = {}

KillsDone(o) ==
    /\ request[o].stage = "kill"
    /\ NoneLeft(request[o])
    /\ Go(o, "audit")
    /\ UNCHANGED <<target, cache>>

\* terminate_replication_slot_backend: active_pid is selected first ...
SelectBackend(o, s) ==
    /\ request[o].stage = "select"
    /\ s \in request[o].slots
    /\ IF s \in DOMAIN slot /\ slot[s] # NoPid
       THEN request' = [request EXCEPT ![o].stage = "terminate", ![o].todo = {slot[s]}]
       ELSE Go(o, "audit")
    /\ UNCHANGED <<target, cache>>

\* ... and whatever runs under that PID is terminated by the second statement.
TerminateBackend(o, p) ==
    /\ request[o].stage = "terminate"
    /\ p \in request[o].todo
    /\ IF p \in live
       THEN Signal(p) /\ Succeed(o, p, "audit")
       ELSE Go(o, "audit") /\ UNCHANGED target
    /\ UNCHANGED cache

\* pg_drop_replication_slot refuses an active or missing slot; when the reply is
\* lost, drop_replication_slot reports the error of a drop that took effect.
Drop(o, s) ==
    /\ request[o].stage = "drop"
    /\ s \in request[o].slots
    /\ IF s \in DOMAIN slot /\ slot[s] = NoPid
       THEN /\ slot' = [x \in DOMAIN slot \ {s} |-> slot[x]]
            /\ \E replied \in BOOLEAN :
                 request' = [request EXCEPT ![o].stage = "audit", ![o].hit = {<<s, 0>>},
                                            ![o].yes = IF replied THEN {<<s, 0>>} ELSE {},
                                            ![o].fault = ~replied]
       ELSE Go(o, "audit") /\ UNCHANGED slot
    /\ UNCHANGED <<use, live, dying, cache>>

\* The effects that the entry says took place.
LoggedRequested(r) == {Now(p) : p \in r.pids} \cup r.yes
Logged(r) == r.yes

\* _log_audit; an error of the application database is only logged.
Audit(o) ==
    LET next == IF request[o].slots = {} /\ request[o].yes # {} THEN "credit" ELSE "invalidate" IN
    /\ request[o].stage = "audit"
    /\ \/ request' = [request EXCEPT ![o].stage = next, ![o].logged = Logged(request[o]),
                                     ![o].denied = request[o].no]
       \/ request' = [request EXCEPT ![o].stage = next, ![o].fault = TRUE]
    /\ UNCHANGED <<target, cache>>

\* _safe_mark_manual_kill credits the open incidents of the PIDs that were
\* terminated; here too an error is only logged.
CreditRequested(r, open) == open \cap r.pids
CreditOf(r, open) == open \cap {e[1] : e \in r.yes}

Credit(o) ==
    /\ request[o].stage = "credit"
    /\ \E open \in SUBSET Pid :
         request' = [request EXCEPT ![o].stage = "invalidate", ![o].credited = CreditOf(request[o], open)]
    /\ UNCHANGED <<target, cache>>

ActivityOnly(r) == "activity"
CacheKey(r) == IF r.slots = {} THEN "activity" ELSE "repslots"

\* cache.delete, on the worker that serves this request.
Invalidate(o) ==
    LET r == request[o] IN
    /\ r.stage = "invalidate"
    /\ cache' = [cache EXCEPT ![r.worker][CacheKey(r)] =
                     IF @.phase = "read" THEN [@ EXCEPT !.late = TRUE] ELSE Absent]
    /\ Finish(o, r.hit, r.fault)
    /\ UNCHANGED target

\* The worker dies, or a statement fails after get_connection: no view catches
\* that (HTTP 500).  The termination it was waiting for may have happened.
Fail(o) ==
    LET r == request[o] IN
    /\ r.stage # "done"
    /\ \/ /\ Finish(o, r.hit, TRUE)
          /\ UNCHANGED <<target, cache>>
       \/ \E p \in r.pids \cup r.todo :
            /\ \/ r.stage = "terminate" /\ p \in live
               \/ r.stage = "kill" /\ Killable(r, p)
            /\ Signal(p)
            /\ Finish(o, r.hit \cup {Now(p)}, TRUE)
            /\ UNCHANGED cache

-----------------------------------------------------------------------------
(* The cached partials: activity_table_partial, replication_slots_partial. *)

\* A miss: the snapshot is read from the monitored database, the sessions for one
\* partial, the slots and the processes that consume them for the other.
Visible(k) == IF k = "activity" THEN {Now(p) : p \in live}
              ELSE {Now(p) : p \in Walsenders} \cup ((DOMAIN slot) \X {0})

ReadPartial(w, k) ==
    /\ cache[w][k] = Absent
    /\ cache' = [cache EXCEPT ![w][k].phase = "read",
                              ![w][k].untouched = Visible(k) \cap Untouched]
    /\ UNCHANGED <<target, request>>

\* cache.set, whatever happened since.
StorePartial(w, k) ==
    /\ cache[w][k].phase = "read"
    /\ cache' = [cache EXCEPT ![w][k].phase = "stored"]
    /\ UNCHANGED <<target, request>>

\* ACTIVITY_CACHE_TTL has passed.
ExpirePartial(w, k) ==
    /\ cache[w][k].phase = "stored"
    /\ cache' = [cache EXCEPT ![w][k] = Absent]
    /\ UNCHANGED <<target, request>>

Step(o) ==
    \/ CheckLocks(o) \/ Unreachable(o) \/ KillsDone(o) \/ Audit(o) \/ Credit(o) \/ Invalidate(o) \/ Fail(o)
    \/ \E p \in Pid : KillNext(o, p) \/ SkipNext(o, p) \/ TerminateBackend(o, p)
    \/ \E s \in Slot : SelectBackend(o, s) \/ Drop(o, s)

Next ==
    \/ \E p \in Pid : Exit(p) \/ Start(p) \/ \E s \in Slot : Consume(s, p)
    \/ \E o \in Operator, w \in Worker : AskKill(o, w) \/ \E s \in Slot : AskSlot(o, w, s)
    \/ \E o \in Operator : Step(o)
    \/ \E w \in Worker, k \in Partial : ReadPartial(w, k) \/ StorePartial(w, k) \/ ExpirePartial(w, k)

Spec == Init /\ [][Next]_vars

-----------------------------------------------------------------------------
(* Properties.                                                             *)

\* Types; a slot is consumed by a running process; when the kills are over each
\* PID asked for has one result, or none has because there was no connection.
TypeOK ==
    /\ use \in [Pid -> 1..MaxUse]
    /\ live \subseteq Pid /\ dying \subseteq live
    /\ DOMAIN slot \subseteq Slot
    /\ \A s \in DOMAIN slot : slot[s] \in live \cup {NoPid}
    /\ request \in [Operator -> Request]
    /\ \A o \in Operator : request[o].stage \in {"credit", "invalidate"} /\ request[o].slots = {} =>
          {e[1] : e \in request[o].yes \cup request[o].no} \in {request[o].pids, {}}
    /\ cache \in [Worker -> [Partial -> Entry]]

\* An entry of the audit log says of nothing that it was terminated or dropped unless
\* that request did it.  When a request has been answered, its entry names each process
\* it terminated and the slot it dropped; a PID that the request repeats is named by the
\* last of its results, which is "not running" when the first one has taken effect by
\* then.  The exceptions are those of the code: the request failed half-way, the reply
\* to a drop was lost, or the entry could not be written.
EffectsAudited ==
    \A o \in Operator :
        LET r == request[o] IN
        /\ r.logged \subseteq r.hit
        /\ r.stage = "done" /\ ~r.fault =>
              \A e \in r.hit \ r.logged :
                  \E last \in r.logged \cup r.denied : last[1] = e[1] /\ last[2] >= e[2]

\* An incident is credited to an operator only for a session that this operator's
\* request really terminated (_mark_manual_kill: "affected by a successful
\* manual kill"), however the results of a selection are mixed.
CreditedWereKilled ==
    \A o \in Operator : request[o].credited \subseteq {e[1] : e \in request[o].hit}

\* A PID reported as not killed was missing or protected (the docstring of
\* kill_pids: "return False for missing/protected PIDs"), and so is its process
\* from then on unless the account holds the slot grant.
RefusedWereMissingOrProtected ==
    \A o \in Operator : \A e \in request[o].no :
        \/ e[1] \notin live \/ use[e[1]] # e[2]
        \/ ~request[o].allow /\ e[1] \in Walsenders

\* Once an action has finished, the partial on its worker does not show what the
\* action terminated or dropped, other than a process that had been signalled and
\* was still there when the snapshot was read.  The exception is a snapshot read
\* before the action deleted the entry and stored afterwards.
CacheShowsFinishedActions ==
    \A o \in Operator :
        LET r == request[o]
            entry == cache[r.worker][IF r.slots = {} THEN "activity" ELSE "repslots"] IN
        r.stage = "done" /\ ~r.fault /\ entry.phase = "stored" /\ ~entry.late =>
            r.hit \cap entry.untouched = {}

-----------------------------------------------------------------------------
(* What the documentation says and the code does not do.                   *)

\* README.md:511: "Successful dashboard kills mark affected incidents with the
\* dashboard username".  _safe_mark_manual_kill is not given a PID that was killed
\* and whose repetition in the request came back FALSE.
KillsAreCredited ==
    \A o \in Operator :
        LET r == request[o] IN
        r.stage = "invalidate" /\ ~r.fault => {e[1] : e \in r.hit} \subseteq {e[1] : e \in r.yes}
===============================================================================
