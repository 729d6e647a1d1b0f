---------------------------- MODULE InstanceRegistry ----------------------------
(***************************************************************************)
(* The registered database targets (monitor/models.py, RDSInstance) and    *)
(* the requests that write them: add and extend, rename, lock-control      *)
(* credentials, the API, removal (monitor/views.py, monitor/serializers.py). *)
(*                                                                         *)
(* Abstractions.  Requests are those of administrators: operators can do   *)
(* less with the same code, and no request is enabled by being an          *)
(* operator.  Endpoint stands for engine, host, port and database user.    *)
(* The columns no property tells apart are left out (region, TLS, webhook  *)
(* URL, main password, database name, the flags is_active and              *)
(* exclude_from_global_notifications): a request refused for one of them   *)
(* ends as GiveUp does.  A password is the pair of what it was issued for. *)
(* A request loads its row first and writes later, without a lock; what    *)
(* the form says is chosen when it is written.                             *)
(***************************************************************************)
EXTENDS Naturals, FiniteSets

CONSTANTS
    Admin,      \* administrators, each with one request at a time
    Id,         \* primary keys
    Group,      \* connection groups
    Name,       \* display names
    Endpoint,   \* database servers with the user that logs in
    Control,    \* lock-control users
    NoControl,  \* control_username = ""
    NoPassword  \* control_password_encrypted = ""

VARIABLES
    row,        \* the registered targets, by id
    used,       \* ids that were ever given (history)
    audited,    \* ids of the remove_instance entries with result "success"
    lost,       \* ids whose entry the application database refused (history)
    request     \* the request of each administrator

log == <<audited, lost>>
vars == <<row, used, log, request>>

\* apart: the name was last written by something else than a rename of the whole
\* group; mixed: the credentials were last written by a save that had loaded
\* older ones (histories).
Row == [name : Name, group : Group, endpoint : Endpoint, lock_control : BOOLEAN,
        user : Control \cup {NoControl},
        password : ((Control \cup {NoControl}) \X Endpoint) \cup {NoPassword},
        apart : BOOLEAN, mixed : BOOLEAN]

\* copy: the row as it was loaded, as a set of at most one row; ids: the rows the
\* request is about.
Stages == {"idle", "credentials", "api", "extend", "remove", "delete", "group"}
Request == [stage : Stages, ids : SUBSET Id, copy : SUBSET Row]
Idle == [stage |-> "idle", ids |-> {}, copy |-> {}]

Init ==
    /\ row = [i \in {} |-> {}]
    /\ used = {}
    /\ audited = {}
    /\ lost = {}
    /\ request = [a \in Admin |-> Idle]

Begin(a, stage, ids, copy) ==
    /\ request[a] = Idle
    /\ request' = [request EXCEPT ![a] = [stage |-> stage, ids |-> ids, copy |-> copy]]
    /\ UNCHANGED <<row, used, log>>

Load(a, stage, i) == i \in DOMAIN row /\ Begin(a, stage, {i}, {row[i]})
End(a) == request' = [request EXCEPT ![a] = Idle]
Put(i, r) == row' = [j \in DOMAIN row \cup {i} |-> IF j = i THEN r ELSE row[j]]
Update(S, F(_)) == row' = [i \in DOMAIN row |-> IF i \in S THEN F(row[i]) ELSE row[i]]
Members(g) == {i \in DOMAIN row : row[i].group = g}
Given(r) == <<r.endpoint, r.lock_control, r.user, r.password>>

-----------------------------------------------------------------------------
(* add_instance.                                                           *)

\* Lock control as the form gives it: username and password are dropped when it
\* is off, and a username needs a password.
Entered(endpoint) ==
    {f \in [lock_control : BOOLEAN, user : Control \cup {NoControl},
            password : ((Control \cup {NoControl}) \X {endpoint}) \cup {NoPassword}] :
        /\ ~f.lock_control => f.user = NoControl /\ f.password = NoPassword
        /\ f.user # NoControl => f.password # NoPassword
        /\ f.password # NoPassword => f.password[1] = f.user}

AddRows(S, r) ==
    /\ S # {}
    /\ S \cap used = {}
    /\ row' = [i \in DOMAIN row \cup S |-> IF i \in S THEN r ELSE row[i]]
    /\ used' = used \cup S
    /\ UNCHANGED log

\* One row per database name, in one transaction, in a new group; the API creates
\* one row, under the same conditions.
Register(a, S, g) ==
    /\ request[a] = Idle
    /\ \A r \in {row[i] : i \in DOMAIN row} \cup UNION {request[b].copy : b \in Admin} : r.group # g
    /\ \E n \in Name, e \in Endpoint : \E f \in Entered(e) :
         AddRows(S, [name |-> n, group |-> g, endpoint |-> e, lock_control |-> f.lock_control,
                     user |-> f.user, password |-> f.password, apart |-> FALSE, mixed |-> FALSE])
    /\ UNCHANGED request

\* Row i has another name than when r was loaded, or is gone and its group has.
NameIsOld(r, i) ==
    IF i \in DOMAIN row THEN row[i].name # r.name \/ row[i].apart
    ELSE \E j \in Members(r.group) : row[j].name # r.name

\* Extending a group copies the columns of a member as it was loaded; when that has
\* no password, the form may bring one, and must for a username.
Extensions(r, i) ==
    {[r EXCEPT !.password = p, !.apart = @ \/ NameIsOld(r, i)] :
        p \in IF r.password # NoPassword THEN {r.password}
              ELSE (IF r.lock_control THEN {<<r.user, r.endpoint>>} ELSE {})
                   \cup (IF r.user = NoControl THEN {NoPassword} ELSE {})}

Extend(a, S) ==
    /\ request[a].stage = "extend"
    /\ \E i \in request[a].ids, old \in request[a].copy :
         \E r \in Extensions(old, i) : AddRows(S, r)
    /\ End(a)

-----------------------------------------------------------------------------
(* rename_instance, update_control_credentials.                            *)

\* The whole group, by the group id of the row that was named.
Only(i) == {i}
Siblings(i) == Members(row[i].group)

Rename(a, i) ==
    /\ request[a] = Idle
    /\ i \in DOMAIN row
    /\ \E n \in Name :
         LET Named(r) == [r EXCEPT !.name = n, !.apart = FALSE] IN Update(Siblings(i), Named)
    /\ UNCHANGED <<used, log, request>>

\* A password is required for a username that has none, or had lock control off,
\* or is a new one; all three are looked up in the row as it was loaded.
KeepsAny(old, u) == old.lock_control /\ old.password # NoPassword
KeepsPassword(old, u) == old.lock_control /\ old.password # NoPassword /\ u = old.user

\* update_fields names the three columns; the password typed is for the endpoint
\* the administrator was shown.  mixed is over once a password is typed, or none
\* is needed, for the current row.
SaveCredentials(a) ==
    /\ request[a].stage = "credentials"
    /\ \E i \in request[a].ids \cap DOMAIN row, old \in request[a].copy,
         on \in BOOLEAN, u \in Control \cup {NoControl}, typed \in BOOLEAN :
         /\ ~on => u = NoControl
         /\ u = NoControl => ~typed
         /\ u # NoControl /\ ~typed => KeepsPassword(old, u)
         /\ Put(i, [row[i] EXCEPT !.lock_control = on, !.user = u,
                !.password = IF u = NoControl THEN NoPassword
                             ELSE IF typed THEN <<u, old.endpoint>> ELSE old.password,
                !.mixed = \/ Given(old) # Given(row[i])
                          \/ @ /\ ~typed /\ u # NoControl])
    /\ End(a)
    /\ UNCHANGED <<used, log>>

-----------------------------------------------------------------------------
(* RDSInstanceSerializer.update.                                           *)

Cleared(r) == [r EXCEPT !.lock_control = FALSE, !.user = NoControl, !.password = NoPassword]

\* A new endpoint clears the credentials, even when the request brings new ones:
\* control_password has been popped from validated_data before it is looked for.
NotRepointed(r, old) == r
Repointed(r, old) == IF r.endpoint # old.endpoint THEN Cleared(r) ELSE r

Normal(r) == IF r.lock_control THEN r ELSE Cleared(r)

\* The copy when it is repointed to e, with lock control on or off and role u.
Kept(old, e, on, u) ==
    Normal(Repointed([old EXCEPT !.endpoint = e, !.lock_control = on, !.user = u], old))
KeptRows(old, users) == {Kept(old, e, on, u) : e \in Endpoint, on \in BOOLEAN, u \in users}
WithPassword(k) == [k EXCEPT !.password = <<k.user, k.endpoint>>]
WithoutPassword(k) == [k EXCEPT !.password = NoPassword]

\* Fields of one request: a name, or the connection and lock control, where
\* control_username and control_password may each be given or not.  A username
\* that survives the clearing needs a password.
ApiNames(old) == {[old EXCEPT !.name = n, !.apart = TRUE] : n \in Name \ {old.name}}
ApiConnections(old) == KeptRows(old, {old.user})
ApiPasswords(old) == {WithPassword(k) : k \in KeptRows(old, {old.user})}
ApiCredentials(old) ==
    LET kept == KeptRows(old, Control \cup {NoControl}) IN
    {WithPassword(k) : k \in kept} \cup {WithoutPassword(k) : k \in {x \in kept : x.user = NoControl}}

ApiChanges(old) ==
    ApiNames(old) \cup ApiConnections(old) \cup ApiCredentials(old) \cup ApiPasswords(old)

\* instance.save() writes every column of the copy, and inserts the row again
\* when it was removed since.
SaveApi(a) ==
    /\ request[a].stage = "api"
    /\ \E i \in request[a].ids, old \in request[a].copy : \E r \in ApiChanges(old) :
         Put(i, [r EXCEPT !.apart = @ \/ NameIsOld(old, i),
                          !.mixed = \/ i \in DOMAIN row /\ Given(row[i]) # Given(old)
                                    \/ @ /\ r.user # NoControl])
    /\ End(a)
    /\ UNCHANGED <<used, log>>

-----------------------------------------------------------------------------
(* Removal: remove_instance, remove_instance_group, perform_destroy.       *)

Without(S) == row' = [i \in DOMAIN row \ S |-> row[i]]

LogLater(a) ==
    /\ request[a].stage = "remove"
    /\ request' = [request EXCEPT ![a].stage = "delete"]
    /\ UNCHANGED <<row, used, log>>

\* The audit entry comes first, in a statement of its own ...
LogRemoval(a) ==
    /\ request[a].stage = "remove"
    /\ audited' = audited \cup request[a].ids
    /\ request' = [request EXCEPT ![a].stage = "delete"]
    /\ UNCHANGED <<row, used, lost>>

\* ... or not at all: an error of the application database there is only written to
\* the container log, and the removal goes on.
LogFails(a) ==
    /\ request[a].stage = "remove"
    /\ lost' = lost \cup request[a].ids
    /\ request' = [request EXCEPT ![a].stage = "delete"]
    /\ UNCHANGED <<row, used, audited>>

Delete(a) ==
    /\ request[a].stage = "delete"
    /\ Without(request[a].ids)
    /\ End(a)
    /\ UNCHANGED <<used, log>>

\* The members that are active are listed first; then the entries and the deletion
\* of the listed rows are one transaction.  An entry that fails marks it for
\* rollback, so that the deletion is refused: GiveUp.
LoadGroup(a, g) ==
    /\ \E S \in SUBSET Members(g) \ {{}} : Begin(a, "group", S, {})

DeleteGroup(a) ==
    /\ request[a].stage = "group"
    /\ Without(request[a].ids)
    /\ audited' = audited \cup request[a].ids
    /\ End(a)
    /\ UNCHANGED <<used, lost>>

\* A check fails, the transaction fails, or the worker dies.
GiveUp(a) ==
    /\ request[a] # Idle
    /\ End(a)
    /\ UNCHANGED <<row, used, log>>

Removes(a) == (\E i \in Id : Load(a, "remove", i)) \/ LogRemoval(a) \/ LogFails(a) \/ Delete(a)
RemovesGroup(a) == (\E g \in Group : LoadGroup(a, g)) \/ DeleteGroup(a)

Edits(a) ==
    \/ \E S \in SUBSET Id : Extend(a, S) \/ \E g \in Group : Register(a, S, g)
    \/ \E i \in Id : Rename(a, i)
    \/ \E i \in Id, stage \in {"credentials", "api", "extend"} : Load(a, stage, i)
    \/ SaveCredentials(a) \/ SaveApi(a)

Next == \E a \in Admin : Removes(a) \/ RemovesGroup(a) \/ Edits(a) \/ GiveUp(a)

Spec == Init /\ [][Next]_vars

-----------------------------------------------------------------------------
(* db.get_connection.                                                      *)

\* The control role is used when it is enabled and named.
UsesControl(r) == r.lock_control /\ r.user # NoControl

-----------------------------------------------------------------------------
(* Properties.                                                             *)

TypeOK ==
    /\ DOMAIN row \subseteq used
    /\ \A i \in DOMAIN row : row[i] \in Row
    /\ used \subseteq Id
    /\ audited \cup lost \subseteq used
    /\ request \in [Admin -> Request]

\* Monitoring and kills that use the dedicated role log in with a password that
\* was issued for that role at that server, whichever sequence of forms and API
\* calls enabled, renamed, repointed or extended it ("the stored credentials
\* were issued for the previous endpoint/role", serializers.py:79).  The exception
\* is a save that had loaded credentials another request has changed since.
ControlPasswordFits ==
    \A i \in DOMAIN row : LET r == row[i] IN
        UsesControl(r) /\ ~r.mixed => r.password = <<r.user, r.endpoint>>

\* A registration does not disappear without a "remove_instance" entry in the
\* audit log, wherever a removal stops.  The exception is the removal of one
\* target whose entry the application database refused; those of a group have
\* their entries whatever fails.
RemovalsAudited == used \ DOMAIN row \subseteq audited \cup lost

\* The targets of one group keep one name through renames and extensions.  The
\* exceptions are names set for one row through the API and requests that had
\* loaded a row before it was renamed or removed.
MembersShareName ==
    \A i, j \in DOMAIN row : row[i].group = row[j].group /\ ~row[i].apart /\ ~row[j].apart =>
        row[i].name = row[j].name
=================================================================================
