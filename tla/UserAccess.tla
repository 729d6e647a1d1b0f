------------------------------ MODULE UserAccess ------------------------------
(***************************************************************************)
(* Accounts and what they may do: the forms of User management             *)
(* (monitor/views.py, user_management) and the checks of                   *)
(* monitor/permissions.py.                                                 *)
(*                                                                         *)
(* Abstractions.  The accounts are those of operators and read-only users: *)
(* an administrator holds every permission and no form changes one.        *)
(* Accounts are active (is_active is edited in Django's own admin).  Form  *)
(* validation that looks at nothing but the form is left out.              *)
(*                                                                         *)
(* A transaction on PostgreSQL (READ COMMITTED) is one action when it ends *)
(* plus one when it takes the locks or deletes the rows that matter to     *)
(* others; until it ends nobody sees what it wrote.                        *)
(* Locks on rows of grants are left out: they only take orders away.      *)
(***************************************************************************)
EXTENDS Naturals, FiniteSets

CONSTANTS
    Admin,      \* administrators, each with one request at a time
    User,       \* user names
    Instance,   \* instance ids
    Right       \* permissions on replication slots: drop, terminate

VARIABLES
    registered, \* instances that exist
    active,     \* those with is_active
    account,    \* the accounts that exist, by user name
    request,    \* the request of each administrator
    intended,   \* instances of the last access saved for an account (history)
    stale,      \* accounts whose access was saved by a request that had read an
                \* older role, or during a switch of the role (history)
    merged      \* accounts whose access is that of overlapping saves (history)

tables == <<registered, active, account>>
history == <<intended, stale, merged>>
vars == <<tables, request, history>>

\* UserInstanceAccess: the role and can_manage_notifications.
Grant == [operator : BOOLEAN, notify : BOOLEAN]
Plain == [operator |-> FALSE, notify |-> FALSE]
Grants == UNION {[S -> Grant] : S \in SUBSET Instance}
NoGrants == [i \in {} |-> Plain]

\* User, UserInstanceAccessScope (absent: "none"), UserInstanceAccess, ReplicationSlotAccess.
Account == [staff : BOOLEAN, scope : {"none", "local", "global"}, grants : Grants, rights : SUBSET Right]
None == [staff |-> FALSE, scope |-> "none", grants |-> NoGrants, rights |-> {}]

\* form: what the request will write; mine: the instances whose rows it has deleted
\* or is to give the new role.
Stages == {"idle", "role", "grants", "slot", "access", "replace", "create"}
Request == [stage : Stages, user : User, form : Account, mine : SUBSET Instance]

\* Grants of which one role is chosen for every instance selected.
Chosen(kinds) == {[i \in S |-> k] : S \in SUBSET active, k \in kinds}
Kinds(staff) == {k \in Grant : k.operator \/ k.notify => staff}

\* An account is absent, or older than the tables of grants (migration 0030) and
\* scopes (0031); 0031 gave no scope to accounts that had grants.
Legacy == {acc \in [staff : BOOLEAN, scope : {"none"}, rights : SUBSET Right,
                    grants : {NoGrants} \cup {[i \in {j} |-> Plain] : j \in Instance}] :
             acc.rights # {} => acc.staff}

Init ==
    /\ registered = Instance
    /\ active = Instance
    /\ \E S \in SUBSET User : account \in [S -> Legacy]
    /\ \E u \in User : request = [a \in Admin |-> [stage |-> "idle", user |-> u, form |-> None, mine |-> {}]]
    /\ intended = [u \in User |-> IF u \in DOMAIN account THEN DOMAIN account[u].grants ELSE {}]
    /\ stale = {}
    /\ merged = {}

-----------------------------------------------------------------------------
(* permissions.py, for an account that exists.                             *)

Scoped(u) == account[u].scope # "none" \/ account[u].grants # NoGrants

InstanceRole(u, i) ==
    CASE i \in DOMAIN account[u].grants -> IF account[u].grants[i].operator THEN "operator" ELSE "readonly"
      [] i \notin DOMAIN account[u].grants /\ Scoped(u) -> "none"
      [] OTHER -> IF account[u].staff THEN "operator" ELSE "readonly"

CanView(u, i) == InstanceRole(u, i) # "none"
CanOperate(u, i) == InstanceRole(u, i) = "operator"

CanNotify(u, i) ==
    IF Scoped(u)
    THEN i \in DOMAIN account[u].grants /\ account[u].grants[i] = [operator |-> TRUE, notify |-> TRUE]
    ELSE account[u].staff

CanNotifyGlobally(u) == account[u].staff /\ account[u].scope # "local"
CanUse(u, right) == account[u].staff /\ right \in account[u].rights

\* accessible_instances: what lists and the API show.
AccessibleByScope(u) ==
    IF account[u].scope = "none" THEN active ELSE active \cap DOMAIN account[u].grants
Accessible(u) == IF ~Scoped(u) THEN active ELSE active \cap DOMAIN account[u].grants

-----------------------------------------------------------------------------
(* Requests of administrators.                                             *)

Begin(a, stage, u, form) ==
    /\ request[a].stage = "idle"
    /\ request' = [request EXCEPT ![a] = [stage |-> stage, user |-> u, form |-> form, mine |-> {}]]
    /\ UNCHANGED <<tables, history>>

Idle(r) == [r EXCEPT !.stage = "idle", !.form = None, !.mine = {}]
End(a) == request' = [request EXCEPT ![a] = Idle(@)]

Save(u, acc) == account' = [account EXCEPT ![u] = acc]

\* The row of the user, locked by UPDATE or by SELECT ... FOR UPDATE.
NeverLocked(u) == FALSE
UserLocked(u) == \E b \in Admin : request[b].user = u /\ request[b].stage \in {"role", "grants", "slot"}

\* update_user_role: the UPDATE of is_staff comes first.
LockRole(a, u) ==
    /\ u \in DOMAIN account
    /\ ~UserLocked(u)
    /\ \E form \in [staff : BOOLEAN, scope : {"local", "global"}, grants : {NoGrants}, rights : {{}}] :
         /\ form.scope = "global" => form.staff
         /\ Begin(a, "role", u, form)

\* The UPDATE of the grants sees the rows committed when it starts.  It may wait for
\* a save that is replacing them, and does not see the rows that save inserts.
Seen(u) == DOMAIN account[u].grants

UpdateGrants(a) ==
    /\ request[a].stage = "role"
    /\ request' = [request EXCEPT ![a].stage = "grants", ![a].mine = Seen(request[a].user)]
    /\ UNCHANGED <<tables, history>>

\* Those that are left take the new role; a read-only one manages no notifications.
RoleGrants(acc, staff, mine) ==
    [i \in DOMAIN acc.grants |->
        IF i \in mine THEN [operator |-> staff, notify |-> staff /\ acc.grants[i].notify] ELSE acc.grants[i]]

Note(S, u, holds) == IF holds THEN S \cup {u} ELSE S \ {u}

CommitRole(a) ==
    LET r == request[a]
        acc == account[r.user]
        missed == DOMAIN acc.grants \ r.mine IN
    /\ r.stage = "grants"
    /\ Save(r.user, [staff |-> r.form.staff, scope |-> r.form.scope,
                     grants |-> RoleGrants(acc, r.form.staff, r.mine),
                     rights |-> IF r.form.staff THEN acc.rights ELSE {}])
    /\ stale' = Note(stale, r.user, missed # {} /\ (r.form.staff # acc.staff \/ r.user \in stale))
    /\ End(a)
    /\ UNCHANGED <<registered, active, intended, merged>>

\* update_slot_access: is_staff is read under the lock.
LockSlot(a, u) ==
    /\ u \in DOMAIN account
    /\ ~UserLocked(u)
    /\ account[u].staff
    /\ \E rights \in SUBSET Right : Begin(a, "slot", u, [None EXCEPT !.rights = rights])

CommitSlot(a) ==
    LET r == request[a] IN
    /\ r.stage = "slot"
    /\ Save(r.user, [account[r.user] EXCEPT !.rights = r.form.rights])
    /\ End(a)
    /\ UNCHANGED <<registered, active, history>>

\* update_instance_access: is_staff and the active instances are read before the
\* transaction, without a lock; only operators get operator access.
ReadAccess(a, u) ==
    /\ u \in DOMAIN account
    /\ \E grants \in Chosen({k \in Kinds(account[u].staff) : k.notify => k.operator}) :
         Begin(a, "access", u, [None EXCEPT !.staff = account[u].staff, !.grants = grants])

\* The transaction deletes the rows it can see ...
DeleteCommitted(a) ==
    /\ request[a].stage = "access"
    /\ request' = [request EXCEPT ![a].stage = "replace"]
    /\ Save(request[a].user, [account[request[a].user] EXCEPT !.grants = NoGrants])
    /\ UNCHANGED <<registered, active, history>>

DeleteGrants(a) ==
    /\ request[a].stage = "access"
    /\ request' = [request EXCEPT ![a].stage = "replace",
                                  ![a].mine = DOMAIN account[request[a].user].grants]
    /\ UNCHANGED <<tables, history>>

\* ... and inserts the chosen ones.  Rows of a save that was committed since are
\* still there: unique_user_instance_access makes the insert fail when both have
\* a row of one instance, otherwise the rows of both saves remain.  A row of an
\* instance that was removed since fails as well.
Left(r) == DOMAIN account[r.user].grants \ r.mine
Collides(r) == DOMAIN r.form.grants \cap Left(r) # {} \/ ~ DOMAIN r.form.grants \subseteq registered

\* get_or_create of the scope.
ScopeKept(scope) == IF scope = "none" THEN "local" ELSE scope

NewGrants(r) ==
    [i \in Left(r) \cup DOMAIN r.form.grants |->
        IF i \in DOMAIN r.form.grants THEN r.form.grants[i] ELSE account[r.user].grants[i]]

ReplaceGrants(a) ==
    LET r == request[a]
        acc == account[r.user] IN
    /\ r.stage = "replace"
    /\ ~Collides(r)
    /\ Save(r.user, [acc EXCEPT !.grants = NewGrants(r), !.scope = ScopeKept(@)])
    /\ intended' = [intended EXCEPT ![r.user] = DOMAIN r.form.grants]
    /\ stale' = Note(stale, r.user, r.form.staff # acc.staff \/ (r.user \in stale /\ Left(r) # {}))
    /\ merged' = Note(merged, r.user, Left(r) # {})
    /\ request' = [b \in Admin |->
          IF b = a THEN Idle(r)
          ELSE IF request[b].user = r.user THEN [request[b] EXCEPT !.mine = @ \ r.mine] ELSE request[b]]
    /\ UNCHANGED <<registered, active>>

\* create_user: the active instances are listed and the name is looked up first.
\* A read-only grant may be stored with can_manage_notifications here.
ReadNew(a, u) ==
    /\ u \notin DOMAIN account
    /\ \E staff \in BOOLEAN, scope \in {"local", "global"}, rights \in SUBSET Right :
         /\ scope = "global" \/ rights # {} => staff
         /\ \E grants \in Chosen(Kinds(staff)) :
              Begin(a, "create", u, [staff |-> staff, scope |-> scope, grants |-> grants, rights |-> rights])

CreateUser(a) ==
    LET r == request[a] IN
    /\ r.stage = "create"
    /\ r.user \notin DOMAIN account
    /\ DOMAIN r.form.grants \subseteq registered
    /\ account' = [u \in DOMAIN account \cup {r.user} |-> IF u = r.user THEN r.form ELSE account[u]]
    /\ intended' = [intended EXCEPT ![r.user] = DOMAIN r.form.grants]
    /\ End(a)
    /\ UNCHANGED <<registered, active, stale, merged>>

\* The transaction fails or the worker dies: everything is rolled back.  It is
\* the only way out of an insert that collides and of a name that is taken.
RollBack(a) ==
    /\ request[a].stage # "idle"
    /\ End(a)
    /\ UNCHANGED <<tables, history>>

-----------------------------------------------------------------------------
(* The registry, as accounts see it.                                       *)

\* The grants of removed instances go with them (on_delete=CASCADE).
RemoveInstances(S) ==
    /\ S # {} /\ S \subseteq registered
    /\ registered' = registered \ S
    /\ active' = active \ S
    /\ account' = [u \in DOMAIN account |->
          [account[u] EXCEPT !.grants = [j \in DOMAIN @ \ S |-> @[j]]]]
    /\ request' = [a \in Admin |-> [request[a] EXCEPT !.mine = @ \ S]]
    /\ UNCHANGED history

\* The API sets is_active.
SetActive(i) ==
    /\ i \in registered
    /\ active' = IF i \in active THEN active \ {i} ELSE active \cup {i}
    /\ UNCHANGED <<registered, account, request, history>>

Step(a) ==
    \/ \E u \in User : LockRole(a, u) \/ LockSlot(a, u) \/ ReadAccess(a, u) \/ ReadNew(a, u)
    \/ UpdateGrants(a) \/ CommitRole(a) \/ CommitSlot(a)
    \/ DeleteGrants(a) \/ ReplaceGrants(a) \/ CreateUser(a) \/ RollBack(a)

Next ==
    \/ \E a \in Admin : Step(a)
    \/ \E i \in Instance : SetActive(i)
    \/ \E S \in SUBSET Instance : RemoveInstances(S)

Spec == Init /\ [][Next]_vars

-----------------------------------------------------------------------------
(* Properties.                                                             *)

\* A request about an account that must exist.
Edits(r) == r.stage \in {"role", "grants", "slot", "access", "replace"}

\* Types of the tables, the requests and the histories; an account that is edited
\* exists.
TypeOK ==
    /\ active \subseteq registered
    /\ registered \subseteq Instance
    /\ DOMAIN account \subseteq User
    /\ \A u \in DOMAIN account : account[u] \in Account
    /\ request \in [Admin -> Request]
    /\ \A a \in Admin : Edits(request[a]) => request[a].user \in DOMAIN account
    /\ intended \in [User -> SUBSET Instance]
    /\ stale \subseteq User
    /\ merged \subseteq User

\* A read-only account keeps nothing of an operator, neither in force nor in a
\* row that the next promotion would revive ("Switching to Read-only revokes
\* operator actions, notification permissions, and slot permissions",
\* README.md:433).  The exception is instance access saved by a request that had
\* read the role before the switch, or while the switch was going through: nothing
\* locks the account there, and the switch misses the rows of such a save.
ReadOnlyHoldsNothing ==
    \A u \in DOMAIN account : ~account[u].staff =>
        /\ account[u].rights = {}
        /\ account[u].scope # "global"
        /\ u \notin stale => \A i \in registered : ~CanOperate(u, i) /\ ~CanNotify(u, i)
        /\ u \notin stale => \A i \in DOMAIN account[u].grants : account[u].grants[i] = Plain

\* An account has access to the instances of the last save that succeeded, less
\* those removed since: a failed save leaves the old access in place, and only
\* saves that overlap leave the instances of both.
GrantsAreTheLastSaved ==
    \A u \in DOMAIN account : u \notin merged => DOMAIN account[u].grants = intended[u] \cap registered

\* The two ways in which the code decides what an account sees agree:
\* accessible_instances for lists, instance_role for each request, also for
\* accounts that have no scope.
ListedAreViewable ==
    \A u \in DOMAIN account : Accessible(u) = {i \in active : CanView(u, i)}
===============================================================================
