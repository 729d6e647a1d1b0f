---------------------------- MODULE QueryRunner ----------------------------
(***************************************************************************)
(* The query runner of one registered database: preview, commit and        *)
(* discard requests of monitor/views.py, running concurrently in the web   *)
(* workers, and the statements they execute on the target database         *)
(* (monitor/db.py).  ATOMIC_REQUESTS is not set, so every statement on the *)
(* application database commits by itself, and the target database is      *)
(* written in a transaction of its own.                                    *)
(*                                                                         *)
(* Abstractions.  A statement is known only by the execution it is         *)
(* previewed as; applied[e] counts how often it took effect.  The MFA      *)
(* challenge is passed: a refused one changes nothing but the audit log.   *)
(* A statement that validate_write_statement rejects changes nothing.      *)
(***************************************************************************)
EXTENDS Naturals, FiniteSets, Functions

CONSTANTS
    User,         \* users with access to the instance
    Admin,        \* those that are administrators (is_superuser)
    Request,      \* request threads (bounds the requests in progress at once)
    Execution,    \* primary keys of QueryRunnerExecution
    Autocommits,  \* the engine is MySQL, MariaDB or SQL Server: the query-runner
                  \* connection is opened with autocommit=True
    MaxApplied    \* bound: effects of one statement are counted up to here

ASSUME AdminAssumption == Admin \subseteq User
ASSUME EngineAssumption == Autocommits \in BOOLEAN
ASSUME BoundAssumption == MaxApplied \in Nat /\ MaxApplied >= 2

VARIABLES
    enabled,   \* RDSInstance.query_runner_enabled
    grants,    \* users with a QueryRunnerGrant
    exec,      \* the QueryRunnerExecution table, from its primary keys
    audit,     \* audit entries: execution, operation, result
    applied,   \* how often each statement took effect in the target database
    req,       \* the requests in progress
    overlapped,  \* history: executions two requests were deciding at once
    died         \* history: executions whose request died, or whose request
                 \*          could not write its audit entry

history == <<overlapped, died>>
vars == <<enabled, grants, exec, audit, applied, req, history>>

Op == {"preview", "commit", "discard"}
Decision == {"commit", "discard"}
Status == {"pending", "committed", "discarded", "failed"}

Put(f, k, v) == [x \in DOMAIN f \cup {k} |-> IF x = k THEN v ELSE f[x]]

Init ==
    /\ enabled \in BOOLEAN
    /\ grants = {}
    /\ exec = [e \in {} |-> 0]
    /\ audit = {}
    /\ applied = [e \in Execution |-> 0]
    /\ req = [r \in {} |-> 0]
    /\ overlapped = {}
    /\ died = {}

-----------------------------------------------------------------------------
(* Administration.                                                         *)

\* update_query_runner_credentials
SetEnabled ==
    /\ enabled' = ~enabled
    /\ UNCHANGED <<grants, exec, audit, applied, req, history>>

\* query_runner_grant: an administrator needs no grant and gets none.
Grant(u) ==
    /\ u \notin Admin
    /\ grants' = grants \cup {u}
    /\ UNCHANGED <<enabled, exec, audit, applied, req, history>>

Revoke(u) ==
    /\ u \in grants
    /\ grants' = grants \ {u}
    /\ UNCHANGED <<enabled, exec, audit, applied, req, history>>

-----------------------------------------------------------------------------
(* Requests.  Permission and status are read when the request begins; no   *)
(* row is locked, and neither is read again.                               *)

CanRunQueries(u) == enabled /\ (u \in Admin \/ u \in grants)

Working(e) == \E r \in DOMAIN req : req[r].exec = e
Deciding(e) == \E r \in DOMAIN req : req[r].exec = e /\ req[r].op \in Decision

Begin(r, u, op, e) ==
    /\ r \notin DOMAIN req
    /\ CanRunQueries(u)
    /\ req' = Put(req, r, [op |-> op, exec |-> e, user |-> u, ok |-> TRUE,
                           step |-> IF op = "discard" THEN "save" ELSE "run"])
    /\ UNCHANGED <<enabled, grants, exec, audit, applied>>

\* The execution row gets its primary key when it is created.
BeginPreview(r, u, e) ==
    /\ e \notin DOMAIN exec /\ ~Working(e) /\ applied[e] = 0
    /\ \A a \in audit : a.exec # e
    /\ Begin(r, u, "preview", e)
    /\ UNCHANGED history

OwnAnyStatus(u, e) ==
    e \in DOMAIN exec /\ (exec[e].user = u \/ u \in Admin)
OwnPending(u, e) ==
    e \in DOMAIN exec /\ exec[e].status = "pending"
      /\ (exec[e].user = u \/ u \in Admin)

BeginDecision(r, u, op, e) ==
    /\ OwnPending(u, e)
    /\ Begin(r, u, op, e)
    /\ overlapped' = IF Deciding(e) THEN overlapped \cup {e} ELSE overlapped
    /\ UNCHANGED died

Advance(r, step, ok) ==
    req' = [req EXCEPT ![r].step = step, ![r].ok = ok]

\* The statement takes effect once more; MaxApplied stands for "at least".
TakeEffect(e) ==
    applied' = [applied EXCEPT ![e] = IF @ < MaxApplied THEN @ + 1 ELSE @]

\* preview_write_query: execute, then rollback.  On an autocommit connection
\* the statement has taken effect before the rollback.
RunPreview(r) ==
    /\ req[r].op = "preview" /\ req[r].step = "run"
    /\ \E executed, ok \in BOOLEAN :
         /\ ok => executed
         /\ IF executed /\ Autocommits THEN TakeEffect(req[r].exec)
                                       ELSE UNCHANGED applied
         /\ Advance(r, IF ok THEN "save" ELSE "audit", ok)
    /\ UNCHANGED <<enabled, grants, exec, audit, history>>

\* commit_write_query: execute, then commit.  An error is reported as a
\* ConnectionError whether it came before the commit or with its reply.
RunCommit(r) ==
    /\ req[r].op = "commit" /\ req[r].step = "run"
    /\ \E effective, ok \in BOOLEAN :
         /\ ok => effective
         /\ IF effective THEN TakeEffect(req[r].exec) ELSE UNCHANGED applied
         /\ Advance(r, "save", ok)
    /\ UNCHANGED <<enabled, grants, exec, audit, history>>

NewStatusCancelled(r) ==
    CASE req[r].op = "preview" -> "pending"
      [] req[r].op = "discard" -> "cancelled"
      [] req[r].op = "commit"  -> IF req[r].ok THEN "committed" ELSE "failed"
NewStatusKeepsPending(r) ==
    CASE req[r].op = "preview" -> "pending"
      [] req[r].op = "discard" -> "discarded"
      [] req[r].op = "commit"  -> IF req[r].ok THEN "committed" ELSE "pending"
NewStatus(r) ==
    CASE req[r].op = "preview" -> "pending"
      [] req[r].op = "discard" -> "discarded"
      [] req[r].op = "commit"  -> IF req[r].ok THEN "committed" ELSE "failed"

\* objects.create, or save(update_fields=["status", ...]) on the copy read when
\* the request began: the row is written whatever its status is by now.
Save(r) ==
    LET e == req[r].exec
    IN  /\ req[r].step = "save"
        /\ exec' = Put(exec, e,
             [user |-> IF e \in DOMAIN exec THEN exec[e].user ELSE req[r].user,
              status |-> NewStatus(r)])
        /\ Advance(r, "audit", req[r].ok)
        /\ UNCHANGED <<enabled, grants, audit, applied, history>>

Finish(r) == req' = Restrict(req, DOMAIN req \ {r})

EntrySuccessOnly(r) ==
    IF req[r].ok
    THEN {[exec |-> req[r].exec, op |-> req[r].op, ok |-> TRUE]}
    ELSE {}
Entry(r) == {[exec |-> req[r].exec, op |-> req[r].op, ok |-> req[r].ok]}

WriteAudit(r) ==
    /\ req[r].step = "audit"
    /\ audit' = audit \cup Entry(r)
    /\ Finish(r)
    /\ UNCHANGED <<enabled, grants, exec, applied, history>>

\* The worker dies or an exception ends the request, or _log_audit swallows a
\* DatabaseError at the last step.
Die(r) ==
    /\ died' = IF req[r].op \in Decision \/ req[r].step # "run"
               THEN died \cup {req[r].exec} ELSE died
    /\ Finish(r)
    /\ UNCHANGED <<enabled, grants, exec, audit, applied, overlapped>>

Administration ==
    SetEnabled \/ \E u \in User : Grant(u) \/ Revoke(u)

Next ==
    \/ Administration
    \/ \E r \in Request, u \in User, e \in Execution :
         \/ BeginPreview(r, u, e)
         \/ \E op \in Decision : BeginDecision(r, u, op, e)
    \/ \E r \in DOMAIN req :
         RunPreview(r) \/ RunCommit(r) \/ Save(r) \/ WriteAudit(r) \/ Die(r)

Spec == Init /\ [][Next]_vars

-----------------------------------------------------------------------------
(* Properties.                                                             *)

TypeOK ==
    /\ enabled \in BOOLEAN
    /\ grants \subseteq User \ Admin
    /\ DOMAIN exec \subseteq Execution
    /\ exec \in [DOMAIN exec -> [user : User, status : Status]]
    /\ audit \subseteq [exec : Execution, op : Op, ok : BOOLEAN]
    /\ applied \in [Execution -> Nat]
    /\ DOMAIN req \subseteq Request
    /\ req \in [DOMAIN req -> [op : Op, exec : Execution, user : User,
                               ok : BOOLEAN, step : {"run", "save", "audit"}]]
    /\ overlapped \subseteq Execution
    /\ died \subseteq Execution

Excused == overlapped \cup died

\* The status a user sees agrees with what happened in the target database:
\* pending and discarded statements took no effect, committed ones took effect
\* once, failed ones at most once (the reply to the commit may be lost).  The
\* only exceptions are overlapping decisions and requests that died half-way.
RecordIsTruthful ==
    \A e \in DOMAIN exec \ Excused :
        ~Deciding(e) =>
            CASE exec[e].status \in {"pending", "discarded"} -> applied[e] = 0
              [] exec[e].status = "committed"                -> applied[e] = 1
              [] exec[e].status = "failed"                   -> applied[e] <= 1

\* A statement takes effect a second time only if two requests decided on its
\* execution at the same time or one died between the target's commit and the
\* status update: the pending filter of _get_own_pending_execution stops every
\* later commit, one that follows a lost commit reply included.
AppliedTwiceOnlyIfExcused ==
    \A e \in Execution \ Excused : applied[e] <= 1

\* A decision is final: a row leaves "committed", "discarded" or "failed" only
\* when the decisions overlapped.
DecisionIsFinal ==
    [][\A e \in DOMAIN exec :
         exec[e].status # "pending" /\ e \notin overlapped
           => exec'[e].status = exec[e].status]_vars

\* Every statement that took effect has an audit entry of its commit once no
\* request works on it any more, whether the commit was reported as a success or
\* as a failure (README.md:47, "Audit history for control actions").
EffectsAudited ==
    \A e \in Execution \ died :
        applied[e] > 0 /\ ~Working(e)
          => \E a \in audit : a.exec = e /\ a.op = "commit"

-----------------------------------------------------------------------------
(* What the documentation says and the code does not do.                   *)

\* "Run a single INSERT/UPDATE inside a transaction to see its row impact, then
\* roll back. No data is changed." (db.py:557-558): a statement that no request
\* ever asked to commit has no effect.
PreviewChangesNothing ==
    \A e \in Execution :
        /\ \A r \in DOMAIN req : req[r].exec = e => req[r].op = "preview"
        /\ e \in DOMAIN exec => exec[e].status = "pending" /\ e \notin Excused
        => applied[e] = 0
============================================================================
