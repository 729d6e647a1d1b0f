------------------------------- MODULE MfaLogin -------------------------------
(***************************************************************************)
(* Sign-in with a second factor: the views of monitor/auth_views.py, the   *)
(* enrolment and recovery codes of monitor/mfa.py and the gate of          *)
(* AdminMFARequiredMiddleware (monitor/middleware.py), with                *)
(* DJANGO_MFA_REQUIRED on, as in production.                               *)
(*                                                                         *)
(* Abstractions.  new_enrollment makes a secret and its recovery codes     *)
(* together; they are numbered by the enrolment that made them.  A code    *)
(* typed by a user is a pair <<enrolment, i>>: i = 0 for a code of the     *)
(* authenticator, i > 0 for recovery code i.  Reading the profile and      *)
(* answering are the two steps of a request; a browser waits for its       *)
(* answer, so its session (a signed cookie) is not shared by two requests. *)
(* The password form, whose failures go through the same three throttle    *)
(* helpers, always succeeds.  The cache is that of one worker process.     *)
(***************************************************************************)
EXTENDS Naturals, FiniteSets

CONSTANTS
    Users,         \* accounts
    Browsers,      \* browsers, each with one session and one request at a time
    Addresses,     \* addresses that requests come from (REMOTE_ADDR)
    NoAddress,     \* the address of a request that is not throttled
    Enrolling,     \* accounts whose enrolment is explored (bounds the inputs)
    NoUser,        \* an anonymous session
    MaxEnrolments, \* bound on the number of calls of new_enrollment
    CodeCount,     \* recovery codes per enrolment (10 in the code)
    Limit,         \* LOGIN_THROTTLE_LIMIT (10 in the code)
    StepUp         \* MFA_STEP_UP_MAX_AGE_SECONDS in ticks

ASSUME ConstantsAssumption ==
    /\ IsFiniteSet(Browsers)
    /\ NoUser \notin Users
    /\ NoAddress \notin Addresses
    /\ Enrolling \subseteq Users
    /\ MaxEnrolments \in Nat
    /\ CodeCount \in Nat
    /\ Limit \in Nat \ {0}
    /\ StepUp \in Nat

VARIABLES
    profile,   \* the UserMFA table
    minted,    \* number of enrolments made so far
    session,   \* the session of each browser
    request,   \* what the server is doing for each browser
    failures,  \* the throttle counters, by address and account; 0 when a key is absent
    spent,     \* history: recovery codes accepted
    respent,   \* history: recovery codes accepted a second time
    revived,   \* history: spent codes that an overlapping request made valid again
    confirmed, \* history: enrolments confirmed with a code
    mixed,     \* history: a stale save mixed two enrolments in the row
    wrong,     \* history: wrong codes checked since each counter was absent
    proof      \* history: who last gave a valid code in each browser, and when

history == <<spent, respent, revived, confirmed, mixed>>
vars == <<profile, minted, session, request, failures, history, wrong, proof>>

\* _auth_throttle_key: the client's address, and the account whose code it gives.
Keys == Addresses \X Users

Enrolments == 1..MaxEnrolments
Recovery   == Enrolments \X (1..CodeCount)
WrongCode  == <<0, 0>>

\* The recovery codes made with enrolment g.
CodesFromZero(g) == {g} \X (0..CodeCount)
CodesOf(g) == {g} \X (1..CodeCount)

Profile == [secret : 0..MaxEnrolments, pending : 0..MaxEnrolments,
            codes : SUBSET Recovery, enabled : BOOLEAN]
Session == [user : Users \cup {NoUser}, awaiting : Users \cup {NoUser},
            passed : Users \cup {NoUser}, verified : 0..StepUp]
Blank   == [secret |-> 0, pending |-> 0, codes |-> {}, enabled |-> FALSE]
Flushed == [user |-> NoUser, awaiting |-> NoUser, passed |-> NoUser, verified |-> 0]

Idle == [kind |-> "idle"]
Kinds == {"verify", "count", "view", "regenerate", "reset", "rotate", "confirm", "action"}
Request == [kind : Kinds, user : Users, from : Addresses \cup {NoAddress},
            copy : Profile, code : Enrolments \X (0..CodeCount) \cup {WrongCode}]

Init ==
    /\ profile = [u \in Users |-> Blank]
    /\ minted = 0
    /\ session = [b \in Browsers |-> Flushed]
    /\ request = [b \in Browsers |-> Idle]
    /\ failures = [k \in Keys |-> 0]
    /\ spent = {} /\ respent = {} /\ revived = {} /\ confirmed = {}
    /\ mixed = [u \in Users |-> FALSE]
    /\ wrong = [k \in Keys |-> 0]
    /\ proof = [b \in Browsers |-> [user |-> NoUser, left |-> 0]]

-----------------------------------------------------------------------------
(* mfa.py: what a code is checked against, and how a profile is saved.     *)

TotpValid(p, code)   == p.secret # 0 /\ code = <<p.secret, 0>>
BackupValid(p, code) == code \in p.codes
CodeValid(p, code)   == TotpValid(p, code) \/ BackupValid(p, code)

\* What someone in front of a browser can type.  A code is only checked against
\* the copy of the profile read with it, so all the invalid ones are one.
Typed(u) == {code \in Enrolments \X (0..CodeCount) : CodeValid(profile[u], code)} \cup {WrongCode}

Stale(u, copy) == copy.secret # profile[u].secret

\* Saving backup_codes: codes that were used and are put back count as revived.
SaveCodes(u, codes, accepted) ==
    /\ spent' = spent \cup accepted
    /\ respent' = respent \cup (accepted \cap spent)
    /\ revived' = revived \cup ((accepted \cup (codes \cap spent)) \ profile[u].codes)

\* profile.backup_codes.pop(index)
NothingPopped(copy, code) == copy.codes
Remaining(copy, code) == copy.codes \ {code}

\* verify_code on the copy read at the start: an authenticator code changes
\* nothing, a recovery code is popped and the copy's list is written back.
Consume(u, copy, code) ==
    IF TotpValid(copy, code)
    THEN UNCHANGED <<profile, history>>
    ELSE /\ profile' = [profile EXCEPT ![u].codes = Remaining(copy, code)]
         /\ SaveCodes(u, Remaining(copy, code), {code})
         /\ mixed' = [mixed EXCEPT ![u] = @ \/ Stale(u, copy)]
         /\ UNCHANGED confirmed

\* The fields new_enrollment assigns.
NewRowStillEnabled(u, g) == [profile[u] EXCEPT !.secret = g, !.pending = g, !.codes = {}]
NewRow(u, g) == [secret |-> g, pending |-> g, codes |-> {}, enabled |-> FALSE]

\* new_enrollment
NewEnrolment(u) ==
    /\ minted < MaxEnrolments
    /\ minted' = minted + 1
    /\ profile' = [profile EXCEPT ![u] = NewRow(u, minted + 1)]
    /\ SaveCodes(u, {}, {})
    /\ mixed' = [mixed EXCEPT ![u] = FALSE]
    /\ UNCHANGED confirmed

\* confirm_enrollment saves every field but the secret.
ConfirmEnrolment(u, copy) ==
    /\ profile' = [profile EXCEPT ![u].codes = CodesOf(copy.pending),
                                  ![u].pending = 0,
                                  ![u].enabled = TRUE]
    /\ SaveCodes(u, CodesOf(copy.pending), {})
    /\ confirmed' = confirmed \cup {copy.secret}
    /\ mixed' = [mixed EXCEPT ![u] = @ \/ Stale(u, copy)]

-----------------------------------------------------------------------------
(* Sessions.                                                               *)

\* django.contrib.auth.login: a session of another account is flushed first.
LoggedInOver(s, u) == [s EXCEPT !.user = u]
LoggedIn(s, u) == [(IF s.user \in {u, NoUser} THEN s ELSE Flushed) EXCEPT !.user = u]

\* mark_session_verified and mark_session_mfa_passed.
Proved(s) == [s EXCEPT !.verified = StepUp, !.passed = s.user]

Prove(b, u) == proof' = [proof EXCEPT ![b] = [user |-> u, left |-> StepUp]]

Respond(b) == request' = [request EXCEPT ![b] = Idle]

\* DashboardLoginView.form_valid: an enrolled account still has to verify.
SignIn(b, u) ==
    /\ request[b] = Idle
    /\ session' = [session EXCEPT ![b] = IF profile[u].enabled THEN [@ EXCEPT !.awaiting = u]
                                                               ELSE LoggedIn(@, u)]
    /\ UNCHANGED <<profile, minted, request, failures, history, wrong, proof>>

Logout(b) ==
    /\ request[b] = Idle
    /\ session' = [session EXCEPT ![b] = Flushed]
    /\ UNCHANGED <<profile, minted, request, failures, history, wrong, proof>>

Read(b, kind, u, from, code) ==
    /\ request[b] = Idle
    /\ request' = [request EXCEPT ![b] = [kind |-> kind, user |-> u, from |-> from,
                                          copy |-> profile[u], code |-> code]]
    /\ UNCHANGED <<profile, minted, session, failures, history, wrong, proof>>

-----------------------------------------------------------------------------
(* mfa_verify.                                                             *)

\* _is_throttled
ThrottledLate(k) == failures[k] > Limit
Throttled(k) == failures[k] >= Limit

\* A code is posted from wherever the browser is connected by now.
PostCode(b) ==
    LET u == session[b].awaiting IN
    /\ session[b].user = NoUser
    /\ u # NoUser
    /\ \E a \in Addresses, code \in Typed(u) :
         ~Throttled(<<a, u>>) /\ Read(b, "verify", u, a, code)

Key(r) == <<r.from, r.user>>

AcceptCode(b) ==
    LET r == request[b] IN
    /\ r.kind = "verify"
    /\ CodeValid(r.copy, r.code)
    /\ Consume(r.user, r.copy, r.code)
    /\ failures' = [failures EXCEPT ![Key(r)] = 0]
    /\ wrong' = [wrong EXCEPT ![Key(r)] = 0]
    /\ session' = [session EXCEPT ![b] = [Proved(LoggedIn(@, r.user)) EXCEPT !.awaiting = NoUser]]
    /\ Prove(b, r.user)
    /\ Respond(b)
    /\ UNCHANGED minted

\* _record_failure: cache.incr, which fails when the key is absent.
RejectCode(b) ==
    LET r == request[b] IN
    /\ r.kind = "verify"
    /\ ~CodeValid(r.copy, r.code)
    /\ wrong' = [wrong EXCEPT ![Key(r)] = @ + 1]
    /\ IF failures[Key(r)] = 0
       THEN request' = [request EXCEPT ![b].kind = "count"] /\ UNCHANGED failures
       ELSE failures' = [failures EXCEPT ![Key(r)] = @ + 1] /\ Respond(b)
    /\ UNCHANGED <<profile, minted, session, history, proof>>

\* ... and then cache.add, which does nothing when the key has appeared.
CountFirst(b) ==
    /\ request[b].kind = "count"
    /\ failures' = [failures EXCEPT ![Key(request[b])] = IF @ = 0 THEN 1 ELSE @]
    /\ Respond(b)
    /\ UNCHANGED <<profile, minted, session, history, wrong, proof>>

\* LOGIN_THROTTLE_SECONDS after the first failure the key is gone.
ThrottleExpires(k) ==
    /\ failures[k] > 0
    /\ failures' = [failures EXCEPT ![k] = 0]
    /\ wrong' = [wrong EXCEPT ![k] = 0]
    /\ UNCHANGED <<profile, minted, session, request, history, proof>>

-----------------------------------------------------------------------------
(* mfa_setup, which a session may reach before it has passed MFA.          *)

OpenSetup(b) ==
    /\ session[b].user \in Enrolling
    /\ \/ \E kind \in {"view", "regenerate"} : Read(b, kind, session[b].user, NoAddress, WrongCode)
       \/ \E kind \in {"reset", "confirm"}, code \in Typed(session[b].user) :
            Read(b, kind, session[b].user, NoAddress, code)

Confirms(r) ==
    /\ r.kind = "confirm"
    /\ ~r.copy.enabled
    /\ TotpValid(r.copy, r.code)
    /\ r.copy.pending # 0

\* The account gets a new secret: always before it is enrolled, and afterwards
\* only through a reset.
ResetAccepted(r) == r.kind \in {"reset", "rotate"} /\ r.copy.enabled /\ CodeValid(r.copy, r.code)
RotatesEnrolled(r) == r.kind = "regenerate" \/ ResetAccepted(r)
Rotates(r) == (r.kind = "regenerate" /\ ~r.copy.enabled) \/ ResetAccepted(r)

\* A recovery code given for a reset is popped in a save of its own.
PopForReset(b) ==
    LET r == request[b] IN
    /\ r.kind = "reset"
    /\ Rotates(r)
    /\ ~TotpValid(r.copy, r.code)
    /\ Consume(r.user, r.copy, r.code)
    /\ request' = [request EXCEPT ![b].kind = "rotate"]
    /\ UNCHANGED <<minted, session, failures, wrong, proof>>

Regenerate(b) ==
    LET r == request[b] IN
    /\ Rotates(r)
    /\ r.kind = "reset" => TotpValid(r.copy, r.code)
    /\ NewEnrolment(r.user)
    /\ Respond(b)
    /\ UNCHANGED <<session, failures, wrong, proof>>

Confirm(b) ==
    LET r == request[b] IN
    /\ Confirms(r)
    /\ ConfirmEnrolment(r.user, r.copy)
    /\ session' = [session EXCEPT ![b] = Proved(@)]
    /\ Prove(b, r.user)
    /\ Respond(b)
    /\ UNCHANGED <<minted, failures, wrong>>

\* Every other request renders the page: an account that is not enrolled gets a
\* secret if it has none.
RenderSetup(b) ==
    LET r == request[b] IN
    /\ r.kind \in {"view", "regenerate", "reset", "confirm"}
    /\ ~Rotates(r) /\ ~Confirms(r)
    /\ IF ~r.copy.enabled /\ (r.copy.secret = 0 \/ r.copy.pending = 0)
       THEN NewEnrolment(r.user)
       ELSE UNCHANGED <<profile, minted, history>>
    /\ Respond(b)
    /\ UNCHANGED <<session, failures, wrong, proof>>

-----------------------------------------------------------------------------
(* The middleware and protected actions.                                   *)

Enrolled(b) == session[b].user # NoUser /\ profile[session[b].user].enabled
Served(b)      == Enrolled(b) /\ session[b].passed = session[b].user
ServedAdmin(b) == Served(b) /\ session[b].verified > 0

\* A page is served, or the account is sent to enrolment, with nothing changed;
\* a session that has not passed MFA, or not recently for /admin/, is flushed.
Bounce(b) ==
    /\ Enrolled(b)
    /\ ~ServedAdmin(b)
    /\ Logout(b)

\* require_mfa_for_action: every caller asks for a code with the action.
AskAction(b) ==
    /\ Served(b)
    /\ \E code \in Typed(session[b].user) : Read(b, "action", session[b].user, NoAddress, code)

AnswerAction(b) ==
    LET r == request[b] IN
    /\ r.kind = "action"
    /\ IF r.copy.enabled /\ CodeValid(r.copy, r.code)
       THEN /\ Consume(r.user, r.copy, r.code)
            /\ session' = [session EXCEPT ![b].verified = StepUp]
            /\ Prove(b, r.user)
       ELSE UNCHANGED <<profile, session, history, proof>>
    /\ Respond(b)
    /\ UNCHANGED <<minted, failures, wrong>>

\* gunicorn kills a request that takes too long (not between the two cache calls
\* of _record_failure).
Abandon(b) ==
    /\ request[b] # Idle
    /\ request[b].kind # "count"
    /\ Respond(b)
    /\ UNCHANGED <<profile, minted, session, failures, history, wrong, proof>>

Tick ==
    /\ \E b \in Browsers : session[b].verified > 0
    /\ session' = [b \in Browsers |->
           [session[b] EXCEPT !.verified = IF @ > 0 THEN @ - 1 ELSE 0]]
    /\ proof' = [b \in Browsers |-> [proof[b] EXCEPT !.left = IF @ > 0 THEN @ - 1 ELSE 0]]
    /\ UNCHANGED <<profile, minted, request, failures, history, wrong>>

Next ==
    \/ \E b \in Browsers :
         \/ \E u \in Users : SignIn(b, u)
         \/ Logout(b) \/ Bounce(b)
         \/ PostCode(b) \/ AcceptCode(b) \/ RejectCode(b) \/ CountFirst(b)
         \/ OpenSetup(b) \/ PopForReset(b) \/ Regenerate(b) \/ Confirm(b) \/ RenderSetup(b)
         \/ AskAction(b) \/ AnswerAction(b) \/ Abandon(b)
    \/ \E k \in Keys : ThrottleExpires(k)
    \/ Tick

Spec == Init /\ [][Next]_vars

-----------------------------------------------------------------------------
(* Properties.                                                             *)

\* Type correctness of the tables, the sessions and the requests.
TypeOK ==
    /\ profile \in [Users -> Profile]
    /\ minted \in 0..MaxEnrolments
    /\ session \in [Browsers -> Session]
    /\ request \in [Browsers -> Request \cup {Idle}]
    /\ failures \in [Keys -> Nat]
    /\ spent \subseteq Recovery /\ respent \subseteq Recovery /\ revived \subseteq Recovery
    /\ confirmed \subseteq Enrolments
    /\ mixed \in [Users -> BOOLEAN]
    /\ wrong \in [Keys -> Nat]
    /\ proof \in [Browsers -> [user : Users \cup {NoUser}, left : 0..StepUp]]

\* A recovery code is accepted twice only if an overlapping request, which had
\* read the list before the code was used, accepted it or wrote it back
\* (consume_backup_code, confirm_enrollment; README.md:446 "one-time").
CodeAcceptedOnce == respent \subseteq revived

\* An account that is enrolled has a secret its owner proved to hold, and only
\* recovery codes shown with that secret, unless a request that had read another
\* secret saved over the row: confirm_enrollment leaves the secret out of its
\* save and consume_backup_code writes its own list of codes back.
EnrolledSecretIsProved ==
    \A u \in Users : profile[u].enabled /\ ~mixed[u] =>
        /\ profile[u].secret \in confirmed
        /\ profile[u].codes \subseteq CodesOf(profile[u].secret)

\* The flags of a session, by which the middleware serves pages (mfa_session_ok)
\* and the admin site (mfa_verified_at, at most StepUp old), stand for a code that
\* the account now signed in gave in this browser, whichever accounts signed in
\* and out there before.
SessionFlagsProved ==
    \A b \in Browsers :
        /\ session[b].passed # NoUser => proof[b].user = session[b].user
        /\ session[b].verified > 0 => /\ proof[b].user = session[b].user
                                      /\ proof[b].left >= session[b].verified

\* However the requests overlap, at most Limit wrong codes for an account are checked
\* from one address before the throttle answers there, plus two for each further
\* concurrent request: one that passed the check earlier, and one whose first count
\* was lost to cache.add.  It bounds no account: each address has its own counter.
AttemptsBounded ==
    \A k \in Keys : wrong[k] <= Limit + 2 * (Cardinality(Browsers) - 1)

\* An enrolled account stops being enrolled only by a reset for which a valid
\* code was given, or by a request that had read the account before it was
\* enrolled (the comment of mfa_setup, auth_views.py:137-139).
EnrolmentKept ==
    [][\A u \in Users : profile[u].enabled /\ ~profile'[u].enabled =>
         \E b \in Browsers :
            /\ request[b] # Idle /\ request[b].user = u /\ request'[b] = Idle
            /\ \/ ResetAccepted(request[b])
               \/ ~request[b].copy.enabled]_vars
===============================================================================
