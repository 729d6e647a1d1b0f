---------------------------- MODULE MfaLoginProofs ----------------------------
(***************************************************************************)
(* Theorems about MfaLogin, for any number of accounts, browsers,          *)
(* enrolments and recovery codes: what the session flags, the enrolment of *)
(* an account and the throttle stand for.                                  *)
(***************************************************************************)
EXTENDS MfaLogin, FiniteSetTheorems, TLAPS

-----------------------------------------------------------------------------
(* The invariants.                                                         *)

\* The enrolments that a row, or the copy of a row, is made of.
Mentions(p) == ({p.secret, p.pending} \ {0}) \cup {c[1] : c \in p.codes}

\* Enrolment g appears in the row of account u, or in a copy that a request read of it.
Claims(rows, requests, u, g) ==
    \/ g \in Mentions(rows[u])
    \/ \E b \in Browsers : /\ requests[b] # Idle /\ requests[b].user = u
                           /\ g \in Mentions(requests[b].copy)

\* Enrolments are numbered as they are made, and belong to one account.
Owned(rows, requests, made) ==
    \A u \in Users, g \in Enrolments :
        Claims(rows, requests, u, g) =>
            /\ g <= made
            /\ \A v \in Users : Claims(rows, requests, v, g) => u = v

\* A secret that waits to be confirmed is the one of its row.
Agrees(p) == p.pending \in {0, p.secret}

\* A code that was used and can be used again has been revived.
Guarded(row, used, again) == row.codes \cap used \subseteq again

\* What EnrolledSecretIsProved says of the row of an account, enrolled or not.
Matched(row, mix, proved) ==
    ~mix => row.codes \subseteq CodesOf(row.secret) /\ (row.enabled => row.secret \in proved)

\* A copy that can be saved without mixing enrolments has codes of its own secret.
CopyMatched(copy, row, mix) ==
    ~mix /\ copy.secret = row.secret => copy.codes \subseteq CodesOf(copy.secret)

RowInv ==
    /\ Owned(profile, request, minted)
    /\ \A u \in Users : /\ Agrees(profile[u])
                        /\ Guarded(profile[u], spent, revived)
                        /\ Matched(profile[u], mixed[u], confirmed)
    /\ \A b \in Browsers : request[b] # Idle =>
          LET r == request[b] IN
          Agrees(r.copy) /\ CopyMatched(r.copy, profile[r.user], mixed[r.user])
    /\ respent \subseteq revived

\* An anonymous session has no flags, and the flags of the others are those of the
\* account they belong to.
Flagged(s, p) ==
    /\ s.user = NoUser => s.passed = NoUser /\ s.verified = 0
    /\ s.passed # NoUser => p.user = s.user
    /\ s.verified > 0 => p.user = s.user /\ p.left >= s.verified

\* Behind the sign-in form a request acts for the account of its session.
ActsFor(r, s) == r.kind \in Kinds \ {"verify", "count"} => r.user = s.user

SessionInv ==
    \A b \in Browsers : Flagged(session[b], proof[b]) /\ ActsFor(request[b], session[b])

\* The browsers whose request is counted under key k and is at a given step.
At(requests, kind, k) ==
    {b \in Browsers : requests[b].kind = kind /\ Key(requests[b]) = k}

\* Wrong codes are counted, but for those between the two calls of _record_failure and
\* those whose first count was lost; a code that waits was let in before the limit.
Throttle(requests, k, count, checked) ==
    /\ count + Cardinality(At(requests, "verify", k)) <= Limit + Cardinality(Browsers) - 1
    /\ count = 0 => checked <= Cardinality(At(requests, "count", k))
    /\ count > 0 => checked <= count + Cardinality(Browsers) - 1

ThrottleInv == \A k \in Keys : Throttle(request, k, failures[k], wrong[k])

-----------------------------------------------------------------------------
(* Requests, and the codes they carry.                                     *)

LEMMA Waiting ==
    ASSUME NEW r \in Request \cup {Idle}
    PROVE  /\ r # Idle <=> r.kind \in Kinds
           /\ r = Idle <=> r.kind = "idle"
           /\ r # Idle => r \in Request
BY DEF Request, Idle, Kinds

Codes == Enrolments \X (0..CodeCount) \cup {WrongCode}

LEMMA Working ==
    ASSUME NEW r \in Request
    PROVE  r # Idle /\ r.kind \in Kinds /\ r.user \in Users /\ r.copy \in Profile /\ r.code \in Codes
BY DEF Request, Idle, Kinds, Codes

LEMMA TypedCodes == ASSUME NEW u PROVE Typed(u) \cup {WrongCode} \subseteq Codes
BY DEF Typed, Codes

LEMMA CodeTypes ==
    ASSUME NEW g \in Enrolments
    PROVE  CodesOf(g) \subseteq Recovery
BY DEF CodesOf, Recovery

LEMMA BlankTypes == Blank \in Profile /\ Flushed \in Session
BY ConstantsAssumption DEF Blank, Profile, Flushed, Session

\* The checked code of a request whose copy accepts it, when it is a recovery code.
LEMMA PopTypes ==
    ASSUME NEW r \in Request, CodeValid(r.copy, r.code), ~TotpValid(r.copy, r.code)
    PROVE  r.code \in r.copy.codes /\ r.code \in Recovery
BY DEF CodeValid, BackupValid, Request, Profile

-----------------------------------------------------------------------------
(* Types.                                                                  *)

Tables ==
    /\ profile \in [Users -> Profile]
    /\ minted \in 0..MaxEnrolments
    /\ spent \subseteq Recovery /\ respent \subseteq Recovery /\ revived \subseteq Recovery
    /\ confirmed \subseteq Enrolments
    /\ mixed \in [Users -> BOOLEAN]

Sessions ==
    /\ session \in [Browsers -> Session]
    /\ proof \in [Browsers -> [user : Users \cup {NoUser}, left : 0..StepUp]]

LEMMA SaveTypes ==
    ASSUME TypeOK, NEW u \in Users, NEW codes \in SUBSET Recovery, NEW accepted \in SUBSET Recovery,
           SaveCodes(u, codes, accepted)
    PROVE  spent' \subseteq Recovery /\ respent' \subseteq Recovery /\ revived' \subseteq Recovery
BY DEF SaveCodes, TypeOK

LEMMA ConsumeTypes ==
    ASSUME TypeOK, NEW r \in Request, CodeValid(r.copy, r.code), Consume(r.user, r.copy, r.code),
           UNCHANGED minted
    PROVE  Tables'
<1>1. CASE TotpValid(r.copy, r.code)
      BY <1>1 DEF Consume, TypeOK, Tables, history
<1>2. CASE ~TotpValid(r.copy, r.code)
  <2>1. r.code \in Recovery
        BY <1>2, PopTypes
  <2>2. r.user \in Users /\ Remaining(r.copy, r.code) \in SUBSET Recovery
        BY DEF Request, Profile, Remaining
  <2>3. SaveCodes(r.user, Remaining(r.copy, r.code), {r.code}) /\ UNCHANGED confirmed
        BY <1>2 DEF Consume
  <2>4. spent' \subseteq Recovery /\ respent' \subseteq Recovery /\ revived' \subseteq Recovery
        BY <2>1, <2>2, <2>3, SaveTypes
  <2>5. profile' \in [Users -> Profile]
        BY <1>2, <2>2 DEF Consume, TypeOK, Profile
  <2>6. mixed' \in [Users -> BOOLEAN]
        BY <1>2, <2>2 DEF Consume, TypeOK, Stale
  <2> QED BY <2>3, <2>4, <2>5, <2>6 DEF Tables, TypeOK
<1> QED BY <1>1, <1>2

LEMMA EnrolmentTypes ==
    ASSUME TypeOK, NEW u \in Users, NewEnrolment(u)
    PROVE  Tables'
<1>1. minted + 1 \in 0..MaxEnrolments /\ minted' = minted + 1
      BY ConstantsAssumption DEF NewEnrolment, TypeOK
<1>2. profile' \in [Users -> Profile]
      BY <1>1 DEF NewEnrolment, NewRow, TypeOK, Profile
<1>3. spent' \subseteq Recovery /\ respent' \subseteq Recovery /\ revived' \subseteq Recovery
      BY SaveTypes, {} \in SUBSET Recovery DEF NewEnrolment
<1> QED BY <1>1, <1>2, <1>3 DEF NewEnrolment, TypeOK, Tables

\* The row that confirm_enrollment leaves.
LEMMA ConfirmedRow ==
    ASSUME TypeOK, NEW u \in Users, NEW copy, CodesOf(copy.pending) \in SUBSET Recovery,
           ConfirmEnrolment(u, copy)
    PROVE  /\ profile' \in [Users -> Profile]
           /\ \A v \in Users \ {u} : profile'[v] = profile[v]
           /\ profile'[u].secret = profile[u].secret /\ profile'[u].pending = 0
           /\ profile'[u].codes = CodesOf(copy.pending) /\ profile'[u].enabled
<1> DEFINE one == [profile[u] EXCEPT !.codes = CodesOf(copy.pending)]
           two == [one EXCEPT !.pending = 0]
           new == [two EXCEPT !.enabled = TRUE]
<1>1. profile \in [Users -> Profile] /\ profile[u] \in Profile /\ 0 \in 0..MaxEnrolments
      BY ConstantsAssumption DEF TypeOK
<1>2. one \in Profile /\ one.secret = profile[u].secret /\ one.codes = CodesOf(copy.pending)
      BY <1>1 DEF Profile
<1> HIDE DEF one
<1>3. two \in Profile /\ two.secret = profile[u].secret /\ two.pending = 0
                     /\ two.codes = CodesOf(copy.pending)
      BY <1>1, <1>2 DEF Profile
<1> HIDE DEF two
<1>4. new \in Profile /\ new.secret = profile[u].secret /\ new.pending = 0
                     /\ new.codes = CodesOf(copy.pending) /\ new.enabled
      BY <1>3 DEF Profile
<1>5. profile' = [profile EXCEPT ![u] = new]
      BY <1>1 DEF ConfirmEnrolment, one, two
<1> HIDE DEF new
<1> QED BY <1>1, <1>4, <1>5

LEMMA ConfirmTypes ==
    ASSUME TypeOK, NEW r \in Request, Confirms(r), ConfirmEnrolment(r.user, r.copy), UNCHANGED minted
    PROVE  Tables'
<1>1. r.copy.pending \in Enrolments /\ r.copy.secret \in Enrolments /\ r.user \in Users
      BY ConstantsAssumption DEF Confirms, TotpValid, Request, Profile, Enrolments
<1>2. CodesOf(r.copy.pending) \in SUBSET Recovery
      BY <1>1, CodeTypes
<1>3. profile' \in [Users -> Profile]
      BY <1>1, <1>2, ConfirmedRow
<1>4. spent' \subseteq Recovery /\ respent' \subseteq Recovery /\ revived' \subseteq Recovery
      BY <1>1, <1>2, SaveTypes, {} \in SUBSET Recovery DEF ConfirmEnrolment
<1>5. mixed' \in [Users -> BOOLEAN]
      BY <1>1 DEF ConfirmEnrolment, TypeOK, Stale
<1> QED BY <1>1, <1>3, <1>4, <1>5 DEF ConfirmEnrolment, TypeOK, Tables

\* The sessions that the views and the middleware save.
LEMMA SessionTypes ==
    ASSUME NEW s \in Session, NEW u \in Users
    PROVE  /\ LoggedIn(s, u) \in Session /\ LoggedIn(s, u).user = u
           /\ [s EXCEPT !.awaiting = u] \in Session /\ [s EXCEPT !.awaiting = NoUser] \in Session
           /\ [s EXCEPT !.verified = StepUp] \in Session
           /\ Proved(s) \in Session
<1>1. StepUp \in 0..StepUp /\ Flushed \in Session
      BY BlankTypes, ConstantsAssumption
<1>2. [s EXCEPT !.verified = StepUp] \in Session
      BY <1>1 DEF Session
<1>3. Proved(s) \in Session
      BY <1>1 DEF Session, Proved
<1>4. LoggedIn(s, u) \in Session /\ LoggedIn(s, u).user = u
  <2> DEFINE base == IF s.user \in {u, NoUser} THEN s ELSE Flushed
  <2>1. base \in Session
        BY <1>1
  <2> HIDE DEF base
  <2>2. [base EXCEPT !.user = u] \in Session /\ [base EXCEPT !.user = u].user = u
        BY <2>1 DEF Session
  <2> QED BY <2>2 DEF LoggedIn, base
<1> QED BY <1>2, <1>3, <1>4 DEF Session

LEMMA ReadTypes ==
    ASSUME TypeOK, NEW b \in Browsers, NEW kind \in Kinds, NEW u \in Users,
           NEW from \in Addresses \cup {NoAddress}, NEW code \in Codes, Read(b, kind, u, from, code)
    PROVE  /\ request' \in [Browsers -> Request \cup {Idle}]
           /\ UNCHANGED <<profile, minted, session, failures, history, wrong, proof>>
<1>1. [kind |-> kind, user |-> u, from |-> from, copy |-> profile[u], code |-> code] \in Request
      BY DEF Request, TypeOK, Codes
<1> QED BY <1>1 DEF Read, TypeOK

LEMMA RespondTypes ==
    ASSUME TypeOK, NEW b \in Browsers, Respond(b)
    PROVE  request' \in [Browsers -> Request \cup {Idle}]
BY DEF Respond, TypeOK

LEMMA TypesFromParts ==
    ASSUME TypeOK, Tables', Sessions', request' \in [Browsers -> Request \cup {Idle}],
           failures' \in [Keys -> Nat], wrong' \in [Keys -> Nat]
    PROVE  TypeOK'
BY DEF TypeOK, Tables, Sessions

LEMMA Parts == ASSUME TypeOK PROVE Tables /\ Sessions
BY DEF TypeOK, Tables, Sessions

LEMMA TablesKept ==
    ASSUME TypeOK, UNCHANGED <<profile, minted, history>>
    PROVE  Tables'
BY DEF TypeOK, Tables, history

\* The request of a browser that is waiting, and its session.
LEMMA InRequest ==
    ASSUME TypeOK, NEW b \in Browsers
    PROVE  /\ request[b] \in Request \cup {Idle}
           /\ request[b].kind \in Kinds => request[b] \in Request
           /\ session[b] \in Session
           /\ request[b] \in Request => request[b].user \in Users /\ request[b].copy \in Profile
BY DEF TypeOK, Request, Idle, Kinds

LEMMA ProofTypes ==
    ASSUME TypeOK, NEW b \in Browsers, NEW u \in Users, Prove(b, u),
           NEW s \in Session, session' = [session EXCEPT ![b] = s]
    PROVE  Sessions'
BY ConstantsAssumption DEF TypeOK, Sessions, Prove

LEMMA AcceptTypes == ASSUME TypeOK, NEW b \in Browsers, AcceptCode(b) PROVE TypeOK'
<1> DEFINE r == request[b]
<1>1. r \in Request /\ r.user \in Users /\ session[b] \in Session
      BY InRequest DEF AcceptCode, Kinds
<1>2. Tables'
      BY <1>1, ConsumeTypes DEF AcceptCode
<1>3. Sessions'
  <2> DEFINE s == [Proved(LoggedIn(session[b], r.user)) EXCEPT !.awaiting = NoUser]
  <2>1. s \in Session
        BY <1>1, SessionTypes
  <2>2. session' = [session EXCEPT ![b] = s] /\ Prove(b, r.user)
        BY DEF AcceptCode
  <2> HIDE DEF s
  <2> QED BY <1>1, <2>1, <2>2, ProofTypes
<1>4. request' \in [Browsers -> Request \cup {Idle}]
      BY RespondTypes DEF AcceptCode
<1>5. failures' \in [Keys -> Nat] /\ wrong' \in [Keys -> Nat]
      BY <1>1 DEF AcceptCode, TypeOK
<1> QED BY <1>2, <1>3, <1>4, <1>5, TypesFromParts

LEMMA RejectTypes == ASSUME TypeOK, NEW b \in Browsers, RejectCode(b) PROVE TypeOK'
<1> DEFINE r == request[b]
<1>1. r \in Request /\ r.user \in Users
      BY InRequest DEF RejectCode, Kinds
<1>2. Tables' /\ Sessions'
      BY TablesKept, Parts DEF RejectCode, Sessions
<1>3. [r EXCEPT !.kind = "count"] \in Request
      BY <1>1 DEF Request, Kinds
<1>4. request' \in [Browsers -> Request \cup {Idle}]
  <2>1. CASE failures[Key(r)] = 0
        BY <1>3, <2>1 DEF RejectCode, TypeOK
  <2>2. CASE failures[Key(r)] # 0
        BY <2>2, RespondTypes DEF RejectCode
  <2> QED BY <2>1, <2>2
<1>5. failures' \in [Keys -> Nat] /\ wrong' \in [Keys -> Nat]
  <2> DEFINE key == Key(r)
  <2>1. /\ wrong' = [wrong EXCEPT ![key] = @ + 1]
        /\ failures' = failures \/ failures' = [failures EXCEPT ![key] = @ + 1]
        BY DEF RejectCode
  <2> HIDE DEF key
  <2>2. ASSUME NEW f \in [Keys -> Nat] PROVE [f EXCEPT ![key] = @ + 1] \in [Keys -> Nat]
    <3>1. CASE key \in Keys
          BY <3>1
    <3>2. CASE key \notin Keys
          BY <3>2, [f EXCEPT ![key] = @ + 1] = f
    <3> QED BY <3>1, <3>2
  <2> QED BY <2>1, <2>2, Zenon DEF TypeOK
<1> QED BY <1>2, <1>4, <1>5, TypesFromParts

LEMMA ActionTypes == ASSUME TypeOK, NEW b \in Browsers, AnswerAction(b) PROVE TypeOK'
<1> DEFINE r == request[b]
<1>1. r \in Request /\ r.user \in Users /\ session[b] \in Session
      BY InRequest DEF AnswerAction, Kinds
<1>2. request' \in [Browsers -> Request \cup {Idle}]
      BY RespondTypes DEF AnswerAction
<1>3. failures' \in [Keys -> Nat] /\ wrong' \in [Keys -> Nat]
      BY DEF AnswerAction, TypeOK
<1>4. CASE r.copy.enabled /\ CodeValid(r.copy, r.code)
  <2>1. Tables'
        BY <1>1, <1>4, ConsumeTypes DEF AnswerAction
  <2>2. [session[b] EXCEPT !.verified = StepUp] \in Session
        BY <1>1, SessionTypes
  <2>3. session' = [session EXCEPT ![b] = [session[b] EXCEPT !.verified = StepUp]] /\ Prove(b, r.user)
        BY <1>4 DEF AnswerAction, TypeOK
  <2>4. Sessions'
        BY <1>1, <2>2, <2>3, ProofTypes
  <2> QED BY <1>2, <1>3, <2>1, <2>4, TypesFromParts
<1>5. CASE ~(r.copy.enabled /\ CodeValid(r.copy, r.code))
  <2>1. Tables' /\ Sessions'
        BY <1>5, TablesKept, Parts DEF AnswerAction, Sessions
  <2> QED BY <1>2, <1>3, <2>1, TypesFromParts
<1> QED BY <1>4, <1>5

LEMMA PopForResetTypes == ASSUME TypeOK, NEW b \in Browsers, PopForReset(b) PROVE TypeOK'
<1> DEFINE r == request[b]
<1>1. r \in Request
      BY InRequest DEF PopForReset, Kinds
<1>2. CodeValid(r.copy, r.code)
      BY DEF PopForReset, Rotates, ResetAccepted
<1>3. Tables'
      BY <1>1, <1>2, ConsumeTypes DEF PopForReset
<1>4. [r EXCEPT !.kind = "rotate"] \in Request
      BY <1>1 DEF Request, Kinds
<1>5. request' \in [Browsers -> Request \cup {Idle}]
      BY <1>4 DEF PopForReset, TypeOK
<1>6. Sessions' /\ failures' \in [Keys -> Nat] /\ wrong' \in [Keys -> Nat]
      BY DEF PopForReset, TypeOK, Sessions
<1> QED BY <1>3, <1>5, <1>6, TypesFromParts

LEMMA RegenerateTypes == ASSUME TypeOK, NEW b \in Browsers, Regenerate(b) PROVE TypeOK'
<1>1. request[b].user \in Users
      BY InRequest DEF Regenerate, Rotates, ResetAccepted, Kinds
<1>2. Tables'
      BY <1>1, EnrolmentTypes DEF Regenerate
<1>3. request' \in [Browsers -> Request \cup {Idle}]
      BY RespondTypes DEF Regenerate
<1>4. Sessions' /\ failures' \in [Keys -> Nat] /\ wrong' \in [Keys -> Nat]
      BY DEF Regenerate, TypeOK, Sessions
<1> QED BY <1>2, <1>3, <1>4, TypesFromParts

LEMMA ConfirmingTypes == ASSUME TypeOK, NEW b \in Browsers, Confirm(b) PROVE TypeOK'
<1> DEFINE r == request[b]
<1>1. r \in Request /\ r.user \in Users /\ session[b] \in Session
      BY InRequest DEF Confirm, Confirms, Kinds
<1>2. Tables'
      BY <1>1, ConfirmTypes DEF Confirm
<1>3. Proved(session[b]) \in Session
      BY <1>1, SessionTypes
<1>4. session' = [session EXCEPT ![b] = Proved(session[b])] /\ Prove(b, r.user)
      BY DEF Confirm
<1>5. Sessions'
      BY <1>1, <1>3, <1>4, ProofTypes
<1>6. request' \in [Browsers -> Request \cup {Idle}]
      BY RespondTypes DEF Confirm
<1>7. failures' \in [Keys -> Nat] /\ wrong' \in [Keys -> Nat]
      BY DEF Confirm, TypeOK
<1> QED BY <1>2, <1>5, <1>6, <1>7, TypesFromParts

LEMMA RenderTypes == ASSUME TypeOK, NEW b \in Browsers, RenderSetup(b) PROVE TypeOK'
<1> DEFINE r == request[b]
<1>1. r \in Request /\ r.user \in Users
      BY InRequest DEF RenderSetup, Kinds
<1>2. Tables'
  <2>1. CASE NewEnrolment(r.user)
        BY <1>1, <2>1, EnrolmentTypes
  <2>2. CASE UNCHANGED <<profile, minted, history>>
        BY <2>2, TablesKept
  <2> QED BY <2>1, <2>2 DEF RenderSetup
<1>3. request' \in [Browsers -> Request \cup {Idle}]
      BY RespondTypes DEF RenderSetup
<1>4. Sessions' /\ failures' \in [Keys -> Nat] /\ wrong' \in [Keys -> Nat]
      BY DEF RenderSetup, TypeOK, Sessions
<1> QED BY <1>2, <1>3, <1>4, TypesFromParts

\* What a request that only reads may be.
LEMMA ReadersRead ==
    ASSUME TypeOK, NEW b \in Browsers, PostCode(b) \/ OpenSetup(b) \/ AskAction(b)
    PROVE  \E kind \in Kinds \ {"count"}, u \in Users, from \in Addresses \cup {NoAddress}, code \in Codes :
             /\ Read(b, kind, u, from, code)
             /\ kind = "verify" => ~Throttled(<<from, u>>)
             /\ kind # "verify" => u = session[b].user
<1>1. session[b] \in Session
      BY InRequest
<1>2. CASE PostCode(b)
  <2>1. session[b].awaiting \in Users /\ "verify" \in Kinds \ {"count"}
        BY <1>1, <1>2 DEF PostCode, Session, Kinds
  <2> QED BY <1>2, <2>1, TypedCodes DEF PostCode
<1>3. CASE OpenSetup(b)
  <2>1. session[b].user \in Users
        BY <1>3, ConstantsAssumption DEF OpenSetup
  <2>2. CASE \E kind \in {"view", "regenerate"} : Read(b, kind, session[b].user, NoAddress, WrongCode)
        BY <2>1, <2>2, TypedCodes DEF Kinds
  <2>3. CASE \E kind \in {"reset", "confirm"}, code \in Typed(session[b].user) :
                Read(b, kind, session[b].user, NoAddress, code)
        BY <2>1, <2>3, TypedCodes DEF Kinds
  <2> QED BY <1>3, <2>2, <2>3 DEF OpenSetup
<1>4. CASE AskAction(b)
  <2>1. session[b].user \in Users /\ "action" \in Kinds \ {"count"}
        BY <1>1, <1>4 DEF AskAction, Served, Enrolled, Session, Kinds
  <2> QED BY <1>4, <2>1, TypedCodes DEF AskAction
<1> QED BY <1>2, <1>3, <1>4

\* The steps of the session framework leave tables and requests alone.
LEMMA SignInTypes == ASSUME TypeOK, NEW b \in Browsers, NEW u \in Users, SignIn(b, u) PROVE TypeOK'
<1>1. [session[b] EXCEPT !.awaiting = u] \in Session /\ LoggedIn(session[b], u) \in Session
      BY InRequest, SessionTypes
<1>2. session' \in [Browsers -> Session]
      BY <1>1 DEF SignIn, TypeOK
<1> QED BY <1>2 DEF SignIn, TypeOK, history

LEMMA LogoutTypes == ASSUME TypeOK, NEW b \in Browsers, Logout(b) PROVE TypeOK'
BY BlankTypes DEF Logout, TypeOK, history

LEMMA TickTypes == ASSUME TypeOK, Tick PROVE TypeOK'
<1>1. ASSUME NEW b \in Browsers
      PROVE  [session[b] EXCEPT !.verified = IF @ > 0 THEN @ - 1 ELSE 0] \in Session
  <2>1. session[b] \in Session
        BY InRequest
  <2> QED BY <2>1, ConstantsAssumption DEF Session
<1>2. ASSUME NEW b \in Browsers
      PROVE  [proof[b] EXCEPT !.left = IF @ > 0 THEN @ - 1 ELSE 0]
                \in [user : Users \cup {NoUser}, left : 0..StepUp]
      BY ConstantsAssumption DEF TypeOK
<1> QED BY <1>1, <1>2 DEF Tick, TypeOK, history

LEMMA ReadStepTypes ==
    ASSUME TypeOK, NEW b \in Browsers, PostCode(b) \/ OpenSetup(b) \/ AskAction(b)
    PROVE  TypeOK'
<1>1. PICK kind \in Kinds, u \in Users, from \in Addresses \cup {NoAddress}, code \in Codes :
          Read(b, kind, u, from, code)
      BY ReadersRead
<1>2. /\ request' \in [Browsers -> Request \cup {Idle}]
      /\ UNCHANGED <<profile, minted, session, failures, history, wrong, proof>>
      BY <1>1, ReadTypes
<1> QED BY <1>2 DEF TypeOK, history

\* The actions of Next, one by one.
LEMMA Steps ==
    ASSUME [Next]_vars
    PROVE  \/ UNCHANGED vars
           \/ Tick
           \/ \E k \in Keys : ThrottleExpires(k)
           \/ \E b \in Browsers, u \in Users : SignIn(b, u)
           \/ \E b \in Browsers :
                \/ Logout(b) \/ AcceptCode(b) \/ RejectCode(b) \/ CountFirst(b)
                \/ PostCode(b) \/ OpenSetup(b) \/ AskAction(b)
                \/ PopForReset(b) \/ Regenerate(b) \/ Confirm(b) \/ RenderSetup(b)
                \/ AnswerAction(b) \/ Abandon(b)
BY Zenon DEF Next, Bounce

LEMMA InitialTypes == Init => TypeOK
BY BlankTypes, ConstantsAssumption DEF Init, TypeOK

LEMMA TypesKept == TypeOK /\ [Next]_vars => TypeOK'
<1> SUFFICES ASSUME TypeOK, [Next]_vars PROVE TypeOK'
    OBVIOUS
<1>1. CASE UNCHANGED vars
      BY <1>1 DEF vars, TypeOK, history
<1>2. CASE Tick
      BY <1>2, TickTypes
<1>3. CASE \E k \in Keys : ThrottleExpires(k)
      BY <1>3 DEF ThrottleExpires, TypeOK, history
<1>4. CASE \E b \in Browsers, u \in Users : SignIn(b, u)
      BY <1>4, SignInTypes
<1>5. ASSUME NEW b \in Browsers,
             \/ Logout(b) \/ AcceptCode(b) \/ RejectCode(b) \/ CountFirst(b)
             \/ PostCode(b) \/ OpenSetup(b) \/ AskAction(b)
             \/ PopForReset(b) \/ Regenerate(b) \/ Confirm(b) \/ RenderSetup(b)
             \/ AnswerAction(b) \/ Abandon(b)
      PROVE  TypeOK'
  <2>1. CASE Logout(b)
        BY <2>1, LogoutTypes
  <2>2. CASE CountFirst(b) \/ Abandon(b)
        BY <2>2, RespondTypes, InRequest DEF CountFirst, Abandon, TypeOK, history, Kinds
  <2> QED BY <1>5, <2>1, <2>2, AcceptTypes, RejectTypes, ReadStepTypes, PopForResetTypes,
             RegenerateTypes, ConfirmingTypes, RenderTypes, ActionTypes
<1> QED BY <1>1, <1>2, <1>3, <1>4, <1>5, Steps

\* The tables, the sessions and the requests are well typed.
THEOREM LoginTypes == Spec => []TypeOK
BY InitialTypes, TypesKept, PTL DEF Spec

-----------------------------------------------------------------------------
(* What a step may do to the rows.                                         *)

\* consume_backup_code
Pops(r) ==
    /\ r.code \in r.copy.codes
    /\ ~TotpValid(r.copy, r.code)
    /\ Consume(r.user, r.copy, r.code)
    /\ UNCHANGED minted

\* new_enrollment
Renews(r) == NewEnrolment(r.user) /\ (ResetAccepted(r) \/ ~r.copy.enabled)

Confirmed(r) == Confirms(r) /\ ConfirmEnrolment(r.user, r.copy) /\ UNCHANGED minted

RowsUntouched == UNCHANGED <<profile, minted, history>>

\* The step answers the request, or leaves a reset to the enrolment that follows.
Goes(b) == Respond(b) \/ request' = [request EXCEPT ![b].kind = "rotate"]

\* A request changes rows only in the step that answers it, but for the code of a reset.
RowStep ==
    \/ RowsUntouched
    \/ \E b \in Browsers :
          /\ request[b] \in Request
          /\ \/ Goes(b) /\ Pops(request[b])
             \/ Respond(b) /\ (Renews(request[b]) \/ Confirmed(request[b]))

LEMMA ConsumeSteps ==
    ASSUME NEW r \in Request, CodeValid(r.copy, r.code), Consume(r.user, r.copy, r.code), UNCHANGED minted
    PROVE  RowsUntouched \/ Pops(r)
BY DEF Pops, RowsUntouched, Consume, CodeValid, BackupValid

LEMMA RowSteps ==
    ASSUME TypeOK, [Next]_vars
    PROVE  RowStep
<1>1. ASSUME NEW b \in Browsers, AcceptCode(b) PROVE RowStep
  <2>1. request[b] \in Request
        BY <1>1, InRequest DEF AcceptCode, Kinds
  <2> QED BY <1>1, <2>1, ConsumeSteps DEF AcceptCode, RowStep, Goes
<1>2. ASSUME NEW b \in Browsers, AnswerAction(b) PROVE RowStep
  <2>1. request[b] \in Request
        BY <1>2, InRequest DEF AnswerAction, Kinds
  <2>2. CASE request[b].copy.enabled /\ CodeValid(request[b].copy, request[b].code)
        BY <1>2, <2>1, <2>2, ConsumeSteps DEF AnswerAction, RowStep, Goes
  <2> QED BY <1>2, <2>1, <2>2 DEF AnswerAction, RowStep, RowsUntouched
<1>3. ASSUME NEW b \in Browsers, Regenerate(b) PROVE RowStep
  <2>1. request[b] \in Request
        BY <1>3, InRequest DEF Regenerate, Rotates, ResetAccepted, Kinds
  <2>2. Renews(request[b]) /\ Respond(b)
        BY <1>3 DEF Regenerate, Rotates, Renews
  <2> QED BY <2>1, <2>2 DEF RowStep
<1>10. ASSUME NEW b \in Browsers, PopForReset(b) PROVE RowStep
  <2>1. request[b] \in Request
        BY <1>10, InRequest DEF PopForReset, Kinds
  <2>2. CodeValid(request[b].copy, request[b].code)
        BY <1>10 DEF PopForReset, Rotates, ResetAccepted
  <2>3. Goes(b)
        BY <1>10 DEF PopForReset, Goes
  <2>4. RowsUntouched \/ Pops(request[b])
        BY <1>10, <2>1, <2>2, ConsumeSteps DEF PopForReset
  <2> QED BY <2>1, <2>3, <2>4 DEF RowStep
<1>4. ASSUME NEW b \in Browsers, Confirm(b) PROVE RowStep
  <2>1. request[b] \in Request
        BY <1>4, InRequest DEF Confirm, Confirms, Kinds
  <2> QED BY <1>4, <2>1 DEF Confirm, RowStep, Confirmed
<1>5. ASSUME NEW b \in Browsers, RenderSetup(b) PROVE RowStep
  <2>1. request[b] \in Request
        BY <1>5, InRequest DEF RenderSetup, Kinds
  <2> QED BY <1>5, <2>1 DEF RenderSetup, RowStep, RowsUntouched, Renews
<1>6. ASSUME NEW b \in Browsers, PostCode(b) \/ OpenSetup(b) \/ AskAction(b) PROVE RowStep
      BY <1>6, ReadersRead DEF Read, RowStep, RowsUntouched
<1>7. ASSUME NEW b \in Browsers, Logout(b) \/ RejectCode(b) \/ CountFirst(b) \/ Abandon(b) PROVE RowStep
      BY <1>7 DEF Logout, RejectCode, CountFirst, Abandon, RowStep, RowsUntouched
<1>8. ASSUME UNCHANGED vars \/ Tick \/ \E k \in Keys : ThrottleExpires(k) PROVE RowStep
      BY <1>8 DEF vars, Tick, ThrottleExpires, RowStep, RowsUntouched
<1>9. ASSUME NEW b \in Browsers, NEW u \in Users, SignIn(b, u) PROVE RowStep
      BY <1>9 DEF SignIn, RowStep, RowsUntouched
<1> QED BY <1>1, <1>2, <1>3, <1>4, <1>5, <1>6, <1>7, <1>8, <1>9, <1>10, Steps

-----------------------------------------------------------------------------
(* Enrolment.                                                              *)

KeepsEnrolment(u) ==
    profile[u].enabled /\ ~profile'[u].enabled =>
         \E b \in Browsers :
            /\ request[b] # Idle /\ request[b].user = u /\ request'[b] = Idle
            /\ \/ ResetAccepted(request[b])
               \/ ~request[b].copy.enabled

LEMMA EnrolmentStep ==
    ASSUME TypeOK, [Next]_vars, NEW u \in Users
    PROVE  KeepsEnrolment(u)
<1> SUFFICES ASSUME profile[u].enabled, ~profile'[u].enabled
             PROVE  KeepsEnrolment(u)
    BY DEF KeepsEnrolment
<1>1. PICK b \in Browsers :
          /\ request[b] \in Request
          /\ \/ Pops(request[b]) \/ Confirmed(request[b])
             \/ Respond(b) /\ Renews(request[b])
      BY RowSteps DEF RowStep, RowsUntouched
<1> DEFINE r == request[b]
<1>2. r.user \in Users /\ r.copy \in Profile /\ profile \in [Users -> Profile] /\ r # Idle
      BY <1>1, Working DEF TypeOK
<1>3. CASE Pops(r)
  <2>1. profile' = [profile EXCEPT ![r.user].codes = Remaining(r.copy, r.code)]
        BY <1>3 DEF Pops, Consume
  <2> QED BY <1>2, <2>1 DEF Profile
<1>4. CASE Confirmed(r)
  <2>1. CodesOf(r.copy.pending) \in SUBSET Recovery
        BY <1>2, <1>4, CodeTypes DEF Confirmed, Confirms, Profile, Enrolments
  <2> QED BY <1>2, <1>4, <2>1, ConfirmedRow DEF Confirmed
<1>5. CASE Respond(b) /\ Renews(r)
  <2>1. profile' = [profile EXCEPT ![r.user] = NewRow(r.user, minted + 1)]
        BY <1>5 DEF Renews, NewEnrolment
  <2>2. r.user = u
        BY <1>2, <2>1
  <2>3. request'[b] = Idle
        BY <1>5 DEF Respond, TypeOK
  <2> QED BY <1>2, <1>5, <2>2, <2>3 DEF KeepsEnrolment, Renews
<1> QED BY <1>1, <1>3, <1>4, <1>5

\* Enrolment ends only by a reset with a valid code or by a request that had read the
\* account before it was enrolled (mfa_setup).
THEOREM EnrolmentStays == Spec => EnrolmentKept
<1>1. TypeOK /\ [Next]_vars =>
          [\A u \in Users : profile[u].enabled /\ ~profile'[u].enabled =>
             \E b \in Browsers :
                /\ request[b] # Idle /\ request[b].user = u /\ request'[b] = Idle
                /\ \/ ResetAccepted(request[b])
                   \/ ~request[b].copy.enabled]_vars
      BY EnrolmentStep, Zenon DEF KeepsEnrolment
<1> QED BY <1>1, LoginTypes, PTL DEF Spec, EnrolmentKept

-----------------------------------------------------------------------------
(* Sessions.                                                               *)

LEMMA AwaitingFlags ==
    ASSUME NEW s \in Session, NEW p, NEW u, Flagged(s, p)
    PROVE  Flagged([s EXCEPT !.awaiting = u], p)
BY DEF Flagged, Session

LEMMA LoggedInFlags ==
    ASSUME NEW s \in Session, NEW p, NEW u \in Users, Flagged(s, p)
    PROVE  Flagged(LoggedIn(s, u), p)
<1>1. CASE s.user = u \/ s.user = NoUser
  <2> DEFINE t == [s EXCEPT !.user = u]
  <2>1. LoggedIn(s, u) = t
        BY <1>1 DEF LoggedIn
  <2>2. t.user = u /\ t.passed = s.passed /\ t.verified = s.verified /\ u # NoUser
        BY ConstantsAssumption DEF Session
  <2>3. s.user = NoUser => s.passed = NoUser /\ ~(s.verified > 0)
        BY DEF Flagged
  <2> HIDE DEF t
  <2>4. Flagged(t, p)
        BY <1>1, <2>2, <2>3 DEF Flagged
  <2> QED BY <2>1, <2>4
<1>2. CASE ~(s.user = u \/ s.user = NoUser)
  <2> DEFINE t == [Flushed EXCEPT !.user = u]
  <2>1. LoggedIn(s, u) = t
        BY <1>2 DEF LoggedIn
  <2>2. t.user = u /\ t.passed = NoUser /\ t.verified = 0 /\ u # NoUser
        BY ConstantsAssumption DEF Flushed
  <2> HIDE DEF t
  <2>3. Flagged(t, p)
        BY <2>2 DEF Flagged
  <2> QED BY <2>1, <2>3
<1> QED BY <1>1, <1>2

\* A code has just been given by the account of the session.
LEMMA FreshFlags ==
    ASSUME NEW s \in Session, NEW p, NEW u \in Users, p.user = u, p.left = StepUp,
           s.user = u, s.verified <= StepUp
    PROVE  Flagged(s, p)
BY ConstantsAssumption DEF Flagged, Session

LEMMA OneBrowser ==
    ASSUME SessionInv, NEW b \in Browsers,
           \A c \in Browsers \ {b} : /\ session'[c] = session[c] /\ proof'[c] = proof[c]
                                    /\ request'[c] = request[c],
           Flagged(session'[b], proof'[b]), ActsFor(request'[b], session'[b])
    PROVE  SessionInv'
<1> SUFFICES ASSUME NEW c \in Browsers
             PROVE  Flagged(session'[c], proof'[c]) /\ ActsFor(request'[c], session'[c])
    BY DEF SessionInv
<1>1. CASE c = b
      BY <1>1
<1>2. CASE c # b
      BY <1>2 DEF SessionInv
<1> QED BY <1>1, <1>2

LEMMA IdleActs == ASSUME NEW s PROVE ActsFor(Idle, s)
BY DEF ActsFor, Idle, Kinds

\* A step that leaves every session and proof as it is.
LEMMA QuietSession ==
    ASSUME SessionInv, UNCHANGED <<session, proof>>,
           \A b \in Browsers : ActsFor(request'[b], session[b])
    PROVE  SessionInv'
BY DEF SessionInv

LEMMA SignInSession ==
    ASSUME TypeOK, SessionInv, NEW b \in Browsers, NEW u \in Users, SignIn(b, u)
    PROVE  SessionInv'
<1>1. session[b] \in Session /\ Flagged(session[b], proof[b])
      BY InRequest DEF SessionInv
<1>2. Flagged([session[b] EXCEPT !.awaiting = u], proof[b]) /\ Flagged(LoggedIn(session[b], u), proof[b])
      BY <1>1, AwaitingFlags, LoggedInFlags
<1>3. Flagged(session'[b], proof'[b])
      BY <1>2 DEF SignIn, TypeOK
<1>4. ActsFor(request'[b], session'[b])
      BY IdleActs DEF SignIn
<1> QED BY <1>3, <1>4, OneBrowser DEF SignIn, TypeOK

LEMMA LogoutSession ==
    ASSUME TypeOK, SessionInv, NEW b \in Browsers, Logout(b)
    PROVE  SessionInv'
<1>1. Flagged(session'[b], proof'[b])
      BY DEF Logout, TypeOK, Flagged, Flushed
<1>2. ActsFor(request'[b], session'[b])
      BY IdleActs DEF Logout
<1> QED BY <1>1, <1>2, OneBrowser DEF Logout, TypeOK

LEMMA AcceptSession ==
    ASSUME TypeOK, SessionInv, NEW b \in Browsers, AcceptCode(b)
    PROVE  SessionInv'
<1> DEFINE u == request[b].user
           in == LoggedIn(session[b], u)
           s == [Proved(in) EXCEPT !.awaiting = NoUser]
<1>1. u \in Users /\ in \in Session /\ in.user = u /\ Proved(in) \in Session
      BY InRequest, SessionTypes DEF AcceptCode, Kinds
<1> HIDE DEF u, in
<1>2. s \in Session /\ s.user = u /\ s.verified = StepUp
      BY <1>1 DEF Proved, Session
<1>3. session' = [session EXCEPT ![b] = s] /\ proof' = [proof EXCEPT ![b] = [user |-> u, left |-> StepUp]]
      BY DEF AcceptCode, Prove, u, in
<1> HIDE DEF s
<1>4. proof'[b].user = u /\ proof'[b].left = StepUp /\ session'[b] = s
      BY <1>3 DEF TypeOK
<1>5. Flagged(session'[b], proof'[b])
      BY <1>1, <1>2, <1>4, FreshFlags, ConstantsAssumption
<1>6. request' = [request EXCEPT ![b] = Idle]
      BY DEF AcceptCode, Respond
<1>7. ActsFor(request'[b], session'[b])
      BY <1>6, IdleActs DEF TypeOK
<1> QED BY <1>3, <1>5, <1>6, <1>7, OneBrowser DEF TypeOK

\* Confirm and AnswerAction, after a valid code of the account of the session.
LEMMA StepUpSession ==
    ASSUME TypeOK, SessionInv, NEW b \in Browsers, request[b] \in Request,
           request[b].kind \in Kinds \ {"verify", "count"},
           NEW s \in Session, s.user = session[b].user, s.verified = StepUp,
           session' = [session EXCEPT ![b] = s], Prove(b, request[b].user), Respond(b)
    PROVE  SessionInv'
<1> DEFINE u == request[b].user
<1>1. u \in Users /\ s.user = u
      BY InRequest DEF SessionInv, ActsFor
<1>2. proof' = [proof EXCEPT ![b] = [user |-> u, left |-> StepUp]] /\ request' = [request EXCEPT ![b] = Idle]
      BY DEF Prove, Respond
<1>3. proof'[b].user = u /\ proof'[b].left = StepUp /\ session'[b] = s /\ request'[b] = Idle
      BY <1>2 DEF TypeOK
<1>4. Flagged(session'[b], proof'[b])
      BY <1>1, <1>3, FreshFlags, ConstantsAssumption
<1> QED BY <1>2, <1>3, <1>4, IdleActs, OneBrowser DEF TypeOK

LEMMA ConfirmSession ==
    ASSUME TypeOK, SessionInv, NEW b \in Browsers, Confirm(b)
    PROVE  SessionInv'
<1> DEFINE s == Proved(session[b])
<1>1. session[b] \in Session /\ request[b] \in Request /\ request[b].kind = "confirm"
      BY InRequest DEF Confirm, Confirms, Kinds
<1>2. s \in Session /\ s.user = session[b].user /\ s.verified = StepUp
  <2>1. s \in Session
        BY <1>1, SessionTypes, Working
  <2>2. s.user = session[b].user /\ s.verified = StepUp
        BY <1>1 DEF Proved, Session
  <2> QED BY <2>1, <2>2
<1>3. session' = [session EXCEPT ![b] = s] /\ Prove(b, request[b].user) /\ Respond(b)
      BY DEF Confirm
<1> HIDE DEF s
<1> QED BY <1>1, <1>2, <1>3, StepUpSession DEF Kinds

LEMMA ActionSession ==
    ASSUME TypeOK, SessionInv, NEW b \in Browsers, AnswerAction(b)
    PROVE  SessionInv'
<1> DEFINE s == [session[b] EXCEPT !.verified = StepUp]
           r == request[b]
<1>1. session[b] \in Session /\ r \in Request /\ r.kind = "action" /\ Respond(b)
      BY InRequest DEF AnswerAction, Kinds
<1>2. CASE r.copy.enabled /\ CodeValid(r.copy, r.code)
  <2>1. s \in Session /\ s.user = session[b].user /\ s.verified = StepUp
        BY <1>1, ConstantsAssumption DEF Session
  <2>2. session' = [session EXCEPT ![b] = s] /\ Prove(b, r.user)
        BY <1>2 DEF AnswerAction, TypeOK
  <2> HIDE DEF s
  <2> QED BY <1>1, <2>1, <2>2, StepUpSession DEF Kinds
<1>3. CASE ~(r.copy.enabled /\ CodeValid(r.copy, r.code))
  <2>1. UNCHANGED <<session, proof>>
        BY <1>3 DEF AnswerAction
  <2> QED BY <1>1, <2>1, QuietSession, IdleActs DEF Respond, TypeOK, SessionInv
<1> QED BY <1>2, <1>3

LEMMA ReadSession ==
    ASSUME TypeOK, SessionInv, NEW b \in Browsers, PostCode(b) \/ OpenSetup(b) \/ AskAction(b)
    PROVE  SessionInv'
<1>1. PICK kind \in Kinds, u \in Users, from \in Addresses \cup {NoAddress}, code \in Codes :
          Read(b, kind, u, from, code) /\ (kind # "verify" => u = session[b].user)
      BY ReadersRead
<1> DEFINE n == [kind |-> kind, user |-> u, from |-> from, copy |-> profile[u], code |-> code]
<1>2. request' = [request EXCEPT ![b] = n] /\ UNCHANGED <<session, proof>>
      BY <1>1 DEF Read
<1>3. ActsFor(n, session[b])
      BY <1>1 DEF ActsFor
<1> HIDE DEF n
<1> QED BY <1>2, <1>3, QuietSession DEF TypeOK, SessionInv

LEMMA RejectSession ==
    ASSUME TypeOK, SessionInv, NEW b \in Browsers, RejectCode(b)
    PROVE  SessionInv'
<1> DEFINE n == [request[b] EXCEPT !.kind = "count"]
<1>1. n.kind = "count"
      BY InRequest DEF RejectCode, Kinds, Request
<1>2. ActsFor(n, session[b])
      BY <1>1 DEF ActsFor
<1>3. request' = [request EXCEPT ![b] = n] \/ request' = [request EXCEPT ![b] = Idle]
      BY DEF RejectCode, Respond, TypeOK
<1> HIDE DEF n
<1>4. UNCHANGED <<session, proof>>
      BY DEF RejectCode
<1> QED BY <1>2, <1>3, <1>4, QuietSession, IdleActs DEF TypeOK, SessionInv

\* The other requests end with nothing said about the session.
LEMMA AnsweredSession ==
    ASSUME TypeOK, SessionInv, NEW b \in Browsers,
           CountFirst(b) \/ Abandon(b) \/ Regenerate(b) \/ RenderSetup(b)
    PROVE  SessionInv'
<1>1. request' = [request EXCEPT ![b] = Idle] /\ UNCHANGED <<session, proof>>
      BY DEF CountFirst, Abandon, Regenerate, RenderSetup, Respond
<1> QED BY <1>1, QuietSession, IdleActs DEF TypeOK, SessionInv

\* The code of a reset is popped for the same account.
LEMMA PopSession ==
    ASSUME TypeOK, SessionInv, NEW b \in Browsers, PopForReset(b)
    PROVE  SessionInv'
<1> DEFINE n == [request[b] EXCEPT !.kind = "rotate"]
<1>1. request[b] \in Request /\ request[b].kind = "reset"
      BY InRequest DEF PopForReset, Kinds
<1>2. n.user = request[b].user
      BY <1>1 DEF Request
<1>3. ActsFor(n, session[b])
      BY <1>1, <1>2 DEF ActsFor, SessionInv, Kinds
<1>4. request' = [request EXCEPT ![b] = n] /\ UNCHANGED <<session, proof>>
      BY DEF PopForReset, TypeOK
<1> HIDE DEF n
<1> QED BY <1>3, <1>4, QuietSession DEF TypeOK, SessionInv

LEMMA TickSession == ASSUME TypeOK, SessionInv, Tick PROVE SessionInv'
<1> SUFFICES ASSUME NEW b \in Browsers
             PROVE  Flagged(session'[b], proof'[b]) /\ ActsFor(request'[b], session'[b])
    BY DEF SessionInv
<1> DEFINE s == session[b]  p == proof[b]  t == session'[b]  q == proof'[b]
<1>1. /\ s.verified \in Nat /\ p.left \in Nat /\ t.user = s.user /\ t.passed = s.passed /\ q.user = p.user
      /\ t.verified = (IF s.verified > 0 THEN s.verified - 1 ELSE 0)
      /\ q.left = (IF p.left > 0 THEN p.left - 1 ELSE 0)
      BY ConstantsAssumption DEF Tick, TypeOK, Session
<1>2. Flagged(s, p) /\ ActsFor(request[b], s)
      BY DEF SessionInv
<1> HIDE DEF s, p, t, q
<1>3. Flagged(t, q)
      BY <1>1, <1>2 DEF Flagged
<1>4. ActsFor(request'[b], t)
      BY <1>1, <1>2 DEF ActsFor, Tick
<1> QED BY <1>3, <1>4 DEF t, q

LEMMA InitialSessions == Init => SessionInv
BY IdleActs DEF Init, SessionInv, Flagged, Flushed

LEMMA SessionStep == TypeOK /\ SessionInv /\ [Next]_vars => SessionInv'
<1> SUFFICES ASSUME TypeOK, SessionInv, [Next]_vars PROVE SessionInv'
    OBVIOUS
<1>1. CASE UNCHANGED vars \/ \E k \in Keys : ThrottleExpires(k)
      BY <1>1, QuietSession DEF vars, ThrottleExpires, SessionInv
<1>2. CASE \E b \in Browsers :
                \/ Logout(b) \/ AcceptCode(b) \/ RejectCode(b) \/ CountFirst(b)
                \/ PostCode(b) \/ OpenSetup(b) \/ AskAction(b)
                \/ PopForReset(b) \/ Regenerate(b) \/ Confirm(b) \/ RenderSetup(b)
                \/ AnswerAction(b) \/ Abandon(b)
      BY <1>2, LogoutSession, AcceptSession, RejectSession, AnsweredSession, ReadSession, PopSession,
         ConfirmSession, ActionSession
<1> QED BY <1>1, <1>2, TickSession, SignInSession, Steps

\* The session flags stand for a code that the account of the session gave in this
\* browser (mfa_session_ok, mfa_recently_verified).
THEOREM FlagsAreProved == Spec => []SessionFlagsProved
<1>1. SessionInv => SessionFlagsProved
      BY DEF SessionInv, Flagged, SessionFlagsProved
<1> QED BY <1>1, InitialSessions, SessionStep, LoginTypes, PTL DEF Spec

-----------------------------------------------------------------------------
(* The throttle.                                                           *)

LEMMA Browsing ==
    ASSUME NEW requests, NEW kind, NEW k
    PROVE  /\ IsFiniteSet(At(requests, kind, k))
           /\ Cardinality(At(requests, kind, k)) \in Nat /\ Cardinality(Browsers) \in Nat
           /\ Cardinality(At(requests, kind, k)) <= Cardinality(Browsers)
           /\ \A b \in Browsers \ At(requests, kind, k) :
                  Cardinality(At(requests, kind, k)) < Cardinality(Browsers)
<1> DEFINE S == At(requests, kind, k)
<1>1. IsFiniteSet(Browsers) /\ S \subseteq Browsers
      BY ConstantsAssumption DEF At
<1>2. IsFiniteSet(S) /\ Cardinality(S) <= Cardinality(Browsers)
      BY <1>1, FS_Subset
<1>3. Cardinality(S) \in Nat /\ Cardinality(Browsers) \in Nat
      BY <1>1, <1>2, FS_CardinalityType
<1>4. ASSUME NEW b \in Browsers \ S PROVE Cardinality(S) < Cardinality(Browsers)
  <2>1. Cardinality(S) # Cardinality(Browsers)
        BY <1>1, <1>2, <1>4, FS_Subset
  <2> QED BY <1>2, <1>3, <2>1
<1> QED BY <1>2, <1>3, <1>4

\* A request that leaves a step is one less there, one that reaches it one more.
LEMMA Leaves ==
    ASSUME NEW requests, NEW requests2, NEW kind, NEW k, NEW b \in At(requests, kind, k),
           At(requests2, kind, k) = At(requests, kind, k) \ {b}
    PROVE  Cardinality(At(requests2, kind, k)) = Cardinality(At(requests, kind, k)) - 1
BY Browsing, FS_RemoveElement

LEMMA Reaches ==
    ASSUME NEW requests, NEW requests2, NEW kind, NEW k, NEW b, b \notin At(requests, kind, k),
           At(requests2, kind, k) = At(requests, kind, k) \cup {b}
    PROVE  Cardinality(At(requests2, kind, k)) = Cardinality(At(requests, kind, k)) + 1
BY Browsing, FS_AddElement

LEMMA Fewer ==
    ASSUME NEW requests, NEW requests2, NEW kind, NEW k,
           At(requests2, kind, k) \subseteq At(requests, kind, k)
    PROVE  Cardinality(At(requests2, kind, k)) <= Cardinality(At(requests, kind, k))
BY Browsing, FS_Subset

\* The request of one browser changes.
Becomes(b, n) == request' = [request EXCEPT ![b] = n]

LEMMA Moved ==
    ASSUME TypeOK, NEW b \in Browsers, NEW n, Becomes(b, n), NEW kind, NEW k
    PROVE  /\ n.kind = kind /\ Key(n) = k => At(request', kind, k) = At(request, kind, k) \cup {b}
           /\ ~(n.kind = kind /\ Key(n) = k) => At(request', kind, k) = At(request, kind, k) \ {b}
<1>1. request'[b] = n /\ \A c \in Browsers \ {b} : request'[c] = request[c]
      BY DEF TypeOK, Becomes
<1> QED BY <1>1 DEF At

LEMMA Absent ==
    ASSUME NEW b, NEW kind, NEW k, request[b].kind # kind \/ Key(request[b]) # k
    PROVE  b \notin At(request, kind, k) /\ At(request, kind, k) \ {b} = At(request, kind, k)
BY DEF At

\* Nothing about the key changes, but that requests waiting with a code may end.
LEMMA QuietThrottle ==
    ASSUME TypeOK, NEW k \in Keys, Throttle(request, k, failures[k], wrong[k]),
           failures'[k] = failures[k], wrong'[k] = wrong[k],
           At(request', "verify", k) \subseteq At(request, "verify", k),
           At(request', "count", k) = At(request, "count", k)
    PROVE  Throttle(request', k, failures'[k], wrong'[k])
<1>1. failures[k] \in Nat /\ Limit \in Nat
      BY ConstantsAssumption DEF TypeOK
<1>2. /\ Cardinality(At(request, "verify", k)) \in Nat /\ Cardinality(At(request', "verify", k)) \in Nat
      /\ Cardinality(Browsers) \in Nat
      /\ Cardinality(At(request', "verify", k)) <= Cardinality(At(request, "verify", k))
      BY Browsing, Fewer
<1> QED BY <1>1, <1>2 DEF Throttle

\* The counter is cleared, and the wrong codes are counted from nothing.
LEMMA ClearedThrottle ==
    ASSUME TypeOK, NEW k \in Keys, failures'[k] = 0, wrong'[k] = 0
    PROVE  Throttle(request', k, failures'[k], wrong'[k])
<1>1. Limit \in Nat \ {0}
      BY ConstantsAssumption
<1>2. /\ Cardinality(At(request', "verify", k)) \in Nat /\ Cardinality(At(request', "count", k)) \in Nat
      /\ Cardinality(Browsers) \in Nat
      /\ Cardinality(At(request', "verify", k)) <= Cardinality(Browsers)
      BY Browsing
<1> QED BY <1>1, <1>2 DEF Throttle

LEMMA EndedThrottle ==
    ASSUME TypeOK, NEW b \in Browsers, request[b].kind # "count",
           NEW n, Becomes(b, n), n.kind \notin {"verify", "count"},
           NEW k \in Keys, Throttle(request, k, failures[k], wrong[k]),
           failures'[k] = failures[k], wrong'[k] = wrong[k]
    PROVE  Throttle(request', k, failures'[k], wrong'[k])
<1>1. /\ At(request', "verify", k) = At(request, "verify", k) \ {b}
      /\ At(request', "count", k) = At(request, "count", k) \ {b}
      BY Moved
<1>2. At(request, "count", k) \ {b} = At(request, "count", k)
      BY Absent
<1> QED BY <1>1, <1>2, QuietThrottle

LEMMA AnsweredThrottle ==
    ASSUME TypeOK, NEW b \in Browsers, request[b].kind # "count", Respond(b),
           NEW k \in Keys, Throttle(request, k, failures[k], wrong[k]),
           failures'[k] = failures[k], wrong'[k] = wrong[k]
    PROVE  Throttle(request', k, failures'[k], wrong'[k])
<1>1. Idle.kind \notin {"verify", "count"}
      BY DEF Idle
<1> QED BY <1>1, EndedThrottle DEF Respond, Becomes

LEMMA PopThrottle ==
    ASSUME TypeOK, ThrottleInv, NEW b \in Browsers, PopForReset(b), NEW k \in Keys
    PROVE  Throttle(request', k, failures'[k], wrong'[k])
<1> DEFINE n == [request[b] EXCEPT !.kind = "rotate"]
<1>1. request[b] \in Request /\ request[b].kind = "reset"
      BY InRequest DEF PopForReset, Kinds
<1>2. n.kind = "rotate"
      BY <1>1 DEF Request
<1>3. Becomes(b, n) /\ UNCHANGED <<failures, wrong>>
      BY DEF PopForReset, Becomes, TypeOK
<1> HIDE DEF n
<1>4. Throttle(request, k, failures[k], wrong[k])
      BY DEF ThrottleInv
<1> QED BY <1>1, <1>2, <1>3, <1>4, EndedThrottle

LEMMA ReadThrottle ==
    ASSUME TypeOK, ThrottleInv, NEW b \in Browsers, PostCode(b) \/ OpenSetup(b) \/ AskAction(b),
           NEW k \in Keys
    PROVE  Throttle(request', k, failures'[k], wrong'[k])
<1>1. PICK kind \in Kinds \ {"count"}, v \in Users, from \in Addresses \cup {NoAddress},
          code \in Codes :
          Read(b, kind, v, from, code) /\ (kind = "verify" => ~Throttled(<<from, v>>))
      BY ReadersRead
<1> DEFINE n == [kind |-> kind, user |-> v, from |-> from, copy |-> profile[v], code |-> code]
<1>2. Becomes(b, n) /\ request[b] = Idle /\ UNCHANGED <<failures, wrong>>
      BY <1>1 DEF Read, Becomes
<1>3. n.kind = kind /\ Key(n) = <<from, v>>
      BY DEF Key
<1> HIDE DEF n
<1>4. request[b].kind # "verify" /\ request[b].kind # "count"
      BY <1>2 DEF Idle
<1>5. Throttle(request, k, failures[k], wrong[k])
      BY DEF ThrottleInv
<1>6. At(request', "count", k) = At(request, "count", k)
  <2>1. At(request', "count", k) = At(request, "count", k) \ {b}
        BY <1>2, <1>3, Moved
  <2>2. At(request, "count", k) \ {b} = At(request, "count", k)
        BY <1>4, Absent
  <2> QED BY <2>1, <2>2
<1>7. CASE kind = "verify" /\ <<from, v>> = k
  <2>1. At(request', "verify", k) = At(request, "verify", k) \cup {b} /\ b \notin At(request, "verify", k)
        BY <1>2, <1>3, <1>4, <1>7, Moved, Absent
  <2>2. Cardinality(At(request', "verify", k)) = Cardinality(At(request, "verify", k)) + 1
        BY <2>1, Reaches
  <2>3. /\ Cardinality(At(request, "verify", k)) \in Nat /\ Cardinality(Browsers) \in Nat
        /\ Cardinality(At(request, "verify", k)) < Cardinality(Browsers)
        BY <2>1, Browsing
  <2>4. failures[k] < Limit /\ failures[k] \in Nat /\ Limit \in Nat
        BY <1>1, <1>7, ConstantsAssumption DEF Throttled, TypeOK
  <2>5. failures[k] + (Cardinality(At(request, "verify", k)) + 1) <= Limit + Cardinality(Browsers) - 1
        BY <2>3, <2>4
  <2> QED BY <1>2, <1>5, <1>6, <2>2, <2>5 DEF Throttle
<1>8. CASE ~(kind = "verify" /\ <<from, v>> = k)
  <2>1. At(request', "verify", k) = At(request, "verify", k) \ {b}
        BY <1>2, <1>3, <1>8, Moved
  <2>2. At(request, "verify", k) \ {b} = At(request, "verify", k)
        BY <1>4, Absent
  <2> QED BY <1>2, <1>5, <1>6, <2>1, <2>2, QuietThrottle
<1> QED BY <1>7, <1>8

LEMMA AcceptThrottle ==
    ASSUME TypeOK, ThrottleInv, NEW b \in Browsers, AcceptCode(b), NEW k \in Keys
    PROVE  Throttle(request', k, failures'[k], wrong'[k])
<1>1. CASE Key(request[b]) = k
      BY <1>1, ClearedThrottle DEF AcceptCode, TypeOK
<1>2. CASE Key(request[b]) # k
      BY <1>2, AnsweredThrottle DEF AcceptCode, TypeOK, ThrottleInv
<1> QED BY <1>1, <1>2

LEMMA RejectThrottle ==
    ASSUME TypeOK, ThrottleInv, NEW b \in Browsers, RejectCode(b), NEW k \in Keys
    PROVE  Throttle(request', k, failures'[k], wrong'[k])
<1> DEFINE r == request[b]
           n == [r EXCEPT !.kind = "count"]
           V == At(request, "verify", k)
           C == At(request, "count", k)
<1>1. r \in Request /\ r.kind = "verify" /\ r.user \in Users
      BY InRequest DEF RejectCode, Kinds
<1>2. n.kind = "count" /\ Key(n) = Key(r)
      BY <1>1 DEF Request, Key
<1>3. Idle.kind # "verify" /\ Idle.kind # "count"
      BY DEF Idle
<1>4. Throttle(request, k, failures[k], wrong[k])
      BY DEF ThrottleInv
<1>5. /\ failures[k] \in Nat /\ wrong[k] \in Nat /\ Limit \in Nat
      /\ Cardinality(V) \in Nat /\ Cardinality(C) \in Nat /\ Cardinality(Browsers) \in Nat
      BY Browsing, ConstantsAssumption DEF TypeOK
<1>6. CASE Key(r) = k /\ failures[k] = 0
  <2>1. Becomes(b, n) /\ failures'[k] = 0 /\ wrong'[k] = wrong[k] + 1
        BY <1>6 DEF RejectCode, TypeOK, Becomes
  <2> HIDE DEF n
  <2>2. b \in V /\ b \notin C
        BY <1>1, <1>6 DEF At
  <2>3. At(request', "verify", k) = V \ {b} /\ At(request', "count", k) = C \cup {b}
        BY <1>2, <1>6, <2>1, Moved
  <2>4. /\ Cardinality(At(request', "verify", k)) = Cardinality(V) - 1
        /\ Cardinality(At(request', "count", k)) = Cardinality(C) + 1
        BY <2>2, <2>3, Leaves, Reaches
  <2> HIDE DEF V, C
  <2> QED BY <1>4, <1>5, <1>6, <2>1, <2>4 DEF Throttle, V, C
<1>7. CASE Key(r) = k /\ failures[k] # 0
  <2>1. Becomes(b, Idle) /\ failures'[k] = failures[k] + 1 /\ wrong'[k] = wrong[k] + 1
        BY <1>7 DEF RejectCode, Respond, TypeOK, Becomes
  <2>2. b \in V
        BY <1>1, <1>7 DEF At
  <2>3. At(request', "verify", k) = V \ {b}
        BY <1>3, <2>1, Moved
  <2>4. Cardinality(At(request', "verify", k)) = Cardinality(V) - 1
        BY <2>2, <2>3, Leaves
  <2> HIDE DEF V, C
  <2> QED BY <1>4, <1>5, <1>7, <2>1, <2>4 DEF Throttle, V, C
<1>8. CASE Key(r) # k
  <2>1. failures'[k] = failures[k] /\ wrong'[k] = wrong[k]
        BY <1>8 DEF RejectCode, TypeOK, Becomes
  <2>2. Becomes(b, n) \/ Becomes(b, Idle)
        BY DEF RejectCode, Respond, TypeOK, Becomes
  <2> HIDE DEF n
  <2>3. At(request', "verify", k) = V \ {b} /\ At(request', "count", k) = C \ {b}
        BY <1>2, <1>3, <1>8, <2>2, Moved
  <2>4. V \ {b} = V /\ C \ {b} = C
        BY <1>8, Absent
  <2> QED BY <1>4, <2>1, <2>3, <2>4, QuietThrottle
<1> QED BY <1>6, <1>7, <1>8

LEMMA CountThrottle ==
    ASSUME TypeOK, ThrottleInv, NEW b \in Browsers, CountFirst(b), NEW k \in Keys
    PROVE  Throttle(request', k, failures'[k], wrong'[k])
<1> DEFINE r == request[b]
           V == At(request, "verify", k)
           C == At(request, "count", k)
<1>1. r \in Request /\ r.kind = "count" /\ r.user \in Users
      BY InRequest DEF CountFirst, Kinds
<1>2. Idle.kind # "verify" /\ Idle.kind # "count"
      BY DEF Idle
<1>3. Throttle(request, k, failures[k], wrong[k])
      BY DEF ThrottleInv
<1>4. Becomes(b, Idle) /\ UNCHANGED wrong
      BY DEF CountFirst, Respond, Becomes
<1>5. At(request', "verify", k) = V /\ b \notin V
  <2>1. At(request', "verify", k) = V \ {b}
        BY <1>2, <1>4, Moved
  <2>2. V \ {b} = V /\ b \notin V
        BY <1>1, Absent
  <2> QED BY <2>1, <2>2
<1>6. /\ failures[k] \in Nat /\ wrong[k] \in Nat /\ Limit \in Nat \ {0}
      /\ Cardinality(V) \in Nat /\ Cardinality(C) \in Nat /\ Cardinality(Browsers) \in Nat
      /\ Cardinality(C) <= Cardinality(Browsers) /\ Cardinality(V) < Cardinality(Browsers)
      BY <1>5, Browsing, ConstantsAssumption DEF TypeOK
<1>7. CASE Key(r) = k /\ failures[k] = 0
  <2>1. failures'[k] = 1
        BY <1>7 DEF CountFirst, TypeOK
  <2> HIDE DEF V, C
  <2> QED BY <1>3, <1>4, <1>5, <1>6, <1>7, <2>1 DEF Throttle, V, C
<1>8. CASE Key(r) = k /\ failures[k] # 0
  <2>1. failures'[k] = failures[k]
        BY <1>8 DEF CountFirst, TypeOK
  <2> HIDE DEF V, C
  <2> QED BY <1>3, <1>4, <1>5, <1>6, <1>8, <2>1 DEF Throttle, V, C
<1>9. CASE Key(r) # k
  <2>1. failures'[k] = failures[k]
        BY <1>9 DEF CountFirst, TypeOK
  <2>2. At(request', "count", k) = C \ {b}
        BY <1>2, <1>4, Moved
  <2>3. C \ {b} = C
        BY <1>9, Absent
  <2> QED BY <1>3, <1>4, <1>5, <2>1, <2>2, <2>3, QuietThrottle
<1> QED BY <1>7, <1>8, <1>9

LEMMA InitialThrottle == Init => ThrottleInv
<1> SUFFICES ASSUME Init, NEW k \in Keys
             PROVE  Throttle(request, k, failures[k], wrong[k])
    BY DEF ThrottleInv
<1>1. Idle.kind # "verify" /\ \A b \in Browsers : request[b] = Idle
      BY DEF Init, Idle
<1>2. At(request, "verify", k) = {} /\ failures[k] = 0 /\ wrong[k] = 0
      BY <1>1 DEF Init, At
<1>3. Cardinality(At(request, "verify", k)) = 0 /\ Cardinality(At(request, "count", k)) \in Nat
      BY <1>2, FS_EmptySet, Browsing
<1>4. Limit \in Nat \ {0} /\ Cardinality(Browsers) \in Nat
      BY ConstantsAssumption, Browsing
<1> QED BY <1>2, <1>3, <1>4 DEF Throttle

LEMMA ThrottleStep == TypeOK /\ ThrottleInv /\ [Next]_vars => ThrottleInv'
<1> SUFFICES ASSUME TypeOK, ThrottleInv, [Next]_vars, NEW k \in Keys
             PROVE  Throttle(request', k, failures'[k], wrong'[k])
    BY DEF ThrottleInv
<1>1. Throttle(request, k, failures[k], wrong[k])
      BY DEF ThrottleInv
<1>2. CASE UNCHANGED vars \/ Tick
      BY <1>1, <1>2, QuietThrottle DEF vars, Tick
<1>3. ASSUME NEW j \in Keys, ThrottleExpires(j)
      PROVE  Throttle(request', k, failures'[k], wrong'[k])
  <2>1. CASE k = j
        BY <1>3, <2>1, ClearedThrottle DEF ThrottleExpires, TypeOK
  <2>2. CASE k # j
        BY <1>1, <1>3, <2>2, QuietThrottle DEF ThrottleExpires, TypeOK
  <2> QED BY <2>1, <2>2
<1>4. ASSUME NEW b \in Browsers, NEW v \in Users, SignIn(b, v)
      PROVE  Throttle(request', k, failures'[k], wrong'[k])
      BY <1>1, <1>4, QuietThrottle DEF SignIn
<1>5. ASSUME NEW b \in Browsers,
             Regenerate(b) \/ Confirm(b) \/ RenderSetup(b) \/ AnswerAction(b) \/ Abandon(b)
      PROVE  Throttle(request', k, failures'[k], wrong'[k])
  <2>1. request[b].kind # "count" /\ Respond(b) /\ UNCHANGED <<failures, wrong>>
        BY <1>5 DEF Regenerate, Rotates, ResetAccepted, Confirm, Confirms, RenderSetup,
                     AnswerAction, Abandon
  <2> QED BY <1>1, <2>1, AnsweredThrottle
<1>6. ASSUME NEW b \in Browsers,
             \/ AcceptCode(b) \/ RejectCode(b) \/ CountFirst(b) \/ PopForReset(b)
             \/ PostCode(b) \/ OpenSetup(b) \/ AskAction(b)
      PROVE  Throttle(request', k, failures'[k], wrong'[k])
      BY <1>6, AcceptThrottle, RejectThrottle, CountThrottle, PopThrottle, ReadThrottle
<1>7. \/ UNCHANGED vars \/ Tick
      \/ \E j \in Keys : ThrottleExpires(j)
      \/ \E b \in Browsers, v \in Users : SignIn(b, v)
      \/ \E b \in Browsers :
           \/ Logout(b)
           \/ Regenerate(b) \/ Confirm(b) \/ RenderSetup(b) \/ AnswerAction(b) \/ Abandon(b)
           \/ AcceptCode(b) \/ RejectCode(b) \/ CountFirst(b) \/ PopForReset(b)
           \/ PostCode(b) \/ OpenSetup(b) \/ AskAction(b)
      BY Steps
<1>8. ASSUME NEW b \in Browsers, Logout(b) PROVE Throttle(request', k, failures'[k], wrong'[k])
      BY <1>1, <1>8, QuietThrottle DEF Logout
<1> QED BY <1>2, <1>3, <1>4, <1>5, <1>6, <1>7, <1>8, Zenon

\* However requests overlap, the wrong codes checked before the throttle answers are at
\* most Limit and two for each further browser, for each address and account
\* (_auth_throttle_key, _is_throttled, _record_failure); an account has one such bound
\* per address.
THEOREM GuessesBounded ==
    ASSUME Browsers # {}
    PROVE  Spec => []AttemptsBounded
<1>1. TypeOK /\ ThrottleInv => AttemptsBounded
  <2> SUFFICES ASSUME TypeOK, ThrottleInv, NEW k \in Keys
               PROVE  wrong[k] <= Limit + 2 * (Cardinality(Browsers) - 1)
      BY DEF AttemptsBounded
  <2>1. Throttle(request, k, failures[k], wrong[k])
        BY DEF ThrottleInv
  <2>2. /\ failures[k] \in Nat /\ wrong[k] \in Nat /\ Limit \in Nat \ {0}
        /\ Cardinality(At(request, "verify", k)) \in Nat /\ Cardinality(At(request, "count", k)) \in Nat
        /\ Cardinality(At(request, "count", k)) <= Cardinality(Browsers)
        BY Browsing, ConstantsAssumption DEF TypeOK
  <2>3. Cardinality(Browsers) \in Nat \ {0}
        BY FS_CardinalityType, FS_EmptySet, ConstantsAssumption
  <2> QED BY <2>1, <2>2, <2>3 DEF Throttle
<1> QED BY <1>1, InitialThrottle, ThrottleStep, LoginTypes, PTL DEF Spec

-----------------------------------------------------------------------------
(* Rows, and the copies of them that requests hold.                        *)

\* The copy of a request is the row it has just read, or the copy it had.
Carried(c) ==
    request'[c] # Idle =>
        /\ request'[c].user \in Users
        /\ \/ request[c] # Idle /\ request'[c].user = request[c].user /\ request'[c].copy = request[c].copy
           \/ request'[c].copy = profile[request'[c].user]

\* A request that is still there after a step of another, or of its own.
LEMMA StillThere ==
    ASSUME TypeOK, NEW b \in Browsers, request[b] \in Request, Goes(b), NEW c \in Browsers,
           request'[c] # Idle
    PROVE  /\ request[c] # Idle
           /\ request'[c].user = request[c].user /\ request'[c].copy = request[c].copy
<1> DEFINE n == [request[b] EXCEPT !.kind = "rotate"]
<1>1. n.user = request[b].user /\ n.copy = request[b].copy /\ request[b] # Idle
      BY Working DEF Request
<1>2. request' = [request EXCEPT ![b] = Idle] \/ request' = [request EXCEPT ![b] = n]
      BY DEF Goes, Respond, TypeOK
<1> HIDE DEF n
<1> QED BY <1>1, <1>2 DEF TypeOK

LEMMA GoingCarries ==
    ASSUME TypeOK, NEW b \in Browsers, request[b] \in Request, Goes(b), NEW c \in Browsers
    PROVE  Carried(c)
<1>1. request[c] # Idle => request[c].user \in Users
      BY InRequest, Waiting
<1> QED BY <1>1, StillThere DEF Carried

LEMMA AnswerCarries ==
    ASSUME TypeOK, NEW b \in Browsers, Respond(b), NEW c \in Browsers
    PROVE  Carried(c)
<1>1. request[c] # Idle => request[c].user \in Users
      BY InRequest, Waiting
<1> QED BY <1>1 DEF Respond, TypeOK, Carried

LEMMA Carries ==
    ASSUME TypeOK, [Next]_vars, NEW c \in Browsers
    PROVE  Carried(c)
<1>1. request[c] # Idle => request[c].user \in Users
      BY InRequest, Waiting
<1>2. CASE UNCHANGED request
      BY <1>1, <1>2 DEF Carried
<1>3. ASSUME NEW b \in Browsers, PostCode(b) \/ OpenSetup(b) \/ AskAction(b)
      PROVE  Carried(c)
  <2>1. PICK kind \in Kinds, u \in Users, from \in Addresses \cup {NoAddress}, code \in Codes :
            Read(b, kind, u, from, code)
        BY <1>3, ReadersRead
  <2> DEFINE n == [kind |-> kind, user |-> u, from |-> from, copy |-> profile[u], code |-> code]
  <2>2. request' = [request EXCEPT ![b] = n]
        BY <2>1 DEF Read
  <2>3. n.user = u /\ n.copy = profile[u]
        OBVIOUS
  <2> HIDE DEF n
  <2> QED BY <1>1, <2>2, <2>3 DEF TypeOK, Carried
<1>4. ASSUME NEW b \in Browsers, RejectCode(b)
      PROVE  Carried(c)
  <2> DEFINE n == [request[b] EXCEPT !.kind = "count"]
  <2>1. request[b] \in Request
        BY <1>4, InRequest DEF RejectCode, Kinds
  <2>2. n.user = request[b].user /\ n.copy = request[b].copy /\ request[b] # Idle
        BY <2>1, Working DEF Request
  <2>3. request' = [request EXCEPT ![b] = n] \/ Respond(b)
        BY <1>4 DEF RejectCode, TypeOK
  <2> HIDE DEF n
  <2>4. CASE request' = [request EXCEPT ![b] = n]
        BY <1>1, <2>2, <2>4 DEF TypeOK, Carried
  <2> QED BY <2>3, <2>4, AnswerCarries
<1>5. ASSUME NEW b \in Browsers,
             \/ AcceptCode(b) \/ CountFirst(b) \/ Regenerate(b) \/ Confirm(b) \/ RenderSetup(b)
             \/ AnswerAction(b) \/ Abandon(b)
      PROVE  Carried(c)
  <2>1. Respond(b)
        BY <1>5 DEF AcceptCode, CountFirst, Regenerate, Confirm, RenderSetup, AnswerAction, Abandon
  <2> QED BY <2>1, AnswerCarries
<1>6. UNCHANGED vars \/ Tick \/ (\E k \in Keys : ThrottleExpires(k)) => UNCHANGED request
      BY DEF vars, Tick, ThrottleExpires
<1>7. (\E b \in Browsers, u \in Users : SignIn(b, u)) \/ (\E b \in Browsers : Logout(b)) => UNCHANGED request
      BY DEF SignIn, Logout
<1>8. ASSUME NEW b \in Browsers, PopForReset(b)
      PROVE  Carried(c)
  <2>1. request[b] \in Request /\ Goes(b)
        BY <1>8, InRequest DEF PopForReset, Goes, Kinds
  <2> QED BY <2>1, GoingCarries
<1> QED BY <1>2, <1>3, <1>4, <1>5, <1>6, <1>7, <1>8, Steps

LEMMA MentionTypes ==
    ASSUME NEW p \in Profile, NEW g \in Mentions(p)
    PROVE  g \in Enrolments
BY ConstantsAssumption DEF Mentions, Profile, Enrolments, Recovery

LEMMA ReadClaims ==
    ASSUME TypeOK, \A c \in Browsers : Carried(c), NEW u \in Users, NEW g, Claims(profile, request', u, g)
    PROVE  Claims(profile, request, u, g)
<1>1. CASE g \in Mentions(profile[u])
      BY <1>1 DEF Claims
<1>2. CASE \E c \in Browsers : /\ request'[c] # Idle /\ request'[c].user = u
                              /\ g \in Mentions(request'[c].copy)
      BY <1>2 DEF Claims, Carried
<1> QED BY <1>1, <1>2 DEF Claims

\* What a row gets is what it had, or what the copy of a request of the account has.
LEMMA OwnedKept ==
    ASSUME TypeOK, Owned(profile, request, minted), \A c \in Browsers : Carried(c), minted' = minted,
           \A u \in Users, g \in Enrolments :
              g \in Mentions(profile'[u]) => Claims(profile, request, u, g)
    PROVE  Owned(profile', request', minted')
<1>1. ASSUME NEW u \in Users, NEW g \in Enrolments, Claims(profile', request', u, g)
      PROVE  Claims(profile, request, u, g)
  <2>1. g \in Mentions(profile'[u]) \/ Claims(profile, request', u, g)
        BY <1>1 DEF Claims
  <2> QED BY <2>1, ReadClaims
<1> QED BY <1>1 DEF Owned

\* ... or an enrolment that has just been made.
LEMMA OwnedGrows ==
    ASSUME TypeOK, Owned(profile, request, minted), \A c \in Browsers : Carried(c), minted' = minted + 1,
           NEW w \in Users,
           \A u \in Users, g \in Enrolments :
              g \in Mentions(profile'[u]) => Claims(profile, request, u, g) \/ (u = w /\ g = minted + 1)
    PROVE  Owned(profile', request', minted')
<1>1. ASSUME NEW u \in Users, NEW g \in Enrolments, Claims(profile', request', u, g)
      PROVE  Claims(profile, request, u, g) \/ (u = w /\ g = minted + 1)
  <2>1. g \in Mentions(profile'[u]) \/ Claims(profile, request', u, g)
        BY <1>1 DEF Claims
  <2> QED BY <2>1, ReadClaims
<1>2. SUFFICES ASSUME NEW u \in Users, NEW g \in Enrolments, Claims(profile', request', u, g)
               PROVE  g <= minted + 1 /\ \A v \in Users : Claims(profile', request', v, g) => u = v
      BY DEF Owned
<1>3. minted \in Nat /\ g \in Nat
      BY ConstantsAssumption DEF TypeOK, Enrolments
<1>4. CASE Claims(profile, request, u, g)
  <2>1. g <= minted /\ g # minted + 1
        BY <1>3, <1>4 DEF Owned
  <2> QED BY <1>1, <1>3, <1>4, <2>1 DEF Owned
<1>5. CASE u = w /\ g = minted + 1
  <2>1. ASSUME NEW v \in Users PROVE ~Claims(profile, request, v, g)
        BY <1>3, <1>5 DEF Owned
  <2> QED BY <1>1, <1>3, <1>5, <2>1
<1> QED BY <1>1, <1>2, <1>4, <1>5

\* Codes that a request of an account holds are not in the row of another.
LEMMA OthersCodes ==
    ASSUME TypeOK, RowInv, NEW b \in Browsers, request[b] \in Request, NEW code \in request[b].copy.codes,
           NEW u \in Users, code \in profile[u].codes
    PROVE  u = request[b].user
<1> DEFINE r == request[b]
<1>1. r # Idle /\ r.user \in Users /\ r.copy \in Profile
      BY Working
<1>2. code[1] \in Mentions(r.copy) /\ code[1] \in Mentions(profile[u])
      BY DEF Mentions
<1>3. code[1] \in Enrolments
      BY <1>1, <1>2, MentionTypes
<1>4. Claims(profile, request, u, code[1]) /\ Claims(profile, request, r.user, code[1])
      BY <1>1, <1>2 DEF Claims
<1> QED BY <1>1, <1>3, <1>4 DEF RowInv, Owned

\* SaveCodes keeps CodeAcceptedOnce, when the codes accepted are the account's own.
LEMMA SaveKeeps ==
    ASSUME TypeOK, RowInv, NEW w \in Users, NEW codes, NEW accepted, SaveCodes(w, codes, accepted),
           \A u \in Users \ {w} : profile[u].codes \cap accepted = {}
    PROVE  /\ respent' \subseteq revived'
           /\ \A u \in Users \ {w} : Guarded(profile[u], spent', revived')
           /\ codes \cap accepted = {} => codes \cap spent' \subseteq revived'
<1>1. respent \subseteq revived /\ \A u \in Users : profile[u].codes \cap spent \subseteq revived
      BY DEF RowInv, Guarded
<1>2. respent' \subseteq revived'
      BY <1>1 DEF SaveCodes
<1>3. \A u \in Users \ {w} : Guarded(profile[u], spent', revived')
      BY <1>1 DEF SaveCodes, Guarded
<1>4. ASSUME codes \cap accepted = {} PROVE codes \cap spent' \subseteq revived'
      BY <1>1, <1>4 DEF SaveCodes
<1> QED BY <1>2, <1>3, <1>4

\* One row changes, in a step of a request.
LEMMA OneRow ==
    ASSUME TypeOK, RowInv, NEW b \in Browsers, request[b] \in Request, Goes(b), NEW w \in Users,
           \A u \in Users \ {w} : /\ profile'[u] = profile[u] /\ mixed'[u] = mixed[u]
                                 /\ Guarded(profile[u], spent', revived'),
           Agrees(profile'[w]), Guarded(profile'[w], spent', revived'),
           Matched(profile'[w], mixed'[w], confirmed'), confirmed \subseteq confirmed',
           \A c \in Browsers : request[c] # Idle /\ request[c].user = w =>
                                CopyMatched(request[c].copy, profile'[w], mixed'[w]),
           Owned(profile', request', minted'), respent' \subseteq revived'
    PROVE  RowInv'
<1>1. ASSUME NEW u \in Users
      PROVE  Agrees(profile'[u]) /\ Guarded(profile'[u], spent', revived')
                /\ Matched(profile'[u], mixed'[u], confirmed')
  <2>1. CASE u = w
        BY <2>1
  <2>2. CASE u # w
    <3>1. Agrees(profile[u]) /\ Matched(profile[u], mixed[u], confirmed)
          BY DEF RowInv
    <3> QED BY <2>2, <3>1 DEF Matched
  <2> QED BY <2>1, <2>2
<1>2. ASSUME NEW c \in Browsers, request'[c] # Idle
      PROVE  Agrees(request'[c].copy)
                /\ CopyMatched(request'[c].copy, profile'[request'[c].user], mixed'[request'[c].user])
  <2>1. /\ request[c] # Idle
        /\ request'[c].user = request[c].user /\ request'[c].copy = request[c].copy
        BY <1>2, StillThere
  <2>2. Agrees(request[c].copy)
           /\ CopyMatched(request[c].copy, profile[request[c].user], mixed[request[c].user])
        BY <2>1 DEF RowInv
  <2>3. request[c].user \in Users
        BY <2>1, InRequest, Waiting
  <2> QED BY <2>1, <2>2, <2>3
<1> QED BY <1>1, <1>2 DEF RowInv

\* Requests read rows, and nothing else happens to them.
LEMMA ReadRows ==
    ASSUME TypeOK, RowInv, \A c \in Browsers : Carried(c), RowsUntouched
    PROVE  RowInv'
<1>1. Owned(profile', request', minted')
  <2>1. \A u \in Users, g \in Enrolments : g \in Mentions(profile'[u]) => Claims(profile, request, u, g)
        BY DEF RowsUntouched, Claims
  <2> QED BY <2>1, OwnedKept DEF RowInv, RowsUntouched
<1>2. ASSUME NEW c \in Browsers, request'[c] # Idle
      PROVE  Agrees(request'[c].copy)
                /\ CopyMatched(request'[c].copy, profile[request'[c].user], mixed[request'[c].user])
  <2> DEFINE u == request'[c].user
  <2>1. u \in Users
        BY <1>2 DEF Carried
  <2>2. CASE request[c] # Idle /\ u = request[c].user /\ request'[c].copy = request[c].copy
        BY <2>2 DEF RowInv
  <2>3. CASE request'[c].copy = profile[u]
        BY <2>1, <2>3 DEF RowInv, Matched, CopyMatched
  <2> QED BY <1>2, <2>2, <2>3 DEF Carried
<1> QED BY <1>1, <1>2 DEF RowInv, RowsUntouched, history

LEMMA PopRows ==
    ASSUME TypeOK, RowInv, NEW b \in Browsers, request[b] \in Request, Goes(b), Pops(request[b])
    PROVE  RowInv'
<1> DEFINE r == request[b]
           w == request[b].user
           left == Remaining(r.copy, r.code)
<1>1. /\ r # Idle /\ w \in Users /\ r.copy \in Profile /\ profile \in [Users -> Profile]
      /\ mixed \in [Users -> BOOLEAN]
      BY Working DEF TypeOK
<1>2. /\ profile' = [profile EXCEPT ![w].codes = left]
      /\ SaveCodes(w, left, {r.code})
      /\ mixed' = [mixed EXCEPT ![w] = @ \/ Stale(w, r.copy)]
      /\ UNCHANGED confirmed /\ minted' = minted
      BY DEF Pops, Consume
<1>3. left \subseteq r.copy.codes /\ left \cap {r.code} = {} /\ r.code \in r.copy.codes
      BY DEF Remaining, Pops
<1> HIDE DEF left
<1>4. /\ profile'[w].codes = left /\ profile'[w].secret = profile[w].secret
      /\ profile'[w].pending = profile[w].pending /\ profile'[w].enabled = profile[w].enabled
      BY <1>1, <1>2 DEF Profile
<1>5. \A u \in Users \ {w} : profile'[u] = profile[u] /\ mixed'[u] = mixed[u]
      BY <1>1, <1>2
<1>6. mixed'[w] = (mixed[w] \/ r.copy.secret # profile[w].secret)
      BY <1>1, <1>2 DEF Stale
<1>7. \A u \in Users \ {w} : profile[u].codes \cap {r.code} = {}
      BY <1>3, OthersCodes
<1>8. /\ respent' \subseteq revived' /\ left \cap spent' \subseteq revived'
      /\ \A u \in Users \ {w} : Guarded(profile[u], spent', revived')
      BY <1>1, <1>2, <1>3, <1>7, SaveKeeps
<1>9. Agrees(profile[w]) /\ Matched(profile[w], mixed[w], confirmed)
         /\ CopyMatched(r.copy, profile[w], mixed[w])
      BY <1>1 DEF RowInv
<1>10. Agrees(profile'[w]) /\ Guarded(profile'[w], spent', revived')
      BY <1>4, <1>8, <1>9 DEF Agrees, Guarded
<1>11. Matched(profile'[w], mixed'[w], confirmed')
  <2>1. SUFFICES ASSUME ~mixed'[w]
                 PROVE  /\ left \subseteq CodesOf(profile[w].secret)
                        /\ profile[w].enabled => profile[w].secret \in confirmed
        BY <1>2, <1>4 DEF Matched
  <2>2. ~mixed[w] /\ r.copy.secret = profile[w].secret
        BY <1>6, <2>1
  <2>3. profile[w].enabled => profile[w].secret \in confirmed
        BY <1>9, <2>2 DEF Matched
  <2>4. r.copy.codes \subseteq CodesOf(profile[w].secret)
        BY <1>9, <2>2 DEF CopyMatched
  <2> QED BY <1>3, <2>3, <2>4
<1>12. ASSUME NEW c \in Browsers, request[c] # Idle, request[c].user = w
       PROVE  CopyMatched(request[c].copy, profile'[w], mixed'[w])
  <2>1. CopyMatched(request[c].copy, profile[w], mixed[w])
        BY <1>12 DEF RowInv
  <2> QED BY <2>1, <1>4, <1>6 DEF CopyMatched
<1>13. Owned(profile', request', minted')
  <2>1. ASSUME NEW u \in Users, NEW g \in Enrolments, g \in Mentions(profile'[u])
        PROVE  Claims(profile, request, u, g)
    <3>1. CASE u = w
      <4>1. g \in Mentions(profile[w]) \/ g \in Mentions(r.copy)
            BY <1>3, <1>4, <2>1, <3>1 DEF Mentions
      <4> QED BY <1>1, <3>1, <4>1 DEF Claims
    <3>2. CASE u # w
          BY <1>5, <2>1, <3>2 DEF Claims
    <3> QED BY <3>1, <3>2
  <2> QED BY <1>2, <2>1, GoingCarries, OwnedKept DEF RowInv
<1> HIDE DEF w
<1> QED BY <1>1, <1>2, <1>5, <1>8, <1>10, <1>11, <1>12, <1>13, OneRow

LEMMA ConfirmRows ==
    ASSUME TypeOK, RowInv, NEW b \in Browsers, request[b] \in Request, Goes(b), Confirmed(request[b])
    PROVE  RowInv'
<1> DEFINE r == request[b]
           w == request[b].user
           new == CodesOf(r.copy.pending)
<1>1. /\ r # Idle /\ w \in Users /\ r.copy \in Profile /\ profile \in [Users -> Profile]
      /\ mixed \in [Users -> BOOLEAN] /\ r.copy.pending # 0
      BY Working DEF TypeOK, Confirmed, Confirms
<1>2. /\ SaveCodes(w, new, {})
      /\ confirmed' = confirmed \cup {r.copy.secret}
      /\ mixed' = [mixed EXCEPT ![w] = @ \/ Stale(w, r.copy)]
      /\ minted' = minted
      BY DEF Confirmed, ConfirmEnrolment
<1>3. r.copy.pending \in Enrolments
      BY <1>1, ConstantsAssumption DEF Profile, Enrolments
<1>4. /\ \A u \in Users \ {w} : profile'[u] = profile[u]
      /\ profile'[w].secret = profile[w].secret /\ profile'[w].pending = 0
      /\ profile'[w].codes = new
      BY <1>1, <1>3, CodeTypes, ConfirmedRow DEF Confirmed
<1>5. /\ \A u \in Users \ {w} : mixed'[u] = mixed[u]
      /\ mixed'[w] = (mixed[w] \/ r.copy.secret # profile[w].secret)
      BY <1>1, <1>2 DEF Stale
<1>6. Agrees(r.copy) /\ r.copy.pending = r.copy.secret
  <2>1. Agrees(r.copy)
        BY <1>1 DEF RowInv
  <2> QED BY <1>1, <2>1 DEF Agrees
<1>7. \A c \in new : c[1] = r.copy.pending
      BY DEF CodesOf
<1> HIDE DEF new
<1>8. /\ respent' \subseteq revived' /\ new \cap spent' \subseteq revived'
      /\ \A u \in Users \ {w} : Guarded(profile[u], spent', revived')
  <2>1. \A u \in Users \ {w} : profile[u].codes \cap {} = {}
        OBVIOUS
  <2> QED BY <1>1, <1>2, <2>1, SaveKeeps, new \cap {} = {}
<1>9. Agrees(profile'[w]) /\ Guarded(profile'[w], spent', revived')
      BY <1>4, <1>8 DEF Agrees, Guarded
<1>10. Matched(profile'[w], mixed'[w], confirmed')
      BY <1>2, <1>4, <1>5, <1>6 DEF Matched, new
<1>11. ASSUME NEW c \in Browsers, request[c] # Idle, request[c].user = w
       PROVE  CopyMatched(request[c].copy, profile'[w], mixed'[w])
  <2>1. CopyMatched(request[c].copy, profile[w], mixed[w])
        BY <1>11 DEF RowInv
  <2> QED BY <2>1, <1>4, <1>5 DEF CopyMatched
<1>12. Owned(profile', request', minted')
  <2>1. ASSUME NEW u \in Users, NEW g \in Enrolments, g \in Mentions(profile'[u])
        PROVE  Claims(profile, request, u, g)
    <3>1. CASE u = w
      <4>1. g \in Mentions(profile[w]) \/ g \in Mentions(r.copy)
            BY <1>1, <1>4, <1>7, <2>1, <3>1 DEF Mentions
      <4> QED BY <1>1, <3>1, <4>1 DEF Claims
    <3>2. CASE u # w
          BY <1>4, <2>1, <3>2 DEF Claims
    <3> QED BY <3>1, <3>2
  <2> QED BY <1>2, <2>1, GoingCarries, OwnedKept DEF RowInv
<1>13. confirmed \subseteq confirmed'
      BY <1>2
<1> HIDE DEF w
<1> QED BY <1>1, <1>4, <1>5, <1>8, <1>9, <1>10, <1>11, <1>12, <1>13, OneRow

LEMMA RenewRows ==
    ASSUME TypeOK, RowInv, NEW b \in Browsers, request[b] \in Request, Goes(b), Renews(request[b])
    PROVE  RowInv'
<1> DEFINE r == request[b]
           w == request[b].user
           g == minted + 1
<1>1. r # Idle /\ w \in Users /\ profile \in [Users -> Profile] /\ mixed \in [Users -> BOOLEAN]
      BY Working DEF TypeOK
<1>3. /\ minted' = g
      /\ profile' = [profile EXCEPT ![w] = NewRow(w, g)]
      /\ SaveCodes(w, {}, {})
      /\ mixed' = [mixed EXCEPT ![w] = FALSE]
      /\ UNCHANGED confirmed
      BY DEF Renews, NewEnrolment
<1>4. /\ \A u \in Users \ {w} : profile'[u] = profile[u] /\ mixed'[u] = mixed[u]
      /\ profile'[w] = NewRow(w, g)
      BY <1>1, <1>3
<1>5. /\ profile'[w].secret = g /\ profile'[w].pending = g
      /\ profile'[w].codes = {} /\ ~profile'[w].enabled
      BY <1>4 DEF NewRow
<1>6. \A u \in Users \ {w} : profile[u].codes \cap {} = {}
      OBVIOUS
<1>7. /\ respent' \subseteq revived'
      /\ \A u \in Users \ {w} : Guarded(profile[u], spent', revived')
      BY <1>1, <1>3, <1>6, SaveKeeps
<1>8. Agrees(profile'[w]) /\ Guarded(profile'[w], spent', revived')
         /\ Matched(profile'[w], mixed'[w], confirmed')
      BY <1>5 DEF Agrees, Guarded, Matched
<1>9. ASSUME NEW c \in Browsers, request[c] # Idle, request[c].user = w
      PROVE  CopyMatched(request[c].copy, profile'[w], mixed'[w])
  <2> DEFINE secret == request[c].copy.secret
  <2>1. request[c].copy \in Profile
        BY <1>9, InRequest, Waiting
  <2>2. secret \in Nat /\ minted \in Nat /\ (secret # 0 => secret \in Enrolments)
        BY <2>1, ConstantsAssumption DEF TypeOK, Profile, Enrolments
  <2>3. secret # 0 => Claims(profile, request, w, secret)
        BY <1>9 DEF Claims, Mentions
  <2>4. secret <= minted
        BY <1>1, <2>2, <2>3 DEF RowInv, Owned
  <2>5. secret # g
        BY <2>2, <2>4
  <2> QED BY <1>5, <2>5 DEF CopyMatched
<1>10. Owned(profile', request', minted')
  <2>1. ASSUME NEW u \in Users, NEW e \in Enrolments, e \in Mentions(profile'[u])
        PROVE  Claims(profile, request, u, e) \/ (u = w /\ e = g)
    <3>1. CASE u = w
          BY <1>5, <2>1, <3>1 DEF Mentions
    <3>2. CASE u # w
          BY <1>4, <2>1, <3>2 DEF Claims
    <3> QED BY <3>1, <3>2
  <2> QED BY <1>1, <1>3, <2>1, GoingCarries, OwnedGrows DEF RowInv
<1>11. confirmed \subseteq confirmed'
      BY <1>3
<1> HIDE DEF w, g
<1> QED BY <1>1, <1>4, <1>7, <1>8, <1>9, <1>10, <1>11, OneRow

LEMMA InitialRows == Init => RowInv
<1> SUFFICES ASSUME Init PROVE RowInv
    OBVIOUS
<1>1. /\ \A u \in Users : profile[u] = Blank
      /\ \A b \in Browsers : request[b] = Idle
      /\ spent = {} /\ respent = {}
      BY DEF Init
<1>2. Blank.codes = {} /\ Blank.secret = 0 /\ Blank.pending = 0 /\ ~Blank.enabled /\ Mentions(Blank) = {}
      BY DEF Blank, Mentions
<1>3. \A u \in Users, g \in Enrolments : ~Claims(profile, request, u, g)
      BY <1>1, <1>2 DEF Claims
<1>4. Owned(profile, request, minted)
      BY <1>3 DEF Owned
<1> QED BY <1>1, <1>2, <1>4 DEF RowInv, Agrees, Guarded, Matched

LEMMA RowInvKept == TypeOK /\ RowInv /\ [Next]_vars => RowInv'
<1> SUFFICES ASSUME TypeOK, RowInv, [Next]_vars PROVE RowInv'
    OBVIOUS
<1>1. CASE RowsUntouched
      BY <1>1, Carries, ReadRows
<1>2. ASSUME NEW b \in Browsers, request[b] \in Request, Goes(b),
             Pops(request[b]) \/ Renews(request[b]) \/ Confirmed(request[b])
      PROVE  RowInv'
      BY <1>2, PopRows, RenewRows, ConfirmRows
<1> QED BY <1>1, <1>2, RowSteps DEF RowStep, Goes

\* A recovery code accepted twice was revived by an overlapping request
\* (consume_backup_code, confirm_enrollment).
THEOREM CodesSpentOnce == Spec => []CodeAcceptedOnce
<1>1. RowInv => CodeAcceptedOnce
      BY DEF RowInv, CodeAcceptedOnce
<1> QED BY <1>1, InitialRows, RowInvKept, LoginTypes, PTL DEF Spec

\* The secret of an enrolled account was confirmed and its codes were shown with it,
\* unless a request that had read another secret saved over the row.
THEOREM SecretsAreProved == Spec => []EnrolledSecretIsProved
<1>1. RowInv => EnrolledSecretIsProved
      BY DEF RowInv, Matched, EnrolledSecretIsProved
<1> QED BY <1>1, InitialRows, RowInvKept, LoginTypes, PTL DEF Spec
=============================================================================
