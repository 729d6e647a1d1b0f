--------------------------- MODULE QueryRunnerProofs ---------------------------
(***************************************************************************)
(* Theorems about QueryRunner, for any number of users, administrators,    *)
(* requests in progress and executions.  What the record and the audit log *)
(* say of the target database is proved for engines whose connections are  *)
(* opened without autocommit; that a decision is final, for all.           *)
(***************************************************************************)
EXTENDS QueryRunner, TLAPS

Step == {"run", "save", "audit"}
Req == [op : Op, exec : Execution, user : User, ok : BOOLEAN, step : Step]

-----------------------------------------------------------------------------
(* Types.                                                                  *)

LEMMA BeginTypes ==
    ASSUME TypeOK, NEW r \in Request, NEW u \in User, NEW op \in Op, NEW e \in Execution, Begin(r, u, op, e)
    PROVE  DOMAIN req' \subseteq Request /\ req' \in [DOMAIN req' -> Req]
<1>1. [op |-> op, exec |-> e, user |-> u, ok |-> TRUE, step |-> IF op = "discard" THEN "save" ELSE "run"] \in Req
      BY DEF Req, Step
<1> QED BY <1>1 DEF Begin, Put, TypeOK, Req, Step

LEMMA AdvanceTypes ==
    ASSUME TypeOK, NEW r \in DOMAIN req, NEW step \in Step, NEW ok \in BOOLEAN, Advance(r, step, ok)
    PROVE  DOMAIN req' = DOMAIN req /\ req' \in [DOMAIN req' -> Req]
BY DEF Advance, TypeOK, Req, Step

LEMMA FinishTypes ==
    ASSUME TypeOK, NEW r \in DOMAIN req, Finish(r)
    PROVE  /\ DOMAIN req' = DOMAIN req \ {r} /\ req' \in [DOMAIN req' -> Req]
           /\ \A s \in DOMAIN req' : req'[s] = req[s]
BY DEF Finish, Restrict, TypeOK, Req, Step

LEMMA EffectTypes ==
    ASSUME TypeOK, NEW e \in Execution, TakeEffect(e)
    PROVE  /\ applied' \in [Execution -> Nat]
           /\ \A x \in Execution \ {e} : applied'[x] = applied[x]
           /\ applied[e] = 0 => applied'[e] = 1
BY BoundAssumption DEF TakeEffect, TypeOK

LEMMA TypesKept == TypeOK /\ [Next]_vars => TypeOK'
<1> SUFFICES ASSUME TypeOK, [Next]_vars PROVE TypeOK'
    OBVIOUS
<1> USE DEF history
<1>1. CASE Administration
      BY <1>1 DEF Administration, SetEnabled, Grant, Revoke, TypeOK
<1>2. ASSUME NEW r \in Request, NEW u \in User, NEW e \in Execution, BeginPreview(r, u, e)
      PROVE  TypeOK'
  <2>1. Begin(r, u, "preview", e) /\ "preview" \in Op
        BY <1>2 DEF BeginPreview, Op
  <2>2. DOMAIN req' \subseteq Request /\ req' \in [DOMAIN req' -> Req]
        BY <2>1, BeginTypes
  <2> QED BY <1>2, <2>2 DEF BeginPreview, Begin, TypeOK, Req, Step
<1>3. ASSUME NEW r \in Request, NEW u \in User, NEW e \in Execution, NEW op \in Decision,
             BeginDecision(r, u, op, e)
      PROVE  TypeOK'
  <2>1. Begin(r, u, op, e) /\ op \in Op
        BY <1>3 DEF BeginDecision, Op, Decision
  <2>2. DOMAIN req' \subseteq Request /\ req' \in [DOMAIN req' -> Req]
        BY <2>1, BeginTypes
  <2> QED BY <1>3, <2>2 DEF BeginDecision, Begin, TypeOK, Req, Step
<1>4. ASSUME NEW r \in DOMAIN req, RunPreview(r) \/ RunCommit(r)
      PROVE  TypeOK'
  <2>1. applied' \in [Execution -> Nat]
        BY <1>4, EffectTypes DEF RunPreview, RunCommit, TypeOK
  <2>2. DOMAIN req' = DOMAIN req /\ req' \in [DOMAIN req' -> Req]
        BY <1>4, AdvanceTypes DEF RunPreview, RunCommit, Step
  <2> QED BY <1>4, <2>1, <2>2 DEF RunPreview, RunCommit, TypeOK, Req, Step
<1>5. ASSUME NEW r \in DOMAIN req, Save(r)
      PROVE  TypeOK'
  <2>1. DOMAIN req' = DOMAIN req /\ req' \in [DOMAIN req' -> Req]
        BY <1>5, AdvanceTypes DEF Save, Step, TypeOK
  <2>2. NewStatus(r) \in Status
        BY DEF NewStatus, Status, TypeOK, Op
  <2>3. DOMAIN exec' \subseteq Execution /\ exec' \in [DOMAIN exec' -> [user : User, status : Status]]
        BY <1>5, <2>2 DEF Save, Put, TypeOK
  <2> QED BY <1>5, <2>1, <2>3 DEF Save, TypeOK, Req, Step
<1>6. ASSUME NEW r \in DOMAIN req, WriteAudit(r) \/ Die(r)
      PROVE  TypeOK'
  <2>1. DOMAIN req' = DOMAIN req \ {r} /\ req' \in [DOMAIN req' -> Req]
        BY <1>6, FinishTypes DEF WriteAudit, Die
  <2>2. Entry(r) \subseteq [exec : Execution, op : Op, ok : BOOLEAN]
        BY DEF Entry, TypeOK
  <2> QED BY <1>6, <2>1, <2>2 DEF WriteAudit, Die, TypeOK, Req, Step
<1>7. CASE UNCHANGED vars
      BY <1>7 DEF vars, TypeOK
<1> QED BY <1>1, <1>2, <1>3, <1>4, <1>5, <1>6, <1>7 DEF Next

LEMMA InitialTypes == Init => TypeOK
BY DEF Init, TypeOK

\* The tables, the requests in progress and the histories keep their types.
THEOREM RunnerTypes == Spec => []TypeOK
BY InitialTypes, TypesKept, PTL DEF Spec

-----------------------------------------------------------------------------
(* The order of requests: a preview is alone until its row is created; a   *)
(* decision finds the row pending until it has saved it, unless another    *)
(* one overlaps it.                                                        *)

Early(r) == req[r].step \in {"run", "save"}
Decides(r) == req[r].op \in Decision

PreviewsAlone ==
    \A r \in DOMAIN req : req[r].op = "preview" /\ Early(r) =>
        /\ req[r].exec \notin DOMAIN exec
        /\ \A s \in DOMAIN req : req[s].exec = req[r].exec => s = r
OneDecides ==
    \A r, s \in DOMAIN req :
        Decides(r) /\ Decides(s) /\ req[r].exec = req[s].exec /\ req[r].exec \notin overlapped => r = s
DecisionsFindPending ==
    \A r \in DOMAIN req : Decides(r) =>
        /\ req[r].exec \in DOMAIN exec
        /\ Early(r) /\ req[r].exec \notin overlapped => exec[req[r].exec].status = "pending"

OrderInv == TypeOK /\ PreviewsAlone /\ OneDecides /\ DecisionsFindPending

\* A request that goes on keeps what it is about.
LEMMA Advanced ==
    ASSUME TypeOK, NEW r \in DOMAIN req, NEW step, NEW ok, Advance(r, step, ok)
    PROVE  /\ DOMAIN req' = DOMAIN req
           /\ req'[r].op = req[r].op /\ req'[r].exec = req[r].exec
           /\ req'[r].step = step /\ req'[r].ok = ok
           /\ \A s \in DOMAIN req \ {r} : req'[s] = req[s]
BY DEF Advance, TypeOK

LEMMA Began ==
    ASSUME NEW r, NEW u, NEW op, NEW e, Begin(r, u, op, e)
    PROVE  /\ r \notin DOMAIN req /\ DOMAIN req' = DOMAIN req \cup {r}
           /\ req'[r].op = op /\ req'[r].exec = e
           /\ req'[r].step = IF op = "discard" THEN "save" ELSE "run"
           /\ \A s \in DOMAIN req : req'[s] = req[s]
BY DEF Begin, Put

LEMMA OrderKept == OrderInv /\ [Next]_vars => OrderInv'
<1> SUFFICES ASSUME OrderInv, [Next]_vars PROVE OrderInv'
    OBVIOUS
<1>0. TypeOK /\ TypeOK'
      BY TypesKept DEF OrderInv
<1> USE DEF history
<1>1. CASE Administration
      BY <1>0, <1>1 DEF Administration, SetEnabled, Grant, Revoke, OrderInv, PreviewsAlone, OneDecides,
         DecisionsFindPending, Early, Decides
<1>2. ASSUME NEW r \in Request, NEW u \in User, NEW e \in Execution, BeginPreview(r, u, e)
      PROVE  OrderInv'
  <2>1. Begin(r, u, "preview", e) /\ e \notin DOMAIN exec /\ ~Working(e) /\ UNCHANGED <<exec, overlapped>>
        BY <1>2 DEF BeginPreview, Begin
  <2>2. /\ r \notin DOMAIN req /\ DOMAIN req' = DOMAIN req \cup {r}
        /\ req'[r].op = "preview" /\ req'[r].exec = e
        /\ \A s \in DOMAIN req : req'[s] = req[s]
        BY <2>1, Began
  <2>3. PreviewsAlone'
        BY <2>1, <2>2 DEF OrderInv, PreviewsAlone, Early, Working
  <2>4. OneDecides' /\ DecisionsFindPending'
        BY <2>1, <2>2 DEF OrderInv, OneDecides, DecisionsFindPending, Early, Decides, Decision
  <2> QED BY <1>0, <2>3, <2>4 DEF OrderInv
<1>3. ASSUME NEW r \in Request, NEW u \in User, NEW e \in Execution, NEW op \in Decision,
             BeginDecision(r, u, op, e)
      PROVE  OrderInv'
  <2>1. /\ Begin(r, u, op, e) /\ UNCHANGED exec
        /\ e \in DOMAIN exec /\ exec[e].status = "pending"
        /\ overlapped' = IF Deciding(e) THEN overlapped \cup {e} ELSE overlapped
        BY <1>3 DEF BeginDecision, Begin, OwnPending
  <2>0. /\ r \notin DOMAIN req /\ DOMAIN req' = DOMAIN req \cup {r}
        /\ req'[r].op = op /\ req'[r].exec = e
        /\ \A s \in DOMAIN req : req'[s] = req[s]
        BY <2>1, Began
  <2>2. PreviewsAlone'
        BY <2>0, <2>1 DEF OrderInv, PreviewsAlone, Early, Decision
  <2>3. OneDecides'
        BY <2>0, <2>1 DEF OrderInv, OneDecides, Decides, Deciding
  <2>4. DecisionsFindPending'
        BY <2>0, <2>1 DEF OrderInv, DecisionsFindPending, Decides, Early
  <2> QED BY <1>0, <2>2, <2>3, <2>4 DEF OrderInv
<1>4. ASSUME NEW r \in DOMAIN req, RunPreview(r) \/ RunCommit(r)
      PROVE  OrderInv'
  <2>1. PICK step, ok : Advance(r, step, ok)
        BY <1>4 DEF RunPreview, RunCommit
  <2>2. Early(r) /\ UNCHANGED <<exec, overlapped>>
        BY <1>4 DEF RunPreview, RunCommit, Early
  <2> QED BY <1>0, <2>1, <2>2, Advanced DEF OrderInv, PreviewsAlone, OneDecides, DecisionsFindPending, Early, Decides
<1>5. ASSUME NEW r \in DOMAIN req, Save(r)
      PROVE  OrderInv'
  <2>1. /\ Advance(r, "audit", req[r].ok) /\ Early(r) /\ UNCHANGED overlapped
        /\ DOMAIN exec' = DOMAIN exec \cup {req[r].exec}
        /\ \A x \in DOMAIN exec \ {req[r].exec} : exec'[x] = exec[x]
        BY <1>5 DEF Save, Put, Early
  <2>2. req[r].op = "preview" \/ Decides(r)
        BY <1>0 DEF TypeOK, Op, Decides, Decision
  <2>3. PreviewsAlone'
        BY <1>0, <2>1, Advanced DEF OrderInv, PreviewsAlone, Early
  <2>4. OneDecides'
        BY <1>0, <2>1, Advanced DEF OrderInv, OneDecides, Decides
  <2>5. DecisionsFindPending'
        BY <1>0, <2>1, <2>2, Advanced DEF OrderInv, PreviewsAlone, OneDecides, DecisionsFindPending, Decides, Early
  <2> QED BY <1>0, <2>3, <2>4, <2>5 DEF OrderInv
<1>6. ASSUME NEW r \in DOMAIN req, WriteAudit(r) \/ Die(r)
      PROVE  OrderInv'
  <2>1. Finish(r) /\ UNCHANGED <<exec, overlapped>>
        BY <1>6 DEF WriteAudit, Die
  <2>2. DOMAIN req' = DOMAIN req \ {r} /\ \A s \in DOMAIN req' : req'[s] = req[s]
        BY <1>0, <2>1, FinishTypes
  <2> QED BY <1>0, <2>1, <2>2 DEF OrderInv, PreviewsAlone, OneDecides, DecisionsFindPending, Early, Decides
<1>7. CASE UNCHANGED vars
      BY <1>0, <1>7 DEF vars, OrderInv, PreviewsAlone, OneDecides, DecisionsFindPending, Early, Decides
<1> QED BY <1>1, <1>2, <1>3, <1>4, <1>5, <1>6, <1>7 DEF Next

LEMMA OrderInvariant == Spec => []OrderInv
<1>1. Init => OrderInv
      BY InitialTypes DEF Init, OrderInv, PreviewsAlone, OneDecides, DecisionsFindPending
<1> QED BY <1>1, OrderKept, PTL DEF Spec

\* A decision is final, on every engine: a status other than pending only changes
\* when two decisions overlapped, although no request locks the row or reads its
\* status again.
THEOREM DecisionsFinal == Spec => DecisionIsFinal
<1>1. OrderInv /\ [Next]_vars => [\A e \in DOMAIN exec :
         exec[e].status # "pending" /\ e \notin overlapped => exec'[e].status = exec[e].status]_vars
  <2> SUFFICES ASSUME OrderInv, Next, NEW e \in DOMAIN exec, exec[e].status # "pending", e \notin overlapped
               PROVE  exec'[e].status = exec[e].status
      OBVIOUS
  <2>1. ASSUME NEW r \in DOMAIN req, Save(r)
        PROVE  exec'[e].status = exec[e].status
    <3>1. req[r].op = "preview" \/ Decides(r)
          BY DEF OrderInv, TypeOK, Op, Decides, Decision
    <3>2. req[r].exec # e
          BY <2>1, <3>1 DEF Save, OrderInv, PreviewsAlone, DecisionsFindPending, Early
    <3> QED BY <2>1, <3>2 DEF Save, Put
  <2>2. CASE UNCHANGED exec
        BY <2>2
  <2> QED BY <2>1, <2>2 DEF Next, Administration, SetEnabled, Grant, Revoke, BeginPreview, BeginDecision, Begin,
         RunPreview, RunCommit, WriteAudit, Die
<1> QED BY <1>1, OrderInvariant, PTL DEF Spec, DecisionIsFinal

-----------------------------------------------------------------------------
(* What the record says of the target database.  The engine's connections  *)
(* are opened without autocommit: a preview that is rolled back takes no   *)
(* effect.                                                                 *)

\* RecordIsTruthful for one execution.
Truthful(e) ==
    /\ exec[e].status \in {"pending", "discarded"} => applied[e] = 0
    /\ exec[e].status = "committed" => applied[e] = 1
    /\ exec[e].status = "failed" => applied[e] <= 1

\* What a decision knows of the effects of its statement.
Knows(r) ==
    LET e == req[r].exec IN
    IF req[r].step = "audit" THEN Truthful(e)
    ELSE IF req[r].step = "run" \/ req[r].op = "discard" THEN applied[e] = 0
    ELSE IF req[r].ok THEN applied[e] = 1 ELSE applied[e] <= 1

Untouched == \A e \in Execution \ Excused : e \notin DOMAIN exec => applied[e] = 0
Recorded == \A e \in DOMAIN exec \ Excused : ~Deciding(e) => Truthful(e)
Known == \A r \in DOMAIN req : Decides(r) /\ req[r].exec \notin Excused => Knows(r)

TruthInv == OrderInv /\ Untouched /\ Recorded /\ Known

\* Steps of requests that leave the rows and the effects of e alone.
LEMMA TruthFrame ==
    ASSUME TruthInv, OrderInv',
           UNCHANGED exec, Excused \subseteq Excused',
           \A e \in Execution \ Excused' : applied'[e] = applied[e],
           \A e \in DOMAIN exec \ Excused' : Deciding(e) => Deciding(e)' \/ Truthful(e),
           \A s \in DOMAIN req' : Decides(s)' /\ req'[s].exec \notin Excused' =>
               s \in DOMAIN req /\ req'[s] = req[s]
    PROVE  TruthInv'
<1>0. DOMAIN exec \subseteq Execution
      BY DEF TruthInv, OrderInv, TypeOK
<1>1. Untouched'
      BY DEF TruthInv, Untouched
<1>2. Recorded'
      BY <1>0 DEF TruthInv, Recorded, Truthful
<1>3. Known'
  <2> SUFFICES ASSUME NEW s \in DOMAIN req', Decides(s)', req'[s].exec \notin Excused' PROVE Knows(s)'
      BY DEF Known
  <2>1. s \in DOMAIN req /\ req'[s] = req[s] /\ Decides(s) /\ req[s].exec \in Execution
        BY DEF Decides, TruthInv, OrderInv, TypeOK
  <2>2. Knows(s)
        BY <2>1 DEF TruthInv, Known
  <2> QED BY <2>1, <2>2 DEF Knows, Truthful
<1> QED BY <1>1, <1>2, <1>3 DEF TruthInv

LEMMA TruthKept == ASSUME Autocommits = FALSE PROVE TruthInv /\ [Next]_vars => TruthInv'
<1> SUFFICES ASSUME TruthInv, [Next]_vars PROVE TruthInv'
    OBVIOUS
<1>0. OrderInv /\ OrderInv' /\ TypeOK /\ DOMAIN exec \subseteq Execution
      BY OrderKept DEF TruthInv, OrderInv, TypeOK
<1> USE DEF history
<1>1. CASE Administration
      BY <1>0, <1>1, TruthFrame DEF Administration, SetEnabled, Grant, Revoke, Excused, Deciding, Decides
<1>2. ASSUME NEW r \in Request, NEW u \in User, NEW e \in Execution, BeginPreview(r, u, e)
      PROVE  TruthInv'
  <2>1. Begin(r, u, "preview", e) /\ UNCHANGED <<exec, applied, overlapped, died>>
        BY <1>2 DEF BeginPreview, Begin
  <2>2. /\ DOMAIN req' = DOMAIN req \cup {r} /\ r \notin DOMAIN req
        /\ req'[r].op = "preview"
        /\ \A s \in DOMAIN req : req'[s] = req[s]
        BY <2>1, Began
  <2>3. \A x : Deciding(x) => Deciding(x)'
        BY <2>2 DEF Deciding
  <2> QED BY <1>0, <2>1, <2>2, <2>3, TruthFrame DEF Excused, Decides, Decision
<1>3. ASSUME NEW r \in Request, NEW u \in User, NEW e \in Execution, NEW op \in Decision,
             BeginDecision(r, u, op, e)
      PROVE  TruthInv'
  <2>1. /\ Begin(r, u, op, e) /\ UNCHANGED <<exec, applied, died>>
        /\ e \in DOMAIN exec /\ exec[e].status = "pending"
        /\ overlapped' = IF Deciding(e) THEN overlapped \cup {e} ELSE overlapped
        BY <1>3 DEF BeginDecision, Begin, OwnPending
  <2>2. /\ r \notin DOMAIN req /\ DOMAIN req' = DOMAIN req \cup {r}
        /\ req'[r].op = op /\ req'[r].exec = e
        /\ req'[r].step = IF op = "discard" THEN "save" ELSE "run"
        /\ \A s \in DOMAIN req : req'[s] = req[s]
        BY <2>1, Began
  <2>3. Excused' = IF Deciding(e) THEN Excused \cup {e} ELSE Excused
        BY <2>1 DEF Excused
  <2>4. Untouched'
        BY <2>1, <2>3 DEF TruthInv, Untouched
  <2>5. Recorded'
        BY <2>1, <2>2, <2>3 DEF TruthInv, Recorded, Deciding, Truthful
  <2>6. ASSUME e \notin Excused' PROVE Knows(r)'
    <3>1. applied[e] = 0
          BY <2>1, <2>3, <2>6 DEF TruthInv, Recorded, Truthful
    <3>2. CASE op = "discard"
          BY <2>1, <2>2, <3>1, <3>2 DEF Knows
    <3>3. CASE op = "commit"
          BY <2>1, <2>2, <3>1, <3>3 DEF Knows
    <3> QED BY <3>2, <3>3 DEF Decision
  <2>7. ASSUME NEW s \in DOMAIN req, Decides(s)', req'[s].exec \notin Excused'
        PROVE  Knows(s)'
    <3>1. req'[s] = req[s] /\ Knows(s)
          BY <2>2, <2>3, <2>7 DEF TruthInv, Known, Decides
    <3> QED BY <2>1, <3>1 DEF Knows, Truthful
  <2>8. Known'
        BY <2>2, <2>6, <2>7 DEF Known
  <2> QED BY <1>0, <2>4, <2>5, <2>8 DEF TruthInv
<1>4. ASSUME NEW r \in DOMAIN req, RunPreview(r)
      PROVE  TruthInv'
  <2>1. PICK step, ok : Advance(r, step, ok)
        BY <1>4 DEF RunPreview
  <2>2. req[r].op = "preview" /\ UNCHANGED <<exec, applied, overlapped, died>>
        BY <1>4 DEF RunPreview
  <2>3. /\ DOMAIN req' = DOMAIN req /\ req'[r].op = "preview"
        /\ \A s \in DOMAIN req \ {r} : req'[s] = req[s]
        BY <1>0, <2>1, <2>2, Advanced
  <2>4. \A x : Deciding(x) => Deciding(x)'
        BY <2>2, <2>3 DEF Deciding, Decision
  <2> QED BY <1>0, <2>2, <2>3, <2>4, TruthFrame DEF Excused, Decides, Decision
<1>5. ASSUME NEW r \in DOMAIN req, RunCommit(r)
      PROVE  TruthInv'
  <2> PICK e : e = req[r].exec
      OBVIOUS
  <2>1. PICK effective \in BOOLEAN, ok \in BOOLEAN :
          /\ ok => effective
          /\ IF effective THEN TakeEffect(e) ELSE UNCHANGED applied
          /\ Advance(r, "save", ok)
        BY <1>5 DEF RunCommit
  <2>2. /\ req[r].op = "commit" /\ req[r].step = "run" /\ Decides(r) /\ e \in Execution
        /\ UNCHANGED <<exec, overlapped, died>>
        BY <1>0, <1>5 DEF RunCommit, Decides, Decision, TypeOK
  <2>3. /\ DOMAIN req' = DOMAIN req
        /\ req'[r].op = "commit" /\ req'[r].exec = e /\ req'[r].step = "save" /\ req'[r].ok = ok
        /\ \A s \in DOMAIN req \ {r} : req'[s] = req[s]
        BY <1>0, <2>1, <2>2, Advanced
  <2>4. Excused' = Excused /\ \A x \in Execution \ {e} : applied'[x] = applied[x]
        BY <1>0, <2>1, <2>2, EffectTypes DEF Excused
  <2>5. e \in DOMAIN exec
        BY <1>0, <2>2 DEF OrderInv, DecisionsFindPending
  <2>6. Untouched'
        BY <2>2, <2>4, <2>5 DEF TruthInv, Untouched
  <2>7. Recorded'
    <3> SUFFICES ASSUME NEW x \in DOMAIN exec \ Excused, ~Deciding(x)' PROVE Truthful(x)'
        BY <2>2, <2>4 DEF Recorded
    <3>1. x # e /\ ~Deciding(x)
          BY <2>2, <2>3 DEF Deciding, Decides, Decision
    <3> QED BY <1>0, <2>2, <2>4, <3>1 DEF TruthInv, Recorded, Truthful
  <2>8. ASSUME e \notin Excused PROVE Knows(r)'
    <3>1. applied[e] = 0
          BY <2>2, <2>8 DEF TruthInv, Known, Knows
    <3>2. applied'[e] = IF effective THEN 1 ELSE 0
          BY <1>0, <2>1, <2>2, <3>1, EffectTypes
    <3> QED BY <2>1, <2>3, <3>2 DEF Knows
  <2>9. ASSUME NEW s \in DOMAIN req \ {r}, Decides(s)', req'[s].exec \notin Excused
        PROVE  Knows(s)'
    <3>1. req'[s] = req[s] /\ Decides(s) /\ Knows(s)
          BY <2>3, <2>9 DEF TruthInv, Known, Decides
    <3>2. req[s].exec \in Execution \ {e}
          BY <1>0, <2>2, <2>3, <2>9, <3>1 DEF OrderInv, OneDecides, TypeOK, Excused
    <3> QED BY <2>2, <2>4, <3>1, <3>2 DEF Knows, Truthful
  <2>10. Known'
        BY <2>3, <2>4, <2>8, <2>9 DEF Known
  <2> QED BY <1>0, <2>6, <2>7, <2>10 DEF TruthInv
<1>6. ASSUME NEW r \in DOMAIN req, Save(r)
      PROVE  TruthInv'
  <2> PICK e : e = req[r].exec
      OBVIOUS
  <2>1. /\ Advance(r, "audit", req[r].ok) /\ req[r].step = "save" /\ UNCHANGED <<applied, overlapped, died>>
        /\ DOMAIN exec' = DOMAIN exec \cup {e} /\ exec'[e].status = NewStatus(r)
        /\ \A x \in DOMAIN exec \ {e} : exec'[x] = exec[x]
        BY <1>6 DEF Save, Put
  <2>2. /\ DOMAIN req' = DOMAIN req
        /\ req'[r].op = req[r].op /\ req'[r].exec = e /\ req'[r].step = "audit"
        /\ \A s \in DOMAIN req \ {r} : req'[s] = req[s]
        BY <1>0, <2>1, Advanced
  <2>3. Excused' = Excused /\ e \in Execution /\ req[r].op \in Op /\ req[r].ok \in BOOLEAN
        BY <1>0, <2>1 DEF Excused, TypeOK
  <2>4. ASSUME e \notin Excused PROVE Truthful(e)'
    <3>1. CASE req[r].op = "preview"
      <4>1. applied[e] = 0
            BY <1>0, <2>1, <2>3, <2>4, <3>1 DEF OrderInv, PreviewsAlone, Early, TruthInv, Untouched
      <4> QED BY <2>1, <3>1, <4>1 DEF Truthful, NewStatus
    <3>2. CASE Decides(r)
      <4>1. Knows(r)
            BY <2>4, <3>2 DEF TruthInv, Known
      <4>2. CASE req[r].op = "discard"
            BY <2>1, <4>1, <4>2 DEF Truthful, NewStatus, Knows
      <4>3. CASE req[r].op = "commit"
            BY <2>1, <2>3, <4>1, <4>3 DEF Truthful, NewStatus, Knows
      <4> QED BY <3>2, <4>2, <4>3 DEF Decides, Decision
    <3> QED BY <2>3, <3>1, <3>2 DEF Op, Decides, Decision
  <2>5. Untouched'
        BY <2>1, <2>3 DEF TruthInv, Untouched
  <2>6. Recorded'
    <3> SUFFICES ASSUME NEW x \in DOMAIN exec' \ Excused, ~Deciding(x)' PROVE Truthful(x)'
        BY <2>3 DEF Recorded
    <3>1. CASE x = e
          BY <2>4, <3>1
    <3>2. CASE x # e
      <4>1. ~Deciding(x) /\ x \in DOMAIN exec
            BY <2>1, <2>2, <3>2 DEF Deciding
      <4> QED BY <2>1, <3>2, <4>1 DEF TruthInv, Recorded, Truthful
    <3> QED BY <3>1, <3>2
  <2>7. ASSUME NEW s \in DOMAIN req, Decides(s)', req'[s].exec \notin Excused
        PROVE  Knows(s)'
    <3>1. CASE s = r
          BY <2>2, <2>4, <2>7, <3>1 DEF Knows
    <3>2. CASE s # r
      <4>1. req'[s] = req[s] /\ Decides(s) /\ Knows(s)
            BY <2>2, <2>7, <3>2 DEF TruthInv, Known, Decides
      <4>2. CASE req[s].exec = e
            BY <2>1, <2>2, <2>4, <2>7, <4>1, <4>2 DEF Knows, Truthful
      <4>3. CASE req[s].exec # e
        <5>1. req[s].exec \in DOMAIN exec
              BY <1>0, <4>1 DEF OrderInv, DecisionsFindPending
        <5> QED BY <2>1, <4>1, <4>3, <5>1 DEF Knows, Truthful
      <4> QED BY <4>2, <4>3
    <3> QED BY <3>1, <3>2
  <2>8. Known'
        BY <2>2, <2>3, <2>7 DEF Known
  <2> QED BY <1>0, <2>5, <2>6, <2>8 DEF TruthInv
<1>7. ASSUME NEW r \in DOMAIN req, WriteAudit(r) \/ Die(r)
      PROVE  TruthInv'
  <2>1. Finish(r) /\ UNCHANGED <<exec, applied, overlapped>> /\ died \subseteq died'
        BY <1>7 DEF WriteAudit, Die
  <2>2. DOMAIN req' = DOMAIN req \ {r} /\ \A s \in DOMAIN req' : req'[s] = req[s]
        BY <1>0, <2>1, FinishTypes
  <2>3. Excused \subseteq Excused'
        BY <2>1 DEF Excused
  <2>4. ASSUME NEW x \in DOMAIN exec \ Excused', Deciding(x), ~Deciding(x)'
        PROVE  Truthful(x)
    <3>1. req[r].exec = x /\ Decides(r)
          BY <2>2, <2>4 DEF Deciding, Decides
    <3>2. req[r].step = "audit"
          BY <1>7, <2>4, <3>1 DEF WriteAudit, Die, Decides, Excused
    <3> QED BY <2>3, <2>4, <3>1, <3>2 DEF TruthInv, Known, Knows
  <2> QED BY <1>0, <2>1, <2>2, <2>3, <2>4, TruthFrame
<1>8. CASE UNCHANGED vars
      BY <1>0, <1>8, TruthFrame DEF vars, Excused, Deciding, Decides
<1> QED BY <1>1, <1>2, <1>3, <1>4, <1>5, <1>6, <1>7, <1>8 DEF Next

LEMMA InitialTruth == Init => TruthInv
BY InitialTypes DEF Init, TruthInv, OrderInv, PreviewsAlone, OneDecides, DecisionsFindPending,
   Untouched, Recorded, Known

\* Without autocommit, the status of an execution tells what its statement did to the
\* target database, whatever requests run at once, fail or lose a commit's reply;
\* the exceptions are overlapping decisions and requests that died half-way.
THEOREM RecordTruth == ASSUME Autocommits = FALSE PROVE Spec => []RecordIsTruthful
<1>1. TruthInv => RecordIsTruthful
  <2> SUFFICES ASSUME TruthInv, NEW e \in DOMAIN exec \ Excused, ~Deciding(e)
               PROVE  CASE exec[e].status \in {"pending", "discarded"} -> applied[e] = 0
                        [] exec[e].status = "committed"                -> applied[e] = 1
                        [] exec[e].status = "failed"                   -> applied[e] <= 1
      BY DEF RecordIsTruthful
  <2>1. Truthful(e) /\ exec[e].status \in Status
        BY DEF TruthInv, Recorded, OrderInv, TypeOK
  <2> QED BY <2>1 DEF Truthful, Status
<1> QED BY <1>1, InitialTruth, TruthKept, PTL DEF Spec

\* Without autocommit, no statement takes effect a second time, with the same exceptions.
THEOREM AppliedOnce == ASSUME Autocommits = FALSE PROVE Spec => []AppliedTwiceOnlyIfExcused
<1>1. TruthInv => AppliedTwiceOnlyIfExcused
  <2> SUFFICES ASSUME TruthInv, NEW e \in Execution \ Excused PROVE applied[e] <= 1
      BY DEF AppliedTwiceOnlyIfExcused
  <2>1. CASE e \notin DOMAIN exec
        BY <2>1 DEF TruthInv, Untouched
  <2>2. CASE e \in DOMAIN exec /\ ~Deciding(e)
        BY <2>2 DEF TruthInv, Recorded, Truthful, OrderInv, TypeOK, Status
  <2>3. CASE e \in DOMAIN exec /\ Deciding(e)
    <3>1. PICK r \in DOMAIN req : req[r].exec = e /\ Decides(r)
          BY <2>3 DEF Deciding, Decides
    <3>2. Knows(r) /\ req[r].ok \in BOOLEAN /\ exec[e].status \in Status
          BY <2>3, <3>1 DEF TruthInv, Known, OrderInv, TypeOK
    <3> QED BY <3>1, <3>2 DEF Knows, Truthful, Status
  <2> QED BY <2>1, <2>2, <2>3
<1> QED BY <1>1, InitialTruth, TruthKept, PTL DEF Spec

-----------------------------------------------------------------------------
(* The audit log.  The invariant names the commit that will write the entry. *)

CommitsAudited ==
    \A e \in Execution \ died : applied[e] > 0 =>
        \/ \E a \in audit : a.exec = e /\ a.op = "commit"
        \/ \E r \in DOMAIN req : req[r].exec = e /\ req[r].op = "commit" /\ req[r].step \in {"save", "audit"}

LEMMA AuditKept == ASSUME Autocommits = FALSE PROVE TypeOK /\ CommitsAudited /\ [Next]_vars => CommitsAudited'
<1> SUFFICES ASSUME TypeOK, CommitsAudited, [Next]_vars PROVE CommitsAudited'
    OBVIOUS
<1> USE DEF history
<1>1. CASE Administration
      BY <1>1 DEF Administration, SetEnabled, Grant, Revoke, CommitsAudited
<1>2. ASSUME NEW r \in Request, NEW u \in User, NEW op \in Op, NEW e \in Execution, Begin(r, u, op, e), UNCHANGED died
      PROVE  CommitsAudited'
  <2>1. DOMAIN req' = DOMAIN req \cup {r} /\ r \notin DOMAIN req /\ \A s \in DOMAIN req : req'[s] = req[s]
        BY <1>2, Began
  <2>2. UNCHANGED <<audit, applied, died>>
        BY <1>2 DEF Begin
  <2> QED BY <2>1, <2>2 DEF CommitsAudited
<1>3. ASSUME NEW r \in DOMAIN req, RunPreview(r)
      PROVE  CommitsAudited'
  <2>1. PICK step, ok : Advance(r, step, ok)
        BY <1>3 DEF RunPreview
  <2>2. req[r].op = "preview" /\ UNCHANGED <<audit, applied, died>>
        BY <1>3 DEF RunPreview
  <2>3. DOMAIN req' = DOMAIN req /\ \A s \in DOMAIN req \ {r} : req'[s] = req[s]
        BY <2>1, Advanced
  <2> QED BY <2>2, <2>3 DEF CommitsAudited
<1>4. ASSUME NEW r \in DOMAIN req, RunCommit(r)
      PROVE  CommitsAudited'
  <2> PICK e : e = req[r].exec
      OBVIOUS
  <2>1. /\ req[r].op = "commit" /\ e \in Execution /\ UNCHANGED <<audit, died>>
        /\ \/ TakeEffect(e) \/ UNCHANGED applied
        /\ \E ok : Advance(r, "save", ok)
        BY <1>4 DEF RunCommit, TypeOK
  <2>2. /\ DOMAIN req' = DOMAIN req
        /\ req'[r].exec = e /\ req'[r].op = "commit" /\ req'[r].step = "save"
        /\ \A s \in DOMAIN req \ {r} : req'[s] = req[s]
        BY <2>1, Advanced
  <2>3. \A x \in Execution \ {e} : applied'[x] = applied[x]
        BY <2>1, EffectTypes
  <2> QED BY <2>1, <2>2, <2>3 DEF CommitsAudited
<1>5. ASSUME NEW r \in DOMAIN req, Save(r)
      PROVE  CommitsAudited'
  <2>1. Advance(r, "audit", req[r].ok) /\ UNCHANGED <<audit, applied, died>>
        BY <1>5 DEF Save
  <2>2. /\ DOMAIN req' = DOMAIN req
        /\ req'[r].exec = req[r].exec /\ req'[r].op = req[r].op /\ req'[r].step = "audit"
        /\ \A s \in DOMAIN req \ {r} : req'[s] = req[s]
        BY <2>1, Advanced
  <2> QED BY <2>1, <2>2 DEF CommitsAudited
<1>6. ASSUME NEW r \in DOMAIN req, WriteAudit(r)
      PROVE  CommitsAudited'
  <2>1. /\ Finish(r) /\ UNCHANGED <<applied, died>>
        /\ audit' = audit \cup {[exec |-> req[r].exec, op |-> req[r].op, ok |-> req[r].ok]}
        BY <1>6 DEF WriteAudit, Entry
  <2>2. DOMAIN req' = DOMAIN req \ {r} /\ \A s \in DOMAIN req' : req'[s] = req[s]
        BY <2>1, FinishTypes
  <2>3. req[r].op = "commit" => \E a \in audit' : a.exec = req[r].exec /\ a.op = "commit"
    <3> DEFINE entry == [exec |-> req[r].exec, op |-> req[r].op, ok |-> req[r].ok]
    <3>1. entry \in audit'
          BY <2>1
    <3>2. entry.exec = req[r].exec /\ entry.op = req[r].op
          OBVIOUS
    <3> HIDE DEF entry
    <3> QED BY <3>1, <3>2
  <2>4. audit \subseteq audit'
        BY <2>1
  <2> QED BY <2>1, <2>2, <2>3, <2>4 DEF CommitsAudited
<1>7. ASSUME NEW r \in DOMAIN req, Die(r)
      PROVE  CommitsAudited'
  <2>1. /\ Finish(r) /\ UNCHANGED <<applied, audit>>
        /\ died \subseteq died' /\ (req[r].op = "commit" => req[r].exec \in died')
        BY <1>7 DEF Die, Decision
  <2>2. DOMAIN req' = DOMAIN req \ {r} /\ \A s \in DOMAIN req' : req'[s] = req[s]
        BY <2>1, FinishTypes
  <2> QED BY <2>1, <2>2 DEF CommitsAudited
<1>8. CASE UNCHANGED vars
      BY <1>8 DEF vars, CommitsAudited
<1>9. ASSUME NEW r \in Request, NEW u \in User, NEW e \in Execution,
             BeginPreview(r, u, e) \/ \E op \in Decision : BeginDecision(r, u, op, e)
      PROVE  \E op \in Op : Begin(r, u, op, e) /\ UNCHANGED died
      BY <1>9 DEF BeginPreview, BeginDecision, Op, Decision
<1> QED BY <1>1, <1>2, <1>3, <1>4, <1>5, <1>6, <1>7, <1>8, <1>9 DEF Next

\* Without autocommit, every statement that took effect has an audit entry of its
\* commit once no request works on it, overlapping decisions included; the
\* exception is a request that died or could not write its entry.
THEOREM EffectsAreAudited == ASSUME Autocommits = FALSE PROVE Spec => []EffectsAudited
<1>1. Init => CommitsAudited
      BY DEF Init, CommitsAudited
<1>2. CommitsAudited => EffectsAudited
      BY DEF CommitsAudited, EffectsAudited, Working
<1> QED BY <1>1, <1>2, AuditKept, RunnerTypes, PTL DEF Spec
================================================================================
