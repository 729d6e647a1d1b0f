-------------------------- MODULE LockMonitorProofs --------------------------
(***************************************************************************)
(* Theorems about LockMonitor, for any set of PID pairs, any number of     *)
(* pollers running passes at once, any storm threshold and any schedule.   *)
(***************************************************************************)
EXTENDS LockMonitor, TLAPS

USE DEF dbVars, passVars, history

-----------------------------------------------------------------------------
(* Every variable keeps its type.                                          *)

LEMMA TypeInit == Init => TypeOK
<1> SUFFICES ASSUME Init PROVE TypeOK
  OBVIOUS
<1>1. DOMAIN alert = {} /\ alert \in [DOMAIN alert -> Row]
  BY DEF Init
<1>2. note \in Note
  BY DEF Init, Note
<1>3. QED
  BY <1>1, <1>2 DEF Init, TypeOK, Stage, PC, NoCard, Event

\* A row stays a row when one of its columns is written.
LEMMA RowWritten ==
    ASSUME NEW r \in Row
    PROVE  /\ \A b \in BOOLEAN : [r EXCEPT !.open = b] \in Row
           /\ [r EXCEPT !.alerted = TRUE] \in Row
           /\ \A s \in Reason : [r EXCEPT !.reason = s] \in Row
           /\ r.reason \in Reason
  BY DEF Row

\* A step of the environment keeps the types.
LEMMA TypeEnvironment == TypeOK /\ Environment => TypeOK'
<1> SUFFICES ASSUME TypeOK, Environment PROVE TypeOK'
  OBVIOUS
<1>1. ASSUME NEW k \in Key, Block(k) \/ Age(k) \/ Unblock(k)
      PROVE  TypeOK'
  BY <1>1 DEF TypeOK, Block, Age, Unblock, Stage
<1>2. CASE ToggleWindow
  BY <1>2 DEF TypeOK, ToggleWindow
<1>3. ASSUME NEW pid \in Killable, KillSession(pid)
      PROVE  TypeOK'
  BY <1>3 DEF TypeOK, KillSession, Stage
<1>4. ASSUME NEW pid \in Killable, MarkManualKill(pid)
      PROVE  TypeOK'
  <2>1. ASSUME NEW i \in DOMAIN alert
        PROVE  alert'[i] \in {alert[i], [alert[i] EXCEPT !.reason = "manual_kill"]}
    BY <1>4 DEF MarkManualKill
  <2>2. /\ DOMAIN alert' = DOMAIN alert
        /\ alert' \in [DOMAIN alert -> Row]
    <3>1. ASSUME NEW i \in DOMAIN alert PROVE alert'[i] \in Row
      <4>1. alert[i] \in Row /\ "manual_kill" \in Reason
        BY DEF TypeOK, Reason
      <4>2. QED
        BY <2>1, <4>1, RowWritten
    <3>2. QED
      BY <1>4, <3>1 DEF MarkManualKill
  <2>3. QED
    BY <1>4, <2>1, <2>2 DEF TypeOK, MarkManualKill
<1>5. ASSUME NEW pid \in Killable, MarkFails(pid)
      PROVE  TypeOK'
  BY <1>5 DEF TypeOK, MarkFails
<1>6. QED
  BY <1>1, <1>2, <1>3, <1>4, <1>5 DEF Environment

\* The end of a pass resets its local variables to values of their types.
LEMMA TypeFinish ==
    ASSUME TypeOK, NEW p \in Poller, Finish(p)
    PROVE  /\ pc' \in [Poller -> PC]
           /\ seen' \in [Poller -> SUBSET Key]
           /\ due' \in [Poller -> SUBSET Key]
           /\ open' \in [Poller -> BOOLEAN]
           /\ toClear' \in [Poller -> SUBSET Incident]
           /\ manual' \in [Poller -> BOOLEAN]
           /\ current' \in [Poller -> SUBSET Key]
           /\ draft' \in [Poller -> [event : Event, keys : SUBSET Key]]
  BY DEF TypeOK, Finish, PC, NoCard, Event

\* The key set of any set of rows of the table is a set of PID pairs.
LEMMA KeysOfType ==
    ASSUME TypeOK, NEW ids \in SUBSET DOMAIN alert
    PROVE  KeysOf(ids) \subseteq Key
  BY DEF TypeOK, KeysOf, Row

\* The steps of a pass that write LockAlert rows keep the types.
LEMMA TypeTrack ==
    ASSUME TypeOK, NEW p \in Poller,
           Fetch(p) \/ Upsert(p) \/ Scan(p) \/ Resolve(p) \/ Label(p)
             \/ ListEligible(p)
    PROVE  TypeOK'
<1>1. CASE Fetch(p)
  BY <1>1 DEF TypeOK, Fetch, PC
<1>2. CASE Upsert(p)
  <2>0. PICK new \in SUBSET (Incident \ DOMAIN alert) :
        \E keyOf \in Bijection(new, Missing(p)) :
          alert' = [i \in DOMAIN alert \cup new |->
                     IF i \in new
                     THEN [key |-> keyOf[i], open |-> TRUE,
                           alerted |-> keyOf[i] \in due[p], reason |-> ""]
                     ELSE Refreshed(p, alert[i])]
    BY <1>2 DEF Upsert
  <2>1. PICK keyOf \in Bijection(new, Missing(p)) :
          alert' = [i \in DOMAIN alert \cup new |->
                     IF i \in new
                     THEN [key |-> keyOf[i], open |-> TRUE,
                           alerted |-> keyOf[i] \in due[p], reason |-> ""]
                     ELSE Refreshed(p, alert[i])]
    BY <2>0
  <2>2. keyOf \in [new -> Key]
    BY DEF Bijection, Injection, Missing, TypeOK
  <2>3. DOMAIN alert' = DOMAIN alert \cup new
    BY <2>1
  <2>4. ASSUME NEW i \in DOMAIN alert'
        PROVE  alert'[i] \in Row
    <3>1. CASE i \in new
      <4>1. alert'[i] = [key |-> keyOf[i], open |-> TRUE,
                         alerted |-> keyOf[i] \in due[p], reason |-> ""]
        BY <2>1, <2>3, <3>1
      <4>2. keyOf[i] \in Key
        BY <2>2, <3>1
      <4>3. [key |-> keyOf[i], open |-> TRUE, alerted |-> keyOf[i] \in due[p],
             reason |-> ""] \in Row
        BY <4>2 DEF Row, Reason
      <4>4. QED
        BY <4>1, <4>3
    <3>2. CASE i \notin new
      <4>1. alert[i] \in Row
        BY <2>3, <3>2 DEF TypeOK
      <4>2. alert'[i] \in {alert[i], [alert[i] EXCEPT !.alerted = TRUE]}
        BY <2>1, <2>3, <3>2 DEF Refreshed
      <4>3. [alert[i] EXCEPT !.alerted = TRUE] \in Row
        BY <4>1 DEF Row
      <4>4. QED
        BY <4>1, <4>2, <4>3
    <3>3. QED
      BY <3>1, <3>2
  <2>5. alert' \in [DOMAIN alert' -> Row]
    BY <2>1, <2>4
  <2>6. DOMAIN alert' \subseteq Incident
    BY <2>3 DEF TypeOK
  <2>7. QED
    BY <1>2, <2>5, <2>6 DEF TypeOK, Upsert, PC
<1>3. CASE Scan(p)
  BY <1>3 DEF TypeOK, Scan, PC, OpenRows
<1>4. CASE Resolve(p)
  <2>1. DOMAIN alert' = DOMAIN alert /\ alert' \in [DOMAIN alert -> Row]
    <3>1. ASSUME NEW i \in DOMAIN alert
          PROVE  alert[i] \in Row /\ [alert[i] EXCEPT !.open = FALSE] \in Row
      BY RowWritten DEF TypeOK
    <3>2. QED
      BY <1>4, <3>1 DEF Resolve
  <2>2. QED
    BY <1>4, <2>1 DEF TypeOK, Resolve, PC
<1>5. CASE Label(p)
  <2>1. DOMAIN alert' = DOMAIN alert /\ alert' \in [DOMAIN alert -> Row]
    <3>1. ASSUME NEW i \in DOMAIN alert
          PROVE  alert[i] \in Row /\ [alert[i] EXCEPT !.reason = AutoReason(@)] \in Row
      <4>1. alert[i] \in Row /\ AutoReason(alert[i].reason) \in Reason
        BY RowWritten DEF TypeOK, AutoReason, Reason
      <4>2. QED
        BY <4>1, RowWritten
    <3>2. QED
      BY <1>5, <3>1 DEF Label
  <2>2. QED
    BY <1>5, <2>1 DEF TypeOK, Label, PC
<1>6. CASE ListEligible(p)
  <2>1. KeysOf(EligibleRows) \subseteq Key
    BY KeysOfType DEF EligibleRows, OpenRows
  <2>2. QED
    BY <1>6, <2>1 DEF TypeOK, ListEligible, PC
<1>7. QED
  BY <1>1, <1>2, <1>3, <1>4, <1>5, <1>6

\* The steps of the transaction on the state row keep the types.
LEMMA TypeNotify ==
    ASSUME TypeOK, NEW p \in Poller,
           QuietPass(p) \/ ReportStorm(p) \/ Suppress(p) \/ NoChange(p)
             \/ ReportChange(p) \/ Deliver(p) \/ Commit(p) \/ DeliveryFails(p)
             \/ Abandon(p)
    PROVE  TypeOK'
<1>1. CASE QuietPass(p)
  <2>1. note' \in Note
    BY <1>1 DEF TypeOK, QuietPass, Note
  <2>2. QED
    BY <1>1, <2>1, TypeFinish DEF TypeOK, QuietPass
<1>2. CASE ReportStorm(p)
  <2>1. OpenKeys \subseteq Key
    BY KeysOfType DEF OpenKeys, OpenRows
  <2>2. QED
    BY <1>2, <2>1 DEF TypeOK, ReportStorm, Send, PC, Event
<1>3. CASE Suppress(p)
  BY <1>3, TypeFinish DEF TypeOK, Suppress
<1>4. CASE NoChange(p)
  <2>1. note' \in Note
    BY <1>4 DEF TypeOK, NoChange, Note
  <2>2. QED
    BY <1>4, <2>1, TypeFinish DEF TypeOK, NoChange
<1>5. CASE ReportChange(p)
  <2>1. PICK e \in Event : Send(p, [event |-> e, keys |-> current[p]])
    BY <1>5 DEF ReportChange, Event
  <2>2. QED
    BY <2>1 DEF TypeOK, Send, PC
<1>6. CASE Deliver(p)
  BY <1>6 DEF TypeOK, Deliver, PC
<1>7. CASE Commit(p)
  <2>1. note' \in Note
    BY <1>7 DEF TypeOK, Commit, Recorded, Note
  <2>2. QED
    BY <1>7, <2>1, TypeFinish DEF TypeOK, Commit
<1>8. CASE DeliveryFails(p)
  <2>1. note' \in Note
    BY <1>8 DEF TypeOK, DeliveryFails, AfterFailure, Note
  <2>2. QED
    BY <1>8, <2>1, TypeFinish DEF TypeOK, DeliveryFails
<1>9. CASE Abandon(p)
  BY <1>9, TypeFinish DEF TypeOK, Abandon
<1>10. QED
  BY <1>1, <1>2, <1>3, <1>4, <1>5, <1>6, <1>7, <1>8, <1>9

\* Type correctness: whatever the interleaving of passes, kills, attributions,
\* failures and cleanups, the tables and the locals of a pass stay well formed.
THEOREM TypeCorrect == Spec => []TypeOK
<1>1. TypeOK /\ [Next]_vars => TypeOK'
  <2> SUFFICES ASSUME TypeOK, [Next]_vars PROVE TypeOK'
    OBVIOUS
  <2>1. ASSUME NEW p \in Poller, Pass(p) \/ Abandon(p)
        PROVE  TypeOK'
    BY <2>1, TypeTrack, TypeNotify DEF Pass
  <2>2. CASE CleanupHistory
    BY <2>2 DEF TypeOK, CleanupHistory, Restrict
  <2>3. CASE Environment
    BY <2>3, TypeEnvironment
  <2>4. CASE UNCHANGED vars
    BY <2>4 DEF vars, TypeOK
  <2>5. QED
    BY <2>1, <2>2, <2>3, <2>4 DEF Next
<1>2. QED
  BY TypeInit, <1>1, PTL DEF Spec

-----------------------------------------------------------------------------
(* What recipients were told.  NoteInv is the inductive strengthening of   *)
(* FingerprintMatchesKeys and RecordMatchesLastCard: it says what the row  *)
(* and the card in flight have in common with the last card at each point  *)
(* of the transaction.                                                     *)

InFlight(p) == pc[p] \in {"sending", "sent"}

NoteInv ==
    /\ OneCardInFlight
    /\ FingerprintMatchesKeys
    /\ note.fp = <<>> /\ ~drift => note.keys = {}
    /\ RecordMatchesLastCard
    /\ \A p \in Poller : pc[p] = "sent" => announced = draft[p].keys
    /\ \A p \in Poller :
         pc[p] = "sending" /\ draft[p].event # "storm"
           => drift \/ draft[p].keys # announced

StormInv ==
    /\ stormSaid => note.storm /\ OpenRows # {}
    /\ \A p \in Poller : InFlight(p) => ~stormSaid

LEMMA NoteInit == Init => NoteInv
  BY DEF Init, NoteInv, OneCardInFlight, FingerprintMatchesKeys,
         RecordMatchesLastCard

\* A step that leaves the row and the cards in flight alone keeps NoteInv.
LEMMA NoteFrame ==
    ASSUME NoteInv,
           UNCHANGED <<note, announced, drift, draft>>,
           \A q \in Poller : InFlight(q) \/ InFlight(q)' => pc'[q] = pc[q]
    PROVE  NoteInv'
  BY DEF NoteInv, OneCardInFlight, FingerprintMatchesKeys,
         RecordMatchesLastCard, InFlight

LEMMA NoteTrack ==
    ASSUME TypeOK, NoteInv, NEW p \in Poller,
           Fetch(p) \/ Upsert(p) \/ Scan(p) \/ Resolve(p) \/ Label(p)
             \/ ListEligible(p)
    PROVE  NoteInv'
<1>1. UNCHANGED <<note, announced, drift, draft>>
  BY DEF Fetch, Upsert, Scan, Resolve, Label, ListEligible
<1>2. /\ pc' = [pc EXCEPT ![p] = pc'[p]]
      /\ ~InFlight(p) /\ ~InFlight(p)'
  BY DEF Fetch, Upsert, Scan, Resolve, Label, ListEligible, InFlight, TypeOK
<1>3. \A q \in Poller : InFlight(q) \/ InFlight(q)' => pc'[q] = pc[q]
  BY <1>2 DEF TypeOK, InFlight
<1>4. QED
  BY <1>1, <1>3, NoteFrame

\* The card a pass prepares differs from the last one unless it is a storm
\* card or the row was rewritten since.
LEMMA NoteDecide ==
    ASSUME TypeOK, NoteInv, NEW p \in Poller,
           QuietPass(p) \/ ReportStorm(p) \/ Suppress(p) \/ NoChange(p)
             \/ ReportChange(p)
    PROVE  NoteInv'
<1> USE DEF TypeOK, NoteInv, OneCardInFlight, FingerprintMatchesKeys,
            RecordMatchesLastCard, InFlight
<1>0. \A q \in Poller : ~InFlight(q)
  BY DEF QuietPass, ReportStorm, Suppress, NoChange, ReportChange, Deciding,
         RowLocked
<1>1. CASE QuietPass(p)
  BY <1>0, <1>1 DEF QuietPass, Finish
<1>2. CASE ReportStorm(p)
  BY <1>0, <1>2 DEF ReportStorm, Send
<1>3. CASE Suppress(p)
  BY <1>0, <1>3 DEF Suppress, Finish
<1>4. CASE NoChange(p)
  <2>1. note'.fp = <<current[p]>> /\ note'.keys = note.keys
    BY <1>4 DEF NoChange, Note
  <2>2. note.keys = current[p]
    <3>1. CASE SameAsLast(p)
      <4>1. note.fp = <<current[p]>> /\ note.fp = <<note.keys>>
        BY <3>1 DEF SameAsLast
      <4>2. QED
        BY <4>1
    <3>2. CASE Nothing(p)
      BY <3>2 DEF Nothing
    <3>3. QED
      BY <1>4, <3>1, <3>2 DEF NoChange
  <2>3. QED
    BY <1>0, <1>4, <2>1, <2>2 DEF NoChange, Finish
<1>5. CASE ReportChange(p)
  <2>1. ~drift => current[p] # announced
    BY <1>0, <1>5 DEF ReportChange, SameAsLast, Nothing, Note
  <2>2. draft'[p].keys = current[p]
    BY <1>5 DEF ReportChange, Send
  <2>3. QED
    BY <1>0, <1>5, <2>1, <2>2 DEF ReportChange, Send
<1>6. QED
  BY <1>1, <1>2, <1>3, <1>4, <1>5

LEMMA NoteDeliver ==
    ASSUME TypeOK, NoteInv, NEW p \in Poller,
           Deliver(p) \/ Commit(p) \/ DeliveryFails(p) \/ Abandon(p)
    PROVE  NoteInv'
<1> USE DEF TypeOK, NoteInv, OneCardInFlight, FingerprintMatchesKeys,
            RecordMatchesLastCard, InFlight
<1>1. CASE Deliver(p)
  BY <1>1 DEF Deliver
<1>2. CASE Commit(p)
  <2>1. note'.fp = <<draft[p].keys>> /\ note'.keys = draft[p].keys
    BY <1>2 DEF Commit, Recorded
  <2>2. QED
    BY <1>2, <2>1 DEF Commit, Finish
<1>3. CASE DeliveryFails(p)
  <2>1. note'.fp = note.fp /\ note'.keys = note.keys
    BY <1>3 DEF DeliveryFails, AfterFailure, Note
  <2>2. QED
    BY <1>3, <2>1 DEF DeliveryFails, Finish
<1>4. CASE Abandon(p)
  BY <1>4 DEF Abandon, Finish
<1>5. QED
  BY <1>1, <1>2, <1>3, <1>4

LEMMA NoteStep == TypeOK /\ NoteInv /\ [Next]_vars => NoteInv'
<1> SUFFICES ASSUME TypeOK, NoteInv, [Next]_vars PROVE NoteInv'
  OBVIOUS
<1>1. ASSUME NEW p \in Poller, Pass(p) \/ Abandon(p)
      PROVE  NoteInv'
  BY <1>1, NoteTrack, NoteDecide, NoteDeliver DEF Pass
<1>2. CASE CleanupHistory \/ Environment \/ UNCHANGED vars
  <2>1. UNCHANGED <<note, announced, drift, draft, pc>>
    BY <1>2 DEF CleanupHistory, Environment, Block, Age, Unblock, ToggleWindow,
                KillSession, MarkManualKill, MarkFails, vars
  <2>2. QED
    BY <2>1, NoteFrame DEF InFlight
<1>3. QED
  BY <1>1, <1>2 DEF Next

LEMMA NoteInvariant == Spec => []NoteInv
<1>1. QED
  BY NoteInit, NoteStep, TypeCorrect, PTL DEF Spec

\* Only one transaction on the state row has a card in flight, for any number
\* of pollers that overlap.
THEOREM CardsSerialised == Spec => []OneCardInFlight
<1>1. NoteInv => OneCardInFlight
  BY DEF NoteInv
<1>2. QED
  BY <1>1, NoteInvariant, PTL

\* last_fingerprint and last_active_keys agree in every reachable state.
THEOREM FingerprintTruth == Spec => []FingerprintMatchesKeys
<1>1. NoteInv => FingerprintMatchesKeys
  BY DEF NoteInv
<1>2. QED
  BY <1>1, NoteInvariant, PTL

\* Outside quiet hours and rollbacks, last_active_keys is what the last
\* delivered card listed, whatever number of deliveries failed in between.
THEOREM RecordTruth == Spec => []RecordMatchesLastCard
<1>1. NoteInv => RecordMatchesLastCard
  BY DEF NoteInv
<1>2. QED
  BY <1>1, NoteInvariant, PTL

\* No summary card repeats the PID pairs of the card before it unless quiet
\* hours or a rollback came between.
THEOREM CardsDiffer == Spec => NoRepeatedCard
<1>1. NoteInv /\ [Next]_vars =>
        [\A p \in Poller :
           pc[p] = "sending" /\ pc'[p] = "sent" /\ draft[p].event # "storm"
             => drift \/ draft[p].keys # announced]_vars
  BY DEF NoteInv
<1>2. QED
  BY <1>1, NoteInvariant, PTL DEF Spec, NoRepeatedCard

-----------------------------------------------------------------------------
(* Storms.  While a reported storm is going on the flag is set, some       *)
(* incident is open and no card is in flight.                              *)

LEMMA StormFrame ==
    ASSUME StormInv, UNCHANGED <<note, stormSaid>>,
           OpenRows # {} => OpenRows' # {},
           \A q \in Poller : InFlight(q)' => InFlight(q) \/ ~stormSaid
    PROVE  StormInv'
  BY DEF StormInv

LEMMA StormTrack ==
    ASSUME TypeOK, StormInv, NEW p \in Poller,
           Fetch(p) \/ Upsert(p) \/ Scan(p) \/ Resolve(p) \/ Label(p)
             \/ ListEligible(p)
    PROVE  StormInv'
<1>1. \A q \in Poller : InFlight(q)' => InFlight(q)
  BY DEF Fetch, Upsert, Scan, Resolve, Label, ListEligible, InFlight, TypeOK
<1>2. CASE Resolve(p)
  <2>1. stormSaid' => stormSaid /\ OpenRows' # {}
    BY <1>2 DEF Resolve, OpenRows
  <2>2. note' = note
    BY <1>2 DEF Resolve
  <2>3. QED
    BY <1>1, <2>1, <2>2 DEF StormInv
<1>3. CASE Upsert(p)
  <2>1. PICK new \in SUBSET (Incident \ DOMAIN alert) :
          /\ DOMAIN alert' = DOMAIN alert \cup new
          /\ \A i \in DOMAIN alert :
               alert'[i] \in {alert[i], [alert[i] EXCEPT !.alerted = TRUE]}
    BY <1>3 DEF Upsert, Refreshed
  <2>2. \A i \in DOMAIN alert : alert'[i].open = alert[i].open
    BY <2>1 DEF TypeOK, Row
  <2>3. OpenRows # {} => OpenRows' # {}
    BY <2>1, <2>2 DEF OpenRows
  <2>4. QED
    BY <1>1, <1>3, <2>3, StormFrame DEF Upsert
<1>4. CASE Label(p)
  <2>1. DOMAIN alert' = DOMAIN alert
    BY <1>4 DEF Label
  <2>2. \A i \in DOMAIN alert : alert'[i].open = alert[i].open
    BY <1>4 DEF Label, TypeOK, Row
  <2>3. OpenRows # {} => OpenRows' # {}
    BY <2>1, <2>2 DEF OpenRows
  <2>4. QED
    BY <1>1, <1>4, <2>3, StormFrame DEF Label
<1>5. CASE Fetch(p) \/ Scan(p) \/ ListEligible(p)
  <2>1. UNCHANGED <<alert, note, stormSaid>>
    BY <1>5 DEF Fetch, Scan, ListEligible
  <2>2. QED
    BY <1>1, <2>1, StormFrame DEF OpenRows
<1>6. QED
  BY <1>2, <1>3, <1>4, <1>5

LEMMA StormNotify ==
    ASSUME TypeOK, OneCardInFlight, StormInv, NEW p \in Poller,
           QuietPass(p) \/ ReportStorm(p) \/ Suppress(p) \/ NoChange(p)
             \/ ReportChange(p) \/ Deliver(p) \/ Commit(p) \/ DeliveryFails(p)
             \/ Abandon(p)
    PROVE  StormInv'
<1>0. alert' = alert /\ OpenRows' = OpenRows
  BY DEF QuietPass, ReportStorm, Suppress, NoChange, ReportChange, Send,
         Deliver, Commit, DeliveryFails, Abandon, OpenRows
<1>1. CASE QuietPass(p)
  BY <1>0, <1>1 DEF QuietPass, Finish, StormInv, InFlight, TypeOK, Note
<1>2. CASE ReportStorm(p)
  BY <1>0, <1>2 DEF ReportStorm, Send, StormInv
<1>3. CASE Suppress(p)
  BY <1>0, <1>3 DEF Suppress, Finish, StormInv, InFlight, TypeOK
<1>4. CASE NoChange(p)
  <2>1. ~stormSaid /\ ~stormSaid'
    BY <1>4 DEF NoChange, StormLasts, StormInv
  <2>2. QED
    BY <2>1 DEF StormInv
<1>5. CASE ReportChange(p)
  <2>1. ~stormSaid /\ ~stormSaid'
    BY <1>5 DEF ReportChange, Send, StormLasts, StormInv
  <2>2. QED
    BY <2>1 DEF StormInv
<1>6. CASE Deliver(p) \/ DeliveryFails(p)
  <2>1. ~stormSaid /\ ~stormSaid'
    BY <1>6 DEF Deliver, DeliveryFails, StormInv, InFlight
  <2>2. QED
    BY <2>1 DEF StormInv
<1>7. CASE Commit(p)
  <2>1. ~stormSaid
    BY <1>7 DEF Commit, StormInv, InFlight
  <2>2. \A q \in Poller : ~InFlight(q)'
    BY <1>7 DEF Commit, Finish, OneCardInFlight, InFlight, TypeOK
  <2>3. stormSaid' => note'.storm /\ OpenRows' # {}
    BY <1>0, <1>7, <2>1 DEF Commit, Recorded
  <2>4. QED
    BY <2>2, <2>3 DEF StormInv
<1>8. CASE Abandon(p)
  BY <1>0, <1>8 DEF Abandon, Finish, StormInv, InFlight, TypeOK
<1>9. QED
  BY <1>1, <1>2, <1>3, <1>4, <1>5, <1>6, <1>7, <1>8

LEMMA StormStep ==
    TypeOK /\ NoteInv /\ StormInv /\ [Next]_vars => StormInv'
<1> SUFFICES ASSUME TypeOK, NoteInv, StormInv, [Next]_vars PROVE StormInv'
  OBVIOUS
<1>1. ASSUME NEW p \in Poller, Pass(p) \/ Abandon(p)
      PROVE  StormInv'
  BY <1>1, StormTrack, StormNotify DEF Pass, NoteInv
<1>2. CASE CleanupHistory
  <2>1. OpenRows \subseteq OpenRows'
    BY <1>2 DEF CleanupHistory, OpenRows, Restrict
  <2>2. QED
    BY <1>2, <2>1, StormFrame DEF CleanupHistory, InFlight
<1>3. CASE Environment
  <2>1. DOMAIN alert' = DOMAIN alert
    BY <1>3 DEF Environment, Block, Age, Unblock, ToggleWindow, KillSession,
                MarkManualKill, MarkFails
  <2>2. \A i \in DOMAIN alert :
          alert'[i] \in {alert[i], [alert[i] EXCEPT !.reason = "manual_kill"]}
    BY <1>3 DEF Environment, Block, Age, Unblock, ToggleWindow, KillSession,
                MarkManualKill, MarkFails
  <2>3. \A i \in DOMAIN alert : alert'[i].open = alert[i].open
    BY <2>2 DEF TypeOK, Row
  <2>4. OpenRows # {} => OpenRows' # {}
    BY <2>1, <2>3 DEF OpenRows
  <2>5. UNCHANGED <<note, stormSaid, pc>>
    BY <1>3 DEF Environment, Block, Age, Unblock, ToggleWindow, KillSession,
                MarkManualKill, MarkFails
  <2>6. QED
    BY <2>4, <2>5, StormFrame DEF InFlight
<1>4. CASE UNCHANGED vars
  BY <1>4, StormFrame DEF vars, InFlight, OpenRows
<1>5. QED
  BY <1>1, <1>2, <1>3, <1>4 DEF Next

LEMMA StormInvariant == Spec => []StormInv
<1>1. Init => StormInv
  BY DEF Init, StormInv, InFlight
<1>2. QED
  BY <1>1, StormStep, TypeCorrect, NoteInvariant, PTL DEF Spec

\* The suppression flag is set for as long as a reported storm has not
\* cleared, through quiet hours, failed deliveries and overlapping pollers.
THEOREM StormFlagTruth == Spec => []StormFlagKept
<1>1. StormInv => StormFlagKept
  BY DEF StormInv, StormFlagKept
<1>2. QED
  BY <1>1, StormInvariant, PTL

\* A storm is reported once: the next storm card is sent only after the table
\* of open incidents has been empty.
THEOREM StormsReportedOnce == Spec => OneStormCardPerStorm
<1>1. StormInv /\ [Next]_vars =>
        [\A p \in Poller :
           pc[p] = "sending" /\ pc'[p] = "sent" /\ draft[p].event = "storm"
             => ~stormSaid]_vars
  BY DEF StormInv, InFlight
<1>2. QED
  BY <1>1, StormInvariant, PTL DEF Spec, OneStormCardPerStorm

-----------------------------------------------------------------------------
(* The refinement of CardLedger.  Only the transaction on the state row    *)
(* and the end of a storm move the ledger; every other step stutters.      *)

LEMMA LedgerStutters ==
    ASSUME UNCHANGED <<announced, drift, stormSaid>>,
           \A q \in Poller : pc[q] = "sent" \/ pc'[q] = "sent"
              => pc'[q] = pc[q] /\ draft'[q] = draft[q]
    PROVE  UNCHANGED Ledger!vars
  BY DEF Ledger!vars, Unrecorded

\* Steps before the transaction, and those in which it sends nothing.
LEMMA LedgerTrack ==
    ASSUME TypeOK, NoteInv, NEW p \in Poller,
           \/ Fetch(p) \/ Upsert(p) \/ Scan(p) \/ Resolve(p) \/ Label(p) \/ ListEligible(p)
           \/ QuietPass(p) \/ ReportStorm(p) \/ Suppress(p) \/ NoChange(p) \/ ReportChange(p)
           \/ DeliveryFails(p)
    PROVE  [Ledger!Next]_(Ledger!vars)
<1>1. \A q \in Poller : pc[q] = "sent" \/ pc'[q] = "sent"
         => pc'[q] = pc[q] /\ draft'[q] = draft[q]
  BY DEF TypeOK, Fetch, Upsert, Scan, Resolve, Label, ListEligible, QuietPass, ReportStorm,
         Suppress, NoChange, ReportChange, DeliveryFails, Deciding, Send, Finish
<1>2. Unrecorded' = Unrecorded
  BY <1>1 DEF Unrecorded
<1>3. CASE Resolve(p)
  <2>1. stormSaid' \in {stormSaid, FALSE}
    BY <1>3 DEF Resolve, TypeOK
  <2>2. UNCHANGED <<announced, drift>>
    BY <1>3 DEF Resolve
  <2>3. Ledger!AllClear \/ UNCHANGED Ledger!vars
    BY <1>2, <2>1, <2>2 DEF Ledger!AllClear, Ledger!vars
  <2>4. QED
    BY <2>3 DEF Ledger!Next
<1>4. CASE QuietPass(p)
  <2>1. Unrecorded = "none"
    BY <1>4 DEF QuietPass, Deciding, RowLocked, Unrecorded
  <2>2. Ledger!Replace
    BY <1>2, <1>4, <2>1 DEF QuietPass, Ledger!Replace
  <2>3. QED
    BY <2>2 DEF Ledger!Next
<1>5. CASE ~Resolve(p) /\ ~QuietPass(p)
  <2>1. UNCHANGED <<announced, drift, stormSaid>>
    BY <1>5 DEF Fetch, Upsert, Scan, Label, ListEligible, ReportStorm, Suppress, NoChange,
                ReportChange, DeliveryFails, Send
  <2>2. QED
    BY <1>1, <2>1, LedgerStutters
<1>6. QED
  BY <1>3, <1>4, <1>5

\* The card goes out, and its transaction commits or is lost.
LEMMA LedgerDeliver ==
    ASSUME TypeOK, NoteInv, StormInv, NEW p \in Poller,
           Deliver(p) \/ Commit(p) \/ Abandon(p)
    PROVE  [Ledger!Next]_(Ledger!vars)
<1>1. CASE Deliver(p)
  <2>1. pc[p] = "sending" /\ (\A q \in Poller : pc[q] # "sent")
    BY <1>1 DEF Deliver, NoteInv, OneCardInFlight
  <2>2. Unrecorded = "none" /\ ~stormSaid
    BY <2>1 DEF Unrecorded, StormInv, InFlight
  <2>3. \A q \in Poller : pc'[q] = "sent" <=> q = p
    BY <1>1, <2>1 DEF Deliver, TypeOK
  <2>4. Unrecorded' = IF draft[p].event = "storm" THEN "storm" ELSE "card"
    BY <1>1, <2>3 DEF Deliver, Unrecorded
  <2>5. announced' = draft[p].keys /\ announced' \in SUBSET Key /\ UNCHANGED <<drift, stormSaid>>
    BY <1>1 DEF Deliver, TypeOK
  <2>6. draft[p].event # "storm" => drift \/ draft[p].keys # announced
    BY <2>1 DEF NoteInv
  <2>7. CASE draft[p].event = "storm"
    <3>1. Ledger!Storm(announced')
      BY <2>2, <2>4, <2>5, <2>7 DEF Ledger!Storm
    <3>2. QED
      BY <2>5, <3>1 DEF Ledger!Next
  <2>8. CASE draft[p].event # "storm"
    <3>1. Ledger!Card(announced')
      BY <2>2, <2>4, <2>5, <2>6, <2>8 DEF Ledger!Card
    <3>2. QED
      BY <2>5, <3>1 DEF Ledger!Next
  <2>9. QED
    BY <2>7, <2>8
<1>2. CASE pc[p] = "sent" /\ (Commit(p) \/ Abandon(p))
  <2>1. \A q \in Poller : pc[q] = "sent" <=> q = p
    BY <1>2 DEF NoteInv, OneCardInFlight
  <2>2. Unrecorded = IF draft[p].event = "storm" THEN "storm" ELSE "card"
    BY <2>1 DEF Unrecorded
  <2>3. \A q \in Poller : pc'[q] # "sent"
    BY <1>2, <2>1 DEF Commit, Abandon, Finish, TypeOK
  <2>4. Unrecorded' = "none"
    BY <2>3 DEF Unrecorded
  <2>5. CASE Commit(p)
    <3>1. drift' = FALSE /\ announced' = announced
      BY <2>5 DEF Commit
    <3>2. stormSaid' \in {stormSaid, stormSaid \/ Unrecorded = "storm"}
      BY <2>2, <2>5 DEF Commit, TypeOK
    <3>3. Ledger!Record
      BY <2>2, <2>4, <3>1, <3>2 DEF Ledger!Record
    <3>4. QED
      BY <3>3 DEF Ledger!Next
  <2>6. CASE Abandon(p)
    <3>1. drift' = TRUE /\ UNCHANGED <<announced, stormSaid>>
      BY <1>2, <2>6 DEF Abandon
    <3>2. Ledger!Lose
      BY <2>2, <2>4, <3>1 DEF Ledger!Lose
    <3>3. QED
      BY <3>2 DEF Ledger!Next
  <2>7. QED
    BY <1>2, <2>5, <2>6
<1>3. CASE pc[p] # "sent" /\ Abandon(p)
  <2>1. \A q \in Poller : pc[q] = "sent" \/ pc'[q] = "sent"
           => pc'[q] = pc[q] /\ draft'[q] = draft[q]
    BY <1>3 DEF Abandon, Finish, TypeOK
  <2>2. drift' = drift
    BY <1>3 DEF Abandon, TypeOK
  <2>3. UNCHANGED <<announced, stormSaid>>
    BY <1>3 DEF Abandon
  <2>4. QED
    BY <2>1, <2>2, <2>3, LedgerStutters
<1>4. QED
  BY <1>1, <1>2, <1>3 DEF Commit

LEMMA LedgerStep ==
    TypeOK /\ NoteInv /\ StormInv /\ [Next]_vars => [Ledger!Next]_(Ledger!vars)
<1> SUFFICES ASSUME TypeOK, NoteInv, StormInv, [Next]_vars PROVE [Ledger!Next]_(Ledger!vars)
  OBVIOUS
<1>1. ASSUME NEW p \in Poller, Pass(p) \/ Abandon(p)
      PROVE  [Ledger!Next]_(Ledger!vars)
  BY <1>1, LedgerTrack, LedgerDeliver DEF Pass
<1>2. CASE CleanupHistory \/ Environment \/ UNCHANGED vars
  <2>1. UNCHANGED <<announced, drift, stormSaid, draft, pc>>
    BY <1>2 DEF CleanupHistory, Environment, Block, Age, Unblock, ToggleWindow,
                KillSession, MarkManualKill, MarkFails, vars
  <2>2. QED
    BY <2>1, LedgerStutters
<1>3. QED
  BY <1>1, <1>2 DEF Next

\* For any number of pollers, the cards the passes send are those of the ledger:
\* none repeats the one before unless the record was lost, none follows a storm
\* before it has cleared, and none overtakes the record of the last one.
THEOREM LedgerImplemented == Spec => ImplementsCardLedger
<1>1. Init => Ledger!Init
  BY DEF Init, Ledger!Init, Unrecorded
<1>2. QED
  BY <1>1, LedgerStep, TypeCorrect, NoteInvariant, StormInvariant, PTL
     DEF Spec, ImplementsCardLedger, Ledger!Spec

-----------------------------------------------------------------------------
(* The incident table.                                                     *)

\* What any step does to the table: rows that stay keep their key, are never
\* reopened and never lose the name of the operator, and rows that become open
\* have pairwise different keys that no open row had.
RowsEvolve ==
    /\ \A i \in DOMAIN alert \cap DOMAIN alert' :
         /\ alert'[i].key = alert[i].key
         /\ alert'[i].open => alert[i].open
         /\ alert[i].reason = "manual_kill" => alert'[i].reason = "manual_kill"
    /\ \A i \in DOMAIN alert' \ DOMAIN alert :
         /\ alert'[i].key \notin OpenKeys
         /\ \A j \in DOMAIN alert' \ DOMAIN alert :
              alert'[i].key = alert'[j].key => i = j

LEMMA RowsStep == TypeOK /\ [Next]_vars => RowsEvolve
<1> SUFFICES ASSUME TypeOK, [Next]_vars PROVE RowsEvolve
  OBVIOUS
<1> USE DEF RowsEvolve
<1>1. ASSUME UNCHANGED alert PROVE RowsEvolve
  BY <1>1
<1>2. ASSUME NEW p \in Poller, Upsert(p) PROVE RowsEvolve
  <2>1. PICK new \in SUBSET (Incident \ DOMAIN alert) :
        \E keyOf \in Bijection(new, Missing(p)) :
          alert' = [i \in DOMAIN alert \cup new |->
                     IF i \in new
                     THEN [key |-> keyOf[i], open |-> TRUE,
                           alerted |-> keyOf[i] \in due[p], reason |-> ""]
                     ELSE Refreshed(p, alert[i])]
    BY <1>2 DEF Upsert
  <2>2. PICK keyOf \in Bijection(new, Missing(p)) :
          alert' = [i \in DOMAIN alert \cup new |->
                     IF i \in new
                     THEN [key |-> keyOf[i], open |-> TRUE,
                           alerted |-> keyOf[i] \in due[p], reason |-> ""]
                     ELSE Refreshed(p, alert[i])]
    BY <2>1
  <2> HIDE <2>1
  <2>a. DOMAIN alert' = DOMAIN alert \cup new
    BY <2>2
  <2>b. ASSUME NEW i \in new PROVE alert'[i].key = keyOf[i]
    <3>1. alert'[i] = [key |-> keyOf[i], open |-> TRUE,
                       alerted |-> keyOf[i] \in due[p], reason |-> ""]
      BY <2>2
    <3>2. [key |-> keyOf[i], open |-> TRUE, alerted |-> keyOf[i] \in due[p],
           reason |-> ""].key = keyOf[i]
      OBVIOUS
    <3>3. QED
      BY <3>1, <3>2, Zenon
  <2>c. \A i \in DOMAIN alert :
          alert'[i] \in {alert[i], [alert[i] EXCEPT !.alerted = TRUE]}
    BY <2>2 DEF Refreshed
  <2>3. /\ keyOf \in [new -> Missing(p)]
        /\ \A i, j \in new : keyOf[i] = keyOf[j] => i = j
    BY DEF Bijection, Injection, IsInjective
  <2>4. \A i \in new : keyOf[i] \notin OpenKeys
    BY <2>3 DEF Missing
  <2>5. \A i \in DOMAIN alert : /\ alert'[i].key = alert[i].key
                                /\ alert'[i].open = alert[i].open
                                /\ alert'[i].reason = alert[i].reason
    <3>1. ASSUME NEW i \in DOMAIN alert
          PROVE  LET r == [alert[i] EXCEPT !.alerted = TRUE] IN
                 r.key = alert[i].key /\ r.open = alert[i].open /\ r.reason = alert[i].reason
      <4>1. alert[i] \in Row
        BY DEF TypeOK
      <4>2. QED
        BY <4>1 DEF Row
    <3>2. QED
      BY <2>c, <3>1
  <2>6. QED
    BY <2>a, <2>b, <2>3, <2>4, <2>5
<1>3. ASSUME NEW p \in Poller, Resolve(p) PROVE RowsEvolve
  <2>1. DOMAIN alert' = DOMAIN alert
    BY <1>3 DEF Resolve
  <2>2. \A i \in DOMAIN alert :
          alert'[i] \in {alert[i], [alert[i] EXCEPT !.open = FALSE]}
    BY <1>3 DEF Resolve
  <2>3. \A i \in DOMAIN alert : /\ alert'[i].key = alert[i].key
                                /\ alert'[i].open => alert[i].open
                                /\ alert'[i].reason = alert[i].reason
    BY <2>2 DEF TypeOK, Row
  <2>4. QED
    BY <2>1, <2>3
<1>4. ASSUME NEW p \in Poller, Label(p) PROVE RowsEvolve
  <2>1. DOMAIN alert' = DOMAIN alert
    BY <1>4 DEF Label
  <2>2. ASSUME NEW i \in DOMAIN alert
        PROVE  /\ alert'[i].key = alert[i].key
               /\ alert'[i].open => alert[i].open
               /\ alert[i].reason = "manual_kill" => alert'[i].reason = "manual_kill"
    <3>1. CASE alert'[i] = alert[i]
      BY <3>1
    <3>2. CASE alert'[i] = [alert[i] EXCEPT !.reason = AutoReason(alert[i].reason)]
      <4>1. /\ alert'[i].key = alert[i].key
            /\ alert'[i].open = alert[i].open
            /\ alert'[i].reason = AutoReason(alert[i].reason)
        BY <3>2 DEF TypeOK, Row
      <4>2. QED
        BY <4>1 DEF AutoReason
    <3>3. QED
      BY <1>4, <3>1, <3>2 DEF Label
  <2>3. QED
    BY <2>1, <2>2
<1>5. ASSUME NEW pid \in Killable, MarkManualKill(pid) PROVE RowsEvolve
  <2>1. DOMAIN alert' = DOMAIN alert
    BY <1>5 DEF MarkManualKill
  <2>2. \A i \in DOMAIN alert :
          alert'[i] \in {alert[i], [alert[i] EXCEPT !.reason = "manual_kill"]}
    BY <1>5 DEF MarkManualKill
  <2>3. \A i \in DOMAIN alert :
          /\ alert'[i].key = alert[i].key
          /\ alert'[i].open => alert[i].open
          /\ alert[i].reason = "manual_kill" => alert'[i].reason = "manual_kill"
    BY <2>2 DEF TypeOK, Row
  <2>4. QED
    BY <2>1, <2>3
<1>6. CASE CleanupHistory
  BY <1>6 DEF CleanupHistory, Restrict
<1>7. ASSUME NEW p \in Poller, Pass(p) \/ Abandon(p) PROVE RowsEvolve
  BY <1>1, <1>2, <1>3, <1>4, <1>7
     DEF Pass, Fetch, Scan, ListEligible, QuietPass, ReportStorm, Suppress,
         NoChange, ReportChange, Send, Deliver, Commit, DeliveryFails, Abandon
<1>8. CASE Environment
  BY <1>1, <1>5, <1>8
     DEF Environment, Block, Age, Unblock, ToggleWindow, KillSession, MarkFails
<1>9. CASE UNCHANGED vars
  BY <1>1, <1>9 DEF vars
<1>10. QED
  BY <1>6, <1>7, <1>8, <1>9 DEF Next

\* However many passes upsert at once and whatever is resolved or deleted in
\* between, a PID pair never has two open incidents.
THEOREM OneIncidentPerLock == Spec => []OneOpenIncidentPerKey
<1>1. Init => OneOpenIncidentPerKey
  BY DEF Init, OneOpenIncidentPerKey, OpenRows
<1>2. RowsEvolve /\ OneOpenIncidentPerKey => OneOpenIncidentPerKey'
  BY DEF RowsEvolve, OneOpenIncidentPerKey, OpenRows, OpenKeys, KeysOf
<1>3. QED
  BY <1>1, <1>2, RowsStep, TypeCorrect, PTL DEF Spec

\* The name of the operator who killed a session is never overwritten by a
\* pass that clears the incident from an older copy of the row.
THEOREM AttributionKept == Spec => ManualKillSticks
<1>1. RowsEvolve =>
        [\A i \in DOMAIN alert \cap DOMAIN alert' :
           alert[i].reason = "manual_kill" => alert'[i].reason = "manual_kill"]_vars
  BY DEF RowsEvolve
<1>2. QED
  BY <1>1, RowsStep, TypeCorrect, PTL DEF Spec, ManualKillSticks

\* A resolved incident is never reopened and a row never changes its PID pair.
THEOREM ResolutionFinal == Spec => ResolvedIsFinal
<1>1. RowsEvolve =>
        [\A i \in DOMAIN alert \cap DOMAIN alert' :
           alert'[i].open => alert[i].open /\ alert'[i].key = alert[i].key]_vars
  BY DEF RowsEvolve
<1>2. QED
  BY <1>1, RowsStep, TypeCorrect, PTL DEF Spec, ResolvedIsFinal
=============================================================================
