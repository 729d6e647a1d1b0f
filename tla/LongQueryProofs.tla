--------------------------- MODULE LongQueryProofs ---------------------------
(***************************************************************************)
(* Theorems about LongQuery, for any executions, rows, pollers and number  *)
(* of webhooks.                                                            *)
(***************************************************************************)
EXTENDS LongQuery, TLAPS

\* The inductive invariant.  Beside the two properties it says where a pass may
\* hold an accepted card (from the first webhook to the marker), that its rows
\* are then on what that webhook accepted, and that neither the copies of a pass
\* nor the history names a row that cleanup deleted.
AlertInv ==
    /\ TypeOK
    /\ \A p \in Poller : new[p] \subseteq DOMAIN row
    /\ \A h \in 1..Webhooks : got[h] \subseteq DOMAIN row
    /\ \A p \in Poller : IF pc[p] = "posting" THEN hook[p] < Webhooks
                                              ELSE hook[p] = 0
    /\ \A p \in Poller : delivered[p] =>
         /\ pc[p] \in {"posting", "marking"}
         /\ \E h \in 1..Webhooks : new[p] \subseteq got[h]
    /\ AlertedMeansSent
    /\ SentIsMarked

\* What Closed leaves: the same rows, with the same keys and markers, none opened.
LEMMA ClosedRows ==
    ASSUME row \in [DOMAIN row -> Row], NEW ids
    PROVE  /\ Closed(ids) \in [DOMAIN row -> Row]
           /\ \A i \in DOMAIN row :
                /\ Closed(ids)[i].key = row[i].key
                /\ Closed(ids)[i].alerted = row[i].alerted
                /\ Closed(ids)[i].open => row[i].open
<1>1. ASSUME NEW i \in DOMAIN row
      PROVE  [row[i] EXCEPT !.open = FALSE] \in Row
  <2>1. row[i] \in Row
    OBVIOUS
  <2>2. QED
    BY <2>1 DEF Row
<1>2. Closed(ids) \in [DOMAIN row -> Row]
  BY <1>1 DEF Closed
<1>3. ASSUME NEW i \in DOMAIN row
      PROVE  /\ Closed(ids)[i].key = row[i].key
             /\ Closed(ids)[i].alerted = row[i].alerted
             /\ Closed(ids)[i].open => row[i].open
  <2>1. row[i] \in Row
    OBVIOUS
  <2>2. QED
    BY <2>1 DEF Closed, Row
<1>4. QED
  BY <1>2, <1>3

\* What a lookup leaves: the rows there were, and possibly a new one.
LEMMA TrackedRows ==
    ASSUME TypeOK, NEW p \in Poller, Track(p)
    PROVE  \E e \in Execution, i \in Alert :
             /\ new' = [new EXCEPT ![p] = IF Fresh(i) THEN @ \cup {i} ELSE @]
             /\ DOMAIN row' = DOMAIN row \cup {i}
             /\ row' \in [DOMAIN row' -> Row]
             /\ \A j \in DOMAIN row : row'[j] = row[j]
             /\ i \notin DOMAIN row =>
                  /\ row'[i] = [key |-> e, open |-> TRUE, alerted |-> FALSE]
                  /\ RowsOf(e) = {}
<1>1. PICK e \in todo[p] :
        \E i \in (IF RowsOf(e) = {} THEN Alert \ DOMAIN row ELSE RowsOf(e)) :
          /\ row' = IF i \in DOMAIN row THEN row
                    ELSE [j \in DOMAIN row \cup {i} |->
                            IF j = i THEN [key |-> e, open |-> TRUE,
                                           alerted |-> FALSE]
                                     ELSE row[j]]
          /\ new' = [new EXCEPT ![p] = IF Fresh(i) THEN @ \cup {i} ELSE @]
  BY DEF Track
<1>2. PICK i \in (IF RowsOf(e) = {} THEN Alert \ DOMAIN row ELSE RowsOf(e)) :
          /\ row' = IF i \in DOMAIN row THEN row
                    ELSE [j \in DOMAIN row \cup {i} |->
                            IF j = i THEN [key |-> e, open |-> TRUE,
                                           alerted |-> FALSE]
                                     ELSE row[j]]
          /\ new' = [new EXCEPT ![p] = IF Fresh(i) THEN @ \cup {i} ELSE @]
  BY <1>1
<1>3. e \in Execution /\ row \in [DOMAIN row -> Row] /\ DOMAIN row \subseteq Alert
  BY DEF TypeOK
<1>4. i \in Alert /\ (i \notin DOMAIN row => RowsOf(e) = {})
  BY <1>3 DEF RowsOf, OpenRows
<1>5. [key |-> e, open |-> TRUE, alerted |-> FALSE] \in Row
  BY <1>3 DEF Row
<1>6. CASE i \in DOMAIN row
  <2>1. row' = row /\ DOMAIN row' = DOMAIN row \cup {i}
    BY <1>2, <1>6
  <2>2. QED
    BY <2>1, <1>2, <1>3, <1>4, <1>6
<1>7. CASE i \notin DOMAIN row
  <2>1. row' = [j \in DOMAIN row \cup {i} |->
                  IF j = i THEN [key |-> e, open |-> TRUE, alerted |-> FALSE]
                           ELSE row[j]]
    BY <1>2, <1>7
  <2>2. /\ DOMAIN row' = DOMAIN row \cup {i}
        /\ row' \in [DOMAIN row' -> Row]
        /\ \A j \in DOMAIN row : row'[j] = row[j]
        /\ row'[i] = [key |-> e, open |-> TRUE, alerted |-> FALSE]
    BY <2>1, <1>3, <1>5, <1>7
  <2>3. QED
    BY <2>2, <1>2, <1>3, <1>4
<1>8. QED
  BY <1>6, <1>7

LEMMA AlertInit == Init => AlertInv
  BY WebhooksAssumption
     DEF Init, AlertInv, TypeOK, AlertedMeansSent, SentIsMarked, Stage, PC

LEMMA AlertStep == AlertInv /\ [Next]_vars => AlertInv'
<1> SUFFICES ASSUME AlertInv, [Next]_vars PROVE AlertInv'
  OBVIOUS
<1> USE WebhooksAssumption
<1>t. TypeOK /\ row \in [DOMAIN row -> Row]
  BY DEF AlertInv, TypeOK
<1>1. ASSUME NEW p \in Poller, Fetch(p) PROVE AlertInv'
  BY <1>1 DEF Fetch, AlertInv, TypeOK, AlertedMeansSent, SentIsMarked, PC, Long, history
<1>2. ASSUME NEW p \in Poller, NEW ids, row' = Closed(ids), Finish(p),
             ~delivered[p], UNCHANGED <<query, enabled, window, history>>
      PROVE  AlertInv'
  <2>1. /\ row' \in [DOMAIN row' -> Row] /\ DOMAIN row' = DOMAIN row
        /\ \A i \in DOMAIN row : row'[i].alerted = row[i].alerted
    BY <1>t, <1>2, ClosedRows DEF Closed
  <2>2. TypeOK'
    BY <1>t, <1>2, <2>1 DEF Finish, TypeOK, PC, history
  <2>3. /\ new' = [new EXCEPT ![p] = {}] /\ new \in [Poller -> SUBSET Alert]
        /\ delivered' = [delivered EXCEPT ![p] = FALSE]
        /\ delivered \in [Poller -> BOOLEAN]
        /\ got' = got /\ lost' = lost
    BY <1>t, <1>2 DEF Finish, TypeOK, history
  <2>4. \A q \in Poller : delivered'[q] => q # p /\ delivered[q] /\ new'[q] = new[q]
    BY <2>3
  <2>5. AlertedMeansSent'
    BY <2>1, <2>3 DEF AlertInv, AlertedMeansSent
  <2>6. SentIsMarked'
    <3>1. SUFFICES ASSUME NEW h \in 1..Webhooks, NEW j \in got[h]
                   PROVE  \/ row'[j].alerted
                          \/ j \in lost
                          \/ \E q \in Poller : j \in new'[q] /\ delivered'[q]
      BY <2>3 DEF SentIsMarked
    <3>2. j \in DOMAIN row /\ row'[j].alerted = row[j].alerted
      BY <2>1 DEF AlertInv
    <3>3. \A q \in Poller : delivered[q] => delivered'[q] /\ new'[q] = new[q]
      BY <1>2, <2>3
    <3>4. QED
      BY <3>2, <3>3 DEF AlertInv, SentIsMarked
  <2>7. \A q \in Poller : new'[q] \subseteq DOMAIN row'
    BY <2>1, <2>3 DEF AlertInv
  <2>8. \A q \in Poller : IF pc'[q] = "posting" THEN hook'[q] < Webhooks
                                                ELSE hook'[q] = 0
    BY <1>t, <1>2 DEF Finish, AlertInv, TypeOK
  <2>9. \A q \in Poller : delivered'[q] =>
          /\ pc'[q] \in {"posting", "marking"}
          /\ \E h \in 1..Webhooks : new'[q] \subseteq got'[h]
    BY <1>t, <1>2, <2>3, <2>4 DEF Finish, AlertInv, TypeOK
  <2>10. \A h \in 1..Webhooks : got'[h] \subseteq DOMAIN row'
    BY <2>1, <2>3 DEF AlertInv
  <2>11. QED
    BY <2>2, <2>5, <2>6, <2>7, <2>8, <2>9, <2>10 DEF AlertInv
<1>3. ASSUME NEW p \in Poller, ResolveAll(p) PROVE AlertInv'
  <2>1. ~delivered[p]
    BY <1>3 DEF ResolveAll, AlertInv
  <2>2. QED
    BY <1>2, <1>3, <2>1 DEF ResolveAll
<1>4. ASSUME NEW p \in Poller, Track(p) PROVE AlertInv'
  <2>1. PICK e \in Execution, i \in Alert :
             /\ new' = [new EXCEPT ![p] = IF Fresh(i) THEN @ \cup {i} ELSE @]
             /\ DOMAIN row' = DOMAIN row \cup {i}
             /\ row' \in [DOMAIN row' -> Row]
             /\ \A j \in DOMAIN row : row'[j] = row[j]
             /\ i \notin DOMAIN row =>
                  /\ row'[i] = [key |-> e, open |-> TRUE, alerted |-> FALSE]
                  /\ RowsOf(e) = {}
    BY <1>t, <1>4, TrackedRows
  <2>2. ~delivered[p]
    BY <1>4 DEF Track, AlertInv
  <2>3. UNCHANGED <<query, enabled, window, pc, open, seen, hook, delivered, history>>
    BY <1>4 DEF Track
  <2>4. todo' \in [Poller -> SUBSET Execution]
    BY <1>4, <1>t DEF Track, TypeOK
  <2>5. /\ new' \in [Poller -> SUBSET Alert]
        /\ \A q \in Poller : new'[q] \subseteq DOMAIN row'
    BY <2>1, <1>t DEF AlertInv, TypeOK
  <2>6. TypeOK'
    BY <2>1, <2>3, <2>4, <2>5, <1>t DEF TypeOK, history
  <2>7. AlertedMeansSent'
    BY <2>1, <2>3 DEF AlertInv, AlertedMeansSent, history
  <2>8. SentIsMarked'
    <3>1. SUFFICES ASSUME NEW h \in 1..Webhooks, NEW j \in got[h]
                   PROVE  \/ row'[j].alerted
                          \/ j \in lost
                          \/ \E q \in Poller : j \in new'[q] /\ delivered[q]
      BY <2>3 DEF SentIsMarked, history
    <3>2. j \in DOMAIN row /\ row'[j] = row[j]
      BY <2>1 DEF AlertInv
    <3>3. \A q \in Poller : delivered[q] => new'[q] = new[q]
      BY <2>1, <2>2, <1>t DEF TypeOK
    <3>4. QED
      BY <3>2, <3>3 DEF AlertInv, SentIsMarked
  <2>9. \A q \in Poller : delivered[q] => new'[q] = new[q]
    BY <2>1, <2>2, <1>t DEF TypeOK
  <2>10. QED
    BY <2>1, <2>3, <2>5, <2>6, <2>7, <2>8, <2>9 DEF AlertInv, history
<1>5. ASSUME NEW p \in Poller, ResolveEnded(p) PROVE AlertInv'
  <2>1. ~delivered[p] /\ hook[p] \in Nat
    BY <1>5 DEF ResolveEnded, AlertInv, TypeOK
  <2>2. PICK ids : row' = Closed(ids)
    BY <1>5 DEF ResolveEnded
  <2>3. CASE Finish(p)
    BY <1>2, <1>5, <2>1, <2>2, <2>3 DEF ResolveEnded
  <2>4. CASE /\ Webhooks > 0
             /\ pc' = [pc EXCEPT ![p] = "posting"]
             /\ UNCHANGED <<open, todo, seen, new, hook, delivered>>
    <3>1. /\ row' \in [DOMAIN row' -> Row] /\ DOMAIN row' = DOMAIN row
          /\ \A i \in DOMAIN row : row'[i].alerted = row[i].alerted
      BY <1>t, <2>2, ClosedRows DEF Closed
    <3>2. hook[p] = 0
      BY <1>5 DEF ResolveEnded, AlertInv
    <3>3. UNCHANGED <<query, enabled, window, history>>
      BY <1>5 DEF ResolveEnded
    <3>4. QED
      BY <2>1, <2>4, <3>1, <3>2, <3>3
         DEF AlertInv, TypeOK, AlertedMeansSent, SentIsMarked, PC, history
  <2>5. QED
    BY <1>5, <2>3, <2>4 DEF ResolveEnded
<1>6. ASSUME NEW p \in Poller, Post(p) PROVE AlertInv'
  <2> DEFINE h == hook[p] + 1
  <2>1. h \in 1..Webhooks /\ pc[p] = "posting"
    BY <1>6 DEF Post, AlertInv, TypeOK
  <2>2. PICK accepted \in BOOLEAN :
          /\ got' = IF accepted THEN [got EXCEPT ![h] = @ \cup new[p]] ELSE got
          /\ delivered' = [delivered EXCEPT ![p] = @ \/ accepted]
    BY <1>6 DEF Post
  <2>3. UNCHANGED <<query, enabled, window, row, open, todo, seen, new, lost>>
    BY <1>6 DEF Post
  <2>4. /\ \A g \in 1..Webhooks : got[g] \subseteq got'[g]
        /\ \A g \in 1..Webhooks : got'[g] \subseteq got[g] \cup new[p]
        /\ got' \in [1..Webhooks -> SUBSET Alert]
        /\ accepted => new[p] \subseteq got'[h]
        /\ ~accepted => got' = got
    BY <1>t, <2>1, <2>2 DEF TypeOK
  <2>5. /\ delivered' \in [Poller -> BOOLEAN]
        /\ \A q \in Poller : q # p => delivered'[q] = delivered[q]
        /\ delivered'[p] = (delivered[p] \/ accepted)
    BY <1>t, <2>2 DEF TypeOK
  <2>6. \/ /\ Last(h)
           /\ hook' = [hook EXCEPT ![p] = 0]
           /\ pc' = [pc EXCEPT ![p] = "marking"]
        \/ ~Last(h) /\ hook' = [hook EXCEPT ![p] = h] /\ pc' = pc
    BY <1>6 DEF Post
  <2>7. /\ hook' \in [Poller -> 0..Webhooks] /\ pc' \in [Poller -> PC]
        /\ \A q \in Poller : IF pc'[q] = "posting" THEN hook'[q] < Webhooks
                                                    ELSE hook'[q] = 0
        /\ \A q \in Poller : q # p => pc'[q] = pc[q]
        /\ pc'[p] \in {"posting", "marking"}
    <3>1. h \in 0..Webhooks /\ (h # Webhooks => h < Webhooks)
      BY <2>1
    <3>2. /\ hook \in [Poller -> 0..Webhooks] /\ pc \in [Poller -> PC]
          /\ 0 \in 0..Webhooks /\ "marking" \in PC /\ "marking" # "posting"
      BY <1>t DEF TypeOK, PC
    <3>3. \A q \in Poller : IF pc[q] = "posting" THEN hook[q] < Webhooks
                                                 ELSE hook[q] = 0
      BY DEF AlertInv
    <3>4. CASE /\ hook' = [hook EXCEPT ![p] = 0]
               /\ pc' = [pc EXCEPT ![p] = "marking"]
      BY <3>2, <3>3, <3>4
    <3>5. CASE h # Webhooks /\ hook' = [hook EXCEPT ![p] = h] /\ pc' = pc
      <4> HIDE DEF h
      <4>1. QED
        BY <2>1, <3>1, <3>2, <3>3, <3>5
    <3>6. QED
      BY <2>6, <3>4, <3>5 DEF Last
  <2>8. TypeOK'
    BY <1>t, <2>3, <2>4, <2>5, <2>7 DEF TypeOK
  <2>9. \A q \in Poller : delivered'[q] =>
          /\ pc'[q] \in {"posting", "marking"}
          /\ \E g \in 1..Webhooks : new'[q] \subseteq got'[g]
    <3>1. SUFFICES ASSUME NEW q \in Poller, delivered'[q]
                   PROVE  /\ pc'[q] \in {"posting", "marking"}
                          /\ \E g \in 1..Webhooks : new[q] \subseteq got'[g]
      BY <2>3
    <3>2. CASE delivered[q]
      BY <2>4, <2>7, <3>2 DEF AlertInv
    <3>3. CASE ~delivered[q]
      BY <2>1, <2>4, <2>5, <2>7, <3>1, <3>3
    <3>4. QED
      BY <3>2, <3>3
  <2>10. AlertedMeansSent'
    BY <2>3, <2>4 DEF AlertInv, AlertedMeansSent
  <2>11. SentIsMarked'
    <3>1. SUFFICES ASSUME NEW g \in 1..Webhooks, NEW j \in got'[g]
                   PROVE  \/ row[j].alerted
                          \/ j \in lost
                          \/ \E q \in Poller : j \in new[q] /\ delivered'[q]
      BY <2>3 DEF SentIsMarked
    <3>2. CASE j \in got[g]
      <4>1. \A q \in Poller : delivered[q] => delivered'[q]
        BY <2>5
      <4>2. QED
        BY <3>2, <4>1 DEF AlertInv, SentIsMarked
    <3>3. CASE j \notin got[g]
      BY <2>4, <2>5, <3>1, <3>3
    <3>4. QED
      BY <3>2, <3>3
  <2>12. QED
    BY <2>3, <2>4, <2>7, <2>8, <2>9, <2>10, <2>11 DEF AlertInv
<1>7. ASSUME NEW p \in Poller, Mark(p) PROVE AlertInv'
  <2>1. row' = [i \in DOMAIN row |->
                  IF delivered[p] /\ i \in new[p]
                  THEN [row[i] EXCEPT !.alerted = TRUE] ELSE row[i]]
    BY <1>7 DEF Mark, Sent
  <2>2. ASSUME NEW i \in DOMAIN row
        PROVE  /\ row'[i] \in Row
               /\ row'[i].alerted <=> row[i].alerted \/ (delivered[p] /\ i \in new[p])
    <3>1. row[i] \in Row
      BY <1>t
    <3>2. [row[i] EXCEPT !.alerted = TRUE] \in Row
      BY <3>1 DEF Row
    <3>3. [row[i] EXCEPT !.alerted = TRUE].alerted
      BY <3>1 DEF Row
    <3>4. QED
      BY <2>1, <3>1, <3>2, <3>3
  <2>3. DOMAIN row' = DOMAIN row /\ row' \in [DOMAIN row' -> Row]
    BY <2>1, <2>2
  <2>4. /\ UNCHANGED <<query, enabled, window>> /\ got' = got /\ lost' = lost
        /\ new' = [new EXCEPT ![p] = {}] /\ new \in [Poller -> SUBSET Alert]
        /\ delivered' = [delivered EXCEPT ![p] = FALSE]
        /\ delivered \in [Poller -> BOOLEAN]
    BY <1>t, <1>7 DEF Mark, Finish, TypeOK, history
  <2>5. TypeOK'
    BY <1>t, <1>7, <2>3, <2>4 DEF Mark, Finish, TypeOK, PC
  <2>6. AlertedMeansSent'
    BY <2>2, <2>3, <2>4 DEF AlertInv, AlertedMeansSent
  <2>7. SentIsMarked'
    <3>1. SUFFICES ASSUME NEW h \in 1..Webhooks, NEW j \in got[h]
                   PROVE  \/ row'[j].alerted
                          \/ j \in lost
                          \/ \E q \in Poller : j \in new'[q] /\ delivered'[q]
      BY <2>4 DEF SentIsMarked
    <3>2. j \in DOMAIN row
      BY DEF AlertInv
    <3>3. \/ row[j].alerted
          \/ j \in lost
          \/ \E q \in Poller : j \in new[q] /\ delivered[q]
      BY DEF AlertInv, SentIsMarked
    <3>4. ASSUME NEW q \in Poller, j \in new[q], delivered[q], q # p
          PROVE  j \in new'[q] /\ delivered'[q]
      BY <2>4, <3>4
    <3>5. QED
      BY <2>2, <3>2, <3>3, <3>4
  <2>8. /\ \A q \in Poller : new'[q] \subseteq DOMAIN row'
        /\ \A q \in Poller : delivered'[q] => delivered[q] /\ new'[q] = new[q] /\ q # p
    BY <2>3, <2>4 DEF AlertInv
  <2>9. \A q \in Poller : IF pc'[q] = "posting" THEN hook'[q] < Webhooks
                                                ELSE hook'[q] = 0
    BY <1>t, <1>7 DEF Mark, Finish, AlertInv, TypeOK
  <2>10. \A q \in Poller : q # p => pc'[q] = pc[q]
    BY <1>t, <1>7 DEF Mark, Finish, TypeOK
  <2>11. QED
    BY <2>3, <2>4, <2>5, <2>6, <2>7, <2>8, <2>9, <2>10 DEF AlertInv
<1>8. ASSUME NEW p \in Poller, Abandon(p) PROVE AlertInv'
  BY <1>8 DEF Abandon, Finish, AlertInv, TypeOK, AlertedMeansSent, SentIsMarked, PC
<1>9. ASSUME NEW e, NEW from, NEW to \in Stage, Advance(e, from, to)
      PROVE  AlertInv'
  BY <1>9
     DEF Advance, AlertInv, TypeOK, AlertedMeansSent, SentIsMarked, passVars, history
<1>10. CASE ToggleWindow \/ ToggleAlerts
  <2>1. window' \in BOOLEAN /\ enabled' \in BOOLEAN
    BY <1>t, <1>10 DEF ToggleWindow, ToggleAlerts, TypeOK
  <2>2. UNCHANGED <<query, row, passVars, history>>
    BY <1>10 DEF ToggleWindow, ToggleAlerts
  <2>3. QED
    BY <2>1, <2>2
       DEF AlertInv, TypeOK, AlertedMeansSent, SentIsMarked, passVars, history
<1>11. CASE CleanupHistory
  <2>1. PICK old \in SUBSET (DOMAIN row \ (OpenRows \cup UNION Range(new))) :
          /\ row' = Restrict(row, DOMAIN row \ old)
          /\ got' = [h \in 1..Webhooks |-> got[h] \ old]
          /\ lost' = lost \ old
    BY <1>11 DEF CleanupHistory
  <2>2. UNCHANGED <<query, enabled, window, passVars>>
    BY <1>11 DEF CleanupHistory
  <2>3. /\ DOMAIN row' = DOMAIN row \ old
        /\ row' \in [DOMAIN row' -> Row]
        /\ \A i \in DOMAIN row' : row'[i] = row[i]
    BY <1>t, <2>1 DEF Restrict
  <2>4. \A q \in Poller : new[q] \cap old = {}
    BY <1>t, <2>1 DEF Range, TypeOK
  <2>5. got' \in [1..Webhooks -> SUBSET Alert] /\ lost' \subseteq Alert
    BY <1>t, <2>1 DEF TypeOK
  <2>6. TypeOK'
    BY <1>t, <2>2, <2>3, <2>5 DEF TypeOK, passVars
  <2>7. /\ AlertedMeansSent'
        /\ SentIsMarked'
    <3>1. got' = [h \in 1..Webhooks |-> got[h] \ old]
      BY <2>1
    <3>2. AlertedMeansSent'
      <4>1. SUFFICES ASSUME NEW i \in DOMAIN row', row'[i].alerted
                     PROVE  \E h \in 1..Webhooks : i \in got'[h]
        BY DEF AlertedMeansSent
      <4>2. i \in DOMAIN row /\ i \notin old /\ row[i].alerted
        BY <2>3, <4>1
      <4>3. QED
        BY <3>1, <4>2 DEF AlertInv, AlertedMeansSent
    <3>3. SentIsMarked'
      <4>1. SUFFICES ASSUME NEW h \in 1..Webhooks, NEW j \in got'[h]
                     PROVE  \/ row'[j].alerted
                            \/ j \in lost'
                            \/ \E q \in Poller : j \in new[q] /\ delivered[q]
        BY <2>2 DEF SentIsMarked, passVars
      <4>2. j \in got[h] /\ j \notin old /\ j \in DOMAIN row
        BY <3>1, <4>1 DEF AlertInv
      <4>3. row'[j] = row[j]
        BY <2>3, <4>2
      <4>4. \/ row[j].alerted
            \/ j \in lost
            \/ \E q \in Poller : j \in new[q] /\ delivered[q]
        BY <4>2 DEF AlertInv, SentIsMarked
      <4>5. j \in lost => j \in lost'
        BY <2>1, <4>2
      <4>6. QED
        BY <4>3, <4>4, <4>5
    <3>4. QED
      BY <3>2, <3>3
  <2>8. /\ \A h \in 1..Webhooks : got'[h] \subseteq DOMAIN row'
        /\ \A q \in Poller : new[q] \subseteq DOMAIN row'
        /\ \A q \in Poller, h \in 1..Webhooks :
             new[q] \subseteq got[h] => new[q] \subseteq got'[h]
    BY <2>1, <2>3, <2>4 DEF AlertInv
  <2>9. QED
    BY <2>2, <2>6, <2>7, <2>8 DEF AlertInv, passVars
<1>12. CASE UNCHANGED vars
  BY <1>12 DEF vars, passVars, history, AlertInv, TypeOK, AlertedMeansSent, SentIsMarked
<1>13. QED
  BY <1>1, <1>3, <1>4, <1>5, <1>6, <1>7, <1>8, <1>9, <1>10, <1>11, <1>12
     DEF Next, Pass, Begin, Lengthen, End, Stage
-----------------------------------------------------------------------------
\* Every variable keeps its type, whatever the passes interleave with.
THEOREM AlertTypes == Spec => []TypeOK
<1>1. AlertInv => TypeOK
  BY DEF AlertInv
<1>2. QED
  BY AlertInit, AlertStep, <1>1, PTL DEF Spec

\* The marker alerted_at is only on rows that some webhook accepted: a failed
\* delivery never uses an alert up.
THEOREM MarkerTruth == Spec => []AlertedMeansSent
<1>1. AlertInv => AlertedMeansSent
  BY DEF AlertInv
<1>2. QED
  BY AlertInit, AlertStep, <1>1, PTL DEF Spec

\* An accepted row is marked once its pass is over, crashes apart: with the
\* lookup of Track this is why the next pass does not send it again.
THEOREM MarkerComplete == Spec => []SentIsMarked
<1>1. AlertInv => SentIsMarked
  BY DEF AlertInv
<1>2. QED
  BY AlertInit, AlertStep, <1>1, PTL DEF Spec

\* Rows are opened by Track alone, which looks for an open row first.
LEMMA OneRowStep ==
    TypeOK /\ OneOpenRowPerExecution /\ [Next]_vars => OneOpenRowPerExecution'
<1> SUFFICES ASSUME TypeOK, OneOpenRowPerExecution, [Next]_vars
             PROVE  OneOpenRowPerExecution'
  OBVIOUS
<1>t. row \in [DOMAIN row -> Row]
  BY DEF TypeOK
<1>1. ASSUME NEW p \in Poller, Track(p) PROVE OneOpenRowPerExecution'
  <2>1. PICK e \in Execution, i \in Alert :
             /\ DOMAIN row' = DOMAIN row \cup {i}
             /\ \A j \in DOMAIN row : row'[j] = row[j]
             /\ i \notin DOMAIN row =>
                  /\ row'[i] = [key |-> e, open |-> TRUE, alerted |-> FALSE]
                  /\ RowsOf(e) = {}
    BY <1>1, TrackedRows
  <2>2. SUFFICES ASSUME NEW j \in DOMAIN row', NEW k \in DOMAIN row',
                        row'[j].open, row'[k].open, row'[j].key = row'[k].key
                 PROVE  j = k
    BY DEF OneOpenRowPerExecution, OpenRows
  <2>3. CASE j \in DOMAIN row /\ k \in DOMAIN row
    BY <2>1, <2>2, <2>3 DEF OneOpenRowPerExecution, OpenRows
  <2>4. CASE j \notin DOMAIN row \/ k \notin DOMAIN row
    BY <2>1, <2>2, <2>4 DEF RowsOf, OpenRows
  <2>5. QED
    BY <2>3, <2>4
<1>2. ASSUME \/ \E ids : row' = Closed(ids)
             \/ \E old : row' = Restrict(row, DOMAIN row \ old)
             \/ row' = row
             \/ \E p \in Poller : Mark(p)
      PROVE  OneOpenRowPerExecution'
  <2> DEFINE NoneOpened ==
               /\ DOMAIN row' \subseteq DOMAIN row
               /\ \A i \in DOMAIN row' :
                    row'[i].key = row[i].key /\ (row'[i].open => row[i].open)
  <2>1. NoneOpened
    <3>1. ASSUME NEW ids, row' = Closed(ids) PROVE NoneOpened
      BY <1>t, <3>1, ClosedRows DEF Closed
    <3>2. ASSUME NEW old, row' = Restrict(row, DOMAIN row \ old)
          PROVE  NoneOpened
      BY <1>t, <3>2 DEF Restrict
    <3>3. ASSUME NEW p \in Poller, Mark(p) PROVE NoneOpened
      <4>1. ASSUME NEW i \in DOMAIN row
            PROVE  /\ [row[i] EXCEPT !.alerted = TRUE].key = row[i].key
                   /\ [row[i] EXCEPT !.alerted = TRUE].open = row[i].open
        <5>1. row[i] \in Row
          BY <1>t
        <5>2. QED
          BY <5>1 DEF Row
      <4>2. QED
        BY <1>t, <3>3, <4>1 DEF Mark
    <3>4. QED
      BY <1>2, <3>1, <3>2, <3>3
  <2>2. QED
    BY <2>1 DEF OneOpenRowPerExecution, OpenRows
<1>3. QED
  <2>1. CASE \E p \in Poller : Track(p)
    BY <1>1, <2>1
  <2>2. CASE ~ \E p \in Poller : Track(p)
    BY <1>2, <2>2
       DEF Next, Pass, vars, Fetch, ResolveAll, ResolveEnded, Post, Abandon,
           Begin, Lengthen, End, Advance, ToggleWindow, ToggleAlerts,
           CleanupHistory
  <2>3. QED
    BY <2>1, <2>2

\* However many passes track at once, an execution has one open row.
THEOREM OneRowPerExecution == Spec => []OneOpenRowPerExecution
<1>1. Init => OneOpenRowPerExecution
  BY DEF Init, OneOpenRowPerExecution, OpenRows
<1>2. QED
  BY AlertTypes, OneRowStep, <1>1, PTL DEF Spec
-----------------------------------------------------------------------------
(* One poller: what a pass is about to send was not sent before.           *)

SentInv ==
    \A p \in Poller :
        /\ pc[p] = "idle" => new[p] = {}
        /\ pc[p] = "tracking" => \A h \in 1..Webhooks : got[h] \cap new[p] \subseteq lost
        /\ pc[p] = "posting" =>
             \A h \in hook[p] + 1 .. Webhooks : got[h] \cap new[p] \subseteq lost

LEMMA SentStep ==
    ASSUME \A p, q \in Poller : p = q
    PROVE  AlertInv /\ SentInv /\ [Next]_vars => SentInv'
<1> SUFFICES ASSUME AlertInv, SentInv, [Next]_vars PROVE SentInv'
  OBVIOUS
<1> USE WebhooksAssumption
<1>t. TypeOK
  BY DEF AlertInv
<1>1. ASSUME NEW p \in Poller, Finish(p) PROVE SentInv'
  <2>1. Poller = {p}
    OBVIOUS
  <2>2. pc'[p] = "idle" /\ new'[p] = {}
    BY <1>t, <1>1 DEF Finish, TypeOK
  <2>3. QED
    BY <2>1, <2>2 DEF SentInv
<1>2. ASSUME NEW p \in Poller, Fetch(p) PROVE SentInv'
  <2>1. Poller = {p}
    OBVIOUS
  <2>2. pc'[p] \in {"tracking", "disabling"} /\ new'[p] = {}
    BY <1>t, <1>2 DEF Fetch, SentInv, TypeOK
  <2>3. QED
    BY <2>1, <2>2 DEF SentInv
<1>3. ASSUME NEW p \in Poller, Track(p) PROVE SentInv'
  <2>1. Poller = {p}
    OBVIOUS
  <2>2. PICK i \in Alert : new' = [new EXCEPT ![p] = IF Fresh(i) THEN @ \cup {i} ELSE @]
    BY <1>t, <1>3, TrackedRows
  <2>3. pc[p] = "tracking" /\ pc' = pc /\ got' = got /\ lost' = lost
    BY <1>3 DEF Track, history
  <2>4. new'[p] \subseteq new[p] \cup {j \in {i} : Fresh(j)}
    BY <1>t, <2>2 DEF TypeOK
  <2>5. ASSUME NEW h \in 1..Webhooks, i \in got[h], Fresh(i) PROVE i \in lost
    <3>1. i \in DOMAIN row /\ ~row[i].alerted
      BY <2>5 DEF AlertInv, Fresh
    <3>2. ~delivered[p]
      BY <2>3 DEF AlertInv
    <3>3. QED
      BY <2>1, <2>5, <3>1, <3>2 DEF AlertInv, SentIsMarked
  <2>6. \A h \in 1..Webhooks : got'[h] \cap new'[p] \subseteq lost'
    BY <2>3, <2>4, <2>5 DEF SentInv
  <2>7. QED
    BY <2>1, <2>3, <2>6 DEF SentInv
<1>4. ASSUME NEW p \in Poller, ResolveEnded(p) PROVE SentInv'
  <2>1. CASE Finish(p)
    BY <1>1, <2>1
  <2>2. CASE /\ pc' = [pc EXCEPT ![p] = "posting"]
             /\ UNCHANGED <<new, hook>>
    <3>1. Poller = {p}
      OBVIOUS
    <3>2. pc[p] = "tracking" /\ hook[p] = 0 /\ got' = got /\ lost' = lost
      BY <1>4 DEF ResolveEnded, AlertInv, history
    <3>3. pc'[p] = "posting" /\ new'[p] = new[p] /\ hook'[p] = 0
      BY <1>t, <2>2, <3>2 DEF TypeOK
    <3>4. \A h \in 1..Webhooks : got[h] \cap new[p] \subseteq lost
      BY <3>2 DEF SentInv
    <3>5. \A h \in hook'[p] + 1 .. Webhooks : got'[h] \cap new'[p] \subseteq lost'
      BY <3>2, <3>3, <3>4
    <3>6. QED
      BY <3>1, <3>3, <3>5 DEF SentInv
  <2>3. QED
    BY <1>4, <2>1, <2>2 DEF ResolveEnded
<1>5. ASSUME NEW p \in Poller, Post(p) PROVE SentInv'
  <2> DEFINE h == hook[p] + 1
  <2>1. Poller = {p}
    OBVIOUS
  <2>2. pc[p] = "posting" /\ new' = new /\ lost' = lost /\ h \in 1..Webhooks
    BY <1>t, <1>5 DEF Post, AlertInv, TypeOK
  <2>3. \A g \in 1..Webhooks : g # h => got'[g] = got[g]
    BY <1>t, <1>5 DEF Post, TypeOK
  <2>4. CASE pc'[p] = "marking"
    BY <2>1, <2>4 DEF SentInv
  <2>5. CASE pc' = pc /\ hook' = [hook EXCEPT ![p] = h]
    <3>1. hook'[p] = h
      BY <1>t, <2>5 DEF TypeOK
    <3>2. ASSUME NEW g \in h + 1 .. Webhooks PROVE got'[g] \cap new[p] \subseteq lost
      <4>1. g \in 1..Webhooks /\ g # h /\ g \in hook[p] + 1 .. Webhooks
        BY <1>t, <2>2, <3>2 DEF TypeOK
      <4>2. QED
        BY <2>2, <2>3, <4>1 DEF SentInv
    <3>3. QED
      BY <2>1, <2>2, <2>5, <3>1, <3>2 DEF SentInv
  <2>6. QED
    BY <1>t, <1>5, <2>4, <2>5 DEF Post, TypeOK
<1>6. CASE CleanupHistory
  <2>1. PICK old \in SUBSET (DOMAIN row \ (OpenRows \cup UNION Range(new))) :
          /\ got' = [h \in 1..Webhooks |-> got[h] \ old]
          /\ lost' = lost \ old
    BY <1>6 DEF CleanupHistory
  <2>2. UNCHANGED <<pc, new, hook>>
    BY <1>6 DEF CleanupHistory, passVars
  <2>3. \A p \in Poller : hook[p] \in Nat
    BY <1>t DEF TypeOK
  <2>4. ASSUME NEW h \in 1..Webhooks, NEW p \in Poller, got[h] \cap new[p] \subseteq lost
        PROVE  got'[h] \cap new[p] \subseteq lost'
    BY <2>1, <2>4
  <2>5. \A p \in Poller : \A h \in hook[p] + 1 .. Webhooks : h \in 1..Webhooks
    BY <2>3
  <2>6. QED
    BY <2>2, <2>4, <2>5 DEF SentInv
<1>7. CASE UNCHANGED <<passVars, history>>
  BY <1>7 DEF SentInv, passVars, history
<1>8. QED
  BY <1>1, <1>2, <1>3, <1>4, <1>5, <1>6, <1>7
     DEF Next, Pass, ResolveAll, Mark, Abandon, Begin, Lengthen, End, Advance,
         ToggleWindow, ToggleAlerts, vars

\* With one poller a webhook about to be called has accepted none of the incidents on
\* the card, save those of a pass that died before it could set alerted_at.
THEOREM SentOnce == ASSUME \A p, q \in Poller : p = q PROVE Spec => []IncidentSentOnce
<1>1. Init => SentInv
  BY DEF Init, SentInv
<1>2. SentInv => IncidentSentOnce
  BY DEF SentInv, IncidentSentOnce
<1>3. QED
  BY <1>1, <1>2, AlertInit, AlertStep, SentStep, PTL DEF Spec
=============================================================================
