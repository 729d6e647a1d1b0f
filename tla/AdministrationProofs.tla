-------------------------- MODULE AdministrationProofs --------------------------
(***************************************************************************)
(* Theorems about Administration: the properties of the registry, of       *)
(* accounts and of exclusion flags, first of each component by itself and  *)
(* then of the three together, where the instances that have accounts'     *)
(* grants come and go with the registry.                                   *)
(***************************************************************************)
EXTENDS Administration, TLAPS

(***************************************************************************)
(* I. THE REGISTRY                                                         *)
(***************************************************************************)

-----------------------------------------------------------------------------
(* What the pending requests hold.                                         *)

\* Administrators that hold a copy hold it of one row that was registered.
CopiesKnown == \A a \in Admin : edit[a].ids \subseteq used

\* Only a row that was audited is about to be deleted.
DeletesAudited == \A a \in Admin : edit[a].stage = "delete" => edit[a].ids \subseteq audited \cup lost

\* ControlPasswordFits of one row; no role is stored while lock control is off.
Fits(r) ==
    /\ Registry!UsesControl(r) /\ ~r.mixed => r.password = <<r.user, r.endpoint>>
    /\ ~r.lock_control => r.user = NoControl
AllFit ==
    /\ \A i \in DOMAIN row : Fits(row[i])
    /\ \A a \in Admin : \A old \in edit[a].copy : Fits(old)

\* A row never changes its group: it is that of every copy, and all copies of a row
\* that was removed agree on it.
GroupsAgree ==
    /\ \A a \in Admin : \A i \in edit[a].ids \cap DOMAIN row, old \in edit[a].copy :
          row[i].group = old.group
    /\ \A a, b \in Admin : \A i \in edit[a].ids \cap edit[b].ids,
                              x \in edit[a].copy, y \in edit[b].copy : x.group = y.group

RegistryInv ==
    /\ Registry!TypeOK /\ CopiesKnown /\ AllFit /\ GroupsAgree
    /\ Registry!RemovalsAudited /\ DeletesAudited /\ Registry!MembersShareName

-----------------------------------------------------------------------------
(* Rows that the requests write.                                           *)

LEMMA EnteredFits ==
    ASSUME NEW e \in Endpoint, NEW f \in Registry!Entered(e), NEW n \in Name, NEW g \in Group
    PROVE  LET r == [name |-> n, group |-> g, endpoint |-> e, lock_control |-> f.lock_control,
                     user |-> f.user, password |-> f.password, apart |-> FALSE, mixed |-> FALSE] IN
           r \in Registry!Row /\ Fits(r)
<1>1. /\ f.lock_control \in BOOLEAN /\ f.user \in Control \cup {NoControl}
      /\ f.password \in ((Control \cup {NoControl}) \X {e}) \cup {NoPassword}
      /\ ~f.lock_control => f.user = NoControl
      /\ f.user # NoControl => f.password # NoPassword
      /\ f.password # NoPassword => f.password[1] = f.user
      BY DEF Registry!Entered
<1>2. f.user # NoControl => f.password = <<f.user, e>>
      BY <1>1
<1>3. f.password \in ((Control \cup {NoControl}) \X Endpoint) \cup {NoPassword}
      BY <1>1
<1> QED BY <1>1, <1>2, <1>3 DEF Registry!Row, Fits, Registry!UsesControl

LEMMA ExtensionsFit ==
    ASSUME NEW old \in Registry!Row, Fits(old), NEW i, NEW r \in Registry!Extensions(old, i)
    PROVE  /\ r \in Registry!Row /\ Fits(r)
           /\ r.group = old.group /\ r.name = old.name
           /\ r.apart = (old.apart \/ Registry!NameIsOld(old, i))
<1>1. PICK p \in IF old.password # NoPassword THEN {old.password}
                 ELSE (IF old.lock_control THEN {<<old.user, old.endpoint>>} ELSE {})
                      \cup (IF old.user = NoControl THEN {NoPassword} ELSE {}) :
        r = [old EXCEPT !.password = p, !.apart = @ \/ Registry!NameIsOld(old, i)]
      BY DEF Registry!Extensions
<1>2. Registry!NameIsOld(old, i) \in BOOLEAN
      BY DEF Registry!NameIsOld
<1>3. p = old.password \/ p = <<old.user, old.endpoint>> \/ (old.user = NoControl /\ p = NoPassword)
      BY <1>1
<1>4. p \in ((Control \cup {NoControl}) \X Endpoint) \cup {NoPassword}
      BY <1>3 DEF Registry!Row
<1> QED BY <1>1, <1>2, <1>3, <1>4 DEF Registry!Row, Fits, Registry!UsesControl

LEMMA KeptFacts ==
    ASSUME NEW old \in Registry!Row, NEW users \in SUBSET (Control \cup {NoControl}), NEW k \in Registry!KeptRows(old, users)
    PROVE  /\ k \in Registry!Row /\ k.mixed = old.mixed
           /\ k.group = old.group /\ k.name = old.name /\ k.apart = old.apart
           /\ ~k.lock_control => k.user = NoControl
           /\ k.user = NoControl \/ (k.user \in users /\ k.endpoint = old.endpoint /\ k.password = old.password)
<1>1. PICK e \in Endpoint, on \in BOOLEAN, u \in users : k = Registry!Kept(old, e, on, u)
      BY DEF Registry!KeptRows
<1> QED BY <1>1 DEF Registry!Kept, Registry!Row, Registry!Normal, Registry!Repointed,
           Registry!Cleared

\* A password given for the role that is kept fits.
LEMMA GivenFits ==
    ASSUME NEW k \in Registry!Row, ~k.lock_control => k.user = NoControl
    PROVE  LET r == Registry!WithPassword(k) IN
           r \in Registry!Row /\ Fits(r) /\ r.group = k.group /\ r.name = k.name /\ r.apart = k.apart
BY DEF Registry!WithPassword, Registry!Row, Fits, Registry!UsesControl

LEMMA ApiFits ==
    ASSUME NEW old \in Registry!Row, Fits(old), NEW r \in Registry!ApiChanges(old)
    PROVE  /\ r \in Registry!Row /\ Fits(r)
           /\ r.group = old.group
           /\ r.apart \/ (r.name = old.name /\ r.apart = old.apart)
<1>0. {old.user} \subseteq Control \cup {NoControl}
      BY DEF Registry!Row
<1>1. CASE r \in Registry!ApiNames(old)
  <2>1. PICK n \in Name : r = [old EXCEPT !.name = n, !.apart = TRUE]
        BY <1>1 DEF Registry!ApiNames
  <2> QED BY <2>1 DEF Registry!Row, Fits, Registry!UsesControl
<1>2. CASE r \in Registry!ApiConnections(old)
  <2>1. r \in Registry!KeptRows(old, {old.user})
        BY <1>2 DEF Registry!ApiConnections
  <2>2. /\ r \in Registry!Row /\ r.group = old.group /\ r.name = old.name /\ r.apart = old.apart
        /\ r.mixed = old.mixed /\ (~r.lock_control => r.user = NoControl)
        /\ \/ r.user = NoControl
           \/ r.user = old.user /\ r.endpoint = old.endpoint /\ r.password = old.password
        BY <1>0, <2>1, KeptFacts
  <2> QED BY <2>2 DEF Fits, Registry!UsesControl
<1>3. ASSUME NEW users \in SUBSET (Control \cup {NoControl}), NEW k \in Registry!KeptRows(old, users), r = Registry!WithPassword(k)
      PROVE  r \in Registry!Row /\ Fits(r) /\ r.group = old.group /\ r.name = old.name /\ r.apart = old.apart
      BY <1>3, KeptFacts, GivenFits
<1>4. CASE r \in Registry!ApiPasswords(old)
  <2>1. PICK k \in Registry!KeptRows(old, {old.user}) : r = Registry!WithPassword(k)
        BY <1>4 DEF Registry!ApiPasswords
  <2> QED BY <1>0, <1>3, <2>1
<1>5. CASE r \in Registry!ApiCredentials(old)
  <2> DEFINE kept == Registry!KeptRows(old, Control \cup {NoControl})
  <2>1. \/ \E k \in kept : r = Registry!WithPassword(k)
        \/ \E k \in kept : k.user = NoControl /\ r = Registry!WithoutPassword(k)
        BY <1>5 DEF Registry!ApiCredentials
  <2>2. CASE \E k \in kept : r = Registry!WithPassword(k)
        BY <1>3, <2>2
  <2>3. CASE \E k \in kept : k.user = NoControl /\ r = Registry!WithoutPassword(k)
    <3>1. PICK k \in kept : k.user = NoControl /\ r = Registry!WithoutPassword(k)
          BY <2>3
    <3>2. k \in Registry!Row /\ k.group = old.group /\ k.name = old.name /\ k.apart = old.apart
          BY KeptFacts
    <3> QED BY <3>1, <3>2 DEF Registry!WithoutPassword, Registry!Row, Fits, Registry!UsesControl
  <2> QED BY <2>1, <2>2, <2>3
<1> QED BY <1>1, <1>2, <1>4, <1>5 DEF Registry!ApiChanges

-----------------------------------------------------------------------------
(* Requests begin and end.                                                 *)

LEMMA IdleEdit ==
    /\ Registry!Idle \in Registry!Request
    /\ Registry!Idle.ids = {} /\ Registry!Idle.copy = {} /\ Registry!Idle.stage = "idle"
BY DEF Registry!Idle, Registry!Request, Registry!Stages

\* Requests either go on as they are or are over.
EndOrGoOn == \A b \in Admin : edit'[b] = Registry!Idle \/ edit'[b] = edit[b]

LEMMA Ended ==
    ASSUME RegistryInv, NEW a \in Admin, Registry!End(a) \/ UNCHANGED edit
    PROVE  edit' \in [Admin -> Registry!Request] /\ EndOrGoOn
BY IdleEdit DEF Registry!End, EndOrGoOn, RegistryInv, Registry!TypeOK

\* The rows of S are written, or added.
RowsWritten(S) ==
    /\ DOMAIN row' = DOMAIN row \cup S
    /\ \A i \in DOMAIN row \ S : row'[i] = row[i]
    /\ \A i \in S : row'[i] \in Registry!Row /\ Fits(row'[i])

\* Written rows that keep to their groups and their names keep the invariant.
LEMMA WritingKeeps ==
    ASSUME RegistryInv, NEW S \in SUBSET Id, RowsWritten(S),
           edit' \in [Admin -> Registry!Request], EndOrGoOn,
           used' = used \cup S, Registry!log' = Registry!log,
           \A i \in S : \A b \in Admin : \A old \in edit[b].copy :
               i \in edit[b].ids => row'[i].group = old.group,
           \A i \in S, j \in DOMAIN row' :
               row'[i].group = row'[j].group /\ ~row'[i].apart /\ ~row'[j].apart => row'[i].name = row'[j].name
    PROVE  RegistryInv'
<1>1. Registry!TypeOK'
      BY DEF RegistryInv, Registry!TypeOK, RowsWritten, Registry!log
<1>2. CopiesKnown' /\ DeletesAudited'
      BY IdleEdit DEF RegistryInv, CopiesKnown, DeletesAudited, EndOrGoOn, Registry!log
<1>3. Registry!RemovalsAudited'
      BY DEF RegistryInv, Registry!RemovalsAudited, RowsWritten, Registry!log
<1>4. AllFit'
  <2>1. \A i \in DOMAIN row' : Fits(row'[i])
        BY DEF RegistryInv, AllFit, RowsWritten
  <2>2. \A b \in Admin : \A old \in edit'[b].copy : Fits(old)
        BY IdleEdit DEF RegistryInv, AllFit, EndOrGoOn
  <2> QED BY <2>1, <2>2 DEF AllFit, Fits, Registry!UsesControl
<1>5. GroupsAgree'
  <2>1. ASSUME NEW b \in Admin, NEW i \in edit'[b].ids \cap DOMAIN row', NEW old \in edit'[b].copy
        PROVE  row'[i].group = old.group
    <3>1. edit'[b] = edit[b]
          BY <2>1, IdleEdit DEF EndOrGoOn
    <3>2. CASE i \in S
          BY <3>1, <3>2
    <3>3. CASE i \notin S
          BY <3>1, <3>3 DEF RegistryInv, GroupsAgree, RowsWritten
    <3> QED BY <3>2, <3>3
  <2>2. ASSUME NEW b \in Admin, NEW c \in Admin, NEW i \in edit'[b].ids \cap edit'[c].ids,
               NEW x \in edit'[b].copy, NEW y \in edit'[c].copy
        PROVE  x.group = y.group
    <3>1. edit'[b] = edit[b] /\ edit'[c] = edit[c]
          BY <2>2, IdleEdit DEF EndOrGoOn
    <3> QED BY <3>1 DEF RegistryInv, GroupsAgree
  <2> QED BY <2>1, <2>2 DEF GroupsAgree
<1>6. Registry!MembersShareName'
  <2> SUFFICES ASSUME NEW i \in DOMAIN row', NEW j \in DOMAIN row',
                      row'[i].group = row'[j].group, ~row'[i].apart, ~row'[j].apart
               PROVE  row'[i].name = row'[j].name
      BY DEF Registry!MembersShareName
  <2>1. CASE i \in S \/ j \in S
        BY <2>1
  <2>2. CASE i \notin S /\ j \notin S
        BY <2>2 DEF RegistryInv, Registry!MembersShareName, RowsWritten
  <2> QED BY <2>1, <2>2
<1> QED BY <1>1, <1>2, <1>3, <1>4, <1>5, <1>6 DEF RegistryInv

\* Added rows have ids that no request knows.
LEMMA AddingKeeps ==
    ASSUME RegistryInv, NEW S \in SUBSET Id, NEW r \in Registry!Row, Fits(r), Registry!AddRows(S, r),
           edit' \in [Admin -> Registry!Request], EndOrGoOn,
           \A j \in DOMAIN row : r.group = row[j].group /\ ~r.apart /\ ~row[j].apart => r.name = row[j].name
    PROVE  RegistryInv'
<1>1. /\ S \cap used = {} /\ S \cap DOMAIN row = {}
      /\ used' = used \cup S /\ Registry!log' = Registry!log
      /\ DOMAIN row' = DOMAIN row \cup S
      /\ \A i \in DOMAIN row \ S : row'[i] = row[i]
      /\ \A i \in S : row'[i] = r
      BY DEF Registry!AddRows, RegistryInv, Registry!TypeOK
<1>2. RowsWritten(S)
      BY <1>1 DEF RowsWritten
<1>3. \A i \in S : \A b \in Admin : i \notin edit[b].ids
      BY <1>1 DEF RegistryInv, CopiesKnown
<1>4. ASSUME NEW i \in S, NEW j \in DOMAIN row',
             row'[i].group = row'[j].group, ~row'[i].apart, ~row'[j].apart
      PROVE  row'[i].name = row'[j].name
      BY <1>1, <1>4
<1> QED BY <1>1, <1>2, <1>3, <1>4, WritingKeeps

\* A row that was read as r by a request about i, and is written under the name of r,
\* has the name of its group unless it is set apart.
LEMMA NameKept ==
    ASSUME RegistryInv, NEW a \in Admin, NEW i \in edit[a].ids, NEW old \in edit[a].copy,
           ~Registry!NameIsOld(old, i), NEW j \in DOMAIN row, row[j].group = old.group, ~row[j].apart
    PROVE  row[j].name = old.name
<1>1. CASE i \in DOMAIN row
  <2>1. row[i].group = old.group
        BY <1>1 DEF RegistryInv, GroupsAgree
  <2> QED BY <1>1, <2>1 DEF Registry!NameIsOld, RegistryInv, Registry!MembersShareName
<1>2. CASE i \notin DOMAIN row
      BY <1>2 DEF Registry!NameIsOld, Registry!Members
<1> QED BY <1>1, <1>2

-----------------------------------------------------------------------------
(* The actions.                                                            *)

LEMMA RegisterKeeps ==
    ASSUME RegistryInv, NEW a \in Admin, NEW S \in SUBSET Id, NEW g \in Group, Registry!Register(a, S, g)
    PROVE  RegistryInv'
<1>1. PICK n \in Name, e \in Endpoint : \E f \in Registry!Entered(e) :
         Registry!AddRows(S, [name |-> n, group |-> g, endpoint |-> e,
         lock_control |-> f.lock_control,
                     user |-> f.user, password |-> f.password, apart |-> FALSE, mixed |-> FALSE])
      BY DEF Registry!Register
<1>2. PICK f \in Registry!Entered(e) :
         Registry!AddRows(S, [name |-> n, group |-> g, endpoint |-> e,
         lock_control |-> f.lock_control,
                     user |-> f.user, password |-> f.password, apart |-> FALSE, mixed |-> FALSE])
      BY <1>1
<1> DEFINE r == [name |-> n, group |-> g, endpoint |-> e, lock_control |-> f.lock_control,
                 user |-> f.user, password |-> f.password, apart |-> FALSE, mixed |-> FALSE]
<1>3. r \in Registry!Row /\ Fits(r)
      BY EnteredFits
<1>4. \A j \in DOMAIN row : row[j].group # r.group
      BY DEF Registry!Register
<1>5. edit' \in [Admin -> Registry!Request] /\ EndOrGoOn
      BY Ended DEF Registry!Register
<1> QED BY <1>2, <1>3, <1>4, <1>5, AddingKeeps

LEMMA ExtendKeeps ==
    ASSUME RegistryInv, NEW a \in Admin, NEW S \in SUBSET Id, Registry!Extend(a, S)
    PROVE  RegistryInv'
<1>0. PICK i \in edit[a].ids, old \in edit[a].copy : \E r \in Registry!Extensions(old, i) : Registry!AddRows(S, r)
      BY DEF Registry!Extend
<1>1. PICK r \in Registry!Extensions(old, i) : Registry!AddRows(S, r)
      BY <1>0
<1>2. old \in Registry!Row /\ Fits(old)
      BY DEF RegistryInv, Registry!TypeOK, Registry!Request, AllFit
<1>3. /\ r \in Registry!Row /\ Fits(r)
      /\ r.group = old.group /\ r.name = old.name
      /\ r.apart = (old.apart \/ Registry!NameIsOld(old, i))
      BY <1>2, ExtensionsFit
<1>4. ASSUME NEW j \in DOMAIN row, r.group = row[j].group, ~r.apart, ~row[j].apart
      PROVE  r.name = row[j].name
      BY <1>3, <1>4, NameKept
<1>5. edit' \in [Admin -> Registry!Request] /\ EndOrGoOn
      BY Ended DEF Registry!Extend
<1> QED BY <1>1, <1>3, <1>4, <1>5, AddingKeeps

LEMMA RenameKeeps ==
    ASSUME RegistryInv, NEW a \in Admin, NEW i \in Id, Registry!Rename(a, i)
    PROVE  RegistryInv'
<1> DEFINE S == Registry!Siblings(i)
<1>1. PICK n \in Name :
        row' = [j \in DOMAIN row |-> IF j \in S THEN [row[j] EXCEPT !.name = n, !.apart = FALSE] ELSE row[j]]
      BY DEF Registry!Rename, Registry!Update
<1>2. i \in DOMAIN row /\ S \subseteq DOMAIN row /\ \A j \in DOMAIN row : j \in S <=> row[j].group = row[i].group
      BY DEF Registry!Rename, Registry!Siblings, Registry!Members
<1>3. ASSUME NEW j \in S
      PROVE  /\ row'[j] \in Registry!Row /\ Fits(row'[j]) /\ row'[j].name = n
             /\ row'[j].group = row[j].group
  <2>1. row[j] \in Registry!Row /\ Fits(row[j])
        BY <1>2 DEF RegistryInv, Registry!TypeOK, AllFit
  <2>2. row'[j] = [row[j] EXCEPT !.name = n, !.apart = FALSE]
        BY <1>1, <1>2
  <2> QED BY <2>1, <2>2 DEF Registry!Row, Fits, Registry!UsesControl
<1> HIDE DEF S
<1>4. RowsWritten(S)
      BY <1>1, <1>2, <1>3 DEF RowsWritten
<1>5. ASSUME NEW k \in S, NEW j \in DOMAIN row', row'[k].group = row'[j].group
      PROVE  row'[k].name = row'[j].name
  <2>1. j \in DOMAIN row /\ row'[j].group = row[j].group
        BY <1>1, <1>3
  <2>2. j \in S
        BY <1>2, <1>3, <1>5, <2>1
  <2> QED BY <1>3, <2>2
<1>6. \A k \in S : \A b \in Admin : \A old \in edit[b].copy :
          k \in edit[b].ids => row'[k].group = old.group
      BY <1>2, <1>3 DEF RegistryInv, GroupsAgree
<1>7. edit' \in [Admin -> Registry!Request] /\ EndOrGoOn
      BY Ended DEF Registry!Rename
<1>8. used' = used \cup S /\ Registry!log' = Registry!log /\ S \subseteq Id
      BY <1>2 DEF Registry!Rename, RegistryInv, Registry!TypeOK
<1> QED BY <1>4, <1>5, <1>6, <1>7, <1>8, WritingKeeps

LEMMA CredentialsKeep ==
    ASSUME RegistryInv, NEW a \in Admin, Registry!SaveCredentials(a)
    PROVE  RegistryInv'
<1>1. PICK i \in edit[a].ids \cap DOMAIN row, old \in edit[a].copy,
           on \in BOOLEAN, u \in Control \cup {NoControl}, typed \in BOOLEAN :
         /\ ~on => u = NoControl
         /\ u = NoControl => ~typed
         /\ u # NoControl /\ ~typed => Registry!KeepsPassword(old, u)
         /\ Registry!Put(i, [row[i] EXCEPT !.lock_control = on, !.user = u,
                !.password = IF u = NoControl THEN NoPassword
                             ELSE IF typed THEN <<u, old.endpoint>> ELSE old.password,
                !.mixed = \/ Registry!Given(old) # Registry!Given(row[i])
                          \/ @ /\ ~typed /\ u # NoControl])
      BY DEF Registry!SaveCredentials
<1> DEFINE r == [row[i] EXCEPT !.lock_control = on, !.user = u,
                   !.password = IF u = NoControl THEN NoPassword
                                ELSE IF typed THEN <<u, old.endpoint>> ELSE old.password,
                   !.mixed = \/ Registry!Given(old) # Registry!Given(row[i])
                             \/ @ /\ ~typed /\ u # NoControl]
<1>2. row[i] \in Registry!Row /\ Fits(row[i]) /\ old \in Registry!Row
      BY DEF RegistryInv, Registry!TypeOK, AllFit, Registry!Request
<1>3. r \in Registry!Row /\ r.group = row[i].group /\ r.name = row[i].name /\ r.apart = row[i].apart
  <2> DEFINE pw == IF u = NoControl THEN NoPassword
                   ELSE IF typed THEN <<u, old.endpoint>> ELSE old.password
             mx == \/ Registry!Given(old) # Registry!Given(row[i])
                   \/ row[i].mixed /\ ~typed /\ u # NoControl
  <2>1. old.endpoint \in Endpoint /\ old.password \in ((Control \cup {NoControl}) \X Endpoint) \cup {NoPassword}
        BY <1>2 DEF Registry!Row
  <2>2. pw \in ((Control \cup {NoControl}) \X Endpoint) \cup {NoPassword}
        BY <2>1
  <2>3. row[i].mixed \in BOOLEAN /\ mx \in BOOLEAN
        BY <1>2 DEF Registry!Row
  <2>4. r = [row[i] EXCEPT !.lock_control = on, !.user = u, !.password = pw, !.mixed = mx]
        OBVIOUS
  <2> HIDE DEF pw, mx, r
  <2> QED BY <1>2, <2>2, <2>3, <2>4 DEF Registry!Row
<1>4. Fits(r)
  <2>1. CASE u = NoControl
        BY <1>2, <2>1 DEF Fits, Registry!UsesControl, Registry!Row
  <2>2. CASE u # NoControl /\ Registry!Given(old) # Registry!Given(row[i])
        BY <1>1, <1>2, <2>2 DEF Fits, Registry!UsesControl, Registry!Row
  <2>3. CASE u # NoControl /\ Registry!Given(old) = Registry!Given(row[i]) /\ typed
    <3>1. old.endpoint = row[i].endpoint
          BY <2>3 DEF Registry!Given
    <3> QED BY <1>1, <1>2, <2>3, <3>1 DEF Fits, Registry!UsesControl, Registry!Row
  <2>4. CASE u # NoControl /\ Registry!Given(old) = Registry!Given(row[i]) /\ ~typed
    <3>1. /\ old.endpoint = row[i].endpoint /\ old.lock_control = row[i].lock_control
          /\ old.user = row[i].user /\ old.password = row[i].password
          BY <2>4 DEF Registry!Given
    <3>2. row[i].lock_control /\ row[i].user = u
          BY <1>1, <2>4, <3>1 DEF Registry!KeepsPassword
    <3> QED BY <1>1, <1>2, <2>4, <3>1, <3>2 DEF Fits, Registry!UsesControl, Registry!Row
  <2> QED BY <2>1, <2>2, <2>3, <2>4
<1> HIDE DEF r
<1>5. row' = [j \in DOMAIN row \cup {i} |-> IF j = i THEN r ELSE row[j]]
      BY <1>1 DEF Registry!Put, r
<1>6. RowsWritten({i})
      BY <1>3, <1>4, <1>5 DEF RowsWritten
<1>7. \A j \in DOMAIN row' : row'[i].group = row'[j].group /\ ~row'[i].apart /\ ~row'[j].apart
                              => row'[i].name = row'[j].name
      BY <1>3, <1>5 DEF RegistryInv, Registry!MembersShareName
<1>8. \A b \in Admin : \A x \in edit[b].copy : i \in edit[b].ids => row'[i].group = x.group
      BY <1>3, <1>5 DEF RegistryInv, GroupsAgree
<1>9. /\ edit' \in [Admin -> Registry!Request] /\ EndOrGoOn
      /\ used' = used \cup {i} /\ Registry!log' = Registry!log /\ {i} \subseteq Id
      BY Ended DEF Registry!SaveCredentials, RegistryInv, Registry!TypeOK
<1> QED BY <1>6, <1>7, <1>8, <1>9, WritingKeeps

LEMMA ApiKeeps ==
    ASSUME RegistryInv, NEW a \in Admin, Registry!SaveApi(a)
    PROVE  RegistryInv'
<1>0. PICK i \in edit[a].ids, old \in edit[a].copy : \E c \in Registry!ApiChanges(old) :
         Registry!Put(i, [c EXCEPT !.apart = @ \/ Registry!NameIsOld(old, i),
                          !.mixed = \/ i \in DOMAIN row /\ Registry!Given(row[i]) # Registry!Given(old)
                                    \/ @ /\ c.user # NoControl])
      BY DEF Registry!SaveApi
<1>1. PICK change \in Registry!ApiChanges(old) :
         Registry!Put(i, [change EXCEPT !.apart = @ \/ Registry!NameIsOld(old, i),
                               !.mixed = \/ i \in DOMAIN row /\ Registry!Given(row[i]) # Registry!Given(old)
                                         \/ @ /\ change.user # NoControl])
      BY <1>0
<1> DEFINE r == [change EXCEPT !.apart = @ \/ Registry!NameIsOld(old, i),
                               !.mixed = \/ i \in DOMAIN row /\ Registry!Given(row[i]) # Registry!Given(old)
                                         \/ @ /\ change.user # NoControl]
<1>2. old \in Registry!Row /\ Fits(old)
      BY DEF RegistryInv, Registry!TypeOK, AllFit, Registry!Request
<1>3. /\ change \in Registry!Row /\ Fits(change) /\ change.group = old.group
      /\ change.apart \/ (change.name = old.name /\ change.apart = old.apart)
      BY <1>2, ApiFits
<1>4. Registry!NameIsOld(old, i) \in BOOLEAN
      BY DEF Registry!NameIsOld
<1>5. /\ r \in Registry!Row /\ Fits(r) /\ r.group = old.group
      /\ ~r.apart => r.name = old.name /\ ~Registry!NameIsOld(old, i)
      BY <1>3, <1>4 DEF Registry!Row, Fits, Registry!UsesControl
<1> HIDE DEF r
<1>6. row' = [j \in DOMAIN row \cup {i} |-> IF j = i THEN r ELSE row[j]]
      BY <1>1 DEF Registry!Put, r
<1>7. RowsWritten({i})
      BY <1>5, <1>6 DEF RowsWritten
<1>8. ASSUME NEW j \in DOMAIN row', row'[i].group = row'[j].group, ~row'[i].apart, ~row'[j].apart
      PROVE  row'[i].name = row'[j].name
  <2>1. CASE j = i
        BY <2>1
  <2>2. CASE j # i
    <3>1. j \in DOMAIN row /\ row'[j] = row[j] /\ row'[i] = r
          BY <1>6, <2>2
    <3> QED BY <1>5, <1>8, <3>1, NameKept
  <2> QED BY <2>1, <2>2
<1>9. \A b \in Admin : \A x \in edit[b].copy : i \in edit[b].ids => row'[i].group = x.group
      BY <1>5, <1>6 DEF RegistryInv, GroupsAgree
<1>10. /\ edit' \in [Admin -> Registry!Request] /\ EndOrGoOn
       /\ used' = used \cup {i} /\ Registry!log' = Registry!log /\ {i} \subseteq Id
      BY Ended DEF Registry!SaveApi, RegistryInv, Registry!TypeOK, CopiesKnown
<1> QED BY <1>7, <1>8, <1>9, <1>10, WritingKeeps

\* A request that begins knows rows that are registered.
LEMMA BeginningKeeps ==
    ASSUME RegistryInv, NEW a \in Admin, NEW stage \in Registry!Stages \ {"delete"}, NEW ids \in SUBSET DOMAIN row, NEW copy,
           Registry!Begin(a, stage, ids, copy),
           copy = {} \/ \E i \in DOMAIN row : ids = {i} /\ copy = {row[i]}
    PROVE  RegistryInv'
<1>1. UNCHANGED <<row, used, Registry!log>>
      BY DEF Registry!Begin
<1>2. edit' = [edit EXCEPT ![a] = [stage |-> stage, ids |-> ids, copy |-> copy]]
      BY DEF Registry!Begin
<1>3. copy \subseteq {row[i] : i \in ids} /\ copy \subseteq Registry!Row
      BY DEF RegistryInv, Registry!TypeOK
<1>4. [stage |-> stage, ids |-> ids, copy |-> copy] \in Registry!Request
      BY <1>3 DEF Registry!Request, RegistryInv, Registry!TypeOK
<1>5. Registry!TypeOK'
      BY <1>1, <1>2, <1>4 DEF RegistryInv, Registry!TypeOK, Registry!log
<1>6. \A b \in Admin : b # a => edit'[b] = edit[b]
      BY <1>2 DEF RegistryInv, Registry!TypeOK
<1>7. edit'[a].stage = stage /\ edit'[a].ids = ids /\ edit'[a].copy = copy
      BY <1>2 DEF RegistryInv, Registry!TypeOK
<1>8. CopiesKnown' /\ DeletesAudited' /\ Registry!RemovalsAudited' /\ Registry!MembersShareName'
      BY <1>1, <1>6, <1>7 DEF Registry!log, RegistryInv, Registry!TypeOK, CopiesKnown, DeletesAudited,
         Registry!RemovalsAudited, Registry!MembersShareName
<1>9. AllFit'
  <2>1. \A x \in copy : Fits(x)
        BY <1>3 DEF RegistryInv, AllFit
  <2> QED BY <1>1, <1>6, <1>7, <2>1 DEF RegistryInv, AllFit, Fits, Registry!UsesControl
<1>10. GroupsAgree'
  <2>1. \A i \in ids, x \in copy : row[i].group = x.group
        OBVIOUS
  <2>2. ASSUME NEW b \in Admin, NEW i \in edit'[b].ids \cap DOMAIN row, NEW old \in edit'[b].copy
        PROVE  row[i].group = old.group
        BY <1>6, <1>7, <2>1 DEF RegistryInv, GroupsAgree
  <2>3. ASSUME NEW b \in Admin, NEW c \in Admin, NEW i \in edit'[b].ids \cap edit'[c].ids,
               NEW x \in edit'[b].copy, NEW y \in edit'[c].copy
        PROVE  x.group = y.group
    <3>1. CASE i \in DOMAIN row
          BY <2>2, <3>1
    <3>2. CASE i \notin DOMAIN row
      <4>1. b # a /\ c # a
            BY <1>7, <3>2
      <4> QED BY <1>6, <4>1 DEF RegistryInv, GroupsAgree
    <3> QED BY <3>1, <3>2
  <2> QED BY <1>1, <2>2, <2>3 DEF GroupsAgree
<1> QED BY <1>5, <1>8, <1>9, <1>10 DEF RegistryInv

\* Removals: rows go, entries are added.
LEMMA RemovingKeeps ==
    ASSUME RegistryInv, NEW a \in Admin, NEW r \in Registry!Request, NEW gone,
           edit' = [edit EXCEPT ![a] = r], r = Registry!Idle \/ r = [edit[a] EXCEPT !.stage = "delete"],
           DOMAIN row' = DOMAIN row \ gone, \A i \in DOMAIN row' : row'[i] = row[i], used' = used,
           audited \subseteq audited', lost \subseteq lost',
           audited' \cup lost' \subseteq audited \cup lost \cup edit[a].ids,
           gone \cap DOMAIN row \subseteq audited' \cup lost',
           r.stage = "delete" => r.ids \subseteq audited' \cup lost'
    PROVE  RegistryInv'
<1>1. \A b \in Admin : b # a => edit'[b] = edit[b]
      BY DEF RegistryInv, Registry!TypeOK
<1>2. edit'[a] = r /\ r.ids \subseteq edit[a].ids /\ r.copy \subseteq edit[a].copy
      BY IdleEdit DEF RegistryInv, Registry!TypeOK, Registry!Request
<1>3. \A b \in Admin : edit'[b].ids \subseteq edit[b].ids /\ edit'[b].copy \subseteq edit[b].copy
      BY <1>1, <1>2
<1>4. edit[a].ids \subseteq used
      BY DEF RegistryInv, CopiesKnown
<1>5. DOMAIN row' = DOMAIN row \ gone /\ \A i \in DOMAIN row' : row'[i] = row[i]
      OBVIOUS
<1>6. Registry!TypeOK'
      BY <1>4, <1>5 DEF RegistryInv, Registry!TypeOK
<1>7. CopiesKnown'
      BY <1>3 DEF RegistryInv, CopiesKnown
<1>8. DeletesAudited'
      BY <1>1, <1>2 DEF RegistryInv, DeletesAudited
<1>9. Registry!RemovalsAudited'
      BY <1>5 DEF RegistryInv, Registry!RemovalsAudited
<1>10. AllFit'
      BY <1>3, <1>5 DEF RegistryInv, AllFit, Fits, Registry!UsesControl
<1>11. GroupsAgree'
  <2>1. ASSUME NEW b \in Admin, NEW i \in edit'[b].ids \cap DOMAIN row', NEW old \in edit'[b].copy
        PROVE  row'[i].group = old.group
        BY <1>3, <1>5 DEF RegistryInv, GroupsAgree
  <2>2. ASSUME NEW b \in Admin, NEW c \in Admin, NEW i \in edit'[b].ids \cap edit'[c].ids,
               NEW x \in edit'[b].copy, NEW y \in edit'[c].copy
        PROVE  x.group = y.group
        BY <1>3 DEF RegistryInv, GroupsAgree
  <2> QED BY <2>1, <2>2 DEF GroupsAgree
<1>12. Registry!MembersShareName'
      BY <1>5 DEF RegistryInv, Registry!MembersShareName
<1> QED BY <1>6, <1>7, <1>8, <1>9, <1>10, <1>11, <1>12 DEF RegistryInv

\* Every step keeps the invariant: one step per action.
LEMMA RegistryKept == RegistryInv /\ [Registry!Next]_Registry!vars => RegistryInv'
<1> SUFFICES ASSUME RegistryInv, [Registry!Next]_Registry!vars PROVE RegistryInv'
    OBVIOUS
<1>0. DOMAIN row = DOMAIN row \ {} /\ \A a \in Admin : edit[a] \in Registry!Request
      BY DEF RegistryInv, Registry!TypeOK
<1>1. ASSUME NEW a \in Admin, NEW i \in Id, NEW stage \in {"credentials", "api", "extend", "remove"}, Registry!Load(a, stage, i)
      PROVE  RegistryInv'
      BY <1>1, BeginningKeeps DEF Registry!Load, Registry!Stages
<1>2. ASSUME NEW a \in Admin, Registry!LogRemoval(a) \/ Registry!LogFails(a)
      PROVE  RegistryInv'
  <2> DEFINE r == [edit[a] EXCEPT !.stage = "delete"]
  <2>1. r \in Registry!Request /\ r.ids = edit[a].ids
        BY <1>0 DEF Registry!Request, Registry!Stages
  <2>2. /\ edit' = [edit EXCEPT ![a] = r] /\ row' = row /\ used' = used
        /\ audited \subseteq audited' /\ lost \subseteq lost'
        /\ audited' \cup lost' = audited \cup lost \cup edit[a].ids
        BY <1>2 DEF Registry!LogRemoval, Registry!LogFails
  <2>3. DOMAIN row' = DOMAIN row \ {} /\ \A i \in DOMAIN row' : row'[i] = row[i]
        BY <2>2
  <2>4. {} \cap DOMAIN row \subseteq audited' \cup lost' /\ r.ids \subseteq audited' \cup lost'
        BY <2>1, <2>2
  <2> HIDE DEF r
  <2>5. r = Registry!Idle \/ r = [edit[a] EXCEPT !.stage = "delete"]
        BY DEF r
  <2> QED BY <2>1, <2>2, <2>3, <2>4, <2>5, RemovingKeeps
<1>3. ASSUME NEW a \in Admin, Registry!Delete(a)
      PROVE  RegistryInv'
  <2>1. edit[a].ids \subseteq audited \cup lost
        BY <1>3 DEF Registry!Delete, RegistryInv, DeletesAudited
  <2>2. edit' = [edit EXCEPT ![a] = Registry!Idle] /\ audited' = audited /\ lost' = lost /\ used' = used
        /\ row' = [i \in DOMAIN row \ edit[a].ids |-> row[i]]
        BY <1>3 DEF Registry!Delete, Registry!Without, Registry!End, Registry!log
  <2> QED BY <2>1, <2>2, IdleEdit, RemovingKeeps
<1>4. ASSUME NEW a \in Admin, NEW g \in Group, Registry!LoadGroup(a, g)
      PROVE  RegistryInv'
      BY <1>4, BeginningKeeps DEF Registry!LoadGroup, Registry!Members, Registry!Stages
<1>5. ASSUME NEW a \in Admin, Registry!DeleteGroup(a)
      PROVE  RegistryInv'
  <2>1. edit' = [edit EXCEPT ![a] = Registry!Idle] /\ audited' = audited \cup edit[a].ids /\ lost' = lost /\ used' = used
        /\ row' = [i \in DOMAIN row \ edit[a].ids |-> row[i]]
        BY <1>5 DEF Registry!DeleteGroup, Registry!Without, Registry!End
  <2> QED BY <2>1, IdleEdit, RemovingKeeps
<1>6. ASSUME NEW a \in Admin, Registry!GiveUp(a)
      PROVE  RegistryInv'
  <2>1. edit' = [edit EXCEPT ![a] = Registry!Idle] /\ UNCHANGED <<row, used, audited, lost>>
        BY <1>6 DEF Registry!GiveUp, Registry!End, Registry!log
  <2> QED BY <1>0, <2>1, IdleEdit, RemovingKeeps
<1>7. ASSUME NEW a \in Admin, Registry!Edits(a)
      PROVE  RegistryInv'
      BY <1>1, <1>7, RegisterKeeps, ExtendKeeps, RenameKeeps, CredentialsKeep, ApiKeeps
         DEF Registry!Edits
<1>8. CASE UNCHANGED Registry!vars
      BY <1>8 DEF Registry!vars, Registry!log, RegistryInv, Registry!TypeOK, CopiesKnown,
         Registry!RemovalsAudited, DeletesAudited, AllFit, Fits, Registry!UsesControl,
                  GroupsAgree, Registry!MembersShareName
<1> QED BY <1>1, <1>2, <1>3, <1>4, <1>5, <1>6, <1>7, <1>8 DEF Registry!Next, Registry!Removes,
           Registry!RemovesGroup

\* The names of the invariant's parts that other modules use.
LEMMA RegistryFacts ==
    RegistryInv => /\ Registry!TypeOK /\ Registry!RemovalsAudited
                   /\ Registry!ControlPasswordFits /\ Registry!MembersShareName
BY DEF RegistryInv, AllFit, Fits, Registry!ControlPasswordFits

LEMMA InitialRegistry == Registry!Init => RegistryInv
BY IdleEdit DEF Registry!Init, RegistryInv, Registry!TypeOK, CopiesKnown, Registry!RemovalsAudited,
   DeletesAudited, AllFit, GroupsAgree, Registry!MembersShareName

LEMMA RegistryInvariant == Registry!Spec => []RegistryInv
BY InitialRegistry, RegistryKept, PTL DEF Registry!Spec

\* Rows, requests and the audit log keep their types.
THEOREM RegistryTypes == Registry!Spec => []Registry!TypeOK
BY RegistryInvariant, RegistryFacts, PTL

\* No registration disappears without its audit entry.
THEOREM RemovalsLogged == Registry!Spec => []Registry!RemovalsAudited
BY RegistryInvariant, RegistryFacts, PTL

\* The stored password was issued for the stored role at the stored server.
THEOREM PasswordsFit == Registry!Spec => []Registry!ControlPasswordFits
BY RegistryInvariant, RegistryFacts, PTL

\* The targets of a group share their name.
THEOREM GroupsShareName == Registry!Spec => []Registry!MembersShareName
BY RegistryInvariant, RegistryFacts, PTL

(***************************************************************************)
(* II. ACCOUNTS                                                            *)
(***************************************************************************)

-----------------------------------------------------------------------------
(* Grants are functions from a set of instances.                           *)

LEMMA GrantsIntro ==
    ASSUME NEW S \in SUBSET Id, NEW f \in [S -> Access!Grant]
    PROVE  f \in Access!Grants
  BY DEF Access!Grants

LEMMA GrantsElim ==
    ASSUME NEW f \in Access!Grants
    PROVE  /\ DOMAIN f \subseteq Id
           /\ f \in [DOMAIN f -> Access!Grant]
  BY DEF Access!Grants

LEMMA NoGrantsType == Access!NoGrants \in Access!Grants
<1>1. Access!NoGrants \in [{} -> Access!Grant]
  BY DEF Access!NoGrants
<1>2. QED
  BY <1>1, GrantsIntro

LEMMA NoneType == Access!None \in Access!Account
  BY NoGrantsType DEF Access!None, Access!Account

LEMMA ChosenType ==
    ASSUME Access!TypeOK, NEW kinds \in SUBSET Access!Grant, NEW g \in Access!Chosen(kinds)
    PROVE  g \in Access!Grants /\ \A i \in DOMAIN g : g[i] \in kinds
<1>1. PICK S \in SUBSET active, k \in kinds : g = [i \in S |-> k]
  BY DEF Access!Chosen
<1>2. S \in SUBSET Id /\ g \in [S -> Access!Grant]
  BY <1>1 DEF Access!TypeOK
<1>3. QED
  BY <1>1, <1>2, GrantsIntro

-----------------------------------------------------------------------------
(* Types.                                                                  *)

LEMMA InitialAccessTypes == Access!Init => Access!TypeOK
<1> SUFFICES ASSUME Access!Init PROVE Access!TypeOK
  OBVIOUS
<1>1. PICK S \in SUBSET User : account \in [S -> Access!Legacy]
  BY DEF Access!Init
<1>2. Access!Legacy \subseteq Access!Account
  <2>1. ASSUME NEW j \in Id PROVE [i \in {j} |-> Access!Plain] \in Access!Grants
    <3>1. [i \in {j} |-> Access!Plain] \in [{j} -> Access!Grant]
      BY DEF Access!Plain, Access!Grant
    <3>2. QED
      BY <2>1, <3>1, GrantsIntro
  <2>2. {Access!NoGrants} \cup {[i \in {j} |-> Access!Plain] : j \in Id} \subseteq Access!Grants
    BY <2>1, NoGrantsType
  <2>3. [staff : BOOLEAN, scope : {"none"}, rights : SUBSET Right,
         grants : {Access!NoGrants} \cup {[i \in {j} |-> Access!Plain] : j \in Id}] \subseteq Access!Account
    BY <2>2 DEF Access!Account
  <2>4. QED
    BY <2>3 DEF Access!Legacy
<1>3. \A u \in DOMAIN account : account[u] \in Access!Account
  BY <1>1, <1>2
<1>4. request \in [Admin -> Access!Request]
  BY NoneType DEF Access!Init, Access!Request, Access!Stages
<1>5. intended \in [User -> SUBSET Id]
  <2>1. \A u \in User : (IF u \in DOMAIN account THEN DOMAIN account[u].grants ELSE {}) \in SUBSET Id
    <3>1. \A u \in DOMAIN account : account[u].grants \in Access!Grants
      BY <1>3 DEF Access!Account
    <3>2. QED
      BY <3>1, GrantsElim
  <2>2. QED
    BY <2>1 DEF Access!Init
<1>6. \A a \in Admin : ~Access!Edits(request[a])
  <2>1. PICK u \in User : request = [a \in Admin |->
          [stage |-> "idle", user |-> u, form |-> Access!None, mine |-> {}]]
    BY DEF Access!Init
  <2>2. QED
    BY <2>1 DEF Access!Edits
<1>7. QED
  BY <1>1, <1>3, <1>4, <1>5, <1>6 DEF Access!Init, Access!TypeOK

LEMMA BeginType ==
    ASSUME Access!TypeOK, NEW a \in Admin, NEW stage \in Access!Stages, NEW u \in User, NEW form \in Access!Account,
           stage # "create" => u \in DOMAIN account, Access!Begin(a, stage, u, form)
    PROVE  Access!TypeOK'
<1>1. [stage |-> stage, user |-> u, form |-> form, mine |-> {}] \in Access!Request
  BY DEF Access!Request
<1>2. request' \in [Admin -> Access!Request]
  BY <1>1 DEF Access!Begin, Access!TypeOK
<1>3. \A b \in Admin : Access!Edits(request'[b]) => request'[b].user \in DOMAIN account
  BY DEF Access!Begin, Access!TypeOK, Access!Edits
<1>4. QED
  BY <1>2, <1>3 DEF Access!Begin, Access!TypeOK, Access!tables, Access!history

LEMMA EndType ==
    ASSUME Access!TypeOK, NEW a \in Admin, Access!End(a)
    PROVE  /\ request' \in [Admin -> Access!Request]
           /\ \A b \in Admin : Access!Edits(request'[b]) => request'[b].user \in DOMAIN account
<1>1. \A r \in Access!Request : Access!Idle(r) \in Access!Request
  <2>1. ASSUME NEW r \in Access!Request PROVE Access!Idle(r) \in Access!Request
    BY NoneType DEF Access!Idle, Access!Request, Access!Stages
  <2>2. QED
    BY <2>1
<1>2. \A b \in Admin : Access!Edits(request'[b]) => Access!Edits(request[b]) /\ request'[b].user = request[b].user
  BY DEF Access!End, Access!TypeOK, Access!Edits, Access!Idle
<1>3. QED
  BY <1>1, <1>2 DEF Access!End, Access!TypeOK

LEMMA SaveType ==
    ASSUME Access!TypeOK, NEW u \in DOMAIN account, NEW acc \in Access!Account, Access!Save(u, acc)
    PROVE  /\ DOMAIN account' \subseteq User
           /\ \A x \in DOMAIN account' : account'[x] \in Access!Account
           /\ DOMAIN account' = DOMAIN account
  BY DEF Access!Save, Access!TypeOK

LEMMA TypeRequests ==
    ASSUME Access!TypeOK, NEW a \in Admin, NEW u \in User,
           Access!LockRole(a, u) \/ Access!LockSlot(a, u) \/ Access!ReadAccess(a,
           u) \/ Access!ReadNew(a, u)
    PROVE  Access!TypeOK'
<1>1. CASE Access!LockRole(a, u)
  <2>1. PICK form \in [staff : BOOLEAN, scope : {"local", "global"}, grants : {Access!NoGrants}, rights : {{}}] :
           Access!Begin(a, "role", u, form)
    BY <1>1 DEF Access!LockRole
  <2>2. form \in Access!Account
    BY NoGrantsType DEF Access!Account
  <2>3. QED
    BY <1>1, <2>1, <2>2, BeginType DEF Access!Stages, Access!LockRole
<1>2. CASE Access!LockSlot(a, u)
  <2>1. PICK rights \in SUBSET Right : Access!Begin(a, "slot", u, [Access!None EXCEPT !.rights = rights])
    BY <1>2 DEF Access!LockSlot
  <2>2. [Access!None EXCEPT !.rights = rights] \in Access!Account
    BY NoneType DEF Access!Account
  <2>3. QED
    BY <1>2, <2>1, <2>2, BeginType DEF Access!Stages, Access!LockSlot
<1>3. CASE Access!ReadAccess(a, u)
  <2>1. PICK grants \in Access!Chosen({k \in Access!Kinds(account[u].staff) : k.notify => k.operator}) :
           Access!Begin(a, "access", u, [Access!None EXCEPT !.staff = account[u].staff,
           !.grants = grants])
    BY <1>3 DEF Access!ReadAccess
  <2>2. grants \in Access!Grants
    BY <2>1, ChosenType DEF Access!Kinds
  <2>3. account[u].staff \in BOOLEAN
    BY <1>3 DEF Access!ReadAccess, Access!TypeOK, Access!Account
  <2>4. [Access!None EXCEPT !.staff = account[u].staff, !.grants = grants] \in Access!Account
    BY <2>2, <2>3, NoneType DEF Access!Account
  <2>5. QED
    BY <1>3, <2>1, <2>4, BeginType DEF Access!Stages, Access!ReadAccess
<1>4. CASE Access!ReadNew(a, u)
  <2>1. PICK staff \in BOOLEAN, scope \in {"local", "global"}, rights \in SUBSET Right :
           \E grants \in Access!Chosen(Access!Kinds(staff)) :
             Access!Begin(a, "create", u, [staff |-> staff, scope |-> scope, grants |-> grants,
             rights |-> rights])
    BY <1>4 DEF Access!ReadNew
  <2>2. PICK grants \in Access!Chosen(Access!Kinds(staff)) :
           Access!Begin(a, "create", u, [staff |-> staff, scope |-> scope, grants |-> grants,
           rights |-> rights])
    BY <2>1
  <2>3. grants \in Access!Grants
    BY <2>2, ChosenType DEF Access!Kinds
  <2>4. [staff |-> staff, scope |-> scope, grants |-> grants, rights |-> rights] \in Access!Account
    BY <2>3 DEF Access!Account
  <2>5. QED
    BY <2>2, <2>4, BeginType DEF Access!Stages
<1>5. QED
  BY <1>1, <1>2, <1>3, <1>4

LEMMA TypeCommits ==
    ASSUME Access!TypeOK, NEW a \in Admin,
           Access!CommitRole(a) \/ Access!CommitSlot(a) \/ Access!CreateUser(a) \/ Access!RollBack(a)
    PROVE  Access!TypeOK'
<1>1. request[a] \in Access!Request /\ request[a].form \in Access!Account
  BY DEF Access!TypeOK, Access!Request
<1>2. /\ request' \in [Admin -> Access!Request]
      /\ \A b \in Admin : Access!Edits(request'[b]) => request'[b].user \in DOMAIN account
  BY EndType DEF Access!CommitRole, Access!CommitSlot, Access!CreateUser, Access!RollBack
<1>3. CASE Access!CommitRole(a)
  <2>0. PICK acc : acc = account[request[a].user]
    OBVIOUS
  <2>1. request[a].user \in DOMAIN account /\ acc \in Access!Account
    BY <1>3, <2>0 DEF Access!CommitRole, Access!TypeOK, Access!Edits
  <2>2. acc.grants \in Access!Grants /\ acc.grants \in [DOMAIN acc.grants -> Access!Grant]
    BY <2>1, GrantsElim DEF Access!Account
  <2>3. Access!RoleGrants(acc, request[a].form.staff, request[a].mine) \in [DOMAIN acc.grants -> Access!Grant]
    BY <1>1, <2>2 DEF Access!RoleGrants, Access!Grant, Access!Account
  <2>4. Access!RoleGrants(acc, request[a].form.staff, request[a].mine) \in Access!Grants
    BY <2>2, <2>3, GrantsElim, GrantsIntro
  <2>5. [staff |-> request[a].form.staff, scope |-> request[a].form.scope,
         grants |-> Access!RoleGrants(acc, request[a].form.staff, request[a].mine),
         rights |-> IF request[a].form.staff THEN acc.rights ELSE {}] \in Access!Account
    BY <1>1, <2>1, <2>4 DEF Access!Account
  <2>6. /\ DOMAIN account' \subseteq User
        /\ \A x \in DOMAIN account' : account'[x] \in Access!Account
        /\ DOMAIN account \subseteq DOMAIN account'
    BY <1>3, <2>0, <2>1, <2>5, SaveType DEF Access!CommitRole
  <2>7. stale' \subseteq User
    BY <1>3, <2>1 DEF Access!CommitRole, Access!TypeOK, Access!Note
  <2>8. QED
    BY <1>2, <1>3, <2>6, <2>7 DEF Access!CommitRole, Access!TypeOK
<1>4. CASE Access!CommitSlot(a)
  <2>1. request[a].user \in DOMAIN account
    BY <1>4 DEF Access!CommitSlot, Access!TypeOK, Access!Edits
  <2>2. [account[request[a].user] EXCEPT !.rights = request[a].form.rights] \in Access!Account
    BY <1>1, <2>1 DEF Access!TypeOK, Access!Account
  <2>3. /\ DOMAIN account' \subseteq User
        /\ \A x \in DOMAIN account' : account'[x] \in Access!Account
        /\ DOMAIN account \subseteq DOMAIN account'
    BY <1>4, <2>1, <2>2, SaveType DEF Access!CommitSlot
  <2>4. QED
    BY <1>2, <1>4, <2>3 DEF Access!CommitSlot, Access!TypeOK, Access!history
<1>5. CASE Access!CreateUser(a)
  <2>1. request[a].user \in User /\ DOMAIN request[a].form.grants \subseteq Id
    BY <1>1, GrantsElim DEF Access!Request, Access!Account
  <2>2. intended' \in [User -> SUBSET Id]
    BY <1>5, <2>1 DEF Access!CreateUser, Access!TypeOK
  <2>3. /\ DOMAIN account' \subseteq User
        /\ \A x \in DOMAIN account' : account'[x] \in Access!Account
        /\ DOMAIN account \subseteq DOMAIN account'
    BY <1>1, <1>5, <2>1 DEF Access!CreateUser, Access!TypeOK
  <2>4. QED
    BY <1>2, <1>5, <2>2, <2>3 DEF Access!CreateUser, Access!TypeOK
<1>6. CASE Access!RollBack(a)
  BY <1>2, <1>6 DEF Access!RollBack, Access!TypeOK, Access!tables, Access!history
<1>7. QED
  BY <1>3, <1>4, <1>5, <1>6

LEMMA TypeReplace ==
    ASSUME Access!TypeOK, NEW a \in Admin,
           Access!UpdateGrants(a) \/ Access!DeleteGrants(a) \/ Access!ReplaceGrants(a)
    PROVE  Access!TypeOK'
<1> DEFINE r == request[a]
           acc == account[r.user]
<1>1. r \in Access!Request /\ r.form.grants \in Access!Grants /\ r.form.scope \in {"none", "local", "global"}
  BY DEF Access!TypeOK, Access!Request, Access!Account
<1>2. r.user \in DOMAIN account /\ acc \in Access!Account /\ acc.grants \in Access!Grants
  BY DEF Access!UpdateGrants, Access!DeleteGrants, Access!ReplaceGrants, Access!TypeOK, Access!Account,
     Access!Edits
<1>3. /\ DOMAIN acc.grants \subseteq Id /\ acc.grants \in [DOMAIN acc.grants -> Access!Grant]
      /\ DOMAIN r.form.grants \subseteq Id /\ r.form.grants \in [DOMAIN r.form.grants -> Access!Grant]
  BY <1>1, <1>2, GrantsElim
<1>4. CASE Access!DeleteGrants(a)
  <2>1. [r EXCEPT !.stage = "replace", !.mine = DOMAIN acc.grants] \in Access!Request
    BY <1>1, <1>3 DEF Access!Request, Access!Stages
  <2>2. request' \in [Admin -> Access!Request]
    BY <1>4, <2>1 DEF Access!DeleteGrants, Access!TypeOK
  <2>3. \A b \in Admin : Access!Edits(request'[b]) => request'[b].user \in DOMAIN account
    BY <1>2, <1>4 DEF Access!DeleteGrants, Access!TypeOK, Access!Edits
  <2>4. QED
    BY <1>4, <2>2, <2>3 DEF Access!DeleteGrants, Access!TypeOK, Access!tables, Access!history
<1>5. CASE Access!ReplaceGrants(a)
  <2>1. Access!NewGrants(r) \in Access!Grants
    <3>1. Access!Left(r) \cup DOMAIN r.form.grants \in SUBSET Id
      BY <1>3 DEF Access!Left
    <3>2. Access!NewGrants(r) \in [Access!Left(r) \cup DOMAIN r.form.grants -> Access!Grant]
      BY <1>3 DEF Access!NewGrants, Access!Left
    <3>3. QED
      BY <3>1, <3>2, GrantsIntro
  <2>2. [acc EXCEPT !.grants = Access!NewGrants(r), !.scope = Access!ScopeKept(@)] \in Access!Account
    BY <1>2, <2>1 DEF Access!Account, Access!ScopeKept
  <2>3. /\ DOMAIN account' \subseteq User
        /\ \A x \in DOMAIN account' : account'[x] \in Access!Account
        /\ DOMAIN account \subseteq DOMAIN account'
    BY <1>2, <1>5, <2>2, SaveType DEF Access!ReplaceGrants
  <2>4. intended' \in [User -> SUBSET Id]
    BY <1>1, <1>3, <1>5 DEF Access!ReplaceGrants, Access!TypeOK, Access!Request
  <2>5. stale' \subseteq User /\ merged' \subseteq User
    BY <1>1, <1>5 DEF Access!ReplaceGrants, Access!TypeOK, Access!Note, Access!Request
  <2>6. request' \in [Admin -> Access!Request]
    <3>1. Access!Idle(r) \in Access!Request
      BY <1>1, NoneType DEF Access!Idle, Access!Request, Access!Stages
    <3>2. \A b \in Admin : [request[b] EXCEPT !.mine = @ \ r.mine] \in Access!Request
      BY DEF Access!TypeOK, Access!Request
    <3>3. \A b \in Admin : request[b] \in Access!Request
      BY DEF Access!TypeOK
    <3>4. QED
      BY <1>5, <3>1, <3>2, <3>3 DEF Access!ReplaceGrants
  <2>7. \A b \in Admin : Access!Edits(request'[b]) => request'[b].user \in DOMAIN account
    <3>1. ASSUME NEW b \in Admin, Access!Edits(request'[b]) PROVE request'[b].user \in DOMAIN account
      <4>1. b # a /\ request[b] \in Access!Request
        BY <1>1, <1>5, <3>1 DEF Access!ReplaceGrants, Access!TypeOK, Access!Edits, Access!Idle,
           Access!Request
      <4>2. request'[b] = IF request[b].user = r.user THEN [request[b] EXCEPT !.mine = @ \ r.mine] ELSE request[b]
        BY <1>5, <4>1 DEF Access!ReplaceGrants
      <4>3. request'[b].stage = request[b].stage /\ request'[b].user = request[b].user
        BY <4>1, <4>2 DEF Access!Request
      <4>4. QED
        BY <3>1, <4>3 DEF Access!TypeOK, Access!Edits
    <3>2. QED
      BY <3>1
  <2>8. QED
    BY <1>5, <2>3, <2>4, <2>5, <2>6, <2>7 DEF Access!ReplaceGrants, Access!TypeOK
<1>6. CASE Access!UpdateGrants(a)
  <2>1. [r EXCEPT !.stage = "grants", !.mine = Access!Seen(r.user)] \in Access!Request
    BY <1>1, <1>3 DEF Access!Request, Access!Stages, Access!Seen
  <2>2. request' \in [Admin -> Access!Request]
    BY <1>6, <2>1 DEF Access!UpdateGrants, Access!TypeOK
  <2>3. \A b \in Admin : Access!Edits(request'[b]) => request'[b].user \in DOMAIN account
    BY <1>2, <1>6 DEF Access!UpdateGrants, Access!TypeOK, Access!Edits
  <2>4. QED
    BY <1>6, <2>2, <2>3 DEF Access!UpdateGrants, Access!TypeOK, Access!tables, Access!history
<1>7. QED
  BY <1>4, <1>5, <1>6

LEMMA TypeRegistry ==
    ASSUME Access!TypeOK, \/ \E i \in Id : Access!SetActive(i)
                          \/ \E S \in SUBSET Id : Access!RemoveInstances(S)
    PROVE  Access!TypeOK'
<1>1. ASSUME NEW i \in Id, Access!SetActive(i) PROVE Access!TypeOK'
  BY <1>1 DEF Access!SetActive, Access!TypeOK, Access!history
<1>2. ASSUME NEW S \in SUBSET Id, Access!RemoveInstances(S) PROVE Access!TypeOK'
  <2>1. request' \in [Admin -> Access!Request]
    <3>1. \A b \in Admin : [request[b] EXCEPT !.mine = @ \ S] \in Access!Request
      BY DEF Access!TypeOK, Access!Request
    <3>2. QED
      BY <1>2, <3>1 DEF Access!RemoveInstances
  <2>2. ASSUME NEW u \in DOMAIN account
        PROVE  [account[u] EXCEPT !.grants = [j \in DOMAIN @ \ S |-> @[j]]] \in Access!Account
    <3>1. account[u] \in Access!Account /\ account[u].grants \in Access!Grants
      BY <2>2 DEF Access!TypeOK, Access!Account
    <3>2. /\ DOMAIN account[u].grants \subseteq Id
          /\ account[u].grants \in [DOMAIN account[u].grants -> Access!Grant]
      BY <3>1, GrantsElim
    <3>3. [j \in DOMAIN account[u].grants \ S |-> account[u].grants[j]] \in Access!Grants
      <4>1. [j \in DOMAIN account[u].grants \ S |-> account[u].grants[j]]
              \in [DOMAIN account[u].grants \ S -> Access!Grant]
        BY <3>2
      <4>2. DOMAIN account[u].grants \ S \in SUBSET Id
        BY <3>2
      <4>3. QED
        BY <4>1, <4>2, GrantsIntro
    <3>4. QED
      BY <3>1, <3>3 DEF Access!Account
  <2>3. /\ DOMAIN account' \subseteq User
        /\ \A x \in DOMAIN account' : account'[x] \in Access!Account
        /\ DOMAIN account \subseteq DOMAIN account'
    BY <1>2, <2>2 DEF Access!RemoveInstances, Access!TypeOK
  <2>4. \A b \in Admin : Access!Edits(request'[b]) => Access!Edits(request[b]) /\ request'[b].user = request[b].user
    BY <1>2 DEF Access!RemoveInstances, Access!TypeOK, Access!Edits, Access!Request
  <2>5. QED
    BY <1>2, <2>1, <2>3, <2>4 DEF Access!RemoveInstances, Access!TypeOK, Access!history
<1>3. QED
  BY <1>1, <1>2

LEMMA AccessTypesKept == Access!TypeOK /\ [Access!Next]_Access!vars => Access!TypeOK'
<1> SUFFICES ASSUME Access!TypeOK, [Access!Next]_Access!vars PROVE Access!TypeOK'
  OBVIOUS
<1>1. CASE \E a \in Admin : Access!Step(a)
  BY <1>1, TypeRequests, TypeCommits, TypeReplace DEF Access!Step
<1>2. CASE UNCHANGED Access!vars
  BY <1>2 DEF Access!vars, Access!tables, Access!history, Access!TypeOK
<1>3. QED
  BY <1>1, <1>2, TypeRegistry DEF Access!Next

\* Every table, request and history keeps its type: no sequence of forms and
\* removals leaves a grant for an instance that never existed.
THEOREM AccessTypes == Access!Spec => []Access!TypeOK
  BY InitialAccessTypes, AccessTypesKept, PTL DEF Access!Spec

-----------------------------------------------------------------------------
(* Read-only accounts.  The invariant needs what the pending requests will *)
(* write, and that the two transactions that lock the account exclude each *)
(* other.                                                                  *)

PlainGrants(acc) == ~acc.staff => \A i \in DOMAIN acc.grants : acc.grants[i] = Access!Plain
NoPowers(acc) == ~acc.staff => acc.rights = {} /\ acc.scope # "global"

AccountsHonest ==
    \A u \in DOMAIN account :
        NoPowers(account[u]) /\ (u \notin stale => PlainGrants(account[u]))

FormHonest(r) ==
    /\ r.stage \in {"role", "grants"} /\ r.form.scope = "global" => r.form.staff
    /\ r.stage \in {"access", "replace", "create"} => PlainGrants(r.form)
    /\ r.stage = "create" => NoPowers(r.form)

Locks(r) == r.stage \in {"role", "grants", "slot"}

FormsHonest == \A a \in Admin : FormHonest(request[a])
SlotsOfOperators == \A a \in Admin : request[a].stage = "slot" => account[request[a].user].staff
OneLock ==
    \A a, b \in Admin :
        Locks(request[a]) /\ Locks(request[b]) /\ request[a].user = request[b].user => a = b

AccessInv == Access!TypeOK /\ AccountsHonest /\ FormsHonest /\ SlotsOfOperators /\ OneLock

LEMMA HonestInit == Access!Init => AccessInv
<1> SUFFICES ASSUME Access!Init PROVE AccessInv
  OBVIOUS
<1>1. Access!TypeOK
  BY InitialAccessTypes
<1>2. AccountsHonest
  <2>1. PICK S \in SUBSET User : account \in [S -> Access!Legacy]
    BY DEF Access!Init
  <2>2. ASSUME NEW acc \in Access!Legacy PROVE NoPowers(acc) /\ PlainGrants(acc)
    <3>1. acc.scope = "none" /\ (acc.rights # {} => acc.staff)
      BY DEF Access!Legacy
    <3>2. \A i \in DOMAIN acc.grants : acc.grants[i] = Access!Plain
      BY DEF Access!Legacy, Access!NoGrants
    <3>3. QED
      BY <3>1, <3>2 DEF NoPowers, PlainGrants
  <2>3. QED
    BY <2>1, <2>2 DEF AccountsHonest
<1>3. \A a \in Admin : request[a].stage = "idle"
  <2>1. PICK u \in User : request = [a \in Admin |->
          [stage |-> "idle", user |-> u, form |-> Access!None, mine |-> {}]]
    BY DEF Access!Init
  <2>2. QED
    BY <2>1
<1>4. QED
  BY <1>1, <1>2, <1>3 DEF AccessInv, FormsHonest, FormHonest, SlotsOfOperators, OneLock, Locks

\* A request that begins leaves the invariant to be shown of itself alone.
LEMMA HonestBegin ==
    ASSUME AccessInv, Access!TypeOK', NEW a \in Admin, NEW stage \in Access!Stages, NEW u \in User, NEW form \in Access!Account,
           Access!Begin(a, stage, u, form),
           FormHonest([stage |-> stage, user |-> u, form |-> form, mine |-> {}]),
           stage = "slot" => account[u].staff,
           Locks([stage |-> stage, user |-> u, form |-> form, mine |-> {}]) => ~Access!UserLocked(u)
    PROVE  AccessInv'
<1> DEFINE new == [stage |-> stage, user |-> u, form |-> form, mine |-> {}]
<1>1. \A b \in Admin : request'[b] = IF b = a THEN new ELSE request[b]
  BY DEF Access!Begin, AccessInv, Access!TypeOK
<1>2. account' = account /\ stale' = stale
  BY DEF Access!Begin, Access!tables, Access!history
<1>3. AccountsHonest'
  BY <1>2 DEF AccessInv, AccountsHonest, NoPowers, PlainGrants
<1>4. FormsHonest'
  BY <1>1 DEF AccessInv, FormsHonest
<1>5. SlotsOfOperators'
  BY <1>1, <1>2 DEF AccessInv, SlotsOfOperators
<1>6. OneLock'
  <2> SUFFICES ASSUME NEW b \in Admin, NEW c \in Admin, Locks(request'[b]), Locks(request'[c]),
                      request'[b].user = request'[c].user, b # c
               PROVE FALSE
    BY DEF OneLock
  <2>1. CASE b # a /\ c # a
    BY <1>1, <2>1 DEF AccessInv, OneLock
  <2>2. CASE b = a
    BY <1>1, <2>2 DEF Access!UserLocked, Locks
  <2>3. CASE c = a
    BY <1>1, <2>3 DEF Access!UserLocked, Locks
  <2>4. QED
    BY <2>1, <2>2, <2>3
<1>7. QED
  BY <1>3, <1>4, <1>5, <1>6 DEF AccessInv

LEMMA HonestRequests ==
    ASSUME AccessInv, Access!TypeOK', NEW a \in Admin, NEW u \in User,
           Access!LockRole(a, u) \/ Access!LockSlot(a, u) \/ Access!ReadAccess(a,
           u) \/ Access!ReadNew(a, u)
    PROVE  AccessInv'
<1>0. Access!TypeOK
  BY DEF AccessInv
<1>1. CASE Access!LockRole(a, u)
  <2>1. PICK form \in [staff : BOOLEAN, scope : {"local", "global"}, grants : {Access!NoGrants}, rights : {{}}] :
           (form.scope = "global" => form.staff) /\ Access!Begin(a, "role", u, form)
    BY <1>1 DEF Access!LockRole
  <2>2. form \in Access!Account
    BY NoGrantsType DEF Access!Account
  <2>3. FormHonest([stage |-> "role", user |-> u, form |-> form, mine |-> {}])
    BY <2>1 DEF FormHonest
  <2>4. ~Access!UserLocked(u)
    BY <1>1 DEF Access!LockRole
  <2>5. QED
    BY <2>1, <2>2, <2>3, <2>4, HonestBegin DEF Access!Stages
<1>2. CASE Access!LockSlot(a, u)
  <2>1. PICK rights \in SUBSET Right : Access!Begin(a, "slot", u, [Access!None EXCEPT !.rights = rights])
    BY <1>2 DEF Access!LockSlot
  <2>2. [Access!None EXCEPT !.rights = rights] \in Access!Account
    BY NoneType DEF Access!Account
  <2>3. FormHonest([stage |-> "slot", user |-> u, form |-> [Access!None EXCEPT !.rights = rights], mine |-> {}])
    BY DEF FormHonest
  <2>4. ~Access!UserLocked(u) /\ account[u].staff
    BY <1>2 DEF Access!LockSlot
  <2>5. QED
    BY <2>1, <2>2, <2>3, <2>4, HonestBegin DEF Access!Stages
<1>3. CASE Access!ReadAccess(a, u)
  <2>1. PICK grants \in Access!Chosen({k \in Access!Kinds(account[u].staff) : k.notify => k.operator}) :
           Access!Begin(a, "access", u, [Access!None EXCEPT !.staff = account[u].staff,
           !.grants = grants])
    BY <1>3 DEF Access!ReadAccess
  <2>2. grants \in Access!Grants /\ \A i \in DOMAIN grants : grants[i] \in Access!Kinds(account[u].staff)
    BY <1>0, <2>1, ChosenType DEF Access!Kinds
  <2>3. account[u].staff \in BOOLEAN
    BY <1>0, <1>3 DEF Access!ReadAccess, Access!TypeOK, Access!Account
  <2>4. PICK form : form = [Access!None EXCEPT !.staff = account[u].staff, !.grants = grants]
    OBVIOUS
  <2>5. form \in Access!Account /\ form.staff = account[u].staff /\ form.grants = grants
    BY <2>2, <2>3, <2>4, NoneType DEF Access!Account
  <2>6. PlainGrants(form)
    <3>1. ASSUME ~account[u].staff, NEW k \in Access!Kinds(account[u].staff) PROVE k = Access!Plain
      BY <3>1 DEF Access!Kinds, Access!Grant, Access!Plain
    <3>2. QED
      BY <2>2, <2>5, <3>1 DEF PlainGrants
  <2>7. FormHonest([stage |-> "access", user |-> u, form |-> form, mine |-> {}])
    BY <2>6 DEF FormHonest
  <2>8. QED
    BY <2>1, <2>4, <2>5, <2>7, HonestBegin DEF Access!Stages, Locks
<1>4. CASE Access!ReadNew(a, u)
  <2>1. PICK staff \in BOOLEAN, scope \in {"local", "global"}, rights \in SUBSET Right :
           /\ scope = "global" \/ rights # {} => staff
           /\ \E grants \in Access!Chosen(Access!Kinds(staff)) :
                Access!Begin(a, "create", u, [staff |-> staff, scope |-> scope, grants |-> grants,
                rights |-> rights])
    BY <1>4 DEF Access!ReadNew
  <2>2. PICK grants \in Access!Chosen(Access!Kinds(staff)) :
           Access!Begin(a, "create", u, [staff |-> staff, scope |-> scope, grants |-> grants,
           rights |-> rights])
    BY <2>1
  <2>3. grants \in Access!Grants /\ \A i \in DOMAIN grants : grants[i] \in Access!Kinds(staff)
    BY <1>0, <2>2, ChosenType DEF Access!Kinds
  <2>4. PICK form : form = [staff |-> staff, scope |-> scope, grants |-> grants, rights |-> rights]
    OBVIOUS
  <2>5. form \in Access!Account
    BY <2>3, <2>4 DEF Access!Account
  <2>6. PlainGrants(form)
    <3>1. ASSUME ~staff, NEW k \in Access!Kinds(staff) PROVE k = Access!Plain
      BY <3>1 DEF Access!Kinds, Access!Grant, Access!Plain
    <3>2. QED
      BY <2>3, <2>4, <3>1 DEF PlainGrants
  <2>7. NoPowers(form)
    BY <2>1, <2>4 DEF NoPowers
  <2>8. FormHonest([stage |-> "create", user |-> u, form |-> form, mine |-> {}])
    BY <2>6, <2>7 DEF FormHonest
  <2>9. QED
    BY <2>2, <2>4, <2>5, <2>8, HonestBegin DEF Access!Stages, Locks
<1>5. QED
  BY <1>1, <1>2, <1>3, <1>4

\* Other steps end requests or let them advance with the form they have.
Advances(r, t) ==
    \/ t.stage = "idle"
    \/ /\ t.user = r.user /\ t.form = r.form
       /\ \/ t.stage = r.stage
          \/ r.stage = "access" /\ t.stage = "replace"
          \/ r.stage = "role" /\ t.stage = "grants"

LEMMA HonestAdvance ==
    ASSUME AccessInv, Access!TypeOK', AccountsHonest',
           \A b \in Admin : Advances(request[b], request'[b]),
           \A b \in Admin : request'[b].stage = "slot" =>
                account'[request[b].user].staff = account[request[b].user].staff
    PROVE  AccessInv'
<1>1. FormsHonest'
  <2> SUFFICES ASSUME NEW b \in Admin PROVE FormHonest(request'[b])
    BY DEF FormsHonest
  <2>1. FormHonest(request[b]) /\ Advances(request[b], request'[b])
    BY DEF AccessInv, FormsHonest
  <2>2. QED
    BY <2>1 DEF FormHonest, Advances
<1>2. SlotsOfOperators'
  BY DEF AccessInv, SlotsOfOperators, Advances
<1>3. OneLock'
  BY DEF AccessInv, OneLock, Locks, Advances
<1>4. QED
  BY <1>1, <1>2, <1>3 DEF AccessInv

LEMMA EndAdvances ==
    ASSUME Access!TypeOK, NEW a \in Admin, Access!End(a)
    PROVE  \A b \in Admin : /\ Advances(request[b], request'[b])
                            /\ b # a => request'[b] = request[b]
                            /\ request'[a].stage = "idle"
<1>1. \A b \in Admin : b # a => request'[b] = request[b]
  BY DEF Access!End, Access!TypeOK
<1>2. request[a] \in Access!Request
  BY DEF Access!TypeOK
<1>3. request'[a].stage = "idle"
  BY <1>2 DEF Access!End, Access!TypeOK, Access!Idle, Access!Request
<1>4. QED
  BY <1>1, <1>3 DEF Advances

LEMMA HonestCommitRole ==
    ASSUME AccessInv, Access!TypeOK', NEW a \in Admin, Access!CommitRole(a)
    PROVE  AccessInv'
<1> DEFINE r == request[a]
           acc == account[r.user]
           new == [staff |-> r.form.staff, scope |-> r.form.scope,
                   grants |-> Access!RoleGrants(acc, r.form.staff, r.mine),
                   rights |-> IF r.form.staff THEN acc.rights ELSE {}]
           missed == DOMAIN acc.grants \ r.mine
<1>0. /\ Access!TypeOK /\ r.stage = "grants" /\ FormHonest(r) /\ r \in Access!Request
      /\ r.user \in DOMAIN account /\ acc \in Access!Account
  BY DEF AccessInv, Access!TypeOK, Access!CommitRole, FormsHonest, Access!Edits
<1>1. /\ DOMAIN account' = DOMAIN account
      /\ \A u \in DOMAIN account : account'[u] = IF u = r.user THEN new ELSE account[u]
      /\ stale' = Access!Note(stale, r.user, missed # {} /\ (r.form.staff # acc.staff \/ r.user \in stale))
  BY <1>0 DEF Access!CommitRole, Access!Save
<1>2. NoPowers(new)
  BY <1>0 DEF NoPowers, FormHonest
<1>3. r.user \notin stale' => PlainGrants(new)
  <2> SUFFICES ASSUME r.user \notin stale', r.form.staff = FALSE, NEW i \in DOMAIN acc.grants
               PROVE  Access!RoleGrants(acc, r.form.staff, r.mine)[i] = Access!Plain
    <3>1. r.form.staff \in BOOLEAN
      BY <1>0 DEF Access!Request, Access!Account
    <3>2. DOMAIN Access!RoleGrants(acc, r.form.staff, r.mine) = DOMAIN acc.grants
      BY DEF Access!RoleGrants
    <3>3. QED
      BY <3>1, <3>2 DEF PlainGrants
  <2>1. CASE i \in r.mine
    BY <2>1 DEF Access!RoleGrants, Access!Plain
  <2>2. CASE i \notin r.mine
    <3>1. acc.staff = FALSE /\ r.user \notin stale
      BY <1>0, <1>1, <2>2 DEF Access!Note, Access!Account
    <3>2. acc.grants[i] = Access!Plain
      BY <1>0, <3>1 DEF AccessInv, AccountsHonest, PlainGrants
    <3>3. QED
      BY <2>2, <3>2 DEF Access!RoleGrants
  <2>3. QED
    BY <2>1, <2>2
<1>4. AccountsHonest'
  <2> SUFFICES ASSUME NEW u \in DOMAIN account
               PROVE  NoPowers(account'[u]) /\ (u \notin stale' => PlainGrants(account'[u]))
    BY <1>1 DEF AccountsHonest
  <2>1. CASE u = r.user
    BY <1>1, <1>2, <1>3, <2>1
  <2>2. CASE u # r.user
    BY <1>1, <2>2 DEF AccessInv, AccountsHonest, Access!Note
  <2>3. QED
    BY <2>1, <2>2
<1>5. ASSUME NEW b \in Admin, request'[b].stage = "slot"
      PROVE  account'[request[b].user].staff = account[request[b].user].staff
  <2>1. Access!End(a)
    BY DEF Access!CommitRole
  <2>2. b # a /\ request'[b] = request[b]
    BY <1>0, <1>5, <2>1, EndAdvances
  <2>3. request[b].user # r.user
    BY <1>0, <1>5, <2>2 DEF AccessInv, OneLock, Locks
  <2>4. request[b].user \in DOMAIN account
    BY <1>0, <1>5, <2>2 DEF Access!TypeOK, Access!Edits
  <2>5. QED
    BY <1>1, <2>3, <2>4
<1>6. QED
  BY <1>0, <1>4, <1>5, EndAdvances, HonestAdvance DEF Access!CommitRole

LEMMA HonestCommitSlot ==
    ASSUME AccessInv, Access!TypeOK', NEW a \in Admin, Access!CommitSlot(a)
    PROVE  AccessInv'
<1> DEFINE r == request[a]
           new == [account[r.user] EXCEPT !.rights = r.form.rights]
<1>0. Access!TypeOK /\ r.stage = "slot" /\ account[r.user].staff /\ r.user \in DOMAIN account
  BY DEF AccessInv, Access!TypeOK, Access!CommitSlot, SlotsOfOperators, Access!Edits
<1>1. /\ DOMAIN account' = DOMAIN account
      /\ \A u \in DOMAIN account : account'[u] = IF u = r.user THEN new ELSE account[u]
      /\ stale' = stale
  BY DEF Access!CommitSlot, Access!Save, Access!history
<1>2. new.staff = account[r.user].staff
  BY <1>0 DEF Access!TypeOK, Access!Account
<1>3. AccountsHonest'
  <2> SUFFICES ASSUME NEW u \in DOMAIN account
               PROVE  NoPowers(account'[u]) /\ (u \notin stale' => PlainGrants(account'[u]))
    BY <1>1 DEF AccountsHonest
  <2>1. CASE u = r.user
    BY <1>0, <1>1, <1>2, <2>1 DEF NoPowers, PlainGrants
  <2>2. CASE u # r.user
    BY <1>1, <2>2 DEF AccessInv, AccountsHonest
  <2>3. QED
    BY <2>1, <2>2
<1>4. ASSUME NEW b \in Admin, request'[b].stage = "slot"
      PROVE  account'[request[b].user].staff = account[request[b].user].staff
  <2>1. Access!End(a)
    BY DEF Access!CommitSlot
  <2>2. b # a /\ request'[b] = request[b]
    BY <1>0, <1>4, <2>1, EndAdvances
  <2>3. request[b].user \in DOMAIN account
    BY <1>0, <1>4, <2>2 DEF Access!TypeOK, Access!Edits
  <2>4. QED
    BY <1>1, <1>2, <2>3
<1>5. QED
  BY <1>0, <1>3, <1>4, EndAdvances, HonestAdvance DEF Access!CommitSlot

LEMMA HonestCreate ==
    ASSUME AccessInv, Access!TypeOK', NEW a \in Admin, Access!CreateUser(a)
    PROVE  AccessInv'
<1> DEFINE r == request[a]
<1>0. Access!TypeOK /\ NoPowers(r.form) /\ PlainGrants(r.form)
  BY DEF AccessInv, Access!CreateUser, FormsHonest, FormHonest
<1>1. /\ \A u \in DOMAIN account' : account'[u] = IF u = r.user THEN r.form ELSE account[u]
      /\ DOMAIN account' = DOMAIN account \cup {r.user}
      /\ r.user \notin DOMAIN account
      /\ stale' = stale
  BY DEF Access!CreateUser
<1>2. AccountsHonest'
  <2> SUFFICES ASSUME NEW u \in DOMAIN account'
               PROVE  NoPowers(account'[u]) /\ (u \notin stale' => PlainGrants(account'[u]))
    BY DEF AccountsHonest
  <2>1. CASE u = r.user
    BY <1>0, <1>1, <2>1
  <2>2. CASE u # r.user
    BY <1>1, <2>2 DEF AccessInv, AccountsHonest
  <2>3. QED
    BY <2>1, <2>2
<1>3. ASSUME NEW b \in Admin, request'[b].stage = "slot"
      PROVE  account'[request[b].user].staff = account[request[b].user].staff
  <2>1. Access!End(a)
    BY DEF Access!CreateUser
  <2>2. b # a /\ request'[b] = request[b]
    BY <1>0, <1>3, <2>1, EndAdvances
  <2>3. request[b].user \in DOMAIN account
    BY <1>0, <1>3, <2>2 DEF Access!TypeOK, Access!Edits
  <2>4. QED
    BY <1>1, <2>3
<1>4. QED
  BY <1>0, <1>2, <1>3, EndAdvances, HonestAdvance DEF Access!CreateUser

LEMMA HonestRollBack ==
    ASSUME AccessInv, Access!TypeOK', NEW a \in Admin, Access!RollBack(a)
    PROVE  AccessInv'
<1>1. Access!TypeOK /\ account' = account /\ stale' = stale /\ Access!End(a)
  BY DEF AccessInv, Access!RollBack, Access!tables, Access!history
<1>2. AccountsHonest'
  BY <1>1 DEF AccessInv, AccountsHonest
<1>3. QED
  BY <1>1, <1>2, EndAdvances, HonestAdvance

LEMMA HonestDelete ==
    ASSUME AccessInv, Access!TypeOK', NEW a \in Admin, Access!DeleteGrants(a) \/ Access!UpdateGrants(a)
    PROVE  AccessInv'
<1>1. Access!TypeOK /\ account' = account /\ stale' = stale
  BY DEF AccessInv, Access!DeleteGrants, Access!UpdateGrants, Access!tables, Access!history
<1>2. AccountsHonest'
  BY <1>1 DEF AccessInv, AccountsHonest
<1>3. ASSUME NEW b \in Admin PROVE Advances(request[b], request'[b])
  <2>1. request[b] \in Access!Request
    BY <1>1 DEF Access!TypeOK
  <2>2. CASE b = a
    BY <1>1, <2>1, <2>2 DEF Access!DeleteGrants, Access!UpdateGrants, Access!TypeOK, Advances, Access!Request
  <2>3. CASE b # a
    BY <1>1, <2>3 DEF Access!DeleteGrants, Access!UpdateGrants, Access!TypeOK, Advances
  <2>4. QED
    BY <2>2, <2>3
<1>4. QED
  BY <1>1, <1>2, <1>3, HonestAdvance

LEMMA HonestReplace ==
    ASSUME AccessInv, Access!TypeOK', NEW a \in Admin, Access!ReplaceGrants(a)
    PROVE  AccessInv'
<1> DEFINE r == request[a]
           acc == account[r.user]
           new == [acc EXCEPT !.grants = Access!NewGrants(r), !.scope = Access!ScopeKept(@)]
<1>0. /\ Access!TypeOK /\ r \in Access!Request /\ r.stage = "replace" /\ PlainGrants(r.form)
      /\ r.user \in DOMAIN account /\ acc \in Access!Account
  BY DEF AccessInv, Access!TypeOK, Access!ReplaceGrants, FormsHonest, FormHonest, Access!Edits
<1>1. /\ DOMAIN account' = DOMAIN account
      /\ \A u \in DOMAIN account : account'[u] = IF u = r.user THEN new ELSE account[u]
  BY DEF Access!ReplaceGrants, Access!Save
<1>2. /\ new.staff = acc.staff /\ new.rights = acc.rights /\ new.grants = Access!NewGrants(r)
      /\ new.scope = Access!ScopeKept(acc.scope)
  BY <1>0 DEF Access!Account
<1>3. /\ \A u \in DOMAIN account : u # r.user => (u \in stale' <=> u \in stale)
      /\ r.user \notin stale' => r.form.staff = acc.staff /\ (r.user \in stale => Access!Left(r) = {})
  BY DEF Access!ReplaceGrants, Access!Note
<1>4. NoPowers(new)
  BY <1>0, <1>2 DEF AccessInv, AccountsHonest, NoPowers, Access!ScopeKept
<1>5. r.user \notin stale' => PlainGrants(new)
  <2> SUFFICES ASSUME r.user \notin stale', ~acc.staff, NEW i \in DOMAIN new.grants
               PROVE  new.grants[i] = Access!Plain
    BY <1>2 DEF PlainGrants
  <2>1. i \in Access!Left(r) \cup DOMAIN r.form.grants
    BY <1>2 DEF Access!NewGrants
  <2>2. CASE i \in DOMAIN r.form.grants
    BY <1>0, <1>2, <1>3, <2>1, <2>2 DEF Access!NewGrants, PlainGrants
  <2>3. CASE i \notin DOMAIN r.form.grants
    <3>1. i \in DOMAIN acc.grants /\ r.user \notin stale
      BY <1>3, <2>1, <2>3 DEF Access!Left
    <3>2. new.grants[i] = acc.grants[i]
      BY <1>2, <2>1, <2>3 DEF Access!NewGrants
    <3>3. QED
      BY <1>0, <3>1, <3>2 DEF AccessInv, AccountsHonest, PlainGrants
  <2>4. QED
    BY <2>2, <2>3
<1>6. AccountsHonest'
  <2> SUFFICES ASSUME NEW u \in DOMAIN account
               PROVE  NoPowers(account'[u]) /\ (u \notin stale' => PlainGrants(account'[u]))
    BY <1>1 DEF AccountsHonest
  <2>1. CASE u = r.user
    BY <1>1, <1>4, <1>5, <2>1
  <2>2. CASE u # r.user
    BY <1>1, <1>3, <2>2 DEF AccessInv, AccountsHonest
  <2>3. QED
    BY <2>1, <2>2
<1>7. ASSUME NEW b \in Admin PROVE Advances(request[b], request'[b])
  <2>1. request[b] \in Access!Request
    BY <1>0 DEF Access!TypeOK
  <2>2. CASE b = a
    BY <1>0, <2>2 DEF Access!ReplaceGrants, Advances, Access!Idle, Access!Request
  <2>3. CASE b # a
    <3>1. request'[b] = IF request[b].user = r.user THEN [request[b] EXCEPT !.mine = @ \ r.mine] ELSE request[b]
      BY <2>3 DEF Access!ReplaceGrants
    <3>2. QED
      BY <2>1, <3>1 DEF Advances, Access!Request
  <2>4. QED
    BY <2>2, <2>3
<1>8. ASSUME NEW b \in Admin, request'[b].stage = "slot"
      PROVE  account'[request[b].user].staff = account[request[b].user].staff
  <2>1. request[b].stage = "slot"
    BY <1>7, <1>8 DEF Advances
  <2>2. request[b].user \in DOMAIN account
    BY <1>0, <2>1 DEF Access!TypeOK, Access!Edits
  <2>3. QED
    BY <1>1, <1>2, <2>2
<1>9. QED
  BY <1>6, <1>7, <1>8, HonestAdvance

LEMMA HonestRegistry ==
    ASSUME AccessInv, Access!TypeOK', \/ \E i \in Id : Access!SetActive(i)
                                      \/ \E S \in SUBSET Id : Access!RemoveInstances(S)
    PROVE  AccessInv'
<1>1. ASSUME NEW i \in Id, Access!SetActive(i) PROVE AccessInv'
  <2>1. account' = account /\ request' = request /\ stale' = stale
    BY <1>1 DEF Access!SetActive, Access!history
  <2>2. AccountsHonest'
    BY <2>1 DEF AccessInv, AccountsHonest
  <2>3. \A b \in Admin : Advances(request[b], request'[b])
    BY <2>1 DEF Advances
  <2>4. QED
    BY <2>1, <2>2, <2>3, HonestAdvance
<1>2. ASSUME NEW S \in SUBSET Id, Access!RemoveInstances(S) PROVE AccessInv'
  <2>1. /\ DOMAIN account' = DOMAIN account
        /\ stale' = stale
        /\ \A u \in DOMAIN account : account'[u] = [account[u] EXCEPT !.grants = [j \in DOMAIN @ \ S |-> @[j]]]
    BY <1>2 DEF Access!RemoveInstances, Access!history
  <2>2. ASSUME NEW u \in DOMAIN account
        PROVE  /\ account'[u].staff = account[u].staff /\ account'[u].rights = account[u].rights
               /\ account'[u].scope = account[u].scope
               /\ DOMAIN account'[u].grants \subseteq DOMAIN account[u].grants
               /\ \A j \in DOMAIN account'[u].grants : account'[u].grants[j] = account[u].grants[j]
    <3>1. account[u] \in Access!Account
      BY DEF AccessInv, Access!TypeOK
    <3>2. account'[u].grants = [j \in DOMAIN account[u].grants \ S |-> account[u].grants[j]]
      BY <2>1, <3>1 DEF Access!Account
    <3>3. /\ account'[u].staff = account[u].staff /\ account'[u].rights = account[u].rights
          /\ account'[u].scope = account[u].scope
      BY <2>1, <3>1 DEF Access!Account
    <3>4. QED
      BY <3>2, <3>3
  <2>3. AccountsHonest'
    BY <2>1, <2>2 DEF AccessInv, AccountsHonest, NoPowers, PlainGrants
  <2>4. ASSUME NEW b \in Admin PROVE Advances(request[b], request'[b])
    <3>1. request[b] \in Access!Request /\ request'[b] = [request[b] EXCEPT !.mine = @ \ S]
      BY <1>2 DEF AccessInv, Access!TypeOK, Access!RemoveInstances
    <3>2. QED
      BY <3>1 DEF Advances, Access!Request
  <2>5. ASSUME NEW b \in Admin, request'[b].stage = "slot"
        PROVE  account'[request[b].user].staff = account[request[b].user].staff
    <3>1. request[b].user \in DOMAIN account
      BY <2>4, <2>5 DEF AccessInv, Access!TypeOK, Access!Edits, Advances
    <3>2. QED
      BY <2>2, <3>1
  <2>6. QED
    BY <2>3, <2>4, <2>5, HonestAdvance
<1>3. QED
  BY <1>1, <1>2

LEMMA HonestReadOnly == AccessInv => Access!ReadOnlyHoldsNothing
<1> SUFFICES ASSUME AccessInv, NEW u \in DOMAIN account, ~account[u].staff
             PROVE  /\ account[u].rights = {} /\ account[u].scope # "global"
                    /\ u \notin stale =>
                         /\ \A i \in DOMAIN account[u].grants : account[u].grants[i] = Access!Plain
                         /\ \A i \in DOMAIN row : ~Access!CanOperate(u, i) /\ ~Access!CanNotify(u, i)
  BY DEF Access!ReadOnlyHoldsNothing
<1>1. account[u].rights = {} /\ account[u].scope # "global"
  BY DEF AccessInv, AccountsHonest, NoPowers
<1>2. ASSUME u \notin stale
      PROVE  \A i \in DOMAIN account[u].grants : account[u].grants[i] = Access!Plain
  BY <1>2 DEF AccessInv, AccountsHonest, PlainGrants
<1>3. ASSUME u \notin stale, NEW i \in (DOMAIN row)
      PROVE  ~Access!CanOperate(u, i) /\ ~Access!CanNotify(u, i)
  <2>1. Access!InstanceRole(u, i) # "operator"
    <3>1. CASE i \in DOMAIN account[u].grants
      BY <1>2, <1>3, <3>1 DEF Access!InstanceRole, Access!Plain
    <3>2. CASE i \notin DOMAIN account[u].grants
      BY <3>2 DEF Access!InstanceRole
    <3>3. QED
      BY <3>1, <3>2
  <2>2. ~Access!CanNotify(u, i)
    BY <1>2, <1>3 DEF Access!CanNotify, Access!Plain
  <2>3. QED
    BY <2>1, <2>2 DEF Access!CanOperate
<1>4. QED
  BY <1>1, <1>2, <1>3

LEMMA AccessKept == AccessInv /\ [Access!Next]_Access!vars => AccessInv'
<1> SUFFICES ASSUME AccessInv, [Access!Next]_Access!vars PROVE AccessInv'
  OBVIOUS
<1>0. Access!TypeOK'
  BY AccessTypesKept DEF AccessInv
<1>1. CASE \E a \in Admin : Access!Step(a)
  BY <1>0, <1>1, HonestRequests, HonestCommitRole, HonestCommitSlot, HonestCreate, HonestRollBack,
     HonestDelete, HonestReplace DEF Access!Step
<1>2. CASE UNCHANGED Access!vars
  BY <1>0, <1>2 DEF Access!vars, Access!tables, Access!history, AccessInv, AccountsHonest,
     FormsHonest, SlotsOfOperators, OneLock
<1>3. QED
  BY <1>0, <1>1, <1>2, HonestRegistry DEF Access!Next

\* No interleaving of forms leaves a read-only account with something an operator
\* holds, save the access form that had read the older role or was saved while the
\* switch was going through.
THEOREM ReadOnlyAccounts == Access!Spec => []Access!ReadOnlyHoldsNothing
<1>1. Access!Spec => []AccessInv
  BY HonestInit, AccessKept, PTL DEF Access!Spec
<1>2. QED
  BY <1>1, HonestReadOnly, PTL

-----------------------------------------------------------------------------
(* The access that was saved, and what accounts see of it.                 *)

\* A step that neither saves access nor removes instances.
LEMMA SameAccess ==
    ASSUME Access!GrantsAreTheLastSaved, DOMAIN account' = DOMAIN account,
           \A u \in DOMAIN account : DOMAIN account'[u].grants = DOMAIN account[u].grants,
           intended' = intended, merged' = merged, DOMAIN row' = DOMAIN row
    PROVE  Access!GrantsAreTheLastSaved'
BY DEF Access!GrantsAreTheLastSaved

LEMMA SavedByCommit ==
    ASSUME Access!TypeOK, Access!GrantsAreTheLastSaved, NEW a \in Admin,
           Access!CommitRole(a) \/ Access!CommitSlot(a)
    PROVE  Access!GrantsAreTheLastSaved'
<1> DEFINE r == request[a]
<1>1. r.user \in DOMAIN account /\ account[r.user] \in Access!Account
      BY DEF Access!CommitRole, Access!CommitSlot, Access!TypeOK, Access!Edits
<1>2. DOMAIN row' = DOMAIN row /\ intended' = intended /\ merged' = merged
      BY DEF Access!CommitRole, Access!CommitSlot, Access!history
<1>3. DOMAIN account' = DOMAIN account /\
          \A u \in DOMAIN account : DOMAIN account'[u].grants = DOMAIN account[u].grants
  <2>1. CASE Access!CommitRole(a)
    <3>1. PICK acc \in {account[r.user]} :
             account' = [account EXCEPT ![r.user] =
                [staff |-> r.form.staff, scope |-> r.form.scope,
                 grants |-> Access!RoleGrants(acc, r.form.staff, r.mine),
                 rights |-> IF r.form.staff THEN acc.rights ELSE {}]]
          BY <2>1 DEF Access!CommitRole, Access!Save
    <3>2. DOMAIN Access!RoleGrants(acc, r.form.staff, r.mine) = DOMAIN acc.grants
          BY DEF Access!RoleGrants
    <3> QED BY <1>1, <3>1, <3>2
  <2>2. CASE Access!CommitSlot(a)
    <3>1. account' = [account EXCEPT ![r.user] = [account[r.user] EXCEPT !.rights = r.form.rights]]
          BY <2>2 DEF Access!CommitSlot, Access!Save
    <3> QED BY <1>1, <3>1 DEF Access!Account
  <2> QED BY <2>1, <2>2
<1> QED BY <1>2, <1>3, SameAccess

LEMMA SavedByCreate ==
    ASSUME Access!TypeOK, Access!GrantsAreTheLastSaved, NEW a \in Admin, Access!CreateUser(a)
    PROVE  Access!GrantsAreTheLastSaved'
<1> DEFINE r == request[a]
<1>1. r.user \in User /\ r.user \notin DOMAIN account /\ DOMAIN account \subseteq User
      BY DEF Access!TypeOK, Access!Request, Access!CreateUser
<1>2. /\ account' = [u \in DOMAIN account \cup {r.user} |-> IF u = r.user THEN r.form ELSE account[u]]
      /\ intended' = [intended EXCEPT ![r.user] = DOMAIN r.form.grants]
      /\ DOMAIN r.form.grants \subseteq DOMAIN row
      /\ DOMAIN row' = DOMAIN row /\ merged' = merged
      BY DEF Access!CreateUser
<1>3. intended'[r.user] = DOMAIN r.form.grants /\ \A u \in DOMAIN account : intended'[u] = intended[u]
      BY <1>1, <1>2 DEF Access!TypeOK
<1> QED BY <1>1, <1>2, <1>3 DEF Access!GrantsAreTheLastSaved

\* Rows that the transaction did not delete make the account one of overlapping saves.
LEMMA SavedByReplace ==
    ASSUME Access!TypeOK, Access!GrantsAreTheLastSaved, NEW a \in Admin, Access!ReplaceGrants(a)
    PROVE  Access!GrantsAreTheLastSaved'
<1> DEFINE r == request[a]
           w == r.user
           new == [account[w] EXCEPT !.grants = Access!NewGrants(r), !.scope = Access!ScopeKept(@)]
<1>1. w \in User /\ w \in DOMAIN account /\ account[w] \in Access!Account /\ DOMAIN account \subseteq User
      BY DEF Access!TypeOK, Access!Request, Access!ReplaceGrants, Access!Edits
<1>2. /\ account' = [account EXCEPT ![w] = new]
      /\ intended' = [intended EXCEPT ![w] = DOMAIN r.form.grants]
      /\ merged' = Access!Note(merged, w, Access!Left(r) # {})
      /\ DOMAIN r.form.grants \subseteq DOMAIN row /\ DOMAIN row' = DOMAIN row
      BY DEF Access!ReplaceGrants, Access!Save, Access!Collides
<1>3. new.grants = Access!NewGrants(r)
      BY <1>1 DEF Access!Account
<1>4. DOMAIN Access!NewGrants(r) = Access!Left(r) \cup DOMAIN r.form.grants
      BY DEF Access!NewGrants
<1>5. intended'[w] = DOMAIN r.form.grants /\ \A u \in DOMAIN account \ {w} : intended'[u] = intended[u]
      BY <1>1, <1>2 DEF Access!TypeOK
<1>6. (w \notin merged' => Access!Left(r) = {}) /\ \A u \in DOMAIN account \ {w} : u \in merged' <=> u \in merged
      BY <1>2 DEF Access!Note
<1> HIDE DEF new
<1>7. DOMAIN account' = DOMAIN account /\ account'[w] = new
         /\ \A u \in DOMAIN account \ {w} : account'[u] = account[u]
      BY <1>1, <1>2
<1> QED BY <1>1, <1>2, <1>3, <1>4, <1>5, <1>6, <1>7 DEF Access!GrantsAreTheLastSaved

LEMMA SavedByRemoval ==
    ASSUME Access!TypeOK, Access!GrantsAreTheLastSaved, NEW S \in SUBSET Id, Access!RemoveInstances(S)
    PROVE  Access!GrantsAreTheLastSaved'
<1>1. /\ account' = [u \in DOMAIN account |->
             [account[u] EXCEPT !.grants = [j \in DOMAIN @ \ S |-> @[j]]]]
      /\ DOMAIN row' = DOMAIN row \ S /\ intended' = intended /\ merged' = merged
      BY DEF Access!RemoveInstances, Access!history
<1>2. ASSUME NEW u \in DOMAIN account
      PROVE  DOMAIN account'[u].grants = DOMAIN account[u].grants \ S
  <2>1. account[u] \in Access!Account
        BY <1>2 DEF Access!TypeOK
  <2> DEFINE kept == [j \in DOMAIN account[u].grants \ S |-> account[u].grants[j]]
  <2>2. account'[u] = [account[u] EXCEPT !.grants = kept]
        BY <1>1, <1>2
  <2>3. DOMAIN kept = DOMAIN account[u].grants \ S
        OBVIOUS
  <2> HIDE DEF kept
  <2>4. account'[u].grants = kept
        BY <2>1, <2>2 DEF Access!Account
  <2> QED BY <2>3, <2>4
<1>3. DOMAIN account' = DOMAIN account
      BY <1>1
<1> QED BY <1>1, <1>2, <1>3 DEF Access!GrantsAreTheLastSaved

LEMMA SavedInit == Access!Init => Access!GrantsAreTheLastSaved
<1> SUFFICES ASSUME Access!Init, NEW u \in DOMAIN account
             PROVE  DOMAIN account[u].grants = intended[u] \cap DOMAIN row
    BY DEF Access!GrantsAreTheLastSaved
<1>1. u \in User /\ account[u].grants \in Access!Grants
      BY InitialAccessTypes DEF Access!TypeOK, Access!Account
<1>2. intended[u] = DOMAIN account[u].grants /\ DOMAIN row = Id
      BY <1>1 DEF Access!Init
<1> QED BY <1>1, <1>2, GrantsElim

LEMMA SavedKept ==
    Access!TypeOK /\ Access!GrantsAreTheLastSaved /\ [Access!Next]_Access!vars => Access!GrantsAreTheLastSaved'
<1> SUFFICES ASSUME Access!TypeOK, Access!GrantsAreTheLastSaved, [Access!Next]_Access!vars
             PROVE  Access!GrantsAreTheLastSaved'
    OBVIOUS
<1>1. ASSUME NEW a \in Admin, NEW u \in User,
             \/ Access!LockRole(a, u) \/ Access!LockSlot(a, u) \/ Access!ReadAccess(a, u) \/ Access!ReadNew(a, u)
      PROVE  UNCHANGED <<account, intended, merged, DOMAIN row>>
      BY <1>1 DEF Access!LockRole, Access!LockSlot, Access!ReadAccess, Access!ReadNew, Access!Begin,
         Access!tables, Access!history
<1>2. ASSUME NEW a \in Admin, Access!UpdateGrants(a) \/ Access!DeleteGrants(a) \/ Access!RollBack(a)
      PROVE  UNCHANGED <<account, intended, merged, DOMAIN row>>
      BY <1>2 DEF Access!UpdateGrants, Access!DeleteGrants, Access!RollBack, Access!tables, Access!history
<1>3. ASSUME UNCHANGED Access!vars \/ \E i \in Id : Access!SetActive(i)
      PROVE  UNCHANGED <<account, intended, merged, DOMAIN row>>
      BY <1>3 DEF Access!SetActive, Access!vars, Access!tables, Access!history
<1>4. CASE UNCHANGED <<account, intended, merged, DOMAIN row>>
      BY <1>4, SameAccess
<1> QED BY <1>1, <1>2, <1>3, <1>4, SavedByCommit, SavedByCreate, SavedByReplace, SavedByRemoval
        DEF Access!Next, Access!Step

\* The two ways to decide what an account sees differ in no state.
LEMMA SeenAlike == Access!ListedAreViewable
<1> SUFFICES ASSUME NEW u \in DOMAIN account, NEW i
             PROVE  i \in Access!Accessible(u) <=> i \in active /\ Access!CanView(u, i)
    BY DEF Access!ListedAreViewable, Access!Accessible
<1>1. CASE i \in DOMAIN account[u].grants
  <2>1. Access!Scoped(u)
        BY <1>1 DEF Access!Scoped, Access!NoGrants
  <2>2. Access!CanView(u, i)
        BY <1>1 DEF Access!CanView, Access!InstanceRole
  <2> QED BY <1>1, <2>1, <2>2 DEF Access!Accessible
<1>2. CASE i \notin DOMAIN account[u].grants /\ Access!Scoped(u)
      BY <1>2 DEF Access!Accessible, Access!CanView, Access!InstanceRole
<1>3. CASE i \notin DOMAIN account[u].grants /\ ~Access!Scoped(u)
      BY <1>3 DEF Access!Accessible, Access!CanView, Access!InstanceRole
<1> QED BY <1>1, <1>2, <1>3

AccountsInv == AccessInv /\ Access!GrantsAreTheLastSaved

LEMMA AccountsInit == Access!Init => AccountsInv
BY HonestInit, SavedInit DEF AccountsInv

LEMMA AccountsKept == AccountsInv /\ [Access!Next]_Access!vars => AccountsInv'
<1>1. AccessInv => Access!TypeOK
      BY DEF AccessInv
<1> QED BY <1>1, AccessKept, SavedKept DEF AccountsInv

(***************************************************************************)
(* III. EXCLUSION FLAGS                                                    *)
(***************************************************************************)

-----------------------------------------------------------------------------
(* Types.                                                                  *)

\* The columns that a request holds stay typed when others write the flags of S.
LEMMA WrittenTypes ==
    ASSUME Flags!TypeOK, NEW a \in Admin, NEW r \in Flags!Request, NEW S, Flags!Written(a, r, S)
    PROVE  flagging' \in [Admin -> Flags!Request]
<1>1. ASSUME NEW b \in Admin
      PROVE  [flagging[b] EXCEPT !.mine = @ \ S] \in Flags!Request
      BY DEF Flags!TypeOK, Flags!Request
<1> QED BY <1>1 DEF Flags!Written

LEMMA ChosenTypes ==
    ASSUME Flags!TypeOK, NEW S, Flags!Chosen(S)
    PROVE  DOMAIN cycle' \subseteq Id /\ \A i \in DOMAIN cycle' : cycle'[i] \in Flags!Pending
<1>1. DOMAIN cycle' = DOMAIN cycle
      BY DEF Flags!Chosen
<1>2. ASSUME NEW i \in DOMAIN cycle
      PROVE  cycle'[i] \in Flags!Pending
      BY <1>2 DEF Flags!Chosen, Flags!Pending, Flags!TypeOK
<1> QED BY <1>1, <1>2 DEF Flags!TypeOK

LEMMA IdleFlagging == Flags!Idle \in Flags!Request
BY DEF Flags!Idle, Flags!Request, Flags!Copy

\* What an insertion does, whatever the flag of the new rows is.
Inserted(a, S) ==
    /\ DOMAIN row' = DOMAIN row \cup S /\ active' = active \cup S
    /\ excluded' \in {excluded \cup S, excluded \ S}
    /\ wanted' \in {wanted \cup S, wanted \ S}
    /\ doubtful' \in {doubtful \cup S, doubtful \ S}
    /\ Flags!Written(a, Flags!Idle, S)
    /\ Flags!Chosen(S)

LEMMA InsertTypes ==
    ASSUME Flags!TypeOK, NEW a \in Admin, NEW S \in SUBSET Id, Inserted(a, S)
    PROVE  Flags!TypeOK'
<1>1. flagging' \in [Admin -> Flags!Request]
      BY IdleFlagging, WrittenTypes DEF Inserted
<1>2. DOMAIN cycle' \subseteq Id /\ \A i \in DOMAIN cycle' : cycle'[i] \in Flags!Pending
      BY ChosenTypes DEF Inserted
<1> QED BY <1>1, <1>2 DEF Inserted, Flags!TypeOK

LEMMA InsertsRows ==
    ASSUME NEW a \in Admin, NEW S \in SUBSET Id, Flags!AddInstance(a, S) \/ Flags!ExtendGroup(a, S)
    PROVE  Inserted(a, S)
<1>1. CASE Flags!AddInstance(a, S)
      BY <1>1 DEF Flags!AddInstance, Flags!Insert, Flags!Set, Inserted
<1>2. CASE Flags!ExtendGroup(a, S)
      BY <1>2 DEF Flags!ExtendGroup, Flags!Insert, Flags!Set, Inserted
<1> QED BY <1>1, <1>2

LEMMA LoadTypes ==
    ASSUME Flags!TypeOK, NEW a \in Admin, NEW stage \in {"api", "extend"}, NEW i \in Id, Flags!Load(a, stage, i)
    PROVE  Flags!TypeOK'
<1>1. [Flags!Idle EXCEPT !.stage = stage, !.covers = {i},
           !.copy[i] = [active |-> i \in active, excluded |-> i \in excluded]] \in Flags!Request
  <2> DEFINE columns == [active |-> i \in active, excluded |-> i \in excluded]
  <2>1. columns \in Flags!Copy
        BY DEF Flags!Copy
  <2>2. [Flags!Idle.copy EXCEPT ![i] = columns] \in [Id -> Flags!Copy]
        BY <2>1 DEF Flags!Idle, Flags!Copy
  <2> QED BY <2>2 DEF Flags!Idle, Flags!Request
<1> QED BY <1>1 DEF Flags!Load, Flags!TypeOK, Flags!flags

\* Every step keeps the types: one step per action.
LEMMA FlagTypesKept == Flags!TypeOK /\ [Flags!Next]_Flags!vars => Flags!TypeOK'
<1> SUFFICES ASSUME Flags!TypeOK, [Flags!Next]_Flags!vars PROVE Flags!TypeOK'
    OBVIOUS
<1>1. ASSUME NEW a \in Admin, NEW S \in SUBSET Id, Flags!ClearFlags(a, S)
      PROVE  Flags!TypeOK'
  <2>1. [Flags!Idle EXCEPT !.stage = "mark", !.chosen = S, !.covers = active, !.mine = active] \in Flags!Request
        BY IdleFlagging DEF Flags!Request, Flags!TypeOK
  <2>2. flagging' \in [Admin -> Flags!Request]
        BY <1>1, <2>1, WrittenTypes DEF Flags!ClearFlags
  <2> QED BY <1>1, <2>2 DEF Flags!ClearFlags, Flags!Cleared, Flags!TypeOK
<1>2. ASSUME NEW a \in Admin, Flags!MarkChosen(a)
      PROVE  Flags!TypeOK'
  <2>1. flagging' \in [Admin -> Flags!Request]
        BY <1>2, IdleFlagging, WrittenTypes DEF Flags!MarkChosen
  <2>2. flagging[a] \in Flags!Request
        BY DEF Flags!TypeOK
  <2>3. DOMAIN cycle' \subseteq Id /\ \A i \in DOMAIN cycle' : cycle'[i] \in Flags!Pending
        BY <1>2, ChosenTypes DEF Flags!MarkChosen
  <2> QED BY <1>2, <2>1, <2>2, <2>3 DEF Flags!MarkChosen, Flags!TypeOK, Flags!Request
<1>3. ASSUME NEW a \in Admin, NEW i \in Id, Flags!SaveOwnerForm(a, i)
      PROVE  Flags!TypeOK'
  <2>1. flagging' \in [Admin -> Flags!Request]
        BY <1>3, IdleFlagging, WrittenTypes DEF Flags!SaveOwnerForm
  <2>2. DOMAIN cycle' \subseteq Id /\ \A j \in DOMAIN cycle' : cycle'[j] \in Flags!Pending
        BY <1>3, ChosenTypes DEF Flags!SaveOwnerForm
  <2> QED BY <1>3, <2>1, <2>2 DEF Flags!SaveOwnerForm, Flags!Set, Flags!TypeOK
<1>4. ASSUME NEW a \in Admin, NEW i \in Id, NEW stage \in {"api", "extend"}, Flags!Load(a, stage, i)
      PROVE  Flags!TypeOK'
      BY <1>4, LoadTypes
<1>5. ASSUME NEW a \in Admin, Flags!SaveRow(a)
      PROVE  Flags!TypeOK'
  <2>1. flagging' \in [Admin -> Flags!Request]
        BY <1>5, IdleFlagging, WrittenTypes DEF Flags!SaveRow
  <2>2. flagging[a].covers \subseteq Id
        BY DEF Flags!TypeOK, Flags!Request
  <2>3. DOMAIN cycle' \subseteq Id /\ \A j \in DOMAIN cycle' : cycle'[j] \in Flags!Pending
        BY <1>5, ChosenTypes DEF Flags!SaveRow, Flags!TypeOK
  <2> QED BY <1>5, <2>1, <2>2, <2>3 DEF Flags!SaveRow, Flags!Set, Flags!TypeOK
<1>6. ASSUME NEW a \in Admin, Flags!Die(a)
      PROVE  Flags!TypeOK'
      BY <1>6, IdleFlagging DEF Flags!Die, Flags!TypeOK, Flags!flags
<1>7. CASE Flags!ReadInstances
      BY <1>7 DEF Flags!ReadInstances, Flags!TypeOK, Flags!Pending, Flags!flags
<1>8. ASSUME NEW i \in Id, Flags!ProcessInstance(i)
      PROVE  Flags!TypeOK'
      BY <1>8 DEF Flags!ProcessInstance, Flags!TypeOK, Flags!flags
<1>9. CASE UNCHANGED Flags!vars
      BY <1>9 DEF Flags!vars, Flags!flags, Flags!TypeOK
<1>10. ASSUME NEW a \in Admin, NEW S \in SUBSET Id, Flags!AddInstance(a, S) \/ Flags!ExtendGroup(a, S)
      PROVE  Flags!TypeOK'
      BY <1>10, InsertTypes, InsertsRows
<1> QED BY <1>1, <1>2, <1>3, <1>4, <1>5, <1>6, <1>7, <1>8, <1>9, <1>10
       DEF Flags!Next, Flags!Step, Flags!Adds, Flags!Cycle

LEMMA InitialFlagTypes == Flags!Init => Flags!TypeOK
BY IdleFlagging DEF Flags!Init, Flags!NoRequests, Flags!NoCycle, Flags!TypeOK

\* Flags, requests and cycle keep their types, whatever forms, saves, deaths and
\* cycles overlap.
THEOREM FlagTypes == Flags!Spec => []Flags!TypeOK
BY InitialFlagTypes, FlagTypesKept, PTL DEF Flags!Spec

-----------------------------------------------------------------------------
(* Flags and cards follow the choices.  A form that has cleared the flags  *)
(* is the reason for some of the doubt; what it will do is known only for  *)
(* the instances nobody has written since, whose flags are still down.     *)

FormsClear ==
    \A a \in Admin : flagging[a].mine \cap excluded = {} /\ flagging[a].mine \subseteq flagging[a].covers

FlagInv == Flags!TypeOK /\ Flags!FlagsAsChosen /\ FormsClear /\ Flags!ExclusionsRespected

\* Flags that go up are among those written, so no form claims them as its own.
LEMMA FormsStayClear ==
    ASSUME FlagInv, NEW a \in Admin, NEW r \in Flags!Request, NEW S, Flags!Written(a, r, S),
           excluded' \subseteq excluded \cup S,
           r.mine \cap excluded' = {}, r.mine \subseteq r.covers
    PROVE  FormsClear'
<1>1. ASSUME NEW b \in Admin, b # a
      PROVE  flagging'[b].mine = flagging[b].mine \ S /\ flagging'[b].covers = flagging[b].covers
      BY <1>1 DEF Flags!Written, FlagInv, Flags!TypeOK, Flags!Request
<1>2. flagging'[a] = r
      BY DEF Flags!Written
<1> QED BY <1>1, <1>2 DEF FormsClear, FlagInv

\* A choice about S leaves the cards of other instances as they are.
LEMMA ChoiceRespected ==
    ASSUME FlagInv, NEW S, Flags!Chosen(S), \A i \in Id \ S : i \in wanted' <=> i \in wanted
    PROVE  Flags!ExclusionsRespected'
<1>1. DOMAIN cycle' = DOMAIN cycle
      BY DEF Flags!Chosen
<1>2. ASSUME NEW i \in DOMAIN cycle, cycle'[i].sure
      PROVE  "channel" \in Flags!Webhooks(cycle'[i]) <=> i \notin wanted'
  <2>1. cycle[i] \in Flags!Pending /\ i \in Id
        BY DEF FlagInv, Flags!TypeOK
  <2>2. cycle[i].sure /\ i \notin S /\ cycle'[i].excluded = cycle[i].excluded
        BY <1>2, <2>1 DEF Flags!Chosen, Flags!Pending
  <2> QED BY <2>1, <2>2 DEF FlagInv, Flags!ExclusionsRespected, Flags!Webhooks
<1> QED BY <1>1, <1>2 DEF Flags!ExclusionsRespected

\* New instances whose flag is as chosen, or in doubt, keep the invariant.
LEMMA InsertKeeps ==
    ASSUME FlagInv, NEW a \in Admin, NEW S \in SUBSET Id, Inserted(a, S),
           \A j \in S \ doubtful' : j \in excluded' <=> j \in wanted'
    PROVE  FlagInv'
<1>1. Flags!TypeOK'
      BY InsertTypes DEF FlagInv
<1>2. FormsClear'
  <2>1. Flags!Idle.mine = {} /\ excluded' \subseteq excluded \cup S
        BY DEF Flags!Idle, Inserted
  <2> QED BY <2>1, IdleFlagging, FormsStayClear DEF Inserted
<1>3. Flags!FlagsAsChosen'
      BY DEF FlagInv, Flags!FlagsAsChosen, Inserted
<1>4. Flags!ExclusionsRespected'
      BY ChoiceRespected DEF Inserted
<1> QED BY <1>1, <1>2, <1>3, <1>4 DEF FlagInv

\* Every step keeps the invariant: one step per action.
LEMMA FlagsKept == FlagInv /\ [Flags!Next]_Flags!vars => FlagInv'
<1> SUFFICES ASSUME FlagInv, [Flags!Next]_Flags!vars PROVE FlagInv'
    OBVIOUS
<1>0. Flags!TypeOK /\ Flags!TypeOK'
      BY FlagTypesKept DEF FlagInv
<1>1. ASSUME NEW a \in Admin, NEW S \in SUBSET Id, Flags!ClearFlags(a, S)
      PROVE  FlagInv'
  <2> DEFINE r == [Flags!Idle EXCEPT !.stage = "mark", !.chosen = S, !.covers = active, !.mine = active]
  <2>1. r \in Flags!Request /\ r.mine = active /\ r.covers = active
        BY <1>0, IdleFlagging DEF Flags!Request, Flags!TypeOK, Flags!Idle
  <2>2. excluded' = excluded \ active /\ Flags!Written(a, r, excluded \cap active)
        BY <1>1 DEF Flags!ClearFlags, Flags!Cleared
  <2>3. FormsClear'
        BY <2>1, <2>2, FormsStayClear
  <2>4. Flags!FlagsAsChosen'
        BY <1>1, <2>2 DEF Flags!ClearFlags, FlagInv, Flags!FlagsAsChosen
  <2>5. Flags!ExclusionsRespected'
        BY <1>1 DEF Flags!ClearFlags, FlagInv, Flags!ExclusionsRespected
  <2> QED BY <1>0, <2>3, <2>4, <2>5 DEF FlagInv
<1>2. ASSUME NEW a \in Admin, Flags!MarkChosen(a)
      PROVE  FlagInv'
  <2> DEFINE r == flagging[a]
             ticked == r.chosen \cap active
             settled == ticked \cup (r.mine \cap active)
  <2>1. r.mine \cap excluded = {} /\ r.mine \subseteq r.covers
        BY DEF FlagInv, FormsClear
  <2>2. /\ excluded' = excluded \cup ticked
        /\ wanted' = (wanted \ settled) \cup ticked
        /\ doubtful' = (doubtful \ settled) \cup (r.covers \ (r.mine \cup ticked))
        /\ Flags!Written(a, Flags!Idle, settled)
        /\ Flags!Chosen(r.covers \cup ticked)
        BY <1>2 DEF Flags!MarkChosen
  <2>3. FormsClear'
    <3>1. Flags!Idle.mine = {}
          BY DEF Flags!Idle
    <3> QED BY <2>2, <3>1, IdleFlagging, FormsStayClear
  <2>4. Flags!FlagsAsChosen'
        BY <2>1, <2>2 DEF FlagInv, Flags!FlagsAsChosen
  <2>5. Flags!ExclusionsRespected'
        BY <2>1, <2>2, ChoiceRespected
  <2> QED BY <1>0, <2>3, <2>4, <2>5 DEF FlagInv
<1>3. ASSUME NEW a \in Admin, NEW i \in Id, Flags!SaveOwnerForm(a, i)
      PROVE  FlagInv'
  <2>1. PICK flag \in BOOLEAN : excluded' = Flags!Set(excluded, {i}, flag) /\ wanted' = Flags!Set(wanted, {i}, flag)
        BY <1>3 DEF Flags!SaveOwnerForm
  <2>2. doubtful' = doubtful \ {i} /\ Flags!Written(a, Flags!Idle, {i}) /\ Flags!Chosen({i})
        BY <1>3 DEF Flags!SaveOwnerForm
  <2>3. FormsClear'
    <3>1. Flags!Idle.mine = {}
          BY DEF Flags!Idle
    <3> QED BY <2>1, <2>2, <3>1, IdleFlagging, FormsStayClear DEF Flags!Set
  <2>4. Flags!FlagsAsChosen'
        BY <2>1, <2>2 DEF FlagInv, Flags!FlagsAsChosen, Flags!Set
  <2>5. Flags!ExclusionsRespected'
        BY <2>1, <2>2, ChoiceRespected DEF Flags!Set
  <2> QED BY <1>0, <2>3, <2>4, <2>5 DEF FlagInv
<1>4. ASSUME NEW a \in Admin, NEW i \in Id, NEW stage \in {"api", "extend"}, Flags!Load(a, stage, i)
      PROVE  FlagInv'
  <2>1. ASSUME NEW b \in Admin
        PROVE  flagging'[b].mine = {} \/ flagging'[b] = flagging[b]
        BY <1>4 DEF Flags!Load, Flags!Idle, FlagInv, Flags!TypeOK
  <2>2. UNCHANGED <<excluded, wanted, doubtful, cycle>>
        BY <1>4 DEF Flags!Load, Flags!flags
  <2> QED BY <1>0, <2>1, <2>2 DEF FlagInv, FormsClear, Flags!FlagsAsChosen,
             Flags!ExclusionsRespected
<1>5. ASSUME NEW a \in Admin, Flags!SaveRow(a)
      PROVE  FlagInv'
  <2>1. PICK i \in flagging[a].covers, given \in BOOLEAN, flag \in BOOLEAN :
          LET old == flagging[a].copy[i].excluded
              new == IF given THEN flag ELSE old IN
          /\ excluded' = Flags!Set(excluded, {i}, new)
          /\ wanted' = IF given THEN Flags!Set(wanted, {i}, flag) ELSE wanted
          /\ doubtful' = IF given THEN doubtful \ {i}
                         ELSE IF old # (i \in excluded) THEN doubtful \cup {i} ELSE doubtful
          /\ Flags!Written(a, Flags!Idle, {i})
          /\ IF given THEN Flags!Chosen({i}) ELSE UNCHANGED cycle
        BY <1>5 DEF Flags!SaveRow
  <2>2. i \in Id /\ flagging[a].copy[i].excluded \in BOOLEAN
        BY <1>0 DEF Flags!TypeOK, Flags!Request, Flags!Copy
  <2>3. FormsClear'
    <3>1. Flags!Idle.mine = {}
          BY DEF Flags!Idle
    <3>2. excluded' \subseteq excluded \cup {i}
          BY <2>1 DEF Flags!Set
    <3> QED BY <2>1, <3>1, <3>2, IdleFlagging, FormsStayClear
  <2>4. Flags!FlagsAsChosen'
        BY <2>1, <2>2 DEF FlagInv, Flags!FlagsAsChosen, Flags!Set
  <2>5. Flags!ExclusionsRespected'
    <3>1. CASE given
      <4>1. \A j \in Id \ {i} : j \in wanted' <=> j \in wanted
            BY <2>1, <3>1 DEF Flags!Set
      <4> QED BY <2>1, <3>1, <4>1, ChoiceRespected
    <3>2. CASE ~given
          BY <2>1, <3>2 DEF FlagInv, Flags!ExclusionsRespected
    <3> QED BY <3>1, <3>2
  <2> QED BY <1>0, <2>3, <2>4, <2>5 DEF FlagInv
<1>6. ASSUME NEW a \in Admin, Flags!Die(a)
      PROVE  FlagInv'
  <2>1. ASSUME NEW b \in Admin
        PROVE  flagging'[b].mine = {} \/ flagging'[b] = flagging[b]
        BY <1>6 DEF Flags!Die, Flags!Idle, FlagInv, Flags!TypeOK
  <2>2. UNCHANGED <<excluded, wanted, doubtful, cycle>>
        BY <1>6 DEF Flags!Die, Flags!flags
  <2> QED BY <1>0, <2>1, <2>2 DEF FlagInv, FormsClear, Flags!FlagsAsChosen,
             Flags!ExclusionsRespected
<1>7. CASE Flags!ReadInstances
  <2>1. Flags!ExclusionsRespected'
        BY <1>0, <1>7 DEF Flags!ReadInstances, FlagInv, Flags!FlagsAsChosen,
           Flags!ExclusionsRespected, Flags!Webhooks, Flags!TypeOK, Flags!flags
  <2> QED BY <1>0, <1>7, <2>1 DEF Flags!ReadInstances, FlagInv, FormsClear, Flags!FlagsAsChosen,
             Flags!flags
<1>8. ASSUME NEW i \in Id, Flags!ProcessInstance(i)
      PROVE  FlagInv'
  <2>1. Flags!ExclusionsRespected'
        BY <1>8 DEF Flags!ProcessInstance, FlagInv, Flags!ExclusionsRespected, Flags!flags
  <2> QED BY <1>0, <1>8, <2>1 DEF Flags!ProcessInstance, FlagInv, FormsClear, Flags!FlagsAsChosen,
             Flags!flags
<1>9. CASE UNCHANGED Flags!vars
      BY <1>0, <1>9 DEF Flags!vars, Flags!flags, FlagInv, FormsClear, Flags!FlagsAsChosen,
         Flags!ExclusionsRespected
<1>10. ASSUME NEW a \in Admin, NEW S \in SUBSET Id, Flags!AddInstance(a, S)
      PROVE  FlagInv'
  <2>1. \A j \in S \ doubtful' : j \in excluded' <=> j \in wanted'
        BY <1>10 DEF Flags!AddInstance, Flags!Insert, Flags!Set
  <2> QED BY <1>10, <2>1, InsertsRows, InsertKeeps
<1>11. ASSUME NEW a \in Admin, NEW S \in SUBSET Id, Flags!ExtendGroup(a, S)
      PROVE  FlagInv'
  <2> DEFINE flag(i) == flagging[a].copy[i].excluded
  <2>1. PICK i \in flagging[a].covers :
          /\ excluded' = IF flag(i) THEN excluded \cup S ELSE excluded \ S
          /\ wanted' = IF i \in wanted THEN wanted \cup S ELSE wanted \ S
          /\ doubtful' = IF i \in doubtful \/ flag(i) # (i \in excluded) THEN doubtful \cup S ELSE doubtful \ S
        BY <1>11 DEF Flags!ExtendGroup, Flags!Insert, Flags!Set
  <2>2. i \in Id /\ flag(i) \in BOOLEAN
        BY <1>0 DEF Flags!TypeOK, Flags!Request, Flags!Copy
  <2>3. i \notin doubtful => (i \in excluded <=> i \in wanted)
        BY <2>2 DEF FlagInv, Flags!FlagsAsChosen
  <2>4. \A j \in S \ doubtful' : j \in excluded' <=> j \in wanted'
    <3> HIDE DEF flag
    <3> QED BY <2>1, <2>2, <2>3
  <2> QED BY <1>11, <2>4, InsertsRows, InsertKeeps
<1> QED BY <1>1, <1>2, <1>3, <1>4, <1>5, <1>6, <1>7, <1>8, <1>9, <1>10, <1>11
       DEF Flags!Next, Flags!Step, Flags!Adds, Flags!Cycle

LEMMA InitialFlags == Flags!Init => FlagInv
BY InitialFlagTypes DEF Flags!Init, Flags!NoRequests, Flags!NoCycle, Flags!Idle, FlagInv,
   FormsClear, Flags!FlagsAsChosen, Flags!ExclusionsRespected

LEMMA FlagInvariant == Flags!Spec => []FlagInv
BY InitialFlags, FlagsKept, PTL DEF Flags!Spec

\* A flag is what was last chosen for its instance, for every instance no form is
\* in the middle of, has died over or was overtaken on, and no API save has put back.
THEOREM FlagsFollowChoices == Flags!Spec => []Flags!FlagsAsChosen
<1>1. FlagInv => Flags!FlagsAsChosen
      BY DEF FlagInv
<1> QED BY <1>1, FlagInvariant, PTL

\* Cards go to the shared channel if and only if their instance was last chosen to
\* be included, for any number of administrators, instances and overlapping saves.
THEOREM ChannelFollowsChoices == Flags!Spec => []Flags!ExclusionsRespected
<1>1. FlagInv => Flags!ExclusionsRespected
      BY DEF FlagInv
<1> QED BY <1>1, FlagInvariant, PTL

(***************************************************************************)
(* IV. THE DESK                                                            *)
(***************************************************************************)

-----------------------------------------------------------------------------
(* The steps of the components, taken together at the desk.                *)

LEMMA StepsOfRegistry ==
    ASSUME Registry!Next \/ UNCHANGED registry
    PROVE  [Registry!Next]_Registry!vars
BY DEF registry, Registry!vars, Registry!log

\* Switching an instance on or off; removals from the registry, with their cascade.
LEMMA StepsOfInstances ==
    ASSUME \/ UNCHANGED registry /\ \E i \in Id : Access!SetActive(i)
           \/ DOMAIN row \subseteq Id /\ Cascade
    PROVE  [Access!Next]_Access!vars
<1>1. CASE UNCHANGED registry /\ \E i \in Id : Access!SetActive(i)
      BY <1>1 DEF Access!Next
<1>2. CASE DOMAIN row \subseteq Id /\ Cascade
  <2>1. DOMAIN row \ DOMAIN row' \in SUBSET Id
        BY <1>2
  <2>2. CASE DOMAIN row' = DOMAIN row
        BY <1>2, <2>2 DEF Cascade, access, Access!vars, Access!tables, Access!history
  <2>3. CASE DOMAIN row' # DOMAIN row
        BY <1>2, <2>1, <2>3 DEF Cascade, Access!Next
  <2> QED BY <2>2, <2>3
<1> QED BY <1>1, <1>2

-----------------------------------------------------------------------------
(* The invariant.  The registry is in use whatever a behaviour is about;   *)
(* accounts and flags are idle unless it is about them.                    *)

AccountsFit == IF subject = "accounts" THEN AccountsInv ELSE DOMAIN account = {}
FlagsFit == IF subject = "flags" THEN FlagInv ELSE DOMAIN cycle = {}
DeskInv == RegistryInv /\ AccountsFit /\ FlagsFit

\* The registrations that a behaviour about accounts or flags starts with.
LEMMA RegisteredFits ==
    ASSUME NEW S \in SUBSET Id, InOneGroup(S)
    PROVE  RegistryInv
<1>1. PICK g \in Group : row = [i \in S |-> Registered(g)]
      BY DEF InOneGroup
<1>2. AnyName \in Name /\ AnyEndpoint \in Endpoint
      BY SomeAssumption DEF AnyName, AnyEndpoint
<1>3. Registered(g) \in Registry!Row
      BY <1>2 DEF Registered, Registry!Row
<1>4. used = S /\ audited = {} /\ lost = {} /\ edit = [a \in Admin |-> Registry!Idle]
      BY DEF InOneGroup
<1>5. Registry!Idle \in Registry!Request /\ Registry!Idle.ids = {} /\ Registry!Idle.copy = {} /\ Registry!Idle.stage = "idle"
      BY IdleEdit
<1>6. Registry!TypeOK
      BY <1>1, <1>3, <1>4, <1>5 DEF Registry!TypeOK
<1>7. CopiesKnown /\ Registry!RemovalsAudited /\ DeletesAudited /\ GroupsAgree
      BY <1>1, <1>4, <1>5 DEF CopiesKnown, Registry!RemovalsAudited, DeletesAudited, GroupsAgree
<1>8. Fits(Registered(g))
      BY DEF Fits, Registry!UsesControl, Registered
<1>9. AllFit /\ Registry!MembersShareName
      BY <1>1, <1>4, <1>5, <1>8 DEF AllFit, Registry!MembersShareName
<1> QED BY <1>1, <1>6, <1>7, <1>9 DEF RegistryInv

LEMMA InitialDesk == Init => DeskInv
<1> SUFFICES ASSUME Init PROVE DeskInv
    OBVIOUS
<1>1. Flags!NoRequests => DOMAIN cycle = {}
      BY DEF Flags!NoRequests, Flags!NoCycle
<1>2. CASE subject = "accounts" /\ InOneGroup(Id) /\ Access!Init /\ Flags!NoRequests
      BY <1>1, <1>2, RegisteredFits, AccountsInit DEF DeskInv, AccountsFit, FlagsFit
<1>3. CASE subject = "flags" /\ (\E S \in SUBSET Id : InOneGroup(S)) /\ Flags!Init /\ DOMAIN account = {}
      BY <1>3, RegisteredFits, InitialFlags DEF DeskInv, AccountsFit, FlagsFit
<1>4. CASE subject \in {"credentials", "names"} /\ Registry!Init /\ Flags!NoRequests /\ DOMAIN account = {}
      BY <1>1, <1>4, InitialRegistry DEF DeskInv, AccountsFit, FlagsFit
<1> QED BY <1>2, <1>3, <1>4 DEF Init

\* Every step of the desk is one of its components, and leaves the others' parts alone.
LEMMA DeskKept == DeskInv /\ [Next]_vars => DeskInv'
<1> SUFFICES ASSUME DeskInv, [Next]_vars PROVE DeskInv'
    OBVIOUS
<1>0. RegistryInv /\ AccountsFit /\ FlagsFit /\ DOMAIN row \subseteq Id
      BY DEF DeskInv, RegistryInv, Registry!TypeOK
<1>1. CASE Accounts /\ UNCHANGED subject
  <2>1. [Registry!Next]_Registry!vars /\ [Access!Next]_Access!vars
    <3>1. CASE \E a \in Admin : UNCHANGED registry /\ Access!Step(a)
          BY <3>1, StepsOfRegistry DEF Access!Next
    <3>2. CASE \E i \in Id : UNCHANGED registry /\ Access!SetActive(i)
          BY <3>2, StepsOfRegistry, StepsOfInstances
    <3>3. CASE \E a \in Admin : (Registry!RemovesGroup(a) \/ Registry!GiveUp(a)) /\ Cascade
          BY <1>0, <3>3, StepsOfInstances DEF Registry!Next
    <3> QED BY <1>1, <3>1, <3>2, <3>3 DEF Accounts
  <2>2. RegistryInv'
        BY <1>0, <2>1, RegistryKept
  <2>3. AccountsFit'
        BY <1>0, <1>1, <2>1, AccountsKept DEF Accounts, AccountsFit
  <2>4. FlagsFit'
        BY <1>0, <1>1 DEF Accounts, FlagsFit, exclusions
  <2> QED BY <2>2, <2>3, <2>4 DEF DeskInv
<1>2. CASE (Credentials \/ Names) /\ UNCHANGED subject
  <2>1. [Registry!Next]_Registry!vars
        BY <1>2, StepsOfRegistry DEF Credentials, Names, Registry!Next
  <2>2. RegistryInv'
        BY <1>0, <2>1, RegistryKept
  <2>3. AccountsFit' /\ FlagsFit'
        BY <1>0, <1>2 DEF Credentials, Names, AccountsFit, FlagsFit, access, exclusions
  <2> QED BY <2>2, <2>3 DEF DeskInv
<1>3. CASE Flagging /\ UNCHANGED subject
  <2>1. RegistryInv'
    <3>1. Registry!Next \/ UNCHANGED registry
          BY <1>3 DEF Flagging, Registry!Next, Registry!Edits
    <3> QED BY <1>0, <3>1, StepsOfRegistry, RegistryKept
  <2>2. FlagsFit'
    <3>1. Flags!Next
          BY <1>3 DEF Flagging, Flags!Next, Flags!Step, Flags!Adds
    <3> QED BY <1>0, <1>3, <3>1, FlagsKept DEF Flagging, FlagsFit
  <2>3. AccountsFit'
        BY <1>0, <1>3 DEF Flagging, AccountsFit
  <2> QED BY <2>1, <2>2, <2>3 DEF DeskInv
<1>4. CASE UNCHANGED vars
  <2>1. UNCHANGED registry /\ UNCHANGED Access!vars /\ UNCHANGED Flags!vars
        BY <1>4 DEF vars, registry, access, exclusions, Access!vars, Access!tables, Access!history,
           Flags!vars, Flags!flags
  <2>2. RegistryInv'
        BY <1>0, <2>1, StepsOfRegistry, RegistryKept
  <2>3. AccountsFit'
        BY <1>0, <1>4, <2>1, AccountsKept DEF vars, access, AccountsFit
  <2>4. FlagsFit'
        BY <1>0, <1>4, <2>1, FlagsKept DEF vars, exclusions, FlagsFit
  <2> QED BY <2>2, <2>3, <2>4 DEF DeskInv
<1> QED BY <1>1, <1>2, <1>3, <1>4 DEF Next

LEMMA DeskInvariant == Spec => []DeskInv
BY InitialDesk, DeskKept, PTL DEF Spec

-----------------------------------------------------------------------------
(* The properties.                                                         *)

\* A read-only account keeps nothing of an operator, while instances are switched
\* on and off and removed with their grants, save the access form that had read
\* the older role.
THEOREM ReadOnlyAtTheDesk == Spec => []ReadOnlyHoldsNothing
<1>1. DeskInv => ReadOnlyHoldsNothing
  <2> SUFFICES ASSUME DeskInv PROVE Access!ReadOnlyHoldsNothing
      BY DEF ReadOnlyHoldsNothing
  <2>1. CASE subject = "accounts"
        BY <2>1, HonestReadOnly DEF DeskInv, AccountsFit, AccountsInv
  <2>2. CASE subject # "accounts"
        BY <2>2 DEF DeskInv, AccountsFit, Access!ReadOnlyHoldsNothing
  <2> QED BY <2>1, <2>2
<1> QED BY <1>1, DeskInvariant, PTL

\* Each save of access is all of the access an account has, whichever saves failed and
\* whatever was removed in between, unless it overlapped with another.
THEOREM AccessAtTheDesk == Spec => []GrantsAreTheLastSaved
<1>1. DeskInv => GrantsAreTheLastSaved
  <2> SUFFICES ASSUME DeskInv PROVE Access!GrantsAreTheLastSaved
      BY DEF GrantsAreTheLastSaved
  <2>1. CASE subject = "accounts"
        BY <2>1 DEF DeskInv, AccountsFit, AccountsInv
  <2>2. CASE subject # "accounts"
        BY <2>2 DEF DeskInv, AccountsFit, Access!GrantsAreTheLastSaved
  <2> QED BY <2>1, <2>2
<1> QED BY <1>1, DeskInvariant, PTL

\* accessible_instances and instance_role show an account the same instances: they
\* agree on every account that can be stored, not only on those a form can save.
THEOREM ListsAtTheDesk == Spec => []ListedAreViewable
<1>1. ListedAreViewable
      BY SeenAlike DEF ListedAreViewable
<1> QED BY <1>1, PTL

LEMMA RegistryAtTheDesk ==
    DeskInv => /\ Registry!RemovalsAudited
               /\ Registry!ControlPasswordFits /\ Registry!MembersShareName
BY RegistryFacts DEF DeskInv

\* No registration disappears without its audit entry, whoever removes it, and how.
THEOREM RemovalsAuditedAtTheDesk == Spec => []RemovalsAudited
<1>1. DeskInv => RemovalsAudited
      BY RegistryAtTheDesk DEF RemovalsAudited
<1> QED BY <1>1, DeskInvariant, PTL

\* The dedicated role logs in with a password that was issued for it at that server,
\* save what was written from credentials that had been changed since.
THEOREM PasswordsAtTheDesk == Spec => []ControlPasswordFits
<1>1. DeskInv => ControlPasswordFits
      BY RegistryAtTheDesk DEF ControlPasswordFits
<1> QED BY <1>1, DeskInvariant, PTL

\* The targets of a group share their name, save those named apart.
THEOREM NamesAtTheDesk == Spec => []MembersShareName
<1>1. DeskInv => MembersShareName
      BY RegistryAtTheDesk DEF MembersShareName
<1> QED BY <1>1, DeskInvariant, PTL

\* Cards go to the shared channel if and only if their instance was last chosen to
\* be included, save choices that overlapped or were cut short.
THEOREM ChannelAtTheDesk == Spec => []ExclusionsRespected
<1>1. DeskInv => ExclusionsRespected
  <2> SUFFICES ASSUME DeskInv PROVE Flags!ExclusionsRespected
      BY DEF ExclusionsRespected
  <2>1. CASE subject = "flags"
        BY <2>1 DEF DeskInv, FlagsFit, FlagInv
  <2>2. CASE subject # "flags"
        BY <2>2 DEF DeskInv, FlagsFit, Flags!ExclusionsRespected
  <2> QED BY <2>1, <2>2
<1> QED BY <1>1, DeskInvariant, PTL
=================================================================================
