----------------------------- MODULE Administration -----------------------------
(***************************************************************************)
(* Administrators at work: accounts (UserAccess), the registry             *)
(* (InstanceRegistry) and the exclusion flags (Exclusions) together.  The  *)
(* instances that exist are the rows of the registry, a removal takes the  *)
(* grants with it, and is_active is one column for accounts and flags.     *)
(*                                                                         *)
(* The components meet only there, so a behaviour has one of four          *)
(* subjects: accounts while instances are removed; the credentials of      *)
(* registrations; their names and removals; their flags.  An administrator *)
(* does one thing at a time.                                               *)
(***************************************************************************)
CONSTANTS Admin, User, Id, Right, Group, Name, Endpoint, Control, NoControl, NoPassword

ASSUME NoValuesAssumption ==
    /\ NoControl \notin Control
    /\ NoPassword \notin (Control \cup {NoControl}) \X Endpoint

\* A registration has a name and a server.
ASSUME SomeAssumption == Name # {} /\ Endpoint # {}

VARIABLES
    row, used, audited, lost, edit,                        \* InstanceRegistry
    active, account, request, intended, stale, merged,     \* UserAccess
    excluded, flagging, cycle, wanted, doubtful,           \* Exclusions
    subject

registry == <<row, used, audited, lost, edit>>
access == <<active, account, request, intended, stale, merged>>
exclusions == <<excluded, flagging, cycle, wanted, doubtful>>
vars == <<registry, access, exclusions, subject>>

Registry == INSTANCE InstanceRegistry WITH request <- edit
Access == INSTANCE UserAccess WITH Instance <- Id, registered <- DOMAIN row
Flags == INSTANCE Exclusions WITH Instance <- Id, registered <- DOMAIN row, request <- flagging

\* The name, or the endpoint, of a behaviour in which it does not matter.
AnyName == CHOOSE n \in Name : TRUE
AnyEndpoint == CHOOSE e \in Endpoint : TRUE

\* A registration as add_instance leaves it, without lock control.
Registered(g) ==
    [name |-> AnyName, group |-> g, endpoint |-> AnyEndpoint, lock_control |-> FALSE, user |-> NoControl,
     password |-> NoPassword, apart |-> FALSE, mixed |-> FALSE]

InOneGroup(S) ==
    /\ \E g \in Group : row = [i \in S |-> Registered(g)]
    /\ used = S
    /\ audited = {}
    /\ lost = {}
    /\ edit = [a \in Admin |-> Registry!Idle]

Init ==
    \/ /\ subject = "accounts"
       /\ InOneGroup(Id)
       /\ Access!Init
       /\ Flags!NoRequests
    \/ /\ subject \in {"credentials", "names", "flags"}
       /\ IF subject = "flags" THEN (\E S \in SUBSET Id : InOneGroup(S)) /\ Flags!Init
          ELSE Registry!Init /\ active = {} /\ Flags!NoRequests
       /\ account = [u \in {} |-> Access!None]
       /\ \E u \in User : request = [a \in Admin |->
             [stage |-> "idle", user |-> u, form |-> Access!None, mine |-> {}]]
       /\ intended = [u \in User |-> {}]
       /\ stale = {}
       /\ merged = {}

\* What a removal does to the grants.
Cascade ==
    IF DOMAIN row' = DOMAIN row THEN UNCHANGED access
    ELSE Access!RemoveInstances(DOMAIN row \ DOMAIN row')

Accounts ==
    /\ subject = "accounts"
    /\ UNCHANGED exclusions
    /\ \/ \E a \in Admin : edit[a] = Registry!Idle /\ UNCHANGED registry /\ Access!Step(a)
       \/ \E i \in Id : UNCHANGED registry /\ Access!SetActive(i)
       \/ \E a \in Admin : request[a].stage = "idle" /\ (Registry!RemovesGroup(a) \/ Registry!GiveUp(a)) /\ Cascade

Credentials ==
    /\ subject = "credentials"
    /\ \E a \in Admin : Registry!Edits(a) \/ Registry!GiveUp(a)
    /\ \A i \in DOMAIN row' : row'[i].name = AnyName
    /\ UNCHANGED <<access, exclusions>>

Names ==
    /\ subject = "names"
    /\ Registry!Next
    /\ \A i \in DOMAIN row' : Registry!Given(row'[i]) = Registry!Given(Registered(row'[i].group))
    /\ UNCHANGED <<access, exclusions>>

\* Adding and extending are steps of the registry too.
Flagging ==
    /\ subject = "flags"
    /\ \/ UNCHANGED registry /\ Flags!Cycle
       \/ \E a \in Admin : edit[a] = Registry!Idle /\ UNCHANGED registry /\ Flags!Step(a)
       \/ \E a \in Admin, S \in SUBSET Id, g \in Group : Registry!Register(a, S, g) /\ Flags!AddInstance(a, S)
       \/ \E a \in Admin, i \in Id : Registry!Load(a, "extend", i) /\ Flags!Load(a, "extend", i)
       \/ \E a \in Admin, S \in SUBSET Id : Registry!Extend(a, S) /\ Flags!ExtendGroup(a, S)
       \/ \E a \in Admin : Registry!GiveUp(a) /\ Flags!Die(a)
    /\ \A i \in DOMAIN row' : row'[i] = Registered(row'[i].group)
    /\ UNCHANGED <<account, request, intended, stale, merged>>

Next == (Accounts \/ Credentials \/ Names \/ Flagging) /\ UNCHANGED subject

Spec == Init /\ [][Next]_vars

-----------------------------------------------------------------------------
(* Properties: those of the components.                                    *)

\* UserAccess: a read-only account keeps nothing of an operator, unless its access
\* was saved by a request that had read the role before it was switched, or while
\* the switch was going through.
ReadOnlyHoldsNothing == Access!ReadOnlyHoldsNothing

\* UserAccess: an account has access to the instances of the last save that
\* succeeded, less those removed since, unless two saves overlapped.
GrantsAreTheLastSaved == Access!GrantsAreTheLastSaved

\* UserAccess: lists and single requests show an account the same instances.
ListedAreViewable == Access!ListedAreViewable

\* InstanceRegistry: the dedicated role logs in with a password issued for it at
\* that server, unless a save had loaded credentials that were changed since.
ControlPasswordFits == Registry!ControlPasswordFits

\* InstanceRegistry: no registration disappears without its audit entry, unless the
\* application database refused the entry of a single removal.
RemovalsAudited == Registry!RemovalsAudited

\* InstanceRegistry: the targets of a group share their name, unless one was set
\* through the API or from a row loaded before a rename.
MembersShareName == Registry!MembersShareName

\* Exclusions: the cards of an instance go to the shared channel if and only if it
\* was last chosen to be included, save choices that overlapped or were cut short.
ExclusionsRespected == Flags!ExclusionsRespected
=================================================================================
