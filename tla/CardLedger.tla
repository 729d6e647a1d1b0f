------------------------------ MODULE CardLedger ------------------------------
(***************************************************************************)
(* What the readers of a Teams channel are promised about the lock cards   *)
(* of one database: an ordinary card says something new, a storm is        *)
(* announced once until all locks have cleared, and the next card waits    *)
(* until the last one has been recorded or its record is known to be lost. *)
(* LockMonitor implements it; nothing here says how a card is decided.     *)
(***************************************************************************)
CONSTANT Item       \* what a card can list

VARIABLES
    shown,          \* the items on the last card
    pending,        \* what that card is, while it is not recorded
    unsure,         \* the record may not say what is on that card
    storm           \* a storm was announced and has not cleared

vars == <<shown, pending, unsure, storm>>

Init ==
    /\ shown = {}
    /\ pending = "none"
    /\ unsure = FALSE
    /\ storm = FALSE

\* A card that repeats the one before can only follow a doubtful record.
Card(S) ==
    /\ pending = "none" /\ ~storm
    /\ S # shown \/ unsure
    /\ shown' = S
    /\ pending' = "card"
    /\ UNCHANGED <<unsure, storm>>

Storm(S) ==
    /\ pending = "none" /\ ~storm
    /\ shown' = S
    /\ pending' = "storm"
    /\ UNCHANGED <<unsure, storm>>

\* A storm that is over before its card is recorded leaves nothing to suppress.
Record ==
    /\ pending # "none"
    /\ pending' = "none"
    /\ unsure' = FALSE
    /\ storm' \in {storm, storm \/ pending = "storm"}
    /\ UNCHANGED shown

\* The sender dies between the card and its record.
Lose ==
    /\ pending # "none"
    /\ pending' = "none"
    /\ unsure' = TRUE
    /\ UNCHANGED <<shown, storm>>

\* Quiet hours replace the record.
Replace ==
    /\ pending = "none"
    /\ unsure' = TRUE
    /\ UNCHANGED <<shown, pending, storm>>

AllClear ==
    /\ storm' = FALSE
    /\ UNCHANGED <<shown, pending, unsure>>

Next ==
    \/ \E S \in SUBSET Item : Card(S) \/ Storm(S)
    \/ Record \/ Lose \/ Replace \/ AllClear

Spec == Init /\ [][Next]_vars
===============================================================================
