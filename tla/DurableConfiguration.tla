------------------------ MODULE DurableConfiguration ------------------------
(***************************************************************************)
(* What services::ConfigurationStore promises its clients: the stored      *)
(* configuration changes in one step from one complete configuration to a  *)
(* newer one, whatever moment the power fails, and a configuration whose   *)
(* write was reported as done stays stored until a newer one replaces it   *)
(* or the store is erased.  Configurations are numbered in the order in    *)
(* which the client made them.                                             *)
(***************************************************************************)
EXTENDS Integers

Nothing == -1    \* no configuration

VARIABLES
    stored,      \* what a recovery finds
    confirmed    \* the newest configuration reported as written

vars == <<stored, confirmed>>

Init == stored = Nothing /\ confirmed = Nothing

\* A newer configuration is stored, and one that is stored is reported as
\* written; the code does both when the erasure of the older one is done.
Install ==
    /\ stored' \in Nat
    /\ stored' >= stored
    /\ confirmed' >= confirmed
    /\ confirmed' <= stored'

\* The client asks for the store to be erased, which then happens or does
\* not, depending on when the power fails
Forget ==
    /\ confirmed' = Nothing
    /\ UNCHANGED stored

Clear ==
    /\ confirmed = Nothing
    /\ stored' = Nothing
    /\ UNCHANGED confirmed

Next == Install \/ Forget \/ Clear

Spec == Init /\ [][Next]_vars
=============================================================================
