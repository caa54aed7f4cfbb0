---------------------------- MODULE NameResolver ----------------------------
(***************************************************************************)
(* What services::NameResolver promises its clients: a lookup that was     *)
(* asked for ends once, by an answer for the name that was asked, by a     *)
(* failure or by its cancellation, and it does end.  The callback that     *)
(* gives the answer may itself ask for a lookup.                           *)
(***************************************************************************)
CONSTANTS
    Results,        \* the NameResolverResult objects
    AddressOf,      \* the address of the name that each result asks for
    None,
    Failed          \* NameLookupFailed instead of an address

VARIABLES
    pending,        \* the results whose lookup has not ended
    answers         \* what each result was told last, or None

vars == <<pending, answers>>

Init ==
    /\ pending = {}
    /\ answers = [r \in Results |-> None]

Lookup(r) ==
    /\ r \notin pending
    /\ pending' = pending \cup {r}
    /\ UNCHANGED answers

CancelLookup(r) ==
    /\ r \in pending
    /\ pending' = pending \ {r}
    /\ UNCHANGED answers

\* The results in again are looked up from the callback.
Ends(r, answer, again) ==
    /\ r \in pending
    /\ again \cap (pending \ {r}) = {}
    /\ pending' = (pending \ {r}) \cup again
    /\ answers' = [answers EXCEPT ![r] = answer]

EndsSomehow(r) ==
    \E answer \in {AddressOf[r], Failed}, again \in SUBSET Results :
        Ends(r, answer, again)

Next == \E r \in Results : Lookup(r) \/ CancelLookup(r) \/ EndsSomehow(r)

Spec == Init /\ [][Next]_vars

\* A lookup that is not cancelled ends.
Fairness == \A r \in Results : WF_vars(EndsSomehow(r))

FairSpec == Spec /\ Fairness
=============================================================================
