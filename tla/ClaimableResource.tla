------------------------- MODULE ClaimableResource -------------------------
(***************************************************************************)
(* infra/event/ClaimableResource: a resource (a flash, a bus, a stream)    *)
(* that claimers claim and release.  Grants are made by an event of the    *)
(* event dispatcher, never inside Claim or Release.  Everything runs on    *)
(* the dispatcher's thread, one call or one event at a time.               *)
(***************************************************************************)
EXTENDS Integers, Sequences

CONSTANTS
    Claimers,
    None,         \* nullptr
    MaxEvents     \* bound on the ReEvaluateClaim events scheduled at a time

ASSUME ClaimersAssumption == None \notin Claimers
ASSUME MaxEventsAssumption == MaxEvents \in Nat

VARIABLES
    currentClaim,
    pendingClaims,
    isGranted,     \* of every claimer
    isQueued,
    onGranted,     \* whether the claimer holds a function to call
    alive,         \* the claimers that exist
    events         \* ReEvaluateClaim events in the event dispatcher

vars == <<currentClaim, pendingClaims, isGranted, isQueued, onGranted, alive, events>>

(***************************************************************************)
(* The type of every variable.                                             *)
(***************************************************************************)
TypeOK ==
    /\ currentClaim \in Claimers \cup {None}
    /\ pendingClaims \in Seq(Claimers)
    /\ isGranted \in [Claimers -> BOOLEAN]
    /\ isQueued \in [Claimers -> BOOLEAN]
    /\ onGranted \in [Claimers -> BOOLEAN]
    /\ alive \in SUBSET Claimers
    /\ events \in Nat

Init ==
    /\ currentClaim = None
    /\ pendingClaims = << >>
    /\ isGranted = [c \in Claimers |-> FALSE]
    /\ isQueued = [c \in Claimers |-> FALSE]
    /\ onGranted = [c \in Claimers |-> FALSE]
    /\ alive = {}
    /\ events = 0

\* IntrusiveList::erase, which leaves a list without the element as it is
Erase(s, c) ==
    IF \E i \in 1 .. Len(s) : s[i] = c
    THEN LET k == CHOOSE i \in 1 .. Len(s) : s[i] = c
         IN [i \in 1 .. Len(s) - 1 |-> IF i < k THEN s[i] ELSE s[i + 1]]
    ELSE s

Construct(c) ==
    /\ c \notin alive
    /\ alive' = alive \cup {c}
    /\ UNCHANGED <<currentClaim, pendingClaims, isGranted, isQueued, onGranted, events>>

\* Mutant: the latest claim comes first.
AddClaimFirst(c) ==
    /\ pendingClaims' = <<c>> \o pendingClaims
    /\ IF currentClaim = None
       THEN events < MaxEvents /\ events' = events + 1
       ELSE events' = events

AddClaim(c) ==
    /\ pendingClaims' = Append(pendingClaims, c)
    /\ IF currentClaim = None
       THEN events < MaxEvents /\ events' = events + 1
       ELSE events' = events

\* really_assert(!this->onGranted) is the caller's obligation: no second
\* claim while one is waiting.
Claim(c) ==
    /\ c \in alive
    /\ ~onGranted[c]
    /\ onGranted' = [onGranted EXCEPT ![c] = TRUE]
    /\ isQueued' = [isQueued EXCEPT ![c] = TRUE]
    /\ AddClaim(c)
    /\ UNCHANGED <<currentClaim, isGranted, alive>>

RemoveClaim(c) ==
    IF currentClaim = c
    THEN /\ currentClaim' = None
         /\ events < MaxEvents
         /\ events' = events + 1
         /\ UNCHANGED pendingClaims
    ELSE /\ pendingClaims' = Erase(pendingClaims, c)
         /\ UNCHANGED <<currentClaim, events>>

\* Release gives up the resource; when it is not granted, it withdraws the
\* claim that is waiting, if any.
Release(c) ==
    /\ c \in alive
    /\ onGranted' = [onGranted EXCEPT ![c] = onGranted[c] /\ isGranted[c]]
    /\ isQueued' = [isQueued EXCEPT ![c] = isQueued[c] /\ isGranted[c]]
    /\ isGranted' = [isGranted EXCEPT ![c] = FALSE]
    /\ RemoveClaim(c)
    /\ UNCHANGED alive

\* Mutant: one Release is enough.
DestructReleasesOnce(c) ==
    /\ c \in alive
    /\ alive' = alive \ {c}
    /\ isGranted' = [isGranted EXCEPT ![c] = FALSE]
    /\ isQueued' = [isQueued EXCEPT ![c] = FALSE]
    /\ onGranted' = [onGranted EXCEPT ![c] = FALSE]
    /\ IF currentClaim = c
       THEN /\ currentClaim' = None
            /\ events < MaxEvents
            /\ events' = events + 1
            /\ UNCHANGED pendingClaims
       ELSE /\ pendingClaims' = Erase(pendingClaims, c)
            /\ UNCHANGED <<currentClaim, events>>

\* ~ClaimerBase: releases a granted claim, and withdraws a waiting one
Destruct(c) ==
    /\ c \in alive
    /\ alive' = alive \ {c}
    /\ isGranted' = [isGranted EXCEPT ![c] = FALSE]
    /\ isQueued' = [isQueued EXCEPT ![c] = FALSE]
    /\ onGranted' = [onGranted EXCEPT ![c] = FALSE]
    /\ IF isGranted[c] /\ currentClaim = c
       THEN currentClaim' = None /\ events < MaxEvents /\ events' = events + 1
       ELSE UNCHANGED <<currentClaim, events>>
    /\ pendingClaims' = IF isQueued[c] THEN Erase(pendingClaims, c) ELSE pendingClaims

\* The scheduled event, with ClaimGranted.  What onGranted calls comes after
\* everything else, so it is one of the next steps.
ReEvaluateClaim ==
    /\ events > 0
    /\ events' = events - 1
    /\ IF currentClaim = None /\ pendingClaims /= << >>
       THEN LET c == Head(pendingClaims) IN
            /\ currentClaim' = c
            /\ pendingClaims' = Tail(pendingClaims)
            /\ isQueued' = [isQueued EXCEPT ![c] = FALSE]
            /\ isGranted' = [isGranted EXCEPT ![c] = TRUE]
            /\ onGranted' = [onGranted EXCEPT ![c] = FALSE]
       ELSE UNCHANGED <<currentClaim, pendingClaims, isGranted, isQueued, onGranted>>
    /\ UNCHANGED alive

Next ==
    \/ \E c \in Claimers : Construct(c) \/ Claim(c) \/ Release(c) \/ Destruct(c)
    \/ ReEvaluateClaim

Spec == Init /\ [][Next]_vars

(***************************************************************************)
(* The event dispatcher executes the events, and a claimer that was        *)
(* granted the resource gives it back.                                     *)
(***************************************************************************)
GiveBack(c) == isGranted[c] /\ Release(c)

FairSpec ==
    /\ Spec
    /\ WF_vars(ReEvaluateClaim)
    /\ \A c \in Claimers : WF_vars(GiveBack(c))

-----------------------------------------------------------------------------
(* Properties *)

(***************************************************************************)
(* Mutual exclusion: a claimer believes it has the resource exactly when   *)
(* the resource says so, hence at most one at a time.                      *)
(***************************************************************************)
MutualExclusion == \A c \in Claimers : isGranted[c] <=> currentClaim = c

(***************************************************************************)
(* A claimer waits exactly when it is in the list of pending claims, once, *)
(* with a function to call when it is granted.                             *)
(***************************************************************************)
WaitingIsPending ==
    \A c \in Claimers :
        /\ isQueued[c] <=> \E i \in 1 .. Len(pendingClaims) : pendingClaims[i] = c
        /\ isQueued[c] <=> onGranted[c]
        /\ \A i, j \in 1 .. Len(pendingClaims) :
              pendingClaims[i] = c /\ pendingClaims[j] = c => i = j

(***************************************************************************)
(* No claimer is forgotten: while the resource is free and somebody waits, *)
(* an event that will grant it is in the event dispatcher.                 *)
(***************************************************************************)
NoForgottenClaim == currentClaim = None /\ pendingClaims /= << >> => events > 0

(***************************************************************************)
(* The resource keeps no pointer to a claimer that was destroyed, also     *)
(* when it was destroyed while it held one claim and waited for another.   *)
(***************************************************************************)
NoDanglingClaimer ==
    /\ currentClaim \in alive \cup {None}
    /\ \A i \in 1 .. Len(pendingClaims) : pendingClaims[i] \in alive

(***************************************************************************)
(* Every wait ends, by a grant or because the claim is withdrawn, if       *)
(* granted claims are given back.                                          *)
(***************************************************************************)
EveryClaimGranted ==
    \A c \in Claimers : isQueued[c] ~> ~isQueued[c]

(***************************************************************************)
(* The inductive invariant.                                                *)
(***************************************************************************)
ResourceInv ==
    /\ TypeOK
    /\ MutualExclusion
    /\ WaitingIsPending
    /\ NoForgottenClaim
    /\ NoDanglingClaimer
=============================================================================
