---------------------- MODULE ClaimableResourceProofs ----------------------
(***************************************************************************)
(* Proofs about module ClaimableResource, for every set of claimers.       *)
(***************************************************************************)
EXTENDS ClaimableResource, TLAPS

Occurs(s, c) == \E i \in 1 .. Len(s) : s[i] = c
Unique(s) == \A i, j \in 1 .. Len(s) : s[i] = s[j] => i = j

(***************************************************************************)
(* Erasing an element from a list without duplicates removes it, keeps     *)
(* every other element, and introduces no duplicates.                      *)
(***************************************************************************)
LEMMA EraseElement ==
    ASSUME NEW S, NEW s \in Seq(S), NEW c, Unique(s)
    PROVE  /\ Erase(s, c) \in Seq(S)
           /\ Unique(Erase(s, c))
           /\ \A d : Occurs(Erase(s, c), d) <=> Occurs(s, d) /\ d /= c
<1>1. CASE ~Occurs(s, c)
  BY <1>1 DEF Erase, Occurs
<1>2. CASE Occurs(s, c)
  <2> DEFINE k == CHOOSE i \in 1 .. Len(s) : s[i] = c
             t == [i \in 1 .. Len(s) - 1 |-> IF i < k THEN s[i] ELSE s[i + 1]]
  <2>1. Erase(s, c) = t
    BY <1>2 DEF Erase, Occurs
  <2>2. k \in 1 .. Len(s) /\ s[k] = c
    BY <1>2 DEF Occurs
  <2>3. Len(s) \in Nat /\ Len(s) >= 1
    BY <2>2
  <2> HIDE DEF k
  <2>4. \A i \in 1 .. Len(s) - 1 : t[i] \in S
    BY <2>2, <2>3
  <2>5. t \in Seq(S) /\ Len(t) = Len(s) - 1
    BY <2>3, <2>4
  <2>6. Unique(t)
    BY <2>2, <2>3, <2>5 DEF Unique
  <2>7. ASSUME NEW d, Occurs(t, d)
        PROVE  Occurs(s, d) /\ d /= c
    BY <2>2, <2>3, <2>5, <2>7 DEF Occurs, Unique
  <2>8. ASSUME NEW d, Occurs(s, d), d /= c
        PROVE  Occurs(t, d)
    <3>1. PICK i \in 1 .. Len(s) : s[i] = d
      BY <2>8 DEF Occurs
    <3>2. CASE i < k
      <4>1. i \in 1 .. Len(s) - 1 /\ t[i] = d
        BY <2>2, <2>3, <3>1, <3>2
      <4> QED
        BY <2>5, <4>1 DEF Occurs
    <3>3. CASE i > k
      <4>1. i - 1 \in 1 .. Len(s) - 1 /\ t[i - 1] = d
        BY <2>2, <2>3, <3>1, <3>3
      <4> QED
        BY <2>5, <4>1 DEF Occurs
    <3> QED
      BY <2>2, <2>3, <2>8, <3>1, <3>2, <3>3
  <2> QED
    BY <2>1, <2>5, <2>6, <2>7, <2>8
<1> QED
  BY <1>1, <1>2

(***************************************************************************)
(* Appending an element that does not occur, and taking the first one.     *)
(***************************************************************************)
LEMMA ListEnds ==
    ASSUME NEW S, NEW s \in Seq(S), NEW c \in S, Unique(s)
    PROVE  /\ Append(s, c) \in Seq(S)
           /\ \A d : Occurs(Append(s, c), d) <=> Occurs(s, d) \/ d = c
           /\ ~Occurs(s, c) => Unique(Append(s, c))
           /\ s /= << >> =>
                /\ Head(s) \in S
                /\ Tail(s) \in Seq(S)
                /\ Occurs(s, Head(s))
                /\ Unique(Tail(s))
                /\ \A d : Occurs(Tail(s), d) <=> Occurs(s, d) /\ d /= Head(s)
<1>1. Append(s, c) \in Seq(S) /\ Len(Append(s, c)) = Len(s) + 1
  OBVIOUS
<1>2. \A d : Occurs(Append(s, c), d) <=> Occurs(s, d) \/ d = c
  BY <1>1 DEF Occurs
<1>3. ~Occurs(s, c) => Unique(Append(s, c))
  BY <1>1 DEF Occurs, Unique
<1>4. ASSUME s /= << >>
      PROVE  /\ Head(s) \in S
             /\ Tail(s) \in Seq(S)
             /\ Occurs(s, Head(s))
             /\ Unique(Tail(s))
             /\ \A d : Occurs(Tail(s), d) <=> Occurs(s, d) /\ d /= Head(s)
  <2>1. /\ Len(s) \in Nat /\ Len(s) >= 1
        /\ Head(s) = s[1]
        /\ Tail(s) \in Seq(S) /\ Len(Tail(s)) = Len(s) - 1
        /\ \A i \in 1 .. Len(s) - 1 : Tail(s)[i] = s[i + 1]
    BY <1>4
  <2>2. Occurs(s, Head(s)) /\ Head(s) \in S
    BY <2>1 DEF Occurs
  <2>3. Unique(Tail(s))
    BY <2>1 DEF Unique
  <2>4. ASSUME NEW d, Occurs(Tail(s), d)
        PROVE  Occurs(s, d) /\ d /= Head(s)
    BY <2>1, <2>4 DEF Occurs, Unique
  <2>5. ASSUME NEW d, Occurs(s, d), d /= Head(s)
        PROVE  Occurs(Tail(s), d)
    <3>1. PICK i \in 1 .. Len(s) : s[i] = d
      BY <2>5 DEF Occurs
    <3>2. i - 1 \in 1 .. Len(s) - 1 /\ Tail(s)[i - 1] = d
      BY <2>1, <2>5, <3>1
    <3> QED
      BY <2>1, <3>2 DEF Occurs
  <2> QED
    BY <2>1, <2>2, <2>3, <2>4, <2>5
<1> QED
  BY <1>1, <1>2, <1>3, <1>4

\* ResourceInv with the pending claims seen through Occurs and Unique
ListInv ==
    /\ TypeOK
    /\ \A c \in Claimers : isGranted[c] <=> currentClaim = c
    /\ Unique(pendingClaims)
    /\ \A c \in Claimers : isQueued[c] <=> Occurs(pendingClaims, c)
    /\ \A c \in Claimers : isQueued[c] <=> onGranted[c]
    /\ currentClaim = None /\ pendingClaims /= << >> => events > 0
    /\ currentClaim \in alive \cup {None}
    /\ \A c \in Claimers : Occurs(pendingClaims, c) => c \in alive

(***************************************************************************)
(* Both forms of the invariant say the same.                               *)
(***************************************************************************)
LEMMA ListInvIsResourceInv == ListInv <=> ResourceInv
<1> SUFFICES ASSUME TypeOK
             PROVE  ListInv <=> ResourceInv
  BY DEF ListInv, ResourceInv
<1>1. \A i \in 1 .. Len(pendingClaims) : pendingClaims[i] \in Claimers
  BY DEF TypeOK
<1>2. WaitingIsPending <=>
         /\ Unique(pendingClaims)
         /\ \A c \in Claimers : isQueued[c] <=> Occurs(pendingClaims, c)
         /\ \A c \in Claimers : isQueued[c] <=> onGranted[c]
  BY <1>1 DEF WaitingIsPending, Unique, Occurs
<1>3. NoDanglingClaimer <=>
         /\ currentClaim \in alive \cup {None}
         /\ \A c \in Claimers : Occurs(pendingClaims, c) => c \in alive
  BY <1>1 DEF NoDanglingClaimer, Occurs
<1> QED
  BY <1>2, <1>3 DEF ListInv, ResourceInv, MutualExclusion, NoForgottenClaim

(***************************************************************************)
(* Before any claimer exists the invariant holds.                          *)
(***************************************************************************)
LEMMA ListInvInit == Init => ListInv
BY ClaimersAssumption DEF Init, ListInv, TypeOK, Unique, Occurs

(***************************************************************************)
(* Every call of a claimer and every event preserve the invariant.         *)
(***************************************************************************)
LEMMA ListInvNext ==
    ASSUME ListInv, [Next]_vars
    PROVE  ListInv'
<1> USE ClaimersAssumption
<1>t. /\ pendingClaims \in Seq(Claimers)
      /\ Unique(pendingClaims)
      /\ events \in Nat
  BY DEF ListInv, TypeOK
<1>1. ASSUME NEW c \in Claimers, Construct(c)
      PROVE  ListInv'
  BY <1>1 DEF Construct, ListInv, TypeOK
<1>2. ASSUME NEW c \in Claimers, Claim(c)
      PROVE  ListInv'
  <2>1. ~Occurs(pendingClaims, c)
    BY <1>2 DEF Claim, ListInv
  <2>2. /\ pendingClaims' \in Seq(Claimers)
        /\ Unique(pendingClaims')
        /\ \A d : Occurs(pendingClaims', d) <=> Occurs(pendingClaims, d) \/ d = c
    BY <1>t, <1>2, <2>1, ListEnds DEF Claim, AddClaim
  <2>3. events' \in Nat /\ (currentClaim = None => events' > 0)
    BY <1>t, <1>2 DEF Claim, AddClaim
  <2> QED
    BY <1>2, <2>2, <2>3 DEF Claim, ListInv, TypeOK
<1>3. ASSUME NEW c \in Claimers, Release(c)
      PROVE  ListInv'
  <2>1. CASE currentClaim = c
    <3>1. events' \in Nat /\ events' > 0 /\ currentClaim' = None /\ pendingClaims' = pendingClaims
      BY <1>t, <1>3, <2>1 DEF Release, RemoveClaim
    <3> QED
      BY <1>3, <2>1, <3>1 DEF Release, ListInv, TypeOK
  <2>2. CASE currentClaim /= c
    <3>1. /\ pendingClaims' = Erase(pendingClaims, c)
          /\ UNCHANGED <<currentClaim, events>>
      BY <1>3, <2>2 DEF Release, RemoveClaim
    <3>2. /\ pendingClaims' \in Seq(Claimers)
          /\ Unique(pendingClaims')
          /\ \A d : Occurs(pendingClaims', d) <=> Occurs(pendingClaims, d) /\ d /= c
      BY <1>t, <3>1, EraseElement
    <3>3. pendingClaims = << >> => pendingClaims' = << >>
      BY <3>1 DEF Erase
    <3> QED
      BY <1>3, <2>2, <3>1, <3>2, <3>3 DEF Release, ListInv, TypeOK
  <2> QED
    BY <2>1, <2>2
<1>4. ASSUME NEW c \in Claimers, Destruct(c)
      PROVE  ListInv'
  <2>1. /\ pendingClaims' \in Seq(Claimers)
        /\ Unique(pendingClaims')
        /\ \A d : Occurs(pendingClaims', d) <=> Occurs(pendingClaims, d) /\ d /= c
        /\ pendingClaims = << >> => pendingClaims' = << >>
    <3>1. CASE isQueued[c]
      <4>1. pendingClaims' = Erase(pendingClaims, c)
        BY <1>4, <3>1 DEF Destruct
      <4>2. pendingClaims = << >> => pendingClaims' = << >>
        BY <4>1 DEF Erase
      <4> QED
        BY <1>t, <4>1, <4>2, EraseElement
    <3>2. CASE ~isQueued[c]
      BY <1>t, <1>4, <3>2 DEF Destruct, ListInv
    <3> QED
      BY <3>1, <3>2
  <2>2. CASE currentClaim = c
    <3>1. events' \in Nat /\ events' > 0 /\ currentClaim' = None
      BY <1>t, <1>4, <2>2 DEF Destruct, ListInv
    <3> QED
      BY <1>4, <2>1, <2>2, <3>1 DEF Destruct, ListInv, TypeOK
  <2>3. CASE currentClaim /= c
    <3>1. UNCHANGED <<currentClaim, events>>
      BY <1>4, <2>3 DEF Destruct
    <3> QED
      BY <1>4, <2>1, <2>3, <3>1 DEF Destruct, ListInv, TypeOK
  <2> QED
    BY <2>2, <2>3
<1>5. CASE ReEvaluateClaim
  <2>1. CASE currentClaim = None /\ pendingClaims /= << >>
    <3> DEFINE c == Head(pendingClaims)
    <3>1. /\ c \in Claimers
          /\ currentClaim' = c
          /\ pendingClaims' = Tail(pendingClaims)
          /\ isQueued' = [isQueued EXCEPT ![c] = FALSE]
          /\ isGranted' = [isGranted EXCEPT ![c] = TRUE]
          /\ onGranted' = [onGranted EXCEPT ![c] = FALSE]
          /\ alive' = alive
          /\ events' \in Nat
      BY <1>t, <1>5, <2>1 DEF ReEvaluateClaim
    <3>2. /\ pendingClaims' \in Seq(Claimers)
          /\ Unique(pendingClaims')
          /\ Occurs(pendingClaims, c)
          /\ \A d : Occurs(pendingClaims', d) <=> Occurs(pendingClaims, d) /\ d /= c
      BY <1>t, <2>1, <3>1, ListEnds
    <3> HIDE DEF c
    <3> QED
      BY <2>1, <3>1, <3>2 DEF ListInv, TypeOK
  <2>2. CASE ~(currentClaim = None /\ pendingClaims /= << >>)
    BY <1>t, <1>5, <2>2 DEF ReEvaluateClaim, ListInv, TypeOK
  <2> QED
    BY <2>1, <2>2
<1>6. CASE UNCHANGED vars
  BY <1>6 DEF vars, ListInv, TypeOK
<1> QED
  BY <1>1, <1>2, <1>3, <1>4, <1>5, <1>6 DEF Next

(***************************************************************************)
(* The inductive invariant holds in every reachable state.                 *)
(***************************************************************************)
THEOREM ResourceInvariant == Spec => []ResourceInv
<1>1. Spec => []ListInv
  BY ListInvInit, ListInvNext, PTL DEF Spec
<1> QED
  BY <1>1, ListInvIsResourceInv, PTL

(***************************************************************************)
(* At most one claimer has the resource, and the resource and the claimers *)
(* agree on which one.                                                     *)
(***************************************************************************)
THEOREM ResourceExclusive == Spec => []MutualExclusion
<1>1. ResourceInv => MutualExclusion
  BY DEF ResourceInv
<1> QED
  BY <1>1, ResourceInvariant, PTL

(***************************************************************************)
(* A free resource with pending claims always has a scheduled event that   *)
(* grants it.                                                              *)
(***************************************************************************)
THEOREM ResourceNeverForgets == Spec => []NoForgottenClaim
<1>1. ResourceInv => NoForgottenClaim
  BY DEF ResourceInv
<1> QED
  BY <1>1, ResourceInvariant, PTL

(***************************************************************************)
(* A destroyed claimer is neither granted nor pending.                     *)
(***************************************************************************)
THEOREM ResourceNeverDangles == Spec => []NoDanglingClaimer
<1>1. ResourceInv => NoDanglingClaimer
  BY DEF ResourceInv
<1> QED
  BY <1>1, ResourceInvariant, PTL
=============================================================================
