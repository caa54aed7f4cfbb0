---------------------------- MODULE EventsProofs ----------------------------
(***************************************************************************)
(* Proofs about the components that live on the event dispatcher: the      *)
(* clients of a shared flash or bus (MultipleAccess), SystemStateManager   *)
(* and QueueForOneReaderOneIrqWriter, each for every value of its          *)
(* constants.  The clients of a bus use the resource that they share       *)
(* through its own steps only, so its invariant is not proved again here:  *)
(* it comes from ClaimableResourceProofs.                                  *)
(***************************************************************************)
EXTENDS MCEvents, ClaimableResourceProofs, SequenceTheorems, TLAPS

-----------------------------------------------------------------------------
(* MultipleAccess, on each of the three buses                              *)

\* Who waits has an access to do, and who has the resource does not wait.
RequestsInv ==
    /\ \A c \in Claimers : isQueued[c] <=> requested[c] /= "none"
    /\ \A c \in Claimers : isGranted[c] => requested[c] = "none"

\* The hardware works for the holder of the resource, with its configurator.
TransfersInv ==
    \A t \in transfers :
        /\ t.client = currentClaim /\ t.configurator = busConfigurator
        /\ \A u \in transfers : u = t

\* On a bus the session is that of the holder; a flash has no sessions, and
\* its holder transfers something.
SessionInv(bus) ==
    IF bus = "flash"
    THEN session = None /\ ending = None /\ (currentClaim /= None => transfers /= {})
    ELSE /\ session = currentClaim
         /\ ending /= None => ending = currentClaim /\ transfers = {}

\* The inductive invariant
AccessInv(bus) == ListInv /\ Access(bus)!TypeOK /\ RequestsInv /\ TransfersInv /\ SessionInv(bus)

(***************************************************************************)
(* What an operation does to the resource is a step of the resource, so it *)
(* keeps the invariant of the resource.                                    *)
(***************************************************************************)
LEMMA ResourceStep ==
    ASSUME NEW bus \in Buses, ListInv, Access(bus)!TypeOK, [Access(bus)!Next]_(Access(bus)!vars)
    PROVE  ListInv'
<1>0. None \notin Claimers /\ MaxEvents \in Nat
  BY ClaimersAssumption, MaxEventsAssumption
<1>1. ASSUME NEW c, Access(bus)!Resource!Construct(c)
      PROVE  Construct(c)
  BY <1>1 DEF Access!Resource!Construct, Construct
<1>2. ASSUME NEW c, Access(bus)!Resource!Claim(c)
      PROVE  Claim(c)
  BY <1>2 DEF Access!Resource!Claim, Access!Resource!AddClaim, Claim, AddClaim
<1>3. ASSUME NEW c, Access(bus)!Resource!Release(c)
      PROVE  Release(c)
  BY <1>3 DEF Access!Resource!Release, Access!Resource!RemoveClaim, Access!Resource!Erase,
              Release, RemoveClaim, Erase
<1>4. ASSUME Access(bus)!Resource!ReEvaluateClaim
      PROVE  ReEvaluateClaim
  BY <1>4 DEF Access!Resource!ReEvaluateClaim, ReEvaluateClaim
<1>5. [Next]_vars
  <2>1. ASSUME NEW c \in Claimers, Access(bus)!Construct(c)
        PROVE  [Next]_vars
    BY <2>1, <1>1 DEF Access!Construct, Next
  <2>2. ASSUME NEW c \in Claimers, Access(bus)!Configure(c)
        PROVE  [Next]_vars
    BY <2>2 DEF Access!Configure, Access!resource, vars
  <2>3. ASSUME NEW c \in Claimers, NEW next \in Access(bus)!NextActions, Access(bus)!Access(c,
               next)
        PROVE  [Next]_vars
    BY <2>3, <1>2 DEF Access!Access, Access!resource, Next, vars
  <2>4. ASSUME Access(bus)!ReEvaluateClaim
        PROVE  [Next]_vars
    BY <2>4, <1>4 DEF Access!ReEvaluateClaim, Next
  <2>5. ASSUME NEW t \in transfers, Access(bus)!Done(t)
        PROVE  [Next]_vars
    BY <2>5, <1>3 DEF Access!TypeOK, Access!Transfers, Access!Done, Access!resource, Next, vars
  <2>6. ASSUME Access(bus)!EndSession
        PROVE  [Next]_vars
    BY <2>6, <1>3 DEF Access!TypeOK, Access!EndSession, Next
  <2>7. CASE UNCHANGED Access(bus)!vars
    BY <2>7 DEF Access!vars, Access!resource, vars
  <2> QED
    BY <2>1, <2>2, <2>3, <2>4, <2>5, <2>6, <2>7 DEF Access!Next
<1> QED
  BY <1>0, <1>5, ListInvNext

(***************************************************************************)
(* Without a client there is nothing to share.                             *)
(***************************************************************************)
LEMMA AccessInvInit ==
    ASSUME NEW bus \in Buses, Access(bus)!Init
    PROVE  AccessInv(bus)
<1>1. Init
  BY DEF Access!Init, Access!Resource!Init, Init
<1>2. ListInv
  BY <1>1, ListInvInit
<1>3. Access(bus)!TypeOK
  BY DEF Access!Init, Access!TypeOK
<1>4. RequestsInv /\ TransfersInv /\ SessionInv(bus)
  BY DEF Access!Init, Access!Resource!Init, RequestsInv, TransfersInv, SessionInv
<1> QED
  BY <1>2, <1>3, <1>4 DEF AccessInv

(***************************************************************************)
(* What the invariant of the resource says of its variables.               *)
(***************************************************************************)
LEMMA HolderFacts ==
    ASSUME ListInv
    PROVE  /\ currentClaim \in Claimers \cup {None}
           /\ isGranted \in [Claimers -> BOOLEAN] /\ isQueued \in [Claimers -> BOOLEAN]
           /\ \A c \in Claimers : isGranted[c] <=> currentClaim = c
           /\ \A c \in Claimers : isQueued[c] <=> onGranted[c]
           /\ pendingClaims /= << >> =>
                 Head(pendingClaims) \in Claimers /\ isQueued[Head(pendingClaims)]
<1>1. /\ currentClaim \in Claimers \cup {None}
      /\ isGranted \in [Claimers -> BOOLEAN] /\ isQueued \in [Claimers -> BOOLEAN]
      /\ \A c \in Claimers : isGranted[c] <=> currentClaim = c
      /\ \A c \in Claimers : isQueued[c] <=> onGranted[c]
      /\ pendingClaims \in Seq(Claimers)
      /\ \A c \in Claimers : isQueued[c] <=> Occurs(pendingClaims, c)
  BY DEF ListInv, TypeOK
<1>2. ASSUME pendingClaims /= << >>
      PROVE  Head(pendingClaims) \in Claimers /\ Occurs(pendingClaims, Head(pendingClaims))
  <2>1. 1 \in 1 .. Len(pendingClaims) /\ Head(pendingClaims) = pendingClaims[1]
    BY <1>1, <1>2
  <2>2. pendingClaims[1] \in Claimers
    BY <1>1, <2>1
  <2> QED
    BY <2>1, <2>2 DEF Occurs
<1> QED
  BY <1>1, <1>2

(***************************************************************************)
(* Starting a transfer for the holder of the resource, while the hardware  *)
(* does nothing.                                                           *)
(***************************************************************************)
LEMMA TransferStarts ==
    ASSUME NEW bus \in Buses, Access(bus)!TypeOK, None \notin Claimers, NEW c \in Claimers,
           NEW next \in Access(bus)!NextActions,
           Access(bus)!OnClaimed(c, next), transfers = {}, currentClaim' = c, ending = None,
           bus /= "flash" => session \in {None, c},
           bus = "flash" => session = None
    PROVE  /\ transfers' \subseteq Access(bus)!Transfers /\ transfers' /= {}
           /\ session' \in Claimers \cup {None} /\ ending' = None
           /\ busConfigurator' \in Claimers \cup {None} /\ configurator' = configurator
           /\ TransfersInv' /\ SessionInv(bus)'
<1> DEFINE t == [client |-> c, next |-> next, configurator |-> configurator[c]]
<1>1. /\ transfers' = {t} /\ busConfigurator' = configurator[c]
      /\ session' = IF bus = "flash" \/ session /= None THEN session ELSE c
      /\ ending' = None /\ configurator' = configurator
  BY DEF Access!OnClaimed, Access!SetBusConfigurator
<1>2. configurator[c] \in Claimers \cup {None}
  BY DEF Access!TypeOK
<1>3. t \in Access(bus)!Transfers
  BY <1>2 DEF Access!Transfers
<1>4. TransfersInv'
  BY <1>1 DEF TransfersInv
<1>5. SessionInv(bus)'
  BY <1>1 DEF SessionInv
<1> QED
  BY <1>1, <1>2, <1>3, <1>4, <1>5 DEF Access!TypeOK

(***************************************************************************)
(* The holder gives the resource back after its last transfer.             *)
(***************************************************************************)
LEMMA HolderReleases ==
    ASSUME NEW bus \in Buses, AccessInv(bus), None \notin Claimers, NEW c \in Claimers,
           Access(bus)!Resource!Release(c), currentClaim = c
    PROVE  /\ currentClaim' = None
           /\ isQueued' = isQueued
           /\ isGranted' = [isGranted EXCEPT ![c] = FALSE]
           /\ requested' = requested => RequestsInv'
<1>1. /\ isGranted \in [Claimers -> BOOLEAN] /\ isQueued \in [Claimers -> BOOLEAN]
      /\ isGranted[c] = TRUE
  BY HolderFacts DEF AccessInv
<1>2. /\ currentClaim' = None
      /\ isQueued' = [isQueued EXCEPT ![c] = isQueued[c] /\ isGranted[c]]
      /\ isGranted' = [isGranted EXCEPT ![c] = FALSE]
  BY DEF Access!Resource!Release, Access!Resource!RemoveClaim
<1>3. isQueued' = isQueued
  BY <1>1, <1>2
<1>4. requested' = requested => RequestsInv'
  BY <1>1, <1>2, <1>3 DEF AccessInv, RequestsInv
<1> QED
  BY <1>2, <1>3, <1>4

(***************************************************************************)
(* Every operation keeps the invariant.                                    *)
(***************************************************************************)
LEMMA AccessInvNext ==
    ASSUME NEW bus \in Buses, AccessInv(bus), [Access(bus)!Next]_(Access(bus)!vars)
    PROVE  AccessInv(bus)'
<1>0. /\ ListInv /\ ListInv' /\ Access(bus)!TypeOK
      /\ RequestsInv /\ TransfersInv /\ SessionInv(bus)
      /\ None \notin Claimers /\ bus \in {"flash", "i2c", "spi"}
  BY ResourceStep, ClaimersAssumption DEF AccessInv, Buses
<1>h. /\ currentClaim \in Claimers \cup {None}
      /\ isGranted \in [Claimers -> BOOLEAN] /\ isQueued \in [Claimers -> BOOLEAN]
      /\ \A c \in Claimers : isGranted[c] <=> currentClaim = c
      /\ \A c \in Claimers : isQueued[c] <=> onGranted[c]
  BY <1>0, HolderFacts
<1>1. ASSUME NEW c \in Claimers, Access(bus)!Construct(c)
      PROVE  AccessInv(bus)'
  <2>1. UNCHANGED <<Access(bus)!access, currentClaim, isGranted, isQueued>>
    BY <1>1 DEF Access!Construct, Access!Resource!Construct
  <2> QED
    BY <1>0, <2>1 DEF Access!access, AccessInv, Access!TypeOK, RequestsInv, TransfersInv,
       SessionInv
<1>2. ASSUME NEW c \in Claimers, Access(bus)!Configure(c)
      PROVE  AccessInv(bus)'
  <2>1. /\ configurator' \in [Claimers -> Claimers \cup {None}]
        /\ UNCHANGED <<currentClaim, isGranted, isQueued, requested, transfers, session, ending,
                       busConfigurator>>
    BY <1>0, <1>2 DEF Access!Configure, Access!resource, Access!TypeOK
  <2> QED
    BY <1>0, <2>1 DEF AccessInv, Access!TypeOK, RequestsInv, TransfersInv, SessionInv
<1>3. ASSUME NEW c \in Claimers, NEW next \in Access(bus)!NextActions, Access(bus)!Access(c, next)
      PROVE  AccessInv(bus)'
  <2>1. Access(bus)!Idle(c) /\ ending = None
    BY <1>0, <1>3 DEF Access!Access
  <2>2. CASE Access(bus)!NeedsClaim(c)
    <3>1. /\ Access(bus)!Resource!Claim(c) /\ requested' = [requested EXCEPT ![c] = next]
          /\ UNCHANGED <<transfers, session, ending, configurator, busConfigurator>>
      BY <1>3, <2>2 DEF Access!Access
    <3>2. /\ UNCHANGED <<currentClaim, isGranted>>
          /\ isQueued' = [isQueued EXCEPT ![c] = TRUE]
      BY <3>1 DEF Access!Resource!Claim
    <3>3. ~isGranted[c]
      <4>1. CASE bus = "flash" /\ isGranted[c]
        <5>1. currentClaim = c /\ transfers /= {}
          BY <1>0, <1>h, <4>1 DEF SessionInv
        <5>2. \E t \in transfers : t.client = c
          BY <1>0, <5>1 DEF TransfersInv
        <5> QED
          BY <2>1, <5>2 DEF Access!Idle
      <4> QED
        BY <2>2, <4>1 DEF Access!NeedsClaim
    <3>4. requested' \in [Claimers -> Access(bus)!NextActions \cup {"none"}] /\ next /= "none"
      BY <1>0, <3>1 DEF Access!TypeOK, Access!NextActions
    <3>5. RequestsInv'
      BY <1>0, <1>h, <3>1, <3>2, <3>3, <3>4 DEF RequestsInv, Access!TypeOK
    <3> QED
      BY <1>0, <3>1, <3>2, <3>4, <3>5 DEF AccessInv, Access!TypeOK, TransfersInv, SessionInv
  <2>3. CASE ~Access(bus)!NeedsClaim(c)
    <3>1. Access(bus)!OnClaimed(c, next) /\ UNCHANGED <<Access(bus)!resource, requested>>
      BY <1>3, <2>3 DEF Access!Access
    <3>2. bus /= "flash" /\ isGranted[c] /\ currentClaim = c /\ session = c
      BY <1>0, <1>h, <2>3 DEF Access!NeedsClaim, SessionInv
    <3>3. transfers = {}
      BY <1>0, <2>1, <3>2 DEF Access!Idle, TransfersInv
    <3>4. UNCHANGED <<currentClaim, isGranted, isQueued, requested>>
      BY <3>1 DEF Access!resource
    <3>5. /\ transfers' \subseteq Access(bus)!Transfers
          /\ session' \in Claimers \cup {None} /\ ending' = None
          /\ busConfigurator' \in Claimers \cup {None} /\ configurator' = configurator
          /\ TransfersInv' /\ SessionInv(bus)'
      BY <1>0, <2>1, <3>1, <3>2, <3>3, <3>4, TransferStarts
    <3>6. RequestsInv'
      BY <1>0, <3>4 DEF RequestsInv
    <3>7. Access(bus)!TypeOK'
      BY <1>0, <3>4, <3>5 DEF Access!TypeOK
    <3> QED
      BY <1>0, <3>5, <3>6, <3>7 DEF AccessInv
  <2> QED
    BY <2>2, <2>3
<1>4. CASE Access(bus)!ReEvaluateClaim
  <2>1. CASE currentClaim' /= currentClaim
    <3> DEFINE c == Head(pendingClaims)
    <3>1. /\ currentClaim = None /\ pendingClaims /= << >> /\ currentClaim' = c
          /\ isQueued' = [isQueued EXCEPT ![c] = FALSE]
          /\ isGranted' = [isGranted EXCEPT ![c] = TRUE]
      BY <1>4, <2>1 DEF Access!ReEvaluateClaim, Access!Resource!ReEvaluateClaim
    <3>2. c \in Claimers /\ isQueued[c]
      BY <1>0, <3>1, HolderFacts
    <3> HIDE DEF c
    <3>3. /\ Access(bus)!OnClaimed(c, requested[c]) /\ ending = None
          /\ requested' = [requested EXCEPT ![c] = "none"]
      BY <1>4, <2>1, <3>1 DEF Access!ReEvaluateClaim
    <3>4. requested[c] \in Access(bus)!NextActions
      BY <1>0, <3>2 DEF RequestsInv, Access!TypeOK
    <3>5. transfers = {} /\ session = None
      BY <1>0, <3>1 DEF TransfersInv, SessionInv, Access!TypeOK, Access!Transfers
    <3>6. /\ transfers' \subseteq Access(bus)!Transfers
          /\ session' \in Claimers \cup {None} /\ ending' = None
          /\ busConfigurator' \in Claimers \cup {None} /\ configurator' = configurator
          /\ TransfersInv' /\ SessionInv(bus)'
      BY <1>0, <3>1, <3>2, <3>3, <3>4, <3>5, TransferStarts
    <3>7. RequestsInv'
      BY <1>0, <1>h, <3>1, <3>2, <3>3 DEF RequestsInv, Access!TypeOK
    <3>8. Access(bus)!TypeOK'
      BY <1>0, <3>2, <3>3, <3>6 DEF Access!TypeOK
    <3> QED
      BY <1>0, <3>6, <3>7, <3>8 DEF AccessInv
  <2>2. CASE currentClaim' = currentClaim
    <3>1. UNCHANGED Access(bus)!access
      BY <1>4, <2>2 DEF Access!ReEvaluateClaim
    <3>2. UNCHANGED <<isGranted, isQueued>>
      <4>1. ~(currentClaim = None /\ pendingClaims /= << >>)
        <5>1. pendingClaims /= << >> => Head(pendingClaims) /= None
          BY <1>0, HolderFacts
        <5> QED
          BY <1>4, <2>2, <5>1 DEF Access!ReEvaluateClaim, Access!Resource!ReEvaluateClaim
      <4> QED
        BY <1>4, <4>1 DEF Access!ReEvaluateClaim, Access!Resource!ReEvaluateClaim
    <3> QED
      BY <1>0, <2>2, <3>1, <3>2
         DEF Access!access, AccessInv, Access!TypeOK, RequestsInv, TransfersInv, SessionInv
  <2> QED
    BY <2>1, <2>2
<1>5. ASSUME NEW t \in transfers, Access(bus)!Done(t)
      PROVE  AccessInv(bus)'
  <2>1. /\ transfers = {t} /\ t.client = currentClaim /\ t.client \in Claimers
        /\ ending = None /\ transfers' = {}
        /\ UNCHANGED <<requested, configurator, busConfigurator>>
    BY <1>0, <1>5 DEF Access!Done, TransfersInv, Access!TypeOK, Access!Transfers
  <2>2. CASE ~Access(bus)!EndsClaim(t) /\ UNCHANGED <<Access(bus)!resource, session, ending>>
    <3>1. bus /= "flash"
      BY <1>0, <2>2 DEF Access!EndsClaim, Access!TypeOK, Access!Transfers, Access!NextActions
    <3>2. UNCHANGED <<currentClaim, isGranted, isQueued>>
      BY <2>2 DEF Access!resource
    <3> QED
      BY <1>0, <2>1, <2>2, <3>1, <3>2
         DEF AccessInv, Access!TypeOK, RequestsInv, TransfersInv, SessionInv
  <2>3. CASE /\ Access(bus)!EndsClaim(t) /\ Access(bus)!Resource!Release(t.client)
             /\ session' = IF t.next = "stop" THEN None ELSE session
             /\ UNCHANGED ending
    <3>1. session' = None /\ ending' = None /\ currentClaim' = None /\ RequestsInv'
      BY <1>0, <2>1, <2>3, HolderReleases DEF Access!EndsClaim
    <3> QED
      BY <1>0, <2>1, <3>1 DEF AccessInv, Access!TypeOK, TransfersInv, SessionInv
  <2>4. CASE /\ Access(bus)!EndsClaim(t) /\ bus = "spi" /\ ending' = t.client
             /\ UNCHANGED <<Access(bus)!resource, session>>
    <3>1. UNCHANGED <<currentClaim, isGranted, isQueued>>
      BY <2>4 DEF Access!resource
    <3> QED
      BY <1>0, <2>1, <2>4, <3>1 DEF AccessInv, Access!TypeOK, RequestsInv, TransfersInv,
         SessionInv
  <2> QED
    BY <1>5, <2>2, <2>3, <2>4 DEF Access!Done
<1>6. CASE Access(bus)!EndSession
  <2>1. /\ ending \in Claimers /\ ending = currentClaim /\ transfers = {}
        /\ Access(bus)!Resource!Release(ending)
        /\ session' = None /\ ending' = None
        /\ UNCHANGED <<requested, transfers, configurator, busConfigurator>>
    BY <1>0, <1>6 DEF Access!EndSession, SessionInv, Access!TypeOK
  <2>2. currentClaim' = None /\ RequestsInv'
    BY <1>0, <2>1, HolderReleases
  <2> QED
    BY <1>0, <2>1, <2>2 DEF AccessInv, Access!TypeOK, TransfersInv, SessionInv
<1>7. CASE UNCHANGED Access(bus)!vars
  BY <1>0, <1>7 DEF Access!vars, Access!resource, Access!access, AccessInv, Access!TypeOK,
     RequestsInv, TransfersInv, SessionInv
<1> QED
  BY <1>1, <1>2, <1>3, <1>4, <1>5, <1>6, <1>7 DEF Access!Next

(***************************************************************************)
(* The invariant is what the clients are promised.                         *)
(***************************************************************************)
LEMMA AccessInvIsSafe ==
    ASSUME NEW bus \in Buses, AccessInv(bus)
    PROVE  Access(bus)!AccessSafe
<1>0. /\ Access(bus)!TypeOK /\ TransfersInv /\ SessionInv(bus) /\ None \notin Claimers
      /\ \A c \in Claimers : isGranted[c] <=> currentClaim = c
  BY HolderFacts, ClaimersAssumption DEF AccessInv
<1>1. Access(bus)!OneTransfer
  BY <1>0 DEF Access!OneTransfer, TransfersInv
<1>2. Access(bus)!SessionUndisturbed
  BY <1>0 DEF Access!SessionUndisturbed, TransfersInv, SessionInv, Access!TypeOK
<1>3. Access(bus)!ConfiguredForClient
  BY <1>0 DEF Access!ConfiguredForClient, TransfersInv
<1>4. Access(bus)!HeldForUse
  <2> SUFFICES ASSUME NEW c \in Claimers, isGranted[c], session /= c
               PROVE  \E t \in transfers : t.client = c
    BY DEF Access!HeldForUse
  <2>1. currentClaim = c /\ transfers /= {}
    BY <1>0 DEF SessionInv
  <2> QED
    BY <1>0, <2>1 DEF TransfersInv
<1> QED
  BY <1>0, <1>1, <1>2, <1>3, <1>4 DEF Access!AccessSafe

(***************************************************************************)
(* However many clients share a flash or a bus: the hardware has one       *)
(* transfer at a time, configured for its client, no client disturbs the   *)
(* session of another one, and none keeps the resource for nothing.        *)
(***************************************************************************)
THEOREM AccessIsSafe == EventsSpec => []AccessSafe
<1> DEFINE Inv == \A bus \in Buses : subject = bus => AccessInv(bus)
           all == <<subject, busVars, queueVars, statesVars>>
<1>1. EventsInit => Inv
  BY AccessInvInit DEF EventsInit
<1>2. Inv /\ [EventsNext]_all => Inv'
  <2> SUFFICES ASSUME Inv, [EventsNext]_all, NEW bus \in Buses, subject' = bus
               PROVE  AccessInv(bus)'
    OBVIOUS
  <2>1. subject = bus
    BY DEF EventsNext
  <2>2. [Access(bus)!Next]_(Access(bus)!vars)
    <3>1. CASE Access(bus)!Next
      BY <3>1
    <3>2. CASE UNCHANGED all
      BY <3>2 DEF busVars, vars, accessVars, Access!vars, Access!resource, Access!access
    <3> QED
      BY <2>1, <3>1, <3>2 DEF EventsNext, Buses
  <2> QED
    BY <2>1, <2>2, AccessInvNext
<1>3. Inv => AccessSafe
  BY AccessInvIsSafe DEF AccessSafe
<1> QED
  BY <1>1, <1>2, <1>3, PTL DEF EventsSpec

-----------------------------------------------------------------------------
(* SystemStateManager                                                      *)

\* Before RunStates nothing was told to anybody.
BeforeRun ==
    /\ currentState = 0 /\ ~aborted
    /\ previous = {} /\ working = {} /\ answers = << >>
    /\ participants = current
    /\ \A p \in Participants : reached[p] = 0

\* While states run, who is not late said how far it is.
DuringRun ==
    /\ currentState >= 1 /\ ~aborted
    /\ previous = working \cup States!Answering
    /\ participants = previous \cup current
    /\ previous \cap current = {} /\ working \cap States!Answering = {}
    /\ \A p \in working : reached[p] + 1 = currentState
    /\ \A p \in States!Answering \cup current : reached[p] = currentState

\* After the last state nobody is asked for anything.
AfterRun ==
    /\ working = {} /\ answers = << >>
    /\ \A p \in participants : reached[p] = NumStates

\* The inductive invariant
StatesInv ==
    /\ States!TypeOK
    /\ Unique(answers)
    /\ ~running => BeforeRun
    /\ running /\ ~States!Finished => DuringRun
    /\ States!Finished => AfterRun

(***************************************************************************)
(* What the answers under way are after one more of them.                  *)
(***************************************************************************)
LEMMA AnswerAppended ==
    ASSUME NEW S, NEW s \in Seq(S), NEW c \in S, Unique(s)
    PROVE  /\ c \notin {s[i] : i \in 1 .. Len(s)} => Unique(Append(s, c))
           /\ {Append(s, c)[i] : i \in 1 .. Len(Append(s, c))}
                 = {s[i] : i \in 1 .. Len(s)} \cup {c}
<1>1. /\ Len(Append(s, c)) = Len(s) + 1 /\ Len(s) \in Nat
      /\ \A i \in 1 .. Len(s) : Append(s, c)[i] = s[i]
      /\ Append(s, c)[Len(s) + 1] = c
  OBVIOUS
<1>2. \A i \in 1 .. Len(s) + 1 : i \in 1 .. Len(s) \/ i = Len(s) + 1
  BY <1>1
<1> QED
  BY <1>1, <1>2 DEF Unique

(***************************************************************************)
(* What the answers under way are after the first one was taken.           *)
(***************************************************************************)
LEMMA AnswerTaken ==
    ASSUME NEW S, NEW s \in Seq(S), Unique(s), s /= << >>
    PROVE  /\ Head(s) \in {s[i] : i \in 1 .. Len(s)}
           /\ Unique(Tail(s))
           /\ {Tail(s)[i] : i \in 1 .. Len(Tail(s))}
                 = {s[i] : i \in 1 .. Len(s)} \ {Head(s)}
<1>1. /\ Len(s) \in Nat /\ Len(s) >= 1
      /\ Head(s) = s[1]
      /\ Len(Tail(s)) = Len(s) - 1
      /\ \A i \in 1 .. Len(s) - 1 : Tail(s)[i] = s[i + 1]
  OBVIOUS
<1>2. Unique(Tail(s))
  BY <1>1 DEF Unique
<1>3. ASSUME NEW i \in 1 .. Len(s) - 1
      PROVE  Tail(s)[i] \in {s[j] : j \in 1 .. Len(s)} \ {Head(s)}
  BY <1>1 DEF Unique
<1>4. ASSUME NEW i \in 1 .. Len(s), s[i] /= Head(s)
      PROVE  s[i] \in {Tail(s)[j] : j \in 1 .. Len(s) - 1}
  <2>1. i - 1 \in 1 .. Len(s) - 1 /\ Tail(s)[i - 1] = s[i]
    BY <1>1, <1>4
  <2> QED
    BY <2>1
<1>5. {Tail(s)[i] : i \in 1 .. Len(s) - 1} = {s[i] : i \in 1 .. Len(s)} \ {Head(s)}
  BY <1>3, <1>4
<1>6. 1 \in 1 .. Len(s)
  BY <1>1
<1>7. Head(s) \in {s[i] : i \in 1 .. Len(s)}
  BY <1>1, <1>6
<1>8. {Tail(s)[i] : i \in 1 .. Len(Tail(s))} = {s[i] : i \in 1 .. Len(s)} \ {Head(s)}
  BY <1>1, <1>5, Zenon
<1> QED
  BY <1>2, <1>7, <1>8

(***************************************************************************)
(* Nothing happened before the first participant is constructed.           *)
(***************************************************************************)
LEMMA StatesInvInit == States!NumStatesAssumption /\ States!Init => StatesInv
<1> SUFFICES ASSUME NumStates \in Nat \ {0}, States!Init
             PROVE  StatesInv
  BY DEF States!NumStatesAssumption
<1>1. 0 \in 0 .. NumStates + 1 /\ 0 \in 0 .. NumStates
  OBVIOUS
<1>2. reached \in [Participants -> 0 .. NumStates] /\ answers \in Seq(Participants)
  BY <1>1 DEF States!Init
<1>3. States!TypeOK
  BY <1>1, <1>2 DEF States!Init, States!TypeOK
<1> QED
  BY <1>3 DEF States!Init, StatesInv, Unique, BeforeRun, States!Finished

(***************************************************************************)
(* Every call and every event keeps the invariant.                         *)
(***************************************************************************)
LEMMA StatesInvNext ==
    ASSUME States!NumStatesAssumption, StatesInv, [States!Next]_States!vars
    PROVE  StatesInv'
<1>0. /\ States!TypeOK /\ Unique(answers) /\ NumStates \in Nat \ {0}
      /\ ~running => BeforeRun
      /\ running /\ ~States!Finished => DuringRun
      /\ States!Finished => AfterRun
  BY DEF StatesInv, States!NumStatesAssumption
<1>1. ASSUME NEW p \in Participants, States!Construct(p)
      PROVE  StatesInv'
  <2>1. ~running /\ BeforeRun
    BY <1>0, <1>1 DEF States!Construct
  <2> QED
    BY <1>0, <1>1, <2>1 DEF States!Construct, StatesInv, States!TypeOK, BeforeRun, States!Finished
<1>2. ASSUME NEW p \in Participants, States!ReachedState(p)
      PROVE  StatesInv'
  <2>1. running /\ ~States!Finished /\ DuringRun
    BY <1>0, <1>2 DEF States!ReachedState, BeforeRun, AfterRun
  <2>2. p \in working /\ p \notin States!Answering
    BY <1>2, <2>1 DEF States!ReachedState, DuringRun
  <2>3. /\ answers' \in Seq(Participants) /\ Unique(answers')
        /\ States!Answering' = States!Answering \cup {p}
    <3>1. answers \in Seq(Participants) /\ answers' = Append(answers, p)
      BY <1>0, <1>2 DEF States!ReachedState, States!TypeOK
    <3>2. answers' \in Seq(Participants)
      BY <3>1
    <3>3. /\ p \notin States!Answering => Unique(Append(answers, p))
          /\ {Append(answers, p)[i] : i \in 1 .. Len(Append(answers, p))} = States!Answering \cup {p}
      BY <1>0, <3>1, AnswerAppended DEF States!Answering
    <3>4. Unique(answers') /\ States!Answering' = States!Answering \cup {p}
      BY <2>2, <3>1, <3>3, Zenon DEF States!Answering
    <3> QED
      BY <3>2, <3>4
  <2>4. /\ reached' \in [Participants -> 0 .. NumStates]
        /\ reached'[p] = currentState
        /\ \A q \in Participants \ {p} : reached'[q] = reached[q]
    BY <1>0, <1>2, <2>1, <2>2 DEF States!ReachedState, States!TypeOK, DuringRun, States!Finished
  <2>5. States!TypeOK' /\ running' /\ ~States!Finished'
    BY <1>0, <1>2, <2>1, <2>3, <2>4 DEF States!ReachedState, States!TypeOK, States!Finished
  <2>6. DuringRun'
    BY <1>0, <1>2, <2>1, <2>2, <2>3, <2>4 DEF States!ReachedState, States!TypeOK, DuringRun
  <2> QED
    BY <2>3, <2>5, <2>6 DEF StatesInv
<1>3. ASSUME NEW p \in Participants, States!Destruct(p)
      PROVE  StatesInv'
  <2>1. /\ p \in previous /\ p \notin States!Answering /\ running
        /\ States!Answering' = States!Answering
    BY <1>0, <1>3 DEF States!Destruct, BeforeRun, States!Answering
  <2>2. States!TypeOK' /\ Unique(answers)' /\ running' /\ States!Finished' = States!Finished
    BY <1>0, <1>3, <2>1 DEF States!Destruct, States!TypeOK, States!Finished, Unique
  <2>3. CASE States!Finished
    BY <1>0, <1>3, <2>2, <2>3 DEF States!Destruct, AfterRun, StatesInv
  <2>4. CASE ~States!Finished
    <3>1. DuringRun'
      BY <1>0, <1>3, <2>1, <2>4 DEF States!Destruct, DuringRun
    <3> QED
      BY <2>2, <2>4, <3>1 DEF StatesInv
  <2> QED
    BY <2>3, <2>4
<1>4. CASE States!RunStates
  <2>1. CASE running
    <3>1. States!Finished /\ currentState /= NumStates
      BY <1>0, <1>4, <2>1 DEF States!RunStates, States!Finished
    <3>2. UNCHANGED <<participants, previous, current, running, currentState, answers,
                      working, reached>>
      BY <1>4, <2>1, <3>1 DEF States!RunStates
    <3>3. aborted' = TRUE
      BY <1>4, <2>1, <3>1 DEF States!RunStates
    <3> QED
      BY <1>0, <3>1, <3>2, <3>3 DEF StatesInv, States!TypeOK, Unique, AfterRun, States!Finished
  <2>2. CASE ~running
    <3>1. /\ BeforeRun /\ running' = TRUE /\ aborted' = FALSE
          /\ UNCHANGED <<participants, answers, reached>>
          /\ previous' = participants /\ current' = {}
          /\ currentState' = IF participants = {} THEN NumStates + 1 ELSE 1
          /\ working' = IF currentState' = NumStates + 1 THEN {} ELSE participants
      BY <1>0, <1>4, <2>2 DEF States!RunStates, States!GoToNextState, BeforeRun
    <3>2. States!Answering' = {}
      BY <3>1 DEF States!Answering, BeforeRun
    <3>3. States!TypeOK' /\ Unique(answers)' /\ running'
      <4>1. currentState' \in 0 .. NumStates + 1
        BY <1>0, <3>1
      <4>2. working' \subseteq Participants
        BY <1>0, <3>1 DEF States!TypeOK
      <4> QED
        BY <1>0, <3>1, <4>1, <4>2 DEF States!TypeOK, Unique
    <3>4. CASE participants = {}
      BY <1>0, <3>1, <3>3, <3>4 DEF StatesInv, AfterRun, BeforeRun, States!Finished
    <3>5. CASE participants /= {}
      <4>1. currentState' = 1 /\ working' = participants /\ ~States!Finished'
        BY <1>0, <3>1, <3>5 DEF States!Finished
      <4>2. DuringRun'
        BY <1>0, <3>1, <3>2, <4>1 DEF DuringRun, BeforeRun, States!TypeOK
      <4> QED
        BY <3>3, <4>1, <4>2 DEF StatesInv
    <3> QED
      BY <3>4, <3>5
  <2> QED
    BY <2>1, <2>2
<1>5. CASE States!ExecuteReachedState
  <2> DEFINE p == Head(answers)
  <2>1. running /\ ~States!Finished /\ DuringRun /\ answers /= << >>
    BY <1>0, <1>5 DEF States!ExecuteReachedState, BeforeRun, AfterRun
  <2>2. /\ p \in States!Answering /\ p \in Participants
        /\ answers' \in Seq(Participants) /\ Unique(answers')
        /\ States!Answering' = States!Answering \ {p}
    <3>1. answers \in Seq(Participants) /\ answers' = Tail(answers)
      BY <1>0, <1>5 DEF States!ExecuteReachedState, States!TypeOK
    <3>2. answers' \in Seq(Participants) /\ p \in Participants
      BY <2>1, <3>1
    <3>3. /\ p \in States!Answering /\ Unique(Tail(answers))
          /\ {Tail(answers)[i] : i \in 1 .. Len(Tail(answers))} = States!Answering \ {p}
      BY <1>0, <2>1, <3>1, AnswerTaken, Zenon DEF States!Answering
    <3>4. Unique(answers') /\ States!Answering' = States!Answering \ {p}
      BY <3>1, <3>3, Zenon DEF States!Answering
    <3> QED
      BY <3>2, <3>3, <3>4
  <2>3. p \in previous /\ p \notin current /\ p \notin working
    BY <2>1, <2>2 DEF DuringRun
  <2>4. UNCHANGED <<participants, running, reached>>
    BY <1>5 DEF States!ExecuteReachedState
  <2>5. CASE previous \ {p} = {}
    <3>1. /\ previous' = current \cup {p} /\ current' = {}
          /\ currentState' = currentState + 1
          /\ working' = IF currentState' = NumStates + 1 THEN {} ELSE current \cup {p}
          /\ aborted' = FALSE
      BY <1>5, <2>3, <2>5 DEF States!ExecuteReachedState, States!GoToNextState,
         States!StillWaiting, States!AllReached
    <3>2. /\ working = {} /\ States!Answering = {p} /\ States!Answering' = {}
          /\ participants = current \cup {p}
      BY <2>1, <2>2, <2>3, <2>5 DEF DuringRun
    <3>3. States!TypeOK' /\ running'
      <4>1. currentState' \in 0 .. NumStates + 1
        BY <1>0, <2>1, <3>1 DEF States!TypeOK, States!Finished
      <4>2. working' \subseteq Participants
        BY <1>0, <2>2, <3>1 DEF States!TypeOK
      <4> QED
        BY <1>0, <2>1, <2>2, <2>4, <3>1, <4>1, <4>2 DEF States!TypeOK
    <3>4. CASE currentState = NumStates
      <4>1. States!Finished' /\ working' = {}
        BY <1>0, <3>1, <3>3, <3>4 DEF States!Finished
      <4>2. answers' = << >>
        <5>1. \A i \in 1 .. Len(answers') : answers'[i] \in States!Answering'
          BY DEF States!Answering
        <5>2. Len(answers') \in Nat /\ ~(1 \in 1 .. Len(answers'))
          BY <2>2, <3>2, <5>1
        <5> QED
          BY <2>2, <5>2
      <4>3. \A q \in participants' : reached'[q] = NumStates
        BY <2>1, <2>4, <3>2, <3>4 DEF DuringRun
      <4> QED
        BY <2>2, <3>3, <4>1, <4>2, <4>3 DEF StatesInv, AfterRun
    <3>5. CASE currentState /= NumStates
      <4>1. ~States!Finished' /\ working' = current \cup {p}
        BY <1>0, <3>1, <3>5 DEF States!Finished, States!TypeOK
      <4>2. DuringRun'
        BY <1>0, <2>1, <2>4, <3>1, <3>2, <4>1 DEF DuringRun, States!TypeOK
      <4> QED
        BY <2>2, <3>3, <4>1, <4>2 DEF StatesInv
    <3> QED
      BY <3>4, <3>5
  <2>6. CASE previous \ {p} /= {}
    <3>1. /\ previous' = previous \ {p} /\ current' = current \cup {p}
          /\ UNCHANGED <<currentState, working, aborted>>
      BY <1>5, <2>3, <2>6 DEF States!ExecuteReachedState, States!StillWaiting, States!AllReached
    <3>2. States!TypeOK' /\ running' /\ ~States!Finished'
      BY <1>0, <2>1, <2>2, <2>4, <3>1 DEF States!TypeOK, States!Finished
    <3>3. DuringRun'
      BY <2>1, <2>2, <2>3, <2>4, <3>1 DEF DuringRun
    <3> QED
      BY <2>2, <3>2, <3>3 DEF StatesInv
  <2> QED
    BY <2>5, <2>6
<1>6. CASE UNCHANGED States!vars
  BY <1>0, <1>6 DEF States!vars, StatesInv, States!TypeOK, Unique, BeforeRun, DuringRun, AfterRun,
     States!Finished, States!Answering
<1> QED
  BY <1>1, <1>2, <1>3, <1>4, <1>5, <1>6 DEF States!Next

(***************************************************************************)
(* The invariant is what the manager promises.                             *)
(***************************************************************************)
LEMMA StatesInvIsSafe == States!NumStatesAssumption /\ StatesInv => States!StatesSafe
<1> SUFFICES ASSUME NumStates \in Nat \ {0}, StatesInv
             PROVE  States!StatesSafe
  BY DEF States!NumStatesAssumption
<1>1. CASE ~running
  BY <1>1 DEF StatesInv, States!StatesSafe, States!InStep, States!WaitsForWhoIsLate
<1>2. CASE States!Finished
  BY <1>2 DEF StatesInv, States!StatesSafe, States!InStep, States!WaitsForWhoIsLate,
     States!Finished, AfterRun, States!TypeOK
<1>3. CASE running /\ ~States!Finished
  <2>1. DuringRun /\ States!TypeOK
    BY <1>3 DEF StatesInv
  <2>2. States!InStep
    BY <2>1 DEF DuringRun, States!InStep, States!TypeOK
  <2>3. States!WaitsForWhoIsLate
    BY <2>1 DEF DuringRun, States!WaitsForWhoIsLate
  <2> QED
    BY <2>1, <2>2, <2>3 DEF States!StatesSafe
<1> QED
  BY <1>1, <1>2, <1>3

(***************************************************************************)
(* No participant is told a state before every other one reached the state *)
(* before it, and while states run the manager waits for exactly those     *)
(* that have not answered: its assertions hold for any participants, in    *)
(* any number, whoever is destroyed meanwhile.                             *)
(***************************************************************************)
THEOREM StatesRunInStep == States!NumStatesAssumption /\ States!Spec => []StatesSafe
<1>1. States!NumStatesAssumption /\ States!Init => StatesInv
  BY StatesInvInit
<1>2. States!NumStatesAssumption /\ StatesInv /\ [States!Next]_States!vars => StatesInv'
  BY StatesInvNext
<1>3. States!NumStatesAssumption /\ StatesInv => StatesSafe
  BY StatesInvIsSafe DEF StatesSafe
<1>4. States!NumStatesAssumption => []States!NumStatesAssumption
  OBVIOUS
<1> QED
  BY <1>1, <1>2, <1>3, <1>4, PTL DEF States!Spec

-----------------------------------------------------------------------------
(* QueueForOneReaderOneIrqWriter                                           *)
(* The ring.                                                               *)

\* The index of position d when the contents begin at b
Pos(b, d) == IF b + d >= N THEN d - (N - b) ELSE b + d

(***************************************************************************)
(* Different positions have different indices in the buffer.               *)
(***************************************************************************)
LEMMA PosInjective ==
    ASSUME Queue!NAssumption, NEW b \in Queue!Indices, NEW d \in Queue!Indices
    PROVE  /\ Pos(b, d) \in Queue!Indices
           /\ \A e \in Queue!Indices : Pos(b, d) = Pos(b, e) => d = e
BY DEF Queue!NAssumption, Queue!Indices, Pos

(***************************************************************************)
(* Positions that follow each other have indices that do, up to the end    *)
(* of the buffer, where they begin again.                                  *)
(***************************************************************************)
LEMMA PosRun ==
    ASSUME Queue!NAssumption, NEW b \in Queue!Indices, NEW d \in Queue!Indices, NEW k \in Nat,
           d + k \in Queue!Indices
    PROVE  /\ Pos(b, d) + k < N => Pos(b, d + k) = Pos(b, d) + k
           /\ Pos(b, d) + k = N => Pos(b, d + k) = 0
BY DEF Queue!NAssumption, Queue!Indices, Pos

(***************************************************************************)
(* When the beginning moves on, positions move back.                       *)
(***************************************************************************)
LEMMA PosMove ==
    ASSUME Queue!NAssumption, NEW b \in Queue!Indices, NEW k \in Nat, NEW d \in Nat,
           d + k \in Queue!Indices
    PROVE  /\ b + k < N => Pos(b + k, d) = Pos(b, d + k)
           /\ b + k = N => Pos(0, d) = Pos(b, d + k)
BY DEF Queue!NAssumption, Queue!Indices, Pos

(***************************************************************************)
(* Full, Empty and Size find out from the two indices how many elements    *)
(* there are.                                                              *)
(***************************************************************************)
LEMMA SizeFound ==
    ASSUME Queue!NAssumption, contentsBegin \in Queue!Indices, NEW d \in Queue!Indices,
           contentsEnd = Pos(contentsBegin, d)
    PROVE  /\ Queue!Empty <=> d = 0
           /\ Queue!Full <=> d = N - 1
           /\ Queue!Size = d
           /\ contentsBegin <= contentsEnd <=> contentsBegin + d < N
<1>1. contentsBegin \in Int /\ d \in Int /\ N \in Int /\ N >= 2
      /\ 0 <= contentsBegin /\ contentsBegin <= N - 1 /\ 0 <= d /\ d <= N - 1
  BY DEF Queue!NAssumption, Queue!Indices
<1>2. CASE contentsBegin + d >= N
  <2>1. contentsEnd = contentsBegin + d - N
    BY <1>1, <1>2 DEF Pos
  <2> QED
    BY <1>1, <1>2, <2>1 DEF Queue!Empty, Queue!Full, Queue!Size, Queue!EmptySize
<1>3. CASE contentsBegin + d < N
  <2>1. contentsEnd = contentsBegin + d
    BY <1>1, <1>3 DEF Pos
  <2> QED
    BY <1>1, <1>3, <2>1 DEF Queue!Empty, Queue!Full, Queue!Size, Queue!EmptySize
<1> QED
  BY <1>1, <1>2, <1>3

-----------------------------------------------------------------------------
(* The inductive invariant.                                                *)

\* The contents are the elements added and not removed.
RingInv ==
    /\ removed <= added
    /\ added - removed <= N - 1
    /\ contentsEnd = Pos(contentsBegin, added - removed)

\* What the writer stored beyond the contents, and still has to store, fits
\* in the buffer whatever the reader did since the writer looked; and the
\* writer reaches the end of the buffer when something is left to store.
WriterInv ==
    /\ wpc \in {"idle", "rangeCopy", "notify", "exchange"} => stored = added
    /\ wpc = "advance" => stored = added + 1 /\ stored - removed <= N - 1
    /\ wpc = "rangeAdvance" =>
          /\ stored = added + chunk
          /\ contentsEnd + chunk <= N
          /\ rest > 0 => contentsEnd + chunk = N
          /\ stored + rest - removed <= N - 1
    /\ wpc = "rangeCopy" =>
          /\ rest > 0 => contentsEnd = 0
          /\ stored + rest - removed <= N - 1
    /\ wpc = "rangeFinish" =>
          /\ stored = added + chunk
          /\ chunk > 0 => contentsEnd = 0
          /\ stored - removed <= N - 1

\* Every element stored and not removed is at its place.
ContentsInv ==
    \A d \in Queue!Indices : d < stored - removed => buffer[Pos(contentsBegin, d)] = removed + d

\* The reader has what it removed and what it is about to remove.
ReaderInv ==
    /\ rpc \in {"idle", "callback"} => Len(got) = removed
    /\ rpc = "advance" => Len(got) = removed + 1 /\ removed < added
    /\ rpc \in {"consume", "consumeRest"} =>
          /\ Len(got) = removed + amount
          /\ removed + amount <= added
    /\ rpc = "consumeRest" => contentsBegin = 0
    /\ Queue!Fifo

\* What the reader looks at is a run of the contents.
ViewInv ==
    view.length > 0 =>
        /\ rpc = "callback"
        /\ removed <= view.element
        /\ view.element + view.length <= added
        /\ view.start = Pos(contentsBegin, view.element - removed)
        /\ view.start + view.length <= N

\* The flag tells whether the event is in the event dispatcher.
NoticeInv ==
    /\ scheduled = IF notificationScheduled THEN 1 ELSE 0
    /\ Queue!ContentsAnnounced

QueueInv ==
    Queue!TypeOK /\ RingInv /\ WriterInv /\ ContentsInv /\ ReaderInv /\ ViewInv /\ NoticeInv

-----------------------------------------------------------------------------
(* What the invariant says in each state.                                  *)

(***************************************************************************)
(* Under the invariant, Empty, Full and Size tell how many elements were   *)
(* added and not removed, and what is stored fits in the buffer.           *)
(***************************************************************************)
LEMMA ContentsFound ==
    ASSUME Queue!NAssumption, Queue!TypeOK, RingInv, WriterInv
    PROVE  /\ added - removed \in Queue!Indices
           /\ Queue!Empty <=> added = removed
           /\ Queue!Full <=> added - removed = N - 1
           /\ Queue!Size = added - removed
           /\ contentsBegin <= contentsEnd <=> contentsBegin + (added - removed) < N
           /\ added <= stored
           /\ stored - removed \in Queue!Indices
<1>1. added - removed \in Queue!Indices
  BY DEF Queue!NAssumption, Queue!TypeOK, RingInv, Queue!Indices
<1>2. added <= stored /\ stored - removed \in Queue!Indices
  BY DEF Queue!NAssumption, Queue!TypeOK, RingInv, WriterInv, Queue!Indices
<1>3. contentsBegin \in Queue!Indices /\ contentsEnd = Pos(contentsBegin, added - removed)
  BY DEF Queue!TypeOK, RingInv
<1>4. added = removed <=> added - removed = 0
  BY DEF Queue!TypeOK
<1> QED
  BY <1>1, <1>2, <1>3, <1>4, SizeFound

(***************************************************************************)
(* The invariant implies what the queue promises.                          *)
(***************************************************************************)
LEMMA InvSafe ==
    ASSUME Queue!NAssumption, QueueInv
    PROVE  Queue!QueueSafe
<1> USE DEF QueueInv
<1>1. Queue!ViewIntact
  <2> SUFFICES ASSUME NEW j \in 0 .. view.length - 1
               PROVE  view.start + j \in Queue!Indices /\ buffer[view.start + j] = view.element + j
    BY DEF Queue!ViewIntact
  <2> DEFINE d == view.element - removed
  <2>1. /\ view.length \in Nat /\ view.element \in Nat /\ view.start \in Nat
        /\ removed \in Nat /\ added \in Nat /\ N \in Nat /\ stored \in Nat
    BY DEF Queue!TypeOK, Queue!NAssumption
  <2>2. view.length > 0 /\ j \in Nat /\ j < view.length
    BY <2>1
  <2>3. ViewInv!2
    BY <2>2 DEF ViewInv
  <2>4. added - removed \in Queue!Indices /\ added <= stored
    BY ContentsFound
  <2>5. d \in Queue!Indices /\ d + j \in Queue!Indices /\ d + j < stored - removed
    BY <2>1, <2>2, <2>3, <2>4 DEF Queue!Indices
  <2>6. Pos(contentsBegin, d) + j < N
    BY <2>1, <2>2, <2>3
  <2>7. Pos(contentsBegin, d + j) = view.start + j
    <3>1. contentsBegin \in Queue!Indices
      BY DEF Queue!TypeOK
    <3> HIDE DEF d
    <3>2. Pos(contentsBegin, d + j) = Pos(contentsBegin, d) + j
      BY <3>1, <2>2, <2>5, <2>6, PosRun
    <3> QED
      BY <3>2, <2>3 DEF d
  <2>8. buffer[Pos(contentsBegin, d + j)] = removed + (d + j)
    BY <2>5 DEF ContentsInv
  <2>9. view.start + j \in Queue!Indices
    BY <2>1, <2>2, <2>3 DEF Queue!Indices
  <2> QED
    BY <2>1, <2>2, <2>7, <2>8, <2>9
<1>2. Queue!SizeIsContents
  <2>1. Queue!Size = added - removed /\ added - removed \in Queue!Indices
    BY ContentsFound
  <2> QED
    BY <2>1 DEF Queue!SizeIsContents, Queue!EmptySize, Queue!Indices, Queue!NAssumption
<1>3. Queue!OneNotification
  BY DEF NoticeInv, Queue!OneNotification
<1> QED
  BY <1>1, <1>2, <1>3 DEF Queue!QueueSafe, ReaderInv, NoticeInv

(***************************************************************************)
(* The invariant holds initially.                                          *)
(***************************************************************************)
LEMMA InitInv ==
    ASSUME Queue!NAssumption, Queue!Init
    PROVE  QueueInv
<1> USE DEF Queue!Init
<1>1. Queue!TypeOK
  <2>1. got \in Seq(Int)
    OBVIOUS
  <2>2. view \in [start : Nat, length : Nat, element : Nat]
    BY DEF Queue!NoView
  <2>3. buffer \in [Queue!Indices -> Int]
    OBVIOUS
  <2>4. 0 \in Queue!Indices
    BY DEF Queue!NAssumption, Queue!Indices
  <2> QED
    BY <2>1, <2>2, <2>3, <2>4 DEF Queue!TypeOK
<1>2. RingInv /\ WriterInv
  BY DEF RingInv, WriterInv, Pos, Queue!NAssumption
<1>3. ContentsInv
  BY DEF ContentsInv, Queue!Indices, Queue!NAssumption
<1>4. ReaderInv
  <2>1. Len(got) = 0
    OBVIOUS
  <2> QED
    BY <2>1 DEF ReaderInv, Queue!Fifo
<1>5. ViewInv
  BY DEF ViewInv, Queue!NoView
<1>6. NoticeInv
  BY DEF NoticeInv, Queue!ContentsAnnounced, Queue!Empty
<1> QED
  BY <1>1, <1>2, <1>3, <1>4, <1>5, <1>6 DEF QueueInv

-----------------------------------------------------------------------------
(* What storing, and moving an end of the contents, does to the ring.      *)

(***************************************************************************)
(* Elements stored after the contents leave the contents alone and are at  *)
(* their places.                                                           *)
(***************************************************************************)
LEMMA StoreContents ==
    ASSUME Queue!NAssumption, Queue!TypeOK, RingInv, ContentsInv, stored = added,
           NEW count \in Nat, contentsEnd + count <= N, added + count - removed <= N - 1,
           buffer' = Queue!Copied(contentsEnd, count), stored' = stored + count,
           contentsBegin' = contentsBegin, removed' = removed
    PROVE  buffer' \in [Queue!Indices -> Int] /\ ContentsInv'
<1> DEFINE size == added - removed
<1>1. /\ added \in Nat /\ removed \in Nat /\ stored \in Nat /\ N \in Nat
      /\ contentsEnd \in Nat /\ contentsBegin \in Queue!Indices
  BY DEF Queue!TypeOK, Queue!NAssumption, Queue!Indices
<1>2. size \in Queue!Indices /\ contentsEnd = Pos(contentsBegin, size)
  BY <1>1 DEF RingInv, Queue!Indices
<1>3. buffer' \in [Queue!Indices -> Int]
  <2>1. \A i \in Queue!Indices : stored + (i - contentsEnd) \in Int /\ buffer[i] \in Int
    BY <1>1 DEF Queue!TypeOK, Queue!Indices
  <2> QED
    BY <2>1 DEF Queue!Copied
<1>4. ASSUME NEW d \in Queue!Indices, d < stored' - removed'
      PROVE  buffer'[Pos(contentsBegin, d)] = removed + d
  <2>1. Pos(contentsBegin, d) \in Queue!Indices
    BY <1>1, PosInjective
  <2>2. d \in Nat
    BY <1>1 DEF Queue!Indices
  <2>3. CASE d < size
    <3>1. buffer[Pos(contentsBegin, d)] = removed + d
      BY <2>3 DEF ContentsInv
    <3>2. ASSUME Pos(contentsBegin, d) \in contentsEnd .. contentsEnd + count - 1
          PROVE  FALSE
      <4> DEFINE k == Pos(contentsBegin, d) - contentsEnd
      <4>1. k \in Nat /\ k < count /\ contentsEnd + k = Pos(contentsBegin, d)
        BY <3>2, <1>1, <2>1 DEF Queue!Indices
      <4>2. contentsEnd + k < N /\ size + k \in Queue!Indices
        BY <4>1, <1>1, <1>2 DEF Queue!Indices
      <4> HIDE DEF k, size
      <4>3. Pos(contentsBegin, size + k) = Pos(contentsBegin, d)
        BY <4>1, <4>2, <1>1, <1>2, PosRun
      <4>4. size + k = d
        BY <4>2, <4>3, <1>1, PosInjective
      <4> QED
        BY <4>1, <4>4, <2>3, <1>2, <2>2 DEF Queue!Indices
    <3> QED
      BY <3>1, <3>2, <2>1 DEF Queue!Copied
  <2>4. CASE d >= size
    <3> DEFINE k == d - size
    <3>1. k \in Nat /\ k < count /\ size + k = d
      BY <2>2, <2>4, <1>1, <1>2, <1>4 DEF Queue!Indices
    <3>2. contentsEnd + k < N
      BY <3>1, <1>1
    <3>3. Pos(contentsBegin, d) = contentsEnd + k
      <4> HIDE DEF k, size
      <4> QED
        BY <3>1, <3>2, <1>1, <1>2, PosRun
    <3>4. contentsEnd + k \in contentsEnd .. contentsEnd + count - 1
      BY <3>1, <1>1
    <3>5. buffer'[Pos(contentsBegin, d)] = stored + (Pos(contentsBegin, d) - contentsEnd)
      BY <2>1, <3>3, <3>4 DEF Queue!Copied
    <3> QED
      BY <3>1, <3>3, <3>5, <1>1
  <2> QED
    BY <2>2, <2>3, <2>4, <1>1
<1> QED
  BY <1>3, <1>4 DEF ContentsInv

(***************************************************************************)
(* The end of the contents moves over what was stored.                     *)
(***************************************************************************)
LEMMA EndMoves ==
    ASSUME Queue!NAssumption, Queue!TypeOK, RingInv,
           NEW count \in Nat, contentsEnd + count <= N, added + count - removed <= N - 1,
           contentsEnd' = IF contentsEnd + count = N THEN 0 ELSE contentsEnd + count,
           added' = added + count, contentsBegin' = contentsBegin, removed' = removed
    PROVE  contentsEnd' \in Queue!Indices /\ RingInv'
<1> DEFINE size == added - removed
<1>1. /\ added \in Nat /\ removed \in Nat /\ N \in Nat /\ N >= 2
      /\ contentsEnd \in Nat /\ contentsBegin \in Queue!Indices
  BY DEF Queue!TypeOK, Queue!NAssumption, Queue!Indices
<1>2. /\ size \in Queue!Indices /\ size + count \in Queue!Indices
      /\ contentsEnd = Pos(contentsBegin, size) /\ removed <= added
  BY <1>1 DEF RingInv, Queue!Indices
<1>3. contentsEnd' = Pos(contentsBegin, size + count)
  <2> HIDE DEF size
  <2> QED
    BY <1>1, <1>2, PosRun
<1>4. size + count = added' - removed' /\ removed' <= added'
  BY <1>1, <1>2
<1>5. contentsEnd' \in Queue!Indices
  BY <1>1 DEF Queue!Indices
<1> QED
  BY <1>3, <1>4, <1>5, <1>1 DEF RingInv

(***************************************************************************)
(* The beginning of the contents moves over what was read.                 *)
(***************************************************************************)
LEMMA BeginMoves ==
    ASSUME Queue!NAssumption, Queue!TypeOK, RingInv, WriterInv, ContentsInv,
           NEW count \in Nat, contentsBegin + count <= N, removed + count <= added,
           contentsBegin' = IF contentsBegin + count = N THEN 0 ELSE contentsBegin + count,
           removed' = removed + count,
           UNCHANGED <<buffer, contentsEnd, Queue!writerVars>>
    PROVE  contentsBegin' \in Queue!Indices /\ RingInv' /\ WriterInv' /\ ContentsInv'
<1>1. /\ added \in Nat /\ removed \in Nat /\ stored \in Nat /\ N \in Nat /\ N >= 2
      /\ contentsBegin \in Nat /\ contentsBegin \in Queue!Indices /\ chunk \in Nat /\ rest \in Nat
  BY DEF Queue!TypeOK, Queue!NAssumption, Queue!Indices
<1>2. /\ added' = added /\ stored' = stored /\ buffer' = buffer /\ contentsEnd' = contentsEnd
      /\ wpc' = wpc /\ chunk' = chunk /\ rest' = rest
  BY DEF Queue!writerVars
<1>3. contentsBegin' \in Queue!Indices
  BY <1>1 DEF Queue!Indices
<1>4. ASSUME NEW d \in Nat, d + count \in Queue!Indices
      PROVE  Pos(contentsBegin', d) = Pos(contentsBegin, d + count)
  BY <1>1, <1>4, PosMove
<1>5. RingInv'
  <2>1. added - removed' \in Nat /\ (added - removed') + count = added - removed
    BY <1>1
  <2>2. added - removed \in Queue!Indices
    BY ContentsFound
  <2>3. contentsEnd = Pos(contentsBegin', added - removed')
    BY <1>4, <2>1, <2>2 DEF RingInv
  <2> QED
    BY <1>1, <1>2, <2>1, <2>2, <2>3 DEF RingInv, Queue!Indices
<1>6. WriterInv'
  BY <1>1, <1>2 DEF WriterInv
<1>7. ContentsInv'
  <2> SUFFICES ASSUME NEW d \in Queue!Indices, d < stored - removed'
               PROVE  buffer[Pos(contentsBegin', d)] = removed' + d
    BY <1>2 DEF ContentsInv
  <2>1. d \in Nat /\ d + count < stored - removed
    BY <1>1 DEF Queue!Indices
  <2>2. d + count \in Queue!Indices
    <3>1. stored - removed \in Queue!Indices
      BY ContentsFound
    <3> QED
      BY <1>1, <2>1, <3>1 DEF Queue!Indices
  <2>3. buffer[Pos(contentsBegin, d + count)] = removed + (d + count)
    BY <2>1, <2>2 DEF ContentsInv
  <2>4. Pos(contentsBegin', d) = Pos(contentsBegin, d + count)
    BY <1>4, <2>1, <2>2
  <2> QED
    BY <1>1, <2>1, <2>3, <2>4
<1> QED
  BY <1>3, <1>5, <1>6, <1>7

-----------------------------------------------------------------------------
(* The writer's steps.                                                     *)

(***************************************************************************)
(* A step of the writer leaves the reader's part of the invariant alone.   *)
(***************************************************************************)
LEMMA WriterKeepsReader ==
    ASSUME Queue!TypeOK, ReaderInv, ViewInv, added' \in Nat, added <= added',
           contentsBegin' = contentsBegin, UNCHANGED Queue!readerVars
    PROVE  ReaderInv' /\ ViewInv'
<1>1. rpc' = rpc /\ amount' = amount /\ view' = view /\ removed' = removed /\ got' = got
  BY DEF Queue!readerVars
<1>2. /\ added \in Nat /\ removed \in Nat /\ amount \in Nat
      /\ view.element \in Nat /\ view.length \in Nat
  BY DEF Queue!TypeOK
<1>3. ReaderInv'
  BY <1>1, <1>2 DEF ReaderInv, Queue!Fifo
<1>4. ViewInv'
  BY <1>1, <1>2 DEF ViewInv
<1> QED
  BY <1>3, <1>4

(***************************************************************************)
(* A range that AddFromInterrupt accepts fits, and fits before the end of  *)
(* the buffer or else begins again at its beginning.                       *)
(***************************************************************************)
LEMMA RangeFits ==
    ASSUME Queue!NAssumption, Queue!TypeOK, RingInv, WriterInv, NEW size \in 1 .. N,
           NEW copySize, copySize = Queue!Lesser(size, N - contentsEnd), Queue!HasRoom(copySize),
           size <= Queue!EmptySize - Queue!Size \/ ~(contentsBegin <= contentsEnd)
    PROVE  /\ copySize \in Nat /\ size - copySize \in Nat
           /\ contentsEnd + copySize <= N
           /\ size - copySize > 0 => contentsEnd + copySize = N
           /\ added + size - removed <= N - 1
<1>1. /\ added \in Nat /\ removed \in Nat /\ N \in Nat /\ N >= 2 /\ size \in Nat
      /\ contentsEnd \in Nat /\ contentsBegin \in Nat
      /\ contentsEnd < N /\ contentsBegin < N
  BY DEF Queue!TypeOK, Queue!NAssumption, Queue!Indices
<1>2. /\ copySize \in Nat /\ size - copySize \in Nat
      /\ contentsEnd + copySize <= N
      /\ size - copySize > 0 => contentsEnd + copySize = N
  BY <1>1 DEF Queue!Lesser
<1>3. CASE contentsBegin <= contentsEnd
  <2>1. Queue!Size = added - removed
    BY ContentsFound
  <2>2. size <= (N - 1) - (added - removed)
    BY <1>3, <2>1 DEF Queue!EmptySize
  <2> QED
    BY <1>1, <1>2, <2>2
<1>4. CASE ~(contentsBegin <= contentsEnd)
  <2>1. contentsBegin > contentsEnd + copySize
    BY <1>4 DEF Queue!HasRoom
  <2>2. copySize = size
    BY <1>1, <1>2, <2>1 
  <2>3. ~(contentsBegin + (added - removed) < N)
    BY <1>4, ContentsFound
  <2>4. contentsEnd = (added - removed) - (N - contentsBegin)
    BY <1>1, <2>3 DEF RingInv, Pos
  <2> QED
    BY <1>1, <1>2, <2>1, <2>2, <2>4
<1> QED
  BY <1>3, <1>4

(***************************************************************************)
(* AddFromInterrupt(element) preserves the invariant.                      *)
(***************************************************************************)
LEMMA AddElementInv ==
    ASSUME Queue!NAssumption, QueueInv, Queue!AddElement \/ Queue!AdvanceEnd
    PROVE  QueueInv'
<1> USE DEF QueueInv
<1>0. /\ added \in Nat /\ removed \in Nat /\ stored \in Nat /\ N \in Nat /\ N >= 2
      /\ contentsEnd \in Queue!Indices /\ contentsEnd \in Nat /\ contentsEnd <= N - 1
  BY DEF Queue!TypeOK, Queue!NAssumption, Queue!Indices
<1>1. CASE Queue!AddElement
  <2> USE <1>1 DEF Queue!AddElement
  <2>1. stored = added /\ wpc = "idle"
    BY DEF WriterInv
  <2>2. added + 1 - removed <= N - 1
    <3>1. added - removed /= N - 1 /\ added - removed \in Queue!Indices
      BY ContentsFound
    <3> QED
      BY <1>0, <3>1 DEF Queue!Indices
  <2>3. buffer' = Queue!Copied(contentsEnd, 1)
    <3>1. \A i \in Queue!Indices : i \in contentsEnd .. contentsEnd + 1 - 1 <=> i = contentsEnd
      BY <1>0 DEF Queue!Indices
    <3>2. stored + (contentsEnd - contentsEnd) = stored
      BY <1>0
    <3>3. buffer \in [Queue!Indices -> Int]
      BY DEF Queue!TypeOK
    <3> QED
      BY <1>0, <3>1, <3>2, <3>3 DEF Queue!Copied
  <2>4. buffer' \in [Queue!Indices -> Int] /\ ContentsInv'
    <3>1. 1 \in Nat /\ contentsEnd + 1 <= N
      BY <1>0
    <3> QED
      BY <2>1, <2>2, <2>3, <3>1, StoreContents DEF Queue!readerVars
  <2>5. Queue!TypeOK'
    BY <2>4, <1>0 DEF Queue!TypeOK, Queue!readerVars
  <2>6. RingInv' /\ WriterInv'
    BY <1>0, <2>1, <2>2 DEF RingInv, WriterInv, Queue!readerVars
  <2>7. ReaderInv' /\ ViewInv'
    BY <1>0, WriterKeepsReader
  <2>8. NoticeInv'
    BY DEF NoticeInv, Queue!ContentsAnnounced, Queue!Empty
  <2> QED
    BY <2>4, <2>5, <2>6, <2>7, <2>8
<1>2. CASE Queue!AdvanceEnd
  <2> USE <1>2 DEF Queue!AdvanceEnd
  <2>1. stored = added + 1 /\ added + 1 - removed <= N - 1
    BY <1>0 DEF WriterInv
  <2>2. contentsEnd' \in Queue!Indices /\ RingInv'
    <3>1. /\ 1 \in Nat /\ contentsEnd + 1 <= N
          /\ contentsEnd' = IF contentsEnd + 1 = N THEN 0 ELSE contentsEnd + 1
      BY <1>0
    <3> QED
      BY <2>1, <3>1, EndMoves DEF Queue!readerVars
  <2>3. Queue!TypeOK'
    BY <2>2, <1>0 DEF Queue!TypeOK, Queue!readerVars
  <2>4. WriterInv' /\ ContentsInv'
    BY <2>1 DEF WriterInv, ContentsInv, Queue!readerVars
  <2>5. ReaderInv' /\ ViewInv'
    BY <1>0, WriterKeepsReader
  <2>6. NoticeInv'
    BY DEF NoticeInv, Queue!ContentsAnnounced
  <2> QED
    BY <2>2, <2>3, <2>4, <2>5, <2>6
<1> QED
  BY <1>1, <1>2

(***************************************************************************)
(* AddFromInterrupt(range) preserves the invariant.                        *)
(***************************************************************************)
LEMMA AddRangeInv ==
    ASSUME Queue!NAssumption, QueueInv,
           \/ \E size \in 1 .. N : Queue!AddRange(size)
           \/ Queue!RangeAdvance \/ Queue!RangeCopyRest \/ Queue!RangeAdvanceRest
    PROVE  QueueInv'
<1> USE DEF QueueInv
<1>0. /\ added \in Nat /\ removed \in Nat /\ stored \in Nat /\ N \in Nat /\ N >= 2
      /\ chunk \in Nat /\ rest \in Nat
      /\ contentsEnd \in Queue!Indices /\ contentsEnd \in Nat /\ contentsEnd <= N - 1
  BY DEF Queue!TypeOK, Queue!NAssumption, Queue!Indices
<1>1. ASSUME NEW size \in 1 .. N, Queue!AddRange(size)
      PROVE  QueueInv'
  <2> USE <1>1 DEF Queue!AddRange
  <2>1. stored = added /\ wpc = "idle"
    BY DEF WriterInv
  <2> DEFINE copySize == Queue!Lesser(size, N - contentsEnd)
  <2>2. /\ copySize \in Nat /\ size - copySize \in Nat
        /\ contentsEnd + copySize <= N
        /\ size - copySize > 0 => contentsEnd + copySize = N
        /\ added + size - removed <= N - 1
    <3>1. /\ Queue!HasRoom(copySize)
          /\ size <= Queue!EmptySize - Queue!Size \/ ~(contentsBegin <= contentsEnd)
      OBVIOUS
    <3> HIDE <1>1
    <3> QED
      BY <3>1, RangeFits
  <2>3. /\ buffer' = Queue!Copied(contentsEnd, copySize) /\ stored' = stored + copySize
        /\ chunk' = copySize /\ rest' = size - copySize /\ wpc' = "rangeAdvance"
        /\ UNCHANGED <<contentsBegin, contentsEnd, notificationScheduled, scheduled,
                       added, Queue!readerVars>>
    OBVIOUS
  <2>4. size \in Nat
    BY <1>0
  <2> HIDE <1>1 DEF Queue!AddRange, copySize
  <2>5. buffer' \in [Queue!Indices -> Int] /\ ContentsInv'
    <3>1. added + copySize - removed <= N - 1
      BY <1>0, <2>2, <2>4
    <3> QED
      BY <2>1, <2>2, <2>3, <3>1, StoreContents DEF Queue!readerVars
  <2>6. Queue!TypeOK'
    BY <2>2, <2>3, <2>5, <1>0 DEF Queue!TypeOK, Queue!readerVars
  <2>7. RingInv' /\ WriterInv'
    <3>1. stored' + rest' - removed <= N - 1
      BY <1>0, <2>1, <2>2, <2>3, <2>4
    <3> QED
      BY <1>0, <2>1, <2>2, <2>3, <3>1 DEF RingInv, WriterInv, Queue!readerVars
  <2>8. ReaderInv' /\ ViewInv'
    BY <1>0, <2>3, WriterKeepsReader
  <2>9. NoticeInv'
    BY <2>3 DEF NoticeInv, Queue!ContentsAnnounced, Queue!Empty
  <2> QED
    BY <2>5, <2>6, <2>7, <2>8, <2>9
<1>2. CASE Queue!RangeAdvance
  <2> USE <1>2 DEF Queue!RangeAdvance
  <2>1. /\ stored = added + chunk /\ contentsEnd + chunk <= N
        /\ rest > 0 => contentsEnd + chunk = N
        /\ stored + rest - removed <= N - 1
    BY DEF WriterInv
  <2>2. contentsEnd' \in Queue!Indices /\ RingInv'
    <3>1. /\ contentsEnd' = IF contentsEnd + chunk = N THEN 0 ELSE contentsEnd + chunk
          /\ added + chunk - removed <= N - 1
      BY <1>0, <2>1
    <3> QED
      BY <1>0, <2>1, <3>1, EndMoves DEF Queue!readerVars
  <2>3. Queue!TypeOK'
    BY <2>2, <1>0 DEF Queue!TypeOK, Queue!readerVars
  <2>4. WriterInv' /\ ContentsInv'
    BY <1>0, <2>1 DEF WriterInv, ContentsInv, Queue!readerVars
  <2>5. ReaderInv' /\ ViewInv'
    BY <1>0, WriterKeepsReader
  <2>6. NoticeInv'
    BY DEF NoticeInv, Queue!ContentsAnnounced
  <2> QED
    BY <2>2, <2>3, <2>4, <2>5, <2>6
<1>3. CASE Queue!RangeCopyRest
  <2> USE <1>3 DEF Queue!RangeCopyRest
  <2>1. stored = added /\ (rest > 0 => contentsEnd = 0) /\ stored + rest - removed <= N - 1
    BY DEF WriterInv
  <2>2. contentsEnd + rest <= N
    <3>1. removed <= added
      BY DEF RingInv
    <3> QED
      BY <1>0, <2>1, <3>1
  <2>3. buffer' \in [Queue!Indices -> Int] /\ ContentsInv'
    BY <1>0, <2>1, <2>2, StoreContents DEF Queue!readerVars
  <2>4. Queue!TypeOK'
    BY <2>3, <1>0 DEF Queue!TypeOK, Queue!readerVars
  <2>5. RingInv' /\ WriterInv'
    BY <1>0, <2>1 DEF RingInv, WriterInv, Queue!readerVars
  <2>6. ReaderInv' /\ ViewInv'
    BY <1>0, WriterKeepsReader
  <2>7. NoticeInv'
    BY DEF NoticeInv, Queue!ContentsAnnounced, Queue!Empty
  <2> QED
    BY <2>3, <2>4, <2>5, <2>6, <2>7
<1>4. CASE Queue!RangeAdvanceRest
  <2> USE <1>4 DEF Queue!RangeAdvanceRest
  <2>1. /\ stored = added + chunk /\ (chunk > 0 => contentsEnd = 0)
        /\ stored - removed <= N - 1 /\ removed <= added
    BY DEF WriterInv, RingInv
  <2>2. contentsEnd' \in Queue!Indices /\ RingInv'
    <3>1. /\ contentsEnd + chunk <= N /\ contentsEnd + chunk /= N
          /\ added + chunk - removed <= N - 1
      BY <1>0, <2>1
    <3> QED
      BY <1>0, <3>1, EndMoves DEF Queue!readerVars
  <2>3. Queue!TypeOK'
    BY <2>2, <1>0 DEF Queue!TypeOK, Queue!readerVars
  <2>4. WriterInv' /\ ContentsInv'
    BY <1>0, <2>1 DEF WriterInv, ContentsInv, Queue!readerVars
  <2>5. ReaderInv' /\ ViewInv'
    BY <1>0, WriterKeepsReader
  <2>6. NoticeInv'
    BY DEF NoticeInv, Queue!ContentsAnnounced
  <2> QED
    BY <2>2, <2>3, <2>4, <2>5, <2>6
<1> QED
  BY <1>1, <1>2, <1>3, <1>4

(***************************************************************************)
(* NotifyDataAvailable preserves the invariant.                            *)
(***************************************************************************)
LEMMA NotifyInv ==
    ASSUME QueueInv, Queue!NotifyDataAvailable \/ Queue!ScheduleDataAvailable
    PROVE  QueueInv'
<1> USE DEF QueueInv
<1>1. CASE Queue!NotifyDataAvailable
  <2> USE <1>1 DEF Queue!NotifyDataAvailable
  <2>1. Queue!TypeOK'
    BY DEF Queue!TypeOK, Queue!readerVars
  <2>2. RingInv' /\ WriterInv' /\ ContentsInv'
    BY DEF RingInv, WriterInv, ContentsInv, Queue!readerVars
  <2>3. ReaderInv' /\ ViewInv'
    BY DEF ReaderInv, ViewInv, Queue!Fifo, Queue!readerVars
  <2>4. NoticeInv'
    BY DEF NoticeInv, Queue!ContentsAnnounced, Queue!Empty, Queue!readerVars
  <2> QED
    BY <2>1, <2>2, <2>3, <2>4
<1>2. CASE Queue!ScheduleDataAvailable
  <2> USE <1>2 DEF Queue!ScheduleDataAvailable
  <2>1. Queue!TypeOK'
    BY DEF Queue!TypeOK, Queue!readerVars
  <2>2. RingInv' /\ WriterInv' /\ ContentsInv'
    BY DEF RingInv, WriterInv, ContentsInv, Queue!readerVars
  <2>3. ReaderInv' /\ ViewInv'
    BY DEF ReaderInv, ViewInv, Queue!Fifo, Queue!readerVars
  <2>4. NoticeInv'
    BY DEF NoticeInv, Queue!ContentsAnnounced, Queue!TypeOK
  <2> QED
    BY <2>1, <2>2, <2>3, <2>4
<1> QED
  BY <1>1, <1>2

-----------------------------------------------------------------------------
(* The reader's steps.                                                     *)

(***************************************************************************)
(* A step of the reader that moves no end of the contents leaves the ring  *)
(* and the writer's part of the invariant alone.                           *)
(***************************************************************************)
LEMMA ReaderKeepsRing ==
    ASSUME RingInv, WriterInv, ContentsInv,
           UNCHANGED <<buffer, contentsBegin, contentsEnd, Queue!writerVars, removed>>
    PROVE  RingInv' /\ WriterInv' /\ ContentsInv'
BY DEF RingInv, WriterInv, ContentsInv, Queue!writerVars

(***************************************************************************)
(* DataAvailable, up to the call of onDataAvailable, and its return        *)
(* preserve the invariant.                                                 *)
(***************************************************************************)
LEMMA DataAvailableInv ==
    ASSUME QueueInv, Queue!DataAvailable \/ Queue!CallbackReturns
    PROVE  QueueInv'
<1> USE DEF QueueInv
<1>1. CASE Queue!DataAvailable
  <2> USE <1>1 DEF Queue!DataAvailable
  <2>1. Queue!TypeOK' /\ scheduled' = 0
    <3>1. scheduled = 1
      BY DEF NoticeInv
    <3>2. scheduled' = 0
      BY <3>1
    <3>3. notificationScheduled' \in BOOLEAN
      BY Zenon
    <3>4. UNCHANGED <<buffer, contentsBegin, contentsEnd, wpc, chunk, rest, stored, added,
                      amount, view, removed, got>> /\ rpc' = "callback"
      BY DEF Queue!writerVars
    <3> HIDE <1>1 DEF Queue!DataAvailable
    <3> QED
      BY <3>2, <3>3, <3>4 DEF Queue!TypeOK
  <2>2. RingInv' /\ WriterInv' /\ ContentsInv'
    BY ReaderKeepsRing
  <2>3. ReaderInv' /\ ViewInv'
    BY DEF ReaderInv, ViewInv, Queue!Fifo, Queue!writerVars
  <2>4. NoticeInv'
    BY <2>1 DEF NoticeInv, Queue!ContentsAnnounced
  <2> QED
    BY <2>1, <2>2, <2>3, <2>4
<1>2. CASE Queue!CallbackReturns
  <2> USE <1>2 DEF Queue!CallbackReturns
  <2>1. view' \in [start : Nat, length : Nat, element : Nat] /\ view'.length = 0
    BY DEF Queue!NoView
  <2>2. Queue!TypeOK'
    BY <2>1 DEF Queue!TypeOK, Queue!writerVars
  <2>3. RingInv' /\ WriterInv' /\ ContentsInv'
    BY ReaderKeepsRing
  <2>4. ReaderInv' /\ ViewInv'
    BY <2>1 DEF ReaderInv, ViewInv, Queue!Fifo
  <2>5. NoticeInv'
    BY DEF NoticeInv, Queue!ContentsAnnounced, Queue!Empty
  <2> QED
    BY <2>2, <2>3, <2>4, <2>5
<1> QED
  BY <1>1, <1>2

(***************************************************************************)
(* Get preserves the invariant.                                            *)
(***************************************************************************)
LEMMA GetInv ==
    ASSUME Queue!NAssumption, QueueInv, Queue!Get \/ Queue!AdvanceBegin
    PROVE  QueueInv'
<1> USE DEF QueueInv
<1>0. /\ added \in Nat /\ removed \in Nat /\ stored \in Nat /\ N \in Nat /\ N >= 2
      /\ contentsBegin \in Queue!Indices /\ contentsBegin \in Nat /\ contentsBegin <= N - 1
      /\ added <= stored /\ removed <= added
  BY ContentsFound DEF Queue!TypeOK, Queue!NAssumption, RingInv, Queue!Indices
<1>1. CASE Queue!Get
  <2> USE <1>1 DEF Queue!Get
  <2>1. removed < added
    <3>1. added /= removed
      BY ContentsFound
    <3> QED
      BY <1>0, <3>1
  <2>2. buffer[contentsBegin] = removed
    <3>1. 0 \in Queue!Indices /\ 0 < stored - removed /\ Pos(contentsBegin, 0) = contentsBegin
      BY <1>0, <2>1 DEF Pos, Queue!Indices
    <3>2. buffer[Pos(contentsBegin, 0)] = removed + 0
      BY <3>1 DEF ContentsInv
    <3> QED
      BY <1>0, <3>1, <3>2
  <2>3. /\ got \in Seq(Int) /\ Len(got) = removed
        /\ \A i \in 1 .. removed : got[i] = i - 1
    BY DEF Queue!TypeOK, ReaderInv, Queue!Fifo
  <2>4. /\ got' \in Seq(Int) /\ Len(got') = removed + 1
        /\ \A i \in 1 .. removed + 1 : got'[i] = i - 1
    <3>1. got' = Append(got, removed)
      BY <2>2
    <3>2. got' \in Seq(Int) /\ Len(got') = Len(got) + 1
      BY <1>0, <2>3, <3>1
    <3>3. ASSUME NEW i \in 1 .. removed + 1
          PROVE  got'[i] = i - 1
      <4>1. CASE i = removed + 1
        BY <1>0, <2>3, <3>1, <4>1
      <4>2. CASE i \in 1 .. removed
        BY <1>0, <2>3, <3>1, <4>2
      <4>3. i = removed + 1 \/ i \in 1 .. removed
        BY <1>0
      <4> QED
        BY <4>1, <4>2, <4>3
    <3> QED
      BY <2>3, <3>2, <3>3
  <2>5. view' \in [start : Nat, length : Nat, element : Nat] /\ view'.length = 0
    BY DEF Queue!NoView
  <2>6. Queue!TypeOK'
    BY <2>4, <2>5 DEF Queue!TypeOK, Queue!writerVars
  <2>7. RingInv' /\ WriterInv' /\ ContentsInv'
    BY ReaderKeepsRing
  <2>8. ReaderInv' /\ ViewInv'
    BY <2>1, <2>4, <2>5 DEF ReaderInv, ViewInv, Queue!Fifo, Queue!writerVars
  <2>9. NoticeInv'
    BY DEF NoticeInv, Queue!ContentsAnnounced
  <2> QED
    BY <2>6, <2>7, <2>8, <2>9
<1>2. CASE Queue!AdvanceBegin
  <2> USE <1>2 DEF Queue!AdvanceBegin
  <2>1. Len(got) = removed + 1 /\ removed < added
    BY DEF ReaderInv
  <2>2. contentsBegin' \in Queue!Indices /\ RingInv' /\ WriterInv' /\ ContentsInv'
    <3>1. /\ 1 \in Nat /\ contentsBegin + 1 <= N /\ removed + 1 <= added
          /\ contentsBegin' = IF contentsBegin + 1 = N THEN 0 ELSE contentsBegin + 1
      BY <1>0, <2>1
    <3> QED
      BY <3>1, BeginMoves
  <2>3. Queue!TypeOK'
    BY <2>2, <1>0 DEF Queue!TypeOK, Queue!writerVars
  <2>4. ReaderInv' /\ ViewInv'
    BY <2>1 DEF ReaderInv, ViewInv, Queue!Fifo
  <2>5. NoticeInv'
    BY DEF NoticeInv, Queue!ContentsAnnounced
  <2> QED
    BY <2>2, <2>3, <2>4, <2>5
<1> QED
  BY <1>1, <1>2

(***************************************************************************)
(* Consume preserves the invariant.                                        *)
(***************************************************************************)
LEMMA ConsumeInv ==
    ASSUME Queue!NAssumption, QueueInv,
           \/ \E count \in 1 .. Queue!EmptySize : Queue!Consume(count)
           \/ Queue!ConsumeWrap \/ Queue!ConsumeAdvance
    PROVE  QueueInv'
<1> USE DEF QueueInv
<1>0. /\ added \in Nat /\ removed \in Nat /\ stored \in Nat /\ N \in Nat /\ N >= 2
      /\ contentsBegin \in Queue!Indices /\ contentsBegin \in Nat /\ contentsBegin <= N - 1
      /\ added <= stored /\ removed <= added /\ amount \in Nat
      /\ added - removed <= N - 1
  BY ContentsFound DEF Queue!TypeOK, Queue!NAssumption, RingInv, Queue!Indices
<1>1. ASSUME NEW count \in 1 .. Queue!EmptySize, Queue!Consume(count)
      PROVE  QueueInv'
  <2> DEFINE part == [i \in 1 .. count |-> buffer[Queue!Position(i - 1)]]
  <2>1. count \in Nat /\ removed + count <= added
    <3>1. Queue!Size = added - removed
      BY ContentsFound
    <3> QED
      BY <1>0, <1>1, <3>1 DEF Queue!Consume, Queue!EmptySize
  <2>2. ASSUME NEW i \in 1 .. count
        PROVE  buffer[Queue!Position(i - 1)] = removed + (i - 1)
    <3>1. i - 1 \in Queue!Indices /\ i - 1 < stored - removed
      BY <1>0, <2>1 DEF Queue!Indices
    <3>2. Queue!Position(i - 1) = Pos(contentsBegin, i - 1)
      BY DEF Queue!Position, Pos
    <3> QED
      BY <3>1, <3>2 DEF ContentsInv
  <2>3. part \in Seq(Int) /\ Len(part) = count /\ \A i \in 1 .. count : part[i] = removed + (i - 1)
    <3>1. \A i \in 1 .. count : part[i] = removed + (i - 1) /\ removed + (i - 1) \in Int
      BY <1>0, <2>1, <2>2
    <3>2. part \in [1 .. count -> Int]
      BY <1>0, <2>1, <2>2
    <3> QED
      BY <2>1, <3>1, <3>2
  <2>4. /\ got \in Seq(Int) /\ Len(got) = removed
        /\ \A i \in 1 .. removed : got[i] = i - 1
    BY <1>1 DEF Queue!TypeOK, ReaderInv, Queue!Fifo, Queue!Consume
  <2>5. /\ got' = got \o part /\ amount' = count /\ view' = Queue!NoView /\ rpc' = "consume"
        /\ UNCHANGED <<buffer, contentsBegin, contentsEnd, notificationScheduled, scheduled,
                       Queue!writerVars, removed>>
    BY <1>1 DEF Queue!Consume
  <2> HIDE DEF part
  <2>6. /\ got' \in Seq(Int) /\ Len(got') = removed + count
        /\ \A i \in 1 .. removed + count : got'[i] = i - 1
    <3>1. got' \in Seq(Int) /\ Len(got') = removed + count
      <4>1. got \o part \in Seq(Int) /\ Len(got \o part) = Len(got) + Len(part)
        BY <2>3, <2>4, ConcatProperties
      <4> QED
        BY <2>3, <2>4, <2>5, <4>1
    <3>2. ASSUME NEW i \in 1 .. removed + count
          PROVE  got'[i] = i - 1
      <4>1. CASE i \in 1 .. removed
        BY <1>0, <2>1, <2>3, <2>4, <2>5, <4>1
      <4>2. CASE i \notin 1 .. removed
        <5>1. i - removed \in 1 .. count
          BY <1>0, <2>1, <4>2
        <5>2. got'[i] = part[i - removed]
          BY <1>0, <2>1, <2>3, <2>4, <2>5, <4>2
        <5>3. part[i - removed] = removed + ((i - removed) - 1)
          BY <2>3, <5>1
        <5> QED
          BY <1>0, <5>2, <5>3
      <4> QED
        BY <4>1, <4>2
    <3> QED
      BY <3>1, <3>2
  <2>7. view' \in [start : Nat, length : Nat, element : Nat] /\ view'.length = 0
    BY <2>5 DEF Queue!NoView
  <2>8. Queue!TypeOK'
    BY <2>1, <2>5, <2>6, <2>7 DEF Queue!TypeOK, Queue!writerVars
  <2>9. RingInv' /\ WriterInv' /\ ContentsInv'
    BY <2>5, ReaderKeepsRing
  <2>10. ReaderInv' /\ ViewInv'
    BY <2>1, <2>5, <2>6, <2>7 DEF ReaderInv, ViewInv, Queue!Fifo, Queue!writerVars
  <2>11. NoticeInv'
    BY <2>5 DEF NoticeInv, Queue!ContentsAnnounced
  <2> QED
    BY <2>8, <2>9, <2>10, <2>11
<1>2. CASE Queue!ConsumeWrap
  <2> USE <1>2 DEF Queue!ConsumeWrap
  <2>1. Len(got) = removed + amount /\ removed + amount <= added
    BY DEF ReaderInv
  <2> DEFINE count == N - contentsBegin
  <2>2. contentsBegin' \in Queue!Indices /\ RingInv' /\ WriterInv' /\ ContentsInv'
    <3>1. /\ count \in Nat /\ contentsBegin + count = N /\ removed + count <= added
          /\ removed' = removed + count /\ contentsBegin' = 0
      BY <1>0, <2>1
    <3> HIDE DEF count
    <3> QED
      BY <1>0, <3>1, BeginMoves
  <2>3. amount' \in Nat /\ removed' \in Nat
    BY <1>0
  <2>4. Queue!TypeOK'
    BY <2>2, <2>3 DEF Queue!TypeOK, Queue!writerVars
  <2>5. Len(got') = removed' + amount' /\ removed' + amount' <= added'
    BY <1>0, <2>1 DEF Queue!writerVars
  <2>6. ReaderInv' /\ ViewInv'
    BY <2>5 DEF ReaderInv, ViewInv, Queue!Fifo
  <2>7. NoticeInv'
    BY DEF NoticeInv, Queue!ContentsAnnounced
  <2> QED
    BY <2>2, <2>4, <2>6, <2>7
<1>3. CASE Queue!ConsumeAdvance
  <2> USE <1>3 DEF Queue!ConsumeAdvance
  <2>1. Len(got) = removed + amount /\ removed + amount <= added /\ contentsBegin + amount < N
    BY <1>0 DEF ReaderInv
  <2>2. contentsBegin' \in Queue!Indices /\ RingInv' /\ WriterInv' /\ ContentsInv'
    <3>1. contentsBegin + amount <= N /\ contentsBegin + amount /= N
      BY <1>0, <2>1
    <3> QED
      BY <1>0, <2>1, <3>1, BeginMoves
  <2>3. amount' \in Nat /\ removed' \in Nat
    BY <1>0
  <2>4. Queue!TypeOK'
    BY <2>2, <2>3 DEF Queue!TypeOK, Queue!writerVars
  <2>5. ReaderInv' /\ ViewInv'
    <3>1. view.length = 0
      BY DEF ViewInv, Queue!TypeOK
    <3> QED
      BY <2>1, <3>1 DEF ReaderInv, ViewInv, Queue!Fifo
  <2>6. NoticeInv'
    BY DEF NoticeInv, Queue!ContentsAnnounced
  <2> QED
    BY <2>2, <2>4, <2>5, <2>6
<1> QED
  BY <1>1, <1>2, <1>3

(***************************************************************************)
(* operator[] and ContiguousRange preserve the invariant: they return a    *)
(* run of the contents.                                                    *)
(***************************************************************************)
LEMMA LookInv ==
    ASSUME Queue!NAssumption, QueueInv, Queue!Look
    PROVE  QueueInv'
<1> USE DEF QueueInv
<1>0. /\ added \in Nat /\ removed \in Nat /\ N \in Nat /\ N >= 2
      /\ contentsBegin \in Queue!Indices /\ contentsBegin \in Nat /\ contentsBegin <= N - 1
      /\ contentsEnd \in Nat /\ contentsEnd <= N - 1 /\ removed <= added
      /\ added - removed <= N - 1 /\ Queue!Size = added - removed
      /\ contentsEnd = Pos(contentsBegin, added - removed)
  BY ContentsFound DEF Queue!TypeOK, Queue!NAssumption, RingInv, Queue!Indices
<1>1. ASSUME rpc = "callback", ViewInv', view' \in [start : Nat, length : Nat, element : Nat],
             UNCHANGED <<buffer, contentsBegin, contentsEnd, notificationScheduled, scheduled,
                         Queue!writerVars, rpc, amount, removed, got>>
      PROVE  QueueInv'
  <2>1. Queue!TypeOK'
    BY <1>1 DEF Queue!TypeOK, Queue!writerVars
  <2>2. RingInv' /\ WriterInv' /\ ContentsInv'
    BY <1>1, ReaderKeepsRing
  <2>3. ReaderInv' /\ NoticeInv'
    BY <1>1 DEF ReaderInv, NoticeInv, Queue!ContentsAnnounced, Queue!Fifo, Queue!writerVars
  <2> QED
    BY <1>1, <2>1, <2>2, <2>3
<1>2. ASSUME NEW position \in 0 .. Queue!EmptySize - 1, Queue!Index(position)
      PROVE  QueueInv'
  <2> USE <1>2 DEF Queue!Index
  <2>1. position \in Nat /\ position < added - removed
    BY <1>0 DEF Queue!EmptySize
  <2>2. /\ Queue!Position(position) = Pos(contentsBegin, position)
        /\ Pos(contentsBegin, position) \in Nat
        /\ Pos(contentsBegin, position) + 1 <= N
    BY <1>0, <2>1 DEF Queue!Position, Pos
  <2>3. view' \in [start : Nat, length : Nat, element : Nat]
    BY <1>0, <2>1, <2>2
  <2>4. ViewInv'
    <3>1. /\ removed <= removed + position /\ removed + position + 1 <= added
          /\ (removed + position) - removed = position
      BY <1>0, <2>1
    <3> QED
      BY <2>2, <3>1 DEF ViewInv, Queue!writerVars
  <2> QED
    BY <1>1, <2>3, <2>4
<1>3. ASSUME NEW offset \in 0 .. Queue!EmptySize, Queue!ContiguousRange(offset)
      PROVE  QueueInv'
  <2> DEFINE begin == Queue!Position(offset)
             end == IF contentsEnd < begin THEN N ELSE contentsEnd
  <2>1. /\ rpc = "callback" /\ offset <= added - removed
        /\ view' = [start |-> begin, length |-> end - begin, element |-> removed + offset]
        /\ UNCHANGED <<buffer, contentsBegin, contentsEnd, notificationScheduled, scheduled,
                       Queue!writerVars, rpc, amount, removed, got>>
    BY <1>0, <1>3 DEF Queue!ContiguousRange
  <2>2. offset \in Nat /\ begin = Pos(contentsBegin, offset)
    BY <1>0 DEF Queue!EmptySize, Queue!Position, Pos
  <2>3. /\ begin \in Nat /\ begin < N /\ end - begin \in Nat
        /\ offset + (end - begin) <= added - removed
    <3> DEFINE size == added - removed
    <3>1. size \in Nat /\ size <= N - 1 /\ offset <= size
      BY <1>0, <2>1
    <3>2. contentsEnd = Pos(contentsBegin, size)
      BY <1>0
    <3> HIDE DEF size
    <3>3. CASE contentsBegin + size < N
      BY <1>0, <2>2, <3>1, <3>2, <3>3 DEF Pos
    <3>4. CASE contentsBegin + size >= N
      BY <1>0, <2>2, <3>1, <3>2, <3>4 DEF Pos
    <3> QED
      BY <1>0, <3>1, <3>3, <3>4 DEF size
  <2>4. view' \in [start : Nat, length : Nat, element : Nat]
    BY <1>0, <2>1, <2>2, <2>3
  <2>5. ViewInv'
    <3>1. end \in Nat /\ end <= N /\ begin + (end - begin) <= N
      BY <1>0, <2>3
    <3>2. /\ removed <= removed + offset /\ (removed + offset) + (end - begin) <= added
          /\ (removed + offset) - removed = offset
      BY <1>0, <2>2, <2>3, <3>1
    <3> HIDE DEF begin, end
    <3> QED
      BY <2>1, <2>2, <3>1, <3>2 DEF ViewInv, Queue!writerVars
  <2> QED
    BY <1>1, <2>1, <2>4, <2>5
<1> QED
  BY <1>2, <1>3 DEF Queue!Look

-----------------------------------------------------------------------------

(***************************************************************************)
(* Every step preserves the invariant.                                     *)
(***************************************************************************)
LEMMA NextInv ==
    ASSUME Queue!NAssumption, QueueInv, [Queue!Next]_Queue!vars
    PROVE  QueueInv'
<1>1. CASE Queue!Writer
  BY <1>1, AddElementInv, AddRangeInv, NotifyInv DEF Queue!Writer, Queue!ContinueWriter
<1>2. CASE Queue!Reader
  BY <1>2, DataAvailableInv, GetInv, ConsumeInv DEF Queue!Reader
<1>3. CASE Queue!Look
  BY <1>3, LookInv
<1>4. CASE UNCHANGED Queue!vars
  <2> USE <1>4 DEF Queue!vars, Queue!writerVars, Queue!readerVars
  <2>1. Queue!TypeOK'
    BY DEF QueueInv, Queue!TypeOK
  <2>2. RingInv' /\ WriterInv' /\ ContentsInv'
    BY DEF QueueInv, RingInv, WriterInv, ContentsInv
  <2>3. ReaderInv' /\ ViewInv'
    BY DEF QueueInv, ReaderInv, ViewInv, Queue!Fifo
  <2>4. NoticeInv'
    BY DEF QueueInv, NoticeInv, Queue!ContentsAnnounced, Queue!Empty
  <2> QED
    BY <2>1, <2>2, <2>3, <2>4 DEF QueueInv
<1> QED
  BY <1>1, <1>2, <1>3, <1>4 DEF Queue!Next

(***************************************************************************)
(* Whatever interrupt strikes between two accesses of the reader, and for  *)
(* a buffer of any size: the reader gets the elements in order, none lost  *)
(* and none twice; a range it was handed stays intact until it consumes    *)
(* it; Size is what is in the queue; and contents are announced, by one    *)
(* event at a time.                                                        *)
(***************************************************************************)
THEOREM QueueIsSafe == Queue!NAssumption /\ Queue!Spec => []QueueSafe
<1>1. Queue!NAssumption /\ Queue!Init => QueueInv
  BY InitInv
<1>2. Queue!NAssumption /\ QueueInv /\ [Queue!Next]_Queue!vars => QueueInv'
  BY NextInv
<1>3. Queue!NAssumption /\ QueueInv => QueueSafe
  BY InvSafe DEF QueueSafe
<1>4. Queue!NAssumption => []Queue!NAssumption
  OBVIOUS
<1> QED
  BY <1>1, <1>2, <1>3, <1>4, PTL DEF Queue!Spec
=============================================================================
