----------------------- MODULE EventDispatcherProofs -----------------------
(***************************************************************************)
(* Proofs about module EventDispatcher, for every number of contexts and   *)
(* every size of the ring.                                                 *)
(***************************************************************************)
EXTENDS EventDispatcher, FiniteSetTheorems, TLAPS

(***************************************************************************)
(* The successor of a slot index on the ring, without the modulo.          *)
(***************************************************************************)
LEMMA NextIndex ==
    ASSUME NEW i \in Slots
    PROVE  /\ (i + 1) % Size = IF i + 1 = Size THEN 0 ELSE i + 1
           /\ (i + 1) % Size \in Slots
BY SizeAssumption DEF Slots

(***************************************************************************)
(* The free capacity Schedule computes is a number of slots.               *)
(***************************************************************************)
LEMMA CapacityInRange ==
    ASSUME NEW i \in Slots, NEW j \in Slots
    PROVE  ((Size + i - j - 1) % Size) + 1 \in 1 .. Size
<1>1. Size + i - j - 1 \in Int
  BY SizeAssumption DEF Slots
<1>2. ASSUME NEW k \in Int
      PROVE  k % Size \in 0 .. Size - 1
  BY SizeAssumption
<1> QED
  BY <1>1, <1>2, SizeAssumption

(***************************************************************************)
(* The constructor's state has the types of TypeOK.                        *)
(***************************************************************************)
LEMMA TypeInit == Init => TypeOK
BY SizeAssumption, ProcsAssumption
DEF Init, TypeOK, Slots, NoAction, SchedulePCs, DispatcherPCs

(***************************************************************************)
(* Every step of Schedule and of Run preserves the types.                  *)
(***************************************************************************)
LEMMA TypeNext ==
    ASSUME TypeOK, [Next]_vars
    PROVE  TypeOK'
<1> USE TypeOK DEF TypeOK
<1> USE SizeAssumption, ProcsAssumption, ContextsAssumption
<1>1. ASSUME NEW p \in Procs, Schedule(p)
      PROVE  TypeOK'
  <2>1. CASE BeginSchedule(p)
    BY <2>1 DEF BeginSchedule, Step, SchedulePCs, sharedVars
  <2>2. CASE ClaimSlot(p)
    <3>1. pushIndex' \in Slots
      BY <2>2, NextIndex DEF ClaimSlot
    <3>2. lowWater' \in Int
      BY <2>2 DEF ClaimSlot, Lesser, Popped
    <3> QED
      BY <2>2, <3>1, <3>2 DEF ClaimSlot, Step, SchedulePCs
  <2>3. CASE LoseRace(p)
    BY <2>3 DEF LoseRace, Step, SchedulePCs, sharedVars, historyVars
  <2>4. CASE StoreAction(p)
    BY <2>4 DEF StoreAction, Step, SchedulePCs, historyVars
  <2>5. CASE CheckFree(p)
    BY <2>5 DEF CheckFree, Step, SchedulePCs, historyVars
  <2>6. CASE Publish(p)
    BY <2>6 DEF Publish, Step, SchedulePCs, historyVars
  <2>7. CASE LoadCapacity(p)
    <3>1. Lesser(minCapacity, ((Size + popIndex - reg[p] - 1) % Size) + 1) \in 1 .. Size
      BY CapacityInRange DEF Lesser
    <3>2. cap' \in [Procs -> 1 .. Size]
      BY <2>7, <3>1 DEF LoadCapacity
    <3> QED
      BY <2>7, <3>2 DEF LoadCapacity, Step, SchedulePCs, sharedVars, historyVars
  <2>8. CASE StoreCapacity(p)
    BY <2>8 DEF StoreCapacity, Step, SchedulePCs, historyVars
  <2>9. CASE RequestExecution(p)
    BY <2>9 DEF RequestExecution, Step, SchedulePCs, historyVars
  <2> QED
    BY <1>1, <2>1, <2>2, <2>3, <2>4, <2>5, <2>6, <2>7, <2>8, <2>9 DEF Schedule
<1>2. CASE Dispatch
  <2>1. CASE StartRun
    BY <2>1 DEF StartRun, DispatcherStep, DispatcherPCs, sharedVars, historyVars
  <2>2. CASE ExecuteFirstAction
    BY <2>2 DEF ExecuteFirstAction, DispatcherStep, DispatcherPCs, sharedVars
  <2>3. CASE ClearAction
    BY <2>3 DEF ClearAction, DispatcherStep, DispatcherPCs, historyVars
  <2>4. CASE ReleaseSlot
    BY <2>4 DEF ReleaseSlot, DispatcherStep, DispatcherPCs
  <2>5. CASE AdvancePopIndex
    BY <2>5, NextIndex DEF AdvancePopIndex, DispatcherStep, DispatcherPCs, historyVars
  <2>6. CASE NothingToExecute
    BY <2>6 DEF NothingToExecute, DispatcherStep, DispatcherPCs, sharedVars, historyVars
  <2>7. CASE WakeUp
    BY <2>7 DEF WakeUp, DispatcherStep, DispatcherPCs, sharedVars, historyVars
  <2>8. CASE DrainWakeUp
    BY <2>8 DEF DrainWakeUp, DispatcherStep, DispatcherPCs, historyVars
  <2> QED
    BY <1>2, <2>1, <2>2, <2>3, <2>4, <2>5, <2>6, <2>7, <2>8 DEF Dispatch
<1>3. CASE OtherWakeUp
  BY <1>3 DEF OtherWakeUp, DispatcherStep, DispatcherPCs, sharedVars, historyVars
<1>4. CASE UNCHANGED vars
  BY <1>4 DEF vars, sharedVars, localVars, historyVars
<1> QED
  BY <1>1, <1>2, <1>3, <1>4 DEF Next

(***************************************************************************)
(* Type correctness: every variable of the dispatcher keeps its type.      *)
(***************************************************************************)
THEOREM TypeCorrect == Spec => []TypeOK
BY TypeInit, TypeNext, PTL DEF Spec

-----------------------------------------------------------------------------
(***************************************************************************)
(* Actions in flight have distinct slots on the ring.                      *)
(***************************************************************************)
LEMMA SlotOfInjective ==
    ASSUME TypeOK
    PROVE  /\ NextSlot \in Slots
           /\ \A t \in released .. released + Size : SlotOf(t) \in Slots
           /\ \A t, u \in released .. released + Size - 1 :
                 SlotOf(t) = SlotOf(u) => t = u
<1>1. NextSlot \in Slots
  BY NextIndex DEF TypeOK, NextSlot
<1>2. ASSUME NEW t \in released .. released + Size
      PROVE  SlotOf(t) \in Slots
  BY <1>1, SizeAssumption DEF TypeOK, SlotOf, Wrapped, Slots
<1>3. ASSUME NEW t \in released .. released + Size - 1,
             NEW u \in released .. released + Size - 1,
             SlotOf(t) = SlotOf(u)
      PROVE  t = u
  BY <1>1, <1>3, SizeAssumption DEF TypeOK, SlotOf, Wrapped, Slots
<1> QED
  BY <1>1, <1>2, <1>3

(***************************************************************************)
(* How a step of Schedule changes the number of contexts that are about to *)
(* claim a slot.                                                           *)
(***************************************************************************)
LEMMA ExchangingCount ==
    ASSUME TypeOK, NEW p \in Procs, NEW to \in SchedulePCs,
           pc' = [pc EXCEPT ![p] = to]
    PROVE  /\ Cardinality(Exchanging) \in Nat
           /\ pc[p] /= "exchange" /\ to = "exchange"
                 => Cardinality(Exchanging') = Cardinality(Exchanging) + 1
           /\ pc[p] = "exchange" /\ to /= "exchange"
                 => /\ Cardinality(Exchanging') = Cardinality(Exchanging) - 1
                    /\ Cardinality(Exchanging) > 0
           /\ (pc[p] = "exchange" <=> to = "exchange")
                 => Cardinality(Exchanging') = Cardinality(Exchanging)
<1>1. IsFiniteSet(Exchanging)
  BY ProcsAssumption, FS_Subset DEF Exchanging
<1>2. Cardinality(Exchanging) \in Nat
  BY <1>1, FS_CardinalityType
<1>3. CASE pc[p] /= "exchange" /\ to = "exchange"
  <2>1. Exchanging' = Exchanging \cup {p} /\ p \notin Exchanging
    BY <1>3 DEF Exchanging, TypeOK
  <2> QED
    BY <1>1, <1>2, <1>3, <2>1, FS_AddElement
<1>4. CASE pc[p] = "exchange" /\ to /= "exchange"
  <2>1. Exchanging' = Exchanging \ {p} /\ p \in Exchanging
    BY <1>4 DEF Exchanging, TypeOK
  <2>2. Cardinality(Exchanging) /= 0
    BY <1>1, <2>1, FS_EmptySet
  <2>3. Cardinality(Exchanging') = Cardinality(Exchanging) - 1
    BY <1>1, <2>1, FS_RemoveElement
  <2> QED
    BY <1>2, <1>4, <2>2, <2>3
<1>5. CASE pc[p] = "exchange" <=> to = "exchange"
  <2>1. Exchanging' = Exchanging
    BY <1>5 DEF Exchanging, TypeOK
  <2> QED
    BY <1>2, <1>5, <2>1
<1> QED
  BY <1>3, <1>4, <1>5

(***************************************************************************)
(* No more tickets than slots are in flight.                               *)
(***************************************************************************)
LEMMA CardinalityOfExchanging == Cardinality(Exchanging) \in Nat
BY ProcsAssumption, FS_Subset, FS_CardinalityType DEF Exchanging

(***************************************************************************)
(* Two producers never fill the same slot.                                 *)
(***************************************************************************)
LEMMA WritersApart ==
    ASSUME TypeOK, CountersInv, ProducersInv,
           NEW p \in Procs, NEW q \in Procs, Writing(p), Writing(q), p /= q
    PROVE  reg[p] /= reg[q]
<1>1. released \in Nat /\ claims \in Nat /\ begun \in Nat
  BY DEF TypeOK
<1>2. claims <= released + Size
  BY <1>1, CardinalityOfExchanging, SizeAssumption DEF CountersInv
<1>3. /\ ticket[p] \in released .. released + Size - 1
      /\ ticket[q] \in released .. released + Size - 1
      /\ ticket[p] /= ticket[q]
      /\ reg[p] = SlotOf(ticket[p]) /\ reg[q] = SlotOf(ticket[q])
  BY <1>1, <1>2, SizeAssumption DEF ProducersInv
<1> QED
  BY <1>3, SlotOfInjective

(***************************************************************************)
(* The empty ring satisfies the inductive invariant.                       *)
(***************************************************************************)
LEMMA DispatcherInvInit == Init => DispatcherInv
<1> SUFFICES ASSUME Init
             PROVE  DispatcherInv
  OBVIOUS
<1>1. TypeOK
  BY TypeInit
<1>2. Exchanging = {}
  BY DEF Init, Exchanging
<1>3. CountersInv
  BY <1>2, SizeAssumption, FS_EmptySet DEF Init, CountersInv, Executing
<1>4. SlotsInv
  BY <1>1, SlotOfInjective, SizeAssumption
  DEF Init, SlotsInv, SlotOf, NextSlot, Wrapped, Executing, Slots
<1>5. ProducersInv
  BY DEF Init, ProducersInv, Writing
<1> QED
  BY <1>1, <1>3, <1>4, <1>5 DEF Init, DispatcherInv, ExecutedInOrder

(***************************************************************************)
(* Every step preserves the inductive invariant, when the callers keep no  *)
(* more actions outstanding than the ring has slots.                       *)
(***************************************************************************)
LEMMA DispatcherInvNext ==
    ASSUME MaxOutstanding <= Size, DispatcherInv, [Next]_vars
    PROVE  DispatcherInv'
<1> USE SizeAssumption
<1>t. TypeOK /\ TypeOK'
  BY TypeNext DEF DispatcherInv
<1>i. /\ CountersInv
      /\ SlotsInv
      /\ ProducersInv
      /\ ExecutedInOrder
  BY DEF DispatcherInv
<1> SUFFICES CountersInv' /\ SlotsInv' /\ ProducersInv' /\ ExecutedInOrder'
  BY <1>t DEF DispatcherInv
<1>n. claims \in Nat /\ released \in Nat /\ begun \in Nat
  BY <1>t DEF TypeOK
<1>1. ASSUME NEW p \in Procs, Schedule(p)
      PROVE  CountersInv' /\ SlotsInv' /\ ProducersInv' /\ ExecutedInOrder'
  <2>1. CASE BeginSchedule(p)
    <3>1. pc[p] = "out" /\ pc' = [pc EXCEPT ![p] = "exchange"]
      BY <2>1 DEF BeginSchedule, Step
    <3>2. \A t : SlotOf(t)' = SlotOf(t)
      BY <2>1 DEF BeginSchedule, SlotOf, NextSlot, Wrapped, sharedVars
    <3>3. \A q \in Procs : Writing(q)' <=> Writing(q) /\ q /= p
      BY <1>t, <3>1 DEF Writing, TypeOK
    <3>4. /\ Cardinality(Exchanging) \in Nat
          /\ Cardinality(Exchanging') = Cardinality(Exchanging) + 1
      BY <1>t, <3>1, ExchangingCount DEF SchedulePCs
    <3>5. CountersInv'
      <4>1. /\ begun' = begun + 1
            /\ UNCHANGED <<aborted, dpc, claims, released, executed>>
        BY <2>1 DEF BeginSchedule, sharedVars
      <4>2. begun' - released <= Size
        BY <1>n, <2>1, BoundsAssumption DEF BeginSchedule
      <4> QED
        BY <1>n, <1>i, <3>4, <4>1, <4>2 DEF CountersInv, Executing
    <3>6. SlotsInv'
      BY <1>i, <2>1, <3>2 DEF BeginSchedule, SlotsInv, Executing, sharedVars
    <3>7. ProducersInv'
      BY <1>t, <1>i, <2>1, <3>1, <3>2, <3>3
      DEF BeginSchedule, ProducersInv, TypeOK, sharedVars
    <3> QED
      BY <1>i, <2>1, <3>5, <3>6, <3>7 DEF BeginSchedule, ExecutedInOrder
  <2>2. CASE ClaimSlot(p)
    <3>1. pc[p] = "exchange" /\ pc' = [pc EXCEPT ![p] = "store"]
      BY <2>2 DEF ClaimSlot, Step
    <3>2. \A t : SlotOf(t)' = SlotOf(t)
      BY <2>2 DEF ClaimSlot, SlotOf, NextSlot, Wrapped
    <3>3. \A q \in Procs : Writing(q)' <=> Writing(q) \/ q = p
      BY <1>t, <3>1 DEF Writing, TypeOK
    <3>4. /\ Cardinality(Exchanging) \in Nat
          /\ Cardinality(Exchanging) > 0
          /\ Cardinality(Exchanging') = Cardinality(Exchanging) - 1
      BY <1>t, <3>1, ExchangingCount DEF SchedulePCs
    <3>5. claims < released + Size /\ released <= claims
      BY <1>n, <1>i, <3>4 DEF CountersInv
    <3>6. CountersInv'
      BY <1>n, <1>i, <2>2, <3>4, <3>5 DEF ClaimSlot, CountersInv, Executing
    <3>7. reg[p] = SlotOf(claims) /\ ~second[SlotOf(claims)]
      <4>1. claims \in claims .. released + Size - 1
        BY <1>n, <3>5
      <4> QED
        BY <1>i, <2>2, <4>1 DEF ClaimSlot, SlotsInv
    <3>8. pushIndex' = SlotOf(claims + 1)
      <4>1. NextSlot \in Slots
        BY <1>t, SlotOfInjective
      <4>2. reg[p] \in Slots /\ pushIndex' = IF reg[p] + 1 = Size THEN 0 ELSE reg[p] + 1
        BY <1>t, <2>2, NextIndex DEF ClaimSlot, TypeOK
      <4> QED
        BY <1>n, <3>5, <3>7, <4>1, <4>2 DEF SlotOf, Wrapped, Slots
    <3>9. SlotsInv'
      BY <1>n, <1>i, <2>2, <3>2, <3>5, <3>7, <3>8 DEF ClaimSlot, SlotsInv, Executing
    <3>10. ProducersInv'
      <4>1. ASSUME NEW q \in Procs, Writing(q)'
            PROVE  /\ ticket'[q] \in released' .. claims' - 1
                   /\ reg'[q] = SlotOf(ticket'[q])
                   /\ ~second'[reg'[q]]
                   /\ pc'[q] /= "store" => first'[reg'[q]] = ticket'[q]
                   /\ q /= p => ticket'[q] = ticket[q] /\ ticket[q] < claims
        BY <1>t, <1>i, <2>2, <3>1, <3>3, <3>5, <3>7, <4>1
        DEF ClaimSlot, ProducersInv, TypeOK
      <4>2. ticket'[p] = claims
        BY <1>t, <2>2 DEF ClaimSlot, TypeOK
      <4> QED
        BY <1>i, <3>2, <3>3, <4>1, <4>2 DEF ProducersInv
    <3> QED
      BY <1>i, <2>2, <3>6, <3>9, <3>10 DEF ClaimSlot, ExecutedInOrder
  <2>3. CASE LoseRace(p)
    <3>1. pc[p] = "exchange" /\ pc' = pc
      BY <1>t, <2>3 DEF LoseRace, Step, TypeOK
    <3>2. \A t : SlotOf(t)' = SlotOf(t)
      BY <2>3 DEF LoseRace, SlotOf, NextSlot, Wrapped, sharedVars, historyVars
    <3>3. \A q \in Procs : Writing(q)' <=> Writing(q)
      BY <3>1 DEF Writing
    <3>4. CountersInv'
      BY <1>i, <2>3, <3>1
      DEF LoseRace, CountersInv, Exchanging, Executing, sharedVars, historyVars
    <3>5. SlotsInv'
      BY <1>i, <2>3, <3>2 DEF LoseRace, SlotsInv, Executing, sharedVars, historyVars
    <3>6. ProducersInv'
      <4>1. \A q \in Procs : Writing(q) => reg'[q] = reg[q]
        BY <1>t, <2>3, <3>1 DEF LoseRace, Writing, TypeOK
      <4> QED
        BY <1>i, <2>3, <3>1, <3>2, <3>3, <4>1
        DEF LoseRace, ProducersInv, sharedVars, historyVars
    <3> QED
      BY <1>i, <2>3, <3>4, <3>5, <3>6 DEF LoseRace, ExecutedInOrder, historyVars
  <2>4. CASE StoreAction(p)
    <3>1. /\ pc[p] = "store" /\ pc' = [pc EXCEPT ![p] = "check"]
          /\ first' = [first EXCEPT ![reg[p]] = ticket[p]]
          /\ UNCHANGED <<second, pushIndex, popIndex, aborted, dpc, reg, historyVars>>
      BY <2>4 DEF StoreAction, Step
    <3>2. \A t : SlotOf(t)' = SlotOf(t)
      BY <3>1 DEF SlotOf, NextSlot, Wrapped, historyVars
    <3>3. \A q \in Procs : Writing(q)' <=> Writing(q)
      BY <1>t, <3>1 DEF Writing, TypeOK
    <3>4. Cardinality(Exchanging') = Cardinality(Exchanging)
      BY <1>t, <3>1, ExchangingCount DEF SchedulePCs
    <3>5. CountersInv'
      BY <1>i, <3>1, <3>4 DEF CountersInv, Executing, historyVars
    <3>6. Writing(p) /\ ~second[reg[p]]
      BY <1>i, <3>1 DEF Writing, ProducersInv
    <3>7. first' \in [Slots -> Nat \cup {NoAction}] /\ reg[p] \in Slots
      BY <1>t DEF TypeOK
    <3>8. \A i \in Slots : i /= reg[p] => first'[i] = first[i]
      BY <1>t, <3>1 DEF TypeOK
    <3>9. SlotsInv'
      <4>1. ASSUME NEW t \in released .. claims - 1, second[SlotOf(t)]
            PROVE  first'[SlotOf(t)] = first[SlotOf(t)]
        <5>1. t \in released .. released + Size
          BY <1>n, <1>i, CardinalityOfExchanging DEF CountersInv
        <5> QED
          BY <1>t, <3>6, <3>8, <4>1, <5>1, SlotOfInjective
      <4> QED
        BY <1>i, <3>1, <3>2, <4>1 DEF SlotsInv, Executing, historyVars
    <3>10. ProducersInv'
      <4>1. ASSUME NEW q \in Procs, Writing(q), q /= p
            PROVE  first'[reg[q]] = first[reg[q]]
        BY <1>t, <1>i, <3>6, <3>8, <4>1, WritersApart DEF TypeOK
      <4>2. first'[reg[p]] = ticket[p]
        BY <1>t, <3>1 DEF TypeOK
      <4>3. \A q \in Procs : q /= p => pc'[q] = pc[q]
        BY <1>t, <3>1 DEF TypeOK
      <4> QED
        BY <1>i, <3>1, <3>2, <3>3, <4>1, <4>2, <4>3 DEF ProducersInv, historyVars
    <3> QED
      BY <1>i, <3>1, <3>5, <3>9, <3>10 DEF ExecutedInOrder, historyVars
  <2>5. CASE CheckFree(p)
    <3>1. /\ pc[p] = "check" /\ pc' = [pc EXCEPT ![p] = "publish"]
          /\ UNCHANGED <<first, second, pushIndex, popIndex, dpc, reg, historyVars>>
      BY <2>5 DEF CheckFree, Step
    <3>2. Writing(p) /\ ~second[reg[p]]
      BY <1>i, <3>1 DEF Writing, ProducersInv
    <3>3. ~aborted'
      BY <2>5, <3>2 DEF CheckFree
    <3>4. Cardinality(Exchanging') = Cardinality(Exchanging)
      BY <1>t, <3>1, ExchangingCount DEF SchedulePCs
    <3>5. \A t : SlotOf(t)' = SlotOf(t)
      BY <3>1 DEF SlotOf, NextSlot, Wrapped, historyVars
    <3>6. \A q \in Procs : /\ Writing(q)' <=> Writing(q)
                           /\ Writing(q) /\ pc'[q] /= "store" => pc[q] /= "store"
      BY <1>t, <3>1 DEF Writing, TypeOK
    <3>7. CountersInv'
      BY <1>i, <3>1, <3>3, <3>4 DEF CountersInv, Executing, historyVars
    <3>8. SlotsInv'
      BY <1>i, <3>1, <3>5 DEF SlotsInv, Executing, historyVars
    <3>9. ProducersInv'
      BY <1>i, <3>1, <3>5, <3>6 DEF ProducersInv, historyVars
    <3> QED
      BY <1>i, <3>1, <3>7, <3>8, <3>9 DEF ExecutedInOrder, historyVars
  <2>6. CASE Publish(p)
    <3>1. /\ pc[p] = "publish" /\ pc' = [pc EXCEPT ![p] = "loadCapacity"]
          /\ second' = [second EXCEPT ![reg[p]] = TRUE]
          /\ UNCHANGED <<first, pushIndex, popIndex, aborted, dpc, reg, historyVars>>
      BY <2>6 DEF Publish, Step
    <3>2. \A t : SlotOf(t)' = SlotOf(t)
      BY <3>1 DEF SlotOf, NextSlot, Wrapped, historyVars
    <3>3. \A q \in Procs : /\ Writing(q)' <=> (Writing(q) /\ q /= p)
                           /\ q /= p => pc'[q] = pc[q]
      BY <1>t, <3>1 DEF Writing, TypeOK
    <3>4. Cardinality(Exchanging') = Cardinality(Exchanging)
      BY <1>t, <3>1, ExchangingCount DEF SchedulePCs
    <3>5. CountersInv'
      BY <1>i, <3>1, <3>4 DEF CountersInv, Executing, historyVars
    <3>6. /\ Writing(p)
          /\ ticket[p] \in released .. claims - 1
          /\ reg[p] = SlotOf(ticket[p])
          /\ first[reg[p]] = ticket[p]
      BY <1>i, <3>1 DEF Writing, ProducersInv
    <3>7. /\ second'[reg[p]]
          /\ \A i \in Slots : i /= reg[p] => second'[i] = second[i]
      BY <1>t, <3>1 DEF TypeOK
    <3>8. claims <= released + Size
      BY <1>n, <1>i, CardinalityOfExchanging DEF CountersInv
    <3>9. \A t \in released .. released + Size - 1 :
             /\ SlotOf(t) = reg[p] => t = ticket[p]
             /\ SlotOf(t) \in Slots
      BY <1>t, <1>n, <3>6, <3>8, SlotOfInjective
    <3>10. SlotsInv'
      <4>1. ASSUME NEW t \in released .. claims - 1, second'[SlotOf(t)]
            PROVE  first[SlotOf(t)] = t \/ (t = released /\ dpc = "unflag")
        <5>1. t \in released .. released + Size - 1
          BY <1>n, <3>8
        <5> QED
          BY <1>i, <3>6, <3>7, <3>9, <4>1, <5>1 DEF SlotsInv
      <4>2. ASSUME NEW t \in claims .. released + Size - 1
            PROVE  ~second'[SlotOf(t)]
        <5>1. t \in released .. released + Size - 1 /\ t /= ticket[p]
          BY <1>n, <1>i, <3>6 DEF CountersInv
        <5> QED
          BY <1>i, <3>7, <3>9, <5>1 DEF SlotsInv
      <4>3. second[popIndex] => second'[popIndex]
        BY <1>t, <3>7 DEF TypeOK
      <4> QED
        BY <1>i, <3>1, <3>2, <4>1, <4>2, <4>3 DEF SlotsInv, Executing, historyVars
    <3>11. ProducersInv'
      <4>1. ASSUME NEW q \in Procs, Writing(q), q /= p
            PROVE  ~second'[reg[q]]
        <5>1. reg[q] /= reg[p]
          BY <1>t, <1>i, <3>6, <4>1, WritersApart
        <5>2. reg[q] \in Slots
          BY <1>t DEF TypeOK
        <5>3. ~second[reg[q]]
          BY <1>i, <4>1 DEF ProducersInv
        <5> QED
          BY <3>7, <5>1, <5>2, <5>3
      <4> QED
        BY <1>i, <3>1, <3>2, <3>3, <4>1 DEF ProducersInv, historyVars
    <3> QED
      BY <1>i, <3>1, <3>5, <3>10, <3>11 DEF ExecutedInOrder, historyVars
  <2>7. ASSUME /\ pc[p] \in {"loadCapacity", "storeCapacity", "request"}
               /\ \E to \in {"storeCapacity", "request", "out"} : pc' = [pc EXCEPT ![p] = to]
               /\ ~aborted'
               /\ UNCHANGED <<first, second, pushIndex, popIndex, dpc, reg, historyVars>>
        PROVE  CountersInv' /\ SlotsInv' /\ ProducersInv' /\ ExecutedInOrder'
    <3>1. PICK to \in {"storeCapacity", "request", "out"} : pc' = [pc EXCEPT ![p] = to]
      BY <2>7
    <3>2. \A t : SlotOf(t)' = SlotOf(t)
      BY <2>7 DEF SlotOf, NextSlot, Wrapped, historyVars
    <3>3. \A q \in Procs : /\ Writing(q)' <=> Writing(q)
                           /\ Writing(q) => pc'[q] = pc[q]
      BY <1>t, <2>7, <3>1 DEF Writing, TypeOK
    <3>4. Cardinality(Exchanging') = Cardinality(Exchanging)
      BY <1>t, <2>7, <3>1, ExchangingCount DEF SchedulePCs
    <3>5. CountersInv'
      BY <1>i, <2>7, <3>4 DEF CountersInv, Executing, historyVars
    <3>6. SlotsInv'
      BY <1>i, <2>7, <3>2 DEF SlotsInv, Executing, historyVars
    <3>7. ProducersInv'
      BY <1>i, <2>7, <3>2, <3>3 DEF ProducersInv, historyVars
    <3> QED
      BY <1>i, <2>7, <3>5, <3>6, <3>7 DEF ExecutedInOrder, historyVars
  <2>8. CASE LoadCapacity(p)
    BY <1>i, <2>7, <2>8 DEF LoadCapacity, Step, CountersInv, sharedVars
  <2>9. CASE StoreCapacity(p)
    <3>1. cap[p] >= 1 /\ cap[p] \in Nat
      BY <1>t DEF TypeOK
    <3>2. ~aborted'
      BY <2>9, <3>1 DEF StoreCapacity
    <3> QED
      BY <2>7, <2>9, <3>2 DEF StoreCapacity, Step
  <2>10. CASE RequestExecution(p)
    BY <1>i, <2>7, <2>10 DEF RequestExecution, Step, CountersInv
  <2> QED
    BY <1>1, <2>1, <2>2, <2>3, <2>4, <2>5, <2>6, <2>8, <2>9, <2>10 DEF Schedule
<1>2. ASSUME /\ UNCHANGED <<first, second, pushIndex, popIndex, aborted, pc, reg, historyVars>>
             /\ ~Executing /\ ~Executing'
             /\ NextSlot' = NextSlot
      PROVE  CountersInv' /\ SlotsInv' /\ ProducersInv' /\ ExecutedInOrder'
  <2>1. \A t : SlotOf(t)' = SlotOf(t)
    BY <1>2 DEF SlotOf, Wrapped, historyVars
  <2>2. CountersInv'
    BY <1>i, <1>2 DEF CountersInv, Exchanging, historyVars
  <2>3. SlotsInv'
    BY <1>i, <1>2, <2>1 DEF SlotsInv, Executing, historyVars
  <2>4. ProducersInv'
    BY <1>i, <1>2, <2>1 DEF ProducersInv, Writing, historyVars
  <2> QED
    BY <1>i, <1>2, <2>2, <2>3, <2>4 DEF ExecutedInOrder, historyVars
<1>3. CASE StartRun \/ NothingToExecute \/ WakeUp \/ OtherWakeUp \/ DrainWakeUp
  BY <1>2, <1>3
  DEF StartRun, NothingToExecute, WakeUp, OtherWakeUp, DrainWakeUp, DispatcherStep,
      Executing, NextSlot, sharedVars, historyVars
<1>4. CASE ExecuteFirstAction
  <2>1. /\ dpc = "poll" /\ dpc' = "running"
        /\ second[popIndex]
        /\ executed' = Append(executed, first[popIndex])
        /\ UNCHANGED <<sharedVars, pc, reg, cap, ticket, begun, claims, released, lowWater>>
    BY <1>4 DEF ExecuteFirstAction, DispatcherStep
  <2>2. \A t : SlotOf(t)' = SlotOf(t)
    BY <2>1 DEF SlotOf, NextSlot, Wrapped, sharedVars
  <2>3. popIndex = SlotOf(released)
    BY <1>n, <1>t, <2>1 DEF SlotOf, NextSlot, Wrapped, TypeOK, Slots
  <2>4. released < claims
    BY <1>n, <1>i, <2>1, <2>3 DEF CountersInv, SlotsInv
  <2>5. first[popIndex] = released
    <3>1. released \in released .. claims - 1
      BY <1>n, <2>4
    <3> QED
      BY <1>i, <2>1, <2>3, <3>1 DEF SlotsInv
  <2>6. /\ Len(executed) = released
        /\ executed \in Seq(Nat \cup {NoAction})
        /\ first[popIndex] \in Nat \cup {NoAction}
    BY <1>n, <1>t, <1>i, <2>1 DEF CountersInv, Executing, TypeOK
  <2>7. CountersInv'
    BY <1>n, <1>i, <2>1, <2>6 DEF CountersInv, Executing, Exchanging, sharedVars
  <2>8. SlotsInv'
    BY <1>i, <2>1, <2>2 DEF SlotsInv, Executing, sharedVars
  <2>9. ProducersInv'
    BY <1>i, <2>1, <2>2 DEF ProducersInv, Writing, sharedVars
  <2>10. ExecutedInOrder'
    BY <1>n, <1>i, <2>1, <2>5, <2>6 DEF ExecutedInOrder
  <2> QED
    BY <2>7, <2>8, <2>9, <2>10
<1>5. CASE ClearAction
  <2>1. /\ dpc = "running" /\ dpc' = "unflag"
        /\ first' = [first EXCEPT ![popIndex] = NoAction]
        /\ UNCHANGED <<second, pushIndex, popIndex, aborted, pc, reg, historyVars>>
    BY <1>5 DEF ClearAction, DispatcherStep
  <2>2. \A t : SlotOf(t)' = SlotOf(t)
    BY <2>1 DEF SlotOf, NextSlot, Wrapped, historyVars
  <2>3. popIndex = SlotOf(released) /\ second[popIndex]
    BY <1>n, <1>t, <1>i, <2>1 DEF SlotOf, NextSlot, Wrapped, TypeOK, Slots, SlotsInv, Executing
  <2>4. \A i \in Slots : i /= popIndex => first'[i] = first[i]
    BY <1>t, <2>1 DEF TypeOK
  <2>5. CountersInv'
    BY <1>i, <2>1 DEF CountersInv, Executing, Exchanging, historyVars
  <2>6. SlotsInv'
    <3>1. ASSUME NEW t \in released .. claims - 1, t /= released
          PROVE  first'[SlotOf(t)] = first[SlotOf(t)]
      <4>1. /\ t \in released .. released + Size - 1
            /\ released \in released .. released + Size - 1
        BY <1>n, <1>i, CardinalityOfExchanging DEF CountersInv
      <4>2. SlotOf(t) /= popIndex /\ SlotOf(t) \in Slots
        BY <1>t, <1>n, <2>3, <3>1, <4>1, SlotOfInjective
      <4> QED
        BY <2>4, <4>2
    <3> QED
      BY <1>i, <2>1, <2>2, <3>1 DEF SlotsInv, Executing, historyVars
  <2>7. ProducersInv'
    <3>1. ASSUME NEW q \in Procs, Writing(q)
          PROVE  first'[reg[q]] = first[reg[q]]
      BY <1>t, <1>i, <2>3, <2>4, <3>1 DEF ProducersInv, TypeOK
    <3> QED
      BY <1>i, <2>1, <2>2, <3>1 DEF ProducersInv, Writing, historyVars
  <2> QED
    BY <1>i, <2>1, <2>5, <2>6, <2>7 DEF ExecutedInOrder, historyVars
<1>6. CASE ReleaseSlot
  <2>1. /\ dpc = "unflag" /\ dpc' = "advance"
        /\ second' = [second EXCEPT ![popIndex] = FALSE]
        /\ released' = released + 1
        /\ UNCHANGED <<first, pushIndex, popIndex, aborted, pc, reg, ticket, begun, claims, executed>>
    BY <1>6 DEF ReleaseSlot, DispatcherStep
  <2>2. popIndex = NextSlot /\ popIndex = SlotOf(released) /\ second[popIndex] /\ popIndex \in Slots
    BY <1>n, <1>t, <1>i, <2>1 DEF SlotOf, NextSlot, Wrapped, TypeOK, Slots, SlotsInv, Executing
  <2>3. released < claims
    BY <1>n, <1>i, <2>2 DEF CountersInv, SlotsInv
  <2>4. NextSlot' = IF popIndex + 1 = Size THEN 0 ELSE popIndex + 1
    BY <2>1, <2>2, NextIndex DEF NextSlot
  <2>5. ASSUME NEW t \in released + 1 .. released + Size
        PROVE  SlotOf(t)' = SlotOf(t)
    BY <1>n, <2>1, <2>2, <2>4 DEF SlotOf, Wrapped, Slots
  <2>6. SlotOf(released + Size) = popIndex
    BY <1>n, <2>2 DEF SlotOf, Wrapped, Slots
  <2>7. /\ ~second'[popIndex]
        /\ \A i \in Slots : i /= popIndex => second'[i] = second[i]
    BY <1>t, <2>1 DEF TypeOK
  <2>8. claims <= released + Size
    BY <1>n, <1>i, CardinalityOfExchanging DEF CountersInv
  <2>9. CountersInv'
    BY <1>n, <1>i, <2>1, <2>3 DEF CountersInv, Executing, Exchanging
  <2>10. \A t \in released + 1 .. released + Size - 1 :
            SlotOf(t) /= popIndex /\ SlotOf(t) \in Slots
    <3> SUFFICES ASSUME NEW t \in released + 1 .. released + Size - 1
                 PROVE  SlotOf(t) /= popIndex /\ SlotOf(t) \in Slots
      OBVIOUS
    <3>1. /\ t \in released .. released + Size - 1
          /\ released \in released .. released + Size - 1
          /\ t /= released
      BY <1>n
    <3> QED
      BY <1>t, <1>n, <2>2, <3>1, SlotOfInjective
  <2>11. SlotsInv'
    <3>1. pushIndex' = SlotOf(claims)'
      <4>1. claims \in released + 1 .. released + Size
        BY <1>n, <2>3, <2>8
      <4> QED
        BY <1>i, <2>1, <2>5, <4>1 DEF SlotsInv
    <3>2. ASSUME NEW t \in released' .. claims' - 1, second'[SlotOf(t)']
          PROVE  first'[SlotOf(t)'] = t
      <4>1. /\ t \in released + 1 .. released + Size
            /\ t \in released + 1 .. released + Size - 1
            /\ t \in released .. claims - 1
            /\ t /= released
        BY <1>n, <2>1, <2>8
      <4>2. second[SlotOf(t)] /\ first' = first /\ SlotOf(t)' = SlotOf(t)
        BY <2>1, <2>5, <2>7, <2>10, <3>2, <4>1
      <4> QED
        BY <1>i, <4>1, <4>2 DEF SlotsInv
    <3>3. ASSUME NEW t \in claims' .. released' + Size - 1
          PROVE  ~second'[SlotOf(t)']
      <4>1. t \in released + 1 .. released + Size
        BY <1>n, <2>1, <2>3
      <4>2. CASE t = released + Size
        BY <2>5, <2>6, <2>7, <4>1, <4>2
      <4>3. CASE t /= released + Size
        <5>1. /\ t \in released + 1 .. released + Size - 1
              /\ t \in claims .. released + Size - 1
          BY <1>n, <2>1, <4>1, <4>3
        <5> QED
          BY <1>i, <2>5, <2>7, <2>10, <4>1, <5>1 DEF SlotsInv
      <4> QED
        BY <4>2, <4>3
    <3> QED
      BY <2>1, <3>1, <3>2, <3>3 DEF SlotsInv, Executing
  <2>12. ProducersInv'
    <3>1. ASSUME NEW q \in Procs, Writing(q)
          PROVE  /\ ticket[q] \in released + 1 .. claims - 1
                 /\ reg[q] = SlotOf(ticket[q])'
                 /\ ~second'[reg[q]]
      <4>1. /\ ticket[q] \in released .. claims - 1
            /\ reg[q] = SlotOf(ticket[q])
            /\ ~second[reg[q]]
            /\ reg[q] \in Slots
        BY <1>t, <1>i, <3>1 DEF ProducersInv, TypeOK
      <4>2. reg[q] /= popIndex /\ ticket[q] /= released
        BY <2>2, <4>1
      <4>3. /\ ticket[q] \in released + 1 .. claims - 1
            /\ ticket[q] \in released + 1 .. released + Size
        BY <1>n, <2>8, <4>1, <4>2
      <4>4. SlotOf(ticket[q])' = SlotOf(ticket[q])
        BY <1>n, <2>1, <2>2, <2>4, <4>3 DEF SlotOf, Wrapped, Slots
      <4> QED
        BY <2>7, <4>1, <4>2, <4>3, <4>4
    <3> QED
      BY <1>i, <2>1, <3>1 DEF ProducersInv, Writing
  <2> QED
    BY <1>i, <2>1, <2>9, <2>11, <2>12 DEF ExecutedInOrder
<1>7. CASE AdvancePopIndex
  <2>1. NextSlot' = NextSlot
    BY <1>7 DEF AdvancePopIndex, DispatcherStep, NextSlot
  <2>2. \A t : SlotOf(t)' = SlotOf(t)
    BY <1>7, <2>1 DEF AdvancePopIndex, SlotOf, Wrapped, historyVars
  <2>3. CountersInv'
    BY <1>i, <1>7 DEF AdvancePopIndex, DispatcherStep, CountersInv, Exchanging, Executing, historyVars
  <2>4. SlotsInv'
    BY <1>i, <1>7, <2>2 DEF AdvancePopIndex, DispatcherStep, SlotsInv, Executing, historyVars
  <2>5. ProducersInv'
    BY <1>i, <1>7, <2>2 DEF AdvancePopIndex, ProducersInv, Writing, historyVars
  <2> QED
    BY <1>i, <1>7, <2>3, <2>4, <2>5 DEF AdvancePopIndex, ExecutedInOrder, historyVars
<1>8. CASE UNCHANGED vars
  <2>1. \A t : SlotOf(t)' = SlotOf(t)
    BY <1>8 DEF SlotOf, NextSlot, Wrapped, vars, sharedVars, localVars, historyVars
  <2> QED
    BY <1>i, <1>8, <2>1
    DEF CountersInv, SlotsInv, ProducersInv, ExecutedInOrder, Executing, Exchanging, Writing,
        vars, sharedVars, localVars, historyVars
<1> QED
  BY <1>1, <1>3, <1>4, <1>5, <1>6, <1>7, <1>8 DEF Next, Dispatch

(***************************************************************************)
(* The inductive invariant holds in every reachable state.                 *)
(***************************************************************************)
THEOREM DispatcherInvariant ==
    ASSUME MaxOutstanding <= Size
    PROVE  Spec => []DispatcherInv
BY DispatcherInvInit, DispatcherInvNext, PTL DEF Spec

(***************************************************************************)
(* FIFO, exactly once, for every number of producers and every ring size:  *)
(* actions are executed in the order in which Schedule claimed their slots *)
(* as long as no more actions are outstanding than the ring has slots.     *)
(***************************************************************************)
THEOREM Fifo ==
    ASSUME MaxOutstanding <= Size
    PROVE  Spec => []ExecutedInOrder
<1>1. DispatcherInv => ExecutedInOrder
  BY DEF DispatcherInv
<1> QED
  BY <1>1, DispatcherInvariant, PTL

(***************************************************************************)
(* A slot being filled belongs to one producer, and the dispatcher does    *)
(* not touch it: there is no data race on a stored function.               *)
(***************************************************************************)
THEOREM NoSlotShared ==
    ASSUME MaxOutstanding <= Size
    PROVE  Spec => []SlotsExclusive
<1>1. DispatcherInv => SlotsExclusive
  <2> SUFFICES ASSUME DispatcherInv, NEW p \in Procs, Writing(p)
               PROVE  /\ ~second[reg[p]]
                      /\ \A q \in Procs \ {p} : Writing(q) => reg[q] /= reg[p]
    BY DEF SlotsExclusive
  <2>1. ~second[reg[p]]
    BY DEF DispatcherInv, ProducersInv
  <2>2. \A q \in Procs \ {p} : Writing(q) => reg[q] /= reg[p]
    BY WritersApart DEF DispatcherInv
  <2> QED
    BY <2>1, <2>2
<1> QED
  BY <1>1, DispatcherInvariant, PTL

(***************************************************************************)
(* The assertions in Schedule never fire while no more actions are         *)
(* outstanding than the ring has slots.                                    *)
(***************************************************************************)
THEOREM NoAbortWithinCapacity ==
    ASSUME MaxOutstanding <= Size
    PROVE  Spec => [](~aborted /\ AbortOnlyOnOverflow)
<1>1. DispatcherInv => ~aborted /\ AbortOnlyOnOverflow
  BY DEF DispatcherInv, CountersInv, AbortOnlyOnOverflow
<1> QED
  BY <1>1, DispatcherInvariant, PTL

-----------------------------------------------------------------------------
(* The dispatcher implements ActionQueue                                   *)

\* The queue's contents: the tickets from n on, count of them
Tickets(n, count) == [i \in 1 .. count |-> n + i - 1]

(***************************************************************************)
(* What an action that enters, and one that leaves, does to the contents.  *)
(***************************************************************************)
LEMMA TicketsChange ==
    ASSUME NEW n \in Nat, NEW count \in Nat
    PROVE  /\ Tickets(n, count) \in Seq(Nat)
           /\ Len(Tickets(n, count)) = count
           /\ Tickets(n, count + 1) = Append(Tickets(n, count), n + count)
           /\ count > 0 => /\ Head(Tickets(n, count)) = n
                           /\ Tail(Tickets(n, count)) = Tickets(n + 1, count - 1)
                           /\ Tickets(n, count) /= << >>
<1>1. Tickets(n, count) \in Seq(Nat) /\ Len(Tickets(n, count)) = count
  BY DEF Tickets
<1>2. Tickets(n, count + 1) = Append(Tickets(n, count), n + count)
  BY DEF Tickets
<1>3. ASSUME count > 0
      PROVE  /\ Head(Tickets(n, count)) = n
             /\ Tail(Tickets(n, count)) = Tickets(n + 1, count - 1)
             /\ Tickets(n, count) /= << >>
  BY <1>3 DEF Tickets
<1> QED
  BY <1>1, <1>2, <1>3

(***************************************************************************)
(* Every step of Schedule and of Run is a step of the queue, or leaves it  *)
(* alone.                                                                  *)
(***************************************************************************)
LEMMA StepIsQueueStep ==
    ASSUME DispatcherInv, DispatcherInv', [Next]_vars
    PROVE  [Queue!Next]_Queue!vars
<1> DEFINE n == Len(executed)
           count == claims - Len(executed)
           busy == dpc \in {"running", "unflag"}
           q == Tickets(n, count)
<1>0. /\ n \in Nat /\ claims \in Nat /\ released \in Nat /\ begun \in Nat /\ Size \in Nat
      /\ executed \in Seq(Nat \cup {NoAction})
  BY SizeAssumption DEF DispatcherInv, TypeOK
<1>1. count \in Nat
  <2>1. claims \in Nat /\ released <= claims /\ n = released + (IF Executing THEN 1 ELSE 0)
    BY DEF DispatcherInv, TypeOK, CountersInv
  <2>2. CASE Executing
    <3>1. released < claims
      <4>1. second[popIndex] /\ popIndex \in Slots /\ NextSlot = popIndex
        BY <2>2 DEF DispatcherInv, SlotsInv, TypeOK, Executing, NextSlot
      <4>2. popIndex = SlotOf(released)
        BY <1>0, <4>1 DEF SlotOf, Wrapped, Slots
      <4>3. released \notin claims .. released + Size - 1
        BY <4>1, <4>2 DEF DispatcherInv, SlotsInv
      <4> QED
        BY <1>0, <2>1, <4>3, SizeAssumption
    <3> QED
      BY <1>0, <2>1, <2>2, <3>1
  <2>3. CASE ~Executing
    BY <1>0, <2>1, <2>3
  <2> QED
    BY <2>2, <2>3
<1>2. ASSUME UNCHANGED <<claims, executed>>, busy' <=> busy
      PROVE  UNCHANGED Queue!vars
  BY <1>2 DEF Queue!vars
<1>3. ASSUME NEW p \in Procs, ClaimSlot(p)
      PROVE  Queue!Next
  <2>1. /\ claims' = claims + 1 /\ UNCHANGED <<executed, dpc, released, begun>>
        /\ pc[p] = "exchange"
    BY <1>3 DEF ClaimSlot, Step
  <2>2. count' = count + 1 /\ n' = n /\ n + count = claims
    BY <1>0, <2>1
  <2>3. Queue!Occupied < Size
    <3>1. Cardinality(Exchanging) >= 1
      <4>1. Exchanging /= {} /\ IsFiniteSet(Exchanging)
        BY <2>1, ProcsAssumption, FS_Subset DEF Exchanging
      <4> QED
        BY <4>1, FS_EmptySet, CardinalityOfExchanging
    <3>2. claims < released + Size
      BY <1>0, <3>1, CardinalityOfExchanging DEF DispatcherInv, CountersInv
    <3>3. n = released + (IF busy THEN 1 ELSE 0)
      BY DEF DispatcherInv, CountersInv, Executing
    <3>4. Len(q) = count
      BY <1>0, <1>1, TicketsChange
    <3>5. count + (IF busy THEN 1 ELSE 0) < Size
      BY <1>0, <3>2, <3>3
    <3> QED
      BY <3>4, <3>5 DEF Queue!Occupied, Tickets
  <2>4. Tickets(n, count + 1) = Append(q, n + Len(q))
    <3> HIDE DEF n, count
    <3>1. /\ Tickets(n, count + 1) = Append(Tickets(n, count), n + count)
          /\ Len(Tickets(n, count)) = count
      BY <1>0, <1>1, TicketsChange
    <3> QED
      BY <3>1
  <2> QED
    BY <2>1, <2>2, <2>3, <2>4 DEF Queue!Next, Queue!Schedule, Tickets
<1>4. ASSUME ExecuteFirstAction
      PROVE  Queue!Next
  <2>1. /\ dpc = "poll" /\ dpc' = "running" /\ claims' = claims
        /\ executed' = Append(executed, first[popIndex])
    BY <1>4 DEF ExecuteFirstAction, DispatcherStep
  <2>2. first[popIndex] \in Nat \cup {NoAction}
    BY DEF DispatcherInv, TypeOK
  <2>3. n' = n + 1 /\ executed'[n + 1] = first[popIndex]
    BY <1>0, <2>1, <2>2
  <2>4. first[popIndex] = n
    <3>1. executed'[n + 1] = (n + 1) - 1
      BY <1>0, <2>3 DEF DispatcherInv, ExecutedInOrder
    <3> QED
      BY <1>0, <2>3, <3>1
  <2>5. count > 0 /\ count' = count - 1
    <3>1. second[popIndex] /\ popIndex = SlotOf(released)
      BY <1>0, <1>4, <2>1
      DEF ExecuteFirstAction, DispatcherInv, SlotOf, NextSlot, Wrapped, TypeOK, Slots
    <3>2. released \notin claims .. released + Size - 1
      BY <3>1 DEF DispatcherInv, SlotsInv
    <3>3. n = released
      BY <1>0, <2>1 DEF DispatcherInv, CountersInv, Executing
    <3> QED
      BY <1>0, <2>1, <2>3, <3>2, <3>3, SizeAssumption
  <2>6. Head(q) = n /\ Tail(q) = Tickets(n + 1, count - 1) /\ q /= << >>
    BY <1>0, <1>1, <2>5, TicketsChange
  <2>7. ~busy /\ busy'
    BY <2>1
  <2> QED
    BY <2>1, <2>3, <2>4, <2>5, <2>6, <2>7 DEF Queue!Next, Queue!BeginExecute, Tickets
<1>5. ASSUME ReleaseSlot
      PROVE  Queue!Next
  BY <1>5 DEF ReleaseSlot, DispatcherStep, Queue!Next, Queue!EndExecute
<1>6. ASSUME NEW p \in Procs, Schedule(p), ~ClaimSlot(p)
      PROVE  UNCHANGED <<claims, executed, dpc>>
  BY <1>6
  DEF Schedule, BeginSchedule, LoseRace, StoreAction, CheckFree, Publish, LoadCapacity,
      StoreCapacity, RequestExecution, historyVars
<1>7. ASSUME Dispatch \/ OtherWakeUp, ~ExecuteFirstAction, ~ReleaseSlot
      PROVE  UNCHANGED <<claims, executed>> /\ (busy' <=> busy)
  BY <1>7
  DEF Dispatch, OtherWakeUp, StartRun, ClearAction, AdvancePopIndex, NothingToExecute, WakeUp,
      DrainWakeUp, DispatcherStep, historyVars
<1>8. ASSUME UNCHANGED vars
      PROVE  UNCHANGED <<claims, executed, dpc>>
  BY <1>8 DEF vars, localVars, historyVars
<1> QED
  BY <1>2, <1>3, <1>4, <1>5, <1>6, <1>7, <1>8 DEF Next

(***************************************************************************)
(* The ring with its compare-exchange, its flags and its unordered         *)
(* publications implements a bounded queue that an action enters in one    *)
(* step, when its slot is claimed, and leaves in one step, in order (the   *)
(* safety part of QueueFair).                                              *)
(***************************************************************************)
THEOREM DispatcherIsQueue ==
    ASSUME MaxOutstanding <= Size
    PROVE  Spec => Queue!Spec
<1>1. Init => Queue!Init
  <2> SUFFICES ASSUME Init
               PROVE  Queue!Init
    OBVIOUS
  <2>1. claims = 0 /\ executed = << >> /\ dpc = "startup" /\ Len(<< >>) = 0
    BY DEF Init
  <2>2. [i \in 1 .. 0 |-> Len(executed) + i - 1] = << >>
    OBVIOUS
  <2> QED
    BY <2>1, <2>2 DEF Queue!Init
<1>2. DispatcherInv /\ DispatcherInv' /\ [Next]_vars => [Queue!Next]_Queue!vars
  BY StepIsQueueStep
<1> QED
  BY <1>1, <1>2, DispatcherInvariant, PTL DEF Spec, Queue!Spec

-----------------------------------------------------------------------------
(* MinCapacity, when the other contexts are interrupt handlers             *)

\* Every other context interrupts the dispatcher's: it does not run while
\* one of them is inside Schedule.
InterruptsMain == \A p \in Procs \ {Main} : <<p, Main>> \in Preempts

\* The offset from popIndex to the slot that a context claimed
Offset(p) == ticket[p] - Popped

\* From its claim until it loads minCapacity, a context finds the ring as the
\* claim found it.
CapacityInv ==
    /\ lowWater <= minCapacity
    /\ \A p \in Procs :
          /\ pc[p] \in {"store", "check", "publish", "loadCapacity"} =>
                /\ Offset(p) \in 0 .. Size
                /\ reg[p] = Wrapped(popIndex + Offset(p))
                /\ lowWater <= Size - Offset(p)
          /\ pc[p] = "storeCapacity" => lowWater <= cap[p]

(***************************************************************************)
(* The capacity that Schedule computes is at least the number of slots     *)
(* that are free from the offset it claimed on.                            *)
(***************************************************************************)
LEMMA CapacityFound ==
    ASSUME NEW i \in Slots, NEW k \in 0 .. Size
    PROVE  Size - k <= ((Size + i - Wrapped(i + k) - 1) % Size) + 1
<1> USE SizeAssumption DEF Slots
<1>1. CASE k = Size
  <2>1. ((Size + i - Wrapped(i + k) - 1) % Size) \in Nat
    BY DEF Wrapped
  <2> QED
    BY <1>1, <2>1
<1>2. CASE k < Size
  <2>1. CASE i + k < Size
    <3>1. Size + i - Wrapped(i + k) - 1 = Size - k - 1
      BY <2>1 DEF Wrapped
    <3>2. (Size - k - 1) % Size = Size - k - 1
      BY <1>2
    <3> QED
      BY <3>1, <3>2
  <2>2. CASE i + k >= Size
    <3>1. Size + i - Wrapped(i + k) - 1 = (Size - k - 1) + Size
      BY <2>2 DEF Wrapped
    <3>2. ((Size - k - 1) + Size) % Size = Size - k - 1
      BY <1>2
    <3> QED
      BY <3>1, <3>2
  <2> QED
    BY <2>1, <2>2
<1> QED
  BY <1>1, <1>2

(***************************************************************************)
(* The slot that a successful compare-exchange claims.                     *)
(***************************************************************************)
LEMMA ClaimedOffset ==
    ASSUME DispatcherInv, NEW p \in Procs, pc[p] = "exchange"
    PROVE  /\ claims - Popped \in 0 .. Size
           /\ pushIndex = Wrapped(popIndex + (claims - Popped))
<1> USE SizeAssumption
<1>1. claims \in Nat /\ released \in Nat /\ begun \in Nat /\ popIndex \in Slots
  BY DEF DispatcherInv, TypeOK
<1>2. Cardinality(Exchanging) >= 1
  <2>1. Exchanging /= {} /\ IsFiniteSet(Exchanging)
    BY ProcsAssumption, FS_Subset DEF Exchanging
  <2> QED
    BY <2>1, FS_EmptySet, CardinalityOfExchanging
<1>3. released <= claims /\ claims < released + Size
  BY <1>1, <1>2, CardinalityOfExchanging DEF DispatcherInv, CountersInv
<1>4. pushIndex = Wrapped(NextSlot + (claims - released))
  BY DEF DispatcherInv, SlotsInv, SlotOf
<1>5. CASE dpc = "advance"
  <2>1. NextSlot = IF popIndex + 1 = Size THEN 0 ELSE popIndex + 1
    BY <1>1, <1>5, NextIndex DEF NextSlot
  <2> QED
    BY <1>1, <1>3, <1>4, <1>5, <2>1 DEF Popped, Wrapped, Slots
<1>6. CASE dpc /= "advance"
  BY <1>1, <1>3, <1>4, <1>6 DEF Popped, Wrapped, Slots, NextSlot
<1> QED
  BY <1>5, <1>6

(***************************************************************************)
(* Every step preserves the invariant about minCapacity.                   *)
(***************************************************************************)
LEMMA CapacityInvNext ==
    ASSUME InterruptsMain, DispatcherInv, CapacityInv, [Next]_vars
    PROVE  CapacityInv'
<1> USE SizeAssumption
<1>t. TypeOK /\ TypeOK'
  BY TypeNext DEF DispatcherInv
<1>n. /\ claims \in Nat /\ released \in Nat /\ popIndex \in Slots /\ lowWater \in Int
      /\ minCapacity \in Int /\ Popped \in Int
  BY <1>t DEF TypeOK, Popped
<1>1. ASSUME NEW p \in Procs, Schedule(p)
      PROVE  CapacityInv'
  <2>1. ASSUME pc[p] \in {"out", "exchange", "store", "check", "request", "storeCapacity", "publish"},
               \E to \in SchedulePCs :
                  /\ pc' = [pc EXCEPT ![p] = to]
                  /\ to = "loadCapacity" => pc[p] = "publish"
                  /\ to \in {"check", "publish"} => pc[p] \in {"store", "check"}
                  /\ to \notin {"store", "storeCapacity"},
               \A q \in Procs \ {p} : reg'[q] = reg[q],
               pc[p] \in {"store", "check", "publish"} => reg'[p] = reg[p],
               lowWater <= minCapacity',
               UNCHANGED <<popIndex, dpc, cap, ticket, claims, released, lowWater>>
        PROVE  CapacityInv'
    <3>1. PICK to \in SchedulePCs :
             /\ pc' = [pc EXCEPT ![p] = to]
             /\ to = "loadCapacity" => pc[p] = "publish"
             /\ to \in {"check", "publish"} => pc[p] \in {"store", "check"}
             /\ to \notin {"store", "storeCapacity"}
      BY <2>1
    <3>2. \A q \in Procs : Offset(q)' = Offset(q)
      BY <2>1 DEF Offset, Popped
    <3>3. ASSUME NEW q \in Procs
          PROVE  /\ pc'[q] \in {"store", "check", "publish", "loadCapacity"} =>
                       /\ pc[q] \in {"store", "check", "publish", "loadCapacity"}
                       /\ reg'[q] = reg[q]
                 /\ pc'[q] = "storeCapacity" => pc[q] = "storeCapacity"
      BY <1>t, <2>1, <3>1 DEF TypeOK, SchedulePCs
    <3> QED
      BY <2>1, <3>2, <3>3 DEF CapacityInv, Wrapped
  <2>2. CASE BeginSchedule(p)
    BY <1>t, <2>1, <2>2 DEF BeginSchedule, Step, CapacityInv, SchedulePCs, TypeOK, sharedVars
  <2>3. CASE ClaimSlot(p)
    <3>1. /\ pc[p] = "exchange" /\ pc' = [pc EXCEPT ![p] = "store"]
          /\ pushIndex = reg[p]
          /\ ticket' = [ticket EXCEPT ![p] = claims]
          /\ lowWater' = Lesser(lowWater, Size - (claims - Popped))
          /\ UNCHANGED <<popIndex, minCapacity, dpc, reg, cap, released>>
      BY <2>3 DEF ClaimSlot, Step
    <3>2. Popped' = Popped
      BY <3>1 DEF Popped
    <3>3. lowWater' <= lowWater /\ lowWater' <= Size - (claims - Popped) /\ lowWater' \in Int
      BY <1>n, <3>1 DEF Lesser
    <3>4. ASSUME NEW q \in Procs
          PROVE  /\ pc'[q] \in {"store", "check", "publish", "loadCapacity"} =>
                       /\ Offset(q)' \in 0 .. Size
                       /\ reg'[q] = Wrapped(popIndex + Offset(q)')
                       /\ lowWater' <= Size - Offset(q)'
                 /\ pc'[q] = "storeCapacity" => lowWater' <= cap[q]
      <4>1. CASE q = p
        <5>1. Offset(q)' = claims - Popped /\ pc'[q] = "store" /\ reg'[q] = pushIndex
          BY <1>t, <3>1, <3>2, <4>1 DEF Offset, TypeOK
        <5> QED
          BY <3>1, <3>3, <5>1, ClaimedOffset
      <4>2. CASE q /= p
        <5>1. Offset(q)' = Offset(q) /\ pc'[q] = pc[q] /\ reg'[q] = reg[q]
          BY <1>t, <3>1, <3>2, <4>2 DEF Offset, TypeOK
        <5>2. cap[q] \in Int /\ Offset(q) \in Int
          BY <1>t, <1>n DEF TypeOK, Offset
        <5> QED
          BY <1>n, <3>3, <5>1, <5>2 DEF CapacityInv
      <4> QED
        BY <4>1, <4>2
    <3>5. lowWater' <= minCapacity
      BY <1>n, <3>3 DEF CapacityInv
    <3> QED
      BY <3>1, <3>4, <3>5 DEF CapacityInv, Wrapped
  <2>4. CASE LoseRace(p)
    BY <1>t, <2>1, <2>4
    DEF LoseRace, Step, CapacityInv, SchedulePCs, TypeOK, sharedVars, historyVars
  <2>5. CASE StoreAction(p) \/ CheckFree(p) \/ Publish(p)
    BY <2>1, <2>5
    DEF StoreAction, CheckFree, Publish, Step, CapacityInv, SchedulePCs, historyVars
  <2>6. CASE LoadCapacity(p)
    <3>1. /\ pc[p] = "loadCapacity" /\ pc' = [pc EXCEPT ![p] = "storeCapacity"]
          /\ cap' = [cap EXCEPT ![p] =
                        Lesser(minCapacity, ((Size + popIndex - reg[p] - 1) % Size) + 1)]
          /\ UNCHANGED <<popIndex, minCapacity, dpc, reg, historyVars>>
      BY <2>6 DEF LoadCapacity, Step, sharedVars
    <3>2. \A q \in Procs : Offset(q)' = Offset(q)
      BY <3>1 DEF Offset, Popped, historyVars
    <3>3. lowWater <= cap'[p]
      <4>1. /\ Offset(p) \in 0 .. Size /\ reg[p] = Wrapped(popIndex + Offset(p))
            /\ lowWater <= Size - Offset(p) /\ lowWater <= minCapacity
        BY <3>1 DEF CapacityInv
      <4>2. Size - Offset(p) <= ((Size + popIndex - reg[p] - 1) % Size) + 1
        BY <1>n, <4>1, CapacityFound
      <4>3. ((Size + popIndex - reg[p] - 1) % Size) + 1 \in 1 .. Size
        BY <1>t, CapacityInRange DEF TypeOK
      <4>4. lowWater <= ((Size + popIndex - reg[p] - 1) % Size) + 1
        BY <1>n, <4>1, <4>2, <4>3
      <4>5. cap'[p] = Lesser(minCapacity, ((Size + popIndex - reg[p] - 1) % Size) + 1)
        BY <1>t, <3>1 DEF TypeOK
      <4> QED
        BY <4>1, <4>4, <4>5 DEF Lesser
    <3>4. ASSUME NEW q \in Procs, q /= p
          PROVE  pc'[q] = pc[q] /\ cap'[q] = cap[q]
      BY <1>t, <3>1, <3>4 DEF TypeOK
    <3>5. pc'[p] = "storeCapacity"
      BY <1>t, <3>1 DEF TypeOK
    <3> QED
      BY <3>1, <3>2, <3>3, <3>4, <3>5 DEF CapacityInv, Wrapped, historyVars
  <2>7. CASE StoreCapacity(p)
    <3>1. lowWater <= minCapacity'
      BY <2>7 DEF StoreCapacity, Step, CapacityInv
    <3> QED
      BY <2>1, <2>7, <3>1 DEF StoreCapacity, Step, SchedulePCs, historyVars
  <2>8. CASE RequestExecution(p)
    BY <2>1, <2>8 DEF RequestExecution, Step, CapacityInv, SchedulePCs, historyVars
  <2> QED
    BY <1>1, <2>2, <2>3, <2>4, <2>5, <2>6, <2>7, <2>8 DEF Schedule
<1>2. CASE Dispatch \/ OtherWakeUp
  <2>1. Runs(Main) /\ pc[Main] = "out" /\ UNCHANGED <<pc, minCapacity, lowWater>>
    BY <1>2
    DEF Dispatch, OtherWakeUp, StartRun, ExecuteFirstAction, ClearAction, ReleaseSlot,
        AdvancePopIndex, NothingToExecute, WakeUp, DrainWakeUp, DispatcherStep,
        sharedVars, historyVars
  <2>2. \A p \in Procs : pc[p] = "out"
    BY <2>1 DEF Runs, InterruptsMain
  <2> QED
    BY <2>1, <2>2 DEF CapacityInv
<1>3. CASE UNCHANGED vars
  BY <1>3
  DEF CapacityInv, Offset, Popped, Wrapped, vars, sharedVars, localVars, historyVars
<1> QED
  BY <1>1, <1>2, <1>3 DEF Next

(***************************************************************************)
(* MinCapacity never reports fewer free slots than a claim really found,   *)
(* when the other contexts are interrupt handlers, for any number of them, *)
(* nested in any way, and for every ring size.                             *)
(***************************************************************************)
THEOREM MinCapacityIsSound ==
    ASSUME MaxOutstanding <= Size, InterruptsMain
    PROVE  Spec => []MinCapacitySound
<1>1. Init => CapacityInv
  BY SizeAssumption DEF Init, CapacityInv
<1>2. DispatcherInv /\ CapacityInv /\ [Next]_vars => CapacityInv'
  BY CapacityInvNext
<1>3. DispatcherInv /\ CapacityInv => MinCapacitySound
  <2> SUFFICES ASSUME DispatcherInv, CapacityInv
               PROVE  minCapacity >= lowWater
    BY DEF MinCapacitySound
  <2>1. minCapacity \in Int /\ lowWater \in Int
    BY SizeAssumption DEF DispatcherInv, TypeOK
  <2> QED
    BY <2>1 DEF CapacityInv
<1> QED
  BY <1>1, <1>2, <1>3, DispatcherInvariant, PTL DEF Spec
=============================================================================
