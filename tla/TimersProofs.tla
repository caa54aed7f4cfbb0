---------------------------- MODULE TimersProofs ----------------------------
(***************************************************************************)
(* Proofs about the timer services: no timer triggers early, and none that *)
(* waits is forgotten.                                                     *)
(*                                                                         *)
(* The parts follow the code.  First what the list of TimerService and the *)
(* iterator that UnregisterTimer corrects keep, whatever is started and    *)
(* cancelled while Progressed runs.  Then each service on top of it: the   *)
(* one that counts interrupts, the one with a thread of the host, and the  *)
(* derived one with its timer of the base.  Each has an invariant of the   *)
(* bookkeeping, which holds whatever clients do, and one of the next       *)
(* trigger time, which needs that no armed timer is started again for an   *)
(* earlier time.                                                           *)
(***************************************************************************)
EXTENDS MCTimers, SequenceTheorems, FiniteSetTheorems, WellFoundedInduction, TLAPS

-----------------------------------------------------------------------------
(* Lists *)

Unique(l) == \A i, j \in 1 .. Len(l) : l[i] = l[j] => i = j
Occurs(l, t) == \E i \in 1 .. Len(l) : l[i] = t

\* t is in the list, and not before u
NotBefore(l, t, u) == \E i \in 1 .. Len(l), j \in 1 .. Len(l) : j <= i /\ l[i] = t /\ l[j] = u

(***************************************************************************)
(* push_front.                                                             *)
(***************************************************************************)
LEMMA PushFront ==
    ASSUME NEW T, NEW l \in Seq(T), NEW t \in T, Unique(l), ~Occurs(l, t)
    PROVE  /\ <<t>> \o l \in Seq(T) /\ Unique(<<t>> \o l)
           /\ \A u : Occurs(<<t>> \o l, u) <=> u = t \/ Occurs(l, u)
           /\ \A u, v : NotBefore(l, u, v) => NotBefore(<<t>> \o l, u, v)
<1> DEFINE m == <<t>> \o l
<1>1. <<t>> \in Seq(T) /\ Len(<<t>>) = 1 /\ <<t>>[1] = t /\ Len(l) \in Nat
  OBVIOUS
<1>2. /\ m \in Seq(T) /\ Len(m) = 1 + Len(l) /\ m[1] = t
      /\ \A i \in 2 .. Len(l) + 1 : m[i] = l[i - 1]
  <2>1. m \in Seq(T) /\ Len(m) = 1 + Len(l)
    BY <1>1, ConcatProperties
  <2>2. \A i \in 1 .. 1 + Len(l) : m[i] = IF i <= 1 THEN <<t>>[i] ELSE l[i - 1]
    BY <1>1, ConcatProperties
  <2> QED
    BY <1>1, <2>1, <2>2
<1> HIDE DEF m
<1>3. \A i \in 1 .. Len(l) : i + 1 \in 1 .. Len(m) /\ m[i + 1] = l[i]
  BY <1>1, <1>2
<1>4. \A i \in 1 .. Len(m) : i = 1 \/ (i - 1 \in 1 .. Len(l) /\ m[i] = l[i - 1])
  BY <1>1, <1>2
<1>5. \A u : Occurs(m, u) <=> u = t \/ Occurs(l, u)
  <2> SUFFICES ASSUME NEW u PROVE Occurs(m, u) <=> u = t \/ Occurs(l, u)
    OBVIOUS
  <2>1. Occurs(m, u) => u = t \/ Occurs(l, u)
    BY <1>2, <1>4 DEF Occurs
  <2>2. Occurs(l, u) => Occurs(m, u)
    BY <1>3 DEF Occurs
  <2>3. Occurs(m, t)
    BY <1>1, <1>2 DEF Occurs
  <2> QED
    BY <2>1, <2>2, <2>3
<1>6. Unique(m)
  <2> SUFFICES ASSUME NEW i \in 1 .. Len(m), NEW j \in 1 .. Len(m), m[i] = m[j] PROVE i = j
    BY DEF Unique
  <2>1. CASE i = 1 \/ j = 1
    BY <2>1, <1>2, <1>4 DEF Occurs
  <2>2. CASE i /= 1 /\ j /= 1
    <3>1. i - 1 \in 1 .. Len(l) /\ j - 1 \in 1 .. Len(l) /\ l[i - 1] = l[j - 1]
      BY <2>2, <1>4
    <3>2. i - 1 = j - 1
      BY <3>1 DEF Unique
    <3> QED
      BY <3>2
  <2> QED
    BY <2>1, <2>2
<1>7. \A u, v : NotBefore(l, u, v) => NotBefore(m, u, v)
  <2> SUFFICES ASSUME NEW u, NEW v, NEW i \in 1 .. Len(l), NEW j \in 1 .. Len(l),
                      j <= i, l[i] = u, l[j] = v
               PROVE  NotBefore(m, u, v)
    BY DEF NotBefore
  <2>1. i + 1 \in 1 .. Len(m) /\ m[i + 1] = u /\ j + 1 \in 1 .. Len(m) /\ m[j + 1] = v
    BY <1>3
  <2>2. j + 1 <= i + 1
    OBVIOUS
  <2> QED
    BY <2>1, <2>2 DEF NotBefore
<1> QED
  BY <1>2, <1>5, <1>6, <1>7 DEF m

(***************************************************************************)
(* erase_slow: what is left, in the same order.                            *)
(***************************************************************************)
LEMMA EraseAt ==
    ASSUME NEW T, NEW l \in Seq(T), Unique(l), NEW k \in 1 .. Len(l)
    PROVE  /\ RemoveAt(l, k) \in Seq(T) /\ Len(RemoveAt(l, k)) = Len(l) - 1
           /\ Unique(RemoveAt(l, k))
           /\ \A u : Occurs(RemoveAt(l, k), u) <=> Occurs(l, u) /\ u /= l[k]
           /\ \A u, v : NotBefore(l, u, v) /\ u /= l[k] /\ v /= l[k]
                            => NotBefore(RemoveAt(l, k), u, v)
<1> DEFINE front == SubSeq(l, 1, k - 1)
           back == SubSeq(l, k + 1, Len(l))
           m == front \o back
<1>1. Len(l) \in Nat /\ DOMAIN l = 1 .. Len(l)
  OBVIOUS
<1>2. /\ front \in Seq(T) /\ Len(front) = k - 1
      /\ \A i \in 1 .. k - 1 : front[i] = l[i]
  BY <1>1
<1>3. back \in Seq(T) /\ Len(back) = Len(l) - k
  BY <1>1, SubSeqProperties
<1>4. \A i \in 1 .. Len(l) - k : back[i] = l[i + k]
  BY <1>1, SubSeqProperties
<1> HIDE DEF front, back
<1>5. m \in Seq(T) /\ Len(m) = Len(l) - 1
  <2>1. m \in Seq(T) /\ Len(m) = Len(front) + Len(back)
    BY <1>2, <1>3, ConcatProperties
  <2> QED
    BY <2>1, <1>1, <1>2, <1>3
<1>6. \A i \in 1 .. Len(l) - 1 : m[i] = IF i < k THEN l[i] ELSE l[i + 1]
  <2> SUFFICES ASSUME NEW i \in 1 .. Len(l) - 1
               PROVE  m[i] = IF i < k THEN l[i] ELSE l[i + 1]
    OBVIOUS
  <2>1. m[i] = IF i <= Len(front) THEN front[i] ELSE back[i - Len(front)]
    BY <1>1, <1>2, <1>3, ConcatProperties
  <2>2. CASE i < k
    BY <2>1, <2>2, <1>1, <1>2
  <2>3. CASE ~(i < k)
    <3>1. m[i] = back[i - (k - 1)] /\ i - (k - 1) \in 1 .. Len(l) - k
      BY <2>1, <2>3, <1>1, <1>2
    <3> QED
      BY <3>1, <1>1, <1>4, <2>3
  <2> QED
    BY <2>2, <2>3
<1>7. RemoveAt(l, k) = m
  BY DEF RemoveAt, m, front, back
<1> HIDE DEF m
<1>8. \A i \in 1 .. Len(m) :
         \E p \in 1 .. Len(l) : p = (IF i < k THEN i ELSE i + 1) /\ p /= k /\ m[i] = l[p]
  BY <1>1, <1>5, <1>6
<1>9. \A p \in 1 .. Len(l) : p /= k =>
         \E i \in 1 .. Len(m) : i = (IF p < k THEN p ELSE p - 1) /\ m[i] = l[p]
  BY <1>1, <1>5, <1>6
<1>10. Unique(m)
  <2> SUFFICES ASSUME NEW i \in 1 .. Len(m), NEW j \in 1 .. Len(m), m[i] = m[j] PROVE i = j
    BY DEF Unique
  <2>1. PICK p \in 1 .. Len(l) : p = (IF i < k THEN i ELSE i + 1) /\ p /= k /\ m[i] = l[p]
    BY <1>8
  <2>2. PICK q \in 1 .. Len(l) : q = (IF j < k THEN j ELSE j + 1) /\ q /= k /\ m[j] = l[q]
    BY <1>8
  <2>3. p = q
    BY <2>1, <2>2 DEF Unique
  <2> QED
    BY <2>1, <2>2, <2>3, <1>5, <1>1
<1>11. \A u : Occurs(m, u) <=> Occurs(l, u) /\ u /= l[k]
  <2> SUFFICES ASSUME NEW u PROVE Occurs(m, u) <=> Occurs(l, u) /\ u /= l[k]
    OBVIOUS
  <2>1. Occurs(m, u) => Occurs(l, u) /\ u /= l[k]
    BY <1>8 DEF Occurs, Unique
  <2>2. Occurs(l, u) /\ u /= l[k] => Occurs(m, u)
    BY <1>9 DEF Occurs
  <2> QED
    BY <2>1, <2>2
<1>12. \A u, v : NotBefore(l, u, v) /\ u /= l[k] /\ v /= l[k] => NotBefore(m, u, v)
  <2> SUFFICES ASSUME NEW u, NEW v, NEW p \in 1 .. Len(l), NEW q \in 1 .. Len(l),
                      q <= p, l[p] = u, l[q] = v, u /= l[k], v /= l[k]
               PROVE  NotBefore(m, u, v)
    BY DEF NotBefore
  <2>1. PICK i \in 1 .. Len(m) : i = (IF p < k THEN p ELSE p - 1) /\ m[i] = l[p]
    BY <1>9
  <2>2. PICK j \in 1 .. Len(m) : j = (IF q < k THEN q ELSE q - 1) /\ m[j] = l[q]
    BY <1>9
  <2>3. j <= i
    BY <2>1, <2>2, <1>1, <1>5
  <2> QED
    BY <2>1, <2>2, <2>3 DEF NotBefore
<1> QED
  BY <1>5, <1>7, <1>10, <1>11, <1>12
-----------------------------------------------------------------------------
(* The operations of a timer service, for any set T of timers *)

ServiceOver(T) ==
    [scheduledTimers : Seq(T),
     timerIterator : T \cup {End},
     nextTrigger : Int,
     holdUpdate : BOOLEAN,
     updateNeeded : BOOLEAN,
     armed : [T -> BOOLEAN],
     triggerTime : [T -> Int],
     triggerPeriod : [T -> Nat]]

Armed(T, s) == {t \in T : s.armed[t]}

\* The list holds the armed timers, each once; the iterator is on one of
\* them.  Trigger times have a lower bound, or there would be no earliest.
ServiceInv(T, s) ==
    /\ s \in ServiceOver(T)
    /\ Unique(s.scheduledTimers)
    /\ \A t \in T : s.armed[t] <=> Occurs(s.scheduledTimers, t)
    /\ s.timerIterator /= End => s.armed[s.timerIterator]
    /\ \E b \in Int : \A t \in T : b <= s.triggerTime[t]

\* t is yet to be visited by the loop over the timers
Ahead(s, t) == NotBefore(s.scheduledTimers, t, s.timerIterator)

\* m is the earliest of the trigger times of ts
IsEarliest(s, ts, m) ==
    /\ m = Never \/ \E t \in ts : m = s.triggerTime[t]
    /\ m <= Never
    /\ \A t \in ts : m <= s.triggerTime[t]

\* The next trigger time is right, unless it is to be computed again.
NextInv(T, s) ==
    /\ ~s.holdUpdate => ~s.updateNeeded
    /\ s.updateNeeded \/ IsEarliest(s, Armed(T, s), s.nextTrigger)

\* The same in the middle of the Start of a repeating timer t: t may have been
\* left out, and is about to wait d longer
HalfStarted(T, s, t, d) ==
    /\ ~s.holdUpdate => ~s.updateNeeded
    /\ \/ s.updateNeeded
       \/ IsEarliest(s, Armed(T, s), s.nextTrigger)
       \/ /\ IsEarliest(s, Armed(T, s) \ {t}, s.nextTrigger)
          /\ s.nextTrigger <= s.triggerTime[t] + d

(***************************************************************************)
(* A set of natural numbers has a least element.                           *)
(***************************************************************************)
LEMMA LeastNatural ==
    ASSUME NEW S, S \subseteq Nat, S /= {}
    PROVE  \E i \in S : \A j \in S : i <= j
<1> DEFINE R == OpToRel(<, Nat)
<1>1. IsWellFoundedOn(R, Nat)
  BY NatLessThanWellFounded
<1>2. \A i, j \in Nat : j < i => <<j, i>> \in R
  BY DEF OpToRel
<1> HIDE DEF R
<1>3. PICK i \in S : \A j \in S : <<j, i>> \notin R
  BY <1>1, WFMin
<1>4. \A j \in S : ~(j < i)
  BY <1>2, <1>3
<1> QED
  BY <1>4

(***************************************************************************)
(* There is one earliest time, and Earliest, the minimum that              *)
(* ComputeNextTrigger takes, is it.                                        *)
(***************************************************************************)
LEMMA EarliestFound ==
    ASSUME NEW T, NEW s \in ServiceOver(T), NEW ts \in SUBSET T,
           \E b \in Int : \A t \in T : b <= s.triggerTime[t]
    PROVE  /\ IsEarliest(s, ts, Earliest(s, ts))
           /\ Earliest(s, ts) \in Int
           /\ \A m : IsEarliest(s, ts, m) => m = Earliest(s, ts)
<1> DEFINE times == {s.triggerTime[t] : t \in ts} \cup {Never}
<1>1. s.triggerTime \in [T -> Int]
  BY DEF ServiceOver
<1>2. times \subseteq Int
  BY <1>1, NeverAssumption
<1>3. PICK b \in Int : \A x \in times : b <= x
  <2>1. PICK c \in Int : \A t \in T : c <= s.triggerTime[t]
    OBVIOUS
  <2>2. CASE c <= Never
    BY <2>1, <2>2
  <2>3. CASE ~(c <= Never)
    <3>1. \A t \in T : Never <= s.triggerTime[t]
      BY <2>1, <2>3, <1>1, NeverAssumption
    <3>2. \A x \in times : Never <= x
      BY <3>1, NeverAssumption
    <3> QED
      BY <3>2, NeverAssumption
  <2> QED
    BY <2>2, <2>3
<1>4. PICK m \in times : \A x \in times : m <= x
  <2> DEFINE S == {x - b : x \in times}
  <2>2. Never - b \in S
    OBVIOUS
  <2> HIDE DEF times
  <2>1. S \subseteq Nat
    <3> SUFFICES ASSUME NEW x \in times PROVE x - b \in Nat
      OBVIOUS
    <3> QED
      BY <1>2, <1>3
  <2>3. S /= {}
    BY <2>2
  <2> HIDE DEF S
  <2>4. PICK i \in S : \A j \in S : i <= j
    BY <2>1, <2>3, LeastNatural
  <2>5. PICK m \in times : i = m - b
    BY DEF S
  <2>6. \A x \in times : x - b \in S
    BY DEF S
  <2>7. \A x \in times : m <= x
    BY <2>4, <2>5, <2>6, <1>2
  <2> QED
    BY <2>7
<1>5. IsEarliest(s, ts, m)
  BY <1>4 DEF IsEarliest
<1>6. ASSUME NEW n, IsEarliest(s, ts, n), NEW k, IsEarliest(s, ts, k)
      PROVE  n = k /\ n \in Int
  <2>1. n \in Int /\ k \in Int
    BY <1>1, <1>6, NeverAssumption DEF IsEarliest
  <2>2. n <= k /\ k <= n
    BY <2>1, <1>1, <1>6, NeverAssumption DEF IsEarliest
  <2> QED
    BY <2>1, <2>2
<1>7. IsEarliest(s, ts, Earliest(s, ts))
  <2>1. m \in times /\ m <= Never /\ \A t \in ts : m <= s.triggerTime[t]
    BY <1>4
  <2>2. /\ Earliest(s, ts) \in times
        /\ Earliest(s, ts) <= Never /\ \A t \in ts : Earliest(s, ts) <= s.triggerTime[t]
    BY <2>1 DEF Earliest
  <2> QED
    BY <2>2 DEF IsEarliest
<1> QED
  BY <1>6, <1>7

(***************************************************************************)
(* ComputeNextTrigger: the list and the timers stay, and the next trigger  *)
(* time is right, or is to be computed when the loop is done.              *)
(***************************************************************************)
LEMMA Computes ==
    ASSUME NEW T, NEW s, ServiceInv(T, s)
    PROVE  LET r == ComputeNextTrigger(s) IN
           /\ ServiceInv(T, r)
           /\ r.scheduledTimers = s.scheduledTimers /\ r.timerIterator = s.timerIterator
           /\ r.holdUpdate = s.holdUpdate /\ r.armed = s.armed
           /\ r.triggerTime = s.triggerTime /\ r.triggerPeriod = s.triggerPeriod
           /\ NextInv(T, r)
<1> DEFINE e == Earliest(s, Scheduled(s))
           r == ComputeNextTrigger(s)
<1>1. s \in ServiceOver(T)
  BY DEF ServiceInv
<1>2. Scheduled(s) = Armed(T, s)
  <2>1. s.scheduledTimers \in Seq(T)
    BY <1>1 DEF ServiceOver
  <2>2. \A i \in 1 .. Len(s.scheduledTimers) : s.scheduledTimers[i] \in T
    BY <2>1
  <2> QED
    BY <2>2 DEF Scheduled, Armed, ServiceInv, Occurs
<1>3. IsEarliest(s, Armed(T, s), e) /\ e \in Int
  <2>1. Armed(T, s) \in SUBSET T
    BY DEF Armed
  <2> QED
    BY <1>1, <1>2, <2>1, EarliestFound DEF ServiceInv
<1> HIDE DEF e
<1>4. CASE s.holdUpdate
  <2>1. r = [s EXCEPT !.updateNeeded = TRUE]
    BY <1>4 DEF ComputeNextTrigger
  <2>2. r \in ServiceOver(T)
    BY <1>1, <2>1 DEF ServiceOver
  <2>3. /\ r.scheduledTimers = s.scheduledTimers /\ r.timerIterator = s.timerIterator
        /\ r.holdUpdate = s.holdUpdate /\ r.armed = s.armed
        /\ r.triggerTime = s.triggerTime /\ r.triggerPeriod = s.triggerPeriod
        /\ r.updateNeeded
    BY <1>1, <2>1 DEF ServiceOver
  <2> HIDE DEF r
  <2>4. ServiceInv(T, r)
    BY <2>2, <2>3 DEF ServiceInv
  <2>5. NextInv(T, r)
    BY <2>3, <1>4 DEF NextInv
  <2> QED
    BY <2>3, <2>4, <2>5 DEF r
<1>5. CASE ~s.holdUpdate
  <2>1. r = [s EXCEPT !.updateNeeded = FALSE, !.nextTrigger = e]
    BY <1>5 DEF ComputeNextTrigger, e
  <2>2. r \in ServiceOver(T)
    BY <1>1, <1>3, <2>1 DEF ServiceOver
  <2>3. /\ r.scheduledTimers = s.scheduledTimers /\ r.timerIterator = s.timerIterator
        /\ r.holdUpdate = s.holdUpdate /\ r.armed = s.armed
        /\ r.triggerTime = s.triggerTime /\ r.triggerPeriod = s.triggerPeriod
        /\ ~r.updateNeeded /\ r.nextTrigger = e
    BY <1>1, <2>1 DEF ServiceOver
  <2> HIDE DEF r
  <2>4. ServiceInv(T, r)
    BY <2>2, <2>3 DEF ServiceInv
  <2>5. NextInv(T, r)
    BY <2>3, <1>3 DEF NextInv, IsEarliest, Armed
  <2> QED
    BY <2>3, <2>4, <2>5 DEF r
<1> QED
  BY <1>4, <1>5
\* What an operation leaves as it is
SameBut(T, s, r) ==
    /\ ServiceInv(T, r)
    /\ r.timerIterator = s.timerIterator /\ r.holdUpdate = s.holdUpdate
    /\ r.triggerPeriod = s.triggerPeriod
    /\ \A u : Ahead(s, u) => Ahead(r, u)

(***************************************************************************)
(* SetNextTriggerTime keeps the list, and never moves a timer behind the   *)
(* loop over the timers.  The next trigger time stays right when an armed  *)
(* timer is not started again for an earlier time; half of a repeating     *)
(* timer's Start may do that, if the second half makes up for it.          *)
(***************************************************************************)
LEMMA Sets ==
    ASSUME NEW T, End \notin T, NEW s, ServiceInv(T, s), NEW t \in T, NEW x \in Int
    PROVE  LET r == SetNextTriggerTime(s, t, x)
               old == s.triggerTime[t]
           IN
           /\ SameBut(T, s, r)
           /\ r.armed = [s.armed EXCEPT ![t] = TRUE]
           /\ r.triggerTime = [s.triggerTime EXCEPT ![t] = x]
           /\ NextInv(T, s) /\ (s.armed[t] => old = s.nextTrigger \/ old <= x) => NextInv(T, r)
           /\ \A d \in Int :
                 NextInv(T, s) /\ (s.armed[t] => old = s.nextTrigger \/ old <= x + d)
                     => HalfStarted(T, r, t, d)
           /\ \A d \in Nat :
                 HalfStarted(T, s, t, d) /\ s.armed[t] /\ old + d <= x => NextInv(T, r)
<1> DEFINE r == SetNextTriggerTime(s, t, x)
           old == s.triggerTime[t]
           q == [s EXCEPT !.triggerTime[t] = x]
<1>1. s \in ServiceOver(T)
  BY DEF ServiceInv
<1>2. /\ s.scheduledTimers \in Seq(T) /\ s.timerIterator \in T \cup {End}
      /\ s.nextTrigger \in Int /\ s.holdUpdate \in BOOLEAN /\ s.updateNeeded \in BOOLEAN
      /\ s.armed \in [T -> BOOLEAN] /\ s.triggerTime \in [T -> Int] /\ s.triggerPeriod \in [T -> Nat]
  BY <1>1 DEF ServiceOver
<1>3. /\ q \in ServiceOver(T)
      /\ q.scheduledTimers = s.scheduledTimers /\ q.timerIterator = s.timerIterator
      /\ q.holdUpdate = s.holdUpdate /\ q.armed = s.armed /\ q.nextTrigger = s.nextTrigger
      /\ q.updateNeeded = s.updateNeeded
      /\ q.triggerTime = [s.triggerTime EXCEPT ![t] = x] /\ q.triggerPeriod = s.triggerPeriod
  BY <1>1, <1>2 DEF ServiceOver
<1>4. \E b \in Int : \A u \in T : b <= q.triggerTime[u]
  <2>1. PICK b \in Int : \A u \in T : b <= s.triggerTime[u]
    BY DEF ServiceInv
  <2>2. CASE b <= x
    BY <1>2, <1>3, <2>1, <2>2
  <2>3. CASE ~(b <= x)
    <3>1. \A u \in T : x <= q.triggerTime[u]
      BY <1>2, <1>3, <2>1, <2>3
    <3> QED
      BY <3>1
  <2> QED
    BY <2>2, <2>3
<1>5. ServiceInv(T, q)
  BY <1>3, <1>4 DEF ServiceInv
<1>6. r = [(IF s.armed[t] THEN UpdateTriggerTime(q, old) ELSE RegisterTimer(q, t))
              EXCEPT !.armed[t] = TRUE]
  BY DEF SetNextTriggerTime
<1>7. old \in Int /\ s.armed[t] \in BOOLEAN
  BY <1>2
<1> HIDE DEF q, r
<1>8. CASE ~s.armed[t]
  <2> DEFINE l == <<t>> \o s.scheduledTimers
             n == IF x < s.nextTrigger THEN x ELSE s.nextTrigger
  <2>1. /\ l \in Seq(T) /\ Unique(l)
        /\ \A u : Occurs(l, u) <=> u = t \/ Occurs(s.scheduledTimers, u)
        /\ \A u, v : NotBefore(s.scheduledTimers, u, v) => NotBefore(l, u, v)
    <3>1. Unique(s.scheduledTimers) /\ ~Occurs(s.scheduledTimers, t)
      BY <1>8 DEF ServiceInv
    <3> QED
      BY <1>2, <3>1, PushFront
  <2> HIDE DEF l
  <2>2. r = [[q EXCEPT !.scheduledTimers = l, !.nextTrigger = n] EXCEPT !.armed[t] = TRUE]
    BY <1>3, <1>6, <1>8, <1>2 DEF RegisterTimer, l
  <2>3. n \in Int
    BY <1>2
  <2> HIDE DEF n
  <2>4. /\ r \in ServiceOver(T)
        /\ r.scheduledTimers = l /\ r.timerIterator = s.timerIterator
        /\ r.holdUpdate = s.holdUpdate /\ r.armed = [s.armed EXCEPT ![t] = TRUE]
        /\ r.nextTrigger = n /\ r.updateNeeded = s.updateNeeded
        /\ r.triggerTime = [s.triggerTime EXCEPT ![t] = x] /\ r.triggerPeriod = s.triggerPeriod
    BY <1>2, <1>3, <2>1, <2>2, <2>3 DEF ServiceOver
  <2>5. ServiceInv(T, r)
    <3>1. \A u \in T : r.armed[u] <=> Occurs(l, u)
      BY <1>2, <2>1, <2>4 DEF ServiceInv
    <3>2. r.timerIterator /= End => r.armed[r.timerIterator]
      BY <1>2, <2>4 DEF ServiceInv
    <3>3. \E b \in Int : \A u \in T : b <= r.triggerTime[u]
      BY <1>3, <1>4, <2>4
    <3> QED
      BY <2>1, <2>4, <3>1, <3>2, <3>3 DEF ServiceInv
  <2>6. SameBut(T, s, r)
    BY <2>1, <2>4, <2>5 DEF SameBut, Ahead
  <2>7. NextInv(T, s) => NextInv(T, r)
    <3> SUFFICES ASSUME NextInv(T, s) PROVE NextInv(T, r)
      OBVIOUS
    <3>1. CASE s.updateNeeded
      BY <2>4, <3>1 DEF NextInv
    <3>2. CASE ~s.updateNeeded
      <4>1. IsEarliest(s, Armed(T, s), s.nextTrigger)
        BY <3>2 DEF NextInv
      <4>2. Armed(T, r) = Armed(T, s) \cup {t}
        BY <1>2, <2>4 DEF Armed
      <4>3. \A u \in Armed(T, s) : u \in T /\ u /= t /\ r.triggerTime[u] = s.triggerTime[u]
        BY <1>2, <1>8, <2>4 DEF Armed
      <4>4. r.triggerTime[t] = x
        BY <1>2, <2>4
      <4>5. IsEarliest(r, Armed(T, r), n)
        BY <4>1, <4>2, <4>3, <4>4, <1>2, NeverAssumption DEF IsEarliest, n
      <4> QED
        BY <4>5, <2>4, <3>2 DEF NextInv
    <3> QED
      BY <3>1, <3>2
  <2>8. \A d \in Int : NextInv(T, r) => HalfStarted(T, r, t, d)
    BY DEF NextInv, HalfStarted
  <2> QED
    BY <2>4, <2>6, <2>7, <2>8, <1>8 DEF r
<1>9. CASE s.armed[t] /\ s.nextTrigger = old
  <2> DEFINE c == ComputeNextTrigger(q)
  <2>1. /\ ServiceInv(T, c)
        /\ c.scheduledTimers = q.scheduledTimers /\ c.timerIterator = q.timerIterator
        /\ c.holdUpdate = q.holdUpdate /\ c.armed = q.armed
        /\ c.triggerTime = q.triggerTime /\ c.triggerPeriod = q.triggerPeriod
        /\ NextInv(T, c)
    BY <1>5, Computes
  <2>2. r = [c EXCEPT !.armed[t] = TRUE]
    BY <1>3, <1>6, <1>9 DEF UpdateTriggerTime
  <2> HIDE DEF c
  <2>3. c \in ServiceOver(T)
    BY <2>1 DEF ServiceInv
  <2>4. [c.armed EXCEPT ![t] = TRUE] = c.armed
    BY <1>2, <1>3, <1>9, <2>1
  <2>5. r = c
    BY <2>2, <2>3, <2>4 DEF ServiceOver
  <2>6. SameBut(T, s, r)
    BY <1>3, <2>1, <2>5 DEF SameBut, Ahead
  <2>7. r.armed = [s.armed EXCEPT ![t] = TRUE] /\ r.triggerTime = [s.triggerTime EXCEPT ![t] = x]
    BY <1>3, <2>1, <2>4, <2>5
  <2>8. \A d \in Int : HalfStarted(T, r, t, d)
    BY <2>1, <2>5 DEF NextInv, HalfStarted
  <2> QED
    BY <2>1, <2>5, <2>6, <2>7, <2>8 DEF r
<1>10. CASE s.armed[t] /\ s.nextTrigger /= old
  <2>1. r = [q EXCEPT !.armed[t] = TRUE]
    BY <1>3, <1>6, <1>10 DEF UpdateTriggerTime
  <2>2. [q.armed EXCEPT ![t] = TRUE] = q.armed
    BY <1>2, <1>3, <1>10
  <2>3. r = q
    BY <1>3, <2>1, <2>2 DEF ServiceOver
  <2>4. SameBut(T, s, r)
    BY <1>3, <1>5, <2>3 DEF SameBut, Ahead
  <2>5. r.armed = [s.armed EXCEPT ![t] = TRUE] /\ r.triggerTime = [s.triggerTime EXCEPT ![t] = x]
    BY <1>3, <2>2, <2>3
  <2>6. Armed(T, r) = Armed(T, s) /\ t \in Armed(T, s) /\ Armed(T, s) \subseteq T
    BY <1>3, <2>3, <1>10 DEF Armed
  <2>7. \A u \in T : u /= t => r.triggerTime[u] = s.triggerTime[u]
    BY <1>2, <2>5
  <2>8. r.triggerTime[t] = x
    BY <1>2, <2>5
  <2>9. r.nextTrigger = s.nextTrigger /\ r.updateNeeded = s.updateNeeded /\ r.holdUpdate = s.holdUpdate
    BY <1>3, <2>3
  <2>10. IsEarliest(s, Armed(T, s), s.nextTrigger)
            => IsEarliest(r, Armed(T, s) \ {t}, s.nextTrigger) /\ s.nextTrigger <= old
    BY <1>2, <1>10, <2>6, <2>7 DEF IsEarliest
  <2>11. IsEarliest(r, Armed(T, s) \ {t}, s.nextTrigger) /\ s.nextTrigger <= x
            => IsEarliest(r, Armed(T, r), s.nextTrigger)
    BY <2>6, <2>8 DEF IsEarliest
  <2>12. NextInv(T, s) /\ old <= x => NextInv(T, r)
    BY <1>2, <2>9, <2>10, <2>11 DEF NextInv
  <2>13. ASSUME NEW d \in Int, NextInv(T, s), old <= x + d
         PROVE  HalfStarted(T, r, t, d)
    BY <1>2, <2>6, <2>8, <2>9, <2>10, <2>13 DEF NextInv, HalfStarted
  <2>14. ASSUME NEW d \in Nat, HalfStarted(T, s, t, d), old + d <= x
         PROVE  NextInv(T, r)
    <3>1. IsEarliest(s, Armed(T, s) \ {t}, s.nextTrigger)
             => IsEarliest(r, Armed(T, s) \ {t}, s.nextTrigger)
      BY <2>6, <2>7 DEF IsEarliest
    <3>2. IsEarliest(s, Armed(T, s), s.nextTrigger) => IsEarliest(r, Armed(T, r), s.nextTrigger)
      BY <1>2, <2>10, <2>11, <2>14
    <3>3. IsEarliest(s, Armed(T, s) \ {t}, s.nextTrigger) /\ s.nextTrigger <= old + d
             => IsEarliest(r, Armed(T, r), s.nextTrigger)
      BY <1>2, <3>1, <2>11, <2>14
    <3> QED
      BY <2>9, <3>2, <3>3, <2>14 DEF HalfStarted, NextInv
  <2> QED
    BY <2>4, <2>5, <2>12, <2>13, <2>14, <1>10 DEF r
<1> QED
  BY <1>7, <1>8, <1>9, <1>10
(***************************************************************************)
(* Where a timer is in the list, and what comes after it.                  *)
(***************************************************************************)
LEMMA Found ==
    ASSUME NEW T, End \notin T, NEW s, ServiceInv(T, s), NEW t \in T, s.armed[t]
    PROVE  /\ Index(s, t) \in 1 .. Len(s.scheduledTimers)
           /\ s.scheduledTimers[Index(s, t)] = t
           /\ After(s, t) \in T \cup {End}
           /\ After(s, t) /= End => s.armed[After(s, t)] /\ After(s, t) /= t
           /\ \A u : NotBefore(s.scheduledTimers, u, t) /\ u /= t
                        => NotBefore(s.scheduledTimers, u, After(s, t))
<1> DEFINE l == s.scheduledTimers
           k == Index(s, t)
<1>1. s.scheduledTimers \in Seq(T)
  BY DEF ServiceInv, ServiceOver
<1>2. k \in 1 .. Len(l) /\ l[k] = t
  <2>1. Occurs(l, t)
    BY DEF ServiceInv
  <2> QED
    BY <2>1 DEF Occurs, Index
<1> HIDE DEF k
<1>3. After(s, t) = IF k = Len(l) THEN End ELSE l[k + 1]
  BY DEF After, k
<1>4. Len(l) \in Nat /\ \A i \in 1 .. Len(l) : l[i] \in T
  BY <1>1
<1>5. Unique(l)
  BY DEF ServiceInv
<1>6. CASE k = Len(l)
  <2>1. \A u : NotBefore(l, u, t) => u = t
    <3> SUFFICES ASSUME NEW u, NEW i \in 1 .. Len(l), NEW j \in 1 .. Len(l),
                        j <= i, l[i] = u, l[j] = t
                 PROVE  u = t
      BY DEF NotBefore
    <3>1. j = k
      BY <1>2, <1>5 DEF Unique
    <3>2. i = k
      BY <1>6, <3>1, <1>4
    <3> QED
      BY <3>2, <1>2
  <2> QED
    BY <1>2, <1>3, <1>6, <2>1 DEF k
<1>7. CASE k /= Len(l)
  <2>1. k + 1 \in 1 .. Len(l) /\ After(s, t) = l[k + 1]
    BY <1>2, <1>3, <1>4, <1>7
  <2>2. l[k + 1] \in T /\ Occurs(l, l[k + 1])
    BY <2>1, <1>4 DEF Occurs
  <2>3. l[k + 1] /= t
    BY <1>2, <1>4, <1>5, <2>1 DEF Unique
  <2>4. s.armed[l[k + 1]]
    BY <2>2 DEF ServiceInv
  <2>5. ASSUME NEW u, NEW i \in 1 .. Len(l), NEW j \in 1 .. Len(l),
               j <= i, l[i] = u, l[j] = t, u /= t
        PROVE  NotBefore(l, u, l[k + 1])
    <3>1. j = k
      BY <1>2, <1>5, <2>5 DEF Unique
    <3>2. k + 1 <= i
      BY <1>2, <2>5, <3>1
    <3> QED
      BY <2>1, <2>5, <3>2 DEF NotBefore
  <2>6. \A u : NotBefore(l, u, t) /\ u /= t => NotBefore(l, u, After(s, t))
    BY <2>1, <2>5 DEF NotBefore
  <2> QED
    BY <1>2, <2>1, <2>2, <2>3, <2>4, <2>6 DEF k
<1> QED
  BY <1>6, <1>7

(***************************************************************************)
(* Cancel takes a timer out of the list, moves the loop on if it stands on *)
(* it, and keeps the others ahead of the loop that are.                    *)
(***************************************************************************)
LEMMA Cancels ==
    ASSUME NEW T, End \notin T, NEW s, ServiceInv(T, s), NEW t \in T
    PROVE  LET r == Cancel(s, t) IN
           /\ ServiceInv(T, r)
           /\ r.timerIterator /= t
           /\ s.timerIterator = End => r.timerIterator = End
           /\ r.holdUpdate = s.holdUpdate
           /\ r.triggerPeriod = s.triggerPeriod
           /\ r.armed = [s.armed EXCEPT ![t] = FALSE]
           /\ r.triggerTime = [s.triggerTime EXCEPT ![t] = 0]
           /\ \A u : Ahead(s, u) /\ u /= t => Ahead(r, u)
           /\ NextInv(T, s) => NextInv(T, r)
<1> DEFINE r == Cancel(s, t)
<1>1. s \in ServiceOver(T)
  BY DEF ServiceInv
<1>2. /\ s.scheduledTimers \in Seq(T) /\ s.timerIterator \in T \cup {End}
      /\ s.nextTrigger \in Int /\ s.holdUpdate \in BOOLEAN /\ s.updateNeeded \in BOOLEAN
      /\ s.armed \in [T -> BOOLEAN] /\ s.triggerTime \in [T -> Int] /\ s.triggerPeriod \in [T -> Nat]
  BY <1>1 DEF ServiceOver
<1>3. \E b \in Int : \A u \in T : b <= [s.triggerTime EXCEPT ![t] = 0][u]
  <2>1. PICK b \in Int : \A u \in T : b <= s.triggerTime[u]
    BY DEF ServiceInv
  <2>2. CASE b <= 0
    BY <1>2, <2>1, <2>2
  <2>3. CASE ~(b <= 0)
    <3>1. \A u \in T : 0 <= [s.triggerTime EXCEPT ![t] = 0][u]
      BY <1>2, <2>1, <2>3
    <3> QED
      BY <3>1
  <2> QED
    BY <2>2, <2>3
<1> DEFINE aa == [s.armed EXCEPT ![t] = FALSE]
           tt == [s.triggerTime EXCEPT ![t] = 0]
<1>6. aa \in [T -> BOOLEAN] /\ tt \in [T -> Int]
  BY <1>2
<1>4. CASE ~s.armed[t]
  <2>1. r = [s EXCEPT !.triggerTime = tt, !.armed = aa]
    BY <1>1, <1>4 DEF Cancel, ServiceOver
  <2> HIDE DEF aa, tt
  <2>2. /\ r \in ServiceOver(T)
        /\ r.scheduledTimers = s.scheduledTimers /\ r.timerIterator = s.timerIterator
        /\ r.holdUpdate = s.holdUpdate /\ r.nextTrigger = s.nextTrigger
        /\ r.updateNeeded = s.updateNeeded /\ r.armed = aa
        /\ r.triggerTime = tt /\ r.triggerPeriod = s.triggerPeriod
    BY <1>1, <1>6, <2>1 DEF ServiceOver
  <2> HIDE DEF r
  <2>3. r.armed = s.armed
    <3>1. s.armed[t] = FALSE
      BY <1>2, <1>4
    <3>2. aa = s.armed
      BY <1>2, <3>1 DEF aa
    <3> QED
      BY <2>2, <3>2
  <2>4. ServiceInv(T, r)
    BY <1>3, <2>2, <2>3 DEF ServiceInv, tt
  <2>5. NextInv(T, s) => NextInv(T, r)
    <3>1. Armed(T, r) = Armed(T, s) /\ t \notin Armed(T, s) /\ Armed(T, s) \subseteq T
      BY <2>3, <1>4 DEF Armed
    <3>2. \A u \in Armed(T, s) : r.triggerTime[u] = s.triggerTime[u]
      BY <3>1, <2>2, <1>2 DEF tt
    <3> QED
      BY <2>2, <3>1, <3>2 DEF NextInv, IsEarliest
  <2>6. r.timerIterator /= t
    BY <1>2, <1>4, <2>2 DEF ServiceInv
  <2> QED
    BY <2>2, <2>4, <2>5, <2>6 DEF r, Ahead, aa, tt
<1>5. CASE s.armed[t]
  <2> DEFINE it == IF s.timerIterator = t THEN After(s, t) ELSE s.timerIterator
             l == RemoveAt(s.scheduledTimers, Index(s, t))
             q == [s EXCEPT !.timerIterator = it, !.scheduledTimers = l]
             c == IF s.triggerTime[t] = q.nextTrigger THEN ComputeNextTrigger(q) ELSE q
             z == [q EXCEPT !.triggerTime = tt, !.armed = aa]
  <2>1. /\ Index(s, t) \in 1 .. Len(s.scheduledTimers)
        /\ s.scheduledTimers[Index(s, t)] = t
        /\ After(s, t) \in T \cup {End}
        /\ After(s, t) /= End => s.armed[After(s, t)] /\ After(s, t) /= t
        /\ \A u : NotBefore(s.scheduledTimers, u, t) /\ u /= t
                     => NotBefore(s.scheduledTimers, u, After(s, t))
    BY <1>5, Found
  <2>2. /\ l \in Seq(T) /\ Unique(l)
        /\ \A u : Occurs(l, u) <=> Occurs(s.scheduledTimers, u) /\ u /= t
        /\ \A u, v : NotBefore(s.scheduledTimers, u, v) /\ u /= t /\ v /= t => NotBefore(l, u, v)
    <3>1. Unique(s.scheduledTimers)
      BY DEF ServiceInv
    <3> DEFINE k == Index(s, t)
    <3>2. k \in 1 .. Len(s.scheduledTimers) /\ s.scheduledTimers[k] = t
      BY <2>1
    <3>3. l = RemoveAt(s.scheduledTimers, k)
      OBVIOUS
    <3> HIDE DEF k, l
    <3> QED
      BY <1>2, <3>1, <3>2, <3>3, EraseAt
  <2>3. r = [c EXCEPT !.triggerTime[t] = 0, !.armed[t] = FALSE]
    BY <1>5 DEF Cancel, UnregisterTimer
  <2>4. it \in T \cup {End} /\ it /= t /\ (it /= End => s.armed[it])
    BY <1>2, <2>1 DEF ServiceInv
  <2> HIDE DEF it, l
  <2>5. /\ q \in ServiceOver(T)
        /\ q.scheduledTimers = l /\ q.timerIterator = it
        /\ q.holdUpdate = s.holdUpdate /\ q.nextTrigger = s.nextTrigger
        /\ q.updateNeeded = s.updateNeeded /\ q.armed = s.armed
        /\ q.triggerTime = s.triggerTime /\ q.triggerPeriod = s.triggerPeriod
    BY <1>1, <1>2, <2>2, <2>4 DEF ServiceOver
  <2> HIDE DEF q
  <2>6. /\ z \in ServiceOver(T)
        /\ z.scheduledTimers = l /\ z.timerIterator = it
        /\ z.holdUpdate = s.holdUpdate /\ z.nextTrigger = s.nextTrigger
        /\ z.updateNeeded = s.updateNeeded /\ z.armed = aa
        /\ z.triggerTime = tt /\ z.triggerPeriod = s.triggerPeriod
    <3> HIDE DEF aa, tt
    <3> QED
      BY <1>6, <2>5 DEF ServiceOver
  <2> HIDE DEF z
  <2>7. ServiceInv(T, z)
    <3>1. \A u \in T : z.armed[u] <=> Occurs(l, u)
      BY <1>2, <2>2, <2>6 DEF ServiceInv
    <3>2. z.timerIterator /= End => z.armed[z.timerIterator]
      BY <1>2, <2>4, <2>6
    <3> QED
      BY <1>3, <2>2, <2>6, <3>1, <3>2 DEF ServiceInv
  <2>8. \A u : Ahead(s, u) /\ u /= t => NotBefore(l, u, it)
    <3> SUFFICES ASSUME NEW u, NotBefore(s.scheduledTimers, u, s.timerIterator), u /= t
                 PROVE  NotBefore(l, u, it)
      BY DEF Ahead
    <3>1. NotBefore(s.scheduledTimers, u, it)
      BY <2>1 DEF it
    <3> QED
      BY <2>2, <2>4, <3>1
  <2>9. Armed(T, z) = Armed(T, s) \ {t}
    BY <1>2, <2>6 DEF Armed
  <2>10. \A u \in Armed(T, z) : z.triggerTime[u] = s.triggerTime[u]
    BY <1>2, <2>6, <2>9 DEF Armed
  <2>11. CASE s.triggerTime[t] /= s.nextTrigger
    <3>1. r = z
      BY <2>3, <2>5, <2>11 DEF z, ServiceOver
    <3>2. NextInv(T, s) => NextInv(T, r)
      <4>1. IsEarliest(s, Armed(T, s), s.nextTrigger) => IsEarliest(z, Armed(T, z), s.nextTrigger)
        BY <2>9, <2>10, <2>11 DEF IsEarliest
      <4> QED
        BY <2>6, <3>1, <4>1 DEF NextInv
    <3> QED
      BY <2>4, <2>6, <2>7, <2>8, <3>1, <3>2, <1>2 DEF Ahead, r, it
  <2>12. CASE s.triggerTime[t] = s.nextTrigger
    <3>1. Scheduled(q) = Armed(T, z)
      <4>1. \A u : u \in Scheduled(q) <=> Occurs(l, u)
        BY <2>5 DEF Scheduled, Occurs
      <4>2. \A u : Occurs(l, u) => u \in T
        BY <2>2 DEF Occurs
      <4>3. \A u \in T : u \in Armed(T, z) <=> Occurs(l, u)
        BY <2>6, <2>7 DEF Armed, ServiceInv
      <4>4. Armed(T, z) \subseteq T
        BY DEF Armed
      <4> QED
        BY <4>1, <4>2, <4>3, <4>4
    <3> DEFINE e == Earliest(q, Scheduled(q))
    <3>2. IsEarliest(q, Armed(T, z), e) /\ e \in Int
      <4>1. Armed(T, z) \in SUBSET T
        BY DEF Armed
      <4>2. \E b \in Int : \A u \in T : b <= q.triggerTime[u]
        BY <2>5 DEF ServiceInv
      <4> QED
        BY <2>5, <3>1, <4>1, <4>2, EarliestFound
    <3>3. c = IF s.holdUpdate THEN [q EXCEPT !.updateNeeded = TRUE]
                              ELSE [q EXCEPT !.updateNeeded = FALSE, !.nextTrigger = e]
      BY <2>5, <2>12 DEF ComputeNextTrigger
    <3> HIDE DEF e, c, r
    <3>7. c \in ServiceOver(T) /\ c.armed = s.armed /\ c.triggerTime = s.triggerTime
      BY <2>5, <3>2, <3>3 DEF ServiceOver
    <3>8. r = [c EXCEPT !.triggerTime = tt, !.armed = aa]
      BY <2>3, <3>7 DEF ServiceOver
    <3> HIDE DEF aa, tt
    <3>4. /\ r \in ServiceOver(T)
          /\ r.scheduledTimers = l /\ r.timerIterator = it
          /\ r.holdUpdate = s.holdUpdate /\ r.armed = aa
          /\ r.triggerTime = tt /\ r.triggerPeriod = s.triggerPeriod
          /\ s.holdUpdate => r.updateNeeded
          /\ ~s.holdUpdate => ~r.updateNeeded /\ r.nextTrigger = e
      <4>1. CASE s.holdUpdate
        BY <1>6, <2>5, <3>3, <3>7, <3>8, <4>1 DEF ServiceOver
      <4>2. CASE ~s.holdUpdate
        BY <1>6, <2>5, <3>3, <3>7, <3>8, <4>2 DEF ServiceOver
      <4> QED
        BY <4>1, <4>2
    <3>5. ServiceInv(T, r)
      BY <2>6, <2>7, <3>4 DEF ServiceInv
    <3>6. NextInv(T, r)
      <4>1. Armed(T, r) = Armed(T, z)
        BY <2>6, <3>4 DEF Armed
      <4>2. \A u \in Armed(T, z) : r.triggerTime[u] = q.triggerTime[u]
        BY <2>5, <2>6, <2>10, <3>4
      <4>3. IsEarliest(r, Armed(T, r), e)
        BY <3>2, <4>1, <4>2 DEF IsEarliest
      <4> QED
        BY <1>2, <3>4, <4>3 DEF NextInv
    <3> QED
      BY <2>4, <2>8, <3>4, <3>5, <3>6, <1>2 DEF Ahead, r, it, aa, tt
  <2> QED
    BY <2>11, <2>12
<1> QED
  BY <1>2, <1>4, <1>5
(***************************************************************************)
(* One iteration of the loop moves the iterator on.                        *)
(***************************************************************************)
LEMMA Advances ==
    ASSUME NEW T, End \notin T, NEW s, ServiceInv(T, s), s.timerIterator /= End
    PROVE  LET r == Advance(s) IN
           /\ ServiceInv(T, r)
           /\ r.timerIterator /= s.timerIterator
           /\ r.holdUpdate = s.holdUpdate /\ r.armed = s.armed
           /\ r.triggerTime = s.triggerTime /\ r.triggerPeriod = s.triggerPeriod
           /\ r.nextTrigger = s.nextTrigger
           /\ \A u : Ahead(s, u) /\ u /= s.timerIterator => Ahead(r, u)
           /\ NextInv(T, s) => NextInv(T, r)
<1> DEFINE a == After(s, s.timerIterator)
           r == Advance(s)
<1>1. s \in ServiceOver(T)
  BY DEF ServiceInv
<1>2. s.timerIterator \in T /\ s.armed[s.timerIterator]
  BY <1>1 DEF ServiceInv, ServiceOver
<1>3. /\ a \in T \cup {End} /\ (a /= End => s.armed[a] /\ a /= s.timerIterator)
      /\ \A u : NotBefore(s.scheduledTimers, u, s.timerIterator) /\ u /= s.timerIterator
                   => NotBefore(s.scheduledTimers, u, a)
  BY <1>2, Found
<1>4. r = [s EXCEPT !.timerIterator = a]
  BY DEF Advance
<1> HIDE DEF a, r
<1>5. /\ r \in ServiceOver(T) /\ r.scheduledTimers = s.scheduledTimers /\ r.timerIterator = a
      /\ r.holdUpdate = s.holdUpdate /\ r.armed = s.armed
      /\ r.triggerTime = s.triggerTime /\ r.triggerPeriod = s.triggerPeriod
      /\ r.nextTrigger = s.nextTrigger /\ r.updateNeeded = s.updateNeeded
  BY <1>1, <1>3, <1>4 DEF ServiceOver
<1>6. ServiceInv(T, r)
  BY <1>3, <1>5 DEF ServiceInv
<1>7. NextInv(T, s) => NextInv(T, r)
  BY <1>5 DEF NextInv, Armed, IsEarliest
<1>8. \A u : Ahead(s, u) /\ u /= s.timerIterator => Ahead(r, u)
  BY <1>3, <1>5 DEF Ahead
<1> QED
  BY <1>2, <1>3, <1>5, <1>6, <1>7, <1>8 DEF r

(***************************************************************************)
(* When the loop begins, every armed timer is ahead; when it is over, none *)
(* is.                                                                     *)
(***************************************************************************)
LEMMA Begins ==
    ASSUME NEW T, End \notin T, NEW s, ServiceInv(T, s)
    PROVE  LET r == BeginProgressed(s) IN
           /\ ServiceInv(T, r)
           /\ r.holdUpdate
           /\ r.armed = s.armed /\ r.nextTrigger = s.nextTrigger
           /\ r.triggerTime = s.triggerTime /\ r.triggerPeriod = s.triggerPeriod
           /\ \A u \in T : s.armed[u] => Ahead(r, u)
           /\ NextInv(T, s) => NextInv(T, r)
<1> DEFINE l == s.scheduledTimers
           a == IF l = << >> THEN End ELSE l[1]
           r == BeginProgressed(s)
<1>1. s \in ServiceOver(T) /\ l \in Seq(T)
  BY DEF ServiceInv, ServiceOver
<1>2. Len(l) \in Nat /\ (l = << >> <=> Len(l) = 0) /\ \A i \in 1 .. Len(l) : l[i] \in T
  BY <1>1, EmptySeq
<1>3. a \in T \cup {End} /\ (a /= End => s.armed[a])
  <2>1. CASE Len(l) = 0
    BY <1>2, <2>1
  <2>2. CASE Len(l) /= 0
    <3>1. 1 \in 1 .. Len(l) /\ a = l[1]
      BY <1>2, <2>2
    <3>2. a \in T /\ Occurs(l, a)
      BY <1>2, <3>1 DEF Occurs
    <3> QED
      BY <3>2 DEF ServiceInv
  <2> QED
    BY <2>1, <2>2
<1>4. ASSUME NEW u \in T, s.armed[u]
      PROVE  NotBefore(l, u, a)
  <2>1. PICK i \in 1 .. Len(l) : l[i] = u
    BY <1>4 DEF ServiceInv, Occurs
  <2>2. 1 \in 1 .. Len(l) /\ 1 <= i /\ l[1] = a
    BY <1>2, <2>1
  <2> QED
    BY <2>1, <2>2 DEF NotBefore
<1>5. r = [s EXCEPT !.holdUpdate = TRUE, !.timerIterator = a]
  BY DEF BeginProgressed
<1> HIDE DEF a, r
<1>6. /\ r \in ServiceOver(T) /\ r.scheduledTimers = l /\ r.timerIterator = a
      /\ r.holdUpdate /\ r.armed = s.armed
      /\ r.triggerTime = s.triggerTime /\ r.triggerPeriod = s.triggerPeriod
      /\ r.nextTrigger = s.nextTrigger /\ r.updateNeeded = s.updateNeeded
  BY <1>1, <1>3, <1>5 DEF ServiceOver
<1>7. ServiceInv(T, r)
  BY <1>3, <1>6 DEF ServiceInv
<1>8. NextInv(T, s) => NextInv(T, r)
  BY <1>6 DEF NextInv, Armed, IsEarliest
<1> QED
  BY <1>4, <1>6, <1>7, <1>8 DEF r, Ahead

(***************************************************************************)
(* What follows the loop: the next trigger time is right.                  *)
(***************************************************************************)
LEMMA Ends ==
    ASSUME NEW T, End \notin T, NEW s, ServiceInv(T, s)
    PROVE  LET r == EndProgressed(s) IN
           /\ ServiceInv(T, r)
           /\ NextInv(T, s) => NextInv(T, r)
           /\ r.timerIterator = s.timerIterator
           /\ ~r.holdUpdate
           /\ r.armed = s.armed
           /\ r.triggerTime = s.triggerTime /\ r.triggerPeriod = s.triggerPeriod
<1> DEFINE q == [s EXCEPT !.holdUpdate = FALSE]
           r == EndProgressed(s)
<1>1. s \in ServiceOver(T)
  BY DEF ServiceInv
<1>2. /\ q \in ServiceOver(T) /\ q.scheduledTimers = s.scheduledTimers
      /\ q.timerIterator = s.timerIterator
      /\ ~q.holdUpdate /\ q.armed = s.armed
      /\ q.triggerTime = s.triggerTime /\ q.triggerPeriod = s.triggerPeriod
      /\ q.nextTrigger = s.nextTrigger /\ q.updateNeeded = s.updateNeeded
  BY <1>1 DEF ServiceOver
<1>3. r = IF q.updateNeeded THEN ComputeNextTrigger(q) ELSE q
  BY DEF EndProgressed
<1> HIDE DEF q, r
<1>4. ServiceInv(T, q)
  BY <1>2 DEF ServiceInv
<1>5. CASE q.updateNeeded
  <2> DEFINE c == ComputeNextTrigger(q)
  <2>1. /\ ServiceInv(T, c)
        /\ c.scheduledTimers = q.scheduledTimers /\ c.timerIterator = q.timerIterator
        /\ c.holdUpdate = q.holdUpdate /\ c.armed = q.armed
        /\ c.triggerTime = q.triggerTime /\ c.triggerPeriod = q.triggerPeriod
        /\ NextInv(T, c)
    BY <1>4, Computes
  <2>2. r = c
    BY <1>3, <1>5
  <2> HIDE DEF c
  <2> QED
    BY <2>1, <2>2, <1>2 DEF r
<1>6. CASE ~q.updateNeeded
  <2>1. r = q
    BY <1>3, <1>6
  <2>2. NextInv(T, s) => NextInv(T, q)
    BY <1>2, <1>6 DEF NextInv, Armed, IsEarliest
  <2> QED
    BY <1>2, <1>4, <2>1, <2>2 DEF r
<1> QED
  BY <1>5, <1>6

(***************************************************************************)
(* When the iterator is at the end, nothing is ahead of it.                *)
(***************************************************************************)
LEMMA NothingAhead ==
    ASSUME NEW T, End \notin T, NEW s, ServiceInv(T, s), s.timerIterator = End
    PROVE  \A u : ~Ahead(s, u)
<1>1. s.scheduledTimers \in Seq(T)
  BY DEF ServiceInv, ServiceOver
<1>2. \A i \in 1 .. Len(s.scheduledTimers) : s.scheduledTimers[i] \in T
  BY <1>1
<1> QED
  BY <1>2 DEF Ahead, NotBefore

(***************************************************************************)
(* A repeating timer triggers again after now, and at least a period after *)
(* it was to trigger last.                                                 *)
(***************************************************************************)
LEMMA Repeats ==
    ASSUME NEW s, NEW t, s.triggerTime[t] \in Int, s.triggerPeriod[t] \in Nat \ {0}, NEW n \in Int
    PROVE  /\ RepeatTriggerTime(s, t, n) \in Int
           /\ RepeatTriggerTime(s, t, n) > n
           /\ RepeatTriggerTime(s, t, n) >= s.triggerTime[t] + s.triggerPeriod[t]
<1> DEFINE g == s.triggerTime[t]
           p == s.triggerPeriod[t]
           latest == IF n >= g THEN n ELSE g
           x == latest - g
<1>1. latest \in Int /\ x \in Nat /\ latest >= n
  OBVIOUS
<1>2. RepeatTriggerTime(s, t, n) = latest - (x % p) + p
  BY DEF RepeatTriggerTime
<1>3. ASSUME NEW a \in Nat, NEW b \in Nat \ {0}
      PROVE  a % b \in Nat /\ a % b < b /\ a % b <= a
  <2>1. a % b \in 0 .. b - 1
    OBVIOUS
  <2>2. a % b <= a
    OBVIOUS
  <2> QED
    BY <2>1, <2>2
<1>4. x % p \in Nat /\ x % p < p /\ x % p <= x
  <2> HIDE DEF x, p
  <2>1. p \in Nat \ {0}
    BY DEF p
  <2> QED
    BY <1>1, <1>3, <2>1
<1> HIDE DEF x, latest
<1>5. latest = x + g
  BY DEF x, latest
<1> QED
  BY <1>1, <1>2, <1>4, <1>5
(***************************************************************************)
(* SetDuration, the second half of a repeating timer's Start.              *)
(***************************************************************************)
LEMMA SetsDuration ==
    ASSUME NEW T, End \notin T, NEW s, ServiceInv(T, s), NEW t \in T, t \notin SingleShots,
           NEW d \in Nat \ {0}, NEW n \in Int
    PROVE  LET r == SetDuration(s, t, d, n) IN
           /\ ServiceInv(T, r)
           /\ r.timerIterator = s.timerIterator /\ r.holdUpdate = s.holdUpdate
           /\ r.triggerPeriod = [s.triggerPeriod EXCEPT ![t] = d]
           /\ r.armed = [s.armed EXCEPT ![t] = TRUE]
           /\ \E x \in Int :
                 /\ r.triggerTime = [s.triggerTime EXCEPT ![t] = x]
                 /\ x > n /\ s.triggerTime[t] + d <= x
                 /\ \A e \in Nat : HalfStarted(T, s, t, e) /\ s.armed[t] /\ s.triggerTime[t] + e <= x
                                       => NextInv(T, r)
           /\ \A u : Ahead(s, u) => Ahead(r, u)
<1> DEFINE q == [s EXCEPT !.triggerPeriod[t] = d]
           pp == [s.triggerPeriod EXCEPT ![t] = d]
           x == RepeatTriggerTime(q, t, n)
           r == SetNextTriggerTime(q, t, x)
<1>1. s \in ServiceOver(T) /\ s.triggerPeriod \in [T -> Nat] /\ s.triggerTime \in [T -> Int]
  BY DEF ServiceInv, ServiceOver
<1>2. pp \in [T -> Nat] /\ pp[t] = d
  BY <1>1
<1>3. /\ q \in ServiceOver(T) /\ q.triggerPeriod = pp
      /\ q.scheduledTimers = s.scheduledTimers /\ q.timerIterator = s.timerIterator
      /\ q.holdUpdate = s.holdUpdate /\ q.updateNeeded = s.updateNeeded
      /\ q.nextTrigger = s.nextTrigger /\ q.armed = s.armed /\ q.triggerTime = s.triggerTime
  BY <1>1, <1>2 DEF ServiceOver
<1>4. SetDuration(s, t, d, n) = r
  BY DEF SetDuration, ComputeNextTriggerTime
<1> HIDE DEF q, pp
<1>5. ServiceInv(T, q)
  BY <1>3 DEF ServiceInv
<1>6. x \in Int /\ x > n /\ s.triggerTime[t] + d <= x
  <2>1. q.triggerTime[t] \in Int /\ q.triggerPeriod[t] \in Nat \ {0} /\ q.triggerPeriod[t] = d
    BY <1>1, <1>2, <1>3
  <2>2. x \in Int /\ x > n /\ x >= q.triggerTime[t] + q.triggerPeriod[t]
    BY <2>1, Repeats
  <2> HIDE DEF x
  <2> QED
    BY <1>3, <2>1, <2>2
<1> HIDE DEF x
<1>7. /\ SameBut(T, q, r)
      /\ r.armed = [q.armed EXCEPT ![t] = TRUE]
      /\ r.triggerTime = [q.triggerTime EXCEPT ![t] = x]
  BY <1>5, <1>6, Sets
<1>8. \A e \in Nat :
         HalfStarted(T, q, t, e) /\ q.armed[t] /\ q.triggerTime[t] + e <= x => NextInv(T, r)
  BY <1>5, <1>6, Sets
<1>9. \A e : HalfStarted(T, s, t, e) => HalfStarted(T, q, t, e)
  BY <1>3 DEF HalfStarted, IsEarliest, Armed
<1> HIDE DEF r
<1>10. \A u : Ahead(s, u) => Ahead(r, u)
  BY <1>3, <1>7 DEF SameBut, Ahead
<1>11. \A e \in Nat : HalfStarted(T, s, t, e) /\ s.armed[t] /\ s.triggerTime[t] + e <= x => NextInv(T, r)
  BY <1>3, <1>8, <1>9
<1>12. /\ ServiceInv(T, r) /\ r.timerIterator = s.timerIterator /\ r.holdUpdate = s.holdUpdate
       /\ r.triggerPeriod = [s.triggerPeriod EXCEPT ![t] = d]
       /\ r.armed = [s.armed EXCEPT ![t] = TRUE] /\ r.triggerTime = [s.triggerTime EXCEPT ![t] = x]
  BY <1>3, <1>7 DEF SameBut, pp
<1> QED
  BY <1>4, <1>6, <1>10, <1>11, <1>12

(***************************************************************************)
(* A timer triggers: a single shot is cancelled, a repeating timer waits   *)
(* for a time after now.                                                   *)
(***************************************************************************)
LEMMA Triggers ==
    ASSUME NEW T, End \notin T, NEW s, ServiceInv(T, s), s.timerIterator /= End, NEW n \in Int,
           s.timerIterator \notin SingleShots => s.triggerPeriod[s.timerIterator] /= 0
    PROVE  LET t == s.timerIterator
               r == ComputeNextTriggerTime(Advance(s), t, n)
           IN
           /\ t \in T /\ s.armed[t]
           /\ ServiceInv(T, r)
           /\ r.timerIterator /= t
           /\ r.holdUpdate = s.holdUpdate /\ r.triggerPeriod = s.triggerPeriod
           /\ \A u : Ahead(s, u) /\ u /= t => Ahead(r, u)
           /\ \A u \in T : u /= t => /\ r.armed[u] = s.armed[u]
                                     /\ r.triggerTime[u] = s.triggerTime[u]
           /\ t \in SingleShots => ~r.armed[t]
           /\ t \notin SingleShots => r.armed[t] /\ r.triggerTime[t] > n
           /\ NextInv(T, s) => NextInv(T, r)
<1> DEFINE t == s.timerIterator
           a == Advance(s)
           r == ComputeNextTriggerTime(a, t, n)
<1>1. t \in T /\ s.armed[t]
  BY DEF ServiceInv, ServiceOver
<1>2. /\ ServiceInv(T, a)
      /\ a.timerIterator /= t
      /\ a.holdUpdate = s.holdUpdate /\ a.armed = s.armed
      /\ a.triggerTime = s.triggerTime /\ a.triggerPeriod = s.triggerPeriod
      /\ \A u : Ahead(s, u) /\ u /= t => Ahead(a, u)
      /\ NextInv(T, s) => NextInv(T, a)
  BY Advances
<1> HIDE DEF t, a
<1>3. a.armed \in [T -> BOOLEAN] /\ a.triggerTime \in [T -> Int] /\ a.triggerPeriod \in [T -> Nat]
  BY <1>2 DEF ServiceInv, ServiceOver
<1>4. CASE t \in SingleShots
  <2>1. r = Cancel(a, t)
    BY <1>4 DEF ComputeNextTriggerTime
  <2> HIDE DEF r
  <2>2. /\ ServiceInv(T, r)
        /\ r.timerIterator /= t
        /\ r.holdUpdate = a.holdUpdate
        /\ r.triggerPeriod = a.triggerPeriod
        /\ r.armed = [a.armed EXCEPT ![t] = FALSE]
        /\ r.triggerTime = [a.triggerTime EXCEPT ![t] = 0]
        /\ \A u : Ahead(a, u) /\ u /= t => Ahead(r, u)
        /\ NextInv(T, a) => NextInv(T, r)
    BY <1>1, <1>2, <2>1, Cancels
  <2>3. ~r.armed[t] /\ \A u \in T : u /= t => /\ r.armed[u] = s.armed[u]
                                              /\ r.triggerTime[u] = s.triggerTime[u]
    BY <1>1, <1>2, <1>3, <2>2
  <2> QED
    BY <1>1, <1>2, <1>4, <2>2, <2>3 DEF r, a, t
<1>5. CASE t \notin SingleShots
  <2> DEFINE x == RepeatTriggerTime(a, t, n)
  <2>1. r = SetNextTriggerTime(a, t, x)
    BY <1>5 DEF ComputeNextTriggerTime
  <2>2. x \in Int /\ x > n /\ a.triggerTime[t] <= x
    <3>1. a.triggerTime[t] \in Int /\ a.triggerPeriod[t] \in Nat \ {0}
      BY <1>1, <1>2, <1>3, <1>5 DEF t
    <3>2. x \in Int /\ x > n /\ x >= a.triggerTime[t] + a.triggerPeriod[t]
      BY <3>1, Repeats
    <3> HIDE DEF x
    <3> QED
      BY <3>1, <3>2
  <2> HIDE DEF r, x
  <2>3. /\ SameBut(T, a, r)
        /\ r.armed = [a.armed EXCEPT ![t] = TRUE]
        /\ r.triggerTime = [a.triggerTime EXCEPT ![t] = x]
        /\ NextInv(T, a) => NextInv(T, r)
    BY <1>1, <1>2, <2>1, <2>2, Sets
  <2>4. /\ r.armed[t] /\ r.triggerTime[t] > n
        /\ \A u \in T : u /= t => /\ r.armed[u] = s.armed[u]
                                  /\ r.triggerTime[u] = s.triggerTime[u]
    BY <1>1, <1>2, <1>3, <2>2, <2>3
  <2> QED
    BY <1>1, <1>2, <1>5, <2>3, <2>4 DEF r, a, t, SameBut
<1> QED
  BY <1>4, <1>5

-----------------------------------------------------------------------------
(* TickOnInterruptTimerService *)

Starting == pc \in {"start", "setDuration"}

\* Whether the loop over the timers is under way
Looping == pc \in {"loop", "action"} \/ (Starting /\ caller = "action")

(***************************************************************************)
(* The bookkeeping: updates are held while the loop is under way, a        *)
(* repeating timer has a period unless its Start is half done, and what is *)
(* due and behind the loop was started since the loop began.               *)
(***************************************************************************)
BookInv ==
    /\ TypeOK
    /\ ServiceInv(Timers, service)
    /\ service.holdUpdate <=> Looping
    /\ Starting => /\ starting.timer \in Timers /\ starting.duration \in Durations
                   /\ firedAfter[starting.timer] = -1
    /\ pc = "setDuration" => starting.timer \in Repeaters /\ service.armed[starting.timer]
    /\ \A t \in Repeaters :
          service.armed[t] /\ ~(pc = "setDuration" /\ starting.timer = t)
              => service.triggerPeriod[t] /= 0
    /\ Looping =>
          \A t \in Timers :
              service.armed[t] /\ service.triggerTime[t] <= systemTime /\ ~Ahead(service, t)
                  => firedAfter[t] = -1
    /\ FlagMatchesEvent

(***************************************************************************)
(* Time: the ticks that were counted are in systemTime, in ticksProgressed *)
(* or on their way from one to the other, and a timer that has not         *)
(* triggered since it was started waits for a tick more than its duration. *)
(***************************************************************************)
EarlyInv ==
    /\ total * Resolution =
          systemTime + ticksProgressed * Resolution + (IF pc = "exchanged" THEN now ELSE 0)
    /\ \A t \in Timers : firedAfter[t] >= -1 /\ startedAt[t] <= total
    /\ Starting => duration[starting.timer] = starting.duration
    /\ pc = "start" => now = startedAt[starting.timer] * Resolution
    /\ pc = "setDuration" =>
          service.triggerTime[starting.timer] = startedAt[starting.timer] * Resolution + Resolution
    /\ \A t \in Timers :
          service.armed[t] /\ firedAfter[t] = -1 /\ duration[t] > 0
            /\ ~(Starting /\ starting.timer = t)
              => service.triggerTime[t] >= startedAt[t] * Resolution + duration[t] + Resolution
    /\ NeverEarly

(***************************************************************************)
(* The next trigger time is the earliest, or is to be computed.            *)
(***************************************************************************)
NextTriggerInv ==
    /\ pc = "start" /\ service.armed[starting.timer] =>
          service.triggerTime[starting.timer] <= now + starting.duration + Resolution
    /\ pc = "setDuration" => HalfStarted(Timers, service, starting.timer, starting.duration)
    /\ pc /= "setDuration" => NextInv(Timers, service)

(***************************************************************************)
(* The number of ticks until the next notification fits.                   *)
(***************************************************************************)
LEMMA NotificationFits ==
    ASSUME NEW trigger \in Int, NEW n \in Nat
    PROVE  NextNotification(trigger, n) \in 0 .. TickModulus - 1
<1>1. MaxNotification \in 0 .. TickModulus - 1
  BY TickAssumption DEF MaxNotification
<1>2. \A a \in Nat : a \div Resolution \in Nat
  BY TickAssumption
<1>3. \A a \in Nat : a % TickModulus \in 0 .. TickModulus - 1
  BY TickAssumption
<1> DEFINE wait == IF trigger > n THEN trigger - n ELSE 0
<1>4. wait + Resolution - 1 \in Nat
  BY TickAssumption
<1>5. ((wait + Resolution - 1) \div Resolution) % TickModulus \in 0 .. TickModulus - 1
  BY <1>2, <1>3, <1>4
<1> QED
  BY <1>1, <1>5 DEF NextNotification, Lesser

(***************************************************************************)
(* What the timers can become, in one place.                               *)
(***************************************************************************)
LEMMA TickNumbers ==
    ASSUME TypeOK
    PROVE  /\ Now \in Nat /\ Now >= systemTime
           /\ ticksProgressed * Resolution \in Nat /\ total * Resolution \in Nat
           /\ \A t \in Timers : startedAt[t] * Resolution \in Nat
<1>1. \A a \in Nat : a * Resolution \in Nat
  BY TickAssumption
<1>2. ticksProgressed \in Nat /\ total \in Nat /\ systemTime \in Nat /\ startedAt \in [Timers -> Nat]
  BY TickAssumption DEF TypeOK
<1> QED
  BY <1>1, <1>2 DEF Now

(***************************************************************************)
(* Initially.                                                              *)
(***************************************************************************)
LEMMA TickInitially ==
    ASSUME Init
    PROVE  BookInv /\ EarlyInv /\ NextTriggerInv
<1>1. NoTimers \in ServiceOver(Timers)
  BY NeverAssumption, EmptySeq DEF NoTimers, ServiceOver
<1>2. /\ NoTimers.scheduledTimers = << >> /\ NoTimers.timerIterator = End
      /\ NoTimers.nextTrigger = Never /\ ~NoTimers.holdUpdate /\ ~NoTimers.updateNeeded
      /\ \A t \in Timers : ~NoTimers.armed[t] /\ NoTimers.triggerTime[t] = 0
  BY DEF NoTimers
<1>3. ServiceInv(Timers, NoTimers)
  <2>1. \E b \in Int : \A t \in Timers : b <= NoTimers.triggerTime[t]
    BY <1>2
  <2> QED
    BY <1>1, <1>2, <2>1 DEF ServiceInv, Unique, Occurs
<1>4. NextInv(Timers, NoTimers)
  <2>1. Armed(Timers, NoTimers) = {}
    BY <1>2 DEF Armed
  <2> QED
    BY <1>2, <2>1, NeverAssumption DEF NextInv, IsEarliest
<1>5. TypeOK
  <2>1. NextNotification(Never, 0) \in 0 .. TickModulus - 1
    BY NeverAssumption, NotificationFits
  <2>2. service \in ServiceType
    BY <1>1 DEF ServiceType, ServiceOver, Init
  <2>3. starting \in [timer : Timers \cup {End}, duration : Nat]
    BY DEF Init, NoStart
  <2>4. /\ startedAt \in [Timers -> Nat] /\ duration \in [Timers -> Nat]
        /\ firedAfter \in [Timers -> Int]
    BY DEF Init
  <2>5. 0 \in 0 .. TickModulus - 1 /\ 0 \in 0 .. MaxTicks /\ 0 \in 0 .. MaxStarts
    BY TickAssumption
  <2> QED
    BY <2>1, <2>2, <2>3, <2>4, <2>5 DEF Init, TypeOK
<1>6. BookInv
  BY <1>2, <1>3, <1>5, TimersAssumption
     DEF BookInv, Init, Starting, Looping, FlagMatchesEvent, Processing, Timers
<1>7. EarlyInv
  BY <1>2, TickAssumption DEF EarlyInv, Init, Starting, NeverEarly
<1>8. NextTriggerInv
  BY <1>4 DEF NextTriggerInv, Init
<1> QED
  BY <1>6, <1>7, <1>8

(***************************************************************************)
(* A tick.                                                                 *)
(***************************************************************************)
LEMMA TickStep ==
    ASSUME BookInv, EarlyInv, SystemTickInterrupt
    PROVE  BookInv' /\ EarlyInv' /\ (NextTriggerInv => NextTriggerInv')
<1> USE DEF SystemTickInterrupt, localVars, historyVars
<1>1. TypeOK
  BY DEF BookInv
<1>2. ticksProgressed' = ticksProgressed + 1 /\ ticksProgressed' \in 0 .. TickModulus - 1
  BY <1>1, TickAssumption DEF CanTick, TypeOK
<1>3. TypeOK'
  <2>1. events' \in Nat /\ notificationScheduled' \in BOOLEAN
    <3>1. \/ notificationScheduled' = TRUE /\ events' = events + 1
          \/ notificationScheduled' = notificationScheduled /\ events' = events
      OBVIOUS
    <3>2. events \in Nat /\ notificationScheduled \in BOOLEAN
      BY <1>1 DEF TypeOK
    <3> HIDE DEF SystemTickInterrupt
    <3>3. events' \in Nat
      BY <3>1, <3>2
    <3>4. notificationScheduled' \in BOOLEAN
      BY <3>1, <3>2, Zenon
    <3> QED
      BY <3>3, <3>4
  <2>2. total' \in 0 .. MaxTicks
    BY <1>1, TickAssumption DEF TypeOK, CanTick
  <2> QED
    BY <1>1, <1>2, <2>1, <2>2 DEF TypeOK
<1>4. FlagMatchesEvent'
  BY <1>1 DEF BookInv, FlagMatchesEvent, Processing, TypeOK
<1>5. BookInv'
  BY <1>3, <1>4 DEF BookInv, Starting, Looping
<1>6. EarlyInv'
  <2>1. total' * Resolution = total * Resolution + Resolution
    BY <1>1, TickAssumption DEF TypeOK
  <2>2. ticksProgressed' * Resolution = ticksProgressed * Resolution + Resolution
    BY <1>1, <1>2, TickAssumption DEF TypeOK
  <2>3. total' * Resolution = systemTime' + ticksProgressed' * Resolution
                              + (IF pc' = "exchanged" THEN now' ELSE 0)
    <3>1. total * Resolution \in Int /\ ticksProgressed * Resolution \in Int
      BY <1>1, TickNumbers
    <3> QED
      BY <1>1, <2>1, <2>2, <3>1, TickAssumption DEF EarlyInv, TypeOK
  <2>4. \A t \in Timers : startedAt'[t] <= total'
    BY <1>1, TickAssumption DEF EarlyInv, TypeOK
  <2> QED
    BY <2>3, <2>4 DEF EarlyInv, Starting, NeverEarly
<1>7. NextTriggerInv => NextTriggerInv'
  BY DEF NextTriggerInv
<1> QED
  BY <1>5, <1>6, <1>7
(***************************************************************************)
(* A change of the timers, and of the notification with them.              *)
(***************************************************************************)
LEMMA Becomes ==
    ASSUME TypeOK, NEW s, ServiceInv(Timers, s), ServiceBecomes(s)
    PROVE  /\ service' = s /\ service' \in ServiceType
           /\ ticksNextNotification' \in 0 .. TickModulus - 1
<1>1. s \in ServiceOver(Timers) /\ s.nextTrigger \in Int
  BY DEF ServiceInv, ServiceOver
<1>2. systemTime \in Nat /\ ticksNextNotification \in 0 .. TickModulus - 1
  BY DEF TypeOK
<1>3. NextNotification(s.nextTrigger, systemTime) \in 0 .. TickModulus - 1
  BY <1>1, <1>2, NotificationFits
<1> QED
  BY <1>1, <1>2, <1>3 DEF ServiceBecomes, ServiceType, ServiceOver

(***************************************************************************)
(* Start(duration) reads the time.                                         *)
(***************************************************************************)
LEMMA CallStartStep ==
    ASSUME BookInv, EarlyInv, NEW t \in Timers, NEW d \in Durations, CallStart(t, d)
    PROVE  BookInv' /\ EarlyInv' /\ (NextTriggerInv /\ ~RestartEarlier => NextTriggerInv')
<1> USE DEF CallStart, tickVars
<1>1. TypeOK
  BY DEF BookInv
<1>2. Now \in Nat /\ d \in Nat /\ d > 0 /\ total \in Nat
  BY <1>1, TickNumbers, TickAssumption DEF TypeOK
<1>3. /\ startedAt' = [startedAt EXCEPT ![t] = total] /\ duration' = [duration EXCEPT ![t] = d]
      /\ firedAfter' = [firedAfter EXCEPT ![t] = -1]
      /\ startedAt \in [Timers -> Nat] /\ duration \in [Timers -> Nat]
      /\ firedAfter \in [Timers -> Int]
  BY <1>1 DEF TypeOK
<1>4. TypeOK'
  <2>1. starting' \in [timer : Timers \cup {End}, duration : Nat]
    BY <1>2
  <2>2. starts' \in 0 .. MaxStarts
    BY <1>1, TickAssumption DEF TypeOK
  <2>3. /\ startedAt' \in [Timers -> Nat] /\ duration' \in [Timers -> Nat]
        /\ firedAfter' \in [Timers -> Int]
    BY <1>2, <1>3
  <2> QED
    BY <1>1, <1>2, <2>1, <2>2, <2>3 DEF TypeOK
<1>5. /\ starting'.timer = t /\ starting'.duration = d /\ service' = service /\ pc' = "start"
      /\ systemTime' = systemTime
  OBVIOUS
<1>6. Looping' <=> Looping
  BY DEF Looping, Starting
<1>7. /\ firedAfter'[t] = -1 /\ duration'[t] = d /\ startedAt'[t] = total
      /\ \A u \in Timers : u /= t => /\ firedAfter'[u] = firedAfter[u]
                                     /\ duration'[u] = duration[u] /\ startedAt'[u] = startedAt[u]
  BY <1>3
<1>8. BookInv'
  <2>1. FlagMatchesEvent'
    BY DEF BookInv, FlagMatchesEvent, Processing
  <2>2. Looping' =>
          \A u \in Timers :
              service'.armed[u] /\ service'.triggerTime[u] <= systemTime' /\ ~Ahead(service', u)
                  => firedAfter'[u] = -1
    BY <1>5, <1>6, <1>7 DEF BookInv
  <2>3. Starting' => /\ starting'.timer \in Timers /\ starting'.duration \in Durations
                     /\ firedAfter'[starting'.timer] = -1
    BY <1>5, <1>7
  <2>4. \A u \in Repeaters : service'.armed[u] => service'.triggerPeriod[u] /= 0
    BY <1>5 DEF BookInv
  <2>5. ServiceInv(Timers, service') /\ (service'.holdUpdate <=> Looping')
    BY <1>5, <1>6 DEF BookInv
  <2> QED
    BY <1>4, <1>5, <2>1, <2>2, <2>3, <2>4, <2>5 DEF BookInv
<1>9. EarlyInv'
  <2>1. total * Resolution = Now
    BY <1>1, TickNumbers DEF EarlyInv, Now, TypeOK
  <2>2. \A u \in Timers : firedAfter'[u] >= -1 /\ startedAt'[u] <= total'
    BY <1>2, <1>7 DEF EarlyInv
  <2>3. \A u \in Timers :
          service'.armed[u] /\ firedAfter'[u] = -1 /\ duration'[u] > 0
            /\ ~(Starting' /\ starting'.timer = u)
              => service'.triggerTime[u] >= startedAt'[u] * Resolution + duration'[u] + Resolution
    BY <1>5, <1>7 DEF EarlyInv, Starting
  <2>4. NeverEarly'
    BY <1>7 DEF EarlyInv, NeverEarly
  <2>5. total' * Resolution = systemTime' + ticksProgressed' * Resolution
                              + (IF pc' = "exchanged" THEN now' ELSE 0)
    BY <1>5 DEF EarlyInv
  <2> QED
    BY <1>5, <1>7, <2>1, <2>2, <2>3, <2>4, <2>5 DEF EarlyInv
<1>10. NextTriggerInv /\ ~RestartEarlier => NextTriggerInv'
  BY <1>5 DEF NextTriggerInv
<1> QED
  BY <1>8, <1>9, <1>10

(***************************************************************************)
(* Start(duration) sets the trigger time.                                  *)
(***************************************************************************)
LEMMA FinishStartStep ==
    ASSUME BookInv, EarlyInv, FinishStart
    PROVE  BookInv' /\ EarlyInv' /\ (NextTriggerInv => NextTriggerInv')
<1> USE DEF historyVars
<1>1. TypeOK /\ pc = "start"
  BY DEF BookInv, FinishStart
<1> DEFINE t == starting.timer
           d == starting.duration
           x == FirstTriggerTime(t, d, now, Resolution)
           r == SetNextTriggerTime(service, t, x)
<1>2. t \in Timers /\ d \in Durations /\ d \in Nat /\ d > 0 /\ now \in Nat /\ firedAfter[t] = -1
  BY <1>1, TickAssumption DEF BookInv, Starting, TypeOK
<1>3. /\ x \in Int
      /\ t \in SingleShots => x = now + d + Resolution
      /\ t \notin SingleShots => x = now + Resolution
  BY <1>2, TickAssumption DEF FirstTriggerTime
<1>4. End \notin Timers /\ ServiceInv(Timers, service)
  BY TimersAssumption DEF BookInv
<1>5. service.armed \in [Timers -> BOOLEAN] /\ service.triggerTime \in [Timers -> Int]
  BY <1>4 DEF ServiceInv, ServiceOver
<1>6. ServiceBecomes(r)
  BY DEF FinishStart
<1>7. /\ t \in Repeaters => pc' = "setDuration" /\ caller' = caller /\ starting' = starting
      /\ t \notin Repeaters => pc' = caller /\ caller' = "idle" /\ starting' = NoStart
      /\ now' = 0 /\ systemTime' = systemTime /\ total' = total /\ events' = events
      /\ ticksProgressed' = ticksProgressed /\ notificationScheduled' = notificationScheduled
      /\ reschedule' = reschedule /\ starts' = starts /\ startedAt' = startedAt
      /\ duration' = duration /\ firedAfter' = firedAfter
  BY DEF FinishStart
<1> HIDE DEF x
<1>8. /\ SameBut(Timers, service, r)
      /\ r.armed = [service.armed EXCEPT ![t] = TRUE]
      /\ r.triggerTime = [service.triggerTime EXCEPT ![t] = x]
      /\ NextInv(Timers, service)
           /\ (service.armed[t] => service.triggerTime[t] = service.nextTrigger
                                   \/ service.triggerTime[t] <= x) => NextInv(Timers, r)
      /\ NextInv(Timers, service)
           /\ (service.armed[t] => service.triggerTime[t] = service.nextTrigger
                                   \/ service.triggerTime[t] <= x + d) => HalfStarted(Timers, r, t, d)
  <2> HIDE DEF t, d
  <2>1. d \in Int
    BY <1>2
  <2>2. /\ SameBut(Timers, service, r)
        /\ r.armed = [service.armed EXCEPT ![t] = TRUE]
        /\ r.triggerTime = [service.triggerTime EXCEPT ![t] = x]
        /\ NextInv(Timers, service)
             /\ (service.armed[t] => service.triggerTime[t] = service.nextTrigger
                                     \/ service.triggerTime[t] <= x) => NextInv(Timers, r)
    BY <1>2, <1>3, <1>4, Sets
  <2>3. \A e \in Int :
          NextInv(Timers, service)
            /\ (service.armed[t] => service.triggerTime[t] = service.nextTrigger
                                    \/ service.triggerTime[t] <= x + e) => HalfStarted(Timers, r, t, e)
    BY <1>2, <1>3, <1>4, Sets
  <2> QED
    BY <2>1, <2>2, <2>3
<1> HIDE DEF r
<1>9. /\ service' = r /\ service' \in ServiceType
      /\ ticksNextNotification' \in 0 .. TickModulus - 1
  BY <1>1, <1>6, <1>8, Becomes DEF SameBut
<1>10. /\ r.armed[t] /\ r.triggerTime[t] = x
       /\ \A u \in Timers : u /= t => /\ r.armed[u] = service.armed[u]
                                      /\ r.triggerTime[u] = service.triggerTime[u]
  BY <1>2, <1>5, <1>8
<1>11. caller \in {"idle", "action"}
  BY <1>1 DEF TypeOK
<1>12. TypeOK'
  <2>1. starting' \in [timer : Timers \cup {End}, duration : Nat]
    BY <1>1, <1>7 DEF TypeOK, NoStart
  <2>2. /\ pc' \in {"idle", "action", "setDuration"} /\ caller' \in {"idle", "action"}
    BY <1>7, <1>11
  <2> QED
    BY <1>1, <1>7, <1>9, <2>1, <2>2 DEF TypeOK
<1>13. Looping' <=> Looping
  BY <1>1, <1>7, <1>11 DEF Looping, Starting
<1>14. BookInv'
  <2>1. FlagMatchesEvent'
    BY <1>1, <1>7, <1>11 DEF BookInv, FlagMatchesEvent, Processing
  <2>2. Looping' =>
          \A u \in Timers :
              service'.armed[u] /\ service'.triggerTime[u] <= systemTime' /\ ~Ahead(service', u)
                  => firedAfter'[u] = -1
    BY <1>2, <1>7, <1>8, <1>9, <1>10, <1>13 DEF BookInv, SameBut
  <2>3. Starting' => /\ starting'.timer \in Timers /\ starting'.duration \in Durations
                     /\ firedAfter'[starting'.timer] = -1
    BY <1>2, <1>7, <1>11 DEF Starting
  <2>4. pc' = "setDuration" => starting'.timer \in Repeaters /\ service'.armed[starting'.timer]
    BY <1>7, <1>9, <1>10, <1>11
  <2>5. ASSUME NEW u \in Repeaters, service'.armed[u],
               ~(pc' = "setDuration" /\ starting'.timer = u)
        PROVE  service'.triggerPeriod[u] /= 0
    <3>1. u /= t
      BY <1>7, <2>5
    <3>2. service.armed[u]
      BY <1>9, <1>10, <2>5, <3>1 DEF Timers
    <3> QED
      BY <1>1, <1>8, <1>9, <3>2 DEF BookInv, SameBut
  <2>6. ServiceInv(Timers, service') /\ (service'.holdUpdate <=> Looping')
    BY <1>8, <1>9, <1>13 DEF BookInv, SameBut
  <2> QED
    BY <1>12, <2>1, <2>2, <2>3, <2>4, <2>5, <2>6 DEF BookInv
<1>15. EarlyInv'
  <2>1. now = startedAt[t] * Resolution /\ duration[t] = d
    BY <1>1 DEF EarlyInv, Starting
  <2>2. total' * Resolution = systemTime' + ticksProgressed' * Resolution
                              + (IF pc' = "exchanged" THEN now' ELSE 0)
    BY <1>1, <1>7, <1>11 DEF EarlyInv
  <2>3. Starting' => duration'[starting'.timer] = starting'.duration
    BY <1>7, <1>11, <2>1 DEF Starting
  <2>4. pc' = "setDuration" => service'.triggerTime[starting'.timer] =
                                 startedAt'[starting'.timer] * Resolution + Resolution
    <3>1. t \in Repeaters => t \notin SingleShots
      BY TimersAssumption
    <3> QED
      BY <1>3, <1>7, <1>9, <1>10, <1>11, <2>1, <3>1
  <2>5. ASSUME NEW u \in Timers, service'.armed[u], firedAfter'[u] = -1, duration'[u] > 0,
               ~(Starting' /\ starting'.timer = u)
        PROVE  service'.triggerTime[u] >= startedAt'[u] * Resolution + duration'[u] + Resolution
    <3>1. CASE u = t
      <4>1. t \in SingleShots
        BY <1>2, <1>7, <2>5, <3>1 DEF Starting, Timers
      <4> QED
        BY <1>2, <1>3, <1>7, <1>9, <1>10, <2>1, <3>1, <4>1, TickAssumption
    <3>2. CASE u /= t
      BY <1>7, <1>9, <1>10, <2>5, <3>2 DEF EarlyInv
    <3> QED
      BY <3>1, <3>2
  <2>6. NeverEarly'
    BY <1>7 DEF EarlyInv, NeverEarly
  <2>7. pc' /= "start"
    BY <1>7, <1>11
  <2> QED
    BY <1>7, <2>2, <2>3, <2>4, <2>5, <2>6, <2>7 DEF EarlyInv
<1>16. NextTriggerInv => NextTriggerInv'
  <2> SUFFICES ASSUME NextTriggerInv PROVE NextTriggerInv'
    OBVIOUS
  <2>1. /\ service.armed[t] => service.triggerTime[t] <= now + d + Resolution
        /\ NextInv(Timers, service)
    BY <1>1 DEF NextTriggerInv
  <2>2. CASE t \in SingleShots
    <3>1. NextInv(Timers, service')
      BY <1>3, <1>8, <1>9, <2>1, <2>2
    <3>2. t \notin Repeaters
      BY <2>2, TimersAssumption
    <3> QED
      BY <1>7, <1>11, <3>1, <3>2 DEF NextTriggerInv
  <2>3. CASE t \notin SingleShots
    <3>1. t \in Repeaters
      BY <1>2, <2>3 DEF Timers
    <3>2. x + d = now + d + Resolution
      BY <1>2, <1>3, <2>3, TickAssumption
    <3>3. HalfStarted(Timers, service', t, d)
      BY <1>8, <1>9, <2>1, <3>2
    <3> QED
      BY <1>7, <3>1, <3>3 DEF NextTriggerInv
  <2> QED
    BY <2>2, <2>3
<1> QED
  BY <1>14, <1>15, <1>16
(***************************************************************************)
(* Start(duration) of a repeating timer sets the period.                   *)
(***************************************************************************)
LEMMA FinishSetDurationStep ==
    ASSUME BookInv, EarlyInv, FinishSetDuration
    PROVE  BookInv' /\ EarlyInv' /\ (NextTriggerInv => NextTriggerInv')
<1> USE DEF historyVars
<1>1. TypeOK /\ pc = "setDuration"
  BY DEF BookInv, FinishSetDuration
<1> DEFINE t == starting.timer
           d == starting.duration
           r == SetDuration(service, t, d, Now)
<1>2. /\ t \in Timers /\ t \in Repeaters /\ t \notin SingleShots /\ d \in Durations
      /\ d \in Nat \ {0} /\ firedAfter[t] = -1 /\ service.armed[t]
  BY <1>1, TickAssumption, TimersAssumption DEF BookInv, Starting
<1>3. End \notin Timers /\ ServiceInv(Timers, service) /\ Now \in Int
  BY <1>1, TimersAssumption, TickNumbers DEF BookInv
<1>4. /\ service.armed \in [Timers -> BOOLEAN] /\ service.triggerTime \in [Timers -> Int]
      /\ service.triggerPeriod \in [Timers -> Nat]
  BY <1>3 DEF ServiceInv, ServiceOver
<1>5. /\ ServiceBecomes(r)
      /\ pc' = caller /\ caller' = "idle" /\ starting' = NoStart
      /\ now' = now /\ systemTime' = systemTime /\ total' = total /\ events' = events
      /\ ticksProgressed' = ticksProgressed /\ notificationScheduled' = notificationScheduled
      /\ reschedule' = reschedule /\ starts' = starts /\ startedAt' = startedAt
      /\ duration' = duration /\ firedAfter' = firedAfter
  BY DEF FinishSetDuration
<1>6. /\ ServiceInv(Timers, r)
      /\ r.timerIterator = service.timerIterator /\ r.holdUpdate = service.holdUpdate
      /\ r.triggerPeriod = [service.triggerPeriod EXCEPT ![t] = d]
      /\ r.armed = [service.armed EXCEPT ![t] = TRUE]
      /\ \A u : Ahead(service, u) => Ahead(r, u)
  <2> HIDE DEF t, d
  <2> QED
    BY <1>2, <1>3, SetsDuration
<1>7. PICK x \in Int :
         /\ r.triggerTime = [service.triggerTime EXCEPT ![t] = x]
         /\ x > Now /\ service.triggerTime[t] + d <= x
         /\ HalfStarted(Timers, service, t, d) => NextInv(Timers, r)
  <2> HIDE DEF t, d, r
  <2>1. \E x \in Int :
           /\ r.triggerTime = [service.triggerTime EXCEPT ![t] = x]
           /\ x > Now /\ service.triggerTime[t] + d <= x
           /\ \A e \in Nat : HalfStarted(Timers, service, t, e) /\ service.armed[t]
                               /\ service.triggerTime[t] + e <= x => NextInv(Timers, r)
    BY <1>2, <1>3, SetsDuration DEF r
  <2> QED
    BY <1>2, <2>1
<1> HIDE DEF r
<1>8. /\ service' = r /\ service' \in ServiceType
      /\ ticksNextNotification' \in 0 .. TickModulus - 1
  BY <1>1, <1>5, <1>6, Becomes
<1>9. /\ r.armed[t] /\ r.triggerTime[t] = x /\ r.triggerPeriod[t] = d
      /\ \A u \in Timers : u /= t => /\ r.armed[u] = service.armed[u]
                                     /\ r.triggerTime[u] = service.triggerTime[u]
                                     /\ r.triggerPeriod[u] = service.triggerPeriod[u]
  BY <1>2, <1>4, <1>6, <1>7
<1>10. caller \in {"idle", "action"}
  BY <1>1 DEF TypeOK
<1>11. TypeOK'
  <2>1. starting' \in [timer : Timers \cup {End}, duration : Nat]
    BY <1>5 DEF NoStart
  <2> QED
    BY <1>1, <1>5, <1>8, <1>10, <2>1 DEF TypeOK
<1>12. Looping' <=> Looping
  BY <1>1, <1>5, <1>10 DEF Looping, Starting
<1>13. BookInv'
  <2>1. FlagMatchesEvent'
    BY <1>1, <1>5, <1>10 DEF BookInv, FlagMatchesEvent, Processing
  <2>2. Looping' =>
          \A u \in Timers :
              service'.armed[u] /\ service'.triggerTime[u] <= systemTime' /\ ~Ahead(service', u)
                  => firedAfter'[u] = -1
    BY <1>2, <1>5, <1>6, <1>8, <1>9, <1>12 DEF BookInv
  <2>3. ~Starting' /\ pc' /= "setDuration"
    BY <1>5, <1>10 DEF Starting
  <2>4. ASSUME NEW u \in Repeaters, service'.armed[u]
        PROVE  service'.triggerPeriod[u] /= 0
    <3>1. CASE u = t
      BY <1>2, <1>8, <1>9, <3>1
    <3>2. CASE u /= t
      <4>1. u \in Timers /\ service.armed[u] /\ service'.triggerPeriod[u] = service.triggerPeriod[u]
        BY <1>8, <1>9, <2>4, <3>2 DEF Timers
      <4> QED
        BY <4>1, <3>2, <2>4 DEF BookInv
    <3> QED
      BY <3>1, <3>2
  <2>5. ServiceInv(Timers, service') /\ (service'.holdUpdate <=> Looping')
    BY <1>6, <1>8, <1>12 DEF BookInv
  <2> QED
    BY <1>11, <2>1, <2>2, <2>3, <2>4, <2>5 DEF BookInv
<1>14. EarlyInv'
  <2>1. /\ duration[t] = d
        /\ service.triggerTime[t] = startedAt[t] * Resolution + Resolution
    BY <1>1 DEF EarlyInv, Starting
  <2>2. total' * Resolution = systemTime' + ticksProgressed' * Resolution
                              + (IF pc' = "exchanged" THEN now' ELSE 0)
    BY <1>1, <1>5, <1>10 DEF EarlyInv
  <2>3. ASSUME NEW u \in Timers, service'.armed[u], firedAfter'[u] = -1, duration'[u] > 0
        PROVE  service'.triggerTime[u] >= startedAt'[u] * Resolution + duration'[u] + Resolution
    <3>1. CASE u = t
      <4>1. startedAt[t] * Resolution \in Int /\ Resolution \in Int
        BY <1>1, <1>2, TickNumbers, TickAssumption
      <4>2. x >= startedAt[t] * Resolution + Resolution + d
        BY <1>2, <1>7, <2>1
      <4>3. x >= startedAt[t] * Resolution + d + Resolution
        BY <1>2, <4>1, <4>2
      <4> QED
        BY <1>5, <1>8, <1>9, <2>1, <3>1, <4>3
    <3>2. CASE u /= t
      BY <1>5, <1>8, <1>9, <2>3, <3>2 DEF EarlyInv
    <3> QED
      BY <3>1, <3>2
  <2>4. NeverEarly'
    BY <1>5 DEF EarlyInv, NeverEarly
  <2>5. pc' /= "start" /\ pc' /= "setDuration" /\ ~Starting'
    BY <1>5, <1>10 DEF Starting
  <2> QED
    BY <1>5, <2>2, <2>3, <2>4, <2>5 DEF EarlyInv
<1>15. NextTriggerInv => NextTriggerInv'
  BY <1>1, <1>5, <1>7, <1>8, <1>10 DEF NextTriggerInv
<1> QED
  BY <1>13, <1>14, <1>15

(***************************************************************************)
(* TimerSingleShot::Start(time).                                           *)
(***************************************************************************)
LEMMA StartAtStep ==
    ASSUME BookInv, EarlyInv, NEW t \in SingleShots, NEW when \in Times, StartAt(t, when)
    PROVE  BookInv' /\ EarlyInv' /\ (NextTriggerInv /\ ~RestartEarlier => NextTriggerInv')
<1> USE DEF localVars
<1> DEFINE x == when + Resolution
           r == SetNextTriggerTime(service, t, x)
           d == IF when > Now THEN when - Now ELSE 0
<1>1. TypeOK /\ pc \in {"idle", "action"}
  BY DEF BookInv, StartAt
<1>2. /\ t \in Timers /\ t \notin Repeaters /\ when \in Nat /\ x \in Int /\ Now \in Nat /\ d \in Nat
      /\ total \in Nat
  BY <1>1, TimersAssumption, TickAssumption, TickNumbers DEF Timers, TypeOK
<1>3. End \notin Timers /\ ServiceInv(Timers, service)
  BY TimersAssumption DEF BookInv
<1>4. service.armed \in [Timers -> BOOLEAN] /\ service.triggerTime \in [Timers -> Int]
  BY <1>3 DEF ServiceInv, ServiceOver
<1>5. /\ ServiceBecomes(r)
      /\ service.armed[t] => RestartEarlier \/ service.triggerTime[t] <= x
      /\ starts < MaxStarts /\ starts' = starts + 1
      /\ pc' = pc /\ caller' = caller /\ now' = now /\ starting' = starting
      /\ reschedule' = reschedule
      /\ systemTime' = systemTime /\ total' = total /\ events' = events
      /\ ticksProgressed' = ticksProgressed /\ notificationScheduled' = notificationScheduled
      /\ startedAt' = [startedAt EXCEPT ![t] = total]
      /\ duration' = [duration EXCEPT ![t] = d]
      /\ firedAfter' = [firedAfter EXCEPT ![t] = -1]
  BY DEF StartAt
<1> HIDE DEF x
<1>6. /\ SameBut(Timers, service, r)
      /\ r.armed = [service.armed EXCEPT ![t] = TRUE]
      /\ r.triggerTime = [service.triggerTime EXCEPT ![t] = x]
      /\ NextInv(Timers, service)
           /\ (service.armed[t] => service.triggerTime[t] <= x) => NextInv(Timers, r)
  BY <1>2, <1>3, Sets
<1> HIDE DEF r, d
<1>7. /\ service' = r /\ service' \in ServiceType
      /\ ticksNextNotification' \in 0 .. TickModulus - 1
  BY <1>1, <1>5, <1>6, Becomes DEF SameBut
<1>8. /\ r.armed[t] /\ r.triggerTime[t] = x
      /\ \A u \in Timers : u /= t => /\ r.armed[u] = service.armed[u]
                                     /\ r.triggerTime[u] = service.triggerTime[u]
  BY <1>2, <1>4, <1>6
<1>9. /\ startedAt \in [Timers -> Nat] /\ duration \in [Timers -> Nat]
      /\ firedAfter \in [Timers -> Int]
  BY <1>1 DEF TypeOK
<1>10. /\ firedAfter'[t] = -1 /\ duration'[t] = d /\ startedAt'[t] = total
       /\ \A u \in Timers : u /= t => /\ firedAfter'[u] = firedAfter[u]
                                      /\ duration'[u] = duration[u] /\ startedAt'[u] = startedAt[u]
  BY <1>2, <1>5, <1>9
<1>11. TypeOK'
  <2>1. /\ startedAt' \in [Timers -> Nat] /\ duration' \in [Timers -> Nat]
        /\ firedAfter' \in [Timers -> Int]
    BY <1>2, <1>5, <1>9
  <2>2. starts' \in 0 .. MaxStarts
    BY <1>1, <1>5, TickAssumption DEF TypeOK
  <2> QED
    BY <1>1, <1>5, <1>7, <2>1, <2>2 DEF TypeOK
<1>12. ~Starting' /\ ~Starting /\ (Looping' <=> Looping)
  BY <1>1, <1>5 DEF Looping, Starting
<1>13. BookInv'
  <2>1. FlagMatchesEvent'
    BY <1>5 DEF BookInv, FlagMatchesEvent, Processing
  <2>2. Looping' =>
          \A u \in Timers :
              service'.armed[u] /\ service'.triggerTime[u] <= systemTime' /\ ~Ahead(service', u)
                  => firedAfter'[u] = -1
    <3> SUFFICES ASSUME Looping', NEW u \in Timers, service'.armed[u],
                        service'.triggerTime[u] <= systemTime', ~Ahead(service', u)
                 PROVE  firedAfter'[u] = -1
      OBVIOUS
    <3>1. CASE u = t
      BY <1>10, <3>1
    <3>2. CASE u /= t
      <4>1. service.armed[u] /\ service.triggerTime[u] <= systemTime /\ firedAfter'[u] = firedAfter[u]
        BY <1>5, <1>7, <1>8, <1>10, <3>2
      <4>2. ~Ahead(service, u)
        BY <1>6, <1>7 DEF SameBut
      <4> QED
        BY <1>12, <4>1, <4>2 DEF BookInv
    <3> QED
      BY <3>1, <3>2
  <2>3. \A u \in Repeaters : service'.armed[u] => service'.triggerPeriod[u] /= 0
    <3> SUFFICES ASSUME NEW u \in Repeaters, service'.armed[u] PROVE service'.triggerPeriod[u] /= 0
      OBVIOUS
    <3>1. u \in Timers /\ u /= t
      BY <1>2 DEF Timers
    <3>2. service.armed[u] /\ service'.triggerPeriod = service.triggerPeriod
      BY <1>6, <1>7, <1>8, <3>1 DEF SameBut
    <3> QED
      BY <1>1, <3>2 DEF BookInv
  <2>4. ServiceInv(Timers, service') /\ (service'.holdUpdate <=> Looping')
    BY <1>6, <1>7, <1>12 DEF BookInv, SameBut
  <2>5. pc' /= "setDuration"
    BY <1>1, <1>5
  <2> QED
    BY <1>11, <1>12, <2>1, <2>2, <2>3, <2>4, <2>5 DEF BookInv
<1>14. EarlyInv'
  <2>1. total * Resolution = Now
    BY <1>1, TickNumbers DEF EarlyInv, Now, TypeOK
  <2>2. \A u \in Timers : firedAfter'[u] >= -1 /\ startedAt'[u] <= total'
    BY <1>2, <1>5, <1>10 DEF EarlyInv
  <2>3. ASSUME NEW u \in Timers, service'.armed[u], firedAfter'[u] = -1, duration'[u] > 0
        PROVE  service'.triggerTime[u] >= startedAt'[u] * Resolution + duration'[u] + Resolution
    <3>1. CASE u = t
      <4>1. x = Now + d + Resolution
        BY <1>2, <1>10, <2>3, <3>1, TickAssumption DEF d, x
      <4> QED
        BY <1>2, <1>7, <1>8, <1>10, <2>1, <3>1, <4>1
    <3>2. CASE u /= t
      BY <1>7, <1>8, <1>10, <1>12, <2>3, <3>2 DEF EarlyInv
    <3> QED
      BY <3>1, <3>2
  <2>4. NeverEarly'
    BY <1>10 DEF EarlyInv, NeverEarly
  <2>5. total' * Resolution = systemTime' + ticksProgressed' * Resolution
                              + (IF pc' = "exchanged" THEN now' ELSE 0)
    BY <1>5 DEF EarlyInv
  <2>6. pc' /= "start" /\ pc' /= "setDuration"
    BY <1>1, <1>5
  <2> QED
    BY <1>12, <2>2, <2>3, <2>4, <2>5, <2>6 DEF EarlyInv
<1>15. NextTriggerInv /\ ~RestartEarlier => NextTriggerInv'
  BY <1>1, <1>5, <1>6, <1>7 DEF NextTriggerInv
<1> QED
  BY <1>13, <1>14, <1>15

(***************************************************************************)
(* Cancel.                                                                 *)
(***************************************************************************)
LEMMA CancelTimerStep ==
    ASSUME BookInv, EarlyInv, NEW t \in Timers, CancelTimer(t)
    PROVE  BookInv' /\ EarlyInv' /\ (NextTriggerInv => NextTriggerInv')
<1> USE DEF localVars, historyVars
<1> DEFINE r == Cancel(service, t)
<1>1. TypeOK /\ pc \in {"idle", "action"}
  BY DEF BookInv, CancelTimer
<1>2. End \notin Timers /\ ServiceInv(Timers, service)
  BY TimersAssumption DEF BookInv
<1>3. service.armed \in [Timers -> BOOLEAN] /\ service.triggerTime \in [Timers -> Int]
  BY <1>2 DEF ServiceInv, ServiceOver
<1>4. /\ ServiceBecomes(r)
      /\ pc' = pc /\ caller' = caller /\ now' = now /\ starting' = starting
      /\ reschedule' = reschedule
      /\ systemTime' = systemTime /\ total' = total /\ events' = events
      /\ ticksProgressed' = ticksProgressed /\ notificationScheduled' = notificationScheduled
      /\ starts' = starts /\ startedAt' = startedAt /\ duration' = duration
      /\ firedAfter' = firedAfter
  BY DEF CancelTimer
<1>5. /\ ServiceInv(Timers, r)
      /\ r.holdUpdate = service.holdUpdate
      /\ r.triggerPeriod = service.triggerPeriod
      /\ r.armed = [service.armed EXCEPT ![t] = FALSE]
      /\ r.triggerTime = [service.triggerTime EXCEPT ![t] = 0]
      /\ \A u : Ahead(service, u) /\ u /= t => Ahead(r, u)
      /\ NextInv(Timers, service) => NextInv(Timers, r)
  BY <1>2, Cancels
<1> HIDE DEF r
<1>6. /\ service' = r /\ service' \in ServiceType
      /\ ticksNextNotification' \in 0 .. TickModulus - 1
  BY <1>1, <1>4, <1>5, Becomes
<1>7. \A u \in Timers : r.armed[u] => /\ u /= t /\ service.armed[u]
                                      /\ r.triggerTime[u] = service.triggerTime[u]
  BY <1>3, <1>5
<1>8. TypeOK'
  BY <1>1, <1>4, <1>6 DEF TypeOK
<1>9. ~Starting' /\ ~Starting /\ (Looping' <=> Looping) /\ pc' \notin {"setDuration", "start"}
  BY <1>1, <1>4 DEF Looping, Starting
<1>10. BookInv'
  <2>1. FlagMatchesEvent'
    BY <1>4 DEF BookInv, FlagMatchesEvent, Processing
  <2>2. Looping' =>
          \A u \in Timers :
              service'.armed[u] /\ service'.triggerTime[u] <= systemTime' /\ ~Ahead(service', u)
                  => firedAfter'[u] = -1
    BY <1>4, <1>5, <1>6, <1>7, <1>9 DEF BookInv
  <2>3. \A u \in Repeaters : service'.armed[u] => service'.triggerPeriod[u] /= 0
    BY <1>1, <1>5, <1>6, <1>7 DEF BookInv, Timers
  <2>4. ServiceInv(Timers, service') /\ (service'.holdUpdate <=> Looping')
    BY <1>5, <1>6, <1>9 DEF BookInv
  <2> QED
    BY <1>8, <1>9, <2>1, <2>2, <2>3, <2>4 DEF BookInv
<1>11. EarlyInv'
  <2>1. \A u \in Timers :
          service'.armed[u] /\ firedAfter'[u] = -1 /\ duration'[u] > 0
              => service'.triggerTime[u] >= startedAt'[u] * Resolution + duration'[u] + Resolution
    BY <1>4, <1>6, <1>7, <1>9 DEF EarlyInv
  <2> QED
    BY <1>4, <1>9, <2>1 DEF EarlyInv, NeverEarly
<1>12. NextTriggerInv => NextTriggerInv'
  BY <1>1, <1>5, <1>6, <1>9 DEF NextTriggerInv
<1> QED
  BY <1>10, <1>11, <1>12
(***************************************************************************)
(* ProcessTicks, up to the loop.                                           *)
(***************************************************************************)
LEMMA ExchangeTicksStep ==
    ASSUME BookInv, EarlyInv, ExchangeTicks
    PROVE  BookInv' /\ EarlyInv' /\ (NextTriggerInv => NextTriggerInv')
<1> USE DEF ExchangeTicks, historyVars
<1>1. TypeOK /\ ticksProgressed * Resolution \in Nat
  BY TickNumbers DEF BookInv
<1>2. TypeOK'
  <2>1. events' \in Nat /\ 0 \in 0 .. TickModulus - 1
    BY <1>1, TickAssumption DEF TypeOK
  <2> QED
    BY <1>1, <2>1 DEF TypeOK
<1>3. FlagMatchesEvent'
  BY <1>1 DEF BookInv, FlagMatchesEvent, Processing, TypeOK
<1>4. BookInv'
  BY <1>2, <1>3 DEF BookInv, Starting, Looping
<1>5. total' * Resolution = systemTime' + ticksProgressed' * Resolution
                            + (IF pc' = "exchanged" THEN now' ELSE 0)
  BY <1>1, TickAssumption DEF EarlyInv, TypeOK
<1>6. EarlyInv'
  BY <1>5 DEF EarlyInv, Starting, NeverEarly
<1>7. NextTriggerInv => NextTriggerInv'
  BY DEF NextTriggerInv
<1> QED
  BY <1>4, <1>6, <1>7

(***************************************************************************)
(* The loop begins.                                                        *)
(***************************************************************************)
LEMMA TimeProgressedStep ==
    ASSUME BookInv, EarlyInv, TimeProgressed
    PROVE  BookInv' /\ EarlyInv' /\ (NextTriggerInv => NextTriggerInv')
<1> USE DEF TimeProgressed, historyVars, tickVars
<1>1. TypeOK /\ ticksProgressed * Resolution \in Nat
  BY TickNumbers DEF BookInv
<1>2. End \notin Timers /\ ServiceInv(Timers, service)
  BY TimersAssumption DEF BookInv
<1>3. /\ ServiceInv(Timers, service')
      /\ service'.holdUpdate
      /\ service'.armed = service.armed
      /\ service'.triggerTime = service.triggerTime
      /\ service'.triggerPeriod = service.triggerPeriod
      /\ \A u \in Timers : service.armed[u] => Ahead(service', u)
      /\ NextInv(Timers, service) => NextInv(Timers, service')
  BY <1>2, Begins
<1> HIDE DEF TimeProgressed
<1>4. /\ pc = "exchanged" /\ pc' = "loop" /\ systemTime' = systemTime + now /\ now' = 0
      /\ ticksProgressed' = ticksProgressed /\ ticksNextNotification' = ticksNextNotification
      /\ notificationScheduled' = notificationScheduled /\ events' = events /\ total' = total
      /\ caller' = caller /\ starting' = starting /\ reschedule' = reschedule
      /\ starts' = starts /\ startedAt' = startedAt /\ duration' = duration
      /\ firedAfter' = firedAfter
  BY DEF TimeProgressed
<1>5. TypeOK'
  <2>1. service' \in ServiceType
    BY <1>3 DEF ServiceInv, ServiceType, ServiceOver
  <2> QED
    BY <1>1, <1>4, <2>1 DEF TypeOK
<1>6. BookInv'
  <2>1. FlagMatchesEvent'
    BY <1>4 DEF BookInv, FlagMatchesEvent, Processing
  <2>2. Looping' /\ ~Starting' /\ pc' /= "setDuration"
    BY <1>4 DEF Looping, Starting
  <2>3. \A u \in Repeaters : service'.armed[u] => service'.triggerPeriod[u] /= 0
    BY <1>3, <1>4 DEF BookInv
  <2>4. \A u \in Timers : service'.armed[u] => Ahead(service', u)
    BY <1>3
  <2> QED
    BY <1>3, <1>5, <2>1, <2>2, <2>3, <2>4 DEF BookInv
<1>7. EarlyInv'
  <2>1. total' * Resolution = systemTime' + ticksProgressed' * Resolution
                              + (IF pc' = "exchanged" THEN now' ELSE 0)
    BY <1>1, <1>4 DEF EarlyInv, TypeOK
  <2>2. ~Starting' /\ ~Starting /\ pc' \notin {"start", "setDuration"}
    BY <1>4 DEF Starting
  <2> QED
    BY <1>3, <1>4, <2>1, <2>2 DEF EarlyInv, NeverEarly
<1>8. NextTriggerInv => NextTriggerInv'
  BY <1>3, <1>4 DEF NextTriggerInv
<1> QED
  BY <1>6, <1>7, <1>8

(***************************************************************************)
(* A timer that is not due is passed by.                                   *)
(***************************************************************************)
LEMMA SkipTimerStep ==
    ASSUME BookInv, EarlyInv, SkipTimer
    PROVE  BookInv' /\ EarlyInv' /\ (NextTriggerInv => NextTriggerInv')
<1> USE DEF historyVars, tickVars, localVars
<1> DEFINE t == service.timerIterator
<1>1. TypeOK
  BY DEF BookInv
<1>2. /\ End \notin Timers /\ ServiceInv(Timers, service) /\ t /= End /\ pc = "loop"
      /\ ~(service.triggerTime[t] <= systemTime)
  BY TimersAssumption DEF BookInv, SkipTimer, Due
<1>3. service' = Advance(service)
  BY DEF SkipTimer
<1>4. /\ ServiceInv(Timers, service')
      /\ service'.holdUpdate = service.holdUpdate
      /\ service'.armed = service.armed
      /\ service'.triggerTime = service.triggerTime
      /\ service'.triggerPeriod = service.triggerPeriod
      /\ \A u : Ahead(service, u) /\ u /= t => Ahead(service', u)
      /\ NextInv(Timers, service) => NextInv(Timers, service')
  BY <1>2, <1>3, Advances
<1>5. /\ pc' = pc /\ caller' = caller /\ now' = now /\ starting' = starting
      /\ ticksNextNotification' = ticksNextNotification
      /\ reschedule' = reschedule
      /\ systemTime' = systemTime /\ total' = total /\ events' = events
      /\ ticksProgressed' = ticksProgressed /\ notificationScheduled' = notificationScheduled
      /\ starts' = starts /\ startedAt' = startedAt /\ duration' = duration
      /\ firedAfter' = firedAfter
  BY DEF SkipTimer
<1>6. TypeOK'
  <2>1. service' \in ServiceType
    BY <1>4 DEF ServiceInv, ServiceType, ServiceOver
  <2> QED
    BY <1>1, <1>5, <2>1 DEF TypeOK
<1>7. Looping' /\ Looping /\ ~Starting' /\ ~Starting /\ pc' \notin {"setDuration", "start"}
  BY <1>2, <1>5 DEF Looping, Starting
<1>8. BookInv'
  <2>1. FlagMatchesEvent'
    BY <1>5 DEF BookInv, FlagMatchesEvent, Processing
  <2>2. \A u \in Timers :
           service'.armed[u] /\ service'.triggerTime[u] <= systemTime' /\ ~Ahead(service', u)
               => firedAfter'[u] = -1
    BY <1>2, <1>4, <1>5, <1>7 DEF BookInv
  <2>3. \A u \in Repeaters : service'.armed[u] => service'.triggerPeriod[u] /= 0
    BY <1>2, <1>4 DEF BookInv
  <2>4. service'.holdUpdate
    BY <1>4, <1>7 DEF BookInv
  <2> QED
    BY <1>4, <1>6, <1>7, <2>1, <2>2, <2>3, <2>4 DEF BookInv
<1>9. EarlyInv'
  BY <1>4, <1>5, <1>7 DEF EarlyInv, NeverEarly
<1>10. NextTriggerInv => NextTriggerInv'
  BY <1>2, <1>4, <1>7 DEF NextTriggerInv
<1> QED
  BY <1>8, <1>9, <1>10

(***************************************************************************)
(* A timer that is due triggers, for the first time since its start when   *)
(* enough ticks have passed.                                               *)
(***************************************************************************)
LEMMA TriggerTimerStep ==
    ASSUME BookInv, EarlyInv, TriggerTimer
    PROVE  BookInv' /\ EarlyInv' /\ (NextTriggerInv => NextTriggerInv')
<1> DEFINE t == service.timerIterator
           r == ComputeNextTriggerTime(Advance(service), t, Now)
<1>1. TypeOK /\ Now \in Int /\ Now >= systemTime
  BY TickNumbers DEF BookInv
<1>2. /\ End \notin Timers /\ ServiceInv(Timers, service) /\ t /= End /\ pc = "loop"
      /\ service.triggerTime[t] <= systemTime
  BY TimersAssumption DEF BookInv, TriggerTimer, Due
<1>3. t \in Timers /\ service.armed[t]
  BY <1>2 DEF ServiceInv, ServiceOver
<1>4. t \notin SingleShots => service.triggerPeriod[t] /= 0
  BY <1>2, <1>3 DEF BookInv, Timers
<1>5. /\ ServiceInv(Timers, r)
      /\ r.holdUpdate = service.holdUpdate /\ r.triggerPeriod = service.triggerPeriod
      /\ \A u : Ahead(service, u) /\ u /= t => Ahead(r, u)
      /\ \A u \in Timers : u /= t => /\ r.armed[u] = service.armed[u]
                                     /\ r.triggerTime[u] = service.triggerTime[u]
      /\ t \in SingleShots => ~r.armed[t]
      /\ t \notin SingleShots => r.armed[t] /\ r.triggerTime[t] > Now
      /\ NextInv(Timers, service) => NextInv(Timers, r)
  BY <1>1, <1>2, <1>4, Triggers
<1>6. /\ ServiceBecomes(r)
      /\ firedAfter' = [firedAfter EXCEPT ![t] = IF @ = -1 THEN total - startedAt[t] ELSE @]
      /\ pc' = "action" /\ caller' = caller /\ now' = now /\ starting' = starting
      /\ reschedule' = reschedule
      /\ systemTime' = systemTime /\ total' = total /\ events' = events
      /\ ticksProgressed' = ticksProgressed /\ notificationScheduled' = notificationScheduled
      /\ starts' = starts /\ startedAt' = startedAt /\ duration' = duration
  BY DEF TriggerTimer
<1> HIDE DEF r
<1>7. /\ service' = r /\ service' \in ServiceType
      /\ ticksNextNotification' \in 0 .. TickModulus - 1
  BY <1>1, <1>5, <1>6, Becomes
<1>8. /\ startedAt \in [Timers -> Nat] /\ duration \in [Timers -> Nat]
      /\ firedAfter \in [Timers -> Int] /\ total \in Nat
  BY <1>1, TickAssumption DEF TypeOK
<1>9. /\ firedAfter' \in [Timers -> Int]
      /\ firedAfter'[t] = IF firedAfter[t] = -1 THEN total - startedAt[t] ELSE firedAfter[t]
      /\ \A u \in Timers : u /= t => firedAfter'[u] = firedAfter[u]
  BY <1>3, <1>6, <1>8
<1>10. firedAfter'[t] >= 0
  BY <1>3, <1>8, <1>9 DEF EarlyInv
<1>11. TypeOK'
  BY <1>1, <1>6, <1>7, <1>9 DEF TypeOK
<1>12. Looping' /\ Looping /\ ~Starting' /\ ~Starting /\ pc' \notin {"setDuration", "start"}
  BY <1>2, <1>6 DEF Looping, Starting
<1>13. BookInv'
  <2>1. FlagMatchesEvent'
    BY <1>2, <1>6 DEF BookInv, FlagMatchesEvent, Processing
  <2>2. ASSUME NEW u \in Timers, service'.armed[u], service'.triggerTime[u] <= systemTime',
               ~Ahead(service', u)
        PROVE  firedAfter'[u] = -1
    <3>1. u /= t
      <4>1. t \in SingleShots \/ ~(r.triggerTime[t] <= systemTime)
        <5>1. t \notin SingleShots => r.triggerTime[t] \in Int
          BY <1>3, <1>5 DEF ServiceInv, ServiceOver
        <5> QED
          BY <1>1, <1>5, <5>1 DEF TypeOK
      <4> QED
        BY <1>5, <1>6, <1>7, <2>2, <4>1
    <3> QED
      BY <1>5, <1>6, <1>7, <1>9, <1>12, <2>2, <3>1 DEF BookInv
  <2>3. \A u \in Repeaters : service'.armed[u] => service'.triggerPeriod[u] /= 0
    BY <1>2, <1>3, <1>4, <1>5, <1>7, TimersAssumption DEF BookInv, Timers
  <2>4. service'.holdUpdate
    BY <1>5, <1>7, <1>12 DEF BookInv
  <2> QED
    BY <1>5, <1>7, <1>11, <1>12, <2>1, <2>2, <2>3, <2>4 DEF BookInv
<1>14. EarlyInv'
  <2>1. \A u \in Timers : firedAfter'[u] >= -1 /\ startedAt'[u] <= total'
    BY <1>6, <1>9, <1>10 DEF EarlyInv
  <2>2. ASSUME NEW u \in Timers, service'.armed[u], firedAfter'[u] = -1, duration'[u] > 0
        PROVE  service'.triggerTime[u] >= startedAt'[u] * Resolution + duration'[u] + Resolution
    <3>1. u /= t
      BY <1>10, <2>2
    <3> QED
      BY <1>5, <1>6, <1>7, <1>9, <1>12, <2>2, <3>1 DEF EarlyInv
  <2>3. ASSUME firedAfter[t] = -1, duration[t] > 0
        PROVE  (total - startedAt[t] - 1) * Resolution >= duration[t]
    <3>1. service.triggerTime[t] >= startedAt[t] * Resolution + duration[t] + Resolution
      BY <1>3, <1>12, <2>3 DEF EarlyInv
    <3>2. systemTime <= total * Resolution
      BY <1>1, <1>2, TickNumbers DEF EarlyInv, TypeOK
    <3>3. /\ startedAt[t] * Resolution \in Int /\ total * Resolution \in Int
          /\ systemTime \in Int /\ service.triggerTime[t] \in Int /\ Resolution \in Int
      BY <1>1, <1>2, <1>3, TickNumbers, TickAssumption DEF TypeOK, ServiceInv, ServiceOver
    <3>4. total * Resolution >= startedAt[t] * Resolution + duration[t] + Resolution
      BY <1>2, <1>3, <1>8, <3>1, <3>2, <3>3
    <3>5. (total - startedAt[t] - 1) * Resolution =
            total * Resolution - startedAt[t] * Resolution - Resolution
      BY <1>3, <1>8, TickAssumption
    <3> QED
      BY <1>3, <1>8, <3>3, <3>4, <3>5
  <2>4. NeverEarly'
    <3> SUFFICES ASSUME NEW u \in Timers, firedAfter'[u] >= 0, duration'[u] > 0
                 PROVE  (firedAfter'[u] - 1) * Resolution >= duration'[u]
      BY DEF NeverEarly
    <3>1. CASE u = t /\ firedAfter[t] = -1
      BY <1>6, <1>9, <2>3, <3>1
    <3>2. CASE ~(u = t /\ firedAfter[t] = -1)
      <4>1. firedAfter'[u] = firedAfter[u]
        BY <1>9, <3>2
      <4> QED
        BY <1>6, <4>1 DEF EarlyInv, NeverEarly
    <3> QED
      BY <3>1, <3>2
  <2>5. total' * Resolution = systemTime' + ticksProgressed' * Resolution
                              + (IF pc' = "exchanged" THEN now' ELSE 0)
    BY <1>2, <1>6 DEF EarlyInv
  <2> QED
    BY <1>12, <2>1, <2>2, <2>4, <2>5 DEF EarlyInv
<1>15. NextTriggerInv => NextTriggerInv'
  BY <1>2, <1>5, <1>7, <1>12 DEF NextTriggerInv
<1> QED
  BY <1>13, <1>14, <1>15
(***************************************************************************)
(* The loop ends: no timer that is due was skipped, and the next trigger   *)
(* time is computed.                                                       *)
(***************************************************************************)
LEMMA FinishProgressedStep ==
    ASSUME BookInv, EarlyInv, FinishProgressed
    PROVE  BookInv' /\ EarlyInv' /\ (NextTriggerInv => NextTriggerInv')
<1> USE DEF historyVars
<1>1. TypeOK
  BY DEF BookInv
<1>2. /\ End \notin Timers /\ ServiceInv(Timers, service) /\ service.timerIterator = End
      /\ pc = "loop"
  BY TimersAssumption DEF BookInv, FinishProgressed
<1>3. service' = EndProgressed(service)
  BY DEF FinishProgressed
<1>4. /\ ServiceInv(Timers, service')
      /\ NextInv(Timers, service) => NextInv(Timers, service')
      /\ ~service'.holdUpdate
      /\ service'.armed = service.armed
      /\ service'.triggerTime = service.triggerTime
      /\ service'.triggerPeriod = service.triggerPeriod
  BY <1>2, <1>3, Ends
<1>5. /\ pc' = "changed" /\ caller' = caller /\ now' = now /\ starting' = starting
      /\ ticksNextNotification' = NextNotification(service'.nextTrigger, systemTime)
      /\ reschedule' = reschedule
      /\ systemTime' = systemTime /\ total' = total /\ events' = events
      /\ ticksProgressed' = ticksProgressed /\ notificationScheduled' = notificationScheduled
      /\ starts' = starts /\ startedAt' = startedAt /\ duration' = duration
      /\ firedAfter' = firedAfter
  BY DEF FinishProgressed
<1>6. TypeOK'
  <2>1. service' \in ServiceType /\ service'.nextTrigger \in Int
    BY <1>4 DEF ServiceInv, ServiceType, ServiceOver
  <2>2. NextNotification(service'.nextTrigger, systemTime) \in 0 .. TickModulus - 1
    BY <1>1, <2>1, NotificationFits DEF TypeOK
  <2> QED
    BY <1>1, <1>5, <2>1, <2>2 DEF TypeOK
<1>7. ~Looping' /\ ~Starting' /\ ~Starting /\ pc' \notin {"setDuration", "start", "exchanged"}
  BY <1>2, <1>5 DEF Looping, Starting
<1>8. BookInv'
  <2>1. FlagMatchesEvent'
    BY <1>2, <1>5 DEF BookInv, FlagMatchesEvent, Processing
  <2>2. \A u \in Repeaters : service'.armed[u] => service'.triggerPeriod[u] /= 0
    BY <1>2, <1>4 DEF BookInv
  <2> QED
    BY <1>4, <1>6, <1>7, <2>1, <2>2 DEF BookInv
<1>9. EarlyInv'
  BY <1>2, <1>4, <1>5, <1>7 DEF EarlyInv, NeverEarly
<1>10. NextTriggerInv => NextTriggerInv'
  BY <1>2, <1>4, <1>7 DEF NextTriggerInv
<1> QED
  BY <1>8, <1>9, <1>10

(***************************************************************************)
(* The rest of ProcessTicks leaves the timers alone.                       *)
(***************************************************************************)
LEMMA ProcessTicksRest ==
    ASSUME BookInv, EarlyInv,
           ActionReturns \/ CompareTicks \/ AssignNotificationScheduled \/ ProcessTicksReturns
    PROVE  BookInv' /\ EarlyInv' /\ (NextTriggerInv => NextTriggerInv')
<1>1. TypeOK
  BY DEF BookInv
<1>2. /\ service' = service /\ systemTime' = systemTime /\ total' = total
      /\ ticksProgressed' = ticksProgressed /\ ticksNextNotification' = ticksNextNotification
      /\ caller' = caller /\ now' = now /\ starting' = starting
      /\ starts' = starts /\ startedAt' = startedAt /\ duration' = duration
      /\ firedAfter' = firedAfter
  BY DEF ActionReturns, CompareTicks, AssignNotificationScheduled, ProcessTicksReturns,
         tickVars, historyVars
<1>3. /\ ~Starting /\ ~Starting' /\ (Looping <=> Looping')
      /\ {pc, pc'} \cap {"setDuration", "start", "exchanged"} = {}
  BY DEF ActionReturns, CompareTicks, AssignNotificationScheduled, ProcessTicksReturns,
         Starting, Looping
<1>4. events' \in Nat
  BY <1>1 DEF ActionReturns, CompareTicks, AssignNotificationScheduled, ProcessTicksReturns,
              tickVars, TypeOK
<1>5. notificationScheduled' \in BOOLEAN /\ reschedule' \in BOOLEAN
  <2>1. notificationScheduled \in BOOLEAN /\ reschedule \in BOOLEAN
    BY <1>1 DEF TypeOK
  <2>2. (ticksProgressed >= ticksNextNotification) \in BOOLEAN
    OBVIOUS
  <2> QED
    BY <2>1, <2>2, Zenon
       DEF ActionReturns, CompareTicks, AssignNotificationScheduled, ProcessTicksReturns, tickVars
<1>6. pc' \in {"loop", "compared", "processed", "idle"}
  BY DEF ActionReturns, CompareTicks, AssignNotificationScheduled, ProcessTicksReturns
<1>7. TypeOK'
  BY <1>1, <1>2, <1>4, <1>5, <1>6 DEF TypeOK
<1>8. FlagMatchesEvent'
  BY <1>1 DEF ActionReturns, CompareTicks, AssignNotificationScheduled, ProcessTicksReturns,
              tickVars, BookInv, FlagMatchesEvent, Processing, TypeOK
<1>9. BookInv'
  BY <1>2, <1>3, <1>7, <1>8 DEF BookInv
<1>10. EarlyInv'
  BY <1>2, <1>3 DEF EarlyInv, NeverEarly
<1>11. NextTriggerInv => NextTriggerInv'
  BY <1>2, <1>3 DEF NextTriggerInv
<1> QED
  BY <1>9, <1>10, <1>11
(***************************************************************************)
(* The bookkeeping and the times hold whatever clients do; the next        *)
(* trigger time is right if they start no armed timer for an earlier time. *)
(***************************************************************************)
LEMMA TicksKeepInv ==
    ASSUME BookInv, EarlyInv, [Next]_vars
    PROVE  BookInv' /\ EarlyInv' /\ (NextTriggerInv /\ ~RestartEarlier => NextTriggerInv')
<1>1. CASE SystemTickInterrupt
  BY <1>1, TickStep
<1>2. CASE Client
  BY <1>2, CallStartStep, FinishStartStep, FinishSetDurationStep, StartAtStep, CancelTimerStep
     DEF Client
<1>3. CASE ProcessTicks
  BY <1>3, ExchangeTicksStep, TimeProgressedStep, SkipTimerStep, TriggerTimerStep,
     FinishProgressedStep, ProcessTicksRest DEF ProcessTicks
<1>4. CASE UNCHANGED vars
  <2>1. /\ service' = service /\ systemTime' = systemTime /\ total' = total
        /\ ticksProgressed' = ticksProgressed /\ ticksNextNotification' = ticksNextNotification
        /\ notificationScheduled' = notificationScheduled /\ events' = events /\ pc' = pc
        /\ caller' = caller /\ now' = now /\ starting' = starting /\ reschedule' = reschedule
        /\ starts' = starts /\ startedAt' = startedAt /\ duration' = duration
        /\ firedAfter' = firedAfter
    BY <1>4 DEF vars, tickVars, localVars, historyVars
  <2>2. BookInv'
    BY <2>1 DEF BookInv, TypeOK, Starting, Looping, FlagMatchesEvent, Processing
  <2>3. EarlyInv'
    BY <2>1 DEF EarlyInv, Starting, NeverEarly
  <2>4. NextTriggerInv => NextTriggerInv'
    BY <2>1 DEF NextTriggerInv
  <2> QED
    BY <2>2, <2>3, <2>4
<1> QED
  BY <1>1, <1>2, <1>3, <1>4 DEF Next

(***************************************************************************)
(* The list, as the run states it.                                         *)
(***************************************************************************)
LEMMA ListOfArmed ==
    ASSUME NEW T, NEW s, ServiceInv(T, s)
    PROVE  /\ Scheduled(s) = Armed(T, s)
           /\ Len(s.scheduledTimers) = Cardinality(Scheduled(s))
<1> DEFINE l == s.scheduledTimers
<1>1. l \in Seq(T) /\ Len(l) \in Nat /\ \A i \in 1 .. Len(l) : l[i] \in T
  BY DEF ServiceInv, ServiceOver
<1>2. Scheduled(s) = Armed(T, s)
  BY <1>1 DEF Scheduled, Armed, ServiceInv, Occurs
<1>3. Len(l) = Cardinality(Scheduled(s))
  <2>1. l \in [1 .. Len(l) -> Scheduled(s)]
    BY <1>1 DEF Scheduled
  <2>2. \A a, b \in 1 .. Len(l) : l[a] = l[b] => a = b
    BY DEF ServiceInv, Unique
  <2>3. \A u \in Scheduled(s) : \E i \in 1 .. Len(l) : l[i] = u
    BY DEF Scheduled
  <2> HIDE DEF l
  <2>4. l \in Bijection(1 .. Len(l), Scheduled(s))
    BY <2>1, <2>2, <2>3 DEF Bijection, Injection, Surjection, IsInjective
  <2>5. ExistsBijection(1 .. Len(l), Scheduled(s))
    BY <2>4 DEF ExistsBijection
  <2> QED
    BY <1>1, <2>5, FS_CountingElements
<1> QED
  BY <1>2, <1>3

(***************************************************************************)
(* What the run checks of this service follows.                            *)
(***************************************************************************)
LEMMA TicksConsistent ==
    ASSUME BookInv, NextTriggerInv
    PROVE  TimersConsistent
<1>1. End \notin Timers /\ ServiceInv(Timers, service)
  BY TimersAssumption DEF BookInv
<1>2. Armed(Timers, service) = {t \in Timers : service.armed[t]}
  BY DEF Armed
<1>3. NextTriggerIsEarliest
  <2> SUFFICES ASSUME ~service.holdUpdate, pc /= "setDuration"
               PROVE  service.nextTrigger = Earliest(service, Armed(Timers, service))
    BY <1>2 DEF NextTriggerIsEarliest
  <2>1. IsEarliest(service, Armed(Timers, service), service.nextTrigger)
    BY DEF NextTriggerInv, NextInv
  <2>2. Armed(Timers, service) \in SUBSET Timers
    BY DEF Armed
  <2>3. service \in ServiceOver(Timers) /\ \E b \in Int : \A t \in Timers : b <= service.triggerTime[t]
    BY <1>1 DEF ServiceInv
  <2> QED
    BY <2>1, <2>2, <2>3, EarliestFound
<1>4. ListConsistent
  <2>1. service.timerIterator \in Armed(Timers, service) \cup {End}
    BY <1>1 DEF ServiceInv, ServiceOver, Armed
  <2> QED
    BY <1>1, <1>2, <2>1, ListOfArmed DEF ListConsistent
<1>5. NoDueTimerSkipped
  <2> SUFFICES ASSUME pc = "loop", service.timerIterator = End, NEW t \in Timers,
                      service.armed[t], service.triggerTime[t] <= systemTime
               PROVE  firedAfter[t] = -1
    BY DEF NoDueTimerSkipped, Due
  <2>1. ~Ahead(service, t)
    BY <1>1, NothingAhead
  <2>2. Looping
    BY DEF Looping
  <2> QED
    BY <2>1, <2>2 DEF BookInv
<1> QED
  BY <1>3, <1>4, <1>5 DEF TimersConsistent, BookInv
-----------------------------------------------------------------------------
(* TimerServiceBsd *)

(***************************************************************************)
(* The operations of its timers are the ones above.                        *)
(***************************************************************************)
LEMMA HostOperations ==
    /\ Host!Timers = Timers /\ Host!NoTimers = NoTimers
    /\ Host!ServiceType = ServiceOver(Timers)
    /\ \A s, t, x : Host!SetNextTriggerTime(s, t, x) = SetNextTriggerTime(s, t, x)
    /\ \A s, t : Host!Cancel(s, t) = Cancel(s, t)
    /\ \A s, t, n : Host!ComputeNextTriggerTime(s, t, n) = ComputeNextTriggerTime(s, t, n)
    /\ \A s, t, d, n : Host!SetDuration(s, t, d, n) = SetDuration(s, t, d, n)
    /\ \A t, d, n, p : Host!FirstTriggerTime(t, d, n, p) = FirstTriggerTime(t, d, n, p)
    /\ \A s : Host!BeginProgressed(s) = BeginProgressed(s)
    /\ \A s : Host!Advance(s) = Advance(s)
    /\ \A s : Host!EndProgressed(s) = EndProgressed(s)
    /\ \A s, t, n : Host!Due(s, t, n) <=> s.triggerTime[t] <= n
    /\ \A s, ts : Host!Earliest(s, ts) = Earliest(s, ts)
<1> USE DEF Host!Earliest, Earliest, Host!Scheduled, Scheduled,
            Host!ComputeNextTrigger, ComputeNextTrigger
<1>1. Host!Timers = Timers
  BY DEF Host!Timers, Timers
<1>2. Host!NoTimers = NoTimers
  BY DEF Host!NoTimers, NoTimers, Host!Timers, Timers
<1>3. Host!ServiceType = ServiceOver(Timers)
  BY DEF Host!ServiceType, ServiceOver, Host!Timers, Timers
<1>4. \A s, t, x : Host!SetNextTriggerTime(s, t, x) = SetNextTriggerTime(s, t, x)
  BY DEF Host!SetNextTriggerTime, SetNextTriggerTime, Host!UpdateTriggerTime, UpdateTriggerTime,
         Host!RegisterTimer, RegisterTimer
<1>5. \A s, t : Host!Cancel(s, t) = Cancel(s, t)
  BY DEF Host!Cancel, Cancel, Host!UnregisterTimer, UnregisterTimer, Host!After, After,
         Host!Index, Index, Host!RemoveAt, RemoveAt
<1>6. \A s, t, n : Host!ComputeNextTriggerTime(s, t, n) = ComputeNextTriggerTime(s, t, n)
  BY <1>4, <1>5 DEF Host!ComputeNextTriggerTime, ComputeNextTriggerTime,
                    Host!RepeatTriggerTime, RepeatTriggerTime
<1>7. \A s, t, d, n : Host!SetDuration(s, t, d, n) = SetDuration(s, t, d, n)
  BY <1>6 DEF Host!SetDuration, SetDuration
<1>8. \A t, d, n, p : Host!FirstTriggerTime(t, d, n, p) = FirstTriggerTime(t, d, n, p)
  BY DEF Host!FirstTriggerTime, FirstTriggerTime
<1>9. \A s : Host!BeginProgressed(s) = BeginProgressed(s)
  BY DEF Host!BeginProgressed, BeginProgressed
<1>10. \A s : Host!Advance(s) = Advance(s)
  BY DEF Host!Advance, Advance, Host!After, After, Host!Index, Index
<1>11. \A s : Host!EndProgressed(s) = EndProgressed(s)
  BY DEF Host!EndProgressed, EndProgressed
<1>12. \A s, t, n : Host!Due(s, t, n) <=> s.triggerTime[t] <= n
  BY DEF Host!Due
<1>13. \A s, ts : Host!Earliest(s, ts) = Earliest(s, ts)
  OBVIOUS
<1> QED
  BY <1>1, <1>2, <1>3, <1>4, <1>5, <1>6, <1>7, <1>8, <1>9, <1>10, <1>11, <1>12, <1>13

HalfStarting == hostPc = "setDuration" \/ (hostPc = "changed" /\ return = "setDuration")

\* Whether the dispatcher is in the loop over the timers
HostLooping ==
    \/ hostPc \in {"loop", "action"}
    \/ hostPc = "changed" /\ return = "action"
    \/ HalfStarting /\ hostStarting.caller = "action"

(***************************************************************************)
(* The bookkeeping of the timers, as above.                                *)
(***************************************************************************)
HostBookInv ==
    /\ Host!TypeOK
    /\ ServiceInv(Timers, hostService)
    /\ hostService.holdUpdate <=> HostLooping
    /\ HalfStarting =>
          /\ hostStarting.timer \in Repeaters /\ hostStarting.duration \in HostDurations
          /\ hostService.armed[hostStarting.timer]
          /\ HalfStarted(Timers, hostService, hostStarting.timer, hostStarting.duration)
    /\ ~HalfStarting => NextInv(Timers, hostService)
    /\ \A t \in Repeaters :
          hostService.armed[t] /\ ~(HalfStarting /\ hostStarting.timer = t)
              => hostService.triggerPeriod[t] /= 0

(***************************************************************************)
(* What the two threads know of each other: the dispatcher's thread has    *)
(* told the other one the next trigger time, or is about to, or is in the  *)
(* loop after which it does, or the loop is scheduled; a wait is for the   *)
(* time that was told last, or for the epoch, which is over.               *)
(***************************************************************************)
ThreadsInv ==
    /\ hostPc = "constructing" => hostService = NoTimers /\ nextTrigger \in {0, Never}
    /\ hostPc \notin {"constructing", "changed"} /\ ~HostLooping /\ hostEvents = 0
          => nextTrigger = hostService.nextTrigger
    /\ tpc = "waiting" => deadline \in {0, nextTrigger}

(***************************************************************************)
(* The parts of the type.                                                  *)
(***************************************************************************)
LEMMA HostTypes ==
    Host!TypeOK <=>
       /\ hostService \in ServiceOver(Timers) /\ nextTrigger \in Int /\ quit \in BOOLEAN
       /\ hostClock \in 0 .. HostMaxTime /\ mutex \in {"free", "thread", "dispatcher"}
       /\ tpc \in {"lock", "test", "wait", "waiting", "woken", "ended"} /\ deadline \in Int
       /\ hostPc \in {"constructing", "idle", "changed", "setDuration", "loop", "action",
                      "quit", "join", "destroyed"}
       /\ return \in {"idle", "setDuration", "action"}
       /\ hostStarting \in [timer : Timers \cup {End}, duration : Nat, caller : {"idle", "action"}]
       /\ hostEvents \in Nat /\ hostTime \in Nat /\ hostStarts \in 0 .. HostMaxStarts
BY HostOperations DEF Host!TypeOK

(***************************************************************************)
(* Initially.                                                              *)
(***************************************************************************)
LEMMA HostInitially ==
    ASSUME Host!Init
    PROVE  HostBookInv /\ ThreadsInv
<1>1. hostService = NoTimers
  BY HostOperations DEF Host!Init
<1>2. NoTimers \in ServiceOver(Timers)
  BY NeverAssumption, EmptySeq DEF NoTimers, ServiceOver
<1>3. /\ NoTimers.scheduledTimers = << >> /\ NoTimers.timerIterator = End
      /\ NoTimers.nextTrigger = Never /\ ~NoTimers.holdUpdate /\ ~NoTimers.updateNeeded
      /\ \A t \in Timers : ~NoTimers.armed[t] /\ NoTimers.triggerTime[t] = 0
  BY DEF NoTimers
<1>4. ServiceInv(Timers, NoTimers)
  <2>1. \E b \in Int : \A t \in Timers : b <= NoTimers.triggerTime[t]
    BY <1>3
  <2> QED
    BY <1>2, <1>3, <2>1 DEF ServiceInv, Unique, Occurs
<1>5. NextInv(Timers, NoTimers)
  <2>1. Armed(Timers, NoTimers) = {}
    BY <1>3 DEF Armed
  <2> QED
    BY <1>3, <2>1, NeverAssumption DEF NextInv, IsEarliest
<1>6. Host!TypeOK
  <2>1. hostStarting \in [timer : Timers \cup {End}, duration : Nat, caller : {"idle", "action"}]
    BY DEF Host!Init, Host!NoStart
  <2>2. 1 \in 0 .. HostMaxTime /\ 0 \in 0 .. HostMaxStarts
    BY HostAssumption DEF Host!HostAssumption
  <2>3. /\ nextTrigger = 0 /\ quit = FALSE /\ hostClock = 1 /\ mutex = "free" /\ tpc = "lock"
        /\ deadline = 0 /\ hostPc = "constructing" /\ return = "idle" /\ hostEvents = 0
        /\ hostTime = 0 /\ hostStarts = 0
    BY DEF Host!Init
  <2>4. quit \in BOOLEAN
    BY <2>3, Zenon
  <2>5. hostService \in ServiceOver(Timers)
    BY <1>1, <1>2
  <2> QED
    BY <2>1, <2>2, <2>3, <2>4, <2>5, HostOperations DEF Host!TypeOK
<1>7. ~HalfStarting /\ ~HostLooping /\ hostPc = "constructing"
  BY DEF Host!Init, HalfStarting, HostLooping
<1>8. \A t \in Repeaters : ~hostService.armed[t]
  BY <1>1, <1>3 DEF Timers
<1>9. HostBookInv
  BY <1>1, <1>3, <1>4, <1>5, <1>6, <1>7, <1>8 DEF HostBookInv
<1>10. ThreadsInv
  BY <1>1, <1>7 DEF ThreadsInv, Host!Init
<1> QED
  BY <1>9, <1>10
(***************************************************************************)
(* Steps that leave the timers alone: the thread's, the clock's and the    *)
(* destructor's, the constructor's end and the end of a notification.      *)
(***************************************************************************)
LEMMA HostOtherSteps ==
    ASSUME HostBookInv, ThreadsInv,
           \/ Host!WaitForTrigger \/ Host!WakesSpuriously \/ Host!Tick
           \/ Host!Construct \/ Host!NextTriggerChanged \/ Host!ActionReturns
           \/ Host!Quit \/ Host!NotifyQuit \/ Host!Join
    PROVE  HostBookInv' /\ ThreadsInv'
<1> USE DEF Host!WaitForTrigger, Host!Lock, Host!TestQuit, Host!Wait, Host!Expires, Host!Trigger,
            Host!WakesSpuriously, Host!Tick, Host!Construct, Host!NextTriggerChanged,
            Host!ActionReturns, Host!Quit, Host!NotifyQuit, Host!Join, Host!NotifyOne,
            Host!threadVars
<1>1. hostService' = hostService /\ hostStarting' = hostStarting /\ hostStarts' = hostStarts
      /\ hostTime' = hostTime
  OBVIOUS
<1>2. /\ hostService \in ServiceOver(Timers) /\ nextTrigger \in Int /\ quit \in BOOLEAN
      /\ hostClock \in 0 .. HostMaxTime /\ mutex \in {"free", "thread", "dispatcher"}
      /\ tpc \in {"lock", "test", "wait", "waiting", "woken", "ended"} /\ deadline \in Int
      /\ hostPc \in {"constructing", "idle", "changed", "setDuration", "loop", "action",
                     "quit", "join", "destroyed"}
      /\ return \in {"idle", "setDuration", "action"}
      /\ hostStarting \in [timer : Timers \cup {End}, duration : Nat, caller : {"idle", "action"}]
      /\ hostEvents \in Nat /\ hostTime \in Nat /\ hostStarts \in 0 .. HostMaxStarts
  BY HostTypes DEF HostBookInv
<1>3. hostService.nextTrigger \in Int
  BY <1>2 DEF ServiceOver
<1>4. Host!TypeOK'
  <2>1. hostClock' \in 0 .. HostMaxTime
    BY <1>2, HostAssumption DEF Host!HostAssumption
  <2>2. hostEvents' \in Nat
    BY <1>2
  <2>3. nextTrigger' \in Int /\ deadline' \in Int
    BY <1>2, <1>3, NeverAssumption
  <2>4. quit' \in BOOLEAN
    <3>1. quit' = quit \/ quit' = TRUE
      OBVIOUS
    <3> HIDE DEF Host!Quit
    <3> QED
      BY <1>2, <3>1, Zenon
  <2>5. /\ mutex' \in {"free", "thread", "dispatcher"}
        /\ tpc' \in {"lock", "test", "wait", "waiting", "woken", "ended"}
    BY <1>2
  <2>6. /\ hostPc' \in {"constructing", "idle", "changed", "setDuration", "loop", "action",
                        "quit", "join", "destroyed"}
        /\ return' \in {"idle", "setDuration", "action"}
    BY <1>2
  <2>7. /\ hostService' \in ServiceOver(Timers) /\ hostTime' \in Nat
        /\ hostStarting' \in [timer : Timers \cup {End}, duration : Nat, caller : {"idle", "action"}]
        /\ hostStarts' \in 0 .. HostMaxStarts
    BY <1>1, <1>2
  <2> HIDE DEF Host!Quit, Host!WaitForTrigger
  <2> QED
    BY <2>1, <2>2, <2>3, <2>4, <2>5, <2>6, <2>7, HostOperations DEF Host!TypeOK
<1>5. (HalfStarting' <=> HalfStarting) /\ (HostLooping' <=> HostLooping)
  BY <1>1, <1>2 DEF HalfStarting, HostLooping
<1>6. HostBookInv'
  BY <1>1, <1>4, <1>5 DEF HostBookInv
<1>7. ThreadsInv'
  <2>1. hostPc' = "constructing" => hostService' = NoTimers /\ nextTrigger' \in {0, Never}
    BY <1>1, <1>2 DEF ThreadsInv
  <2>2. hostPc' \notin {"constructing", "changed"} /\ ~HostLooping' /\ hostEvents' = 0
          => nextTrigger' = hostService'.nextTrigger
    BY <1>1, <1>2, <1>5 DEF ThreadsInv
  <2>3. tpc' = "waiting" => deadline' \in {0, nextTrigger'}
    BY <1>1, <1>2 DEF ThreadsInv, NoTimers
  <2> QED
    BY <2>1, <2>2, <2>3 DEF ThreadsInv
<1> QED
  BY <1>6, <1>7
\* A change of the timers by the dispatcher's thread, which goes on at next,
\* or at next after it has told the other thread
HostTakes(s, next) ==
    /\ next \in {"idle", "setDuration", "action"}
    /\ hostPc \notin {"constructing", "changed"}
    /\ Host!ServiceBecomes(s, next)
    /\ ServiceInv(Timers, s) /\ s.holdUpdate = hostService.holdUpdate
    /\ hostStarting' \in [timer : Timers \cup {End}, duration : Nat, caller : {"idle", "action"}]
    /\ next = "setDuration" =>
           /\ hostStarting'.timer \in Repeaters /\ hostStarting'.duration \in HostDurations
           /\ s.armed[hostStarting'.timer]
           /\ HalfStarted(Timers, s, hostStarting'.timer, hostStarting'.duration)
    /\ HostLooping <=> next = "action" \/ (next = "setDuration" /\ hostStarting'.caller = "action")
    /\ next /= "setDuration" => NextInv(Timers, s)
    /\ \A t \in Repeaters : s.armed[t] /\ ~(next = "setDuration" /\ hostStarting'.timer = t)
                             => s.triggerPeriod[t] /= 0
    /\ hostStarts' \in 0 .. HostMaxStarts
    /\ UNCHANGED <<nextTrigger, quit, hostClock, mutex, tpc, deadline, hostEvents, hostTime>>

(***************************************************************************)
(* Such a change keeps the timers in order and the threads informed.       *)
(***************************************************************************)
LEMMA HostBecomes ==
    ASSUME HostBookInv, ThreadsInv, NEW s, NEW next, HostTakes(s, next)
    PROVE  HostBookInv' /\ ThreadsInv'
<1> USE DEF HostTakes
<1>1. /\ hostService' = s
      /\ s.nextTrigger /= hostService.nextTrigger => hostPc' = "changed" /\ return' = next
      /\ s.nextTrigger = hostService.nextTrigger => hostPc' = next /\ return' = "idle"
  BY DEF Host!ServiceBecomes
<1>2. (HalfStarting' <=> next = "setDuration") /\ (HostLooping' <=> HostLooping)
  BY <1>1 DEF HalfStarting, HostLooping
<1>3. Host!TypeOK'
  <2>1. s \in ServiceOver(Timers)
    BY DEF ServiceInv
  <2>2. /\ hostPc' \in {"constructing", "idle", "changed", "setDuration", "loop", "action",
                        "quit", "join", "destroyed"}
        /\ return' \in {"idle", "setDuration", "action"}
    BY <1>1
  <2> QED
    BY <1>1, <2>1, <2>2, HostOperations DEF Host!TypeOK, HostBookInv
<1>4. HostBookInv'
  BY <1>1, <1>2, <1>3 DEF HostBookInv
<1>5. ThreadsInv'
  BY <1>1, <1>2 DEF ThreadsInv
<1> QED
  BY <1>4, <1>5

(***************************************************************************)
(* Start.                                                                  *)
(***************************************************************************)
LEMMA HostStartStep ==
    ASSUME HostBookInv, ThreadsInv, NEW t \in Timers, NEW d \in HostDurations, Host!Start(t, d)
    PROVE  HostBookInv' /\ ThreadsInv'
<1> DEFINE x == FirstTriggerTime(t, d, hostClock, 1)
           r == SetNextTriggerTime(hostService, t, x)
           next == IF t \in Repeaters THEN "setDuration" ELSE hostPc
<1>1. /\ hostPc \in {"idle", "action"} /\ hostStarts < HostMaxStarts
      /\ hostService.armed[t] => hostService.triggerTime[t] <= hostClock + d + 1
      /\ hostStarts' = hostStarts + 1
      /\ Host!ServiceBecomes(r, next)
      /\ hostStarting' = IF t \in Repeaters THEN [timer |-> t, duration |-> d, caller |-> hostPc]
                                            ELSE hostStarting
      /\ UNCHANGED <<nextTrigger, quit, hostClock, mutex, tpc, deadline, hostEvents, hostTime>>
  BY HostOperations DEF Host!Start, Host!HostResolution, Host!threadVars
<1>2. /\ d \in Nat /\ d > 0 /\ hostClock \in Nat /\ hostStarts \in Nat
      /\ hostStarts' \in 0 .. HostMaxStarts
  BY <1>1, HostTypes, HostAssumption DEF HostBookInv, Host!HostAssumption
<1>3. /\ x \in Int
      /\ t \in SingleShots => x = hostClock + d + 1
      /\ t \notin SingleShots => x + d = hostClock + d + 1
  BY <1>2 DEF FirstTriggerTime
<1>4. End \notin Timers /\ ServiceInv(Timers, hostService) /\ NextInv(Timers, hostService)
  BY <1>1, TimersAssumption DEF HostBookInv, HalfStarting
<1>5. hostService.armed \in [Timers -> BOOLEAN]
  BY <1>4 DEF ServiceInv, ServiceOver
<1> HIDE DEF x
<1>6. /\ SameBut(Timers, hostService, r)
      /\ r.armed = [hostService.armed EXCEPT ![t] = TRUE]
      /\ r.triggerTime = [hostService.triggerTime EXCEPT ![t] = x]
      /\ NextInv(Timers, hostService)
           /\ (hostService.armed[t] => hostService.triggerTime[t] <= x) => NextInv(Timers, r)
  <2>1. End \notin Timers /\ ServiceInv(Timers, hostService) /\ x \in Int
    BY <1>3, <1>4
  <2> QED
    BY <2>1, Sets
<1>14. (hostService.armed[t] => hostService.triggerTime[t] <= x) => NextInv(Timers, r)
  BY <1>4, <1>6
<1>7. (hostService.armed[t] => hostService.triggerTime[t] <= x + d)
         => HalfStarted(Timers, r, t, d)
  <2>1. \A e \in Int :
           (hostService.armed[t] => hostService.triggerTime[t] <= x + e)
               => HalfStarted(Timers, r, t, e)
    BY <1>3, <1>4, Sets
  <2> QED
    BY <1>2, <2>1
<1> HIDE DEF r
<1>8. r.armed[t] /\ \A u \in Timers : u /= t => r.armed[u] = hostService.armed[u]
  BY <1>5, <1>6
<1>9. HostLooping <=> hostPc = "action"
  BY <1>1 DEF HostLooping, HalfStarting
<1>10. ~HalfStarting
  BY <1>1 DEF HalfStarting
<1>11. hostStarting' \in [timer : Timers \cup {End}, duration : Nat, caller : {"idle", "action"}]
  BY <1>1, <1>2, HostTypes DEF HostBookInv
<1>12. CASE t \in Repeaters
  <2>1. t \notin SingleShots /\ next = "setDuration"
    BY <1>12, TimersAssumption
  <2>2. hostStarting'.timer = t /\ hostStarting'.duration = d /\ hostStarting'.caller = hostPc
    BY <1>1, <1>12
  <2>3. HalfStarted(Timers, r, t, d)
    BY <1>1, <1>3, <1>7, <2>1
  <2>4. \A u \in Repeaters : r.armed[u] /\ u /= t => r.triggerPeriod[u] /= 0
    BY <1>6, <1>8, <1>10 DEF HostBookInv, SameBut, Timers
  <2>5. HostTakes(r, "setDuration")
    BY <1>1, <1>2, <1>6, <1>8, <1>9, <1>11, <1>12, <2>1, <2>2, <2>3, <2>4 DEF SameBut, HostTakes
  <2> QED
    BY <2>5, HostBecomes
<1>13. CASE t \notin Repeaters
  <2>1. t \in SingleShots /\ next = hostPc
    BY <1>13 DEF Timers
  <2>2. NextInv(Timers, r)
    BY <1>1, <1>3, <1>14, <2>1
  <2>3. \A u \in Repeaters : r.armed[u] => r.triggerPeriod[u] /= 0
    BY <1>6, <1>8, <1>10, <1>13 DEF HostBookInv, SameBut, Timers
  <2>4. HostTakes(r, hostPc)
    BY <1>1, <1>2, <1>6, <1>9, <1>11, <2>1, <2>2, <2>3 DEF SameBut, HostTakes
  <2> QED
    BY <2>4, HostBecomes
<1> QED
  BY <1>12, <1>13

(***************************************************************************)
(* Start of a repeating timer, the rest.                                   *)
(***************************************************************************)
LEMMA HostFinishStartStep ==
    ASSUME HostBookInv, ThreadsInv, Host!FinishStart
    PROVE  HostBookInv' /\ ThreadsInv'
<1> DEFINE t == hostStarting.timer
           d == hostStarting.duration
           c == hostStarting.caller
           r == SetDuration(hostService, t, d, hostClock)
<1>1. /\ hostPc = "setDuration" /\ hostStarts' = hostStarts
      /\ Host!ServiceBecomes(r, c)
      /\ hostStarting' = Host!NoStart
      /\ UNCHANGED <<nextTrigger, quit, hostClock, mutex, tpc, deadline, hostEvents, hostTime>>
  BY HostOperations DEF Host!FinishStart, Host!threadVars
<1>2. HalfStarting /\ (HostLooping <=> c = "action")
  BY <1>1 DEF HalfStarting, HostLooping
<1>3. /\ t \in Repeaters /\ t \in Timers /\ t \notin SingleShots /\ d \in Nat \ {0}
      /\ hostService.armed[t] /\ HalfStarted(Timers, hostService, t, d)
  BY <1>2, HostAssumption, TimersAssumption DEF HostBookInv, Host!HostAssumption, Timers
<1>4. /\ c \in {"idle", "action"} /\ hostStarts' \in 0 .. HostMaxStarts /\ hostClock \in Int
      /\ hostStarting' \in [timer : Timers \cup {End}, duration : Nat, caller : {"idle", "action"}]
  BY <1>1, HostTypes DEF HostBookInv, Host!NoStart
<1>5. End \notin Timers /\ ServiceInv(Timers, hostService)
  BY TimersAssumption DEF HostBookInv
<1>6. /\ hostService.armed \in [Timers -> BOOLEAN] /\ hostService.triggerPeriod \in [Timers -> Nat]
      /\ hostService.triggerTime \in [Timers -> Int]
  BY <1>5 DEF ServiceInv, ServiceOver
<1>7. /\ ServiceInv(Timers, r)
      /\ r.holdUpdate = hostService.holdUpdate
      /\ r.triggerPeriod = [hostService.triggerPeriod EXCEPT ![t] = d]
      /\ r.armed = [hostService.armed EXCEPT ![t] = TRUE]
  <2> HIDE DEF t, d
  <2> QED
    BY <1>3, <1>4, <1>5, SetsDuration
<1>8. NextInv(Timers, r)
  <2> HIDE DEF t, d, r
  <2>1. PICK x \in Int :
           /\ x > hostClock /\ hostService.triggerTime[t] + d <= x
           /\ \A e \in Nat : HalfStarted(Timers, hostService, t, e) /\ hostService.armed[t]
                               /\ hostService.triggerTime[t] + e <= x => NextInv(Timers, r)
    BY <1>3, <1>4, <1>5, SetsDuration DEF r
  <2> QED
    BY <1>3, <2>1
<1> HIDE DEF r
<1>9. ASSUME NEW u \in Repeaters, r.armed[u]
      PROVE  r.triggerPeriod[u] /= 0
  <2>1. CASE u = t
    BY <1>3, <1>6, <1>7, <2>1
  <2>2. CASE u /= t
    <3>1. u \in Timers
      BY DEF Timers
    <3>2. hostService.armed[u] /\ r.triggerPeriod[u] = hostService.triggerPeriod[u]
      BY <1>6, <1>7, <1>9, <2>2, <3>1
    <3> QED
      BY <2>2, <3>2 DEF HostBookInv
  <2> QED
    BY <2>1, <2>2
<1> HIDE DEF c
<1>10. HostTakes(r, c)
  BY <1>1, <1>2, <1>4, <1>7, <1>8, <1>9 DEF HostTakes
<1> QED
  BY <1>10, HostBecomes

(***************************************************************************)
(* Cancel.                                                                 *)
(***************************************************************************)
LEMMA HostCancelStep ==
    ASSUME HostBookInv, ThreadsInv, NEW t \in Timers, Host!CancelTimer(t)
    PROVE  HostBookInv' /\ ThreadsInv'
<1> DEFINE r == Cancel(hostService, t)
<1>1. /\ hostPc \in {"idle", "action"} /\ Host!ServiceBecomes(r, hostPc)
      /\ hostStarts' = hostStarts /\ hostStarting' = hostStarting
      /\ UNCHANGED <<nextTrigger, quit, hostClock, mutex, tpc, deadline, hostEvents, hostTime>>
  BY HostOperations DEF Host!CancelTimer, Host!threadVars
<1>2. ~HalfStarting /\ (HostLooping <=> hostPc = "action")
  BY <1>1 DEF HalfStarting, HostLooping
<1>3. End \notin Timers /\ ServiceInv(Timers, hostService) /\ NextInv(Timers, hostService)
  BY <1>2, TimersAssumption DEF HostBookInv
<1>4. hostService.armed \in [Timers -> BOOLEAN]
  BY <1>3 DEF ServiceInv, ServiceOver
<1>5. /\ ServiceInv(Timers, r)
      /\ r.holdUpdate = hostService.holdUpdate
      /\ r.triggerPeriod = hostService.triggerPeriod
      /\ r.armed = [hostService.armed EXCEPT ![t] = FALSE]
      /\ r.triggerTime = [hostService.triggerTime EXCEPT ![t] = 0]
      /\ \A u : Ahead(hostService, u) /\ u /= t => Ahead(r, u)
      /\ NextInv(Timers, hostService) => NextInv(Timers, r)
  BY <1>3, Cancels
<1> HIDE DEF r
<1>6. \A u \in Repeaters : r.armed[u] => r.triggerPeriod[u] /= 0
  BY <1>2, <1>4, <1>5 DEF HostBookInv, Timers
<1>7. /\ hostStarts' \in 0 .. HostMaxStarts
      /\ hostStarting' \in [timer : Timers \cup {End}, duration : Nat, caller : {"idle", "action"}]
  BY <1>1, HostTypes DEF HostBookInv
<1>8. HostTakes(r, hostPc)
  BY <1>1, <1>2, <1>3, <1>5, <1>6, <1>7 DEF HostTakes
<1> QED
  BY <1>8, HostBecomes
(***************************************************************************)
(* The loop begins, and one iteration passes over a timer.                 *)
(***************************************************************************)
LEMMA HostLoopSteps ==
    ASSUME HostBookInv, ThreadsInv, Host!BeginLoop \/ Host!SkipTimer
    PROVE  HostBookInv' /\ ThreadsInv'
<1>1. /\ End \notin Timers /\ ServiceInv(Timers, hostService)
      /\ hostPc \in {"idle", "loop"} /\ hostPc' = "loop"
      /\ (hostPc = "loop" => hostService.timerIterator /= End)
      /\ (hostService' = BeginProgressed(hostService) /\ hostPc = "idle")
           \/ (hostService' = Advance(hostService) /\ hostPc = "loop")
  BY TimersAssumption, HostOperations DEF HostBookInv, Host!BeginLoop, Host!SkipTimer
<1>2. ~HalfStarting /\ ~HalfStarting' /\ HostLooping' /\ (HostLooping <=> hostPc = "loop")
  BY <1>1 DEF HalfStarting, HostLooping
<1>3. /\ ServiceInv(Timers, hostService') /\ hostService'.holdUpdate
      /\ hostService'.armed = hostService.armed
      /\ hostService'.triggerPeriod = hostService.triggerPeriod
      /\ NextInv(Timers, hostService) => NextInv(Timers, hostService')
  <2>1. CASE hostPc = "idle"
    <3> DEFINE r == BeginProgressed(hostService)
    <3>1. /\ ServiceInv(Timers, r)
          /\ r.holdUpdate
          /\ r.armed = hostService.armed /\ r.nextTrigger = hostService.nextTrigger
          /\ r.triggerTime = hostService.triggerTime /\ r.triggerPeriod = hostService.triggerPeriod
          /\ NextInv(Timers, hostService) => NextInv(Timers, r)
      BY <1>1, Begins
    <3> QED
      BY <1>1, <2>1, <3>1
  <2>2. CASE hostPc = "loop"
    <3> DEFINE r == Advance(hostService)
    <3>1. /\ ServiceInv(Timers, r)
          /\ r.timerIterator /= hostService.timerIterator
          /\ r.holdUpdate = hostService.holdUpdate /\ r.armed = hostService.armed
          /\ r.triggerTime = hostService.triggerTime /\ r.triggerPeriod = hostService.triggerPeriod
          /\ r.nextTrigger = hostService.nextTrigger
          /\ NextInv(Timers, hostService) => NextInv(Timers, r)
      BY <1>1, <2>2, Advances
    <3>2. hostService.holdUpdate
      BY <1>2, <2>2 DEF HostBookInv
    <3> QED
      BY <1>1, <2>2, <3>1, <3>2
  <2> QED
    BY <1>1, <2>1, <2>2
<1>4. /\ UNCHANGED <<nextTrigger, quit, hostClock, tpc, deadline, return, hostStarting, hostStarts>>
      /\ mutex' \in {mutex, "dispatcher"} /\ hostTime' \in {hostTime, hostClock}
      /\ hostEvents' = hostEvents \/ (hostEvents' = hostEvents - 1 /\ hostEvents > 0)
  BY DEF Host!BeginLoop, Host!SkipTimer, Host!threadVars
<1>5. Host!TypeOK'
  <2>1. hostService' \in ServiceOver(Timers)
    BY <1>3 DEF ServiceInv
  <2>2. mutex' \in {"free", "thread", "dispatcher"} /\ hostTime' \in Nat /\ hostEvents' \in Nat
    BY <1>4, HostTypes DEF HostBookInv
  <2> QED
    BY <1>1, <1>4, <2>1, <2>2, HostOperations DEF Host!TypeOK, HostBookInv
<1>6. HostBookInv'
  BY <1>2, <1>3, <1>4, <1>5 DEF HostBookInv
<1>7. ThreadsInv'
  BY <1>1, <1>2, <1>4 DEF ThreadsInv
<1> QED
  BY <1>6, <1>7

(***************************************************************************)
(* A timer triggers.                                                       *)
(***************************************************************************)
LEMMA HostTriggerStep ==
    ASSUME HostBookInv, ThreadsInv, Host!TriggerTimer
    PROVE  HostBookInv' /\ ThreadsInv'
<1> DEFINE t == hostService.timerIterator
           r == ComputeNextTriggerTime(Advance(hostService), t, hostClock)
<1>1. /\ hostPc = "loop" /\ t /= End /\ Host!ServiceBecomes(r, "action")
      /\ hostStarts' = hostStarts /\ hostStarting' = hostStarting
      /\ UNCHANGED <<nextTrigger, quit, hostClock, mutex, tpc, deadline, hostEvents, hostTime>>
  BY HostOperations DEF Host!TriggerTimer, Host!threadVars
<1>2. ~HalfStarting /\ HostLooping
  BY <1>1 DEF HalfStarting, HostLooping
<1>3. /\ End \notin Timers /\ ServiceInv(Timers, hostService) /\ NextInv(Timers, hostService)
      /\ hostClock \in Int
  BY <1>2, TimersAssumption, HostTypes DEF HostBookInv
<1>4. t \notin SingleShots => hostService.triggerPeriod[t] /= 0
  BY <1>1, <1>2, <1>3 DEF HostBookInv, ServiceInv, ServiceOver, Timers
<1>5. /\ t \in Timers /\ hostService.armed[t]
      /\ ServiceInv(Timers, r)
      /\ r.timerIterator /= t
      /\ r.holdUpdate = hostService.holdUpdate /\ r.triggerPeriod = hostService.triggerPeriod
      /\ \A u \in Timers : u /= t => /\ r.armed[u] = hostService.armed[u]
                                     /\ r.triggerTime[u] = hostService.triggerTime[u]
      /\ NextInv(Timers, hostService) => NextInv(Timers, r)
  BY <1>1, <1>3, <1>4, Triggers
<1> HIDE DEF t, r
<1>6. \A u \in Repeaters : r.armed[u] => r.triggerPeriod[u] /= 0
  BY <1>2, <1>4, <1>5, TimersAssumption DEF HostBookInv, Timers
<1>7. /\ hostStarts' \in 0 .. HostMaxStarts
      /\ hostStarting' \in [timer : Timers \cup {End}, duration : Nat, caller : {"idle", "action"}]
  BY <1>1, HostTypes DEF HostBookInv
<1>8. HostTakes(r, "action")
  BY <1>1, <1>2, <1>3, <1>5, <1>6, <1>7 DEF HostTakes
<1> QED
  BY <1>8, HostBecomes

(***************************************************************************)
(* The loop is over, and the other thread is told.                         *)
(***************************************************************************)
LEMMA HostFinishLoopStep ==
    ASSUME HostBookInv, ThreadsInv, Host!FinishLoop
    PROVE  HostBookInv' /\ ThreadsInv'
<1>1. /\ hostPc = "loop" /\ hostPc' = "idle" /\ hostService' = EndProgressed(hostService)
      /\ nextTrigger' = hostService'.nextTrigger
      /\ mutex' = "free" /\ hostTime' = 0
      /\ tpc' = IF tpc = "waiting" THEN "woken" ELSE tpc
      /\ UNCHANGED <<quit, hostClock, deadline, return, hostStarting, hostEvents, hostStarts>>
  BY HostOperations DEF Host!FinishLoop, Host!NotifyOne
<1>2. End \notin Timers /\ ServiceInv(Timers, hostService)
  BY TimersAssumption DEF HostBookInv
<1>3. ~HalfStarting /\ ~HalfStarting' /\ ~HostLooping'
  BY <1>1 DEF HalfStarting, HostLooping
<1>4. /\ ServiceInv(Timers, hostService')
      /\ NextInv(Timers, hostService) => NextInv(Timers, hostService')
      /\ ~hostService'.holdUpdate
      /\ hostService'.armed = hostService.armed
      /\ hostService'.triggerTime = hostService.triggerTime
      /\ hostService'.triggerPeriod = hostService.triggerPeriod
  BY <1>1, <1>2, Ends
<1>5. Host!TypeOK'
  <2>1. hostService' \in ServiceOver(Timers) /\ nextTrigger' \in Int
    BY <1>1, <1>4 DEF ServiceInv, ServiceOver
  <2>2. tpc' \in {"lock", "test", "wait", "waiting", "woken", "ended"}
    BY <1>1, HostTypes DEF HostBookInv
  <2> QED
    BY <1>1, <2>1, <2>2, HostOperations DEF Host!TypeOK, HostBookInv
<1>6. HostBookInv'
  BY <1>1, <1>3, <1>4, <1>5 DEF HostBookInv
<1>7. ThreadsInv'
  BY <1>1, <1>3 DEF ThreadsInv
<1> QED
  BY <1>6, <1>7

(***************************************************************************)
(* Both hold after every step.                                             *)
(***************************************************************************)
LEMMA HostKeepsInv ==
    ASSUME HostBookInv, ThreadsInv, [Host!Next]_hostVars
    PROVE  HostBookInv' /\ ThreadsInv'
<1>1. CASE Host!Next
  <2>1. CASE Host!WaitForTrigger \/ Host!WakesSpuriously \/ Host!Tick \/ Host!Quit
    BY <2>1, HostOtherSteps
  <2>2. CASE Host!Dispatcher
    BY <2>2, HostOtherSteps, HostFinishStartStep, HostLoopSteps, HostTriggerStep,
    HostFinishLoopStep
       DEF Host!Dispatcher
  <2>3. CASE \E t \in Host!Timers, d \in HostDurations : Host!Start(t, d)
    BY <2>3, HostStartStep, HostOperations
  <2>4. CASE \E t \in Host!Timers : Host!CancelTimer(t)
    BY <2>4, HostCancelStep, HostOperations
  <2> QED
    BY <1>1, <2>1, <2>2, <2>3, <2>4 DEF Host!Next
<1>2. CASE UNCHANGED hostVars
  <2>1. /\ hostService' = hostService /\ nextTrigger' = nextTrigger /\ quit' = quit
        /\ hostClock' = hostClock /\ mutex' = mutex /\ tpc' = tpc /\ deadline' = deadline
        /\ hostPc' = hostPc /\ return' = return /\ hostStarting' = hostStarting
        /\ hostEvents' = hostEvents /\ hostTime' = hostTime /\ hostStarts' = hostStarts
    BY <1>2 DEF hostVars
  <2>2. Host!TypeOK'
    BY <2>1, HostOperations DEF Host!TypeOK, HostBookInv
  <2>3. HostBookInv'
    BY <2>1, <2>2 DEF HostBookInv, HalfStarting, HostLooping
  <2>4. ThreadsInv'
    BY <2>1 DEF ThreadsInv, HalfStarting, HostLooping
  <2> QED
    BY <2>3, <2>4
<1> QED
  BY <1>1, <1>2

(***************************************************************************)
(* What the run checks of this service follows.                            *)
(***************************************************************************)
LEMMA HostConsistent ==
    ASSUME HostBookInv, ThreadsInv
    PROVE  Host!TypeOK /\ Host!TriggerKnown
<1>1. ASSUME hostPc = "idle", hostEvents = 0
      PROVE  nextTrigger = Host!Earliest(hostService, {t \in Host!Timers : hostService.armed[t]})
  <2>1. ~HalfStarting /\ ~HostLooping
    BY <1>1 DEF HalfStarting, HostLooping
  <2>2. ServiceInv(Timers, hostService) /\ NextInv(Timers, hostService)
    BY <2>1 DEF HostBookInv
  <2>3. IsEarliest(hostService, Armed(Timers, hostService), hostService.nextTrigger)
    BY <2>1, <2>2 DEF NextInv, HostBookInv
  <2>4. Armed(Timers, hostService) \in SUBSET Timers
    BY DEF Armed
  <2>5. /\ hostService \in ServiceOver(Timers)
        /\ \E b \in Int : \A t \in Timers : b <= hostService.triggerTime[t]
    BY <2>2 DEF ServiceInv
  <2>6. hostService.nextTrigger = Earliest(hostService, Armed(Timers, hostService))
    BY <2>3, <2>4, <2>5, EarliestFound
  <2> QED
    BY <1>1, <2>1, <2>6, HostOperations DEF Armed, ThreadsInv
<1> QED
  BY <1>1 DEF Host!TriggerKnown, HostBookInv, ThreadsInv
-----------------------------------------------------------------------------
(* DerivedTimerService *)

TimersOfBase == {Own} \cup BaseTimers

(***************************************************************************)
(* The operations of the base and of the derived service are the ones      *)
(* above.                                                                  *)
(***************************************************************************)
LEMMA BaseOperations ==
    /\ LET s == Derived!Base!NoTimers
       IN /\ s \in ServiceOver(TimersOfBase)
          /\ s.scheduledTimers = << >> /\ s.timerIterator = End
          /\ s.nextTrigger = Never /\ ~s.holdUpdate /\ ~s.updateNeeded
          /\ \A t \in TimersOfBase : ~s.armed[t] /\ s.triggerTime[t] = 0
    /\ Derived!Base!ServiceType = ServiceOver(TimersOfBase)
    /\ \A s, t, x : Derived!Base!SetNextTriggerTime(s, t, x) = SetNextTriggerTime(s, t, x)
    /\ \A s, t : Derived!Base!Cancel(s, t) = Cancel(s, t)
    /\ \A s, n : \A t \in TimersOfBase : Derived!Base!ComputeNextTriggerTime(s, t, n) = Cancel(s, t)
    /\ \A d, n, p : \A t \in TimersOfBase : Derived!Base!FirstTriggerTime(t, d, n, p) = n + d + p
    /\ \A s : Derived!Base!BeginProgressed(s) = BeginProgressed(s)
    /\ \A s : Derived!Base!Advance(s) = Advance(s)
    /\ \A s : Derived!Base!EndProgressed(s) = EndProgressed(s)
    /\ \A s, t, n : Derived!Base!Due(s, t, n) <=> s.triggerTime[t] <= n
<1> USE DEF Derived!Base!Earliest, Earliest, Derived!Base!Scheduled, Scheduled,
            Derived!Base!ComputeNextTrigger, ComputeNextTrigger
<1> DEFINE s0 == Derived!Base!NoTimers
<1>1. /\ s0 \in ServiceOver(TimersOfBase)
      /\ s0.scheduledTimers = << >> /\ s0.timerIterator = End
      /\ s0.nextTrigger = Never /\ ~s0.holdUpdate /\ ~s0.updateNeeded
      /\ \A t \in TimersOfBase : ~s0.armed[t] /\ s0.triggerTime[t] = 0
  <2>1. s0 = [scheduledTimers |-> << >>, timerIterator |-> End, nextTrigger |-> Never,
              holdUpdate |-> FALSE, updateNeeded |-> FALSE,
              armed |-> [t \in TimersOfBase |-> FALSE],
              triggerTime |-> [t \in TimersOfBase |-> 0],
              triggerPeriod |-> [t \in TimersOfBase |-> 0]]
    BY DEF Derived!Base!NoTimers, Derived!Base!Timers, TimersOfBase
  <2> HIDE DEF s0
  <2> QED
    BY <2>1, NeverAssumption, EmptySeq DEF ServiceOver
<1>2. Derived!Base!ServiceType = ServiceOver(TimersOfBase)
  BY DEF Derived!Base!ServiceType, ServiceOver, Derived!Base!Timers, TimersOfBase
<1>3. \A s, t, x : Derived!Base!SetNextTriggerTime(s, t, x) = SetNextTriggerTime(s, t, x)
  BY DEF Derived!Base!SetNextTriggerTime, SetNextTriggerTime, Derived!Base!UpdateTriggerTime,
         UpdateTriggerTime, Derived!Base!RegisterTimer, RegisterTimer
<1>4. \A s, t : Derived!Base!Cancel(s, t) = Cancel(s, t)
  BY DEF Derived!Base!Cancel, Cancel, Derived!Base!UnregisterTimer, UnregisterTimer,
         Derived!Base!After, After, Derived!Base!Index, Index, Derived!Base!RemoveAt, RemoveAt
<1>5. \A s, n : \A t \in TimersOfBase : Derived!Base!ComputeNextTriggerTime(s, t, n) = Cancel(s, t)
  BY <1>4 DEF Derived!Base!ComputeNextTriggerTime, TimersOfBase
<1>6. \A d, n, p : \A t \in TimersOfBase : Derived!Base!FirstTriggerTime(t, d, n, p) = n + d + p
  BY DEF Derived!Base!FirstTriggerTime, TimersOfBase
<1>7. \A s : Derived!Base!BeginProgressed(s) = BeginProgressed(s)
  BY DEF Derived!Base!BeginProgressed, BeginProgressed
<1>8. \A s : Derived!Base!Advance(s) = Advance(s)
  BY DEF Derived!Base!Advance, Advance, Derived!Base!After, After, Derived!Base!Index, Index
<1>9. \A s : Derived!Base!EndProgressed(s) = EndProgressed(s)
  BY DEF Derived!Base!EndProgressed, EndProgressed
<1>10. \A s, t, n : Derived!Base!Due(s, t, n) <=> s.triggerTime[t] <= n
  BY DEF Derived!Base!Due
<1> QED
  BY <1>1, <1>2, <1>3, <1>4, <1>5, <1>6, <1>7, <1>8, <1>9, <1>10

(***************************************************************************)
(* The same for the derived service.                                       *)
(***************************************************************************)
LEMMA DerivedOperations ==
    /\ Derived!Timers = Timers /\ Derived!Derived!NoTimers = NoTimers
    /\ Derived!Derived!ServiceType = ServiceOver(Timers)
    /\ \A s, t, x : Derived!Derived!SetNextTriggerTime(s, t, x) = SetNextTriggerTime(s, t, x)
    /\ \A s, t : Derived!Derived!Cancel(s, t) = Cancel(s, t)
    /\ \A s, t, n : Derived!Derived!ComputeNextTriggerTime(s, t, n) = ComputeNextTriggerTime(s, t, n)
    /\ \A s, t, d, n : Derived!Derived!SetDuration(s, t, d, n) = SetDuration(s, t, d, n)
    /\ \A t, d, n, p : Derived!Derived!FirstTriggerTime(t, d, n, p) = FirstTriggerTime(t, d, n, p)
    /\ \A s : Derived!Derived!BeginProgressed(s) = BeginProgressed(s)
    /\ \A s : Derived!Derived!Advance(s) = Advance(s)
    /\ \A s : Derived!Derived!EndProgressed(s) = EndProgressed(s)
    /\ \A s, t, n : Derived!Derived!Due(s, t, n) <=> s.triggerTime[t] <= n
    /\ \A s, ts : Derived!Derived!Earliest(s, ts) = Earliest(s, ts)
<1> USE DEF Derived!Derived!Earliest, Earliest, Derived!Derived!Scheduled, Scheduled,
            Derived!Derived!ComputeNextTrigger, ComputeNextTrigger
<1>1. Derived!Timers = Timers
  BY DEF Derived!Timers, Timers
<1>2. Derived!Derived!NoTimers = NoTimers
  BY DEF Derived!Derived!NoTimers, NoTimers, Derived!Derived!Timers, Timers
<1>3. Derived!Derived!ServiceType = ServiceOver(Timers)
  BY DEF Derived!Derived!ServiceType, ServiceOver, Derived!Derived!Timers, Timers
<1>4. \A s, t, x : Derived!Derived!SetNextTriggerTime(s, t, x) = SetNextTriggerTime(s, t, x)
  BY DEF Derived!Derived!SetNextTriggerTime, SetNextTriggerTime,
     Derived!Derived!UpdateTriggerTime,
         UpdateTriggerTime, Derived!Derived!RegisterTimer, RegisterTimer
<1>5. \A s, t : Derived!Derived!Cancel(s, t) = Cancel(s, t)
  BY DEF Derived!Derived!Cancel, Cancel, Derived!Derived!UnregisterTimer, UnregisterTimer,
         Derived!Derived!After, After, Derived!Derived!Index, Index, Derived!Derived!RemoveAt,
         RemoveAt
<1>6. \A s, t, n : Derived!Derived!ComputeNextTriggerTime(s, t, n) = ComputeNextTriggerTime(s, t, n)
  BY <1>4, <1>5 DEF Derived!Derived!ComputeNextTriggerTime, ComputeNextTriggerTime,
         Derived!Derived!RepeatTriggerTime, RepeatTriggerTime
<1>7. \A s, t, d, n : Derived!Derived!SetDuration(s, t, d, n) = SetDuration(s, t, d, n)
  BY <1>6 DEF Derived!Derived!SetDuration, SetDuration
<1>8. \A t, d, n, p : Derived!Derived!FirstTriggerTime(t, d, n, p) = FirstTriggerTime(t, d, n, p)
  BY DEF Derived!Derived!FirstTriggerTime, FirstTriggerTime
<1>9. \A s : Derived!Derived!BeginProgressed(s) = BeginProgressed(s)
  BY DEF Derived!Derived!BeginProgressed, BeginProgressed
<1>10. \A s : Derived!Derived!Advance(s) = Advance(s)
  BY DEF Derived!Derived!Advance, Advance, Derived!Derived!After, After, Derived!Derived!Index,
     Index
<1>11. \A s : Derived!Derived!EndProgressed(s) = EndProgressed(s)
  BY DEF Derived!Derived!EndProgressed, EndProgressed
<1>12. \A s, t, n : Derived!Derived!Due(s, t, n) <=> s.triggerTime[t] <= n
  BY DEF Derived!Derived!Due
<1>13. \A s, ts : Derived!Derived!Earliest(s, ts) = Earliest(s, ts)
  OBVIOUS
<1> QED
  BY <1>1, <1>2, <1>3, <1>4, <1>5, <1>6, <1>7, <1>8, <1>9, <1>10, <1>11, <1>12, <1>13

IsScaling(s) == s.shift \in Int /\ s.factor \in Nat \ {0} /\ s.start \in Int

(***************************************************************************)
(* Scaling and unscaling keep the order of times.                          *)
(***************************************************************************)
LEMMA Ordered ==
    ASSUME NEW s, IsScaling(s), NEW a \in Int, NEW b \in Int, a <= b
    PROVE  /\ Derived!ScaleTime(s, a) \in Int
           /\ Derived!ScaleTime(s, a) <= Derived!ScaleTime(s, b)
           /\ Derived!UnscaleTime(s, a) \in Int
           /\ Derived!UnscaleTime(s, a) <= Derived!UnscaleTime(s, b)
<1>1. ASSUME NEW x \in Int, NEW y \in Int, NEW f \in Nat, x <= y
      PROVE  x * f \in Int /\ x * f <= y * f
  BY <1>1
<1>2. /\ Derived!ScaleTime(s, a) \in Int
      /\ Derived!ScaleTime(s, a) <= Derived!ScaleTime(s, b)
  <2> DEFINE x == a - s.start + s.shift
             y == b - s.start + s.shift
  <2>1. x \in Int /\ y \in Int /\ x <= y /\ s.factor \in Nat /\ s.start \in Int
    BY DEF IsScaling
  <2>2. /\ Derived!ScaleTime(s, a) = s.start + x * s.factor
        /\ Derived!ScaleTime(s, b) = s.start + y * s.factor
    BY DEF Derived!ScaleTime
  <2> HIDE DEF x, y
  <2>3. x * s.factor \in Int /\ y * s.factor \in Int /\ x * s.factor <= y * s.factor
    BY <1>1, <2>1
  <2> QED
    BY <2>1, <2>2, <2>3
<1>3. ASSUME NEW x \in Int, NEW f \in Nat \ {0}
      PROVE  /\ x \div f \in Int /\ (x >= 0 => x \div f >= 0)
             /\ (x \div f) * f <= x /\ x < (x \div f + 1) * f
  OBVIOUS
<1>4. ASSUME NEW x \in Int, NEW y \in Int, NEW f \in Nat \ {0}, x <= y
      PROVE  x \div f <= y \div f
  <2> DEFINE p == x \div f
             q == y \div f
  <2>1. p \in Int /\ q \in Int /\ p * f <= x /\ y < (q + 1) * f
    BY <1>3
  <2> HIDE DEF p, q
  <2>2. ASSUME ~(p <= q) PROVE FALSE
    <3>1. q + 1 <= p /\ q + 1 \in Int
      BY <2>1, <2>2
    <3>2. (q + 1) * f <= p * f /\ (q + 1) * f \in Int /\ p * f \in Int
      BY <1>1, <2>1, <3>1
    <3> QED
      BY <1>4, <2>1, <3>2
  <2>3. p <= q
    BY <2>2
  <2> QED
    BY <2>3 DEF p, q
<1>5. ASSUME NEW x \in Int, NEW y \in Int, NEW f \in Nat \ {0}, x <= y
      PROVE  Derived!Quotient(x, f) \in Int /\ Derived!Quotient(x, f) <= Derived!Quotient(y, f)
  <2>1. CASE x >= 0
    BY <1>3, <1>4, <1>5, <2>1 DEF Derived!Quotient
  <2>2. CASE ~(x >= 0) /\ y >= 0
    <3>1. (-x) \div f >= 0 /\ (-x) \div f \in Int /\ y \div f >= 0 /\ y \div f \in Int
      BY <1>3, <2>2
    <3> QED
      BY <3>1, <2>2 DEF Derived!Quotient
  <2>3. CASE ~(x >= 0) /\ ~(y >= 0)
    <3>1. -y <= -x /\ -x \in Int /\ -y \in Int
      BY <1>5
    <3>2. (-y) \div f <= (-x) \div f /\ (-y) \div f \in Int /\ (-x) \div f \in Int
      BY <1>3, <1>4, <3>1
    <3> QED
      BY <3>2, <2>3 DEF Derived!Quotient
  <2> QED
    BY <2>1, <2>2, <2>3
<1>6. /\ Derived!UnscaleTime(s, a) \in Int
      /\ Derived!UnscaleTime(s, a) <= Derived!UnscaleTime(s, b)
  <2>1. /\ a - s.start \in Int /\ b - s.start \in Int /\ a - s.start <= b - s.start
        /\ s.factor \in Nat \ {0} /\ s.start \in Int /\ s.shift \in Int
    BY DEF IsScaling
  <2>2. /\ Derived!Quotient(a - s.start, s.factor) \in Int
        /\ Derived!Quotient(b - s.start, s.factor) \in Int
        /\ Derived!Quotient(a - s.start, s.factor) <= Derived!Quotient(b - s.start, s.factor)
    BY <1>5, <2>1
  <2> QED
    BY <2>1, <2>2 DEF Derived!UnscaleTime
<1> QED
  BY <1>2, <1>6
(***************************************************************************)
(* What is scaled after it was unscaled comes out less than a factor late, *)
(* and not early if it is a whole time of the base.                        *)
(***************************************************************************)
LEMMA Rounded ==
    ASSUME NEW s, IsScaling(s), NEW a \in Int
    PROVE  LET r == Derived!ScaleTime(s, Derived!UnscaleTime(s, a))
           IN  /\ r \in Int /\ r < a + s.factor
               /\ (a - s.start) % s.factor = 0 => a <= r
<1> DEFINE x == a - s.start
           f == s.factor
           q == Derived!Quotient(x, f)
<1>1. x \in Int /\ f \in Nat \ {0} /\ s.start \in Int /\ s.shift \in Int /\ a = x + s.start
  BY DEF IsScaling
<1>2. ASSUME NEW y \in Int, NEW g \in Nat \ {0}
      PROVE  /\ y \div g \in Int /\ (y \div g) * g \in Int
             /\ (y \div g) * g <= y /\ y < (y \div g) * g + g
             /\ y % g = 0 => (y \div g) * g = y
  <2>1. y \div g \in Int /\ (y \div g) * g <= y /\ y < (y \div g) * g + g
    OBVIOUS
  <2>2. y = g * (y \div g) + (y % g)
    OBVIOUS
  <2> QED
    BY <2>1, <2>2
<1>3. q \in Int /\ q * f \in Int /\ q * f < x + f /\ (x % f = 0 => x <= q * f)
  <2>1. CASE x >= 0
    <3>1. q = x \div f
      BY <2>1 DEF Derived!Quotient
    <3> HIDE DEF x, f, q
    <3> QED
      BY <1>1, <1>2, <3>1
  <2>2. CASE ~(x >= 0)
    <3> DEFINE p == (-x) \div f
    <3>1. q = -p
      BY <2>2 DEF Derived!Quotient
    <3> HIDE DEF x, f, q
    <3>2. p \in Int /\ p * f \in Int /\ p * f <= -x /\ -x < p * f + f
      BY <1>1, <1>2
    <3> HIDE DEF p
    <3>3. q * f = -(p * f)
      BY <1>1, <3>1, <3>2
    <3> QED
      BY <1>1, <3>1, <3>2, <3>3
  <2> QED
    BY <2>1, <2>2
<1>4. Derived!ScaleTime(s, Derived!UnscaleTime(s, a)) = s.start + q * f
  <2>1. Derived!UnscaleTime(s, a) = q - s.shift + s.start
    BY DEF Derived!UnscaleTime
  <2>2. Derived!ScaleTime(s, Derived!UnscaleTime(s, a))
          = s.start + ((q - s.shift + s.start) - s.start + s.shift) * f
    BY <2>1 DEF Derived!ScaleTime
  <2> HIDE DEF q, f, x
  <2>3. (q - s.shift + s.start) - s.start + s.shift = q
    BY <1>1, <1>3
  <2> QED
    BY <2>2, <2>3
<1> HIDE DEF q
<1> QED
  BY <1>1, <1>3, <1>4

-----------------------------------------------------------------------------
\* The timer of the base is armed for the time that nextTrigger says
OwnTime(b, n) == b.armed[Own] => b.triggerTime[Own] = n + BaseResolution

\* The derived service waits for the next of its timers
Awaits(b, d, s, n) ==
    /\ b.armed[Own] <=> d.nextTrigger /= Never
    /\ d.nextTrigger /= Never => n = Derived!UnscaleTime(s, d.nextTrigger)

(***************************************************************************)
(* Lists and times of the two services.                                    *)
(***************************************************************************)
DerivedBookInv ==
    /\ Derived!TypeOK
    /\ scaling.factor /= 0
    /\ ServiceInv(TimersOfBase, base) /\ ServiceInv(Timers, derived)
    /\ base.holdUpdate <=> derivedPc /= "idle"
    /\ derived.holdUpdate <=> derivedPc \in {"derived", "action"}
    /\ \A t \in Repeaters : derived.armed[t] => derived.triggerPeriod[t] /= 0
    /\ OwnTime(base, derivedTrigger)
    /\ derivedPc /= "idle" => time.base = clock
    /\ derivedPc \in {"derived", "action"} => time.derived <= Derived!Now

(***************************************************************************)
(* Who waits for whom.  The base has its next trigger time right, and so   *)
(* has the derived service.  During the derived loop its timer of the base *)
(* is not armed; the timers that made the loop begin are ahead of it, so   *)
(* that the next trigger time is another one when the loop is over, and    *)
(* NextTriggerChanged is called.                                           *)
(***************************************************************************)
DerivedWaitInv ==
    /\ NextInv(TimersOfBase, base) /\ NextInv(Timers, derived)
    /\ derivedPc \in {"idle", "base"} => Awaits(base, derived, scaling, derivedTrigger)
    /\ derivedPc \in {"derived", "action"} =>
          /\ ~base.armed[Own]
          /\ derived.nextTrigger <= time.derived
          /\ \A t \in Timers : derived.armed[t] /\ derived.triggerTime[t] <= derived.nextTrigger
                                  => Ahead(derived, t)

\* Trigger times are whole times of the base, and before TimePoint::max()
WholeTimes == Derived!Whole(scaling, derived)
TimesBelowNever == \A t \in Timers : derived.armed[t] => derived.triggerTime[t] < Never
(***************************************************************************)
(* Constants.                                                              *)
(***************************************************************************)
LEMMA DerivedConstants ==
    /\ Own \in TimersOfBase /\ Own \notin BaseTimers /\ BaseTimers \subseteq TimersOfBase
    /\ End \notin TimersOfBase /\ End \notin Timers
    /\ BaseResolution \in Nat /\ Never \in Nat
    /\ DerivedDurations \subseteq Nat \ {0} /\ Shifts \subseteq Int /\ Factors \subseteq Nat \ {0}
    /\ DerivedMaxTime \in Nat /\ DerivedMaxStarts \in Nat /\ MaxShifts \in Nat
BY DerivedAssumption, TimersAssumption DEF Derived!DerivedAssumption, TimersOfBase

(***************************************************************************)
(* The parts of the type.                                                  *)
(***************************************************************************)
LEMMA DerivedTypes ==
    Derived!TypeOK <=>
       /\ base \in ServiceOver(TimersOfBase) /\ derived \in ServiceOver(Timers)
       /\ scaling \in [shift : Int, factor : Nat, start : Int]
       /\ derivedTrigger \in Int /\ clock \in 0 .. DerivedMaxTime
       /\ derivedPc \in {"idle", "base", "derived", "action"}
       /\ time \in [base : Int, derived : Int]
       /\ derivedStarts \in 0 .. DerivedMaxStarts /\ shifts \in 0 .. MaxShifts
BY BaseOperations, DerivedOperations DEF Derived!TypeOK

(***************************************************************************)
(* NextTriggerChanged: the timer of the base is armed exactly when there   *)
(* is a derived timer to wait for.                                         *)
(***************************************************************************)
LEMMA Changes ==
    ASSUME NEW b, ServiceInv(TimersOfBase, b), NEW d, d.nextTrigger \in Int,
           NEW s, IsScaling(s), NEW n \in Int
    PROVE  LET r == Derived!NextTriggerChanged(b, d, s)
               m == Derived!WaitsFor(d, s, n)
           IN  /\ ServiceInv(TimersOfBase, r) /\ r.holdUpdate = b.holdUpdate
               /\ m \in Int /\ OwnTime(r, m) /\ Awaits(r, d, s, m)
               /\ NextInv(TimersOfBase, b)
                    /\ (b.armed[Own] /\ d.nextTrigger /= Never =>
                            \/ b.triggerTime[Own] = b.nextTrigger
                            \/ b.triggerTime[Own] <= Derived!UnscaleTime(s, d.nextTrigger) + BaseResolution)
                  => NextInv(TimersOfBase, r)
<1> DEFINE r == Derived!NextTriggerChanged(b, d, s)
           m == Derived!WaitsFor(d, s, n)
           u == Derived!UnscaleTime(s, d.nextTrigger)
<1>1. Own \in TimersOfBase /\ End \notin TimersOfBase /\ BaseResolution \in Nat
  BY DerivedConstants
<1>2. /\ b.armed \in [TimersOfBase -> BOOLEAN] /\ b.triggerTime \in [TimersOfBase -> Int]
  BY DEF ServiceInv, ServiceOver
<1>3. u \in Int
  BY Ordered
<1>4. CASE d.nextTrigger /= Never
  <2> DEFINE x == u + BaseResolution
  <2>1. x \in Int /\ m = u
    BY <1>1, <1>3, <1>4 DEF Derived!WaitsFor
  <2>2. r = SetNextTriggerTime(b, Own, x)
    BY <1>4, BaseOperations DEF Derived!NextTriggerChanged
  <2> HIDE DEF x, r
  <2>3. /\ SameBut(TimersOfBase, b, r)
        /\ r.armed = [b.armed EXCEPT ![Own] = TRUE]
        /\ r.triggerTime = [b.triggerTime EXCEPT ![Own] = x]
        /\ NextInv(TimersOfBase, b)
             /\ (b.armed[Own] => b.triggerTime[Own] = b.nextTrigger \/ b.triggerTime[Own] <= x)
           => NextInv(TimersOfBase, r)
    BY <1>1, <2>1, <2>2, Sets
  <2>4. r.armed[Own] /\ r.triggerTime[Own] = x
    BY <1>1, <1>2, <2>3
  <2> HIDE DEF m, u
  <2>5. OwnTime(r, m) /\ Awaits(r, d, s, m)
    BY <1>4, <2>1, <2>4 DEF OwnTime, Awaits, x, u
  <2> QED
    BY <1>3, <1>4, <2>1, <2>3, <2>5 DEF SameBut, x, u, r, m
<1>5. CASE d.nextTrigger = Never
  <2>1. m = n /\ r = Cancel(b, Own)
    BY <1>5, BaseOperations DEF Derived!WaitsFor, Derived!NextTriggerChanged
  <2> HIDE DEF r, m
  <2>2. /\ ServiceInv(TimersOfBase, r)
        /\ r.holdUpdate = b.holdUpdate
        /\ r.triggerPeriod = b.triggerPeriod
        /\ r.armed = [b.armed EXCEPT ![Own] = FALSE]
        /\ r.triggerTime = [b.triggerTime EXCEPT ![Own] = 0]
        /\ \A v : Ahead(b, v) /\ v /= Own => Ahead(r, v)
        /\ NextInv(TimersOfBase, b) => NextInv(TimersOfBase, r)
    BY <1>1, <2>1, Cancels
  <2>3. ~r.armed[Own]
    BY <1>1, <1>2, <2>2
  <2> QED
    BY <1>5, <2>1, <2>2, <2>3 DEF OwnTime, Awaits, r, m
<1> QED
  BY <1>4, <1>5

(***************************************************************************)
(* What a change of the derived timers, to d and then to e, does to the    *)
(* base.                                                                   *)
(***************************************************************************)
LEMMA Follows ==
    ASSUME DerivedBookInv, NEW d, d.nextTrigger \in Int, NEW e, e.nextTrigger \in Int,
           Derived!DerivedBecomes(base, d, e)
    PROVE  /\ derived' = e
           /\ ServiceInv(TimersOfBase, base') /\ base'.holdUpdate = base.holdUpdate
           /\ derivedTrigger' \in Int /\ OwnTime(base', derivedTrigger')
           /\ d.nextTrigger = derived.nextTrigger /\ e.nextTrigger = derived.nextTrigger
                 => base' = base /\ derivedTrigger' = derivedTrigger
           /\ d.nextTrigger /= derived.nextTrigger \/ e.nextTrigger /= derived.nextTrigger
                 => Awaits(base', e, scaling, derivedTrigger')
<1> DEFINE c == Derived!NextTriggerChanged(base, d, scaling)
           m == Derived!WaitsFor(d, scaling, derivedTrigger)
<1>1. /\ ServiceInv(TimersOfBase, base) /\ IsScaling(scaling) /\ derivedTrigger \in Int
      /\ OwnTime(base, derivedTrigger)
  BY DerivedTypes DEF DerivedBookInv, IsScaling
<1>2. /\ ServiceInv(TimersOfBase, c) /\ c.holdUpdate = base.holdUpdate
      /\ m \in Int /\ OwnTime(c, m) /\ Awaits(c, d, scaling, m)
  BY <1>1, Changes
<1>3. derived' = e
  BY DEF Derived!DerivedBecomes
<1>4. CASE e.nextTrigger = d.nextTrigger /\ d.nextTrigger = derived.nextTrigger
  <2>1. base' = base /\ derivedTrigger' = derivedTrigger
    BY <1>4 DEF Derived!DerivedBecomes
  <2> QED
    BY <1>1, <1>3, <1>4, <2>1
<1>5. CASE e.nextTrigger = d.nextTrigger /\ d.nextTrigger /= derived.nextTrigger
  <2>1. base' = c /\ derivedTrigger' = Derived!WaitsFor(e, scaling, m)
    BY <1>5 DEF Derived!DerivedBecomes
  <2>2. derivedTrigger' = m
    BY <1>5, <2>1 DEF Derived!WaitsFor
  <2>3. Awaits(c, e, scaling, m)
    BY <1>2, <1>5 DEF Awaits
  <2> HIDE DEF c, m
  <2> QED
    BY <1>2, <1>3, <1>5, <2>1, <2>2, <2>3
<1>6. CASE e.nextTrigger /= d.nextTrigger
  <2> DEFINE b == IF d.nextTrigger /= derived.nextTrigger THEN c ELSE base
             r == Derived!NextTriggerChanged(b, e, scaling)
             k == Derived!WaitsFor(e, scaling, m)
  <2>1. base' = r /\ derivedTrigger' = k
    <3>1. e.nextTrigger /= derived.nextTrigger \/ d.nextTrigger /= derived.nextTrigger
      BY <1>6
    <3> QED
      BY <1>6, <3>1 DEF Derived!DerivedBecomes
  <2>2. ServiceInv(TimersOfBase, b) /\ b.holdUpdate = base.holdUpdate
    BY <1>1, <1>2
  <2> HIDE DEF b, m
  <2>3. /\ ServiceInv(TimersOfBase, r) /\ r.holdUpdate = b.holdUpdate
        /\ k \in Int /\ OwnTime(r, k) /\ Awaits(r, e, scaling, k)
    BY <1>1, <1>2, <2>2, Changes
  <2> HIDE DEF r, k
  <2> QED
    BY <1>3, <1>6, <2>1, <2>2, <2>3
<1> QED
  BY <1>4, <1>5, <1>6
(***************************************************************************)
(* While the loop over the timers runs, cancelling a timer, or setting     *)
(* another time for an armed one, leaves the next trigger time.            *)
(***************************************************************************)
LEMMA Held ==
    ASSUME NEW T, NEW s \in ServiceOver(T), s.holdUpdate, NEW t \in T
    PROVE  /\ Cancel(s, t).nextTrigger = s.nextTrigger
           /\ \A x \in Int : s.armed[t] \/ s.nextTrigger <= x
                                => SetNextTriggerTime(s, t, x).nextTrigger = s.nextTrigger
<1>1. Cancel(s, t).nextTrigger = s.nextTrigger
  <2> DEFINE q == [s EXCEPT !.timerIterator = IF s.timerIterator = t THEN After(s, t)
                                              ELSE s.timerIterator,
                            !.scheduledTimers = RemoveAt(s.scheduledTimers, Index(s, t))]
             u == UnregisterTimer(s, t, s.triggerTime[t])
  <2>1. q.nextTrigger = s.nextTrigger /\ q.holdUpdate
        /\ [q EXCEPT !.updateNeeded = TRUE].nextTrigger = s.nextTrigger
    BY DEF ServiceOver
  <2>2. u = q \/ u = [q EXCEPT !.updateNeeded = TRUE]
    <3>1. u = IF s.triggerTime[t] = q.nextTrigger THEN ComputeNextTrigger(q) ELSE q
      BY DEF UnregisterTimer
    <3> HIDE DEF q, u
    <3> QED
      BY <3>1, <2>1 DEF ComputeNextTrigger
  <2>3. "nextTrigger" \in DOMAIN q /\ u.nextTrigger = s.nextTrigger
    <3>1. "nextTrigger" \in DOMAIN s
      BY DEF ServiceOver
    <3> QED
      BY <2>1, <2>2, <3>1
  <2>4. /\ [u EXCEPT !.triggerTime[t] = 0, !.armed[t] = FALSE].nextTrigger = u.nextTrigger
        /\ [s EXCEPT !.triggerTime[t] = 0, !.armed[t] = FALSE].nextTrigger = s.nextTrigger
    <3>1. "nextTrigger" \in DOMAIN u /\ "nextTrigger" \in DOMAIN s
      BY <2>2, <2>3 DEF ServiceOver
    <3> HIDE DEF u
    <3> QED
      BY <3>1
  <2> HIDE DEF u
  <2>5. \/ Cancel(s, t) = [u EXCEPT !.triggerTime[t] = 0, !.armed[t] = FALSE]
        \/ Cancel(s, t) = [s EXCEPT !.triggerTime[t] = 0, !.armed[t] = FALSE]
    BY DEF Cancel, u
  <2> QED
    BY <2>3, <2>4, <2>5
<1>2. ASSUME NEW x \in Int, s.armed[t] \/ s.nextTrigger <= x
      PROVE  SetNextTriggerTime(s, t, x).nextTrigger = s.nextTrigger
  <2> DEFINE tt == [s.triggerTime EXCEPT ![t] = x]
             r == [s EXCEPT !.triggerTime = tt]
             u == IF s.armed[t] THEN UpdateTriggerTime(r, s.triggerTime[t]) ELSE RegisterTimer(r, t)
  <2>0. s.triggerTime \in [T -> Int] /\ s.nextTrigger \in Int /\ tt[t] = x
    BY DEF ServiceOver
  <2>1. /\ "nextTrigger" \in DOMAIN r /\ r.nextTrigger = s.nextTrigger /\ r.holdUpdate
        /\ r.triggerTime[t] = x
    BY <2>0 DEF ServiceOver
  <2>2. SetNextTriggerTime(s, t, x) = [u EXCEPT !.armed[t] = TRUE]
    BY DEF SetNextTriggerTime
  <2>3. "nextTrigger" \in DOMAIN u /\ u.nextTrigger = s.nextTrigger
    <3> HIDE DEF r
    <3>1. CASE s.armed[t]
      BY <2>1, <3>1 DEF UpdateTriggerTime, ComputeNextTrigger
    <3>2. CASE ~s.armed[t]
      BY <1>2, <2>0, <2>1, <3>2 DEF RegisterTimer
    <3> QED
      BY <3>1, <3>2
  <2> HIDE DEF u
  <2> QED
    BY <2>2, <2>3
<1> QED
  BY <1>1, <1>2

(***************************************************************************)
(* Start, of a single shot or of a repeating timer: to first, and then to  *)
(* e.                                                                      *)
(***************************************************************************)
LEMMA Restarts ==
    ASSUME NEW s, ServiceInv(Timers, s), NEW t \in Timers, NEW d \in Nat \ {0}, NEW n \in Int,
           NEW p \in Nat,
           \A u \in Repeaters : s.armed[u] => s.triggerPeriod[u] /= 0
    PROVE  LET first == SetNextTriggerTime(s, t, FirstTriggerTime(t, d, n, p))
               e == IF t \in Repeaters THEN SetDuration(first, t, d, n) ELSE first
           IN  /\ ServiceInv(Timers, first) /\ ServiceInv(Timers, e)
               /\ e.holdUpdate = s.holdUpdate
               /\ \A u \in Repeaters : e.armed[u] => e.triggerPeriod[u] /= 0
               /\ e.armed = [s.armed EXCEPT ![t] = TRUE]
               /\ \A u : Ahead(s, u) => Ahead(e, u)
               /\ \E x \in Int :
                     /\ x > n /\ e.triggerTime = [s.triggerTime EXCEPT ![t] = x]
                     /\ NextInv(Timers, s)
                          /\ (s.armed[t] => s.triggerTime[t] = s.nextTrigger \/ s.triggerTime[t] <= x)
                        => /\ NextInv(Timers, e)
                           /\ ~s.holdUpdate => first.nextTrigger <= e.nextTrigger
               /\ s.holdUpdate /\ s.nextTrigger <= n
                     => first.nextTrigger = s.nextTrigger /\ e.nextTrigger = s.nextTrigger
<1> DEFINE y == FirstTriggerTime(t, d, n, p)
           first == SetNextTriggerTime(s, t, y)
           e == IF t \in Repeaters THEN SetDuration(first, t, d, n) ELSE first
<1>1. /\ y \in Int /\ n <= y /\ (t \in SingleShots => n < y)
      /\ End \notin Timers
  BY TimersAssumption DEF FirstTriggerTime
<1> HIDE DEF y
<1>2. /\ SameBut(Timers, s, first)
      /\ first.armed = [s.armed EXCEPT ![t] = TRUE]
      /\ first.triggerTime = [s.triggerTime EXCEPT ![t] = y]
      /\ NextInv(Timers, s)
           /\ (s.armed[t] => s.triggerTime[t] = s.nextTrigger \/ s.triggerTime[t] <= y)
         => NextInv(Timers, first)
  BY <1>1, Sets
<1>3. \A z \in Int :
         NextInv(Timers, s)
           /\ (s.armed[t] => s.triggerTime[t] = s.nextTrigger \/ s.triggerTime[t] <= y + z)
         => HalfStarted(Timers, first, t, z)
  BY <1>1, Sets
<1>4. /\ s \in ServiceOver(Timers) /\ s.armed \in [Timers -> BOOLEAN]
      /\ s.triggerTime \in [Timers -> Int] /\ s.nextTrigger \in Int
      /\ s.triggerPeriod \in [Timers -> Nat]
  BY DEF ServiceInv, ServiceOver
<1>5. s.holdUpdate /\ s.nextTrigger <= n => first.nextTrigger = s.nextTrigger
  BY <1>1, <1>4, Held
<1> HIDE DEF first
<1>6. /\ ServiceInv(Timers, first) /\ first.holdUpdate = s.holdUpdate
      /\ first.triggerPeriod = s.triggerPeriod /\ \A u : Ahead(s, u) => Ahead(first, u)
  BY <1>2 DEF SameBut
<1>7. /\ first \in ServiceOver(Timers) /\ first.armed[t] /\ first.triggerTime[t] = y
      /\ first.armed \in [Timers -> BOOLEAN] /\ first.nextTrigger \in Int
      /\ first.triggerTime \in [Timers -> Int]
  BY <1>2, <1>4, <1>6 DEF ServiceInv, ServiceOver
<1>8. CASE t \notin Repeaters
  <2>1. e = first /\ n < y
    BY <1>1, <1>8 DEF Timers
  <2>2. \A u \in Repeaters : first.armed[u] => first.triggerPeriod[u] /= 0
    BY <1>2, <1>4, <1>6, <1>8 DEF Timers
  <2>3. first.nextTrigger <= first.nextTrigger
    BY <1>7
  <2>4. \E x \in Int :
           /\ x > n /\ first.triggerTime = [s.triggerTime EXCEPT ![t] = x]
           /\ NextInv(Timers, s)
                /\ (s.armed[t] => s.triggerTime[t] = s.nextTrigger \/ s.triggerTime[t] <= x)
              => /\ NextInv(Timers, first)
                 /\ ~s.holdUpdate => first.nextTrigger <= first.nextTrigger
    <3> y \in Int
      BY <1>1
    <3> WITNESS y \in Int
    <3> QED
      BY <1>1, <1>2, <2>1, <2>3
  <2> HIDE DEF e
  <2> QED
    BY <1>2, <1>5, <1>6, <2>1, <2>2, <2>4 DEF first, e, y
<1>9. CASE t \in Repeaters
  <2>1. e = SetDuration(first, t, d, n) /\ t \notin SingleShots
    BY <1>9, TimersAssumption
  <2> HIDE DEF e
  <2>2. /\ ServiceInv(Timers, e)
        /\ e.timerIterator = first.timerIterator /\ e.holdUpdate = first.holdUpdate
        /\ e.triggerPeriod = [first.triggerPeriod EXCEPT ![t] = d]
        /\ e.armed = [first.armed EXCEPT ![t] = TRUE]
        /\ \E x \in Int :
              /\ e.triggerTime = [first.triggerTime EXCEPT ![t] = x]
              /\ x > n /\ first.triggerTime[t] + d <= x
              /\ \A z \in Nat : HalfStarted(Timers, first, t, z) /\ first.armed[t]
                                  /\ first.triggerTime[t] + z <= x
                                    => NextInv(Timers, e)
        /\ \A u : Ahead(first, u) => Ahead(e, u)
    BY <1>1, <1>6, <2>1, SetsDuration
  <2>3. PICK x \in Int :
           /\ e.triggerTime = [first.triggerTime EXCEPT ![t] = x]
           /\ x > n /\ first.triggerTime[t] + d <= x
           /\ \A z \in Nat : HalfStarted(Timers, first, t, z) /\ first.armed[t]
                               /\ first.triggerTime[t] + z <= x
                                 => NextInv(Timers, e)
    BY <2>2
  <2>4. /\ e.armed = [s.armed EXCEPT ![t] = TRUE]
        /\ e.triggerTime = [s.triggerTime EXCEPT ![t] = x]
    BY <1>2, <1>4, <2>2, <2>3
  <2>5. \A u \in Repeaters : e.armed[u] => e.triggerPeriod[u] /= 0
    <3> SUFFICES ASSUME NEW u \in Repeaters, e.armed[u] PROVE e.triggerPeriod[u] /= 0
      OBVIOUS
    <3>1. u \in Timers
      BY DEF Timers
    <3>2. CASE u = t
      BY <1>4, <1>6, <2>2, <3>1, <3>2
    <3>3. CASE u /= t
      BY <1>4, <1>6, <2>2, <2>4, <3>1, <3>3
    <3> QED
      BY <3>2, <3>3
  <2> DEFINE z == x - y
  <2>6. z \in Nat /\ y + z = x /\ first.triggerTime[t] + z <= x
    BY <1>1, <1>7, <2>3
  <2>7. ASSUME NextInv(Timers, s),
               s.armed[t] => s.triggerTime[t] = s.nextTrigger \/ s.triggerTime[t] <= x
        PROVE  NextInv(Timers, e) /\ (~s.holdUpdate => first.nextTrigger <= e.nextTrigger)
    <3> HIDE DEF z
    <3>1. HalfStarted(Timers, first, t, z)
      <4>1. z \in Int /\ (s.armed[t] => s.triggerTime[t] = s.nextTrigger \/ s.triggerTime[t] <= y + z)
        BY <2>6, <2>7
      <4> QED
        BY <1>3, <2>7, <4>1
    <3>2. NextInv(Timers, e)
      BY <1>7, <2>3, <2>6, <3>1
    <3>3. ASSUME ~s.holdUpdate PROVE first.nextTrigger <= e.nextTrigger
      <4>1. /\ e.nextTrigger = Never \/ \E u \in Armed(Timers, e) : e.nextTrigger = e.triggerTime[u]
        BY <1>6, <2>2, <3>2, <3>3 DEF NextInv, IsEarliest
      <4>2. /\ first.nextTrigger <= Never
            /\ \A u \in Armed(Timers, first) : u /= t => first.nextTrigger <= first.triggerTime[u]
            /\ first.nextTrigger <= x
        <5>1. \/ IsEarliest(first, Armed(Timers, first), first.nextTrigger)
              \/ /\ IsEarliest(first, Armed(Timers, first) \ {t}, first.nextTrigger)
                 /\ first.nextTrigger <= first.triggerTime[t] + z
          BY <1>6, <3>1, <3>3 DEF HalfStarted
        <5>2. t \in Armed(Timers, first)
          BY <1>7 DEF Armed
        <5>3. first.triggerTime[t] <= x
          BY <1>7, <2>3
        <5> QED
          BY <1>1, <1>7, <2>6, <5>1, <5>2, <5>3 DEF IsEarliest
      <4>3. CASE e.nextTrigger = Never
        BY <4>2, <4>3
      <4>4. CASE \E u \in Armed(Timers, e) : e.nextTrigger = e.triggerTime[u]
        <5>1. PICK u \in Armed(Timers, e) : e.nextTrigger = e.triggerTime[u]
          BY <4>4
        <5>2. u \in Timers /\ e.armed[u]
          BY <5>1 DEF Armed
        <5>3. CASE u = t
          BY <1>4, <2>4, <4>2, <5>1, <5>2, <5>3
        <5>4. CASE u /= t
          <6>1. first.armed[u] /\ e.triggerTime[u] = first.triggerTime[u]
            BY <1>7, <2>2, <2>3, <5>2, <5>4
          <6>2. u \in Armed(Timers, first)
            BY <5>2, <6>1 DEF Armed
          <6> QED
            BY <4>2, <5>1, <5>4, <6>1, <6>2
        <5> QED
          BY <5>3, <5>4
      <4> QED
        BY <4>1, <4>3, <4>4
    <3> QED
      BY <3>2, <3>3
  <2>8. s.holdUpdate /\ s.nextTrigger <= n
           => first.nextTrigger = s.nextTrigger /\ e.nextTrigger = s.nextTrigger
    <3> SUFFICES ASSUME s.holdUpdate, s.nextTrigger <= n
                 PROVE  first.nextTrigger = s.nextTrigger /\ e.nextTrigger = s.nextTrigger
      OBVIOUS
    <3> DEFINE pp == [first.triggerPeriod EXCEPT ![t] = d]
               q == [first EXCEPT !.triggerPeriod = pp]
               w == RepeatTriggerTime(q, t, n)
    <3>1. first.nextTrigger = s.nextTrigger
      BY <1>5
    <3>2. pp \in [Timers -> Nat] /\ pp[t] = d
      BY <1>4, <1>6
    <3> HIDE DEF pp
    <3>3. /\ q \in ServiceOver(Timers) /\ q.holdUpdate = first.holdUpdate
          /\ q.nextTrigger = first.nextTrigger /\ q.armed = first.armed
          /\ q.triggerPeriod = pp /\ q.triggerTime = first.triggerTime
      BY <1>7, <3>2 DEF ServiceOver
    <3>4. e = SetNextTriggerTime(q, t, w)
      BY <2>1 DEF SetDuration, ComputeNextTriggerTime, pp
    <3> HIDE DEF q
    <3>5. w \in Int
      BY <1>1, <1>7, <3>2, <3>3, Repeats
    <3> HIDE DEF w
    <3>6. e.nextTrigger = q.nextTrigger
      <4>1. q.holdUpdate /\ q.armed[t]
        BY <1>6, <1>7, <3>3
      <4>2. \A v \in Int : q.armed[t] \/ q.nextTrigger <= v
                             => SetNextTriggerTime(q, t, v).nextTrigger = q.nextTrigger
        BY <3>3, <4>1, Held
      <4> QED
        BY <3>4, <3>5, <4>1, <4>2
    <3> QED
      BY <3>1, <3>3, <3>6
  <2>9. \A u : Ahead(s, u) => Ahead(e, u)
    BY <1>6, <2>2
  <2>10. \E v \in Int :
            /\ v > n /\ e.triggerTime = [s.triggerTime EXCEPT ![t] = v]
            /\ NextInv(Timers, s)
                 /\ (s.armed[t] => s.triggerTime[t] = s.nextTrigger \/ s.triggerTime[t] <= v)
               => /\ NextInv(Timers, e)
                  /\ ~s.holdUpdate => first.nextTrigger <= e.nextTrigger
    <3> WITNESS x \in Int
    <3> QED
      BY <2>3, <2>4, <2>7
  <2> QED
    BY <1>6, <2>2, <2>4, <2>5, <2>8, <2>9, <2>10 DEF first, e, y
<1> QED
  BY <1>8, <1>9
\* What is shown of every step: lists and times are kept whatever clients do,
\* and who waits for whom if they are tame
DerivedKept ==
    /\ DerivedBookInv'
    /\ ~RestartEarlier /\ WholeTimes /\ TimesBelowNever' /\ DerivedWaitInv => DerivedWaitInv'

(***************************************************************************)
(* What a step that leaves scaling and clock has to keep.                  *)
(***************************************************************************)
LEMMA BookKept ==
    ASSUME DerivedBookInv,
           ServiceInv(TimersOfBase, base'), ServiceInv(Timers, derived'),
           derivedTrigger' \in Int, OwnTime(base', derivedTrigger'),
           derivedPc' \in {"idle", "base", "derived", "action"},
           base'.holdUpdate <=> derivedPc' /= "idle",
           derived'.holdUpdate <=> derivedPc' \in {"derived", "action"},
           \A t \in Repeaters : derived'.armed[t] => derived'.triggerPeriod[t] /= 0,
           time' \in [base : Int, derived : Int],
           derivedPc' /= "idle" => time'.base = clock,
           derivedPc' \in {"derived", "action"} => time'.derived <= Derived!Now,
           derivedStarts' \in 0 .. DerivedMaxStarts,
           scaling' = scaling, clock' = clock, shifts' = shifts
    PROVE  DerivedBookInv'
<1>1. Derived!TypeOK'
  <2>1. base' \in ServiceOver(TimersOfBase) /\ derived' \in ServiceOver(Timers)
    BY DEF ServiceInv
  <2>2. /\ scaling \in [shift : Int, factor : Nat, start : Int] /\ clock \in 0 .. DerivedMaxTime
        /\ shifts \in 0 .. MaxShifts
    BY DerivedTypes DEF DerivedBookInv
  <2> QED
    BY <2>1, <2>2, BaseOperations, DerivedOperations DEF Derived!TypeOK
<1>2. Derived!Now' = Derived!Now
  BY DEF Derived!Now, Derived!ScaleTime
<1>3. scaling'.factor /= 0
  BY DEF DerivedBookInv
<1> QED
  BY <1>1, <1>2, <1>3 DEF DerivedBookInv

(***************************************************************************)
(* The base's next trigger time stays right when its armed timer is not    *)
(* moved to an earlier time, be it in two steps.                           *)
(***************************************************************************)
LEMMA BaseKept ==
    ASSUME DerivedBookInv, NextInv(TimersOfBase, base),
           NEW d, d.nextTrigger \in Int, NEW e, e.nextTrigger \in Int,
           Derived!DerivedBecomes(base, d, e),
           d.nextTrigger <= e.nextTrigger,
           d.nextTrigger /= e.nextTrigger => e.nextTrigger < Never,
           base.armed[Own] /\ base'.armed[Own] =>
               base.triggerTime[Own] = base.nextTrigger \/ base.triggerTime[Own] <= base'.triggerTime[Own]
    PROVE  NextInv(TimersOfBase, base')
<1>1. /\ ServiceInv(TimersOfBase, base) /\ IsScaling(scaling) /\ derivedTrigger \in Int
  BY DerivedTypes DEF DerivedBookInv, IsScaling
<1>2. ASSUME NEW f, f.nextTrigger \in Int, base' = Derived!NextTriggerChanged(base, f, scaling)
      PROVE  NextInv(TimersOfBase, base')
  <2> DEFINE m == Derived!WaitsFor(f, scaling, derivedTrigger)
             u == Derived!UnscaleTime(scaling, f.nextTrigger)
  <2>1. OwnTime(base', m) /\ Awaits(base', f, scaling, m)
    BY <1>1, <1>2, Changes
  <2>2. NextInv(TimersOfBase, base)
          /\ (base.armed[Own] /\ f.nextTrigger /= Never =>
                  base.triggerTime[Own] = base.nextTrigger \/ base.triggerTime[Own] <= u + BaseResolution)
        => NextInv(TimersOfBase, base')
    BY <1>1, <1>2, Changes
  <2> HIDE DEF m
  <2>3. f.nextTrigger /= Never => base'.armed[Own] /\ base'.triggerTime[Own] = u + BaseResolution
    BY <2>1 DEF OwnTime, Awaits
  <2> HIDE DEF u
  <2> QED
    BY <2>2, <2>3
<1>3. CASE e.nextTrigger = d.nextTrigger
  <2>1. base' = base \/ base' = Derived!NextTriggerChanged(base, d, scaling)
    BY <1>3 DEF Derived!DerivedBecomes
  <2> QED
    BY <1>2, <2>1
<1>4. CASE e.nextTrigger /= d.nextTrigger /\ d.nextTrigger = derived.nextTrigger
  <2>1. base' = Derived!NextTriggerChanged(base, e, scaling)
    BY <1>4 DEF Derived!DerivedBecomes
  <2> QED
    BY <1>2, <2>1
<1>5. CASE e.nextTrigger /= d.nextTrigger /\ d.nextTrigger /= derived.nextTrigger
  <2> DEFINE x == Derived!UnscaleTime(scaling, d.nextTrigger) + BaseResolution
             y == Derived!UnscaleTime(scaling, e.nextTrigger) + BaseResolution
             c == SetNextTriggerTime(base, Own, x)
             z == y - x
  <2>1. d.nextTrigger /= Never /\ e.nextTrigger /= Never
    BY <1>5, NeverAssumption
  <2>2. base' = SetNextTriggerTime(c, Own, y)
    BY <1>5, <2>1, BaseOperations DEF Derived!DerivedBecomes, Derived!NextTriggerChanged
  <2>3. x \in Int /\ y \in Int /\ z \in Nat
    <3>1. /\ Derived!UnscaleTime(scaling, d.nextTrigger) \in Int
          /\ Derived!UnscaleTime(scaling, d.nextTrigger) <= Derived!UnscaleTime(scaling, e.nextTrigger)
      BY <1>1, Ordered
    <3>2. Derived!UnscaleTime(scaling, e.nextTrigger) \in Int
      BY <1>1, Ordered
    <3> QED
      BY <3>1, <3>2, DerivedConstants
  <2>4. Own \in TimersOfBase /\ End \notin TimersOfBase
    BY DerivedConstants
  <2>5. x + z = y
    BY <2>3
  <2> HIDE DEF x, y, z
  <2>6. /\ SameBut(TimersOfBase, base, c)
        /\ c.armed = [base.armed EXCEPT ![Own] = TRUE]
        /\ c.triggerTime = [base.triggerTime EXCEPT ![Own] = x]
        /\ NextInv(TimersOfBase, base)
             /\ (base.armed[Own] => base.triggerTime[Own] = base.nextTrigger \/ base.triggerTime[Own] <= x)
           => NextInv(TimersOfBase, c)
    BY <1>1, <2>3, <2>4, Sets
  <2>7. \A w \in Int :
           NextInv(TimersOfBase, base)
             /\ (base.armed[Own] => base.triggerTime[Own] = base.nextTrigger
                                    \/ base.triggerTime[Own] <= x + w)
           => HalfStarted(TimersOfBase, c, Own, w)
    BY <1>1, <2>3, <2>4, Sets
  <2> HIDE DEF c
  <2>8. ServiceInv(TimersOfBase, c) /\ c.armed[Own] /\ c.triggerTime[Own] = x
    BY <1>1, <2>4, <2>6 DEF SameBut, ServiceInv, ServiceOver
  <2>9. /\ SameBut(TimersOfBase, c, base')
        /\ base'.armed = [c.armed EXCEPT ![Own] = TRUE]
        /\ base'.triggerTime = [c.triggerTime EXCEPT ![Own] = y]
        /\ NextInv(TimersOfBase, c)
             /\ (c.armed[Own] => c.triggerTime[Own] = c.nextTrigger \/ c.triggerTime[Own] <= y)
           => NextInv(TimersOfBase, base')
    BY <2>2, <2>3, <2>4, <2>8, Sets
  <2>10. \A w \in Nat :
            HalfStarted(TimersOfBase, c, Own, w) /\ c.armed[Own] /\ c.triggerTime[Own] + w <= y
              => NextInv(TimersOfBase, base')
    BY <2>2, <2>3, <2>4, <2>8, Sets
  <2>11. base'.armed[Own] /\ base'.triggerTime[Own] = y
    BY <2>4, <2>8, <2>9 DEF ServiceInv, ServiceOver
  <2>12. HalfStarted(TimersOfBase, c, Own, z)
    BY <2>3, <2>5, <2>7, <2>11
  <2>13. c.triggerTime[Own] + z <= y
    BY <2>3, <2>5, <2>8
  <2> QED
    BY <2>3, <2>8, <2>10, <2>12, <2>13
<1> QED
  BY <1>3, <1>4, <1>5
(***************************************************************************)
(* The time, and what a step has to know of the state.                     *)
(***************************************************************************)
LEMMA DerivedState ==
    ASSUME DerivedBookInv
    PROVE  /\ IsScaling(scaling) /\ clock \in Nat /\ Derived!Now \in Int /\ derivedTrigger \in Int
           /\ ServiceInv(TimersOfBase, base) /\ ServiceInv(Timers, derived)
           /\ base.armed \in [TimersOfBase -> BOOLEAN] /\ base.triggerTime \in [TimersOfBase -> Int]
           /\ base.nextTrigger \in Int
           /\ derived.armed \in [Timers -> BOOLEAN] /\ derived.triggerTime \in [Timers -> Int]
           /\ derived.triggerPeriod \in [Timers -> Nat] /\ derived.nextTrigger \in Int
           /\ time \in [base : Int, derived : Int]
<1>1. IsScaling(scaling) /\ clock \in Nat /\ derivedTrigger \in Int
      /\ time \in [base : Int, derived : Int]
  BY DerivedTypes DEF DerivedBookInv, IsScaling
<1>2. Derived!Now \in Int
  BY <1>1, Ordered DEF Derived!Now
<1> QED
  BY <1>1, <1>2 DEF DerivedBookInv, ServiceInv, ServiceOver

(***************************************************************************)
(* Start of a derived timer.                                               *)
(***************************************************************************)
LEMMA DerivedStartStep ==
    ASSUME DerivedBookInv, NEW t \in Timers, NEW d \in DerivedDurations, Derived!Start(t, d)
    PROVE  DerivedKept
<1> DEFINE n == Derived!Now
           p == BaseResolution * scaling.factor
           first == SetNextTriggerTime(derived, t, FirstTriggerTime(t, d, n, p))
           e == IF t \in Repeaters THEN SetDuration(first, t, d, n) ELSE first
<1>1. /\ derivedPc \in {"idle", "action"} /\ derivedStarts < DerivedMaxStarts
      /\ Derived!DerivedBecomes(base, first, e)
      /\ derivedStarts' = derivedStarts + 1
      /\ UNCHANGED <<scaling, clock, derivedPc, time, shifts>>
      /\ Derived!Tame
  BY DerivedOperations DEF Derived!Start, Derived!Client
<1>2. /\ d \in Nat \ {0} /\ n \in Int /\ p \in Nat
  BY DerivedConstants, DerivedState DEF IsScaling
<1>3. /\ ServiceInv(Timers, derived)
      /\ \A u \in Repeaters : derived.armed[u] => derived.triggerPeriod[u] /= 0
  BY DEF DerivedBookInv
<1>4. /\ ServiceInv(Timers, first) /\ ServiceInv(Timers, e)
      /\ e.holdUpdate = derived.holdUpdate
      /\ \A u \in Repeaters : e.armed[u] => e.triggerPeriod[u] /= 0
      /\ e.armed = [derived.armed EXCEPT ![t] = TRUE]
      /\ \A u : Ahead(derived, u) => Ahead(e, u)
      /\ \E x \in Int :
            /\ x > n /\ e.triggerTime = [derived.triggerTime EXCEPT ![t] = x]
            /\ NextInv(Timers, derived)
                 /\ (derived.armed[t] => derived.triggerTime[t] = derived.nextTrigger
                                         \/ derived.triggerTime[t] <= x)
               => /\ NextInv(Timers, e)
                  /\ ~derived.holdUpdate => first.nextTrigger <= e.nextTrigger
      /\ derived.holdUpdate /\ derived.nextTrigger <= n
            => first.nextTrigger = derived.nextTrigger /\ e.nextTrigger = derived.nextTrigger
  <2> HIDE DEF n, p
  <2> QED
    BY <1>2, <1>3, Restarts
<1> HIDE DEF first, e, p
<1>5. first.nextTrigger \in Int /\ e.nextTrigger \in Int
  BY <1>4 DEF ServiceInv, ServiceOver
<1>6. /\ derived' = e
      /\ ServiceInv(TimersOfBase, base') /\ base'.holdUpdate = base.holdUpdate
      /\ derivedTrigger' \in Int /\ OwnTime(base', derivedTrigger')
      /\ first.nextTrigger = derived.nextTrigger /\ e.nextTrigger = derived.nextTrigger
            => base' = base /\ derivedTrigger' = derivedTrigger
      /\ first.nextTrigger /= derived.nextTrigger \/ e.nextTrigger /= derived.nextTrigger
            => Awaits(base', e, scaling, derivedTrigger')
  BY <1>1, <1>5, Follows
<1>7. PICK x \in Int :
         /\ x > n /\ e.triggerTime = [derived.triggerTime EXCEPT ![t] = x]
         /\ NextInv(Timers, derived)
              /\ (derived.armed[t] => derived.triggerTime[t] = derived.nextTrigger
                                      \/ derived.triggerTime[t] <= x)
            => /\ NextInv(Timers, e)
               /\ ~derived.holdUpdate => first.nextTrigger <= e.nextTrigger
  BY <1>4
<1>8. DerivedBookInv'
  <2>1. derivedStarts' \in 0 .. DerivedMaxStarts
    BY <1>1, DerivedTypes, DerivedConstants DEF DerivedBookInv
  <2>2. /\ derivedPc' = derivedPc /\ time' = time /\ scaling' = scaling /\ clock' = clock
        /\ shifts' = shifts
    BY <1>1
  <2>3. /\ base.holdUpdate <=> derivedPc /= "idle"
        /\ derived.holdUpdate <=> derivedPc \in {"derived", "action"}
        /\ derivedPc /= "idle" => time.base = clock
        /\ derivedPc \in {"derived", "action"} => time.derived <= Derived!Now
    BY DEF DerivedBookInv
  <2>4. time \in [base : Int, derived : Int]
    BY DerivedState
  <2> QED
    BY <1>1, <1>4, <1>6, <2>1, <2>2, <2>3, <2>4, BookKept
<1>9. ASSUME ~RestartEarlier, TimesBelowNever', DerivedWaitInv
      PROVE  DerivedWaitInv'
  <2>1. /\ NextInv(TimersOfBase, base) /\ NextInv(Timers, derived)
        /\ derivedPc = "idle" => Awaits(base, derived, scaling, derivedTrigger)
        /\ derivedPc = "action" =>
              /\ ~base.armed[Own]
              /\ derived.nextTrigger <= time.derived
              /\ \A u \in Timers : derived.armed[u] /\ derived.triggerTime[u] <= derived.nextTrigger
                                      => Ahead(derived, u)
    BY <1>9 DEF DerivedWaitInv
  <2>2. /\ derived.armed \in [Timers -> BOOLEAN] /\ derived.triggerTime \in [Timers -> Int]
        /\ derived.nextTrigger \in Int /\ time.derived \in Int
        /\ base.triggerTime \in [TimersOfBase -> Int]
    BY DerivedState
  <2>3. e.armed[t] /\ e.triggerTime[t] = x
    BY <1>4, <1>7, <2>2
  <2>4. derived.armed[t] => derived.triggerTime[t] = derived.nextTrigger \/ derived.triggerTime[t] <= x
    <3>1. ~Derived!Earlier(derived, e, t)
      BY <1>1, <1>6, <1>9, DerivedOperations DEF Derived!Tame
    <3> QED
      BY <2>2, <2>3, <3>1 DEF Derived!Earlier
  <2>5. NextInv(Timers, e) /\ (~derived.holdUpdate => first.nextTrigger <= e.nextTrigger)
    BY <1>7, <2>1, <2>4
  <2>6. CASE derivedPc = "action"
    <3>1. derived.holdUpdate /\ time.derived <= n
      BY <2>6 DEF DerivedBookInv
    <3>2. derived.nextTrigger <= n /\ derived.nextTrigger < x
      BY <1>2, <1>7, <2>1, <2>2, <2>6, <3>1
    <3>3. e.nextTrigger = derived.nextTrigger /\ base' = base /\ derivedTrigger' = derivedTrigger
      BY <1>4, <1>6, <3>1, <3>2
    <3>4. ASSUME NEW u \in Timers, e.armed[u], e.triggerTime[u] <= e.nextTrigger
          PROVE  Ahead(e, u)
      <4>1. u /= t
        BY <1>7, <2>2, <2>3, <3>2, <3>3, <3>4
      <4>2. derived.armed[u] /\ derived.triggerTime[u] = e.triggerTime[u]
        BY <1>4, <1>7, <2>2, <3>4, <4>1
      <4> QED
        BY <1>4, <2>1, <2>6, <3>3, <3>4, <4>2
    <3>5. derivedPc' = "action" /\ time' = time
      BY <1>1, <2>6
    <3> QED
      BY <1>6, <2>1, <2>5, <2>6, <3>3, <3>4, <3>5 DEF DerivedWaitInv
  <2>7. CASE derivedPc = "idle"
    <3>1. ~derived.holdUpdate
      BY <2>7 DEF DerivedBookInv
    <3>2. e.nextTrigger < Never
      <4>1. x < Never
        BY <1>6, <1>9, <2>3 DEF TimesBelowNever
      <4>2. IsEarliest(e, Armed(Timers, e), e.nextTrigger)
        BY <1>4, <2>5, <3>1 DEF NextInv
      <4>3. t \in Armed(Timers, e)
        BY <2>3 DEF Armed
      <4> QED
        BY <1>5, <2>3, <4>1, <4>2, <4>3, NeverAssumption DEF IsEarliest
    <3>3. base.armed[Own] /\ base'.armed[Own] =>
             base.triggerTime[Own] = base.nextTrigger \/ base.triggerTime[Own] <= base'.triggerTime[Own]
      <4>1. ~Derived!Earlier(base, base', Own)
        BY <1>1, <1>9 DEF Derived!Tame
      <4>2. base'.triggerTime[Own] \in Int /\ base.triggerTime[Own] \in Int
        BY <1>6, <2>2, DerivedConstants DEF ServiceInv, ServiceOver
      <4> QED
        BY <4>1, <4>2 DEF Derived!Earlier
    <3>4. NextInv(TimersOfBase, base')
      BY <1>1, <1>5, <2>1, <2>5, <3>1, <3>2, <3>3, BaseKept
    <3>5. Awaits(base', e, scaling, derivedTrigger')
      <4>1. CASE first.nextTrigger = derived.nextTrigger /\ e.nextTrigger = derived.nextTrigger
        BY <1>6, <2>1, <2>7, <4>1 DEF Awaits
      <4> QED
        BY <1>6, <4>1
    <3>6. derivedPc' = "idle" /\ scaling' = scaling
      BY <1>1, <2>7
    <3> QED
      BY <1>6, <2>5, <3>4, <3>5, <3>6 DEF DerivedWaitInv
  <2> QED
    BY <1>1, <2>6, <2>7
<1> QED
  BY <1>8, <1>9 DEF DerivedKept

(***************************************************************************)
(* Cancel of a derived timer.                                              *)
(***************************************************************************)
LEMMA DerivedCancelStep ==
    ASSUME DerivedBookInv, NEW t \in Timers, Derived!CancelTimer(t)
    PROVE  DerivedKept
<1> DEFINE e == Cancel(derived, t)
<1>1. /\ derivedPc \in {"idle", "action"} /\ derived.armed[t]
      /\ Derived!DerivedBecomes(base, e, e)
      /\ UNCHANGED <<scaling, clock, derivedPc, time, derivedStarts, shifts>>
  BY DerivedOperations DEF Derived!CancelTimer, Derived!Client
<1>2. ServiceInv(Timers, derived) /\ End \notin Timers
  BY DerivedConstants DEF DerivedBookInv
<1>3. /\ ServiceInv(Timers, e)
      /\ e.holdUpdate = derived.holdUpdate
      /\ e.triggerPeriod = derived.triggerPeriod
      /\ e.armed = [derived.armed EXCEPT ![t] = FALSE]
      /\ e.triggerTime = [derived.triggerTime EXCEPT ![t] = 0]
      /\ \A u : Ahead(derived, u) /\ u /= t => Ahead(e, u)
      /\ NextInv(Timers, derived) => NextInv(Timers, e)
  BY <1>2, Cancels
<1>4. derived.holdUpdate => e.nextTrigger = derived.nextTrigger
  BY <1>2, Held DEF ServiceInv
<1> HIDE DEF e
<1>5. e.nextTrigger \in Int
  BY <1>3 DEF ServiceInv, ServiceOver
<1>6. /\ derived' = e
      /\ ServiceInv(TimersOfBase, base') /\ base'.holdUpdate = base.holdUpdate
      /\ derivedTrigger' \in Int /\ OwnTime(base', derivedTrigger')
      /\ e.nextTrigger = derived.nextTrigger => base' = base /\ derivedTrigger' = derivedTrigger
      /\ e.nextTrigger /= derived.nextTrigger => Awaits(base', e, scaling, derivedTrigger')
  BY <1>1, <1>5, Follows
<1>7. \A u \in Timers : e.armed[u] => derived.armed[u] /\ e.triggerTime[u] = derived.triggerTime[u]
                                      /\ u /= t
  BY <1>3, DerivedState
<1>8. DerivedBookInv'
  <2>1. /\ derivedPc' = derivedPc /\ time' = time /\ scaling' = scaling /\ clock' = clock
        /\ shifts' = shifts /\ derivedStarts' = derivedStarts
    BY <1>1
  <2>2. /\ base.holdUpdate <=> derivedPc /= "idle"
        /\ derived.holdUpdate <=> derivedPc \in {"derived", "action"}
        /\ derivedPc /= "idle" => time.base = clock
        /\ derivedPc \in {"derived", "action"} => time.derived <= Derived!Now
    BY DEF DerivedBookInv
  <2>3. time \in [base : Int, derived : Int] /\ derivedStarts \in 0 .. DerivedMaxStarts
    BY DerivedTypes DEF DerivedBookInv
  <2>4. \A u \in Repeaters : e.armed[u] => e.triggerPeriod[u] /= 0
    BY <1>3, <1>7 DEF DerivedBookInv, Timers
  <2> QED
    BY <1>1, <1>3, <1>6, <2>1, <2>2, <2>3, <2>4, BookKept
<1>9. ASSUME DerivedWaitInv
      PROVE  DerivedWaitInv'
  <2>1. /\ NextInv(TimersOfBase, base) /\ NextInv(Timers, derived)
        /\ derivedPc = "idle" => Awaits(base, derived, scaling, derivedTrigger)
        /\ derivedPc = "action" =>
              /\ ~base.armed[Own]
              /\ derived.nextTrigger <= time.derived
              /\ \A u \in Timers : derived.armed[u] /\ derived.triggerTime[u] <= derived.nextTrigger
                                      => Ahead(derived, u)
    BY <1>9 DEF DerivedWaitInv
  <2>2. CASE derivedPc = "action"
    <3>1. derived.holdUpdate
      BY <2>2 DEF DerivedBookInv
    <3>2. e.nextTrigger = derived.nextTrigger /\ base' = base /\ derivedTrigger' = derivedTrigger
      BY <1>4, <1>6, <3>1
    <3>3. \A u \in Timers : e.armed[u] /\ e.triggerTime[u] <= e.nextTrigger => Ahead(e, u)
      BY <1>3, <1>7, <2>1, <2>2, <3>2
    <3>4. derivedPc' = "action" /\ time' = time
      BY <1>1, <2>2
    <3> QED
      BY <1>3, <1>6, <2>1, <2>2, <3>2, <3>3, <3>4 DEF DerivedWaitInv
  <2>3. CASE derivedPc = "idle"
    <3>1. ~derived.holdUpdate /\ derivedPc' = "idle" /\ scaling' = scaling
      BY <1>1, <2>3 DEF DerivedBookInv
    <3>2. derived.nextTrigger <= e.nextTrigger
      <4>1. /\ IsEarliest(derived, Armed(Timers, derived), derived.nextTrigger)
            /\ IsEarliest(e, Armed(Timers, e), e.nextTrigger)
        BY <1>3, <2>1, <3>1 DEF NextInv
      <4>2. \A u \in Armed(Timers, e) : u \in Armed(Timers, derived)
                                         /\ e.triggerTime[u] = derived.triggerTime[u]
        BY <1>7 DEF Armed
      <4> QED
        BY <4>1, <4>2 DEF IsEarliest
    <3>3. base.armed[Own] /\ base'.armed[Own] =>
             base.triggerTime[Own] = base.nextTrigger \/ base.triggerTime[Own] <= base'.triggerTime[Own]
      <4> SUFFICES ASSUME base.armed[Own], base'.armed[Own]
                   PROVE  base.triggerTime[Own] <= base'.triggerTime[Own]
        OBVIOUS
      <4>1. base.triggerTime[Own] \in Int /\ BaseResolution \in Nat
        BY DerivedState, DerivedConstants
      <4>2. CASE e.nextTrigger = derived.nextTrigger
        BY <1>6, <4>1, <4>2
      <4>3. CASE e.nextTrigger /= derived.nextTrigger
        <5>1. /\ base.triggerTime[Own] = derivedTrigger + BaseResolution
              /\ derivedTrigger = Derived!UnscaleTime(scaling, derived.nextTrigger)
          BY <2>1, <2>3 DEF DerivedBookInv, OwnTime, Awaits
        <5>2. /\ base'.triggerTime[Own] = derivedTrigger' + BaseResolution
              /\ derivedTrigger' = Derived!UnscaleTime(scaling, e.nextTrigger)
          BY <1>6, <4>3 DEF OwnTime, Awaits
        <5>3. /\ Derived!UnscaleTime(scaling, derived.nextTrigger)
                   <= Derived!UnscaleTime(scaling, e.nextTrigger)
          BY <1>5, <3>2, DerivedState, Ordered
        <5>4. derivedTrigger \in Int /\ derivedTrigger' \in Int /\ derivedTrigger <= derivedTrigger'
          BY <1>6, <5>1, <5>2, <5>3, DerivedState
        <5> HIDE DEF OwnTime
        <5> QED
          BY <4>1, <5>1, <5>2, <5>4
      <4> QED
        BY <4>2, <4>3
    <3>4. NextInv(TimersOfBase, base')
      <4>1. e.nextTrigger <= e.nextTrigger
        BY <1>5
      <4> QED
        BY <1>1, <1>5, <2>1, <3>3, <4>1, BaseKept
    <3>5. Awaits(base', e, scaling, derivedTrigger')
      <4>1. CASE e.nextTrigger = derived.nextTrigger
        BY <1>6, <2>1, <2>3, <4>1 DEF Awaits
      <4> QED
        BY <1>6, <4>1
    <3> QED
      BY <1>3, <1>6, <2>1, <3>1, <3>4, <3>5 DEF DerivedWaitInv
  <2> QED
    BY <1>1, <2>2, <2>3
<1> QED
  BY <1>8, <1>9 DEF DerivedKept
(***************************************************************************)
(* Another client starts a timer of the base.                              *)
(***************************************************************************)
LEMMA StartOfBaseStep ==
    ASSUME DerivedBookInv, NEW t \in BaseTimers, NEW d \in DerivedDurations,
           Derived!StartOfBase(t, d)
    PROVE  DerivedKept
<1> DEFINE x == clock + d + BaseResolution
<1>1. t \in TimersOfBase /\ t /= Own /\ End \notin TimersOfBase /\ d \in Nat \ {0} /\ Own \in TimersOfBase
  BY DerivedConstants
<1>2. /\ derivedPc \in {"idle", "action"} /\ derivedStarts < DerivedMaxStarts /\ ~base.armed[t]
      /\ base' = SetNextTriggerTime(base, t, x)
      /\ derivedStarts' = derivedStarts + 1
      /\ derived' = derived /\ scaling' = scaling /\ derivedTrigger' = derivedTrigger
      /\ clock' = clock /\ derivedPc' = derivedPc /\ time' = time /\ shifts' = shifts
  BY <1>1, BaseOperations DEF Derived!StartOfBase, Derived!Client
<1>3. x \in Int /\ ServiceInv(TimersOfBase, base)
  BY <1>1, DerivedConstants, DerivedState
<1> HIDE DEF x
<1>4. /\ SameBut(TimersOfBase, base, base')
      /\ base'.armed = [base.armed EXCEPT ![t] = TRUE]
      /\ base'.triggerTime = [base.triggerTime EXCEPT ![t] = x]
      /\ NextInv(TimersOfBase, base)
           /\ (base.armed[t] => base.triggerTime[t] = base.nextTrigger \/ base.triggerTime[t] <= x)
         => NextInv(TimersOfBase, base')
  <2>1. End \notin TimersOfBase /\ t \in TimersOfBase /\ base' = SetNextTriggerTime(base, t, x)
    BY <1>1, <1>2
  <2> QED
    BY <1>3, <2>1, Sets
<1>5. /\ ServiceInv(TimersOfBase, base') /\ base'.holdUpdate = base.holdUpdate
      /\ base'.armed[Own] = base.armed[Own] /\ base'.triggerTime[Own] = base.triggerTime[Own]
  BY <1>1, <1>4, DerivedState DEF SameBut
<1>6. DerivedBookInv'
  <2>1. derivedStarts' \in 0 .. DerivedMaxStarts
    BY <1>2, DerivedTypes, DerivedConstants DEF DerivedBookInv
  <2>2. OwnTime(base', derivedTrigger')
    BY <1>2, <1>5 DEF DerivedBookInv, OwnTime
  <2>3. /\ base.holdUpdate <=> derivedPc /= "idle"
        /\ derived.holdUpdate <=> derivedPc \in {"derived", "action"}
        /\ derivedPc /= "idle" => time.base = clock
        /\ derivedPc \in {"derived", "action"} => time.derived <= Derived!Now
        /\ \A u \in Repeaters : derived.armed[u] => derived.triggerPeriod[u] /= 0
    BY DEF DerivedBookInv
  <2> QED
    BY <1>2, <1>5, <2>1, <2>2, <2>3, DerivedState, BookKept
<1>7. ASSUME DerivedWaitInv
      PROVE  DerivedWaitInv'
  BY <1>2, <1>4, <1>5, <1>7 DEF DerivedWaitInv, Awaits
<1> QED
  BY <1>6, <1>7 DEF DerivedKept

(***************************************************************************)
(* Shift and Scale.                                                        *)
(***************************************************************************)
LEMMA RescaleStep ==
    ASSUME DerivedBookInv, NEW s \in [shift : Int, factor : Nat, start : Int], s.factor /= 0,
           Derived!Rescale(s)
    PROVE  DerivedKept
<1>1. /\ derivedPc = "idle" /\ shifts < MaxShifts /\ shifts' = shifts + 1
      /\ scaling' = s
      /\ base' = Derived!NextTriggerChanged(base, derived, s)
      /\ derivedTrigger' = Derived!WaitsFor(derived, s, derivedTrigger)
      /\ derived' = derived /\ clock' = clock /\ derivedPc' = derivedPc /\ time' = time
      /\ derivedStarts' = derivedStarts
      /\ Derived!Tame
  BY DEF Derived!Rescale
<1>2. IsScaling(s)
  BY DEF IsScaling
<1>3. /\ ServiceInv(TimersOfBase, base) /\ derived.nextTrigger \in Int /\ derivedTrigger \in Int
      /\ base.triggerTime \in [TimersOfBase -> Int]
  BY DerivedState
<1>4. /\ ServiceInv(TimersOfBase, base') /\ base'.holdUpdate = base.holdUpdate
      /\ derivedTrigger' \in Int /\ OwnTime(base', derivedTrigger')
      /\ Awaits(base', derived, s, derivedTrigger')
  BY <1>1, <1>2, <1>3, Changes
<1>5. NextInv(TimersOfBase, base)
        /\ (base.armed[Own] /\ derived.nextTrigger /= Never =>
                \/ base.triggerTime[Own] = base.nextTrigger
                \/ base.triggerTime[Own] <= Derived!UnscaleTime(s, derived.nextTrigger) + BaseResolution)
      => NextInv(TimersOfBase, base')
  BY <1>1, <1>2, <1>3, Changes
<1>6. DerivedBookInv'
  <2>1. Derived!TypeOK'
    <3>1. base' \in ServiceOver(TimersOfBase)
      BY <1>4 DEF ServiceInv
    <3>2. shifts' \in 0 .. MaxShifts
      BY <1>1, DerivedTypes, DerivedConstants DEF DerivedBookInv
    <3> QED
      BY <1>1, <1>4, <3>1, <3>2, BaseOperations, DerivedOperations DEF Derived!TypeOK,
         DerivedBookInv
  <2> QED
    BY <1>1, <1>4, <2>1 DEF DerivedBookInv
<1>7. ASSUME ~RestartEarlier, DerivedWaitInv
      PROVE  DerivedWaitInv'
  <2>1. ASSUME base.armed[Own], derived.nextTrigger /= Never
        PROVE  \/ base.triggerTime[Own] = base.nextTrigger
               \/ base.triggerTime[Own] <= Derived!UnscaleTime(s, derived.nextTrigger) + BaseResolution
    <3>1. /\ base'.armed[Own]
          /\ base'.triggerTime[Own] = Derived!UnscaleTime(s, derived.nextTrigger) + BaseResolution
      BY <1>4, <2>1 DEF OwnTime, Awaits
    <3>2. ~Derived!Earlier(base, base', Own)
      BY <1>1, <1>7 DEF Derived!Tame
    <3>3. base'.triggerTime[Own] \in Int /\ base.triggerTime[Own] \in Int
      BY <1>3, <1>4, DerivedConstants DEF ServiceInv, ServiceOver
    <3> QED
      BY <2>1, <3>1, <3>2, <3>3 DEF Derived!Earlier
  <2>2. NextInv(TimersOfBase, base')
    BY <1>5, <1>7, <2>1 DEF DerivedWaitInv
  <2> QED
    BY <1>1, <1>4, <1>7, <2>2 DEF DerivedWaitInv
<1> QED
  BY <1>6, <1>7 DEF DerivedKept

(***************************************************************************)
(* The arguments of Rescale.                                               *)
(***************************************************************************)
LEMMA ShiftScaleSteps ==
    ASSUME DerivedBookInv,
           (\E s \in Shifts : Derived!Shift(s)) \/ (\E f \in Factors : Derived!Scale(f))
    PROVE  DerivedKept
<1>1. /\ scaling \in [shift : Int, factor : Nat, start : Int] /\ scaling.factor /= 0
      /\ Derived!Now \in Int /\ clock \in Int
  BY DerivedTypes, DerivedState DEF DerivedBookInv
<1>2. ASSUME NEW h \in Shifts, Derived!Shift(h) PROVE DerivedKept
  <2> DEFINE s == [scaling EXCEPT !.shift = h]
  <2>1. s \in [shift : Int, factor : Nat, start : Int] /\ s.factor /= 0
    BY <1>1, DerivedConstants
  <2>2. Derived!Rescale(s)
    BY <1>2 DEF Derived!Shift
  <2> HIDE DEF s
  <2> QED
    BY <2>1, <2>2, RescaleStep
<1>3. ASSUME NEW f \in Factors, Derived!Scale(f) PROVE DerivedKept
  <2> DEFINE s == [scaling EXCEPT !.start = Derived!Now, !.factor = f]
             h == s.shift + s.start - Derived!ScaleTime(s, clock)
             r == [s EXCEPT !.shift = h]
  <2>1. s \in [shift : Int, factor : Nat, start : Int] /\ s.factor /= 0
    BY <1>1, DerivedConstants
  <2>2. Derived!Rescale(r)
    BY <1>3 DEF Derived!Scale
  <2> HIDE DEF s
  <2>3. h \in Int
    <3>1. IsScaling(s)
      BY <2>1 DEF IsScaling
    <3>2. Derived!ScaleTime(s, clock) \in Int
      BY <1>1, <3>1, Ordered
    <3> QED
      BY <2>1, <3>2
  <2> HIDE DEF h
  <2>4. r \in [shift : Int, factor : Nat, start : Int] /\ r.factor /= 0
    BY <2>1, <2>3
  <2> HIDE DEF r
  <2> QED
    BY <2>2, <2>4, RescaleStep
<1> QED
  BY <1>2, <1>3

(***************************************************************************)
(* Time passes, or the action of a derived timer returns, or nothing       *)
(* happens.                                                                *)
(***************************************************************************)
LEMMA DerivedQuietSteps ==
    ASSUME DerivedBookInv, Derived!Tick \/ Derived!ActionReturns \/ UNCHANGED derivedVars
    PROVE  DerivedKept
<1>1. /\ base' = base /\ derived' = derived /\ scaling' = scaling
      /\ derivedTrigger' = derivedTrigger /\ time' = time /\ derivedStarts' = derivedStarts
      /\ shifts' = shifts
      /\ \/ derivedPc' = derivedPc /\ (clock' = clock \/ derivedPc = "idle")
         \/ derivedPc = "action" /\ derivedPc' = "derived" /\ clock' = clock
      /\ clock' = clock \/ (clock' = clock + 1 /\ clock < DerivedMaxTime)
  BY DEF Derived!Tick, Derived!ActionReturns, derivedVars
<1>2. DerivedBookInv'
  <2>1. clock' \in 0 .. DerivedMaxTime
    BY <1>1, DerivedTypes, DerivedConstants DEF DerivedBookInv
  <2>2. Derived!TypeOK'
    BY <1>1, <2>1, BaseOperations, DerivedOperations DEF Derived!TypeOK, DerivedBookInv
  <2>3. clock' = clock => Derived!Now' = Derived!Now
    BY <1>1 DEF Derived!Now, Derived!ScaleTime
  <2> QED
    BY <1>1, <2>2, <2>3 DEF DerivedBookInv
<1>3. DerivedWaitInv => DerivedWaitInv'
  BY <1>1 DEF DerivedWaitInv
<1> QED
  BY <1>2, <1>3 DEF DerivedKept
(***************************************************************************)
(* The loop over the timers of the base begins and ends.                   *)
(***************************************************************************)
LEMMA BaseLoopSteps ==
    ASSUME DerivedBookInv, Derived!ProgressBase \/ Derived!FinishBase
    PROVE  DerivedKept
<1>1. /\ derived' = derived /\ scaling' = scaling /\ derivedTrigger' = derivedTrigger
      /\ clock' = clock /\ derivedStarts' = derivedStarts /\ shifts' = shifts
  BY DEF Derived!ProgressBase, Derived!FinishBase
<1>2. \/ /\ derivedPc = "idle" /\ derivedPc' = "base" /\ base' = BeginProgressed(base)
         /\ time' = [time EXCEPT !.base = clock]
      \/ /\ derivedPc = "base" /\ derivedPc' = "idle" /\ base' = EndProgressed(base)
         /\ time' = [time EXCEPT !.base = 0]
  BY BaseOperations DEF Derived!ProgressBase, Derived!FinishBase
<1>3. ServiceInv(TimersOfBase, base) /\ End \notin TimersOfBase /\ clock \in Int
      /\ time \in [base : Int, derived : Int]
  BY DerivedState, DerivedConstants
<1>4. /\ ServiceInv(TimersOfBase, base') /\ (base'.holdUpdate <=> derivedPc' /= "idle")
      /\ base'.armed = base.armed /\ base'.triggerTime = base.triggerTime
      /\ NextInv(TimersOfBase, base) => NextInv(TimersOfBase, base')
  <2>1. CASE derivedPc = "idle"
    <3> DEFINE r == BeginProgressed(base)
    <3>1. /\ ServiceInv(TimersOfBase, r)
          /\ r.holdUpdate
          /\ r.armed = base.armed /\ r.nextTrigger = base.nextTrigger
          /\ r.triggerTime = base.triggerTime /\ r.triggerPeriod = base.triggerPeriod
          /\ NextInv(TimersOfBase, base) => NextInv(TimersOfBase, r)
      BY <1>3, Begins
    <3> HIDE DEF r
    <3>2. base' = r /\ derivedPc' = "base"
      BY <1>2, <2>1 DEF r
    <3> QED
      BY <3>1, <3>2
  <2>2. CASE derivedPc = "base"
    <3> DEFINE r == EndProgressed(base)
    <3>1. /\ ServiceInv(TimersOfBase, r)
          /\ NextInv(TimersOfBase, base) => NextInv(TimersOfBase, r)
          /\ r.timerIterator = base.timerIterator
          /\ ~r.holdUpdate
          /\ r.armed = base.armed
          /\ r.triggerTime = base.triggerTime /\ r.triggerPeriod = base.triggerPeriod
      BY <1>3, Ends
    <3> HIDE DEF r
    <3>2. base' = r /\ derivedPc' = "idle"
      BY <1>2, <2>2 DEF r
    <3> QED
      BY <3>1, <3>2
  <2> QED
    BY <1>2, <2>1, <2>2
<1>5. DerivedBookInv'
  <2>1. /\ time' \in [base : Int, derived : Int] /\ (derivedPc' /= "idle" => time'.base = clock)
        /\ {derivedPc, derivedPc'} \cap {"derived", "action"} = {}
        /\ derivedPc' \in {"idle", "base", "derived", "action"}
    BY <1>2, <1>3
  <2>2. /\ OwnTime(base', derivedTrigger') /\ derivedTrigger' \in Int
    BY <1>1, <1>4, DerivedState DEF DerivedBookInv, OwnTime
  <2>3. /\ ServiceInv(Timers, derived)
        /\ derived.holdUpdate <=> derivedPc \in {"derived", "action"}
        /\ \A u \in Repeaters : derived.armed[u] => derived.triggerPeriod[u] /= 0
        /\ derivedStarts \in 0 .. DerivedMaxStarts
    BY DerivedTypes DEF DerivedBookInv
  <2> QED
    BY <1>1, <1>4, <2>1, <2>2, <2>3, BookKept
<1>6. DerivedWaitInv => DerivedWaitInv'
  BY <1>1, <1>2, <1>4 DEF DerivedWaitInv, Awaits
<1> QED
  BY <1>5, <1>6 DEF DerivedKept

(***************************************************************************)
(* An iteration of the base that does not trigger the timer of the derived *)
(* service.                                                                *)
(***************************************************************************)
LEMMA StepBaseStep ==
    ASSUME DerivedBookInv, Derived!StepBase
    PROVE  DerivedKept
<1> DEFINE t == base.timerIterator
           a == Advance(base)
           c == Cancel(a, t)
<1>1. /\ derivedPc = "base" /\ t /= End
      /\ derived' = derived /\ scaling' = scaling /\ derivedTrigger' = derivedTrigger
      /\ clock' = clock /\ derivedPc' = derivedPc /\ time' = time
      /\ derivedStarts' = derivedStarts /\ shifts' = shifts
  BY DEF Derived!StepBase
<1>2. ServiceInv(TimersOfBase, base) /\ End \notin TimersOfBase /\ Own \in TimersOfBase
      /\ t \in TimersOfBase
  BY <1>1, DerivedState, DerivedConstants DEF ServiceInv, ServiceOver
<1>3. base' = a \/ (base' = c /\ t /= Own)
  BY <1>2, BaseOperations DEF Derived!StepBase
<1>4. /\ ServiceInv(TimersOfBase, a)
      /\ a.timerIterator /= base.timerIterator
      /\ a.holdUpdate = base.holdUpdate /\ a.armed = base.armed
      /\ a.triggerTime = base.triggerTime /\ a.triggerPeriod = base.triggerPeriod
      /\ a.nextTrigger = base.nextTrigger
      /\ NextInv(TimersOfBase, base) => NextInv(TimersOfBase, a)
  BY <1>1, <1>2, Advances
<1> HIDE DEF a, t
<1>5. /\ ServiceInv(TimersOfBase, c)
      /\ c.holdUpdate = a.holdUpdate
      /\ c.triggerPeriod = a.triggerPeriod
      /\ c.armed = [a.armed EXCEPT ![t] = FALSE]
      /\ c.triggerTime = [a.triggerTime EXCEPT ![t] = 0]
      /\ \A u : Ahead(a, u) /\ u /= t => Ahead(c, u)
      /\ NextInv(TimersOfBase, a) => NextInv(TimersOfBase, c)
  <2>1. c = Cancel(a, t) /\ t \in TimersOfBase /\ End \notin TimersOfBase
    BY <1>2
  <2> HIDE DEF c
  <2> QED
    BY <1>4, <2>1, Cancels
<1> HIDE DEF c
<1>6. t /= Own => c.armed[Own] = base.armed[Own] /\ c.triggerTime[Own] = base.triggerTime[Own]
  BY <1>2, <1>4, <1>5, DerivedState
<1>7. /\ ServiceInv(TimersOfBase, base') /\ base'.holdUpdate = base.holdUpdate
      /\ base'.armed[Own] = base.armed[Own] /\ base'.triggerTime[Own] = base.triggerTime[Own]
      /\ NextInv(TimersOfBase, base) => NextInv(TimersOfBase, base')
  BY <1>3, <1>4, <1>5, <1>6
<1>8. DerivedBookInv'
  <2>1. OwnTime(base', derivedTrigger')
    BY <1>1, <1>7 DEF DerivedBookInv, OwnTime
  <2>2. /\ base.holdUpdate <=> derivedPc /= "idle"
        /\ derived.holdUpdate <=> derivedPc \in {"derived", "action"}
        /\ derivedPc /= "idle" => time.base = clock
        /\ derivedPc \in {"derived", "action"} => time.derived <= Derived!Now
        /\ \A u \in Repeaters : derived.armed[u] => derived.triggerPeriod[u] /= 0
        /\ derivedStarts \in 0 .. DerivedMaxStarts
    BY DerivedTypes DEF DerivedBookInv
  <2> QED
    BY <1>1, <1>7, <2>1, <2>2, DerivedState, BookKept
<1>9. DerivedWaitInv => DerivedWaitInv'
  BY <1>1, <1>7 DEF DerivedWaitInv, Awaits
<1> QED
  BY <1>8, <1>9 DEF DerivedKept

(***************************************************************************)
(* The timer of the base triggers, and the loop over the derived timers    *)
(* begins: the time that it compares with has come, and the next derived   *)
(* timer is due.                                                           *)
(***************************************************************************)
LEMMA ProgressDerivedStep ==
    ASSUME DerivedBookInv, Derived!ProgressDerived
    PROVE  DerivedKept
<1> DEFINE a == Advance(base)
           e == BeginProgressed(derived)
           y == Derived!ScaleTime(scaling, derivedTrigger)
<1>1. Own \in TimersOfBase /\ End \notin TimersOfBase /\ End \notin Timers /\ BaseResolution \in Nat
  BY DerivedConstants
<1>2. /\ derivedPc = "base" /\ base.timerIterator = Own /\ base.triggerTime[Own] <= time.base
      /\ base' = Cancel(a, Own) /\ derived' = e
      /\ time' = [time EXCEPT !.derived = y] /\ derivedPc' = "derived"
      /\ scaling' = scaling /\ derivedTrigger' = derivedTrigger /\ clock' = clock
      /\ derivedStarts' = derivedStarts /\ shifts' = shifts
  BY <1>1, BaseOperations, DerivedOperations DEF Derived!ProgressDerived
<1>3. /\ ServiceInv(TimersOfBase, base) /\ ServiceInv(Timers, derived) /\ IsScaling(scaling)
      /\ clock \in Nat /\ derivedTrigger \in Int /\ Derived!Now \in Int
      /\ time \in [base : Int, derived : Int] /\ derived.nextTrigger \in Int
  BY DerivedState
<1>4. base.timerIterator /= End /\ base.armed[Own]
  BY <1>1, <1>2, <1>3 DEF ServiceInv
<1>5. /\ ServiceInv(TimersOfBase, a)
      /\ a.timerIterator /= base.timerIterator
      /\ a.holdUpdate = base.holdUpdate /\ a.armed = base.armed
      /\ a.triggerTime = base.triggerTime /\ a.triggerPeriod = base.triggerPeriod
      /\ a.nextTrigger = base.nextTrigger
      /\ NextInv(TimersOfBase, base) => NextInv(TimersOfBase, a)
  BY <1>1, <1>3, <1>4, Advances
<1>6. /\ ServiceInv(Timers, e)
      /\ e.holdUpdate
      /\ e.armed = derived.armed /\ e.nextTrigger = derived.nextTrigger
      /\ e.triggerTime = derived.triggerTime /\ e.triggerPeriod = derived.triggerPeriod
      /\ \A u \in Timers : derived.armed[u] => Ahead(e, u)
      /\ NextInv(Timers, derived) => NextInv(Timers, e)
  BY <1>1, <1>3, Begins
<1> HIDE DEF a, e
<1>7. /\ ServiceInv(TimersOfBase, base')
      /\ base'.holdUpdate = a.holdUpdate
      /\ base'.triggerPeriod = a.triggerPeriod
      /\ base'.armed = [a.armed EXCEPT ![Own] = FALSE]
      /\ base'.triggerTime = [a.triggerTime EXCEPT ![Own] = 0]
      /\ \A u : Ahead(a, u) /\ u /= Own => Ahead(base', u)
      /\ NextInv(TimersOfBase, a) => NextInv(TimersOfBase, base')
  <2>1. base' = Cancel(a, Own) /\ Own \in TimersOfBase /\ End \notin TimersOfBase
    BY <1>1, <1>2
  <2> QED
    BY <1>5, <2>1, Cancels
<1>8. ~base'.armed[Own]
  BY <1>1, <1>5, <1>7, DerivedState
<1>9. y \in Int /\ y <= Derived!Now
  <2>1. derivedTrigger <= clock
    BY <1>1, <1>2, <1>3, <1>4 DEF DerivedBookInv, OwnTime
  <2>2. y \in Int /\ y <= Derived!ScaleTime(scaling, clock)
    BY <1>3, <2>1, Ordered
  <2> QED
    BY <2>2 DEF Derived!Now
<1> HIDE DEF y
<1>10. /\ time' \in [base : Int, derived : Int] /\ time'.base = time.base /\ time'.derived = y
  BY <1>2, <1>3, <1>9
<1>11. DerivedBookInv'
  <2>1. OwnTime(base', derivedTrigger')
    BY <1>8 DEF OwnTime
  <2>2. base.holdUpdate /\ time.base = clock
    BY <1>2 DEF DerivedBookInv
  <2>3. \A u \in Repeaters : e.armed[u] => e.triggerPeriod[u] /= 0
    BY <1>6 DEF DerivedBookInv
  <2>4. derivedStarts \in 0 .. DerivedMaxStarts
    BY DerivedTypes DEF DerivedBookInv
  <2> QED
    BY <1>2, <1>3, <1>5, <1>6, <1>7, <1>9, <1>10, <2>1, <2>2, <2>3, <2>4, BookKept
<1>12. ASSUME WholeTimes, DerivedWaitInv
       PROVE  DerivedWaitInv'
  <2>1. /\ NextInv(TimersOfBase, base) /\ NextInv(Timers, derived)
        /\ derived.nextTrigger /= Never
        /\ derivedTrigger = Derived!UnscaleTime(scaling, derived.nextTrigger)
    BY <1>2, <1>4, <1>12 DEF DerivedWaitInv, Awaits
  <2>2. ~derived.holdUpdate
    BY <1>2 DEF DerivedBookInv
  <2>3. PICK u \in Timers : derived.armed[u] /\ derived.nextTrigger = derived.triggerTime[u]
    BY <2>1, <2>2 DEF NextInv, IsEarliest, Armed
  <2>4. (derived.nextTrigger - scaling.start) % scaling.factor = 0
    BY <1>12, <2>3, DerivedOperations DEF WholeTimes, Derived!Whole
  <2>5. derived.nextTrigger <= y
    BY <1>3, <2>1, <2>4, Rounded DEF y
  <2>6. \A v \in Timers : e.armed[v] => Ahead(e, v)
    BY <1>6
  <2>7. e.nextTrigger <= y
    BY <1>6, <2>5
  <2> QED
    BY <1>2, <1>5, <1>6, <1>7, <1>8, <1>10, <2>1, <2>6, <2>7 DEF DerivedWaitInv
<1> QED
  BY <1>11, <1>12 DEF DerivedKept
(***************************************************************************)
(* The derived loop passes over a timer, or triggers one.  The next        *)
(* trigger time is left alone, and so is the base.                         *)
(***************************************************************************)
LEMMA DerivedLoopSteps ==
    ASSUME DerivedBookInv, Derived!SkipDerived \/ Derived!TriggerDerived
    PROVE  DerivedKept
<1> DEFINE t == derived.timerIterator
           a == Advance(derived)
           c == ComputeNextTriggerTime(a, t, Derived!Now)
           e == IF derived.triggerTime[t] <= time.derived THEN c ELSE a
<1>1. /\ derivedPc = "derived" /\ t /= End /\ derivedPc' \in {"derived", "action"}
      /\ time' = time /\ scaling' = scaling /\ clock' = clock
      /\ derivedStarts' = derivedStarts /\ shifts' = shifts
  BY DEF Derived!SkipDerived, Derived!TriggerDerived
<1>2. /\ ServiceInv(Timers, derived) /\ End \notin Timers /\ Derived!Now \in Int
      /\ derived \in ServiceOver(Timers) /\ t \in Timers /\ derived.armed[t] /\ derived.holdUpdate
      /\ derived.nextTrigger \in Int /\ time.derived \in Int /\ derived.triggerTime \in [Timers -> Int]
  BY <1>1, DerivedState, DerivedConstants DEF DerivedBookInv, ServiceInv, ServiceOver
<1>3. t \notin SingleShots => derived.triggerPeriod[t] /= 0
  BY <1>2 DEF DerivedBookInv, Timers
<1>4. \/ /\ ~(derived.triggerTime[t] <= time.derived)
         /\ derived' = a /\ base' = base /\ derivedTrigger' = derivedTrigger
      \/ /\ derived.triggerTime[t] <= time.derived
         /\ Derived!DerivedBecomes(base, c, c)
  BY DerivedOperations DEF Derived!SkipDerived, Derived!TriggerDerived
<1>5. /\ ServiceInv(Timers, a)
      /\ a.timerIterator /= derived.timerIterator
      /\ a.holdUpdate = derived.holdUpdate /\ a.armed = derived.armed
      /\ a.triggerTime = derived.triggerTime /\ a.triggerPeriod = derived.triggerPeriod
      /\ a.nextTrigger = derived.nextTrigger
      /\ \A u : Ahead(derived, u) /\ u /= derived.timerIterator => Ahead(a, u)
      /\ NextInv(Timers, derived) => NextInv(Timers, a)
  BY <1>1, <1>2, Advances
<1>6. /\ t \in Timers /\ derived.armed[t]
      /\ ServiceInv(Timers, c)
      /\ c.timerIterator /= t
      /\ c.holdUpdate = derived.holdUpdate /\ c.triggerPeriod = derived.triggerPeriod
      /\ \A u : Ahead(derived, u) /\ u /= t => Ahead(c, u)
      /\ \A u \in Timers : u /= t => /\ c.armed[u] = derived.armed[u]
                                     /\ c.triggerTime[u] = derived.triggerTime[u]
      /\ t \in SingleShots => ~c.armed[t]
      /\ t \notin SingleShots => c.armed[t] /\ c.triggerTime[t] > Derived!Now
      /\ NextInv(Timers, derived) => NextInv(Timers, c)
  BY <1>1, <1>2, <1>3, Triggers
<1> HIDE DEF a, t
<1>7. c.nextTrigger = derived.nextTrigger
  <2>1. a \in ServiceOver(Timers) /\ a.holdUpdate /\ a.armed[t]
    BY <1>2, <1>5 DEF ServiceInv
  <2>2. CASE t \in SingleShots
    <3>1. c = Cancel(a, t)
      BY <2>2 DEF ComputeNextTriggerTime
    <3> HIDE DEF c
    <3> QED
      BY <1>2, <1>5, <2>1, <3>1, Held
  <2>3. CASE t \notin SingleShots
    <3> DEFINE x == RepeatTriggerTime(a, t, Derived!Now)
    <3>1. c = SetNextTriggerTime(a, t, x)
      BY <2>3 DEF ComputeNextTriggerTime
    <3> HIDE DEF c
    <3>2. a.triggerTime[t] \in Int /\ a.triggerPeriod[t] \in Nat \ {0}
      BY <1>2, <1>3, <1>5, <2>3, DerivedState
    <3>3. x \in Int
      BY <1>2, <3>2, Repeats
    <3> HIDE DEF x
    <3>4. \A y \in Int : a.armed[t] \/ a.nextTrigger <= y
                            => SetNextTriggerTime(a, t, y).nextTrigger = a.nextTrigger
      BY <1>2, <2>1, Held
    <3> QED
      BY <1>5, <2>1, <3>1, <3>3, <3>4
  <2> QED
    BY <2>2, <2>3
<1> HIDE DEF c
<1>8. derived' = e /\ base' = base /\ derivedTrigger' = derivedTrigger
  <2>1. CASE derived.triggerTime[t] <= time.derived
    <3>1. c.nextTrigger \in Int /\ Derived!DerivedBecomes(base, c, c)
      BY <1>2, <1>4, <1>7, <2>1
    <3> QED
      BY <1>7, <2>1, <3>1, Follows
  <2> QED
    BY <1>4, <2>1
<1>9. /\ ServiceInv(Timers, e) /\ e.holdUpdate = derived.holdUpdate
      /\ e.triggerPeriod = derived.triggerPeriod /\ e.nextTrigger = derived.nextTrigger
      /\ \A u : Ahead(derived, u) /\ u /= t => Ahead(e, u)
      /\ \A u \in Timers : u /= t => /\ e.armed[u] = derived.armed[u]
                                     /\ e.triggerTime[u] = derived.triggerTime[u]
      /\ NextInv(Timers, derived) => NextInv(Timers, e)
      /\ e.armed[t] => derived.armed[t]
      /\ e.armed[t] => e.triggerTime[t] > time.derived
  <2>1. CASE derived.triggerTime[t] <= time.derived
    <3>1. e = c /\ time.derived <= Derived!Now
      BY <1>1, <2>1 DEF DerivedBookInv
    <3> HIDE DEF e
    <3>2. c.armed[t] => c.triggerTime[t] > time.derived
      <4>1. c.triggerTime[t] \in Int
        BY <1>6 DEF ServiceInv, ServiceOver
      <4> QED
        BY <1>2, <1>6, <3>1, <4>1
    <3> QED
      BY <1>6, <1>7, <3>1, <3>2
  <2>2. CASE ~(derived.triggerTime[t] <= time.derived)
    <3>1. e = a /\ derived.triggerTime[t] > time.derived
      BY <1>2, <2>2
    <3> HIDE DEF e
    <3> QED
      BY <1>5, <3>1 DEF t
  <2> QED
    BY <2>1, <2>2
<1> HIDE DEF e
<1>10. DerivedBookInv'
  <2>1. \A u \in Repeaters : e.armed[u] => e.triggerPeriod[u] /= 0
    BY <1>9 DEF DerivedBookInv, Timers
  <2>2. /\ base.holdUpdate <=> derivedPc /= "idle"
        /\ derivedPc /= "idle" => time.base = clock
        /\ derivedPc \in {"derived", "action"} => time.derived <= Derived!Now
        /\ derivedStarts \in 0 .. DerivedMaxStarts
        /\ OwnTime(base, derivedTrigger)
    BY DerivedTypes DEF DerivedBookInv
  <2>3. base.holdUpdate /\ time.base = clock /\ time.derived <= Derived!Now
    BY <1>1, <2>2
  <2> QED
    BY <1>1, <1>2, <1>8, <1>9, <2>1, <2>2, <2>3, DerivedState, BookKept
<1>11. ASSUME DerivedWaitInv
       PROVE  DerivedWaitInv'
  <2>1. /\ NextInv(TimersOfBase, base) /\ NextInv(Timers, derived)
        /\ ~base.armed[Own]
        /\ derived.nextTrigger <= time.derived
        /\ \A u \in Timers : derived.armed[u] /\ derived.triggerTime[u] <= derived.nextTrigger
                                => Ahead(derived, u)
    BY <1>1, <1>11 DEF DerivedWaitInv
  <2>2. ASSUME NEW u \in Timers, e.armed[u], e.triggerTime[u] <= e.nextTrigger
        PROVE  Ahead(e, u)
    <3>1. u /= t
      <4>1. e.triggerTime[u] \in Int
        BY <1>9 DEF ServiceInv, ServiceOver
      <4> QED
        BY <1>2, <1>9, <2>1, <2>2, <4>1
    <3> QED
      BY <1>9, <2>1, <2>2, <3>1
  <2> QED
    BY <1>1, <1>8, <1>9, <2>1, <2>2 DEF DerivedWaitInv
<1> QED
  BY <1>10, <1>11 DEF DerivedKept

(***************************************************************************)
(* The derived loop ends.  All timers that were due have triggered, so the *)
(* next trigger time changes, unless no timer is left.                     *)
(***************************************************************************)
LEMMA FinishDerivedStep ==
    ASSUME DerivedBookInv, Derived!FinishDerived
    PROVE  DerivedKept
<1> DEFINE e == EndProgressed(derived)
<1>1. /\ derivedPc = "derived" /\ derivedPc' = "base" /\ derived.timerIterator = End
      /\ Derived!DerivedBecomes(base, e, e)
      /\ time' = [time EXCEPT !.derived = 0]
      /\ scaling' = scaling /\ clock' = clock /\ derivedStarts' = derivedStarts /\ shifts' = shifts
  BY DerivedOperations DEF Derived!FinishDerived
<1>2. ServiceInv(Timers, derived) /\ End \notin Timers
  BY DerivedState, DerivedConstants
<1>3. /\ ServiceInv(Timers, e)
      /\ NextInv(Timers, derived) => NextInv(Timers, e)
      /\ e.timerIterator = derived.timerIterator
      /\ ~e.holdUpdate
      /\ e.armed = derived.armed
      /\ e.triggerTime = derived.triggerTime /\ e.triggerPeriod = derived.triggerPeriod
  BY <1>2, Ends
<1> HIDE DEF e
<1>4. e.nextTrigger \in Int
  BY <1>3 DEF ServiceInv, ServiceOver
<1>5. /\ derived' = e
      /\ ServiceInv(TimersOfBase, base') /\ base'.holdUpdate = base.holdUpdate
      /\ derivedTrigger' \in Int /\ OwnTime(base', derivedTrigger')
      /\ e.nextTrigger = derived.nextTrigger => base' = base /\ derivedTrigger' = derivedTrigger
      /\ e.nextTrigger /= derived.nextTrigger => Awaits(base', e, scaling, derivedTrigger')
  BY <1>1, <1>4, Follows
<1>6. DerivedBookInv'
  <2>1. base.holdUpdate /\ time.base = clock
    BY <1>1 DEF DerivedBookInv
  <2>2. time' \in [base : Int, derived : Int] /\ time'.base = time.base
    BY <1>1, DerivedState
  <2>3. \A u \in Repeaters : e.armed[u] => e.triggerPeriod[u] /= 0
    BY <1>3 DEF DerivedBookInv
  <2>4. derivedStarts \in 0 .. DerivedMaxStarts
    BY DerivedTypes DEF DerivedBookInv
  <2> QED
    BY <1>1, <1>3, <1>5, <2>1, <2>2, <2>3, <2>4, BookKept
<1>7. ASSUME DerivedWaitInv
      PROVE  DerivedWaitInv'
  <2>1. /\ NextInv(TimersOfBase, base) /\ NextInv(Timers, derived)
        /\ ~base.armed[Own]
        /\ \A u \in Timers : derived.armed[u] /\ derived.triggerTime[u] <= derived.nextTrigger
                                => Ahead(derived, u)
    BY <1>1, <1>7 DEF DerivedWaitInv
  <2>2. \A u \in Timers : derived.armed[u] => ~(derived.triggerTime[u] <= derived.nextTrigger)
    BY <1>1, <1>2, <2>1, NothingAhead
  <2>3. NextInv(TimersOfBase, base')
    <3>1. e.nextTrigger <= e.nextTrigger
      BY <1>4
    <3> QED
      BY <1>1, <1>4, <2>1, <3>1, BaseKept
  <2>4. CASE e.nextTrigger = derived.nextTrigger
    <3>1. IsEarliest(e, Armed(Timers, e), e.nextTrigger)
      BY <1>3, <2>1 DEF NextInv
    <3>2. e.nextTrigger = Never
      <4>1. \A u \in Armed(Timers, e) : e.nextTrigger /= e.triggerTime[u]
        <5> SUFFICES ASSUME NEW u \in Armed(Timers, e), e.nextTrigger = e.triggerTime[u]
                     PROVE  FALSE
          OBVIOUS
        <5>1. u \in Timers /\ derived.armed[u] /\ derived.triggerTime[u] = e.nextTrigger
          BY <1>3 DEF Armed
        <5>2. e.nextTrigger <= derived.nextTrigger
          BY <1>4, <2>4
        <5> QED
          BY <2>2, <5>1, <5>2
      <4> QED
        BY <3>1, <4>1 DEF IsEarliest
    <3>3. Awaits(base', e, scaling, derivedTrigger')
      BY <1>5, <2>1, <2>4, <3>2 DEF Awaits
    <3> QED
      BY <1>1, <1>3, <1>5, <2>1, <2>3, <3>3 DEF DerivedWaitInv
  <2>5. CASE e.nextTrigger /= derived.nextTrigger
    BY <1>1, <1>3, <1>5, <2>1, <2>3, <2>5 DEF DerivedWaitInv
  <2> QED
    BY <2>4, <2>5
<1> QED
  BY <1>6, <1>7 DEF DerivedKept

(***************************************************************************)
(* Every step.                                                             *)
(***************************************************************************)
LEMMA DerivedKeepsInv ==
    ASSUME DerivedBookInv, [Derived!Next]_derivedVars
    PROVE  DerivedKept
<1>1. CASE \E t \in Derived!Timers, d \in DerivedDurations : Derived!Start(t, d)
  BY <1>1, DerivedStartStep, DerivedOperations
<1>2. CASE \E t \in Derived!Timers : Derived!CancelTimer(t)
  BY <1>2, DerivedCancelStep, DerivedOperations
<1>3. CASE \E t \in BaseTimers, d \in DerivedDurations : Derived!StartOfBase(t, d)
  BY <1>3, StartOfBaseStep
<1> QED
  BY <1>1, <1>2, <1>3, ShiftScaleSteps, DerivedQuietSteps, BaseLoopSteps, StepBaseStep,
     ProgressDerivedStep, DerivedLoopSteps, FinishDerivedStep DEF Derived!Next
(***************************************************************************)
(* Initially.                                                              *)
(***************************************************************************)
LEMMA DerivedInitially ==
    ASSUME Derived!Init
    PROVE  DerivedBookInv /\ DerivedWaitInv
<1> DEFINE b == Derived!Base!NoTimers
<1>1. /\ base = b /\ derived = NoTimers
      /\ scaling = [shift |-> 0, factor |-> 1, start |-> 0]
      /\ derivedTrigger = 0 /\ clock = 0 /\ derivedPc = "idle"
      /\ time = [base |-> 0, derived |-> 0] /\ derivedStarts = 0 /\ shifts = 0
  BY DerivedOperations DEF Derived!Init
<1>2. /\ b \in ServiceOver(TimersOfBase) /\ b.scheduledTimers = << >> /\ b.timerIterator = End
      /\ b.nextTrigger = Never /\ ~b.holdUpdate /\ ~b.updateNeeded
      /\ \A t \in TimersOfBase : ~b.armed[t] /\ b.triggerTime[t] = 0
  BY BaseOperations
<1> HIDE DEF b
<1>3. /\ NoTimers \in ServiceOver(Timers)
      /\ NoTimers.scheduledTimers = << >> /\ NoTimers.timerIterator = End
      /\ NoTimers.nextTrigger = Never /\ ~NoTimers.holdUpdate /\ ~NoTimers.updateNeeded
      /\ \A t \in Timers : ~NoTimers.armed[t] /\ NoTimers.triggerTime[t] = 0
  BY NeverAssumption, EmptySeq DEF NoTimers, ServiceOver
<1>4. ASSUME NEW T, NEW s \in ServiceOver(T),
             s.scheduledTimers = << >>, s.timerIterator = End, s.nextTrigger = Never,
             ~s.holdUpdate, ~s.updateNeeded, \A t \in T : ~s.armed[t] /\ s.triggerTime[t] = 0
      PROVE  ServiceInv(T, s) /\ NextInv(T, s)
  <2>1. \E c \in Int : \A t \in T : c <= s.triggerTime[t]
    BY <1>4
  <2>2. ServiceInv(T, s)
    <3>1. Len(s.scheduledTimers) = 0 /\ 1 .. Len(s.scheduledTimers) = {}
      BY <1>4
    <3>2. Unique(s.scheduledTimers) /\ \A t \in T : ~Occurs(s.scheduledTimers, t)
      BY <3>1 DEF Unique, Occurs
    <3> QED
      BY <1>4, <2>1, <3>2 DEF ServiceInv
  <2>3. Armed(T, s) = {}
    BY <1>4 DEF Armed
  <2>4. NextInv(T, s)
    BY <1>4, <2>3, NeverAssumption DEF NextInv, IsEarliest
  <2> QED
    BY <2>2, <2>4
<1>5. ServiceInv(TimersOfBase, b) /\ NextInv(TimersOfBase, b)
  BY <1>2, <1>4
<1>6. ServiceInv(Timers, NoTimers) /\ NextInv(Timers, NoTimers)
  BY <1>3, <1>4
<1>7. ~b.armed[Own]
  BY <1>2, DerivedConstants
<1>8. Derived!TypeOK
  BY <1>1, <1>2, <1>3, DerivedTypes, DerivedConstants
<1>9. \A t \in Repeaters : ~derived.armed[t]
  BY <1>1, <1>3 DEF Timers
<1>10. DerivedBookInv
  BY <1>1, <1>2, <1>3, <1>5, <1>6, <1>7, <1>8, <1>9 DEF DerivedBookInv, OwnTime
<1>11. DerivedWaitInv
  BY <1>1, <1>2, <1>3, <1>5, <1>6, <1>7 DEF DerivedWaitInv, Awaits
<1> QED
  BY <1>10, <1>11

(***************************************************************************)
(* What the run checks of this service follows.                            *)
(***************************************************************************)
LEMMA DerivedConsistent ==
    ASSUME DerivedBookInv
    PROVE  /\ Derived!DerivedNeverEarly
           /\ DerivedWaitInv /\ TimesBelowNever
                => Derived!TypeOK /\ Derived!NeverAbandoned /\ Derived!DerivedNeverLate
<1>1. Derived!DerivedNeverEarly
  <2> SUFFICES ASSUME derivedPc = "derived", derived.timerIterator /= End,
                      derived.triggerTime[derived.timerIterator] <= time.derived
               PROVE  derived.triggerTime[derived.timerIterator] <= Derived!Now
    BY DerivedOperations DEF Derived!DerivedNeverEarly
  <2>1. derived.timerIterator \in Timers
    BY DEF DerivedBookInv, ServiceInv, ServiceOver
  <2>2. time.derived <= Derived!Now /\ time.derived \in Int /\ Derived!Now \in Int
        /\ derived.triggerTime[derived.timerIterator] \in Int
    BY <2>1, DerivedState DEF DerivedBookInv
  <2> QED
    BY <2>2
<1>2. ASSUME DerivedWaitInv, TimesBelowNever, derivedPc = "idle",
             NEW u \in Timers, derived.armed[u]
      PROVE  /\ base.armed[Own]
             /\ base.triggerTime[Own] =
                  Derived!UnscaleTime(scaling, derived.nextTrigger) + BaseResolution
             /\ derived.nextTrigger = Earliest(derived, Armed(Timers, derived))
             /\ derived.nextTrigger <= derived.triggerTime[u]
             /\ base.nextTrigger <= base.triggerTime[Own]
  <2>1. /\ NextInv(TimersOfBase, base) /\ NextInv(Timers, derived)
        /\ Awaits(base, derived, scaling, derivedTrigger) /\ OwnTime(base, derivedTrigger)
        /\ ~base.holdUpdate /\ ~derived.holdUpdate
    BY <1>2 DEF DerivedWaitInv, DerivedBookInv
  <2>2. /\ IsEarliest(derived, Armed(Timers, derived), derived.nextTrigger)
        /\ IsEarliest(base, Armed(TimersOfBase, base), base.nextTrigger)
    BY <2>1 DEF NextInv
  <2>3. u \in Armed(Timers, derived) /\ derived.triggerTime[u] < Never
        /\ derived.triggerTime[u] \in Int /\ derived.nextTrigger \in Int
    BY <1>2, DerivedState DEF Armed, TimesBelowNever
  <2>4. derived.nextTrigger <= derived.triggerTime[u] /\ derived.nextTrigger /= Never
    BY <2>2, <2>3, NeverAssumption DEF IsEarliest
  <2>5. base.armed[Own] /\ Own \in Armed(TimersOfBase, base)
    BY <2>1, <2>4, DerivedConstants DEF Awaits, Armed
  <2>6. derived.nextTrigger = Earliest(derived, Armed(Timers, derived))
    <3>1. Armed(Timers, derived) \in SUBSET Timers
      BY DEF Armed
    <3>2. /\ derived \in ServiceOver(Timers)
          /\ \E k \in Int : \A t \in Timers : k <= derived.triggerTime[t]
      BY DEF DerivedBookInv, ServiceInv
    <3> QED
      BY <2>2, <3>1, <3>2, EarliestFound
  <2> QED
    BY <2>1, <2>2, <2>4, <2>5, <2>6 DEF Awaits, OwnTime, IsEarliest
<1>3. ASSUME DerivedWaitInv, TimesBelowNever
      PROVE  Derived!NeverAbandoned
  <2> SUFFICES ASSUME derivedPc = "idle", NEW u \in Timers, derived.armed[u]
               PROVE  /\ base.armed[Own]
                      /\ base.triggerTime[Own] =
                           Derived!UnscaleTime(scaling, Earliest(derived, Armed(Timers, derived)))
                             + BaseResolution
                      /\ base.nextTrigger <= base.triggerTime[Own]
    BY DerivedOperations DEF Derived!NeverAbandoned, Armed
  <2> QED
    BY <1>2, <1>3
<1>4. ASSUME DerivedWaitInv, TimesBelowNever
      PROVE  Derived!DerivedNeverLate
  <2> SUFFICES ASSUME derivedPc = "idle", base.nextTrigger > clock, NEW u \in Timers, derived.armed[u]
               PROVE  Derived!Now < derived.triggerTime[u] + (BaseResolution + 1) * scaling.factor
    BY DerivedOperations DEF Derived!DerivedNeverLate
  <2> DEFINE m == Derived!UnscaleTime(scaling, derived.nextTrigger)
             f == scaling.factor
             k == BaseResolution
             g == derived.nextTrigger
             y == Derived!ScaleTime(scaling, m)
  <2>1. /\ g <= derived.triggerTime[u] /\ base.nextTrigger <= m + k
    BY <1>2, <1>4
  <2>2. /\ IsScaling(scaling) /\ clock \in Int /\ g \in Int /\ base.nextTrigger \in Int
        /\ derived.triggerTime[u] \in Int /\ k \in Nat /\ f \in Nat \ {0}
    BY DerivedState, DerivedConstants DEF IsScaling
  <2>3. m \in Int
    BY <2>2, Ordered
  <2>4. y \in Int /\ y < g + f
    BY <2>2, Rounded
  <2>5. clock <= m + k
    <3> HIDE DEF m, k
    <3> QED
      BY <2>1, <2>2, <2>3
  <2>6. Derived!Now \in Int /\ Derived!Now <= Derived!ScaleTime(scaling, m + k)
    <3>1. m + k \in Int
      BY <2>2, <2>3
    <3> HIDE DEF m
    <3> QED
      BY <2>2, <2>5, <3>1, Ordered, DerivedState DEF Derived!Now
  <2>7. Derived!ScaleTime(scaling, m + k) = y + k * f
    <3> HIDE DEF m, k
    <3>1. Derived!ScaleTime(scaling, m + k) =
            scaling.start + ((m + k) - scaling.start + scaling.shift) * f
      BY DEF Derived!ScaleTime
    <3>4. y = scaling.start + (m - scaling.start + scaling.shift) * f
      BY DEF Derived!ScaleTime
    <3>2. scaling.start \in Int /\ scaling.shift \in Int
      BY <2>2 DEF IsScaling
    <3>3. ASSUME NEW a \in Int, NEW c \in Int, NEW d \in Int, NEW h \in Int, NEW q \in Int
          PROVE  a + ((c + d) - a + h) * q = a + (c - a + h) * q + d * q
      OBVIOUS
    <3> HIDE DEF f, y
    <3> QED
      BY <2>2, <2>3, <3>1, <3>2, <3>3, <3>4
  <2>8. k * f \in Int /\ (k + 1) * f = k * f + f
    <3> HIDE DEF k, f
    <3> QED
      BY <2>2
  <2>9. Derived!Now < derived.triggerTime[u] + (k + 1) * f
    <3> DEFINE z == k * f
    <3> HIDE DEF y, k, f, g, z
    <3>1. /\ z \in Int /\ (k + 1) * f = z + f /\ Derived!Now <= y + z
      BY <2>6, <2>7, <2>8 DEF z
    <3> QED
      BY <2>1, <2>2, <2>4, <2>6, <3>1
  <2> QED
    BY <2>9
<1> QED
  BY <1>1, <1>3, <1>4 DEF DerivedBookInv

-----------------------------------------------------------------------------
(* The theorems *)

(***************************************************************************)
(* A step of one service is no step of the others.                         *)
(***************************************************************************)
LEMMA OneSubject ==
    ASSUME [TimersNext]_<<subject, vars, hostVars, derivedVars>>
    PROVE  [Next]_vars /\ [Host!Next]_hostVars /\ [Derived!Next]_derivedVars
<1>1. CASE TimersNext
  BY <1>1 DEF TimersNext
<1>2. CASE UNCHANGED <<subject, vars, hostVars, derivedVars>>
  BY <1>2
<1> QED
  BY <1>1, <1>2

(***************************************************************************)
(* Lists, threads and times of all services are always in order.           *)
(***************************************************************************)
LEMMA TimersInvariant ==
    TimersSpec => [](BookInv /\ EarlyInv /\ HostBookInv /\ ThreadsInv /\ DerivedBookInv)
<1> DEFINE Inv == BookInv /\ EarlyInv /\ HostBookInv /\ ThreadsInv /\ DerivedBookInv
<1>1. TimersInit => Inv
  BY TickInitially, HostInitially, DerivedInitially DEF TimersInit
<1>2. Inv /\ [TimersNext]_<<subject, vars, hostVars, derivedVars>> => Inv'
  BY OneSubject, TicksKeepInv, HostKeepsInv, DerivedKeepsInv DEF DerivedKept
<1> QED
  BY <1>1, <1>2, PTL DEF TimersSpec

(***************************************************************************)
(* No timer of TickOnInterruptTimerService or of a derived service         *)
(* triggers early, whatever clients start, cancel, shift and scale, and    *)
(* wherever the interrupt falls.                                           *)
(***************************************************************************)
THEOREM NoTimerTriggersEarly == TimersSpec => []TimersNeverEarly
<1>1. EarlyInv /\ DerivedBookInv => TimersNeverEarly
  BY DerivedConsistent DEF EarlyInv, TimersNeverEarly
<1> QED
  BY <1>1, TimersInvariant, PTL

(***************************************************************************)
(* Every step leaves a timer that waits one that is waited for.            *)
(***************************************************************************)
LEMMA WaitsKept ==
    ASSUME BookInv, EarlyInv, DerivedBookInv, NextTriggerInv, DerivedWaitInv,
           ~RestartEarlier, WholeTimes, TimesBelowNever',
           [TimersNext]_<<subject, vars, hostVars, derivedVars>>
    PROVE  NextTriggerInv' /\ DerivedWaitInv'
<1>1. [Next]_vars /\ [Derived!Next]_derivedVars
  BY OneSubject
<1>2. NextTriggerInv'
  BY <1>1, TicksKeepInv
<1>3. DerivedKept
  BY <1>1, DerivedKeepsInv
<1>4. DerivedWaitInv'
  BY <1>3 DEF DerivedKept
<1> QED
  BY <1>2, <1>4

(***************************************************************************)
(* No timer that waits is forgotten, by any of the services, if clients    *)
(* start no armed timer again for an earlier time, if the trigger times of *)
(* derived timers are whole times of the base, and if time does not come   *)
(* to TimePoint::max(): without either of the first two, timers get lost.  *)
(***************************************************************************)
THEOREM NoTimerIsForgotten ==
    ASSUME ~RestartEarlier
    PROVE  TimersSpec /\ []WholeTimes /\ []TimesBelowNever => []NoTimerForgotten
<1> DEFINE Inv == BookInv /\ EarlyInv /\ HostBookInv /\ ThreadsInv /\ DerivedBookInv
           Waits == NextTriggerInv /\ DerivedWaitInv
<1>1. TimersInit => Waits
  BY TickInitially, DerivedInitially DEF TimersInit
<1>2. Inv /\ Waits /\ WholeTimes /\ TimesBelowNever'
        /\ [TimersNext]_<<subject, vars, hostVars, derivedVars>> => Waits'
  BY WaitsKept
<1>3. Inv /\ Waits /\ TimesBelowNever => NoTimerForgotten
  BY TicksConsistent, HostConsistent, DerivedConsistent DEF NoTimerForgotten
<1>4. TimersSpec => []Inv
  BY TimersInvariant
<1> HIDE DEF Inv, Waits
<1> QED
  BY <1>1, <1>2, <1>3, <1>4, PTL DEF TimersSpec
=============================================================================
