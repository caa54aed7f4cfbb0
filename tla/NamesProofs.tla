----------------------------- MODULE NamesProofs -----------------------------
(***************************************************************************)
(* Proofs about module NameLookup, for every set of results and any number *)
(* of lookups, cancellations and spurious wake-ups, about module           *)
(* ConnectionFactoryWithNameResolver, for every set of clients, and about  *)
(* module DnsResolver, for every zone, list of servers and set of          *)
(* referrals.                                                              *)
(***************************************************************************)
EXTENDS MCNames, SequenceTheorems, FiniteSetTheorems, WellFoundedInduction, TLAPS

LookupAssumption ==
    /\ Thread!ResultsAssumption
    /\ Thread!MaxRequestsAssumption
    /\ Thread!MaxAheadAssumption

Occurs(s, r) == \E i \in DOMAIN s : s[i] = r
Unique(s) == \A i, j \in DOMAIN s : s[i] = s[j] => i = j
Reported(n) == \E i \in DOMAIN reports : reports[i][1] = n

(***************************************************************************)
(* A result that is looked up is in the list once, and its request is      *)
(* open: a number that was given out, to no other result in the list, and  *)
(* that is neither cancelled nor reported.  Whatever was cancelled or      *)
(* reported was given out, so that a new request is open as well.          *)
(***************************************************************************)
RequestsInv ==
    /\ Unique(nameLookup)
    /\ \A r \in Results : Occurs(nameLookup, r) =>
          /\ request[r] \in 1 .. lookups
          /\ request[r] \notin cancelled
          /\ ~Reported(request[r])
    /\ \A r, s \in Results :
          Occurs(nameLookup, r) /\ Occurs(nameLookup, s) /\ request[r] = request[s] => r = s
    /\ \A n \in cancelled : n <= lookups
    /\ \A n : Reported(n) => n <= lookups

LookupInv ==
    /\ Thread!TypeOK
    /\ Thread!NotReportedAfterEnd
    /\ RequestsInv
    /\ thread = "resolve" => currentLookup \in Results

-----------------------------------------------------------------------------

(***************************************************************************)
(* push_back of an element that is not in the list.                        *)
(***************************************************************************)
LEMMA PushBack ==
    ASSUME NEW S, NEW s \in Seq(S), Unique(s), NEW r \in S, ~Occurs(s, r)
    PROVE  /\ Append(s, r) \in Seq(S) /\ Len(Append(s, r)) = Len(s) + 1
           /\ Unique(Append(s, r))
           /\ \A q : Occurs(Append(s, r), q) <=> Occurs(s, q) \/ q = r
<1>1. Append(s, r) \in Seq(S) /\ Len(Append(s, r)) = Len(s) + 1 /\ Len(s) \in Nat
  OBVIOUS
<1>2. DOMAIN Append(s, r) = 1 .. Len(s) + 1 /\ DOMAIN s = 1 .. Len(s)
  BY <1>1
<1>3. /\ \A i \in 1 .. Len(s) : Append(s, r)[i] = s[i]
      /\ Append(s, r)[Len(s) + 1] = r
  BY <1>1
<1>4. Unique(Append(s, r))
  BY <1>1, <1>2, <1>3 DEF Unique, Occurs
<1>5. \A q : Occurs(Append(s, r), q) <=> Occurs(s, q) \/ q = r
  BY <1>1, <1>2, <1>3 DEF Occurs
<1> QED
  BY <1>1, <1>4, <1>5

(***************************************************************************)
(* pop_front.                                                              *)
(***************************************************************************)
LEMMA PopFront ==
    ASSUME NEW S, NEW s \in Seq(S), Unique(s), s /= << >>
    PROVE  /\ Tail(s) \in Seq(S) /\ Len(Tail(s)) = Len(s) - 1
           /\ Head(s) \in S
           /\ Occurs(s, Head(s))
           /\ Unique(Tail(s))
           /\ \A q : Occurs(Tail(s), q) <=> Occurs(s, q) /\ q /= Head(s)
<1>1. /\ Tail(s) \in Seq(S)
      /\ Len(s) \in Nat \ {0} /\ Len(Tail(s)) = Len(s) - 1
      /\ Head(s) = s[1]
  OBVIOUS
<1>2. DOMAIN Tail(s) = 1 .. Len(s) - 1 /\ DOMAIN s = 1 .. Len(s)
  BY <1>1
<1>3. \A i \in 1 .. Len(s) - 1 : Tail(s)[i] = s[i + 1]
  BY <1>1
<1>4. Occurs(s, Head(s)) /\ Head(s) \in S
  BY <1>1, <1>2 DEF Occurs
<1>5. Unique(Tail(s))
  BY <1>1, <1>2, <1>3 DEF Unique
<1>6. ASSUME NEW q, Occurs(Tail(s), q)
      PROVE  Occurs(s, q) /\ q /= Head(s)
  BY <1>1, <1>2, <1>3, <1>6 DEF Occurs, Unique
<1>7. ASSUME NEW q, Occurs(s, q), q /= Head(s)
      PROVE  Occurs(Tail(s), q)
  <2>1. PICK i \in 1 .. Len(s) : s[i] = q
    BY <1>2, <1>7 DEF Occurs
  <2>2. i - 1 \in 1 .. Len(s) - 1 /\ Tail(s)[i - 1] = q
    BY <1>1, <1>3, <1>7, <2>1
  <2> QED
    BY <1>2, <2>2 DEF Occurs
<1> QED
  BY <1>1, <1>4, <1>5, <1>6, <1>7

(***************************************************************************)
(* erase of an element of the list.                                        *)
(***************************************************************************)
LEMMA EraseElement ==
    ASSUME NEW S, NEW s \in Seq(S), Unique(s), NEW k \in DOMAIN s
    PROVE  /\ RemoveAt(s, k) \in Seq(S) /\ Len(RemoveAt(s, k)) = Len(s) - 1
           /\ Unique(RemoveAt(s, k))
           /\ \A q : Occurs(RemoveAt(s, k), q) <=> Occurs(s, q) /\ q /= s[k]
<1> DEFINE front == SubSeq(s, 1, k - 1)
           back == SubSeq(s, k + 1, Len(s))
           t == front \o back
<1>1. Len(s) \in Nat /\ DOMAIN s = 1 .. Len(s) /\ k \in 1 .. Len(s)
  OBVIOUS
<1>2. RemoveAt(s, k) = t
  BY DEF RemoveAt
<1>3. /\ front \in Seq(S) /\ Len(front) = k - 1
      /\ \A i \in 1 .. k - 1 : front[i] = s[i]
  BY <1>1
<1>4. back \in Seq(S) /\ Len(back) = Len(s) - k
  BY <1>1, SubSeqProperties
<1>5. \A i \in 1 .. Len(s) - k : back[i] = s[i + k]
  BY <1>1, SubSeqProperties
<1> HIDE DEF front, back
<1>6. t \in Seq(S) /\ Len(t) = Len(s) - 1
  <2>1. t \in Seq(S) /\ Len(t) = Len(front) + Len(back)
    BY <1>3, <1>4, ConcatProperties
  <2> QED
    BY <1>1, <1>3, <1>4, <2>1
<1>7. \A i \in 1 .. Len(s) - 1 : t[i] = IF i < k THEN s[i] ELSE s[i + 1]
  <2>1. \A i \in 1 .. Len(front) + Len(back) :
           t[i] = IF i <= Len(front) THEN front[i] ELSE back[i - Len(front)]
    BY <1>3, <1>4, ConcatProperties
  <2> HIDE DEF t
  <2> SUFFICES ASSUME NEW i \in 1 .. Len(s) - 1
               PROVE  t[i] = IF i < k THEN s[i] ELSE s[i + 1]
    OBVIOUS
  <2>2. t[i] = IF i < k THEN front[i] ELSE back[i - (k - 1)]
    BY <1>1, <1>3, <1>4, <2>1
  <2>3. i < k => front[i] = s[i]
    BY <1>1, <1>3
  <2>4. ~(i < k) => i - (k - 1) \in 1 .. Len(s) - k /\ i - (k - 1) + k = i + 1
    BY <1>1
  <2> QED
    BY <1>5, <2>2, <2>3, <2>4
<1> HIDE DEF t
<1>8. DOMAIN t = 1 .. Len(s) - 1
  BY <1>1, <1>6
<1>9. Unique(t)
  <2> SUFFICES ASSUME NEW i \in 1 .. Len(s) - 1, NEW j \in 1 .. Len(s) - 1, t[i] = t[j]
               PROVE  i = j
    BY <1>8 DEF Unique
  <2>1. \A a, b \in 1 .. Len(s) : s[a] = s[b] => a = b
    BY <1>1 DEF Unique
  <2>2. i + 1 \in 1 .. Len(s) /\ j + 1 \in 1 .. Len(s) /\ i \in 1 .. Len(s) /\ j \in 1 .. Len(s)
    BY <1>1
  <2>3. CASE i < k /\ j < k
    BY <1>7, <2>1, <2>2, <2>3
  <2>4. CASE i < k /\ ~(j < k)
    BY <1>1, <1>7, <2>1, <2>2, <2>4
  <2>5. CASE ~(i < k) /\ j < k
    BY <1>1, <1>7, <2>1, <2>2, <2>5
  <2>6. CASE ~(i < k) /\ ~(j < k)
    BY <1>1, <1>7, <2>1, <2>2, <2>6
  <2> QED
    BY <2>3, <2>4, <2>5, <2>6
<1>10. ASSUME NEW q, Occurs(t, q)
      PROVE  Occurs(s, q) /\ q /= s[k]
  BY <1>1, <1>6, <1>7, <1>8, <1>10 DEF Occurs, Unique
<1>11. ASSUME NEW q, Occurs(s, q), q /= s[k]
       PROVE  Occurs(t, q)
  <2>1. PICK i \in 1 .. Len(s) : s[i] = q
    BY <1>1, <1>11 DEF Occurs
  <2>2. CASE i < k
    <3>1. i \in 1 .. Len(s) - 1 /\ t[i] = q
      BY <1>1, <1>7, <2>1, <2>2
    <3> QED
      BY <1>8, <3>1 DEF Occurs
  <2>3. CASE i > k
    <3>1. i - 1 \in 1 .. Len(s) - 1 /\ t[i - 1] = q
      BY <1>1, <1>7, <2>1, <2>3
    <3> QED
      BY <1>8, <3>1 DEF Occurs
  <2> QED
    BY <1>1, <1>11, <2>1, <2>2, <2>3
<1> QED
  BY <1>2, <1>6, <1>9, <1>10, <1>11

-----------------------------------------------------------------------------

(***************************************************************************)
(* The types, action by action.                                            *)
(***************************************************************************)
LEMMA TypeStep ==
    ASSUME LookupAssumption, LookupInv, [Thread!Next]_Thread!vars
    PROVE  Thread!TypeOK'
<1> USE DEF LookupAssumption, Thread!ResultsAssumption, Thread!MaxRequestsAssumption,
            Thread!MaxAheadAssumption
<1>1. /\ nameLookup \in Seq(Results) /\ Unique(nameLookup)
      /\ currentLookup \in Results \cup {None}
      /\ run \in BOOLEAN /\ mutexHeld \in BOOLEAN
      /\ thread \in Thread!Threads
      /\ resolved \in 0 .. MaxLookups
      /\ events \in Seq([done : BOOLEAN, of : 0 .. MaxLookups])
      /\ calling \in Results \cup {None}
      /\ lookups \in 0 .. MaxLookups
      /\ request \in [Results -> 0 .. MaxLookups]
      /\ cancelled \subseteq 0 .. MaxLookups
      /\ reports \in Seq((0 .. MaxLookups) \X (0 .. MaxLookups))
      /\ thread = "resolve" => currentLookup \in Results
  BY DEF LookupInv, Thread!TypeOK, RequestsInv
<1>2. Thread!Notify => thread' \in Thread!Threads
  BY <1>1 DEF Thread!Notify, Thread!Threads
<1>3. ASSUME NEW r \in Results, Thread!Lookup(r)
      PROVE  Thread!TypeOK'
  <2>1. nameLookup' \in Seq(Results)
    BY <1>1, <1>3 DEF Thread!Lookup
  <2>2. lookups' \in 0 .. MaxLookups /\ request' \in [Results -> 0 .. MaxLookups]
    BY <1>1, <1>3 DEF Thread!Lookup
  <2> QED
    BY <1>1, <1>2, <1>3, <2>1, <2>2 DEF Thread!Lookup, Thread!TypeOK
<1>4. ASSUME NEW r \in Results, Thread!CancelLookup(r)
      PROVE  Thread!TypeOK'
  <2>1. (CHOOSE i \in DOMAIN nameLookup : nameLookup[i] = r) \in DOMAIN nameLookup
    BY <1>4 DEF Thread!CancelLookup, Thread!Pending
  <2>2. nameLookup' \in Seq(Results)
    BY <1>1, <1>4, <2>1, EraseElement DEF Thread!CancelLookup, Thread!RemoveAt, RemoveAt
  <2>3. cancelled' \subseteq 0 .. MaxLookups
    BY <1>1, <1>4 DEF Thread!CancelLookup
  <2> QED
    BY <1>1, <1>4, <2>2, <2>3 DEF Thread!CancelLookup, Thread!TypeOK
<1>5. ASSUME Thread!Destruct
      PROVE  Thread!TypeOK'
  BY <1>1, <1>2, <1>5 DEF Thread!Destruct, Thread!TypeOK
<1>6. ASSUME Thread!Loop
      PROVE  Thread!TypeOK'
  <2>1. thread' \in Thread!Threads
    BY <1>1, <1>6, Zenon DEF Thread!Loop, Thread!Threads
  <2>2. currentLookup' \in Results \cup {None}
    <3>1. \/ currentLookup' = currentLookup
          \/ nameLookup /= << >> /\ currentLookup' = Head(nameLookup)
      BY <1>6 DEF Thread!Loop
    <3> QED
      BY <1>1, <3>1
  <2> QED
    BY <1>1, <1>6, <2>1, <2>2 DEF Thread!Loop, Thread!TypeOK
<1>7. ASSUME Thread!ReadHostname
      PROVE  Thread!TypeOK'
  BY <1>1, <1>7 DEF Thread!ReadHostname, Thread!TypeOK, Thread!Threads
<1>8. ASSUME NEW done \in BOOLEAN, Thread!ScheduleCompletion(done)
      PROVE  Thread!TypeOK'
  <2>1. [done |-> done, of |-> resolved] \in [done : BOOLEAN, of : 0 .. MaxLookups]
    BY <1>1
  <2>2. events' \in Seq([done : BOOLEAN, of : 0 .. MaxLookups])
    BY <1>1, <1>8, <2>1 DEF Thread!ScheduleCompletion
  <2> QED
    BY <1>1, <1>8, <2>2 DEF Thread!ScheduleCompletion, Thread!TypeOK, Thread!Threads
<1>9. ASSUME Thread!Relock \/ Thread!SpuriousWakeUp
      PROVE  Thread!TypeOK'
  BY <1>1, <1>9 DEF Thread!Relock, Thread!SpuriousWakeUp, Thread!TypeOK, Thread!Threads
<1>10. ASSUME Thread!CompleteCancelled
       PROVE  Thread!TypeOK'
  <2>1. events' \in Seq([done : BOOLEAN, of : 0 .. MaxLookups])
    BY <1>1, <1>10 DEF Thread!CompleteCancelled
  <2> QED
    BY <1>1, <1>2, <1>10, <2>1 DEF Thread!CompleteCancelled, Thread!TypeOK
<1>11. ASSUME Thread!CompleteCurrent
       PROVE  Thread!TypeOK'
  <2>1. /\ events' \in Seq([done : BOOLEAN, of : 0 .. MaxLookups])
        /\ Head(events) \in [done : BOOLEAN, of : 0 .. MaxLookups]
    BY <1>1, <1>11, HeadTailProperties, Zenon DEF Thread!CompleteCurrent
  <2>2. currentLookup \in Results /\ nameLookup' \in Seq(Results)
    BY <1>1, <1>11 DEF Thread!CompleteCurrent, Thread!IsCurrent
  <2>3. mutexHeld' \in BOOLEAN
    BY <1>11, <2>1 DEF Thread!CompleteCurrent
  <2>4. <<request[currentLookup], Head(events).of>> \in (0 .. MaxLookups) \X (0 .. MaxLookups)
    BY <1>1, <2>1, <2>2
  <2>5. reports' \in Seq((0 .. MaxLookups) \X (0 .. MaxLookups))
    BY <1>1, <1>11, <2>4 DEF Thread!CompleteCurrent
  <2> QED
    BY <1>1, <1>11, <2>1, <2>2, <2>3, <2>5 DEF Thread!CompleteCurrent, Thread!TypeOK
<1>12. ASSUME Thread!CallbackReturns
       PROVE  Thread!TypeOK'
  BY <1>1, <1>2, <1>12 DEF Thread!CallbackReturns, Thread!TypeOK
<1>13. CASE UNCHANGED Thread!vars
  BY <1>1, <1>13 DEF Thread!vars, Thread!TypeOK
<1> QED
  BY <1>3, <1>4, <1>5, <1>6, <1>7, <1>8, <1>9, <1>10, <1>11, <1>12, <1>13
  DEF Thread!Next, Thread!ClientCalls, Thread!LookupThread, Thread!Completions

(***************************************************************************)
(* What was promised of the answers, and what the requests in the list     *)
(* have to do with it: only Lookup, CancelLookup and CompleteCurrent       *)
(* change any of it.                                                       *)
(***************************************************************************)
LEMMA RequestsStep ==
    ASSUME LookupAssumption, LookupInv, [Thread!Next]_Thread!vars
    PROVE  Thread!NotReportedAfterEnd' /\ RequestsInv'
<1> USE DEF LookupAssumption, Thread!ResultsAssumption, Thread!MaxRequestsAssumption,
            Thread!MaxAheadAssumption
<1>1. /\ nameLookup \in Seq(Results)
      /\ lookups \in 0 .. MaxLookups
      /\ request \in [Results -> 0 .. MaxLookups]
      /\ cancelled \subseteq 0 .. MaxLookups
      /\ reports \in Seq((0 .. MaxLookups) \X (0 .. MaxLookups))
      /\ Thread!NotReportedAfterEnd /\ RequestsInv
  BY DEF LookupInv, Thread!TypeOK
<1>2. ASSUME NEW r \in Results, Thread!Lookup(r)
      PROVE  Thread!NotReportedAfterEnd' /\ RequestsInv'
  <2>1. ~Occurs(nameLookup, r) /\ lookups' = lookups + 1 /\ lookups \in Nat
    BY <1>1, <1>2 DEF Thread!Lookup, Thread!Pending, Occurs
  <2>2. UNCHANGED <<cancelled, reports>>
    BY <1>2 DEF Thread!Lookup
  <2>3. Unique(nameLookup') /\ \A q : Occurs(nameLookup', q) <=> Occurs(nameLookup, q) \/ q = r
    BY <1>1, <1>2, <2>1, PushBack DEF Thread!Lookup, RequestsInv
  <2>4. \A q \in Results : request'[q] = IF q = r THEN lookups + 1 ELSE request[q]
    BY <1>1, <1>2 DEF Thread!Lookup
  <2>5. Thread!NotReportedAfterEnd' /\ \A n : Reported(n)' <=> Reported(n)
    BY <1>1, <2>2 DEF Thread!NotReportedAfterEnd, Reported
  <2>6. \A q \in Results : Occurs(nameLookup, q) => request[q] <= lookups /\ request[q] \in Nat
    BY <1>1, <2>1 DEF RequestsInv
  <2>7. lookups + 1 \notin cancelled /\ ~Reported(lookups + 1)
    BY <1>1, <2>1 DEF RequestsInv
  <2>8. ASSUME NEW q \in Results, Occurs(nameLookup', q)
        PROVE  request'[q] \in 1 .. lookups' /\ request'[q] \notin cancelled' /\ ~Reported(request'[q])
    <3>1. CASE q = r
      BY <2>1, <2>2, <2>4, <2>7, <3>1
    <3>2. CASE q /= r
      BY <1>1, <2>1, <2>2, <2>3, <2>4, <2>8, <3>2 DEF RequestsInv
    <3> QED
      BY <3>1, <3>2
  <2>9. ASSUME NEW q \in Results, NEW s \in Results,
               Occurs(nameLookup', q), Occurs(nameLookup', s), request'[q] = request'[s]
        PROVE  q = s
    <3>1. CASE q /= r /\ s /= r
      BY <1>1, <2>3, <2>4, <2>9, <3>1 DEF RequestsInv
    <3>2. CASE q = r \/ s = r
      BY <2>1, <2>3, <2>4, <2>6, <2>9, <3>2
    <3> QED
      BY <3>1, <3>2
  <2>10. /\ \A n \in cancelled' : n <= lookups'
         /\ \A n : Reported(n) => n <= lookups'
    <3>1. \A n \in cancelled : n \in Nat /\ n <= lookups
      BY <1>1 DEF RequestsInv
    <3>2. \A n : Reported(n) => n \in Nat /\ n <= lookups
      BY <1>1 DEF RequestsInv, Reported
    <3> QED
      BY <2>1, <2>2, <3>1, <3>2
  <2> QED
    BY <2>3, <2>5, <2>8, <2>9, <2>10 DEF RequestsInv
<1>3. ASSUME NEW r \in Results, Thread!CancelLookup(r)
      PROVE  Thread!NotReportedAfterEnd' /\ RequestsInv'
  <2> DEFINE k == CHOOSE i \in DOMAIN nameLookup : nameLookup[i] = r
  <2>1. /\ k \in DOMAIN nameLookup /\ nameLookup[k] = r
        /\ Occurs(nameLookup, r)
    BY <1>3 DEF Thread!CancelLookup, Thread!Pending, Occurs
  <2>2. /\ nameLookup' = RemoveAt(nameLookup, k)
        /\ cancelled' = cancelled \cup {request[r]}
        /\ UNCHANGED <<lookups, request, reports>>
    BY <1>3 DEF Thread!CancelLookup, Thread!RemoveAt, RemoveAt
  <2> HIDE DEF k
  <2>3. Unique(nameLookup') /\ \A q : Occurs(nameLookup', q) <=> Occurs(nameLookup, q) /\ q /= r
    BY <1>1, <2>1, <2>2, EraseElement DEF RequestsInv
  <2>4. \A n : Reported(n)' <=> Reported(n)
    BY <2>2 DEF Reported
  <2>5. Thread!NotReportedAfterEnd'
    BY <1>1, <2>1, <2>2 DEF Thread!NotReportedAfterEnd, RequestsInv, Reported
  <2>6. ASSUME NEW q \in Results, Occurs(nameLookup', q)
        PROVE  request[q] \in 1 .. lookups /\ request[q] \notin cancelled' /\ ~Reported(request[q])
    BY <1>1, <2>1, <2>2, <2>3, <2>6 DEF RequestsInv
  <2>7. \A n \in cancelled' : n <= lookups
    BY <1>1, <2>1, <2>2 DEF RequestsInv
  <2> QED
    BY <1>1, <2>2, <2>3, <2>4, <2>5, <2>6, <2>7 DEF RequestsInv
<1>4. ASSUME Thread!CompleteCurrent
      PROVE  Thread!NotReportedAfterEnd' /\ RequestsInv'
  <2> DEFINE r == currentLookup
  <2>1. /\ nameLookup /= << >> /\ r = Head(nameLookup)
        /\ nameLookup' = Tail(nameLookup)
        /\ reports' = Append(reports, <<request[r], Head(events).of>>)
        /\ UNCHANGED <<lookups, request, cancelled>>
    BY <1>4 DEF Thread!CompleteCurrent, Thread!IsCurrent
  <2> HIDE DEF r
  <2>2. /\ r \in Results /\ Occurs(nameLookup, r) /\ Unique(nameLookup')
        /\ \A q : Occurs(nameLookup', q) <=> Occurs(nameLookup, q) /\ q /= r
    BY <1>1, <2>1, PopFront DEF RequestsInv
  <2>3. request[r] \in 1 .. lookups /\ request[r] \notin cancelled /\ ~Reported(request[r])
    BY <1>1, <2>2 DEF RequestsInv
  <2>4. /\ Len(reports) \in Nat
        /\ DOMAIN reports = 1 .. Len(reports) /\ DOMAIN reports' = 1 .. Len(reports) + 1
        /\ \A i \in 1 .. Len(reports) : reports'[i] = reports[i]
        /\ reports'[Len(reports) + 1][1] = request[r]
    BY <1>1, <2>1
  <2>5. \A n : Reported(n)' <=> Reported(n) \/ n = request[r]
    BY <2>4 DEF Reported
  <2>6. Thread!NotReportedAfterEnd'
    <3>1. \A i \in DOMAIN reports' : reports'[i][1] \notin cancelled'
      BY <1>1, <2>1, <2>3, <2>4 DEF Thread!NotReportedAfterEnd
    <3>2. ASSUME NEW i \in DOMAIN reports', NEW j \in DOMAIN reports',
                 reports'[i][1] = reports'[j][1]
          PROVE  i = j
      <4>1. \A n \in DOMAIN reports : reports'[n][1] /= request[r]
        BY <2>3, <2>4 DEF Reported
      <4>2. CASE i \in DOMAIN reports /\ j \in DOMAIN reports
        BY <1>1, <2>4, <3>2, <4>2 DEF Thread!NotReportedAfterEnd
      <4>3. CASE i \notin DOMAIN reports \/ j \notin DOMAIN reports
        <5>1. \A n \in DOMAIN reports' : n \in DOMAIN reports \/ n = Len(reports) + 1
          BY <2>4
        <5> QED
          BY <2>4, <3>2, <4>1, <4>3, <5>1
      <4> QED
        BY <4>2, <4>3
    <3> QED
      BY <3>1, <3>2 DEF Thread!NotReportedAfterEnd
  <2>7. ASSUME NEW q \in Results, Occurs(nameLookup', q)
        PROVE  request[q] \in 1 .. lookups /\ request[q] \notin cancelled /\ ~Reported(request[q])'
    <3>1. request[q] /= request[r]
      BY <1>1, <2>2, <2>7 DEF RequestsInv
    <3>2. request[q] \in 1 .. lookups /\ request[q] \notin cancelled /\ ~Reported(request[q])
      BY <1>1, <2>2, <2>7 DEF RequestsInv
    <3>3. ~Reported(request[q])'
      BY <1>1, <2>1, <2>5, <3>1, <3>2
    <3> QED
      BY <3>2, <3>3
  <2>8. \A n : Reported(n)' => n <= lookups
    BY <1>1, <2>3, <2>5 DEF RequestsInv
  <2> QED
    BY <1>1, <2>1, <2>2, <2>6, <2>7, <2>8 DEF RequestsInv
<1>5. ASSUME UNCHANGED <<nameLookup, lookups, request, cancelled, reports>>
      PROVE  Thread!NotReportedAfterEnd' /\ RequestsInv'
  BY <1>1, <1>5 DEF Thread!NotReportedAfterEnd, RequestsInv, Reported
<1>6. ASSUME \/ Thread!Destruct \/ Thread!LookupThread \/ Thread!SpuriousWakeUp
             \/ Thread!CompleteCancelled \/ Thread!CallbackReturns \/ UNCHANGED Thread!vars
      PROVE  UNCHANGED <<nameLookup, lookups, request, cancelled, reports>>
  BY <1>6 DEF Thread!Destruct, Thread!LookupThread, Thread!Loop, Thread!ReadHostname,
              Thread!ScheduleCompletion, Thread!Relock, Thread!SpuriousWakeUp,
              Thread!CompleteCancelled, Thread!CallbackReturns, Thread!vars
<1> QED
  BY <1>2, <1>3, <1>4, <1>5, <1>6 DEF Thread!Next, Thread!ClientCalls, Thread!Completions

(***************************************************************************)
(* The lookups of a host are safe: every variable keeps its type, and a    *)
(* lookup is reported at most once and not after CancelLookup, for any set *)
(* of results and any number of lookups, although the completion of a      *)
(* cancelled lookup stays scheduled, the completions compare currentLookup *)
(* with the front of the list only when they run, and wake-ups without a   *)
(* notification make the thread resolve a name twice.                      *)
(***************************************************************************)
THEOREM LookupIsSafe == LookupAssumption /\ Thread!Spec => []LookupSafe
<1>1. LookupAssumption /\ Thread!Init => LookupInv
  <2> SUFFICES ASSUME LookupAssumption, Thread!Init
               PROVE  LookupInv
    OBVIOUS
  <2> USE DEF LookupAssumption, Thread!ResultsAssumption, Thread!MaxRequestsAssumption
  <2>1. Thread!TypeOK /\ thread /= "resolve"
    <3>1. /\ thread = "loop" /\ run = TRUE /\ mutexHeld = FALSE
          /\ currentLookup = None /\ calling = None
          /\ resolved = 0 /\ lookups = 0 /\ cancelled = {}
          /\ nameLookup = << >> /\ events = << >> /\ reports = << >>
          /\ request = [r \in Results |-> 0]
      BY DEF Thread!Init, Thread!InitialLookup
    <3>2. 0 \in 0 .. MaxLookups /\ request \in [Results -> 0 .. MaxLookups]
      BY <3>1
    <3>3. run \in BOOLEAN /\ mutexHeld \in BOOLEAN
      BY <3>1, Zenon
    <3>4. /\ nameLookup \in Seq(Results)
          /\ events \in Seq([done : BOOLEAN, of : 0 .. MaxLookups])
          /\ reports \in Seq((0 .. MaxLookups) \X (0 .. MaxLookups))
      BY <3>1, Zenon, EmptySeq
    <3> QED
      BY <3>1, <3>2, <3>3, <3>4 DEF Thread!TypeOK, Thread!Threads
  <2>2. DOMAIN nameLookup = {} /\ DOMAIN reports = {} /\ cancelled = {}
    BY DEF Thread!Init
  <2> QED
    BY <2>1, <2>2 DEF LookupInv, Thread!NotReportedAfterEnd, RequestsInv, Unique, Occurs,
                      Reported
<1>2. LookupAssumption /\ LookupInv /\ [Thread!Next]_Thread!vars => LookupInv'
  <2> SUFFICES ASSUME LookupAssumption, LookupInv, [Thread!Next]_Thread!vars
               PROVE  LookupInv'
    OBVIOUS
  <2>1. Thread!TypeOK' /\ Thread!NotReportedAfterEnd' /\ RequestsInv'
    BY TypeStep, RequestsStep
  <2>2. ASSUME thread' = "resolve"
        PROVE  currentLookup' \in Results
    <3>1. nameLookup \in Seq(Results) /\ (thread = "resolve" => currentLookup \in Results)
      BY DEF LookupInv, Thread!TypeOK
    <3>2. CASE Thread!Loop
      BY <2>2, <3>1, <3>2 DEF Thread!Loop
    <3>3. CASE ~Thread!Loop
      <4>1. currentLookup' = currentLookup
        BY <3>3 DEF Thread!Next, Thread!vars, Thread!ClientCalls, Thread!Destruct,
                    Thread!Lookup, Thread!CancelLookup, Thread!LookupThread,
                    Thread!ReadHostname, Thread!ScheduleCompletion, Thread!Relock,
                    Thread!SpuriousWakeUp, Thread!Completions, Thread!CompleteCancelled,
                    Thread!CompleteCurrent, Thread!CallbackReturns
      <4>2. thread = "resolve"
        BY <2>2, <3>3
        DEF Thread!Next, Thread!vars, Thread!ClientCalls, Thread!Destruct, Thread!Lookup,
            Thread!CancelLookup, Thread!LookupThread, Thread!ReadHostname,
            Thread!ScheduleCompletion, Thread!Relock, Thread!SpuriousWakeUp,
            Thread!Completions, Thread!CompleteCancelled, Thread!CompleteCurrent,
            Thread!CallbackReturns, Thread!Notify
      <4> QED
        BY <3>1, <4>1, <4>2
    <3> QED
      BY <3>2, <3>3
  <2> QED
    BY <2>1, <2>2 DEF LookupInv
<1>3. LookupInv => LookupSafe
  BY DEF LookupInv, LookupSafe, Thread!LookupSafe
<1>4. LookupAssumption => []LookupAssumption
  OBVIOUS
<1> QED
  BY <1>1, <1>2, <1>3, <1>4, PTL DEF Thread!Spec

-----------------------------------------------------------------------------
(* The factories of connections: ConnectionFactoryWithNameResolverImpl on  *)
(* ConnectionFactoryLwIp, for any number of clients, places and calls.     *)

Members(s) == {s[i] : i \in DOMAIN s}

\* The places that ConnectionFactoryLwIp holds
Held(f) == Members(f.waitingConnectors) \cup Members(f.connectors)

\* Of ConnectionFactoryLwIp: an Action connects once at a time.
ConnectorsInv(f) ==
    /\ Unique(f.waitingConnectors) /\ Unique(f.connectors)
    /\ Members(f.waitingConnectors) \cap Members(f.connectors) = {}
    /\ Len(f.connectors) <= NumConnectors

\* Of the Actions, when held are the places that ConnectionFactoryLwIp holds
ActionsInv(f, held) ==
    /\ Unique(f.waitingActions) /\ Unique(f.actions)
    /\ Len(f.actions) <= NumParallelActions
    /\ \A a, b \in Members(f.actions) : a.place = b.place => a = b
    /\ f.lookups \cap held = {}
    /\ \A p \in f.lookups \cup held : \E a \in Members(f.actions) : a.place = p
    /\ \A a \in Members(f.actions) : a.place \in held => a.connecting
    /\ ~f.unwanted

\* The clients that are wanted wait or have an Action.  Who waits is wanted,
\* and so is the client of an Action that is at work, which is the only such
\* Action of that client: the others were cancelled.
WantedInv(f, held, wanted) ==
    /\ \A c \in wanted : \/ c \in Members(f.waitingActions)
                         \/ \E a \in Members(f.actions) : a.client = c
    /\ Members(f.waitingActions) \subseteq wanted
    /\ \A a \in Members(f.actions) : a.place \in f.lookups \cup held =>
          a.client \in wanted /\ a.client \notin Members(f.waitingActions)
    /\ \A a, b \in Members(f.actions) :
          /\ a.place \in f.lookups \cup held /\ b.place \in f.lookups \cup held
          /\ a.client = b.client
          => a = b

ActionsWait(f) == f.waitingActions /= << >> => Len(f.actions) = NumParallelActions
ConnectorsWait(f) == f.waitingConnectors /= << >> => Len(f.connectors) = NumConnectors

\* The inductive invariant
FactoryInv ==
    /\ factory \in Factory!Factories /\ connects \in 0 .. MaxConnects
    /\ ConnectorsInv(factory) /\ ConnectorsWait(factory) /\ ActionsWait(factory)
    /\ Len(factory.actions) <= NumParallelActions
    /\ Factory!RoomForConnections => ActionsInv(factory, Held(factory))
    /\ Factory!Alive => WantedInv(factory, Held(factory), factory.wanted)

(***************************************************************************)
(* The lists, when an element is appended, taken from the front or erased. *)
(***************************************************************************)
LEMMA Appended ==
    ASSUME NEW S, NEW s \in Seq(S), Unique(s), NEW r \in S, r \notin Members(s)
    PROVE  /\ Append(s, r) \in Seq(S) /\ Len(Append(s, r)) = Len(s) + 1
           /\ Unique(Append(s, r)) /\ Members(Append(s, r)) = Members(s) \cup {r}
<1>1. ~Occurs(s, r)
  BY DEF Members, Occurs
<1>2. \A q : Occurs(Append(s, r), q) <=> Occurs(s, q) \/ q = r
  BY <1>1, PushBack
<1>3. Members(Append(s, r)) = Members(s) \cup {r}
  <2>1. \A q : q \in Members(Append(s, r)) <=> Occurs(Append(s, r), q)
    BY DEF Members, Occurs
  <2>2. \A q : q \in Members(s) <=> Occurs(s, q)
    BY DEF Members, Occurs
  <2> QED
    BY <1>2, <2>1, <2>2
<1> QED
  BY <1>1, <1>3, PushBack

\* The same for Tail.
LEMMA Taken ==
    ASSUME NEW S, NEW s \in Seq(S), Unique(s), s /= << >>
    PROVE  /\ Tail(s) \in Seq(S) /\ Len(Tail(s)) = Len(s) - 1
           /\ Head(s) \in S /\ Head(s) \in Members(s)
           /\ Unique(Tail(s)) /\ Members(Tail(s)) = Members(s) \ {Head(s)}
<1>1. \A q : Occurs(Tail(s), q) <=> Occurs(s, q) /\ q /= Head(s)
  BY PopFront
<1>2. Members(Tail(s)) = Members(s) \ {Head(s)} /\ Head(s) \in Members(s)
  <2>1. \A q : q \in Members(Tail(s)) <=> Occurs(Tail(s), q)
    BY DEF Members, Occurs
  <2>2. \A q : q \in Members(s) <=> Occurs(s, q)
    BY DEF Members, Occurs
  <2> QED
    BY <1>1, <2>1, <2>2, PopFront
<1> QED
  BY <1>2, PopFront

\* The same for the element at an index.
LEMMA Erased ==
    ASSUME NEW S, NEW s \in Seq(S), Unique(s), NEW k \in DOMAIN s
    PROVE  /\ RemoveAt(s, k) \in Seq(S) /\ Len(RemoveAt(s, k)) = Len(s) - 1
           /\ Unique(RemoveAt(s, k)) /\ Members(RemoveAt(s, k)) = Members(s) \ {s[k]}
<1>1. \A q : Occurs(RemoveAt(s, k), q) <=> Occurs(s, q) /\ q /= s[k]
  BY EraseElement
<1>2. Members(RemoveAt(s, k)) = Members(s) \ {s[k]}
  <2>1. \A q : q \in Members(RemoveAt(s, k)) <=> Occurs(RemoveAt(s, k), q)
    BY DEF Members, Occurs
  <2>2. \A q : q \in Members(s) <=> Occurs(s, q)
    BY DEF Members, Occurs
  <2> QED
    BY <1>1, <2>1, <2>2
<1> QED
  BY <1>2, EraseElement

\* The same for an element.
LEMMA WithoutElement ==
    ASSUME NEW S, NEW s \in Seq(S), Unique(s), NEW r \in Members(s)
    PROVE  /\ Factory!Without(s, r) \in Seq(S) /\ Len(Factory!Without(s, r)) = Len(s) - 1
           /\ Unique(Factory!Without(s, r)) /\ Members(Factory!Without(s, r)) = Members(s) \ {r}
<1> DEFINE k == CHOOSE i \in DOMAIN s : s[i] = r
<1>1. k \in DOMAIN s /\ s[k] = r
  BY DEF Members
<1>2. Factory!Without(s, r) = RemoveAt(s, k)
  BY DEF Factory!Without, Factory!RemoveAt, RemoveAt
<1> HIDE DEF k
<1> QED
  BY <1>1, <1>2, Erased

\* Contains is membership.
LEMMA ContainsMember ==
    ASSUME NEW S, NEW s \in Seq(S), NEW r
    PROVE  Factory!Contains(s, r) <=> r \in Members(s)
BY DEF Factory!Contains, Members

-----------------------------------------------------------------------------
(* ConnectionFactoryLwIp.                                                  *)

(***************************************************************************)
(* The length of a list.                                                   *)
(***************************************************************************)
LEMMA ListLength ==
    ASSUME NEW S, NEW s \in Seq(S)
    PROVE  Len(s) \in Nat /\ (s /= << >> <=> Len(s) /= 0)
<1>1. Len(s) \in Nat
  OBVIOUS
<1>2. s = << >> <=> Len(s) = 0
  BY EmptySeq
<1> QED
  BY <1>1, <1>2

(***************************************************************************)
(* The types of the lists of the factories, and the rooms.                 *)
(***************************************************************************)
LEMMA FactoryLists ==
    ASSUME NEW f \in Factory!Factories
    PROVE  /\ f.waitingConnectors \in Seq(Factory!Places) /\ f.connectors \in Seq(Factory!Places)
           /\ f.waitingActions \in Seq(Clients) /\ f.actions \in Seq(Factory!Actions)
           /\ Len(f.waitingConnectors) \in Nat /\ Len(f.connectors) \in Nat
           /\ Len(f.waitingActions) \in Nat /\ Len(f.actions) \in Nat
<1>1. /\ f.waitingConnectors \in Seq(Factory!Places) /\ f.connectors \in Seq(Factory!Places)
      /\ f.waitingActions \in Seq(Clients) /\ f.actions \in Seq(Factory!Actions)
  BY DEF Factory!Factories
<1> QED
  BY <1>1, ListLength

\* The rooms are numbers.
LEMMA Rooms ==
    ASSUME Factory!RoomAssumption
    PROVE  NumConnectors \in Nat /\ NumConnectors /= 0
           /\ NumParallelActions \in Nat /\ NumParallelActions /= 0
BY DEF Factory!RoomAssumption

SameActions(f, g) ==
    /\ g.waitingActions = f.waitingActions /\ g.actions = f.actions
    /\ g.lookups = f.lookups /\ g.wanted = f.wanted /\ g.unwanted = f.unwanted

(***************************************************************************)
(* TryConnect, when one connector at most was removed or one Action has    *)
(* joined.                                                                 *)
(***************************************************************************)
LEMMA TryConnectStep ==
    ASSUME Factory!RoomAssumption, NEW f \in Factory!Factories, ConnectorsInv(f),
           f.waitingConnectors /= << >> =>
              Len(f.connectors) >= NumConnectors - 1 \/ Len(f.waitingConnectors) = 1,
           NEW g, g = Factory!TryConnect(f)
    PROVE  /\ g \in Factory!Factories /\ ConnectorsInv(g) /\ ConnectorsWait(g)
           /\ Held(g) = Held(f) /\ SameActions(f, g) /\ g.fault = f.fault
<1>1. /\ f.waitingConnectors \in Seq(Factory!Places) /\ f.connectors \in Seq(Factory!Places)
      /\ Unique(f.waitingConnectors) /\ Unique(f.connectors)
      /\ Members(f.waitingConnectors) \cap Members(f.connectors) = {}
      /\ Len(f.connectors) \in Nat /\ Len(f.waitingConnectors) \in Nat
      /\ NumConnectors \in Nat /\ NumConnectors /= 0 /\ Len(f.connectors) <= NumConnectors
  BY FactoryLists, Rooms DEF ConnectorsInv
<1>2. CASE Len(f.connectors) < NumConnectors /\ f.waitingConnectors /= << >>
  <2> DEFINE p == Head(f.waitingConnectors)
  <2>1. /\ g = [f EXCEPT !.connectors = Append(f.connectors, p),
                         !.waitingConnectors = Tail(f.waitingConnectors)]
    BY <1>2 DEF Factory!TryConnect
  <2>2. /\ p \in Factory!Places /\ p \in Members(f.waitingConnectors)
        /\ Tail(f.waitingConnectors) \in Seq(Factory!Places)
        /\ Len(Tail(f.waitingConnectors)) = Len(f.waitingConnectors) - 1
        /\ Unique(Tail(f.waitingConnectors))
        /\ Members(Tail(f.waitingConnectors)) = Members(f.waitingConnectors) \ {p}
    BY <1>1, <1>2, Taken
  <2> HIDE DEF p
  <2>3. /\ Append(f.connectors, p) \in Seq(Factory!Places)
        /\ Len(Append(f.connectors, p)) = Len(f.connectors) + 1
        /\ Unique(Append(f.connectors, p))
        /\ Members(Append(f.connectors, p)) = Members(f.connectors) \cup {p}
    BY <1>1, <2>2, Appended
  <2>4. /\ g.connectors = Append(f.connectors, p)
        /\ g.waitingConnectors = Tail(f.waitingConnectors)
        /\ SameActions(f, g) /\ g.fault = f.fault
    BY <2>1 DEF Factory!Factories, SameActions
  <2>5. g \in Factory!Factories
    BY <2>1, <2>2, <2>3 DEF Factory!Factories
  <2>6. ConnectorsInv(g) /\ Held(g) = Held(f)
    BY <1>1, <1>2, <2>2, <2>3, <2>4 DEF ConnectorsInv, Held
  <2>7. ConnectorsWait(g)
    <3>1. g.waitingConnectors /= << >> => Len(f.waitingConnectors) /= 1
      <4>1. Tail(f.waitingConnectors) /= << >> => Len(Tail(f.waitingConnectors)) /= 0
        BY <2>2, ListLength
      <4>2. Len(Tail(f.waitingConnectors)) /= 0 => Len(f.waitingConnectors) /= 1
        BY <1>1, <2>2
      <4> QED
        BY <4>1, <4>2, <2>4
    <3> QED
      BY <1>1, <1>2, <2>3, <2>4, <3>1 DEF ConnectorsWait
  <2> QED
    BY <2>4, <2>5, <2>6, <2>7
<1>3. CASE ~(Len(f.connectors) < NumConnectors /\ f.waitingConnectors /= << >>)
  <2>1. g = f
    BY <1>3 DEF Factory!TryConnect
  <2> QED
    BY <1>1, <1>3, <2>1 DEF ConnectorsWait, SameActions
<1> QED
  BY <1>2, <1>3

(***************************************************************************)
(* Connect of a place that is not held.                                    *)
(***************************************************************************)
LEMMA ConnectStep ==
    ASSUME Factory!RoomAssumption, NEW f \in Factory!Factories, ConnectorsInv(f),
           ConnectorsWait(f), NEW p \in Factory!Places, p \notin Held(f),
           NEW g, g = Factory!Connect(f, p)
    PROVE  /\ g \in Factory!Factories /\ ConnectorsInv(g) /\ ConnectorsWait(g)
           /\ Held(g) = Held(f) \cup {p} /\ SameActions(f, g) /\ g.fault = f.fault
<1> DEFINE h == [f EXCEPT !.waitingConnectors = Append(f.waitingConnectors, p)]
<1>1. g = Factory!TryConnect(h)
  BY DEF Factory!Connect
<1>2. /\ f.waitingConnectors \in Seq(Factory!Places) /\ f.connectors \in Seq(Factory!Places)
      /\ Len(f.connectors) \in Nat /\ Len(f.waitingConnectors) \in Nat
      /\ NumConnectors \in Nat /\ NumConnectors /= 0
  BY FactoryLists, Rooms
<1>3. /\ Append(f.waitingConnectors, p) \in Seq(Factory!Places)
      /\ Len(Append(f.waitingConnectors, p)) = Len(f.waitingConnectors) + 1
      /\ Unique(Append(f.waitingConnectors, p))
      /\ Members(Append(f.waitingConnectors, p)) = Members(f.waitingConnectors) \cup {p}
  BY <1>2, Appended DEF Held, ConnectorsInv
<1>4. /\ h \in Factory!Factories
      /\ h.waitingConnectors = Append(f.waitingConnectors, p) /\ h.connectors = f.connectors
      /\ SameActions(f, h) /\ h.fault = f.fault
  BY <1>3 DEF Factory!Factories, SameActions
<1> HIDE DEF h
<1>5. ConnectorsInv(h) /\ Held(h) = Held(f) \cup {p}
  BY <1>2, <1>3, <1>4 DEF ConnectorsInv, Held
<1>6. Len(h.connectors) >= NumConnectors - 1 \/ Len(h.waitingConnectors) = 1
  BY <1>2, <1>3, <1>4 DEF ConnectorsWait
<1> QED
  BY <1>1, <1>4, <1>5, <1>6, TryConnectStep DEF SameActions

(***************************************************************************)
(* CancelConnect of a place that is held, and of one that is not.          *)
(***************************************************************************)
LEMMA CancelConnectStep ==
    ASSUME Factory!RoomAssumption, NEW f \in Factory!Factories, ConnectorsInv(f),
           ConnectorsWait(f), NEW p \in Factory!Places,
           NEW g, g = Factory!CancelConnect(f, p)
    PROVE  /\ g \in Factory!Factories /\ ConnectorsInv(g) /\ ConnectorsWait(g)
           /\ Held(g) = Held(f) \ {p} /\ SameActions(f, g)
           /\ g.fault = IF p \in Held(f) THEN f.fault ELSE f.fault \cup {"not found"}
<1>1. /\ f.waitingConnectors \in Seq(Factory!Places) /\ f.connectors \in Seq(Factory!Places)
      /\ Unique(f.waitingConnectors) /\ Unique(f.connectors)
      /\ Members(f.waitingConnectors) \cap Members(f.connectors) = {}
      /\ Len(f.connectors) \in Nat /\ Len(f.waitingConnectors) \in Nat
      /\ NumConnectors \in Nat /\ NumConnectors /= 0 /\ Len(f.connectors) <= NumConnectors
  BY FactoryLists, Rooms DEF ConnectorsInv
<1>2. /\ Factory!Contains(f.waitingConnectors, p) <=> p \in Members(f.waitingConnectors)
      /\ Factory!Contains(f.connectors, p) <=> p \in Members(f.connectors)
  BY <1>1, ContainsMember
<1>3. CASE p \in Members(f.waitingConnectors)
  <2>1. g = [f EXCEPT !.waitingConnectors = Factory!Without(f.waitingConnectors, p)]
    BY <1>1, <1>2, <1>3 DEF Factory!CancelConnect
  <2>2. /\ Factory!Without(f.waitingConnectors, p) \in Seq(Factory!Places)
        /\ Unique(Factory!Without(f.waitingConnectors, p))
        /\ Members(Factory!Without(f.waitingConnectors, p)) = Members(f.waitingConnectors) \ {p}
    BY <1>1, <1>3, WithoutElement
  <2>3. /\ g \in Factory!Factories
        /\ g.waitingConnectors = Factory!Without(f.waitingConnectors, p)
        /\ g.connectors = f.connectors /\ SameActions(f, g) /\ g.fault = f.fault
    BY <2>1, <2>2 DEF Factory!Factories, SameActions
  <2>4. f.waitingConnectors /= << >>
    BY <1>3 DEF Members
  <2>5. ConnectorsInv(g) /\ ConnectorsWait(g)
    BY <1>1, <2>2, <2>3, <2>4 DEF ConnectorsInv, ConnectorsWait
  <2>6. Held(g) = Held(f) \ {p} /\ p \in Held(f)
    BY <1>1, <1>3, <2>2, <2>3 DEF Held
  <2> QED
    BY <2>3, <2>5, <2>6
<1>4. CASE p \notin Members(f.waitingConnectors) /\ p \in Members(f.connectors)
  <2> DEFINE h == [f EXCEPT !.connectors = Factory!Without(f.connectors, p)]
  <2>1. g = Factory!TryConnect(h)
    BY <1>2, <1>4 DEF Factory!CancelConnect
  <2>2. /\ Factory!Without(f.connectors, p) \in Seq(Factory!Places)
        /\ Len(Factory!Without(f.connectors, p)) = Len(f.connectors) - 1
        /\ Unique(Factory!Without(f.connectors, p))
        /\ Members(Factory!Without(f.connectors, p)) = Members(f.connectors) \ {p}
    BY <1>1, <1>4, WithoutElement
  <2>3. /\ h \in Factory!Factories
        /\ h.waitingConnectors = f.waitingConnectors
        /\ h.connectors = Factory!Without(f.connectors, p)
        /\ SameActions(f, h) /\ h.fault = f.fault
    BY <2>2 DEF Factory!Factories, SameActions
  <2> HIDE DEF h
  <2>4. ConnectorsInv(h) /\ Held(h) = Held(f) \ {p} /\ p \in Held(f)
    BY <1>1, <1>4, <2>2, <2>3 DEF ConnectorsInv, Held
  <2>5. h.waitingConnectors /= << >> => Len(h.connectors) >= NumConnectors - 1
    BY <1>1, <2>2, <2>3 DEF ConnectorsWait
  <2> QED
    BY <2>1, <2>3, <2>4, <2>5, TryConnectStep DEF SameActions
<1>5. CASE p \notin Members(f.waitingConnectors) /\ p \notin Members(f.connectors)
  <2>1. g = [f EXCEPT !.fault = f.fault \cup {"not found"}]
    BY <1>2, <1>5 DEF Factory!CancelConnect
  <2>2. /\ g \in Factory!Factories
        /\ g.waitingConnectors = f.waitingConnectors /\ g.connectors = f.connectors
        /\ SameActions(f, g) /\ g.fault = f.fault \cup {"not found"}
    BY <2>1 DEF Factory!Factories, SameActions
  <2>3. p \notin Held(f) /\ Held(g) = Held(f)
    BY <1>5, <2>2 DEF Held
  <2> QED
    BY <2>2, <2>3 DEF ConnectorsInv, ConnectorsWait
<1> QED
  BY <1>3, <1>4, <1>5

(***************************************************************************)
(* Remove of a connector.                                                  *)
(***************************************************************************)
LEMMA RemoveConnectorStep ==
    ASSUME Factory!RoomAssumption, NEW f \in Factory!Factories, ConnectorsInv(f),
           ConnectorsWait(f), NEW p \in Members(f.connectors),
           NEW g, g = Factory!RemoveConnector(f, p)
    PROVE  /\ g \in Factory!Factories /\ ConnectorsInv(g) /\ ConnectorsWait(g)
           /\ Held(g) = Held(f) \ {p} /\ SameActions(f, g)
           /\ g.fault = f.fault \cup {"null control"}
<1> DEFINE h == [f EXCEPT !.connectors = Factory!Without(f.connectors, p),
                          !.fault = f.fault \cup {"null control"}]
<1>1. /\ f.waitingConnectors \in Seq(Factory!Places) /\ f.connectors \in Seq(Factory!Places)
      /\ Unique(f.waitingConnectors) /\ Unique(f.connectors)
      /\ Members(f.waitingConnectors) \cap Members(f.connectors) = {}
      /\ Len(f.connectors) \in Nat /\ Len(f.waitingConnectors) \in Nat
      /\ NumConnectors \in Nat /\ NumConnectors /= 0 /\ Len(f.connectors) <= NumConnectors
  BY FactoryLists, Rooms DEF ConnectorsInv
<1>2. g = Factory!TryConnect(h)
  BY DEF Factory!RemoveConnector, Factory!Destructed, Factory!Factories
<1>3. /\ Factory!Without(f.connectors, p) \in Seq(Factory!Places)
      /\ Len(Factory!Without(f.connectors, p)) = Len(f.connectors) - 1
      /\ Unique(Factory!Without(f.connectors, p))
      /\ Members(Factory!Without(f.connectors, p)) = Members(f.connectors) \ {p}
  BY <1>1, WithoutElement
<1>4. /\ h \in Factory!Factories
      /\ h.waitingConnectors = f.waitingConnectors
      /\ h.connectors = Factory!Without(f.connectors, p)
      /\ SameActions(f, h)
  BY <1>3 DEF Factory!Factories, SameActions
<1>0. h.fault = f.fault \cup {"null control"}
  BY DEF Factory!Factories
<1> HIDE DEF h
<1>5. ConnectorsInv(h) /\ Held(h) = Held(f) \ {p}
  BY <1>1, <1>3, <1>4 DEF ConnectorsInv, Held
<1>6. h.waitingConnectors /= << >> => Len(h.connectors) >= NumConnectors - 1
  BY <1>1, <1>3, <1>4 DEF ConnectorsWait
<1> QED
  BY <1>0, <1>2, <1>4, <1>5, <1>6, TryConnectStep DEF SameActions

-----------------------------------------------------------------------------
(* ConnectionFactoryWithNameResolverImpl.                                  *)

SameConnectors(f, g) ==
    /\ g.waitingConnectors = f.waitingConnectors /\ g.connectors = f.connectors
    /\ g.fault = f.fault

(***************************************************************************)
(* While there is room in actions, a place is free: there are fewer        *)
(* Actions than places.                                                    *)
(***************************************************************************)
LEMMA FreePlaceIsFree ==
    ASSUME Factory!RoomAssumption, NEW f \in Factory!Factories,
           Len(f.actions) < NumParallelActions
    PROVE  /\ Factory!FreePlace(f) \in Factory!Places
           /\ \A a \in Members(f.actions) : a.place /= Factory!FreePlace(f)
<1> DEFINE indices == 1 .. Len(f.actions)
           indexOf == [p \in Factory!Places |->
                          CHOOSE i \in indices : f.actions[i].place = p]
<1>1. /\ Len(f.actions) \in Nat /\ DOMAIN f.actions = indices
      /\ NumParallelActions \in Nat
  BY FactoryLists, Rooms
<1>2. \E p \in Factory!Places : \A i \in indices : f.actions[i].place /= p
  <2>1. SUFFICES ASSUME \A p \in Factory!Places : \E i \in indices : f.actions[i].place = p
                 PROVE  FALSE
    OBVIOUS
  <2>2. /\ IsFiniteSet(Factory!Places) /\ Cardinality(Factory!Places) = NumParallelActions
        /\ IsFiniteSet(indices) /\ Cardinality(indices) = Len(f.actions)
    BY <1>1, FS_Interval DEF Factory!Places
  <2>3. \A p \in Factory!Places : indexOf[p] \in indices /\ f.actions[indexOf[p]].place = p
    BY <2>1
  <2>4. indexOf \in [Factory!Places -> indices]
    BY <2>3
  <2> HIDE DEF indexOf, indices
  <2>5. \E p, q \in Factory!Places : p /= q /\ indexOf[p] = indexOf[q]
    BY <2>2, <2>4, FS_PigeonHole
  <2> QED
    BY <2>3, <2>5
<1>3. /\ Factory!FreePlace(f) \in Factory!Places
      /\ \A i \in indices : f.actions[i].place /= Factory!FreePlace(f)
  BY <1>1, <1>2 DEF Factory!FreePlace
<1> QED
  BY <1>1, <1>3 DEF Members

(***************************************************************************)
(* CheckNameLookup, when one Action at most was removed or one client has  *)
(* joined.                                                                 *)
(***************************************************************************)
LEMMA CheckNameLookupStep ==
    ASSUME Factory!RoomAssumption, NEW f \in Factory!Factories,
           NEW held, ActionsInv(f, held),
           f.waitingActions /= << >> =>
              Len(f.actions) >= NumParallelActions - 1 \/ Len(f.waitingActions) = 1,
           NEW g, g = Factory!CheckNameLookup(f)
    PROVE  /\ g \in Factory!Factories /\ ActionsInv(g, held) /\ ActionsWait(g)
           /\ \A wanted : WantedInv(f, held, wanted) => WantedInv(g, held, wanted)
           /\ SameConnectors(f, g) /\ g.wanted = f.wanted /\ g.unwanted = f.unwanted
<1>1. /\ f.waitingActions \in Seq(Clients) /\ f.actions \in Seq(Factory!Actions)
      /\ Len(f.waitingActions) \in Nat /\ Len(f.actions) \in Nat
      /\ NumParallelActions \in Nat /\ NumParallelActions /= 0
  BY FactoryLists, Rooms
<1>2. /\ Unique(f.waitingActions) /\ Unique(f.actions)
      /\ Len(f.actions) <= NumParallelActions
  BY DEF ActionsInv
<1>3. CASE f.waitingActions /= << >> /\ Len(f.actions) < NumParallelActions
  <2> DEFINE c == Head(f.waitingActions)
             p == Factory!FreePlace(f)
             n == [place |-> p, connecting |-> FALSE, client |-> c]
  <2>1. g = [f EXCEPT !.actions = Append(f.actions, n), !.lookups = f.lookups \cup {p},
                      !.waitingActions = Tail(f.waitingActions)]
    BY <1>3 DEF Factory!CheckNameLookup
  <2>2. p \in Factory!Places /\ \A a \in Members(f.actions) : a.place /= p
    BY <1>3, FreePlaceIsFree
  <2>3. /\ c \in Clients /\ c \in Members(f.waitingActions)
        /\ Tail(f.waitingActions) \in Seq(Clients)
        /\ Len(Tail(f.waitingActions)) = Len(f.waitingActions) - 1
        /\ Unique(Tail(f.waitingActions))
        /\ Members(Tail(f.waitingActions)) = Members(f.waitingActions) \ {c}
    BY <1>1, <1>2, <1>3, Taken
  <2> HIDE DEF c, p
  <2>4. n \in Factory!Actions /\ n.place = p /\ n.client = c
    BY <2>2, <2>3 DEF Factory!Actions
  <2> HIDE DEF n
  <2>5. /\ Append(f.actions, n) \in Seq(Factory!Actions)
        /\ Len(Append(f.actions, n)) = Len(f.actions) + 1
        /\ Unique(Append(f.actions, n))
        /\ Members(Append(f.actions, n)) = Members(f.actions) \cup {n}
    BY <1>1, <1>2, <2>2, <2>4, Appended
  <2>6. /\ g.actions = Append(f.actions, n) /\ g.lookups = f.lookups \cup {p}
        /\ g.waitingActions = Tail(f.waitingActions)
        /\ SameConnectors(f, g) /\ g.wanted = f.wanted /\ g.unwanted = f.unwanted
    BY <2>1 DEF Factory!Factories, SameConnectors
  <2>7. g \in Factory!Factories
    <3>1. f.lookups \cup {p} \in SUBSET Factory!Places
      BY <2>2 DEF Factory!Factories
    <3> QED
      BY <2>1, <2>3, <2>5, <3>1 DEF Factory!Factories
  <2>8. p \notin f.lookups \cup held
    BY <2>2 DEF ActionsInv
  <2>9. ActionsInv(g, held)
    <3>1. Len(g.actions) <= NumParallelActions
      BY <1>1, <1>3, <2>5, <2>6
    <3>2. \A a, b \in Members(g.actions) : a.place = b.place => a = b
      BY <2>2, <2>4, <2>5, <2>6 DEF ActionsInv
    <3>3. g.lookups \cap held = {}
      BY <2>6, <2>8 DEF ActionsInv
    <3>4. \A q \in g.lookups \cup held : \E a \in Members(g.actions) : a.place = q
      BY <2>4, <2>5, <2>6 DEF ActionsInv
    <3>5. \A a \in Members(g.actions) : a.place \in held => a.connecting
      BY <2>4, <2>5, <2>6, <2>8 DEF ActionsInv
    <3>6. Unique(g.waitingActions) /\ Unique(g.actions) /\ ~g.unwanted
      BY <2>3, <2>5, <2>6 DEF ActionsInv
    <3> QED
      BY <3>1, <3>2, <3>3, <3>4, <3>5, <3>6 DEF ActionsInv
  <2>10. ASSUME NEW wanted, WantedInv(f, held, wanted)
         PROVE  WantedInv(g, held, wanted)
    <3>1. \A a \in Members(f.actions) :
             a.place \in g.lookups \cup held =>
                /\ a.place \in f.lookups \cup held
                /\ a.client \in wanted /\ a.client \notin Members(f.waitingActions)
      BY <2>2, <2>6, <2>10 DEF WantedInv
    <3>2. c \in wanted
      BY <2>3, <2>10 DEF WantedInv
    <3>3. \A d \in wanted : \/ d \in Members(g.waitingActions)
                            \/ \E a \in Members(g.actions) : a.client = d
      BY <2>3, <2>4, <2>5, <2>6, <2>10 DEF WantedInv
    <3>4. Members(g.waitingActions) \subseteq wanted
      BY <2>3, <2>6, <2>10 DEF WantedInv
    <3>5. \A a \in Members(g.actions) : a.place \in g.lookups \cup held =>
             a.client \in wanted /\ a.client \notin Members(g.waitingActions)
      BY <2>3, <2>4, <2>5, <2>6, <3>1, <3>2
    <3>6. ASSUME NEW a \in Members(g.actions), NEW b \in Members(g.actions),
                 a.place \in g.lookups \cup held, b.place \in g.lookups \cup held,
                 a.client = b.client
          PROVE  a = b
      <4>1. CASE a \in Members(f.actions) /\ b \in Members(f.actions)
        BY <2>10, <3>1, <3>6, <4>1 DEF WantedInv
      <4>2. CASE a = n \/ b = n
        BY <2>3, <2>4, <2>5, <2>6, <3>1, <3>6, <4>2
      <4> QED
        BY <2>5, <2>6, <4>1, <4>2
    <3> QED
      BY <3>3, <3>4, <3>5, <3>6 DEF WantedInv
  <2>11. ActionsWait(g)
    <3>1. g.waitingActions /= << >> => Len(Tail(f.waitingActions)) /= 0
      BY <2>3, <2>6, ListLength
    <3>2. Len(Tail(f.waitingActions)) /= 0 => Len(f.waitingActions) /= 1
      BY <1>1, <2>3
    <3> QED
      BY <1>1, <1>3, <2>5, <2>6, <3>1, <3>2 DEF ActionsWait
  <2> QED
    BY <2>6, <2>7, <2>9, <2>10, <2>11
<1>4. CASE ~(f.waitingActions /= << >> /\ Len(f.actions) < NumParallelActions)
  <2>1. g = f
    BY <1>4 DEF Factory!CheckNameLookup
  <2>2. ActionsWait(g)
    BY <1>1, <1>2, <1>4, <2>1 DEF ActionsWait
  <2> QED
    BY <2>1, <2>2 DEF SameConnectors
<1> QED
  BY <1>3, <1>4

(***************************************************************************)
(* Connect of a client that is not wanted.                                 *)
(***************************************************************************)
LEMMA ConnectWithNameStep ==
    ASSUME Factory!RoomAssumption, NEW f \in Factory!Factories,
           NEW held, ActionsInv(f, held), ActionsWait(f), WantedInv(f, held, f.wanted),
           NEW c \in Clients, c \notin f.wanted,
           NEW g, g = Factory!ConnectWithName(f, c)
    PROVE  /\ g \in Factory!Factories /\ ActionsInv(g, held) /\ ActionsWait(g)
           /\ WantedInv(g, held, g.wanted) /\ SameConnectors(f, g)
<1> DEFINE h == [f EXCEPT !.waitingActions = Append(f.waitingActions, c),
                          !.wanted = f.wanted \cup {c}]
<1>1. g = Factory!CheckNameLookup(h)
  BY DEF Factory!ConnectWithName
<1>2. /\ f.waitingActions \in Seq(Clients) /\ f.actions \in Seq(Factory!Actions)
      /\ Len(f.waitingActions) \in Nat /\ Len(f.actions) \in Nat
      /\ NumParallelActions \in Nat /\ NumParallelActions /= 0
  BY FactoryLists, Rooms
<1>3. c \notin Members(f.waitingActions) /\ Unique(f.waitingActions)
  BY DEF WantedInv, ActionsInv
<1>4. /\ Append(f.waitingActions, c) \in Seq(Clients)
      /\ Len(Append(f.waitingActions, c)) = Len(f.waitingActions) + 1
      /\ Unique(Append(f.waitingActions, c))
      /\ Members(Append(f.waitingActions, c)) = Members(f.waitingActions) \cup {c}
  BY <1>2, <1>3, Appended
<1>5. /\ h.waitingActions = Append(f.waitingActions, c) /\ h.wanted = f.wanted \cup {c}
      /\ h.actions = f.actions /\ h.lookups = f.lookups /\ h.unwanted = f.unwanted
      /\ SameConnectors(f, h)
  BY DEF Factory!Factories, SameConnectors
<1>6. h \in Factory!Factories
  <2>1. f.wanted \cup {c} \in SUBSET Clients
    BY DEF Factory!Factories
  <2> QED
    BY <1>4, <2>1 DEF Factory!Factories
<1> HIDE DEF h
<1>7. ActionsInv(h, held)
  BY <1>4, <1>5 DEF ActionsInv
<1>8. WantedInv(h, held, h.wanted)
  BY <1>4, <1>5 DEF WantedInv
<1>9. Len(h.actions) >= NumParallelActions - 1 \/ Len(h.waitingActions) = 1
  <2>1. Len(f.waitingActions) /= 0 => Len(f.actions) = NumParallelActions
    BY <1>2, ListLength DEF ActionsWait
  <2> QED
    BY <1>2, <1>4, <1>5, <2>1
<1>10. /\ g \in Factory!Factories /\ ActionsInv(g, held) /\ ActionsWait(g)
       /\ \A wanted : WantedInv(h, held, wanted) => WantedInv(g, held, wanted)
       /\ SameConnectors(h, g) /\ g.wanted = h.wanted
  BY <1>1, <1>6, <1>7, <1>9, CheckNameLookupStep
<1>11. WantedInv(g, held, g.wanted)
  BY <1>8, <1>10
<1> QED
  BY <1>5, <1>10, <1>11 DEF SameConnectors

(***************************************************************************)
(* The resolver or ConnectionFactoryLwIp lets go of an Action, and so its  *)
(* client is wanted no longer.                                             *)
(***************************************************************************)
LEMMA ReleaseStep ==
    ASSUME NEW f \in Factory!Factories, NEW held,
           ActionsInv(f, held), WantedInv(f, held, f.wanted),
           NEW a \in Members(f.actions), a.place \in f.lookups \cup held,
           NEW h \in Factory!Factories, NEW still,
           h.actions = f.actions, h.waitingActions = f.waitingActions,
           h.lookups = f.lookups \ {a.place}, still = held \ {a.place}
    PROVE  /\ a.client \in f.wanted
           /\ WantedInv(h, still, f.wanted \ {a.client})
<1>1. a.client \in f.wanted /\ a.client \notin Members(f.waitingActions)
  BY DEF WantedInv
<1>2. \A b \in Members(f.actions) : b.place \in h.lookups \cup still =>
         b.place \in f.lookups \cup held /\ b.client /= a.client
  BY DEF WantedInv
<1>3. \A c \in f.wanted \ {a.client} : \/ c \in Members(h.waitingActions)
                                      \/ \E b \in Members(h.actions) : b.client = c
  BY DEF WantedInv
<1>4. Members(h.waitingActions) \subseteq f.wanted \ {a.client}
  BY <1>1 DEF WantedInv
<1>5. \A b \in Members(h.actions) : b.place \in h.lookups \cup still =>
         b.client \in f.wanted \ {a.client} /\ b.client \notin Members(h.waitingActions)
  BY <1>2 DEF WantedInv
<1>6. \A b, d \in Members(h.actions) :
         /\ b.place \in h.lookups \cup still /\ d.place \in h.lookups \cup still
         /\ b.client = d.client
         => b = d
  BY <1>2 DEF WantedInv
<1> QED
  BY <1>1, <1>3, <1>4, <1>5, <1>6 DEF WantedInv

\* Fewer places are held or looked up.
LEMMA FewerHeld ==
    ASSUME NEW f, NEW held, ActionsInv(f, held), NEW h, NEW still,
           h.actions = f.actions, h.waitingActions = f.waitingActions,
           h.unwanted = f.unwanted, h.lookups \subseteq f.lookups, still \subseteq held
    PROVE  ActionsInv(h, still)
BY DEF ActionsInv

(***************************************************************************)
(* ActionIsDone, of an Action that neither the resolver nor                *)
(* ConnectionFactoryLwIp refers to.                                        *)
(***************************************************************************)
LEMMA ActionIsDoneStep ==
    ASSUME Factory!RoomAssumption, NEW f \in Factory!Factories,
           NEW held, ActionsInv(f, held), ActionsWait(f),
           NEW a \in Members(f.actions), a.place \notin f.lookups \cup held,
           NEW wanted, WantedInv(f, held, wanted), a.client \notin wanted,
           NEW g, g = Factory!ActionIsDone(f, a.place)
    PROVE  /\ g \in Factory!Factories /\ ActionsInv(g, held) /\ ActionsWait(g)
           /\ WantedInv(g, held, wanted)
           /\ SameConnectors(f, g) /\ g.wanted = f.wanted /\ g.unwanted = f.unwanted
<1> DEFINE k == CHOOSE i \in DOMAIN f.actions : f.actions[i].place = a.place
           rest == RemoveAt(f.actions, k)
           h == [f EXCEPT !.actions = rest]
<1>1. g = Factory!CheckNameLookup(h)
  BY DEF Factory!ActionIsDone, Factory!RemoveAt, RemoveAt
<1>2. /\ f.waitingActions \in Seq(Clients) /\ f.actions \in Seq(Factory!Actions)
      /\ Len(f.waitingActions) \in Nat /\ Len(f.actions) \in Nat
      /\ NumParallelActions \in Nat /\ NumParallelActions /= 0
  BY FactoryLists, Rooms
<1>3. k \in DOMAIN f.actions /\ f.actions[k].place = a.place
  BY DEF Members
<1> HIDE DEF k
<1>4. f.actions[k] = a
  BY <1>3 DEF Members, ActionsInv
<1>5. Unique(f.actions) /\ Len(f.actions) <= NumParallelActions
  BY DEF ActionsInv
<1>6. /\ rest \in Seq(Factory!Actions) /\ Len(rest) = Len(f.actions) - 1
      /\ Unique(rest) /\ Members(rest) = Members(f.actions) \ {a}
  BY <1>2, <1>3, <1>4, <1>5, Erased
<1> HIDE DEF rest
<1>7. /\ h \in Factory!Factories
      /\ h.actions = rest /\ h.waitingActions = f.waitingActions
      /\ h.lookups = f.lookups /\ h.wanted = f.wanted /\ h.unwanted = f.unwanted
      /\ SameConnectors(f, h)
  BY <1>6 DEF Factory!Factories, SameConnectors
<1> HIDE DEF h
<1>8. ActionsInv(h, held)
  <2>1. Len(h.actions) <= NumParallelActions
    BY <1>2, <1>5, <1>6, <1>7
  <2>2. \A p \in h.lookups \cup held : \E b \in Members(h.actions) : b.place = p
    BY <1>6, <1>7 DEF ActionsInv
  <2> QED
    BY <1>6, <1>7, <2>1, <2>2 DEF ActionsInv
<1>9. WantedInv(h, held, wanted)
  BY <1>6, <1>7 DEF WantedInv
<1>10. h.waitingActions /= << >> => Len(h.actions) >= NumParallelActions - 1
  BY <1>2, <1>6, <1>7 DEF ActionsWait
<1> QED
  BY <1>1, <1>7, <1>8, <1>9, <1>10, CheckNameLookupStep DEF SameConnectors

(***************************************************************************)
(* The client of an Action is told the outcome.                            *)
(***************************************************************************)
LEMMA TellsStep ==
    ASSUME Factory!RoomAssumption, Factory!ClientsAssumption, NEW f \in Factory!Factories,
           NEW held, ActionsInv(f, held), ActionsWait(f),
           NEW a \in Members(f.actions), a.place \notin f.lookups \cup held,
           a.client \in f.wanted, WantedInv(f, held, f.wanted \ {a.client}),
           NEW again \in Clients \cup {None},
           again /= None => again \notin f.wanted \ {Factory!ClientOf(f, a.place)},
           NEW g, g = Factory!Tells(f, a.place, again)
    PROVE  /\ g \in Factory!Factories /\ ActionsInv(g, held) /\ ActionsWait(g)
           /\ WantedInv(g, held, g.wanted) /\ SameConnectors(f, g)
<1> DEFINE d == Factory!ActionIsDone(f, a.place)
           told == [d EXCEPT !.wanted = d.wanted \ {a.client},
                             !.unwanted = d.unwanted \/ a.client \notin f.wanted]
<1>1. Factory!ClientOf(f, a.place) = a.client
  <2>1. \A b \in Factory!ToSet(f.actions) : b.place = a.place => b = a
    BY DEF Factory!ToSet, Members, ActionsInv
  <2>2. a \in Factory!ToSet(f.actions)
    BY DEF Factory!ToSet, Members
  <2> QED
    BY <2>1, <2>2 DEF Factory!ClientOf
<1>2. /\ d \in Factory!Factories /\ ActionsInv(d, held) /\ ActionsWait(d)
      /\ WantedInv(d, held, f.wanted \ {a.client})
      /\ SameConnectors(f, d) /\ d.wanted = f.wanted /\ d.unwanted = f.unwanted
  BY ActionIsDoneStep
<1>3. g = IF again = None THEN told ELSE Factory!ConnectWithName(told, again)
  BY <1>1 DEF Factory!Tells
<1> HIDE DEF d
<1>4. ~f.unwanted
  BY DEF ActionsInv
<1>5. /\ told.wanted = f.wanted \ {a.client} /\ ~told.unwanted
      /\ told.actions = d.actions /\ told.waitingActions = d.waitingActions
      /\ told.lookups = d.lookups /\ SameConnectors(f, told)
  BY <1>2, <1>4 DEF Factory!Factories, SameConnectors
<1>6. told \in Factory!Factories
  <2>1. d.wanted \ {a.client} \in SUBSET Clients
    BY <1>2 DEF Factory!Factories
  <2> QED
    BY <1>2, <2>1 DEF Factory!Factories
<1> HIDE DEF told
<1>7. ActionsInv(told, held)
  BY <1>2, <1>5 DEF ActionsInv
<1>8. ActionsWait(told) /\ WantedInv(told, held, told.wanted)
  BY <1>2, <1>5 DEF ActionsWait, WantedInv
<1>9. CASE again = None
  BY <1>3, <1>5, <1>6, <1>7, <1>8, <1>9
<1>10. CASE again /= None
  <2>1. again \in Clients /\ again \notin told.wanted
    BY <1>1, <1>5, <1>10
  <2>2. g = Factory!ConnectWithName(told, again)
    BY <1>3, <1>10
  <2> QED
    BY <1>5, <1>6, <1>7, <1>8, <2>1, <2>2, ConnectWithNameStep DEF SameConnectors
<1> QED
  BY <1>9, <1>10

-----------------------------------------------------------------------------
(* The handlers.                                                           *)

(***************************************************************************)
(* Of the places of a list with some property there is a first one.        *)
(***************************************************************************)
LEMMA SmallestIsThere ==
    ASSUME NEW S, S \subseteq Nat, S /= {}
    PROVE  \E i \in S : \A j \in S : i <= j
<1> DEFINE R == OpToRel(<, Nat)
<1>1. IsWellFoundedOn(R, Nat)
  BY NatLessThanWellFounded
<1>2. \A i, j \in Nat : j < i => <<j, i>> \in R
  BY DEF OpToRel
<1> HIDE DEF R
<1>3. PICK i \in S : \A j \in S : <<j, i>> \notin R
  BY <1>1, WFMin
<1>4. \A j \in S : ~(j < i)
  BY <1>2, <1>3
<1> QED
  BY <1>4

\* The part of the invariant that the handlers have to keep
FactoryStateInv(f) ==
    /\ f \in Factory!Factories
    /\ ConnectorsInv(f) /\ ConnectorsWait(f) /\ ActionsInv(f, Held(f)) /\ ActionsWait(f)

(***************************************************************************)
(* A client connects.                                                      *)
(***************************************************************************)
LEMMA ConnectsKeepsInv ==
    ASSUME Factory!RoomAssumption, FactoryStateInv(factory),
           WantedInv(factory, Held(factory), factory.wanted),
           NEW c \in Clients, Factory!Connects(c)
    PROVE  FactoryStateInv(factory') /\ WantedInv(factory', Held(factory'), factory'.wanted)
<1>1. factory' = Factory!ConnectWithName(factory, c) /\ c \notin factory.wanted
  BY DEF Factory!Connects
<1>2. /\ factory' \in Factory!Factories /\ ActionsInv(factory', Held(factory))
      /\ ActionsWait(factory') /\ WantedInv(factory', Held(factory), factory'.wanted)
      /\ SameConnectors(factory, factory')
  BY <1>1, ConnectWithNameStep DEF FactoryStateInv
<1>3. /\ Held(factory') = Held(factory)
      /\ ConnectorsInv(factory') /\ ConnectorsWait(factory')
  BY <1>2 DEF FactoryStateInv, SameConnectors, Held, ConnectorsInv, ConnectorsWait
<1> QED
  BY <1>2, <1>3 DEF FactoryStateInv

(***************************************************************************)
(* A client that waits cancels.                                            *)
(***************************************************************************)
LEMMA CancelsWaitingKeepsInv ==
    ASSUME Factory!RoomAssumption, FactoryStateInv(factory),
           WantedInv(factory, Held(factory), factory.wanted),
           NEW c \in Clients, Factory!CancelsWaiting(c)
    PROVE  FactoryStateInv(factory') /\ WantedInv(factory', Held(factory'), factory'.wanted)
<1> DEFINE f == factory
           g == factory'
           waiting == Factory!Without(f.waitingActions, c)
<1>1. f \in Factory!Factories /\ f.waitingActions \in Seq(Clients) /\ Unique(f.waitingActions)
  BY FactoryLists DEF FactoryStateInv, ActionsInv
<1>2. c \in Members(f.waitingActions)
  BY <1>1, ContainsMember DEF Factory!CancelsWaiting
<1>3. g = [f EXCEPT !.waitingActions = waiting, !.wanted = f.wanted \ {c}]
  BY DEF Factory!CancelsWaiting
<1>4. /\ waiting \in Seq(Clients) /\ Unique(waiting)
      /\ Members(waiting) = Members(f.waitingActions) \ {c}
  BY <1>1, <1>2, WithoutElement
<1> HIDE DEF waiting
<1>5. g \in Factory!Factories
  <2>1. f.wanted \ {c} \in SUBSET Clients
    BY <1>1 DEF Factory!Factories
  <2> QED
    BY <1>1, <1>3, <1>4, <2>1 DEF Factory!Factories
<1>6. /\ g.waitingActions = waiting /\ g.wanted = f.wanted \ {c}
      /\ g.actions = f.actions /\ g.lookups = f.lookups /\ g.unwanted = f.unwanted
      /\ g.waitingConnectors = f.waitingConnectors /\ g.connectors = f.connectors
  BY <1>1, <1>3 DEF Factory!Factories
<1>7. f.waitingActions /= << >>
  BY <1>2 DEF Members
<1> HIDE DEF f, g
<1>8. Held(g) = Held(f) /\ ConnectorsInv(g) /\ ConnectorsWait(g)
  BY <1>6 DEF FactoryStateInv, Held, ConnectorsInv, ConnectorsWait, f
<1>9. ActionsInv(g, Held(g)) /\ ActionsWait(g)
  BY <1>4, <1>6, <1>7, <1>8 DEF FactoryStateInv, ActionsInv, ActionsWait, f
<1>10. WantedInv(g, Held(g), g.wanted)
  BY <1>2, <1>4, <1>6, <1>8 DEF WantedInv, f
<1> QED
  BY <1>5, <1>8, <1>9, <1>10 DEF FactoryStateInv, g

(***************************************************************************)
(* A client whose Action is at work cancels.  When the first Action of the *)
(* client in the list is one that was cancelled before, an assertion       *)
(* fails; the lists are in order nonetheless.                              *)
(***************************************************************************)
LEMMA CancelsActionKeepsInv ==
    ASSUME Factory!RoomAssumption, FactoryStateInv(factory),
           WantedInv(factory, Held(factory), factory.wanted),
           NEW c \in Clients, Factory!CancelsAction(c)
    PROVE  /\ FactoryStateInv(factory')
           /\ Factory!Alive' => WantedInv(factory', Held(factory'), factory'.wanted)
<1> DEFINE f == factory
           g == factory'
           a == Factory!ActionOf(f, c)
           r == Factory!RemoveAction(f, a)
<1>1. /\ f \in Factory!Factories /\ ActionsInv(f, Held(f)) /\ WantedInv(f, Held(f), f.wanted)
      /\ f.waitingActions \in Seq(Clients) /\ f.actions \in Seq(Factory!Actions)
      /\ Len(f.actions) \in Nat
  BY FactoryLists DEF FactoryStateInv
<1>2. c \in f.wanted /\ c \notin Members(f.waitingActions)
  BY <1>1, ContainsMember DEF Factory!CancelsAction
<1>3. g = [r EXCEPT !.wanted = r.wanted \ {c}]
  BY DEF Factory!CancelsAction
<1>4. a \in Members(f.actions) /\ a.client = c /\ a \in Factory!Actions
  <2> DEFINE S == {i \in DOMAIN f.actions : f.actions[i].client = c}
  <2>1. PICK b \in Members(f.actions) : b.client = c
    BY <1>1, <1>2 DEF WantedInv
  <2>2. S /= {} /\ S \subseteq Nat
    BY <1>1, <2>1 DEF Members
  <2>3. PICK i \in S : \A j \in S : i <= j
    BY <2>2, SmallestIsThere
  <2>4. /\ i \in DOMAIN f.actions /\ f.actions[i].client = c
        /\ \A j \in 1 .. i - 1 : f.actions[j].client /= c
    BY <1>1, <2>3
  <2> DEFINE k == CHOOSE n \in DOMAIN f.actions :
                      /\ f.actions[n].client = c
                      /\ \A j \in 1 .. n - 1 : f.actions[j].client /= c
  <2>5. k \in DOMAIN f.actions /\ f.actions[k].client = c
    BY <2>4
  <2>6. a = f.actions[k]
    BY DEF Factory!ActionOf
  <2> HIDE DEF k
  <2> QED
    BY <1>1, <2>5, <2>6 DEF Members
<1>5. a.place \in Factory!Places /\ a.connecting \in BOOLEAN
  BY <1>4 DEF Factory!Actions
<1> HIDE DEF a
<1>6. /\ r \in Factory!Factories /\ ConnectorsInv(r) /\ ConnectorsWait(r)
      /\ r.actions = f.actions /\ r.waitingActions = f.waitingActions
      /\ r.wanted = f.wanted /\ r.unwanted = f.unwanted
      /\ \/ /\ a.place \in f.lookups \cup Held(f)
            /\ r.lookups = f.lookups \ {a.place} /\ Held(r) = Held(f) \ {a.place}
         \/ /\ r.fault \cap {"not found", "not waiting"} /= {}
            /\ r.lookups \subseteq f.lookups /\ Held(r) \subseteq Held(f)
  <2>1. CASE a.connecting
    <3>1. r = Factory!CancelConnect(f, a.place)
      BY <2>1 DEF Factory!RemoveAction
    <3> HIDE DEF r
    <3>2. /\ r \in Factory!Factories /\ ConnectorsInv(r) /\ ConnectorsWait(r)
          /\ Held(r) = Held(f) \ {a.place} /\ SameActions(f, r)
          /\ r.fault = IF a.place \in Held(f) THEN f.fault ELSE f.fault \cup {"not found"}
      BY <1>1, <1>5, <3>1, CancelConnectStep DEF FactoryStateInv
    <3>3. CASE a.place \in Held(f)
      <4>1. a.place \notin f.lookups
        BY <1>1, <3>3 DEF ActionsInv
      <4> QED
        BY <3>2, <3>3, <4>1 DEF SameActions
    <3>4. CASE a.place \notin Held(f)
      <4>1. "not found" \in r.fault
        BY <3>2, <3>4
      <4> QED
        BY <3>2, <4>1 DEF SameActions
    <3> QED
      BY <3>3, <3>4
  <2>2. CASE ~a.connecting /\ a.place \in f.lookups
    <3>1. r = [f EXCEPT !.lookups = f.lookups \ {a.place}]
      BY <2>2 DEF Factory!RemoveAction
    <3> HIDE DEF r
    <3>2. f.lookups \ {a.place} \in SUBSET Factory!Places
      BY <1>1 DEF Factory!Factories
    <3>3. /\ r \in Factory!Factories
          /\ r.actions = f.actions /\ r.waitingActions = f.waitingActions
          /\ r.wanted = f.wanted /\ r.unwanted = f.unwanted
          /\ r.lookups = f.lookups \ {a.place}
          /\ r.waitingConnectors = f.waitingConnectors /\ r.connectors = f.connectors
      BY <1>1, <3>1, <3>2 DEF Factory!Factories
    <3>4. Held(r) = Held(f) /\ ConnectorsInv(r) /\ ConnectorsWait(r)
      BY <3>3 DEF Held, FactoryStateInv, ConnectorsInv, ConnectorsWait
    <3>5. a.place \notin Held(f)
      BY <1>1, <2>2 DEF ActionsInv
    <3> QED
      BY <2>2, <3>3, <3>4, <3>5
  <2>3. CASE ~a.connecting /\ a.place \notin f.lookups
    <3>1. r = [f EXCEPT !.fault = f.fault \cup {"not waiting"}]
      BY <2>3 DEF Factory!RemoveAction
    <3> HIDE DEF r
    <3>2. f.fault \cup {"not waiting"}
              \in SUBSET {"not found", "not waiting", "null control", "connector gone"}
      BY <1>1 DEF Factory!Factories
    <3>3. /\ r \in Factory!Factories
          /\ r.actions = f.actions /\ r.waitingActions = f.waitingActions
          /\ r.wanted = f.wanted /\ r.unwanted = f.unwanted
          /\ r.lookups = f.lookups
          /\ r.waitingConnectors = f.waitingConnectors /\ r.connectors = f.connectors
      BY <1>1, <3>1, <3>2 DEF Factory!Factories
    <3>4. "not waiting" \in r.fault
      BY <1>1, <3>1 DEF Factory!Factories
    <3>5. Held(r) = Held(f) /\ ConnectorsInv(r) /\ ConnectorsWait(r)
      BY <3>3 DEF Held, FactoryStateInv, ConnectorsInv, ConnectorsWait
    <3> QED
      BY <3>3, <3>4, <3>5
  <2> QED
    BY <1>5, <2>1, <2>2, <2>3
<1> HIDE DEF r
<1>7. /\ g \in Factory!Factories /\ g.wanted = f.wanted \ {c}
      /\ g.actions = r.actions /\ g.waitingActions = r.waitingActions
      /\ g.lookups = r.lookups /\ g.unwanted = r.unwanted /\ g.fault = r.fault
      /\ g.waitingConnectors = r.waitingConnectors /\ g.connectors = r.connectors
  <2>1. f.wanted \ {c} \in SUBSET Clients
    BY <1>1 DEF Factory!Factories
  <2>2. g = [r EXCEPT !.wanted = f.wanted \ {c}]
    BY <1>3, <1>6
  <2> QED
    BY <1>6, <2>1, <2>2 DEF Factory!Factories
<1> HIDE DEF g, f
<1>8. Held(g) = Held(r) /\ ConnectorsInv(g) /\ ConnectorsWait(g)
  BY <1>6, <1>7 DEF Held, ConnectorsInv, ConnectorsWait
<1>9. ActionsInv(g, Held(g))
  <2>1. g.lookups \subseteq f.lookups /\ Held(g) \subseteq Held(f)
    BY <1>6, <1>7, <1>8
  <2> QED
    BY <1>1, <1>6, <1>7, <2>1, FewerHeld
<1>10. ActionsWait(g)
  BY <1>6, <1>7 DEF FactoryStateInv, ActionsWait, f
<1>11. ASSUME Factory!Alive'
       PROVE  WantedInv(g, Held(g), g.wanted)
  <2>1. g.fault \cap {"not found", "not waiting"} = {}
    BY <1>11 DEF Factory!Alive, g
  <2>2. /\ a.place \in f.lookups \cup Held(f)
        /\ g.lookups = f.lookups \ {a.place} /\ Held(g) = Held(f) \ {a.place}
    BY <1>6, <1>7, <1>8, <2>1
  <2>3. g.actions = f.actions /\ g.waitingActions = f.waitingActions
    BY <1>6, <1>7
  <2>4. WantedInv(g, Held(g), f.wanted \ {a.client})
    BY <1>1, <1>4, <1>7, <2>2, <2>3, ReleaseStep
  <2> QED
    BY <1>4, <1>7, <2>4
<1> QED
  BY <1>7, <1>8, <1>9, <1>10, <1>11 DEF FactoryStateInv, g

(***************************************************************************)
(* The name is found, and the Action connects.                             *)
(***************************************************************************)
LEMMA NameLookupDoneKeepsInv ==
    ASSUME Factory!RoomAssumption, FactoryStateInv(factory),
           WantedInv(factory, Held(factory), factory.wanted),
           NEW p \in Factory!Places, Factory!NameLookupDone(p)
    PROVE  FactoryStateInv(factory') /\ WantedInv(factory', Held(factory'), factory'.wanted)
<1> DEFINE f == factory
           g == factory'
           h == [f EXCEPT !.lookups = f.lookups \ {p}]
           r == Factory!Connect(h, p)
           m == [i \in DOMAIN r.actions |->
                    IF r.actions[i].place = p THEN [r.actions[i] EXCEPT !.connecting = TRUE]
                                              ELSE r.actions[i]]
<1>1. /\ f \in Factory!Factories /\ ActionsInv(f, Held(f)) /\ WantedInv(f, Held(f), f.wanted)
      /\ ActionsWait(f) /\ f.actions \in Seq(Factory!Actions)
  BY FactoryLists DEF FactoryStateInv
<1>2. p \in f.lookups /\ p \notin Held(f)
  BY <1>1 DEF Factory!NameLookupDone, ActionsInv
<1>3. g = [r EXCEPT !.actions = m]
  BY DEF Factory!NameLookupDone
<1>4. /\ h \in Factory!Factories /\ h.lookups = f.lookups \ {p}
      /\ h.actions = f.actions /\ h.waitingActions = f.waitingActions
      /\ h.wanted = f.wanted /\ h.unwanted = f.unwanted
      /\ h.waitingConnectors = f.waitingConnectors /\ h.connectors = f.connectors
  <2>1. f.lookups \ {p} \in SUBSET Factory!Places
    BY <1>1 DEF Factory!Factories
  <2> QED
    BY <1>1, <2>1 DEF Factory!Factories
<1> HIDE DEF h
<1>5. Held(h) = Held(f) /\ ConnectorsInv(h) /\ ConnectorsWait(h)
  BY <1>4 DEF Held, FactoryStateInv, ConnectorsInv, ConnectorsWait
<1>6. /\ r \in Factory!Factories /\ ConnectorsInv(r) /\ ConnectorsWait(r)
      /\ Held(r) = Held(h) \cup {p} /\ SameActions(h, r)
  BY <1>2, <1>4, <1>5, ConnectStep
<1> HIDE DEF r
<1>7. r.actions = f.actions
  BY <1>4, <1>6 DEF SameActions
<1>8. /\ DOMAIN m = DOMAIN f.actions /\ m \in Seq(Factory!Actions) /\ Len(m) = Len(f.actions)
      /\ \A i \in DOMAIN f.actions :
            /\ m[i].place = f.actions[i].place /\ m[i].client = f.actions[i].client
            /\ f.actions[i].place = p \/ f.actions[i].connecting => m[i].connecting
  <2>1. Len(f.actions) \in Nat /\ DOMAIN f.actions = 1 .. Len(f.actions)
    BY <1>1
  <2>2. DOMAIN m = DOMAIN f.actions
    BY <1>7
  <2>3. ASSUME NEW i \in DOMAIN f.actions
        PROVE  /\ m[i] \in Factory!Actions
               /\ m[i].place = f.actions[i].place /\ m[i].client = f.actions[i].client
               /\ f.actions[i].place = p \/ f.actions[i].connecting => m[i].connecting
    <3>1. f.actions[i] \in Factory!Actions
      BY <1>1
    <3>2. m[i] = IF f.actions[i].place = p THEN [f.actions[i] EXCEPT !.connecting = TRUE]
                                           ELSE f.actions[i]
      BY <1>7
    <3> HIDE DEF m
    <3>3. CASE f.actions[i].place = p
      BY <3>1, <3>2, <3>3 DEF Factory!Actions
    <3>4. CASE f.actions[i].place /= p
      BY <3>1, <3>2, <3>4 DEF Factory!Actions
    <3> QED
      BY <3>3, <3>4
  <2>4. m = [i \in 1 .. Len(f.actions) |-> m[i]]
    BY <2>1, <2>2
  <2> HIDE DEF m
  <2>5. m \in [1 .. Len(f.actions) -> Factory!Actions]
    BY <2>1, <2>3, <2>4
  <2>6. m \in Seq(Factory!Actions) /\ Len(m) = Len(f.actions)
    BY <2>1, <2>5
  <2> QED
    BY <2>2, <2>3, <2>6
<1> HIDE DEF m
<1>9. /\ g \in Factory!Factories /\ g.actions = m /\ g.lookups = f.lookups \ {p}
      /\ g.waitingActions = f.waitingActions
      /\ g.wanted = f.wanted /\ g.unwanted = f.unwanted
      /\ g.waitingConnectors = r.waitingConnectors /\ g.connectors = r.connectors
  <2>1. /\ g \in Factory!Factories /\ g.actions = m /\ g.lookups = r.lookups
        /\ g.waitingActions = r.waitingActions
        /\ g.wanted = r.wanted /\ g.unwanted = r.unwanted
        /\ g.waitingConnectors = r.waitingConnectors /\ g.connectors = r.connectors
    BY <1>3, <1>6, <1>8 DEF Factory!Factories
  <2> QED
    BY <1>4, <1>6, <2>1 DEF SameActions
<1> HIDE DEF f, g
<1>10. Held(g) = Held(f) \cup {p} /\ ConnectorsInv(g) /\ ConnectorsWait(g)
  <2>1. Held(g) = Held(r) /\ ConnectorsInv(g) /\ ConnectorsWait(g)
    BY <1>6, <1>9 DEF Held, ConnectorsInv, ConnectorsWait
  <2> QED
    BY <1>5, <1>6, <2>1
<1>11. \A b \in Members(g.actions) : \E a \in Members(f.actions) :
          /\ b.place = a.place /\ b.client = a.client
          /\ a.place = p \/ a.connecting => b.connecting
  BY <1>8, <1>9 DEF Members
<1>12. \A a \in Members(f.actions) : \E b \in Members(g.actions) :
          b.place = a.place /\ b.client = a.client
  BY <1>8, <1>9 DEF Members
<1>13. \A i, j \in DOMAIN m : m[i].place = m[j].place => i = j
  BY <1>1, <1>8 DEF ActionsInv, Members, Unique
<1>14. \A a, b \in Members(g.actions) : a.place = b.place => a = b
  BY <1>9, <1>13 DEF Members
<1>15. ActionsInv(g, Held(g))
  <2>1. Unique(g.waitingActions) /\ ~g.unwanted
    BY <1>1, <1>9 DEF ActionsInv
  <2>2. Unique(g.actions)
    BY <1>9, <1>13 DEF Unique
  <2>3. Len(g.actions) <= NumParallelActions
    BY <1>1, <1>8, <1>9 DEF ActionsInv
  <2>4. g.lookups \cap Held(g) = {}
    BY <1>1, <1>9, <1>10 DEF ActionsInv
  <2>5. \A q \in g.lookups \cup Held(g) : \E b \in Members(g.actions) : b.place = q
    <3>1. \A q \in g.lookups \cup Held(g) : q \in f.lookups \cup Held(f)
      BY <1>2, <1>9, <1>10
    <3>2. \A q \in f.lookups \cup Held(f) : \E a \in Members(f.actions) : a.place = q
      BY <1>1 DEF ActionsInv
    <3> QED
      BY <1>12, <3>1, <3>2
  <2>6. \A b \in Members(g.actions) : b.place \in Held(g) => b.connecting
    BY <1>1, <1>10, <1>11 DEF ActionsInv
  <2> QED
    BY <1>14, <2>1, <2>2, <2>3, <2>4, <2>5, <2>6 DEF ActionsInv
<1>16. WantedInv(g, Held(g), g.wanted)
  <2>1. g.lookups \cup Held(g) = f.lookups \cup Held(f)
    BY <1>2, <1>9, <1>10
  <2>2. \A c \in g.wanted : \/ c \in Members(g.waitingActions)
                            \/ \E b \in Members(g.actions) : b.client = c
    BY <1>1, <1>9, <1>12 DEF WantedInv
  <2>3. Members(g.waitingActions) \subseteq g.wanted
    BY <1>1, <1>9 DEF WantedInv
  <2>4. \A b \in Members(g.actions) : b.place \in g.lookups \cup Held(g) =>
           b.client \in g.wanted /\ b.client \notin Members(g.waitingActions)
    BY <1>1, <1>9, <1>11, <2>1 DEF WantedInv
  <2>5. ASSUME NEW b \in Members(g.actions), NEW d \in Members(g.actions),
               b.place \in g.lookups \cup Held(g), d.place \in g.lookups \cup Held(g),
               b.client = d.client
        PROVE  b = d
    <3>1. PICK a \in Members(f.actions) : b.place = a.place /\ b.client = a.client
      BY <1>11
    <3>2. PICK e \in Members(f.actions) : d.place = e.place /\ d.client = e.client
      BY <1>11
    <3>3. a = e
      BY <1>1, <2>1, <2>5, <3>1, <3>2 DEF WantedInv
    <3> QED
      BY <1>14, <3>1, <3>2, <3>3
  <2> QED
    BY <2>2, <2>3, <2>4, <2>5 DEF WantedInv
<1>17. ActionsWait(g)
  BY <1>1, <1>8, <1>9 DEF ActionsWait
<1> QED
  BY <1>9, <1>10, <1>15, <1>16, <1>17 DEF FactoryStateInv, g

(***************************************************************************)
(* The name is not found, and the client is told.                          *)
(***************************************************************************)
LEMMA NameLookupFailedKeepsInv ==
    ASSUME Factory!RoomAssumption, Factory!ClientsAssumption, FactoryStateInv(factory),
           WantedInv(factory, Held(factory), factory.wanted),
           NEW p \in Factory!Places, NEW again \in Clients \cup {None},
           Factory!NameLookupFailed(p, again)
    PROVE  FactoryStateInv(factory') /\ WantedInv(factory', Held(factory'), factory'.wanted)
<1> DEFINE f == factory
           g == factory'
           h == [f EXCEPT !.lookups = f.lookups \ {p}]
<1>1. /\ f \in Factory!Factories /\ ActionsInv(f, Held(f)) /\ WantedInv(f, Held(f), f.wanted)
      /\ ActionsWait(f)
  BY DEF FactoryStateInv
<1>2. p \in f.lookups /\ p \notin Held(f)
  BY <1>1 DEF Factory!NameLookupFailed, ActionsInv
<1>3. g = Factory!Tells(h, p, again)
  BY DEF Factory!NameLookupFailed
<1>4. again /= None => again \notin f.wanted \ {Factory!ClientOf(f, p)}
  BY DEF Factory!NameLookupFailed, Factory!ConnectsAgain
<1>5. /\ h \in Factory!Factories /\ h.lookups = f.lookups \ {p}
      /\ h.actions = f.actions /\ h.waitingActions = f.waitingActions
      /\ h.wanted = f.wanted /\ h.unwanted = f.unwanted
      /\ SameConnectors(f, h)
  <2>1. f.lookups \ {p} \in SUBSET Factory!Places
    BY <1>1 DEF Factory!Factories
  <2> QED
    BY <1>1, <2>1 DEF Factory!Factories, SameConnectors
<1> HIDE DEF h
<1>6. PICK a \in Members(f.actions) : a.place = p
  BY <1>1, <1>2 DEF ActionsInv
<1>7. ActionsInv(h, Held(f))
  BY <1>1, <1>5, FewerHeld
<1>8. a.client \in f.wanted /\ WantedInv(h, Held(f), f.wanted \ {a.client})
  <2>1. Held(f) = Held(f) \ {a.place}
    BY <1>2, <1>6
  <2> QED
    BY <1>1, <1>2, <1>5, <1>6, <2>1, ReleaseStep
<1>9. ActionsWait(h)
  BY <1>1, <1>5 DEF ActionsWait
<1>10. Factory!ClientOf(h, p) = Factory!ClientOf(f, p)
  BY <1>5 DEF Factory!ClientOf
<1>11. /\ g \in Factory!Factories /\ ActionsInv(g, Held(f)) /\ ActionsWait(g)
       /\ WantedInv(g, Held(f), g.wanted) /\ SameConnectors(h, g)
  <2>1. a \in Members(h.actions) /\ a.place \notin h.lookups \cup Held(f)
    BY <1>2, <1>5, <1>6
  <2>2. a.client \in h.wanted /\ WantedInv(h, Held(f), h.wanted \ {a.client})
    BY <1>5, <1>8
  <2>3. again /= None => again \notin h.wanted \ {Factory!ClientOf(h, a.place)}
    BY <1>4, <1>5, <1>6, <1>10
  <2>4. g = Factory!Tells(h, a.place, again)
    BY <1>3, <1>6
  <2> HIDE DEF f, g
  <2> QED
    BY <1>5, <1>7, <1>9, <2>1, <2>2, <2>3, <2>4, TellsStep
<1>12. Held(g) = Held(f) /\ ConnectorsInv(g) /\ ConnectorsWait(g)
  BY <1>5, <1>11 DEF FactoryStateInv, SameConnectors, Held, ConnectorsInv, ConnectorsWait
<1> QED
  BY <1>11, <1>12 DEF FactoryStateInv

(***************************************************************************)
(* The attempt to connect ends: the client is told, and then the connector *)
(* is removed, whose place a new Action may have taken in the meantime.    *)
(***************************************************************************)
LEMMA EndedKeepsInv ==
    ASSUME Factory!RoomAssumption, Factory!ClientsAssumption, FactoryStateInv(factory),
           WantedInv(factory, Held(factory), factory.wanted),
           NEW p \in Factory!Places, NEW again \in Clients \cup {None},
           Factory!Contains(factory.connectors, p), Factory!ConnectsAgain(p, again),
           NEW g, g = Factory!Ended(factory, p, again)
    PROVE  FactoryStateInv(g) /\ WantedInv(g, Held(g), g.wanted)
<1> DEFINE f == factory
           still == Held(f) \ {p}
           t == Factory!Tells(f, p, again)
<1>1. /\ f \in Factory!Factories /\ ActionsInv(f, Held(f)) /\ WantedInv(f, Held(f), f.wanted)
      /\ ActionsWait(f) /\ f.connectors \in Seq(Factory!Places)
  BY FactoryLists DEF FactoryStateInv
<1>2. p \in Members(f.connectors)
  BY <1>1, ContainsMember
<1>3. g = Factory!RemoveConnector(t, p)
  BY DEF Factory!Ended
<1>4. again /= None => again \notin f.wanted \ {Factory!ClientOf(f, p)}
  BY DEF Factory!ConnectsAgain
<1>5. p \in Held(f) /\ p \notin f.lookups
  BY <1>1, <1>2 DEF Held, ActionsInv
<1>6. PICK a \in Members(f.actions) : a.place = p
  BY <1>1, <1>5 DEF ActionsInv
<1>7. ActionsInv(f, still)
  BY <1>1, FewerHeld
<1>8. a.client \in f.wanted /\ WantedInv(f, still, f.wanted \ {a.client})
  <2>1. f.lookups = f.lookups \ {a.place} /\ still = Held(f) \ {a.place}
    BY <1>5, <1>6
  <2> HIDE DEF still
  <2> QED
    BY <1>1, <1>5, <1>6, <2>1, ReleaseStep
<1>9. /\ t \in Factory!Factories /\ ActionsInv(t, still) /\ ActionsWait(t)
      /\ WantedInv(t, still, t.wanted) /\ SameConnectors(f, t)
  <2>1. a.place \notin f.lookups \cup still
    BY <1>5, <1>6
  <2>2. again /= None => again \notin f.wanted \ {Factory!ClientOf(f, a.place)}
    BY <1>4, <1>6
  <2>3. t = Factory!Tells(f, a.place, again)
    BY <1>6
  <2> HIDE DEF f, t, still
  <2> QED
    BY <1>1, <1>7, <1>8, <2>1, <2>2, <2>3, TellsStep
<1> HIDE DEF t
<1>10. Held(t) = Held(f) /\ ConnectorsInv(t) /\ ConnectorsWait(t) /\ p \in Members(t.connectors)
  BY <1>2, <1>9 DEF FactoryStateInv, SameConnectors, Held, ConnectorsInv, ConnectorsWait
<1>11. /\ g \in Factory!Factories /\ ConnectorsInv(g) /\ ConnectorsWait(g)
       /\ Held(g) = still /\ SameActions(t, g)
  <2> HIDE DEF f
  <2>1. /\ g \in Factory!Factories /\ ConnectorsInv(g) /\ ConnectorsWait(g)
        /\ Held(g) = Held(t) \ {p} /\ SameActions(t, g)
    BY <1>3, <1>9, <1>10, RemoveConnectorStep
  <2> QED
    BY <1>10, <2>1
<1> HIDE DEF still
<1>12. ActionsInv(g, Held(g))
  <2>1. ActionsInv(g, still)
    BY <1>9, <1>11 DEF SameActions, ActionsInv
  <2> QED
    BY <1>11, <2>1
<1>13. ActionsWait(g)
  BY <1>9, <1>11 DEF SameActions, ActionsWait
<1>14. WantedInv(g, Held(g), g.wanted)
  <2>1. WantedInv(g, still, g.wanted)
    BY <1>9, <1>11 DEF SameActions, WantedInv
  <2> QED
    BY <1>11, <2>1
<1> QED
  BY <1>11, <1>12, <1>13, <1>14 DEF FactoryStateInv

(***************************************************************************)
(* FactorySafe, for any number of clients, Actions, connectors and calls,  *)
(* however clients cancel and connect again from within callbacks: until   *)
(* Connected finds no room for a connection, of which ToldOnce and         *)
(* NoDanglingAction say nothing, no client is told twice or too late.      *)
(***************************************************************************)
THEOREM FactoryIsSafe ==
    /\ Factory!ClientsAssumption /\ Factory!RoomAssumption /\ Factory!MaxConnectsAssumption
    /\ Factory!Spec
    => []FactorySafe
<1> DEFINE Assumption == /\ Factory!ClientsAssumption /\ Factory!RoomAssumption
                         /\ Factory!MaxConnectsAssumption
<1>1. ASSUME Assumption, Factory!Init
      PROVE  FactoryInv
  <2>1. NumConnectors \in Nat /\ NumParallelActions \in Nat /\ MaxConnects \in Nat
    BY <1>1, Rooms DEF Factory!MaxConnectsAssumption
  <2>2. factory \in Factory!Factories /\ connects \in 0 .. MaxConnects
    BY <1>1, <2>1 DEF Factory!Init, Factory!Factories
  <2>3. /\ factory.waitingActions = << >> /\ factory.actions = << >>
        /\ factory.waitingConnectors = << >> /\ factory.connectors = << >>
        /\ factory.lookups = {} /\ factory.wanted = {} /\ factory.unwanted = FALSE
    BY <1>1 DEF Factory!Init
  <2>4. Members(<< >>) = {} /\ Unique(<< >>) /\ Len(<< >>) = 0
    BY DEF Members, Unique
  <2>5. ConnectorsInv(factory) /\ ConnectorsWait(factory) /\ Held(factory) = {}
    BY <2>1, <2>3, <2>4 DEF ConnectorsInv, ConnectorsWait, Held
  <2>6. ActionsInv(factory, {}) /\ ActionsWait(factory)
    BY <2>1, <2>3, <2>4 DEF ActionsInv, ActionsWait
  <2>7. WantedInv(factory, {}, factory.wanted)
    BY <2>3, <2>4 DEF WantedInv
  <2> QED
    BY <2>2, <2>5, <2>6, <2>7 DEF FactoryInv, ActionsInv
<1>2. ASSUME Assumption, FactoryInv, [Factory!Next]_Factory!vars
      PROVE  FactoryInv'
  <2>1. /\ Factory!RoomAssumption /\ Factory!ClientsAssumption /\ MaxConnects \in Nat
        /\ connects \in 0 .. MaxConnects
        /\ Factory!Alive => /\ FactoryStateInv(factory)
                            /\ WantedInv(factory, Held(factory), factory.wanted)
    BY <1>2 DEF FactoryInv, FactoryStateInv, Factory!MaxConnectsAssumption, Factory!Alive,
                Factory!RoomForConnections
  <2>2. ASSUME connects' \in 0 .. MaxConnects, FactoryStateInv(factory'),
               Factory!Alive' => WantedInv(factory', Held(factory'), factory'.wanted)
        PROVE  FactoryInv'
    BY <2>2 DEF FactoryInv, FactoryStateInv, ConnectorsInv, ConnectorsWait, ActionsInv,
       ActionsWait, WantedInv, Held, Members, Unique
  <2>3. CASE UNCHANGED Factory!vars
    <3>1. factory' = factory /\ connects' = connects
      BY <2>3 DEF Factory!vars
    <3> QED
      BY <1>2, <3>1 DEF FactoryInv, Factory!Alive, Factory!RoomForConnections
  <2>4. ASSUME NEW c \in Clients, Factory!Connects(c)
        PROVE  /\ connects' \in 0 .. MaxConnects /\ FactoryStateInv(factory')
               /\ WantedInv(factory', Held(factory'), factory'.wanted)
    <3>1. Factory!Alive /\ connects < MaxConnects /\ connects' = connects + 1
      BY <2>4 DEF Factory!Connects
    <3>2. connects' \in 0 .. MaxConnects
      BY <2>1, <3>1
    <3> QED
      BY <2>1, <2>4, <3>1, <3>2, ConnectsKeepsInv
  <2>5. ASSUME NEW c \in Clients, Factory!CancelsWaiting(c)
        PROVE  /\ connects' \in 0 .. MaxConnects /\ FactoryStateInv(factory')
               /\ WantedInv(factory', Held(factory'), factory'.wanted)
    <3>1. Factory!Alive /\ connects' = connects
      BY <2>5 DEF Factory!CancelsWaiting
    <3> QED
      BY <2>1, <2>5, <3>1, CancelsWaitingKeepsInv
  <2>6. ASSUME NEW c \in Clients, Factory!CancelsAction(c)
        PROVE  /\ connects' \in 0 .. MaxConnects /\ FactoryStateInv(factory')
               /\ Factory!Alive' => WantedInv(factory', Held(factory'), factory'.wanted)
    <3>1. Factory!Alive /\ connects' = connects
      BY <2>6 DEF Factory!CancelsAction
    <3> QED
      BY <2>1, <2>6, <3>1, CancelsActionKeepsInv
  <2>7. ASSUME NEW p \in Factory!Places, Factory!NameLookupDone(p)
        PROVE  /\ connects' \in 0 .. MaxConnects /\ FactoryStateInv(factory')
               /\ WantedInv(factory', Held(factory'), factory'.wanted)
    <3>1. Factory!Alive /\ connects' = connects
      BY <2>7 DEF Factory!NameLookupDone
    <3> QED
      BY <2>1, <2>7, <3>1, NameLookupDoneKeepsInv
  <2>8. ASSUME NEW p \in Factory!Places, NEW again \in Clients \cup {None},
               Factory!ConnectsAgain(p, again)
        PROVE  connects' \in 0 .. MaxConnects
    <3>1. CASE again = None
      BY <2>1, <2>8, <3>1 DEF Factory!ConnectsAgain
    <3>2. CASE again /= None
      BY <2>1, <2>8, <3>2 DEF Factory!ConnectsAgain
    <3> QED
      BY <3>1, <3>2
  <2>9. ASSUME NEW p \in Factory!Places, NEW again \in Clients \cup {None},
               Factory!NameLookupFailed(p, again)
        PROVE  /\ connects' \in 0 .. MaxConnects /\ FactoryStateInv(factory')
               /\ WantedInv(factory', Held(factory'), factory'.wanted)
    <3>1. Factory!Alive /\ Factory!ConnectsAgain(p, again)
      BY <2>9 DEF Factory!NameLookupFailed
    <3> QED
      BY <2>1, <2>8, <2>9, <3>1, NameLookupFailedKeepsInv
  <2>10. ASSUME NEW p \in Factory!Places, NEW again \in Clients \cup {None},
                Factory!AttemptEnds(p, again)
         PROVE  /\ connects' \in 0 .. MaxConnects /\ FactoryStateInv(factory')
                /\ WantedInv(factory', Held(factory'), factory'.wanted)
    <3>1. Factory!Alive /\ Factory!ConnectsAgain(p, again)
      BY <2>10 DEF Factory!AttemptEnds
    <3>2. /\ Factory!Contains(factory.connectors, p)
          /\ factory' = Factory!Ended(factory, p, again)
      BY <2>10 DEF Factory!AttemptEnds
    <3> QED
      BY <2>1, <2>8, <3>1, <3>2, EndedKeepsInv
  <2>11. ASSUME NEW p \in Factory!Places, NEW again \in Clients \cup {None},
                Factory!AllocationFailed(p, again)
         PROVE  FactoryInv'
    <3> DEFINE g == Factory!Ended(factory, p, again)
    <3>1. /\ Factory!Alive /\ Factory!ConnectsAgain(p, again)
          /\ Factory!Contains(factory.connectors, p)
          /\ factory' = [g EXCEPT !.unwanted = TRUE, !.fault = @ \cup {"connector gone"}]
      BY <2>11 DEF Factory!AllocationFailed
    <3> HIDE DEF g
    <3>2. FactoryStateInv(g)
      BY <2>1, <2>11, <3>1, EndedKeepsInv DEF g
    <3>3. /\ g \in Factory!Factories /\ ConnectorsInv(g) /\ ConnectorsWait(g) /\ ActionsWait(g)
          /\ Len(g.actions) <= NumParallelActions
      BY <3>2 DEF FactoryStateInv, ActionsInv
    <3>4. /\ factory' \in Factory!Factories
          /\ factory'.actions = g.actions /\ factory'.waitingActions = g.waitingActions
          /\ factory'.connectors = g.connectors
          /\ factory'.waitingConnectors = g.waitingConnectors
          /\ "connector gone" \in factory'.fault
      BY <3>1, <3>3 DEF Factory!Factories
    <3>5. /\ ConnectorsInv(factory') /\ ConnectorsWait(factory') /\ ActionsWait(factory')
          /\ Len(factory'.actions) <= NumParallelActions
      <4> HIDE DEF g
      <4>1. ConnectorsInv(factory')
        BY <3>3, <3>4 DEF ConnectorsInv
      <4>2. ConnectorsWait(factory') /\ ActionsWait(factory')
        BY <3>3, <3>4 DEF ConnectorsWait, ActionsWait
      <4> QED
        BY <3>3, <3>4, <4>1, <4>2
    <3>6. ~Factory!Alive' /\ ~Factory!RoomForConnections'
      BY <3>4 DEF Factory!Alive, Factory!RoomForConnections
    <3>7. connects' \in 0 .. MaxConnects
      BY <2>8, <2>11, <3>1
    <3> QED
      BY <3>4, <3>5, <3>6, <3>7 DEF FactoryInv
  <2> QED
    BY <1>2, <2>2, <2>3, <2>4, <2>5, <2>6, <2>7, <2>9, <2>10, <2>11 DEF Factory!Next
<1>3. ASSUME Assumption, FactoryInv
      PROVE  FactorySafe
  <2>1. factory \in Factory!Factories /\ connects \in 0 .. MaxConnects
    BY <1>3 DEF FactoryInv
  <2>2. Factory!TypeOK
    BY <1>3, <2>1 DEF FactoryInv, ActionsInv, ConnectorsInv, Factory!TypeOK
  <2>3. /\ Factory!ToSet(factory.actions) = Members(factory.actions)
        /\ Factory!ToSet(factory.waitingConnectors) = Members(factory.waitingConnectors)
        /\ Factory!ToSet(factory.connectors) = Members(factory.connectors)
    BY DEF Factory!ToSet, Members
  <2>4. ASSUME Factory!RoomForConnections
        PROVE  Factory!NoDanglingAction /\ Factory!ToldOnce
    <3>1. /\ factory.lookups \cap Held(factory) = {} /\ ~factory.unwanted
          /\ \A p \in factory.lookups \cup Held(factory) :
                \E a \in Members(factory.actions) : a.place = p
          /\ \A a \in Members(factory.actions) : a.place \in Held(factory) => a.connecting
      BY <1>3, <2>4 DEF FactoryInv, ActionsInv
    <3>2. Factory!NoDanglingAction
      BY <2>3, <3>1 DEF Factory!NoDanglingAction, Factory!PlacesOf, Held
    <3> QED
      BY <3>1, <3>2 DEF Factory!ToldOnce
  <2>5. Factory!WaitsForRoom
    BY <1>3 DEF FactoryInv, ActionsWait, ConnectorsWait, Factory!WaitsForRoom
  <2> QED
    BY <2>2, <2>4, <2>5 DEF FactorySafe
<1>4. Assumption => []Assumption
  OBVIOUS
<1> QED
  BY <1>1, <1>2, <1>3, <1>4, PTL DEF Factory!Spec

-----------------------------------------------------------------------------
(* DnsResolver: reading a reply *)

(***************************************************************************)
(* A set of natural numbers has a least element.                           *)
(***************************************************************************)
LEMMA LeastNumber ==
    ASSUME NEW S, S \subseteq Nat, S /= {}
    PROVE  \E i \in S : \A j \in S : i <= j
<1> DEFINE R == OpToRel(<, Nat)
<1>1. IsWellFoundedOn(R, Nat)
  BY NatLessThanWellFounded
<1>2. \A i, j \in Nat : j < i => <<j, i>> \in R
  BY DEF OpToRel
<1> HIDE DEF R
<1>3. PICK i \in S : \A j \in S : <<j, i>> \notin R
  BY <1>1, WFMin
<1>4. \A j \in S : ~(j < i)
  BY <1>2, <1>3
<1> QED
  BY <1>4

(***************************************************************************)
(* What a loop does to a value of a set, if each iteration stays in it.    *)
(***************************************************************************)
LEMMA LoopStaysIn ==
    ASSUME NEW S, NEW n \in Nat, NEW r, r[0] \in S, \A i \in 1 .. n : r[i - 1] \in S => r[i] \in S
    PROVE  \A i \in 0 .. n : r[i] \in S
<1> DEFINE bad == {i \in 0 .. n : r[i] \notin S}
<1> SUFFICES ASSUME bad /= {} PROVE FALSE
  OBVIOUS
<1>1. PICK i \in bad : \A j \in bad : i <= j
  <2>1. bad \subseteq Nat
    OBVIOUS
  <2> HIDE DEF bad
  <2> QED
    BY <2>1, LeastNumber
<1>2. i \in 1 .. n /\ r[i] \notin S
  BY <1>1
<1>3. i - 1 \in 0 .. n /\ i - 1 \notin bad
  BY <1>1, <1>2
<1> QED
  BY <1>2, <1>3

\* g is what the iterations of a loop do, f the values it goes through from a.
IsBody(S, n, g) == g \in [(1 .. n) \X S -> S]
IsLoop(S, a, n, g, f) ==
    /\ f \in [0 .. n -> S]
    /\ f[0] = a
    /\ \A i \in 1 .. n : f[i] = g[<<i, f[i - 1]>>]

(***************************************************************************)
(* The values that such a loop goes through exist.                         *)
(***************************************************************************)
LEMMA LoopExists ==
    ASSUME NEW S, NEW a \in S, NEW n \in Nat, NEW g, IsBody(S, n, g)
    PROVE  \E f : IsLoop(S, a, n, g, f)
<1> USE DEF IsBody, IsLoop
<1> DEFINE Good(k) == \E f \in [0 .. k -> S] :
                          f[0] = a /\ \A i \in 1 .. k : f[i] = g[<<i, f[i - 1]>>]
           bad == {k \in 0 .. n : ~Good(k)}
<1> SUFFICES ASSUME bad /= {} PROVE FALSE
  <2>1. Good(n) => \E f : IsLoop(S, a, n, g, f)
    OBVIOUS
  <2>2. n \in 0 .. n
    OBVIOUS
  <2> HIDE DEF Good
  <2> QED
    BY <2>1, <2>2
<1>1. PICK k \in bad : \A j \in bad : k <= j
  <2>1. bad \subseteq Nat
    OBVIOUS
  <2> HIDE DEF bad
  <2> QED
    BY <2>1, LeastNumber
<1>2. Good(0)
  <2>1. [i \in 0 .. 0 |-> a] \in [0 .. 0 -> S] /\ [i \in 0 .. 0 |-> a][0] = a /\ 1 .. 0 = {}
    OBVIOUS
  <2> QED
    BY <2>1
<1>3. k \in 1 .. n
  <2>1. k \in 0 .. n /\ ~Good(k)
    BY <1>1
  <2> HIDE DEF Good
  <2> QED
    BY <1>2, <2>1
<1>4. Good(k - 1)
  <2>1. k - 1 \in 0 .. n /\ ~(k <= k - 1)
    BY <1>3
  <2>2. k - 1 \notin bad
    <3> HIDE DEF bad
    <3> QED
      BY <1>1, <2>1
  <2> QED
    BY <2>1, <2>2
<1>5. PICK f \in [0 .. k - 1 -> S] :
         f[0] = a /\ \A i \in 1 .. k - 1 : f[i] = g[<<i, f[i - 1]>>]
  BY <1>4
<1> DEFINE h == [i \in 0 .. k |-> IF i = k THEN g[<<k, f[k - 1]>>] ELSE f[i]]
<1>6. g[<<k, f[k - 1]>>] \in S
  <2>1. f[k - 1] \in S
    BY <1>3, <1>5
  <2>2. <<k, f[k - 1]>> \in (1 .. n) \X S
    BY <1>3, <2>1
  <2> QED
    BY <2>2
<1>7. h \in [0 .. k -> S]
  <2> SUFFICES ASSUME NEW i \in 0 .. k PROVE (IF i = k THEN g[<<k, f[k - 1]>>] ELSE f[i]) \in S
    OBVIOUS
  <2>1. i /= k => i \in 0 .. k - 1
    BY <1>3
  <2> QED
    BY <1>5, <1>6, <2>1
<1>8. h[0] = a
  BY <1>3, <1>5
<1>9. ASSUME NEW i \in 1 .. k
      PROVE  h[i] = g[<<i, h[i - 1]>>]
  <2>1. i - 1 \in 0 .. k /\ i - 1 /= k /\ i \in 0 .. k
    BY <1>3
  <2>2. h[i - 1] = f[i - 1]
    BY <2>1
  <2>3. CASE i = k
    BY <2>1, <2>2, <2>3
  <2>4. CASE i /= k
    <3>1. i \in 1 .. k - 1
      BY <1>3, <2>4
    <3>2. h[i] = f[i]
      BY <2>1, <2>4
    <3> QED
      BY <1>5, <2>2, <3>1, <3>2
  <2> QED
    BY <2>3, <2>4
<1>10. Good(k)
  <2> HIDE DEF h
  <2> QED
    BY <1>7, <1>8, <1>9
<1> QED
  BY <1>1, <1>10

HostNames == Names \cup {Partial}
Records == [name : Names, cname : BOOLEAN, data : Names, cut : BOOLEAN]
Readings == [hostname : HostNames, recurse : BOOLEAN, address : Names \cup {None}]
ServerLists == {s \in Seq(Servers) : Len(s) <= maxAttempts}

(***************************************************************************)
(* A server answers with records of the zone, and refers to servers.       *)
(***************************************************************************)
LEMMA TruthfulReply ==
    ASSUME NEW q \in Queries, NEW reply \in Replies(q)
    PROVE  /\ reply.name \in HostNames
           /\ reply.answers \in Seq(Records)
           /\ reply.additional = << >> \/ reply.additional \in Referrals
<1>1. q.name \in HostNames
  BY DEF Queries, HostNames
<1>2. \A n \in Names : Record(n) \in Records /\ [Record(n) EXCEPT !.cut = TRUE] \in Records
  BY AliasAssumption DEF Record, Address, Alias, Records
<1>3. \A n \in DOMAIN AliasOf : AliasOf[n] \in Names
  BY AliasAssumption
<1>4. << >> \in Seq(Records) /\ \A a \in Records : <<a>> \in Seq(Records)
  OBVIOUS
<1>5. \A a, b \in Records : <<a, b>> \in Seq(Records)
  OBVIOUS
<1>6. ASSUME NEW n \in Names, NEW l \in Answers(n)
      PROVE  l \in Seq(Records)
  <2>1. \/ l \in {<< >>, <<Record(n)>>, <<[Record(n) EXCEPT !.cut = TRUE]>>}
        \/ /\ n \in DOMAIN AliasOf
           /\ l \in {<<Record(n), Record(AliasOf[n])>>,
                     <<Record(n), [Record(AliasOf[n]) EXCEPT !.cut = TRUE]>>}
    BY <1>6 DEF Answers
  <2> QED
    BY <1>2, <1>3, <1>4, <1>5, <2>1
<1>7. CASE reply \in [from : {q.to}, name : {q.name}, error : {TRUE}, answers : {<< >>},
                      additional : {<< >>}]
  BY <1>1, <1>4, <1>7
<1>8. CASE /\ q.name /= Partial
           /\ reply \in [from : {q.to}, name : {q.name}, error : {FALSE},
                         answers : Answers(q.name), additional : Referrals \cup {<< >>}]
  <2>1. q.name \in Names
    BY <1>1, <1>8 DEF HostNames
  <2> QED
    BY <1>1, <1>6, <1>8, <2>1
<1> QED
  BY <1>7, <1>8 DEF Replies

(***************************************************************************)
(* Reading one record.                                                     *)
(***************************************************************************)
LEMMA ReadAnswerType ==
    ASSUME NEW read \in Readings, NEW record \in Records
    PROVE  ReadAnswer(read, record) \in Readings
<1> DEFINE matches == read.address = None /\ ReadAndMatchHostname(read.hostname, record.name)
<1>1. ReadCName(record) \in HostNames
  BY DEF ReadCName, Records, HostNames
<1>2. CASE ~matches
  BY <1>2 DEF ReadAnswer
<1>3. CASE matches /\ record.cname
  <2>1. ReadAnswer(read, record) =
          [read EXCEPT !.hostname = ReadCName(record), !.recurse = @ \/ ~record.cut]
    BY <1>3 DEF ReadAnswer
  <2> QED
    BY <1>1, <2>1 DEF Readings
<1>4. CASE matches /\ ~record.cname
  <2>1. ReadAnswer(read, record) =
          [read EXCEPT !.address = IF record.cut THEN None ELSE record.data]
    BY <1>4 DEF ReadAnswer
  <2>2. record.data \in Names
    BY DEF Records
  <2> QED
    BY <2>1, <2>2 DEF Readings
<1> QED
  BY <1>2, <1>3, <1>4

(***************************************************************************)
(* ReadAnswerRecords ends with a name to ask for next, and with an address *)
(* or without.                                                             *)
(***************************************************************************)
LEMMA ReadAnswerRecordsType ==
    ASSUME NEW d, d.hostname \in HostNames, NEW reply, reply.answers \in Seq(Records)
    PROVE  ReadAnswerRecords(d, reply) \in Readings
<1> DEFINE n == Len(reply.answers)
           a == [hostname |-> d.hostname, recurse |-> FALSE, address |-> None]
           Is(r) == r = [i \in 0 .. n |-> IF i = 0 THEN a ELSE ReadAnswer(r[i - 1],
           reply.answers[i])]
           g == [p \in (1 .. n) \X Readings |-> ReadAnswer(p[2], reply.answers[p[1]])]
<1>1. n \in Nat /\ a \in Readings /\ \A i \in 1 .. n : reply.answers[i] \in Records
  BY DEF Readings
<1> HIDE DEF n, a
<1>2. g \in [(1 .. n) \X Readings -> Readings]
  BY <1>1, ReadAnswerType
<1>3. PICK f \in [0 .. n -> Readings] :
         f[0] = a /\ \A i \in 1 .. n : f[i] = g[<<i, f[i - 1]>>]
  <2>1. IsBody(Readings, n, g)
    BY <1>2 DEF IsBody
  <2> HIDE DEF g
  <2>2. \E f : IsLoop(Readings, a, n, g, f)
    BY <1>1, <2>1, LoopExists
  <2> QED
    BY <2>2 DEF IsLoop
<1>4. ASSUME NEW i \in 1 .. n
      PROVE  f[i] = ReadAnswer(f[i - 1], reply.answers[i])
  <2>1. i - 1 \in 0 .. n
    BY <1>1
  <2>2. <<i, f[i - 1]>> \in (1 .. n) \X Readings
    BY <1>3, <2>1
  <2>3. g[<<i, f[i - 1]>>] = ReadAnswer(f[i - 1], reply.answers[i])
    BY <2>2
  <2> QED
    BY <1>3, <2>3
<1>5. Is(f)
  <2>1. \A i \in 0 .. n : f[i] = IF i = 0 THEN a ELSE ReadAnswer(f[i - 1], reply.answers[i])
    BY <1>1, <1>3, <1>4
  <2> QED
    BY <1>3, <2>1
<1> DEFINE r == CHOOSE r : Is(r)
<1>6. ReadAnswerRecords(d, reply) = r[n]
  BY DEF ReadAnswerRecords, n, a
<1>7. Is(r)
  <2> HIDE DEF Is
  <2> QED
    BY <1>5
<1> HIDE DEF r
<1>8. r[0] \in Readings /\ \A i \in 1 .. n : r[i] = ReadAnswer(r[i - 1], reply.answers[i])
  BY <1>1, <1>7
<1>9. r[n] \in Readings
  <2>1. \A i \in 1 .. n : r[i - 1] \in Readings => r[i] \in Readings
    BY <1>1, <1>8, ReadAnswerType
  <2>2. \A i \in 0 .. n : r[i] \in Readings
    BY <1>1, <1>8, <2>1, LoopStaysIn
  <2> QED
    BY <1>1, <2>2
<1> QED
  BY <1>6, <1>9

(***************************************************************************)
(* ReadNameServers finds no more servers than there is room for.           *)
(***************************************************************************)
LEMMA ReadNameServersType ==
    ASSUME NEW reply, reply.additional = << >> \/ reply.additional \in Referrals
    PROVE  ReadNameServers(reply) \in ServerLists
<1> DEFINE n == Len(reply.additional)
           Is(r) == r = [i \in 0 .. n |->
                           IF i = 0 THEN << >> ELSE ReadNameServer(r[i - 1], reply.additional[i])]
           g == [p \in (1 .. n) \X ServerLists |-> ReadNameServer(p[2], reply.additional[p[1]])]
<1>0. maxAttempts \in Nat
  BY AttemptsAssumption
<1>1. /\ n \in Nat /\ << >> \in ServerLists
      /\ \A i \in 1 .. n : reply.additional[i].address \in Servers
  <2>1. << >> \in ServerLists
    BY <1>0 DEF ServerLists
  <2>2. CASE reply.additional = << >>
    BY <2>1, <2>2
  <2>3. CASE reply.additional \in Referrals
    <3>1. reply.additional \in Seq(ToSet(reply.additional))
      BY <2>3, ReferralsAssumption
    <3>2. n \in Nat /\ \A i \in 1 .. n : reply.additional[i] \in ToSet(reply.additional)
      BY <3>1
    <3> QED
      BY <2>1, <2>3, <3>2 DEF Servers
  <2> QED
    BY <2>2, <2>3
<1> HIDE DEF n
<1>2. ASSUME NEW s \in ServerLists, NEW i \in 1 .. n
      PROVE  ReadNameServer(s, reply.additional[i]) \in ServerLists
  <2>1. reply.additional[i].address \in Servers
    BY <1>1
  <2> QED
    BY <1>0, <2>1 DEF ReadNameServer, ServerLists
<1>3. g \in [(1 .. n) \X ServerLists -> ServerLists]
  BY <1>1, <1>2
<1>4. PICK f \in [0 .. n -> ServerLists] :
         f[0] = << >> /\ \A i \in 1 .. n : f[i] = g[<<i, f[i - 1]>>]
  <2>1. IsBody(ServerLists, n, g)
    BY <1>3 DEF IsBody
  <2> HIDE DEF g
  <2>2. \E f : IsLoop(ServerLists, << >>, n, g, f)
    BY <1>1, <2>1, LoopExists
  <2> QED
    BY <2>2 DEF IsLoop
<1>5. ASSUME NEW i \in 1 .. n
      PROVE  f[i] = ReadNameServer(f[i - 1], reply.additional[i])
  <2>1. i - 1 \in 0 .. n
    BY <1>1
  <2>2. <<i, f[i - 1]>> \in (1 .. n) \X ServerLists
    BY <1>4, <2>1
  <2>3. g[<<i, f[i - 1]>>] = ReadNameServer(f[i - 1], reply.additional[i])
    BY <2>2
  <2> QED
    BY <1>4, <2>3
<1>6. Is(f)
  <2>1. \A i \in 0 .. n :
           f[i] = IF i = 0 THEN << >> ELSE ReadNameServer(f[i - 1], reply.additional[i])
    BY <1>1, <1>4, <1>5
  <2> QED
    BY <1>4, <2>1
<1> DEFINE r == CHOOSE r : Is(r)
<1>7. ReadNameServers(reply) = r[n]
  BY DEF ReadNameServers, n
<1>8. Is(r)
  <2> HIDE DEF Is
  <2> QED
    BY <1>6
<1> HIDE DEF r
<1>9. r[0] \in ServerLists /\ \A i \in 1 .. n : r[i] = ReadNameServer(r[i - 1], reply.additional[i])
  BY <1>1, <1>8
<1>10. r[n] \in ServerLists
  <2>1. \A i \in 1 .. n : r[i - 1] \in ServerLists => r[i] \in ServerLists
    BY <1>2, <1>9
  <2>2. \A i \in 0 .. n : r[i] \in ServerLists
    BY <1>1, <1>9, <2>1, LoopStaysIn
  <2> QED
    BY <1>1, <2>2
<1> QED
  BY <1>7, <1>10

-----------------------------------------------------------------------------
(* DnsResolver: its invariant *)

DnsRecord ==
    [waiting : Seq(Results), resolving : Results \cup {None},
     resolveAttempts : 0 .. maxAttempts, recursions : 0 .. maxRecursions,
     hostname : HostNames \cup {None}, currentDnsServer : 1 .. Len(DnsServers),
     recursiveDnsServers : ServerLists, currentRecursiveDnsServer : 1 .. maxAttempts,
     timeoutTimer : BOOLEAN, exchange : Exchange(Servers), sent : SUBSET Queries,
     pending : SUBSET Results, answers : [Results -> Names \cup {None, Failed}],
     fault : {"none", "aborted", "removed"},
     accepted : [reply : HostNames \cup {None}, asked : HostNames \cup {None}],
     queries : Nat]

FieldNames ==
    {"waiting", "resolving", "resolveAttempts", "recursions", "hostname", "currentDnsServer",
     "recursiveDnsServers", "currentRecursiveDnsServer", "timeoutTimer", "exchange", "sent",
     "pending", "answers", "fault", "accepted", "queries"}

\* The queries that so many attempts can cost
Cost(attempts) == attempts * maxRecursions

\* What holds of the lists whatever the resolver is doing
ListsOk(d) ==
    /\ d \in DnsRecord
    /\ Unique(d.waiting)
    /\ d.recursiveDnsServers /= << >> => d.currentRecursiveDnsServer <= Len(d.recursiveDnsServers)
    /\ d.queries <= Cost(maxAttempts)

\* Between two lookups
Between(d) ==
    /\ ListsOk(d)
    /\ d.resolving = None
    /\ \A r \in Results : r \in d.pending <=> Occurs(d.waiting, r)
    /\ d.exchange = NoExchange /\ d.sent = {} /\ ~d.timeoutTimer

\* During one
Listed(d) ==
    /\ ~Occurs(d.waiting, d.resolving)
    /\ \A r \in Results : r \in d.pending <=> r = d.resolving \/ Occurs(d.waiting, r)

Working(d) ==
    /\ ListsOk(d)
    /\ d.resolving \in Results
    /\ d.exchange.state /= "none"
    /\ d.exchange.state /= "idle" => d.exchange.remote \in Servers

\* In an attempt
Attempting(d) ==
    /\ Working(d)
    /\ d.hostname \in HostNames
    /\ d.resolveAttempts >= 1 /\ d.recursions < maxRecursions

\* With a query that is sent or about to be
Asking(d) ==
    /\ Attempting(d)
    /\ d.queries + (IF d.exchange.state = "idle" THEN 0 ELSE 1)
          <= Cost(d.resolveAttempts - 1) + d.recursions + 1

\* and the stream or the timer awaited
Asks(d) ==
    /\ Asking(d)
    /\ d.fault = "none" => d.timeoutTimer \/ d.exchange.state /= "idle"

(***************************************************************************)
(* The inductive invariant.  An idle resolver has an empty list.  A busy   *)
(* one waits for a stream or for a timer, works on a lookup that is not in *)
(* the list, and has asked no more than attempts and recursions so far     *)
(* account for.                                                            *)
(***************************************************************************)
DnsOk(d) ==
    \/ Between(d) /\ d.waiting = << >>
    \/ Asks(d) /\ Listed(d)

DnsInv == DnsOk(dns) /\ poolFree \in BOOLEAN /\ requests \in 0 .. MaxRequests

\* r is what a handler makes of d, and the program was aborted before, or
\* because the exchange is asked for a second stream.
AbortsOnSecond(d, r) ==
    r.fault = "aborted" => d.fault = "aborted" \/ d.exchange.state \notin {"none", "idle"}

(***************************************************************************)
(* Numbers.                                                                *)
(***************************************************************************)
LEMMA Costs ==
    /\ maxAttempts \in Nat \ {0} /\ maxRecursions \in Nat \ {0}
    /\ \A a \in Nat : Cost(a) \in Nat /\ Cost(a + 1) = Cost(a) + maxRecursions
    /\ \A a \in 0 .. maxAttempts : Cost(a) <= Cost(maxAttempts)
    /\ Cost(0) = 0
<1>1. maxAttempts \in Nat \ {0} /\ maxRecursions \in Nat \ {0}
  BY AttemptsAssumption
<1>2. \A m, a \in Nat : a * m \in Nat /\ (a + 1) * m = a * m + m
  OBVIOUS
<1>3. ASSUME NEW m \in Nat, NEW a \in Nat, NEW c \in Nat, a <= c
      PROVE  a * m <= c * m
  <2>1. c - a \in Nat /\ (c - a) * m \in Nat /\ c * m = a * m + (c - a) * m
    BY <1>3
  <2>2. a * m \in Nat
    BY <1>2
  <2> QED
    BY <2>1, <2>2
<1>4. \A a \in 0 .. maxAttempts : Cost(a) <= Cost(maxAttempts)
  BY <1>1, <1>3 DEF Cost
<1> QED
  BY <1>1, <1>2, <1>4 DEF Cost

(***************************************************************************)
(* The fields.                                                             *)
(***************************************************************************)
LEMMA DnsFields ==
    ASSUME NEW d \in DnsRecord
    PROVE  /\ d.waiting \in Seq(Results) /\ d.resolving \in Results \cup {None}
           /\ d.resolveAttempts \in 0 .. maxAttempts /\ d.recursions \in 0 .. maxRecursions
           /\ d.hostname \in HostNames \cup {None} /\ d.currentDnsServer \in 1 .. Len(DnsServers)
           /\ d.recursiveDnsServers \in ServerLists
           /\ d.currentRecursiveDnsServer \in 1 .. maxAttempts
           /\ d.timeoutTimer \in BOOLEAN /\ d.exchange \in Exchange(Servers)
           /\ d.sent \in SUBSET Queries /\ d.pending \in SUBSET Results
           /\ d.answers \in [Results -> Names \cup {None, Failed}]
           /\ d.fault \in {"none", "aborted", "removed"} /\ d.queries \in Nat
BY DEF DnsRecord

(***************************************************************************)
(* DnsUdpSocket is the address of a server.                                *)
(***************************************************************************)
LEMMA SocketType ==
    ASSUME NEW d, ListsOk(d)
    PROVE  DnsUdpSocket(d) \in Servers
<1>1. /\ d.recursiveDnsServers \in ServerLists /\ d.currentRecursiveDnsServer \in 1 .. maxAttempts
      /\ d.currentDnsServer \in 1 .. Len(DnsServers)
      /\ d.recursiveDnsServers /= << >> => d.currentRecursiveDnsServer <= Len(d.recursiveDnsServers)
  BY DnsFields DEF ListsOk
<1>2. CASE d.recursiveDnsServers /= << >>
  <2>1. d.recursiveDnsServers \in Seq(Servers)
    BY <1>1 DEF ServerLists
  <2>2. d.currentRecursiveDnsServer \in 1 .. Len(d.recursiveDnsServers)
    BY <1>1, <1>2, <2>1, AttemptsAssumption
  <2> QED
    BY <1>2, <2>1, <2>2 DEF DnsUdpSocket
<1>3. CASE d.recursiveDnsServers = << >>
  <2>1. DnsServers[d.currentDnsServer] \in ToSet(DnsServers)
    BY <1>1, ServersAssumption
  <2> QED
    BY <1>3, <2>1 DEF DnsUdpSocket, Servers
<1> QED
  BY <1>2, <1>3

(***************************************************************************)
(* ResolveAttempt asks for a stream, or aborts.                            *)
(***************************************************************************)
LEMMA ResolveAttemptStep ==
    ASSUME NEW d, Attempting(d), d.queries <= Cost(d.resolveAttempts - 1) + d.recursions,
           poolFree \in BOOLEAN
    PROVE  LET r == ResolveAttempt(d) IN
           /\ Asks(r) /\ AbortsOnSecond(d, r)
           /\ r.pending = d.pending /\ r.resolving = d.resolving
           /\ r.waiting = d.waiting
<1> DEFINE r == ResolveAttempt(d)
<1>1. d \in DnsRecord /\ ListsOk(d) /\ Working(d)
  BY DEF Attempting, Working, ListsOk
<1>2. /\ d.exchange \in Exchange(Servers)
      /\ d.exchange.state \in {"none", "idle", "waitingForBuffer", "bufferAllocated"}
      /\ d.fault \in {"none", "aborted", "removed"}
  BY <1>1, DnsFields DEF Exchange
<1>5. /\ d.resolveAttempts - 1 \in Nat /\ d.recursions \in Nat /\ d.queries \in Nat
  <2>1. /\ d.resolveAttempts \in 0 .. maxAttempts /\ d.recursions \in 0 .. maxRecursions
        /\ d.queries \in Nat /\ d.resolveAttempts >= 1
    BY <1>1, DnsFields DEF Attempting
  <2> QED
    BY <2>1, AttemptsAssumption
<1>6. d.queries + 1 <= Cost(d.resolveAttempts - 1) + d.recursions + 1
  <2>1. Cost(d.resolveAttempts - 1) \in Nat
    BY <1>5, Costs
  <2> QED
    BY <1>5, <2>1
<1>3. ASSUME d.exchange.state /= "idle"
      PROVE  /\ Asks(r) /\ AbortsOnSecond(d, r)
             /\ r.pending = d.pending /\ r.resolving = d.resolving /\ r.waiting = d.waiting
  <2>1. r = [d EXCEPT !.fault = "aborted"]
    BY <1>3 DEF ResolveAttempt, RequestAborts
  <2> HIDE DEF r
  <2>2. r \in DnsRecord /\ r.fault = "aborted"
    BY <1>1, <2>1 DEF DnsRecord
  <2>3. /\ r.waiting = d.waiting /\ r.resolving = d.resolving
        /\ r.resolveAttempts = d.resolveAttempts
        /\ r.recursions = d.recursions /\ r.hostname = d.hostname
        /\ r.recursiveDnsServers = d.recursiveDnsServers
        /\ r.currentRecursiveDnsServer = d.currentRecursiveDnsServer
        /\ r.exchange = d.exchange /\ r.pending = d.pending /\ r.queries = d.queries
    BY <1>1, <2>1 DEF DnsRecord
  <2>4. Attempting(r)
    BY <2>2, <2>3 DEF Attempting, Working, ListsOk
  <2>5. r.queries + 1 <= Cost(r.resolveAttempts - 1) + r.recursions + 1
    BY <1>6, <2>3
  <2>6. Asking(r)
    BY <1>3, <2>3, <2>4, <2>5 DEF Asking
  <2>7. AbortsOnSecond(d, r)
    BY <1>1, <1>3 DEF AbortsOnSecond, Working
  <2> QED
    BY <1>3, <2>2, <2>3, <2>6, <2>7 DEF Asks
<1>4. ASSUME d.exchange.state = "idle"
      PROVE  /\ Asks(r) /\ AbortsOnSecond(d, r)
             /\ r.pending = d.pending /\ r.resolving = d.resolving /\ r.waiting = d.waiting
  <2> DEFINE e == RequestSendStream(d.exchange, DnsUdpSocket(d), poolFree)
  <2>1. r = [d EXCEPT !.exchange = e]
    BY <1>4 DEF ResolveAttempt, RequestAborts
  <2>2. /\ e \in Exchange(Servers) /\ e.state \notin {"none", "idle"} /\ e.remote \in Servers
    BY <1>1, SocketType DEF RequestSendStream, TryAllocateBuffer, Exchange
  <2> HIDE DEF r, e
  <2>3. r \in DnsRecord /\ r.exchange = e
    BY <1>1, <2>1, <2>2 DEF DnsRecord
  <2>4. /\ r.waiting = d.waiting /\ r.resolving = d.resolving
        /\ r.resolveAttempts = d.resolveAttempts
        /\ r.recursions = d.recursions /\ r.hostname = d.hostname
        /\ r.recursiveDnsServers = d.recursiveDnsServers
        /\ r.currentRecursiveDnsServer = d.currentRecursiveDnsServer
        /\ r.pending = d.pending /\ r.queries = d.queries /\ r.fault = d.fault
    BY <1>1, <2>1 DEF DnsRecord
  <2>5. Attempting(r)
    BY <2>2, <2>3, <2>4 DEF Attempting, Working, ListsOk
  <2>6. r.queries + 1 <= Cost(r.resolveAttempts - 1) + r.recursions + 1
    BY <1>6, <2>4
  <2>7. Asking(r)
    BY <2>2, <2>3, <2>5, <2>6 DEF Asking
  <2>8. AbortsOnSecond(d, r)
    BY <2>4 DEF AbortsOnSecond
  <2> QED
    BY <2>2, <2>3, <2>4, <2>7, <2>8 DEF Asks
<1> QED
  BY <1>3, <1>4

(***************************************************************************)
(* SelectNextDnsServer.                                                    *)
(***************************************************************************)
LEMMA SelectStep ==
    ASSUME NEW d, ListsOk(d)
    PROVE  \E c \in 1 .. Len(DnsServers), k \in 1 .. maxAttempts :
              /\ SelectNextDnsServer(d) =
                   [d EXCEPT !.currentDnsServer = c, !.currentRecursiveDnsServer = k]
              /\ d.recursiveDnsServers /= << >> => k <= Len(d.recursiveDnsServers)
<1> DEFINE n == Len(d.recursiveDnsServers)
           m == Len(DnsServers)
           k == d.currentRecursiveDnsServer
           c == d.currentDnsServer
<1>1. /\ d \in DnsRecord /\ d.recursiveDnsServers \in ServerLists /\ k \in 1 .. maxAttempts
      /\ c \in 1 .. m
      /\ d.recursiveDnsServers /= << >> => k <= n
  BY DnsFields DEF ListsOk
<1>2. n \in 0 .. maxAttempts /\ m \in Nat /\ maxAttempts \in Nat
  BY <1>1, AttemptsAssumption, ServersAssumption DEF ServerLists
<1>3. /\ d.currentDnsServer = c /\ d.currentRecursiveDnsServer = k
      /\ [d EXCEPT !.currentDnsServer = c] = d /\ [d EXCEPT !.currentRecursiveDnsServer = k] = d
  BY <1>1 DEF DnsRecord
<1>4. CASE d.recursiveDnsServers /= << >>
  <2>1. SelectNextDnsServer(d) = [d EXCEPT !.currentRecursiveDnsServer = Cyclic(k, n)]
    BY <1>4 DEF SelectNextDnsServer
  <2>2. Cyclic(k, n) \in 1 .. maxAttempts /\ Cyclic(k, n) <= n
    <3> HIDE DEF k, n
    <3> QED
      BY <1>1, <1>2, <1>4 DEF Cyclic
  <2>3. SelectNextDnsServer(d) =
          [d EXCEPT !.currentDnsServer = c, !.currentRecursiveDnsServer = Cyclic(k, n)]
    BY <1>1, <2>1 DEF DnsRecord
  <2>4. Cyclic(k, n) <= Len(d.recursiveDnsServers)
    BY <2>2
  <2> HIDE DEF k, c, n
  <2> QED
    BY <1>1, <2>2, <2>3, <2>4
<1>5. CASE d.recursiveDnsServers = << >>
  <2>1. SelectNextDnsServer(d) = [d EXCEPT !.currentDnsServer = Cyclic(c, m)]
    BY <1>5 DEF SelectNextDnsServer
  <2>2. Cyclic(c, m) \in 1 .. m
    <3> HIDE DEF c, m
    <3> QED
      BY <1>1, <1>2 DEF Cyclic
  <2>3. SelectNextDnsServer(d) =
          [d EXCEPT !.currentDnsServer = Cyclic(c, m), !.currentRecursiveDnsServer = k]
    BY <1>1, <2>1 DEF DnsRecord
  <2> HIDE DEF k, c
  <2> QED
    BY <1>1, <1>5, <2>2, <2>3
<1> QED
  BY <1>4, <1>5

(***************************************************************************)
(* The next attempt.                                                       *)
(***************************************************************************)
LEMMA NextAttemptStep ==
    ASSUME NEW d, Working(d), d.resolveAttempts /= maxAttempts,
           d.queries <= Cost(d.resolveAttempts), poolFree \in BOOLEAN
    PROVE  LET r == NextAttempt(d) IN
           /\ Asks(r) /\ AbortsOnSecond(d, r)
           /\ r.pending = d.pending /\ r.resolving = d.resolving /\ r.waiting = d.waiting
<1>1. d \in DnsRecord /\ ListsOk(d)
  BY DEF Working, ListsOk
<1>2. PICK c \in 1 .. Len(DnsServers), k \in 1 .. maxAttempts :
         /\ SelectNextDnsServer(d) =
              [d EXCEPT !.currentDnsServer = c, !.currentRecursiveDnsServer = k]
         /\ d.recursiveDnsServers /= << >> => k <= Len(d.recursiveDnsServers)
  BY <1>1, SelectStep
<1> DEFINE a == d.resolveAttempts
           e == [d EXCEPT !.currentDnsServer = c, !.currentRecursiveDnsServer = k,
                          !.resolveAttempts = a + 1, !.recursions = 0,
                          !.hostname = Hostname[d.resolving]]
<1>3. NextAttempt(d) = ResolveAttempt(e)
  <2>1. [SelectNextDnsServer(d) EXCEPT !.resolveAttempts = @ + 1, !.recursions = 0,
                                       !.hostname = Hostname[d.resolving]] = e
    BY <1>1, <1>2 DEF DnsRecord
  <2> HIDE DEF e
  <2> QED
    BY <2>1 DEF NextAttempt
<1>4. /\ a \in 0 .. maxAttempts /\ a + 1 \in 0 .. maxAttempts /\ a \in Nat
      /\ 0 \in 0 .. maxRecursions /\ 0 < maxRecursions
  <2>1. a \in 0 .. maxAttempts
    BY <1>1, DnsFields
  <2> HIDE DEF a
  <2>2. a /= maxAttempts
    BY DEF a
  <2> QED
    BY <2>1, <2>2, AttemptsAssumption
<1>5. Hostname[d.resolving] \in HostNames
  BY HostnameAssumption DEF Working, HostNames
<1>6. e \in DnsRecord
  <2> HIDE DEF a
  <2>1. Hostname[d.resolving] \in HostNames \cup {None}
    BY <1>5
  <2> QED
    BY <1>1, <1>2, <1>4, <2>1 DEF DnsRecord
<1>7. /\ e.waiting = d.waiting /\ e.resolving = d.resolving /\ e.resolveAttempts = a + 1
      /\ e.recursions = 0 /\ e.hostname = Hostname[d.resolving]
      /\ e.recursiveDnsServers = d.recursiveDnsServers /\ e.currentRecursiveDnsServer = k
      /\ e.exchange = d.exchange /\ e.pending = d.pending /\ e.queries = d.queries
      /\ e.fault = d.fault
  BY <1>1 DEF DnsRecord
<1> HIDE DEF e
<1>8. Working(e)
  BY <1>2, <1>6, <1>7 DEF Working, ListsOk
<1>9. e.resolveAttempts >= 1 /\ e.resolveAttempts - 1 = a
  <2> HIDE DEF a
  <2> QED
    BY <1>4, <1>7
<1>10. Attempting(e)
  BY <1>4, <1>5, <1>7, <1>8, <1>9 DEF Attempting
<1>11. e.queries <= Cost(e.resolveAttempts - 1) + e.recursions
  <2>1. e.queries <= Cost(a) /\ Cost(a) \in Nat
    BY <1>4, <1>7, Costs
  <2> HIDE DEF a
  <2> QED
    BY <1>7, <1>9, <2>1
<1>12. /\ Asks(ResolveAttempt(e)) /\ AbortsOnSecond(e, ResolveAttempt(e))
       /\ ResolveAttempt(e).pending = e.pending /\ ResolveAttempt(e).resolving = e.resolving
       /\ ResolveAttempt(e).waiting = e.waiting
  BY <1>10, <1>11, ResolveAttemptStep
<1> QED
  BY <1>3, <1>7, <1>12 DEF AbortsOnSecond

(***************************************************************************)
(* What attempts so far cost is within what they may.                      *)
(***************************************************************************)
LEMMA AskingCosts ==
    ASSUME NEW d, Asking(d)
    PROVE  d.queries <= Cost(d.resolveAttempts)
<1> DEFINE a == d.resolveAttempts
           b == IF d.exchange.state = "idle" THEN 0 ELSE 1
<1>1. d \in DnsRecord
  BY DEF Asking, Attempting, Working, ListsOk
<1>2. /\ a \in Nat /\ a - 1 \in Nat /\ d.queries \in Nat /\ d.recursions \in Nat
      /\ d.recursions < maxRecursions /\ maxRecursions \in Nat
  <2>1. a \in 0 .. maxAttempts /\ d.recursions \in 0 .. maxRecursions /\ d.queries \in Nat
    BY <1>1, DnsFields
  <2>2. a >= 1 /\ d.recursions < maxRecursions
    BY DEF Asking, Attempting
  <2> HIDE DEF a
  <2> QED
    BY <2>1, <2>2, AttemptsAssumption
<1>3. b \in Nat /\ d.queries + b <= Cost(a - 1) + d.recursions + 1
  BY DEF Asking
<1> HIDE DEF a, b
<1>4. Cost(a - 1) \in Nat /\ Cost((a - 1) + 1) = Cost(a - 1) + maxRecursions
  BY <1>2, Costs
<1>5. (a - 1) + 1 = a
  BY <1>2
<1>6. d.queries <= Cost(a)
  BY <1>2, <1>3, <1>4, <1>5
<1> QED
  BY <1>6 DEF a

(***************************************************************************)
(* TryResolveNext goes on with the first in the list.                      *)
(***************************************************************************)
LEMMA TryResolveNextStep ==
    ASSUME NEW d, Between(d), poolFree \in BOOLEAN
    PROVE  LET r == TryResolveNext(d) IN
           /\ DnsOk(r) /\ r.pending = d.pending
           /\ r.fault = "aborted" => d.fault = "aborted"
<1>1. d \in DnsRecord /\ ListsOk(d) /\ d.resolving = None /\ d.waiting \in Seq(Results)
  BY DnsFields DEF Between, ListsOk
<1>2. CASE d.waiting = << >>
  <2>1. TryResolveNext(d) = d
    BY <1>2 DEF TryResolveNext
  <2> QED
    BY <1>2, <2>1 DEF DnsOk
<1>3. ASSUME d.waiting /= << >>
      PROVE  LET r == TryResolveNext(d) IN
             /\ DnsOk(r) /\ r.pending = d.pending
             /\ r.fault = "aborted" => d.fault = "aborted"
  <2> DEFINE f == Head(d.waiting)
             e == [d EXCEPT !.exchange = Listen, !.sent = {}, !.queries = 0, !.resolving = f,
                            !.resolveAttempts = 0, !.recursions = 0]
             m == NextAttempt(e)
             r == [m EXCEPT !.waiting = Tail(@)]
  <2>1. TryResolveNext(d) = r
    BY <1>1, <1>3 DEF TryResolveNext, Resolve
  <2>2. /\ f \in Results /\ Tail(d.waiting) \in Seq(Results) /\ Unique(Tail(d.waiting))
        /\ Occurs(d.waiting, f)
        /\ \A q : Occurs(Tail(d.waiting), q) <=> Occurs(d.waiting, q) /\ q /= f
    BY <1>1, <1>3, PopFront DEF ListsOk
  <2> HIDE DEF f
  <2>3. Listen \in Exchange(Servers) /\ Listen.state = "idle"
    BY DEF Listen, Exchange
  <2>4. /\ e \in DnsRecord /\ e.waiting = d.waiting /\ e.resolving = f /\ e.resolveAttempts = 0
        /\ e.recursions = 0
        /\ e.recursiveDnsServers = d.recursiveDnsServers
        /\ e.currentRecursiveDnsServer = d.currentRecursiveDnsServer
        /\ e.exchange = Listen /\ e.pending = d.pending /\ e.queries = 0 /\ e.fault = d.fault
    <3>1. 0 \in 0 .. maxAttempts /\ 0 \in 0 .. maxRecursions
      BY AttemptsAssumption
    <3>2. e \in DnsRecord
      <4>1. /\ d \in DnsRecord /\ f \in Results \cup {None} /\ Listen \in Exchange(Servers)
            /\ {} \in SUBSET Queries /\ 0 \in Nat
        BY <1>1, <2>2, <2>3
      <4> QED
        BY <3>1, <4>1 DEF DnsRecord
    <3>3. DOMAIN d = FieldNames
      BY <1>1 DEF DnsRecord, FieldNames
    <3>4. /\ e.waiting = d.waiting /\ e.resolving = f /\ e.resolveAttempts = 0
          /\ e.recursions = 0 /\ e.recursiveDnsServers = d.recursiveDnsServers
          /\ e.currentRecursiveDnsServer = d.currentRecursiveDnsServer
          /\ e.exchange = Listen /\ e.pending = d.pending /\ e.queries = 0 /\ e.fault = d.fault
      BY <3>3 DEF FieldNames
    <3> QED
      BY <3>2, <3>4
  <2> HIDE DEF e
  <2>5. Working(e)
    <3>1. 0 <= Cost(maxAttempts)
      BY Costs
    <3> QED
      BY <1>1, <2>2, <2>3, <2>4, <3>1 DEF Working, ListsOk
  <2>6. e.resolveAttempts /= maxAttempts /\ e.queries <= Cost(e.resolveAttempts)
    BY <2>4, Costs
  <2>7. /\ Asks(m) /\ AbortsOnSecond(e, m) /\ m.pending = d.pending /\ m.resolving = f
        /\ m.waiting = d.waiting
    BY <2>4, <2>5, <2>6, NextAttemptStep
  <2>8. m \in DnsRecord
    BY <2>7 DEF Asks, Asking, Attempting, Working, ListsOk
  <2> HIDE DEF m
  <2>9. /\ r \in DnsRecord /\ r.waiting = Tail(d.waiting) /\ r.resolving = f
        /\ r.resolveAttempts = m.resolveAttempts /\ r.recursions = m.recursions
        /\ r.hostname = m.hostname /\ r.timeoutTimer = m.timeoutTimer
        /\ r.recursiveDnsServers = m.recursiveDnsServers
        /\ r.currentRecursiveDnsServer = m.currentRecursiveDnsServer
        /\ r.exchange = m.exchange /\ r.pending = d.pending /\ r.queries = m.queries
        /\ r.fault = m.fault
    BY <2>2, <2>7, <2>8 DEF DnsRecord
  <2> HIDE DEF r
  <2>10. Asks(r)
    BY <2>2, <2>7, <2>9 DEF Asks, Asking, Attempting, Working, ListsOk
  <2>11. Listed(r)
    BY <2>2, <2>9 DEF Listed, Between
  <2>12. r.fault = "aborted" => d.fault = "aborted"
    BY <2>3, <2>4, <2>7, <2>9 DEF AbortsOnSecond
  <2> QED
    BY <2>1, <2>9, <2>10, <2>11, <2>12 DEF DnsOk
<1> QED
  BY <1>2, <1>3

(***************************************************************************)
(* Lookup, between two lookups and during one.                             *)
(***************************************************************************)
LEMMA LookupStep ==
    ASSUME NEW d, Between(d) \/ (Asks(d) /\ Listed(d)), NEW r \in Results, r \notin d.pending,
           poolFree \in BOOLEAN
    PROVE  /\ DnsOk(Lookup(d, r))
           /\ Lookup(d, r).fault = "aborted" => d.fault = "aborted"
<1> DEFINE w == Append(d.waiting, r)
           p == d.pending \cup {r}
           e == [d EXCEPT !.waiting = w, !.pending = p]
<1>1. /\ d \in DnsRecord /\ d.waiting \in Seq(Results) /\ Unique(d.waiting)
      /\ d.pending \in SUBSET Results
  BY DnsFields DEF Between, Asks, Asking, Attempting, Working, ListsOk
<1>0. DOMAIN d = FieldNames
  BY <1>1 DEF DnsRecord, FieldNames
<1>2. /\ ~Occurs(d.waiting, r)
      /\ d.resolving /= r
  BY ResultsAssumption DEF Between, Listed
<1>3. w \in Seq(Results) /\ Unique(w) /\ \A q : Occurs(w, q) <=> Occurs(d.waiting, q) \/ q = r
  BY <1>1, <1>2, PushBack
<1>4. p \in SUBSET Results /\ \A q : q \in p <=> q \in d.pending \/ q = r
  BY <1>1
<1>5. Lookup(d, r) = TryResolveNext(e)
  BY DEF Lookup
<1> HIDE DEF w, p
<1>6. /\ e \in DnsRecord /\ e.waiting = w /\ e.pending = p
      /\ e.resolving = d.resolving /\ e.resolveAttempts = d.resolveAttempts
      /\ e.recursions = d.recursions /\ e.hostname = d.hostname
      /\ e.recursiveDnsServers = d.recursiveDnsServers
      /\ e.currentRecursiveDnsServer = d.currentRecursiveDnsServer
      /\ e.timeoutTimer = d.timeoutTimer /\ e.exchange = d.exchange /\ e.sent = d.sent
      /\ e.queries = d.queries /\ e.fault = d.fault
  <2>1. e \in DnsRecord
    BY <1>1, <1>3, <1>4 DEF DnsRecord
  <2>2. /\ e.waiting = w /\ e.pending = p
        /\ e.resolving = d.resolving /\ e.resolveAttempts = d.resolveAttempts
        /\ e.recursions = d.recursions /\ e.hostname = d.hostname
        /\ e.recursiveDnsServers = d.recursiveDnsServers
    BY <1>0 DEF FieldNames
  <2>3. /\ e.currentRecursiveDnsServer = d.currentRecursiveDnsServer
        /\ e.timeoutTimer = d.timeoutTimer /\ e.exchange = d.exchange /\ e.sent = d.sent
        /\ e.queries = d.queries /\ e.fault = d.fault
    BY <1>0 DEF FieldNames
  <2> QED
    BY <2>1, <2>2, <2>3
<1> HIDE DEF e
<1>7. CASE Between(d)
  <2>1. Between(e)
    BY <1>3, <1>4, <1>6, <1>7 DEF Between, ListsOk
  <2> QED
    BY <1>5, <1>6, <2>1, TryResolveNextStep
<1>8. CASE Asks(d) /\ Listed(d)
  <2>1. Asks(e)
    BY <1>3, <1>6, <1>8 DEF Asks, Asking, Attempting, Working, ListsOk
  <2>2. Listed(e)
    BY <1>2, <1>3, <1>4, <1>6, <1>8 DEF Listed
  <2>3. e.resolving /= None
    BY <2>1, ResultsAssumption DEF Asks, Asking, Attempting, Working
  <2>4. TryResolveNext(e) = e
    BY <2>3 DEF TryResolveNext
  <2> QED
    BY <1>5, <1>6, <2>1, <2>2, <2>4 DEF DnsOk
<1> QED
  BY <1>7, <1>8

(***************************************************************************)
(* NameLookupDone, with a callback that may look up again.                 *)
(***************************************************************************)
LEMMA NameLookupDoneStep ==
    ASSUME NEW d, Working(d), Listed(d), NEW answer \in Names \cup {None, Failed},
           NEW again \in Results \cup {None},
           again /= None => again \notin d.pending \ {d.resolving},
           poolFree \in BOOLEAN
    PROVE  LET r == NameLookupDone(d, answer, again) IN
           /\ DnsOk(r)
           /\ r.fault = "aborted" => d.fault = "aborted"
           /\ again = None => r.pending = d.pending \ {d.resolving}
<1> DEFINE p == d.pending \ {d.resolving}
           g == IF SendsOnRemovedControl(d.exchange) THEN "removed" ELSE d.fault
           as == [d.answers EXCEPT ![d.resolving] = answer]
           e == [d EXCEPT !.exchange = NoExchange, !.sent = {}, !.fault = g,
                          !.resolving = None, !.timeoutTimer = FALSE,
                          !.recursiveDnsServers = << >>, !.pending = p, !.answers = as]
<1>1. /\ d \in DnsRecord /\ d.pending \in SUBSET Results
      /\ d.fault \in {"none", "aborted", "removed"}
      /\ d.answers \in [Results -> Names \cup {None, Failed}] /\ d.resolving \in Results
      /\ Unique(d.waiting) /\ d.queries <= Cost(maxAttempts)
  BY DnsFields DEF Working, ListsOk
<1>2. NameLookupDone(d, answer, again) = TryResolveNext(LookupAgain(e, again))
  <2>1. [Released(d) EXCEPT !.resolving = None, !.timeoutTimer = FALSE,
                            !.recursiveDnsServers = << >>,
                            !.pending = @ \ {d.resolving},
                            !.answers[d.resolving] = answer] = e
    BY <1>1 DEF Released, DnsRecord
  <2> HIDE DEF e
  <2> QED
    BY <2>1 DEF NameLookupDone
<1>3. /\ p \in SUBSET Results /\ g \in {"none", "aborted", "removed"}
      /\ as \in [Results -> Names \cup {None, Failed}]
      /\ g = "aborted" => d.fault = "aborted"
      /\ NoExchange \in Exchange(Servers) /\ << >> \in ServerLists
      /\ \A q : q \in p <=> q \in d.pending /\ q /= d.resolving
  <2>1. NoExchange \in Exchange(Servers)
    BY DEF NoExchange, Exchange
  <2>2. << >> \in ServerLists
    BY AttemptsAssumption DEF ServerLists
  <2> QED
    BY <1>1, <2>1, <2>2
<1> HIDE DEF p, g, as
<1>4. e \in DnsRecord
  BY <1>1, <1>3 DEF DnsRecord
<1>5. /\ e.waiting = d.waiting /\ e.resolving = None /\ e.pending = p
      /\ e.recursiveDnsServers = << >> /\ e.timeoutTimer = FALSE
      /\ e.exchange = NoExchange /\ e.sent = {} /\ e.queries = d.queries /\ e.fault = g
  BY <1>1 DEF DnsRecord
<1> HIDE DEF e
<1>6. Between(e)
  <2>1. \A r \in Results : r \in e.pending <=> Occurs(e.waiting, r)
    BY <1>3, <1>5 DEF Listed
  <2> QED
    BY <1>1, <1>4, <1>5, <2>1 DEF Between, ListsOk
<1>7. CASE again = None
  <2>1. LookupAgain(e, again) = e
    BY <1>7 DEF LookupAgain
  <2>2. /\ DnsOk(TryResolveNext(e)) /\ TryResolveNext(e).pending = e.pending
        /\ TryResolveNext(e).fault = "aborted" => e.fault = "aborted"
    BY <1>6, TryResolveNextStep
  <2> QED
    BY <1>2, <1>3, <1>5, <2>1, <2>2 DEF p
<1>8. CASE again /= None
  <2> DEFINE l == Lookup(e, again)
  <2>1. LookupAgain(e, again) = l
    BY <1>8 DEF LookupAgain
  <2>2. again \in Results /\ again \notin e.pending
    BY <1>5, <1>8 DEF p
  <2>3. DnsOk(l) /\ (l.fault = "aborted" => e.fault = "aborted")
    BY <1>6, <2>2, LookupStep
  <2> HIDE DEF l
  <2>4. TryResolveNext(l) = l
    BY <2>3, ResultsAssumption
       DEF TryResolveNext, DnsOk, Asks, Asking, Attempting, Working
  <2> QED
    BY <1>2, <1>3, <1>5, <1>8, <2>1, <2>3, <2>4
<1> QED
  BY <1>7, <1>8

(***************************************************************************)
(* ResolveNextAttempt.                                                     *)
(***************************************************************************)
LEMMA ResolveNextAttemptStep ==
    ASSUME NEW d, Asking(d), Listed(d), poolFree \in BOOLEAN, NEW again \in Results \cup {None},
           again /= None => again \notin ResolveNextAttempt(d, None).pending
    PROVE  DnsOk(ResolveNextAttempt(d, again)) /\ AbortsOnSecond(d, ResolveNextAttempt(d, again))
<1>1. Working(d) /\ d.queries <= Cost(d.resolveAttempts)
  BY AskingCosts DEF Asking, Attempting
<1>2. CASE d.resolveAttempts = maxAttempts
  <2>1. \A c : ResolveNextAttempt(d, c) = NameLookupDone(d, Failed, c)
    BY <1>2 DEF ResolveNextAttempt, NameLookupFailed
  <2>2. NameLookupDone(d, Failed, None).pending = d.pending \ {d.resolving}
    BY <1>1, NameLookupDoneStep
  <2>3. /\ DnsOk(NameLookupDone(d, Failed, again))
        /\ NameLookupDone(d, Failed, again).fault = "aborted" => d.fault = "aborted"
    BY <1>1, <2>1, <2>2, NameLookupDoneStep
  <2> QED
    BY <2>1, <2>3 DEF AbortsOnSecond
<1>3. CASE d.resolveAttempts /= maxAttempts
  <2>1. ResolveNextAttempt(d, again) = NextAttempt(d)
    BY <1>3 DEF ResolveNextAttempt
  <2>2. /\ Asks(NextAttempt(d)) /\ AbortsOnSecond(d, NextAttempt(d))
        /\ NextAttempt(d).pending = d.pending /\ NextAttempt(d).resolving = d.resolving
        /\ NextAttempt(d).waiting = d.waiting
    BY <1>1, <1>3, NextAttemptStep
  <2> QED
    BY <2>1, <2>2 DEF DnsOk, Listed
<1> QED
  BY <1>2, <1>3

(***************************************************************************)
(* ResolveRecursion.                                                       *)
(***************************************************************************)
LEMMA ResolveRecursionStep ==
    ASSUME NEW d, Asking(d), Listed(d), poolFree \in BOOLEAN, NEW again \in Results \cup {None},
           again /= None => again \notin ResolveRecursion(d, None).pending
    PROVE  DnsOk(ResolveRecursion(d, again)) /\ AbortsOnSecond(d, ResolveRecursion(d, again))
<1> DEFINE n == d.recursions + 1
           e == [d EXCEPT !.recursions = n]
           b == IF d.exchange.state = "idle" THEN 0 ELSE 1
<1>1. d \in DnsRecord
  BY DEF Asking, Attempting, Working, ListsOk
<1>2. /\ d.recursions \in Nat /\ n \in 0 .. maxRecursions /\ d.queries \in Nat
      /\ d.resolveAttempts - 1 \in Nat
  <2>1. /\ d.recursions \in 0 .. maxRecursions /\ d.recursions < maxRecursions /\ d.queries \in Nat
        /\ d.resolveAttempts \in 0 .. maxAttempts /\ d.resolveAttempts >= 1
    BY <1>1, DnsFields DEF Asking, Attempting
  <2> QED
    BY <2>1, AttemptsAssumption
<1>3. DOMAIN d = FieldNames
  BY <1>1 DEF DnsRecord, FieldNames
<1>4. /\ e.waiting = d.waiting /\ e.resolving = d.resolving
      /\ e.resolveAttempts = d.resolveAttempts /\ e.recursions = n /\ e.hostname = d.hostname
      /\ e.recursiveDnsServers = d.recursiveDnsServers
      /\ e.currentRecursiveDnsServer = d.currentRecursiveDnsServer
      /\ e.exchange = d.exchange /\ e.pending = d.pending /\ e.queries = d.queries
      /\ e.fault = d.fault
  BY <1>3 DEF FieldNames
<1>5. e \in DnsRecord
  <2> HIDE DEF n
  <2> QED
    BY <1>1, <1>2 DEF DnsRecord
<1>6. \A c : ResolveRecursion(d, c) =
                IF n = maxRecursions THEN NameLookupDone(e, Failed, c) ELSE ResolveAttempt(e)
  BY DEF ResolveRecursion, NameLookupFailed
<1> HIDE DEF e
<1>7. Working(e) /\ Listed(e)
  BY <1>4, <1>5 DEF Asking, Attempting, Working, ListsOk, Listed
<1>8. CASE n = maxRecursions
  <2>1. \A c : ResolveRecursion(d, c) = NameLookupDone(e, Failed, c)
    BY <1>6, <1>8
  <2>2. NameLookupDone(e, Failed, None).pending = e.pending \ {e.resolving}
    BY <1>7, NameLookupDoneStep
  <2>3. again /= None => again \notin e.pending \ {e.resolving}
    BY <2>1, <2>2
  <2>4. /\ DnsOk(NameLookupDone(e, Failed, again))
        /\ NameLookupDone(e, Failed, again).fault = "aborted" => e.fault = "aborted"
    BY <1>7, <2>3, NameLookupDoneStep
  <2> QED
    BY <1>4, <2>1, <2>4 DEF AbortsOnSecond
<1>9. CASE n /= maxRecursions
  <2>1. ResolveRecursion(d, again) = ResolveAttempt(e)
    BY <1>6, <1>9
  <2>2. Attempting(e)
    <3>1. n < maxRecursions
      <4> HIDE DEF n
      <4> QED
        BY <1>2, <1>9, AttemptsAssumption
    <3> QED
      BY <1>4, <1>7, <3>1 DEF Attempting, Asking
  <2>3. e.queries <= Cost(e.resolveAttempts - 1) + e.recursions
    <3>1. b \in Nat /\ d.queries + b <= Cost(d.resolveAttempts - 1) + d.recursions + 1
      BY DEF Asking
    <3>2. Cost(d.resolveAttempts - 1) \in Nat
      BY <1>2, Costs
    <3> HIDE DEF b
    <3> QED
      BY <1>2, <1>4, <3>1, <3>2
  <2>4. /\ Asks(ResolveAttempt(e)) /\ AbortsOnSecond(e, ResolveAttempt(e))
        /\ ResolveAttempt(e).pending = e.pending /\ ResolveAttempt(e).resolving = e.resolving
        /\ ResolveAttempt(e).waiting = e.waiting
    BY <2>2, <2>3, ResolveAttemptStep
  <2> QED
    BY <1>4, <1>7, <2>1, <2>4 DEF DnsOk, Listed, AbortsOnSecond
<1> QED
  BY <1>8, <1>9

\* e is d with another name to ask for and other servers to ask
Reads(d, h, l, k, e) ==
    /\ h \in HostNames /\ l \in ServerLists /\ k \in 1 .. maxAttempts
    /\ l /= << >> => k <= Len(l)
    /\ e = [d EXCEPT !.hostname = h, !.recursiveDnsServers = l, !.currentRecursiveDnsServer = k]

(***************************************************************************)
(* The fields that reading a reply changes.                                *)
(***************************************************************************)
LEMMA ReadStep ==
    ASSUME NEW d, Asking(d), Listed(d), NEW h, NEW l, NEW k, NEW e, Reads(d, h, l, k, e)
    PROVE  Asking(e) /\ Listed(e) /\ e.fault = d.fault /\ e.exchange = d.exchange
<1>1. d \in DnsRecord
  BY DEF Asking, Attempting, Working, ListsOk
<1>2. DOMAIN d = FieldNames
  BY <1>1 DEF DnsRecord, FieldNames
<1>3. /\ e.waiting = d.waiting /\ e.resolving = d.resolving
      /\ e.resolveAttempts = d.resolveAttempts /\ e.recursions = d.recursions /\ e.hostname = h
      /\ e.recursiveDnsServers = l /\ e.currentRecursiveDnsServer = k
      /\ e.exchange = d.exchange /\ e.pending = d.pending /\ e.queries = d.queries
      /\ e.fault = d.fault
  BY <1>2 DEF FieldNames, Reads
<1>4. e \in DnsRecord
  BY <1>1 DEF DnsRecord, Reads
<1>5. Asking(e) /\ Listed(e)
  BY <1>3, <1>4 DEF Asking, Attempting, Working, ListsOk, Listed, Reads
<1> QED
  BY <1>3, <1>5

(***************************************************************************)
(* TryFindAnswer, with what a truthful server replies.                     *)
(***************************************************************************)
LEMMA TryFindAnswerStep ==
    ASSUME NEW d, Asking(d), Listed(d), poolFree \in BOOLEAN, NEW again \in Results \cup {None},
           NEW reply, reply.answers \in Seq(Records),
           reply.additional = << >> \/ reply.additional \in Referrals,
           again /= None => again \notin TryFindAnswer(d, reply, None).pending
    PROVE  /\ DnsOk(TryFindAnswer(d, reply, again))
           /\ AbortsOnSecond(d, TryFindAnswer(d, reply, again))
<1> DEFINE read == ReadAnswerRecords(d, reply)
           h == read.hostname
           servers == ReadNameServers(reply)
           p == [d EXCEPT !.hostname = h]
           q == [p EXCEPT !.recursiveDnsServers = servers, !.currentRecursiveDnsServer = 1]
<1>1. /\ d \in DnsRecord /\ d.hostname \in HostNames
      /\ d.recursiveDnsServers \in ServerLists /\ d.currentRecursiveDnsServer \in 1 .. maxAttempts
      /\ d.recursiveDnsServers /= << >> => d.currentRecursiveDnsServer <= Len(d.recursiveDnsServers)
  BY DnsFields DEF Asking, Attempting, Working, ListsOk
<1>2. read \in Readings /\ h \in HostNames /\ read.address \in Names \cup {None}
  <2>1. read \in Readings
    BY <1>1, ReadAnswerRecordsType
  <2> HIDE DEF read
  <2> QED
    BY <2>1 DEF Readings
<1>3. servers \in ServerLists
  BY ReadNameServersType
<1>4. \A c : TryFindAnswer(d, reply, c) =
        IF read.address /= None THEN NameLookupDone(p, read.address, c)
        ELSE IF read.recurse \/ servers /= << >> THEN ResolveRecursion(q, c)
        ELSE ResolveNextAttempt(p, c)
  BY DEF TryFindAnswer, TryFindRecursiveNameServer, NameLookupSuccess
<1> HIDE DEF read, servers, h
<1>5. Asking(p) /\ Listed(p) /\ p.fault = d.fault /\ p.exchange = d.exchange
  <2> DEFINE s == d.recursiveDnsServers
             k == d.currentRecursiveDnsServer
  <2>1. p = [d EXCEPT !.hostname = h, !.recursiveDnsServers = s,
                      !.currentRecursiveDnsServer = k]
    BY <1>1 DEF DnsRecord
  <2>2. Reads(d, h, s, k, p)
    BY <1>1, <1>2, <2>1 DEF Reads
  <2> HIDE DEF p, s, k
  <2> QED
    BY <2>2, ReadStep
<1>6. Asking(q) /\ Listed(q) /\ q.fault = d.fault /\ q.exchange = d.exchange
  <2>1. q = [d EXCEPT !.hostname = h, !.recursiveDnsServers = servers,
                      !.currentRecursiveDnsServer = 1]
    BY <1>1 DEF DnsRecord
  <2>2. 1 \in 1 .. maxAttempts /\ (servers /= << >> => 1 <= Len(servers))
    <3>1. servers \in Seq(Servers)
      BY <1>3 DEF ServerLists
    <3>2. servers /= << >> => Len(servers) \in Nat \ {0}
      BY <3>1
    <3> QED
      BY <3>2, AttemptsAssumption
  <2> HIDE DEF p, q
  <2>3. Reads(d, h, servers, 1, q)
    BY <1>2, <1>3, <2>1, <2>2 DEF Reads
  <2> QED
    BY <2>3, ReadStep
<1> HIDE DEF p, q
<1>7. CASE read.address /= None
  <2> DEFINE a == read.address
  <2>1. \A c : TryFindAnswer(d, reply, c) = NameLookupDone(p, a, c)
    BY <1>4, <1>7
  <2>2. Working(p) /\ a \in Names \cup {None, Failed}
    BY <1>2, <1>5 DEF Asking, Attempting
  <2> HIDE DEF a
  <2>3. NameLookupDone(p, a, None).pending = p.pending \ {p.resolving}
    BY <1>5, <2>2, NameLookupDoneStep
  <2>4. again /= None => again \notin p.pending \ {p.resolving}
    BY <2>1, <2>3
  <2>5. /\ DnsOk(NameLookupDone(p, a, again))
        /\ NameLookupDone(p, a, again).fault = "aborted" => p.fault = "aborted"
    BY <1>5, <2>2, <2>4, NameLookupDoneStep
  <2> QED
    BY <1>5, <2>1, <2>5 DEF AbortsOnSecond
<1>8. CASE read.address = None /\ (read.recurse \/ servers /= << >>)
  <2>1. \A c : TryFindAnswer(d, reply, c) = ResolveRecursion(q, c)
    BY <1>4, <1>8
  <2>2. DnsOk(ResolveRecursion(q, again)) /\ AbortsOnSecond(q, ResolveRecursion(q, again))
    BY <1>6, <2>1, ResolveRecursionStep
  <2> QED
    BY <1>6, <2>1, <2>2 DEF AbortsOnSecond
<1>9. CASE read.address = None /\ ~(read.recurse \/ servers /= << >>)
  <2>1. \A c : TryFindAnswer(d, reply, c) = ResolveNextAttempt(p, c)
    BY <1>4, <1>9
  <2>2. DnsOk(ResolveNextAttempt(p, again)) /\ AbortsOnSecond(p, ResolveNextAttempt(p, again))
    BY <1>5, <2>1, ResolveNextAttemptStep
  <2> QED
    BY <1>5, <2>1, <2>2 DEF AbortsOnSecond
<1> QED
  BY <1>7, <1>8, <1>9

-----------------------------------------------------------------------------
(* DnsResolver: the handlers *)

\* What a step has to keep, and when it may abort
DnsKept == DnsInv' /\ AbortsOnSecond(dns, dns')

(***************************************************************************)
(* Something is sent, is pending or times out only during a lookup.        *)
(***************************************************************************)
LEMMA BusyResolver ==
    ASSUME DnsOk(dns), dns.sent /= {} \/ dns.timeoutTimer \/ dns.exchange.state /= "none"
    PROVE  Asks(dns) /\ Asking(dns) /\ Listed(dns) /\ dns \in DnsRecord
BY DEF DnsOk, Between, NoExchange, Asks, Asking, Attempting, Working, ListsOk

(***************************************************************************)
(* Lookup and CancelLookup.                                                *)
(***************************************************************************)
LEMMA ClientSteps ==
    ASSUME DnsInv, NEW r \in Results, ClientLooksUp(r) \/ CancelLookup(r)
    PROVE  DnsKept
<1>1. DnsOk(dns) /\ poolFree \in BOOLEAN /\ requests \in 0 .. MaxRequests
  BY DEF DnsInv
<1>2. CASE ClientLooksUp(r)
  <2>1. /\ dns' = Lookup(dns, r) /\ r \notin dns.pending /\ poolFree' = poolFree
        /\ requests' = requests + 1 /\ requests < MaxRequests
    BY <1>2 DEF ClientLooksUp
  <2>2. DnsOk(dns') /\ (dns'.fault = "aborted" => dns.fault = "aborted")
    BY <1>1, <2>1, LookupStep DEF DnsOk
  <2>3. requests' \in 0 .. MaxRequests
    BY <1>1, <2>1, MaxRequestsAssumption
  <2> QED
    BY <1>1, <2>1, <2>2, <2>3 DEF DnsKept, DnsInv, AbortsOnSecond
<1>3. CASE CancelLookup(r) /\ dns.resolving = r
  <2>1. /\ dns' = NameLookupDone(dns, dns.answers[r], None) /\ poolFree' = poolFree
        /\ requests' = requests
    BY <1>3 DEF CancelLookup, NameLookupCancelled
  <2>2. Working(dns) /\ Listed(dns)
    BY <1>1, <1>3, ResultsAssumption DEF DnsOk, Between, Asks, Asking, Attempting
  <2>3. dns.answers[r] \in Names \cup {None, Failed}
    <3>1. dns \in DnsRecord
      BY <2>2 DEF Working, ListsOk
    <3> QED
      BY <3>1, DnsFields
  <2>4. DnsOk(dns') /\ (dns'.fault = "aborted" => dns.fault = "aborted")
    <3> DEFINE a == dns.answers[r]
    <3> HIDE DEF a
    <3>1. a \in Names \cup {None, Failed} /\ dns' = NameLookupDone(dns, a, None)
      BY <2>1, <2>3 DEF a
    <3>2. /\ DnsOk(NameLookupDone(dns, a, None))
          /\ NameLookupDone(dns, a, None).fault = "aborted" => dns.fault = "aborted"
      BY <1>1, <2>2, <3>1, NameLookupDoneStep
    <3> QED
      BY <3>1, <3>2
  <2> QED
    BY <1>1, <2>1, <2>4 DEF DnsKept, DnsInv, AbortsOnSecond
<1>4. CASE CancelLookup(r) /\ dns.resolving /= r
  <2> DEFINE i == CHOOSE i \in DOMAIN dns.waiting : dns.waiting[i] = r
             w == RemoveAt(dns.waiting, i)
             p == dns.pending \ {r}
  <2>1. /\ dns' = [dns EXCEPT !.waiting = w, !.pending = p] /\ poolFree' = poolFree
        /\ requests' = requests /\ r \in dns.pending
    BY <1>4 DEF CancelLookup, Without
  <2>2. Asks(dns) /\ Listed(dns) /\ Occurs(dns.waiting, r)
    <3>1. ~(Between(dns) /\ dns.waiting = << >>)
      BY <2>1 DEF Between, Occurs
    <3> QED
      BY <1>1, <1>4, <2>1, <3>1 DEF DnsOk, Listed
  <2>3. dns \in DnsRecord /\ dns.waiting \in Seq(Results) /\ Unique(dns.waiting)
        /\ dns.pending \in SUBSET Results
    BY <2>2, DnsFields DEF Asks, Asking, Attempting, Working, ListsOk
  <2>4. i \in DOMAIN dns.waiting /\ dns.waiting[i] = r
    BY <2>2 DEF Occurs
  <2> HIDE DEF i
  <2>5. /\ w \in Seq(Results) /\ Unique(w)
        /\ \A q : Occurs(w, q) <=> Occurs(dns.waiting, q) /\ q /= r
    BY <2>3, <2>4, EraseElement
  <2>6. p \in SUBSET Results /\ \A q : q \in p <=> q \in dns.pending /\ q /= r
    BY <2>3
  <2> HIDE DEF w, p
  <2>7. DOMAIN dns = FieldNames
    BY <2>3 DEF DnsRecord, FieldNames
  <2>8. /\ dns'.waiting = w /\ dns'.pending = p
        /\ dns'.resolving = dns.resolving /\ dns'.resolveAttempts = dns.resolveAttempts
        /\ dns'.recursions = dns.recursions /\ dns'.hostname = dns.hostname
        /\ dns'.recursiveDnsServers = dns.recursiveDnsServers
        /\ dns'.currentRecursiveDnsServer = dns.currentRecursiveDnsServer
        /\ dns'.timeoutTimer = dns.timeoutTimer /\ dns'.exchange = dns.exchange
        /\ dns'.queries = dns.queries /\ dns'.fault = dns.fault
    BY <2>1, <2>7 DEF FieldNames
  <2>9. dns' \in DnsRecord
    BY <2>1, <2>3, <2>5, <2>6 DEF DnsRecord
  <2>10. Asks(dns')
    BY <2>2, <2>5, <2>8, <2>9 DEF Asks, Asking, Attempting, Working, ListsOk
  <2>11. Listed(dns')
    BY <1>4, <2>2, <2>5, <2>6, <2>8 DEF Listed
  <2> QED
    BY <1>1, <2>1, <2>8, <2>10, <2>11 DEF DnsKept, DnsInv, DnsOk, AbortsOnSecond
<1> QED
  BY <1>2, <1>3, <1>4


(***************************************************************************)
(* SendStream: the query that was counted is sent, and the timer started.  *)
(***************************************************************************)
LEMMA SendStreamKeeps ==
    ASSUME DnsInv, SendStream
    PROVE  DnsKept
<1> DEFINE query == [to |-> dns.exchange.remote, name |-> dns.hostname]
           sent == dns.sent \cup {query}
           n == dns.queries + 1
           a == dns.resolveAttempts
<1>1. /\ DnsOk(dns) /\ poolFree \in BOOLEAN /\ requests \in 0 .. MaxRequests
      /\ dns.exchange.state = "bufferAllocated" /\ poolFree' = poolFree /\ requests' = requests
      /\ dns' = [dns EXCEPT !.exchange = Listen, !.timeoutTimer = TRUE, !.sent = sent,
                            !.queries = n]
  BY DEF DnsInv, SendStream, SendStreamAvailable
<1>2. Asks(dns) /\ Asking(dns) /\ Listed(dns) /\ dns \in DnsRecord
  BY <1>1, BusyResolver
<1>3. /\ dns.sent \in SUBSET Queries /\ a \in 0 .. maxAttempts /\ dns.queries \in Nat
      /\ dns.recursions \in 0 .. maxRecursions
  BY <1>2, DnsFields
<1>4. sent \in SUBSET Queries
  <2>1. dns.exchange.remote \in Servers /\ dns.hostname \in HostNames
    BY <1>1, <1>2 DEF Asking, Attempting, Working
  <2>2. query \in Queries
    BY <2>1 DEF Queries, HostNames
  <2> QED
    BY <1>3, <2>2
<1>5. n \in Nat /\ n <= Cost(a - 1) + dns.recursions + 1 /\ n <= Cost(maxAttempts)
  <2>1. a >= 1 /\ dns.recursions < maxRecursions /\ n <= Cost(a - 1) + dns.recursions + 1
    BY <1>1, <1>2 DEF Asking, Attempting
  <2>2. a \in Nat /\ a - 1 \in Nat /\ (a - 1) + 1 = a /\ dns.recursions \in Nat
    <3> HIDE DEF a
    <3> QED
      BY <1>3, <2>1, AttemptsAssumption
  <2>3. Cost(a - 1) \in Nat /\ Cost((a - 1) + 1) = Cost(a - 1) + maxRecursions
    BY <2>2, Costs
  <2>4. Cost(a) <= Cost(maxAttempts) /\ Cost(a) \in Nat /\ Cost(maxAttempts) \in Nat
    BY <1>3, <2>2, Costs
  <2>5. n \in Nat
    BY <1>3
  <2> HIDE DEF a, n
  <2>6. n <= Cost(a)
    BY <2>1, <2>2, <2>3, <2>5, AttemptsAssumption
  <2> QED
    BY <2>1, <2>4, <2>5, <2>6
<1>6. Listen \in Exchange(Servers) /\ Listen.state = "idle"
  BY DEF Listen, Exchange
<1> HIDE DEF query, sent, n
<1>7. DOMAIN dns = FieldNames
  BY <1>2 DEF DnsRecord, FieldNames
<1>8. /\ dns'.waiting = dns.waiting /\ dns'.pending = dns.pending
      /\ dns'.resolving = dns.resolving /\ dns'.resolveAttempts = a
      /\ dns'.recursions = dns.recursions /\ dns'.hostname = dns.hostname
      /\ dns'.recursiveDnsServers = dns.recursiveDnsServers
      /\ dns'.currentRecursiveDnsServer = dns.currentRecursiveDnsServer
      /\ dns'.timeoutTimer = TRUE /\ dns'.exchange = Listen
      /\ dns'.queries = n /\ dns'.fault = dns.fault
  BY <1>1, <1>7 DEF FieldNames
<1>9. dns' \in DnsRecord
  BY <1>1, <1>2, <1>4, <1>5, <1>6 DEF DnsRecord
<1>10. Attempting(dns')
  BY <1>2, <1>5, <1>6, <1>8, <1>9 DEF Asking, Attempting, Working, ListsOk
<1>11. n + 0 <= Cost(a - 1) + dns.recursions + 1
  <2> HIDE DEF a
  <2> QED
    BY <1>5
<1>12. Asks(dns')
  BY <1>6, <1>8, <1>10, <1>11 DEF Asks, Asking
<1>13. Listed(dns')
  BY <1>2, <1>8 DEF Listed
<1> QED
  BY <1>1, <1>8, <1>12, <1>13 DEF DnsKept, DnsInv, DnsOk, AbortsOnSecond

(***************************************************************************)
(* allocateTimer, and what happens to the pool of lwIP.                    *)
(***************************************************************************)
LEMMA AllocationKeeps ==
    ASSUME DnsInv, AllocateTimer \/ PoolChanges \/ UNCHANGED vars
    PROVE  DnsKept
<1>1. DnsOk(dns) /\ poolFree \in BOOLEAN /\ requests \in 0 .. MaxRequests
  BY DEF DnsInv
<1>2. CASE AllocateTimer
  <2> DEFINE x == [dns.exchange EXCEPT !.state = "bufferAllocated"]
  <2>1. /\ dns.exchange.state = "waitingForBuffer" /\ poolFree' = poolFree /\ requests' = requests
        /\ dns' = [dns EXCEPT !.exchange = x]
    BY <1>2 DEF AllocateTimer, TryAllocateBuffer
  <2>2. Asks(dns) /\ Asking(dns) /\ Listed(dns) /\ dns \in DnsRecord
    BY <1>1, <2>1, BusyResolver
  <2>3. x \in Exchange(Servers) /\ x.state = "bufferAllocated" /\ x.remote = dns.exchange.remote
    <3>1. dns.exchange \in Exchange(Servers)
      BY <2>2, DnsFields
    <3> QED
      BY <3>1 DEF Exchange
  <2> HIDE DEF x
  <2>4. DOMAIN dns = FieldNames
    BY <2>2 DEF DnsRecord, FieldNames
  <2>5. /\ dns'.waiting = dns.waiting /\ dns'.pending = dns.pending
        /\ dns'.resolving = dns.resolving /\ dns'.resolveAttempts = dns.resolveAttempts
        /\ dns'.recursions = dns.recursions /\ dns'.hostname = dns.hostname
        /\ dns'.recursiveDnsServers = dns.recursiveDnsServers
        /\ dns'.currentRecursiveDnsServer = dns.currentRecursiveDnsServer
        /\ dns'.timeoutTimer = dns.timeoutTimer /\ dns'.exchange = x
        /\ dns'.queries = dns.queries /\ dns'.fault = dns.fault
    BY <2>1, <2>4 DEF FieldNames
  <2>6. dns' \in DnsRecord
    BY <2>1, <2>2, <2>3 DEF DnsRecord
  <2>7. Attempting(dns')
    BY <2>1, <2>2, <2>3, <2>5, <2>6 DEF Asking, Attempting, Working, ListsOk
  <2>8. dns.queries + 1 <= Cost(dns.resolveAttempts - 1) + dns.recursions + 1
    BY <2>1, <2>2 DEF Asking
  <2>9. Asks(dns')
    BY <2>3, <2>5, <2>7, <2>8 DEF Asks, Asking
  <2>10. Listed(dns')
    BY <2>2, <2>5 DEF Listed
  <2> QED
    BY <1>1, <2>1, <2>5, <2>9, <2>10 DEF DnsKept, DnsInv, DnsOk, AbortsOnSecond
<1>3. CASE PoolChanges
  <2>1. poolFree' \in BOOLEAN /\ dns' = dns /\ requests' = requests
    BY <1>1, <1>3 DEF PoolChanges
  <2> QED
    BY <1>1, <2>1 DEF DnsKept, DnsInv, AbortsOnSecond
<1>4. CASE UNCHANGED vars
  BY <1>1, <1>4 DEF vars, DnsKept, DnsInv, AbortsOnSecond
<1> QED
  BY <1>2, <1>3, <1>4

(***************************************************************************)
(* Timeout.                                                                *)
(***************************************************************************)
LEMMA TimeoutKeeps ==
    ASSUME DnsInv, NEW again \in Results \cup {None}, Timeout(again)
    PROVE  DnsKept
<1> DEFINE e == [dns EXCEPT !.timeoutTimer = FALSE]
<1>1. /\ DnsOk(dns) /\ poolFree \in BOOLEAN /\ requests \in 0 .. MaxRequests
      /\ dns.timeoutTimer /\ poolFree' = poolFree
      /\ dns' = ResolveNextAttempt(e, again)
      /\ again /= None => again \notin ResolveNextAttempt(e, None).pending
      /\ again /= None => requests < MaxRequests
      /\ requests' = requests + IF again = None THEN 0 ELSE 1
  BY DEF DnsInv, Timeout, CallsBack
<1>2. Asks(dns) /\ Asking(dns) /\ Listed(dns) /\ dns \in DnsRecord
  BY <1>1, BusyResolver
<1>3. requests' \in 0 .. MaxRequests
  BY <1>1, MaxRequestsAssumption
<1>4. DOMAIN dns = FieldNames
  BY <1>2 DEF DnsRecord, FieldNames
<1>5. /\ e.waiting = dns.waiting /\ e.pending = dns.pending
      /\ e.resolving = dns.resolving /\ e.resolveAttempts = dns.resolveAttempts
      /\ e.recursions = dns.recursions /\ e.hostname = dns.hostname
      /\ e.recursiveDnsServers = dns.recursiveDnsServers
      /\ e.currentRecursiveDnsServer = dns.currentRecursiveDnsServer
      /\ e.exchange = dns.exchange /\ e.queries = dns.queries /\ e.fault = dns.fault
  BY <1>4 DEF FieldNames
<1>6. e \in DnsRecord
  BY <1>2 DEF DnsRecord
<1> HIDE DEF e
<1>7. Asking(e) /\ Listed(e)
  BY <1>2, <1>5, <1>6 DEF Asking, Attempting, Working, ListsOk, Listed
<1>8. DnsOk(dns') /\ AbortsOnSecond(e, dns')
  BY <1>1, <1>7, ResolveNextAttemptStep
<1> QED
  BY <1>1, <1>3, <1>5, <1>8 DEF DnsKept, DnsInv, AbortsOnSecond

(***************************************************************************)
(* DataReceived, for a reply to any query of the exchange.                 *)
(***************************************************************************)
LEMMA DataReceivedKeeps ==
    ASSUME DnsInv, NEW q \in dns.sent, NEW again \in Results \cup {None},
           NEW reply \in Replies(q), DataReceived(reply, again)
    PROVE  DnsKept
<1> DEFINE x == [reply |-> reply.name, asked |-> dns.hostname]
           e == [dns EXCEPT !.accepted = x]
           H(c) == IF reply.error THEN ResolveNextAttempt(e, c) ELSE TryFindAnswer(e, reply, c)
<1>1. /\ DnsOk(dns) /\ poolFree \in BOOLEAN /\ requests \in 0 .. MaxRequests
      /\ poolFree' = poolFree
      /\ dns' = H(again)
      /\ again /= None => again \notin H(None).pending
      /\ again /= None => requests < MaxRequests
      /\ requests' = requests + IF again = None THEN 0 ELSE 1
  BY DEF DnsInv, DataReceived, CallsBack
<1>2. Asks(dns) /\ Asking(dns) /\ Listed(dns) /\ dns \in DnsRecord
  BY <1>1, BusyResolver
<1>3. requests' \in 0 .. MaxRequests
  BY <1>1, MaxRequestsAssumption
<1>4. q \in Queries
  BY <1>2, DnsFields
<1>5. /\ reply.name \in HostNames /\ reply.answers \in Seq(Records)
      /\ reply.additional = << >> \/ reply.additional \in Referrals
  BY <1>4, TruthfulReply
<1>6. x \in [reply : HostNames \cup {None}, asked : HostNames \cup {None}]
  BY <1>2, <1>5, DnsFields
<1> HIDE DEF x
<1>7. DOMAIN dns = FieldNames
  BY <1>2 DEF DnsRecord, FieldNames
<1>8. /\ e.waiting = dns.waiting /\ e.pending = dns.pending
      /\ e.resolving = dns.resolving /\ e.resolveAttempts = dns.resolveAttempts
      /\ e.recursions = dns.recursions /\ e.hostname = dns.hostname
      /\ e.recursiveDnsServers = dns.recursiveDnsServers
      /\ e.currentRecursiveDnsServer = dns.currentRecursiveDnsServer
      /\ e.exchange = dns.exchange /\ e.queries = dns.queries /\ e.fault = dns.fault
  BY <1>7 DEF FieldNames
<1>9. e \in DnsRecord
  BY <1>2, <1>6 DEF DnsRecord
<1> HIDE DEF e
<1>10. Asking(e) /\ Listed(e)
  BY <1>2, <1>8, <1>9 DEF Asking, Attempting, Working, ListsOk, Listed
<1>11. DnsOk(dns') /\ AbortsOnSecond(e, dns')
  <2>1. CASE reply.error
    <3>1. H(again) = ResolveNextAttempt(e, again) /\ H(None) = ResolveNextAttempt(e, None)
      BY <2>1
    <3> HIDE DEF H
    <3> QED
      BY <1>1, <1>10, <3>1, ResolveNextAttemptStep
  <2>2. CASE ~reply.error
    <3>1. H(again) = TryFindAnswer(e, reply, again) /\ H(None) = TryFindAnswer(e, reply, None)
      BY <2>2
    <3> HIDE DEF H
    <3> QED
      BY <1>1, <1>5, <1>10, <3>1, TryFindAnswerStep
  <2> QED
    BY <2>1, <2>2
<1> QED
  BY <1>1, <1>3, <1>8, <1>11 DEF DnsKept, DnsInv, AbortsOnSecond


(***************************************************************************)
(* The resolver as it is constructed.                                      *)
(***************************************************************************)
LEMMA DnsBegins ==
    ASSUME Init
    PROVE  DnsInv /\ dns.fault = "none"
<1>1. dns \in DnsRecord
  <2>1. /\ 0 \in 0 .. maxAttempts /\ 0 \in 0 .. maxRecursions /\ 1 \in 1 .. maxAttempts
        /\ << >> \in ServerLists
    BY AttemptsAssumption DEF ServerLists
  <2>2. 1 \in 1 .. Len(DnsServers)
    BY ServersAssumption
  <2>3. NoExchange \in Exchange(Servers)
    BY DEF NoExchange, Exchange
  <2>4. [r \in Results |-> None] \in [Results -> Names \cup {None, Failed}]
    OBVIOUS
  <2>5. << >> \in Seq(Results)
    OBVIOUS
  <2> QED
    BY <2>1, <2>2, <2>3, <2>4, <2>5 DEF Init, DnsRecord
<1>2. /\ dns.waiting = << >> /\ dns.resolving = None /\ dns.recursiveDnsServers = << >>
      /\ dns.exchange = NoExchange /\ dns.sent = {} /\ dns.timeoutTimer = FALSE
      /\ dns.pending = {} /\ dns.fault = "none" /\ dns.queries = 0
  BY DEF Init
<1>3. Unique(dns.waiting) /\ \A r : ~Occurs(dns.waiting, r)
  BY <1>2 DEF Unique, Occurs
<1>4. ListsOk(dns)
  <2>1. 0 <= Cost(maxAttempts)
    BY Costs
  <2> QED
    BY <1>1, <1>2, <1>3, <2>1 DEF ListsOk
<1>5. Between(dns)
  BY <1>2, <1>3, <1>4 DEF Between
<1>6. poolFree \in BOOLEAN /\ requests \in 0 .. MaxRequests
  BY MaxRequestsAssumption DEF Init
<1> QED
  BY <1>2, <1>5, <1>6 DEF DnsInv, DnsOk

(***************************************************************************)
(* Every step keeps the invariant, and aborts only because the exchange is *)
(* asked for a second stream.                                              *)
(***************************************************************************)
LEMMA EveryDnsStep ==
    ASSUME DnsInv, Next \/ UNCHANGED vars
    PROVE  DnsKept
<1>1. CASE \E r \in Results : ClientLooksUp(r) \/ CancelLookup(r)
  BY <1>1, ClientSteps
<1>2. CASE \E q \in dns.sent, again \in Results \cup {None} :
              \E reply \in Replies(q) : DataReceived(reply, again)
  BY <1>2, DataReceivedKeeps
<1>3. CASE SendStream
  BY <1>3, SendStreamKeeps
<1>4. CASE \E again \in Results \cup {None} : Timeout(again)
  BY <1>4, TimeoutKeeps
<1>5. CASE AllocateTimer \/ PoolChanges \/ UNCHANGED vars
  BY <1>5, AllocationKeeps
<1> QED
  BY <1>1, <1>2, <1>3, <1>4, <1>5 DEF Next

(***************************************************************************)
(* So no step aborts where a stream is given before anything else happens. *)
(***************************************************************************)
LEMMA PromptStep ==
    ASSUME DnsInv, PromptNext
    PROVE  DnsKept /\ (dns'.fault = "aborted" => dns.fault = "aborted")
<1>1. DnsKept
  BY EveryDnsStep DEF PromptNext, Promptly, Next
<1>2. CASE Promptly(Next)
  BY <1>1, <1>2 DEF Promptly, DnsKept, AbortsOnSecond
<1>3. CASE SendStream \/ AllocateTimer
  <2>1. dns.exchange.state /= "none"
    BY <1>3 DEF SendStream, AllocateTimer
  <2>2. dns \in DnsRecord
    BY <2>1, BusyResolver DEF DnsInv
  <2>3. DOMAIN dns = FieldNames
    BY <2>2 DEF DnsRecord, FieldNames
  <2>4. dns'.fault = dns.fault
    BY <1>3, <2>3 DEF SendStream, AllocateTimer, FieldNames
  <2> QED
    BY <1>1, <2>4
<1>4. CASE PoolChanges
  BY <1>1, <1>4 DEF PoolChanges
<1> QED
  BY <1>2, <1>3, <1>4 DEF PromptNext

(***************************************************************************)
(* What the invariant says of the resolver.                                *)
(***************************************************************************)
LEMMA DnsInvSuffices ==
    ASSUME DnsInv
    PROVE  TypeOK /\ NothingForgotten /\ QueriesBounded
<1>1. dns \in DnsRecord /\ ListsOk(dns)
  BY DEF DnsInv, DnsOk, Between, Asks, Asking, Attempting, Working, ListsOk
<1>2. TypeOK
  <2>1. /\ dns.accepted \in [reply : HostNames \cup {None}, asked : HostNames \cup {None}]
        /\ HostNames \cup {None} = Names \cup {Partial, None}
    BY <1>1 DEF DnsRecord, HostNames
  <2>2. /\ dns.recursiveDnsServers \in Seq(Servers) /\ Len(dns.recursiveDnsServers) <= maxAttempts
    BY <1>1, DnsFields DEF ServerLists
  <2> QED
    BY <1>1, <2>1, <2>2, DnsFields DEF TypeOK, DnsInv
<1>3. QueriesBounded
  BY <1>1 DEF ListsOk, QueriesBounded, Cost
<1>4. NothingForgotten
  <2>1. CASE Between(dns) /\ dns.waiting = << >>
    <3>1. \A r : ~Occurs(dns.waiting, r)
      BY <2>1 DEF Occurs
    <3>2. dns.pending \in SUBSET Results
      BY <1>1, DnsFields
    <3>3. dns.pending = {}
      BY <2>1, <3>1, <3>2 DEF Between
    <3> QED
      BY <2>1, <3>3 DEF Between, NothingForgotten, NoExchange
  <2>2. CASE Asks(dns) /\ Listed(dns)
    <3>1. dns.resolving \in Results /\ dns.resolving /= None
      BY <2>2, ResultsAssumption DEF Asks, Asking, Attempting, Working
    <3>2. dns.pending \in SUBSET Results /\ dns.waiting \in Seq(Results)
      BY <1>1, DnsFields
    <3>3. \A r : r \in ToSet(dns.waiting) <=> Occurs(dns.waiting, r)
      BY DEF Occurs, ToSet
    <3>4. \A r : Occurs(dns.waiting, r) => r \in Results
      BY <3>2 DEF Occurs
    <3>5. dns.pending = {dns.resolving} \cup ToSet(dns.waiting)
      BY <2>2, <3>1, <3>2, <3>3, <3>4 DEF Listed
    <3> QED
      BY <2>2, <3>1, <3>5 DEF NothingForgotten, Asks, Alive
  <2> QED
    BY <2>1, <2>2 DEF DnsInv, DnsOk
<1> QED
  BY <1>2, <1>3, <1>4

(***************************************************************************)
(* DnsResolver, whatever is looked up, cancelled, answered, lost and       *)
(* referred to: an idle resolver has forgotten nobody, a busy one will be  *)
(* woken up, a lookup costs at most maxAttempts * maxRecursions queries,   *)
(* and an exchange that gives its stream promptly is never asked for a     *)
(* second one.                                                             *)
(***************************************************************************)
THEOREM DnsIsSafe == NamesSpec => []DnsSafe
<1> DEFINE Inv == DnsInv /\ (subject = "prompt" => dns.fault /= "aborted")
           all == <<subject, vars, threadVars, factoryVars>>
<1>1. NamesInit => Inv
  BY DnsBegins DEF NamesInit
<1>2. Inv /\ [NamesNext]_all => Inv'
  <2> SUFFICES ASSUME Inv, [NamesNext]_all
               PROVE  Inv'
    OBVIOUS
  <2>1. CASE UNCHANGED <<subject, vars>>
    <3>1. DnsInv'
      BY <2>1, EveryDnsStep DEF DnsKept
    <3> QED
      BY <2>1, <3>1 DEF vars
  <2>2. CASE subject = "dns" /\ Next /\ UNCHANGED subject
    BY <2>2, EveryDnsStep DEF DnsKept
  <2>3. CASE subject = "prompt" /\ PromptNext /\ UNCHANGED subject
    BY <2>3, PromptStep DEF DnsKept
  <2>4. \/ UNCHANGED <<subject, vars>>
        \/ subject = "dns" /\ Next /\ UNCHANGED subject
        \/ subject = "prompt" /\ PromptNext /\ UNCHANGED subject
    BY DEF NamesNext
  <2> QED
    BY <2>1, <2>2, <2>3, <2>4
<1>3. Inv => DnsSafe
  BY DnsInvSuffices DEF DnsSafe, NeverAborts
<1> QED
  BY <1>1, <1>2, <1>3, PTL DEF NamesSpec
=============================================================================
