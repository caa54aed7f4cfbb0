---------------------------- MODULE DnsResolver ----------------------------
(***************************************************************************)
(* services/network/DnsResolver on top of DatagramExchangeLwIP.  Lookups   *)
(* wait in a list; one is resolved at a time, in at most maxAttempts       *)
(* attempts, each of which may be referred to aliases and to other name    *)
(* servers.  Queries and replies are UDP datagrams: a reply to any query   *)
(* of the exchange may come at any time, more than once, or never.         *)
(*                                                                         *)
(* The whole state of the resolver is one record, which the operators      *)
(* below carry along the calls of a handler.  A name is a sequence of      *)
(* labels, a label a sequence of characters.  The network is truthful: a   *)
(* reply holds the records of the zone, possibly cut short.                *)
(***************************************************************************)
EXTENDS Naturals, Sequences, SequencesExt, FiniteSets, DatagramExchangeLwIP

CONSTANTS
    Results,        \* the NameResolverResult objects
    Hostname,       \* the name that each of them asks for
    Names,          \* the names of the zone
    AliasOf,        \* CNAME records: a function on some of the names
    Partial,        \* a name read from a record that was cut short
    DnsServers,     \* the configured servers, in order
    Referrals,      \* the additional records that a reply may have
    maxAttempts,
    maxRecursions,
    None,
    Failed,
    MaxRequests     \* bound on the calls of Lookup

ASSUME ResultsAssumption == None \notin Results
ASSUME HostnameAssumption == Hostname \in [Results -> Names]
ASSUME AttemptsAssumption == maxAttempts \in Nat \ {0} /\ maxRecursions \in Nat \ {0}
ASSUME AliasAssumption ==
    DOMAIN AliasOf \subseteq Names /\ \A n \in DOMAIN AliasOf : AliasOf[n] \in Names
ASSUME ServersAssumption == DnsServers \in Seq(ToSet(DnsServers)) /\ DnsServers /= << >>
ASSUME ReferralsAssumption == \A list \in Referrals : list \in Seq(ToSet(list))
ASSUME MaxRequestsAssumption == MaxRequests \in Nat

VARIABLES
    dns,            \* the resolver
    poolFree,       \* whether lwIP has a buffer to give
    requests        \* calls of Lookup so far

vars == <<dns, poolFree, requests>>

Servers ==
    ToSet(DnsServers) \cup UNION {{record.address : record \in ToSet(list)} : list \in Referrals}

Queries == [to : Servers, name : Names \cup {Partial}]

(***************************************************************************)
(* The type of every variable.  fault tells that the program has called    *)
(* std::abort or has used a control block that was removed; accepted is    *)
(* the host name in the last reply that was not ignored, with the host     *)
(* name asked for then, and queries counts the queries of a lookup.        *)
(***************************************************************************)
TypeOK ==
    /\ dns.waiting \in Seq(Results)
    /\ dns.resolving \in Results \cup {None}
    /\ dns.resolveAttempts \in 0 .. maxAttempts
    /\ dns.recursions \in 0 .. maxRecursions
    /\ dns.hostname \in Names \cup {Partial, None}
    /\ dns.currentDnsServer \in 1 .. Len(DnsServers)
    /\ dns.recursiveDnsServers \in Seq(Servers)
    /\ Len(dns.recursiveDnsServers) <= maxAttempts
    /\ dns.currentRecursiveDnsServer \in 1 .. maxAttempts
    /\ dns.timeoutTimer \in BOOLEAN
    /\ dns.exchange \in Exchange(Servers)
    /\ dns.sent \subseteq Queries
    /\ dns.pending \subseteq Results
    /\ dns.answers \in [Results -> Names \cup {None, Failed}]
    /\ dns.fault \in {"none", "aborted", "removed"}
    /\ dns.accepted \in [reply : Names \cup {Partial, None}, asked : Names \cup {Partial, None}]
    /\ dns.queries \in Nat
    /\ poolFree \in BOOLEAN
    /\ requests \in 0 .. MaxRequests

Init ==
    /\ dns = [waiting |-> << >>, resolving |-> None, resolveAttempts |-> 0,
              recursions |-> 0, hostname |-> None, currentDnsServer |-> 1,
              recursiveDnsServers |-> << >>, currentRecursiveDnsServer |-> 1,
              timeoutTimer |-> FALSE, exchange |-> NoExchange, sent |-> {},
              pending |-> {}, answers |-> [r \in Results |-> None],
              fault |-> "none", accepted |-> [reply |-> None, asked |-> None],
              queries |-> 0]
    /\ poolFree = TRUE
    /\ requests = 0

-----------------------------------------------------------------------------
(* The parts of the handlers *)

DnsUdpSocket(d) ==
    IF d.recursiveDnsServers /= << >>
    THEN d.recursiveDnsServers[d.currentRecursiveDnsServer]
    ELSE DnsServers[d.currentDnsServer]

ResolveAttempt(d) ==
    IF RequestAborts(d.exchange)
    THEN [d EXCEPT !.fault = "aborted"]
    ELSE [d EXCEPT !.exchange = RequestSendStream(@, DnsUdpSocket(d), poolFree)]

\* The element after the i-th of n, from the last one to the first
Cyclic(i, n) == IF i + 1 > n THEN 1 ELSE i + 1

SelectNextDnsServer(d) ==
    IF d.recursiveDnsServers /= << >>
    THEN [d EXCEPT !.currentRecursiveDnsServer = Cyclic(@, Len(d.recursiveDnsServers))]
    ELSE [d EXCEPT !.currentDnsServer = Cyclic(@, Len(DnsServers))]

\* Mutant: the host name is only read when there is none.
NextAttemptKeepsName(d) ==
    ResolveAttempt([SelectNextDnsServer(d) EXCEPT
        !.resolveAttempts = @ + 1, !.recursions = 0,
        !.hostname = IF @ = None THEN Hostname[d.resolving] ELSE @])

\* ResolveNextAttempt when there are attempts left
NextAttempt(d) ==
    ResolveAttempt([SelectNextDnsServer(d) EXCEPT
        !.resolveAttempts = @ + 1, !.recursions = 0,
        !.hostname = Hostname[d.resolving]])

\* Called with a lookup in the list.
Resolve(d) ==
    NextAttempt([d EXCEPT !.exchange = Listen, !.sent = {}, !.queries = 0,
                          !.resolving = Head(d.waiting),
                          !.resolveAttempts = 0, !.recursions = 0])

TryResolveNext(d) ==
    IF d.resolving = None /\ d.waiting /= << >>
    THEN [Resolve(d) EXCEPT !.waiting = Tail(@)]
    ELSE d

Lookup(d, r) ==
    TryResolveNext([d EXCEPT !.waiting = Append(@, r), !.pending = @ \cup {r}])

\* A result looked up from a callback, if any
LookupAgain(d, again) ==
    IF again = None THEN d ELSE Lookup(d, again)

\* The exchange is released.
Released(d) ==
    [d EXCEPT !.exchange = NoExchange, !.sent = {},
              !.fault = IF SendsOnRemovedControl(d.exchange) THEN "removed" ELSE @]

\* Mutant: the next lookup is left for the next call of Lookup.
NameLookupDoneStops(d, answer, again) ==
    LET ended == [Released(d) EXCEPT !.resolving = None, !.timeoutTimer = FALSE,
                                     !.recursiveDnsServers = << >>,
                                     !.pending = @ \ {d.resolving},
                                     !.answers[d.resolving] = answer]
    IN LookupAgain(ended, again)

\* The callback is called with the resolver idle, and may call Lookup.
NameLookupDone(d, answer, again) ==
    LET ended == [Released(d) EXCEPT !.resolving = None, !.timeoutTimer = FALSE,
                                     !.recursiveDnsServers = << >>,
                                     !.pending = @ \ {d.resolving},
                                     !.answers[d.resolving] = answer]
    IN TryResolveNext(LookupAgain(ended, again))

NameLookupSuccess(d, address, again) == NameLookupDone(d, address, again)

NameLookupFailed(d, again) == NameLookupDone(d, Failed, again)

\* The result hears nothing: what it was told last is what it was told before.
NameLookupCancelled(d) == NameLookupDone(d, d.answers[d.resolving], None)

ResolveNextAttempt(d, again) ==
    IF d.resolveAttempts = maxAttempts
    THEN NameLookupFailed(d, again)
    ELSE NextAttempt(d)

ResolveRecursion(d, again) ==
    IF d.recursions + 1 = maxRecursions
    THEN NameLookupFailed([d EXCEPT !.recursions = @ + 1], again)
    ELSE ResolveAttempt([d EXCEPT !.recursions = @ + 1])

-----------------------------------------------------------------------------
(* Replies *)

Address(n) == [name |-> n, cname |-> FALSE, data |-> n, cut |-> FALSE]

Alias(n) == [name |-> n, cname |-> TRUE, data |-> AliasOf[n], cut |-> FALSE]

Record(n) == IF n \in DOMAIN AliasOf THEN Alias(n) ELSE Address(n)

\* The answer sections that a truthful server gives for a name
Answers(n) ==
    {<< >>, <<Record(n)>>, <<[Record(n) EXCEPT !.cut = TRUE]>>}
    \cup (IF n \in DOMAIN AliasOf
          THEN LET next == Record(AliasOf[n]) IN
               {<<Record(n), next>>, <<Record(n), [next EXCEPT !.cut = TRUE]>>}
          ELSE {})

\* A server that does not hold a name answers with an error.
Replies(q) ==
    [from : {q.to}, name : {q.name}, error : {TRUE}, answers : {<< >>}, additional : {<< >>}]
    \cup (IF q.name = Partial THEN {}
          ELSE {reply \in [from : {q.to}, name : {q.name}, error : {FALSE},
                           answers : Answers(q.name), additional : Referrals \cup {<< >>}] :
                    (\E i \in DOMAIN reply.answers : reply.answers[i].cut)
                        => reply.additional = << >>})

\* A label that is read is compared with as many characters of the hostname's.
ReadAndMatchHostname(hostname, read) ==
    /\ Len(read) = Len(hostname)
    /\ \A i \in DOMAIN read : IsPrefix(read[i], hostname[i])

\* The identification, the flags and the question of a reply are those of
\* the query it answers, and all queries of an exchange have the same.
AnswerIsForCurrentQuery(d, reply) ==
    /\ reply.from = DnsUdpSocket(d)
    /\ ReadAndMatchHostname(d.hostname, reply.name)

ReadCName(record) == IF record.cut THEN Partial ELSE record.data

\* One record of the answer section; an alias replaces the hostname, also
\* when it is cut short.
ReadAnswer(read, record) ==
    LET matches == read.address = None /\ ReadAndMatchHostname(read.hostname, record.name)
    IN CASE ~matches -> read
         [] matches /\ record.cname ->
                [read EXCEPT !.hostname = ReadCName(record), !.recurse = @ \/ ~record.cut]
         [] matches /\ ~record.cname ->
                [read EXCEPT !.address = IF record.cut THEN None ELSE record.data]

ReadAnswerRecords(d, reply) ==
    LET read[i \in 0 .. Len(reply.answers)] ==
            IF i = 0 THEN [hostname |-> d.hostname, recurse |-> FALSE, address |-> None]
                     ELSE ReadAnswer(read[i - 1], reply.answers[i])
    IN read[Len(reply.answers)]

\* One additional record: the address of a name server of the reply, or not
ReadNameServer(servers, record) ==
    IF record.isNameServer /\ Len(servers) < maxAttempts
    THEN Append(servers, record.address)
    ELSE servers

ReadNameServers(reply) ==
    LET read[i \in 0 .. Len(reply.additional)] ==
            IF i = 0 THEN << >> ELSE ReadNameServer(read[i - 1], reply.additional[i])
    IN read[Len(reply.additional)]

TryFindRecursiveNameServer(d, read, reply, again) ==
    LET servers == ReadNameServers(reply) IN
    IF read.recurse \/ servers /= << >>
    THEN ResolveRecursion([d EXCEPT !.recursiveDnsServers = servers,
                                    !.currentRecursiveDnsServer = 1], again)
    ELSE ResolveNextAttempt(d, again)

TryFindAnswer(d, reply, again) ==
    LET read == ReadAnswerRecords(d, reply)
        parsed == [d EXCEPT !.hostname = read.hostname]
    IN IF read.address /= None
       THEN NameLookupSuccess(parsed, read.address, again)
       ELSE TryFindRecursiveNameServer(parsed, read, reply, again)

-----------------------------------------------------------------------------
(* The handlers *)

\* Nothing happens after std::abort or the use of a removed control block.
Alive == dns.fault = "none"

\* A handler that may end the lookup, Handled(again) being the resolver after
\* it: only then is there a callback, which may ask for the lookup again.
CallsBack(Handled(_), again) ==
    /\ again /= None => /\ dns.resolving \notin Handled(None).pending
                        /\ again \notin Handled(None).pending
                        /\ requests < MaxRequests
    /\ requests' = requests + IF again = None THEN 0 ELSE 1
    /\ dns' = Handled(again)

ClientLooksUp(r) ==
    /\ Alive
    /\ r \notin dns.pending
    /\ requests < MaxRequests
    /\ requests' = requests + 1
    /\ dns' = Lookup(dns, r)
    /\ UNCHANGED poolFree

\* erase
Without(list, r) == RemoveAt(list, CHOOSE i \in DOMAIN list : list[i] = r)

CancelLookup(r) ==
    /\ Alive
    /\ r \in dns.pending
    /\ dns' = IF dns.resolving = r
              THEN NameLookupCancelled(dns)
              ELSE [dns EXCEPT !.waiting = Without(@, r), !.pending = @ \ {r}]
    /\ UNCHANGED <<poolFree, requests>>

DataReceived(reply, again) ==
    /\ Alive
    /\ AnswerIsForCurrentQuery(dns, reply)
    /\ LET heard == [dns EXCEPT !.accepted = [reply |-> reply.name, asked |-> dns.hostname]]
           Handled(called) == IF reply.error THEN ResolveNextAttempt(heard, called)
                                             ELSE TryFindAnswer(heard, reply, called)
       IN CallsBack(Handled, again)
    /\ UNCHANGED poolFree

\* Mutant: the timer is not started.
SendStreamWithoutTimer ==
    /\ Alive
    /\ dns.exchange.state = "bufferAllocated"
    /\ dns' = [dns EXCEPT !.exchange = SendStreamAvailable(@),
                          !.sent = @ \cup {[to |-> dns.exchange.remote, name |-> dns.hostname]},
                          !.queries = @ + 1]
    /\ UNCHANGED <<poolFree, requests>>

SendStream ==
    /\ Alive
    /\ dns.exchange.state = "bufferAllocated"
    /\ dns' = [dns EXCEPT !.exchange = SendStreamAvailable(@), !.timeoutTimer = TRUE,
                          !.sent = @ \cup {[to |-> dns.exchange.remote, name |-> dns.hostname]},
                          !.queries = @ + 1]
    /\ UNCHANGED <<poolFree, requests>>

Timeout(again) ==
    /\ Alive
    /\ dns.timeoutTimer
    /\ LET Handled(called) == ResolveNextAttempt([dns EXCEPT !.timeoutTimer = FALSE], called)
       IN CallsBack(Handled, again)
    /\ UNCHANGED poolFree

\* allocateTimer
AllocateTimer ==
    /\ Alive
    /\ dns.exchange.state = "waitingForBuffer"
    /\ poolFree
    /\ dns' = [dns EXCEPT !.exchange = TryAllocateBuffer(@, poolFree)]
    /\ UNCHANGED <<poolFree, requests>>

\* lwIP gives its buffers to others and gets them back.
PoolChanges ==
    /\ poolFree' = ~poolFree
    /\ UNCHANGED <<dns, requests>>

Next ==
    \/ \E r \in Results : ClientLooksUp(r) \/ CancelLookup(r)
    \/ \E q \in dns.sent, again \in Results \cup {None} :
           \E reply \in Replies(q) : DataReceived(reply, again)
    \/ SendStream
    \/ \E again \in Results \cup {None} : Timeout(again)
    \/ AllocateTimer
    \/ PoolChanges

Spec == Init /\ [][Next]_vars

\* The exchange gives the send stream before anything else happens.
Promptly(A) == dns.exchange.state \in {"none", "idle"} /\ A

PromptNext == Promptly(Next) \/ SendStream \/ AllocateTimer \/ PoolChanges

\* Events are executed, timers expire, and a buffer that is free whenever
\* allocateTimer expires is not missed for ever.
PromptFairness ==
    /\ WF_vars(SendStream)
    /\ WF_vars(Promptly(\E again \in Results \cup {None} : Timeout(again)))
    /\ SF_vars(AllocateTimer)
    /\ WF_vars(PoolChanges)

PromptSpec == Init /\ [][PromptNext]_vars /\ PromptFairness

-----------------------------------------------------------------------------
(* Properties *)

\* The address of a name, at the end of its aliases
Follow[k \in Nat, n \in Names] ==
    IF k = 0 \/ n \notin DOMAIN AliasOf THEN n ELSE Follow[k - 1, AliasOf[n]]

AddressOf == [r \in Results |-> Follow[Cardinality(Names), Hostname[r]]]

Resolver == INSTANCE NameResolver WITH pending <- dns.pending, answers <- dns.answers

(***************************************************************************)
(* Whatever is lost, delayed, repeated or cut short, DnsResolver is a      *)
(* NameResolver: no lookup is answered twice, after its cancellation or    *)
(* with the address of another name.                                       *)
(***************************************************************************)
IsNameResolver == Resolver!Spec

(***************************************************************************)
(* While the resolver is idle nothing waits, no endpoint is open and no    *)
(* timer runs; while it is busy something will wake it up.                 *)
(***************************************************************************)
NothingForgotten ==
    IF dns.resolving = None
    THEN dns.pending = {} /\ dns.exchange.state = "none" /\ ~dns.timeoutTimer
    ELSE /\ dns.pending = {dns.resolving} \cup ToSet(dns.waiting)
         /\ Alive => dns.timeoutTimer \/ dns.exchange.state /= "idle"

(***************************************************************************)
(* A lookup costs at most maxAttempts times maxRecursions queries, however *)
(* the servers refer to each other and however often a reply comes.        *)
(***************************************************************************)
QueriesBounded == dns.queries <= maxAttempts * maxRecursions

(***************************************************************************)
(* The resolver asks for a send stream only when the previous one is       *)
(* used up: DatagramExchangeLwIP aborts the program otherwise.             *)
(***************************************************************************)
NeverAborts == dns.fault /= "aborted"

(***************************************************************************)
(* No datagram is sent with a control block that udp_remove has freed.     *)
(***************************************************************************)
ControlOutlivesWriter == dns.fault /= "removed"

(***************************************************************************)
(* A reply about another host than the one that is asked for is ignored.   *)
(***************************************************************************)
OtherHostIgnored == dns.accepted.reply = dns.accepted.asked
=============================================================================
