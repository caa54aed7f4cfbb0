------------------------------ MODULE MCNames ------------------------------
(***************************************************************************)
(* Everything that turns the name of a host into an address or into a      *)
(* connection, side by side for TLC.  A behaviour is about one subject,    *)
(* and the others stay where they begin:                                   *)
(*   "thread"   NameLookup, which resolves names on a thread of its own;   *)
(*   "dns"      DnsResolver, with lookups, cancellations and replies while *)
(*              it waits for a send stream;                                *)
(*   "prompt"   DnsResolver, when a send stream is given first;            *)
(*   "factory"  the connection factories, with clients that cancel         *)
(*              whenever they like and too few connections;                *)
(*   "patient"  the connection factories, with clients that only cancel    *)
(*              while they wait for an Action and enough connections.      *)
(*                                                                         *)
(* Two results ask for names: one for an alias, the other for a name whose *)
(* alias is the name itself.  Replies may refer to a name server.          *)
(***************************************************************************)
EXTENDS DnsResolver

CONSTANTS
    Device, Update,                     \* results
    Server1, Server2, NameServer,
    MaxPromptRequests,                  \* of Lookup, where the exchange is prompt
    MaxLookups, MaxAhead,               \* of NameLookup
    Clients, NumParallelActions, NumConnectors, MaxConnects

VARIABLES
    subject,
    nameLookup, currentLookup, run, thread, resolved, events, calling, mutexHeld,
    lookups, request, cancelled, reports,
    factory, connects

TwoResults == {Device, Update}
www == <<<<"w">>, <<"c">>>>
host == <<<<"h">>, <<"c">>>>
loop == <<<<"l">>, <<"c">>>>
cut == <<<<"x">>>>

\* www is an alias of host, loop of itself.
ThreeNames == {www, host, loop}
AskForAliases == Device :> www @@ Update :> loop
Aliases == www :> host @@ loop :> loop

TwoServers == <<Server1, Server2>>
Glue(server) == [address |-> server, isNameServer |-> TRUE]
Other(server) == [address |-> server, isNameServer |-> FALSE]
Additional == {<<Other(Server1), Glue(NameServer)>>,
               <<Glue(NameServer), Glue(Server2), Glue(Server1)>>}

Thread == INSTANCE NameLookup WITH requests <- lookups, MaxRequests <- MaxLookups
Factory == INSTANCE ConnectionFactoryWithNameResolver
    WITH CancelsActions <- TRUE, AllocationFails <- TRUE
Patient == INSTANCE ConnectionFactoryWithNameResolver
    WITH CancelsActions <- FALSE, AllocationFails <- FALSE

ASSUME ThreadAssumption ==
    Thread!ResultsAssumption /\ Thread!MaxRequestsAssumption /\ Thread!MaxAheadAssumption
ASSUME FactoryAssumption ==
    Factory!ClientsAssumption /\ Factory!RoomAssumption /\ Factory!MaxConnectsAssumption

threadVars == <<nameLookup, currentLookup, run, thread, resolved, events, calling,
                mutexHeld, lookups, request, cancelled, reports>>
factoryVars == <<factory, connects>>

NamesInit ==
    /\ subject \in {"thread", "dns", "prompt", "factory", "patient"}
    /\ Init
    /\ Thread!Init
    /\ Factory!Init

NamesNext ==
    \/ subject = "thread" /\ Thread!Next /\ UNCHANGED <<subject, vars, factoryVars>>
    \/ subject = "dns" /\ Next /\ UNCHANGED <<subject, threadVars, factoryVars>>
    \/ /\ subject = "prompt" /\ PromptNext /\ requests' <= MaxPromptRequests
       /\ UNCHANGED <<subject, threadVars, factoryVars>>
    \/ subject = "factory" /\ Factory!Next /\ UNCHANGED <<subject, threadVars, vars>>
    \/ subject = "patient" /\ Patient!Next /\ UNCHANGED <<subject, threadVars, vars>>

\* The fairness that each component states, where it is the subject
NamesSpec ==
    /\ NamesInit /\ [][NamesNext]_<<subject, vars, threadVars, factoryVars>>
    /\ WF_threadVars(subject = "thread" /\ Thread!LookupThread)
    /\ WF_threadVars(subject = "thread" /\ Thread!Completions)
    /\ WF_vars(subject = "prompt" /\ SendStream)
    /\ WF_vars(subject = "prompt" /\ Promptly(\E again \in Results \cup {None} : Timeout(again)))
    /\ SF_vars(subject = "prompt" /\ AllocateTimer)
    /\ WF_vars(subject = "prompt" /\ PoolChanges)
    /\ \A place \in Patient!Places :
          /\ WF_factoryVars(/\ subject = "patient"
                            /\ \/ Patient!NameLookupDone(place)
                               \/ \E again \in Clients \cup {None} :
                                      Patient!NameLookupFailed(place, again))
          /\ WF_factoryVars(/\ subject = "patient"
                            /\ \E again \in Clients \cup {None} : Patient!AttemptEnds(place, again))

-----------------------------------------------------------------------------
\* NameLookup: a lookup is answered at most once and not after its
\* cancellation, although its completion stays scheduled and the thread may
\* resolve the same name twice.
LookupSafe == Thread!LookupSafe

\* DnsResolver: an idle resolver has forgotten nobody and a busy one will be
\* woken up; a lookup costs a bounded number of queries, however servers
\* refer to each other and however often a reply comes; and the exchange is
\* never asked for a second stream, if it gives the first one promptly.
DnsSafe ==
    /\ TypeOK
    /\ NothingForgotten
    /\ QueriesBounded
    /\ subject = "prompt" => NeverAborts

\* The connection factories: nobody waits while there is room and, as long as
\* there was room for every connection, no reference to an Action outlives it
\* and clients are told the outcome once and not after they have cancelled.
FactorySafe ==
    /\ Factory!TypeOK
    /\ Factory!WaitsForRoom
    /\ Factory!RoomForConnections => Factory!NoDanglingAction /\ Factory!ToldOnce

\* Every lookup of DnsResolver that is not cancelled ends; the lookup that
\* the thread of NameLookup looks at does; the destructor of NameLookup
\* returns; and every client that connects is told the outcome.
EveryLookupEnds ==
    /\ subject = "prompt" => Resolver!Fairness
    /\ Thread!TakenLookupEnds
    /\ Thread!DestructorReturns
    /\ subject = "patient" => Patient!EveryConnectEnds
=============================================================================
