----------------------------- MODULE NameLookup -----------------------------
(***************************************************************************)
(* services/network_bsd/NameLookupBsd, and NameLookupWin, which has the    *)
(* same code: host names are resolved by a thread of their own, one at a   *)
(* time, and the answers are given on the dispatcher's thread.  A mutex    *)
(* guards the list of lookups; the thread waits on a condition variable.   *)
(*                                                                         *)
(* Clients run on the dispatcher's thread.  A client may look up, cancel   *)
(* and look up again with the same NameResolverResult; the n-th call of    *)
(* Lookup is request n.                                                    *)
(***************************************************************************)
EXTENDS Naturals, Sequences, SequencesExt

CONSTANTS
    Results,        \* the NameResolverResult objects
    None,           \* nullptr
    MaxRequests,    \* bound on the calls of Lookup
    MaxAhead        \* bound on the completions scheduled at a time when the
                    \* thread wakes up for no reason

ResultsAssumption == None \notin Results
MaxRequestsAssumption == MaxRequests \in Nat
MaxAheadAssumption == MaxAhead \in Nat

VARIABLES
    nameLookup,     \* the list of NameResolverResults
    currentLookup,
    run,
    thread,         \* where lookupThread is
    resolved,       \* the request whose name the thread has read
    events,         \* completions in the event dispatcher
    calling,        \* the NameResolverResult whose callback is running
    mutexHeld,      \* whether that callback runs with the mutex held
    requests,       \* calls of Lookup so far
    request,        \* the request that a result was last used for, or 0
    cancelled,      \* history: the requests that were cancelled
    reports         \* history: <<request, request whose name was resolved>>

vars == <<nameLookup, currentLookup, run, thread, resolved, events, calling,
          mutexHeld, requests, request, cancelled, reports>>

Threads == {"loop", "resolve", "schedule", "relock", "wait", "ended"}

(***************************************************************************)
(* The type of every variable.                                             *)
(***************************************************************************)
TypeOK ==
    /\ nameLookup \in Seq(Results)
    /\ currentLookup \in Results \cup {None}
    /\ run \in BOOLEAN
    /\ thread \in Threads
    /\ resolved \in 0 .. MaxRequests
    /\ events \in Seq([done : BOOLEAN, of : 0 .. MaxRequests])
    /\ calling \in Results \cup {None}
    /\ mutexHeld \in BOOLEAN
    /\ requests \in 0 .. MaxRequests
    /\ request \in [Results -> 0 .. MaxRequests]
    /\ cancelled \subseteq 0 .. MaxRequests
    /\ reports \in Seq((0 .. MaxRequests) \X (0 .. MaxRequests))

InitialLookup == None

Init ==
    /\ nameLookup = << >>
    /\ currentLookup = InitialLookup
    /\ run = TRUE
    /\ thread = "loop"
    /\ resolved = 0
    /\ events = << >>
    /\ calling = None
    /\ mutexHeld = FALSE
    /\ requests = 0
    /\ request = [r \in Results |-> 0]
    /\ cancelled = {}
    /\ reports = << >>

\* condition.notify_one(): lost unless the thread is waiting
Notify == thread' = IF thread = "wait" THEN "loop" ELSE thread

Pending(r) == \E i \in DOMAIN nameLookup : nameLookup[i] = r

-----------------------------------------------------------------------------
(* The clients, on the dispatcher's thread *)

\* Calls of clients come from events of their own or from a callback that
\* runs without the mutex.
ClientRuns == run /\ ~mutexHeld

Lookup(r) ==
    /\ ClientRuns
    /\ requests < MaxRequests
    /\ ~Pending(r)
    /\ nameLookup' = Append(nameLookup, r)
    /\ requests' = requests + 1
    /\ request' = [request EXCEPT ![r] = requests + 1]
    /\ Notify
    /\ UNCHANGED <<currentLookup, run, resolved, events, calling, mutexHeld,
                   cancelled, reports>>

CancelLookup(r) ==
    /\ ClientRuns
    /\ Pending(r)
    /\ nameLookup' = RemoveAt(nameLookup, CHOOSE i \in DOMAIN nameLookup : nameLookup[i] = r)
    /\ cancelled' = cancelled \cup {request[r]}
    /\ UNCHANGED <<currentLookup, run, thread, resolved, events, calling,
                   mutexHeld, requests, request, reports>>

\* ~NameLookupBsd, up to the join, which waits for the end of the thread
Destruct ==
    /\ run
    /\ calling = None
    /\ run' = FALSE
    /\ Notify
    /\ UNCHANGED <<nameLookup, currentLookup, resolved, events, calling,
                   mutexHeld, requests, request, cancelled, reports>>

-----------------------------------------------------------------------------
(* lookupThread *)

\* With the mutex: the head of the loop, after the start and after a wait.
Loop ==
    /\ thread = "loop"
    /\ ~mutexHeld
    /\ \/ ~run /\ thread' = "ended" /\ UNCHANGED currentLookup
       \/ run /\ nameLookup = << >> /\ thread' = "wait" /\ UNCHANGED currentLookup
       \/ /\ run /\ nameLookup /= << >>
          /\ thread' = "resolve" /\ currentLookup' = Head(nameLookup)
    /\ UNCHANGED <<nameLookup, run, resolved, events, calling, mutexHeld,
                   requests, request, cancelled,
                   reports>>

\* Without the mutex: LookupIPv4 reads the host name.
ReadHostname ==
    /\ thread = "resolve"
    /\ resolved' = request[currentLookup]
    /\ thread' = "schedule"
    /\ UNCHANGED <<nameLookup, currentLookup, run, events, calling, mutexHeld,
                   requests, request, cancelled,
                   reports>>

\* getaddrinfo has returned, with an IPv4 address or without one.
ScheduleCompletion(done) ==
    /\ thread = "schedule"
    /\ events' = Append(events, [done |-> done, of |-> resolved])
    /\ thread' = "relock"
    /\ UNCHANGED <<nameLookup, currentLookup, run, resolved, calling, mutexHeld,
                   requests, request, cancelled,
                   reports>>

\* With the mutex again: waits, whatever the list holds by now.
Relock ==
    /\ thread = "relock"
    /\ ~mutexHeld
    /\ thread' = IF run THEN "wait" ELSE "loop"
    /\ UNCHANGED <<nameLookup, currentLookup, run, resolved, events, calling,
                   mutexHeld, requests, request, cancelled, reports>>

\* std::condition_variable may return from a wait without a notification.
SpuriousWakeUp ==
    /\ thread = "wait"
    /\ Len(events) <= MaxAhead
    /\ thread' = "loop"
    /\ UNCHANGED <<nameLookup, currentLookup, run, resolved, events, calling,
                   mutexHeld, requests, request, cancelled, reports>>

-----------------------------------------------------------------------------
(* The completions, on the dispatcher's thread *)

\* Mutant: whatever lookup is first gets the answer.
IsCurrentAny == nameLookup /= << >>

\* &nameLookup.front() == currentLookup, false for an empty list
IsCurrent == nameLookup /= << >> /\ Head(nameLookup) = currentLookup

\* A completion for a lookup that was cancelled only notifies.
CompleteCancelled ==
    /\ run /\ calling = None /\ events /= << >>
    /\ ~IsCurrent
    /\ events' = Tail(events)
    /\ Notify
    /\ UNCHANGED <<nameLookup, currentLookup, run, resolved, calling, mutexHeld,
                   requests, request, cancelled,
                   reports>>

\* NameLookupDone is called with the mutex held, NameLookupFailed without.
CompleteCurrent ==
    /\ run /\ calling = None /\ events /= << >>
    /\ IsCurrent
    /\ events' = Tail(events)
    /\ nameLookup' = Tail(nameLookup)
    /\ calling' = currentLookup
    /\ mutexHeld' = Head(events).done
    /\ reports' = Append(reports, <<request[currentLookup], Head(events).of>>)
    /\ UNCHANGED <<currentLookup, run, thread, resolved, requests, request,
                   cancelled>>

CallbackReturns ==
    /\ calling /= None
    /\ calling' = None
    /\ mutexHeld' = FALSE
    /\ Notify
    /\ UNCHANGED <<nameLookup, currentLookup, run, resolved, events, requests,
                   request, cancelled,
                   reports>>

-----------------------------------------------------------------------------

ClientCalls == Destruct \/ \E r \in Results : Lookup(r) \/ CancelLookup(r)

LookupThread ==
    \/ Loop \/ ReadHostname \/ Relock
    \/ \E done \in BOOLEAN : ScheduleCompletion(done)

Completions == CompleteCancelled \/ CompleteCurrent \/ CallbackReturns

Next == ClientCalls \/ LookupThread \/ SpuriousWakeUp \/ Completions

Spec == Init /\ [][Next]_vars

(***************************************************************************)
(* The thread runs, and the dispatcher executes its events.  Nothing is    *)
(* assumed of clients or of spurious wake-ups.                             *)
(***************************************************************************)
FairSpec == Spec /\ WF_vars(LookupThread) /\ WF_vars(Completions)

-----------------------------------------------------------------------------
(* Properties *)

(***************************************************************************)
(* A lookup is answered at most once, and not after it was cancelled,      *)
(* although the completion of a cancelled lookup stays scheduled and the   *)
(* thread may resolve a name twice.                                        *)
(***************************************************************************)
NotReportedAfterEnd ==
    /\ \A i, j \in DOMAIN reports : reports[i][1] = reports[j][1] => i = j
    /\ \A i \in DOMAIN reports : reports[i][1] \notin cancelled

LookupSafe == TypeOK /\ NotReportedAfterEnd

(***************************************************************************)
(* The answer that NameLookupDone or NameLookupFailed gives is the one     *)
(* for the name that the client asked for.                                 *)
(***************************************************************************)
AnswersItsRequest == \A i \in DOMAIN reports : reports[i][1] = reports[i][2]

(***************************************************************************)
(* The destructor returns: the thread ends, wherever it is when the        *)
(* destructor clears run.                                                  *)
(***************************************************************************)
DestructorReturns == (~run) ~> (thread = "ended")

Ended(n) == ~run \/ ~\E r \in Results : Pending(r) /\ request[r] = n

(***************************************************************************)
(* The lookup that is first in the list when the thread looks at it is     *)
(* answered or cancelled, unless everything is destructed.                 *)
(***************************************************************************)
TakenLookupEnds ==
    \A n \in 1 .. MaxRequests :
        (/\ thread = "loop" /\ nameLookup /= << >>
         /\ request[Head(nameLookup)] = n) ~> Ended(n)

(***************************************************************************)
(* Every lookup is answered or cancelled, unless everything is destructed. *)
(***************************************************************************)
EveryLookupEnds == \A n \in 1 .. MaxRequests : (requests = n) ~> Ended(n)
=============================================================================
