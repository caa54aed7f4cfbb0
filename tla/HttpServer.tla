----------------------------- MODULE HttpServer -----------------------------
(***************************************************************************)
(* SingleConnectionHttpServer and HttpServerConnectionObserver             *)
(* (services/network/HttpServer.cpp/.hpp): one connection is served at a   *)
(* time, from one buffer; a second connection that is accepted waits for   *)
(* the first to become idle, and a third takes the place of the second.    *)
(*                                                                         *)
(* A request is a sequence of fragments of the same size that TCP may      *)
(* deliver one by one or glued together.  The observer is a record `o':    *)
(* the operators below that take one and return one are the private        *)
(* methods of the class, and its field `closed' says that Close was        *)
(* called, which destroys the observer (Finish).  Its buffer is the one of *)
(* the server, and is left to the next observer as it is.                  *)
(***************************************************************************)
EXTENDS Integers, Sequences, FiniteSets

CONSTANTS
    Connections,    \* the connections clients open during a behaviour
    None,
    Requests,       \* the kinds of request clients send (see Fragments)
    BufferSize,     \* capacity of the buffer, in fragments
    MaxRequests,    \* bound on the requests sent over one connection
    Polite,         \* clients send a request when the previous one is answered
    Patient,        \* clients that sent Expect: 100-continue wait for it
    TakesOver,      \* pages may take over the connection
    LateAnswers,    \* pages may answer when their connection is gone
    Stops,          \* the server may be stopped
    Lingers         \* the server is not destroyed as soon as it has stopped

ASSUME HttpServerAssumption ==
    /\ None \notin Connections
    /\ Requests \subseteq {"get", "bad", "post", "expect", "long"}
    /\ BufferSize \in Nat \ {0}
    /\ MaxRequests \in Nat
    /\ {Polite, Patient, TakesOver, LateAnswers, Stops, Lingers} \subseteq BOOLEAN

VARIABLES
    current,    \* the connection whose observer is allocated, or None
    waiting,    \* the connection held by createdObserver, or None
    stop,       \* "no", or how Stop was called: "idle" or "serving"; "destroyed"
    taken,      \* the page has taken over the current connection
    observer,   \* the HttpServerConnectionObserver of the current connection
    page,       \* a page is working on a request of the current connection
    pages,      \* how many pages are working, also for connections that are gone
    announced,  \* a DataReceived event of the current connection is scheduled
    rest,       \* per connection, the fragments the client has yet to send
    unread,     \* per connection, the fragments that arrived and were not read
    asked,      \* per connection, the requests the client began to send
    answers,    \* per connection, the answers the server sent
    gone,       \* the connections that were closed or dropped
    spoilt      \* history: the connections that began with a buffer in use

server == <<current, waiting, stop, taken, observer, page, pages, announced>>
clients == <<rest, unread, asked>>
vars == <<server, clients, answers, gone, spoilt>>

-----------------------------------------------------------------------------
(* External: what a client sends for each kind of request.                 *)
Fragments(r) ==
    CASE r = "get"    -> <<"get">>
      [] r = "bad"    -> <<"bad">>
      [] r = "post"   -> <<"head", "body">>
      [] r = "expect" -> <<"head100", "body">>
      [] r = "long"   -> <<"headLong", "body", "body">>

HasHeaderEnd(f) == f # "body"

Declares(f) ==
    CASE f \in {"head", "head100"} -> 1 [] f = "headLong" -> 2 [] OTHER -> 0

(* CheckContentsLength looks for the first Content-Length of all the data. *)
ContentLength(data) ==
    LET declaring == {i \in DOMAIN data : Declares(data[i]) > 0}
    IN  IF declaring = {} THEN 0
        ELSE Declares(data[CHOOSE i \in declaring : \A j \in declaring : i <= j])

(* FindHeadersAndBody: everything after the first empty line is the body.  *)
Complete(data) ==
    \E i \in DOMAIN data :
        /\ HasHeaderEnd(data[i])
        /\ \A j \in 1..i - 1 : ~HasHeaderEnd(data[j])
        /\ Len(data) - i >= ContentLength(data)

Valid(data) == data[1] \notin {"bad", "body"}

(* request.Header looks in the headers of the first request only.          *)
Expect100(data) == data[1] = "head100"

-----------------------------------------------------------------------------
(* The observer.  Connected (constructor and Connected()): the initial     *)
(* idle timer runs and the send stream has been requested.  Nobody clears  *)
(* the buffer.                                                             *)
ConnectedObserver(buffer) ==
    [writer |-> "requested", buffer |-> buffer, idle |-> FALSE,
     closeWhenIdle |-> FALSE, requestInProgress |-> FALSE,
     send100 |-> FALSE, initialIdle |-> TRUE, closed |-> FALSE]

Close(o) == [o EXCEPT !.closed = TRUE]

RequestSendStream(o) == [o EXCEPT !.writer = "requested"]

(* Mutant: the request that was answered stays in the buffer.              *)
PrepareUncleared(o) ==
    [RequestSendStream(o) EXCEPT
        !.idle = TRUE, !.requestInProgress = FALSE, !.send100 = FALSE,
        !.closed = o.closeWhenIdle]

PrepareForNextRequest(o) ==
    [RequestSendStream(o) EXCEPT
        !.idle = TRUE, !.requestInProgress = FALSE, !.send100 = FALSE,
        !.buffer = <<>>, !.closed = o.closeWhenIdle]

(* Mutant: the initial idle timer keeps running.                           *)
RequestInProgressTimed(o) ==
    [o EXCEPT !.idle = FALSE, !.requestInProgress = TRUE]

RequestIsNowInProgress(o) ==
    [o EXCEPT !.idle = FALSE, !.initialIdle = FALSE,
              !.requestInProgress = TRUE]

HandleRequest(o) ==
    [RequestIsNowInProgress(o) EXCEPT
        !.send100 = o.send100 \/ Expect100(o.buffer)]

(* What is put on the wire: the answer, and when it is due an interim 100  *)
(* answer in front of it.                                                  *)
Response(o, kind) == [continue |-> o.send100, kind |-> kind]

-----------------------------------------------------------------------------
(* An observer is allocated for the connection that waits, if there is     *)
(* one.  Whether data that arrived earlier is announced to it depends on   *)
(* the connection: ConnectionLwIp does not, ConnectionBsd does.            *)
ObserverAllocatable(next, buffer) ==
    /\ current' = next /\ waiting' = None
    /\ page' = FALSE /\ taken' = FALSE
    /\ announced' \in {FALSE, next # None}
    /\ observer' = ConnectedObserver(buffer)
    /\ spoilt' = spoilt \cup {c \in {next} \ {None} : buffer # <<>>}

(* The observer is destroyed: the factory calls ObserverAllocatable, or    *)
(* onStopped when Stop has put that in its place.  A page that works on a  *)
(* request is told nothing of it.                                          *)
OnAllocatable(next, buffer) ==
    IF stop # "serving" THEN ObserverAllocatable(next, buffer)
    ELSE /\ current' = None /\ waiting' = next
         /\ page' = FALSE /\ taken' = FALSE /\ announced' = FALSE
         /\ observer' = [observer EXCEPT !.buffer = buffer]
         /\ UNCHANGED spoilt

(* A handler of the current connection ends with the observer in state o,  *)
(* a page working on a request or not, and a DataReceived event scheduled  *)
(* or not.  Close destroys the observer, and with it all these.            *)
Finish(o, working, event) ==
    /\ UNCHANGED stop
    /\ IF o.closed
       THEN OnAllocatable(waiting, o.buffer) /\ gone' = gone \cup {current}
       ELSE /\ observer' = o /\ page' = working /\ announced' = event
            /\ UNCHANGED <<current, waiting, taken, gone, spoilt>>

SendResponse(o, kind, working, event) ==
    /\ answers' = [answers EXCEPT ![current] = Append(@, Response(o, kind))]
    /\ Finish(PrepareForNextRequest(o), working, event)

(* ServePage: no page serves the request, or the page answers at once, or  *)
(* it keeps the reference to the connection to answer later.               *)
ServePage(o, event) ==
    \/ SendResponse(o, "page", page, event) /\ UNCHANGED pages
    \/ Finish(o, TRUE, event) /\ pages' = pages + 1 /\ UNCHANGED answers

TryHandleRequest(o, event) ==
    \/ ~Valid(o.buffer) /\ SendResponse(o, "bad", page, event) /\ UNCHANGED pages
    \/ /\ Valid(o.buffer) /\ o.requestInProgress
       /\ Finish(Close(o), page, event) /\ UNCHANGED <<pages, answers>>
    \/ Valid(o.buffer) /\ ~o.requestInProgress /\ ServePage(HandleRequest(o), event)

ReceivedRequest(o, event) ==
    LET read == [o EXCEPT !.buffer = @ \o unread[current]]
    IN  IF Complete(read.buffer)
        THEN TryHandleRequest(read, event)
        ELSE Finish(read, page, event) /\ UNCHANGED <<pages, answers>>

(* DataReceived from line 122: the data is read, and acknowledged.         *)
ReadData(o, event) ==
    IF unread[current] = <<>>
    THEN Finish(o, page, event) /\ UNCHANGED <<pages, answers, unread>>
    ELSE /\ unread' = [unread EXCEPT ![current] = <<>>]
         /\ IF Len(unread[current]) > BufferSize - Len(o.buffer)
            THEN SendResponse(o, "outOfMemory", page, event) /\ UNCHANGED pages
            ELSE ReceivedRequest(o, event)

DataReceived ==
    /\ announced
    /\ IF observer.writer = "open"
       THEN ReadData(observer, FALSE)
       ELSE Finish(observer, page, FALSE) /\ UNCHANGED <<pages, answers, unread>>
    /\ UNCHANGED <<rest, asked>>

SendStreamAvailable ==
    /\ current # None /\ observer.writer = "requested"
    /\ ReadData([observer EXCEPT !.writer = "open"], announced)
    /\ UNCHANGED <<rest, asked>>

(* The page answers the request it was given.  Without a stream writer     *)
(* SendResponse is the end of the program.                                 *)
PageAnswers ==
    /\ page /\ observer.writer = "open"
    /\ SendResponse(observer, "page", FALSE, announced)
    /\ pages' = pages - 1
    /\ UNCHANGED clients

(* So does a page whose connection is gone: it calls SendResponse of an    *)
(* observer that is no longer there, where now the one of another          *)
(* connection is.  Where there is none, the outcome is undefined.          *)
PageAnswersLate ==
    /\ LateAnswers /\ pages > (IF page THEN 1 ELSE 0)
    /\ current # None /\ observer.writer = "open"
    /\ SendResponse(observer, "late", page, announced)
    /\ pages' = pages - 1
    /\ UNCHANGED clients

(* The page takes the connection over, for instance for a web socket: the  *)
(* observer is detached, and stays allocated as long as the connection.    *)
TakeOverConnection ==
    /\ TakesOver /\ page
    /\ taken' = TRUE /\ page' = FALSE /\ announced' = FALSE
    /\ pages' = pages - 1
    /\ observer' = [observer EXCEPT !.writer = "none"]
    /\ UNCHANGED <<current, waiting, stop, clients, answers, gone, spoilt>>

InitialIdle ==
    /\ current # None /\ observer.initialIdle
    /\ Finish([observer EXCEPT !.initialIdle = FALSE, !.idle = TRUE,
                               !.closed = observer.closeWhenIdle],
              page, announced)
    /\ UNCHANGED <<pages, clients, answers>>

-----------------------------------------------------------------------------
(* The server.                                                             *)
CloseWhenIdle(o) == [o EXCEPT !.closeWhenIdle = TRUE, !.closed = o.idle]

(* createdObserver is assigned: a connection that waited is dropped.       *)
ConnectionAccepted(c) ==
    /\ c \notin gone \cup {current, waiting}
    /\ stop = "no" \/ (Lingers /\ stop # "destroyed")
    /\ IF current = None THEN ObserverAllocatable(c, observer.buffer)
       ELSE IF CloseWhenIdle(observer).closed THEN OnAllocatable(c, observer.buffer)
       ELSE /\ waiting' = c /\ observer' = CloseWhenIdle(observer)
            /\ UNCHANGED <<current, taken, page, announced, spoilt>>
    /\ gone' = gone \cup ({waiting, current} \ {None, current'})
    /\ UNCHANGED <<stop, pages, clients, answers>>

(* The connection is closed by the other side, or by who has taken it over. *)
Disconnect ==
    /\ current # None
    /\ OnAllocatable(waiting, observer.buffer)
    /\ gone' = gone \cup {current}
    /\ UNCHANGED <<stop, pages, clients, answers>>

Stop ==
    /\ Stops /\ stop = "no"
    /\ stop' = IF current = None THEN "idle" ELSE "serving"
    /\ current' = None
    /\ page' = FALSE /\ taken' = FALSE /\ announced' = FALSE
    /\ gone' = gone \cup ({current} \ {None})
    /\ UNCHANGED <<waiting, observer, pages, clients, answers, spoilt>>

(* ~SingleConnectionHttpServer.                                            *)
Destroy ==
    /\ stop \in {"idle", "serving"}
    /\ stop' = "destroyed"
    /\ UNCHANGED <<current, waiting, taken, observer, page, pages, announced, clients, answers,
                   gone, spoilt>>

-----------------------------------------------------------------------------
(* The clients.                                                            *)
(* A client begins a request on a connection that it has opened.           *)
SendRequest(c, r) ==
    /\ c \in {current, waiting}
    /\ Len(asked[c]) < MaxRequests
    /\ Polite => rest[c] = <<>> /\ Len(answers[c]) = Len(asked[c])
    /\ rest' = [rest EXCEPT ![c] = @ \o Fragments(r)]
    /\ asked' = [asked EXCEPT ![c] = Append(@, r)]
    /\ UNCHANGED <<server, unread, answers, gone, spoilt>>

(* TCP delivers the next fragment; a connection that was taken over        *)
(* delivers it to its new observer.                                        *)
Transmit(c) ==
    /\ c \in {current, waiting} /\ rest[c] # <<>>
    /\ Patient => ~(asked[c][Len(asked[c])] = "expect" /\ Head(rest[c]) = "body")
    /\ rest' = [rest EXCEPT ![c] = Tail(@)]
    /\ IF c = current /\ taken
       THEN UNCHANGED <<unread, announced>>
       ELSE /\ unread' = [unread EXCEPT ![c] = Append(@, Head(rest[c]))]
            /\ announced' = (announced \/ c = current)
    /\ UNCHANGED <<current, waiting, stop, taken, observer, page, pages, asked, answers, gone,
                   spoilt>>

-----------------------------------------------------------------------------
Init ==
    /\ current = None /\ waiting = None /\ stop = "no" /\ taken = FALSE
    /\ observer = ConnectedObserver(<<>>) /\ page = FALSE /\ pages = 0 /\ announced = FALSE
    /\ rest = [c \in Connections |-> <<>>] /\ unread = rest
    /\ asked = rest /\ answers = rest /\ gone = {} /\ spoilt = {}

Next ==
    \/ DataReceived \/ SendStreamAvailable \/ PageAnswers \/ PageAnswersLate
    \/ TakeOverConnection \/ InitialIdle
    \/ \E c \in Connections : ConnectionAccepted(c) \/ Transmit(c)
    \/ \E c \in Connections, r \in Requests : SendRequest(c, r)
    \/ Disconnect \/ Stop \/ Destroy

Spec == Init /\ [][Next]_vars

(* The connection offers the stream and announces data, the timer runs,    *)
(* pages answer, and clients send the requests they have begun.            *)
FairSpec ==
    /\ Spec
    /\ WF_vars(SendStreamAvailable) /\ WF_vars(DataReceived)
    /\ WF_vars(InitialIdle) /\ WF_vars(PageAnswers \/ TakeOverConnection)
    /\ \A c \in Connections : WF_vars(Transmit(c))

-----------------------------------------------------------------------------
FragmentKinds == {"get", "bad", "head", "head100", "headLong", "body"}
Answers == [continue : BOOLEAN, kind : {"page", "bad", "outOfMemory", "late"}]

(* Type invariant; the buffer never outgrows the string it is kept in.     *)
TypeOK ==
    /\ current \in Connections \cup {None}
    /\ waiting \in Connections \cup {None}
    /\ stop \in {"no", "idle", "serving", "destroyed"}
    /\ {taken, page, announced} \subseteq BOOLEAN /\ pages \in Nat
    /\ observer \in
        [writer : {"none", "requested", "open"},
         buffer : UNION {[1..n -> FragmentKinds] : n \in 0..BufferSize},
         idle : BOOLEAN, closeWhenIdle : BOOLEAN, requestInProgress : BOOLEAN,
         send100 : BOOLEAN, initialIdle : BOOLEAN, closed : {FALSE}]
    /\ \A c \in Connections :
        /\ rest[c] \in Seq(FragmentKinds) /\ unread[c] \in Seq(FragmentKinds)
        /\ asked[c] \in Seq(Requests) /\ answers[c] \in Seq(Answers)
    /\ gone \subseteq Connections /\ spoilt \subseteq Connections

(* A connection whose observer began with an empty buffer, and on which no *)
(* page of another connection has answered.                                *)
Undisturbed(c) ==
    c \notin spoilt /\ \A i \in DOMAIN answers[c] : answers[c][i].kind # "late"

(* While a connection waits, the one that is served knows that it must     *)
(* make room, and is not idle: otherwise nobody would ever call            *)
(* ObserverAllocatable for the one that waits.                             *)
WaitingIsExpected ==
    (stop = "no" /\ waiting # None) =>
        current # None /\ observer.closeWhenIdle /\ ~observer.idle

(* "non_idle_connection_is_not_closed_by_second_connection"                *)
(* (TestHttpServer.cpp:200): as long as a page works on a request, neither *)
(* the arrival of another connection nor the initial idle timer closes the *)
(* connection, unless what others have left has disturbed it.              *)
BusyStays ==
    /\ page /\ Undisturbed(current)
    /\ InitialIdle \/ \E c \in Connections : ConnectionAccepted(c)
    => current' = current
NotClosedWhenBusy == [][BusyStays]_vars

(* The answer to a request that the server has the memory for.             *)
Expected(r) ==
    IF Len(Fragments(r)) > BufferSize THEN "outOfMemory"
    ELSE IF r = "bad" THEN "bad" ELSE "page"

(* Clients that wait for their answers get, over each connection, exactly  *)
(* one answer to each request, the answer that belongs to that request, in *)
(* the order of the requests, however TCP cuts and glues the data, unless  *)
(* what others have left has disturbed the connection.                     *)
EachRequestItsAnswer ==
    \A c \in Connections : Undisturbed(c) =>
        /\ Len(answers[c]) <= Len(asked[c])
        /\ \A i \in DOMAIN answers[c] : answers[c][i].kind = Expected(asked[c][i])

(* A page that works on a request has a stream to answer on: SendResponse  *)
(* dereferences streamWriter (SharedPtr.hpp:336: assert(object !=          *)
(* nullptr)).                                                              *)
PageHasStream == page /\ Undisturbed(current) => observer.writer = "open"

(* A connection that waits for the server is eventually served (or dropped *)
(* for a newer one, which is served then).                                 *)
EveryConnectionServed ==
    waiting # None /\ stop = "no" ~> waiting = None \/ stop # "no"

Unanswered ==
    /\ current # None /\ ~taken /\ Undisturbed(current)
    /\ Len(asked[current]) > Len(answers[current])

(* A request on the current connection is answered, unless the connection  *)
(* is closed or taken over first or was disturbed by what others left.     *)
EveryRequestAnswered == Unanswered ~> ~Unanswered

(* "double_request_results_in_closed_connection" (TestHttpServer.cpp:135): *)
(* a complete request that is read while another one is in progress closes *)
(* the connection.                                                         *)
SecondRequestRead ==
    \E c \in Connections :
        current = c /\ unread[c] # <<>> /\ unread'[c] = <<>> /\ Complete(unread[c])
        /\ (page \/ (page' /\ Complete(Tail(unread[c]))))
DoubleRequestCloses == [][SecondRequestRead => current' # current]_vars

(* "send_100_response_when_expect_100_in_header" (TestHttpServer.cpp:162): *)
(* a client that sends the headers of a request with Expect: 100-continue  *)
(* gets that response (or loses its connection).                           *)
Continues ==
    \A c \in Connections :
        (current = c /\ observer.buffer = <<"head100">>)
            ~> (current # c \/ \E i \in DOMAIN answers[c] : answers[c][i].continue)

(* ~SingleConnectionHttpServer (HttpServer.hpp:282) asserts                *)
(* "factory.Allocatable()": a server that has reported that it stopped no  *)
(* longer has an observer when it is destroyed.                            *)
DestroyedAtRest == stop = "destroyed" => current = None
=============================================================================
