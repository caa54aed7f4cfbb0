---------------------------- MODULE ConnectionBsd ----------------------------
(***************************************************************************)
(* ConnectionBsd, ListenerBsd, ConnectorBsd                                *)
(* (services/network_bsd/ConnectionBsd.cpp) and the part of                *)
(* EventDispatcherWithNetwork::Idle that serves them: one connection, made *)
(* by a listener or a connector, its two buffers, the kernel's socket, the *)
(* peer, and the events of the connection in the queue of the dispatcher,  *)
(* which calls Idle when the queue is empty.  Bytes are counted.           *)
(***************************************************************************)
EXTENDS Integers, Sequences

CONSTANTS
    Roles,      \* how connections are made: subset of {"server", "client"}
    Gives,      \* when the factory gives the observer: subset of
                \* {"atOnce", "later", "never"}
    Endings,    \* how connections end: subset of {"fin", "reset", "abort"}
    Blocking,   \* whether accepted sockets block: subset of BOOLEAN
    RecvSize,   \* capacity of receiveBuffer (2048 in the code)
    SendSize,   \* capacity of sendBuffer (2048 in the code)
    MaxBytes    \* bound on the bytes each side sends

ConnectionBsdAssumption ==
    /\ Roles \subseteq {"server", "client"}
    /\ Gives \subseteq {"atOnce", "later", "never"}
    /\ Endings \subseteq {"fin", "reset", "abort"} /\ Blocking \subseteq BOOLEAN
    /\ RecvSize \in Nat \ {0} /\ SendSize \in Nat \ {0} /\ MaxBytes \in Nat

VARIABLES
    life,       \* "none", "waiting" for its observer, "attached", "freed"
    conn,       \* the members of ConnectionBsd, see Constructed
    events,     \* the events of the connection in the queue of the dispatcher
    socket,     \* the file descriptor of the connection: "open" or "closed"
    blocking,   \* the socket blocks
    stuck,      \* the thread of the dispatcher waits in recv or send
    kernelIn,   \* bytes the kernel has received for the connection
    ended,      \* "no", "fin" or "reset": what the peer has done
    peerSent,   \* bytes the peer has sent
    written,    \* bytes the observer has written
    sent,       \* bytes the kernel has taken
    read,       \* bytes the observer has read
    owes,       \* the observer was told of data and will read it later
    connector,  \* "none", "pending": a ConnectorBsd is in the list
    link,       \* the TCP connection of the connector: "none" or "up"
    told,       \* what the client factory was told
    fault       \* "none", or the assertion or abort that ended the program

kernel == <<socket, blocking, kernelIn, ended, peerSent>>
connecting == <<connector, link, told>>
vars == <<life, conn, events, kernel, stuck, written, sent, read, owes, connecting, fault>>

Least(a, b) == IF a < b THEN a ELSE b

-----------------------------------------------------------------------------
(* Send streams.  `stream' is "requested" as long as there is no room,     *)
(* "scheduled" when the event that opens it is in the queue, then "open".  *)
Constructed ==
    [recv |-> 0, send |-> 0, stream |-> "none", size |-> 0, trySend |-> FALSE]

(* Mutant: the bytes that are still in the buffer are not counted.         *)
TryAllocateAnyway(c) ==
    IF c.stream = "requested" /\ SendSize >= c.size
    THEN [c EXCEPT !.stream = "scheduled"] ELSE c

TryAllocateSendStream(c) ==
    IF c.stream = "requested" /\ SendSize - c.send >= c.size
    THEN [c EXCEPT !.stream = "scheduled"] ELSE c

(* The event that TryAllocateSendStream schedules, if it does.             *)
StreamEvent(c, d) ==
    IF c.stream = "requested" /\ d.stream = "scheduled" THEN <<"stream">> ELSE <<>>

(* Mutant: room that Send makes is not given to who waits for it.          *)
SendKeeps(c, k) == [c EXCEPT !.send = @ - k]

(* Send: the kernel takes k bytes.  If the buffer is not empty then, the   *)
(* next send would block, and Send returns at once.                        *)
Send(c, k) ==
    IF k = c.send THEN TryAllocateSendStream([c EXCEPT !.send = 0])
                  ELSE [c EXCEPT !.send = @ - k]

(* TrySend: only what was written since the last time.                     *)
TrySend(c, k) == IF c.trySend THEN Send([c EXCEPT !.trySend = FALSE], k) ELSE c

(* Receive: as much as there is room for.                                  *)
Received(c) == Least(kernelIn, RecvSize - c.recv)
Receive(c) == [c EXCEPT !.recv = @ + Received(c)]

DataEvent(c) == IF Received(c) > 0 THEN <<"data">> ELSE <<>>

(* The receive loop goes on to see the end of the connection, unless the   *)
(* buffer is full before.                                                  *)
SeesEnd(c) == ended # "no" /\ Receive(c).recv < RecvSize

(* Unless the socket blocks, recv fails with EWOULDBLOCK when there is     *)
(* nothing more.  If it does, recv does not return before something comes. *)
ReceiveWaits(c) == blocking /\ ended = "no" /\ Receive(c).recv < RecvSize

-----------------------------------------------------------------------------
(* ResetOwnership and the destructor: events that hold a weak pointer to   *)
(* the connection are dropped, the one of the constructor is not.          *)
Free ==
    /\ life' = "freed" /\ socket' = "closed"
    /\ events' = IF \E i \in DOMAIN events : events[i] = "receive" THEN <<"receive">> ELSE <<>>
    /\ fault' = IF socket = "closed" THEN "close" ELSE fault
    /\ UNCHANGED <<conn, kernelIn, read, owes, written, sent>>

(* The connection is constructed on a socket, and its observer attached.   *)
Construct ==
    /\ life = "none"
    /\ conn' = Constructed /\ events' = <<"receive">>
    /\ UNCHANGED <<kernelIn, ended, peerSent, written, sent, read, owes>>
    /\ \/ "atOnce" \in Gives /\ life' = "attached"
       \/ "later" \in Gives /\ life' = "waiting"
       \/ "never" \in Gives /\ life' = "freed"

(* ListenerBsd::Accept.  The listening socket does not block; whether the  *)
(* one that is accepted takes this over depends on the platform.           *)
Accept ==
    /\ "server" \in Roles
    /\ Construct /\ socket' = "open" /\ blocking' \in Blocking
    /\ UNCHANGED <<connecting, fault>>

(* The factory calls createdObserver: ConnectionBsd::SetObserver.          *)
SetObserver ==
    /\ life = "waiting"
    /\ life' = "attached"
    /\ UNCHANGED <<conn, events, kernel, written, sent, read, owes, connecting, fault>>

(* ConnectorBsd is constructed and calls connect, which succeeds at once   *)
(* or fails; it fails with EINPROGRESS when the connection takes time, but *)
(* only EWOULDBLOCK is accepted.                                           *)
Connect ==
    /\ "client" \in Roles /\ life = "none" /\ link = "none"
    /\ \/ connector' = "pending" /\ link' = "up" /\ UNCHANGED fault
       \/ fault' = "connect" /\ UNCHANGED <<connector, link>>
    /\ UNCHANGED <<life, conn, events, kernel, written, sent, read, owes, told>>

CancelConnect ==
    /\ connector = "pending"
    /\ connector' = "none"
    /\ UNCHANGED <<life, conn, events, kernel, written, sent, read, owes, link, told, fault>>

(* select reports a socket as readable when there is data, and when the    *)
(* connection has ended.                                                   *)
Readable == kernelIn > 0 \/ ended # "no"

(* ConnectorBsd::Connected hands the socket over to a ConnectionBsd; the   *)
(* connector is then erased, and its destructor closes that socket.        *)
ConnectorConnected ==
    /\ Construct /\ socket' = "closed" /\ UNCHANGED blocking
    /\ told' = Append(told, "established")

(* ConnectorBsd::Failed.                                                   *)
ConnectorFailed ==
    /\ told' = Append(told, "refused")
    /\ UNCHANGED <<life, conn, events, kernel, written, sent, read, owes>>

(* Idle, with a connector in the list, after select returned for any       *)
(* reason: exceptFileDescriptors was not given to select, and still holds  *)
(* the connector.  Connected and Failed erase the connector from the list  *)
(* that the loop goes through, which goes on with what is left of it.      *)
IdleConnector ==
    /\ connector = "pending" /\ events = <<>>
    /\ \/ Readable /\ ConnectorConnected
       \/ ~Readable /\ ConnectorFailed
    /\ connector' = "none"
    /\ fault' \in {fault, "erased"}
    /\ UNCHANGED link

-----------------------------------------------------------------------------
(* The events.  The one of the constructor refers to the connection by its *)
(* address; Receive on a socket that is closed fails and ends the          *)
(* connection, which has no effect before an observer is attached.         *)
ReceiveEvent ==
    /\ events # <<>> /\ Head(events) = "receive"
    /\ UNCHANGED <<blocking, ended, peerSent, connecting>>
    /\ \/ /\ life = "freed" /\ fault' = "freed"
          /\ UNCHANGED <<life, conn, events, socket, kernelIn, written, sent, read, owes>>
       \/ /\ life = "attached" /\ (socket = "closed" \/ SeesEnd(conn))
          /\ life' = "freed" /\ socket' = "closed" /\ events' = <<>>
          /\ fault' = IF socket = "closed" THEN "close" ELSE fault
          /\ UNCHANGED <<conn, kernelIn, written, sent, read, owes>>
       \/ /\ life = "waiting" \/ (life = "attached" /\ ~SeesEnd(conn))
          /\ socket = "open" /\ ~ReceiveWaits(conn)
          /\ conn' = Receive(conn) /\ events' = Tail(events) \o DataEvent(conn)
          /\ kernelIn' = kernelIn - Received(conn)
          /\ UNCHANGED <<life, socket, written, sent, read, owes, fault>>
       \/ /\ life = "waiting" /\ socket = "closed"
          /\ events' = Tail(events)
          /\ UNCHANGED <<life, conn, socket, kernelIn, written, sent, read, owes, fault>>

(* ReceiveStream, and AckReceived when everything was read.                *)
ReadAll == conn' = [conn EXCEPT !.recv = 0] /\ read' = read + conn.recv

(* DataReceived: the observer reads all there is and calls AckReceived, or *)
(* leaves it for later.                                                    *)
DataReceived ==
    /\ events # <<>> /\ Head(events) = "data"
    /\ events' = Tail(events)
    /\ IF life = "attached"
       THEN /\ \/ ReadAll /\ owes' = FALSE
               \/ owes' = TRUE /\ UNCHANGED <<conn, read>>
            /\ UNCHANGED fault
       ELSE fault' = "noObserver" /\ UNCHANGED <<conn, read, owes>>
    /\ UNCHANGED <<life, kernel, written, sent, connecting>>

SendStreamAvailable ==
    /\ events # <<>> /\ Head(events) = "stream"
    /\ events' = Tail(events)
    /\ conn' = [conn EXCEPT !.stream = "open"]
    /\ UNCHANGED <<life, kernel, written, sent, read, owes, connecting, fault>>

(* Idle, with the connection in the list: what was written is sent, then   *)
(* what is readable received, then what is writable sent.  The kernel      *)
(* takes k1 and k2 bytes; a send that blocks returns when it has taken all *)
(* there is, and is not called when the socket is not writable.            *)
Idle(k1, k2) ==
    LET c1 == TrySend(conn, k1)
        c2 == Send(Receive(c1), k2)
    IN  /\ life = "attached" /\ events = <<>>
        /\ k1 + k2 <= conn.send /\ (k1 > 0 => conn.trySend)
        /\ UNCHANGED <<blocking, ended, peerSent, connecting>>
        /\ IF socket = "closed" THEN
               /\ fault' = "select"
               /\ UNCHANGED <<life, conn, events, socket, kernelIn, written, sent, read, owes>>
           ELSE IF ended = "reset" \/ SeesEnd(c1) THEN Free
           ELSE /\ Readable => ~ReceiveWaits(c1)
                /\ blocking => /\ conn.trySend => k1 = conn.send
                               /\ k2 \in {0, conn.send - k1}
                /\ conn' = c2
                /\ events' = StreamEvent(conn, c1) \o DataEvent(c1) \o StreamEvent(c1, c2)
                /\ kernelIn' = kernelIn - Received(c1)
                /\ sent' = sent + k1 + k2
                /\ UNCHANGED <<life, socket, written, read, owes, fault>>

(* The thread calls recv or send on a socket that blocks.  It does nothing *)
(* else before ReceiveEvent or Idle has come to its end.                   *)
Waits ==
    /\ ~stuck /\ blocking /\ socket = "open"
    /\ \/ /\ events # <<>> /\ Head(events) = "receive"
          /\ life \in {"waiting", "attached"} /\ ReceiveWaits(conn)
       \/ /\ events = <<>> /\ life = "attached"
          /\ conn.send > 0 \/ (Readable /\ ReceiveWaits(conn))
    /\ stuck' = TRUE
    /\ UNCHANGED <<life, conn, events, kernel, written, sent, read, owes, connecting, fault>>

-----------------------------------------------------------------------------
(* The observer.                                                           *)
RequestSendStream(n) ==
    LET asked == [conn EXCEPT !.stream = "requested", !.size = n]
        c == TryAllocateSendStream(asked)
    IN  /\ life = "attached" /\ conn.stream = "none"
        /\ written + n <= MaxBytes
        /\ conn' = c /\ events' = events \o StreamEvent(asked, c)
        /\ UNCHANGED <<life, kernel, written, sent, read, owes, connecting, fault>>

(* ~StreamWriterBsd, when m bytes were written to the stream.              *)
CloseWriter(m) ==
    /\ life = "attached" /\ conn.stream = "open" /\ m <= conn.size
    /\ conn' = [conn EXCEPT !.stream = "none", !.send = @ + m, !.trySend = TRUE]
    /\ written' = written + m
    /\ UNCHANGED <<life, events, kernel, sent, read, owes, connecting, fault>>

(* The observer reads what it was told of earlier.                         *)
AckReceived ==
    /\ life = "attached" /\ owes
    /\ ReadAll /\ owes' = FALSE
    /\ UNCHANGED <<life, events, kernel, written, sent, connecting, fault>>

AbortAndDestroy ==
    /\ "abort" \in Endings /\ life = "attached"
    /\ Free
    /\ UNCHANGED <<blocking, ended, peerSent, connecting>>

-----------------------------------------------------------------------------
(* External: the network and the peer.                                     *)
PeerSends ==
    /\ ended = "no" /\ peerSent < MaxBytes
    /\ link = "up" \/ life \in {"waiting", "attached"}
    /\ kernelIn' = kernelIn + 1 /\ peerSent' = peerSent + 1
    /\ UNCHANGED <<life, conn, events, socket, blocking, ended, written, sent, read, owes,
                   connecting, fault>>

PeerEnds ==
    /\ ended = "no" /\ (link = "up" \/ life \in {"waiting", "attached"})
    /\ ended' \in Endings \ {"abort"}
    /\ UNCHANGED <<life, conn, events, socket, blocking, kernelIn, peerSent, written, sent, read,
                   owes, connecting, fault>>

-----------------------------------------------------------------------------
Init ==
    /\ life = "none" /\ conn = Constructed /\ events = <<>>
    /\ socket = "closed" /\ blocking = FALSE /\ stuck = FALSE
    /\ kernelIn = 0 /\ ended = "no" /\ peerSent = 0
    /\ written = 0 /\ sent = 0 /\ read = 0 /\ owes = FALSE
    /\ connector = "none" /\ link = "none" /\ told = <<>> /\ fault = "none"

SomeIdle == \E k1, k2 \in 0..SendSize : Idle(k1, k2)

SomeWriterClosed == \E m \in 0..SendSize : CloseWriter(m)

Running == fault = "none"

(* The thread of the dispatcher, in an event or in what an event calls,    *)
(* and where it may have waited for the kernel.                            *)
Does(A) == Running /\ ~stuck /\ A /\ UNCHANGED stuck
Completes(A) == Running /\ A /\ stuck' = FALSE

Next ==
    \/ Does(\/ Accept \/ SetObserver \/ Connect \/ CancelConnect \/ IdleConnector
            \/ DataReceived \/ SendStreamAvailable
            \/ \E n \in 1..SendSize : RequestSendStream(n)
            \/ SomeWriterClosed \/ AckReceived \/ AbortAndDestroy)
    \/ Completes(ReceiveEvent \/ SomeIdle)
    \/ Running /\ Waits
    \/ Running /\ (PeerSends \/ PeerEnds) /\ UNCHANGED stuck

Spec == Init /\ [][Next]_vars

(* The dispatcher runs, the kernel keeps taking bytes, and the observer    *)
(* closes its stream and reads what it was told of.  The queue of the      *)
(* dispatcher is empty again and again, and Idle is then called: the       *)
(* observer does not ask for one stream after the other and write nothing. *)
IdleSends ==
    \E k1, k2 \in 0..SendSize : Idle(k1, k2) /\ (conn.send > 0 => k1 + k2 > 0)

Fairness ==
    /\ WF_vars(Completes(ReceiveEvent) \/ Does(DataReceived \/ SendStreamAvailable))
    /\ SF_vars(Completes(IdleSends)) /\ WF_vars(Does(IdleConnector))
    /\ WF_vars(Does(SomeWriterClosed)) /\ WF_vars(Does(AckReceived))

FairSpec == Spec /\ Fairness

-----------------------------------------------------------------------------
(* Type invariant; no more is received than the buffer holds.              *)
TypeOK ==
    /\ life \in {"none", "waiting", "attached", "freed"}
    /\ conn \in [recv : 0..RecvSize, send : 0..SendSize, size : 0..SendSize,
                 stream : {"none", "requested", "scheduled", "open"}, trySend : BOOLEAN]
    /\ events \in Seq({"receive", "data", "stream"})
    /\ socket \in {"open", "closed"} /\ {blocking, stuck} \subseteq BOOLEAN
    /\ ended \in {"no", "fin", "reset"}
    /\ {kernelIn, peerSent, written, sent, read} \subseteq 0..MaxBytes
    /\ connector \in {"none", "pending"} /\ link \in {"none", "up"}
    /\ told \in Seq({"established", "refused"}) /\ owes \in BOOLEAN
    /\ fault \in {"none", "freed", "close", "connect", "select", "noObserver", "erased"}

(* Whatever the order of writing and sending, the buffer has room for the  *)
(* stream that was promised, when it is closed (BoundedDeque::insert       *)
(* asserts it); exactly one event opens it.                                *)
PromiseKept ==
    conn.stream \in {"scheduled", "open"} => conn.send + conn.size <= SendSize

OneStreamEvent ==
    LET streams == {i \in DOMAIN events : events[i] = "stream"}
    IN  /\ \A i, j \in streams : i = j
        /\ life = "attached" => (streams # {} <=> conn.stream = "scheduled")

(* A connector tells its factory at most once how it ended.                *)
ToldOnce == Len(told) <= 1

(* What a connection promises to its observer, and a connector to its      *)
(* factory.                                                                *)
BsdSafe == TypeOK /\ PromiseKept /\ OneStreamEvent /\ ToldOnce

Settled == conn.stream \notin {"requested", "scheduled"} /\ sent = written /\ read = peerSent

(* A request for a send stream is granted, everything that was written is  *)
(* sent and everything that the peer sends is read, also when the buffers  *)
(* are full for a while, unless the connection ends.  It needs a socket    *)
(* that does not block.                                                    *)
EverythingSettles ==
    life = "attached" /\ ~Settled ~> Settled \/ life = "freed" \/ fault # "none"

(* `assert(observer != nullptr);' (Observer.hpp:292): an event that is     *)
(* delivered to the observer finds one.                                    *)
ObserverThere == fault # "noObserver"

(* "TestScheduleDestructedSharedPtr" (TestEventHandlerWithWeakPtr.cpp:43): *)
(* no event is executed for a connection that was destroyed.               *)
FreedUntouched == fault # "freed"

(* `assert(result != -1);' (ConnectionBsd.cpp:67): the socket of a         *)
(* connection is open as long as the connection exists.                    *)
SocketIsOpen == life \in {"waiting", "attached"} => socket = "open"

(* A connector that is erased is not used by the loop that erases it.      *)
ErasedUnused == fault # "erased"

(* ConnectFailReason::refused (Connection.hpp:82): a factory is told so    *)
(* when the peer has refused, not when it has accepted.                    *)
RefusedWhenRefused == \A i \in DOMAIN told : told[i] = "refused" => link # "up"
=============================================================================
