-------------------------- MODULE ConnectionSerial --------------------------
(***************************************************************************)
(* services/network/ConnectionSerial: two peers make a connection over a   *)
(* serial line.  They tell each other the sizes of their receive buffers   *)
(* (SizeRequest, SizeResponseRequest, SizeResponse), send content as long  *)
(* as the other's buffer has room, and tell each other when room becomes   *)
(* free (SizeUpdate).  What cannot be understood makes a peer start again. *)
(*                                                                         *)
(* Transmit is the interrupt that puts the bytes of a SendData into the    *)
(* receive queue of the other peer and schedules the completion; every     *)
(* other action is an event of a peer's dispatcher, which runs them in the *)
(* order they were scheduled in.                                           *)
(***************************************************************************)
EXTENDS Integers, Sequences, FiniteSets, SequencesExt

CONSTANTS
    Peers,
    BufferSize,         \* room in receiveQueue: ReceiveBufferSize()
    MinUpdateSize,      \* minUpdateSize
    Chunks,             \* what the client of a peer sends: sequences of bytes
    Apart,              \* peers start and ask again only while the line is silent
    Lost, Lossy,        \* which SendData may be lost, or lose a byte, by completion
    MaxFaults, MaxRestarts      \* bounds

ASSUME PeersAssumption == Cardinality(Peers) = 2
ASSUME BufferAssumption ==          \* the assertion of the constructor
    BufferSize \in 7 .. 249 /\ MinUpdateSize \in 4 .. BufferSize - 3
ASSUME ChunksAssumption == Chunks \in [Peers -> Seq(Seq(0 .. 255))]
ASSUME BoundsAssumption == Apart \in BOOLEAN /\ MaxFaults \in Nat /\ MaxRestarts \in Nat

VARIABLES
    connection,     \* the members of the ConnectionSerial of a peer
    line,           \* what a peer's SendData still has to transmit
    queue,          \* receiveQueue
    events,         \* what the dispatcher of a peer has still to run
    client,         \* what the client of a peer waits for and has got
    overflow,       \* whether a receiveQueue was full: abort()
    faults, restarts

vars == <<connection, line, queue, events, client, overflow, faults, restarts>>
bounds == <<faults, restarts>>

Other(p) == CHOOSE q \in Peers : q /= p

Escape == 249
SizeRequest == 250
SizeResponse == 251
SizeResponseRequest == 252
Content == 253
SizeUpdate == 254

IsHeaderByte(b) == b \in SizeRequest .. SizeUpdate
IsEscapedByte(b) == b = Escape \/ IsHeaderByte(b)

HeaderSize == 3

\* The bytes of a header
Header(type, size) ==
    IF type = SizeRequest THEN <<type, type, type>>
                          ELSE <<type, size \div 256, size % 256>>

\* What is known of a header of which the bytes h have arrived
IsFailed(h) ==
    \/ ~IsHeaderByte(h[1])
    \/ h[1] = SizeRequest /\ \E i \in DOMAIN h : h[i] /= SizeRequest
IsDone(h) == Len(h) = HeaderSize \/ IsFailed(h)
Size(h) == h[2] * 256 + h[3]

InitStates == {"InitSizeRequest", "InitSizeResponseRequest", "InitSizeResponse"}
SendingStates == {"ConnectedSendingContent", "SendingUpdate"}
ConnectedStates == SendingStates \cup {"ConnectedIdle"}
Connected(c) == c.state \in ConnectedStates

-----------------------------------------------------------------------------
(* The states.  c is the connection of one peer; c.send is what it sends   *)
(* in this step, c.scheduled what it schedules.                            *)

\* state.Emplace: the flags and the timer belong to the state.  A state that
\* goes while its SendData is in progress leaves the completion an orphan.
Emplace(c, state) ==
    [c EXCEPT !.state = state, !.sendInProgress = FALSE, !.timer = FALSE,
              !.responseRequestAfterSend = FALSE, !.responseAfterSend = FALSE,
              !.resetAfterSend = FALSE, !.orphan = @ \/ c.done /= "none"]

\* serialCommunication.SendData; done is its completion
SendData(c, bytes, done) == [c EXCEPT !.send = bytes, !.done = done]

Schedule(c, event) == [c EXCEPT !.scheduled = Append(@, event)]

SendWindowSizeRequest(c) ==
    SendData([c EXCEPT !.sendInProgress = TRUE], Header(SizeRequest, 0), "request")

GoStateInitSizeRequest(c) == SendWindowSizeRequest(Emplace(c, "InitSizeRequest"))

GoStateInitSizeResponseRequest(c) ==
    SendData([Emplace(c, "InitSizeResponseRequest") EXCEPT !.sendInProgress = TRUE],
             Header(SizeResponseRequest, BufferSize), "responseRequest")

GoStateInitSizeResponse(c) ==
    SendData(Emplace(c, "InitSizeResponse"),
             Header(SizeResponse, BufferSize), "response")

UpdatePossible(c) ==
    /\ c.accumulated >= MinUpdateSize
    /\ ~c.updateInProgress
    /\ c.peerBufferSize >= HeaderSize

GoStateSendingUpdate(c) ==
    SendData([Emplace(c, "SendingUpdate") EXCEPT
                    !.updateInProgress = TRUE, !.accumulated = 0,
                    !.peerBufferSize = @ - HeaderSize],
             Header(SizeUpdate, c.accumulated), "update")

EscapedSize(content) == Len(content) + Len(SelectSeq(content, IsEscapedByte))

\* Mutant: the room for the header and an update is not kept free.
ContentSizeOfWindow(c) ==
    LET escaped == EscapedSize(c.content)
    IN  IF c.total /= 0 THEN 0
        ELSE IF escaped >= c.peerBufferSize THEN c.peerBufferSize ELSE escaped

\* The bytes of the content with their escapes, as far as the peer has room
\* for them, their header and one update
ContentSizeToSend(c) ==
    LET escaped == EscapedSize(c.content)
        room == c.peerBufferSize - 2 * HeaderSize
    IN  IF c.total /= 0 \/ room <= 0 THEN 0
        ELSE IF escaped >= room THEN room ELSE escaped

GoStateConnectedSendingContent(c, size) ==
    SendData([Emplace(c, "ConnectedSendingContent") EXCEPT
                    !.total = size, !.peerBufferSize = @ - (size + HeaderSize)],
             Header(Content, size), "header")

\* StateConnected::EvaluatePendingSend; in the other states it does nothing.
EvaluatePendingSend(c) ==
    IF c.state /= "ConnectedIdle" THEN c
    ELSE IF UpdatePossible(c) THEN GoStateSendingUpdate(c)
    ELSE IF c.content /= << >> /\ ContentSizeToSend(c) /= 0
         THEN GoStateConnectedSendingContent(c, ContentSizeToSend(c))
    ELSE c

GoStateConnectedIdle(c) == EvaluatePendingSend(Emplace(c, "ConnectedIdle"))

\* The bytes up to the first one to escape, or that one with its escape
SendEscapedContent(c) ==
    LET plain == {n \in 1 .. Len(c.content) :
                    n <= c.total /\ \A i \in 1 .. n : ~IsEscapedByte(c.content[i])}
        n == Cardinality(plain)
    IN  IF c.content = << >> THEN c
        ELSE IF n = 0
        THEN SendData([c EXCEPT !.raw = 1, !.partial = 2],
                      <<Escape, c.content[1]>>, "content")
        ELSE SendData([c EXCEPT !.raw = n, !.partial = n],
                      SubSeq(c.content, 1, n), "content")

AllocatedSendStream(c) ==
    Schedule([c EXCEPT !.sendStreamAvailable = FALSE, !.pendingSendStream = FALSE],
             "SendStreamAvailable")

\* Mutant: whoever waits for the stream is forgotten.
AllocatableToNobody(c) == [c EXCEPT !.sendStreamAvailable = TRUE]

SendStreamAllocatable(c) ==
    IF c.pendingSendStream THEN AllocatedSendStream(c)
                           ELSE [c EXCEPT !.sendStreamAvailable = TRUE]

ResetConnection(c) == GoStateInitSizeRequest([c EXCEPT !.sendStreamAvailable = TRUE])

\* StateConnected::Reset
ResetConnected(c) == ResetConnection([c EXCEPT !.content = << >>])

\* Reset of the state, which the states that send put off
Reset(c) ==
    CASE c.state = "InitSizeRequest" -> c
      [] c.state \in {"InitSizeResponseRequest", "InitSizeResponse"} ->
            IF c.sendInProgress THEN [c EXCEPT !.resetAfterSend = TRUE]
                                ELSE GoStateInitSizeRequest(c)
      [] c.state = "ConnectedIdle" -> ResetConnected(c)
      [] c.state \in SendingStates -> [c EXCEPT !.resetAfterSend = TRUE]

AfterSending(c) == IF c.resetAfterSend THEN ResetConnected(c) ELSE GoStateConnectedIdle(c)

\* The completions of SendData; c has no other in progress.
RequestSent(c) ==
    LET d == [c EXCEPT !.sendInProgress = FALSE] IN
    IF c.responseRequestAfterSend THEN GoStateInitSizeResponseRequest(d)
    ELSE IF c.responseAfterSend THEN GoStateInitSizeResponse(d)
    ELSE [d EXCEPT !.timer = TRUE]

ResponseRequestSent(c) ==
    LET d == [c EXCEPT !.sendInProgress = FALSE] IN
    IF c.responseRequestAfterSend THEN GoStateInitSizeResponseRequest(d) ELSE d

ResponseSent(c) ==
    IF c.responseRequestAfterSend THEN GoStateInitSizeResponseRequest(c) ELSE GoStateConnectedIdle(c)

PartialContentSent(c) ==
    LET d == [c EXCEPT !.content = SubSeq(@, c.raw + 1, Len(@)), !.total = @ - c.partial] IN
    IF d.total /= 0 THEN SendEscapedContent(d)
    ELSE AfterSending(IF d.content = << >> THEN SendStreamAllocatable(d) ELSE d)

UpdateSent(c) == AfterSending([c EXCEPT !.updateInProgress = FALSE])

SendDone(c) ==
    LET d == [c EXCEPT !.done = "none"] IN
    CASE c.done = "request" -> RequestSent(d)
      [] c.done = "responseRequest" -> ResponseRequestSent(d)
      [] c.done = "response" -> ResponseSent(d)
      [] c.done = "header" -> SendEscapedContent(d)
      [] c.done = "content" -> PartialContentSent(d)
      [] c.done = "update" -> UpdateSent(d)

AccumulateWindowUpdateSize(c, n) ==
    IF Connected(c) THEN [c EXCEPT !.accumulated = @ + n] ELSE c

\* The header h, per state.  What a state of the handshake does not
\* expect it ignores, but for a SizeUpdate.
StateInit(c, h) == IF h[1] = SizeUpdate THEN Reset(c) ELSE c

StateInitSizeRequest(c, h) ==
    CASE h[1] = SizeRequest ->
            IF c.sendInProgress THEN [c EXCEPT !.responseRequestAfterSend = TRUE]
                                ELSE GoStateInitSizeResponseRequest(c)
      [] h[1] = SizeResponseRequest ->
            LET d == [c EXCEPT !.peerBufferSize = Size(h)] IN
            IF c.sendInProgress THEN [d EXCEPT !.responseAfterSend = TRUE]
                                ELSE GoStateInitSizeResponse(d)
      [] OTHER -> StateInit(c, h)

StateInitSizeResponseRequest(c, h) ==
    CASE h[1] = SizeRequest ->
            IF c.sendInProgress THEN [c EXCEPT !.responseRequestAfterSend = TRUE]
                                ELSE GoStateInitSizeResponseRequest(c)
      [] h[1] = SizeResponse -> GoStateConnectedIdle([c EXCEPT !.peerBufferSize = Size(h)])
      [] OTHER -> StateInit(c, h)

StateInitSizeResponse(c, h) ==
    IF h[1] = SizeRequest THEN [c EXCEPT !.responseRequestAfterSend = TRUE] ELSE StateInit(c, h)

StateConnected(c, h) ==
    IF h[1] = SizeUpdate THEN [c EXCEPT !.peerBufferSize = @ + Size(h)] ELSE Reset(c)

ProcessHeader(c, h) ==
    CASE h[1] = Content -> [c EXCEPT !.contentToReceive = Size(h)]
      [] h[1] /= Content /\ c.state = "InitSizeRequest" -> StateInitSizeRequest(c, h)
      [] h[1] /= Content /\ c.state = "InitSizeResponseRequest" -> StateInitSizeResponseRequest(c, h)
      [] h[1] /= Content /\ c.state = "InitSizeResponse" -> StateInitSizeResponse(c, h)
      [] h[1] /= Content /\ Connected(c) -> StateConnected(c, h)

\* A byte of a header: TryConstructHeader, TryProcessHeader
HeaderByteReceived(c, b) ==
    LET h == Append(c.messageHeader, b)
        d == [AccumulateWindowUpdateSize(c, 1) EXCEPT
                    !.messageHeader = IF IsDone(h) THEN << >> ELSE h]
    IN  IF ~IsDone(h) THEN d
        ELSE IF IsFailed(h) THEN Reset(d)
        ELSE ProcessHeader(d, h)

NotifyObserverDataReceived(c) ==
    IF c.observerNotified THEN c
    ELSE Schedule([c EXCEPT !.observerNotified = TRUE], "Read")

\* A byte where content is expected: ContentReceived, CopyEscapedContent.  A
\* header where the content should be is not consumed.
Unescaped(c, b) == IsHeaderByte(b) /\ ~c.isEscapeSeen
\* Mutant: the escapes are content too.
ReceivedWithEscapes(c, b) ==
    NotifyObserverDataReceived([c EXCEPT !.contentToReceive = @ - 1, !.received = Append(@, b)])

ContentReceived(c, b) ==
    LET d == NotifyObserverDataReceived([c EXCEPT !.contentToReceive = @ - 1]) IN
    CASE ~Connected(c) \/ Unescaped(c, b) ->
            LET e == [c EXCEPT !.contentToReceive = 0] IN
            IF Connected(c) THEN Reset(e) ELSE e
      [] Connected(c) /\ b = Escape /\ ~c.isEscapeSeen ->
            AccumulateWindowUpdateSize([d EXCEPT !.isEscapeSeen = TRUE], 1)
      [] OTHER -> [d EXCEPT !.received = Append(@, b), !.isEscapeSeen = FALSE]

-----------------------------------------------------------------------------

Off == [state |-> "Off", sendInProgress |-> FALSE, timer |-> FALSE,
        responseRequestAfterSend |-> FALSE, responseAfterSend |-> FALSE,
        resetAfterSend |-> FALSE, send |-> << >>, done |-> "none", orphan |-> FALSE,
        scheduled |-> << >>, peerBufferSize |-> 0, accumulated |-> 0,
        updateInProgress |-> FALSE, content |-> << >>, total |-> 0, raw |-> 0, partial |-> 0,
        sendStreamAvailable |-> TRUE, pendingSendStream |-> FALSE,
        contentToReceive |-> 0, messageHeader |-> << >>, isEscapeSeen |-> FALSE,
        received |-> << >>, observerNotified |-> FALSE]

Init ==
    /\ connection = [p \in Peers |-> Off]
    /\ line = [p \in Peers |-> << >>]
    /\ queue = [p \in Peers |-> << >>]
    /\ events = [p \in Peers |-> << >>]
    /\ client = [p \in Peers |-> [filled |-> 0, waits |-> FALSE, got |-> << >>]]
    /\ overflow = FALSE
    /\ faults = 0 /\ restarts = 0

\* The connection of p becomes c, which may have started to send and have
\* scheduled; rest is what was scheduled before.
Becomes(p, c, rest) ==
    /\ connection' = [connection EXCEPT ![p] = [c EXCEPT !.send = << >>, !.scheduled = << >>]]
    /\ line' = IF c.send = << >> THEN line ELSE [line EXCEPT ![p] = c.send]
    /\ events' = [events EXCEPT ![p] = rest \o c.scheduled]

Silent == \A p \in Peers : line[p] = << >> /\ queue[p] = << >> /\ events[p] = << >>

\* A peer is switched on
Construct(p) ==
    /\ Apart => Silent
    /\ Becomes(p, GoStateInitSizeRequest(Off), << >>)
    /\ queue' = [queue EXCEPT ![p] = << >>]
    /\ client' = [client EXCEPT ![p].waits = FALSE]
    /\ UNCHANGED <<overflow, faults>>

Start(p) == connection[p].state = "Off" /\ Construct(p) /\ UNCHANGED restarts

\* A peer is switched off and on again.
Restart(p) ==
    /\ connection[p].state /= "Off" /\ restarts < MaxRestarts
    /\ restarts' = restarts + 1
    /\ Construct(p)

\* What a fault leaves of what p sends
Damaged(p) ==
    (IF connection[p].done \in Lost THEN {<< >>} ELSE {}) \cup
    (IF connection[p].done \in Lossy THEN {RemoveAt(line[p], i) : i \in DOMAIN line[p]} ELSE {})

\* The bytes of a SendData are transmitted, not all of them perhaps.  A peer
\* that is off hears nothing.
Transmit(p) ==
    LET q == Other(p)
        arrives(bytes) ==
            /\ queue' = [queue EXCEPT ![q] = IF connection[q].state = "Off" THEN @ ELSE @ \o bytes]
            /\ overflow' = (Len(queue'[q]) > BufferSize)
            /\ events' = [events EXCEPT ![p] = Append(@, "Completed"),
                    ![q] = IF queue'[q] = << >> \/ Contains(@, "DataReceived") THEN @
                           ELSE Append(@, "DataReceived")]
    IN  /\ line[p] /= << >>
        /\ \/ arrives(line[p]) /\ UNCHANGED faults
           \/ /\ faults < MaxFaults
              /\ \E bytes \in Damaged(p) : arrives(bytes)
              /\ faults' = faults + 1
        /\ line' = [line EXCEPT ![p] = << >>]
        /\ UNCHANGED <<connection, client, restarts>>

Dispatches(p, event) == events[p] /= << >> /\ Head(events[p]) = event

Completed(p) ==
    /\ Dispatches(p, "Completed")
    /\ Becomes(p, SendDone(connection[p]), Tail(events[p]))
    /\ UNCHANGED <<queue, client, overflow, bounds>>

\* The window request timer: in its second, whatever is under way ends.
RequestAgain(p) ==
    /\ connection[p].timer
    /\ Silent
    /\ Becomes(p, SendWindowSizeRequest([connection[p] EXCEPT !.timer = FALSE]), events[p])
    /\ UNCHANGED <<queue, client, overflow, bounds>>

\* One iteration of the loop of DataReceived
DataReceived(p) ==
    LET c == connection[p]
        b == Head(queue[p])
        content == c.contentToReceive > 0
        rest == IF content /\ Connected(c) /\ Unescaped(c, b) THEN queue[p] ELSE Tail(queue[p])
    IN  /\ Dispatches(p, "DataReceived")
        /\ Becomes(p, EvaluatePendingSend(IF content THEN ContentReceived(c, b)
                                                     ELSE HeaderByteReceived(c, b)),
                   IF rest = << >> THEN Tail(events[p]) ELSE events[p])
        /\ queue' = [queue EXCEPT ![p] = rest]
        /\ UNCHANGED <<client, overflow, bounds>>

-----------------------------------------------------------------------------
(* The client: the ConnectionObserver *)

RequestSendStream(p) ==
    /\ ~Dispatches(p, "DataReceived")
    /\ connection[p].state /= "Off"
    /\ ~client[p].waits
    /\ client[p].filled < Len(Chunks[p])
    /\ client' = [client EXCEPT ![p].waits = TRUE]
    /\ LET c == connection[p] IN
       Becomes(p, IF c.sendStreamAvailable THEN AllocatedSendStream(c)
                                           ELSE [c EXCEPT !.pendingSendStream = TRUE],
               events[p])
    /\ UNCHANGED <<queue, overflow, bounds>>

\* The client writes its next chunk and lets go of the stream:
\* SendStreamFilled.
SendStreamAvailable(p) ==
    /\ Dispatches(p, "SendStreamAvailable")
    /\ client' = [client EXCEPT ![p].waits = FALSE, ![p].filled = @ + 1]
    /\ Becomes(p, Schedule([connection[p] EXCEPT !.content = Chunks[p][client[p].filled + 1]],
                           "EvaluatePendingSend"),
               Tail(events[p]))
    /\ UNCHANGED <<queue, overflow, bounds>>

Evaluate(p) ==
    /\ Dispatches(p, "EvaluatePendingSend")
    /\ Becomes(p, EvaluatePendingSend(connection[p]), Tail(events[p]))
    /\ UNCHANGED <<queue, client, overflow, bounds>>

\* StateConnected::AckReceived; in the other states it does nothing.
AckReceived(c) ==
    IF Connected(c)
    THEN EvaluatePendingSend(AccumulateWindowUpdateSize([c EXCEPT !.received = << >>],
                                                        Len(c.received)))
    ELSE c

\* The client takes a ReceiveStream, reads everything and acknowledges it.
ReadAndAck(p) ==
    /\ Dispatches(p, "Read")
    /\ client' = [client EXCEPT ![p].got = @ \o connection[p].received]
    /\ Becomes(p, AckReceived([connection[p] EXCEPT !.observerNotified = FALSE]), Tail(events[p]))
    /\ UNCHANGED <<queue, overflow, bounds>>

Dispatch(p) ==
    Completed(p) \/ DataReceived(p) \/ SendStreamAvailable(p) \/ Evaluate(p) \/ ReadAndAck(p)

\* What is still to be sent of a message is there, in the content.
InContent(c) == c.total \in 0 .. EscapedSize(c.content)

\* Nothing is said of what happens after an abort, with an orphan, or when
\* bytes outside the content are sent.
Alive == ~overflow /\ \A p \in Peers : ~connection[p].orphan /\ InContent(connection[p])

Next ==
    /\ Alive
    /\ \E p \in Peers :
        \/ Start(p) \/ Restart(p) \/ Transmit(p) \/ Dispatch(p) \/ RequestAgain(p) \/ RequestSendStream(p)

Spec == Init /\ [][Next]_vars

FairSpec ==
    /\ Spec
    /\ \A p \in Peers :
        /\ SF_vars(Alive /\ Start(p))
        /\ WF_vars(Alive /\ (Transmit(p) \/ Dispatch(p)))
        /\ WF_vars(Alive /\ RequestAgain(p)) /\ SF_vars(Alive /\ RequestSendStream(p))

-----------------------------------------------------------------------------
(* Properties *)

\* The members hold what their types allow: the sizes, which are unsigned in
\* the code, do not wrap (SendUpdate, SendContentWithSize).
TypeOK ==
    \A p \in Peers : LET c == connection[p] IN
        /\ c.state \in InitStates \cup ConnectedStates \cup {"Off"}
        /\ {c.peerBufferSize, c.accumulated, c.contentToReceive} \subseteq Nat
        /\ c.send = << >> /\ c.scheduled = << >>

\* A state is not replaced while the SendData it started is in progress: the
\* completion captures the state, and the driver can send one thing at a time.
NoOrphan == \A p \in Peers : ~connection[p].orphan

\* SendPartialContent sends what the header announced, from the content and
\* nothing else: totalContentSizeToSend comes down to zero.
SendsContent == \A p \in Peers : InContent(connection[p])

\* The flow control keeps the receive queue from overflowing, which ends the
\* program (the abort of the constructor's receive callback).
NoOverflow == ~overflow

\* The room p counts on, what it announced and has on its way, and what its
\* peer has not read or has not told p that it has read, fit the buffer of
\* its peer: no room is given away twice.
WindowCovered ==
    \A p \in Peers : LET c == connection[p] d == connection[Other(p)] IN
        Connected(c) /\ Connected(d) =>
            c.peerBufferSize + c.total - (IF c.done = "content" THEN c.partial ELSE 0)
              + Len(line[p]) + Len(queue[Other(p)]) + Len(d.received) + d.accumulated
              <= BufferSize

Sent(p) == FlattenSeq(Chunks[p])

\* The client reads what the client of the other peer wrote, whatever of it
\* had to be escaped, split or held back (CopyEscapedContent, AckReceived).
InOrder == \A p \in Peers : IsPrefix(client[p].got, Sent(Other(p)))

\* A connection that is made again may lose bytes; none is read twice or out
\* of order.  (The bytes of Sent differ from each other.)
NothingTwice ==
    \A p \in Peers : LET got == client[p].got
                          sent(i) == SelectInSeq(Sent(Other(p)), LAMBDA b : b = got[i])
                      IN  \A i, j \in DOMAIN got : i < j => sent(i) < sent(j)

\* Everything written arrives: nobody waits for room, for a stream or for an
\* update that the other does not send.
Arrives == \A p \in Peers : <>(client[p].got = Sent(Other(p)))

\* A client that asked for a stream gets it (pendingSendStream).
Granted == \A p \in Peers : client[p].waits ~> ~client[p].waits

\* Two peers that are on make a connection, whichever of them was switched on
\* or off last, and when a byte is lost.
Connects ==
    (\A p \in Peers : connection[p].state /= "Off") ~> (\A p \in Peers : Connected(connection[p]))

=============================================================================
