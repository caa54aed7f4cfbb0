--------------------------- MODULE ConnectionLwIp ---------------------------
(***************************************************************************)
(* lwip/lwip_cpp/ConnectionLwIp: a services::Connection on a TCP control   *)
(* block (pcb) of lwIP.  lwIP calls Recv, Sent and Err; the observer asks  *)
(* for streams; everything runs on one thread, and what is scheduled comes *)
(* later.  lwIP does not copy the data it is given (tcp_write without      *)
(* TCP_WRITE_FLAG_COPY), it refers to sendMemoryPool until the peer        *)
(* acknowledges it.                                                        *)
(*                                                                         *)
(* One element of the allocator is modelled, with the connections that are *)
(* made in it one after the other.  An observer asks for one send stream   *)
(* at a time, reads what it has received in one go, and closes its stream  *)
(* in ClosingConnection.                                                   *)
(***************************************************************************)
EXTENDS Naturals, Sequences, SequencesExt

CONSTANTS
    QueueLen,       \* tcpSndQueueLen
    MaxSegment,     \* TCP_MSS, in units of data
    Wnd,            \* tcpWnd, in the same units
    Endings,        \* how connections end: "close", "abort", "fin", "rst", "timer"
    KeepsFunction,  \* the factory may attach an observer later (HttpServer.hpp:304)
    Debug           \* assert is compiled in

ASSUME SizesAssumption == {QueueLen, MaxSegment, Wnd} \subseteq Nat \ {0}
ASSUME KindsAssumption ==
    /\ Endings \subseteq {"close", "abort", "fin", "rst", "timer"}
    /\ KeepsFunction \in BOOLEAN /\ Debug \in BOOLEAN

VARIABLES
    object,             \* "none", "held" by the factory's function, "owned"
    control,            \* control is not nullptr
    pcb,                \* lwIP's: "none", "open", "finReceived", "closing"
    requestedSendSize,
    granting,           \* the buffer of the scheduled SendStreamAvailable
    writer,             \* the buffer of streamWriter
    sendBuffer,         \* the buffer that waits for retrySendTimer
    sendBuffers,
    sendMemoryPool,     \* the memory in use, oldest first
    unacked,            \* lwIP's: the memory behind each unit that is not acknowledged
    owed,               \* history: buffers that were written and lwIP did not take yet
    receiveBuffer,      \* units received and not consumed
    window,             \* lwIP's: units the peer may still send
    dataReceivedScheduled,
    news,               \* history: an observer has units that it was not told of
    broken,             \* history: the rules of lwIP that were broken
    aborted             \* an assertion failed

send == <<requestedSendSize, granting, writer, sendBuffer, sendBuffers, sendMemoryPool, owed>>
receive == <<receiveBuffer, dataReceivedScheduled, news>>
vars == <<object, control, pcb, send, unacked, receive, window, broken, aborted>>

Memory == 1 .. QueueLen

NoBuffer == [mem |-> 0, size |-> 0]

Buffers == [mem : Memory, size : 1 .. MaxSegment] \cup {NoBuffer}

TypeOK ==
    /\ object \in {"none", "held", "owned"}
    /\ control \in BOOLEAN /\ aborted \in BOOLEAN
    /\ pcb \in {"none", "open", "finReceived", "closing"}
    /\ requestedSendSize \in 0 .. MaxSegment
    /\ granting \in Buffers /\ writer \in Buffers /\ sendBuffer \in Buffers
    /\ sendBuffers \in Seq(Buffers) /\ Len(sendBuffers) <= QueueLen
    /\ sendMemoryPool \in Seq(Memory) /\ Len(sendMemoryPool) <= QueueLen
    /\ unacked \in Seq(Memory)
    /\ owed \in 0 .. QueueLen
    /\ receiveBuffer \in 0 .. Wnd /\ window \in 0 .. Wnd
    /\ dataReceivedScheduled \in BOOLEAN /\ news \in BOOLEAN
    /\ broken \subseteq {"freedPcb", "closedPcb", "nullControl", "okAfterAbort"}

Init ==
    /\ object = "none" /\ control = FALSE /\ pcb = "none" /\ aborted = FALSE
    /\ requestedSendSize = 0
    /\ granting = NoBuffer /\ writer = NoBuffer /\ sendBuffer = NoBuffer
    /\ sendBuffers = << >> /\ sendMemoryPool = << >>
    /\ owed = 0
    /\ receiveBuffer = 0 /\ dataReceivedScheduled = FALSE /\ news = FALSE
    /\ unacked = << >> /\ window = Wnd
    /\ broken = {}

Break(rules) == broken' = broken \cup rules

Exists == object /= "none" /\ ~aborted

Connected == object = "owned" /\ ~aborted

PcbOpen == pcb \in {"open", "finReceived"}
-----------------------------------------------------------------------------
(* Making and ending connections *)

\* ListenerLwIp::Accept and ConnectorLwIp::Connected: the factory attaches an
\* observer, or keeps the function that does.  Without an observer the object
\* is gone again, and ERR_ABRT tells lwIP so.
Accept(how) ==
    /\ object = "none" /\ pcb = "none" /\ ~aborted
    /\ object' = how /\ control' = TRUE /\ pcb' = "open"
    /\ window' = Wnd
    /\ UNCHANGED <<send, unacked, receive, broken, aborted>>

\* The function is called: Attach, SetOwnership and Connected
Attach ==
    /\ Exists /\ object = "held"
    /\ object' = "owned"
    /\ UNCHANGED <<control, pcb, send, unacked, receive, window, broken, aborted>>

\* ~ConnectionLwIp.  Nothing of the object is left for the next one.
Destruct ==
    /\ object' = "none" /\ control' = FALSE
    /\ requestedSendSize' = 0
    /\ granting' = NoBuffer /\ writer' = NoBuffer /\ sendBuffer' = NoBuffer
    /\ sendBuffers' = << >> /\ sendMemoryPool' = << >>
    /\ owed' = 0
    /\ receiveBuffer' = 0 /\ dataReceivedScheduled' = FALSE /\ news' = FALSE

\* The function is dropped, as when the next connection is accepted
Drop ==
    /\ Exists /\ object = "held"
    /\ Destruct
    /\ pcb' = "none" /\ unacked' = << >>
    /\ UNCHANGED <<window, broken, aborted>>

\* ResetOwnership: the observer closes its stream, with the data in it, and
\* the object is destructed.  Nothing happens to an object without observer.
\* The caller says what becomes of the pcb.
ResetOwnership ==
    IF object = "owned"
    THEN Destruct
    ELSE UNCHANGED <<object, send, receive>>

ErrAssertion(err) == err \in {"RST", "CLSD"}

\* Err.  The pcb is already freed when the error is ERR_ABRT.
Err(err) ==
    IF Debug /\ ~ErrAssertion(err)
    THEN /\ aborted' = TRUE
         /\ UNCHANGED <<object, control, pcb, send, unacked, receive, window, broken>>
    ELSE /\ control' = FALSE
         /\ ResetOwnership
         /\ pcb' = "none" /\ unacked' = << >>
         /\ Break(IF err = "ABRT" THEN {"freedPcb"} ELSE {})
         /\ UNCHANGED <<window, aborted>>

\* The peer resets the connection, or a timer of lwIP gives it up
Reset ==
    /\ Exists /\ PcbOpen /\ control
    /\ \/ "rst" \in Endings /\ Err("RST")
       \/ "timer" \in Endings /\ Err("ABRT")

AbortAndDestroy ==
    /\ Connected /\ control /\ "abort" \in Endings
    /\ Err("ABRT")

\* tcp_close frees the pcb at once when data was not consumed.  When it has no
\* memory, the connection is aborted.
CloseAndDestroy ==
    /\ Connected /\ control /\ "close" \in Endings
    /\ \/ Err("ABRT")
       \/ /\ control' = FALSE
          /\ ResetOwnership
          /\ IF window /= Wnd
             THEN pcb' = "none" /\ unacked' = << >> /\ Break({"closedPcb"})
             ELSE pcb' = "closing" /\ UNCHANGED <<unacked, broken>>
          /\ UNCHANGED <<window, aborted>>

\* lwIP finishes a connection that was closed, once the peer has everything
Closed ==
    /\ pcb = "closing"
    /\ pcb' = "none" /\ unacked' = << >>
    /\ UNCHANGED <<object, control, send, receive, window, broken, aborted>>

\* Recv without data: the peer has closed.  The destructor aborts the pcb, and
\* lwIP goes on with it because Recv returns ERR_OK.
RecvClosed ==
    /\ Exists /\ pcb = "open" /\ control /\ "fin" \in Endings
    /\ ResetOwnership
    /\ IF object = "owned"
       THEN pcb' = "none" /\ unacked' = << >> /\ Break({"okAfterAbort"})
       ELSE pcb' = "finReceived" /\ UNCHANGED <<control, unacked, broken>>
    /\ UNCHANGED <<window, aborted>>
-----------------------------------------------------------------------------
(* Sending *)

CanAllocate(buffers, pool) ==
    Len(buffers) < QueueLen /\ Len(pool) < QueueLen /\ sendBuffer = NoBuffer

TryAllocateSendStream(size, buffers, pool) ==
    IF CanAllocate(buffers, pool)
    THEN LET mem == CHOOSE m \in Memory : m \notin Range(pool)
         IN /\ sendMemoryPool' = Append(pool, mem)
            /\ granting' = [mem |-> mem, size |-> size]
            /\ requestedSendSize' = 0
    ELSE /\ sendMemoryPool' = pool
         /\ requestedSendSize' = size
         /\ UNCHANGED granting

\* MaxSendStreamSize, which the assertion and the callers use, reads the pcb.
RequestSendStream(size) ==
    /\ Connected /\ requestedSendSize = 0 /\ granting = NoBuffer /\ writer = NoBuffer
    /\ IF control
       THEN TryAllocateSendStream(size, sendBuffers, sendMemoryPool) /\ UNCHANGED broken
       ELSE Break({"nullControl"}) /\ UNCHANGED <<requestedSendSize, granting, sendMemoryPool>>
    /\ UNCHANGED <<object, control, pcb, writer, sendBuffer, sendBuffers, unacked, owed,
                   receive, window, aborted>>

\* The event of TryAllocateSendStream
SendStreamAvailable ==
    /\ Connected /\ granting /= NoBuffer
    /\ writer' = granting /\ granting' = NoBuffer
    /\ UNCHANGED <<object, control, pcb, requestedSendSize, sendBuffer, sendBuffers,
                   sendMemoryPool, unacked, owed, receive, window, broken, aborted>>

\* tcp_write may fail; there is no pcb to write to once control is reset
SendBuffer(b, taken) ==
    IF taken
    THEN /\ unacked' = unacked \o [i \in 1 .. b.size |-> b.mem]
         /\ sendBuffers' = Append(sendBuffers, b)
         /\ sendBuffer' = NoBuffer
    ELSE /\ sendBuffer' = b
         /\ UNCHANGED <<unacked, sendBuffers>>

ReleaseMemory == Front(sendMemoryPool)

\* ~StreamWriterLwIp, after size units were written
CloseWriter(size, taken) ==
    /\ Connected /\ writer /= NoBuffer /\ size <= writer.size
    /\ taken => control
    /\ writer' = NoBuffer
    /\ IF size = 0
       THEN sendMemoryPool' = ReleaseMemory /\ UNCHANGED <<sendBuffer, sendBuffers, unacked, owed>>
       ELSE /\ SendBuffer([mem |-> writer.mem, size |-> size], taken)
            /\ owed' = IF taken THEN owed ELSE owed + 1
            /\ UNCHANGED sendMemoryPool
    /\ UNCHANGED <<object, control, pcb, requestedSendSize, granting, receive, window, broken,
                   aborted>>

\* retrySendTimer
RetrySend(taken) ==
    /\ Connected /\ sendBuffer /= NoBuffer
    /\ taken => control
    /\ SendBuffer(sendBuffer, taken)
    /\ owed' = IF taken THEN owed - 1 ELSE owed
    /\ UNCHANGED <<object, control, pcb, requestedSendSize, granting, writer, sendMemoryPool,
                   receive, window, broken, aborted>>

\* The units in the first k of the buffers, for every k
Sizes(buffers) ==
    LET total[k \in 0 .. Len(buffers)] == IF k = 0 THEN 0 ELSE total[k - 1] + buffers[k].size
    IN total

Size(k) == Sizes(sendBuffers)[k]

\* Mutant: a buffer is released when its first unit is acknowledged.
AcknowledgedEarly(len) == CHOOSE k \in 1 .. Len(sendBuffers) : Size(k - 1) < len /\ len <= Size(k)

\* The number of buffers that are acknowledged completely
Acknowledged(len) ==
    CHOOSE k \in 0 .. Len(sendBuffers) :
        Size(k) <= len /\ (k < Len(sendBuffers) => len < Size(k + 1))

\* What the loop of Sent leaves of the buffers
BuffersAfter(len) ==
    LET k == Acknowledged(len)
        rest == SubSeq(sendBuffers, k + 1, Len(sendBuffers))
    IN IF rest = << >> THEN rest ELSE [rest EXCEPT ![1].size = @ - (len - Size(k))]

TriesAgain == requestedSendSize /= 0

\* The peer acknowledges len units
Sent(len) ==
    /\ Exists /\ PcbOpen /\ control /\ len <= Len(unacked)
    /\ unacked' = SubSeq(unacked, len + 1, Len(unacked))
    /\ sendBuffers' = BuffersAfter(len)
    /\ LET k == Acknowledged(len)
           pool == SubSeq(sendMemoryPool, k + 1, Len(sendMemoryPool))
       IN IF TriesAgain
          THEN TryAllocateSendStream(requestedSendSize, BuffersAfter(len), pool)
          ELSE sendMemoryPool' = pool /\ UNCHANGED <<requestedSendSize, granting>>
    /\ UNCHANGED <<object, control, pcb, writer, sendBuffer, owed, receive, window, broken,
                   aborted>>
-----------------------------------------------------------------------------
(* Receiving *)

Schedules == ~dataReceivedScheduled /\ object = "owned"

\* Recv with data
Recv(size) ==
    /\ Exists /\ pcb = "open" /\ control /\ size <= window
    /\ window' = window - size
    /\ receiveBuffer' = receiveBuffer + size
    /\ news' = (news \/ object = "owned")
    /\ dataReceivedScheduled' = (dataReceivedScheduled \/ Schedules)
    /\ UNCHANGED <<object, control, pcb, send, unacked, broken, aborted>>

\* AckReceived after size units were read; without a pcb tcp_recved does nothing
ConsumeRead(size) ==
    /\ window' = IF control THEN window + size ELSE window
    /\ receiveBuffer' = receiveBuffer - size

\* The scheduled event; the observer consumes what it can use
DataReceived(size) ==
    /\ Connected /\ dataReceivedScheduled
    /\ size <= receiveBuffer
    /\ dataReceivedScheduled' = FALSE /\ news' = FALSE
    /\ ConsumeRead(size)
    /\ UNCHANGED <<object, control, pcb, send, unacked, broken, aborted>>

Next ==
    \/ Accept("owned")
    \/ KeepsFunction /\ (Accept("held") \/ Attach \/ Drop)
    \/ Reset \/ AbortAndDestroy \/ CloseAndDestroy \/ Closed \/ RecvClosed
    \/ \E size \in 1 .. MaxSegment : RequestSendStream(size)
    \/ \E len \in 1 .. QueueLen * MaxSegment : Sent(len)
    \/ SendStreamAvailable
    \/ \E size \in 0 .. MaxSegment, taken \in BOOLEAN : CloseWriter(size, taken)
    \/ \E taken \in BOOLEAN : RetrySend(taken)
    \/ \E size \in 1 .. Wnd : Recv(size)
    \/ \E size \in 0 .. Wnd : DataReceived(size)

\* The dispatcher executes its events, the timer tries again and lwIP has
\* memory once in a while, the peer acknowledges what it receives, and the
\* observer closes its streams.
Fairness ==
    /\ WF_vars(SendStreamAvailable)
    /\ WF_vars(\E size \in 0 .. MaxSegment, taken \in BOOLEAN : CloseWriter(size, taken))
    /\ SF_vars(RetrySend(TRUE))
    /\ WF_vars(\E len \in 1 .. QueueLen * MaxSegment : Sent(len))
    /\ WF_vars(\E size \in 0 .. Wnd : DataReceived(size))

Spec == Init /\ [][Next]_vars /\ Fairness
-----------------------------------------------------------------------------
(* Properties *)

Mems(s) == [i \in DOMAIN s |-> s[i].mem]
Mem(b) == IF b = NoBuffer THEN << >> ELSE <<b.mem>>

\* The memory in the pool is that of the buffers lwIP was given, then of the
\* buffer that is tried again, then of the stream that is or will be open, in
\* this order, and each has its own: Sent and the writer, which take it away
\* at either end, release their own and nobody else's.
MemoryPaired ==
    /\ IsInjective(sendMemoryPool)
    /\ sendMemoryPool = Mems(sendBuffers) \o Mem(sendBuffer) \o Mem(granting) \o Mem(writer)

\* The units have the memory of the buffers behind them, one after the other.
Covers(buffers, units) ==
    LET total == Sizes(buffers) IN
    /\ Len(units) = total[Len(buffers)]
    /\ \A k \in 1 .. Len(buffers) :
          \A i \in total[k - 1] + 1 .. total[k] : units[i] = buffers[k].mem

\* The buffers are exactly what lwIP refers to and the peer did not
\* acknowledge, whatever part of a buffer an acknowledgement covers, so that
\* the assertion of Sent (:181) holds and no memory is reused too early.
BuffersAreUnacked == Exists /\ control => Covers(sendBuffers, unacked)

\* What was written is given to lwIP or waits for another try: no buffer
\* overtakes or replaces one that lwIP refused.
NothingOvertaken == owed = (IF sendBuffer = NoBuffer THEN 0 ELSE 1)

\* The window that the peer sees is the room in receiveBuffer, which has a
\* fixed size.
WindowIsRoom == Exists /\ control => window = Wnd - receiveBuffer

\* What is received is announced to an observer that was there to see it.
DataAnnounced == Connected /\ news => dataReceivedScheduled

\* Every request for a send stream is granted, unless the connection ends.
EveryRequestGranted == requestedSendSize /= 0 ~> requestedSendSize = 0

\* "Err is called as a result, and this callback destroys this connection
\* object" (:64): no assertion stands in the way.
AbortDestroys == ~aborted

\* "The corresponding pcb is already freed when this callback is called!"
\* (tcp.h:113): Err does not touch it.
FreedPcbUntouched == "freedPcb" \notin broken

\* "It is therefore unsafe to reference it" (tcp.c:340): CloseAndDestroy does
\* not touch a pcb that tcp_close has freed.
ClosedPcbUntouched == "closedPcb" \notin broken

\* "make sure you always return ERR_ABRT" when tcp_abort was called in a
\* callback (tcp.c:631).
AbortReported == "okAfterAbort" \notin broken

\* "the memory behind dataptr must not change until the data is ACKed by the
\* remote host" (tcp_out.c:364): lwIP refers to the memory of an object that
\* exists.
UnackedMemoryStays == unacked /= << >> => object /= "none"

\* "assert(control != nullptr)" (:9): an observer never gets a connection
\* that has lost its pcb.
ControlThere == "nullControl" \notin broken
=============================================================================
