-------------------- MODULE QueueForOneReaderOneIrqWriter --------------------
(***************************************************************************)
(* infra/event/QueueForOneReaderOneIrqWriter.hpp: a ring buffer that one   *)
(* writer (an interrupt handler, or a receive thread) fills and one reader *)
(* (an action of the event dispatcher) empties, without locks.  The writer *)
(* schedules at most one notification at a time.                           *)
(*                                                                         *)
(* Steps of the writer and of the reader interleave at every access to a   *)
(* shared variable; an interrupt handler that runs to completion is the    *)
(* special case in which the writer's steps are adjacent.  The n-th        *)
(* element added has the value n - 1.                                      *)
(***************************************************************************)
EXTENDS Integers, Sequences

CONSTANTS
    N,           \* buffer.size(): one more than the elements that fit
    MaxElements  \* bound on the elements added

NAssumption == N \in Nat /\ N >= 2
MaxElementsAssumption == MaxElements \in Nat

VARIABLES
    buffer,
    contentsBegin,
    contentsEnd,
    notificationScheduled,
    scheduled,   \* DataAvailable events in the event dispatcher
    wpc,         \* where the writer is in AddFromInterrupt
    chunk,       \* elements of a range copied and not yet in the contents
    rest,        \* elements of a range to be copied after the wrap
    rpc,         \* where the reader is
    amount,      \* Consume's parameter
    view,        \* what ContiguousRange or operator[] returned last
    stored,      \* history: elements stored in the buffer
    added,       \* history: elements contentsEnd has passed
    removed,     \* history: elements contentsBegin has passed
    got          \* history: what Get returned and Consume consumed

writerVars == <<wpc, chunk, rest, stored, added>>
readerVars == <<rpc, amount, view, removed, got>>
vars == <<buffer, contentsBegin, contentsEnd, notificationScheduled, scheduled,
          writerVars, readerVars>>

Indices == 0 .. N - 1
Lesser(a, b) == IF a <= b THEN a ELSE b

Empty == contentsBegin = contentsEnd

Full ==
    /\ contentsEnd = N - 1 \/ contentsBegin = contentsEnd + 1
    /\ contentsEnd /= N - 1 \/ contentsBegin = 0

EmptySize == N - 1

Size ==
    IF Full THEN EmptySize
    ELSE IF contentsEnd >= contentsBegin THEN contentsEnd - contentsBegin
    ELSE (N - contentsBegin) + contentsEnd

\* The index of the element at a position of the contents
Position(offset) ==
    IF contentsBegin + offset >= N THEN offset - (N - contentsBegin)
    ELSE contentsBegin + offset

NoView == [start |-> 0, length |-> 0, element |-> 0]

(***************************************************************************)
(* The type of every variable.                                             *)
(***************************************************************************)
TypeOK ==
    /\ buffer \in [Indices -> Int]
    /\ contentsBegin \in Indices
    /\ contentsEnd \in Indices
    /\ notificationScheduled \in BOOLEAN
    /\ scheduled \in Nat
    /\ wpc \in {"idle", "advance", "rangeAdvance", "rangeCopy", "rangeFinish", "notify", "exchange"}
    /\ chunk \in Nat
    /\ rest \in Nat
    /\ rpc \in {"idle", "callback", "advance", "consume", "consumeRest"}
    /\ amount \in Nat
    /\ view \in [start : Nat, length : Nat, element : Nat]
    /\ stored \in Nat
    /\ added \in Nat
    /\ removed \in Nat
    /\ got \in Seq(Int)

Init ==
    /\ buffer = [i \in Indices |-> -1]
    /\ contentsBegin = 0
    /\ contentsEnd = 0
    /\ notificationScheduled = FALSE
    /\ scheduled = 0
    /\ wpc = "idle"
    /\ chunk = 0
    /\ rest = 0
    /\ rpc = "idle"
    /\ amount = 0
    /\ view = NoView
    /\ stored = 0
    /\ added = 0
    /\ removed = 0
    /\ got = << >>

-----------------------------------------------------------------------------
(* The writer *)

\* AddFromInterrupt(element) up to the store; its assertion is the caller's
\* obligation, which ConnectionSerial.cpp:20 discharges by testing Full.
AddElement ==
    /\ wpc = "idle"
    /\ stored < MaxElements
    /\ ~Full
    /\ buffer' = [buffer EXCEPT ![contentsEnd] = stored]
    /\ stored' = stored + 1
    /\ wpc' = "advance"
    /\ UNCHANGED <<contentsBegin, contentsEnd, notificationScheduled, scheduled,
                   chunk, rest, added, readerVars>>

AdvanceEnd ==
    /\ wpc = "advance"
    /\ contentsEnd' = IF contentsEnd = N - 1 THEN 0 ELSE contentsEnd + 1
    /\ added' = added + 1
    /\ wpc' = "notify"
    /\ UNCHANGED <<buffer, contentsBegin, notificationScheduled, scheduled,
                   chunk, rest, stored, readerVars>>

\* buffer with count elements copied to it from index on
Copied(index, count) ==
    [i \in Indices |-> IF i \in index .. index + count - 1
                       THEN stored + (i - index) ELSE buffer[i]]

\* Mutant: the test that refuses a range lets it reach contentsBegin.
HasRoomOffByOne(copySize) ==
    contentsBegin <= contentsEnd \/ contentsBegin >= contentsEnd + copySize

\* The test that makes AddFromInterrupt(range) return without adding anything
HasRoom(copySize) ==
    contentsBegin <= contentsEnd \/ contentsBegin > contentsEnd + copySize

\* AddFromInterrupt(range), up to the first copy.  The caller adds no more
\* than fits, or a range that HasRoom refuses, and then nothing happens.
AddRange(size) ==
    /\ wpc = "idle"
    /\ stored + size <= MaxElements
    /\ LET copySize == Lesser(size, N - contentsEnd) IN
        /\ HasRoom(copySize)
        /\ size <= EmptySize - Size \/ ~(contentsBegin <= contentsEnd)
        /\ buffer' = Copied(contentsEnd, copySize)
        /\ stored' = stored + copySize
        /\ chunk' = copySize
        /\ rest' = size - copySize
    /\ wpc' = "rangeAdvance"
    /\ UNCHANGED <<contentsBegin, contentsEnd, notificationScheduled, scheduled, added, readerVars>>

RangeAdvance ==
    /\ wpc = "rangeAdvance"
    /\ contentsEnd' = IF contentsEnd = N - chunk THEN 0 ELSE contentsEnd + chunk
    /\ added' = added + chunk
    /\ wpc' = "rangeCopy"
    /\ UNCHANGED <<buffer, contentsBegin, notificationScheduled, scheduled,
                   chunk, rest, stored, readerVars>>

RangeCopyRest ==
    /\ wpc = "rangeCopy"
    /\ buffer' = Copied(contentsEnd, rest)
    /\ stored' = stored + rest
    /\ chunk' = rest
    /\ rest' = 0
    /\ wpc' = "rangeFinish"
    /\ UNCHANGED <<contentsBegin, contentsEnd, notificationScheduled, scheduled, added, readerVars>>

RangeAdvanceRest ==
    /\ wpc = "rangeFinish"
    /\ contentsEnd' = contentsEnd + chunk
    /\ added' = added + chunk
    /\ wpc' = "notify"
    /\ UNCHANGED <<buffer, contentsBegin, notificationScheduled, scheduled,
                   chunk, rest, stored, readerVars>>

\* NotifyDataAvailable, the test of Empty
NotifyDataAvailable ==
    /\ wpc = "notify"
    /\ wpc' = IF Empty THEN "idle" ELSE "exchange"
    /\ UNCHANGED <<buffer, contentsBegin, contentsEnd, notificationScheduled, scheduled,
                   chunk, rest, stored, added, readerVars>>

\* NotifyDataAvailable, the exchange and the call of Schedule
ScheduleDataAvailable ==
    /\ wpc = "exchange"
    /\ wpc' = "idle"
    /\ notificationScheduled' = TRUE
    /\ scheduled' = IF notificationScheduled THEN scheduled ELSE scheduled + 1
    /\ UNCHANGED <<buffer, contentsBegin, contentsEnd, chunk, rest, stored, added, readerVars>>

ContinueWriter ==
    \/ AdvanceEnd
    \/ RangeAdvance
    \/ RangeCopyRest
    \/ RangeAdvanceRest
    \/ NotifyDataAvailable
    \/ ScheduleDataAvailable

Writer ==
    \/ AddElement
    \/ \E size \in 1 .. N : AddRange(size)
    \/ ContinueWriter

-----------------------------------------------------------------------------
(* The reader *)

\* Mutant: notificationScheduled is not cleared.
DataAvailableKeepsFlag ==
    /\ rpc = "idle"
    /\ scheduled > 0
    /\ scheduled' = scheduled - 1
    /\ rpc' = "callback"
    /\ UNCHANGED <<buffer, contentsBegin, contentsEnd, notificationScheduled, writerVars,
                   amount, view, removed, got>>

\* The event dispatcher executes DataAvailable, which calls onDataAvailable.
DataAvailable ==
    /\ rpc = "idle"
    /\ scheduled > 0
    /\ scheduled' = scheduled - 1
    /\ notificationScheduled' = FALSE
    /\ rpc' = "callback"
    /\ UNCHANGED <<buffer, contentsBegin, contentsEnd, writerVars, amount, view, removed, got>>

Get ==
    /\ rpc = "callback"
    /\ ~Empty
    /\ got' = Append(got, buffer[contentsBegin])
    /\ view' = NoView
    /\ rpc' = "advance"
    /\ UNCHANGED <<buffer, contentsBegin, contentsEnd, notificationScheduled, scheduled,
                   writerVars, amount, removed>>

\* Get, after it read the element
AdvanceBegin ==
    /\ rpc = "advance"
    /\ contentsBegin' = IF contentsBegin = N - 1 THEN 0 ELSE contentsBegin + 1
    /\ removed' = removed + 1
    /\ rpc' = "callback"
    /\ UNCHANGED <<buffer, contentsEnd, notificationScheduled, scheduled,
                   writerVars, amount, view, got>>

Index(position) ==
    /\ rpc = "callback"
    /\ position < Size
    /\ view' = [start |-> Position(position), length |-> 1, element |-> removed + position]
    /\ UNCHANGED <<buffer, contentsBegin, contentsEnd, notificationScheduled, scheduled,
                   writerVars, rpc, amount, removed, got>>

ContiguousRange(offset) ==
    /\ rpc = "callback"
    /\ offset <= Size
    /\ LET begin == Position(offset)
           end == IF contentsEnd < begin THEN N ELSE contentsEnd
       IN view' = [start |-> begin, length |-> end - begin, element |-> removed + offset]
    /\ UNCHANGED <<buffer, contentsBegin, contentsEnd, notificationScheduled, scheduled,
                   writerVars, rpc, amount, removed, got>>

\* A call of Consume for elements the reader has looked at
Consume(count) ==
    /\ rpc = "callback"
    /\ count <= Size
    /\ got' = got \o [i \in 1 .. count |-> buffer[Position(i - 1)]]
    /\ amount' = count
    /\ view' = NoView
    /\ rpc' = "consume"
    /\ UNCHANGED <<buffer, contentsBegin, contentsEnd, notificationScheduled, scheduled,
                   writerVars, removed>>

ConsumeWrap ==
    /\ rpc = "consume"
    /\ contentsBegin + amount >= N
    /\ amount' = amount - (N - contentsBegin)
    /\ removed' = removed + (N - contentsBegin)
    /\ contentsBegin' = 0
    /\ rpc' = "consumeRest"
    /\ UNCHANGED <<buffer, contentsEnd, notificationScheduled, scheduled, writerVars, view, got>>

ConsumeAdvance ==
    /\ \/ rpc = "consumeRest"
       \/ rpc = "consume" /\ contentsBegin + amount < N
    /\ contentsBegin' = contentsBegin + amount
    /\ removed' = removed + amount
    /\ amount' = 0
    /\ rpc' = "callback"
    /\ UNCHANGED <<buffer, contentsEnd, notificationScheduled, scheduled, writerVars, view, got>>

\* onDataAvailable returns once it finds the queue empty, as the loops in
\* Terminal.cpp:25 and ConnectionSerial.cpp:105 do.
CallbackReturns ==
    /\ rpc = "callback"
    /\ Empty
    /\ view' = NoView
    /\ rpc' = "idle"
    /\ UNCHANGED <<buffer, contentsBegin, contentsEnd, notificationScheduled, scheduled,
                   writerVars, amount, removed, got>>

Reader ==
    \/ DataAvailable
    \/ Get
    \/ AdvanceBegin
    \/ \E count \in 1 .. EmptySize : Consume(count)
    \/ ConsumeWrap
    \/ ConsumeAdvance
    \/ CallbackReturns

Look ==
    \/ \E position \in 0 .. EmptySize - 1 : Index(position)
    \/ \E offset \in 0 .. EmptySize : ContiguousRange(offset)

Next == Writer \/ Reader \/ Look

Spec == Init /\ [][Next]_vars

(***************************************************************************)
(* The writer finishes what it began, the event dispatcher executes what   *)
(* was scheduled, and the callback empties the queue.                      *)
(***************************************************************************)
FairSpec == Spec /\ WF_vars(ContinueWriter) /\ WF_vars(Reader)

-----------------------------------------------------------------------------
(* Properties *)

(***************************************************************************)
(* The reader gets the elements in the order in which they were added,     *)
(* none lost and none twice.                                               *)
(***************************************************************************)
Fifo == \A i \in 1 .. Len(got) : got[i] = i - 1

(***************************************************************************)
(* What ContiguousRange and operator[] returned stays valid until the      *)
(* reader consumes it: the writer never writes into it.                    *)
(***************************************************************************)
ViewIntact ==
    \A j \in 0 .. view.length - 1 :
        view.start + j \in Indices /\ buffer[view.start + j] = view.element + j

(***************************************************************************)
(* Size never counts an element that was not added and never misses one    *)
(* that was, also between the two stores of Consume.                       *)
(***************************************************************************)
SizeIsContents == Size = added - removed /\ Size <= EmptySize

(***************************************************************************)
(* No lost notification: contents the reader is not looking at are         *)
(* announced, or the writer is about to announce them.                     *)
(***************************************************************************)
ContentsAnnounced ==
    ~Empty => scheduled > 0 \/ rpc /= "idle" \/ wpc /= "idle"

(***************************************************************************)
(* At most one notification is in the event dispatcher, so that the queue  *)
(* takes one of its slots however fast the interrupts come.                *)
(***************************************************************************)
OneNotification == scheduled <= 1

(***************************************************************************)
(* What the queue promises, whatever interrupt strikes between two         *)
(* accesses of the reader.                                                 *)
(***************************************************************************)
QueueSafe ==
    TypeOK /\ Fifo /\ ViewIntact /\ SizeIsContents /\ ContentsAnnounced /\ OneNotification

(***************************************************************************)
(* Every element added reaches the reader.                                 *)
(***************************************************************************)
EveryElementDelivered == added > Len(got) ~> Len(got) = added
=============================================================================
