# TLA+ verification of EmbeddedInfraLib

EmbeddedInfraLib is a C++ library for embedded software without a heap and,
on most targets, without an operating system. Its programs are event driven:
one thread runs the event dispatcher, everything else reaches it by scheduling
actions, and an operation that takes time reports its end through a callback.
What is hard in it is therefore not computation but order: interrupts and
threads that strike between two accesses, callbacks that change what their
caller iterates over, peers that answer late, twice or not at all, and power
failures between two flash operations.

This directory holds TLA+ models of the parts in which that order matters,
the TLC configurations that check them and TLAPS proofs of the main results.

- [Inventory](#inventory)
- [Modules](#modules)
- [Models and code](#models-and-code)
- [Runs](#runs)
- [Fairness](#fairness)
- [Findings](#findings)
- [Proofs](#proofs)
- [What is not modelled](#what-is-not-modelled)
- [Plan](#plan)

## Inventory

The library's own code is in `infra`, `hal`, `services`, `lwip/lwip_cpp`,
`protobuf` and `upgrade`. `external`, `lwip/lwip-2.1.1` and `ccola` are
third-party code and build scripts, and are left aside, as are tests, test
doubles and examples. They are the greater part of the repository: lwIP, mbed
TLS, the protocol buffer compiler and the vendor's drivers have specifications
of their own, and are modelled only by what the library's code observes of them.

| component | state | operations | interacts by | what is hard | what makes it correct |
|---|---|---|---|---|---|
| EventDispatcher, EventDispatcherWithWeakPtr | ring of (function, flag), push and pop index, minimum capacity | Schedule from any context; Run, TryExecuteAction, Idle | everything schedules into it | producers race without a lock; overflow; lost wake-up | exactly once, in claim order; no shared slot; assertion only on overflow; every action executed |
| Dispatcher back ends (network, low power) | pipe, sets of sockets | RequestExecution, Idle | override of the dispatcher | wake-up between the test and the wait; lists changed while iterated | no lost wake-up |
| QueueForOneReaderOneIrqWriter | buffer, begin, end, notification flag | AddFromInterrupt (element, range), Get, operator[], ContiguousRange, Consume | interrupt to dispatcher, one event | lock-free access from both sides; wrapping; one notification | FIFO, views stay valid, no lost notification, at most one event |
| ClaimableResource | current claim, pending claims, flags of claimers | Claim, Release, destruction, ReEvaluateClaim | event per re-evaluation; used by flash, buses and CyclicStore | claim again while granted; destruction while waiting | one holder; none forgotten; none dangling; every wait ends |
| Multiple access (flash, I2C, SPI) | claimer, completion, session | operations of the bus | ClaimableResource | accesses of several clients; sessions over several transfers | one access at a time, sessions undisturbed, everybody's turn comes |
| SystemStateManager | two lists of participants, current state | RunStates, ReachedState | event per answer | participants that answer late or leave | no state is entered before all reached the previous one |
| Timer, TimerService | list of armed timers, iterator, next trigger, held update | Start, Cancel, Progressed | actions call back into the list | restart and cancel during the iteration | never early, none skipped, next trigger is the earliest |
| TickOnInterruptTimerService | tick count, ticks to the next notification, flag, system time | SystemTickInterrupt, ProcessTicks, NextTriggerChanged | interrupt, one event | ticks between any two accesses; width of the counter | a due timer triggers; one event at a time |
| Derived timer services | shift, factor, timer of the base service | Shift, Scale | a timer of the base service | two loops nested in each other; a shift while timers wait; division | triggers at the shifted time |
| Host timer services (bsd, windows) | thread, condition variable, next trigger | WaitForTrigger, NextTriggerChanged | thread to dispatcher | notification before the wait; quit before the wait | a due timer triggers; the destructor returns |
| ConfigurationStore | three blobs of flash, roles of two of them, lock count, write requested, write in progress | Recover, Write, Lock, Erase | completion of flash operations | power failure in every operation; held and merged writes | a confirmed configuration is never lost; recovery finds what is stored |
| CyclicStore | sectors and blocks with status bytes, start and end address | Add, AddPartial, Clear, Recover, Iterator | ClaimableResource, Sequencer, flash | power failure between status, length and data; iterators over erased sectors | order kept, only the oldest sector and the block in progress lost |
| Boot loaders, deployment to external flash | pack header with status bits, error code, images | Load, UpgradeFromPack, copying a pack | flash | power failure anywhere; two loaders read one status | old or new image, never a mixture; every pack comes to an end |
| ConnectionSerial | state of the handshake, windows, pending update | handshake, content, window update, reset | serial line, timers, queue | both sides start, reset and lose bytes | both get connected; the receive queue never overflows; content in order |
| Name lookup (bsd, windows) | list of lookups, current one, mutex, condition variable | Lookup, CancelLookup, completion | thread to dispatcher | cancel during a lookup; notification before the wait | every lookup ends, a cancelled one is not reported |
| DnsResolver, datagrams on lwIP | lookups, attempts, referrals, timer, exchange | Lookup, CancelLookup, DataReceived, time-out | datagrams | replies lost, late, repeated, cut; shortage of buffers | answers belong to their lookups; bounded queries; every lookup ends |
| Connection factories | clients that wait, Actions, connectors | Connect, CancelConnect, outcome | NameResolver, lwIP | callbacks that connect and cancel again | told once; no dangling reference; nobody waits for room that is there |
| Connections on lwIP | send buffers and their memory, retry, received data, window | RequestSendStream, Recv, Sent, Err, AckReceived, Close, Abort | callbacks of lwIP, events | memory lwIP still refers to; partial acknowledgements; ends from all sides | memory intact until acknowledged; order; window is room |
| Connections on sockets | two buffers, flags, connector | Receive, Send, Idle, Connect | dispatcher back end | partial sends; events of destroyed objects | promised room is there; nothing gets stuck |
| HttpServer | observer, waiting connection, request buffer, timers | accept, DataReceived, answers, idle close, take-over, Stop | Connection, pages | requests in pieces; late pages; one served connection | each request its own answer; a busy connection is left alone; everybody served |
| MqttClient | connector, client state, two timers | Connect, Publish, acknowledgements, time-outs | Connection, factory, broker | time-outs race answers; deferral | told once; timers guard exactly the waits; everything ends |
| Sequencer | position, stack of loops and conditions | Load, Step, While, ForEach, Continue | callbacks | Continue from inside a step | steps run in program order |
| Shared pointers, observers | counts, deleter | copy, reset, lock | destruction calls back | release in a destructor | destroyed once, not used afterwards |
| Containers, streams, syntax, echo generators, tracer | | | | sequential | |

`PROJECT.json` lists the components with their sources, and the hazards that
matter most with the line at which each bites and the properties that would
catch it. Hazards that the code does not meet are under [Findings](#findings).

## Modules

| module | what it is |
|---|---|
| `ActionQueue` | abstract: the bounded FIFO queue an event dispatcher promises to be |
| `EventDispatcher`, `EventDispatcherProofs` | the ring, access by access; implements `ActionQueue`; its theorems |
| `QueueForOneReaderOneIrqWriter` | the lock-free queue, access by access |
| `ClaimableResource`, `ClaimableResourceProofs` | the resource and its theorems |
| `MultipleAccess` | the clients of a flash, an I2C and an SPI bus, composed with `ClaimableResource` |
| `SystemStateManager` | states, participants and their answers |
| `TimerService` | Timer.cpp and TimerService.cpp as operators on a record, so that nested calls compose as in the code |
| `TickOnInterruptTimerService` | the service that the tick interrupt drives, composed with `TimerService` |
| `TimerServiceBsd` | the service of a host, with a thread, composed with `TimerService` |
| `DerivedTimerService` | a derived service on a base service: `TimerService` twice |
| `DurableConfiguration` | abstract: the stored configuration changes in one step to a newer one and a confirmed one stays |
| `ConfigurationStore` | blobs, locks, factory defaults and power failures; implements `DurableConfiguration` |
| `CyclicStore` | sectors and blocks, byte by byte, with iterators and power failures |
| `PackUpgrader`, `DeployPackToExternal` | the two boot loaders and the copying of a pack |
| `ConnectionSerial` | two peers and the line between them |
| `NameResolver` | abstract: a lookup is answered once, with its own address, unless it is cancelled, and ends |
| `NameLookup` | the resolver thread of a host |
| `DatagramExchangeLwIP`, `DnsResolver` | the exchange as operators on a record, and the resolver on top; implements `NameResolver` |
| `ConnectionFactoryLwIp`, `ConnectionFactoryWithNameResolver` | the connectors as operators on a record, and the factory on top of any `NameResolver` |
| `ConnectionLwIp`, `ConnectionBsd` | TCP connections on lwIP and on sockets |
| `HttpServer`, `MqttClient` | the two protocols with the richest control |
| `MCEventDispatcher`, `MCEvents`, `MCTimers`, `MCPowerFailures`, `MCCyclicStore`, `MCConnectionSerial`, `MCNames`, `MCConnections`, `MCProtocols` | instances for TLC |
| `EventsProofs`, `TimersProofs`, `PowerFailuresProofs`, `NamesProofs`, `ConnectionsProofs`, `ProtocolsProofs` | theorems about the components of the MC module of the same name, which they extend |

Most MC modules check several components that do not know each other, or one
component with several sets of constants, in one run. A variable `subject` (or
`exercise`) is chosen in the initial state and never changes; only the subject
takes steps, under the fairness that its module states, and the others stay in
their initial states. The state space is the disjoint union of the parts. A
property of such a run is the conjunction of what the parts promise; where a
part promises it only under some constants, it is conditional on the subject.

An operator whose comment begins with "Mutant:" is a definition with a
plausible mistake in it, which no specification uses. `PROJECT.json` names the
property that each mutant breaks when it replaces the definition after it:
evidence that the property depends on that line of code.

## Models and code

Common to all: calls and events that run on the dispatcher's thread are one
step each, with everything they call, unless another thread or an interrupt
can come in between; then they are split at every access to a shared variable.
A failed assertion that the build keeps stops everything (`aborted`, `fault`).
A record such as `dns` or `service` holds the members of one object, so that a
handler that calls another composes as a function of that record.

**EventDispatcher.** `Schedule` is split at every access to a shared variable:
the read of the push index, the compare-exchange (`ClaimSlot`, `LoseRace`),
the store of the function, the assertion, the store of the flag, the load and
the store of `minCapacity`, and `RequestExecution`. The dispatcher is split
the same way. `Procs` are the contexts that call Schedule; `Preempts` says
which context interrupts which and then runs Schedule to its end, so that one
module covers threads on several cores (`Preempts` empty) and a single core
with nested interrupts. `Blocking` chooses between an `Idle` that waits for
`RequestExecution`, as `EventDispatcherWithNetwork` does with a pipe, and the
base class's `Idle`, which returns. An action is represented by its ticket, the
number of claims before its own; `ticket`, `begun`, `claims`, `released`,
`executed` and `lowWater` are history variables that no guard of the code
reads, except that `begun` and `released` bound what callers have outstanding.
The spurious failure of a weak compare-exchange repeats the loop with the same
value and is a stuttering step.

**QueueForOneReaderOneIrqWriter.** Writer and reader are two processes whose
steps are the accesses to `contentsBegin`, `contentsEnd`, the buffer and the
flag. The n-th element added has the value n - 1, so that order, loss and
duplication are visible in the values. The preconditions that the code asserts
(not full, not empty, position within the size) are guards, since the callers
in the repository test them; a range is added if it fits or if the test in the
code refuses it. `view` remembers what `ContiguousRange` or `operator[]`
returned until the reader moves on.

**ClaimableResource.** `events` counts the ReEvaluateClaim events; the bound
`MaxEvents` stands for the size of the dispatcher's ring. The function passed
to Claim runs last in ClaimGranted, so what it does is one of the next steps.
A claimer may claim again while it is granted, as the code allows, and may be
destroyed in any state.

**MultipleAccess.** `Bus` chooses FlashMultipleAccess, I2cMultipleAccess or
SpiMultipleAccess. Each client has one access under way; for SPI a session
ends with the driver's `EndSession`, before or after `onDone`. With `Reenters`
a client starts its next access inside `onDone`.

**SystemStateManager.** A participant that was told a state answers once,
through an event. `Leavers` may be destroyed, with no answer under way; when
the one that leaves is the last the manager waited for, nothing makes the
manager go on, as in the code. `RunsAgain` lets RunStates be called a second
time.

**TimerService and TickOnInterruptTimerService.** The timers and the service
are a record. `TriggerTimer` is one iteration of the loop in `Progressed` up to
the call of the action; while `pc = "action"`, clients start and cancel timers
under the iteration. `Start` reads `Now()` and then sets the trigger time, with
ticks in between, and a repeating timer reads it again. `ProcessTicks` is split
at every access to the atomic variables; the interrupt handler runs to its end
between any two of them. `TickModulus` stands for 2^32, and the interrupt is
assumed not to overflow the counter before ProcessTicks runs (`CanTick`), which
the code sees to by asking for a notification after half of that. With
`RestartEarlier = FALSE` an armed timer is started again only for a time that
is not before the one it waits for.

**TimerServiceBsd.** The thread of TimerServiceBsd.cpp (TimerServiceWin.cpp is
the same code) locks, tests `quit`, waits until the next trigger and schedules
the loop over the timers; spurious wake-ups are included. The constructor
starts the thread before it gives `nextTrigger` its value. Timers are cancelled
before the service is destroyed.

**DerivedTimerService.** ScalableDerivedTimerService, of which
DerivedTimerService is the case of factor 1: one timer of the base service
(`Own`) waits for the earliest derived timer, and its action is the loop over
the derived timers, nested in the base's. The base is prompt: its time goes on
when all that is due has been triggered, as with the test's
PerfectTimerService. `nextTrigger` keeps its value when no timer waits; nothing
reads it then. `Fractions = FALSE` keeps trigger times to multiples of the
factor, `ActionsShift` lets an action shift the time.

**ConfigurationStore.** `op` is the flash operation in progress and the
continuation that its completion calls; each continuation is one action, with
everything it calls up to the next flash operation. Configurations are numbered
in the order in which the client makes them; an erased blob is `Nothing`, a
blob whose hash does not match is `Torn`. `Crash` may come at any moment: RAM
is reset, the blob of the operation in progress keeps its contents, gets the
new ones, or is torn. Writing over a blob that is not erased leaves it torn. A
client is assumed to call Erase on a store at rest only, since `hal::Flash`
performs one operation at a time and Erase does not check; Write and Lock are
called at any time after the recovery. The run has factory defaults; the
proofs also cover a store without them.

**CyclicStore.** The flash is a function from addresses to bytes, as far as
status bytes and lengths are concerned; a byte of data is the item it belongs
to. Each flash operation is one step and a power failure may leave any prefix
of it. Sectors have one size. A client does not Clear between the parts of an
item, and iterators are not used across Clear or after a recovery; copying an
iterator is left out, and the second mark in ErasePreviously (282-290) cannot
be reached. `CrashAfterMark` and `ReadAgain` admit two situations that the code
does not handle.

**PackUpgrader and DeployPackToExternal.** The status is the set of bits that
have been cleared, since flash only clears them. `SecondStageToRamLoader` and
`PackUpgrader` take turns as after a start of the system, the images are
written chunk by chunk, and the power may fail between any two writes.
Verification, decryption and the upgraders of images are abstracted to
their outcome. `Overrides` is the parameter of Load. DeployPackToExternal
writes the status (`MarkAsDeployed`) and tells its observer (`Done`) in two
steps; a status whose writing was cut short is the old one, the new one or
`"torn"`, since `readyToDeploy` and `deployed` differ in two bits. A chunk is
read and written in one step.

**ConnectionSerial.** Both peers, the line and the two clients. `Transmit`
delivers one SendData as a whole, whose completion the driver schedules
(external); DataReceived takes one byte per iteration. With `Apart`, as in the
run, the window request timer and a start or restart come only while the line
is silent, so that handshakes do not cross, and only requests are lost; crossed
requests and lost responses are findings. A
client reads everything there is and acknowledges in one event. `Lost` are
kinds of messages that may be lost as a whole, `Lossy` those that may lose a
byte. After an abort nothing happens. CloseAndDestroy and AbortAndDestroy abort
the program in the code; Peek and contiguous ranges are left out.

**NameLookup.** The thread, its mutex and condition variable (with spurious
wake-ups), the completions and the destructor. NameLookupDone is called with
the mutex held, so that a client must not call back; the clients of the model
do not. `MaxAhead` bounds the completions that spurious wake-ups pile up.

**DnsResolver.** The zone is truthful; replies may be lost, late, repeated or
cut short, may refer to name servers and follow aliases. Names are sequences of
labels, a label is a sequence of characters, because the comparison of a reply
with the host name goes label by label and prefix by prefix. The query id is
chosen together with a new exchange, once per lookup, so that it only tells
apart what the exchange tells apart, and is not a variable. A callback may look
up again. In `PromptNext` the exchange gives a stream before anything else
happens. A null result of Listen and names beyond 253 characters are left out.

**ConnectionFactoryWithNameResolver.** Clients, Actions and the connectors of
ConnectionFactoryLwIp; a lookup may end inside Lookup and a connection inside
Connect. With `CancelsActions` a client cancels at any time, otherwise only
while it waits for an Action. With `AllocationFails` there may be no room for
the ConnectionLwIp of an attempt that succeeds (`AllocationFailed`): `tcp_abort`
calls Error first, which tells the client and removes the connector, and
Connected then does both again on the connector that is gone. What that second
half does is undefined; the model records it in `fault`, and `FactorySafe`
promises what it says of Actions and clients up to there
(`RoomForConnections`).

**ConnectionLwIp.** One element of the allocator and one control block at a
time; lwIP (external) takes or refuses buffers, acknowledges any number of
bytes, and ends connections in the ways of `Endings`. The observer asks for one
stream at a time, reads in one go and gives its streams back in
ClosingConnection. A connection without a control block ignores Close and
Abort; what arrives before an observer is attached is not announced; unread
data is lost when the peer closes. `broken` collects the rules of lwIP that
were not kept, for the findings.

**ConnectionBsd.** Bytes are counted. One connection. `Roles` says who
connects, `Gives` when the factory attaches the observer, `BsdEndings` how
connections end. Send returns as soon as the socket would block, and looks for
room for a stream only when it has sent everything. An observer writes any part
of the stream it was given. ListenerBsd::Accept does not call SetNonBlocking:
whether an accepted socket blocks depends on the platform (on BSD it takes this
over from the listener, on Linux it does not) and is chosen from `Blocking`. On
one that does, `Waits` is the thread of the dispatcher that sits in recv or send
(`stuck`) until what it asked for is there. Safety is checked for both; that
everything settles is asked only of a socket that does not block. Connected and
Failed erase the connector from the list that Idle goes through, which then goes
on with what was freed (`fault` may become `"erased"`).

**HttpServer.** A request is a sequence of fragments of one size: the head,
which may announce a body or ask for 100-continue, and the body. TCP delivers
any prefix. `Polite` clients wait for the answer before the next request,
`Patient` ones for 100-continue. A page answers later or
takes the connection over; it is told nothing when the connection closes, goes
on working (`pages` counts them) and with `LateAnswers` answers on the observer
that is then in the same place (`PageAnswersLate`). The buffer is that of the
server: an observer finds it as the one before left it
(`ConnectedObserver(buffer)`), and only SendResponse and PrepareForNextRequest
empty it. A connection that found it in use is recorded in `spoilt`.
What the server promises to a connection it promises to those that are
`Undisturbed`: not spoilt, and without an answer of another's page; that it
does not to the others is a finding. A third connection replaces the one that
waits; a connection that waits when the server is stopped is never served, as
in the code.

**MqttClient.** A client publishes one message at a time, which the interface
asks of it. Packets arrive in halves; the broker may answer something else or
nothing, but, as the protocol demands, sends at most one packet for each it
gets and no PubAck that was not asked for. (`StateConnected::DataReceived`
calls PublishDone for any PubAck, MqttClientImpl.cpp:250-252, so that one that
was not asked for would end the publication in progress.) The return code of
ConAck is not looked at by the code. `Defers` lets the factory keep the
function that creates the observer, `Retries` lets it connect again in the call
that tells it of a failure.

## Runs

| run | instance | states | shows |
|---|---|---|---|
| `dispatcher_threads` | 3 threads, 2 slots, 3 actions, at most 2 outstanding, Idle waits | 46 088 | order, the inductive invariant with exclusive slots, no lost wake-up, refinement of `ActionQueue` with its fairness |
| `dispatcher_interrupts` | 2 interrupt levels, 2 slots, 5 actions, up to 4 outstanding | 48 720 | the assertion fires only on overflow; `MinCapacity` is never too low |
| `events` | queue: buffer of 4, 7 elements; 3 claimers, 4 events, three buses; 3 participants, one leaves, 3 states | 23 331 | FIFO, views, notification; exclusion, nobody forgotten, nobody dangling, sessions undisturbed; states in step; everybody's turn comes |
| `timers` | one single shot, one repeating timer; ticks of 2 units, a counter of 16 values, 4 ticks, 3 starts; a host thread; a derived service with a shift, factor 2 and another user of the base | 214 813 | never early, none forgotten, due timers trigger |
| `power_failures` | 3 configurations, 2 locks, 2 failures; 10 packs of up to 4 images, 3 failures; copies of 1, 6 and 7 units into 6 | 41 648 | durability, refinement of `DurableConfiguration`, recovery, held writes; old or new images; verified packs only; every upgrade ends |
| `cyclic_store` | 3 sectors of 9 bytes, items of 1 and 2 bytes, 6 items, in parts too, 1 failure at any byte, 1 Clear; an iterator while the store is filled | 233 467 | only erased flash written, oldest first, recovery keeps items, scans complete and in order, every operation ends |
| `serial` | buffers of 10 and 12 bytes; a chunk larger than the window, both directions; escapes and a restart; lost requests | 110 564 | no overflow, no room twice, read as written, peers connect, content arrives |
| `names` | a thread with 2 results; DNS with 2 servers, referrals, an alias and a circular alias, 2 attempts; 3 clients, 2 Actions, 1 connector, failing allocations | 130 521 | answered once and not after a cancellation, bounded queries, refinement of `NameResolver`, told once, everything ends |
| `connections` | lwIP: 3 buffers of up to 2, window of 2, five endings; sockets: buffers of 2 and 3, 5 bytes, both roles, blocking and not | 574 764 | memory, order, window; promised room; requests and data served |
| `protocols` | HTTP: 2 connections with long requests, take-over and Stop, 3 with single ones, bytes left in the buffer, late answers; MQTT: 3 connects, 4 publications | 959 235 | own answers, a busy connection is left alone, told once, timers guard the waits, everybody served |
| `dispatcher_overflow` | as `dispatcher_interrupts` with 3 outstanding | violation | an overflow that the assertion misses |
| `timers_lost` | a derived service with factor 3 and a duration of 1 | violation | a timer that is passed over |

Each of the passing runs takes less than two minutes with two workers.

Why the bounds are enough to be interesting: two slots and three actions wrap
the ring; five actions with four outstanding overflow it with both interrupt
levels active. Seven elements wrap a buffer of four, and ranges of up to four
elements end at, before and behind its end. Three claimers allow one that
holds, one that waits and one that leaves. Three starts suffice to start,
restart and start again from an action; a resolution of 2 with durations of 1
and 3 puts trigger times on and between ticks; with a counter of 16 values the
limit of half its range (7) is beyond the durations, so that ticks pass which
are not notified and `NextNotification` decides which is. Three configurations
allow a stored one, one being written and one that waits; a second power
failure strikes a recovery. Nine bytes hold a sector's status and one or two
blocks, with rests that are smaller than a header, and six items wrap around
three such sectors. A buffer of 10 is the smallest with which the flow control
does not stall, so that every window is tight. Two attempts, two servers and a
referral reach every branch of the resolver; three clients compete for two
Actions and one connector. Three buffers and partial acknowledgements put every
split of an acknowledgement in reach; a third HTTP connection replaces one that
waits.

Deadlock is checked in `dispatcher_threads`. In all other runs the system may
stop: after a failed assertion, when what the bounds allow has been done, or
when everything was delivered.

## Fairness

Stated in each module (`Fairness`, `FairSpec`, `PromptFairness`) and repeated
in the MC modules for the subject:

- `EventDispatcher`: a context inside Schedule finishes it, since no step of it
  waits, and the dispatcher's thread runs. Nothing is assumed about calls of
  Schedule or sockets.
- Queue: an interrupt handler that began finishes; the dispatcher runs the
  event; the callback loops until the queue is empty, as `Terminal.cpp:25` and
  `ConnectionSerial.cpp:105` do.
- Resource and buses: the dispatcher runs its events, and whoever was granted
  the resource releases it, which every client in the repository does when its
  operation completes; a driver completes transfers and ends sessions. Strong
  fairness is assumed of a client that ends its session, which others disable
  for a while.
- States: events run, and a participant that was told a state reaches it.
- Timers: the hardware ticks, Start and actions return. Host: both threads run,
  with strong fairness because neither keeps the mutex forever.
- Flash: operations complete, a client gives up its lock, the boot loaders run
  after a start. Power failures are never forced and never excluded.
- Serial: the driver delivers and the dispatcher runs (weak); the timer of the
  window request expires (weak); a peer that is off is started, and a client
  asks for a stream, although the other side disables both now and then (strong).
- Names: the thread and the dispatcher run; the exchange gives streams, the
  timer of a query expires, the pool of timers is given back to now and then
  (strong for the allocation from it); lookups and attempts of the factory end.
- lwIP and sockets: events run, an observer closes the writer it was given and
  reads, lwIP takes a buffer that it is offered again and again (strong), the
  peer acknowledges, the kernel goes on sending. Idle of the host's dispatcher
  is called only when its queue is empty, which an observer that asks for one
  stream after the other delays again and again (strong).
- HTTP and MQTT: events run, timers expire, pages answer, an attempt to connect
  ends. The broker owes nothing.

## Findings

Where the code does not do what its comments, assertions or tests, or those of
the library it uses, say. Two of them are runs:

1. `infra/event/EventDispatcher.cpp:27` (`dispatcher_overflow`). The
   assertion that a claimed slot is free and the store that occupies it are two
   steps. Interrupts that strike between them and wrap around the ring pass the
   assertion too; an action is overwritten and the program goes on. It takes an
   overflow of the ring, which is a mistake of the application, but the
   assertion is there to stop exactly that.
2. `infra/timer/ScalableDerivedTimerService.cpp:13` (`timers_lost`). The
   derived time at which a trigger is due is divided by the factor, and the
   division truncates: a timer whose duration is no multiple of the factor is
   not due yet when the derived service looks, and its own timer is not started
   again.

The others are stated as properties of the modules, with constants that admit
the situation; the runs keep the constants that exclude it, and thereby show
that nothing else goes wrong. To see one, model-check the module with the
constants given (other constants as in the runs or smaller) and the property
as the only one, under `Spec`, or under `FairSpec` for a temporal one. Paths of
tests are relative to the directory of the source.

**Timers** (`infra/timer`, `hal/bsd`)

| property, module | constants | source | what the code does |
|---|---|---|---|
| `DueTickNoticed`, TickOnInterruptTimerService | `RestartEarlier = TRUE`, `Durations = {1, 3, 5}`, `TickModulus = 16` | TimerService.cpp:46 | An armed timer that is not the next one and is started again for an earlier time triggers late, with the timer that was next (`test/TestTimer.cpp:11`). |
| `DerivedNeverLate`, DerivedTimerService | `RestartEarlier = TRUE`, `BaseTimers = {b1}` | TimerService.cpp:46 | The same line, reached by merely starting an earlier derived timer, which restarts the timer of the base. |
| `NotificationNotMissed`, TickOnInterruptTimerService | `TickModulus = 16` | TickOnInterruptTimerService.cpp:69 | The comment in line 64 promises that a tick which arrives during ProcessTicks is noticed; one between the comparison and the assignment is not, and is made up for at the next tick. |
| `ScaleKeepsTime`, DerivedTimerService | `Factors = {2, 3}` | ScalableDerivedTimerService.cpp:41 | Scale makes up for the new factor in `shift`, which is multiplied again: the derived time jumps. |
| `DerivedNeverEarly`, DerivedTimerService | `ActionsShift = TRUE`, `Shifts = {1, 3}` | DerivedTimerService.cpp:33 | A timer that is started in the loop over the timers, in which the time was shifted back, triggers early. |
| `DestructorReturns`, TimerServiceBsd | as in `timers` | TimerServiceBsd.cpp:17 | The destructor sets `quit` and notifies without the mutex: a thread between its test and its wait is not woken up and join hangs. |
| `NoEventLeft`, TimerServiceBsd | as in `timers` | TimerServiceBsd.cpp:53 | An event that the thread has scheduled refers to the service after its destruction. |

**Dispatcher, buses, states**

| property, module | constants | source | what the code does |
|---|---|---|---|
| `OneTransfer`, MultipleAccess | `Bus = "spi"`, `Reenters = TRUE` | services/util/SpiMultipleAccess.cpp:44 | A client that starts its next access in onDone, before EndSession, finds the claim of the transfer that ends; EndSession then releases it under the new transfer (`test/TestSpiMultipleAccess.cpp:35`, `:59`). |
| `CanRunAgain`, SystemStateManager | `RunsAgain = TRUE` | infra/event/SystemStateManager.cpp:38 | The assertion accepts a new sequence when the old one is at its last state, but a sequence that is complete is one further. |

**CyclicStore** (`services/util/CyclicStore.cpp`; 3 sectors)

| property | constants | line | what the code does |
|---|---|---|---|
| `ScanFindsAll` | a reader, `SectorSize = 6`, `MaxCrashes = 1`, `MaxBegins = 0` | 100 | When no sector is empty, Recover does not look for the end in the newest sector; what is added then is out of an iterator's reach (`test/TestCyclicStore.cpp:664`). |
| `RecoveryKeepsItems` | `CrashAfterMark = TRUE` | 259 | A power failure after firstInCycle was written to the next sector and before the erased one is used leaves what `test/TestCyclicStore.cpp:641` calls corrupt: everything is erased. |
| `EndInFlash` | `SectorSize = 6`, `MaxCrashes = 2` | 212 | Recovery skips an incomplete block at the end of the last sector without wrapping the address, as Add does in 336. |
| `IteratorsInFlash` | `SectorSize = 6`, `Lengths = {2}`, `PartialAdds = TRUE` | 451 | The iterator skips an incomplete block without wrapping, as it does in 422 for a complete one. |
| `IteratorsInFlash` | `SectorSize = 6`, `Lengths = {1}` | 444 | The step back over an empty header does not undo the step forward over the rest of a sector. |
| `ScanFindsAll` | `SectorSize = 7`, `ReadAgain = TRUE` | 501 | Reading the status of an empty sector clears firstSectorToRead: an iterator that found the store empty never returns an item (`test/TestCyclicStore.cpp:858`). |
| `NothingSkipped` | a reader, `MaxBegins = 0` | 493 | An iterator at the start of an empty sector is not told when that sector becomes the first one. |
| `NothingRepeated` | `SectorSize = 6`, `Lengths = {2}` | 476 | An iterator that has read everything is moved to the oldest item when its sector is erased (`test/TestCyclicStore.cpp:879`). |

**Upgrade** (`upgrade`)

| property, module | constants | source | what the code does |
|---|---|---|---|
| `WholeOrInvalid`, PackUpgrader | `Overrides = TRUE` | boot_loader/PackUpgrader.cpp:115 | The mark that a deployment has begun does not change the status of a pack that is deployed already: after a power failure nobody repairs the half-written images. |
| `ErrorCodeTold`, PackUpgrader | as in `power_failures` | boot_loader/PackUpgrader.cpp:127 | Between the status and the error code the power may fail: the pack is invalid without a code (`pack/UpgradePackHeader.hpp:40`). |
| `TooBigDoesNotDeploy`, DeployPackToExternal | `ToSize = 3` | deploy_pack_to_external/DeployPackToExternal.cpp:15 | The size of the pack is compared with the flash it comes from. |
| `CopyReported`, DeployPackToExternal | as in `power_failures` | deploy_pack_to_external/DeployPackToExternal.cpp:37 | When the power fails after the status has been written and before line 39, Done is never told; the next start tells NotDeployable. The status is written over `readyToDeploy` and differs in two bits: a write that is cut short leaves a status that is neither. |

**ConnectionSerial** (`services/network/ConnectionSerial.cpp`)

| property | constants | line | what the code does |
|---|---|---|---|
| `Connects` | nothing sent, `Apart = FALSE` | 330 | Requests that cross are both answered with a response request, for which nobody then sends a response. |
| `Connects` | nothing sent, `Lost = {"response"}`, `MaxFaults = 1` | 399 | A response that is lost is not asked for again. |
| `Arrives` | `BufferSize = 9` | 15 | The assertion admits a buffer with which both wait for each other: the sender needs more room than the receiver tells of. |
| `NoOverflow` | `MaxRestarts = 1`, `BothSend` | 23 | After a restart, a request is sent whatever is left of the window, and the whole buffer is told to be free. |
| `WindowCovered` | `MaxRestarts = 1`, `BothSend` | 163 | The room accumulated before a reset is told once more after it. |
| `SendsContent` | `OneEscapes`, `BufferSize = 10` | 482 | The last byte that fits may be half of an escape: the content is one longer than announced, and a size wraps. |
| `Granted` | one sends, `MaxRestarts = 1` | 165 | A reset makes the stream available without telling the client that waits for it. |
| `SendsContent` | one sends, `Lossy = {"response"}`, `MaxFaults = 1` | 165 | A reset makes the stream available while a client has one (`test/TestConnectionSerial.cpp:490`). |
| `NothingTwice` | one sends, `BufferSize = 14`, `Lossy = {"header"}`, `MaxFaults = 1` | 312 | An acknowledgement during the handshake is dropped, and the bytes are read again. |
| `NoOrphan` | nothing sent, `Lossy = {"responseRequest"}`, `MaxFaults = 1` | 432 | The state is replaced while its SendData is in progress. |

**Names** (`services/network`, `services/network_bsd`, `lwip/lwip_cpp`)

| property, module | constants | source | what the code does |
|---|---|---|---|
| `AnswersItsRequest`, NameLookup | `MaxRequests = 2` | NameLookupBsd.cpp:75 | A completion is compared with the lookup that is current when it runs: the answer to a cancelled lookup may go to the next one. |
| `EveryLookupEnds`, NameLookup | `MaxRequests = 2` | NameLookupBsd.cpp:55 | A completion that notifies before the thread waits is lost: the second lookup waits for a third. |
| `NeverAborts`, DnsResolver | as in the run, under `Spec` | DnsResolver.cpp:133 | The timer of the last query and its replies are alive while the next stream is awaited, and ask for it again, which aborts (`DatagramLwIp.cpp:298`). |
| `ControlOutlivesWriter`, DnsResolver | as in the run, under `Spec` | DatagramLwIp.cpp:40 | The control block is removed before the writer that sends with it. |
| `OtherHostIgnored`, DnsResolver | names `w.c` and `wh.c`, one an alias of the other | DnsResolver.cpp:440 | A label that begins like the host's and is shorter matches (`test/TestDnsResolver.cpp:423`). |
| `EveryConnectEnds`, ConnectionFactoryWithNameResolver | `CancelsActions = TRUE` | ConnectionFactoryWithNameResolver.cpp:36 | A cancelled Action stays in its place: after NumParallelActions cancellations nobody is connected any more. |
| `CancelsPending`, ConnectionFactoryWithNameResolver | `CancelsActions = TRUE` | ConnectionFactoryWithNameResolver.cpp:35 | The same Action is found, and its lookup cancelled, a second time. |
| `NoNullControl`, ConnectionFactoryWithNameResolver | `CancelsActions = TRUE` | ConnectionLwIp.cpp:318 | The destructor of a connector writes through `control` before it asks whether there is one. |
| `ToldOnce`, ConnectionFactoryWithNameResolver | `AllocationFails = TRUE` | ConnectionLwIp.cpp:362 | When there is no room for the connection, `tcp_abort` runs with the error callback still set: Error (370) tells the client `refused` and removes the connector, and lines 364 and 365 then tell it again and remove a connector that is gone. |

**Connections** (`lwip/lwip_cpp/ConnectionLwIp.cpp`, `services/network_bsd`)

| property, module | constants | source | what the code does |
|---|---|---|---|
| `AbortDestroys`, ConnectionLwIp | `Endings = {"abort"}`, `Debug = TRUE` | 172 | Err asserts that the error is a reset, but AbortAndDestroy gets there with ERR_ABRT. |
| `FreedPcbUntouched`, ConnectionLwIp | `Endings = {"timer"}` | 173 | Err writes to the control block, which lwIP has freed (`lwip/tcp.h:113`). |
| `ClosedPcbUntouched`, ConnectionLwIp | `Endings = {"close"}` | 57 | So does CloseAndDestroy after tcp_close (`core/tcp.c:340`). |
| `UnackedMemoryStays`, ConnectionLwIp | `Endings = {"close"}` | 91 | After CloseAndDestroy lwIP sends from memory that the next connection uses (`core/tcp_out.c:364`). |
| `AbortReported`, ConnectionLwIp | `Endings = {"fin"}` | 165 | Recv returns ERR_OK although the connection has been aborted in it (`core/tcp.c:631`). |
| `ControlThere`, ConnectionLwIp | `Endings = {"rst"}`, `KeepsFunction = TRUE` | 174 | An observer attached after a reset finds no control block. |
| `ObserverThere`, ConnectionBsd | `Gives = {"later"}` | ConnectionBsd.cpp:23 | Data is announced to an observer that is not there. |
| `FreedUntouched`, ConnectionBsd | `Gives = {"never"}` | ConnectionBsd.cpp:23 | The constructor's event has no weak reference, and runs on a connection that was destroyed. |
| `SocketIsOpen`, ConnectionBsd | `Roles = {"client"}` | ConnectionBsd.cpp:256 | The connector closes the socket that it has handed over. |
| `RefusedWhenRefused`, ConnectionBsd | `Roles = {"client"}` | EventDispatcherWithNetwork.cpp:194 | select is given no set of exceptions, but the set is tested: a connection that was made is reported as refused. |
| `ErasedUnused`, ConnectionBsd | `Roles = {"client"}` | EventDispatcherWithNetwork.cpp:190 | Connected and Failed erase the connector (52) while the range-for of Idle stands on it: the loop goes on with a list node that is freed. |
| `EverythingSettles`, ConnectionBsd | `Blocking = {TRUE}`, `Roles = {"server"}` | ConnectionBsd.cpp:222 | Accept does not call SetNonBlocking. Where an accepted socket does not take this over from the listener, the loop of Receive (99) waits in recv after the last byte, and the dispatcher with it, until the peer sends or closes. |

**Protocols** (`services/network`)

| property, module | constants | source | what the code does |
|---|---|---|---|
| `EachRequestItsAnswer`, HttpServer | `Requests = {"get", "long"}`, `BufferSize = 1` | HttpServer.cpp:189 | The rest of a request that was too long is taken for the next one. |
| `PageHasStream`, HttpServer | `Polite = FALSE`, `Requests = {"get", "post"}` | HttpServer.cpp:123 | Data that does not fit behind a request in progress is answered on the page's stream. |
| `EachRequestItsAnswer`, `PageHasStream`, HttpServer | `Undisturbed(c)` taken to be TRUE, `LateAnswers = FALSE`, others as in `protocols` | HttpServer.cpp:87 | The buffer is the server's (HttpServer.hpp:148), and only lines 151 and 255 empty it. A connection that ends half-way through a request leaves its bytes to the next one: a polite client gets the answer to another's request, or its body does not fit behind them. |
| `NotClosedWhenBusy`, HttpServer | the same, three connections, `Requests = {"expect", "long"}`, `BufferSize = 2`, `MaxRequests = 1` | HttpServer.cpp:123 | Behind bytes that were left, a body overruns the buffer while a page works: the observer becomes idle (255), and is closed for the connection that waits. |
| `EveryRequestAnswered`, HttpServer | the same, two connections, `Requests = {"get", "post", "long"}`, `BufferSize = 3`, `MaxRequests = 1` | HttpServer.cpp:102 | A head that was left announces more bytes than the next request has, which is never answered. |
| `EachRequestItsAnswer`, HttpServer | `Undisturbed(c)` taken to be TRUE, `LateAnswers = TRUE` | HttpServer.cpp:149 | A page is not told that its connection has ended. It answers on an observer that is gone, or on the one of another connection in the same storage. |
| `DoubleRequestCloses`, HttpServer | `Polite = FALSE` | HttpServer.cpp:255 | A second request in the same segment is taken for the body of the first (`test/TestHttpServer.cpp:135`). |
| `Continues`, HttpServer | `Patient = TRUE`, `Requests = {"expect"}` | HttpServer.cpp:158 | 100-continue is sent with the answer, and the answer waits for the body. |
| `DestroyedAtRest`, HttpServer | `Stops = TRUE`, `Lingers = TRUE` | HttpServer.hpp:286 | A connection that is accepted after Stop is served when the server is destroyed. |
| `ToldOnce`, MqttClient | `Defers = TRUE` | MqttClientImpl.cpp:163 | A factory that was told of a connection, and keeps the function, is told of a failure too. |
| `CanConnectAgain`, MqttClient | `Retries = TRUE` | MqttClientImpl.cpp:215 | A factory that connects again when told of a failure meets the client that still exists. |

## Proofs

All theorems hold for every value of the constants, within the assumptions
that are named. A module of proofs that extends an MC module speaks of a
component through the MC module's instance of it (`Queue!Spec`, `Thread!Spec`),
with the constants left open; what it proves is the property that the run
checks.

| theorem | what it proves |
|---|---|
| `TypeCorrect`, `DispatcherInvariant`, `Fifo`, `NoSlotShared`, `NoAbortWithinCapacity` | the dispatcher executes in order, once, and shares no slot |
| `DispatcherIsQueue` | every step of the ring is a step of `ActionQueue` or a stutter |
| `MinCapacityIsSound` | MinCapacity never reports fewer free slots than a claim found |
| `ResourceInvariant`, `ResourceExclusive`, `ResourceNeverForgets`, `ResourceNeverDangles` | the shared resource |
| `AccessIsSafe` | clients of a flash or a bus do not disturb each other |
| `StatesRunInStep` | SystemStateManager takes all participants along |
| `QueueIsSafe` | order, intact views and notices of the lock-free queue |
| `StoreInvariant`, `ConfirmedNeverLost`, `NeverTwoConfigurations`, `OnlyErasedBlobsWritten`, `FactoryDefaultsNeverLost`, `StoreImplementsDurable`, `RecoverLoadsStored` | the configuration store survives power failures |
| `UpgradeIsSafe`, `InvalidPackIsFinal` | so do upgrades |
| `LookupIsSafe` | a lookup on a host is answered once, and not after its cancellation |
| `FactoryIsSafe` | the connection factories make nobody wait beside free room and, while connections can be allocated, refer to no Action that is gone and tell a client once |
| `DnsIsSafe` | the DNS resolver forgets no lookup, is always woken up, and asks a bounded number of queries |
| `NoTimerTriggersEarly`, `NoTimerIsForgotten` | timers of all three services trigger not early, and somebody always waits for the next one |
| `BsdIsSafe` | the send stream of a connection on sockets fits, and is opened once |
| `LwIpIsSafe` | on lwIP, memory stays until it is acknowledged, buffers keep their order, and the window is the room |
| `MqttIsSafe` | the MQTT client answers once and waits with a timer |
| `HttpIsSafe`, `BusyIsNotClosed` | on a connection that the ones before left undisturbed, the HTTP server gives each request its own answer, and leaves it alone while a page works for it |

**EventDispatcherProofs**, for any set of contexts, any ring size and any
number of actions, under the assumption `MaxOutstanding <= Size` (callers have
at most as many actions outstanding as there are slots; beyond that the finding
above applies), which only `TypeCorrect` does without. FIFO order is not
inductive: a step of the dispatcher could execute anything that a slot holds.
`DispatcherInv` adds what every slot holds. The tickets from `released` to
`claims - 1` occupy consecutive slots, from the slot that is popped next
(`SlotOf`); a flagged slot holds the action with its ticket; a producer between
its claim and its publication has a ticket in that range, which no other has,
and its slot is not flagged; the slots beyond `claims` are not flagged. The
step that could break it is the claim: the ring has room because
`begun - released <= Size` and every context at the compare-exchange counts in
`begun`, which needs the cardinality of the set of such contexts
(`Exchanging`). From it follow `Fifo`, `NoSlotShared` and
`NoAbortWithinCapacity`.

`DispatcherIsQueue` is the safety part of the refinement that the run checks
(`QueueFair` adds the fairness). The contents of the abstract queue are the
tickets that were claimed and not executed yet (`Tickets`); a claim appends
one, the execution takes the first, and every other step stutters.
`MinCapacityIsSound` assumes `InterruptsMain`: the contexts other than the
dispatcher's own are interrupt handlers, which run to their end before it goes
on. Schedule computes the free capacity from the index that it claimed and from
`popIndex`, modulo the size; `CapacityInv` says that from the claim to this
computation `popIndex` stays where the claim found it, since the dispatcher
does not run meanwhile. With threads it can move on, and the property is not
claimed.

**ClaimableResourceProofs**, for any set of claimers. `ResourceInv` is the
run's invariant; the proof restates it as `ListInv` with
the facts about lists that appending, taking the head and erasing preserve
(lemmas on `Erase`, `Append` and `Tail`). It needs that the pending claims are
distinct, and that a claimer with a function to call is queued.

**EventsProofs.** *MultipleAccess*, for any set of clients and each of the
three buses: every operation does to the resource what one of the resource's
own steps does (`ResourceStep`), so `ListInv` comes from the module above.
`AccessInv` adds that who waits has an access to do, that the hardware works
for the holder of the resource, with its configurator (`TransfersInv`), and
that the session on a bus is that of the holder (`SessionInv`); one transfer at
a time follows because only the holder starts one, and it is idle. The theorem
assumes that no client starts an access in the callback that comes before
`EndSession` (`Reenters` is FALSE in `MCEvents`); with that, the finding above
applies. *SystemStateManager*, for any participants and any number of states,
with or without a second `RunStates`: `StatesInv` says for the time before,
during and after the run where every participant is; during the run, `previous`
holds those who work and those whose answer is under way, and no one else.
*QueueForOneReaderOneIrqWriter*, for any size of the buffer: `QueueInv` ties
the two indices to the counts of elements that were stored and removed
(`RingInv`), says what the buffer holds at every position between them
(`ContentsInv`), how far a writer or a reader is that was interrupted between
two accesses (`WriterInv`, `ReaderInv`), which positions a view that was handed
out covers (`ViewInv`), and that contents which are there are announced or
about to be (`NoticeInv`). Lemmas on the ring (`Pos...`) carry the arithmetic.

**TimersProofs**, for any timers, durations, resolution and width of the tick
counter, any shifts and factors. *TimerService*: `ServiceInv` says that the
list holds exactly the armed timers, each once, and that the iterator of the
loop stands on one of them or at the end. Registering a timer puts it in front
of the loop, unregistering moves the iterator on when it stands on the timer:
neither leaves a timer behind that the loop has yet to visit (`Ahead`,
`SameBut`). `NextInv` says that the next trigger time is that of the earliest
armed timer, or will be computed at the end of the loop; between the two halves
of a repeating timer's Start it may still be the old one (`HalfStarted`). That
there is an earliest time at all follows from the list being finite, by a
well-founded order on what is below it. *TickOnInterruptTimerService*:
`BookInv` ties flag, event and loop together, and says that what is due and not
ahead of the loop has not been triggered; `EarlyInv` that the trigger time of a
timer is its duration and one resolution after the time at which it was
started, in ticks that did happen; `NextTriggerInv` is `NextInv` between and
during the calls of Start.
*TimerServiceBsd*: `HostBookInv` for the service and `ThreadsInv` for who holds
the mutex and what `nextTrigger` is while the thread waits, has scheduled the
loop, or is being joined. *DerivedTimerService*: in `DerivedBookInv` the base's
timer is armed for no other time than that of `nextTrigger`, and what the loop
compares with has come; this alone shows that no derived timer triggers early,
whatever truncation does. In `DerivedWaitInv` the base's timer is armed while a
derived one waits; during the derived loop it is not, and the timer that was
next is ahead of the loop, so that the next trigger time changes when the loop
ends and NextTriggerChanged starts it again.

`NoTimerTriggersEarly` has no hypotheses. `NoTimerIsForgotten` assumes that
`RestartEarlier` is FALSE, that the trigger times of armed derived timers stay
multiples of the factor (`WholeTimes`), and that they stay before
`TimePoint::max()`, which means "no timer" (`TimesBelowNever`). With the first
or the second hypothesis dropped timers are lost, as the findings show. The
third holds when the clock is stopped early enough, the second always does with
factor 1, where every number is a multiple; with other factors `Fractions =
FALSE` sees to it when timers are started and the time is scaled, and a
repeating timer has to keep to it by its period.

**PowerFailuresProofs.** *ConfigurationStore*, for any number of
configurations, locks and power failures, with and without factory defaults.
`Durable` speaks of what a
recovery would find now; to be inductive it needs, for each flash operation in
progress, what the blobs and the RAM hold (`OperationInv`): while a blob is
written it was erased and the other one is no newer; while the old one is
erased the new one is complete and no older than any configuration whose
completion is reported next; during recovery no client has a write pending.
`VersionsInv` orders the versions and `FactoryInv` follows the defaults.
`StoreImplementsDurable` proves that every step implements a step of
`DurableConfiguration` or a stutter, with `stored` mapped to what a recovery
finds. `RecoverLoadsStored` needs in addition that no lock is held while a
recovery runs (`UnlockedInv`).
*PackUpgrader* and *DeployPackToExternal*, for any sectors and any number of
power failures. `UpgradeIsSafe` assumes that Load is not called with an
override (`~Overrides`), since the finding at PackUpgrader.cpp:115 applies with
one, and `FromSize <= ToSize`, since the code compares the size of the pack
with the flash that it comes from (DeployPackToExternal.cpp:15). `BootInv`
relates the status in flash to the position of the boot loader (`StatusInv`)
and to the sectors (`SectorsInv`): before the status says that deployment has
begun all sectors are old, once it says that the pack is deployed all are
complete, and in between those before the image in hand are, so that after a
power failure the boot loader begins again. `CopyInv` says how much of the pack
is copied at each step. `InvalidPackIsFinal` is an action property: from a
state in which the pack is marked invalid no step unmarks it, changes a sector
or marks the pack as deployed.

**NamesProofs**: *NameLookup*, for any set of results and any number of lookups,
cancellations and spurious wake-ups. That no answer comes after `CancelLookup`
is not inductive: a completion that stays scheduled compares `currentLookup`
with the front of the list only when it runs. `RequestsInv` says that whoever is
in the list is there once, with a request that was neither cancelled nor
reported; the completion reports the front of the list or nothing.
*ConnectionFactoryWithNameResolver* on *ConnectionFactoryLwIp*, for any set of
clients and any room in either. `FactoryInv` has a part for each layer:
`ConnectorsInv` says that ConnectionFactoryLwIp holds a place once, `ActionsInv`
that every place which the resolver or ConnectionFactoryLwIp refers to is that
of exactly one Action, and `WantedInv` that an Action at work is the only one of
its client, who is wanted and does not wait. The last is why a client is told
only what it wants to know; it holds until an assertion has failed, which
happens when a client cancels again while its cancelled Action is still in the
list (`CancelsPending` above), and the other parts hold beyond that.
`ActionsInv` and `WantedInv` hold until the allocation of a connection fails
(`RoomForConnections`), after which an Action may be gone that a connector
refers to; that nobody waits beside free room holds beyond that too.
`ActionsInv` and `WantedInv` take the places that are held as a parameter: while
a client is told the outcome its connector is still in the list, and a Connect
from within the callback may already use the place again. That a place is free
while there is room in `actions` is the pigeonhole principle. *DnsResolver*, for
any zone, aliases, servers and referrals. `DnsOk` says of an idle resolver that
its list is empty and that it holds neither an endpoint nor a timer, and of a
busy one that it waits for a stream or for a timer, works on a lookup that is
not in the list, and has asked no more than its attempts and recursions so far
account for: `Asking` counts the query whose stream is awaited, since a reply to
an earlier one may come first. Inside a handler less holds, `Between` two
lookups and `Working` on one, and each operator has a lemma that takes it from
one to the other. The records of a reply are read by a loop, of which the proof
needs the type of the result: that the values of a loop exist and stay in a set
follows from the least iteration at which they would not (`LoopExists`,
`LoopStaysIn`). A step aborts only when the exchange is asked for a second
stream (`AbortsOnSecond`), which excludes it under `PromptNext`.

**ConnectionsProofs**: *ConnectionBsd*, for buffers of any size, any number of
bytes, and sockets that block or do not. `PromiseKept` is preserved by
receiving and sending in any order because `StreamInv` knows which event opens
the stream that was promised (one, exactly while it is scheduled), `BytesInv`
accounts for every byte on its way in either direction, and `ConnectorInv` says
that a connector which is pending has told nothing. *ConnectionLwIp*, for any
number of buffers of any size and any window. `LwInv` says that at most one
buffer is with the observer or waits for another try, and none is asked for
meanwhile (`OneWaits`); where in `sendMemoryPool` the memory of every buffer
is, and that no two are the same (`Paired`); and that, as long as there is a
pcb, the units that are not acknowledged are those of `sendBuffers`, one buffer
after the other, and the window is the room in `receiveBuffer` (`Linked`). An
object that is gone leaves nothing for the next one (`Gone`). `SentLeaves` is
about the loop of Sent: it stops inside the first buffer that is not
acknowledged completely, and the buffers that are left cover exactly the units
that are left. The lengths are added up by a recursive function, and that there
is one, that it is the only one and that it grows is shown by the least number
for which it would not be so (`SumsExist`, `SameSums`, `SumsGrow`). That memory
is free while there is room in `sendMemoryPool` is the pigeonhole principle
again. The theorems are about behaviours whose subject is `"bsd"` and `"lwip"`;
the constants of the other two subjects are fixed in `MCConnections`.

**ProtocolsProofs**: *MqttClient*, for any number of connections and
publications, with factories that connect again at once or do not. `MqttInv`
says that a client exists exactly on an open connection (`ConnectorInv`) and
that one packet at a time is under way, as a request, as its answer or as what
is left of it in the buffer (`TrafficInv`), so that an acknowledgement can only
be that of the message in progress. The factory creates the observer at once
(`Defers` is FALSE): one that keeps the function is told twice, as the finding
says. *HttpServer*, for any number of connections and requests and a buffer of
any size, with pages that answer or take over and a server that stops, whether
it is destroyed at once or not. `HttpInv` follows every connection that is not
gone (`Underway`): all its requests are answered and nothing of them is left, or
all but the last are, and what was read, what has arrived and what is yet to be
sent are together the fragments of the last one, all of them in the buffer while
it is in progress. `ServingInv` says that a request is in progress exactly while
a page works on it or has taken the connection over, and then the connection is
not idle. The buffer may hold what earlier connections left in it, whatever
that is: its bound, the types and who waits for whom are proved for every
connection, and what is said of requests and answers (`RightOn`,
`InOrder`) for those that are `Undisturbed`, which is why the invariant has to
say that one which began with an empty buffer has nothing but its own fragments
in it. `UnderwayRead` is the core: whatever part arrives, the data is
complete exactly when nothing is yet to come, so that the parser never sees half
a request or two. The hypotheses are that clients wait for their answers
(`Polite`) and that no request is longer than the buffer by more than one
fragment (`RequestsFit`); without the one, a second request is answered on the
stream of a page, without the other, the rest of a request is taken for the next
one, as the findings on `PageHasStream` and `EachRequestItsAnswer` say.
`HttpIsSafe` is about behaviours whose subject is `"http"`; the constants of
`"serving"` are fixed in `MCProtocols`.

Only model-checked, and out of this prover's reach: liveness, and the fairness
in the refinements of `ActionQueue` and `NameResolver` (there is no ENABLED).
Only model-checked, since what they say is computed by following chains of
lengths through the flash, which needs an induction over data for each:
`StoreSafe`, `ScanComplete` and `RecoveryKeepsItems` of CyclicStore. (Where a
recursive function was enough, as in ConnectionLwIp, an argument by the least
counterexample takes the place of the induction.) Only model-checked, and not
attempted: `FlowControlled` and `ReadAsWritten` of ConnectionSerial, and the
refinement of `NameResolver` by DnsResolver.

## What is not modelled

Per component, with the reasons, in `PROJECT.json`. The greater part of the
repository is third-party code (lwIP, mbed TLS, protocol buffers, vendor
drivers, test frameworks), which these models only meet at its interface. Of
the library itself, the containers, streams, parsers and formatters, the
generators of echo, the tracer and the value types are sequential and are
covered by unit tests; HAL interfaces have no behaviour; the flash drivers
issue commands to hardware.

In the modelled components: formatting, hashing, cryptography and serialization
are abstracted to their outcome; `TimerRepeating::Start` with
`triggerImmediately`, `SetResolution`, datagrams and listeners in
`EventDispatcherWithNetwork::Idle`, the weak pointers of
`EventDispatcherWithWeakPtr` (beyond an event that is dropped), multicast and
the Windows sockets are left out. Memory orders are sequentially consistent, as
the default of `std::atomic` in the code; the one variable that is shared
without being atomic, `minCapacity`, is read and written in separate steps.

## Plan

Done: the modules above with their runs, and the proofs above. To do, in this
order:

1. Proofs of `FlowControlled`, and of the safety part of `NameResolver` for
   DnsResolver.
2. SntpClient and WebSocket on a Connection, and the HTTP client on the
   connection factory.
3. Datagrams on sockets, with the rest of `EventDispatcherWithNetwork::Idle`.
