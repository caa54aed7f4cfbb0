---------------------------- MODULE CyclicStore ----------------------------
(***************************************************************************)
(* services/util/CyclicStore: a log in flash.  Blocks are added at the     *)
(* end; when the flash is full the sector with the oldest blocks is erased *)
(* and written again.  After a restart the store finds its beginning and   *)
(* its end in the status bytes of the sectors and the blocks.  Iterators   *)
(* read the blocks, oldest first, and are told when a sector is erased.    *)
(*                                                                         *)
(* The flash is an array of bytes, in sectors of one size.  The data of    *)
(* item n is the byte n, repeated.  A step of the store's sequencer that   *)
(* ends in WriteBuffer or EraseSectors is one action; Crash may happen     *)
(* after any number of the bytes of that operation.  Reading has no effect *)
(* and belongs to the step that uses what was read.                        *)
(***************************************************************************)
EXTENDS Integers, Sequences, FiniteSets, SequencesExt

CONSTANTS
    NumberOfSectors, SectorSize,
    Lengths,            \* lengths of items
    Iterators,          \* CyclicStore::Iterator objects
    AddressSpace,       \* addresses wrap around here, 2^32 in the code
    PartialAdds,        \* whether items are also added in two parts
    CrashAfterMark,     \* whether the power may fail between the mark of the
                        \* first sector and the status of the erased sector
    ReadAgain,          \* whether an iterator that found nothing reads again
    MaxItems, MaxCrashes, MaxClears, MaxBegins   \* bounds

ASSUME SectorsAssumption ==
    /\ NumberOfSectors \in Nat \ {0, 1}
    /\ SectorSize \in Nat
    /\ Lengths \subseteq Nat \ {0}
    /\ \A n \in Lengths : n + 4 <= SectorSize
ASSUME BytesAssumption ==
    /\ AddressSpace \in Nat
    /\ AddressSpace > 2 * NumberOfSectors * SectorSize
    /\ MaxItems \in 0 .. 126
ASSUME SwitchesAssumption == {PartialAdds, CrashAfterMark, ReadAgain} \subseteq BOOLEAN
ASSUME BoundsAssumption == {MaxCrashes, MaxClears, MaxBegins} \subseteq Nat

VARIABLES
    flash,
    store,          \* the members of CyclicStore
    step,           \* the step its sequencer, or that of an iterator, is at
    claims,         \* claims of the resource that wait, in order
    adding,         \* the range that Add was called with
    iterators,      \* the members of the Iterators
    items,          \* items begun so far
    clears, crashes, begins,
    confirmed,      \* history: items whose last onDone was called
    got,            \* history: what an Iterator returned since Begin
    lapped          \* history: Iterators that saw the first sector move on

vars == <<flash, store, step, claims, adding, iterators, items, clears,
          crashes, begins, confirmed, got, lapped>>

-----------------------------------------------------------------------------
(* hal::Flash *)

TotalSize == NumberOfSectors * SectorSize
Sector(address) == address \div SectorSize
Offset(address) == address % SectorSize
AtStartOfSector(address) == Offset(address) = 0

StartOfNextSectorCyclical(address) ==
    IF Sector(address) + 1 = NumberOfSectors THEN 0
                                             ELSE (Sector(address) + 1) * SectorSize

StartOfPreviousSectorCyclical(address) ==
    IF Sector(address) = 0 THEN TotalSize - SectorSize
                           ELSE (Sector(address) - 1) * SectorSize

Wrapped(address) == IF address = TotalSize THEN 0 ELSE address

\* What the driver returns outside of the flash is not specified.
Byte(address) == IF address \in DOMAIN flash THEN flash[address] ELSE 0

\* SectorStatus and BlockStatus
Empty == 255
Used == 254
FirstInCycle == 252
EmptyUntilEnd == 127
WritingLength == 254
WritingData == 252
DataReady == 248

HeaderSize == 3
BlockLength(address) == Byte(address + 1) + 256 * Byte(address + 2)

Write(address, bytes) == [at |-> address, bytes |-> bytes, erase |-> FALSE]
Erase(address, n) == [at |-> address, bytes |-> [i \in 1 .. n |-> Empty], erase |-> TRUE]

\* The flash after the first n bytes of an operation.  Writing clears bits:
\* of the bytes the store writes over another, the result is the smaller one.
Applied(op, n) ==
    [a \in DOMAIN flash |->
        IF a \notin op.at .. op.at + n - 1 THEN flash[a]
        ELSE LET byte == op.bytes[a - op.at + 1] IN
             IF op.erase \/ byte < flash[a] THEN byte ELSE flash[a]]

-----------------------------------------------------------------------------

Phases == {"searchingStartOrEmpty", "checkingAllUsed", "checkingUsedFollowedByEmpty",
           "checkingAllEmpty", "checkingAllUsedOrAllEmpty", "corrupt", "done"}

Steps == {"recoverSector", "recoverErase", "recoverEnd", "idle", "clear", "fill",
          "erase", "mark", "status", "writingLength", "length", "writingData",
          "data", "ready"}

NoRange == [item |-> 0, size |-> 0, total |-> 0]

Constructed ==
    [startAddress |-> 0, endAddress |-> 0, sectorIndex |-> 0,
     recoverPhase |-> "searchingStartOrEmpty", partialAddStarted |-> FALSE,
     remainingPartialSize |-> 0, partialSizeWritten |-> 0]

NewIterator ==
    [address |-> 0, loadStartAddressDelayed |-> TRUE, sectorStatus |-> Used,
     firstSectorToRead |-> TRUE, found |-> 0, reachedEnd |-> FALSE]

\* The constructor of CyclicStore begins to recover: on flash that was erased,
\* or, after a crash, on what is there.
Init ==
    /\ flash = [a \in 0 .. TotalSize - 1 |-> Empty]
    /\ store = Constructed
    /\ step = "recoverSector"
    /\ claims = << >>
    /\ adding = NoRange
    /\ iterators = [i \in Iterators |-> NewIterator]
    /\ items = 0 /\ clears = 0 /\ crashes = 0 /\ begins = 0
    /\ confirmed = {}
    /\ got = [i \in Iterators |-> << >>]
    /\ lapped = {}

Claims == {"add", "clear"} \cup Iterators

\* The operation on the flash that the current step does, or none at all.
Operation ==
    CASE step \in {"recoverErase", "clear"} -> Erase(0, TotalSize)
      [] step = "fill" -> Write(store.endAddress, <<EmptyUntilEnd>>)
      [] step = "erase" -> Erase(Sector(store.endAddress) * SectorSize, SectorSize)
      [] step = "mark" ->
            Write(StartOfNextSectorCyclical(store.endAddress), <<FirstInCycle>>)
      [] step = "status" ->
            Write(store.endAddress,
                  <<IF store.endAddress = store.startAddress THEN FirstInCycle ELSE Used>>)
      [] step = "writingLength" -> Write(store.endAddress, <<WritingLength>>)
      [] step = "length" -> Write(store.endAddress + 1, <<adding.total, 0>>)
      [] step = "writingData" ->
            Write(store.endAddress + store.partialSizeWritten, <<WritingData>>)
      [] step = "data" ->
            Write(store.endAddress + store.partialSizeWritten + HeaderSize,
                  [i \in 1 .. adding.size |-> adding.item])
      [] step = "ready" /\ store.remainingPartialSize = 0 ->
            Write(store.endAddress, <<DataReady>>)
      [] OTHER -> Write(0, << >>)

Perform == flash' = Applied(Operation, Len(Operation.bytes))

-----------------------------------------------------------------------------
(* Recover *)

\* RecoverSector: what the status of a sector makes of the recovery
Recovered(s, status) ==
    LET address == s.sectorIndex * SectorSize
        searching == s.recoverPhase = "searchingStartOrEmpty"
        Becomes(phase) == [s EXCEPT !.recoverPhase = phase]
        Found(start, end, phase) ==
            [s EXCEPT !.startAddress = start, !.endAddress = end, !.recoverPhase = phase]
    IN  CASE status = FirstInCycle /\ searching ->
                Found(address, address, IF s.sectorIndex = 0
                                        THEN "checkingUsedFollowedByEmpty"
                                        ELSE "checkingAllUsed")
          [] status = Used /\ s.recoverPhase = "checkingAllUsedOrAllEmpty" ->
                Becomes("checkingAllUsed")
          [] status = Used /\ s.recoverPhase \in
                {"checkingUsedFollowedByEmpty", "searchingStartOrEmpty", "checkingAllUsed"} -> s
          [] status = Empty /\ searching ->
                Found(StartOfNextSectorCyclical(address), address, "checkingAllUsedOrAllEmpty")
          [] status = Empty /\ s.recoverPhase = "checkingAllUsedOrAllEmpty" ->
                Found(0, 0, "checkingAllEmpty")
          [] status = Empty /\ s.recoverPhase = "checkingUsedFollowedByEmpty" ->
                Found(s.startAddress, address, "checkingAllEmpty")
          [] status = Empty /\ s.recoverPhase = "checkingAllEmpty" -> s
          [] OTHER -> Becomes("corrupt")

\* Mutant: a flash without an empty sector is not used either.
UnusableUnlessEmpty(phase) == phase /= "checkingAllEmpty"

\* The flash is erased: there is no beginning, or more than one.
Unusable(phase) == phase \in {"corrupt", "searchingStartOrEmpty"}

RecoverSector ==
    /\ step = "recoverSector"
    /\ LET s == [Recovered(store, Byte(store.sectorIndex * SectorSize))
                    EXCEPT !.sectorIndex = @ + 1]
       IN  CASE s.sectorIndex < NumberOfSectors -> store' = s /\ UNCHANGED step
             [] s.sectorIndex = NumberOfSectors /\ Unusable(s.recoverPhase) ->
                    store' = s /\ step' = "recoverErase"
             [] s.sectorIndex = NumberOfSectors /\ ~Unusable(s.recoverPhase) ->
                    IF s.endAddress /= s.startAddress
                    THEN /\ store' = [s EXCEPT !.endAddress =
                                        StartOfPreviousSectorCyclical(@) + 1]
                         /\ step' = "recoverEnd"
                    ELSE /\ store' = [s EXCEPT !.recoverPhase = "done"]
                         /\ step' = "idle"
    /\ UNCHANGED <<flash, claims, adding, iterators, items, clears, crashes,
                   begins, confirmed, got, lapped>>

RecoverErase ==
    /\ step = "recoverErase"
    /\ Perform
    /\ store' = [store EXCEPT !.startAddress = 0, !.endAddress = 0, !.recoverPhase = "done"]
    /\ step' = "idle"
    /\ UNCHANGED <<claims, adding, iterators, items, clears, crashes, begins,
                   confirmed, got, lapped>>

\* The block after the one at end, in RecoverEndAddress.
NextBlock(end) ==
    LET data == end + HeaderSize
        next == data + BlockLength(end)
    IN  CASE Byte(end) = DataReady ->
                IF next <= TotalSize /\ Sector(data) = Sector(next)
                THEN next ELSE StartOfNextSectorCyclical(data)
          [] Byte(end) = WritingLength -> data
          [] Byte(end) = WritingData -> next
          [] OTHER -> StartOfNextSectorCyclical(end)

\* One iteration, or the end, of the loop of RecoverEndAddress.
RecoverBlock ==
    /\ step = "recoverEnd"
    /\ IF Byte(store.endAddress) /= Empty /\ ~AtStartOfSector(store.endAddress)
       THEN /\ store' = [store EXCEPT !.endAddress = NextBlock(@)]
            /\ UNCHANGED step
       ELSE /\ store' = [store EXCEPT !.recoverPhase = "done"]
            /\ step' = "idle"
    /\ UNCHANGED <<flash, claims, adding, iterators, items, clears, crashes,
                   begins, confirmed, got, lapped>>

-----------------------------------------------------------------------------
(* Add and AddPartial *)

Waits(claim) == \E i \in DOMAIN claims : claims[i] = claim

\* Add with the whole item, or AddPartial with its first byte.
CallAdd(length, size) ==
    /\ items < MaxItems
    /\ adding = NoRange
    /\ adding' = [item |-> items + 1, size |-> size, total |-> length]
    /\ items' = items + 1
    /\ store' = [store EXCEPT !.remainingPartialSize =
                    IF size = length THEN @ ELSE length - size]
    /\ claims' = Append(claims, "add")
    /\ UNCHANGED <<flash, step, iterators, clears, crashes, begins, confirmed, got, lapped>>

\* Add with the rest of the item, once onDone was called for the first part.
CallAddRest ==
    /\ store.partialAddStarted
    /\ adding.size = 0
    /\ adding' = [adding EXCEPT !.size = store.remainingPartialSize]
    /\ store' = [store EXCEPT !.remainingPartialSize = 0]
    /\ claims' = Append(claims, "add")
    /\ UNCHANGED <<flash, step, iterators, items, clears, crashes, begins, confirmed, got, lapped>>

\* Mutant: the header is forgotten.
DoesNotFitWithoutHeader(end, total) == Offset(end) + total > SectorSize

DoesNotFit(end, total) == Offset(end) + HeaderSize + total > SectorSize

\* The claim is granted: the first step of the sequencer that is not skipped.
GrantAdd ==
    /\ step = "idle" /\ claims /= << >> /\ Head(claims) = "add"
    /\ claims' = Tail(claims)
    /\ step' = CASE store.partialAddStarted -> "data"
                 [] ~store.partialAddStarted ->
                    IF DoesNotFit(store.endAddress, adding.total) THEN "fill"
                    ELSE IF AtStartOfSector(store.endAddress) THEN "erase"
                    ELSE "writingLength"
    /\ UNCHANGED <<flash, store, adding, iterators, items, clears, crashes,
                   begins, confirmed, got, lapped>>

FillSectorIfDataDoesNotFit ==
    /\ step = "fill"
    /\ Perform
    /\ store' = [store EXCEPT !.endAddress = StartOfNextSectorCyclical(@)]
    /\ step' = "erase"
    /\ UNCHANGED <<claims, adding, iterators, items, clears, crashes, begins,
                   confirmed, got, lapped>>

EraseSectorIfAtStart ==
    /\ step = "erase"
    /\ Perform
    /\ step' = IF Byte(StartOfNextSectorCyclical(store.endAddress)) = Used
               THEN "mark" ELSE "status"
    /\ UNCHANGED <<store, claims, adding, iterators, items, clears, crashes,
                   begins, confirmed, got, lapped>>

\* Iterator::SectorIsErased
SectorIsErased(it, sector) ==
    IF Sector(it.address) /= sector THEN it
    ELSE [it EXCEPT !.address = StartOfNextSectorCyclical(@), !.firstSectorToRead = TRUE]

\* The sector after the erased one becomes the first.
MarkFirstInCycle ==
    /\ step = "mark"
    /\ Perform
    /\ iterators' = [i \in Iterators |->
                        SectorIsErased(iterators[i], Sector(store.startAddress))]
    /\ store' = [store EXCEPT !.startAddress = StartOfNextSectorCyclical(store.endAddress)]
    /\ step' = "status"
    /\ lapped' = {i \in Iterators : ~iterators[i].loadStartAddressDelayed} \cup lapped
    /\ UNCHANGED <<claims, adding, items, clears, crashes, begins, confirmed, got>>

\* Its second look at the sector that follows finds nothing to mark.
WriteSectorStatusIfAtStartOfSector ==
    /\ step = "status"
    /\ Perform
    /\ store' = [store EXCEPT !.endAddress = Wrapped(@ + 1)]
    /\ step' = "writingLength"
    /\ UNCHANGED <<claims, adding, iterators, items, clears, crashes, begins,
                   confirmed, got, lapped>>

\* WriteRange: the header of the block, then its data
WriteRange ==
    /\ step \in {"writingLength", "length", "writingData", "data"}
    /\ Perform
    /\ step' = CASE step = "writingLength" -> "length"
                 [] step = "length" -> "writingData"
                 [] step = "writingData" -> "data"
                 [] step = "data" -> "ready"
    /\ store' = [store EXCEPT !.partialSizeWritten =
                    IF step = "data" THEN @ + adding.size ELSE @]
    /\ UNCHANGED <<claims, adding, iterators, items, clears, crashes, begins,
                   confirmed, got, lapped>>

\* The last step of WriteRange, and onAddDone
WriteReady ==
    /\ step = "ready"
    /\ Perform
    /\ step' = "idle"
    /\ IF store.remainingPartialSize = 0
       THEN /\ store' = [store EXCEPT !.endAddress =
                            Wrapped(@ + store.partialSizeWritten + HeaderSize),
                            !.partialSizeWritten = 0, !.partialAddStarted = FALSE]
            /\ confirmed' = confirmed \cup {adding.item}
            /\ adding' = NoRange
       ELSE /\ store' = [store EXCEPT !.partialAddStarted = TRUE]
            /\ adding' = [adding EXCEPT !.size = 0]
            /\ UNCHANGED confirmed
    /\ UNCHANGED <<claims, iterators, items, clears, crashes, begins, got, lapped>>

-----------------------------------------------------------------------------
(* Clear *)

\* A client does not clear the store between the parts of an item.
CallClear ==
    /\ clears < MaxClears
    /\ ~Waits("clear") /\ step /= "clear"
    /\ adding = NoRange
    /\ clears' = clears + 1
    /\ claims' = Append(claims, "clear")
    /\ UNCHANGED <<flash, store, step, adding, iterators, items, crashes,
                   begins, confirmed, got, lapped>>

GrantClear ==
    /\ step = "idle" /\ claims /= << >> /\ Head(claims) = "clear"
    /\ claims' = Tail(claims)
    /\ store' = [store EXCEPT !.startAddress = 0, !.endAddress = 0]
    /\ step' = "clear"
    /\ confirmed' = {}
    /\ UNCHANGED <<flash, adding, iterators, items, clears, crashes, begins, got, lapped>>

\* Mutant: the claim is not released.
ClearKeepsClaim ==
    /\ step = "clear"
    /\ Perform
    /\ UNCHANGED <<store, step, claims, adding, iterators, items, clears,
                   crashes, begins, confirmed, got, lapped>>

Clear ==
    /\ step = "clear"
    /\ Perform
    /\ step' = "idle"
    /\ UNCHANGED <<store, claims, adding, iterators, items, clears, crashes,
                   begins, confirmed, got, lapped>>

-----------------------------------------------------------------------------
(* Iterators *)

Begin(i) ==
    /\ begins < MaxBegins
    /\ ~Waits(i) /\ step /= i
    /\ got[i] /= << >>
    /\ begins' = begins + 1
    /\ iterators' = [iterators EXCEPT ![i] = NewIterator]
    /\ got' = [got EXCEPT ![i] = << >>]
    /\ lapped' = lapped \ {i}
    /\ UNCHANGED <<flash, store, step, claims, adding, items, clears, crashes, confirmed>>

CallRead(i) ==
    /\ ~Waits(i) /\ step /= i
    /\ got[i] /= << >> /\ ~ReadAgain => Last(got[i]) /= 0
    /\ claims' = Append(claims, i)
    /\ iterators' = [iterators EXCEPT ![i].found = 0, ![i].reachedEnd = FALSE]
    /\ UNCHANGED <<flash, store, step, adding, items, clears, crashes, begins,
                   confirmed, got, lapped>>

\* Mutant: the first sector is never one to read.
StatusAsRead(it, status) == status

\* The first sector is read as the first one, and is the end after that.
StatusFor(it, status) ==
    IF status /= FirstInCycle THEN status
    ELSE IF it.firstSectorToRead THEN Used ELSE Empty

ReadSectorStatusIfAtStart(it) ==
    IF ~AtStartOfSector(it.address) THEN it
    ELSE LET status == Byte(it.address) IN
         [it EXCEPT !.address = IF status = Empty THEN @ ELSE @ + 1,
                    !.sectorStatus = StatusFor(it, status),
                    !.firstSectorToRead = FALSE]

GrantRead(i) ==
    /\ step = "idle" /\ claims /= << >> /\ Head(claims) = i
    /\ claims' = Tail(claims)
    /\ step' = i
    /\ LET it == iterators[i]
           address == IF it.loadStartAddressDelayed THEN store.startAddress ELSE it.address
       IN  iterators' = [iterators EXCEPT ![i] = ReadSectorStatusIfAtStart(
                [it EXCEPT !.loadStartAddressDelayed = FALSE, !.address = address])]
    /\ UNCHANGED <<flash, store, adding, items, clears, crashes, begins, confirmed, got, lapped>>

\* The iterator after the block at its address: where it goes on, and what it
\* found.
AfterBlock(it) ==
    LET status == Byte(it.address)
        data == IF Sector(it.address + HeaderSize) = Sector(it.address)
                THEN it.address + HeaderSize
                ELSE StartOfNextSectorCyclical(it.address)
        end == data + BlockLength(it.address)
        At(address) == [it EXCEPT !.address = address]
    IN  CASE status = DataReady ->
                IF Offset(data) + BlockLength(it.address) <= SectorSize
                THEN [At(Wrapped(end)) EXCEPT !.found = Byte(data)]
                ELSE At(StartOfNextSectorCyclical(data))
          [] status = EmptyUntilEnd ->
                At(IF AtStartOfSector(data) THEN data ELSE StartOfNextSectorCyclical(data))
          [] status = Empty ->
                [At((data + AddressSpace - HeaderSize) % AddressSpace)
                    EXCEPT !.reachedEnd = TRUE]
          [] status = WritingLength -> At(data)
          [] status = WritingData -> At(end)
          [] OTHER -> At(StartOfNextSectorCyclical(data))

ReadEnds(it) == it.sectorStatus /= Used \/ it.found /= 0 \/ it.reachedEnd

\* One iteration of the loop of Read.
ReadBlock(i) ==
    /\ step = i
    /\ ~ReadEnds(iterators[i])
    /\ iterators' = [iterators EXCEPT ![i] = ReadSectorStatusIfAtStart(AfterBlock(@))]
    /\ UNCHANGED <<flash, store, step, claims, adding, items, clears, crashes,
                   begins, confirmed, got, lapped>>

ReadDone(i) ==
    /\ step = i
    /\ ReadEnds(iterators[i])
    /\ got' = [got EXCEPT ![i] = Append(@, iterators[i].found)]
    /\ step' = "idle"
    /\ UNCHANGED <<flash, store, claims, adding, iterators, items, clears,
                   crashes, begins, confirmed, lapped>>

-----------------------------------------------------------------------------

\* The flash between the steps mark and status, unless the first sector is
\* sector 0.
MarkedBeforeUsed ==
    \E sector \in 1 .. NumberOfSectors - 1 :
        /\ flash[sector * SectorSize] = FirstInCycle
        /\ flash[(sector - 1) * SectorSize] = Empty

\* The power fails after some bytes of the current operation; everything but
\* the flash is constructed again.
Crash ==
    /\ crashes < MaxCrashes
    /\ \E n \in 0 .. Len(Operation.bytes) : flash' = Applied(Operation, n)
    /\ CrashAfterMark \/ ~MarkedBeforeUsed'
    /\ crashes' = crashes + 1
    /\ store' = Constructed
    /\ step' = "recoverSector"
    /\ claims' = << >>
    /\ adding' = NoRange
    /\ iterators' = [i \in Iterators |-> NewIterator]
    /\ got' = [i \in Iterators |-> << >>]
    /\ lapped' = {}
    /\ UNCHANGED <<items, clears, begins, confirmed>>

StoreStep ==
    \/ RecoverSector \/ RecoverErase \/ RecoverBlock
    \/ GrantAdd \/ FillSectorIfDataDoesNotFit \/ EraseSectorIfAtStart
    \/ MarkFirstInCycle \/ WriteSectorStatusIfAtStartOfSector \/ WriteRange
    \/ WriteReady \/ GrantClear \/ Clear
    \/ \E i \in Iterators : GrantRead(i) \/ ReadBlock(i) \/ ReadDone(i)

Calls ==
    \/ \E n \in Lengths : CallAdd(n, n) \/ (PartialAdds /\ n > 1 /\ CallAdd(n, 1))
    \/ CallAddRest \/ CallClear
    \/ \E i \in Iterators : Begin(i) \/ CallRead(i)

Next == StoreStep \/ Calls \/ Crash

Spec == Init /\ [][Next]_vars

\* The flash completes its operations and the dispatcher runs; calls and
\* crashes may or may not happen.
FairSpec == Spec /\ WF_vars(StoreStep)

-----------------------------------------------------------------------------
(* Properties *)

(***************************************************************************)
(* The type of every variable.                                             *)
(***************************************************************************)
TypeOK ==
    /\ flash \in [0 .. TotalSize - 1 -> 0 .. 255]
    /\ store \in [startAddress : Nat, endAddress : Nat,
                  sectorIndex : 0 .. NumberOfSectors, recoverPhase : Phases,
                  partialAddStarted : BOOLEAN,
                  remainingPartialSize : Nat, partialSizeWritten : Nat]
    /\ step \in Steps \cup Iterators
    /\ claims \in Seq(Claims)
    /\ adding \in [item : 0 .. MaxItems, size : Nat, total : Nat]
    /\ iterators \in [Iterators ->
            [address : 0 .. AddressSpace - 1, loadStartAddressDelayed : BOOLEAN,
             sectorStatus : 0 .. 255, firstSectorToRead : BOOLEAN,
             found : 0 .. 255, reachedEnd : BOOLEAN]]
    /\ items \in 0 .. MaxItems /\ clears \in 0 .. MaxClears
    /\ crashes \in 0 .. MaxCrashes /\ begins \in 0 .. MaxBegins
    /\ confirmed \subseteq 1 .. MaxItems
    /\ got \in [Iterators -> Seq(0 .. 255)]
    /\ lapped \subseteq Iterators

(***************************************************************************)
(* The addresses where Add goes on are in the flash, wherever the power    *)
(* failed once and whatever recovery found then: it holds for MaxCrashes = *)
(* 1.  A second failure, in a block that fills the last sector, makes      *)
(* recovery leave the flash (CyclicStore.cpp:212).                         *)
(***************************************************************************)
EndInFlash == store.startAddress < TotalSize /\ store.endAddress < TotalSize

(***************************************************************************)
(* So is the address where an iterator goes on.                            *)
(***************************************************************************)
IteratorsInFlash == \A i \in Iterators : iterators[i].address < TotalSize

\* The bytes that may be written over another without an erasure
Advances == {<<Used, FirstInCycle>>, <<WritingLength, WritingData>>, <<WritingData, DataReady>>}

(***************************************************************************)
(* The store writes only to erased bytes, or changes a status to the next  *)
(* one: after a power failure it does not write where an unfinished Add    *)
(* already wrote.                                                          *)
(***************************************************************************)
WritesErasedFlash ==
    LET op == Operation IN
    ~op.erase => \A n \in 1 .. Len(op.bytes) :
        LET old == Byte(op.at + n - 1) IN
        old = Empty \/ old = op.bytes[n] \/ <<old, op.bytes[n]>> \in Advances

\* A complete block with item n is in the flash.
Intact(n) ==
    \E a \in 1 .. TotalSize - 4 :
        /\ flash[a] = DataReady
        /\ flash[a + 1] > 0
        /\ \A d \in 1 .. flash[a + 1] :
                a + 2 + d < TotalSize /\ flash[a + 2 + d] = n

(***************************************************************************)
(* Items that Add confirmed leave the flash in the order in which they     *)
(* came, also when the power fails while a sector is being erased.         *)
(***************************************************************************)
OldestFirst ==
    \A m, n \in confirmed : m < n /\ Intact(m) => Intact(n)

Recovering == step \in {"recoverSector", "recoverErase", "recoverEnd"}

(***************************************************************************)
(* Recover does not lose an item that Add confirmed.                       *)
(***************************************************************************)
RecoveryKeepsItems ==
    [][Recovering => \A n \in confirmed : Intact(n) => Intact(n)']_vars

ReadsInOrder(i) ==
    LET found == SelectSeq(got[i], LAMBDA n : n /= 0) IN
    \A j, k \in DOMAIN found : j < k => found[j] < found[k]

(***************************************************************************)
(* An iterator returns items in the order in which they were added, and    *)
(* none twice, while Add adds others but erases no sector.                 *)
(***************************************************************************)
ScanInOrder == \A i \in Iterators \ lapped : ReadsInOrder(i)

(***************************************************************************)
(* An iterator returns items in order and none twice, also when Add erases *)
(* sectors.                                                                *)
(***************************************************************************)
NothingRepeated == \A i \in Iterators : ReadsInOrder(i)

ReadsAll(i) ==
    (step = i /\ ReadEnds(iterators[i]) /\ iterators[i].found = 0) =>
        \A n \in confirmed : Intact(n) => \E j \in DOMAIN got[i] : got[i][j] = n

(***************************************************************************)
(* When an iterator finds nothing more, it has returned every item that    *)
(* was confirmed and is in the flash, as long as no sector was erased      *)
(* since its first Read.                                                   *)
(***************************************************************************)
ScanFindsAll == \A i \in Iterators \ lapped : ReadsAll(i)

(***************************************************************************)
(* When an iterator finds nothing more, it has returned every item that    *)
(* was confirmed and is in the flash, also when Add erased sectors.        *)
(***************************************************************************)
NothingSkipped == \A i \in Iterators : ReadsAll(i)

(***************************************************************************)
(* Recovery, Add, Clear and Read come to an end: the loops over blocks     *)
(* stop and the resource is released.                                      *)
(***************************************************************************)
EverythingEnds == []<>(step = "idle" /\ claims = << >>)
=============================================================================
