------------------------- MODULE ConfigurationStore -------------------------
(***************************************************************************)
(* services/util/ConfigurationStore: a configuration kept in two blobs of  *)
(* flash, one written while the other one still holds the previous         *)
(* configuration, and a third blob with the factory defaults.  Every flash *)
(* operation takes time; its completion calls the next function of the     *)
(* code.  The power may fail at any moment: the RAM is lost, and a blob    *)
(* that was being erased or written holds what it held, what it was going  *)
(* to hold, or something whose hash does not match.                        *)
(***************************************************************************)
EXTENDS Integers

CONSTANTS
    WithFactoryDefault,  \* FactoryDefaultConfigurationStore or ConfigurationStore
    MaxVersion,          \* bound on the configurations the client makes
    MaxLocks,            \* bound on the LockGuards alive at a time
    MaxCrashes           \* bound on the power failures

ASSUME FactoryAssumption == WithFactoryDefault \in BOOLEAN
ASSUME BoundsAssumption == MaxVersion \in Nat /\ MaxLocks \in Nat /\ MaxCrashes \in Nat

VARIABLES
    flash,           \* what each blob holds
    op,              \* the flash operation in progress and its completion
    buffer,          \* the RAM that the blobs share
    activeBlob,      \* the blob that is written next; the inactive one is the other
    configuration,
    writingBlob,
    writeRequested,
    lockCount,
    onWriteDone,     \* the configuration the function to call was given for
    loadDefaults,    \* FactoryDefault's Recover found no factory defaults
    latest,          \* history: the newest configuration the client made
    confirmed,       \* history: the newest configuration reported as written
    crashes          \* history: power failures

storeVars == <<activeBlob, writingBlob, writeRequested, lockCount, onWriteDone>>
historyVars == <<latest, confirmed, crashes>>
vars == <<flash, op, buffer, storeVars, configuration, loadDefaults, historyVars>>

Factory == 0
Blobs == {1, 2}
Nothing == -1        \* an erased blob; also no function to call
Torn == -2           \* a blob whose hash does not match
Default == 0         \* the configuration that onLoadFactoryDefault makes

Other(b) == 3 - b

BlobIsValid(contents) == contents >= 0

Completions ==
    {"factoryRecovered", "factoryErased", "factoryWritten", "activeRecovered",
     "otherRecovered", "loadedSuccess", "loadedFailure", "inactiveErased", "activeErased",
     "serialized", "written"}

Operations ==
    [kind : {"none", "read", "erase", "write"}, blob : {Factory} \cup Blobs,
     then : Completions \cup {"none"}]

NoOperation == [kind |-> "none", blob |-> Factory, then |-> "none"]
Read(b, then) == [kind |-> "read", blob |-> b, then |-> then]
Erasing(b, then) == [kind |-> "erase", blob |-> b, then |-> then]
Writing(b, then) == [kind |-> "write", blob |-> b, then |-> then]

FlashType ==
    /\ flash \in [{Factory} \cup Blobs -> Nat \cup {Nothing, Torn}]
    /\ op \in Operations
    /\ buffer \in Nat \cup {Nothing, Torn}

StoreType ==
    /\ activeBlob \in Blobs
    /\ lockCount \in 0 .. MaxLocks
    /\ onWriteDone \in Nat \cup {Nothing}

ClientType ==
    /\ configuration \in Nat
    /\ latest \in 0 .. MaxVersion
    /\ confirmed \in Nat \cup {Nothing}
    /\ crashes \in 0 .. MaxCrashes

FlagsType ==
    /\ writingBlob \in BOOLEAN
    /\ writeRequested \in BOOLEAN
    /\ loadDefaults \in BOOLEAN

(***************************************************************************)
(* The type of every variable.                                             *)
(***************************************************************************)
TypeOK == FlashType /\ StoreType /\ ClientType /\ FlagsType

\* The first flash operation after the start of the program
FirstOperation ==
    IF WithFactoryDefault THEN Read(Factory, "factoryRecovered") ELSE Read(1, "activeRecovered")

Init ==
    /\ flash = [b \in {Factory} \cup Blobs |-> Nothing]
    /\ op = FirstOperation
    /\ buffer = Nothing
    /\ activeBlob = 1
    /\ configuration = Default
    /\ writingBlob = FALSE
    /\ writeRequested = FALSE
    /\ lockCount = 0
    /\ onWriteDone = Nothing
    /\ loadDefaults = FALSE
    /\ latest = 0
    /\ confirmed = Nothing
    /\ crashes = 0

-----------------------------------------------------------------------------
(* The flash *)

\* What the blob of the operation in progress holds in the end.  Writing sets
\* a blob that was erased; over other contents it leaves neither.
Outcome ==
    IF op.kind = "erase" THEN Nothing
    ELSE IF op.kind = "write" THEN (IF flash[op.blob] = Nothing THEN buffer ELSE Torn)
    ELSE flash[op.blob]

Completes(then) ==
    /\ op.then = then
    /\ flash' = [flash EXCEPT ![op.blob] = Outcome]
    /\ UNCHANGED crashes

\* The power fails and comes back.
Crash ==
    /\ crashes < MaxCrashes
    /\ crashes' = crashes + 1
    /\ \E contents \in {flash[op.blob], Outcome, Torn} :
        /\ contents = Torn => op.kind \in {"erase", "write"} \/ flash[op.blob] = Torn
        /\ flash' = [flash EXCEPT ![op.blob] = contents]
    /\ op' = FirstOperation
    /\ buffer' = Nothing
    /\ activeBlob' = 1
    /\ configuration' = Default
    /\ writingBlob' = FALSE
    /\ writeRequested' = FALSE
    /\ lockCount' = 0
    /\ onWriteDone' = Nothing
    /\ loadDefaults' = FALSE
    /\ UNCHANGED <<latest, confirmed>>

-----------------------------------------------------------------------------
(* FactoryDefaultConfigurationStore::Recover *)

FactoryRecovered ==
    /\ Completes("factoryRecovered")
    /\ buffer' = flash[Factory]
    /\ IF BlobIsValid(flash[Factory])
       THEN /\ configuration' = flash[Factory]
            /\ op' = Read(activeBlob, "activeRecovered")
            /\ UNCHANGED loadDefaults
       ELSE /\ configuration' = Default
            /\ op' = Erasing(Factory, "factoryErased")
            /\ loadDefaults' = TRUE
    /\ UNCHANGED <<storeVars, latest, confirmed>>

FactoryErased ==
    /\ Completes("factoryErased")
    /\ buffer' = configuration
    /\ op' = Writing(Factory, "factoryWritten")
    /\ UNCHANGED <<storeVars, configuration, loadDefaults, latest, confirmed>>

FactoryWritten ==
    /\ Completes("factoryWritten")
    /\ op' = Read(activeBlob, "activeRecovered")
    /\ UNCHANGED <<buffer, storeVars, configuration, loadDefaults, latest, confirmed>>

-----------------------------------------------------------------------------
(* ConfigurationStoreBase::Recover *)

\* Mutant: the other blob is not looked at.
ActiveRecoveredOnly ==
    /\ Completes("activeRecovered")
    /\ buffer' = flash[activeBlob]
    /\ IF BlobIsValid(flash[activeBlob])
       THEN op' = Erasing(Other(activeBlob), "loadedSuccess") /\ UNCHANGED activeBlob
       ELSE op' = Erasing(Other(activeBlob), "loadedFailure") /\ UNCHANGED activeBlob
    /\ UNCHANGED <<writingBlob, writeRequested, lockCount, onWriteDone,
                   configuration, loadDefaults, latest, confirmed>>

ActiveRecovered ==
    /\ Completes("activeRecovered")
    /\ buffer' = flash[activeBlob]
    /\ IF BlobIsValid(flash[activeBlob])
       THEN op' = Erasing(Other(activeBlob), "loadedSuccess") /\ UNCHANGED activeBlob
       ELSE op' = Read(Other(activeBlob), "otherRecovered") /\ activeBlob' = Other(activeBlob)
    /\ UNCHANGED <<writingBlob, writeRequested, lockCount, onWriteDone,
                   configuration, loadDefaults, latest, confirmed>>

OtherRecovered ==
    /\ Completes("otherRecovered")
    /\ buffer' = flash[activeBlob]
    /\ op' = Erasing(Other(activeBlob),
                     IF BlobIsValid(flash[activeBlob]) THEN "loadedSuccess" ELSE "loadedFailure")
    /\ UNCHANGED <<storeVars, configuration, loadDefaults, latest, confirmed>>

\* Mutant: without the swap, the blob that was loaded is written next.
OnBlobLoadedNoSwap ==
    /\ Completes("loadedSuccess")
    /\ configuration' = buffer
    /\ op' = NoOperation
    /\ UNCHANGED <<buffer, storeVars, loadDefaults, latest, confirmed>>

\* OnBlobLoaded(true)
OnBlobLoadedSuccess ==
    /\ Completes("loadedSuccess")
    /\ activeBlob' = Other(activeBlob)
    /\ configuration' = buffer
    /\ op' = NoOperation
    /\ UNCHANGED <<buffer, writingBlob, writeRequested, lockCount, onWriteDone,
                   loadDefaults, latest, confirmed>>

\* OnBlobLoaded(false); FactoryDefault's Recover then erases the store if it
\* found no factory defaults either
OnBlobLoadedFailure ==
    /\ Completes("loadedFailure")
    /\ activeBlob' = Other(activeBlob)
    /\ op' = IF loadDefaults THEN Erasing(activeBlob, "inactiveErased") ELSE NoOperation
    /\ UNCHANGED <<buffer, writingBlob, writeRequested, lockCount, onWriteDone,
                   configuration, loadDefaults, latest, confirmed>>

-----------------------------------------------------------------------------
(* ConfigurationStoreBase::Erase *)

\* A client erases a store that is at rest, as hal::Flash performs one
\* operation at a time and Erase does not check for a Write in progress.
Erase ==
    /\ op = NoOperation
    /\ ~writeRequested
    /\ op' = Erasing(Other(activeBlob), "inactiveErased")
    /\ confirmed' = Nothing
    /\ UNCHANGED <<flash, buffer, storeVars, configuration, loadDefaults, latest, crashes>>

InactiveErased ==
    /\ Completes("inactiveErased")
    /\ op' = Erasing(activeBlob, "activeErased")
    /\ UNCHANGED <<buffer, storeVars, configuration, loadDefaults, latest, confirmed>>

ActiveErased ==
    /\ Completes("activeErased")
    /\ op' = NoOperation
    /\ UNCHANGED <<buffer, storeVars, configuration, loadDefaults, latest, confirmed>>

-----------------------------------------------------------------------------
(* ConfigurationStoreBase::Write *)

\* Whether the store has been recovered and is not being erased
Ready == op = NoOperation \/ writingBlob

\* Mutant: the previous configuration is erased before the new one is written.
StartWriteErasingFirst(held) ==
    IF held
    THEN writeRequested' = TRUE /\ UNCHANGED <<writingBlob, op, buffer>>
    ELSE /\ writeRequested' = FALSE
         /\ writingBlob' = TRUE
         /\ buffer' = configuration
         /\ op' = Erasing(Other(activeBlob'), "serialized")

\* Write, with writeRequested set
StartWrite(held) ==
    IF held
    THEN writeRequested' = TRUE /\ UNCHANGED <<writingBlob, op, buffer>>
    ELSE /\ writeRequested' = FALSE
         /\ writingBlob' = TRUE
         /\ buffer' = configuration
         /\ op' = Writing(activeBlob', "serialized")

\* The client changes Configuration().
Change ==
    /\ Ready
    /\ latest < MaxVersion
    /\ latest' = latest + 1
    /\ configuration' = latest'
    /\ UNCHANGED <<flash, op, buffer, storeVars, loadDefaults, confirmed, crashes>>

\* Write(onDone) and Write()
Write(withFunction) ==
    /\ Ready
    /\ onWriteDone' = IF withFunction THEN configuration ELSE onWriteDone
    /\ activeBlob' = activeBlob
    /\ StartWrite(writingBlob \/ lockCount > 0)
    /\ UNCHANGED <<flash, lockCount, configuration, loadDefaults, latest, confirmed, crashes>>

\* The end of Serialize
Serialized ==
    /\ Completes("serialized")
    /\ op' = Erasing(Other(activeBlob), "written")
    /\ UNCHANGED <<buffer, storeVars, configuration, loadDefaults, latest, confirmed>>

\* BlobWriteDone, with a write requested in the meantime
BlobWriteDoneAgain ==
    /\ Completes("written")
    /\ writeRequested
    /\ activeBlob' = Other(activeBlob)
    /\ IF lockCount > 0
       THEN /\ writingBlob' = FALSE
            /\ op' = NoOperation
            /\ UNCHANGED <<writeRequested, buffer>>
       ELSE StartWrite(FALSE)
    /\ UNCHANGED <<lockCount, onWriteDone, configuration, loadDefaults, latest, confirmed>>

\* BlobWriteDone, otherwise
BlobWriteDone ==
    /\ Completes("written")
    /\ ~writeRequested
    /\ activeBlob' = Other(activeBlob)
    /\ writingBlob' = FALSE
    /\ op' = NoOperation
    /\ confirmed' = IF onWriteDone = Nothing THEN confirmed ELSE onWriteDone
    /\ onWriteDone' = Nothing
    /\ UNCHANGED <<buffer, writeRequested, lockCount, configuration, loadDefaults, latest>>

Lock ==
    /\ Ready
    /\ lockCount < MaxLocks
    /\ lockCount' = lockCount + 1
    /\ UNCHANGED <<flash, op, buffer, activeBlob, writingBlob, writeRequested, onWriteDone,
                   configuration, loadDefaults, historyVars>>

\* Mutant: a write that was held is not taken up.
UnlockForgetsWrite ==
    /\ lockCount > 0
    /\ lockCount' = lockCount - 1
    /\ UNCHANGED <<flash, op, buffer, activeBlob, writingBlob, writeRequested, onWriteDone,
                   configuration, loadDefaults, historyVars>>

\* ~LockGuard and Unlocked
Unlock ==
    /\ lockCount > 0
    /\ lockCount' = lockCount - 1
    /\ activeBlob' = activeBlob
    /\ IF lockCount' = 0 /\ writeRequested
       THEN StartWrite(writingBlob)
       ELSE UNCHANGED <<writeRequested, writingBlob, op, buffer>>
    /\ UNCHANGED <<flash, onWriteDone, configuration, loadDefaults, historyVars>>

-----------------------------------------------------------------------------

Recover ==
    \/ FactoryRecovered
    \/ FactoryErased
    \/ FactoryWritten
    \/ ActiveRecovered
    \/ OtherRecovered
    \/ OnBlobLoadedSuccess
    \/ OnBlobLoadedFailure

Completion ==
    \/ Recover
    \/ InactiveErased
    \/ ActiveErased
    \/ Serialized
    \/ BlobWriteDoneAgain
    \/ BlobWriteDone

Client ==
    \/ Change
    \/ \E withFunction \in BOOLEAN : Write(withFunction)
    \/ Lock
    \/ Unlock
    \/ Erase

Next == Completion \/ Client \/ Crash

Spec == Init /\ [][Next]_vars

\* The flash completes its operations, and a client gives up its lock.
FairSpec == Spec /\ WF_vars(Completion) /\ WF_vars(Unlock)

-----------------------------------------------------------------------------
(* Properties *)

\* What ConfigurationStoreBase::Recover finds if the power fails now, between
\* two flash operations
Recoverable ==
    IF BlobIsValid(flash[1]) THEN flash[1]
    ELSE IF BlobIsValid(flash[2]) THEN flash[2]
    ELSE Nothing

(***************************************************************************)
(* A configuration whose write was reported as done is not lost: at every  *)
(* moment, what a recovery would find is at least as new.  Writes, held    *)
(* writes, erasures and power failures come in any order.                  *)
(***************************************************************************)
Durable == confirmed <= Recoverable

(***************************************************************************)
(* The blobs never hold two configurations of which the older one would be *)
(* recovered, except while Write is about to erase the older one or        *)
(* Recover is about to erase the newer one.                                *)
(***************************************************************************)
OneConfiguration ==
    BlobIsValid(flash[1]) /\ BlobIsValid(flash[2]) =>
        \/ op.then \in {"factoryRecovered", "factoryErased", "factoryWritten", "activeRecovered"}
        \/ op.then = "loadedSuccess" /\ op.blob = 2
        \/ op.then = "written" /\ flash[Other(op.blob)] >= flash[op.blob]

(***************************************************************************)
(* A blob is written only when it is erased: whatever was interrupted      *)
(* before, no configuration is written over the remains of another one.    *)
(***************************************************************************)
WritesErasedBlob == op.kind = "write" => flash[op.blob] = Nothing

(***************************************************************************)
(* When Recover ends, the configuration in RAM is the one that was stored, *)
(* or the default if there was none: the buffer that the blobs share still *)
(* held it after the other blob had been erased.                           *)
(***************************************************************************)
RecoversWhatIsStored ==
    [][op.then \in {"loadedSuccess", "loadedFailure"} /\ crashes' = crashes
         => configuration' = IF Recoverable = Nothing THEN Default ELSE Recoverable]_vars

(***************************************************************************)
(* A store with factory defaults that is ready has them in their blob,     *)
(* also if the power failed while they were being written.                 *)
(***************************************************************************)
FactoryDefaultsKept == WithFactoryDefault /\ Ready => flash[Factory] = Default

(***************************************************************************)
(* A configuration that a client asks to be written is stored, or a newer  *)
(* one is, unless the power fails, if the locks are given up again and     *)
(* again: a Write that is held by a lock or by another Write is taken up   *)
(* when there is none.                                                     *)
(***************************************************************************)
EveryWriteStored ==
    []<>(lockCount = 0) =>
        \A v \in 0 .. MaxVersion, n \in 0 .. MaxCrashes :
            writeRequested /\ configuration = v /\ crashes = n ~> Recoverable >= v \/ crashes > n

-----------------------------------------------------------------------------
(* The inductive invariant *)

\* Before the store is ready, and while it is erased, no write is pending.
AtRest == ~writingBlob /\ ~writeRequested /\ onWriteDone = Nothing

\* The new configuration is no older than the stored one, nor than the one
\* whose function is called unless another write follows
Supersedes(new, old) ==
    /\ new >= old
    /\ new <= configuration
    /\ ~writeRequested => onWriteDone <= new

\* What holds of the blobs during each flash operation
OperationInv ==
    LET a == activeBlob
        i == Other(activeBlob)
    IN
    /\ op.then = "none" =>
         /\ op = NoOperation /\ ~writingBlob
         /\ flash[a] = Nothing /\ flash[i] <= configuration
         /\ ~writeRequested => onWriteDone = Nothing
    /\ op.then = "factoryRecovered" => op = Read(Factory, op.then) /\ a = 1 /\ AtRest
    /\ op.then = "factoryErased" =>
         op = Erasing(Factory, op.then) /\ a = 1 /\ AtRest /\ configuration = Default
    /\ op.then = "factoryWritten" =>
         /\ op = Writing(Factory, op.then) /\ a = 1 /\ AtRest /\ configuration = Default
         /\ flash[Factory] = Nothing /\ buffer = Default
    /\ op.then = "activeRecovered" =>
         op = Read(1, op.then) /\ a = 1 /\ AtRest /\ configuration = Default
    /\ op.then = "otherRecovered" =>
         /\ op = Read(2, op.then) /\ a = 2 /\ AtRest /\ configuration = Default
         /\ ~BlobIsValid(flash[1])
    /\ op.then = "loadedSuccess" =>
         /\ op = Erasing(i, op.then) /\ AtRest
         /\ BlobIsValid(flash[a]) /\ buffer = flash[a]
         /\ a = 2 => ~BlobIsValid(flash[1])
    /\ op.then = "loadedFailure" =>
         /\ op = Erasing(i, op.then) /\ a = 2 /\ AtRest /\ configuration = Default
         /\ ~BlobIsValid(flash[1]) /\ ~BlobIsValid(flash[2])
    /\ op.then = "inactiveErased" =>
         op = Erasing(i, op.then) /\ AtRest /\ flash[a] = Nothing /\ confirmed = Nothing
    /\ op.then = "activeErased" =>
         /\ op = Erasing(a, op.then) /\ AtRest
         /\ flash[a] = Nothing /\ flash[i] = Nothing /\ confirmed = Nothing
    /\ op.then = "serialized" =>
         /\ op = Writing(a, op.then) /\ writingBlob
         /\ flash[a] = Nothing /\ BlobIsValid(buffer) /\ Supersedes(buffer, flash[i])
    /\ op.then = "written" =>
         /\ op = Erasing(i, op.then) /\ writingBlob
         /\ BlobIsValid(flash[a]) /\ Supersedes(flash[a], flash[i])

VersionsInv ==
    /\ configuration <= latest
    /\ onWriteDone <= configuration
    /\ onWriteDone = Nothing \/ onWriteDone >= confirmed
    /\ \A b \in Blobs : flash[b] <= latest

FactoryInv ==
    /\ flash[Factory] \in {Nothing, Torn, Default}
    /\ WithFactoryDefault /\ op.then \notin {"factoryRecovered", "factoryErased", "factoryWritten"}
          => flash[Factory] = Default

(***************************************************************************)
(* The inductive invariant of the store: what every flash operation in     *)
(* progress finds in the blobs and in RAM.                                 *)
(***************************************************************************)
StoreInv == TypeOK /\ OperationInv /\ VersionsInv /\ FactoryInv /\ Durable

-----------------------------------------------------------------------------
(* Implementation of the abstract specification *)

Store == INSTANCE DurableConfiguration WITH stored <- Recoverable

(***************************************************************************)
(* The store keeps what DurableConfiguration promises: seen through what a *)
(* recovery would find, every flash operation and every power failure in   *)
(* the middle of one leaves the stored configuration alone or replaces it  *)
(* by a newer one in a single step.                                        *)
(***************************************************************************)
StoreIsDurable == Store!Spec
=============================================================================
