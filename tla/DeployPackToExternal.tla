------------------------ MODULE DeployPackToExternal ------------------------
(***************************************************************************)
(* upgrade/deploy_pack_to_external: a pack that is ready to be deployed is *)
(* copied, chunk by chunk, from one flash to another, and the original is  *)
(* then marked as deployed.  The power may fail at any time; the copying   *)
(* begins again when the system is started.  Sizes count chunks.           *)
(***************************************************************************)
EXTENDS Integers

CONSTANTS
    PackSizes,         \* sizes of the packs that may be in from
    FromSize, ToSize,  \* TotalSize of the two flashes
    MaxCrashes

SizesAssumption == PackSizes \subseteq Nat \ {0} /\ FromSize \in Nat /\ ToSize \in Nat

VARIABLES
    packSize,  \* what the header of the pack in from says
    status,    \* the status of the pack in from: torn is none that the code knows
    to,        \* how many chunks of the pack to holds, Other if it holds something else
    pc,
    done,      \* currentReadAddress and currentWriteAddress
    told,      \* the last call of the observer
    crashes

vars == <<packSize, status, to, pc, done, told, crashes>>

Other == -1

TypeOK ==
    /\ packSize \in PackSizes
    /\ status \in {"readyToDeploy", "torn", "deployed"}
    /\ to \in Other .. packSize
    /\ pc \in {"off", "header", "erase", "copy", "mark", "tell", "end"}
    /\ done \in 0 .. packSize
    /\ told \in {"nothing", "NotDeployable", "DoesntFit", "Done"}

Init ==
    /\ packSize \in PackSizes
    /\ status = "readyToDeploy" /\ to = Other
    /\ pc = "off" /\ done = 0 /\ told = "nothing" /\ crashes = 0

\* The object is constructed and reads the header.
Start ==
    /\ pc = "off"
    /\ pc' = "header" /\ done' = 0
    /\ UNCHANGED <<packSize, status, to, told, crashes>>

\* Mutant: the test of the status is the wrong way round.
DeployableSwapped == status /= "readyToDeploy"

Deployable == status = "readyToDeploy"

Fits == packSize <= FromSize

Check ==
    /\ pc = "header"
    /\ \/ ~Deployable /\ pc' = "end" /\ told' = "NotDeployable"
       \/ Deployable /\ Fits /\ pc' = "erase" /\ UNCHANGED told
       \/ Deployable /\ ~Fits /\ pc' = "end" /\ told' = "DoesntFit"
    /\ UNCHANGED <<packSize, status, to, done, crashes>>

\* to.EraseAll
EraseAll ==
    /\ pc = "erase"
    /\ to' = 0 /\ pc' = "copy"
    /\ UNCHANGED <<packSize, status, done, told, crashes>>

\* sizeToDo = 0
NothingToDo == done = packSize

\* The reading and the writing of one chunk, or the end of the loop
CopyChunk ==
    /\ pc = "copy"
    /\ \/ /\ ~NothingToDo
          /\ to' = to + 1 /\ done' = done + 1
          /\ UNCHANGED pc
       \/ NothingToDo /\ pc' = "mark" /\ UNCHANGED <<to, done>>
    /\ UNCHANGED <<packSize, status, told, crashes>>

\* from.WriteBuffer of the status
MarkAsDeployed ==
    /\ pc = "mark"
    /\ status' = "deployed" /\ pc' = "tell"
    /\ UNCHANGED <<packSize, to, done, told, crashes>>

Done ==
    /\ pc = "tell"
    /\ told' = "Done" /\ pc' = "end"
    /\ UNCHANGED <<packSize, status, to, done, crashes>>

\* The power fails, or the system is switched off: an erasure or a write in
\* progress leaves something else.  The status that is being written is the
\* old one, the new one, or has lost one of the two bits in which they differ.
Crash ==
    /\ pc /= "off" /\ crashes < MaxCrashes
    /\ crashes' = crashes + 1
    /\ pc' = "off"
    /\ to' \in {to} \cup {t \in {Other} : pc = "erase" \/ (pc = "copy" /\ ~NothingToDo)}
    /\ status' \in {status} \cup {s \in {"torn", "deployed"} : pc = "mark"}
    /\ UNCHANGED <<packSize, done, told>>

Deploy == Start \/ Check \/ EraseAll \/ CopyChunk \/ MarkAsDeployed \/ Done

Next == Deploy \/ Crash

\* The flashes complete their operations, and the system is started again.
Spec == Init /\ [][Next]_vars /\ WF_vars(Deploy)
-----------------------------------------------------------------------------
\* Once the original is no longer ready to deploy, so that it will not be
\* copied again, the copy is complete and stays so, whenever the power failed.
CopiedBeforeMarked == status /= "readyToDeploy" => to = packSize

\* A pack that is ready is copied and somebody is told so, or somebody is told
\* that it does not fit.  Only when the power failed after the writing of the
\* status had begun is Done never told: the copy is complete, and the next
\* start tells NotDeployable.
EveryDeploymentEnds ==
    <>(\/ told \in {"Done", "DoesntFit"}
       \/ told = "NotDeployable" /\ to = packSize)

\* A deployment that succeeds is reported: Done follows the mark in the same
\* sequence (DeployPackToExternal.cpp:37-39).
CopyReported == <>(told \in {"Done", "DoesntFit"})

\* A pack that is too big for the flash it is copied to is not deployed
\* (TestDeployPackToExternal.cpp, TooBigDoesNotDeploy).
TooBigDoesNotDeploy == packSize > ToSize => to = Other /\ told /= "Done"
=============================================================================
