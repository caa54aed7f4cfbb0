---------------------------- MODULE PackUpgrader ----------------------------
(***************************************************************************)
(* upgrade/boot_loader: a pack of images in flash is deployed by two boot  *)
(* loaders.  The first stage verifies the pack and loads the second stage  *)
(* from it (SecondStageToRamLoader); the second stage gives each image to  *)
(* the upgrader for its target (PackUpgrader, ImageUpgrader...).  The      *)
(* status of the pack is one byte of flash, whose bits can only be         *)
(* cleared, and the power may fail at any time.                            *)
(*                                                                         *)
(* The status and the error code are sets of bits: the bits of the status  *)
(* that are cleared, and the bits of the error code that are not.  Each    *)
(* image has its own sectors.  A second stage that is too large or not     *)
(* authentic ends the search for one, since TryLoadImage goes on from an   *)
(* address inside of it.                                                   *)
(***************************************************************************)
EXTENDS Integers, Sequences, FiniteSets

CONSTANTS
    Packs,       \* the packs that may have been downloaded
    NumChunks,   \* how many buffers an image takes
    MaxCrashes,  \* bound on power failures
    Overrides    \* whether Load may be called with override

\* What a pack consists of: whether the fields that Load tests are right, and
\* for each image the upgrader that its target name selects: "second" and
\* "wrong" are second stages that can and cannot be loaded, both left alone by
\* ImageUpgraderSkip; "failing" stands for an upgrader that reports an error.
Kinds == {"second", "wrong", "internal", "erase", "failing", "unknown"}
PackType ==
    [magic : BOOLEAN, version : BOOLEAN, product : BOOLEAN, signature : BOOLEAN,
     images : Seq(Kinds)]

PacksAssumption == Packs \subseteq PackType
NumChunksAssumption == NumChunks \in Nat \ {0}
BoundsAssumption == MaxCrashes \in Nat /\ Overrides \in BOOLEAN

VARIABLES
    pack,       \* the contents of the pack, which do not change
    status,     \* its status: the bits that are cleared
    errorCode,  \* its error code: the bits that are set
    dest,       \* what the sectors of each image hold
    pc,         \* what runs
    override,   \* the argument of Load
    image,      \* the image TryUpgradeImage is at
    code,       \* the argument of MarkAsError
    crashes

vars == <<pack, status, errorCode, dest, pc, override, image, code, crashes>>

\* UpgradePackStatus: the bits that each value clears
Downloaded == {0}
ReadyToDeploy == {0, 1}
DeployStarted == {0, 1, 2}
Deployed == {0, 1, 2, 3}
Invalid == {7}

\* The error codes of the boot loaders, and an error code nobody has written
UnknownHeaderVersion == {}
InvalidSignature == {0}
UnknownProductName == {1}
NoOrIncorrectSecondStageFound == {0, 1}
NoSuitableImageUpgraderFound == {2}
ImageUpgradeFailed == {0, 2}
NoErrorCode == {0, 1, 2, 31}

\* The contents of the sectors of an image: what was there before the
\* upgrade, something broken off, or the first n chunks of the image
Old == -2
Torn == -1

Images == 1 .. Len(pack.images)

TypeOK ==
    /\ pack \in Packs
    /\ status \subseteq 0 .. 7
    /\ errorCode \subseteq NoErrorCode /\ code \subseteq NoErrorCode
    /\ dest \in [Images -> Torn .. NumChunks \cup {Old}]
    /\ pc \in {"off", "load", "deploy", "image", "erase", "write", "deployed",
               "error", "errorCode", "application"}
    /\ override \in BOOLEAN
    /\ image \in 1 .. Len(pack.images) + 1
    /\ crashes \in 0 .. MaxCrashes

Init ==
    /\ pack \in Packs
    /\ status = Downloaded
    /\ errorCode = NoErrorCode /\ code = NoErrorCode
    /\ dest = [i \in Images |-> Old]
    /\ pc = "application"
    /\ override = FALSE
    /\ image = 1
    /\ crashes = 0

\* The application makes the pack ready to be deployed.
MakeReady ==
    /\ pc = "application" /\ status = Downloaded
    /\ status' = status \cup ReadyToDeploy
    /\ UNCHANGED <<pack, errorCode, dest, pc, override, image, code, crashes>>

\* The first stage boot loader starts.
Boot ==
    /\ pc \in {"off", "application"}
    /\ pc' = "load"
    /\ override' \in IF Overrides THEN BOOLEAN ELSE {FALSE}
    /\ image' = 1
    /\ UNCHANGED <<pack, status, errorCode, dest, code, crashes>>

\* Mutant: the bits of the status are tested instead of its value.
IsDeployableBits == DeployStarted \subseteq status \/ ReadyToDeploy \subseteq status

\* The states of a pack in which it is deployed
IsDeployable == status = ReadyToDeploy \/ status = DeployStarted

SecondStageFound ==
    \E i \in Images : pack.images[i] = "second" /\ \A j \in 1 .. i - 1 : pack.images[j] /= "wrong"

\* The error, if there is one, for which Load rejects the pack
LoadErrors ==
    {e \in {UnknownHeaderVersion} : ~pack.version}
        \cup {e \in {UnknownProductName} : pack.version /\ ~pack.product}
        \cup {e \in {InvalidSignature} : pack.version /\ pack.product /\ ~pack.signature}
        \cup {e \in {NoOrIncorrectSecondStageFound} :
                 pack.version /\ pack.product /\ pack.signature /\ ~SecondStageFound}

Fail(e) == pc' = "error" /\ code' = e

\* SecondStageToRamLoader::Load, up to MarkAsError or the start of the second stage
Load ==
    /\ pc = "load"
    /\ \/ /\ ~((override \/ IsDeployable) /\ pack.magic)
          /\ pc' = "application" /\ UNCHANGED code
       \/ /\ (override \/ IsDeployable) /\ pack.magic
          /\ \/ \E e \in LoadErrors : Fail(e)
             \/ LoadErrors = {} /\ pc' = "deploy" /\ UNCHANGED code
    /\ UNCHANGED <<pack, status, errorCode, dest, override, image, crashes>>

\* Mutant: the start of the deployment is not recorded as a value of its own.
MarkAsDeployStartedAsDeployed == status' = status \cup Deployed

\* MarkAsDeployStarted
MarkAsDeployStarted == status' = status \cup DeployStarted

\* PackUpgrader::UpgradeFromImages up to its loop; what it tests of the header
\* Load has tested before
UpgradeFromImages ==
    /\ pc = "deploy"
    /\ MarkAsDeployStarted
    /\ pc' = "image"
    /\ UNCHANGED <<pack, errorCode, dest, override, image, code, crashes>>

NoImageLeft == image > Len(pack.images)

\* One iteration of the loop, TryUpgradeImage; or its end
TryUpgradeImage ==
    /\ pc = "image"
    /\ \/ /\ NoImageLeft
          /\ pc' = "deployed"
          /\ UNCHANGED <<code, dest, image>>
       \/ /\ ~NoImageLeft
          /\ \/ /\ pack.images[image] \in {"second", "wrong"}
                /\ image' = image + 1
                /\ UNCHANGED <<pc, code, dest>>
             \/ /\ pack.images[image] = "unknown"
                /\ Fail(NoSuitableImageUpgraderFound)
                /\ UNCHANGED <<dest, image>>
             \/ /\ pack.images[image] = "failing"
                /\ Fail(ImageUpgradeFailed)
                /\ \E d \in {dest[image], Torn} : dest' = [dest EXCEPT ![image] = d]
                /\ UNCHANGED image
             \/ /\ pack.images[image] \in {"internal", "erase"}
                /\ pc' = "erase"
                /\ UNCHANGED <<code, dest, image>>
    /\ UNCHANGED <<pack, status, errorCode, override, crashes>>

\* EraseSectors, with which ImageUpgraderInternalFlash::Upgrade begins and of
\* which ImageUpgraderEraseSectors::Upgrade consists
EraseSectors ==
    /\ pc = "erase"
    /\ dest' = [dest EXCEPT ![image] = 0]
    /\ IF pack.images[image] = "erase"
       THEN pc' = "image" /\ image' = image + 1
       ELSE pc' = "write" /\ UNCHANGED image
    /\ UNCHANGED <<pack, status, errorCode, override, code, crashes>>

LastChunk == dest[image] + 1 = NumChunks

\* One iteration of the loop in ImageUpgraderInternalFlash::Upgrade
WriteBuffer ==
    /\ pc = "write"
    /\ dest' = [dest EXCEPT ![image] = @ + 1]
    /\ IF LastChunk
       THEN pc' = "image" /\ image' = image + 1
       ELSE UNCHANGED <<pc, image>>
    /\ UNCHANGED <<pack, status, errorCode, override, code, crashes>>

MarkAsDeployed ==
    /\ pc = "deployed"
    /\ status' = status \cup Deployed
    /\ pc' = "application"
    /\ UNCHANGED <<pack, errorCode, dest, override, image, code, crashes>>

\* The two writes of MarkAsError, which both boot loaders have
MarkAsError ==
    /\ pc = "error"
    /\ status' = status \cup Invalid
    /\ pc' = "errorCode"
    /\ UNCHANGED <<pack, errorCode, dest, override, image, code, crashes>>

WriteErrorCode ==
    /\ pc = "errorCode"
    /\ errorCode' = errorCode \cap code
    /\ pc' = "application"
    /\ UNCHANGED <<pack, status, dest, override, image, code, crashes>>

\* The power fails: an erasure or a write that was under way is done in part.
\* The status changes by one bit at a time and is written or not.
Crash ==
    /\ pc /= "off" /\ crashes < MaxCrashes
    /\ crashes' = crashes + 1
    /\ pc' = "off"
    /\ \E d \in {dest[i] : i \in {image} \cap Images} \cup {Torn} :
          dest' = IF pc \in {"erase", "write"} THEN [dest EXCEPT ![image] = d] ELSE dest
    /\ \E e \in SUBSET errorCode :
          /\ errorCode \cap code \subseteq e
          /\ e = errorCode \/ pc = "errorCode"
          /\ errorCode' = e
    /\ UNCHANGED <<pack, status, override, image, code>>

BootLoaders ==
    \/ Boot \/ Load \/ UpgradeFromImages \/ TryUpgradeImage \/ EraseSectors \/ WriteBuffer
    \/ MarkAsDeployed \/ MarkAsError \/ WriteErrorCode

Next == MakeReady \/ BootLoaders \/ Crash

\* After a power failure the system is started again, and boot loaders do not wait.
Spec == Init /\ [][Next]_vars /\ WF_vars(BootLoaders)
-----------------------------------------------------------------------------
IsInvalid == Invalid \subseteq status

Complete(i) ==
    CASE pack.images[i] = "internal" -> dest[i] = NumChunks
      [] pack.images[i] = "erase" -> dest[i] = 0
      [] OTHER -> TRUE

\* The application is started with all sectors as they were or with all images
\* deployed, whenever the power failed, unless the pack is marked invalid:
\* a deployment that was broken off is found by the next boot
\* (SecondStageToRamLoader.cpp:18) and starts from the erasure.
WholeOrInvalid ==
    pc = "application" /\ ~IsInvalid =>
        (\A i \in Images : dest[i] = Old) \/ (\A i \in Images : Complete(i))

\* No sector is touched on account of a pack whose signature, product, version
\* or second stage the first boot loader has not accepted.
OnlyVerified ==
    (\E i \in Images : dest[i] /= Old) =>
        pack.magic /\ pack.version /\ pack.product /\ pack.signature /\ SecondStageFound

\* Once a pack is marked invalid, whatever its status was, nothing of it is
\* deployed any more and it does not become deployed.
InvalidIsFinal ==
    [][IsInvalid => IsInvalid' /\ UNCHANGED dest /\ (Deployed \subseteq status' => Deployed \subseteq status)]_vars

\* A pack that is ready to be deployed comes to be deployed or marked invalid,
\* if the power stops failing.
EveryPackEnds == status = ReadyToDeploy /\ pack.magic ~> Deployed \subseteq status \/ IsInvalid

\* UpgradePackHeader.hpp:40: "Set by the boot loaders upon
\* detection of an error": an invalid pack has an error code.
ErrorCodeTold == pc = "application" /\ IsInvalid => errorCode /= NoErrorCode
=============================================================================
