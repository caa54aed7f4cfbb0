------------------------ MODULE PowerFailuresProofs ------------------------
(***************************************************************************)
(* Proofs about what is kept in flash across power failures.               *)
(*                                                                         *)
(* PackUpgrader and DeployPackToExternal, as MCPowerFailures puts them     *)
(* together: for any packs, any number of images, chunks and power         *)
(* failures.                                                               *)
(*                                                                         *)
(* ConfigurationStore, for every number of configurations, locks and power *)
(* failures, with and without factory defaults: the inductive invariant    *)
(* StoreInv, that a confirmed configuration is never lost, that Recover    *)
(* loads what is stored, and that the store implements                     *)
(* DurableConfiguration.                                                   *)
(***************************************************************************)
EXTENDS MCPowerFailures, TLAPS

-----------------------------------------------------------------------------
(* PackUpgrader.                                                           *)

\* What Load has tested before the second stage is started
Verified ==
    pack.magic /\ pack.version /\ pack.product /\ pack.signature /\ Boot!SecondStageFound

Deploying == {"image", "erase", "write", "deployed"}

\* What the status of the pack and the boot loader that runs say of each other
StatusInv ==
    /\ status \in {Boot!Downloaded, Boot!ReadyToDeploy, Boot!DeployStarted, Boot!Deployed,
                   Boot!ReadyToDeploy \cup Boot!Invalid, Boot!DeployStarted \cup Boot!Invalid}
    /\ pc \in {"deploy", "error"} => status \in {Boot!ReadyToDeploy, Boot!DeployStarted}
    /\ pc \in Deploying => status = Boot!DeployStarted
    /\ pc = "application" => status /= Boot!DeployStarted
    /\ pc = "errorCode" => 7 \in status
    /\ 2 \in status \/ pc = "deploy" => Verified

\* Where the boot loader is in the pack
ImageInv ==
    /\ pc \in {"load", "deploy"} => image = 1
    /\ pc \in {"erase", "write"} =>
          image <= Len(pack.images) /\ pack.images[image] \in {"internal", "erase"}
    /\ pc = "write" => pack.images[image] = "internal" /\ dest[image] \in 0 .. NumChunks - 1
    /\ pc = "deployed" => image = Len(pack.images) + 1

\* What the status and the position say of the sectors
SectorsInv ==
    /\ 2 \notin status => \A i \in Boot!Images : dest[i] = Boot!Old
    /\ status = Boot!Deployed => \A i \in Boot!Images : Boot!Complete(i)
    /\ pc \in Deploying => \A i \in 1 .. image - 1 : Boot!Complete(i)

\* The inductive invariant of PackUpgrader
BootInv == Boot!TypeOK /\ ~override /\ StatusInv /\ ImageInv /\ SectorsInv

(***************************************************************************)
(* The values of the status differ.                                        *)
(***************************************************************************)
LEMMA StatusBits ==
    /\ Boot!Downloaded = {0} /\ Boot!ReadyToDeploy = {0, 1} /\ Boot!DeployStarted = {0, 1, 2}
    /\ Boot!Deployed = {0, 1, 2, 3} /\ Boot!Invalid = {7}
    /\ Boot!ReadyToDeploy /= Boot!DeployStarted /\ Boot!Downloaded /= Boot!DeployStarted
    /\ Boot!Deployed /= Boot!DeployStarted
    /\ {0} \cup {0, 1} = {0, 1} /\ {0, 1} \cup {0, 1, 2} = {0, 1, 2}
    /\ {0, 1, 2} \cup {0, 1, 2} = {0, 1, 2} /\ {0, 1, 2} \cup {0, 1, 2, 3} = {0, 1, 2, 3}
BY DEF Boot!Downloaded, Boot!ReadyToDeploy, Boot!DeployStarted, Boot!Deployed, Boot!Invalid

(***************************************************************************)
(* The pack is downloaded, and nothing else has happened.                  *)
(***************************************************************************)
LEMMA BootInvInit == Boot!Init => BootInv
<1> SUFFICES ASSUME Boot!Init
             PROVE  BootInv
  OBVIOUS
<1>1. pack \in Packs /\ pack.images \in Seq(Boot!Kinds) /\ Len(pack.images) \in Nat
  BY BootAssumption DEF Boot!Init, Boot!PacksAssumption, Boot!PackType
<1>2. NumChunks \in Nat \ {0} /\ MaxFailures \in Nat
  BY BootAssumption DEF Boot!NumChunksAssumption, Boot!BoundsAssumption
<1>3. dest \in [Boot!Images -> Boot!Torn .. NumChunks \cup {Boot!Old}]
  BY DEF Boot!Init
<1>4. status = {0} /\ {0} \subseteq 0 .. 7
  BY StatusBits DEF Boot!Init
<1>5. Boot!TypeOK
  <2>1. 1 \in 1 .. Len(pack.images) + 1 /\ 0 \in 0 .. MaxFailures
    BY <1>1, <1>2
  <2> QED
    BY <1>1, <1>3, <1>4, <2>1 DEF Boot!Init, Boot!TypeOK
<1>6. StatusInv
  BY <1>4, StatusBits DEF Boot!Init, StatusInv, Deploying
<1>7. ImageInv
  BY DEF Boot!Init, ImageInv
<1>8. SectorsInv
  BY <1>4, StatusBits DEF Boot!Init, SectorsInv, Deploying
<1> QED
  BY <1>5, <1>6, <1>7, <1>8 DEF Boot!Init, BootInv

(***************************************************************************)
(* Every step of the application, of the boot loaders and of the power     *)
(* supply keeps the invariant.                                             *)
(***************************************************************************)
LEMMA BootInvNext ==
    ASSUME ~Overrides, BootInv, [Boot!Next]_Boot!vars
    PROVE  BootInv'
<1>0. Boot!TypeOK /\ ~override /\ StatusInv /\ ImageInv /\ SectorsInv
  BY DEF BootInv
<1>t. /\ pack \in Packs /\ pack.images \in Seq(Boot!Kinds) /\ Len(pack.images) \in Nat
      /\ \A i \in 1 .. Len(pack.images) : pack.images[i] \in Boot!Kinds
      /\ NumChunks \in Nat \ {0} /\ MaxFailures \in Nat
      /\ image \in 1 .. Len(pack.images) + 1
      /\ status \subseteq 0 .. 7
      /\ dest \in [1 .. Len(pack.images) -> -1 .. NumChunks \cup {-2}]
      /\ Boot!Images = 1 .. Len(pack.images) /\ Boot!Old = -2 /\ Boot!Torn = -1
  BY <1>0, BootAssumption DEF Boot!TypeOK, Boot!PacksAssumption, Boot!PackType,
     Boot!NumChunksAssumption, Boot!BoundsAssumption, Boot!Images, Boot!Old, Boot!Torn
<1>c. ASSUME UNCHANGED <<pack, dest>>
      PROVE  \A i : Boot!Complete(i)' = Boot!Complete(i)
  BY <1>c DEF Boot!Complete
<1>v. ASSUME pack' = pack
      PROVE  Verified' = Verified /\ Boot!Images' = Boot!Images
  BY <1>v DEF Verified, Boot!SecondStageFound, Boot!Images
<1>1. CASE Boot!MakeReady
  <2>1. /\ pc = "application" /\ status = {0} /\ status' = {0, 1}
        /\ UNCHANGED <<pack, errorCode, dest, pc, override, image, code, failures>>
    BY <1>1, StatusBits DEF Boot!MakeReady
  <2>2. Boot!TypeOK'
    BY <1>0, <2>1 DEF Boot!TypeOK, Boot!Images
  <2>3. StatusInv'
    BY <2>1, StatusBits DEF StatusInv, Deploying
  <2>4. ImageInv'
    BY <1>0, <2>1 DEF ImageInv
  <2>5. SectorsInv'
    BY <1>0, <1>v, <2>1, StatusBits DEF SectorsInv, Deploying, Boot!Old
  <2> QED
    BY <1>0, <2>1, <2>2, <2>3, <2>4, <2>5 DEF BootInv
<1>2. CASE Boot!Boot
  <2>1. /\ pc' = "load" /\ override' = FALSE /\ image' = 1
        /\ UNCHANGED <<pack, status, errorCode, dest, code, failures>>
    BY <1>2 DEF Boot!Boot
  <2>2. Boot!TypeOK'
    <3>1. 1 \in 1 .. Len(pack.images) + 1
      BY <1>t
    <3> QED
      BY <1>0, <2>1, <3>1 DEF Boot!TypeOK, Boot!Images
  <2>3. StatusInv'
    BY <1>0, <1>v, <2>1 DEF StatusInv, Deploying
  <2>4. ImageInv'
    BY <2>1 DEF ImageInv
  <2>5. SectorsInv'
    BY <1>0, <1>c, <1>v, <2>1 DEF SectorsInv, Deploying, Boot!Old
  <2> QED
    BY <2>1, <2>2, <2>3, <2>4, <2>5 DEF BootInv
<1>3. CASE Boot!Load
  <2>1. /\ pc = "load" /\ UNCHANGED <<pack, status, errorCode, dest, override, image, failures>>
    BY <1>3 DEF Boot!Load
  <2>2. \/ pc' = "application" /\ code' = code /\ ~(Boot!IsDeployable /\ pack.magic)
        \/ pc' = "error" /\ code' \subseteq Boot!NoErrorCode /\ Boot!IsDeployable
        \/ pc' = "deploy" /\ code' = code /\ Boot!IsDeployable /\ Verified
    <3>1. ASSUME NEW e \in Boot!LoadErrors
          PROVE  e \subseteq Boot!NoErrorCode
      BY DEF Boot!LoadErrors, Boot!NoErrorCode, Boot!UnknownHeaderVersion,
             Boot!UnknownProductName, Boot!InvalidSignature, Boot!NoOrIncorrectSecondStageFound
    <3>2. ASSUME Boot!LoadErrors = {}, pack.magic
          PROVE  Verified
      BY <3>2 DEF Boot!LoadErrors, Verified
    <3> QED
      BY <1>0, <1>3, <3>1, <3>2 DEF Boot!Load, Boot!Fail
  <2>3. Boot!TypeOK'
    BY <1>0, <2>1, <2>2 DEF Boot!TypeOK, Boot!Images
  <2>4. StatusInv'
    <3>1. pc' = "application" => status /= Boot!DeployStarted
      <4>1. 2 \in Boot!DeployStarted
        BY StatusBits
      <4> QED
        BY <1>0, <2>2, <4>1 DEF Boot!IsDeployable, StatusInv, Verified
    <3> QED
      BY <1>0, <1>v, <2>1, <2>2, <3>1 DEF StatusInv, Deploying, Boot!IsDeployable
  <2>5. ImageInv'
    BY <1>0, <2>1, <2>2 DEF ImageInv
  <2>6. SectorsInv'
    BY <1>0, <1>c, <1>v, <2>1, <2>2 DEF SectorsInv, Deploying, Boot!Old
  <2> QED
    BY <1>0, <2>1, <2>3, <2>4, <2>5, <2>6 DEF BootInv
<1>4. CASE Boot!UpgradeFromImages
  <2>1. /\ pc = "deploy" /\ pc' = "image" /\ status \in {{0, 1}, {0, 1, 2}} /\ status' = {0, 1, 2}
        /\ Verified
        /\ UNCHANGED <<pack, errorCode, dest, override, image, code, failures>>
    BY <1>0, <1>4, StatusBits DEF Boot!UpgradeFromImages, Boot!MarkAsDeployStarted, StatusInv
  <2>2. Boot!TypeOK'
    BY <1>0, <2>1 DEF Boot!TypeOK, Boot!Images
  <2>3. StatusInv'
    BY <1>v, <2>1, StatusBits DEF StatusInv, Deploying
  <2>4. ImageInv'
    BY <1>0, <2>1 DEF ImageInv
  <2>5. SectorsInv'
    <3>1. image = 1
      BY <1>0, <2>1 DEF ImageInv
    <3> QED
      BY <2>1, <3>1, StatusBits DEF SectorsInv, Deploying
  <2> QED
    BY <1>0, <2>1, <2>2, <2>3, <2>4, <2>5 DEF BootInv
<1>5. CASE Boot!TryUpgradeImage
  <2>1. /\ pc = "image" /\ status = Boot!DeployStarted /\ Verified
        /\ UNCHANGED <<pack, status, errorCode, override, failures>>
    BY <1>0, <1>5, StatusBits DEF Boot!TryUpgradeImage, StatusInv, Deploying
  <2>s. SectorsInv
    BY <1>0
  <2>2. CASE Boot!NoImageLeft /\ pc' = "deployed" /\ UNCHANGED <<code, dest, image>>
    <3>1. image = Len(pack.images) + 1
      BY <1>t, <2>2 DEF Boot!NoImageLeft
    <3>2. Boot!TypeOK'
      BY <1>0, <2>1, <2>2 DEF Boot!TypeOK, Boot!Images
    <3>3. StatusInv' /\ ImageInv'
      BY <1>0, <1>v, <2>1, <2>2, <3>1 DEF StatusInv, ImageInv, Deploying
    <3>4. SectorsInv'
      BY <1>c, <1>v, <2>1, <2>2, <2>s DEF SectorsInv, Deploying, Boot!Old
    <3> QED
      BY <1>0, <2>1, <3>2, <3>3, <3>4 DEF BootInv
  <2>3. CASE /\ ~Boot!NoImageLeft /\ pack.images[image] \in {"second", "wrong"}
             /\ image' = image + 1 /\ UNCHANGED <<pc, code, dest>>
    <3>1. image \in 1 .. Len(pack.images) /\ image' \in 1 .. Len(pack.images) + 1
      BY <1>t, <2>3 DEF Boot!NoImageLeft
    <3>2. Boot!TypeOK'
      BY <1>0, <2>1, <2>3, <3>1 DEF Boot!TypeOK, Boot!Images
    <3>3. StatusInv' /\ ImageInv'
      BY <1>0, <1>v, <2>1, <2>3 DEF StatusInv, ImageInv, Deploying
    <3>4. SectorsInv'
      <4>1. Boot!Complete(image)
        BY <2>3 DEF Boot!Complete
      <4>2. \A i \in 1 .. image' - 1 : Boot!Complete(i)
        BY <2>1, <2>3, <2>s, <3>1, <4>1 DEF SectorsInv, Deploying
      <4> QED
        BY <1>c, <1>v, <2>1, <2>3, <2>s, <4>2 DEF SectorsInv, Deploying, Boot!Old
    <3> QED
      BY <1>0, <2>1, <3>2, <3>3, <3>4 DEF BootInv
  <2>4. CASE /\ ~Boot!NoImageLeft /\ pack.images[image] \in {"unknown", "failing"}
             /\ pc' = "error" /\ code' \subseteq Boot!NoErrorCode
             /\ \E d \in {dest[image], Boot!Torn} : dest' = [dest EXCEPT ![image] = d]
             /\ UNCHANGED image
    <3>1. image \in 1 .. Len(pack.images)
      BY <1>t, <2>4 DEF Boot!NoImageLeft
    <3>2. dest' \in [1 .. Len(pack.images) -> -1 .. NumChunks \cup {-2}]
      BY <1>t, <2>4, <3>1
    <3>3. Boot!TypeOK'
      BY <1>0, <1>t, <2>1, <2>4, <3>2 DEF Boot!TypeOK, Boot!Images, Boot!Old, Boot!Torn
    <3>4. StatusInv' /\ ImageInv'
      BY <1>0, <1>v, <2>1, <2>4 DEF StatusInv, ImageInv, Deploying
    <3>5. SectorsInv'
      BY <2>1, <2>4, StatusBits DEF SectorsInv, Deploying
    <3> QED
      BY <1>0, <2>1, <3>3, <3>4, <3>5 DEF BootInv
  <2>5. CASE /\ ~Boot!NoImageLeft /\ pack.images[image] \in {"internal", "erase"}
             /\ pc' = "erase" /\ UNCHANGED <<code, dest, image>>
    <3>1. image <= Len(pack.images)
      BY <1>t, <2>5 DEF Boot!NoImageLeft
    <3>2. Boot!TypeOK'
      BY <1>0, <2>1, <2>5 DEF Boot!TypeOK, Boot!Images
    <3>3. StatusInv' /\ ImageInv'
      BY <1>0, <1>v, <2>1, <2>5, <3>1 DEF StatusInv, ImageInv, Deploying
    <3>4. SectorsInv'
      BY <1>c, <1>v, <2>1, <2>5, <2>s DEF SectorsInv, Deploying, Boot!Old
    <3> QED
      BY <1>0, <2>1, <3>2, <3>3, <3>4 DEF BootInv
  <2>6. /\ Boot!NoSuitableImageUpgraderFound \subseteq Boot!NoErrorCode
        /\ Boot!ImageUpgradeFailed \subseteq Boot!NoErrorCode
    BY DEF Boot!NoSuitableImageUpgraderFound, Boot!ImageUpgradeFailed, Boot!NoErrorCode
  <2>7. ASSUME ~Boot!NoImageLeft, dest' = dest
        PROVE  dest' = [dest EXCEPT ![image] = dest[image]]
    BY <1>t, <2>7
  <2> QED
    BY <1>5, <2>2, <2>3, <2>4, <2>5, <2>6, <2>7 DEF Boot!TryUpgradeImage, Boot!Fail
<1>6. CASE Boot!EraseSectors
  <2>1. /\ pc = "erase" /\ status = Boot!DeployStarted /\ Verified
        /\ image \in 1 .. Len(pack.images) /\ pack.images[image] \in {"internal", "erase"}
        /\ dest' = [dest EXCEPT ![image] = 0]
        /\ UNCHANGED <<pack, status, errorCode, override, code, failures>>
    BY <1>0, <1>t, <1>6, StatusBits DEF Boot!EraseSectors, StatusInv, ImageInv, Deploying
  <2>2. /\ dest' \in [1 .. Len(pack.images) -> -1 .. NumChunks \cup {-2}]
        /\ dest'[image] = 0
        /\ \A i \in 1 .. Len(pack.images) : i /= image => dest'[i] = dest[i]
    BY <1>t, <2>1
  <2>3. \A i \in 1 .. image - 1 : Boot!Complete(i)'
    <3>1. \A i \in 1 .. image - 1 : Boot!Complete(i)
      BY <1>0, <2>1 DEF SectorsInv, Deploying
    <3>2. \A i \in 1 .. image - 1 : i \in 1 .. Len(pack.images) /\ i /= image
      BY <1>t, <2>1
    <3> QED
      BY <2>1, <2>2, <3>1, <3>2 DEF Boot!Complete
  <2>4. CASE pack.images[image] = "erase"
    <3>1. /\ pc' = "image" /\ image' = image + 1 /\ image' \in 1 .. Len(pack.images) + 1
          /\ image' - 1 = image
      BY <1>t, <1>6, <2>1, <2>4 DEF Boot!EraseSectors
    <3>2. Boot!TypeOK'
      BY <1>0, <1>t, <2>1, <2>2, <3>1 DEF Boot!TypeOK, Boot!Images, Boot!Old, Boot!Torn
    <3>3. StatusInv' /\ ImageInv'
      BY <1>0, <1>v, <2>1, <3>1 DEF StatusInv, ImageInv, Deploying
    <3>4. \A i \in {image} : Boot!Complete(i)'
      BY <2>1, <2>2, <2>4 DEF Boot!Complete
    <3>5. \A i \in 1 .. image' - 1 : Boot!Complete(i)'
      <4>1. \A i \in 1 .. image' - 1 : i \in 1 .. image - 1 \/ i = image
        BY <1>t, <3>1
      <4> QED
        BY <2>3, <3>4, <4>1
    <3>6. SectorsInv'
      BY <2>1, <3>5, StatusBits DEF SectorsInv, Deploying
    <3> QED
      BY <1>0, <2>1, <3>2, <3>3, <3>6 DEF BootInv
  <2>5. CASE pack.images[image] /= "erase"
    <3>1. pc' = "write" /\ image' = image /\ pack.images[image] = "internal"
      BY <1>6, <2>1, <2>5 DEF Boot!EraseSectors
    <3>2. Boot!TypeOK'
      BY <1>0, <1>t, <2>1, <2>2, <3>1 DEF Boot!TypeOK, Boot!Images, Boot!Old, Boot!Torn
    <3>3. StatusInv'
      BY <1>0, <1>v, <2>1, <3>1 DEF StatusInv, Deploying
    <3>4. ImageInv'
      BY <1>t, <2>1, <2>2, <3>1 DEF ImageInv
    <3>5. SectorsInv'
      BY <2>1, <2>3, <3>1, StatusBits DEF SectorsInv, Deploying
    <3> QED
      BY <1>0, <2>1, <3>2, <3>3, <3>4, <3>5 DEF BootInv
  <2> QED
    BY <2>4, <2>5
<1>7. CASE Boot!WriteBuffer
  <2>1. /\ pc = "write" /\ status = Boot!DeployStarted /\ Verified
        /\ image \in 1 .. Len(pack.images) /\ pack.images[image] = "internal"
        /\ dest[image] \in 0 .. NumChunks - 1
        /\ dest' = [dest EXCEPT ![image] = @ + 1]
        /\ UNCHANGED <<pack, status, errorCode, override, code, failures>>
    BY <1>0, <1>t, <1>7, StatusBits DEF Boot!WriteBuffer, StatusInv, ImageInv, Deploying
  <2>2. /\ dest' \in [1 .. Len(pack.images) -> -1 .. NumChunks \cup {-2}]
        /\ dest'[image] = dest[image] + 1
        /\ \A i \in 1 .. Len(pack.images) : i /= image => dest'[i] = dest[i]
    BY <1>t, <2>1
  <2>3. \A i \in 1 .. image - 1 : Boot!Complete(i)'
    <3>1. \A i \in 1 .. image - 1 : Boot!Complete(i)
      BY <1>0, <2>1 DEF SectorsInv, Deploying
    <3>2. \A i \in 1 .. image - 1 : i \in 1 .. Len(pack.images) /\ i /= image
      BY <1>t, <2>1
    <3> QED
      BY <2>1, <2>2, <3>1, <3>2 DEF Boot!Complete
  <2>4. CASE Boot!LastChunk
    <3>1. /\ pc' = "image" /\ image' = image + 1 /\ image' \in 1 .. Len(pack.images) + 1
          /\ image' - 1 = image
      BY <1>t, <1>7, <2>1, <2>4 DEF Boot!WriteBuffer
    <3>2. Boot!TypeOK'
      BY <1>0, <1>t, <2>1, <2>2, <3>1 DEF Boot!TypeOK, Boot!Images, Boot!Old, Boot!Torn
    <3>3. StatusInv' /\ ImageInv'
      BY <1>0, <1>v, <2>1, <3>1 DEF StatusInv, ImageInv, Deploying
    <3>4. \A i \in {image} : Boot!Complete(i)'
      BY <2>1, <2>2, <2>4 DEF Boot!Complete, Boot!LastChunk
    <3>5. \A i \in 1 .. image' - 1 : Boot!Complete(i)'
      <4>1. \A i \in 1 .. image' - 1 : i \in 1 .. image - 1 \/ i = image
        BY <1>t, <3>1
      <4> QED
        BY <2>3, <3>4, <4>1
    <3>6. SectorsInv'
      BY <2>1, <3>5, StatusBits DEF SectorsInv, Deploying
    <3> QED
      BY <1>0, <2>1, <3>2, <3>3, <3>6 DEF BootInv
  <2>5. CASE ~Boot!LastChunk
    <3>1. pc' = "write" /\ image' = image
      BY <1>7, <2>1, <2>5 DEF Boot!WriteBuffer
    <3>2. Boot!TypeOK'
      BY <1>0, <1>t, <2>1, <2>2, <3>1 DEF Boot!TypeOK, Boot!Images, Boot!Old, Boot!Torn
    <3>3. StatusInv'
      BY <1>0, <1>v, <2>1, <3>1 DEF StatusInv, Deploying
    <3>4. ImageInv'
      <4>1. dest'[image] \in 0 .. NumChunks - 1
        BY <1>t, <2>1, <2>2, <2>5 DEF Boot!LastChunk
      <4> QED
        BY <1>t, <2>1, <3>1, <4>1 DEF ImageInv
    <3>5. SectorsInv'
      BY <2>1, <2>3, <3>1, StatusBits DEF SectorsInv, Deploying
    <3> QED
      BY <1>0, <2>1, <3>2, <3>3, <3>4, <3>5 DEF BootInv
  <2> QED
    BY <2>4, <2>5
<1>8. CASE Boot!MarkAsDeployed
  <2>1. /\ pc = "deployed" /\ status = {0, 1, 2} /\ Verified /\ status' = {0, 1, 2, 3}
        /\ pc' = "application"
        /\ UNCHANGED <<pack, errorCode, dest, override, image, code, failures>>
    BY <1>0, <1>8, StatusBits DEF Boot!MarkAsDeployed, StatusInv, Deploying
  <2>2. Boot!TypeOK'
    BY <1>0, <2>1 DEF Boot!TypeOK, Boot!Images
  <2>3. StatusInv'
    BY <1>v, <2>1, StatusBits DEF StatusInv, Deploying
  <2>4. ImageInv'
    BY <2>1 DEF ImageInv
  <2>5. SectorsInv'
    <3>1. \A i \in Boot!Images : Boot!Complete(i)
      BY <1>0, <1>t, <2>1 DEF SectorsInv, ImageInv, Deploying
    <3> QED
      BY <1>c, <1>v, <2>1, <3>1 DEF SectorsInv, Deploying
  <2> QED
    BY <1>0, <2>1, <2>2, <2>3, <2>4, <2>5 DEF BootInv
<1>9. CASE Boot!MarkAsError
  <2>1. /\ pc = "error" /\ pc' = "errorCode" /\ status' = status \cup {7}
        /\ status \in {Boot!ReadyToDeploy, Boot!DeployStarted}
        /\ UNCHANGED <<pack, errorCode, dest, override, image, code, failures>>
    BY <1>0, <1>9, StatusBits DEF Boot!MarkAsError, StatusInv
  <2>2. Boot!TypeOK'
    BY <1>0, <2>1 DEF Boot!TypeOK, Boot!Images
  <2>3. StatusInv'
    BY <1>0, <1>v, <2>1, StatusBits DEF StatusInv, Deploying
  <2>4. ImageInv'
    BY <2>1 DEF ImageInv
  <2>5. SectorsInv'
    BY <1>0, <1>v, <2>1, StatusBits DEF SectorsInv, Deploying, Boot!Old
  <2> QED
    BY <1>0, <2>1, <2>2, <2>3, <2>4, <2>5 DEF BootInv
<1>10. CASE Boot!WriteErrorCode
  <2>1. /\ pc = "errorCode" /\ pc' = "application" /\ errorCode' = errorCode \cap code
        /\ UNCHANGED <<pack, status, dest, override, image, code, failures>>
    BY <1>10 DEF Boot!WriteErrorCode
  <2>2. Boot!TypeOK'
    BY <1>0, <2>1 DEF Boot!TypeOK, Boot!Images
  <2>3. StatusInv'
    BY <1>0, <1>v, <2>1, StatusBits DEF StatusInv, Deploying
  <2>4. ImageInv'
    BY <2>1 DEF ImageInv
  <2>5. SectorsInv'
    BY <1>0, <1>c, <1>v, <2>1 DEF SectorsInv, Deploying, Boot!Old
  <2> QED
    BY <1>0, <2>1, <2>2, <2>3, <2>4, <2>5 DEF BootInv
<1>11. CASE Boot!Crash
  <2>1. /\ pc' = "off" /\ failures' = failures + 1 /\ failures < MaxFailures
        /\ UNCHANGED <<pack, status, override, image, code>>
        /\ errorCode' \subseteq errorCode
    BY <1>11 DEF Boot!Crash
  <2>2. /\ dest' \in [1 .. Len(pack.images) -> -1 .. NumChunks \cup {-2}]
        /\ pc \notin {"erase", "write"} => dest' = dest
    <3>1. CASE pc \notin {"erase", "write"}
      BY <1>t, <1>11, <3>1 DEF Boot!Crash
    <3>2. CASE pc \in {"erase", "write"}
      <4>1. PICK d \in {dest[i] : i \in {image} \cap Boot!Images} \cup {Boot!Torn} :
                dest' = [dest EXCEPT ![image] = d]
        BY <1>11, <3>2 DEF Boot!Crash
      <4>2. d \in -1 .. NumChunks \cup {-2}
        BY <1>t
      <4> QED
        BY <1>t, <3>2, <4>1, <4>2
    <3> QED
      BY <3>1, <3>2
  <2>3. Boot!TypeOK'
    <3>1. failures' \in 0 .. MaxFailures
      BY <1>0, <1>t, <2>1 DEF Boot!TypeOK
    <3> QED
      BY <1>0, <1>t, <2>1, <2>2, <3>1 DEF Boot!TypeOK, Boot!Images, Boot!Old, Boot!Torn
  <2>4. StatusInv' /\ ImageInv'
    BY <1>0, <1>v, <2>1 DEF StatusInv, ImageInv, Deploying
  <2>5. SectorsInv'
    <3>1. CASE pc \in {"erase", "write"}
      BY <1>0, <2>1, <3>1, StatusBits DEF StatusInv, SectorsInv, Deploying
    <3>2. CASE pc \notin {"erase", "write"}
      BY <1>0, <1>c, <1>v, <2>1, <2>2, <3>2 DEF SectorsInv, Deploying, Boot!Old
    <3> QED
      BY <3>1, <3>2
  <2> QED
    BY <1>0, <2>1, <2>3, <2>4, <2>5 DEF BootInv
<1>12. CASE UNCHANGED Boot!vars
  <2>1. UNCHANGED <<pack, status, errorCode, dest, pc, override, image, code, failures>>
    BY <1>12 DEF Boot!vars
  <2>2. Boot!TypeOK'
    BY <1>0, <2>1 DEF Boot!TypeOK, Boot!Images
  <2>3. StatusInv' /\ ImageInv'
    BY <1>0, <1>v, <2>1 DEF StatusInv, ImageInv
  <2>4. SectorsInv'
    BY <1>0, <1>c, <1>v, <2>1 DEF SectorsInv, Boot!Old
  <2> QED
    BY <1>0, <2>1, <2>2, <2>3, <2>4 DEF BootInv
<1> QED
  BY <1>1, <1>2, <1>3, <1>4, <1>5, <1>6, <1>7, <1>8, <1>9, <1>10, <1>11, <1>12
     DEF Boot!Next, Boot!BootLoaders

(***************************************************************************)
(* What the invariant says where the application is started.               *)
(***************************************************************************)
LEMMA BootInvIsSafe ==
    ASSUME BootInv
    PROVE  Boot!TypeOK /\ Boot!WholeOrInvalid /\ Boot!OnlyVerified
<1>0. Boot!TypeOK /\ StatusInv /\ SectorsInv
  BY DEF BootInv
<1>1. Boot!WholeOrInvalid
  <2> SUFFICES ASSUME pc = "application", 7 \notin status
               PROVE  \/ \A i \in Boot!Images : dest[i] = Boot!Old
                      \/ \A i \in Boot!Images : Boot!Complete(i)
    BY StatusBits DEF Boot!WholeOrInvalid, Boot!IsInvalid
  <2>1. status \in {{0}, {0, 1}, Boot!Deployed}
    BY <1>0, StatusBits DEF StatusInv
  <2>2. CASE status \in {{0}, {0, 1}}
    BY <1>0, <2>2 DEF SectorsInv
  <2>3. CASE status = Boot!Deployed
    BY <1>0, <2>3 DEF SectorsInv
  <2> QED
    BY <2>1, <2>2, <2>3
<1>2. Boot!OnlyVerified
  BY <1>0 DEF StatusInv, SectorsInv, Verified, Boot!OnlyVerified
<1> QED
  BY <1>0, <1>1, <1>2

(***************************************************************************)
(* A boot loader that deploys works on a pack that is not invalid.         *)
(***************************************************************************)
LEMMA InvalidStays ==
    ASSUME BootInv, [Boot!Next]_Boot!vars, Boot!IsInvalid
    PROVE  UNCHANGED <<status, dest>>
<1>0. StatusInv /\ 7 \in status
  BY StatusBits DEF BootInv, Boot!IsInvalid
<1>1. pc \notin Deploying \cup {"deploy", "error"} /\ status /= Boot!Downloaded
  BY <1>0, StatusBits DEF StatusInv
<1>2. ~(Boot!MakeReady \/ Boot!UpgradeFromImages \/ Boot!TryUpgradeImage
        \/ Boot!EraseSectors \/ Boot!WriteBuffer \/ Boot!MarkAsDeployed \/ Boot!MarkAsError)
  BY <1>1 DEF Deploying, Boot!MakeReady, Boot!UpgradeFromImages, Boot!TryUpgradeImage,
     Boot!EraseSectors, Boot!WriteBuffer, Boot!MarkAsDeployed, Boot!MarkAsError
<1>3. CASE Boot!Boot \/ Boot!Load \/ Boot!WriteErrorCode \/ UNCHANGED Boot!vars
  BY <1>3 DEF Boot!Boot, Boot!Load, Boot!WriteErrorCode, Boot!vars
<1>4. CASE Boot!Crash
  BY <1>1, <1>4 DEF Boot!Crash, Deploying
<1> QED
  BY <1>2, <1>3, <1>4 DEF Boot!Next, Boot!BootLoaders

-----------------------------------------------------------------------------
(* DeployPackToExternal.                                                   *)

\* The inductive invariant of DeployPackToExternal: what is copied is what
\* was counted, and only what fits in from is copied
CopyInv ==
    /\ Copy!TypeOK
    /\ original /= "readyToDeploy" => to = packSize
    /\ at = "tell" => original = "deployed" /\ packSize <= FromSize
    /\ at \in {"erase", "copy", "mark"} => original = "readyToDeploy" /\ packSize <= FromSize
    /\ at \in {"header", "erase"} => done = 0
    /\ at \in {"copy", "mark"} => to = done
    /\ at = "mark" => done = packSize
    /\ packSize > FromSize => to = Copy!Other /\ told /= "Done"

(***************************************************************************)
(* Before the copying of a pack begins the invariant holds.                *)
(***************************************************************************)
LEMMA CopyInvInit == Copy!Init => CopyInv
BY CopyAssumption DEF Copy!Init, CopyInv, Copy!TypeOK, Copy!Other, Copy!SizesAssumption

(***************************************************************************)
(* Every step of the copying, and every power failure, keeps it.           *)
(***************************************************************************)
LEMMA CopyInvNext ==
    ASSUME CopyInv, [Copy!Next]_Copy!vars
    PROVE  CopyInv'
<1>t. /\ packSize \in Nat \ {0} /\ FromSize \in Nat
      /\ to \in -1 .. packSize /\ done \in 0 .. packSize /\ Copy!Other = -1
  BY CopyAssumption DEF CopyInv, Copy!TypeOK, Copy!SizesAssumption, Copy!Other
<1>1. CASE Copy!Start
  BY <1>t, <1>1 DEF Copy!Start, CopyInv, Copy!TypeOK
<1>2. CASE Copy!Check
  BY <1>t, <1>2 DEF Copy!Check, Copy!Deployable, Copy!Fits, CopyInv, Copy!TypeOK
<1>3. CASE Copy!EraseAll
  BY <1>t, <1>3 DEF Copy!EraseAll, CopyInv, Copy!TypeOK
<1>4. CASE Copy!CopyChunk
  <2>1. at = "copy" /\ to = done /\ packSize <= FromSize /\ original = "readyToDeploy"
    BY <1>4 DEF Copy!CopyChunk, CopyInv
  <2>2. CASE ~Copy!NothingToDo
    <3>1. /\ to' = to + 1 /\ done' = done + 1 /\ done /= packSize
          /\ UNCHANGED <<at, packSize, original, told, copyFailures>>
      BY <1>4, <2>2 DEF Copy!CopyChunk, Copy!NothingToDo
    <3>2. to' \in -1 .. packSize /\ done' \in 0 .. packSize /\ to' = done'
      BY <1>t, <2>1, <3>1
    <3> QED
      BY <1>t, <2>1, <3>1, <3>2 DEF CopyInv, Copy!TypeOK, Copy!Other
  <2>3. CASE Copy!NothingToDo
    <3>1. /\ done = packSize /\ at' = "mark"
          /\ UNCHANGED <<to, done, packSize, original, told, copyFailures>>
      BY <1>4, <2>3 DEF Copy!CopyChunk, Copy!NothingToDo
    <3> QED
      BY <1>t, <2>1, <3>1 DEF CopyInv, Copy!TypeOK
  <2> QED
    BY <2>2, <2>3
<1>5. CASE Copy!MarkAsDeployed
  BY <1>t, <1>5 DEF Copy!MarkAsDeployed, CopyInv, Copy!TypeOK
<1>6. CASE Copy!Done
  BY <1>t, <1>6 DEF Copy!Done, CopyInv, Copy!TypeOK
<1>7. CASE Copy!Crash
  <2>1. /\ at' = "off" /\ UNCHANGED <<packSize, done, told>>
        /\ to' = to \/ (to' = -1 /\ at \in {"erase", "copy"})
        /\ original' = original \/ (original' \in {"torn", "deployed"} /\ at = "mark")
    BY <1>t, <1>7 DEF Copy!Crash
  <2> QED
    BY <1>t, <2>1 DEF CopyInv, Copy!TypeOK, Copy!Other
<1>8. CASE UNCHANGED Copy!vars
  BY <1>8 DEF Copy!vars, CopyInv, Copy!TypeOK
<1> QED
  BY <1>1, <1>2, <1>3, <1>4, <1>5, <1>6, <1>7, <1>8 DEF Copy!Next, Copy!Deploy

-----------------------------------------------------------------------------
(***************************************************************************)
(* Both invariants hold whenever the power fails.                          *)
(***************************************************************************)
LEMMA UpgradeInvariant == ~Overrides /\ FlashSpec => [](BootInv /\ CopyInv)
<1>1. FlashInit => BootInv /\ CopyInv
  BY BootInvInit, CopyInvInit DEF FlashInit
<1>2. ~Overrides /\ BootInv /\ CopyInv /\ [FlashNext]_<<subject, vars, bootVars, copyVars>>
          => (BootInv /\ CopyInv)'
  <2> SUFFICES ASSUME ~Overrides, BootInv, CopyInv,
                      [FlashNext]_<<subject, vars, bootVars, copyVars>>
               PROVE  (BootInv /\ CopyInv)'
    OBVIOUS
  <2>1. [Boot!Next]_Boot!vars /\ [Copy!Next]_Copy!vars
    BY DEF FlashNext, bootVars, copyVars, Boot!vars, Copy!vars
  <2> QED
    BY <2>1, BootInvNext, CopyInvNext
<1>3. ~Overrides => []~Overrides
  OBVIOUS
<1> QED
  BY <1>1, <1>2, <1>3, PTL DEF FlashSpec

(***************************************************************************)
(* Whenever the power fails, and however often: the application is started *)
(* with all of the old sectors or all of the new ones unless the pack is   *)
(* marked invalid, no sector is touched for a pack that was not verified,  *)
(* a pack is marked as deployed only when it is copied completely, and a   *)
(* pack that does not fit is not copied.  The code compares the size of    *)
(* the pack with that of from, so that the last holds if to is not         *)
(* smaller.                                                                *)
(***************************************************************************)
THEOREM UpgradeIsSafe == ~Overrides /\ FromSize <= ToSize /\ FlashSpec => []UpgradeSafe
<1>1. FromSize <= ToSize /\ BootInv /\ CopyInv => UpgradeSafe
  <2> SUFFICES ASSUME FromSize <= ToSize, BootInv, CopyInv
               PROVE  UpgradeSafe
    OBVIOUS
  <2>1. FromSize \in Nat /\ ToSize \in Nat /\ packSize \in Nat
    BY CopyAssumption DEF CopyInv, Copy!TypeOK, Copy!SizesAssumption
  <2>2. Copy!TypeOK /\ Copy!CopiedBeforeMarked /\ Copy!TooBigDoesNotDeploy
    BY <2>1 DEF CopyInv, Copy!CopiedBeforeMarked, Copy!TooBigDoesNotDeploy
  <2> QED
    BY <2>2, BootInvIsSafe DEF UpgradeSafe
<1>2. FromSize <= ToSize => [](FromSize <= ToSize)
  OBVIOUS
<1> QED
  BY <1>1, <1>2, UpgradeInvariant, PTL

(***************************************************************************)
(* Once a pack is marked invalid, nothing of it is deployed any more and   *)
(* it does not become deployed, whatever boots and fails after that.       *)
(***************************************************************************)
THEOREM InvalidPackIsFinal == ~Overrides /\ FlashSpec => InvalidIsFinal
<1>1. BootInv /\ [FlashNext]_<<subject, vars, bootVars, copyVars>> =>
        [Boot!IsInvalid => /\ Boot!IsInvalid' /\ UNCHANGED dest
                           /\ (Boot!Deployed \subseteq status' => Boot!Deployed \subseteq status)]_Boot!vars
  <2> SUFFICES ASSUME BootInv, [FlashNext]_<<subject, vars, bootVars, copyVars>>, Boot!IsInvalid
               PROVE  /\ Boot!IsInvalid' /\ UNCHANGED dest
                      /\ (Boot!Deployed \subseteq status' => Boot!Deployed \subseteq status)
    OBVIOUS
  <2>1. [Boot!Next]_Boot!vars
    BY DEF FlashNext, bootVars, Boot!vars
  <2>2. UNCHANGED <<status, dest>>
    BY <2>1, InvalidStays
  <2> QED
    BY <2>2 DEF Boot!IsInvalid
<1> QED
  BY <1>1, UpgradeInvariant, PTL DEF FlashSpec, InvalidIsFinal, Boot!InvalidIsFinal
-----------------------------------------------------------------------------
(* ConfigurationStore.                                                     *)

USE FactoryAssumption, BoundsAssumption
USE DEF Factory, Blobs, Nothing, Torn, Default, Other, BlobIsValid,
        NoOperation, Read, Erasing, Writing

\* Every flash operation the code starts is an operation.
LEMMA OperationTypes ==
    /\ NoOperation \in Operations
    /\ \A b \in {Factory} \cup Blobs, t \in Completions :
        /\ Read(b, t) \in Operations
        /\ Erasing(b, t) \in Operations
        /\ Writing(b, t) \in Operations
  BY DEF Operations, Completions

\* The invariant holds when the program starts for the first time.
LEMMA StoreInvInit == Init => StoreInv
<1> SUFFICES ASSUME Init PROVE StoreInv
  OBVIOUS
<1> USE DEF Init
<1>1. FlashType
  BY OperationTypes DEF FlashType, FirstOperation, Completions
<1>2. StoreType
  BY DEF StoreType
<1>3. ClientType
  BY DEF ClientType
<1>4. FlagsType
  BY DEF FlagsType
<1>5. OperationInv
  BY DEF OperationInv, AtRest, FirstOperation
<1>6. VersionsInv /\ FactoryInv
  BY DEF VersionsInv, FactoryInv, FirstOperation
<1>7. Durable
  BY DEF Durable, Recoverable
<1> QED
  BY <1>1, <1>2, <1>5, <1>6, <1>7, <1>3, <1>4 DEF StoreInv, TypeOK

\* Every completion of a flash operation, every call of a client and every
\* power failure preserves the invariant.
LEMMA StoreInvNext == StoreInv /\ [Next]_vars => StoreInv'
<1> SUFFICES ASSUME StoreInv, [Next]_vars PROVE StoreInv'
  OBVIOUS
<1>0. /\ FlashType /\ StoreType /\ ClientType /\ FlagsType
      /\ OperationInv /\ VersionsInv /\ FactoryInv /\ Durable
  BY DEF StoreInv, TypeOK
<1>1. CASE FactoryRecovered
  <2> USE <1>1 DEF FactoryRecovered, Completes
  <2>1. op = Read(Factory, "factoryRecovered") /\ activeBlob = 1 /\ AtRest
    BY <1>0 DEF OperationInv
  <2>2. flash' = flash
    BY <1>0, <2>1 DEF Outcome, FlashType
  <2>3. flash[Factory] \in {Nothing, Torn, Default}
    BY <1>0 DEF FactoryInv
  <2>4. configuration' = Default
    BY <2>3
  <2>5. FlashType'
    BY <1>0, <2>1, <2>2, OperationTypes DEF FlashType, Completions
  <2>6. StoreType'
    BY <1>0 DEF StoreType, storeVars
  <2>7. ClientType'
    BY <1>0, <2>4 DEF ClientType
  <2>8. OperationInv'
    BY <2>1, <2>2, <2>4 DEF OperationInv, AtRest, storeVars
  <2>9. VersionsInv'
    BY <1>0, <2>1, <2>2, <2>4 DEF VersionsInv, AtRest, ClientType, storeVars
  <2>10. FactoryInv'
    BY <1>0, <2>2, <2>3 DEF FactoryInv
  <2>11. Durable'
    BY <1>0, <2>2 DEF Durable, Recoverable
  <2>12. FlagsType'
    BY <1>0 DEF FlagsType, storeVars
  <2> QED
    BY <2>5, <2>6, <2>7, <2>8, <2>9, <2>10, <2>11, <2>12 DEF StoreInv, TypeOK
<1>2. CASE FactoryErased
  <2> USE <1>2 DEF FactoryErased, Completes
  <2>1. /\ op = Erasing(Factory, "factoryErased")
        /\ activeBlob = 1 /\ AtRest /\ configuration = Default
    BY <1>0 DEF OperationInv
  <2>2. flash' = [flash EXCEPT ![Factory] = Nothing]
    BY <1>0, <2>1 DEF Outcome, FlashType, OperationInv
  <2>3. FlashType'
    BY <1>0, <2>1, <2>2, OperationTypes DEF FlashType, StoreType, ClientType, storeVars, Completions
  <2>4. StoreType'
    BY <1>0, <2>1 DEF StoreType, ClientType, storeVars
  <2>5. ClientType'
    BY <1>0, <2>1 DEF FlashType, StoreType, ClientType, storeVars
  <2>6. FlagsType'
    BY <1>0 DEF FlagsType, storeVars
  <2>7. OperationInv'
    BY <1>0, <2>1, <2>2
       DEF OperationInv, VersionsInv, AtRest, Supersedes, FlashType, StoreType, ClientType, storeVars
  <2>8. VersionsInv'
    BY <1>0, <2>1, <2>2
       DEF VersionsInv, AtRest, Supersedes, FlashType, StoreType, ClientType, storeVars
  <2>9. FactoryInv'
    BY <1>0, <2>1, <2>2 DEF FactoryInv, FlashType, StoreType
  <2>10. Durable'
    BY <1>0, <2>1, <2>2 DEF Durable, Recoverable, Supersedes, FlashType, StoreType, ClientType
  <2> QED
    BY <2>3, <2>4, <2>7, <2>8, <2>9, <2>10, <2>5, <2>6 DEF StoreInv, TypeOK
<1>3. CASE FactoryWritten
  <2> USE <1>3 DEF FactoryWritten, Completes
  <2>1. /\ op = Writing(Factory, "factoryWritten")
        /\ activeBlob = 1 /\ AtRest /\ configuration = Default
    BY <1>0 DEF OperationInv
  <2>2. flash' = [flash EXCEPT ![Factory] = Default]
    BY <1>0, <2>1 DEF Outcome, FlashType, OperationInv
  <2>3. FlashType'
    BY <1>0, <2>1, <2>2, OperationTypes DEF FlashType, StoreType, ClientType, storeVars, Completions
  <2>4. StoreType'
    BY <1>0, <2>1 DEF StoreType, ClientType, storeVars
  <2>5. ClientType'
    BY <1>0, <2>1 DEF FlashType, StoreType, ClientType, storeVars
  <2>6. FlagsType'
    BY <1>0 DEF FlagsType, storeVars
  <2>7. OperationInv'
    BY <1>0, <2>1, <2>2
       DEF OperationInv, VersionsInv, AtRest, Supersedes, FlashType, StoreType, ClientType, storeVars
  <2>8. VersionsInv'
    BY <1>0, <2>1, <2>2
       DEF VersionsInv, AtRest, Supersedes, FlashType, StoreType, ClientType, storeVars
  <2>9. FactoryInv'
    BY <1>0, <2>1, <2>2 DEF FactoryInv, FlashType, StoreType
  <2>10. Durable'
    BY <1>0, <2>1, <2>2 DEF Durable, Recoverable, Supersedes, FlashType, StoreType, ClientType
  <2> QED
    BY <2>3, <2>4, <2>7, <2>8, <2>9, <2>10, <2>5, <2>6 DEF StoreInv, TypeOK
<1>4. CASE ActiveRecovered
  <2> USE <1>4 DEF ActiveRecovered, Completes
  <2>1. /\ op = Read(1, "activeRecovered")
        /\ activeBlob = 1 /\ AtRest /\ configuration = Default
    BY <1>0 DEF OperationInv
  <2>2. flash' = flash
    BY <1>0, <2>1 DEF Outcome, FlashType, OperationInv
  <2>3. FlashType'
    BY <1>0, <2>1, <2>2, OperationTypes DEF FlashType, StoreType, ClientType, storeVars, Completions
  <2>4. StoreType'
    BY <1>0, <2>1 DEF StoreType, ClientType, storeVars
  <2>5. ClientType'
    BY <1>0, <2>1 DEF FlashType, StoreType, ClientType, storeVars
  <2>6. FlagsType'
    BY <1>0 DEF FlagsType, storeVars
  <2>7. OperationInv'
    BY <1>0, <2>1, <2>2
       DEF OperationInv, VersionsInv, AtRest, Supersedes, FlashType, StoreType, ClientType, storeVars
  <2>8. VersionsInv'
    BY <1>0, <2>1, <2>2
       DEF VersionsInv, AtRest, Supersedes, FlashType, StoreType, ClientType, storeVars
  <2>9. FactoryInv'
    BY <1>0, <2>1, <2>2 DEF FactoryInv, FlashType, StoreType
  <2>10. Durable'
    BY <1>0, <2>1, <2>2 DEF Durable, Recoverable, Supersedes, FlashType, StoreType, ClientType
  <2> QED
    BY <2>3, <2>4, <2>7, <2>8, <2>9, <2>10, <2>5, <2>6 DEF StoreInv, TypeOK
<1>5. CASE OtherRecovered
  <2> USE <1>5 DEF OtherRecovered, Completes
  <2>1. /\ op = Read(2, "otherRecovered")
        /\ activeBlob = 2 /\ AtRest /\ configuration = Default
        /\ ~BlobIsValid(flash[1])
    BY <1>0 DEF OperationInv
  <2>2. flash' = flash
    BY <1>0, <2>1 DEF Outcome, FlashType, OperationInv
  <2>3. FlashType'
    BY <1>0, <2>1, <2>2, OperationTypes DEF FlashType, StoreType, ClientType, storeVars, Completions
  <2>4. StoreType'
    BY <1>0, <2>1 DEF StoreType, ClientType, storeVars
  <2>5. ClientType'
    BY <1>0, <2>1 DEF FlashType, StoreType, ClientType, storeVars
  <2>6. FlagsType'
    BY <1>0 DEF FlagsType, storeVars
  <2>7. OperationInv'
    BY <1>0, <2>1, <2>2
       DEF OperationInv, VersionsInv, AtRest, Supersedes, FlashType, StoreType, ClientType, storeVars
  <2>8. VersionsInv'
    BY <1>0, <2>1, <2>2
       DEF VersionsInv, AtRest, Supersedes, FlashType, StoreType, ClientType, storeVars
  <2>9. FactoryInv'
    BY <1>0, <2>1, <2>2 DEF FactoryInv, FlashType, StoreType
  <2>10. Durable'
    BY <1>0, <2>1, <2>2 DEF Durable, Recoverable, Supersedes, FlashType, StoreType, ClientType
  <2> QED
    BY <2>3, <2>4, <2>7, <2>8, <2>9, <2>10, <2>5, <2>6 DEF StoreInv, TypeOK
<1>6. CASE OnBlobLoadedSuccess
  <2> USE <1>6 DEF OnBlobLoadedSuccess, Completes
  <2>1. /\ op = Erasing(Other(activeBlob), "loadedSuccess")
        /\ AtRest
        /\ BlobIsValid(flash[activeBlob]) /\ buffer = flash[activeBlob]
        /\ activeBlob = 2 => ~BlobIsValid(flash[1])
    BY <1>0 DEF OperationInv
  <2>2. flash' = [flash EXCEPT ![Other(activeBlob)] = Nothing]
    BY <1>0, <2>1 DEF Outcome, FlashType, OperationInv
  <2>3. FlashType'
    BY <1>0, <2>1, <2>2, OperationTypes DEF FlashType, StoreType, ClientType, storeVars, Completions
  <2>4. StoreType'
    BY <1>0, <2>1 DEF StoreType, ClientType, storeVars
  <2>5. ClientType'
    BY <1>0, <2>1 DEF FlashType, StoreType, ClientType, storeVars
  <2>6. FlagsType'
    BY <1>0 DEF FlagsType, storeVars
  <2>7. OperationInv'
    BY <1>0, <2>1, <2>2
       DEF OperationInv, VersionsInv, AtRest, Supersedes, FlashType, StoreType, ClientType, storeVars
  <2>8. VersionsInv'
    BY <1>0, <2>1, <2>2
       DEF VersionsInv, AtRest, Supersedes, FlashType, StoreType, ClientType, storeVars
  <2>9. FactoryInv'
    BY <1>0, <2>1, <2>2 DEF FactoryInv, FlashType, StoreType
  <2>10. Durable'
    BY <1>0, <2>1, <2>2 DEF Durable, Recoverable, Supersedes, FlashType, StoreType, ClientType
  <2> QED
    BY <2>3, <2>4, <2>7, <2>8, <2>9, <2>10, <2>5, <2>6 DEF StoreInv, TypeOK
<1>7. CASE OnBlobLoadedFailure
  <2> USE <1>7 DEF OnBlobLoadedFailure, Completes
  <2>1. /\ op = Erasing(1, "loadedFailure")
        /\ AtRest /\ activeBlob = 2 /\ configuration = Default
        /\ ~BlobIsValid(flash[1]) /\ ~BlobIsValid(flash[2])
    BY <1>0 DEF OperationInv
  <2>2. flash' = [flash EXCEPT ![1] = Nothing]
    BY <1>0, <2>1 DEF Outcome, FlashType
  <2>3. confirmed = Nothing
    BY <1>0, <2>1 DEF Durable, Recoverable, ClientType
  <2>4. FlashType'
    BY <1>0, <2>1, <2>2, OperationTypes DEF FlashType, Completions
  <2>5. StoreType'
    BY <1>0, <2>1 DEF StoreType
  <2>6. ClientType' /\ FlagsType'
    BY <1>0 DEF ClientType, FlagsType
  <2>7. OperationInv'
    <3>1. CASE loadDefaults
      BY <1>0, <2>1, <2>2, <2>3, <3>1 DEF OperationInv, AtRest, FlashType
    <3>2. CASE ~loadDefaults
      <4>1. op' = NoOperation
        BY <3>2
      <4> QED
        BY <1>0, <2>1, <2>2, <4>1 DEF OperationInv, AtRest, FlashType
    <3> QED
      BY <3>1, <3>2
  <2>8. VersionsInv'
    BY <1>0, <2>1, <2>2 DEF VersionsInv, AtRest, FlashType, ClientType
  <2>9. FactoryInv'
    BY <1>0, <2>1, <2>2 DEF FactoryInv, FlashType
  <2>10. Durable'
    BY <2>1, <2>2, <2>3 DEF Durable, Recoverable, FlashType
  <2> QED
    BY <2>4, <2>5, <2>6, <2>7, <2>8, <2>9, <2>10 DEF StoreInv, TypeOK
<1>8. CASE InactiveErased
  <2> USE <1>8 DEF InactiveErased, Completes
  <2>1. /\ op = Erasing(Other(activeBlob), "inactiveErased")
        /\ AtRest /\ flash[activeBlob] = Nothing /\ confirmed = Nothing
    BY <1>0 DEF OperationInv
  <2>2. flash' = [flash EXCEPT ![Other(activeBlob)] = Nothing]
    BY <1>0, <2>1 DEF Outcome, FlashType, OperationInv
  <2>3. FlashType'
    BY <1>0, <2>1, <2>2, OperationTypes DEF FlashType, StoreType, ClientType, storeVars, Completions
  <2>4. StoreType'
    BY <1>0, <2>1 DEF StoreType, ClientType, storeVars
  <2>5. ClientType'
    BY <1>0, <2>1 DEF FlashType, StoreType, ClientType, storeVars
  <2>6. FlagsType'
    BY <1>0 DEF FlagsType, storeVars
  <2>7. OperationInv'
    BY <1>0, <2>1, <2>2
       DEF OperationInv, VersionsInv, AtRest, Supersedes, FlashType, StoreType, ClientType, storeVars
  <2>8. VersionsInv'
    BY <1>0, <2>1, <2>2
       DEF VersionsInv, AtRest, Supersedes, FlashType, StoreType, ClientType, storeVars
  <2>9. FactoryInv'
    BY <1>0, <2>1, <2>2 DEF FactoryInv, FlashType, StoreType
  <2>10. Durable'
    BY <1>0, <2>1, <2>2 DEF Durable, Recoverable, Supersedes, FlashType, StoreType, ClientType
  <2> QED
    BY <2>3, <2>4, <2>7, <2>8, <2>9, <2>10, <2>5, <2>6 DEF StoreInv, TypeOK
<1>9. CASE ActiveErased
  <2> USE <1>9 DEF ActiveErased, Completes
  <2>1. /\ op = Erasing(activeBlob, "activeErased")
        /\ AtRest /\ confirmed = Nothing
        /\ flash[activeBlob] = Nothing /\ flash[Other(activeBlob)] = Nothing
    BY <1>0 DEF OperationInv
  <2>2. flash' = flash
    BY <1>0, <2>1 DEF Outcome, FlashType, OperationInv
  <2>3. FlashType'
    BY <1>0, <2>1, <2>2, OperationTypes DEF FlashType, StoreType, ClientType, storeVars, Completions
  <2>4. StoreType'
    BY <1>0, <2>1 DEF StoreType, ClientType, storeVars
  <2>5. ClientType'
    BY <1>0, <2>1 DEF FlashType, StoreType, ClientType, storeVars
  <2>6. FlagsType'
    BY <1>0 DEF FlagsType, storeVars
  <2>7. OperationInv'
    BY <1>0, <2>1, <2>2
       DEF OperationInv, VersionsInv, AtRest, Supersedes, FlashType, StoreType, ClientType, storeVars
  <2>8. VersionsInv'
    BY <1>0, <2>1, <2>2
       DEF VersionsInv, AtRest, Supersedes, FlashType, StoreType, ClientType, storeVars
  <2>9. FactoryInv'
    BY <1>0, <2>1, <2>2 DEF FactoryInv, FlashType, StoreType
  <2>10. Durable'
    BY <1>0, <2>1, <2>2 DEF Durable, Recoverable, Supersedes, FlashType, StoreType, ClientType
  <2> QED
    BY <2>3, <2>4, <2>7, <2>8, <2>9, <2>10, <2>5, <2>6 DEF StoreInv, TypeOK
<1>10. CASE Serialized
  <2> USE <1>10 DEF Serialized, Completes
  <2>1. /\ op = Writing(activeBlob, "serialized") /\ writingBlob
        /\ flash[activeBlob] = Nothing /\ BlobIsValid(buffer)
        /\ Supersedes(buffer, flash[Other(activeBlob)])
    BY <1>0 DEF OperationInv
  <2>2. flash' = [flash EXCEPT ![activeBlob] = buffer]
    BY <1>0, <2>1 DEF Outcome, FlashType, OperationInv
  <2>3. FlashType'
    BY <1>0, <2>1, <2>2, OperationTypes DEF FlashType, StoreType, ClientType, storeVars, Completions
  <2>4. StoreType'
    BY <1>0, <2>1 DEF StoreType, ClientType, storeVars
  <2>5. ClientType'
    BY <1>0, <2>1 DEF FlashType, StoreType, ClientType, storeVars
  <2>6. FlagsType'
    BY <1>0 DEF FlagsType, storeVars
  <2>7. OperationInv'
    BY <1>0, <2>1, <2>2
       DEF OperationInv, VersionsInv, AtRest, Supersedes, FlashType, StoreType, ClientType, storeVars
  <2>8. VersionsInv'
    BY <1>0, <2>1, <2>2
       DEF VersionsInv, AtRest, Supersedes, FlashType, StoreType, ClientType, storeVars
  <2>9. FactoryInv'
    BY <1>0, <2>1, <2>2 DEF FactoryInv, FlashType, StoreType
  <2>10. Durable'
    BY <1>0, <2>1, <2>2 DEF Durable, Recoverable, Supersedes, FlashType, StoreType, ClientType
  <2> QED
    BY <2>3, <2>4, <2>7, <2>8, <2>9, <2>10, <2>5, <2>6 DEF StoreInv, TypeOK
<1>11. CASE BlobWriteDoneAgain
  <2> USE <1>11 DEF BlobWriteDoneAgain, Completes
  <2>1. /\ op = Erasing(Other(activeBlob), "written") /\ writingBlob
        /\ BlobIsValid(flash[activeBlob])
        /\ Supersedes(flash[activeBlob], flash[Other(activeBlob)])
    BY <1>0 DEF OperationInv
  <2>2. flash' = [flash EXCEPT ![Other(activeBlob)] = Nothing]
    BY <1>0, <2>1 DEF Outcome, FlashType
  <2>3. StoreType'
    BY <1>0 DEF StoreType
  <2>4. ClientType'
    BY <1>0 DEF ClientType
  <2>5. FlagsType'
    BY <1>0 DEF FlagsType, StartWrite
  <2>6. VersionsInv'
    BY <1>0, <2>2 DEF VersionsInv, FlashType, StoreType, ClientType
  <2>7. Durable'
    BY <1>0, <2>1, <2>2 DEF Durable, Recoverable, Supersedes, FlashType, StoreType, ClientType
  <2>8. flash'[Factory] = flash[Factory]
    BY <1>0, <2>2 DEF FlashType, StoreType
  <2>9. CASE lockCount > 0
    <3>1. op' = NoOperation /\ ~writingBlob' /\ writeRequested' /\ buffer' = buffer
      BY <2>9
    <3>2. FlashType'
      BY <1>0, <2>2, <3>1, OperationTypes DEF FlashType, StoreType
    <3>3. OperationInv'
      BY <1>0, <2>1, <2>2, <3>1 DEF OperationInv, Supersedes, FlashType, StoreType, ClientType
    <3>4. FactoryInv'
      BY <1>0, <2>1, <2>8, <3>1 DEF FactoryInv
    <3> QED
      BY <2>3, <2>4, <2>5, <2>6, <2>7, <3>2, <3>3, <3>4 DEF StoreInv, TypeOK
  <2>10. CASE ~(lockCount > 0)
    <3>1. /\ op' = Writing(Other(activeBlob), "serialized")
          /\ writingBlob' /\ ~writeRequested' /\ buffer' = configuration
      BY <2>10 DEF StartWrite
    <3>2. FlashType'
      <4>1. op' \in Operations
        BY <1>0, <3>1, OperationTypes DEF StoreType, Completions
      <4> QED
        BY <1>0, <2>2, <3>1, <4>1 DEF FlashType, ClientType
    <3>3. OperationInv'
      BY <1>0, <2>1, <2>2, <3>1
         DEF OperationInv, VersionsInv, Supersedes, FlashType, StoreType, ClientType
    <3>4. FactoryInv'
      BY <1>0, <2>1, <2>8, <3>1 DEF FactoryInv
    <3> QED
      BY <2>3, <2>4, <2>5, <2>6, <2>7, <3>2, <3>3, <3>4 DEF StoreInv, TypeOK
  <2> QED
    BY <2>9, <2>10
<1>12. CASE BlobWriteDone
  <2> USE <1>12 DEF BlobWriteDone, Completes
  <2>1. /\ op = Erasing(Other(activeBlob), "written") /\ writingBlob
        /\ BlobIsValid(flash[activeBlob])
        /\ Supersedes(flash[activeBlob], flash[Other(activeBlob)])
    BY <1>0 DEF OperationInv
  <2>2. flash' = [flash EXCEPT ![Other(activeBlob)] = Nothing]
    BY <1>0, <2>1 DEF Outcome, FlashType, OperationInv
  <2>3. FlashType'
    BY <1>0, <2>1, <2>2, OperationTypes DEF FlashType, StoreType, ClientType, storeVars, Completions
  <2>4. StoreType'
    BY <1>0, <2>1 DEF StoreType, ClientType, storeVars
  <2>5. ClientType'
    BY <1>0, <2>1 DEF FlashType, StoreType, ClientType, storeVars
  <2>6. FlagsType'
    BY <1>0 DEF FlagsType, storeVars
  <2>7. OperationInv'
    BY <1>0, <2>1, <2>2
       DEF OperationInv, VersionsInv, AtRest, Supersedes, FlashType, StoreType, ClientType, storeVars
  <2>8. VersionsInv'
    BY <1>0, <2>1, <2>2
       DEF VersionsInv, AtRest, Supersedes, FlashType, StoreType, ClientType, storeVars
  <2>9. FactoryInv'
    BY <1>0, <2>1, <2>2 DEF FactoryInv, FlashType, StoreType
  <2>10. Durable'
    BY <1>0, <2>1, <2>2 DEF Durable, Recoverable, Supersedes, FlashType, StoreType, ClientType
  <2> QED
    BY <2>3, <2>4, <2>7, <2>8, <2>9, <2>10, <2>5, <2>6 DEF StoreInv, TypeOK
<1>13. CASE Change
  <2> USE <1>13 DEF Change, Ready, storeVars
  <2>1. FlashType'
    BY <1>0, OperationTypes DEF FlashType, StoreType, ClientType, Completions
  <2>2. StoreType'
    BY <1>0 DEF StoreType, ClientType
  <2>3. ClientType'
    BY <1>0 DEF ClientType
  <2>4. FlagsType'
    BY <1>0 DEF FlagsType
  <2>5. OperationInv'
    BY <1>0 DEF OperationInv, VersionsInv, AtRest, Supersedes, FlashType, StoreType, ClientType
  <2>6. VersionsInv' /\ FactoryInv' /\ Durable'
    BY <1>0
       DEF VersionsInv, FactoryInv, Durable, Recoverable, FlashType, StoreType, ClientType, OperationInv
  <2> QED
    BY <2>1, <2>2, <2>5, <2>6, <2>3, <2>4 DEF StoreInv, TypeOK
<1>14. CASE \E withFunction \in BOOLEAN : Write(withFunction)
  <2> USE <1>14 DEF Write, StartWrite, Ready, storeVars
  <2>1. FlashType'
    BY <1>0, OperationTypes DEF FlashType, StoreType, ClientType, Completions
  <2>2. StoreType'
    BY <1>0 DEF StoreType, ClientType
  <2>3. ClientType'
    BY <1>0 DEF ClientType
  <2>4. FlagsType'
    BY <1>0 DEF FlagsType
  <2>5. OperationInv'
    BY <1>0 DEF OperationInv, VersionsInv, AtRest, Supersedes, FlashType, StoreType, ClientType
  <2>6. op.then \in {"none", "serialized", "written"}
    BY <1>0 DEF OperationInv, AtRest, FlashType, Operations, Completions
  <2>7. flash[1] <= configuration /\ flash[2] <= configuration
    <3>1. CASE op.then = "none"
      BY <1>0, <3>1 DEF OperationInv, FlashType, StoreType, ClientType
    <3>2. CASE op.then \in {"serialized", "written"}
      BY <1>0, <3>2 DEF OperationInv, Supersedes, FlashType, StoreType, ClientType
    <3> QED
      BY <2>6, <3>1, <3>2
  <2>8. confirmed <= configuration
    BY <1>0, <2>7 DEF Durable, Recoverable, FlashType, ClientType
  <2>9. VersionsInv'
    BY <1>0, <2>8 DEF VersionsInv, StoreType, ClientType
  <2>10. FactoryInv' /\ Durable'
    BY <1>0 DEF FactoryInv, Durable, Recoverable, OperationInv
  <2> QED
    BY <2>1, <2>2, <2>5, <2>9, <2>3, <2>4, <2>10 DEF StoreInv, TypeOK
<1>15. CASE Lock
  <2> USE <1>15 DEF Lock, Ready, historyVars, storeVars
  <2>1. FlashType'
    BY <1>0, OperationTypes DEF FlashType, StoreType, ClientType, Completions
  <2>2. StoreType'
    BY <1>0 DEF StoreType, ClientType
  <2>3. ClientType'
    BY <1>0 DEF ClientType
  <2>4. FlagsType'
    BY <1>0 DEF FlagsType
  <2>5. OperationInv'
    BY <1>0 DEF OperationInv, VersionsInv, AtRest, Supersedes, FlashType, StoreType, ClientType
  <2>6. VersionsInv' /\ FactoryInv' /\ Durable'
    BY <1>0
       DEF VersionsInv, FactoryInv, Durable, Recoverable, FlashType, StoreType, ClientType, OperationInv
  <2> QED
    BY <2>1, <2>2, <2>5, <2>6, <2>3, <2>4 DEF StoreInv, TypeOK
<1>16. CASE Unlock
  <2> USE <1>16 DEF Unlock, historyVars
  <2>1. StoreType'
    BY <1>0 DEF StoreType
  <2>2. ClientType'
    BY <1>0 DEF ClientType
  <2>3. FlagsType'
    BY <1>0 DEF FlagsType, StartWrite
  <2>4. CASE lockCount' = 0 /\ writeRequested /\ ~writingBlob
    <3>1. /\ op' = Writing(activeBlob, "serialized")
          /\ writingBlob' /\ ~writeRequested' /\ buffer' = configuration
      BY <2>4 DEF StartWrite
    <3>2. op = NoOperation /\ flash[activeBlob] = Nothing /\ flash[Other(activeBlob)] <= configuration
      BY <1>0, <2>4 DEF OperationInv, AtRest, FlashType, Operations, Completions
    <3>3. FlashType'
      BY <1>0, <3>1, OperationTypes DEF FlashType, StoreType, ClientType, Completions
    <3>4. OperationInv'
      BY <1>0, <3>1, <3>2 DEF OperationInv, VersionsInv, Supersedes, ClientType, FlashType
    <3>5. VersionsInv' /\ FactoryInv' /\ Durable'
      BY <1>0, <3>1, <3>2 DEF VersionsInv, FactoryInv, Durable, Recoverable
    <3> QED
      BY <2>1, <2>2, <2>3, <3>3, <3>4, <3>5 DEF StoreInv, TypeOK
  <2>5. CASE ~(lockCount' = 0 /\ writeRequested /\ ~writingBlob)
    <3>1. UNCHANGED <<op, buffer, writingBlob, writeRequested>>
      BY <1>0, <2>5 DEF StartWrite, FlagsType
    <3>2. FlashType'
      BY <1>0, <3>1 DEF FlashType
    <3>3. OperationInv'
      BY <1>0, <3>1 DEF OperationInv, AtRest, Supersedes
    <3>4. VersionsInv' /\ FactoryInv' /\ Durable'
      BY <1>0, <3>1 DEF VersionsInv, FactoryInv, Durable, Recoverable
    <3> QED
      BY <2>1, <2>2, <2>3, <3>2, <3>3, <3>4 DEF StoreInv, TypeOK
  <2> QED
    BY <2>4, <2>5
<1>17. CASE Erase
  <2> USE <1>17 DEF Erase, storeVars
  <2>1. FlashType'
    BY <1>0, OperationTypes DEF FlashType, StoreType, ClientType, Completions
  <2>2. StoreType'
    BY <1>0 DEF StoreType, ClientType
  <2>3. ClientType'
    BY <1>0 DEF ClientType
  <2>4. FlagsType'
    BY <1>0 DEF FlagsType
  <2>5. OperationInv'
    BY <1>0 DEF OperationInv, VersionsInv, AtRest, Supersedes, FlashType, StoreType, ClientType
  <2>6. VersionsInv' /\ FactoryInv' /\ Durable'
    BY <1>0
       DEF VersionsInv, FactoryInv, Durable, Recoverable, FlashType, StoreType, ClientType, OperationInv
  <2> QED
    BY <2>1, <2>2, <2>5, <2>6, <2>3, <2>4 DEF StoreInv, TypeOK
<1>18. CASE UNCHANGED vars
  <2> USE <1>18 DEF vars, historyVars, storeVars
  <2>1. FlashType'
    BY <1>0, OperationTypes DEF FlashType, StoreType, ClientType, Completions
  <2>2. StoreType'
    BY <1>0 DEF StoreType, ClientType
  <2>3. ClientType'
    BY <1>0 DEF ClientType
  <2>4. FlagsType'
    BY <1>0 DEF FlagsType
  <2>5. OperationInv'
    BY <1>0 DEF OperationInv, VersionsInv, AtRest, Supersedes, FlashType, StoreType, ClientType
  <2>6. VersionsInv' /\ FactoryInv' /\ Durable'
    BY <1>0
       DEF VersionsInv, FactoryInv, Durable, Recoverable, FlashType, StoreType, ClientType, OperationInv
  <2> QED
    BY <2>1, <2>2, <2>5, <2>6, <2>3, <2>4 DEF StoreInv, TypeOK
<1>19. CASE Crash
  <2> USE <1>19 DEF Crash
  <2>1. PICK contents \in {flash[op.blob], Outcome, Torn} :
            /\ contents = Torn => op.kind \in {"erase", "write"} \/ flash[op.blob] = Torn
            /\ flash' = [flash EXCEPT ![op.blob] = contents]
    OBVIOUS
  <2>2. op.blob \in {Factory} \cup Blobs /\ contents \in Nat \cup {Nothing, Torn}
    BY <1>0, <2>1 DEF FlashType, Operations, Outcome
  <2>3. FlashType'
    BY <1>0, <2>1, <2>2, OperationTypes DEF FlashType, FirstOperation, Completions
  <2>4. StoreType' /\ ClientType'
    BY <1>0 DEF StoreType, ClientType
  <2>5. FlagsType'
    BY DEF FlagsType
  <2>6. OperationInv'
    BY DEF OperationInv, AtRest, FirstOperation
  <2>7. op.blob = Factory => contents \in {Nothing, Torn, Default}
    BY <1>0, <2>1, <2>2
       DEF OperationInv, FactoryInv, Outcome, FlashType, StoreType, Operations, Completions
  <2>8. op.blob \in Blobs => contents <= latest
    BY <1>0, <2>1, <2>2
       DEF OperationInv, VersionsInv, Supersedes, Outcome, FlashType, ClientType, Operations,
           Completions
  <2>9. VersionsInv'
    BY <1>0, <2>1, <2>2, <2>8 DEF VersionsInv, FlashType, ClientType
  <2>10. FactoryInv'
    BY <1>0, <2>1, <2>2, <2>7 DEF FactoryInv, FirstOperation, FlashType
  <2>11. Durable'
    <3> USE DEF Durable, Recoverable, FlashType, StoreType, ClientType
    <3>1. CASE op.kind \notin {"erase", "write"} \/ op.blob = Factory
      <4>1. flash'[1] = flash[1] /\ flash'[2] = flash[2]
        BY <1>0, <2>1, <2>2, <3>1 DEF Outcome
      <4> QED
        BY <1>0, <4>1
    <3>2. CASE op.then = "loadedSuccess"
      <4>1. /\ op.blob = Other(activeBlob) /\ BlobIsValid(flash[activeBlob])
            /\ activeBlob = 2 => ~BlobIsValid(flash[1])
            /\ op.kind = "erase"
        BY <1>0, <3>2 DEF OperationInv
      <4>2. contents \in {flash[op.blob], Nothing, Torn}
        BY <2>1, <4>1 DEF Outcome
      <4> QED
        BY <1>0, <2>1, <4>1, <4>2
    <3>3. CASE op.then \in {"loadedFailure", "inactiveErased", "activeErased"}
      <4>1. confirmed = Nothing
        BY <1>0, <3>3 DEF OperationInv
      <4> QED
        BY <2>3, <4>1
    <3>4. CASE op.then = "serialized"
      <4>1. /\ op.blob = activeBlob /\ flash[activeBlob] = Nothing /\ op.kind = "write"
            /\ BlobIsValid(buffer) /\ buffer >= flash[Other(activeBlob)]
        BY <1>0, <3>4 DEF OperationInv, Supersedes
      <4>2. contents \in {Nothing, buffer, Torn}
        BY <2>1, <4>1 DEF Outcome
      <4> QED
        BY <1>0, <2>1, <4>1, <4>2
    <3>5. CASE op.then = "written"
      <4>1. /\ op.blob = Other(activeBlob) /\ op.kind = "erase"
            /\ BlobIsValid(flash[activeBlob]) /\ flash[activeBlob] >= flash[Other(activeBlob)]
        BY <1>0, <3>5 DEF OperationInv, Supersedes
      <4>2. contents \in {flash[op.blob], Nothing, Torn}
        BY <2>1, <4>1 DEF Outcome
      <4> QED
        BY <1>0, <2>1, <4>1, <4>2
    <3> QED
      BY <1>0, <3>1, <3>2, <3>3, <3>4, <3>5 DEF OperationInv, Operations, Completions
  <2> QED
    BY <2>3, <2>4, <2>5, <2>6, <2>9, <2>10, <2>11 DEF StoreInv, TypeOK
<1> QED
  BY <1>1, <1>2, <1>3, <1>4, <1>5, <1>6, <1>7, <1>8, <1>9, <1>10, <1>11, <1>12, <1>13, <1>14, <1>15, <1>16, <1>17, <1>18, <1>19
     DEF Next, Completion, Recover, Client

(***************************************************************************)
(* The inductive invariant holds in every state: what each flash operation *)
(* finds in the blobs, and the order of the configurations they hold.      *)
(***************************************************************************)
THEOREM StoreInvariant == Spec => []StoreInv
<1>1. Init => StoreInv
  BY StoreInvInit
<1>2. StoreInv /\ [Next]_vars => StoreInv'
  BY StoreInvNext
<1> QED
  BY <1>1, <1>2, PTL DEF Spec

(***************************************************************************)
(* A configuration whose write was reported as done is what a recovery     *)
(* finds, or a newer one is, whenever the power fails.                     *)
(***************************************************************************)
THEOREM ConfirmedNeverLost == Spec => []Durable
<1>1. StoreInv => Durable
  BY DEF StoreInv
<1> QED
  BY <1>1, StoreInvariant, PTL

(***************************************************************************)
(* No blob is written that is not erased, whatever was interrupted before. *)
(***************************************************************************)
THEOREM OnlyErasedBlobsWritten == Spec => []WritesErasedBlob
<1>1. StoreInv => WritesErasedBlob
  <2> SUFFICES ASSUME StoreInv, op.kind = "write" PROVE flash[op.blob] = Nothing
    BY DEF WritesErasedBlob
  <2>1. op.then \in {"factoryWritten", "serialized"}
    BY DEF StoreInv, TypeOK, OperationInv, FlashType, Operations, Completions
  <2> QED
    BY <2>1 DEF StoreInv, OperationInv
<1> QED
  BY <1>1, StoreInvariant, PTL

(***************************************************************************)
(* Two configurations are never in the blobs at once such that a recovery  *)
(* would find the older one, but for the moments that OneConfiguration     *)
(* names: in all others the active blob is erased or the other one is not  *)
(* valid.                                                                  *)
(***************************************************************************)
THEOREM NeverTwoConfigurations == Spec => []OneConfiguration
<1>1. StoreInv => OneConfiguration
  <2> SUFFICES ASSUME StoreInv, BlobIsValid(flash[1]), BlobIsValid(flash[2])
               PROVE  \/ op.then \in {"factoryRecovered", "factoryErased", "factoryWritten",
                                     "activeRecovered"}
                      \/ op.then = "loadedSuccess" /\ op.blob = 2
                      \/ op.then = "written" /\ flash[Other(op.blob)] >= flash[op.blob]
    BY DEF OneConfiguration
  <2>1. activeBlob \in {1, 2} /\ Other(1) = 2 /\ Other(2) = 1
    BY DEF StoreInv, TypeOK, StoreType, Blobs, Other
  <2>2. flash[activeBlob] /= Nothing /\ BlobIsValid(flash[1]) /\ BlobIsValid(flash[2])
    BY <2>1 DEF BlobIsValid, Nothing
  <2>3. op.then \in {"factoryRecovered", "factoryErased", "factoryWritten", "activeRecovered",
                     "loadedSuccess", "written"}
    <3>1. op.then \in Completions \cup {"none"}
      BY DEF StoreInv, TypeOK, FlashType, Operations
    <3>2. op.then \notin {"none", "inactiveErased", "activeErased", "serialized"}
      BY <2>2 DEF StoreInv, OperationInv
    <3>3. op.then \notin {"otherRecovered", "loadedFailure"}
      BY <2>2 DEF StoreInv, OperationInv
    <3> QED
      BY <3>1, <3>2, <3>3 DEF Completions
  <2>4. CASE op.then = "loadedSuccess"
    BY <2>1, <2>4 DEF StoreInv, OperationInv, Erasing
  <2>5. CASE op.then = "written"
    BY <2>1, <2>5 DEF StoreInv, OperationInv, Erasing, Supersedes
  <2> QED
    BY <2>3, <2>4, <2>5
<1> QED
  BY <1>1, StoreInvariant, PTL

(***************************************************************************)
(* A store with factory defaults that is ready has them in their blob.     *)
(***************************************************************************)
THEOREM FactoryDefaultsNeverLost == Spec => []FactoryDefaultsKept
<1>1. StoreInv => FactoryDefaultsKept
  BY DEF StoreInv, FactoryDefaultsKept, FactoryInv, Ready, OperationInv, AtRest
<1> QED
  BY <1>1, StoreInvariant, PTL

\* What a step does to the stored configuration
LEMMA StepIsDurableStep ==
    ASSUME StoreInv, StoreInv', [Next]_vars
    PROVE  [Store!Next]_Store!vars
<1>0. /\ FlashType /\ StoreType /\ ClientType /\ OperationInv /\ VersionsInv /\ Durable
      /\ FlashType' /\ ClientType' /\ Durable'
  BY DEF StoreInv, TypeOK
<1> DEFINE Same == UNCHANGED <<Recoverable, confirmed>>
           Installs == /\ Recoverable' \in Nat /\ Recoverable' >= Recoverable
                       /\ confirmed' >= confirmed
           Clears == confirmed = Nothing /\ Recoverable' = Nothing /\ confirmed' = confirmed
<1>a. Same \/ Installs \/ Clears => [Store!Next]_Store!vars
  BY <1>0 DEF Store!Next, Store!Install, Store!Clear, Store!vars, Store!Nothing, Durable
<1> HIDE DEF Same, Installs, Clears
<1>1. CASE UNCHANGED <<flash, confirmed>>
  <2>1. Same
    BY <1>1 DEF Same, Recoverable
  <2> QED
    BY <1>a, <2>1
<1>2. CASE FactoryErased \/ FactoryWritten
  <2>1. flash'[1] = flash[1] /\ flash'[2] = flash[2] /\ confirmed' = confirmed
    BY <1>0, <1>2 DEF FactoryErased, FactoryWritten, Completes, OperationInv, FlashType
  <2>2. Same
    BY <2>1 DEF Same, Recoverable
  <2> QED
    BY <1>a, <2>2
<1>3. CASE FactoryRecovered \/ ActiveRecovered \/ OtherRecovered \/ ActiveErased
  <2>1. UNCHANGED <<flash, confirmed>>
    BY <1>0, <1>3
       DEF FactoryRecovered, ActiveRecovered, OtherRecovered, ActiveErased, Completes, Outcome,
           OperationInv, FlashType, StoreType
  <2> QED
    BY <1>1, <2>1
<1>4. CASE OnBlobLoadedSuccess \/ OnBlobLoadedFailure
  <2>1. flash' = [flash EXCEPT ![Other(activeBlob)] = Nothing] /\ confirmed' = confirmed
    BY <1>0, <1>4
       DEF OnBlobLoadedSuccess, OnBlobLoadedFailure, Completes, Outcome, OperationInv
  <2>2. \/ BlobIsValid(flash[activeBlob]) /\ (activeBlob = 2 => ~BlobIsValid(flash[1]))
        \/ ~BlobIsValid(flash[1]) /\ ~BlobIsValid(flash[2])
    BY <1>0, <1>4 DEF OnBlobLoadedSuccess, OnBlobLoadedFailure, Completes, OperationInv
  <2>3. Same
    BY <1>0, <2>1, <2>2 DEF Same, Recoverable, FlashType, StoreType
  <2> QED
    BY <1>a, <2>3
<1>5. CASE InactiveErased
  <2>1. /\ op = Erasing(Other(activeBlob), "inactiveErased")
        /\ flash[activeBlob] = Nothing /\ confirmed = Nothing /\ confirmed' = confirmed
    BY <1>0, <1>5 DEF InactiveErased, Completes, OperationInv
  <2>2. flash' = [flash EXCEPT ![Other(activeBlob)] = Nothing]
    BY <1>5, <2>1 DEF InactiveErased, Completes, Outcome
  <2>3. Clears
    BY <1>0, <2>1, <2>2 DEF Clears, Recoverable, FlashType, StoreType
  <2> QED
    BY <1>a, <2>3
<1>6. CASE Serialized
  <2>1. /\ op = Writing(activeBlob, "serialized") /\ confirmed' = confirmed
        /\ BlobIsValid(buffer) /\ buffer >= flash[Other(activeBlob)]
        /\ flash[activeBlob] = Nothing
    BY <1>0, <1>6 DEF Serialized, Completes, OperationInv, Supersedes
  <2>2. flash' = [flash EXCEPT ![activeBlob] = buffer]
    BY <1>6, <2>1 DEF Serialized, Completes, Outcome
  <2>3. Installs
    BY <1>0, <2>1, <2>2 DEF Installs, Recoverable, FlashType, StoreType, ClientType
  <2> QED
    BY <1>a, <2>3
<1>7. CASE BlobWriteDoneAgain \/ BlobWriteDone
  <2>1. /\ op = Erasing(Other(activeBlob), "written")
        /\ BlobIsValid(flash[activeBlob]) /\ flash[activeBlob] >= flash[Other(activeBlob)]
    BY <1>0, <1>7 DEF BlobWriteDoneAgain, BlobWriteDone, Completes, OperationInv, Supersedes
  <2>2. flash' = [flash EXCEPT ![Other(activeBlob)] = Nothing]
    BY <1>7, <2>1 DEF BlobWriteDoneAgain, BlobWriteDone, Completes, Outcome
  <2>3. confirmed' = confirmed \/ (onWriteDone /= Nothing /\ confirmed' = onWriteDone)
    BY <1>7 DEF BlobWriteDoneAgain, BlobWriteDone
  <2>4. confirmed' >= confirmed
    BY <1>0, <2>3 DEF VersionsInv, ClientType
  <2>5. Installs
    BY <1>0, <2>1, <2>2, <2>4 DEF Installs, Recoverable, FlashType, StoreType, ClientType
  <2> QED
    BY <1>a, <2>5
<1>8. CASE Erase
  <2>1. Store!Forget
    BY <1>8 DEF Erase, Store!Forget, Store!Nothing, Recoverable
  <2> QED
    BY <2>1 DEF Store!Next
<1>9. CASE \/ Change \/ Lock \/ Unlock \/ UNCHANGED vars
           \/ \E withFunction \in BOOLEAN : Write(withFunction)
  <2>1. UNCHANGED <<flash, confirmed>>
    BY <1>9 DEF Change, Lock, Unlock, Write, vars, historyVars
  <2> QED
    BY <1>1, <2>1
<1>10. CASE Crash
  <2>1. PICK contents \in {flash[op.blob], Outcome, Torn} :
            /\ contents = Torn => op.kind \in {"erase", "write"} \/ flash[op.blob] = Torn
            /\ flash' = [flash EXCEPT ![op.blob] = contents]
    BY <1>10 DEF Crash
  <2>2. confirmed' = confirmed
    BY <1>10 DEF Crash
  <2> USE DEF Recoverable, FlashType, StoreType, ClientType
  <2>3. CASE op.kind \notin {"erase", "write"} \/ op.blob = Factory
    <3>1. flash'[1] = flash[1] /\ flash'[2] = flash[2]
      BY <1>0, <2>1, <2>3 DEF Outcome, Operations
    <3>2. Same
      BY <2>2, <3>1 DEF Same
    <3> QED
      BY <1>a, <3>2
  <2>4. CASE op.then \in {"loadedSuccess", "loadedFailure"}
    <3>1. /\ op.blob = Other(activeBlob) /\ op.kind = "erase"
          /\ \/ BlobIsValid(flash[activeBlob]) /\ (activeBlob = 2 => ~BlobIsValid(flash[1]))
             \/ ~BlobIsValid(flash[1]) /\ ~BlobIsValid(flash[2])
      BY <1>0, <2>4 DEF OperationInv
    <3>2. contents \in {flash[op.blob], Nothing, Torn}
      BY <2>1, <3>1 DEF Outcome
    <3>3. Same
      BY <1>0, <2>1, <2>2, <3>1, <3>2 DEF Same
    <3> QED
      BY <1>a, <3>3
  <2>5. CASE op.then \in {"inactiveErased", "activeErased"}
    <3>1. /\ op.blob \in Blobs /\ op.kind = "erase" /\ flash[activeBlob] = Nothing
          /\ confirmed = Nothing
          /\ op.blob = activeBlob => flash[Other(activeBlob)] = Nothing
      BY <1>0, <2>5 DEF OperationInv
    <3>2. contents \in {flash[op.blob], Nothing, Torn}
      BY <2>1, <3>1 DEF Outcome
    <3>3. Same \/ Clears
      BY <1>0, <2>1, <2>2, <3>1, <3>2 DEF Same, Clears
    <3> QED
      BY <1>a, <3>3
  <2>6. CASE op.then = "serialized"
    <3>1. /\ op.blob = activeBlob /\ op.kind = "write" /\ flash[activeBlob] = Nothing
          /\ BlobIsValid(buffer) /\ buffer >= flash[Other(activeBlob)]
      BY <1>0, <2>6 DEF OperationInv, Supersedes
    <3>2. contents \in {Nothing, buffer, Torn}
      BY <2>1, <3>1 DEF Outcome
    <3>3. Same \/ Installs
      BY <1>0, <2>1, <2>2, <3>1, <3>2 DEF Same, Installs
    <3> QED
      BY <1>a, <3>3
  <2>7. CASE op.then = "written"
    <3>1. /\ op.blob = Other(activeBlob) /\ op.kind = "erase"
          /\ BlobIsValid(flash[activeBlob]) /\ flash[activeBlob] >= flash[Other(activeBlob)]
      BY <1>0, <2>7 DEF OperationInv, Supersedes
    <3>2. contents \in {flash[op.blob], Nothing, Torn}
      BY <2>1, <3>1 DEF Outcome
    <3>3. Same \/ Installs
      BY <1>0, <2>1, <2>2, <3>1, <3>2 DEF Same, Installs
    <3> QED
      BY <1>a, <3>3
  <2> QED
    BY <1>0, <2>3, <2>4, <2>5, <2>6, <2>7 DEF OperationInv, Operations, Completions
<1> QED
  BY <1>2, <1>3, <1>4, <1>5, <1>6, <1>7, <1>8, <1>9, <1>10
     DEF Next, Completion, Recover, Client

(***************************************************************************)
(* The store implements DurableConfiguration: what a recovery would find   *)
(* changes in single steps from one configuration to a newer one, and      *)
(* never falls behind what was reported as written.                        *)
(***************************************************************************)
THEOREM StoreImplementsDurable == Spec => StoreIsDurable
<1>1. Init => Store!Init
  BY DEF Init, Store!Init, Store!Nothing, Recoverable
<1>2. StoreInv /\ StoreInv' /\ [Next]_vars => [Store!Next]_Store!vars
  BY StepIsDurableStep
<1> QED
  BY <1>1, <1>2, StoreInvariant, PTL DEF Spec, StoreIsDurable, Store!Spec

-----------------------------------------------------------------------------
(* What Recover loads                                                      *)

\* Nobody has a lock before the store is recovered: the client gets one from
\* a store that is ready.
UnlockedInv ==
    op.then \in {"factoryRecovered", "factoryErased", "factoryWritten", "activeRecovered",
                 "otherRecovered", "loadedSuccess", "loadedFailure"}
        => lockCount = 0

\* Every step preserves UnlockedInv.
LEMMA UnlockedInvNext ==
    ASSUME StoreInv, UnlockedInv, [Next]_vars
    PROVE  UnlockedInv'
<1>0. op.then = "none" => op = NoOperation
  BY DEF StoreInv, OperationInv
<1>1. CASE Recover
  BY <1>1 DEF UnlockedInv, Recover, FactoryRecovered, FactoryErased, FactoryWritten,
              ActiveRecovered, OtherRecovered, OnBlobLoadedSuccess, OnBlobLoadedFailure,
              Completes, storeVars
<1>2. CASE InactiveErased \/ ActiveErased \/ Serialized \/ BlobWriteDoneAgain \/ BlobWriteDone
  BY <1>2 DEF UnlockedInv, InactiveErased, ActiveErased, Serialized, BlobWriteDoneAgain,
              BlobWriteDone, StartWrite
<1>3. CASE Change
  BY <1>3 DEF UnlockedInv, Change, storeVars
<1>4. ASSUME NEW withFunction \in BOOLEAN, Write(withFunction)
      PROVE  UnlockedInv'
  BY <1>4 DEF UnlockedInv, Write, StartWrite
<1>5. CASE Lock
  BY <1>5 DEF UnlockedInv, Lock, Ready, StoreInv, OperationInv, AtRest
<1>6. CASE Unlock
  <2>1. lockCount /= 0
    BY <1>6 DEF Unlock, StoreInv, TypeOK, StoreType
  <2> QED
    BY <1>6, <2>1 DEF UnlockedInv, Unlock, StartWrite
<1>7. CASE Erase
  BY <1>7 DEF UnlockedInv, Erase
<1>8. CASE Crash
  BY <1>8 DEF UnlockedInv, Crash
<1>9. CASE UNCHANGED vars
  BY <1>9 DEF UnlockedInv, vars, storeVars
<1> QED
  BY <1>1, <1>2, <1>3, <1>4, <1>5, <1>6, <1>7, <1>8, <1>9 DEF Next, Completion, Client

\* The last step of Recover, if the power does not fail instead, loads what
\* is stored.
LEMMA RecoverLoads ==
    ASSUME StoreInv, UnlockedInv, Next, op.then \in {"loadedSuccess", "loadedFailure"},
           crashes' = crashes
    PROVE  configuration' = IF Recoverable = Nothing THEN Default ELSE Recoverable
<1>0. /\ FlashType /\ StoreType /\ ClientType /\ FlagsType /\ OperationInv
      /\ lockCount = 0 /\ AtRest /\ op /= NoOperation
  BY DEF StoreInv, TypeOK, UnlockedInv, OperationInv
<1>1. CASE OnBlobLoadedSuccess
  <2>1. /\ BlobIsValid(flash[activeBlob]) /\ buffer = flash[activeBlob]
        /\ activeBlob = 2 => ~BlobIsValid(flash[1])
        /\ activeBlob \in {1, 2}
    BY <1>0, <1>1 DEF OnBlobLoadedSuccess, Completes, OperationInv, StoreType
  <2>2. Recoverable = buffer /\ buffer /= Nothing
    BY <1>0, <2>1 DEF Recoverable, FlashType
  <2> QED
    BY <1>1, <2>2 DEF OnBlobLoadedSuccess
<1>2. CASE OnBlobLoadedFailure
  <2>1. ~BlobIsValid(flash[1]) /\ ~BlobIsValid(flash[2]) /\ configuration = Default
    BY <1>0, <1>2 DEF OnBlobLoadedFailure, Completes, OperationInv
  <2> QED
    BY <1>2, <2>1 DEF OnBlobLoadedFailure, Recoverable
<1>3. ~Crash
  BY <1>0 DEF Crash, ClientType
<1>4. ~Client
  BY <1>0 DEF Client, Change, Write, Lock, Unlock, Erase, Ready, AtRest
<1> QED
  BY <1>1, <1>2, <1>3, <1>4
  DEF Next, Completion, Recover, FactoryRecovered, FactoryErased, FactoryWritten,
      ActiveRecovered, OtherRecovered, InactiveErased, ActiveErased, Serialized,
      BlobWriteDoneAgain, BlobWriteDone, Completes

\* Whenever Recover ends, and whatever power failures came before, the
\* configuration in RAM is the one that was stored, or the default if there
\* was none.
THEOREM RecoverLoadsStored == Spec => RecoversWhatIsStored
<1>1. Init => UnlockedInv
  BY DEF Init, UnlockedInv
<1>2. StoreInv /\ UnlockedInv /\ [Next]_vars => UnlockedInv'
  BY UnlockedInvNext
<1>3. StoreInv /\ UnlockedInv /\ [Next]_vars =>
        [op.then \in {"loadedSuccess", "loadedFailure"} /\ crashes' = crashes
           => configuration' = IF Recoverable = Nothing THEN Default ELSE Recoverable]_vars
  BY RecoverLoads
<1> QED
  BY <1>1, <1>2, <1>3, StoreInvariant, PTL DEF Spec, RecoversWhatIsStored
=============================================================================
