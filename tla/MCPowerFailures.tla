-------------------------- MODULE MCPowerFailures --------------------------
(***************************************************************************)
(* What is kept in flash across power failures, side by side for TLC: the  *)
(* configuration store ("store"), and the deployment of upgrade packs by   *)
(* the boot loaders ("boot") and to an external flash ("copy").  A         *)
(* behaviour is about one of them, and the others stay where they begin.   *)
(***************************************************************************)
EXTENDS ConfigurationStore, Sequences

CONSTANTS
    Packs, NumChunks, Overrides,            \* of PackUpgrader
    PackSizes, FromSize, ToSize,            \* of DeployPackToExternal
    MaxFailures                             \* of both

VARIABLES
    subject,
    pack, status, errorCode, dest, pc, override, image, code, failures,
    packSize, original, to, at, done, told, copyFailures

Boot == INSTANCE PackUpgrader WITH crashes <- failures, MaxCrashes <- MaxFailures
Copy == INSTANCE DeployPackToExternal
    WITH status <- original, pc <- at, crashes <- copyFailures, MaxCrashes <- MaxFailures

ASSUME BootAssumption ==
    Boot!PacksAssumption /\ Boot!NumChunksAssumption /\ Boot!BoundsAssumption
ASSUME CopyAssumption == Copy!SizesAssumption

\* A good pack, and one for every way to reject one
Good == [magic |-> TRUE, version |-> TRUE, product |-> TRUE, signature |-> TRUE,
         images |-> <<"second", "internal", "erase", "internal">>]

MCPacks ==
    {Good} \cup {[Good EXCEPT ![f] = FALSE] : f \in {"magic", "version", "product", "signature"}}
        \cup {[Good EXCEPT !.images = s] :
                 s \in {<<"internal", "second">>, <<"internal">>, <<"wrong", "second">>,
                        <<"second", "internal", "failing">>, <<"second", "unknown", "internal">>}}

bootVars == <<pack, status, errorCode, dest, pc, override, image, code, failures>>
copyVars == <<packSize, original, to, at, done, told, copyFailures>>

\* The packs differ only where they matter.
FlashInit ==
    /\ subject \in {"store", "boot", "copy"}
    /\ Init /\ Boot!Init /\ Copy!Init
    /\ subject /= "boot" => pack = Good
    /\ subject /= "copy" => packSize = FromSize

FlashNext ==
    \/ subject = "store" /\ Next /\ UNCHANGED <<subject, bootVars, copyVars>>
    \/ subject = "boot" /\ Boot!Next /\ UNCHANGED <<subject, vars, copyVars>>
    \/ subject = "copy" /\ Copy!Next /\ UNCHANGED <<subject, vars, bootVars>>

\* The fairness that each component states, where it is the subject
FlashSpec ==
    /\ FlashInit /\ [][FlashNext]_<<subject, vars, bootVars, copyVars>>
    /\ WF_vars(subject = "store" /\ Completion)
    /\ WF_vars(subject = "store" /\ Unlock)
    /\ WF_bootVars(subject = "boot" /\ Boot!BootLoaders)
    /\ WF_copyVars(subject = "copy" /\ Copy!Deploy)

-----------------------------------------------------------------------------
\* Whenever the power fails: the application is started with all of the old
\* sectors or all of the new ones, no sector is touched for a pack that was
\* not verified, a pack that is marked as deployed is copied completely, and
\* a pack that does not fit is not copied.
UpgradeSafe ==
    /\ Boot!TypeOK
    /\ Boot!WholeOrInvalid
    /\ Boot!OnlyVerified
    /\ Copy!TypeOK
    /\ Copy!CopiedBeforeMarked
    /\ Copy!TooBigDoesNotDeploy

\* Once a pack is marked invalid, whatever its status was, nothing of it is
\* deployed any more and it does not become deployed.
InvalidIsFinal == Boot!InvalidIsFinal

\* Every pack that is ready comes to be deployed, marked as invalid or
\* refused, if the power stops failing.
EveryUpgradeEnds ==
    /\ subject = "boot" => Boot!EveryPackEnds
    /\ subject = "copy" => Copy!EveryDeploymentEnds
=============================================================================
