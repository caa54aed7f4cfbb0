--------------------------- MODULE MCCyclicStore ---------------------------
(***************************************************************************)
(* Two instances of CyclicStore for TLC.  A behaviour is about one of them *)
(* (exercise): the store is filled, cleared and recovers from a power      *)
(* failure, or it is filled while an iterator reads it.  An iterator that  *)
(* reads after a recovery is left out, as the README explains.             *)
(***************************************************************************)
EXTENDS CyclicStore

CONSTANT Reader

VARIABLE exercise

NoReader == {}

Reading ==
    INSTANCE CyclicStore WITH Iterators <- {Reader}, PartialAdds <- FALSE,
        MaxCrashes <- 0, MaxClears <- 0, MaxBegins <- 1

StoreInit ==
    \/ exercise = "recovery" /\ Init
    \/ exercise = "reading" /\ Reading!Init

StoreNext ==
    \/ exercise = "recovery" /\ Next /\ UNCHANGED exercise
    \/ exercise = "reading" /\ Reading!Next /\ UNCHANGED exercise

StoreSpec ==
    /\ StoreInit /\ [][StoreNext]_<<exercise, vars>>
    /\ WF_vars(exercise = "recovery" /\ StoreStep)
    /\ WF_vars(exercise = "reading" /\ Reading!StoreStep)

\* Wherever in an operation the power fails: the addresses stay in the flash,
\* nothing is written over what is not erased, and the items that Add
\* confirmed leave the flash oldest first.
StoreSafe ==
    exercise = "recovery" => TypeOK /\ EndInFlash /\ WritesErasedFlash /\ OldestFirst

\* An iterator that no erased sector overtakes returns the items in order,
\* none twice, and in the end every one that was confirmed and is there.
ScanComplete ==
    exercise = "reading" => Reading!TypeOK /\ Reading!ScanInOrder /\ Reading!ScanFindsAll
=============================================================================
