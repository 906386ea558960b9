----------------------------- MODULE MCPageTasks -----------------------------
(***************************************************************************)
(* The tasks of the pages that have to come to an end, for TLC, one part at *)
(* a time: they share no variable.  Each is fair while it is the one that   *)
(* runs.                                                                    *)
(***************************************************************************)
EXTENDS OffThread, PreviewScan, CellBoot

VARIABLE part       \* the part that runs

Parts == {"off thread", "scan", "boot"}

\* A part that does not run stays in one initial state.
MCInit ==
    /\ part \in Parts
    /\ OffThreadInit
    /\ client = "ingest" \/ part = "off thread"
    /\ ScanInit
    /\ BootInit
    /\ camera \/ part = "boot"

MCNext ==
    /\ UNCHANGED part
    /\ \/ part = "off thread" /\ OffThreadNext
       \/ part # "off thread" /\ UNCHANGED offThreadVars
    /\ \/ part = "scan" /\ ScanNext
       \/ part # "scan" /\ UNCHANGED scanVars
    /\ \/ part = "boot" /\ BootNext
       \/ part # "boot" /\ UNCHANGED cellBootVars

MCSpec ==
    /\ MCInit
    /\ [][MCNext]_<<part, offThreadVars, scanVars, cellBootVars>>
    /\ (part = "off thread") => OffThreadFairness
    /\ (part = "scan") => ScanFairness
    /\ (part = "boot") => BootFairness
=============================================================================
