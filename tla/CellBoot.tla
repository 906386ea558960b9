------------------------------ MODULE CellBoot ------------------------------
(***************************************************************************)
(* world-cell-authority-entry.ts: how the World Cell page chooses its mode. *)
(* Phase after phase is awaited against a timer.  The loser of such a race  *)
(* is not stopped: a bundle, an assurance bridge or a theater that timed    *)
(* out may still install itself later, beside the preview.                  *)
(***************************************************************************)
EXTENDS Naturals, Sequences, Functions

\* The awaited phases of the authoritative path, in order, and of the preview.
Authority == <<"provenance module", "bundle", "assurance module", "assurance",
               "theater modules", "theater">>
Preview == "preview module"

VARIABLES
    camera,     \* whether the browser can be asked for a camera
    phase,      \* how many phases of the authoritative path have completed
    mode,       \* root.dataset.worldCellMode, or "closed" or "booting" before
    waiting,    \* whether the promise of the current phase is still raced
    late,       \* phases that timed out and still run
    done,       \* phases whose promise was fulfilled, in time or late
    failed,     \* phases whose promise was rejected
    keyxym,     \* root.dataset.keyxymAuthority
    map,        \* root.dataset.keyxymMapAuthority
    eform,      \* root.dataset.eformAuthority
    startable   \* whether the start button is enabled

cellBootVars ==
    <<camera, phase, mode, waiting, late, done, failed, keyxym, map, eform, startable>>

BootInit ==
    /\ camera \in BOOLEAN
    /\ phase = 0 /\ mode = "closed" /\ waiting = FALSE
    /\ late = {} /\ done = {} /\ failed = {}
    /\ keyxym = "none" /\ map = "none" /\ eform = "none"
    /\ startable = FALSE

Current == IF mode = "booting" THEN Authority[phase + 1] ELSE Preview

\* The dataset fields a completed phase writes.
Records(p) ==
    /\ map' = IF p = "bundle" THEN "verified" ELSE map
    /\ eform' = IF p = "assurance" THEN "verified" ELSE eform

\* The page is opened: the module starts and calls boot.
OpenPage ==
    /\ mode = "closed"
    /\ mode' = "booting" /\ waiting' = TRUE
    /\ UNCHANGED <<camera, phase, late, done, failed, keyxym, map, eform, startable>>

\* withTimeout: the promise is fulfilled first.
PhaseCompletes ==
    /\ mode = "booting" /\ waiting /\ phase + 1 < Len(Authority)
    /\ phase' = phase + 1
    /\ done' = done \cup {Current}
    /\ Records(Current)
    /\ UNCHANGED <<camera, mode, waiting, late, failed, keyxym, startable>>

\* The last one makes the page authoritative.
TheaterCompletes ==
    /\ mode = "booting" /\ waiting /\ phase + 1 = Len(Authority)
    /\ phase' = phase + 1
    /\ done' = done \cup {Current}
    /\ mode' = "authoritative" /\ waiting' = FALSE
    /\ keyxym' = "verified" /\ startable' = TRUE
    /\ UNCHANGED <<camera, late, failed, map, eform>>

\* The phase is rejected or loses its race: the catch of boot, which records
\* what was not reached, and enterPreview.
AssurancePhases == {"assurance module", "assurance"}
Leaves(p) ==
    /\ map' = IF map = "none" THEN "rejected" ELSE map
    /\ eform' = IF p \in AssurancePhases THEN "rejected"
                ELSE IF eform = "none" THEN "unavailable" ELSE eform

BootRejects(timeout) ==     \* fault: the phases are awaited without a timer
    /\ mode = "booting" /\ waiting /\ ~timeout
    /\ failed' = failed \cup {Current}
    /\ Leaves(Current)
    /\ mode' = "entering"
    /\ UNCHANGED <<camera, phase, waiting, late, done, keyxym, startable>>

BootFails(timeout) ==
    /\ mode = "booting" /\ waiting
    /\ late' = IF timeout THEN late \cup {Current} ELSE late
    /\ failed' = IF timeout THEN failed ELSE failed \cup {Current}
    /\ Leaves(Current)
    /\ mode' = "entering"
    /\ UNCHANGED <<camera, phase, waiting, done, keyxym, startable>>

\* Without a camera its start button stays off.
EnterPreview ==
    /\ mode = "entering"
    /\ mode' = "preview" /\ waiting' = FALSE
    /\ done' = done \cup {Preview}
    /\ keyxym' = "preview" /\ startable' = camera
    /\ UNCHANGED <<camera, phase, late, failed, map, eform>>

\* Neither path: the emergency shell, whose start button reloads the page.
InstallEmergencyShell ==
    /\ mode = "entering"
    /\ mode' = "recovery" /\ waiting' = FALSE
    /\ keyxym' = "boot-failed" /\ startable' = TRUE
    /\ UNCHANGED <<camera, phase, late, done, failed, map, eform>>

\* A promise that lost its race goes on.  The bridge installs itself; a
\* theater installs itself on the page the preview already uses.
LateCompletion(p) ==
    /\ p \in late
    /\ late' = late \ {p} /\ done' = done \cup {p}
    /\ UNCHANGED <<camera, phase, mode, waiting, failed, keyxym, map, eform, startable>>

BootNext ==
    \/ OpenPage
    \/ PhaseCompletes
    \/ TheaterCompletes
    \/ \E timeout \in BOOLEAN : BootFails(timeout)
    \/ EnterPreview
    \/ InstallEmergencyShell
    \/ \E p \in late : LateCompletion(p)

\* Timers fire: every race is decided.  Nothing else has to happen.
BootFairness ==
    /\ WF_cellBootVars(BootFails(TRUE))
    /\ WF_cellBootVars(InstallEmergencyShell)

-----------------------------------------------------------------------------
(* Properties.                                                             *)

\* Whichever fetch, verification or installation hangs or fails, the page
\* ends in one of its three modes with a start button that can be pressed, but
\* for the preview of a browser without a camera.
BootEnds ==
    (mode = "booting") ~>
        /\ mode \in {"authoritative", "preview", "recovery"}
        /\ startable \/ (mode = "preview" /\ ~camera)

=============================================================================
