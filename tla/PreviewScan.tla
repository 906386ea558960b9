---------------------------- MODULE PreviewScan ----------------------------
(***************************************************************************)
(* world-cell-preview-fallback.ts: the camera scan offered when the World   *)
(* Cell has no executable authority.  Views of a moving camera are kept,    *)
(* live previews are solved in a worker while it runs, and finishing it     *)
(* solves what was captured.  The camera, the play of the video, both       *)
(* workers and their timers answer later, and the reset button is never     *)
(* disabled, so that answers of one scan may arrive during another.         *)
(***************************************************************************)
EXTENDS Naturals

CONSTANTS
    MinKeyframes, MaxKeyframes,     \* MIN_KEYFRAMES and MAX_KEYFRAMES
    Stride,                         \* PREVIEW_SOLVE_STRIDE
    MaxViews,                       \* bound: views accepted in one scan
    MaxScans                        \* bound: presses of the start button

None == 0

VARIABLES
    pressed,        \* presses of the start button; each asks for a camera
    starting,       \* start handlers that await the camera or the video
    stream,         \* the camera stopStream will stop, or None
    cameras,        \* cameras that are on
    scan,           \* the scan whose capture began last
    running, solving,
    enabled,        \* the buttons among start, solve and stop
    keyframes,      \* how many views are held
    views,          \* acceptedViews and keyframeRevision
    lastPreview,    \* lastPreviewRevision
    preview,        \* the preview worker: its scan and revision, or NoWorker
    previewSuccess, \* the scan of the best live preview, or None
    solves,         \* finished scans whose solve is awaited
    points,         \* the scan of resultPoints, or None
    scanState

capture == <<keyframes, views, lastPreview>>
scanVars == <<pressed, starting, stream, cameras, scan, running, solving,
              enabled, capture, preview, previewSuccess, solves, points,
              scanState>>

NoWorker == [scan |-> None, revision |-> 0]

\* The page as installed: only a scan can be started, and nothing of it will
\* have authority.
ScanInit ==
    /\ pressed = 0 /\ starting = {} /\ stream = None /\ cameras = {}
    /\ scan = None /\ running = FALSE /\ solving = FALSE
    /\ enabled = {"start"}
    /\ keyframes = 0 /\ views = 0 /\ lastPreview = 0
    /\ preview = NoWorker /\ previewSuccess = None
    /\ solves = {} /\ points = None
    /\ scanState = "ready"

-----------------------------------------------------------------------------
(* Pieces the handlers share.                                              *)

StopStream == cameras' = cameras \ {stream} /\ stream' = None
PreviewGoesOn == UNCHANGED preview   \* fault: its worker is not ended
StopPreviewSolve == preview' = NoWorker
ForgetCapture == keyframes' = 0 /\ views' = 0 /\ lastPreview' = 0

\* Everything of the scan is dropped.  A start handler that awaits the camera
\* and a solve that awaits its worker are not, and will go on.
ResetReadyState ==
    /\ running' = FALSE /\ solving' = FALSE
    /\ StopPreviewSolve /\ StopStream /\ ForgetCapture
    /\ previewSuccess' = None /\ points' = None
    /\ scanState' = "ready"

\* The reset button is always enabled, the stop button during a capture.
PressReset ==
    /\ ResetReadyState
    /\ enabled' = {"start"}
    /\ UNCHANGED <<pressed, starting, scan, solves>>

-----------------------------------------------------------------------------
(* Starting: the start button.                                             *)

PressStart ==
    /\ "start" \in enabled /\ pressed < MaxScans
    /\ pressed' = pressed + 1
    /\ starting' = starting \cup {[camera |-> pressed', waits |-> "camera"]}
    /\ enabled' = {}
    /\ IF scanState \in {"reconstructed", "rejected"}
       THEN ResetReadyState
       ELSE UNCHANGED <<stream, cameras, running, solving, capture, preview,
                        previewSuccess, points, scanState>>
    /\ UNCHANGED <<scan, solves>>

CameraGranted(s) ==
    /\ s.waits = "camera"
    /\ starting' = (starting \ {s}) \cup {[s EXCEPT !.waits = "video"]}
    /\ stream' = s.camera /\ cameras' = cameras \cup {s.camera}
    /\ UNCHANGED <<pressed, scan, running, solving, enabled, capture, preview,
                   previewSuccess, solves, points, scanState>>

\* The camera or the video is refused.
StartFails(s) ==
    /\ starting' = starting \ {s}
    /\ ResetReadyState
    /\ enabled' = {"start"}
    /\ UNCHANGED <<pressed, scan, solves>>

\* The capture begins, whatever happened since the button was pressed.
BeginCapture(s) ==
    /\ s.waits = "video"
    /\ starting' = starting \ {s}
    /\ running' = TRUE /\ scan' = s.camera
    /\ ForgetCapture /\ StopPreviewSolve
    /\ previewSuccess' = None /\ points' = None
    /\ scanState' = "capturing"
    /\ enabled' = enabled \cup {"stop"}
    /\ UNCHANGED <<pressed, stream, cameras, solving, solves>>

-----------------------------------------------------------------------------
(* Capturing.                                                              *)

\* A solve of the views held now, unless one is under way.
MayPreview(held) ==
    /\ running /\ ~solving /\ preview = NoWorker /\ held >= MinKeyframes
RequestPreviewSolve(held, revision) ==
    IF MayPreview(held)
    THEN preview' = [scan |-> scan, revision |-> revision] /\ lastPreview' = revision
    ELSE UNCHANGED <<preview, lastPreview>>

Due(held, seen) ==
    /\ held >= MinKeyframes
    /\ seen = MinKeyframes \/ seen - lastPreview >= Stride

\* sampleFrame keeps the first view and every later one with enough parallax;
\* captureKeyframe drops the oldest when it holds MaxKeyframes.
CaptureKeyframe ==
    /\ running /\ views < MaxViews
    /\ keyframes' = IF keyframes = MaxKeyframes THEN keyframes ELSE keyframes + 1
    /\ views' = views + 1
    /\ enabled' = IF keyframes' >= MinKeyframes THEN enabled \cup {"solve"}
                                                ELSE enabled \ {"solve"}
    /\ IF Due(keyframes', views')
       THEN RequestPreviewSolve(keyframes', views')
       ELSE UNCHANGED <<preview, lastPreview>>
    /\ UNCHANGED <<pressed, starting, stream, cameras, scan, running, solving,
                   previewSuccess, solves, points, scanState>>

\* The worker's answer, its error or its timer.  A better reconstruction
\* replaces the best one, and the live points are those of the best one.
Improves(better) == previewSuccess = None \/ better
FinishPreview(ok, better) ==
    /\ preview # NoWorker
    /\ IF running /\ ~solving
       THEN /\ previewSuccess' = IF ok /\ Improves(better) THEN preview.scan
                                                           ELSE previewSuccess
            /\ points' = IF ok THEN previewSuccess' ELSE points
            /\ IF views - preview.revision >= Stride /\ keyframes >= MinKeyframes
               THEN /\ preview' = [scan |-> scan, revision |-> views]
                    /\ lastPreview' = views
               ELSE preview' = NoWorker /\ UNCHANGED lastPreview
       ELSE preview' = NoWorker /\ UNCHANGED <<previewSuccess, points, lastPreview>>
    /\ UNCHANGED <<pressed, starting, stream, cameras, scan, running, solving,
                   enabled, keyframes, views, solves, scanState>>

-----------------------------------------------------------------------------
(* Finishing.                                                              *)

VerdictLocked(ok, result) ==     \* fault: a rejection leaves the buttons off
    /\ StopStream
    /\ solving' = FALSE
    /\ enabled' = IF ok THEN {"start"} ELSE {}
    /\ points' = IF ok THEN result ELSE None
    /\ scanState' = IF ok THEN "reconstructed" ELSE "rejected"

\* The end of solveScan, whichever scan is on the page by then.
Verdict(ok, result) ==
    /\ StopStream
    /\ solving' = FALSE
    /\ enabled' = {"start"}
    /\ points' = IF ok THEN result ELSE None
    /\ scanState' = IF ok THEN "reconstructed" ELSE "rejected"

\* The views are taken; the best live preview, if any, is the result, at once.
SolveScan ==
    /\ "solve" \in enabled /\ ~solving /\ keyframes >= MinKeyframes
    /\ running' = FALSE
    /\ StopPreviewSolve
    /\ keyframes' = 0
    /\ IF previewSuccess # None
       THEN Verdict(TRUE, previewSuccess) /\ UNCHANGED solves
       ELSE /\ solving' = TRUE /\ enabled' = {} /\ scanState' = "solving"
            /\ solves' = solves \cup {scan}
            /\ UNCHANGED <<stream, cameras, points>>
    /\ UNCHANGED <<pressed, starting, scan, views, lastPreview, previewSuccess>>

SolveEnds(s, ok) ==
    /\ solves' = solves \ {s}
    /\ Verdict(ok, s)
    /\ UNCHANGED <<pressed, starting, scan, running, capture, preview, previewSuccess>>

PreviewAnswers == \E ok, better \in BOOLEAN : FinishPreview(ok, better)
SolveAnswers == \E s \in solves, ok \in BOOLEAN : SolveEnds(s, ok)

ScanNext ==
    \/ PressStart \/ PressReset \/ SolveScan
    \/ \E s \in starting : CameraGranted(s) \/ StartFails(s) \/ BeginCapture(s)
    \/ CaptureKeyframe
    \/ PreviewAnswers
    \/ SolveAnswers

\* Each worker has a timer that answers in its place.
ScanFairness == WF_scanVars(PreviewAnswers) /\ WF_scanVars(SolveAnswers)
ScanSpec == ScanInit /\ [][ScanNext]_scanVars /\ ScanFairness

-----------------------------------------------------------------------------
\* A live preview that could stand as the result of a scan was solved from
\* views of that scan, through resets and restarts while its worker ran
\* (requestPreviewSolve, stopPreviewSolve).
PreviewIsOfThisScan ==
    /\ previewSuccess \in {None, scan}
    /\ preview # NoWorker => preview.scan = scan /\ preview.revision <= views

\* Finishing a scan comes to a verdict, by its worker, its timer or a reset,
\* after which another one can be started (solveScan).
SolveComesToAnEnd == solves # {} ~> "start" \in enabled
=============================================================================
