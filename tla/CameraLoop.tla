------------------------------ MODULE CameraLoop ------------------------------
(***************************************************************************)
(* The camera loop of the phone when it applies the effects itself: the    *)
(* camera thread hands every picture to the frame processor and shows what *)
(* it gets back (ImageProcessor.java and the local branches of the phone's *)
(* FrameProcessor.java, over the pipeline of EffectPipeline).              *)
(*                                                                         *)
(* OpenCV's JavaCameraView calls onCameraFrame from one thread, and joins  *)
(* that thread before it calls onCameraViewStopped.                        *)
(***************************************************************************)
EXTENDS EffectPipeline

VARIABLES
  camera, \* where the camera thread is in onCameraFrame
  shown   \* ghost: the last processed frame that went to the screen

cameraVars == <<vars, camera, shown>>

CameraInit == Init /\ camera = "idle" /\ shown = NoFrame

\* onCameraViewStarted.  A view that starts again after it stopped finds ended
\* threads only; here it starts once.
ViewStarted ==
  /\ ~running
  /\ count.stops = 0
  /\ Start
  /\ UNCHANGED <<camera, shown>>

\* onCameraViewStopped.
ViewStopped ==
  /\ running
  /\ camera = "idle"
  /\ Stop
  /\ UNCHANGED <<camera, shown>>

\* onCameraFrame: a copy of the picture becomes originalFrame and is offered.
OnCameraFrame ==
  /\ running
  /\ camera = "idle"
  /\ AddFrame
  /\ camera' = "added"
  /\ UNCHANGED shown

\* getFrame(): size() is 0 and originalFrame goes to the screen.
ShowOriginal ==
  /\ camera = "added"
  /\ queue[Processed] = <<>>
  /\ camera' = "idle"
  /\ UNCHANGED <<vars, shown>>

\* Slip of FindReady: take() is called without a look at size().
TakeBlindly ==
  /\ camera = "added"
  /\ camera' = "ready"
  /\ UNCHANGED <<vars, shown>>

\* getFrame(): size() is not 0, ...
FindReady ==
  /\ camera = "added"
  /\ queue[Processed] # <<>>
  /\ camera' = "ready"
  /\ UNCHANGED <<vars, shown>>

\* ... so take() is called, and onCameraFrame returns what it takes.
ShowProcessed ==
  /\ camera = "ready"
  /\ GetFrame
  /\ camera' = "idle"
  /\ shown' = Head(queue[Processed])

Camera == OnCameraFrame \/ ShowOriginal \/ FindReady \/ ShowProcessed

\* The menu and the editing screen change the effects while the camera runs.
EditFromMenu == Edit /\ UNCHANGED <<camera, shown>>

CameraNext == \/ ViewStarted \/ ViewStopped \/ Camera \/ EditFromMenu
              \/ \E th \in Thread : (Run(th) \/ ApplyThrows(th)) /\ UNCHANGED <<camera, shown>>

CameraSpec == CameraInit /\ [][CameraNext]_cameraVars

\* The JVM schedules the effect threads; the camera may end with any picture.
FairCameraSpec ==
  CameraSpec /\ \A th \in Thread : WF_cameraVars(Run(th) /\ UNCHANGED <<camera, shown>>)
-----------------------------------------------------------------------------
CameraTypeOK == TypeOK /\ camera \in {"idle", "added", "ready"} /\ shown \in Frame

\* The camera thread never waits for a frame: what size() found is still there
\* when take() is called, whatever effect threads, edits and stop() did between
\* the two (getFrame has no lock and no timeout).
CameraNeverWaits == camera = "ready" => queue[Processed] # <<>>

\* The pictures of one list of effects come in their order: of two processed
\* frames offered and shown since the last edit, the later one on the screen is
\* the later picture (the FIFO queues and the one thread of each task).  A frame
\* offered before an edit may still come late.
ShownInOrder ==
  [][(shown.born = Len(history) /\ shown'.born = Len(history)) => shown.id < shown'.id]_shown
=============================================================================
