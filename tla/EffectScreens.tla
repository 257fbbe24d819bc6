---------------------------- MODULE EffectScreens ----------------------------
(***************************************************************************)
(* The viewing screen, its image processors and the editing screen through *)
(* the life cycle that Android gives them (VideoViewingActivity.java,      *)
(* PipelineEditingActivity.java, ImageProcessor.java).  All of it runs on  *)
(* the thread of the user interface.  An image processor is its list of    *)
(* effects, whether its threads are new, running or ended, and the flag    *)
(* running of its pipeline; the server is the list of effects it would     *)
(* apply for a phone that offloads.                                        *)
(***************************************************************************)
EXTENDS Integers, Sequences, SequencesExt

CONSTANTS
  Effect,       \* the effects on the buttons of the editing screen
  Identity,     \* IdentityEffect, which is on no button
  Null,
  MaxLength,    \* bound: effects in the editing screen
  MaxProcessors \* bound: image processors ever created

ASSUME ScreensAssumption ==
  /\ Identity \notin Effect /\ Null \notin Nat /\ Null \notin Seq(Effect)
  /\ Null \notin [code : {"ok", "canceled"}, list : Seq(Effect)]
  /\ MaxLength \in Nat /\ MaxProcessors \in Nat

VARIABLES
  activity,       \* the viewing activity: "stopped", "started", "resumed", "paused"
  imageProcessor, \* VideoViewingActivity.imageProcessor: a number, or Null
  listener,       \* the image processor the camera view calls, or Null
  viewing,        \* the camera view is started
  processors,     \* the effects and the threads of every image processor
  effectList,     \* VideoViewingActivity.effectList, or Null
  editor,         \* PipelineEditingActivity.effects, or Null when it is not open
  result,         \* the result on its way to onActivityResult, or Null
  server,         \* the effects of a server
  crashed,        \* an exception has ended the app
  chosen,         \* ghost: the effects the user chose last, with Ok or in the menu
  left,           \* ghost: the user has left the app since that choice
  edited          \* ghost: the current image processor has been edited

vars == <<activity, imageProcessor, listener, viewing, processors, effectList,
          editor, result, server, crashed, chosen, left, edited>>

NewProcessor(effects) == [effects |-> effects, threads |-> "new", running |-> FALSE]

\* Pipeline.start: threads that are new begin, others stay what they are.
Start(p) == [p EXCEPT !.threads = IF @ = "new" THEN "running" ELSE @, !.running = TRUE]

\* Pipeline.stop: an interrupt ends a thread that has begun.
Stop(p) == [p EXCEPT !.threads = IF @ = "new" THEN @ ELSE "ended", !.running = FALSE]

\* Pipeline.clearEffects: createThreads stops the old threads and makes a new
\* one, which begins when the pipeline was running.
ClearEffects(p) ==
  LET new == NewProcessor(<<Identity>>) IN IF p.running THEN Start(new) ELSE new

Init ==
  /\ activity = "stopped"
  /\ imageProcessor = Null /\ listener = Null
  /\ viewing = FALSE /\ crashed = FALSE /\ edited = FALSE
  /\ processors = <<>>
  /\ effectList = Null /\ editor = Null /\ result = Null
  /\ server = <<Identity>>
  /\ chosen = <<>> /\ left = FALSE

\* Slip of GetEffects: nothing is left out.
AllEffects(effects) == effects

\* Pipeline.getEffects: the effects without IdentityEffect.
GetEffects(effects) ==
  LET kept[i \in 0 .. Len(effects)] ==
        IF i = 0 THEN <<>>
        ELSE IF effects[i] = Identity THEN kept[i - 1] ELSE Append(kept[i - 1], effects[i])
  IN  kept[Len(effects)]
-----------------------------------------------------------------------------
\* onStart: a new image processor, without effects, when there is none.
OnStart ==
  /\ activity = "stopped" /\ editor = Null
  /\ Len(processors) < MaxProcessors
  /\ activity' = "started"
  /\ IF imageProcessor = Null
       THEN /\ processors' = Append(processors, NewProcessor(<<Identity>>))
            /\ imageProcessor' = Len(processors')
            /\ edited' = FALSE
       ELSE UNCHANGED <<processors, imageProcessor, edited>>
  /\ UNCHANGED <<listener, viewing, effectList, editor, result, server, crashed, chosen, left>>

\* Slip of Before: onActivityResult leaves out clearPipeline().
Unchanged(effects) == effects

\* clearPipeline(): what a list of effects is before the new ones are added.
Before(effects) == <<Identity>>

\* Slip of Returned: the list of the result, whatever its code.
ReturnedAlways == result.list

\* The list of the editing screen, or effectList when that was cancelled.
Returned == IF result.code = "ok" THEN result.list ELSE effectList

\* onActivityResult: a new image processor with the list that came back.
OnActivityResult ==
  /\ activity \in {"started", "paused"}
  /\ result # Null
  /\ Len(processors) < MaxProcessors
  /\ result' = Null
  /\ effectList' = Returned
  /\ processors' = Append(processors, NewProcessor(
                     Before(<<Identity>>) \o IF effectList' = Null THEN <<>> ELSE effectList'))
  /\ imageProcessor' = Len(processors')
  /\ server' = Before(server) \o IF effectList' = Null THEN <<>> ELSE effectList'
  /\ crashed' = (effectList' = Null)
  /\ IF result.code = "ok" THEN chosen' = result.list /\ left' = FALSE
                           ELSE UNCHANGED <<chosen, left>>
  /\ edited' = TRUE
  /\ UNCHANGED <<activity, listener, viewing, editor>>

\* onResume: the camera view gets the image processor and is enabled.
OnResume ==
  /\ activity \in {"started", "paused"}
  /\ editor = Null /\ result = Null
  /\ activity' = "resumed"
  /\ listener' = imageProcessor
  /\ UNCHANGED <<imageProcessor, viewing, processors, effectList, editor, result,
                 server, crashed, chosen, left, edited>>

\* The view has a surface: onCameraViewStarted starts the threads that are new.
ViewStarts ==
  /\ activity = "resumed" /\ ~viewing
  /\ viewing' = TRUE
  /\ processors' = [processors EXCEPT ![listener] = Start(@)]
  /\ UNCHANGED <<activity, imageProcessor, listener, effectList, editor, result,
                 server, crashed, chosen, left, edited>>

\* Slip of OnPause: the listener is taken away before the view is disabled.
PauseUnheard ==
  /\ activity = "resumed"
  /\ activity' = "paused"
  /\ viewing' = FALSE
  /\ listener' = Null
  /\ UNCHANGED <<imageProcessor, processors, effectList, editor, result, server,
                 crashed, chosen, left, edited>>

\* onPause: disableView() calls onCameraViewStopped when the view was started;
\* then the listener is taken away.
OnPause ==
  /\ activity = "resumed"
  /\ activity' = "paused"
  /\ viewing' = FALSE
  /\ processors' = IF viewing THEN [processors EXCEPT ![listener] = Stop(@)] ELSE processors
  /\ listener' = Null
  /\ UNCHANGED <<imageProcessor, effectList, editor, result, server, crashed,
                 chosen, left, edited>>

\* onStop: the image processor is given up, and with it its effects.  Unless the
\* editing screen is in front or has an answer, the user has left the app (Home).
OnStop ==
  /\ activity = "paused"
  /\ activity' = "stopped"
  /\ imageProcessor' = Null
  /\ left' = (left \/ (editor = Null /\ result = Null))
  /\ UNCHANGED <<listener, viewing, processors, effectList, editor, result, server,
                 crashed, chosen, edited>>

\* Android destroys the stopped activity for its memory and creates it again
\* when the user comes back: its fields are lost.
Destroy ==
  /\ activity = "stopped"
  /\ imageProcessor' = Null
  /\ effectList' = Null
  /\ UNCHANGED <<activity, listener, viewing, processors, editor, result, server,
                 crashed, chosen, left, edited>>
-----------------------------------------------------------------------------
\* The menu item Edit Pipeline opens the editing screen with a copy of the list.
EditPipeline ==
  /\ activity = "resumed" /\ editor = Null
  /\ effectList' = GetEffects(processors[imageProcessor].effects)
  /\ editor' = effectList'
  /\ UNCHANGED <<activity, imageProcessor, listener, viewing, processors, result,
                 server, crashed, chosen, left, edited>>

\* The menu item Clear Pipeline.
ClearPipeline ==
  /\ activity = "resumed" /\ editor = Null
  /\ processors' = [processors EXCEPT ![imageProcessor] = ClearEffects(@)]
  /\ server' = <<Identity>>
  /\ chosen' = <<>> /\ left' = FALSE
  /\ edited' = TRUE
  /\ UNCHANGED <<activity, imageProcessor, listener, viewing, effectList, editor,
                 result, crashed>>

\* onClick on the buttons of the editing screen, which covers the viewing one.
InEditor == editor # Null /\ activity \in {"paused", "stopped"}

ChangeList ==
  /\ InEditor
  /\ \/ \E e \in Effect : Len(editor) < MaxLength /\ editor' = Append(editor, e)
     \/ \E i \in 1 .. Len(editor) : editor' = RemoveAt(editor, i)
     \/ editor' = <<>>
  /\ UNCHANGED <<activity, imageProcessor, listener, viewing, processors, effectList,
                 result, server, crashed, chosen, left, edited>>

\* The buttons Ok and Cancel, and the back key, which cancels.
Finish(code) ==
  /\ InEditor
  /\ editor' = Null
  /\ result' = [code |-> code, list |-> IF code = "ok" THEN editor ELSE <<>>]
  /\ UNCHANGED <<activity, imageProcessor, listener, viewing, processors, effectList,
                 server, crashed, chosen, left, edited>>

LifeCycle == OnStart \/ OnActivityResult \/ OnResume \/ OnPause \/ OnStop \/ Destroy
Next == /\ ~crashed
        /\ \/ LifeCycle \/ ViewStarts
           \/ EditPipeline \/ ClearPipeline
           \/ ChangeList \/ \E code \in {"ok", "canceled"} : Finish(code)

Spec == Init /\ [][Next]_vars
-----------------------------------------------------------------------------
TypeOK ==
  /\ activity \in {"stopped", "started", "resumed", "paused"}
  /\ processors \in Seq([effects : Seq(Effect \cup {Identity}),
                         threads : {"new", "running", "ended"}, running : BOOLEAN])
  /\ imageProcessor \in DOMAIN processors \cup {Null}
  /\ listener \in DOMAIN processors \cup {Null}
  /\ effectList \in Seq(Effect) \cup {Null}
  /\ editor \in Seq(Effect) \cup {Null}
  /\ result \in [code : {"ok", "canceled"}, list : Seq(Effect)] \cup {Null}
  /\ server \in Seq(Effect \cup {Identity})
  /\ chosen \in Seq(Effect)
  /\ {viewing, crashed, left, edited} \subseteq BOOLEAN

\* The choice of the user is shown until he leaves the app: Ok takes over the
\* list, Cancel brings the old one back in a new image processor, and the list
\* neither grows nor shrinks with a visit of the editing screen (getEffects leaves
\* out what clearPipeline adds), even when the app is left during the visit.  Home
\* loses the choice: onStop drops the image processor and onStart makes one
\* without effects.  No older list ever comes back in place of it.
Kept == IF left THEN <<>> ELSE chosen
ChosenShownUnlessLeft ==
  (activity = "resumed" /\ editor = Null) =>
    processors[imageProcessor].effects = <<Identity>> \o Kept

\* Once the user has edited the effects of an image processor, a server applies
\* the same list: every way of changing it begins with clearPipeline().
ServerAgrees ==
  (activity = "resumed" /\ edited) => server = processors[imageProcessor].effects

\* An image processor that is given up or out of sight leaves no threads at
\* work: each is stopped by onPause before onStop and onActivityResult let it go,
\* and clearPipeline starts its new thread only while the view is on.
NoneLeftRunning ==
  \A p \in DOMAIN processors :
    processors[p].threads = "running" => viewing /\ listener = p /\ imageProcessor = p

\* "A list of effects that is kept in persistence in case the editing activity
\* is canceled": onActivityResult finds it when the user cancels.
ListKept == (result # Null /\ result.code = "canceled") => effectList # Null
=============================================================================
