------------------------------ MODULE Offloading ------------------------------
(***************************************************************************)
(* A phone that offloads: the camera thread, the user interface and the    *)
(* callback thread of Netty share the phone's FrameProcessor               *)
(* (FrameProcessor.java, CloudClient.java, ImageProcessor.java), which     *)
(* talks to the server of OffloadServer over one connection.               *)
(*                                                                         *)
(* The phone's own pipeline is idle, so only its list of effects matters.  *)
(* The phone offers its frames in the order of their numbers, and so does  *)
(* the server.                                                             *)
(***************************************************************************)
EXTENDS OffloadServer

CONSTANTS
  Phone,    \* the phone's connection
  K,        \* frames are sent when more than K have gathered (1 in the code)
  PhoneCap, \* capacity of the phone's processed queue (2 in the code)
  MaxEdits  \* bound: edits in the user interface

\* Both programs begin with one IdentityEffect, and the server takes lists of
\* the length that the phone sends.
ASSUME PhoneAssumption ==
  /\ Phone \in Connection /\ K \in Nat /\ PhoneCap \in Nat /\ MaxEdits \in Nat
  /\ InitialEffects = 1 /\ K + 1 \in BatchSize

VARIABLES
  link,      \* "connecting" (CloudClient.client is null), "up", "down" or,
             \* when an exception has ended the app, "crashed"
  requests,  \* calls on their way to the server
  replies,   \* answers on their way to the phone or in handleResult
  effects,   \* FrameProcessor.pipelines: the phone's list of effects
  ui,        \* "idle", or "waiting" for the answer to an edit
  buffer,    \* FrameProcessor.frameBuffer: how many frames it holds
  numFrames, \* FrameProcessor.numFrames
  processed, \* FrameProcessor.processedFrameQueue
  camera,    \* where the camera thread is in onCameraFrame
  shown,     \* ghost: the last processed frame that went to the screen
  edits,     \* ghost: edits made, answered by the server, and failed
  settled    \* ghost: the list of effects the server had confirmed when each
             \* frame was added

phoneVars == <<link, requests, replies, effects, ui, buffer, numFrames,
               processed, camera, shown, edits, settled>>
offloadVars == <<serverVars, phoneVars>>

FramesCall(n) == [op |-> "frames", n |-> n]
EditCall(op) == [op |-> op, n |-> 0]
Answer(op, frames) == [op |-> op, frames |-> frames]

OffloadInit ==
  /\ ServerInit
  /\ link = "connecting" /\ ui = "idle" /\ camera = "idle"
  /\ requests = <<>> /\ replies = <<>> /\ processed = <<>>
  /\ effects = <<1>>
  /\ buffer = 0 /\ numFrames = 0
  /\ shown = NoFrame
  /\ edits = [made |-> 0, answered |-> 0, failed |-> 0]
  /\ settled = <<>>
-----------------------------------------------------------------------------
\* CloudClient.run(): the transceiver has connected and client is set.
Connect ==
  /\ link = "connecting"
  /\ link' = "up"
  /\ UNCHANGED <<serverVars, requests, replies, effects, ui, buffer, numFrames,
                 processed, camera, shown, edits, settled>>

\* How many answers handleResult has begun with.
Begun == Cardinality({i \in 1 .. Len(replies) : replies[i].op = "handled"})

\* The connection is lost with the calls under way and some of the answers; an
\* answer that handleResult has begun with is there.  handleError only prints; a
\* call that waits gets an exception, which addEffect and clearEffects print.
Disconnect ==
  /\ link = "up"
  /\ link' = "down"
  /\ requests' = <<>>
  /\ \E kept \in Begun .. Len(replies) : replies' = SubSeq(replies, 1, kept)
  /\ LET fails == ui = "waiting" /\ \A i \in 1 .. Len(replies') : replies'[i].frames # <<>>
     IN /\ ui' = IF fails THEN "idle" ELSE ui
        /\ edits' = [edits EXCEPT !.failed = @ + IF fails THEN 1 ELSE 0]
  /\ UNCHANGED <<serverVars, effects, buffer, numFrames, processed, camera,
                 shown, settled>>

\* Slip of AfterEdit: addEffect returns before the server has answered.
AfterSending == "idle"
\* The synchronous call keeps the thread of the user interface.
AfterEdit == "waiting"

\* FrameProcessor.addEffect and clearEffects: the phone's pipeline first, then
\* the server's.  Without a client the call is a NullPointerException: addEffect
\* prints it, clearEffects does not and the app ends.
UserEdit(op) ==
  /\ ui = "idle"
  /\ edits.made < MaxEdits
  /\ LET new == edits.made + 2
     IN effects' = IF op = "add" THEN Append(effects, new) ELSE <<new>>
  /\ \/ /\ link = "up"
        /\ requests' = Append(requests, EditCall(op))
        /\ ui' = AfterEdit
        /\ edits' = [edits EXCEPT !.made = @ + 1]
        /\ UNCHANGED link
     \/ /\ link \in {"connecting", "down"}
        /\ link' = IF link = "connecting" /\ op = "clear" THEN "crashed" ELSE link
        /\ edits' = [edits EXCEPT !.made = @ + 1, !.failed = @ + 1]
        /\ UNCHANGED <<requests, ui>>
  /\ UNCHANGED <<serverVars, replies, buffer, numFrames, processed, camera,
                 shown, settled>>

\* onCameraFrame: addFrame.  With enough frames the buffer is sent; when that
\* throws an IOException the buffer stays, and without a client the app ends.
PhoneAddFrame ==
  /\ link # "crashed"
  /\ camera = "idle"
  /\ Len(settled) < MaxFrames
  /\ camera' = "added"
  /\ numFrames' = numFrames + 1
  /\ settled' = Append(settled, 1 + edits.answered)
  /\ \/ /\ buffer + 1 > K /\ link = "up"
        /\ requests' = Append(requests, FramesCall(buffer + 1))
        /\ buffer' = 0
        /\ UNCHANGED link
     \/ /\ buffer + 1 <= K \/ link # "up"
        /\ buffer' = buffer + 1
        /\ link' = IF buffer + 1 > K /\ link = "connecting" THEN "crashed" ELSE link
        /\ UNCHANGED requests
  /\ UNCHANGED <<serverVars, replies, effects, ui, processed, shown, edits>>

\* onCameraFrame: getFrame, which looks at size() and then calls take().
PhoneShowOriginal ==
  /\ link # "crashed"
  /\ camera = "added" /\ processed = <<>>
  /\ camera' = "idle"
  /\ UNCHANGED <<serverVars, link, requests, replies, effects, ui, buffer,
                 numFrames, processed, shown, edits, settled>>
PhoneShowProcessed ==
  /\ link # "crashed"
  /\ camera = "added" /\ processed # <<>>
  /\ camera' = "idle"
  /\ processed' = Tail(processed)
  /\ shown' = Head(processed)
  /\ UNCHANGED <<serverVars, link, requests, replies, effects, ui, buffer,
                 numFrames, edits, settled>>

\* Slip of CountDown: numFrames counts answers instead of frames.
CountAnswer(frames) == IF Len(frames) = 1 THEN 1 ELSE 0
\* What a frame of an answer takes off numFrames.
CountDown(frames) == 1

\* handleResult on the thread of Netty: one turn of its loop for each frame.
HandleResult ==
  /\ link # "crashed"
  /\ replies # <<>> /\ Head(replies).frames # <<>>
  /\ LET frames == Head(replies).frames
     IN /\ processed' = IF Len(processed) < PhoneCap THEN Append(processed, Head(frames))
                                                     ELSE processed
        /\ replies' = IF Len(frames) = 1 THEN Tail(replies)
                      ELSE [replies EXCEPT ![1] = Answer("handled", Tail(frames))]
        /\ numFrames' = numFrames - CountDown(frames)
  /\ UNCHANGED <<serverVars, link, requests, effects, ui, buffer, camera,
                 shown, edits, settled>>

\* The answer to an edit wakes the user interface.
EditReturns ==
  /\ link # "crashed"
  /\ replies # <<>> /\ Head(replies).frames = <<>>
  /\ replies' = Tail(replies)
  /\ ui' = "idle"
  /\ edits' = [edits EXCEPT !.answered = @ + 1]
  /\ UNCHANGED <<serverVars, link, requests, effects, buffer, numFrames,
                 processed, camera, shown, settled>>
-----------------------------------------------------------------------------
\* An answer to a connection that is gone goes nowhere.
Reply(answer) ==
  replies' = IF link = "up" THEN Append(replies, answer) ELSE replies

\* The server begins with the next call of the connection.
ServeEdit ==
  /\ requests # <<>>
  /\ \/ Head(requests).op = "add" /\ AddEffectCall(Phone)
     \/ Head(requests).op = "clear" /\ ClearEffectsCall(Phone)
  /\ requests' = Tail(requests)
  /\ Reply(Answer(Head(requests).op, <<>>))
  /\ UNCHANGED <<link, effects, ui, buffer, numFrames, processed, camera, shown,
                 edits, settled>>

ServeFrames ==
  /\ requests # <<>>
  /\ Head(requests).op = "frames"
  /\ AddFramesCall(Phone, Head(requests).n)
  /\ requests' = Tail(requests)
  /\ UNCHANGED <<link, replies, effects, ui, buffer, numFrames, processed,
                 camera, shown, edits, settled>>

ServeOn ==
  /\ \/ OfferNext(Phone) /\ UNCHANGED replies
     \/ BeginCollect(Phone) /\ UNCHANGED replies
     \/ /\ CollectNext(Phone)
        /\ IF call'[Phone].at = "idle" THEN Reply(Answer("frames", call'[Phone].answer))
                                       ELSE UNCHANGED replies
  /\ UNCHANGED <<link, requests, effects, ui, buffer, numFrames, processed,
                 camera, shown, edits, settled>>

Serve == ServeEdit \/ ServeFrames \/ ServeOn
CallBack == HandleResult \/ EditReturns
CameraThread == PhoneAddFrame \/ PhoneShowOriginal \/ PhoneShowProcessed

OffloadNext ==
  \/ Connect \/ Disconnect \/ CameraThread \/ CallBack \/ Serve
  \/ \E op \in {"add", "clear"} : UserEdit(op)
  \/ Construct /\ UNCHANGED phoneVars
  \/ Work /\ UNCHANGED <<call, phoneVars>>

OffloadSpec == OffloadInit /\ [][OffloadNext]_offloadVars

\* The server's threads and the phone's callback thread are scheduled.  Nothing
\* is assumed of the camera, the user and the network.
FairOffloadSpec ==
  /\ OffloadSpec
  /\ WF_offloadVars(Serve) /\ WF_offloadVars(CallBack)
  /\ WF_offloadVars(Construct /\ UNCHANGED phoneVars)
  /\ \A th \in Thread : WF_offloadVars(Run(th) /\ UNCHANGED <<call, phoneVars>>)
-----------------------------------------------------------------------------
Op == {"frames", "handled", "add", "clear"}

OffloadTypeOK ==
  /\ ServerTypeOK
  /\ link \in {"connecting", "up", "down", "crashed"}
  /\ requests \in Seq([op : Op, n : Nat])
  /\ replies \in Seq([op : Op, frames : Seq(Frame)])
  /\ effects \in Seq(Nat)
  /\ ui \in {"idle", "waiting"}
  /\ buffer \in 0 .. MaxFrames /\ numFrames \in 0 .. MaxFrames
  /\ processed \in Seq(Frame)
  /\ camera \in {"idle", "added"}
  /\ shown \in Frame
  /\ edits \in [made : 0 .. MaxEdits, answered : 0 .. MaxEdits, failed : 0 .. MaxEdits]
  /\ settled \in Seq(Nat)

\* The two lists of effects agree: when no edit has failed and the user waits
\* for none, the server applies the list that the phone shows and would send
\* to the editing screen (addEffect and clearEffects edit one after the other).
ListsAgree == (ui = "idle" /\ edits.failed = 0) => effects = effectTasks

\* numFrames counts the frames that have no answer yet, wherever they are: in
\* the buffer, on the way, in a handler or in an answer.  A lost connection
\* leaves it too high for ever, which waitForCompletion would wait for.
Total(s) == LET upTo[i \in 0 .. Len(s)] == IF i = 0 THEN 0 ELSE upTo[i - 1] + s[i]
            IN  upTo[Len(s)]
OnTheWay == Total([i \in 1 .. Len(requests) |-> requests[i].n])
Answered == Total([i \in 1 .. Len(replies) |-> Len(replies[i].frames)])
InCall == CASE call[Phone].at = "idle" -> 0
            [] call[Phone].at = "offer" -> call[Phone].left + Len(call[Phone].sent)
            [] call[Phone].at = "collect" -> Len(call[Phone].sent)
FramesAccounted ==
  /\ link \in {"connecting", "up"} => numFrames = buffer + OnTheWay + InCall + Answered
  /\ link = "down" => numFrames >= buffer + Answered

\* An edit holds from the moment its call returns: a frame added after that is
\* treated with the list of effects of that edit or of a later one.
ShownTreated ==
  shown # NoFrame =>
    \E k \in settled[shown.id] .. Len(history) : shown.applied = history[k]

\* The screen never goes back in time: processed pictures are shown in the order
\* in which they were taken, across requests and edits.
ScreenInOrder ==
  LET line == <<shown>> \o processed
  IN \A i, j \in 1 .. Len(line) : i < j => line[i].id < line[j].id

\* An edit gives the user interface back, unless the server waits for a frame
\* it has lost (no call has a timeout, and the calls of a connection wait for
\* one another).
EditsReturn == ui = "waiting" ~> (ui = "idle" \/ FrameLost)
=============================================================================
