---------------------------- MODULE OffloadServer ----------------------------
(***************************************************************************)
(* The server of the offloading protocol (Server.java): the handlers of    *)
(* TestProtocolImpl over one FrameProcessor that all connections share.    *)
(* The RPC layer runs the calls of one connection one after the other, and *)
(* the calls of different connections side by side.                        *)
(***************************************************************************)
EXTENDS PipelineRefinement, FiniteSets

CONSTANTS
  Connection, \* the connections of the clients
  BatchSize   \* the lengths of the lists of frames a client sends

ASSUME BatchAssumption == BatchSize \subseteq Nat \ {0}

VARIABLE
  call \* what the handler thread of each connection is doing

serverVars == <<vars, call>>

\* at: where the handler is; left: how many turns its loop has left; sent: the
\* frames of the request; answer: processedFrames.
NoCall == [at |-> "idle", left |-> 0, sent |-> <<>>, answer |-> <<>>]

ServerInit == Init /\ call = [c \in Connection |-> NoCall]

\* TestProtocolImpl(): the frame processor starts before any call is served.
\* The server never stops it.
Construct == ~running /\ Start /\ UNCHANGED call

\* The add...Effect handlers.  addBlurEffect and addColorSaturationEffect call
\* start() as well, which finds no thread of the running pipeline NEW.  The
\* constructor's IdentityEffect is there, so the pipeline is never empty.
AddEffectCall(c) ==
  /\ running
  /\ call[c].at = "idle"
  /\ AddEffect
  /\ UNCHANGED call

ClearEffectsCall(c) ==
  /\ running
  /\ call[c].at = "idle"
  /\ ClearEffects
  /\ UNCHANGED call

\* addFrames(frames): the handler first offers every frame, ...
AddFramesCall(c, n) ==
  /\ running
  /\ call[c].at = "idle"
  /\ count.frames + n <= MaxFrames
  /\ call' = [call EXCEPT ![c] = [NoCall EXCEPT !.at = "offer", !.left = n]]
  /\ UNCHANGED vars

OfferNext(c) ==
  /\ call[c].at = "offer"
  /\ call[c].left > 0
  /\ AddFrame
  /\ call' = [call EXCEPT ![c].left = @ - 1, ![c].sent = Append(@, count.frames + 1)]

\* ... then it asks for as many processed frames as it offered.
BeginCollect(c) ==
  /\ call[c].at = "offer"
  /\ call[c].left = 0
  /\ call' = [call EXCEPT ![c].at = "collect", ![c].left = Len(call[c].sent)]
  /\ UNCHANGED vars

\* Slips of CollectNext: one frame answers the call; the loop asks once too often.
CollectOne(c) ==
  /\ call[c].at = "collect"
  /\ GetFrame
  /\ call' = [call EXCEPT ![c].left = @ - 1,
                          ![c].answer = Append(@, Head(queue[Processed])),
                          ![c].at = "idle"]
CollectOneMore(c) ==
  /\ call[c].at = "collect"
  /\ GetFrame
  /\ call' = [call EXCEPT ![c].left = @ - 1,
                          ![c].answer = Append(@, Head(queue[Processed])),
                          ![c].at = IF call[c].left = 0 THEN "idle" ELSE "collect"]

\* getFrame() waits for a frame; the last one completes the answer.
CollectNext(c) ==
  /\ call[c].at = "collect"
  /\ GetFrame
  /\ call' = [call EXCEPT ![c].left = @ - 1,
                          ![c].answer = Append(@, Head(queue[Processed])),
                          ![c].at = IF call[c].left = 1 THEN "idle" ELSE "collect"]

Handle(c) == OfferNext(c) \/ BeginCollect(c) \/ CollectNext(c)
Request(c) == AddEffectCall(c) \/ ClearEffectsCall(c) \/ \E n \in BatchSize : AddFramesCall(c, n)
Work == \E th \in Thread : Run(th) \/ ApplyThrows(th)

ServerNext == \/ Construct
              \/ \E c \in Connection : Request(c) \/ Handle(c)
              \/ Work /\ UNCHANGED call

ServerSpec == ServerInit /\ [][ServerNext]_serverVars

\* Handler threads and effect threads are scheduled by the JVM.
FairServerSpec ==
  /\ ServerSpec
  /\ \A c \in Connection : WF_serverVars(Handle(c))
  /\ \A th \in Thread : WF_serverVars(Run(th) /\ UNCHANGED call)
-----------------------------------------------------------------------------
ServerTypeOK ==
  /\ TypeOK
  /\ call \in [Connection -> [at : {"idle", "offer", "collect"}, left : 0 .. MaxFrames,
                              sent : Seq(Nat), answer : Seq(Frame)]]

\* The only client gets back its own frames, each one, in the order it sent
\* them and treated with the effects it had asked for: what addFrames answers
\* when it answers at all (the loops of addFrames over a shared processor).
AnswersOwnFrames ==
  \A c \in Connection :
    (call[c].at = "idle" /\ call[c].sent # <<>>) =>
      /\ [i \in 1 .. Len(call[c].answer) |-> call[c].answer[i].id] = call[c].sent
      /\ \A i \in 1 .. Len(call[c].answer) :
           call[c].answer[i].applied = history[call[c].answer[i].born]

\* No call leaves frames behind for a later one: the processor never holds more
\* frames, those that are bound to be dropped apart, than the calls in progress
\* have offered and not yet fetched.
Owes(c, i) == call[c].at # "idle" /\ Len(call[c].answer) < i /\ i <= Len(call[c].sent)
Owed == {o \in Connection \X (1 .. MaxFrames) : Owes(o[1], o[2])}
Held == Cardinality(Waiting) + Len(queue[Processed])
NoLeftovers == Held <= Cardinality(Owed)

\* "Returns a processed frame if one is ready.  If no frame is ready, returns
\* null": no call waits for ever for the frames it asked getFrame() for.
CallsReturn == \A c \in Connection : call[c].at = "collect" ~> call[c].at = "idle"

\* What addFrames and getFrame() do give: a call waits for ever only when one
\* of its frames has been lost, at a full queue or in a thread that ended.
FrameLost == Held < Cardinality(Owed)
CallsReturnUnlessLost ==
  \A c \in Connection : call[c].at = "collect" ~> (call[c].at = "idle" \/ FrameLost)
=============================================================================
