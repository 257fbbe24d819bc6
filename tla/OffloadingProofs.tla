--------------------------- MODULE OffloadingProofs ---------------------------
(***************************************************************************)
(* Proofs about OffloadServer and Offloading.  The handlers of the server  *)
(* drive the pipeline only as EffectPipeline allows, so all that is proved *)
(* there holds here, and what happens to frames between the calls is       *)
(* argued with the steps of FrameService alone.                            *)
(***************************************************************************)
EXTENDS Offloading, PipelineFramesProofs, WellFoundedInduction

(***************************************************************************)
(* The server.                                                             *)
(***************************************************************************)

\* A step of the server is a step of the pipeline or leaves it alone.
LEMMA ServerStepIsPipelineStep == [ServerNext]_serverVars => [Next]_vars
  <1> SUFFICES ASSUME [ServerNext]_serverVars PROVE [Next]_vars
    OBVIOUS
  <1>1. CASE Construct
    BY <1>1 DEF Construct, Next
  <1>2. CASE \E c \in Connection : Request(c) \/ Handle(c)
    BY <1>2 DEF Request, AddEffectCall, ClearEffectsCall, AddFramesCall, Handle, OfferNext,
                BeginCollect, CollectNext, Frames, Edit, Next
  <1>3. CASE Work /\ UNCHANGED call
    BY <1>3 DEF Work, Next
  <1>4. CASE UNCHANGED serverVars
    BY <1>4 DEF serverVars
  <1> QED BY <1>1, <1>2, <1>3, <1>4 DEF ServerNext

\* The server is one of the environments of the pipeline.
THEOREM ServerDrivesPipeline == ServerSpec => Spec
  <1>1. ServerInit => Init
    BY DEF ServerInit
  <1> QED BY <1>1, ServerStepIsPipelineStep, PTL DEF ServerSpec, Spec

\* What is proved of the pipeline, in one formula.
Sound == /\ TypeOK /\ Ownership /\ FramesNumbered /\ OneOwner /\ Listed /\ Ordered
         /\ InService /\ InOrder /\ AppliedOneList

LEMMA PipelineSound == Spec => []Sound
  <1>1. /\ TypeOK /\ Ownership /\ (FramesNumbered /\ OneOwner) /\ Listed /\ Ordered
        /\ InService /\ InOrder /\ AppliedOneList
        => Sound
    BY DEF Sound
  <1> QED BY <1>1, OwnershipInvariant, NumberedInvariant, ListedInvariant, OrderedInvariant,
             ServiceInvariant, FramesInOrder, FramesTreatedWithOneList, PTL

\* What the handlers do, in terms of the service.
LEMMA HandlerSteps ==
  ASSUME Sound
  PROVE  /\ Construct => UNCHANGED Service!serviceVars
         /\ AddEffect \/ ClearEffects => Service!Configure
         /\ AddFrame => Service!Accept
         /\ GetFrame => Service!Fetch
         /\ Work => \/ Service!Lose
                    \/ \E f \in Waiting : \E k \in f.born .. Len(history) : Service!Deliver(f, k)
         /\ UNCHANGED vars => UNCHANGED Service!serviceVars
  <1>1. Construct => UNCHANGED Service!serviceVars
    BY StartService DEF Construct, Sound
  <1>2. AddEffect \/ ClearEffects => Service!Configure
    BY EditService DEF Edit, Sound
  <1>3. (AddFrame => Service!Accept) /\ (GetFrame => Service!Fetch)
    BY AddService, GetService DEF Sound
  <1>4. Work => \/ Service!Lose
                \/ \E f \in Waiting : \E k \in f.born .. Len(history) : Service!Deliver(f, k)
    BY ThreadService DEF Work, Sound
  <1>5. UNCHANGED vars => UNCHANGED Service!serviceVars
    BY DEF vars, pipelineVars, Service!serviceVars, Waiting, InQueues, InHands, Token, Keeps
  <1> QED BY <1>1, <1>2, <1>3, <1>4, <1>5

-----------------------------------------------------------------------------
\* A handler offers frames before it collects, and while it collects it has as
\* many turns left as its answer lacks frames.
CallShape(k) ==
  /\ k.at = "offer" => Len(k.answer) = 0 /\ Len(k.sent) + k.left \in 1 .. MaxFrames
  /\ k.at = "collect" => /\ Len(k.answer) + k.left = Len(k.sent)
                         /\ k.left >= 1 /\ Len(k.sent) <= MaxFrames
  /\ k.at = "idle" => Len(k.answer) = Len(k.sent)

CallsInStep == \A c \in Connection : CallShape(call[c])

\* The fields of a call.
CallRecord == [at : {"idle", "offer", "collect"}, left : 0 .. MaxFrames,
             sent : Seq(Nat), answer : Seq(Frame)]

LEMMA CallFields ==
  ASSUME NEW k \in CallRecord
  PROVE  /\ k.at \in {"idle", "offer", "collect"} /\ k.left \in Nat
         /\ k.sent \in Seq(Nat) /\ Len(k.sent) \in Nat
         /\ k.answer \in Seq(Frame) /\ Len(k.answer) \in Nat
         /\ MaxFrames \in Nat
  BY BoundsAssumption, LenProperties DEF CallRecord

\* Changing fields of one call, one after the other, is changing the call once.
LEMMA CallRewritten ==
  ASSUME NEW f, f = [d \in Connection |-> f[d]], NEW c \in Connection, NEW r, NEW s
  PROVE  LET g == [f EXCEPT ![c] = r]
         IN  /\ g = [d \in Connection |-> g[d]]
             /\ g[c] = r
             /\ [g EXCEPT ![c] = s] = [f EXCEPT ![c] = s]
  OBVIOUS

Offers(f, c, x, y) == [f EXCEPT ![c].left = x, ![c].sent = y]
Turns(f, c, x, y) == [f EXCEPT ![c].at = x, ![c].left = y]
Collects(f, c, x, y, z) == [f EXCEPT ![c].left = x, ![c].answer = y, ![c].at = z]

LEMMA FieldsUpdated ==
  ASSUME NEW f \in [Connection -> CallRecord], NEW c \in Connection, NEW x, NEW y
  PROVE  /\ Offers(f, c, x, y)
              = [f EXCEPT ![c] = [at |-> f[c].at, left |-> x, sent |-> y, answer |-> f[c].answer]]
         /\ Turns(f, c, x, y)
              = [f EXCEPT ![c] = [at |-> x, left |-> y, sent |-> f[c].sent, answer |-> f[c].answer]]
  <1> DEFINE k == f[c]
             l == [at |-> k.at, left |-> x, sent |-> k.sent, answer |-> k.answer]
  <1>1. k = [at |-> k.at, left |-> k.left, sent |-> k.sent, answer |-> k.answer]
    BY DEF CallRecord
  <1>2. f = [d \in Connection |-> f[d]]
    OBVIOUS
  <1>3. [f EXCEPT ![c].left = x] = [f EXCEPT ![c] = l]
    <2>1. [f[c] EXCEPT !.left = x] = l
      BY <1>1
    <2> HIDE DEF l, k
    <2> QED BY <2>1
  <1>4. [f EXCEPT ![c].left = x, ![c].sent = y]
          = [f EXCEPT ![c] = [at |-> k.at, left |-> x, sent |-> y, answer |-> k.answer]]
    <2> DEFINE g == [f EXCEPT ![c] = l]
               s == [at |-> k.at, left |-> x, sent |-> y, answer |-> k.answer]
    <2>1. [l EXCEPT !.sent = y] = s
      OBVIOUS
    <2> HIDE DEF l, s, k
    <2>2. g[c] = l /\ [g EXCEPT ![c] = s] = [f EXCEPT ![c] = s]
      BY <1>2, CallRewritten
    <2>3. [g EXCEPT ![c].sent = y] = [g EXCEPT ![c] = s]
      BY <2>1, <2>2
    <2> QED BY <1>3, <2>2, <2>3 DEF s
  <1>5. [f EXCEPT ![c].at = x, ![c].left = y]
          = [f EXCEPT ![c] = [at |-> x, left |-> y, sent |-> k.sent, answer |-> k.answer]]
    <2> DEFINE r == [at |-> x, left |-> k.left, sent |-> k.sent, answer |-> k.answer]
               g == [f EXCEPT ![c] = r]
               s == [at |-> x, left |-> y, sent |-> k.sent, answer |-> k.answer]
    <2>1. [r EXCEPT !.left = y] = s
      OBVIOUS
    <2>2. [f[c] EXCEPT !.at = x] = r
      BY <1>1
    <2> HIDE DEF r, s, k
    <2>3. g[c] = r /\ [g EXCEPT ![c] = s] = [f EXCEPT ![c] = s]
      BY <1>2, CallRewritten
    <2>4. [g EXCEPT ![c].left = y] = [g EXCEPT ![c] = s]
      BY <2>1, <2>3
    <2>5. [f EXCEPT ![c].at = x] = g
      BY <2>2
    <2> QED BY <2>3, <2>4, <2>5 DEF s
  <1> QED BY <1>4, <1>5 DEF Offers, Turns

LEMMA FieldsCollected ==
  ASSUME NEW f \in [Connection -> CallRecord], NEW c \in Connection, NEW x, NEW y, NEW z
  PROVE  Collects(f, c, x, y, z)
           = [f EXCEPT ![c] = [at |-> z, left |-> x, sent |-> f[c].sent, answer |-> y]]
  <1> DEFINE k == f[c]
             l == [at |-> k.at, left |-> x, sent |-> k.sent, answer |-> k.answer]
  <1>1. k = [at |-> k.at, left |-> k.left, sent |-> k.sent, answer |-> k.answer]
    BY DEF CallRecord
  <1>2. f = [d \in Connection |-> f[d]]
    OBVIOUS
  <1>3. [f EXCEPT ![c].left = x] = [f EXCEPT ![c] = l]
    <2>1. [f[c] EXCEPT !.left = x] = l
      BY <1>1
    <2> HIDE DEF l, k
    <2> QED BY <2>1
  <1> DEFINE g == [f EXCEPT ![c] = l]
             r == [at |-> k.at, left |-> x, sent |-> k.sent, answer |-> y]
             h == [f EXCEPT ![c] = r]
             s == [at |-> z, left |-> x, sent |-> k.sent, answer |-> y]
  <1>4. [l EXCEPT !.answer = y] = r /\ [r EXCEPT !.at = z] = s
    OBVIOUS
  <1> HIDE DEF l, r, s, k
  <1>5. /\ g[c] = l /\ [g EXCEPT ![c] = r] = h
        /\ h[c] = r /\ [h EXCEPT ![c] = s] = [f EXCEPT ![c] = s]
    BY <1>2, CallRewritten
  <1>6. [g EXCEPT ![c].answer = y] = [g EXCEPT ![c] = r]
    BY <1>4, <1>5
  <1>7. [h EXCEPT ![c].at = z] = [h EXCEPT ![c] = s]
    BY <1>4, <1>5
  <1> HIDE DEF g, h
  <1>8. [f EXCEPT ![c].left = x, ![c].answer = y, ![c].at = z]
          = [[g EXCEPT ![c].answer = y] EXCEPT ![c].at = z]
    BY <1>3 DEF g
  <1> QED BY <1>5, <1>6, <1>7, <1>8 DEF s, k, Collects

\* What a handler does to its call.
LEMMA CallSteps ==
  ASSUME ServerTypeOK, NEW c \in Connection
  PROVE  /\ call \in [Connection -> CallRecord] /\ call[c] \in CallRecord
         /\ \A n \in BatchSize : AddFramesCall(c, n) =>
              /\ call[c].at = "idle" /\ n \in 1 .. MaxFrames
              /\ call' = [call EXCEPT ![c] = [at |-> "offer", left |-> n,
                                              sent |-> <<>>, answer |-> <<>>]]
         /\ OfferNext(c) =>
              /\ call[c].at = "offer" /\ call[c].left > 0
              /\ call' = [call EXCEPT ![c] = [at |-> "offer", left |-> call[c].left - 1,
                                              sent |-> Append(call[c].sent, count.frames + 1),
                                              answer |-> call[c].answer]]
         /\ BeginCollect(c) =>
              /\ call[c].at = "offer" /\ call[c].left = 0
              /\ call' = [call EXCEPT ![c] = [at |-> "collect", left |-> Len(call[c].sent),
                                              sent |-> call[c].sent, answer |-> call[c].answer]]
         /\ CollectNext(c) =>
              /\ call[c].at = "collect" /\ Head(queue[Processed]) \in Frame
              /\ call' = [call EXCEPT
                            ![c] = [at |-> IF call[c].left = 1 THEN "idle" ELSE "collect",
                                    left |-> call[c].left - 1, sent |-> call[c].sent,
                                    answer |-> Append(call[c].answer, Head(queue[Processed]))]]
  <1> DEFINE k == call[c]
  <1>1. call \in [Connection -> CallRecord] /\ k \in CallRecord
    BY DEF ServerTypeOK, CallRecord
  <1>2. k = [at |-> k.at, left |-> k.left, sent |-> k.sent, answer |-> k.answer]
    BY <1>1 DEF CallRecord
  <1>3. \A n \in BatchSize : AddFramesCall(c, n) =>
          /\ k.at = "idle" /\ n \in 1 .. MaxFrames
          /\ call' = [call EXCEPT ![c] = [at |-> "offer", left |-> n,
                                          sent |-> <<>>, answer |-> <<>>]]
    <2> SUFFICES ASSUME NEW n \in BatchSize, AddFramesCall(c, n)
                 PROVE  /\ k.at = "idle" /\ n \in 1 .. MaxFrames
                        /\ call' = [call EXCEPT ![c] = [at |-> "offer", left |-> n,
                                                        sent |-> <<>>, answer |-> <<>>]]
      OBVIOUS
    <2>1. count.frames \in Nat /\ MaxFrames \in Nat /\ n \in Nat \ {0}
      BY CountersAreNumbers, BatchAssumption DEF ServerTypeOK
    <2>2. n \in 1 .. MaxFrames
      BY <2>1 DEF AddFramesCall
    <2> DEFINE m == [NoCall EXCEPT !.at = "offer", !.left = n]
    <2>3. m \in [at : {"offer"}, left : {n}, sent : {<<>>}, answer : {<<>>}]
      BY DEF NoCall
    <2>4. k.at = "idle" /\ call' = [call EXCEPT ![c] = m]
      BY DEF AddFramesCall
    <2> HIDE DEF m
    <2>5. m = [at |-> "offer", left |-> n, sent |-> <<>>, answer |-> <<>>]
      BY <2>3
    <2> QED BY <2>2, <2>4, <2>5
  <1>4. OfferNext(c) =>
          /\ k.at = "offer" /\ k.left > 0
          /\ call' = [call EXCEPT ![c] = [at |-> "offer", left |-> k.left - 1,
                                          sent |-> Append(k.sent, count.frames + 1),
                                          answer |-> k.answer]]
    <2> SUFFICES ASSUME OfferNext(c)
                 PROVE  /\ k.at = "offer" /\ k.left > 0
                        /\ call' = [call EXCEPT ![c] = [at |-> "offer", left |-> k.left - 1,
                                                        sent |-> Append(k.sent, count.frames + 1),
                                                        answer |-> k.answer]]
      OBVIOUS
    <2> DEFINE left == k.left - 1
               sent == Append(k.sent, count.frames + 1)
    <2>1. /\ k.at = "offer" /\ k.left > 0
          /\ call' = Offers(call, c, left, sent)
      BY <1>1 DEF OfferNext, Offers
    <2> HIDE DEF left, sent
    <2>2. Offers(call, c, left, sent)
            = [call EXCEPT ![c] = [at |-> call[c].at, left |-> left, sent |-> sent,
                                   answer |-> call[c].answer]]
      BY <1>1, FieldsUpdated
    <2>3. call' = [call EXCEPT ![c] = [at |-> k.at, left |-> left, sent |-> sent,
                                       answer |-> k.answer]]
      BY <2>1, <2>2
    <2> HIDE DEF k
    <2> QED BY <2>1, <2>3 DEF left, sent
  <1>5. BeginCollect(c) =>
          /\ k.at = "offer" /\ k.left = 0
          /\ call' = [call EXCEPT ![c] = [at |-> "collect", left |-> Len(k.sent),
                                          sent |-> k.sent, answer |-> k.answer]]
    <2> SUFFICES ASSUME BeginCollect(c)
                 PROVE  /\ k.at = "offer" /\ k.left = 0
                        /\ call' = [call EXCEPT ![c] = [at |-> "collect", left |-> Len(k.sent),
                                                        sent |-> k.sent, answer |-> k.answer]]
      OBVIOUS
    <2> DEFINE left == Len(k.sent)
    <2>1. /\ k.at = "offer" /\ k.left = 0
          /\ call' = Turns(call, c, "collect", left)
      BY DEF BeginCollect, Turns
    <2> HIDE DEF left
    <2>2. Turns(call, c, "collect", left)
            = [call EXCEPT ![c] = [at |-> "collect", left |-> left, sent |-> call[c].sent,
                                   answer |-> call[c].answer]]
      BY <1>1, FieldsUpdated
    <2>3. call' = [call EXCEPT ![c] = [at |-> "collect", left |-> left, sent |-> k.sent,
                                       answer |-> k.answer]]
      BY <2>1, <2>2
    <2> HIDE DEF k
    <2> QED BY <2>1, <2>3 DEF left
  <1>6. CollectNext(c) =>
          /\ k.at = "collect" /\ Head(queue[Processed]) \in Frame
          /\ call' = [call EXCEPT
                        ![c] = [at |-> IF k.left = 1 THEN "idle" ELSE "collect",
                                left |-> k.left - 1, sent |-> k.sent,
                                answer |-> Append(k.answer, Head(queue[Processed]))]]
    <2>1. CollectNext(c) => Head(queue[Processed]) \in Frame
      BY GetService, FetchLeaves DEF CollectNext, ServerTypeOK
    <2> SUFFICES ASSUME CollectNext(c)
                 PROVE  /\ k.at = "collect" /\ Head(queue[Processed]) \in Frame
                        /\ call' = [call EXCEPT
                             ![c] = [at |-> IF k.left = 1 THEN "idle" ELSE "collect",
                                     left |-> k.left - 1, sent |-> k.sent,
                                     answer |-> Append(k.answer, Head(queue[Processed]))]]
      OBVIOUS
    <2> DEFINE left == k.left - 1
               answer == Append(k.answer, Head(queue[Processed]))
               at == IF k.left = 1 THEN "idle" ELSE "collect"
    <2>2. /\ k.at = "collect"
          /\ call' = Collects(call, c, left, answer, at)
      BY <1>1 DEF CollectNext, Collects
    <2> HIDE DEF left, answer, at
    <2>3. Collects(call, c, left, answer, at)
            = [call EXCEPT ![c] = [at |-> at, left |-> left, sent |-> call[c].sent,
                                   answer |-> answer]]
      BY <1>1, FieldsCollected
    <2>4. call' = [call EXCEPT ![c] = [at |-> at, left |-> left, sent |-> k.sent,
                                       answer |-> answer]]
      BY <2>2, <2>3
    <2> HIDE DEF k
    <2> QED BY <2>1, <2>2, <2>4 DEF left, answer, at
  <1> QED BY <1>1, <1>3, <1>4, <1>5, <1>6

\* The steps of the server, one by one.
LEMMA ServerSteps ==
  ASSUME [ServerNext]_serverVars
  PROVE  \/ (Construct \/ (Work /\ UNCHANGED call) \/ UNCHANGED serverVars) /\ call' = call
         \/ \E c \in Connection :
              \/ (AddEffectCall(c) \/ ClearEffectsCall(c)) /\ call' = call
              \/ \E n \in BatchSize : AddFramesCall(c, n)
              \/ OfferNext(c) \/ BeginCollect(c) \/ CollectNext(c)
  BY DEF ServerNext, Construct, Request, AddEffectCall, ClearEffectsCall, Handle, serverVars

\* Only one handler moves at a time.
LEMMA OneCallMoves ==
  ASSUME ServerTypeOK, CallsInStep, NEW c \in Connection, NEW k \in CallRecord,
         CallShape(k), TypeOK', call' = [call EXCEPT ![c] = k]
  PROVE  ServerTypeOK' /\ CallsInStep'
  BY DEF ServerTypeOK, CallRecord, CallsInStep

LEMMA ServerKeepsCalls ==
  ASSUME ServerTypeOK, CallsInStep, TypeOK', [ServerNext]_serverVars
  PROVE  ServerTypeOK' /\ CallsInStep'
  <1>1. CASE call' = call
    BY <1>1 DEF ServerTypeOK, CallsInStep
  <1>2. ASSUME NEW c \in Connection,
               \/ \E n \in BatchSize : AddFramesCall(c, n)
               \/ OfferNext(c) \/ BeginCollect(c) \/ CollectNext(c)
        PROVE  ServerTypeOK' /\ CallsInStep'
    <2> DEFINE k == call[c]
    <2>1. /\ k \in CallRecord /\ CallShape(k)
          /\ k.at \in {"idle", "offer", "collect"} /\ k.left \in Nat
          /\ k.sent \in Seq(Nat) /\ Len(k.sent) \in Nat
          /\ k.answer \in Seq(Frame) /\ Len(k.answer) \in Nat
          /\ MaxFrames \in Nat /\ count.frames \in Nat
      <3>1. k \in CallRecord
        BY CallSteps
      <3> HIDE DEF k
      <3> QED BY <3>1, CallFields, CountersAreNumbers DEF ServerTypeOK, CallsInStep, k
    <2>2. ASSUME NEW n \in BatchSize, AddFramesCall(c, n) PROVE ServerTypeOK' /\ CallsInStep'
      <3> DEFINE l == [at |-> "offer", left |-> n, sent |-> <<>>, answer |-> <<>>]
      <3>1. n \in 1 .. MaxFrames /\ call' = [call EXCEPT ![c] = l]
        BY <2>2, CallSteps
      <3>2. l \in CallRecord /\ CallShape(l)
        BY <2>1, <3>1, EmptySeq DEF CallRecord, CallShape
      <3> HIDE DEF l
      <3> QED BY <3>1, <3>2, OneCallMoves
    <2>3. CASE OfferNext(c)
      <3> DEFINE e == count.frames + 1
                 l == [at |-> "offer", left |-> k.left - 1,
                       sent |-> Append(k.sent, e), answer |-> k.answer]
      <3>1. k.at = "offer" /\ k.left > 0 /\ call' = [call EXCEPT ![c] = l]
        BY <2>3, CallSteps
      <3>2. e \in Nat /\ Append(k.sent, e) \in Seq(Nat)
            /\ Len(Append(k.sent, e)) = Len(k.sent) + 1
        BY <2>1, Appended
      <3> HIDE DEF k, e
      <3>3. l \in CallRecord /\ CallShape(l)
        BY <2>1, <3>1, <3>2 DEF CallRecord, CallShape
      <3> HIDE DEF l
      <3> QED BY <3>1, <3>3, OneCallMoves
    <2>4. CASE BeginCollect(c)
      <3> DEFINE l == [at |-> "collect", left |-> Len(k.sent), sent |-> k.sent, answer |-> k.answer]
      <3>1. k.at = "offer" /\ k.left = 0 /\ call' = [call EXCEPT ![c] = l]
        BY <2>4, CallSteps
      <3> HIDE DEF k
      <3>2. l \in CallRecord /\ CallShape(l)
        BY <2>1, <3>1 DEF CallRecord, CallShape
      <3> HIDE DEF l
      <3> QED BY <3>1, <3>2, OneCallMoves
    <2>5. CASE CollectNext(c)
      <3> DEFINE f == Head(queue[Processed])
                 l == [at |-> IF k.left = 1 THEN "idle" ELSE "collect", left |-> k.left - 1,
                       sent |-> k.sent, answer |-> Append(k.answer, f)]
      <3>1. k.at = "collect" /\ f \in Frame /\ call' = [call EXCEPT ![c] = l]
        BY <2>5, CallSteps
      <3>2. /\ Append(k.answer, f) \in Seq(Frame)
            /\ Len(Append(k.answer, f)) = Len(k.answer) + 1
        BY <2>1, <3>1, Appended
      <3> HIDE DEF k, f
      <3>3. l \in CallRecord /\ CallShape(l)
        BY <2>1, <3>1, <3>2 DEF CallRecord, CallShape
      <3> HIDE DEF l
      <3> QED BY <3>1, <3>3, OneCallMoves
    <2> QED BY <1>2, <2>2, <2>3, <2>4, <2>5
  <1> QED BY <1>1, <1>2, ServerSteps

\* Every handler is in step with its request.
THEOREM CallsInvariant == ServerSpec => [](ServerTypeOK /\ CallsInStep)
  <1>1. ServerInit /\ TypeOK => ServerTypeOK /\ CallsInStep
    <2> SUFFICES ASSUME ServerInit, TypeOK PROVE ServerTypeOK /\ CallsInStep
      OBVIOUS
    <2>1. MaxFrames \in Nat
      BY BoundsAssumption
    <2> QED BY <2>1, EmptySeq DEF ServerInit, NoCall, ServerTypeOK, CallsInStep, CallShape
  <1>2. ServerTypeOK /\ CallsInStep /\ TypeOK' /\ [ServerNext]_serverVars
          => ServerTypeOK' /\ CallsInStep'
    BY ServerKeepsCalls
  <1>3. Sound => TypeOK
    BY DEF Sound
  <1> QED BY <1>1, <1>2, <1>3, ServerDrivesPipeline, PipelineSound, PTL DEF ServerSpec

\* Every variable of the server keeps its type.
THEOREM ServerTypeCorrect == ServerSpec => []ServerTypeOK
  BY CallsInvariant, PTL

-----------------------------------------------------------------------------
\* The service never holds more frames than the calls are owed.
Covered == IsFiniteSet(Owed) /\ NoLeftovers

\* What the service holds.
LEMMA HeldIsNumber ==
  ASSUME TypeOK, InService
  PROVE  /\ IsFiniteSet(Waiting) /\ Cardinality(Waiting) \in Nat
         /\ Len(queue[Processed]) \in Nat /\ Held \in Nat
  <1>1. IsFiniteSet(Waiting) /\ Cardinality(Waiting) \in Nat
    BY FS_CardinalityType DEF InService
  <1> QED BY <1>1, ReadyTypes DEF Held

\* How the steps of the service change that: only a frame that is accepted adds
\* to it, and a frame that is fetched is taken off.
LEMMA HeldSteps ==
  ASSUME TypeOK, TypeOK', InService
  PROVE  /\ Service!Accept => Held' <= Held + 1
         /\ Service!Fetch => Held' = Held - 1
         /\ \/ Service!Configure \/ Service!Lose \/ UNCHANGED Service!serviceVars
            \/ \E f \in Waiting : \E k \in f.born .. Len(history) : Service!Deliver(f, k)
            => Held' <= Held
  <1> DEFINE r == queue[Processed]
  <1>1. /\ IsFiniteSet(Waiting) /\ Cardinality(Waiting) \in Nat /\ Len(r) \in Nat
        /\ Held = Cardinality(Waiting) + Len(r)
        /\ Held' = Cardinality(Waiting') + Len(queue'[Processed])
    BY HeldIsNumber DEF Held
  <1>2. ASSUME Waiting' \subseteq Waiting
        PROVE  IsFiniteSet(Waiting') /\ Cardinality(Waiting') \in Nat
               /\ Cardinality(Waiting') <= Cardinality(Waiting)
    BY <1>1, <1>2, FS_Subset, FS_CardinalityType
  <1>3. ASSUME Service!Accept PROVE Held' <= Held + 1
    <2> DEFINE new == [id |-> count.frames + 1, born |-> Len(history)]
    <2>1. queue'[Processed] = r /\ (Waiting' = Waiting \/ Waiting' = Waiting \cup {new})
      BY <1>3 DEF Service!Accept
    <2> HIDE DEF new
    <2>2. Cardinality(Waiting \cup {new}) \in {Cardinality(Waiting), Cardinality(Waiting) + 1}
      BY <1>1, FS_AddElement
    <2>3. Cardinality(Waiting') \in {Cardinality(Waiting), Cardinality(Waiting) + 1}
      BY <2>1, <2>2
    <2> DEFINE w == Cardinality(Waiting)
    <2> HIDE DEF w, r
    <2>4. w \in Nat /\ Len(r) \in Nat /\ Held = w + Len(r)
          /\ (Held' = w + Len(r) \/ Held' = w + 1 + Len(r))
      BY <1>1, <2>1, <2>3 DEF w
    <2> QED BY <2>4
  <1>4. ASSUME Service!Fetch PROVE Held' = Held - 1
    <2>1. Waiting' = Waiting /\ Len(queue'[Processed]) = Len(r) - 1
      BY <1>4, FetchLeaves DEF Service!Fetch
    <2> QED BY <1>1, <2>1
  <1>5. ASSUME Service!Configure \/ Service!Lose \/ UNCHANGED Service!serviceVars
        PROVE  Held' <= Held
    <2>1. queue'[Processed] = r /\ Waiting' \subseteq Waiting
      BY <1>5 DEF Service!Configure, Service!Lose, Service!serviceVars
    <2> QED BY <1>1, <1>2, <2>1
  <1>6. ASSUME NEW f \in Waiting, NEW k, Service!Deliver(f, k)
        PROVE  Held' <= Held
    <2>1. Waiting' = Waiting \ {f}
      BY <1>6 DEF Service!Deliver
    <2>2. Cardinality(Waiting') = Cardinality(Waiting) - 1 /\ Cardinality(Waiting') \in Nat
      BY <1>1, <1>2, <2>1, FS_RemoveElement
    <2>3. Len(queue'[Processed]) = Len(r) + 1
      BY <1>6, DeliverAdds
    <2> QED BY <1>1, <2>2, <2>3
  <1> QED BY <1>3, <1>4, <1>5, <1>6

\* What the calls are owed after one of them has moved.
LEMMA OwedLater ==
  ASSUME ServerTypeOK, NEW c \in Connection, NEW l, call' = [call EXCEPT ![c] = l]
  PROVE  \A o \in Connection, i \in 1 .. MaxFrames :
           <<o, i>> \in Owed' <=>
             IF o = c THEN l.at # "idle" /\ Len(l.answer) < i /\ i <= Len(l.sent)
                      ELSE <<o, i>> \in Owed
  <1>1. call'[c] = l /\ \A o \in Connection \ {c} : call'[o] = call[o]
    BY DEF ServerTypeOK
  <1>2. \A o \in Connection, i \in 1 .. MaxFrames :
          /\ <<o, i>> \in Owed <=> Owes(o, i)
          /\ <<o, i>> \in Owed' <=> Owes(o, i)'
    BY DEF Owed, Owes
  <1> QED BY <1>1, <1>2 DEF Owes

\* Every step of the server is a step of the service.
LEMMA ServerStepIsServiceStep ==
  ASSUME Sound, [ServerNext]_serverVars
  PROVE  [Service!Next]_(Service!serviceVars)
  BY ServerStepIsPipelineStep, StepService DEF Sound

LEMMA SameOwed ==
  ASSUME NEW S \in SUBSET (Connection \X (1 .. MaxFrames)),
         NEW T \in SUBSET (Connection \X (1 .. MaxFrames)),
         \A o \in Connection, i \in 1 .. MaxFrames : <<o, i>> \in S <=> <<o, i>> \in T
  PROVE  S = T
  <1>1. \A p \in Connection \X (1 .. MaxFrames) : p = <<p[1], p[2]>> /\ p[1] \in Connection
                                                  /\ p[2] \in 1 .. MaxFrames
    OBVIOUS
  <1> QED BY <1>1

LEMMA ServerKeepsCovered ==
  ASSUME Sound, TypeOK', ServerTypeOK, CallsInStep, Covered, [ServerNext]_serverVars
  PROVE  Covered'
  <1> DEFINE All == Connection \X (1 .. MaxFrames)
  <1>1. /\ TypeOK /\ InService /\ TypeOK' /\ IsFiniteSet(Owed) /\ Cardinality(Owed) \in Nat
        /\ Held \in Nat /\ Held <= Cardinality(Owed) /\ Held' \in Int
        /\ MaxFrames \in Nat
        /\ Owed \in SUBSET All /\ Owed' \in SUBSET All
    <2>1. TypeOK /\ InService
      BY DEF Sound
    <2>2. IsFiniteSet(Owed) /\ Cardinality(Owed) \in Nat
      BY FS_CardinalityType DEF Covered
    <2>3. Owed \in SUBSET All /\ Owed' \in SUBSET All
      BY DEF Owed
    <2>4. Held' \in Int
      <3>1. Len(history) >= 1
        BY DEF Sound, Listed, Lineage
      <3>2. Cardinality(Waiting') \in Nat
        BY <2>1, <3>1, ServerStepIsServiceStep, ServiceKeepsOrder, FS_CardinalityType DEF InService
      <3>3. Len(queue'[Processed]) \in Nat
        BY EndQueues, LenProperties DEF TypeOK
      <3> QED BY <3>2, <3>3 DEF Held
    <2> QED BY <2>1, <2>2, <2>3, <2>4, HeldIsNumber, BoundsAssumption DEF Covered, NoLeftovers
  <1>2. ASSUME Owed' = Owed, Held' <= Held PROVE Covered'
    BY <1>1, <1>2 DEF Covered, NoLeftovers
  <1>3. CASE call' = call /\ (Construct \/ Work \/ UNCHANGED serverVars
                              \/ \E c \in Connection : AddEffectCall(c) \/ ClearEffectsCall(c))
    <2>1. Owed' = Owed
      BY <1>3 DEF Owed, Owes
    <2>2. Held' <= Held
      BY <1>1, <1>3, HandlerSteps, HeldSteps DEF AddEffectCall, ClearEffectsCall, serverVars
    <2> QED BY <1>2, <2>1, <2>2
  <1>4. ASSUME NEW c \in Connection,
               \/ \E n \in BatchSize : AddFramesCall(c, n)
               \/ OfferNext(c) \/ BeginCollect(c) \/ CollectNext(c)
        PROVE  Covered'
    <2> DEFINE k == call[c]
    <2>1. /\ k \in CallRecord /\ CallShape(k)
          /\ k.left \in Nat
          /\ k.sent \in Seq(Nat) /\ Len(k.sent) \in Nat
          /\ k.answer \in Seq(Frame) /\ Len(k.answer) \in Nat
      <3>1. k \in CallRecord
        BY CallSteps
      <3> HIDE DEF k
      <3> QED BY <3>1, CallFields DEF CallsInStep, k
    <2>2. \A i \in 1 .. MaxFrames :
            <<c, i>> \in Owed <=> k.at # "idle" /\ Len(k.answer) < i /\ i <= Len(k.sent)
      BY DEF Owed, Owes
    <2>3. CASE (\E n \in BatchSize : AddFramesCall(c, n)) \/ BeginCollect(c)
      <3>1. PICK l : /\ call' = [call EXCEPT ![c] = l]
                     /\ \A i \in 1 .. MaxFrames :
                          l.at # "idle" /\ Len(l.answer) < i /\ i <= Len(l.sent)
                            <=> k.at # "idle" /\ Len(k.answer) < i /\ i <= Len(k.sent)
        <4>1. ASSUME NEW n \in BatchSize, AddFramesCall(c, n)
              PROVE  \E l : /\ call' = [call EXCEPT ![c] = l]
                            /\ \A i \in 1 .. MaxFrames :
                                 l.at # "idle" /\ Len(l.answer) < i /\ i <= Len(l.sent)
                                   <=> k.at # "idle" /\ Len(k.answer) < i /\ i <= Len(k.sent)
          <5> DEFINE l == [at |-> "offer", left |-> n, sent |-> <<>>, answer |-> <<>>]
          <5>1. call' = [call EXCEPT ![c] = l] /\ k.at = "idle"
            BY <4>1, CallSteps
          <5>2. l.sent = <<>> /\ Len(<<>>) = 0
            BY EmptySeq
          <5>3. \A i \in 1 .. MaxFrames : ~(i <= Len(l.sent))
            BY <1>1, <5>2
          <5> HIDE DEF l, k
          <5> QED BY <5>1, <5>3
        <4>2. CASE BeginCollect(c)
          <5> DEFINE l == [at |-> "collect", left |-> Len(k.sent), sent |-> k.sent,
                           answer |-> k.answer]
          <5>1. call' = [call EXCEPT ![c] = l] /\ k.at = "offer"
            BY <4>2, CallSteps
          <5>2. l.at = "collect" /\ l.sent = k.sent /\ l.answer = k.answer
            OBVIOUS
          <5> HIDE DEF l, k
          <5> QED BY <5>1, <5>2
        <4> QED BY <2>3, <4>1, <4>2
      <3> HIDE DEF k
      <3>2. \A o \in Connection, i \in 1 .. MaxFrames : <<o, i>> \in Owed' <=> <<o, i>> \in Owed
        BY <2>2, <3>1, OwedLater
      <3>3. Owed' = Owed
        BY <1>1, <3>2, SameOwed
      <3>4. UNCHANGED vars
        BY <2>3 DEF AddFramesCall, BeginCollect
      <3>5. Held' <= Held
        BY <1>1, <3>4, HandlerSteps, HeldSteps
      <3> QED BY <1>2, <3>3, <3>5
    <2>4. CASE OfferNext(c)
      <3> DEFINE e == count.frames + 1
                 s == Append(k.sent, e)
                 l == [at |-> "offer", left |-> k.left - 1, sent |-> s, answer |-> k.answer]
                 p == <<c, Len(k.sent) + 1>>
      <3>1. k.at = "offer" /\ k.left > 0 /\ call' = [call EXCEPT ![c] = l]
        BY <2>4, CallSteps
      <3>2. Len(s) = Len(k.sent) + 1
        <4>1. e \in Nat
          BY <1>1, CountersAreNumbers
        <4> QED BY <2>1, <4>1, Appended
      <3>3. l.at = "offer" /\ l.sent = s /\ l.answer = k.answer
        OBVIOUS
      <3> HIDE DEF k, s, l
      <3>4. Len(k.answer) = 0 /\ Len(k.sent) + 1 \in 1 .. MaxFrames
        BY <1>1, <2>1, <3>1 DEF CallShape
      <3>5. \A o \in Connection, i \in 1 .. MaxFrames :
              <<o, i>> \in Owed' <=> <<o, i>> \in Owed \cup {p}
        <4>1. \A i \in 1 .. MaxFrames : <<c, i>> \in Owed' <=> Len(k.answer) < i /\ i <= Len(s)
          BY <3>1, <3>3, OwedLater
        <4>2. \A i \in 1 .. MaxFrames : <<c, i>> \in Owed' <=> <<c, i>> \in Owed \/ i = Len(k.sent) + 1
          BY <1>1, <2>1, <2>2, <3>1, <3>2, <3>4, <4>1
        <4>3. \A o \in Connection \ {c}, i \in 1 .. MaxFrames : <<o, i>> \in Owed' <=> <<o, i>> \in Owed
          BY <3>1, OwedLater
        <4> QED BY <4>2, <4>3
      <3>6. p \in All /\ p \notin Owed
        BY <1>1, <2>1, <2>2, <3>4
      <3>7. Owed' = Owed \cup {p}
        BY <1>1, <3>5, <3>6, SameOwed
      <3> HIDE DEF p
      <3>8. IsFiniteSet(Owed') /\ Cardinality(Owed') = Cardinality(Owed) + 1
        BY <1>1, <3>6, <3>7, FS_AddElement
      <3>9. Held' <= Held + 1
        BY <1>1, <2>4, HandlerSteps, HeldSteps DEF OfferNext
      <3> QED BY <1>1, <3>8, <3>9 DEF Covered, NoLeftovers
    <2>5. CASE CollectNext(c)
      <3> DEFINE f == Head(queue[Processed])
                 a == Append(k.answer, f)
                 l == [at |-> IF k.left = 1 THEN "idle" ELSE "collect", left |-> k.left - 1,
                       sent |-> k.sent, answer |-> a]
                 p == <<c, Len(k.answer) + 1>>
      <3>1. k.at = "collect" /\ f \in Frame /\ call' = [call EXCEPT ![c] = l]
        BY <2>5, CallSteps
      <3>2. Len(a) = Len(k.answer) + 1
        BY <2>1, <3>1, Appended
      <3>3. l.at = (IF k.left = 1 THEN "idle" ELSE "collect") /\ l.sent = k.sent /\ l.answer = a
        OBVIOUS
      <3> HIDE DEF k, f, a, l
      <3>4. /\ Len(k.answer) + k.left = Len(k.sent) /\ k.left >= 1
            /\ Len(k.sent) <= MaxFrames /\ Len(k.answer) + 1 \in 1 .. MaxFrames
        BY <1>1, <2>1, <3>1 DEF CallShape
      <3>5. \A o \in Connection, i \in 1 .. MaxFrames :
              <<o, i>> \in Owed' <=> <<o, i>> \in Owed \ {p}
        <4>1. \A i \in 1 .. MaxFrames :
                <<c, i>> \in Owed' <=> k.left # 1 /\ Len(a) < i /\ i <= Len(k.sent)
          BY <3>1, <3>3, OwedLater
        <4>2. \A i \in 1 .. MaxFrames :
                <<c, i>> \in Owed' <=> <<c, i>> \in Owed /\ i # Len(k.answer) + 1
          <5>1. \A i \in 1 .. MaxFrames :
                  k.left # 1 /\ Len(a) < i /\ i <= Len(k.sent)
                    <=> Len(k.answer) < i /\ i <= Len(k.sent) /\ i # Len(k.answer) + 1
            <6> SUFFICES ASSUME NEW i \in 1 .. MaxFrames
                         PROVE  k.left # 1 /\ Len(k.answer) + 1 < i /\ i <= Len(k.sent)
                                  <=> Len(k.answer) < i /\ i <= Len(k.sent) /\ i # Len(k.answer) + 1
              BY <3>2
            <6>1. i \in Nat /\ Len(k.answer) \in Nat /\ Len(k.sent) \in Nat /\ k.left \in Nat
              BY <1>1, <2>1
            <6> QED BY <3>4, <6>1
          <5> QED BY <2>2, <3>1, <4>1, <5>1
        <4>3. \A o \in Connection \ {c}, i \in 1 .. MaxFrames : <<o, i>> \in Owed' <=> <<o, i>> \in Owed
          BY <3>1, OwedLater
        <4> QED BY <4>2, <4>3
      <3>6. p \in Owed
        <4>1. Len(k.answer) < Len(k.answer) + 1 /\ Len(k.answer) + 1 <= Len(k.sent)
          BY <2>1, <3>4
        <4> QED BY <2>2, <3>1, <3>4, <4>1
      <3>7. Owed' = Owed \ {p}
        BY <1>1, <3>5, SameOwed
      <3> HIDE DEF p
      <3>8. IsFiniteSet(Owed') /\ Cardinality(Owed') = Cardinality(Owed) - 1
        BY <1>1, <3>6, <3>7, FS_RemoveElement
      <3>9. Held' = Held - 1
        BY <1>1, <2>5, HandlerSteps, HeldSteps DEF CollectNext
      <3> QED BY <1>1, <3>8, <3>9 DEF Covered, NoLeftovers
    <2> QED BY <1>4, <2>3, <2>4, <2>5
  <1> QED BY <1>3, <1>4, ServerSteps

\* What the proofs about the server start from: its pipeline, its types and calls.
LEMMA ServerFacts ==
  ServerSpec => [](Sound /\ TypeOK /\ ServerTypeOK /\ CallsInStep)
  <1>1. Sound => TypeOK
    BY DEF Sound
  <1> QED BY <1>1, ServerDrivesPipeline, PipelineSound, CallsInvariant, PTL

\* The processor never holds more frames than the calls in progress have offered
\* and not yet fetched, however many clients there are, in whatever order their
\* handlers take turns, and whichever frames are lost.
THEOREM NothingLeftOver == ServerSpec => []NoLeftovers
  <1>1. ServerInit => Covered
    <2> SUFFICES ASSUME ServerInit PROVE Covered
      OBVIOUS
    <2>1. Owed = {}
      BY DEF ServerInit, NoCall, Owed, Owes
    <2>2. Waiting = {} /\ queue[Processed] = <<>>
      BY InitService DEF ServerInit, Service!Init
    <2>3. Cardinality(Waiting) = 0 /\ Len(queue[Processed]) = 0 /\ Cardinality(Owed) = 0
      BY <2>1, <2>2, FS_EmptySet, EmptySeq
    <2> QED BY <2>1, <2>3, FS_EmptySet DEF Covered, NoLeftovers, Held
  <1>2. /\ Sound /\ TypeOK /\ ServerTypeOK /\ CallsInStep /\ TypeOK' /\ Covered
        /\ [ServerNext]_serverVars
        => Covered'
    BY ServerKeepsCovered
  <1>3. Covered => NoLeftovers
    BY DEF Covered
  <1> QED BY <1>1, <1>2, <1>3, ServerFacts, PTL DEF ServerSpec

-----------------------------------------------------------------------------
(***************************************************************************)
(* One client.  Its calls come one after the other, so all that is in the  *)
(* processor during a call was offered by that call and under one list of  *)
(* effects, and what it fetches increases.  A call gets as many frames as  *)
(* it offered, and there is but one increasing sequence of that many.      *)
(***************************************************************************)

\* How many frames had been offered before the last call of c.
Base(c) == count.frames - Len(call[c].sent)

\* The numbers in the answer so far increase, and stay between those offered
\* before the call and those offered at all.
Climbs(c) ==
  LET a == call[c].answer
  IN /\ \A i \in 1 .. Len(a) : Base(c) + i <= a[i].id /\ a[i].id <= count.frames
     /\ \A i, j \in 1 .. Len(a) : i <= j => j - i <= a[j].id - a[i].id

\* A fetched frame was treated with the list in force when it was offered.
TreatedAtOnce(f) == f.born \in 1 .. Len(history) /\ f.applied = history[f.born]

\* The frames in the processor belong to the call of c.
Own(g, c) == Fresh(g) /\ Base(c) < g.id /\ call[c].at # "idle"

OwnFrames(c) ==
  /\ Len(call[c].sent) <= count.frames
  /\ \A i \in 1 .. Len(call[c].sent) : call[c].sent[i] = Base(c) + i
  /\ Climbs(c)
  /\ \A i \in 1 .. Len(call[c].answer) : TreatedAtOnce(call[c].answer[i])
  /\ \A g \in Waiting : Own(g, c)
  /\ \A x \in 1 .. Len(queue[Processed]) : Own(queue[Processed][x], c)
  /\ call[c].at = "collect" /\ Len(call[c].answer) >= 1
       => Later(call[c].answer[Len(call[c].answer)].id)

\* The steps in which at most client c is active.
ClientNext(c) ==
  \/ (Construct \/ Work \/ UNCHANGED vars) /\ call' = call
  \/ (AddEffectCall(c) \/ ClearEffectsCall(c)) /\ call' = call
  \/ \E n \in BatchSize : AddFramesCall(c, n)
  \/ OfferNext(c) \/ BeginCollect(c) \/ CollectNext(c)

\* An answer that is complete is what was sent.
LEMMA AnswerIsSent ==
  ASSUME ServerTypeOK, CallsInStep, NEW c \in Connection, OwnFrames(c),
         Len(call[c].answer) = Len(call[c].sent)
  PROVE  /\ \A i \in 1 .. Len(call[c].sent) : call[c].answer[i].id = call[c].sent[i]
         /\ Len(call[c].sent) >= 1 => call[c].answer[Len(call[c].sent)].id = count.frames
  <1> DEFINE a == call[c].answer
             n == Len(call[c].sent)
  <1>1. /\ call[c] \in CallRecord /\ count.frames \in Nat
    BY CallSteps, CountersAreNumbers DEF ServerTypeOK
  <1>2. n \in Nat /\ a \in Seq(Frame) /\ Len(a) = n
    BY <1>1, CallFields
  <1>3. \A i \in 1 .. n : a[i].id \in Nat
    <2>1. \A i \in 1 .. n : a[i] \in Frame
      BY <1>2, ElementOfSeq
    <2> QED BY <2>1, FrameFields
  <1>4. /\ \A i \in 1 .. n : call[c].sent[i] = count.frames - n + i
        /\ \A i \in 1 .. n : count.frames - n + i <= a[i].id /\ a[i].id <= count.frames
        /\ \A i, j \in 1 .. n : i <= j => j - i <= a[j].id - a[i].id
    BY <1>2 DEF OwnFrames, Climbs, Base
  <1> HIDE DEF a, n
  <1>5. ASSUME NEW i \in 1 .. n PROVE a[i].id = count.frames - n + i
    <2>1. n \in 1 .. n /\ i \in Nat /\ i <= n
      BY <1>2
    <2>2. n - i <= a[n].id - a[i].id /\ a[n].id <= count.frames /\ count.frames - n + i <= a[i].id
      BY <1>4, <2>1
    <2>3. a[n].id \in Nat /\ a[i].id \in Nat
      BY <1>3, <2>1
    <2> QED BY <1>1, <1>2, <2>1, <2>2, <2>3
  <1>6. n >= 1 => a[n].id = count.frames
    <2>1. n >= 1 => n \in 1 .. n
      BY <1>2
    <2>2. n >= 1 => a[n].id = count.frames - n + n
      BY <1>5, <2>1
    <2> QED BY <1>1, <1>2, <2>2
  <1> QED BY <1>4, <1>5, <1>6 DEF a, n

\* What the turns of a handler do to its call.
LEMMA CallUpdates ==
  ASSUME ServerTypeOK, NEW c \in Connection
  PROVE  /\ \A n \in BatchSize : AddFramesCall(c, n) =>
              /\ call[c].at = "idle" /\ call'[c].at = "offer"
              /\ call'[c].sent = <<>> /\ call'[c].answer = <<>>
         /\ OfferNext(c) =>
              /\ call[c].at = "offer" /\ call'[c].at = "offer"
              /\ call'[c].sent = Append(call[c].sent, count.frames + 1)
              /\ call'[c].answer = call[c].answer
         /\ BeginCollect(c) =>
              /\ call[c].at = "offer" /\ call'[c].at = "collect"
              /\ call'[c].sent = call[c].sent /\ call'[c].answer = call[c].answer
         /\ CollectNext(c) =>
              /\ call[c].at = "collect" /\ call'[c].at \in {"idle", "collect"}
              /\ call'[c].at = "idle" => call[c].left = 1
              /\ call'[c].sent = call[c].sent
              /\ call'[c].answer = Append(call[c].answer, Head(queue[Processed]))
              /\ Head(queue[Processed]) \in Frame
  <1>0. call \in [Connection -> CallRecord]
    BY CallSteps
  <1>1. ASSUME NEW n \in BatchSize, AddFramesCall(c, n)
        PROVE  /\ call[c].at = "idle" /\ call'[c].at = "offer"
               /\ call'[c].sent = <<>> /\ call'[c].answer = <<>>
    <2> DEFINE l == [at |-> "offer", left |-> n, sent |-> <<>>, answer |-> <<>>]
    <2>1. call' = [call EXCEPT ![c] = l] /\ call[c].at = "idle"
      BY <1>1, CallSteps
    <2>2. l.at = "offer" /\ l.sent = <<>> /\ l.answer = <<>>
      OBVIOUS
    <2> HIDE DEF l
    <2> QED BY <1>0, <2>1, <2>2
  <1>2. ASSUME OfferNext(c)
        PROVE  /\ call[c].at = "offer" /\ call'[c].at = "offer"
               /\ call'[c].sent = Append(call[c].sent, count.frames + 1)
               /\ call'[c].answer = call[c].answer
    BY <1>0, <1>2, CallSteps
  <1>3. ASSUME BeginCollect(c)
        PROVE  /\ call[c].at = "offer" /\ call'[c].at = "collect"
               /\ call'[c].sent = call[c].sent /\ call'[c].answer = call[c].answer
    BY <1>0, <1>3, CallSteps
  <1>4. ASSUME CollectNext(c)
        PROVE  /\ call[c].at = "collect" /\ call'[c].at \in {"idle", "collect"}
               /\ call'[c].at = "idle" => call[c].left = 1
               /\ call'[c].sent = call[c].sent
               /\ call'[c].answer = Append(call[c].answer, Head(queue[Processed]))
               /\ Head(queue[Processed]) \in Frame
    BY <1>0, <1>4, CallSteps
  <1> QED BY <1>1, <1>2, <1>3, <1>4

\* Nothing but the handlers' turns.
LEMMA OwnFramesBetweenTurns ==
  ASSUME Sound, TypeOK', ServerTypeOK, CallsInStep, NEW c \in Connection, OwnFrames(c),
         \/ (Construct \/ Work \/ UNCHANGED vars) /\ call' = call
         \/ (AddEffectCall(c) \/ ClearEffectsCall(c)) /\ call' = call
  PROVE  OwnFrames(c)'
  <1>1. TypeOK /\ InService /\ Ownership /\ Lineage /\ NewUntouched /\ Len(history) >= 1
    BY DEF Sound, Listed, Lineage
  <1>2. call' = call
    OBVIOUS
  <1>3. CASE AddEffectCall(c) \/ ClearEffectsCall(c)
    <2>1. Service!Configure /\ Edit /\ call[c].at = "idle"
      BY <1>3, HandlerSteps DEF AddEffectCall, ClearEffectsCall, Edit
    <2>2. /\ Waiting' \subseteq Waiting /\ queue'[Processed] = queue[Processed]
          /\ count'.frames = count.frames
      BY <2>1 DEF Service!Configure
    <2>3. /\ Len(history') = Len(history) + 1 /\ Len(history) \in Nat
          /\ \A n \in 1 .. Len(history) : n \in 1 .. Len(history') /\ history'[n] = history[n]
      <3>1. Len(history') = Len(history) + 1 /\ \A n \in 1 .. Len(history) : history'[n] = history[n]
        BY <1>1, <2>1, WhatEditsDo
      <3>2. Len(history) \in Nat
        BY <1>1, ReadyTypes
      <3>3. \A n \in 1 .. Len(history) : n \in 1 .. Len(history) + 1
        BY <3>2
      <3> QED BY <3>1, <3>2, <3>3
    <2>4. \A f : TreatedAtOnce(f) => TreatedAtOnce(f)'
      BY <2>3 DEF TreatedAtOnce
    <2>5. Base(c)' = Base(c) /\ (Climbs(c) => Climbs(c)')
      BY <1>2, <2>2 DEF Base, Climbs
    <2>6. (\A g \in Waiting' : FALSE) /\ (\A x \in 1 .. Len(queue'[Processed]) : FALSE)
      BY <2>1, <2>2 DEF OwnFrames, Own
    <2>7. \A i \in 1 .. Len(call[c].answer) : TreatedAtOnce(call[c].answer[i])'
      BY <1>2, <2>4 DEF OwnFrames
    <2> QED BY <1>2, <2>1, <2>2, <2>5, <2>6, <2>7 DEF OwnFrames
  <1>4. CASE Construct \/ Work \/ UNCHANGED vars
    <2>1. \/ Service!Lose \/ UNCHANGED Service!serviceVars
          \/ \E f \in Waiting : \E k \in f.born .. Len(history) : Service!Deliver(f, k)
      BY <1>4, HandlerSteps
    <2>2. /\ history' = history /\ count'.frames = count.frames /\ Waiting' \subseteq Waiting
      BY <2>1 DEF Service!Lose, Service!Deliver, Service!serviceVars
    <2>3. \A x \in 1 .. Len(queue'[Processed]) :
            \/ /\ x \in 1 .. Len(queue[Processed])
               /\ queue'[Processed][x] = queue[Processed][x]
            \/ \E g \in Waiting : /\ queue'[Processed][x].id = g.id
                                  /\ queue'[Processed][x].born = g.born
      <3>1. CASE Service!Lose \/ UNCHANGED Service!serviceVars
        BY <3>1 DEF Service!Lose, Service!serviceVars
      <3>2. CASE \E f \in Waiting : \E k \in f.born .. Len(history) : Service!Deliver(f, k)
        BY <1>1, <3>2, DeliverAdds
      <3> QED BY <2>1, <3>1, <3>2
    <2>4. Base(c)' = Base(c) /\ (Climbs(c) => Climbs(c)')
      BY <1>2, <2>2 DEF Base, Climbs
    <2>5. \A g : Own(g, c) => Own(g, c)'
      BY <1>2, <2>2 DEF Own, Fresh, Base
    <2>6. (\A x \in 1 .. Len(queue[Processed]) : Own(queue[Processed][x], c))'
      <3>1. \A x \in 1 .. Len(queue'[Processed]) :
              /\ queue'[Processed][x].born = Len(history)
              /\ Base(c) < queue'[Processed][x].id /\ call[c].at # "idle"
        BY <2>3 DEF OwnFrames, Own, Fresh
      <3> QED BY <1>2, <2>2, <3>1 DEF Own, Fresh, Base
    <2>7. \A f : TreatedAtOnce(f) => TreatedAtOnce(f)'
      BY <2>2 DEF TreatedAtOnce
    <2>8. call[c].at = "collect" /\ Len(call[c].answer) >= 1
            => Later(call[c].answer[Len(call[c].answer)].id)'
      <3> SUFFICES ASSUME call[c].at = "collect", Len(call[c].answer) >= 1
                   PROVE  Later(call[c].answer[Len(call[c].answer)].id)'
        OBVIOUS
      <3> DEFINE n == call[c].answer[Len(call[c].answer)].id
      <3>1. n \in Nat /\ n <= count.frames
        <4>1. call[c] \in CallRecord
          BY CallSteps
        <4>2. call[c].answer \in Seq(Frame) /\ Len(call[c].answer) \in 1 .. Len(call[c].answer)
          BY <4>1, CallFields
        <4>3. call[c].answer[Len(call[c].answer)] \in Frame
          BY <4>2, ElementOfSeq
        <4> QED BY <4>2, <4>3, FrameFields DEF OwnFrames, Climbs
      <3>2. Later(n)
        BY DEF OwnFrames
      <3>3. [Service!Next]_(Service!serviceVars)
        BY <2>1 DEF Service!Next
      <3>4. \A m \in Nat : m <= count.frames /\ Later(m) => Later(m)'
        BY <1>1, <3>3, LaterStays
      <3>5. \A m : m = n /\ Later(m)' => Later(call[c].answer[Len(call[c].answer)].id)'
        BY <1>2 DEF Later
      <3> QED BY <3>1, <3>2, <3>4, <3>5
    <2>9. \A g \in Waiting' : Own(g, c)'
      BY <2>2, <2>5 DEF OwnFrames
    <2> QED BY <1>2, <2>2, <2>4, <2>6, <2>7, <2>8, <2>9 DEF OwnFrames
  <1> QED BY <1>3, <1>4

\* The frame that is fetched continues the answer; with the last one nothing is
\* left in the processor.
LEMMA OwnFramesFetched ==
  ASSUME Sound, TypeOK', ServerTypeOK, CallsInStep, NEW c \in Connection, OwnFrames(c),
         CollectNext(c)
  PROVE  OwnFrames(c)'
  <1> DEFINE k == call[c]
             s == k.sent
             a == k.answer
             r == queue[Processed]
             b == Base(c)
             f == Head(queue[Processed])
             d == Append(a, f)
             n == Len(a)
             m == count.frames
  <1>1. /\ TypeOK /\ InService /\ InOrder /\ AppliedOneList
        /\ k \in CallRecord /\ CallShape(k) /\ ClientNext(c)
    BY CallSteps DEF Sound, CallsInStep, ClientNext
  <1>2. /\ s \in Seq(Nat) /\ Len(s) \in Nat /\ a \in Seq(Frame) /\ n \in Nat
        /\ k.left \in Nat /\ m \in Nat
    <2> HIDE DEF k
    <2> QED BY <1>1, CallFields, CountersAreNumbers DEF s, a
  <1>3. /\ k.at = "collect" /\ call'[c].at \in {"idle", "collect"}
        /\ call'[c].sent = s /\ call'[c].answer = d /\ f \in Frame
        /\ call'[c].at = "idle" => k.left = 1
    BY CallUpdates
  <1>4. Service!Fetch
    BY HandlerSteps DEF CollectNext
  <1>5. /\ 1 \in 1 .. Len(r) /\ f = r[1]
        /\ \A x \in 1 .. Len(queue'[Processed]) :
             x + 1 \in 1 .. Len(r) /\ queue'[Processed][x] = r[x + 1]
        /\ Waiting' = Waiting /\ history' = history /\ count'.frames = m
    BY <1>1, <1>4, FetchLeaves DEF Service!Fetch
  <1>6. /\ Len(s) <= m
        /\ \A i \in 1 .. Len(s) : s[i] = b + i
        /\ \A g \in Waiting : g.born = Len(history) /\ b < g.id
        /\ \A x \in 1 .. Len(r) : r[x].born = Len(history) /\ b < r[x].id
        /\ \A i \in 1 .. n : TreatedAtOnce(a[i])
        /\ n >= 1 => Later(a[n].id)
    BY <1>3 DEF OwnFrames, Own, Fresh
  <1>7. /\ \A i \in 1 .. n : b + i <= a[i].id /\ a[i].id <= m
        /\ \A i, j \in 1 .. n : i <= j => j - i <= a[j].id - a[i].id
    BY DEF OwnFrames, Climbs
  <1>8. b = m - Len(s) /\ Base(c)' = b
    BY <1>3, <1>5 DEF Base
  <1>9. /\ f.id \in 1 .. m /\ f.born \in 1 .. Len(history) /\ f.born = Len(history) /\ b < f.id
        /\ \A x \in 1 .. Len(r) : r[x].id \in 1 .. m
        /\ \A g \in Waiting : g.id \in 1 .. m
    BY <1>1, <1>5, <1>6 DEF InService
  <1>10. f.born \in 1 .. Len(history') /\ f.applied = history'[f.born]
    <2>1. \E i \in f.born .. Len(history) : f.applied = history[i]
      BY <1>1, <1>5, EndQueues DEF AppliedOneList
    <2>2. Len(history) \in Nat
      BY <1>1, ReadyTypes
    <2>3. f.applied = history[f.born]
      BY <1>9, <2>1, <2>2
    <2>4. f.born \in 1 .. Len(history') /\ f.applied = history'[f.born]
      BY <1>5, <1>9, <2>3
    <2> QED BY <2>4
  <1>11. \A i : i = f.id => Later(i)'
    BY <1>1, <1>4, <1>9, LaterThanFetched DEF Fresh
  <1>12. /\ \A g \in Waiting' : g.born = Len(history') => f.id < g.id
         /\ \A x \in 1 .. Len(queue'[Processed]) :
              queue'[Processed][x].born = Len(history') => f.id < queue'[Processed][x].id
    <2>1. \A i : Later(i)' => /\ \A g \in Waiting' : g.born = Len(history') => i < g.id
                             /\ \A x \in 1 .. Len(queue'[Processed]) :
                                  queue'[Processed][x].born = Len(history')
                                    => i < queue'[Processed][x].id
      BY DEF Later, Fresh
    <2> HIDE DEF f
    <2> QED BY <1>11, <2>1
  <1>13. n >= 1 => a[n].id < f.id
    BY <1>1, <1>5, <1>6, <1>9 DEF Later, Fresh
  <1>14. /\ Len(d) = n + 1
         /\ \A i \in 1 .. n + 1 : d[i] = IF i = n + 1 THEN f ELSE a[i]
    BY <1>2, <1>3, Appended
  <1>15. \A i \in 1 .. n : a[i].id \in Nat
    <2>1. \A i \in 1 .. n : a[i] \in Frame
      BY <1>2, ElementOfSeq
    <2> QED BY <2>1, FrameFields
  <1>16. call'[c].at = "idle" => n + 1 = Len(s)
    BY <1>1, <1>2, <1>3 DEF CallShape
  <1> HIDE DEF k, s, a, r, b, f, d, n, m
  <1>17. b + (n + 1) <= f.id
    <2>1. CASE n = 0
      BY <1>2, <1>8, <1>9, <2>1
    <2>2. CASE n >= 1
      <3>1. n \in 1 .. n
        BY <1>2, <2>2
      <3>2. b + n <= a[n].id /\ a[n].id < f.id /\ a[n].id \in Nat
        BY <1>7, <1>13, <1>15, <2>2, <3>1
      <3> QED BY <1>2, <1>8, <1>9, <3>2
    <2> QED BY <1>2, <2>1, <2>2
  <1>18. \A i \in 1 .. n : (n + 1) - i <= f.id - a[i].id
    <2> SUFFICES ASSUME NEW i \in 1 .. n PROVE (n + 1) - i <= f.id - a[i].id
      OBVIOUS
    <2>1. n \in 1 .. n /\ n >= 1 /\ i <= n /\ i \in Nat
      BY <1>2
    <2>2. n - i <= a[n].id - a[i].id /\ a[n].id < f.id /\ a[n].id \in Nat /\ a[i].id \in Nat
      BY <1>7, <1>13, <1>15, <2>1
    <2>3. f.id \in Nat /\ n \in Nat
      BY <1>1, <1>2, <1>9
    <2> DEFINE u == f.id
               v == a[n].id
               w == a[i].id
    <2>4. n - i <= v - w /\ v < u /\ u \in Nat /\ v \in Nat /\ w \in Nat
      BY <2>2, <2>3
    <2> HIDE DEF u, v, w, n
    <2>5. (n + 1) - i <= u - w
      BY <2>1, <2>3, <2>4
    <2> QED BY <2>5 DEF u, w
  <1>19. \A i \in 1 .. Len(d) : i = n + 1 \/ i \in 1 .. n
    BY <1>2, <1>14
  <1>20. \A i \in 1 .. Len(d) : b + i <= d[i].id /\ d[i].id <= m
    <2>1. f.id <= m
      BY <1>2, <1>9
    <2> QED BY <1>7, <1>14, <1>17, <1>19, <2>1
  <1>21. \A i, j \in 1 .. Len(d) : i <= j => j - i <= d[j].id - d[i].id
    <2> SUFFICES ASSUME NEW i \in 1 .. Len(d), NEW j \in 1 .. Len(d), i <= j
                 PROVE  j - i <= d[j].id - d[i].id
      OBVIOUS
    <2>1. CASE j \in 1 .. n
      <3>1. i \in 1 .. n
        BY <1>2, <1>14, <2>1
      <3>2. d[i] = a[i] /\ d[j] = a[j]
        BY <1>2, <1>14, <2>1, <3>1
      <3> QED BY <1>7, <2>1, <3>1, <3>2
    <2>2. CASE j = n + 1 /\ i \in 1 .. n
      <3>1. d[i] = a[i] /\ d[j] = f
        BY <1>2, <1>14, <2>2
      <3> QED BY <1>18, <2>2, <3>1
    <2>3. CASE j = n + 1 /\ i = n + 1
      <3>1. d[i].id = d[j].id /\ d[i].id \in Nat
        BY <1>9, <1>14, <2>3
      <3> QED BY <1>2, <2>3, <3>1
    <2> QED BY <1>19, <2>1, <2>2, <2>3
  <1>22. Climbs(c)'
    BY <1>3, <1>5, <1>8, <1>20, <1>21 DEF Climbs
  <1>23. \A i \in 1 .. Len(d) : d[i].born \in 1 .. Len(history') /\ d[i].applied = history'[d[i].born]
    BY <1>5, <1>6, <1>10, <1>14, <1>19 DEF TreatedAtOnce
  <1>24. (\A i \in 1 .. Len(call[c].answer) : TreatedAtOnce(call[c].answer[i]))'
    BY <1>3, <1>23 DEF TreatedAtOnce
  <1>25. \A g \in Waiting' : g.born = Len(history') /\ b < g.id /\ f.id < g.id /\ g.id <= m
                              /\ g.id \in Int
    BY <1>2, <1>5, <1>6, <1>9, <1>12
  <1>26. \A x \in 1 .. Len(queue'[Processed]) :
           /\ queue'[Processed][x].born = Len(history') /\ b < queue'[Processed][x].id
           /\ f.id < queue'[Processed][x].id /\ queue'[Processed][x].id <= m
           /\ queue'[Processed][x].id \in Int
    <2> SUFFICES ASSUME NEW x \in 1 .. Len(queue'[Processed])
                 PROVE  /\ queue'[Processed][x].born = Len(history')
                        /\ b < queue'[Processed][x].id
                        /\ f.id < queue'[Processed][x].id /\ queue'[Processed][x].id <= m
                        /\ queue'[Processed][x].id \in Int
      OBVIOUS
    <2> DEFINE g == queue'[Processed][x]
    <2>1. PICK y \in 1 .. Len(r) : g = r[y]
      BY <1>5
    <2> HIDE DEF g
    <2>2. g.born = Len(history') /\ b < g.id /\ g.id \in 1 .. m
      BY <1>5, <1>6, <1>9, <2>1
    <2>3. f.id < g.id
      BY <1>12, <2>2 DEF g
    <2> QED BY <1>2, <2>2, <2>3 DEF g
  <1>27. call'[c].at = "idle" => f.id = m
    BY <1>2, <1>8, <1>9, <1>16, <1>17
  <1>28. (\A g \in Waiting : Own(g, c))'
    <2>1. \A g \in Waiting' : call'[c].at # "idle"
      BY <1>2, <1>9, <1>25, <1>27
    <2> QED BY <1>8, <1>25, <2>1 DEF Own, Fresh
  <1>29. (\A x \in 1 .. Len(queue[Processed]) : Own(queue[Processed][x], c))'
    <2>1. \A x \in 1 .. Len(queue'[Processed]) : call'[c].at # "idle"
      <3> SUFFICES ASSUME NEW x \in 1 .. Len(queue'[Processed]), f.id = m PROVE FALSE
        BY <1>27
      <3>1. f.id < queue'[Processed][x].id /\ queue'[Processed][x].id <= m
            /\ queue'[Processed][x].id \in Int
        BY <1>26
      <3> QED BY <1>2, <3>1
    <2> QED BY <1>8, <1>26, <2>1 DEF Own, Fresh
  <1>30. Later(call[c].answer[Len(call[c].answer)].id)'
    <2>1. Len(d) \in 1 .. n + 1 /\ d[Len(d)] = f
      BY <1>2, <1>14
    <2>2. call'[c].answer[Len(call'[c].answer)].id = f.id
      BY <1>3, <2>1
    <2>3. \A i : i = f.id /\ Later(i)' => Later(call[c].answer[Len(call[c].answer)].id)'
      BY <2>2 DEF Later
    <2> QED BY <1>11, <2>3
  <1>31. /\ Len(call'[c].sent) <= count'.frames
         /\ \A i \in 1 .. Len(call'[c].sent) : call'[c].sent[i] = Base(c)' + i
    BY <1>3, <1>5, <1>6, <1>8
  <1> QED BY <1>22, <1>24, <1>28, <1>29, <1>30, <1>31 DEF OwnFrames

\* A frame that is offered is the client's, and one that is fetched continues
\* its answer.
LEMMA OwnFramesInTurn ==
  ASSUME Sound, TypeOK', ServerTypeOK, CallsInStep, NEW c \in Connection, OwnFrames(c),
         \/ \E n \in BatchSize : AddFramesCall(c, n)
         \/ OfferNext(c) \/ BeginCollect(c) \/ CollectNext(c)
  PROVE  OwnFrames(c)'
  <1> DEFINE k == call[c]
             s == k.sent
             a == k.answer
             r == queue[Processed]
             b == Base(c)
  <1>1. /\ TypeOK /\ InService /\ InOrder /\ AppliedOneList
        /\ k \in CallRecord /\ CallShape(k) /\ ClientNext(c)
    BY CallSteps DEF Sound, CallsInStep, ClientNext
  <1>2. /\ s \in Seq(Nat) /\ Len(s) \in Nat /\ a \in Seq(Frame) /\ Len(a) \in Nat
        /\ k.left \in Nat /\ count.frames \in Nat
    <2> HIDE DEF k
    <2> QED BY <1>1, CallFields, CountersAreNumbers DEF s, a
  <1>3. /\ Len(s) <= count.frames
        /\ \A i \in 1 .. Len(s) : s[i] = b + i
        /\ \A g \in Waiting : g.born = Len(history) /\ b < g.id /\ k.at # "idle"
        /\ \A x \in 1 .. Len(r) : r[x].born = Len(history) /\ b < r[x].id /\ k.at # "idle"
    BY DEF OwnFrames, Own, Fresh
  <1>4. b = count.frames - Len(s) /\ Base(c)' = count'.frames - Len(call'[c].sent)
    BY DEF Base
  <1>5. CASE \E n \in BatchSize : AddFramesCall(c, n)
    <2>1. /\ k.at = "idle" /\ call'[c].sent = <<>> /\ call'[c].answer = <<>>
          /\ call'[c].at = "offer"
      BY <1>5, CallSteps, CallUpdates
    <2>2. UNCHANGED vars
      BY <1>5 DEF AddFramesCall
    <2>3. Waiting' = Waiting /\ queue' = queue /\ count' = count
      BY <1>1, <2>2, HandlerSteps DEF vars, pipelineVars, Service!serviceVars
    <2>4. Waiting' = {} /\ 1 .. Len(queue'[Processed]) = {}
      BY <1>3, <2>1, <2>3
    <2>5. Len(call'[c].sent) = 0 /\ Len(call'[c].answer) = 0
      BY <2>1, EmptySeq
    <2>6. Len(call'[c].sent) <= count'.frames
      BY <1>2, <2>3, <2>5
    <2>7. \A i \in 1 .. 0 : FALSE
      OBVIOUS
    <2> QED BY <2>1, <2>4, <2>5, <2>6, <2>7 DEF OwnFrames, Climbs
  <1>6. CASE OfferNext(c)
    <2> DEFINE e == count.frames + 1
               new == [id |-> e, born |-> Len(history)]
    <2>1. /\ k.at = "offer" /\ call'[c].at = "offer"
          /\ call'[c].sent = Append(s, e) /\ call'[c].answer = a
      BY <1>6, CallUpdates
    <2>2. Service!Accept
      BY <1>6, HandlerSteps DEF OfferNext
    <2>3. /\ count'.frames = e /\ history' = history /\ queue'[Processed] = r
          /\ \A g \in Waiting' : g \in Waiting \/ g = new
          /\ new.id = e /\ new.born = Len(history)
      BY <2>2 DEF Service!Accept
    <2>4. e \in Nat /\ Len(a) = 0
      BY <1>1, <1>2, <2>1 DEF CallShape
    <2>5. /\ Len(Append(s, e)) = Len(s) + 1
          /\ \A i \in 1 .. Len(s) + 1 : Append(s, e)[i] = IF i = Len(s) + 1 THEN e ELSE s[i]
      BY <1>2, <2>4, Appended
    <2> DEFINE t == Append(s, e)
               m == count.frames
    <2> HIDE DEF k, s, a, r, b, new, t
    <2>6. Base(c)' = b
      <3> DEFINE x == Len(s)
      <3>1. Len(call'[c].sent) = x + 1
        BY <2>1, <2>5
      <3>2. count'.frames = m + 1
        BY <2>3
      <3>3. m \in Nat /\ x \in Nat
        BY <1>2
      <3>4. b = m - x /\ Base(c)' = count'.frames - Len(call'[c].sent)
        BY <1>4 DEF b
      <3> HIDE DEF m, x
      <3> QED BY <3>1, <3>2, <3>3, <3>4
    <2>7. Len(t) <= e /\ \A i \in 1 .. Len(t) : t[i] = b + i
      <3> HIDE DEF e, m
      <3>1. m \in Nat /\ e = m + 1 /\ b = m - Len(s) /\ Len(t) = Len(s) + 1 /\ Len(s) <= m
        BY <1>2, <1>3, <1>4, <2>5 DEF e, m, t
      <3>2. \A i \in 1 .. Len(t) : i = Len(s) + 1 \/ i \in 1 .. Len(s)
        BY <1>2, <3>1
      <3>3. e = b + (Len(s) + 1) /\ Len(t) <= e
        BY <1>2, <3>1
      <3> QED BY <1>3, <2>5, <3>1, <3>2, <3>3 DEF t
    <2>8. \A g \in Waiting' : g.born = Len(history') /\ Base(c)' < g.id
      <3>1. b < e
        BY <1>2, <1>4
      <3> QED BY <1>3, <2>3, <2>6, <3>1
    <2>9. \A x \in 1 .. Len(queue'[Processed]) :
            queue'[Processed][x].born = Len(history') /\ Base(c)' < queue'[Processed][x].id
      BY <1>3, <2>3, <2>6
    <2>10. \A i \in 1 .. Len(call'[c].answer) : FALSE
      BY <2>1, <2>4
    <2>11. (\A g \in Waiting : Own(g, c))' /\ (\A x \in 1 .. Len(queue[Processed]) : Own(queue[Processed][x], c))'
      BY <2>1, <2>8, <2>9 DEF Own, Fresh
    <2>12. /\ Len(call'[c].sent) <= count'.frames
           /\ \A i \in 1 .. Len(call'[c].sent) : call'[c].sent[i] = Base(c)' + i
      BY <2>1, <2>3, <2>6, <2>7 DEF t
    <2> QED BY <2>1, <2>10, <2>11, <2>12 DEF OwnFrames, Climbs
  <1>7. CASE BeginCollect(c)
    <2>1. /\ k.at = "offer" /\ call'[c].at = "collect"
          /\ call'[c].sent = s /\ call'[c].answer = a
      BY <1>7, CallUpdates
    <2>2. UNCHANGED vars
      BY <1>7 DEF BeginCollect
    <2>3. Waiting' = Waiting /\ queue' = queue /\ count' = count /\ history' = history
      BY <1>1, <2>2, HandlerSteps DEF vars, pipelineVars, Service!serviceVars
    <2>4. Len(a) = 0
      BY <1>1, <1>2, <2>1 DEF CallShape
    <2>5. Base(c)' = b
      BY <1>4, <2>1, <2>3
    <2>6. (\A g \in Waiting : Own(g, c))' /\ (\A x \in 1 .. Len(queue[Processed]) : Own(queue[Processed][x], c))'
      BY <1>3, <2>1, <2>3, <2>5 DEF Own, Fresh
    <2>7. /\ Len(call'[c].sent) <= count'.frames
          /\ \A i \in 1 .. Len(call'[c].sent) : call'[c].sent[i] = Base(c)' + i
      BY <1>3, <2>1, <2>3, <2>5
    <2>8. \A i \in 1 .. Len(call'[c].answer) : FALSE
      BY <2>1, <2>4
    <2>9. ~(Len(call'[c].answer) >= 1)
      BY <2>1, <2>4
    <2> QED BY <2>6, <2>7, <2>8, <2>9 DEF OwnFrames, Climbs
  <1>8. CASE CollectNext(c)
    BY <1>8, OwnFramesFetched
  <1> QED BY <1>5, <1>6, <1>7, <1>8

LEMMA OwnFramesStep ==
  ASSUME Sound, TypeOK', ServerTypeOK, CallsInStep, NEW c \in Connection, OwnFrames(c),
         ClientNext(c)
  PROVE  OwnFrames(c)'
  BY OwnFramesBetweenTurns, OwnFramesInTurn DEF ClientNext

LEMMA OwnFramesFirst ==
  ASSUME ServerInit, NEW c \in Connection
  PROVE  OwnFrames(c)
  <1>1. Waiting = {} /\ queue[Processed] = <<>> /\ count.frames = 0
    BY InitService DEF ServerInit, Service!Init
  <1>2. call[c].at = "idle" /\ call[c].sent = <<>> /\ call[c].answer = <<>>
    BY DEF ServerInit, NoCall
  <1>3. Len(call[c].sent) = 0 /\ Len(call[c].answer) = 0 /\ 1 .. Len(queue[Processed]) = {}
    BY <1>1, <1>2, EmptySeq
  <1>4. \A i \in 1 .. 0 : FALSE
    OBVIOUS
  <1> QED BY <1>1, <1>2, <1>3, <1>4 DEF OwnFrames, Climbs

\* A client whose frames are its own has got back what it sent.
LEMMA OwnFramesAnswer ==
  ASSUME ServerTypeOK, CallsInStep, NEW c \in Connection, OwnFrames(c), call[c].at = "idle"
  PROVE  /\ [i \in 1 .. Len(call[c].answer) |-> call[c].answer[i].id] = call[c].sent
         /\ \A i \in 1 .. Len(call[c].answer) :
              call[c].answer[i].applied = history[call[c].answer[i].born]
  <1>1. call[c] \in CallRecord /\ Len(call[c].answer) = Len(call[c].sent)
    BY CallSteps DEF CallsInStep, CallShape
  <1>2. call[c].sent \in Seq(Nat)
    BY <1>1, CallFields
  <1>3. call[c].sent = [i \in 1 .. Len(call[c].sent) |-> call[c].sent[i]]
    BY <1>2
  <1>4. \A i \in 1 .. Len(call[c].sent) : call[c].answer[i].id = call[c].sent[i]
    BY <1>1, AnswerIsSent
  <1> QED BY <1>1, <1>3, <1>4 DEF OwnFrames, TreatedAtOnce

\* A client that has the server for itself gets back its own frames, each one,
\* in the order it sent them, treated with the effects it had asked for, however
\* many frames it sends at a time and however often it edits in between.
THEOREM OneClientGetsItsFrames ==
  ASSUME NEW c, Connection = {c}
  PROVE  ServerSpec => []AnswersOwnFrames
  <1>1. ServerInit => OwnFrames(c)
    BY OwnFramesFirst
  <1>2. [ServerNext]_serverVars => ClientNext(c)
    BY DEF ServerNext, Request, Handle, Construct, AddEffectCall, ClearEffectsCall, serverVars,
           ClientNext
  <1>3. /\ Sound /\ TypeOK /\ ServerTypeOK /\ CallsInStep /\ TypeOK' /\ OwnFrames(c)
        /\ [ServerNext]_serverVars
        => OwnFrames(c)'
    BY <1>2, OwnFramesStep
  <1>4. ServerTypeOK /\ CallsInStep /\ OwnFrames(c) => AnswersOwnFrames
    BY OwnFramesAnswer DEF AnswersOwnFrames
  <1> QED BY <1>1, <1>3, <1>4, ServerFacts, PTL DEF ServerSpec

-----------------------------------------------------------------------------
(***************************************************************************)
(* Sums.  What the phone has to count is spread over the calls and answers *)
(* on their way, and Total adds that up by recursion.  Its properties are  *)
(* proved by induction on the length.                                      *)
(***************************************************************************)

\* A set of naturals with 0 and every successor has them all.
LEMMA Induct ==
  ASSUME NEW S \in SUBSET Nat, 0 \in S, \A n \in S : n + 1 \in S
  PROVE  S = Nat
  <1> SUFFICES ASSUME Nat \ S # {} PROVE FALSE
    OBVIOUS
  <1>1. IsWellFoundedOn(OpToRel(<, Nat), Nat)
    BY NatLessThanWellFounded
  <1>2. PICK x \in Nat \ S : \A y \in Nat \ S : ~ (<<y, x>> \in OpToRel(<, Nat))
    BY <1>1, WFMin
  <1>3. x \in Nat /\ x \notin S /\ x # 0
    OBVIOUS
  <1>5. x - 1 \in Nat /\ x - 1 < x /\ x = (x - 1) + 1
    BY <1>3
  <1>4. x - 1 \in S
    BY <1>2, <1>5 DEF OpToRel
  <1> QED BY <1>3, <1>4, <1>5

\* f holds the sums of the first i elements of s.
SumsOf(f, s) == /\ f \in [0 .. Len(s) -> Int] /\ f[0] = 0
                /\ \A i \in 1 .. Len(s) : f[i] = f[i - 1] + s[i]

\* Every sequence of integers has such sums, ...
LEMMA SumsExist ==
  ASSUME NEW s \in Seq(Int)
  PROVE  \E f : SumsOf(f, s)
  <1> DEFINE S == {n \in Nat : n <= Len(s) => 
                    \E f \in [0 .. n -> Int] : f[0] = 0 /\ \A i \in 1 .. n : f[i] = f[i-1] + s[i]}
  <1>0. Len(s) \in Nat /\ \A i \in 1 .. Len(s) : s[i] \in Int
    OBVIOUS
  <1>1. 0 \in S
    <2> DEFINE g == [i \in 0 .. 0 |-> 0]
    <2>1. g \in [0 .. 0 -> Int] /\ g[0] = 0 /\ \A i \in 1 .. 0 : g[i] = g[i-1] + s[i]
      OBVIOUS
    <2> QED BY <2>1
  <1>2. ASSUME NEW n \in S PROVE n + 1 \in S
    <2>1. n \in Nat /\ n + 1 \in Nat
      BY <1>2
    <2>2. CASE n + 1 <= Len(s)
      <3>1. PICK f \in [0 .. n -> Int] : f[0] = 0 /\ \A i \in 1 .. n : f[i] = f[i-1] + s[i]
        <4>1. n <= Len(s)
          BY <1>0, <2>1, <2>2
        <4> QED BY <1>2, <4>1
      <3> DEFINE g == [i \in 0 .. n + 1 |-> IF i = n + 1 THEN f[n] + s[n + 1] ELSE f[i]]
      <3>2. g \in [0 .. n + 1 -> Int]
        BY <1>0, <2>1, <2>2, <3>1
      <3>3. g[0] = 0
        BY <2>1, <3>1
      <3>4. \A i \in 1 .. n + 1 : g[i] = g[i-1] + s[i]
        <4> SUFFICES ASSUME NEW i \in 1 .. n + 1 PROVE g[i] = g[i-1] + s[i]
          OBVIOUS
        <4>1. i \in 0 .. n + 1 /\ i - 1 \in 0 .. n + 1 /\ i - 1 # n + 1 /\ i - 1 \in 0 .. n
              /\ (i = n + 1 \/ i \in 1 .. n)
          BY <2>1
        <4>2. g[i - 1] = f[i - 1]
          BY <4>1
        <4>3. CASE i = n + 1
          <5>1. i - 1 = n
            BY <2>1, <4>3
          <5> QED BY <4>1, <4>2, <4>3, <5>1
        <4>4. CASE i \in 1 .. n
          <5>1. i # n + 1
            BY <2>1, <4>4
          <5>2. g[i] = f[i]
            BY <4>1, <5>1
          <5> QED BY <3>1, <4>2, <4>4, <5>2
        <4> QED BY <4>1, <4>3, <4>4
      <3> HIDE DEF g
      <3> QED BY <2>1, <3>2, <3>3, <3>4
    <2>3. CASE ~(n + 1 <= Len(s))
      BY <2>1, <2>3
    <2> QED BY <2>2, <2>3
  <1>3. S = Nat
    <2> HIDE DEF S
    <2>1. S \in SUBSET Nat
      BY DEF S
    <2> QED BY <1>1, <1>2, <2>1, Induct
  <1>4. Len(s) \in S
    BY <1>0, <1>3
  <1> QED BY <1>0, <1>4 DEF SumsOf

\* ... the last of which is its total.
LEMMA TotalIs ==
  ASSUME NEW s \in Seq(Int), NEW f, SumsOf(f, s)
  PROVE  Total(s) = f[Len(s)]
  <1> DEFINE u == CHOOSE u : u = [i \in 0 .. Len(s) |-> IF i = 0 THEN 0 ELSE u[i - 1] + s[i]]
  <1>0. Len(s) \in Nat /\ \A i \in 1 .. Len(s) : s[i] \in Int
    OBVIOUS
  <1>1. f = [i \in 0 .. Len(s) |-> IF i = 0 THEN 0 ELSE f[i - 1] + s[i]]
    BY <1>0 DEF SumsOf
  <1>2. u = [i \in 0 .. Len(s) |-> IF i = 0 THEN 0 ELSE u[i - 1] + s[i]]
    BY <1>1
  <1>3. Total(s) = u[Len(s)]
    BY DEF Total
  <1> HIDE DEF u
  <1> DEFINE S == {m \in Nat : m <= Len(s) => f[m] = u[m]}
  <1>4. 0 \in S
    BY <1>0, <1>2 DEF SumsOf
  <1>5. ASSUME NEW m \in S PROVE m + 1 \in S
    <2> SUFFICES ASSUME m + 1 <= Len(s) PROVE f[m + 1] = u[m + 1]
      OBVIOUS
    <2>1. f[m] = u[m]
      BY <1>0
    <2>2. u[m + 1] = u[m] + s[m + 1]
      <3>1. m + 1 \in 0 .. Len(s) /\ m + 1 # 0 /\ (m + 1) - 1 = m
        BY <1>0
      <3> QED BY <1>2, <3>1
    <2> QED BY <1>0, <2>1, <2>2 DEF SumsOf
  <1>6. S = Nat
    <2> HIDE DEF S
    <2>1. S \in SUBSET Nat
      BY DEF S
    <2> QED BY <1>4, <1>5, <2>1, Induct
  <1> QED BY <1>0, <1>3, <1>6

LEMMA TotalType ==
  ASSUME NEW s \in Seq(Int)
  PROVE  \E f : SumsOf(f, s) /\ Total(s) = f[Len(s)] /\ Total(s) \in Int
  <1>1. PICK f : SumsOf(f, s)
    BY SumsExist
  <1>2. Len(s) \in 0 .. Len(s)
    BY LenProperties
  <1> QED BY <1>1, <1>2, TotalIs DEF SumsOf

\* The totals of the sequences that calls and answers queue up in.
LEMMA TotalEmpty == Total(<<>>) = 0
  <1> DEFINE f == [i \in 0 .. 0 |-> 0]
  <1>1. <<>> \in Seq(Int) /\ Len(<<>>) = 0
    BY EmptySeq
  <1>2. SumsOf(f, <<>>) /\ f[0] = 0
    BY <1>1 DEF SumsOf
  <1> HIDE DEF f
  <1> QED BY <1>1, <1>2, TotalIs

LEMMA TotalAppend ==
  ASSUME NEW s \in Seq(Int), NEW x \in Int
  PROVE  Total(Append(s, x)) = Total(s) + x
  <1> DEFINE n == Len(s)
             t == Append(s, x)
  <1>1. /\ t \in Seq(Int) /\ n \in Nat /\ Len(t) = n + 1
        /\ \A i \in 1 .. n + 1 : t[i] = IF i = n + 1 THEN x ELSE s[i]
    BY AppendProperties, LenProperties
  <1>2. PICK f : SumsOf(f, s) /\ Total(s) = f[n]
    BY TotalType
  <1> DEFINE g == [i \in 0 .. n + 1 |-> IF i = n + 1 THEN f[n] + x ELSE f[i]]
  <1>3. f \in [0 .. n -> Int] /\ f[0] = 0 /\ \A i \in 1 .. n : f[i] = f[i - 1] + s[i]
    BY <1>2 DEF SumsOf
  <1> HIDE DEF n, t
  <1>4. g \in [0 .. n + 1 -> Int] /\ g[0] = 0 /\ g[n + 1] = f[n] + x
    BY <1>1, <1>3
  <1>5. ASSUME NEW i \in 1 .. n + 1 PROVE g[i] = g[i - 1] + t[i]
    <2>1. /\ i \in 0 .. n + 1 /\ i - 1 \in 0 .. n + 1 /\ i - 1 # n + 1
          /\ \/ i = n + 1 /\ i - 1 = n
             \/ i \in 1 .. n /\ i # n + 1
      BY <1>1
    <2>2. g[i - 1] = f[i - 1]
      BY <2>1
    <2>3. CASE i = n + 1 /\ i - 1 = n
      BY <1>1, <1>4, <2>2, <2>3
    <2>4. CASE i \in 1 .. n /\ i # n + 1
      BY <1>1, <1>3, <2>1, <2>2, <2>4
    <2> QED BY <2>1, <2>3, <2>4
  <1> HIDE DEF g
  <1>6. SumsOf(g, t)
    BY <1>1, <1>4, <1>5 DEF SumsOf
  <1>7. Total(t) = g[n + 1]
    BY <1>1, <1>6, TotalIs
  <1> QED BY <1>2, <1>4, <1>7 DEF t

LEMMA TotalTail ==
  ASSUME NEW s \in Seq(Int), s # <<>>
  PROVE  Total(Tail(s)) = Total(s) - s[1]
  <1> DEFINE n == Len(s)
             t == Tail(s)
  <1>1. /\ t \in Seq(Int) /\ n \in Nat /\ n # 0 /\ Len(t) = n - 1
        /\ \A i \in 1 .. n - 1 : t[i] = s[i + 1]
    BY HeadTailProperties, LenProperties, EmptySeq
  <1>2. PICK f : SumsOf(f, s) /\ Total(s) = f[n]
    BY TotalType
  <1>3. f \in [0 .. n -> Int] /\ f[0] = 0 /\ \A i \in 1 .. n : f[i] = f[i - 1] + s[i]
    BY <1>2 DEF SumsOf
  <1>4. \A i \in 1 .. n : s[i] \in Int
    OBVIOUS
  <1> DEFINE g == [i \in 0 .. n - 1 |-> f[i + 1] - s[1]]
  <1> HIDE DEF n, t
  <1>5. s[1] \in Int /\ f[1] = s[1]
    <2>1. 1 \in 1 .. n
      BY <1>1
    <2>2. f[1] = f[0] + s[1]
      BY <1>3, <2>1
    <2> QED BY <1>3, <1>4, <2>1, <2>2
  <1>6. g \in [0 .. n - 1 -> Int]
    <2>1. \A i \in 0 .. n - 1 : i + 1 \in 0 .. n
      BY <1>1
    <2> QED BY <1>3, <1>5, <2>1
  <1>7. g[0] = 0 /\ g[n - 1] = f[n] - s[1]
    <2>1. 0 \in 0 .. n - 1 /\ n - 1 \in 0 .. n - 1 /\ (n - 1) + 1 = n /\ 0 + 1 = 1
      BY <1>1
    <2> QED BY <1>5, <2>1
  <1>8. ASSUME NEW i \in 1 .. n - 1 PROVE g[i] = g[i - 1] + t[i]
    <2>1. /\ i \in 0 .. n - 1 /\ i - 1 \in 0 .. n - 1 /\ (i - 1) + 1 = i /\ (i + 1) - 1 = i
          /\ i + 1 \in 1 .. n /\ i \in 0 .. n
      BY <1>1
    <2>2. g[i] = f[i + 1] - s[1] /\ g[i - 1] = f[i] - s[1]
      BY <2>1
    <2>3. f[i + 1] = f[i] + s[i + 1] /\ f[i] \in Int /\ s[i + 1] \in Int
      BY <1>3, <1>4, <2>1
    <2>4. t[i] = s[i + 1]
      BY <1>1
    <2> HIDE DEF g
    <2> QED BY <1>5, <2>2, <2>3, <2>4
  <1> HIDE DEF g
  <1>9. SumsOf(g, t)
    BY <1>1, <1>6, <1>7, <1>8 DEF SumsOf
  <1>10. Total(t) = g[n - 1]
    BY <1>1, <1>9, TotalIs
  <1> QED BY <1>2, <1>7, <1>10 DEF t

LEMMA TotalFirst ==
  ASSUME NEW s \in Seq(Int), s # <<>>, NEW t \in Seq(Int), Len(t) = Len(s),
         \A i \in 2 .. Len(s) : t[i] = s[i]
  PROVE  Total(t) = Total(s) - s[1] + t[1]
  <1>0. t # <<>> /\ Len(s) \in Nat \ {0}
    BY LenProperties, EmptySeq
  <1>1. Total(Tail(s)) = Total(s) - s[1] /\ Total(Tail(t)) = Total(t) - t[1]
    BY <1>0, TotalTail
  <1>2. Tail(t) = Tail(s)
    <2>1. /\ Tail(s) \in Seq(Int) /\ Len(Tail(s)) = Len(s) - 1
          /\ \A i \in 1 .. Len(s) - 1 : Tail(s)[i] = s[i + 1]
          /\ Tail(t) \in Seq(Int) /\ Len(Tail(t)) = Len(s) - 1
          /\ \A i \in 1 .. Len(s) - 1 : Tail(t)[i] = t[i + 1]
      BY <1>0, HeadTailProperties, LenProperties
    <2>2. \A i \in 1 .. Len(s) - 1 : i + 1 \in 2 .. Len(s)
      BY <1>0
    <2> QED BY <2>1, <2>2, SeqEqual
  <1>3. Total(s) \in Int /\ Total(t) \in Int /\ s[1] \in Int /\ t[1] \in Int
    <2>1. 1 \in 1 .. Len(s) /\ 1 \in 1 .. Len(t)
      BY <1>0
    <2> QED BY <2>1, TotalType
  <1>4. Total(s) - s[1] = Total(t) - t[1]
    BY <1>1, <1>2
  <1> QED BY <1>3, <1>4

\* What is cut off a sequence of naturals makes its sum no greater.
LEMMA TotalFront ==
  ASSUME NEW s \in Seq(Nat), NEW t \in Seq(Nat), Len(t) <= Len(s),
         \A i \in 1 .. Len(t) : t[i] = s[i]
  PROVE  0 <= Total(t) /\ Total(t) <= Total(s)
  <1>1. s \in Seq(Int) /\ t \in Seq(Int) /\ Len(s) \in Nat /\ Len(t) \in Nat
    BY LenProperties
  <1>2. PICK f : SumsOf(f, s) /\ Total(s) = f[Len(s)]
    BY <1>1, TotalType
  <1> DEFINE m == Len(t)
             g == [i \in 0 .. m |-> f[i]]
  <1>3. f \in [0 .. Len(s) -> Int] /\ f[0] = 0 /\ \A i \in 1 .. Len(s) : f[i] = f[i - 1] + s[i]
    BY <1>2 DEF SumsOf
  <1>4. \A i \in 1 .. Len(s) : s[i] \in Nat
    OBVIOUS
  <1>5. SumsOf(g, t)
    <2>1. \A i \in 1 .. m : i \in 0 .. m /\ i - 1 \in 0 .. m /\ i \in 1 .. Len(s)
      BY <1>1
    <2>2. \A i \in 0 .. m : i \in 0 .. Len(s)
      BY <1>1
    <2>3. 0 \in 0 .. m
      BY <1>1
    <2> QED BY <1>3, <2>1, <2>2, <2>3 DEF SumsOf
  <1>6. Total(t) = f[m]
    <2>1. g[m] = f[m]
      BY <1>1
    <2> QED BY <1>1, <1>5, <2>1, TotalIs
  <1> DEFINE S == {j \in Nat : \A i \in 0 .. Len(s) : i + j <= Len(s) => f[i] <= f[i + j]}
  <1>7. 0 \in S
    <2>1. \A i \in 0 .. Len(s) : i + 0 = i
      OBVIOUS
    <2>2. \A i \in 0 .. Len(s) : f[i] \in Int
      BY <1>3
    <2>3. \A x \in Int : x <= x
      OBVIOUS
    <2> QED BY <2>1, <2>2, <2>3
  <1>8. ASSUME NEW j \in S PROVE j + 1 \in S
    <2>1. j \in Nat /\ j + 1 \in Nat
      BY <1>8
    <2>2. ASSUME NEW i \in 0 .. Len(s), i + (j + 1) <= Len(s) PROVE f[i] <= f[i + (j + 1)]
      <3>1. /\ i + j <= Len(s) /\ i + (j + 1) \in 1 .. Len(s) /\ (i + (j + 1)) - 1 = i + j
            /\ i + j \in 0 .. Len(s)
        BY <1>1, <2>1, <2>2
      <3>2. f[i] <= f[i + j]
        BY <1>8, <3>1
      <3>3. f[i + (j + 1)] = f[i + j] + s[i + (j + 1)]
        BY <1>3, <3>1
      <3>4. f[i] \in Int /\ f[i + j] \in Int /\ s[i + (j + 1)] \in Nat
        BY <1>3, <1>4, <3>1
      <3> QED BY <3>2, <3>3, <3>4
    <2> QED BY <2>1, <2>2
  <1>9. S = Nat
    <2> HIDE DEF S
    <2>1. S \in SUBSET Nat
      BY DEF S
    <2> QED BY <1>7, <1>8, <2>1, Induct
  <1>10. ASSUME NEW i \in 0 .. Len(s), NEW k \in 0 .. Len(s), i <= k PROVE f[i] <= f[k]
    <2>1. k - i \in Nat /\ i + (k - i) = k
      BY <1>1, <1>10
    <2>2. i + (k - i) <= Len(s)
      BY <1>1, <2>1
    <2> QED BY <1>9, <2>1, <2>2
  <1> HIDE DEF S
  <1>11. 0 \in 0 .. Len(s) /\ m \in 0 .. Len(s) /\ Len(s) \in 0 .. Len(s) /\ 0 <= m
    BY <1>1
  <1> QED BY <1>2, <1>3, <1>6, <1>10, <1>11

-----------------------------------------------------------------------------
(***************************************************************************)
(* The phone.                                                              *)
(***************************************************************************)

\* The calls a phone makes.
Asked == {FramesCall(K + 1), EditCall("add"), EditCall("clear")}

\* The phone asks for nothing else, over a link that is up, and as long as no
\* link was lost its buffer is sent when it is full.
Asking ==
  /\ link \in {"connecting", "up", "down", "crashed"}
  /\ requests \in Seq(Asked) /\ (requests # <<>> => link = "up")
  /\ buffer \in Nat /\ (link \in {"connecting", "up"} => buffer <= K)

\* The fields of a call.
LEMMA AskedFields ==
  ASSUME NEW r \in Asked
  PROVE  /\ r.op \in {"frames", "add", "clear"}
         /\ r.n = IF r.op = "frames" THEN K + 1 ELSE 0
  <1>1. /\ FramesCall(K + 1).op = "frames" /\ FramesCall(K + 1).n = K + 1
        /\ \A op : EditCall(op).op = op /\ EditCall(op).n = 0
    BY DEF FramesCall, EditCall
  <1> QED BY <1>1 DEF Asked

LEMMA PhoneKeepsAsking ==
  ASSUME Asking, [OffloadNext]_offloadVars
  PROVE  Asking'
  <1>1. /\ K \in Nat /\ requests \in Seq(Asked)
        /\ link \in {"connecting", "up", "down", "crashed"}
        /\ buffer \in Nat /\ (link \in {"connecting", "up"} => buffer <= K)
        /\ requests # <<>> => link = "up"
    BY PhoneAssumption DEF Asking
  <1>2. ASSUME NEW e \in Asked, requests' = Append(requests, e) PROVE requests' \in Seq(Asked)
    BY <1>1, <1>2, Appended
  <1>3. CASE UNCHANGED <<link, requests, buffer>>
    BY <1>3 DEF Asking
  <1>4. CASE Connect
    BY <1>1, <1>4 DEF Connect, Asking
  <1>5. CASE Disconnect
    BY <1>1, <1>5, EmptySeq DEF Disconnect, Asking
  <1>6. ASSUME NEW op \in {"add", "clear"}, UserEdit(op) PROVE Asking'
    <2>1. CASE link = "up" /\ requests' = Append(requests, EditCall(op)) /\ UNCHANGED link
      <3>1. requests' \in Seq(Asked)
        BY <1>2, <2>1 DEF Asked
      <3> QED BY <1>1, <1>6, <2>1, <3>1 DEF UserEdit, Asking
    <2>2. CASE /\ link \in {"connecting", "down"} /\ UNCHANGED requests
               /\ link' = IF link = "connecting" /\ op = "clear" THEN "crashed" ELSE link
      BY <1>1, <1>6, <2>2 DEF UserEdit, Asking
    <2> QED BY <1>6, <2>1, <2>2 DEF UserEdit
  <1>7. CASE PhoneAddFrame
    <2>1. CASE buffer + 1 > K /\ link = "up"
      <3>1. requests' = Append(requests, FramesCall(buffer + 1)) /\ buffer' = 0 /\ link' = link
        BY <1>1, <1>7, <2>1 DEF PhoneAddFrame
      <3>2. buffer + 1 = K + 1
        BY <1>1, <2>1
      <3>3. requests' \in Seq(Asked)
        BY <1>2, <3>1, <3>2 DEF Asked
      <3> QED BY <1>1, <2>1, <3>1, <3>3 DEF Asking
    <2>2. CASE buffer + 1 <= K \/ link # "up"
      <3>1. /\ buffer' = buffer + 1 /\ requests' = requests
            /\ link' = IF buffer + 1 > K /\ link = "connecting" THEN "crashed" ELSE link
        BY <1>1, <1>7, <2>2 DEF PhoneAddFrame
      <3> QED BY <1>1, <2>2, <3>1 DEF Asking
    <2> QED BY <1>7, <2>1, <2>2 DEF PhoneAddFrame
  <1>8. CASE ServeEdit \/ ServeFrames
    <2>1. requests # <<>> /\ requests' = Tail(requests) /\ UNCHANGED <<link, buffer>>
      BY <1>8 DEF ServeEdit, ServeFrames
    <2>2. requests' \in Seq(Asked)
      BY <1>1, <2>1, HeadTailProperties
    <2> QED BY <1>1, <2>1, <2>2 DEF Asking
  <1>9. CASE \/ PhoneShowOriginal \/ PhoneShowProcessed \/ CallBack \/ ServeOn
             \/ (Construct /\ UNCHANGED phoneVars) \/ (Work /\ UNCHANGED <<call, phoneVars>>)
             \/ UNCHANGED offloadVars
    BY <1>3, <1>9 DEF PhoneShowOriginal, PhoneShowProcessed, CallBack, HandleResult, EditReturns,
                      ServeOn, phoneVars, offloadVars
  <1> QED BY <1>4, <1>5, <1>6, <1>7, <1>8, <1>9 DEF OffloadNext, CameraThread, Serve

\* What the phone's steps are for the server.
LEMMA PhoneStepIsServerStep ==
  ASSUME Asking, [OffloadNext]_offloadVars
  PROVE  [ServerNext]_serverVars /\ ClientNext(Phone)
  <1>1. CASE ServeFrames
    <2>1. requests # <<>> /\ Head(requests).op = "frames" /\ AddFramesCall(Phone, Head(requests).n)
      BY <1>1 DEF ServeFrames
    <2>2. Head(requests) \in Asked
      BY <2>1, HeadTailProperties DEF Asking
    <2>3. Head(requests).n \in BatchSize
      BY <2>1, <2>2, AskedFields, PhoneAssumption
    <2> QED BY <2>1, <2>3, PhoneAssumption DEF ServerNext, Request, ClientNext
  <1>2. CASE ServeEdit
    BY <1>2, PhoneAssumption
    DEF ServeEdit, ServerNext, Request, ClientNext, AddEffectCall, ClearEffectsCall
  <1>3. CASE ServeOn
    BY <1>3, PhoneAssumption DEF ServeOn, ServerNext, Handle, ClientNext
  <1>4. CASE (Construct /\ UNCHANGED phoneVars) \/ (Work /\ UNCHANGED <<call, phoneVars>>)
    BY <1>4 DEF ServerNext, ClientNext, Construct
  <1>5. CASE UNCHANGED serverVars
    BY <1>5 DEF serverVars, ClientNext
  <1>6. CASE Connect \/ Disconnect \/ CameraThread \/ CallBack
             \/ \E op \in {"add", "clear"} : UserEdit(op)
    BY <1>5, <1>6 DEF Connect, Disconnect, CameraThread, PhoneAddFrame, PhoneShowOriginal,
                      PhoneShowProcessed, CallBack, HandleResult, EditReturns, UserEdit
  <1> QED BY <1>1, <1>2, <1>3, <1>4, <1>5, <1>6 DEF OffloadNext, Serve, offloadVars

\* The phone is one of the clients of the server, and the only one here.
THEOREM PhoneDrivesServer == OffloadSpec => ServerSpec /\ []OwnFrames(Phone)
  <1>1. OffloadInit => ServerInit /\ Asking /\ OwnFrames(Phone)
    BY OwnFramesFirst, EmptySeq, PhoneAssumption DEF OffloadInit, Asking
  <1>2. Asking /\ [OffloadNext]_offloadVars => Asking'
    BY PhoneKeepsAsking
  <1>3. Asking /\ [OffloadNext]_offloadVars => [ServerNext]_serverVars
    BY PhoneStepIsServerStep
  <1>4. OffloadSpec => ServerSpec
    BY <1>1, <1>2, <1>3, PTL DEF OffloadSpec, ServerSpec
  <1>5. /\ Sound /\ TypeOK /\ ServerTypeOK /\ CallsInStep /\ TypeOK' /\ OwnFrames(Phone)
        /\ Asking /\ [OffloadNext]_offloadVars
        => OwnFrames(Phone)'
    BY PhoneStepIsServerStep, OwnFramesStep, PhoneAssumption
  <1> QED BY <1>1, <1>2, <1>4, <1>5, ServerFacts, PTL DEF OffloadSpec

-----------------------------------------------------------------------------
\* Taking the first of what queues up, and cutting off its end.
LEMMA TakenOff ==
  ASSUME NEW S, NEW s \in Seq(S), s # <<>>
  PROVE  /\ Len(s) \in Nat \ {0} /\ 1 \in 1 .. Len(s) /\ Head(s) = s[1] /\ s[1] \in S
         /\ Tail(s) \in Seq(S) /\ Len(Tail(s)) = Len(s) - 1
         /\ \A i \in 1 .. Len(Tail(s)) : i + 1 \in 2 .. Len(s) /\ Tail(s)[i] = s[i + 1]
  <1>1. /\ Len(s) \in Nat /\ Len(s) # 0 /\ Head(s) = s[1]
        /\ Tail(s) \in Seq(S) /\ Len(Tail(s)) = Len(s) - 1
        /\ \A i \in 1 .. Len(Tail(s)) : Tail(s)[i] = s[i + 1]
    BY HeadTailProperties, LenProperties, EmptySeq
  <1>2. 1 \in 1 .. Len(s) /\ \A i \in 1 .. Len(Tail(s)) : i + 1 \in 2 .. Len(s)
    BY <1>1
  <1> QED BY <1>1, <1>2, ElementOfSeq

LEMMA CutOff ==
  ASSUME NEW S, NEW s \in Seq(S), NEW k \in 0 .. Len(s)
  PROVE  /\ SubSeq(s, 1, k) \in Seq(S) /\ Len(SubSeq(s, 1, k)) = k /\ k <= Len(s)
         /\ \A i \in 1 .. k : i \in 1 .. Len(s) /\ SubSeq(s, 1, k)[i] = s[i]
  <1>1. Len(s) \in Nat /\ k \in Nat /\ k <= Len(s)
    BY LenProperties
  <1> QED BY <1>1, SubSeqProperties

\* An answer on its way.
ReplyType == [op : Op, frames : Seq(Frame)]

LEMMA ReplyFields ==
  ASSUME NEW r \in ReplyType
  PROVE  r.op \in Op /\ r.frames \in Seq(Frame) /\ Len(r.frames) \in Nat
  BY LenProperties DEF ReplyType

LEMMA AnswerType ==
  ASSUME NEW op \in Op, NEW fs \in Seq(Frame)
  PROVE  Answer(op, fs) \in ReplyType /\ Answer(op, fs).frames = fs /\ Answer(op, fs).op = op
  BY DEF Answer, ReplyType

\* An answer of frames is on its way when the handler has its last frame.
Answering == ServeOn /\ CollectNext(Phone) /\ call'[Phone].at = "idle" /\ link = "up"

\* What the steps do to the answers on their way.
LEMMA RepliesSteps ==
  ASSUME Asking, replies \in Seq(ReplyType), ServerTypeOK, ServerTypeOK', [OffloadNext]_offloadVars
  PROVE  /\ replies' \in Seq(ReplyType) /\ Len(replies) \in Nat
         /\ Disconnect => /\ Len(replies') <= Len(replies)
                          /\ \A i \in 1 .. Len(replies') :
                               i \in 1 .. Len(replies) /\ replies'[i] = replies[i]
         /\ HandleResult \/ EditReturns =>
              /\ 1 \in 1 .. Len(replies) /\ Head(replies) = replies[1] /\ replies[1] \in ReplyType
         /\ EditReturns \/ (HandleResult /\ Len(replies[1].frames) = 1) =>
              /\ replies' = Tail(replies) /\ Len(replies') = Len(replies) - 1
              /\ \A i \in 1 .. Len(replies') : i + 1 \in 2 .. Len(replies) /\ replies'[i] = replies[i + 1]
         /\ HandleResult /\ Len(replies[1].frames) # 1 =>
              /\ Len(replies') = Len(replies) /\ replies'[1].frames = Tail(replies[1].frames)
              /\ \A i \in 2 .. Len(replies) : replies'[i] = replies[i]
         /\ ServeEdit \/ Answering =>
              /\ replies' = Append(replies, replies'[Len(replies')])
              /\ Len(replies') = Len(replies) + 1
              /\ \A i \in 1 .. Len(replies) : replies'[i] = replies[i]
         /\ ServeEdit => replies'[Len(replies')].frames = <<>> /\ link = "up"
         /\ Answering => replies'[Len(replies')].frames = call'[Phone].answer
         /\ replies' = replies \/ Disconnect \/ HandleResult \/ EditReturns \/ ServeEdit
              \/ Answering
  <1>1. Len(replies) \in Nat /\ Phone \in Connection /\ call'[Phone].answer \in Seq(Frame)
    BY LenProperties, PhoneAssumption DEF ServerTypeOK
  <1>2. ASSUME Disconnect
        PROVE  /\ replies' \in Seq(ReplyType) /\ Len(replies') <= Len(replies)
               /\ \A i \in 1 .. Len(replies') : i \in 1 .. Len(replies) /\ replies'[i] = replies[i]
    <2>1. Begun \in Nat
      <3>1. IsFiniteSet(1 .. Len(replies))
        BY <1>1, FS_Interval
      <3> QED BY <3>1, FS_Subset, FS_CardinalityType DEF Begun
    <2>2. PICK k \in Begun .. Len(replies) : replies' = SubSeq(replies, 1, k)
      BY <1>2 DEF Disconnect
    <2>3. k \in 0 .. Len(replies)
      BY <1>1, <2>1
    <2> QED BY <2>2, <2>3, CutOff
  <1>3. ASSUME HandleResult \/ EditReturns
        PROVE  /\ replies # <<>> /\ 1 \in 1 .. Len(replies) /\ Head(replies) = replies[1]
               /\ replies[1] \in ReplyType
    <2>1. replies # <<>>
      BY <1>3 DEF HandleResult, EditReturns
    <2> QED BY <2>1, TakenOff
  <1>4. ASSUME EditReturns \/ (HandleResult /\ Len(replies[1].frames) = 1)
        PROVE  /\ replies' \in Seq(ReplyType)
               /\ replies' = Tail(replies) /\ Len(replies') = Len(replies) - 1
               /\ \A i \in 1 .. Len(replies') : i + 1 \in 2 .. Len(replies) /\ replies'[i] = replies[i + 1]
    <2>1. replies # <<>> /\ replies' = Tail(replies)
      BY <1>3, <1>4 DEF HandleResult, EditReturns
    <2> QED BY <2>1, TakenOff
  <1>5. ASSUME HandleResult, Len(replies[1].frames) # 1
        PROVE  /\ replies' \in Seq(ReplyType)
               /\ Len(replies') = Len(replies) /\ replies'[1].frames = Tail(replies[1].frames)
               /\ \A i \in 2 .. Len(replies) : replies'[i] = replies[i]
    <2> DEFINE e == Answer("handled", Tail(replies[1].frames))
    <2>1. replies' = [replies EXCEPT ![1] = e] /\ replies[1].frames # <<>>
      BY <1>3, <1>5 DEF HandleResult
    <2>2. e \in ReplyType /\ e.frames = Tail(replies[1].frames)
      <3>1. Tail(replies[1].frames) \in Seq(Frame)
        BY <1>3, <1>5, <2>1, ReplyFields, HeadTailProperties
      <3> QED BY <3>1, AnswerType DEF Op
    <2> HIDE DEF e
    <2>3. replies \in [1 .. Len(replies) -> ReplyType]
      BY <1>1
    <2>4. replies' \in [1 .. Len(replies) -> ReplyType]
      BY <2>1, <2>2, <2>3
    <2>5. Len(replies') = Len(replies) /\ replies' \in Seq(ReplyType)
      BY <1>1, <2>4
    <2> QED BY <1>3, <1>5, <2>1, <2>2, <2>3, <2>5
  <1>6. ASSUME NEW e \in ReplyType, replies' = Append(replies, e)
        PROVE  /\ replies' \in Seq(ReplyType)
               /\ replies'[Len(replies')] = e /\ Len(replies') = Len(replies) + 1
               /\ \A i \in 1 .. Len(replies) : replies'[i] = replies[i]
    <2>1. /\ Append(replies, e) \in Seq(ReplyType) /\ Len(Append(replies, e)) = Len(replies) + 1
          /\ \A i \in 1 .. Len(replies) + 1 :
               Append(replies, e)[i] = IF i = Len(replies) + 1 THEN e ELSE replies[i]
      BY Appended
    <2>2. Len(replies) + 1 \in 1 .. Len(replies) + 1
          /\ \A i \in 1 .. Len(replies) : i \in 1 .. Len(replies) + 1 /\ i # Len(replies) + 1
      BY <1>1
    <2> QED BY <1>6, <2>1, <2>2
  <1>7. ASSUME ServeEdit
        PROVE  \E e \in ReplyType : replies' = Append(replies, e) /\ e.frames = <<>> /\ link = "up"
    <2>1. /\ link = "up" /\ Head(requests).op \in {"add", "clear"}
          /\ replies' = Append(replies, Answer(Head(requests).op, <<>>))
      BY <1>7 DEF ServeEdit, Reply, Asking
    <2>2. Head(requests).op \in Op /\ <<>> \in Seq(Frame)
      BY <2>1 DEF Op
    <2> QED BY <2>1, <2>2, AnswerType
  <1>8. ASSUME Answering
        PROVE  \E e \in ReplyType : replies' = Append(replies, e) /\ e.frames = call'[Phone].answer
    <2>1. replies' = Append(replies, Answer("frames", call'[Phone].answer))
      <3>1. call[Phone].at = "collect"
        BY <1>8 DEF Answering, CollectNext
      <3> QED BY <1>8, <3>1 DEF Answering, ServeOn, OfferNext, BeginCollect, Reply
    <2> QED BY <1>1, <2>1, AnswerType DEF Op
  <1>9. \/ replies' = replies \/ Disconnect \/ HandleResult \/ EditReturns \/ ServeEdit \/ Answering
    <2>1. ServeOn => replies' = replies \/ Answering
      BY DEF ServeOn, Answering, Reply
    <2> QED BY <2>1 DEF OffloadNext, Connect, CameraThread, PhoneAddFrame, PhoneShowOriginal,
                        PhoneShowProcessed, CallBack, Serve, ServeFrames, UserEdit, phoneVars, offloadVars
  <1>10. ServeEdit \/ Answering =>
           /\ replies' \in Seq(ReplyType)
           /\ replies' = Append(replies, replies'[Len(replies')])
           /\ Len(replies') = Len(replies) + 1
           /\ \A i \in 1 .. Len(replies) : replies'[i] = replies[i]
    <2> SUFFICES ASSUME ServeEdit \/ Answering
                 PROVE  /\ replies' \in Seq(ReplyType)
                        /\ replies' = Append(replies, replies'[Len(replies')])
                        /\ Len(replies') = Len(replies) + 1
                        /\ \A i \in 1 .. Len(replies) : replies'[i] = replies[i]
      OBVIOUS
    <2>1. PICK e \in ReplyType : replies' = Append(replies, e)
      BY <1>7, <1>8
    <2> QED BY <1>6, <2>1
  <1>11. ServeEdit => replies'[Len(replies')].frames = <<>> /\ link = "up"
    BY <1>6, <1>7
  <1>12. Answering => replies'[Len(replies')].frames = call'[Phone].answer
    BY <1>6, <1>8
  <1>13. replies' \in Seq(ReplyType)
    BY <1>2, <1>4, <1>5, <1>9, <1>10
  <1> QED BY <1>1, <1>2, <1>3, <1>4, <1>5, <1>9, <1>10, <1>11, <1>12, <1>13

\* A request is sent when the buffer is full.
Sending == PhoneAddFrame /\ buffer + 1 > K /\ link = "up"

\* What the steps do to the calls on their way.
LEMMA RequestsSteps ==
  ASSUME Asking, [OffloadNext]_offloadVars
  PROVE  /\ requests' \in Seq(Asked) /\ Len(requests) \in Nat
         /\ Disconnect => requests' = <<>> /\ link = "up"
         /\ \A op \in {"add", "clear"} : UserEdit(op) /\ link = "up" =>
              /\ requests' = Append(requests, EditCall(op)) /\ Len(requests') = Len(requests) + 1
              /\ requests'[Len(requests')] = EditCall(op)
              /\ \A i \in 1 .. Len(requests) : requests'[i] = requests[i]
         /\ Sending =>
              /\ requests' = Append(requests, FramesCall(K + 1)) /\ buffer = K /\ buffer' = 0
              /\ Len(requests') = Len(requests) + 1
              /\ requests'[Len(requests')] = FramesCall(K + 1)
              /\ \A i \in 1 .. Len(requests) : requests'[i] = requests[i]
         /\ ServeEdit \/ ServeFrames =>
              /\ link = "up" /\ requests # <<>> /\ 1 \in 1 .. Len(requests)
              /\ Head(requests) = requests[1] /\ requests[1] \in Asked
              /\ requests' = Tail(requests) /\ Len(requests') = Len(requests) - 1
              /\ \A i \in 1 .. Len(requests') :
                   i + 1 \in 2 .. Len(requests) /\ requests'[i] = requests[i + 1]
         /\ \/ requests' = requests \/ Disconnect \/ Sending \/ ServeEdit \/ ServeFrames
            \/ \E op \in {"add", "clear"} : UserEdit(op) /\ link = "up"
  <1>1. Len(requests) \in Nat /\ requests' \in Seq(Asked) /\ requests \in Seq(Asked)
    BY PhoneKeepsAsking, LenProperties DEF Asking
  <1>2. Disconnect => requests' = <<>> /\ link = "up"
    BY DEF Disconnect
  <1>3. ASSUME NEW e \in Asked, requests' = Append(requests, e)
        PROVE  /\ requests'[Len(requests')] = e /\ Len(requests') = Len(requests) + 1
               /\ \A i \in 1 .. Len(requests) : requests'[i] = requests[i]
    <2>1. /\ Len(Append(requests, e)) = Len(requests) + 1
          /\ \A i \in 1 .. Len(requests) + 1 :
               Append(requests, e)[i] = IF i = Len(requests) + 1 THEN e ELSE requests[i]
      BY <1>1, Appended
    <2>2. Len(requests) + 1 \in 1 .. Len(requests) + 1
          /\ \A i \in 1 .. Len(requests) : i \in 1 .. Len(requests) + 1 /\ i # Len(requests) + 1
      BY <1>1
    <2> QED BY <1>3, <2>1, <2>2
  <1>4. ASSUME NEW op \in {"add", "clear"}, UserEdit(op), link = "up"
        PROVE  /\ requests' = Append(requests, EditCall(op)) /\ Len(requests') = Len(requests) + 1
               /\ requests'[Len(requests')] = EditCall(op)
               /\ \A i \in 1 .. Len(requests) : requests'[i] = requests[i]
    <2>1. requests' = Append(requests, EditCall(op)) /\ EditCall(op) \in Asked
      BY <1>4 DEF UserEdit, Asked
    <2> QED BY <1>3, <2>1
  <1>5. ASSUME Sending
        PROVE  /\ requests' = Append(requests, FramesCall(K + 1)) /\ buffer = K /\ buffer' = 0
               /\ Len(requests') = Len(requests) + 1
               /\ requests'[Len(requests')] = FramesCall(K + 1)
               /\ \A i \in 1 .. Len(requests) : requests'[i] = requests[i]
    <2>1. buffer = K /\ K \in Nat
      BY <1>5, PhoneAssumption DEF Sending, Asking
    <2>2. requests' = Append(requests, FramesCall(K + 1)) /\ buffer' = 0
      BY <1>5, <2>1 DEF Sending, PhoneAddFrame
    <2>3. FramesCall(K + 1) \in Asked
      BY DEF Asked
    <2> QED BY <1>3, <2>1, <2>2, <2>3
  <1>6. ASSUME ServeEdit \/ ServeFrames
        PROVE  /\ link = "up" /\ requests # <<>> /\ 1 \in 1 .. Len(requests)
               /\ Head(requests) = requests[1] /\ requests[1] \in Asked
               /\ requests' = Tail(requests) /\ Len(requests') = Len(requests) - 1
               /\ \A i \in 1 .. Len(requests') :
                    i + 1 \in 2 .. Len(requests) /\ requests'[i] = requests[i + 1]
    <2>1. requests # <<>> /\ requests' = Tail(requests) /\ link = "up"
      BY <1>6 DEF ServeEdit, ServeFrames, Asking
    <2> QED BY <1>1, <2>1, TakenOff
  <1>7. \/ requests' = requests \/ Disconnect \/ Sending \/ ServeEdit \/ ServeFrames
        \/ \E op \in {"add", "clear"} : UserEdit(op) /\ link = "up"
    <2>1. PhoneAddFrame => requests' = requests \/ Sending
      BY DEF PhoneAddFrame, Sending
    <2>2. \A op \in {"add", "clear"} : UserEdit(op) => requests' = requests \/ link = "up"
      BY DEF UserEdit
    <2> QED BY <2>1, <2>2 DEF OffloadNext, Connect, CameraThread, PhoneShowOriginal,
                              PhoneShowProcessed, CallBack, HandleResult, EditReturns, Serve, ServeOn,
                              phoneVars, offloadVars
  <1> QED BY <1>1, <1>2, <1>4, <1>5, <1>6, <1>7

\* The counts of edits.
EditsType == [made : 0 .. MaxEdits, answered : Nat, failed : Nat]

LEMMA EditsCounted ==
  ASSUME NEW e \in EditsType
  PROVE  /\ e.made \in Nat /\ e.answered \in Nat /\ e.failed \in Nat
         /\ \A x \in Nat : LET d == [e EXCEPT !.failed = @ + x]
                          IN  d \in EditsType /\ d.made = e.made /\ d.answered = e.answered
                              /\ d.failed = e.failed + x
         /\ e.made < MaxEdits => LET d == [e EXCEPT !.made = @ + 1]
                                IN  d \in EditsType /\ d.made = e.made + 1
                                    /\ d.answered = e.answered /\ d.failed = e.failed
         /\ e.made < MaxEdits => LET d == [e EXCEPT !.made = @ + 1, !.failed = @ + 1]
                                IN  d \in EditsType /\ d.made = e.made + 1
                                    /\ d.answered = e.answered /\ d.failed = e.failed + 1
         /\ LET d == [e EXCEPT !.answered = @ + 1]
            IN  d \in EditsType /\ d.made = e.made /\ d.answered = e.answered + 1
                /\ d.failed = e.failed
  <1>1. MaxEdits \in Nat
    BY PhoneAssumption
  <1>2. /\ e.made \in 0 .. MaxEdits /\ e.made \in Nat /\ e.answered \in Nat /\ e.failed \in Nat
        /\ e.answered + 1 \in Nat /\ e.failed + 1 \in Nat
        /\ \A x \in Nat : e.failed + x \in Nat
        /\ e.made < MaxEdits => e.made + 1 \in 0 .. MaxEdits
    BY <1>1 DEF EditsType
  <1> QED BY <1>2 DEF EditsType

\* What the steps do to them.
LEMMA EditsSteps ==
  ASSUME edits \in EditsType, [OffloadNext]_offloadVars
  PROVE  /\ edits' \in EditsType
         /\ edits'.made \in Nat /\ edits'.answered \in Nat /\ edits'.failed \in Nat
         /\ edits.made \in Nat /\ edits.answered \in Nat /\ edits.failed \in Nat
         /\ Disconnect => /\ edits'.made = edits.made /\ edits'.answered = edits.answered
                          /\ edits'.failed = edits.failed + IF ui = "waiting" /\ ui' = "idle" THEN 1 ELSE 0
         /\ \A op \in {"add", "clear"} : UserEdit(op) =>
              /\ edits'.made = edits.made + 1 /\ edits'.answered = edits.answered
              /\ edits'.failed = edits.failed + IF link = "up" THEN 0 ELSE 1
         /\ EditReturns => /\ edits'.made = edits.made /\ edits'.answered = edits.answered + 1
                           /\ edits'.failed = edits.failed
         /\ \/ edits' = edits \/ Disconnect \/ EditReturns
            \/ \E op \in {"add", "clear"} : UserEdit(op)
  <1>1. ASSUME Disconnect
        PROVE  /\ edits' \in EditsType
               /\ edits'.made = edits.made /\ edits'.answered = edits.answered
               /\ edits'.failed = edits.failed + IF ui = "waiting" /\ ui' = "idle" THEN 1 ELSE 0
    <2> DEFINE fails == ui = "waiting" /\ \A i \in 1 .. Len(replies') : replies'[i].frames # <<>>
               x == IF fails THEN 1 ELSE 0
    <2>1. edits' = [edits EXCEPT !.failed = @ + x] /\ ui' = IF fails THEN "idle" ELSE ui
      BY <1>1 DEF Disconnect
    <2>2. x \in Nat /\ x = IF ui = "waiting" /\ ui' = "idle" THEN 1 ELSE 0
      BY <2>1
    <2> HIDE DEF x
    <2>3. \A y \in Nat : [edits EXCEPT !.failed = @ + y] \in EditsType
            /\ [edits EXCEPT !.failed = @ + y].made = edits.made
            /\ [edits EXCEPT !.failed = @ + y].answered = edits.answered
            /\ [edits EXCEPT !.failed = @ + y].failed = edits.failed + y
      BY EditsCounted
    <2> QED BY <2>1, <2>2, <2>3
  <1>2. ASSUME NEW op \in {"add", "clear"}, UserEdit(op)
        PROVE  /\ edits' \in EditsType
               /\ edits'.made = edits.made + 1 /\ edits'.answered = edits.answered
               /\ edits'.failed = edits.failed + IF link = "up" THEN 0 ELSE 1
    <2>1. /\ edits.made < MaxEdits
          /\ \/ link = "up" /\ edits' = [edits EXCEPT !.made = @ + 1]
             \/ link # "up" /\ edits' = [edits EXCEPT !.made = @ + 1, !.failed = @ + 1]
      BY <1>2 DEF UserEdit
    <2>2. edits.failed \in Nat
      BY EditsCounted
    <2>3. edits.failed + 0 = edits.failed
      BY <2>2
    <2> QED BY <2>1, <2>3, EditsCounted
  <1>3. ASSUME EditReturns
        PROVE  /\ edits' \in EditsType
               /\ edits'.made = edits.made /\ edits'.answered = edits.answered + 1
               /\ edits'.failed = edits.failed
    BY <1>3, EditsCounted DEF EditReturns
  <1>4. \/ edits' = edits \/ Disconnect \/ EditReturns
        \/ \E op \in {"add", "clear"} : UserEdit(op)
    BY DEF OffloadNext, Connect, CameraThread, PhoneAddFrame, PhoneShowOriginal, PhoneShowProcessed,
           CallBack, HandleResult, Serve, ServeEdit, ServeFrames, ServeOn, phoneVars, offloadVars
  <1>5. edits' \in EditsType
    BY <1>1, <1>2, <1>3, <1>4
  <1>6. \A e \in EditsType : e.made \in Nat /\ e.answered \in Nat /\ e.failed \in Nat
    BY EditsCounted
  <1> QED BY <1>1, <1>2, <1>3, <1>4, <1>5, <1>6

\* The types of the phone's variables, and the bounds that the counters keep.
PhoneTypes ==
  /\ replies \in Seq(ReplyType) /\ effects \in Seq(Nat) /\ ui \in {"idle", "waiting"}
  /\ numFrames \in Int /\ processed \in Seq(Frame)
  /\ camera \in {"idle", "added"} /\ shown \in Frame
  /\ edits \in EditsType
  /\ settled \in Seq(Nat) /\ Len(settled) <= MaxFrames /\ buffer <= Len(settled)

LEMMA PhoneKeepsTypes ==
  ASSUME Asking, PhoneTypes, ServerTypeOK, ServerTypeOK', [OffloadNext]_offloadVars
  PROVE  PhoneTypes'
  <1> USE DEF PhoneTypes
  <1>1. replies' \in Seq(ReplyType)
    BY RepliesSteps
  <1>2. /\ MaxEdits \in Nat /\ MaxFrames \in Nat /\ buffer \in Nat /\ Len(settled) \in Nat
        /\ edits.made \in Nat /\ edits.answered \in Nat /\ edits.failed \in Nat
    BY PhoneAssumption, BoundsAssumption, LenProperties, EditsCounted DEF Asking
  <1>3. CASE Connect \/ UNCHANGED phoneVars
    BY <1>1, <1>3 DEF Connect, phoneVars
  <1>4. CASE Disconnect
    <2>1. edits' \in EditsType /\ ui' \in {"idle", "waiting"}
      BY <1>4, EditsSteps DEF Disconnect
    <2> QED BY <1>1, <1>4, <2>1 DEF Disconnect
  <1>5. ASSUME NEW op \in {"add", "clear"}, UserEdit(op) PROVE PhoneTypes'
    <2>1. edits' \in EditsType /\ ui' \in {"idle", "waiting"}
      BY <1>5, EditsSteps DEF UserEdit, AfterEdit
    <2>2. effects' \in Seq(Nat)
      <3>1. edits.made + 2 \in Nat
        BY <1>2
      <3>2. Append(effects, edits.made + 2) \in Seq(Nat) /\ <<edits.made + 2>> \in Seq(Nat)
        BY <3>1, Appended
      <3> QED BY <1>5, <3>2 DEF UserEdit
    <2> QED BY <1>1, <1>5, <2>1, <2>2 DEF UserEdit
  <1>6. CASE PhoneAddFrame
    <2>1. /\ settled' = Append(settled, 1 + edits.answered) /\ Len(settled) < MaxFrames
          /\ numFrames' = numFrames + 1 /\ camera' = "added"
          /\ UNCHANGED <<effects, ui, processed, shown, edits>>
          /\ buffer' = 0 \/ buffer' = buffer + 1
      BY <1>6 DEF PhoneAddFrame
    <2>2. settled' \in Seq(Nat) /\ Len(settled') = Len(settled) + 1
      <3>1. 1 + edits.answered \in Nat
        BY <1>2
      <3> QED BY <2>1, <3>1, Appended
    <2> QED BY <1>1, <1>2, <2>1, <2>2
  <1>7. CASE PhoneShowOriginal
    BY <1>1, <1>7 DEF PhoneShowOriginal
  <1>8. CASE PhoneShowProcessed
    <2>1. processed # <<>> /\ processed' = Tail(processed) /\ shown' = Head(processed)
      BY <1>8 DEF PhoneShowProcessed
    <2>2. processed' \in Seq(Frame) /\ shown' \in Frame
      BY <2>1, TakenOff
    <2> QED BY <1>1, <1>8, <2>2 DEF PhoneShowProcessed
  <1>9. CASE HandleResult
    <2>1. /\ replies[1] \in ReplyType /\ replies[1].frames # <<>> /\ Head(replies) = replies[1]
      BY <1>9, RepliesSteps DEF HandleResult
    <2>2. Head(replies[1].frames) \in Frame
      BY <2>1, ReplyFields, TakenOff
    <2>3. processed' \in Seq(Frame)
      BY <1>9, <2>1, <2>2, Appended DEF HandleResult
    <2>4. numFrames' = numFrames - 1
      BY <1>9 DEF HandleResult, CountDown
    <2> QED BY <1>1, <1>9, <2>3, <2>4 DEF HandleResult
  <1>10. CASE EditReturns
    <2>1. edits' \in EditsType /\ ui' \in {"idle", "waiting"}
      BY <1>10, EditsSteps DEF EditReturns
    <2> QED BY <1>1, <1>10, <2>1 DEF EditReturns
  <1>11. CASE ServeEdit \/ ServeFrames \/ ServeOn
    BY <1>1, <1>11 DEF ServeEdit, ServeFrames, ServeOn
  <1> QED BY <1>3, <1>4, <1>5, <1>6, <1>7, <1>8, <1>9, <1>10, <1>11
          DEF OffloadNext, CameraThread, CallBack, Serve, phoneVars, offloadVars

-----------------------------------------------------------------------------
\* The edits that the server has not begun with, and the answers to edits.
AskedEdits == {i \in 1 .. Len(requests) : requests[i].op # "frames"}
AnsweredEdits == {j \in 1 .. Len(replies) : replies[j].frames = <<>>}

\* The user interface waits as long as an edit is on its way, so there is at
\* most one, on its way to the server or back.
OneEdit ==
  /\ ui = "idle" => AskedEdits = {} /\ AnsweredEdits = {}
  /\ AskedEdits # {} => AnsweredEdits = {}
  /\ \A i, j \in AskedEdits : i = j
  /\ \A i, j \in AnsweredEdits : i = j
  /\ edits.made = edits.answered + edits.failed + IF ui = "waiting" THEN 1 ELSE 0

\* How the steps change them.
LEMMA EditsTravel ==
  ASSUME Asking, PhoneTypes, ServerTypeOK, ServerTypeOK', CallsInStep, [OffloadNext]_offloadVars
  PROVE  /\ Disconnect => AskedEdits' = {} /\ AnsweredEdits' \subseteq AnsweredEdits
         /\ \A op \in {"add", "clear"} : UserEdit(op) /\ link = "up" =>
              /\ AskedEdits' = AskedEdits \cup {Len(requests')} /\ AnsweredEdits' = AnsweredEdits
              /\ requests'[Len(requests')].op = op
         /\ ServeEdit =>
              /\ 1 \in AskedEdits /\ \A i \in AskedEdits' : i + 1 \in AskedEdits /\ i # 0
              /\ AnsweredEdits' = AnsweredEdits \cup {Len(replies')}
         /\ EditReturns =>
              /\ AskedEdits' = AskedEdits
              /\ 1 \in AnsweredEdits /\ \A i \in AnsweredEdits' : i + 1 \in AnsweredEdits /\ i # 0
         /\ ~(Disconnect \/ ServeEdit \/ EditReturns
              \/ \E op \in {"add", "clear"} : UserEdit(op) /\ link = "up") =>
              /\ \A i \in AskedEdits' : i \in AskedEdits \/ i + 1 \in AskedEdits
              /\ \A i, j \in AskedEdits' : \/ i \in AskedEdits /\ j \in AskedEdits
                                           \/ i + 1 \in AskedEdits /\ j + 1 \in AskedEdits
              /\ AskedEdits' = {} => AskedEdits = {}
              /\ \A i, j \in AnsweredEdits' : \/ i \in AnsweredEdits /\ j \in AnsweredEdits
                                              \/ i + 1 \in AnsweredEdits /\ j + 1 \in AnsweredEdits
  <1>1. Len(requests) \in Nat /\ Len(replies) \in Nat /\ replies \in Seq(ReplyType)
    BY RequestsSteps, LenProperties DEF PhoneTypes
  <1>2. ASSUME requests' = requests PROVE AskedEdits' = AskedEdits
    BY <1>2 DEF AskedEdits
  <1>3. ASSUME replies' = replies PROVE AnsweredEdits' = AnsweredEdits
    BY <1>3 DEF AnsweredEdits
  <1>4. ASSUME Disconnect PROVE AskedEdits' = {} /\ AnsweredEdits' \subseteq AnsweredEdits
    <2>1. 1 .. Len(requests') = {}
      BY <1>4, RequestsSteps, EmptySeq
    <2>2. \A i \in 1 .. Len(replies') : i \in 1 .. Len(replies) /\ replies'[i] = replies[i]
      BY <1>4, RepliesSteps DEF PhoneTypes
    <2> QED BY <2>1, <2>2 DEF AskedEdits, AnsweredEdits
  <1>5. ASSUME NEW op \in {"add", "clear"}, UserEdit(op), link = "up"
        PROVE  /\ AskedEdits' = AskedEdits \cup {Len(requests')} /\ AnsweredEdits' = AnsweredEdits
               /\ requests'[Len(requests')].op = op
    <2>1. /\ Len(requests') = Len(requests) + 1 /\ requests'[Len(requests')] = EditCall(op)
          /\ \A i \in 1 .. Len(requests) : requests'[i] = requests[i]
      BY <1>5, RequestsSteps
    <2>2. requests'[Len(requests')].op = op /\ op # "frames"
      BY <2>1 DEF EditCall
    <2>3. 1 .. Len(requests') = (1 .. Len(requests)) \cup {Len(requests')}
      BY <1>1, <2>1
    <2>4. AskedEdits' = AskedEdits \cup {Len(requests')}
      BY <2>1, <2>2, <2>3 DEF AskedEdits
    <2> QED BY <1>3, <1>5, <2>2, <2>4 DEF UserEdit
  <1>6. ASSUME ServeEdit
        PROVE  /\ 1 \in AskedEdits /\ \A i \in AskedEdits' : i + 1 \in AskedEdits /\ i # 0
               /\ AnsweredEdits' = AnsweredEdits \cup {Len(replies')}
    <2>1. requests[1].op # "frames" /\ 1 \in 1 .. Len(requests)
      BY <1>6, RequestsSteps DEF ServeEdit
    <2>2. \A i \in 1 .. Len(requests') : i + 1 \in 1 .. Len(requests) /\ requests'[i] = requests[i + 1]
      BY <1>1, <1>6, RequestsSteps
    <2>3. /\ Len(replies') = Len(replies) + 1 /\ replies'[Len(replies')].frames = <<>>
          /\ \A i \in 1 .. Len(replies) : replies'[i] = replies[i]
      BY <1>6, RepliesSteps DEF PhoneTypes
    <2>4. 1 .. Len(replies') = (1 .. Len(replies)) \cup {Len(replies')}
      BY <1>1, <2>3
    <2>5. AnsweredEdits' = AnsweredEdits \cup {Len(replies')}
      BY <2>3, <2>4 DEF AnsweredEdits
    <2> QED BY <2>1, <2>2, <2>5 DEF AskedEdits
  <1>7. ASSUME EditReturns
        PROVE  /\ AskedEdits' = AskedEdits
               /\ 1 \in AnsweredEdits /\ \A i \in AnsweredEdits' : i + 1 \in AnsweredEdits /\ i # 0
    <2>1. replies[1].frames = <<>> /\ 1 \in 1 .. Len(replies)
      BY <1>7, RepliesSteps DEF EditReturns, PhoneTypes
    <2>2. \A i \in 1 .. Len(replies') : i + 1 \in 2 .. Len(replies) /\ replies'[i] = replies[i + 1]
      BY <1>7, RepliesSteps DEF PhoneTypes
    <2>3. \A i \in 1 .. Len(replies') : i + 1 \in 1 .. Len(replies)
      BY <1>1, <2>2
    <2> QED BY <1>2, <1>7, <2>1, <2>2, <2>3 DEF AnsweredEdits, EditReturns
  <1>8. ASSUME ServeFrames \/ Sending \/ requests' = requests
        PROVE  /\ \A i \in AskedEdits' : i \in AskedEdits \/ i + 1 \in AskedEdits
               /\ \A i, j \in AskedEdits' : \/ i \in AskedEdits /\ j \in AskedEdits
                                            \/ i + 1 \in AskedEdits /\ j + 1 \in AskedEdits
               /\ AskedEdits' = {} => AskedEdits = {}
    <2>1. CASE requests' = requests
      BY <1>2, <2>1
    <2>2. CASE Sending
      <3>1. /\ Len(requests') = Len(requests) + 1 /\ requests'[Len(requests')] = FramesCall(K + 1)
            /\ \A i \in 1 .. Len(requests) : requests'[i] = requests[i]
        BY <2>2, RequestsSteps
      <3>2. requests'[Len(requests')].op = "frames"
        BY <3>1 DEF FramesCall
      <3>3. 1 .. Len(requests') = (1 .. Len(requests)) \cup {Len(requests')}
        BY <1>1, <3>1
      <3>4. AskedEdits' = AskedEdits
        BY <3>1, <3>2, <3>3 DEF AskedEdits
      <3> QED BY <3>4
    <2>3. CASE ServeFrames
      <3>1. /\ requests[1].op = "frames"
            /\ \A i \in 1 .. Len(requests') :
                 i + 1 \in 1 .. Len(requests) /\ requests'[i] = requests[i + 1]
            /\ Len(requests') = Len(requests) - 1
        BY <1>1, <2>3, RequestsSteps DEF ServeFrames
      <3>2. \A i \in AskedEdits' : i + 1 \in AskedEdits
        BY <3>1 DEF AskedEdits
      <3>3. ASSUME NEW i \in AskedEdits PROVE i - 1 \in AskedEdits'
        <4>1. i \in 1 .. Len(requests) /\ requests[i].op # "frames" /\ i # 1
          BY <3>1 DEF AskedEdits
        <4>2. i - 1 \in 1 .. Len(requests') /\ (i - 1) + 1 = i
          BY <1>1, <3>1, <4>1
        <4> QED BY <3>1, <4>1, <4>2 DEF AskedEdits
      <3> QED BY <3>2, <3>3
    <2> QED BY <1>8, <2>1, <2>2, <2>3
  <1>9. ASSUME replies' = replies \/ HandleResult \/ Answering
        PROVE  \A i, j \in AnsweredEdits' : \/ i \in AnsweredEdits /\ j \in AnsweredEdits
                                            \/ i + 1 \in AnsweredEdits /\ j + 1 \in AnsweredEdits
    <2>1. CASE replies' = replies
      BY <1>3, <2>1
    <2>2. CASE Answering
      <3>1. /\ Len(replies') = Len(replies) + 1
            /\ \A i \in 1 .. Len(replies) : replies'[i] = replies[i]
            /\ replies'[Len(replies')].frames = call'[Phone].answer
        BY <2>2, RepliesSteps DEF PhoneTypes
      <3>2. call'[Phone].answer # <<>>
        <4>1. /\ call[Phone].answer \in Seq(Frame) /\ Head(queue[Processed]) \in Frame
              /\ call'[Phone].answer = Append(call[Phone].answer, Head(queue[Processed]))
          BY <2>2, CallUpdates, PhoneAssumption DEF Answering, ServerTypeOK
        <4>2. Len(call'[Phone].answer) = Len(call[Phone].answer) + 1 /\ Len(call[Phone].answer) \in Nat
          BY <4>1, Appended, LenProperties
        <4>3. Len(<<>>) = 0
          BY EmptySeq
        <4> QED BY <4>2, <4>3
      <3>3. 1 .. Len(replies') = (1 .. Len(replies)) \cup {Len(replies')}
        BY <1>1, <3>1
      <3>4. AnsweredEdits' = AnsweredEdits
        BY <3>1, <3>2, <3>3 DEF AnsweredEdits
      <3> QED BY <3>4
    <2>3. CASE HandleResult /\ Len(replies[1].frames) = 1
      <3>1. \A i \in 1 .. Len(replies') : i + 1 \in 2 .. Len(replies) /\ replies'[i] = replies[i + 1]
        BY <2>3, RepliesSteps DEF PhoneTypes
      <3>2. \A i \in 1 .. Len(replies') : i + 1 \in 1 .. Len(replies)
        BY <1>1, <3>1
      <3>3. \A i \in AnsweredEdits' : i + 1 \in AnsweredEdits
        BY <3>1, <3>2 DEF AnsweredEdits
      <3> QED BY <3>3
    <2>4. CASE HandleResult /\ Len(replies[1].frames) # 1
      <3>1. /\ Len(replies') = Len(replies) /\ replies'[1].frames = Tail(replies[1].frames)
            /\ \A i \in 2 .. Len(replies) : replies'[i] = replies[i]
            /\ replies[1] \in ReplyType /\ Head(replies) = replies[1]
        BY <2>4, RepliesSteps DEF PhoneTypes
      <3>2. replies[1].frames \in Seq(Frame) /\ replies[1].frames # <<>>
        BY <2>4, <3>1, ReplyFields DEF HandleResult
      <3>3. Tail(replies[1].frames) # <<>>
        <4>1. Len(Tail(replies[1].frames)) = Len(replies[1].frames) - 1
              /\ Len(replies[1].frames) \in Nat \ {0}
          BY <3>2, TakenOff
        <4>2. Len(<<>>) = 0
          BY EmptySeq
        <4>3. \A n \in Nat \ {0} : n # 1 => n - 1 # 0
          OBVIOUS
        <4>4. Len(Tail(replies[1].frames)) # 0
          BY <2>4, <4>1, <4>3
        <4> QED BY <4>2, <4>4
      <3>4. \A i \in 1 .. Len(replies) : i = 1 \/ i \in 2 .. Len(replies)
        BY <1>1
      <3>5. AnsweredEdits' \subseteq AnsweredEdits
        BY <3>1, <3>3, <3>4 DEF AnsweredEdits
      <3> QED BY <3>5
    <2> QED BY <1>9, <2>1, <2>2, <2>3, <2>4
  <1>10. ~(Disconnect \/ ServeEdit \/ EditReturns
           \/ \E op \in {"add", "clear"} : UserEdit(op) /\ link = "up") =>
           /\ ServeFrames \/ Sending \/ requests' = requests
           /\ replies' = replies \/ HandleResult \/ Answering
    BY RequestsSteps, RepliesSteps DEF PhoneTypes
  <1> QED BY <1>4, <1>5, <1>6, <1>7, <1>8, <1>9, <1>10

LEMMA PhoneKeepsOneEdit ==
  ASSUME Asking, PhoneTypes, OneEdit, ServerTypeOK, ServerTypeOK', CallsInStep,
         [OffloadNext]_offloadVars
  PROVE  OneEdit'
  <1> USE DEF OneEdit
  <1>1. /\ edits.made \in Nat /\ edits.answered \in Nat /\ edits.failed \in Nat
        /\ ui \in {"idle", "waiting"} /\ edits \in EditsType
    BY EditsSteps DEF PhoneTypes
  <1>2. CASE Disconnect
    <2>1. AskedEdits' = {} /\ AnsweredEdits' \subseteq AnsweredEdits
      BY <1>2, EditsTravel
    <2>2. /\ ui' \in {"idle", ui}
          /\ ui' # ui => \A i \in 1 .. Len(replies') : replies'[i].frames # <<>>
      BY <1>2 DEF Disconnect
    <2>3. ui' = "idle" => AnsweredEdits' = {}
      BY <2>1, <2>2 DEF AnsweredEdits
    <2>4. /\ edits'.made = edits.made /\ edits'.answered = edits.answered
          /\ edits'.failed = edits.failed + IF ui = "waiting" /\ ui' = "idle" THEN 1 ELSE 0
      BY <1>1, <1>2, EditsSteps
    <2>5. edits'.made = edits'.answered + edits'.failed + IF ui' = "waiting" THEN 1 ELSE 0
      BY <1>1, <2>2, <2>4
    <2> QED BY <2>1, <2>3, <2>5
  <1>3. ASSUME NEW op \in {"add", "clear"}, UserEdit(op) PROVE OneEdit'
    <2>1. /\ edits'.made = edits.made + 1 /\ edits'.answered = edits.answered
          /\ edits'.failed = edits.failed + IF link = "up" THEN 0 ELSE 1
      BY <1>1, <1>3, EditsSteps
    <2>2. ui = "idle" /\ ui' = IF link = "up" THEN "waiting" ELSE "idle"
      BY <1>3 DEF UserEdit, AfterEdit
    <2>3. AskedEdits' = (IF link = "up" THEN {Len(requests')} ELSE {}) /\ AnsweredEdits' = {}
      <3>1. CASE link = "up"
        BY <1>3, <2>2, <3>1, EditsTravel
      <3>2. CASE link # "up"
        <4>1. requests' = requests /\ replies' = replies
          BY <1>3, <3>2 DEF UserEdit
        <4> QED BY <2>2, <3>2, <4>1 DEF AskedEdits, AnsweredEdits
      <3> QED BY <3>1, <3>2
    <2>4. edits'.made = edits'.answered + edits'.failed + IF ui' = "waiting" THEN 1 ELSE 0
      BY <1>1, <2>1, <2>2
    <2> QED BY <2>2, <2>3, <2>4
  <1>4. CASE ServeEdit
    <2>1. /\ 1 \in AskedEdits /\ \A i \in AskedEdits' : i + 1 \in AskedEdits /\ i # 0
          /\ AnsweredEdits' = AnsweredEdits \cup {Len(replies')}
      BY <1>4, EditsTravel
    <2>2. AskedEdits' = {}
      <3>1. \A i \in AskedEdits' : i \in Nat
        BY DEF AskedEdits
      <3> QED BY <2>1, <3>1
    <2>3. UNCHANGED <<ui, edits>>
      BY <1>4 DEF ServeEdit
    <2> QED BY <2>1, <2>2, <2>3
  <1>5. CASE EditReturns
    <2>1. /\ AskedEdits' = AskedEdits
          /\ 1 \in AnsweredEdits /\ \A i \in AnsweredEdits' : i + 1 \in AnsweredEdits /\ i # 0
      BY <1>5, EditsTravel
    <2>2. AnsweredEdits' = {}
      <3>1. \A i \in AnsweredEdits' : i \in Nat
        BY DEF AnsweredEdits
      <3> QED BY <2>1, <3>1
    <2>3. /\ ui' = "idle" /\ edits'.made = edits.made /\ edits'.answered = edits.answered + 1
          /\ edits'.failed = edits.failed
      BY <1>1, <1>5, EditsSteps DEF EditReturns
    <2>4. ui = "waiting"
      BY <1>1, <2>1
    <2>5. edits'.made = edits'.answered + edits'.failed + IF ui' = "waiting" THEN 1 ELSE 0
      BY <1>1, <2>3, <2>4
    <2> QED BY <2>1, <2>2, <2>5
  <1>6. CASE ~(Disconnect \/ ServeEdit \/ EditReturns \/ \E op \in {"add", "clear"} : UserEdit(op))
    <2>1. UNCHANGED <<ui, edits>>
      BY <1>6 DEF OffloadNext, Connect, CameraThread, PhoneAddFrame, PhoneShowOriginal,
                  PhoneShowProcessed, CallBack, HandleResult, Serve, ServeFrames, ServeOn,
                  phoneVars, offloadVars
    <2>2. /\ \A i \in AskedEdits' : i \in AskedEdits \/ i + 1 \in AskedEdits
          /\ \A i, j \in AskedEdits' : \/ i \in AskedEdits /\ j \in AskedEdits
                                       \/ i + 1 \in AskedEdits /\ j + 1 \in AskedEdits
          /\ \A i, j \in AnsweredEdits' : \/ i \in AnsweredEdits /\ j \in AnsweredEdits
                                          \/ i + 1 \in AnsweredEdits /\ j + 1 \in AnsweredEdits
      BY <1>6, EditsTravel
    <2>3. AskedEdits' \subseteq Nat /\ AnsweredEdits' \subseteq Nat
      BY DEF AskedEdits, AnsweredEdits
    <2>4. /\ AskedEdits = {} => AskedEdits' = {}
          /\ AnsweredEdits = {} => AnsweredEdits' = {}
      BY <2>2
    <2>5. /\ \A i, j \in AskedEdits' : i = j
          /\ \A i, j \in AnsweredEdits' : i = j
      <3>1. \A i, j \in Nat : i + 1 = j + 1 => i = j
        OBVIOUS
      <3> QED BY <2>2, <2>3, <3>1
    <2> QED BY <2>1, <2>4, <2>5
  <1> QED BY <1>2, <1>3, <1>4, <1>5, <1>6

\* As long as no edit has failed, the server's list is the phone's, or what the
\* phone's was before the edit on its way; and so are the numbers of the effects.
ListsInStep ==
  edits.failed = 0 =>
    /\ AskedEdits = {} => effects = effectTasks /\ created.tasks = edits.made + 1
    /\ \A i \in AskedEdits :
         /\ effects = IF requests[i].op = "add" THEN Append(effectTasks, edits.made + 1)
                                                ELSE <<edits.made + 1>>
         /\ created.tasks = edits.made

\* Only edits change the server's list.
LEMMA OnlyEditsEdit ==
  ASSUME [OffloadNext]_offloadVars
  PROVE  UNCHANGED <<effectTasks, created>> \/ ServeEdit
  <1>1. Construct \/ Work \/ AddFrame \/ GetFrame => UNCHANGED <<effectTasks, created>>
    BY DEF Construct, Start, Work, Run, ApplyThrows, ReadInput, Take, LeaveLoop, Apply, DropFrame,
           ReadOutput, Offer, AddFrame, GetFrame, pipelineVars
  <1>2. UNCHANGED vars => UNCHANGED <<effectTasks, created>>
    BY DEF vars, pipelineVars
  <1>3. ServeFrames \/ ServeOn => UNCHANGED <<effectTasks, created>>
    BY <1>1, <1>2 DEF ServeFrames, ServeOn, AddFramesCall, OfferNext, BeginCollect, CollectNext
  <1> QED BY <1>1, <1>2, <1>3 DEF OffloadNext, Connect, Disconnect, CameraThread, PhoneAddFrame,
             PhoneShowOriginal, PhoneShowProcessed, CallBack, HandleResult, EditReturns, UserEdit,
             Serve, serverVars, offloadVars

LEMMA PhoneKeepsLists ==
  ASSUME Asking, PhoneTypes, OneEdit, ListsInStep, TypeOK, ServerTypeOK, ServerTypeOK', CallsInStep,
         [OffloadNext]_offloadVars
  PROVE  ListsInStep'
  <1>1. /\ edits.made \in Nat /\ edits.answered \in Nat /\ edits.failed \in Nat
        /\ edits \in EditsType /\ edits'.failed \in Nat /\ created.tasks \in Nat
    BY EditsSteps, CountersAreNumbers DEF PhoneTypes
  <1>2. CASE Disconnect
    <2>1. AskedEdits' = {}
      BY <1>2, EditsTravel
    <2>2. UNCHANGED <<effects, effectTasks, created>>
      BY <1>2, OnlyEditsEdit DEF Disconnect, serverVars, vars, pipelineVars
    <2>3. /\ edits'.made = edits.made
          /\ edits'.failed = edits.failed + IF ui = "waiting" /\ ui' = "idle" THEN 1 ELSE 0
      BY <1>1, <1>2, EditsSteps
    <2>4. edits'.failed = 0 => edits.failed = 0 /\ ~(ui = "waiting" /\ ui' = "idle")
      BY <1>1, <2>3
    <2>5. edits'.failed = 0 => AskedEdits = {}
      <3> SUFFICES ASSUME edits'.failed = 0, AskedEdits # {} PROVE FALSE
        OBVIOUS
      <3>1. ui = "waiting" /\ AnsweredEdits = {}
        BY DEF OneEdit, PhoneTypes
      <3>2. AnsweredEdits' = {}
        BY <1>2, <3>1, EditsTravel
      <3>3. \A i \in 1 .. Len(replies') : replies'[i].frames # <<>>
        BY <3>2 DEF AnsweredEdits
      <3>4. ui' = "idle"
        BY <1>2, <3>1, <3>3 DEF Disconnect
      <3> QED BY <2>4, <3>1, <3>4
    <2> QED BY <2>1, <2>2, <2>3, <2>4, <2>5 DEF ListsInStep
  <1>3. ASSUME NEW op \in {"add", "clear"}, UserEdit(op) PROVE ListsInStep'
    <2>1. /\ edits'.made = edits.made + 1
          /\ edits'.failed = edits.failed + IF link = "up" THEN 0 ELSE 1
      BY <1>1, <1>3, EditsSteps
    <2>2. CASE link # "up"
      <3>1. edits'.failed # 0
        BY <1>1, <2>1, <2>2
      <3> QED BY <3>1 DEF ListsInStep
    <2>3. CASE link = "up"
      <3>1. edits'.failed = edits.failed
        BY <1>1, <2>1, <2>3
      <3>2. /\ ui = "idle" /\ UNCHANGED <<effectTasks, created>>
            /\ effects' = IF op = "add" THEN Append(effects, edits.made + 2) ELSE <<edits.made + 2>>
        BY <1>3 DEF UserEdit, serverVars, vars, pipelineVars
      <3>3. AskedEdits = {}
        BY <3>2 DEF OneEdit
      <3>4. AskedEdits' = {Len(requests')} /\ requests'[Len(requests')].op = op
        BY <1>3, <2>3, <3>3, EditsTravel
      <3>5. edits'.made + 1 = edits.made + 2
        BY <1>1, <2>1
      <3> QED BY <2>1, <3>1, <3>2, <3>3, <3>4, <3>5 DEF ListsInStep
    <2> QED BY <2>2, <2>3
  <1>4. CASE ServeEdit
    <2>1. /\ 1 \in AskedEdits /\ \A i \in AskedEdits' : i + 1 \in AskedEdits /\ i # 0
          /\ requests[1].op \in {"add", "clear"} /\ Head(requests) = requests[1]
      BY <1>4, EditsTravel, RequestsSteps DEF ServeEdit
    <2>2. AskedEdits' = {}
      <3>1. \A i \in AskedEdits' : i \in Nat
        BY DEF AskedEdits
      <3> QED BY <2>1, <3>1 DEF OneEdit
    <2>3. UNCHANGED <<edits, effects>>
      BY <1>4 DEF ServeEdit
    <2>4. /\ created'.tasks = created.tasks + 1
          /\ effectTasks' = IF requests[1].op = "add" THEN Append(effectTasks, created.tasks + 1)
                                                      ELSE <<created.tasks + 1>>
      <3>1. AddEffect => /\ created'.tasks = created.tasks + 1
                         /\ effectTasks' = Append(effectTasks, created.tasks + 1)
        BY DEF AddEffect, AppendTask, Create, NewTask
      <3>2. ClearEffects => /\ created'.tasks = created.tasks + 1
                            /\ effectTasks' = <<created.tasks + 1>>
        BY DEF ClearEffects, Create, NewTask
      <3> QED BY <1>4, <2>1, <3>1, <3>2 DEF ServeEdit, AddEffectCall, ClearEffectsCall
    <2> QED BY <2>1, <2>2, <2>3, <2>4 DEF ListsInStep
  <1>5. CASE EditReturns
    <2>1. AskedEdits' = AskedEdits /\ AskedEdits = {}
      BY <1>5, EditsTravel DEF OneEdit
    <2>2. edits'.made = edits.made /\ edits'.failed = edits.failed
      BY <1>1, <1>5, EditsSteps
    <2>3. UNCHANGED <<effects, effectTasks, created>>
      BY <1>5 DEF EditReturns, serverVars, vars, pipelineVars
    <2> QED BY <2>1, <2>2, <2>3 DEF ListsInStep
  <1>6. CASE ~(Disconnect \/ ServeEdit \/ EditReturns \/ \E op \in {"add", "clear"} : UserEdit(op))
    <2>1. UNCHANGED <<effects, edits>>
      BY <1>6 DEF OffloadNext, Connect, CameraThread, PhoneAddFrame, PhoneShowOriginal,
                  PhoneShowProcessed, CallBack, HandleResult, Serve, ServeFrames, ServeOn,
                  phoneVars, offloadVars
    <2>2. UNCHANGED <<effectTasks, created>>
      BY <1>6, OnlyEditsEdit
    <2>3. /\ \A i \in AskedEdits' : \E j \in AskedEdits : requests'[i].op = requests[j].op
          /\ AskedEdits' = {} => AskedEdits = {}
      <3>1. AskedEdits' = {} => AskedEdits = {}
        BY <1>6, EditsTravel
      <3>2. \A i \in 1 .. Len(requests') :
              requests'[i].op # "frames" =>
                \E j \in 1 .. Len(requests) : requests'[i] = requests[j]
        <4>1. CASE requests' = requests
          BY <4>1
        <4>2. CASE Sending
          <5>1. /\ Len(requests') = Len(requests) + 1 /\ requests'[Len(requests')] = FramesCall(K + 1)
                /\ \A i \in 1 .. Len(requests) : requests'[i] = requests[i]
                /\ Len(requests) \in Nat
            BY <4>2, RequestsSteps
          <5>2. \A i \in 1 .. Len(requests') : i \in 1 .. Len(requests) \/ i = Len(requests')
            BY <5>1
          <5> QED BY <5>1, <5>2 DEF FramesCall
        <4>3. CASE ServeFrames
          <5>1. /\ Len(requests) \in Nat
                /\ \A i \in 1 .. Len(requests') :
                     i + 1 \in 2 .. Len(requests) /\ requests'[i] = requests[i + 1]
            BY <4>3, RequestsSteps
          <5>2. \A j \in 2 .. Len(requests) : j \in 1 .. Len(requests)
            BY <5>1
          <5> QED BY <5>1, <5>2
        <4> QED BY <1>6, <4>1, <4>2, <4>3, RequestsSteps
      <3> QED BY <3>1, <3>2 DEF AskedEdits
    <2> QED BY <2>1, <2>2, <2>3 DEF ListsInStep
  <1> QED BY <1>2, <1>3, <1>4, <1>5, <1>6

\* The phone's side of the invariant.
PhoneInOrder == Asking /\ PhoneTypes /\ OneEdit /\ ListsInStep

\* What the proofs about the phone start from.
ServerSound == Sound /\ TypeOK /\ ServerTypeOK /\ CallsInStep /\ OwnFrames(Phone)

LEMMA PhoneFacts == OffloadSpec => [](ServerSound /\ PhoneInOrder)
  <1>1. OffloadInit => PhoneInOrder
    <2> SUFFICES ASSUME OffloadInit PROVE PhoneInOrder
      OBVIOUS
    <2>1. /\ K \in Nat /\ MaxEdits \in Nat /\ MaxFrames \in Nat /\ InitialEffects = 1
      BY PhoneAssumption, BoundsAssumption
    <2>2. Len(requests) = 0 /\ Len(replies) = 0 /\ Len(settled) = 0
      BY EmptySeq DEF OffloadInit
    <2>3. Asking
      BY <2>1, EmptySeq DEF OffloadInit, Asking
    <2>4. PhoneTypes
      <3>1. <<1>> \in Seq(Nat) /\ NoFrame \in Frame
        <4>1. <<>> \in Seq(Task)
          BY EmptySeq
        <4> QED BY <4>1 DEF NoFrame, Frame
      <3>2. edits \in EditsType
        BY <2>1 DEF OffloadInit, EditsType
      <3> QED BY <2>1, <2>2, <3>1, <3>2, EmptySeq DEF OffloadInit, PhoneTypes
    <2>5. AskedEdits = {} /\ AnsweredEdits = {}
      BY <2>2 DEF AskedEdits, AnsweredEdits
    <2>6. OneEdit
      BY <2>5 DEF OneEdit, OffloadInit
    <2>7. effectTasks = <<1>> /\ created.tasks = 1
      BY <2>1 DEF OffloadInit, ServerInit, Init
    <2> QED BY <2>3, <2>4, <2>5, <2>6, <2>7 DEF ListsInStep, OffloadInit, PhoneInOrder
  <1>2. /\ Sound /\ TypeOK /\ ServerTypeOK /\ ServerTypeOK' /\ CallsInStep
        /\ PhoneInOrder /\ [OffloadNext]_offloadVars
        => PhoneInOrder'
    BY PhoneKeepsAsking, PhoneKeepsTypes, PhoneKeepsOneEdit, PhoneKeepsLists DEF PhoneInOrder
  <1>3. Sound /\ TypeOK /\ ServerTypeOK /\ CallsInStep /\ OwnFrames(Phone) <=> ServerSound
    BY DEF ServerSound
  <1> QED BY <1>1, <1>2, <1>3, PhoneDrivesServer, ServerFacts, PTL DEF OffloadSpec

\* Whenever the user may edit and no edit has failed, the server applies the
\* list of effects that the phone shows, however its frames, its edits and the
\* answers interleave on the connection.
THEOREM ListsOfEffectsAgree == OffloadSpec => []ListsAgree
  <1>1. PhoneInOrder => ListsAgree
    BY DEF PhoneInOrder, ListsInStep, OneEdit, ListsAgree
  <1> QED BY <1>1, PhoneFacts, PTL

-----------------------------------------------------------------------------
(***************************************************************************)
(* The frames of the phone.                                                *)
(***************************************************************************)

\* The totals, element by element.
LEMMA TotalNat ==
  ASSUME NEW s \in Seq(Nat)
  PROVE  s \in Seq(Int) /\ Total(s) \in Nat
  <1>1. s \in Seq(Int) /\ Len(s) \in Nat
    BY LenProperties
  <1>2. Total(s) \in Int
    BY <1>1, TotalType
  <1>3. 0 <= Total(s)
    BY <1>1, TotalFront
  <1> QED BY <1>1, <1>2, <1>3

LEMMA TotalGrows ==
  ASSUME NEW s \in Seq(Nat), NEW t \in Seq(Nat), Len(t) = Len(s) + 1,
         \A i \in 1 .. Len(s) : t[i] = s[i]
  PROVE  Total(t) = Total(s) + t[Len(t)]
  <1> DEFINE x == t[Len(t)]
             u == Append(s, x)
  <1>1. s \in Seq(Int) /\ t \in Seq(Int) /\ Len(s) \in Nat /\ Len(t) \in 1 .. Len(t)
    BY LenProperties
  <1>2. x \in Int
    BY <1>1
  <1>3. /\ u \in Seq(Int) /\ Len(u) = Len(s) + 1
        /\ \A i \in 1 .. Len(s) + 1 : u[i] = IF i = Len(s) + 1 THEN x ELSE s[i]
    BY <1>1, <1>2, AppendProperties
  <1>4. t = u
    <2>1. \A i \in 1 .. Len(t) : i = Len(s) + 1 \/ i \in 1 .. Len(s)
      BY <1>1
    <2> HIDE DEF u
    <2>2. \A i \in 1 .. Len(t) : t[i] = u[i]
      BY <1>3, <2>1
    <2> QED BY <1>1, <1>3, <2>2, SeqEqual
  <1>5. Total(u) = Total(s) + x
    BY <1>1, <1>2, TotalAppend
  <1> QED BY <1>4, <1>5

LEMMA TotalShrinks ==
  ASSUME NEW s \in Seq(Nat), NEW t \in Seq(Nat), s # <<>>, Len(t) = Len(s) - 1,
         \A i \in 1 .. Len(t) : t[i] = s[i + 1]
  PROVE  Total(t) = Total(s) - s[1]
  <1>1. s \in Seq(Int) /\ t \in Seq(Int) /\ Len(s) \in Nat
    BY LenProperties
  <1>2. /\ Tail(s) \in Seq(Int) /\ Len(Tail(s)) = Len(s) - 1
        /\ \A i \in 1 .. Len(s) - 1 : Tail(s)[i] = s[i + 1]
    BY <1>1, HeadTailProperties
  <1>3. t = Tail(s)
    BY <1>1, <1>2, SeqEqual
  <1>4. Total(Tail(s)) = Total(s) - s[1]
    BY <1>1, TotalTail
  <1> QED BY <1>3, <1>4

\* The frames that calls on their way hold, and the answers.
Sizes(rs) == [i \in 1 .. Len(rs) |-> rs[i].n]
Lengths(as) == [i \in 1 .. Len(as) |-> Len(as[i].frames)]

LEMMA SizesType ==
  ASSUME NEW rs \in Seq(Asked)
  PROVE  /\ Sizes(rs) \in Seq(Nat) /\ Len(Sizes(rs)) = Len(rs) /\ Len(rs) \in Nat
         /\ \A i \in 1 .. Len(rs) : Sizes(rs)[i] = rs[i].n
  <1>1. Len(rs) \in Nat /\ \A i \in 1 .. Len(rs) : rs[i] \in Asked
    BY LenProperties
  <1>2. \A i \in 1 .. Len(rs) : rs[i].n \in Nat
    BY <1>1, AskedFields, PhoneAssumption
  <1> QED BY <1>1, <1>2 DEF Sizes

LEMMA LengthsType ==
  ASSUME NEW as \in Seq(ReplyType)
  PROVE  /\ Lengths(as) \in Seq(Nat) /\ Len(Lengths(as)) = Len(as) /\ Len(as) \in Nat
         /\ \A i \in 1 .. Len(as) : Lengths(as)[i] = Len(as[i].frames)
  <1>1. Len(as) \in Nat /\ \A i \in 1 .. Len(as) : as[i] \in ReplyType
    BY LenProperties
  <1>2. \A i \in 1 .. Len(as) : Len(as[i].frames) \in Nat
    BY <1>1, ReplyFields
  <1>3. /\ Lengths(as) \in [1 .. Len(as) -> Nat]
        /\ \A i \in 1 .. Len(as) : Lengths(as)[i] = Len(as[i].frames)
    BY <1>2, Zenon DEF Lengths
  <1>4. ASSUME NEW n \in Nat, NEW g \in [1 .. n -> Nat]
        PROVE  g \in Seq(Nat) /\ Len(g) = n
    OBVIOUS
  <1> QED BY <1>1, <1>3, <1>4

\* What the steps do to the frames on their way to the server, ...
LEMMA OnTheWaySteps ==
  ASSUME Asking, Asking', [OffloadNext]_offloadVars
  PROVE  /\ OnTheWay \in Nat /\ OnTheWay' \in Nat
         /\ requests = <<>> => OnTheWay = 0
         /\ Sending => OnTheWay' = OnTheWay + (K + 1)
         /\ ServeFrames => OnTheWay' = OnTheWay - (K + 1) /\ Head(requests).n = K + 1
         /\ ServeEdit \/ requests' = requests => OnTheWay' = OnTheWay
         /\ \A op \in {"add", "clear"} : UserEdit(op) /\ link = "up" => OnTheWay' = OnTheWay
  <1> DEFINE s == Sizes(requests)
             t == Sizes(requests')
  <1>1. /\ s \in Seq(Nat) /\ Len(s) = Len(requests) /\ Len(requests) \in Nat
        /\ \A i \in 1 .. Len(requests) : s[i] = requests[i].n
        /\ t \in Seq(Nat) /\ Len(t) = Len(requests') /\ Len(requests') \in Nat
        /\ \A i \in 1 .. Len(requests') : t[i] = requests'[i].n
    BY SizesType DEF Asking
  <1>2. OnTheWay = Total(s) /\ OnTheWay' = Total(t)
    BY DEF OnTheWay, Sizes
  <1>3. requests' = requests => t = s
    OBVIOUS
  <1>4. requests = <<>> => s = <<>>
    BY <1>1, EmptySeq
  <1> HIDE DEF s, t
  <1>5. OnTheWay \in Nat /\ OnTheWay' \in Nat
    BY <1>1, <1>2, TotalNat
  <1>6. requests = <<>> => OnTheWay = 0
    BY <1>2, <1>4, TotalEmpty
  <1>7. ASSUME NEW r \in Asked, Len(requests') = Len(requests) + 1, requests'[Len(requests')] = r,
               \A i \in 1 .. Len(requests) : requests'[i] = requests[i]
        PROVE  OnTheWay' = OnTheWay + r.n
    <2>1. Len(requests') \in 1 .. Len(requests')
      BY <1>1, <1>7
    <2>2. \A i \in 1 .. Len(requests) : i \in 1 .. Len(requests')
      BY <1>1, <1>7
    <2>3. \A i \in 1 .. Len(s) : t[i] = s[i]
      BY <1>1, <1>7, <2>2
    <2>4. Len(t) = Len(s) + 1
      BY <1>1, <1>7
    <2>5. Total(t) = Total(s) + t[Len(t)]
      BY <1>1, <2>3, <2>4, TotalGrows
    <2> QED BY <1>1, <1>2, <1>7, <2>1, <2>5
  <1>8. Sending => OnTheWay' = OnTheWay + (K + 1)
    <2>1. FramesCall(K + 1) \in Asked /\ FramesCall(K + 1).n = K + 1
      BY DEF Asked, FramesCall
    <2> QED BY <1>7, <2>1, RequestsSteps
  <1>9. ASSUME NEW op \in {"add", "clear"}, UserEdit(op), link = "up" PROVE OnTheWay' = OnTheWay
    <2>1. EditCall(op) \in Asked /\ EditCall(op).n = 0
      BY DEF Asked, EditCall
    <2>2. OnTheWay' = OnTheWay + 0
      BY <1>7, <1>9, <2>1, RequestsSteps
    <2> QED BY <1>5, <2>2
  <1>10. ASSUME ServeEdit \/ ServeFrames
         PROVE  OnTheWay' = OnTheWay - requests[1].n /\ Head(requests) = requests[1]
                /\ requests[1] \in Asked
    <2>1. /\ requests # <<>> /\ 1 \in 1 .. Len(requests)
          /\ Head(requests) = requests[1] /\ requests[1] \in Asked
          /\ Len(requests') = Len(requests) - 1
          /\ \A i \in 1 .. Len(requests') :
               i + 1 \in 2 .. Len(requests) /\ requests'[i] = requests[i + 1]
      BY <1>10, RequestsSteps
    <2>2. s # <<>>
      BY <1>1, <2>1, EmptySeq
    <2>3. \A i \in 2 .. Len(requests) : i \in 1 .. Len(requests)
      BY <1>1
    <2>4. \A i \in 1 .. Len(t) : t[i] = s[i + 1]
      BY <1>1, <2>1, <2>3
    <2>5. Total(t) = Total(s) - s[1]
      BY <1>1, <2>1, <2>2, <2>4, TotalShrinks
    <2> QED BY <1>1, <1>2, <2>1, <2>5
  <1>11. ServeFrames => OnTheWay' = OnTheWay - (K + 1) /\ Head(requests).n = K + 1
    BY <1>10, AskedFields DEF ServeFrames
  <1>12. ServeEdit => OnTheWay' = OnTheWay
    <2> SUFFICES ASSUME ServeEdit PROVE OnTheWay' = OnTheWay
      OBVIOUS
    <2>1. requests[1].op \in {"add", "clear"} /\ Head(requests) = requests[1] /\ requests[1] \in Asked
      BY <1>10 DEF ServeEdit
    <2>2. requests[1].n = 0
      BY <2>1, AskedFields
    <2> QED BY <1>5, <1>10, <2>2
  <1>13. requests' = requests => OnTheWay' = OnTheWay
    BY <1>2, <1>3
  <1> QED BY <1>5, <1>6, <1>8, <1>9, <1>11, <1>12, <1>13

\* ... to the frames of the answers, ...
LEMMA AnsweredSteps ==
  ASSUME Asking, PhoneTypes, PhoneTypes', ServerTypeOK, ServerTypeOK', [OffloadNext]_offloadVars
  PROVE  /\ Answered \in Nat /\ Answered' \in Nat
         /\ replies = <<>> => Answered = 0
         /\ Disconnect => Answered' <= Answered
         /\ HandleResult => Answered' = Answered - 1
         /\ ServeEdit \/ EditReturns \/ replies' = replies => Answered' = Answered
         /\ Answering => Answered' = Answered + Len(call'[Phone].answer)
  <1> DEFINE s == Lengths(replies)
             t == Lengths(replies')
  <1>1. /\ s \in Seq(Nat) /\ Len(s) = Len(replies) /\ Len(replies) \in Nat
        /\ \A i \in 1 .. Len(replies) : s[i] = Len(replies[i].frames)
        /\ t \in Seq(Nat) /\ Len(t) = Len(replies') /\ Len(replies') \in Nat
        /\ \A i \in 1 .. Len(replies') : t[i] = Len(replies'[i].frames)
    BY LengthsType DEF PhoneTypes
  <1>2. Answered = Total(s) /\ Answered' = Total(t)
    BY DEF Answered, Lengths
  <1>3. replies' = replies => t = s
    OBVIOUS
  <1>4. replies = <<>> => s = <<>>
    BY <1>1, EmptySeq
  <1>0. replies \in Seq(ReplyType)
    BY DEF PhoneTypes
  <1> HIDE DEF s, t
  <1>5. /\ Answered \in Nat /\ Answered' \in Nat /\ s \in Seq(Int) /\ t \in Seq(Int)
        /\ \A i \in 1 .. Len(s) : s[i] \in Nat
    BY <1>1, <1>2, TotalNat
  <1>6. replies = <<>> => Answered = 0
    BY <1>2, <1>4, TotalEmpty
  <1>7. Disconnect => Answered' <= Answered
    <2> SUFFICES ASSUME Disconnect PROVE Answered' <= Answered
      OBVIOUS
    <2>1. /\ Len(replies') <= Len(replies)
          /\ \A i \in 1 .. Len(replies') : i \in 1 .. Len(replies) /\ replies'[i] = replies[i]
      BY <1>0, RepliesSteps
    <2>2. Len(t) <= Len(s) /\ \A i \in 1 .. Len(t) : t[i] = s[i]
      BY <1>1, <2>1
    <2> QED BY <1>1, <1>2, <2>2, TotalFront
  <1>8. ASSUME HandleResult \/ EditReturns
        PROVE  /\ 1 \in 1 .. Len(s) /\ s # <<>> /\ s[1] = Len(replies[1].frames)
               /\ replies[1].frames \in Seq(Frame) /\ Head(replies) = replies[1]
    <2>1. 1 \in 1 .. Len(replies) /\ replies[1] \in ReplyType /\ Head(replies) = replies[1]
      BY <1>0, <1>8, RepliesSteps
    <2>2. s # <<>>
      BY <1>1, <2>1, EmptySeq
    <2> QED BY <1>1, <2>1, <2>2, ReplyFields
  <1>9. ASSUME EditReturns \/ (HandleResult /\ Len(replies[1].frames) = 1)
        PROVE  Answered' = Answered - s[1]
    <2>1. /\ Len(replies') = Len(replies) - 1
          /\ \A i \in 1 .. Len(replies') :
               i + 1 \in 2 .. Len(replies) /\ replies'[i] = replies[i + 1]
      BY <1>0, <1>9, RepliesSteps
    <2>2. \A i \in 2 .. Len(replies) : i \in 1 .. Len(replies)
      BY <1>1
    <2>3. Len(t) = Len(s) - 1 /\ \A i \in 1 .. Len(t) : t[i] = s[i + 1]
      BY <1>1, <2>1, <2>2
    <2> QED BY <1>1, <1>2, <1>8, <1>9, <2>3, TotalShrinks
  <1>10. HandleResult => Answered' = Answered - 1
    <2> SUFFICES ASSUME HandleResult PROVE Answered' = Answered - 1
      OBVIOUS
    <2>1. CASE Len(replies[1].frames) = 1
      BY <1>8, <1>9, <2>1
    <2>2. CASE Len(replies[1].frames) # 1
      <3>1. /\ Len(replies') = Len(replies) /\ replies'[1].frames = Tail(replies[1].frames)
            /\ \A i \in 2 .. Len(replies) : replies'[i] = replies[i]
        BY <1>0, <2>2, RepliesSteps
      <3>2. replies[1].frames # <<>>
        BY <1>8 DEF HandleResult
      <3>3. Len(Tail(replies[1].frames)) = Len(replies[1].frames) - 1
        BY <1>8, <3>2, HeadTailProperties
      <3>4. \A i \in 2 .. Len(replies) : i \in 1 .. Len(replies)
        BY <1>1
      <3>8. Len(t) = Len(s)
        BY <1>1, <3>1
      <3>9. 1 \in 1 .. Len(replies') /\ t[1] = Len(replies'[1].frames)
        BY <1>1, <1>8, <3>8
      <3>10. t[1] = s[1] - 1
        BY <1>8, <3>1, <3>3, <3>9
      <3>11. ASSUME NEW i \in 2 .. Len(s) PROVE t[i] = s[i]
        <4>1. i \in 1 .. Len(replies) /\ i \in 1 .. Len(replies') /\ i \in 2 .. Len(replies)
          BY <1>1, <3>4, <3>8
        <4>2. replies'[i] = replies[i]
          BY <3>1, <4>1
        <4>3. t[i] = Len(replies'[i].frames) /\ s[i] = Len(replies[i].frames)
          BY <1>1, <4>1
        <4> QED BY <4>2, <4>3
      <3>5. Len(t) = Len(s) /\ t[1] = s[1] - 1 /\ \A i \in 2 .. Len(s) : t[i] = s[i]
        BY <3>8, <3>10, <3>11
      <3>6. Total(t) = Total(s) - s[1] + t[1]
        BY <1>5, <1>8, <3>5, TotalFirst
      <3>7. s[1] \in Nat
        BY <1>5, <1>8
      <3> QED BY <1>2, <1>5, <3>5, <3>6, <3>7
    <2> QED BY <2>1, <2>2
  <1>11. EditReturns => Answered' = Answered
    <2> SUFFICES ASSUME EditReturns PROVE Answered' = Answered
      OBVIOUS
    <2>1. replies[1].frames = <<>>
      BY <1>8 DEF EditReturns
    <2>2. s[1] = 0
      BY <1>8, <2>1, EmptySeq
    <2> QED BY <1>5, <1>9, <2>2
  <1>12. ASSUME ServeEdit \/ Answering
         PROVE  Answered' = Answered + Len(replies'[Len(replies')].frames)
    <2>1. /\ Len(replies') = Len(replies) + 1
          /\ \A i \in 1 .. Len(replies) : replies'[i] = replies[i]
      BY <1>0, <1>12, RepliesSteps
    <2>2. Len(replies') \in 1 .. Len(replies') /\ \A i \in 1 .. Len(replies) : i \in 1 .. Len(replies')
      BY <1>1, <2>1
    <2>3. Len(t) = Len(s) + 1 /\ \A i \in 1 .. Len(s) : t[i] = s[i]
      BY <1>1, <2>1, <2>2
    <2>4. Total(t) = Total(s) + t[Len(t)]
      BY <1>1, <2>3, TotalGrows
    <2> QED BY <1>1, <1>2, <2>2, <2>4
  <1>13. ServeEdit => Answered' = Answered
    <2> SUFFICES ASSUME ServeEdit PROVE Answered' = Answered
      OBVIOUS
    <2>1. Len(replies'[Len(replies')].frames) = 0
      BY <1>0, RepliesSteps, EmptySeq
    <2> QED BY <1>5, <1>12, <2>1
  <1>14. Answering => Answered' = Answered + Len(call'[Phone].answer)
    BY <1>0, <1>12, RepliesSteps
  <1>15. replies' = replies => Answered' = Answered
    BY <1>2, <1>3
  <1> QED BY <1>5, <1>6, <1>7, <1>10, <1>11, <1>13, <1>14, <1>15

\* ... and to the frames in the hands of the handler.
LEMMA InCallSteps ==
  ASSUME Asking, ServerTypeOK, CallsInStep, [OffloadNext]_offloadVars
  PROVE  /\ InCall \in Nat
         /\ ServeFrames => call[Phone].at = "idle" /\ InCall = 0 /\ InCall' = Head(requests).n
         /\ ServeOn =>
              \/ InCall' = InCall /\ call[Phone].at # "idle" /\ replies' = replies
              \/ /\ CollectNext(Phone) /\ call[Phone].at # "idle" /\ call'[Phone].at = "idle"
                 /\ InCall' = 0 /\ InCall = Len(call'[Phone].answer)
         /\ ~(ServeFrames \/ ServeOn) => call' = call /\ InCall' = InCall
  <1> DEFINE k == call[Phone]
             l == call'[Phone]
             Size(m) == CASE m.at = "idle" -> 0
                          [] m.at = "offer" -> m.left + Len(m.sent)
                          [] m.at = "collect" -> Len(m.sent)
  <1>0. Phone \in Connection
    BY PhoneAssumption
  <1>1. /\ k \in CallRecord /\ call \in [Connection -> CallRecord]
        /\ k.at \in {"idle", "offer", "collect"} /\ k.left \in Nat
        /\ k.sent \in Seq(Nat) /\ Len(k.sent) \in Nat
        /\ k.answer \in Seq(Frame) /\ Len(k.answer) \in Nat
        /\ MaxFrames \in Nat /\ count.frames \in Nat /\ CallShape(k)
    <2>1. k \in CallRecord /\ call \in [Connection -> CallRecord] /\ CallShape(k)
      BY <1>0, CallSteps DEF CallsInStep
    <2> HIDE DEF k
    <2>2. count.frames \in Nat
      BY CountersAreNumbers DEF ServerTypeOK
    <2>3. call \in [Connection -> CallRecord]
      BY <2>1
    <2> QED BY <2>1, <2>2, <2>3, CallFields
  <1>2. InCall = Size(k) /\ InCall' = Size(l)
    BY DEF InCall
  <1>3. \A m : call' = [call EXCEPT ![Phone] = m] => l = m
    BY <1>0, <1>1
  <1>4. InCall \in Nat
    BY <1>1, <1>2
  <1>5. ServeFrames => k.at = "idle" /\ InCall = 0 /\ InCall' = Head(requests).n
    <2> SUFFICES ASSUME ServeFrames
                 PROVE  k.at = "idle" /\ InCall = 0 /\ InCall' = Head(requests).n
      OBVIOUS
    <2> DEFINE n == Head(requests).n
               m == [at |-> "offer", left |-> n, sent |-> <<>>, answer |-> <<>>]
    <2>1. AddFramesCall(Phone, n) /\ n \in BatchSize
      <3>1. Head(requests) \in Asked /\ Head(requests).op = "frames"
        BY HeadTailProperties DEF ServeFrames, Asking
      <3>2. n \in BatchSize
        BY <3>1, AskedFields, PhoneAssumption
      <3> QED BY <3>2 DEF ServeFrames
    <2>2. k.at = "idle" /\ call' = [call EXCEPT ![Phone] = m] /\ n \in 1 .. MaxFrames
      BY <1>0, <2>1, CallSteps
    <2> HIDE DEF n
    <2>3. Size(m) = n
      BY <1>1, <2>2, EmptySeq
    <2>4. l = m
      BY <1>3, <2>2
    <2> HIDE DEF k, l, m
    <2> QED BY <1>2, <2>2, <2>3, <2>4 DEF n
  <1>6. ASSUME OfferNext(Phone) PROVE InCall' = InCall /\ k.at # "idle"
    <2> DEFINE e == count.frames + 1
               m == [at |-> "offer", left |-> k.left - 1, sent |-> Append(k.sent, e),
                     answer |-> k.answer]
    <2>1. k.at = "offer" /\ k.left > 0 /\ call' = [call EXCEPT ![Phone] = m]
      BY <1>0, <1>6, CallSteps
    <2>2. l = m
      BY <1>3, <2>1
    <2>3. Len(Append(k.sent, e)) = Len(k.sent) + 1
      BY <1>1, AppendProperties
    <2> HIDE DEF k, e, l
    <2>4. Size(m) = Size(k)
      BY <1>1, <2>1, <2>3
    <2> QED BY <1>2, <2>1, <2>2, <2>4
  <1>7. ASSUME BeginCollect(Phone) PROVE InCall' = InCall /\ k.at # "idle"
    <2> DEFINE m == [at |-> "collect", left |-> Len(k.sent), sent |-> k.sent, answer |-> k.answer]
    <2>1. k.at = "offer" /\ k.left = 0 /\ call' = [call EXCEPT ![Phone] = m]
      BY <1>0, <1>7, CallSteps
    <2>2. l = m
      BY <1>3, <2>1
    <2> HIDE DEF k, l
    <2>3. Size(m) = Size(k)
      BY <1>1, <2>1
    <2> QED BY <1>2, <2>1, <2>2, <2>3
  <1>8. ASSUME CollectNext(Phone)
        PROVE  /\ k.at # "idle" /\ l.at # "idle" => InCall' = InCall
               /\ l.at = "idle" => InCall' = 0 /\ InCall = Len(l.answer)
    <2> DEFINE f == Head(queue[Processed])
               a == Append(k.answer, f)
               m == [at |-> IF k.left = 1 THEN "idle" ELSE "collect", left |-> k.left - 1,
                     sent |-> k.sent, answer |-> a]
    <2>1. k.at = "collect" /\ f \in Frame /\ call' = [call EXCEPT ![Phone] = m]
      BY <1>0, <1>8, CallSteps
    <2>2. l = m
      BY <1>3, <2>1
    <2>3. Len(a) = Len(k.answer) + 1
      BY <1>1, <2>1, AppendProperties
    <2>4. Len(k.answer) + k.left = Len(k.sent)
      BY <1>1, <2>1 DEF CallShape
    <2> HIDE DEF k, a, l
    <2>5. Size(k) = Len(k.sent) /\ (m.at # "idle" => Size(m) = Len(k.sent))
          /\ (m.at = "idle" => Size(m) = 0 /\ k.left = 1)
      BY <2>1
    <2> QED BY <1>1, <1>2, <2>1, <2>2, <2>3, <2>4, <2>5
  <1>9. ASSUME ServeOn
        PROVE  \/ InCall' = InCall /\ k.at # "idle" /\ replies' = replies
               \/ /\ CollectNext(Phone) /\ k.at # "idle" /\ l.at = "idle"
                  /\ InCall' = 0 /\ InCall = Len(l.answer)
    <2>1. CASE OfferNext(Phone) /\ UNCHANGED replies
      BY <1>6, <2>1
    <2>2. CASE BeginCollect(Phone) /\ UNCHANGED replies
      BY <1>7, <2>2
    <2>3. CASE /\ CollectNext(Phone)
               /\ IF l.at = "idle" THEN Reply(Answer("frames", l.answer)) ELSE UNCHANGED replies
      <3>1. k.at # "idle"
        BY <2>3 DEF CollectNext
      <3>2. CASE l.at = "idle"
        BY <1>8, <2>3, <3>1, <3>2
      <3>3. CASE l.at # "idle"
        BY <1>8, <2>3, <3>1, <3>3
      <3> QED BY <3>2, <3>3
    <2> QED BY <1>9, <2>1, <2>2, <2>3 DEF ServeOn
  <1>10. ~(ServeFrames \/ ServeOn) => call' = call
    BY DEF OffloadNext, Serve, ServeEdit, AddEffectCall, ClearEffectsCall, CameraThread, CallBack,
           Connect, Disconnect, UserEdit, PhoneAddFrame, PhoneShowOriginal, PhoneShowProcessed,
           HandleResult, EditReturns, Construct, serverVars, phoneVars, offloadVars
  <1>11. call' = call => InCall' = InCall
    BY <1>2
  <1> QED BY <1>4, <1>5, <1>9, <1>10, <1>11

\* The answers and the calls of a link come with the link, and numFrames counts
\* the frames without an answer: exactly, as long as the link lasts.
Accounts ==
  /\ link = "connecting" => replies = <<>> /\ call[Phone].at = "idle"
  /\ link \in {"connecting", "up"} => numFrames = buffer + OnTheWay + InCall + Answered
  /\ link = "down" => numFrames >= buffer + Answered
  /\ 0 <= numFrames /\ numFrames <= Len(settled)

LEMMA PhoneKeepsAccounts ==
  ASSUME Asking, Asking', PhoneTypes, PhoneTypes', ServerTypeOK, ServerTypeOK', CallsInStep,
         Accounts, [OffloadNext]_offloadVars
  PROVE  Accounts'
  <1> DEFINE w == OnTheWay
             h == InCall
             a == Answered
             n == numFrames
             b == buffer
             z == Len(settled)
  <1>1. /\ w \in Nat /\ w' \in Nat /\ h \in Nat /\ a \in Nat /\ a' \in Nat /\ K \in Nat
        /\ n \in Int /\ b \in Nat /\ z \in Nat
    BY OnTheWaySteps, InCallSteps, AnsweredSteps, LenProperties, PhoneAssumption
    DEF PhoneTypes, Asking
  <1>2. /\ link = "connecting" => replies = <<>> /\ call[Phone].at = "idle"
        /\ link \in {"connecting", "up"} => n = b + w + h + a
        /\ link = "down" => n >= b + a
        /\ 0 <= n /\ n <= z
    BY DEF Accounts
  <1>3. SUFFICES /\ link' = "connecting" => replies' = <<>> /\ call'[Phone].at = "idle"
                 /\ link' \in {"connecting", "up"} => n' = b' + w' + h' + a'
                 /\ link' = "down" => n' >= b' + a'
                 /\ 0 <= n' /\ n' <= z'
    BY DEF Accounts
  <1> HIDE DEF w, h, a, n, b, z
  <1>4. ASSUME UNCHANGED <<requests, replies, call>> PROVE w' = w /\ a' = a /\ h' = h
    BY <1>4, OnTheWaySteps, AnsweredSteps DEF w, a, h, InCall
  <1>5. CASE Connect
    <2>1. link = "connecting" /\ link' = "up" /\ UNCHANGED <<requests, replies, call, n, b, z>>
      BY <1>5 DEF Connect, serverVars, n, b, z
    <2> QED BY <1>2, <1>4, <2>1
  <1>6. CASE Disconnect
    <2>1. link = "up" /\ link' = "down" /\ UNCHANGED <<n, b, z>>
      BY <1>6 DEF Disconnect, serverVars, n, b, z
    <2>2. a' <= a
      BY <1>6, AnsweredSteps DEF a
    <2> QED BY <1>1, <1>2, <2>1, <2>2
  <1>7. ASSUME NEW op \in {"add", "clear"}, UserEdit(op)
        PROVE  /\ link' = "connecting" => replies' = <<>> /\ call'[Phone].at = "idle"
               /\ link' \in {"connecting", "up"} => n' = b' + w' + h' + a'
               /\ link' = "down" => n' >= b' + a'
               /\ 0 <= n' /\ n' <= z'
    <2>1. /\ UNCHANGED <<replies, call, n, b, z>>
          /\ link' = link \/ link' = "crashed"
      BY <1>7 DEF UserEdit, serverVars, n, b, z
    <2>2. w' = w
      <3>1. link = "up" => w' = w
        BY <1>7, OnTheWaySteps DEF w
      <3>2. link # "up" => requests' = requests
        BY <1>7 DEF UserEdit
      <3> QED BY <3>1, <3>2, OnTheWaySteps DEF w
    <2>3. a' = a /\ h' = h
      BY <2>1, AnsweredSteps DEF a, h, InCall
    <2> QED BY <1>2, <2>1, <2>2, <2>3
  <1>8. CASE PhoneAddFrame
    <2>1. /\ UNCHANGED <<replies, call>> /\ n' = n + 1 /\ z' = z + 1 /\ link # "crashed"
      <3>1. settled \in Seq(Nat) /\ 1 + edits.answered \in Nat
        BY EditsSteps DEF PhoneTypes
      <3>2. Len(Append(settled, 1 + edits.answered)) = Len(settled) + 1
        BY <3>1, AppendProperties
      <3> QED BY <1>8, <3>2 DEF PhoneAddFrame, serverVars, n, z
    <2>2. a' = a /\ h' = h
      BY <2>1, AnsweredSteps DEF a, h, InCall
    <2>3. CASE b + 1 > K /\ link = "up"
      <3>1. w' = w + (K + 1) /\ b = K /\ b' = 0
        BY <1>8, <2>3, OnTheWaySteps, RequestsSteps DEF Sending, w, b
      <3>2. link' = link
        BY <1>1, <1>8, <2>3 DEF PhoneAddFrame, b
      <3> QED BY <1>1, <1>2, <2>1, <2>2, <2>3, <3>1, <3>2
    <2>4. CASE b + 1 <= K \/ link # "up"
      <3>1. /\ b' = b + 1 /\ requests' = requests /\ (link' = link \/ link' = "crashed")
        BY <1>1, <1>8, <2>4 DEF PhoneAddFrame, b
      <3>2. w' = w
        BY <3>1, OnTheWaySteps DEF w
      <3>3. n = b + w + h + a => n' = b' + w' + h' + a'
        BY <1>1, <2>1, <2>2, <3>1, <3>2
      <3>4. n >= b + a => n' >= b' + a'
        BY <1>1, <2>1, <2>2, <3>1
      <3>5. 0 <= n' /\ n' <= z'
        BY <1>1, <1>2, <2>1
      <3> QED BY <1>2, <2>1, <3>1, <3>3, <3>4, <3>5
    <2> QED BY <1>1, <2>3, <2>4
  <1>9. CASE HandleResult
    <2>1. /\ UNCHANGED <<requests, call, link, b, z>> /\ n' = n - 1 /\ link # "crashed"
          /\ replies # <<>>
      BY <1>9 DEF HandleResult, CountDown, serverVars, n, b, z
    <2>2. a' = a - 1
      BY <1>9, AnsweredSteps DEF a
    <2>3. w' = w /\ h' = h
      BY <2>1, OnTheWaySteps DEF w, h, InCall
    <2>4. link \in {"up", "down"}
      BY <1>2, <2>1 DEF Asking
    <2> QED BY <1>1, <1>2, <2>1, <2>2, <2>3, <2>4
  <1>10. CASE EditReturns
    <2>1. UNCHANGED <<requests, call, link, n, b, z>> /\ replies # <<>>
      BY <1>10 DEF EditReturns, serverVars, n, b, z
    <2>2. a' = a
      BY <1>10, AnsweredSteps DEF a
    <2>3. w' = w /\ h' = h
      BY <2>1, OnTheWaySteps DEF w, h, InCall
    <2> QED BY <1>2, <2>1, <2>2, <2>3
  <1>11. CASE ServeEdit
    <2>1. UNCHANGED <<call, link, n, b, z>> /\ link = "up"
      BY <1>11, RequestsSteps DEF ServeEdit, AddEffectCall, ClearEffectsCall, n, b, z
    <2>2. a' = a /\ w' = w
      BY <1>11, OnTheWaySteps, AnsweredSteps DEF a, w
    <2>3. h' = h
      BY <2>1 DEF h, InCall
    <2> QED BY <1>2, <2>1, <2>2, <2>3
  <1>12. CASE ServeFrames
    <2>1. UNCHANGED <<replies, link, n, b, z>> /\ link = "up"
      BY <1>12, RequestsSteps DEF ServeFrames, n, b, z
    <2>2. a' = a /\ w' = w - (K + 1) /\ h = 0 /\ h' = K + 1
      BY <1>12, <2>1, OnTheWaySteps, AnsweredSteps, InCallSteps DEF a, w, h
    <2> QED BY <1>1, <1>2, <2>1, <2>2
  <1>13. CASE ServeOn
    <2>1. UNCHANGED <<requests, link, n, b, z>>
      BY <1>13 DEF ServeOn, n, b, z
    <2>2. w' = w
      BY <2>1, OnTheWaySteps DEF w
    <2>3. CASE h' = h /\ call[Phone].at # "idle" /\ replies' = replies
      <3>1. a' = a
        BY <2>3, AnsweredSteps DEF a
      <3> QED BY <1>2, <2>1, <2>2, <2>3, <3>1
    <2>4. CASE /\ CollectNext(Phone) /\ call[Phone].at # "idle" /\ call'[Phone].at = "idle"
               /\ h' = 0 /\ h = Len(call'[Phone].answer)
      <3>1. CASE link = "up"
        <4>1. a' = a + h
          BY <1>13, <2>4, <3>1, AnsweredSteps DEF Answering, a
        <4>2. n = b + w + h + a /\ n' = n /\ b' = b /\ w' = w /\ h' = 0 /\ z' = z
          BY <1>2, <2>1, <2>2, <2>4, <3>1
        <4>3. n' = b' + w' + h' + a'
          BY <1>1, <4>1, <4>2
        <4> QED BY <1>2, <2>1, <3>1, <4>2, <4>3
      <3>2. CASE link # "up"
        <4>1. replies' = replies
          BY <1>13, <2>4, <3>2 DEF ServeOn, Reply
        <4>2. a' = a
          BY <4>1, AnsweredSteps DEF a
        <4> QED BY <1>2, <2>1, <2>4, <3>2, <4>1, <4>2
      <3> QED BY <3>1, <3>2
    <2> QED BY <1>13, <2>3, <2>4, InCallSteps DEF h
  <1>14. CASE \/ PhoneShowOriginal \/ PhoneShowProcessed
              \/ (Construct /\ UNCHANGED phoneVars) \/ (Work /\ UNCHANGED <<call, phoneVars>>)
              \/ UNCHANGED offloadVars
    <2>1. UNCHANGED <<requests, replies, call, link, n, b, z>>
      BY <1>14 DEF PhoneShowOriginal, PhoneShowProcessed, Construct, serverVars, phoneVars,
                   offloadVars, n, b, z
    <2> QED BY <1>2, <1>4, <2>1
  <1> QED BY <1>5, <1>6, <1>7, <1>8, <1>9, <1>10, <1>11, <1>12, <1>13, <1>14
      DEF OffloadNext, CameraThread, CallBack, Serve

\* The counter of the phone never loses count while the link lasts.
THEOREM AccountsInvariant == OffloadSpec => []Accounts
  <1>1. OffloadInit => Accounts
    <2> SUFFICES ASSUME OffloadInit PROVE Accounts
      OBVIOUS
    <2>1. call[Phone].at = "idle"
      BY PhoneAssumption DEF OffloadInit, ServerInit, NoCall
    <2>2. InCall = 0
      BY <2>1 DEF InCall
    <2>3. Len(requests) = 0 /\ Len(replies) = 0 /\ Len(settled) = 0 /\ link = "connecting"
          /\ replies = <<>> /\ numFrames = 0 /\ buffer = 0
      BY EmptySeq DEF OffloadInit
    <2>4. OnTheWay = 0 /\ Answered = 0
      <3>1. Sizes(requests) = <<>> /\ Lengths(replies) = <<>>
        BY <2>3 DEF Sizes, Lengths
      <3> QED BY <3>1, TotalEmpty DEF OnTheWay, Answered, Sizes, Lengths
    <2> QED BY <2>1, <2>2, <2>3, <2>4 DEF Accounts
  <1>2. /\ ServerSound /\ ServerSound' /\ PhoneInOrder /\ PhoneInOrder'
        /\ Accounts /\ [OffloadNext]_offloadVars
        => Accounts'
    BY PhoneKeepsAccounts DEF ServerSound, PhoneInOrder
  <1> QED BY <1>1, <1>2, PhoneFacts, PTL DEF OffloadSpec

\* As long as the link lasts, numFrames is the number of frames without an
\* answer, wherever they are; afterwards it is never too low.
THEOREM FramesAreAccounted == OffloadSpec => []FramesAccounted
  <1>1. Accounts => FramesAccounted
    BY DEF Accounts, FramesAccounted
  <1> QED BY <1>1, AccountsInvariant, PTL

\* Every variable keeps its type: the buffer and the counter their bounds as well.
THEOREM OffloadTypeCorrect == OffloadSpec => []OffloadTypeOK
  <1>1. ServerSound /\ PhoneInOrder /\ Accounts => OffloadTypeOK
    <2> SUFFICES ASSUME ServerSound, PhoneInOrder, Accounts PROVE OffloadTypeOK
      OBVIOUS
    <2>1. /\ ServerTypeOK /\ Asking /\ PhoneTypes /\ OneEdit
      BY DEF ServerSound, PhoneInOrder
    <2>2. /\ Len(settled) \in Nat /\ MaxFrames \in Nat /\ MaxEdits \in Nat
      BY <2>1, LenProperties, BoundsAssumption, PhoneAssumption DEF PhoneTypes
    <2>3. buffer \in 0 .. MaxFrames /\ numFrames \in 0 .. MaxFrames
      BY <2>1, <2>2 DEF Asking, PhoneTypes, Accounts
    <2>4. requests \in Seq([op : Op, n : Nat])
      <3>1. Asked \subseteq [op : Op, n : Nat]
        BY PhoneAssumption DEF Asked, Op, FramesCall, EditCall
      <3>2. Len(requests) \in Nat /\ requests \in [1 .. Len(requests) -> Asked]
        BY <2>1, LenProperties DEF Asking
      <3>3. requests \in [1 .. Len(requests) -> [op : Op, n : Nat]]
        BY <3>1, <3>2
      <3>4. ASSUME NEW T, NEW n \in Nat, NEW g \in [1 .. n -> T] PROVE g \in Seq(T)
        OBVIOUS
      <3> QED BY <3>2, <3>3, <3>4
    <2>5. edits \in [made : 0 .. MaxEdits, answered : 0 .. MaxEdits, failed : 0 .. MaxEdits]
      <3>1. /\ edits \in EditsType
            /\ edits.made = edits.answered + edits.failed + IF ui = "waiting" THEN 1 ELSE 0
        BY <2>1 DEF PhoneTypes, OneEdit
      <3>2. /\ edits = [made |-> edits.made, answered |-> edits.answered, failed |-> edits.failed]
            /\ edits.made \in 0 .. MaxEdits /\ edits.answered \in Nat /\ edits.failed \in Nat
        BY <3>1 DEF EditsType
      <3>3. edits.answered \in 0 .. MaxEdits /\ edits.failed \in 0 .. MaxEdits
        BY <2>2, <3>1, <3>2
      <3> QED BY <3>2, <3>3
    <2> QED BY <2>1, <2>3, <2>4, <2>5 DEF OffloadTypeOK, Asking, PhoneTypes, ReplyType
  <1> QED BY <1>1, PhoneFacts, AccountsInvariant, PTL

-----------------------------------------------------------------------------
(***************************************************************************)
(* The pictures of the phone.  A processed picture travels from the        *)
(* pipeline to the screen through the answer of a call, the answers on the *)
(* link and the queue of the phone.                                        *)
(***************************************************************************)

\* What the phone's steps are for the service.
LEMMA PhoneServiceSteps ==
  ASSUME Sound, [OffloadNext]_offloadVars
  PROVE  /\ ServeEdit => Service!Configure /\ Edit /\ call' = call
         /\ OfferNext(Phone) => Service!Accept
         /\ CollectNext(Phone) => Service!Fetch
         /\ ServeFrames \/ BeginCollect(Phone) => UNCHANGED Service!serviceVars
         /\ ServeOn => OfferNext(Phone) \/ BeginCollect(Phone) \/ CollectNext(Phone)
         /\ ~(ServeEdit \/ ServeFrames \/ ServeOn) =>
              /\ call' = call
              /\ \/ Service!Lose \/ UNCHANGED Service!serviceVars
                 \/ \E f \in Waiting : \E k \in f.born .. Len(history) : Service!Deliver(f, k)
  <1>1. ServeEdit => Service!Configure /\ Edit /\ call' = call
    BY HandlerSteps DEF ServeEdit, AddEffectCall, ClearEffectsCall, Edit
  <1>2. /\ OfferNext(Phone) => Service!Accept
        /\ CollectNext(Phone) => Service!Fetch
    BY HandlerSteps DEF OfferNext, CollectNext
  <1>3. ServeFrames \/ BeginCollect(Phone) => UNCHANGED Service!serviceVars
    BY HandlerSteps DEF ServeFrames, AddFramesCall, BeginCollect
  <1>4. ServeOn => OfferNext(Phone) \/ BeginCollect(Phone) \/ CollectNext(Phone)
    BY DEF ServeOn
  <1>5. ASSUME ~(ServeEdit \/ ServeFrames \/ ServeOn)
        PROVE  /\ call' = call
               /\ \/ Service!Lose \/ UNCHANGED Service!serviceVars
                  \/ \E f \in Waiting : \E k \in f.born .. Len(history) : Service!Deliver(f, k)
    <2>1. CASE Construct /\ UNCHANGED phoneVars
      BY <2>1, HandlerSteps DEF Construct
    <2>2. CASE Work /\ UNCHANGED <<call, phoneVars>>
      BY <2>2, HandlerSteps
    <2>3. CASE UNCHANGED serverVars
      BY <2>3, HandlerSteps DEF serverVars
    <2> QED BY <1>5, <2>1, <2>2, <2>3
        DEF OffloadNext, Serve, CameraThread, CallBack, Connect, Disconnect, UserEdit, PhoneAddFrame,
            PhoneShowOriginal, PhoneShowProcessed, HandleResult, EditReturns, offloadVars
  <1> QED BY <1>1, <1>2, <1>3, <1>4, <1>5

\* What has been in force stays on record, and so does what the phone noted.
LEMMA PastStays ==
  ASSUME Sound, TypeOK', PhoneTypes, [OffloadNext]_offloadVars
  PROVE  /\ Len(history) \in Nat /\ Len(history') \in Nat
         /\ \A n \in 1 .. Len(history) : n \in 1 .. Len(history') /\ history'[n] = history[n]
         /\ ServeEdit => Len(history') = Len(history) + 1
         /\ ~ServeEdit => history' = history
         /\ Len(settled) \in Nat /\ Len(settled') \in Nat
         /\ \A n \in 1 .. Len(settled) : n \in 1 .. Len(settled') /\ settled'[n] = settled[n]
         /\ PhoneAddFrame => /\ Len(settled') = Len(settled) + 1
                             /\ settled'[Len(settled')] = 1 + edits.answered
         /\ ~PhoneAddFrame => settled' = settled
  <1>1. Len(history) \in Nat /\ Len(history') \in Nat
    <2>1. TypeOK => Len(history) \in Nat
      BY LenProperties DEF TypeOK
    <2> QED BY LenProperties DEF Sound, TypeOK
  <1>2. ServeEdit => /\ Len(history') = Len(history) + 1
                     /\ \A n \in 1 .. Len(history) : history'[n] = history[n]
    BY PhoneServiceSteps, WhatEditsDo DEF Sound, Listed, Lineage
  <1>3. ~ServeEdit => history' = history
    BY PhoneServiceSteps
    DEF Service!Accept, Service!Fetch, Service!Lose, Service!Deliver, Service!serviceVars
  <1>4. \A n \in 1 .. Len(history) : n \in 1 .. Len(history) + 1
    BY <1>1
  <1>5. \A n \in 1 .. Len(history) : n \in 1 .. Len(history') /\ history'[n] = history[n]
    BY <1>2, <1>3, <1>4
  <1>6. ~PhoneAddFrame => settled' = settled
    BY DEF OffloadNext, CameraThread, Connect, Disconnect, UserEdit, PhoneShowOriginal,
           PhoneShowProcessed, CallBack, HandleResult, EditReturns, Serve, ServeEdit, ServeFrames,
           ServeOn, phoneVars, offloadVars
  <1>7. settled \in Seq(Nat) /\ Len(settled) \in Nat /\ 1 + edits.answered \in Nat
    BY EditsSteps, LenProperties DEF PhoneTypes
  <1>8. PhoneAddFrame => /\ Len(settled') = Len(settled) + 1
                         /\ settled'[Len(settled')] = 1 + edits.answered
                         /\ \A n \in 1 .. Len(settled) :
                              n \in 1 .. Len(settled') /\ settled'[n] = settled[n]
    <2> DEFINE x == 1 + edits.answered
    <2>1. PhoneAddFrame => settled' = Append(settled, x)
      BY DEF PhoneAddFrame
    <2> HIDE DEF x
    <2>2. /\ Len(Append(settled, x)) = Len(settled) + 1
          /\ \A i \in 1 .. Len(settled) + 1 :
               Append(settled, x)[i] = IF i = Len(settled) + 1 THEN x ELSE settled[i]
      BY <1>7, AppendProperties DEF x
    <2>3. Len(settled) + 1 \in 1 .. Len(settled) + 1
          /\ \A n \in 1 .. Len(settled) : n \in 1 .. Len(settled) + 1 /\ n # Len(settled) + 1
      BY <1>7
    <2> QED BY <2>1, <2>2, <2>3 DEF x
  <1> QED BY <1>1, <1>2, <1>3, <1>5, <1>6, <1>7, <1>8

\* The frames that the calls of the phone have offered or are about to offer.
Pending == IF call[Phone].at = "offer" THEN call[Phone].left ELSE 0
\* All pictures that have left the server have at most this number.
Done == IF call[Phone].at = "idle" THEN count.frames ELSE Base(Phone)

LEMMA CallsTake ==
  ASSUME Sound, TypeOK', Asking, ServerTypeOK, CallsInStep, OwnFrames(Phone), [OffloadNext]_offloadVars
  PROVE  /\ count.frames \in Nat /\ count'.frames \in Nat /\ Pending \in Nat /\ Done \in Int
         /\ Done <= count.frames
         /\ ServeFrames => count'.frames = count.frames /\ Pending' = Pending + (K + 1) /\ Done' = Done
         /\ OfferNext(Phone) => /\ count'.frames = count.frames + 1 /\ Pending' = Pending - 1
                                /\ Done' = Done /\ Pending > 0
         /\ BeginCollect(Phone) => UNCHANGED <<count, Pending, Done>>
         /\ CollectNext(Phone) =>
              /\ count'.frames = count.frames /\ Pending' = Pending
              /\ Done' = IF call'[Phone].at = "idle" THEN count.frames ELSE Done
              /\ Done = Base(Phone)
         /\ ~(ServeFrames \/ ServeOn) =>
              count'.frames = count.frames /\ Pending' = Pending /\ Done' = Done
  <1> DEFINE k == call[Phone]
             l == call'[Phone]
             m == count.frames
  <1>0. Phone \in Connection
    BY PhoneAssumption
  <1>1. /\ k \in CallRecord /\ call \in [Connection -> CallRecord] /\ CallShape(k)
    BY <1>0, CallSteps DEF CallsInStep
  <1>2. /\ k.at \in {"idle", "offer", "collect"} /\ k.left \in Nat
        /\ k.sent \in Seq(Nat) /\ Len(k.sent) \in Nat
    <2> HIDE DEF k
    <2> QED BY <1>1, CallFields
  <1>3. /\ m \in Nat /\ m' \in Nat
    <2>1. TypeOK => m \in Nat
      BY CountersAreNumbers
    <2>2. TypeOK' => m' \in Nat
      BY DEF TypeOK
    <2> QED BY <2>1, <2>2 DEF Sound
  <1>4. /\ Pending = IF k.at = "offer" THEN k.left ELSE 0
        /\ Done = IF k.at = "idle" THEN m ELSE m - Len(k.sent)
        /\ Pending' = IF l.at = "offer" THEN l.left ELSE 0
        /\ Done' = IF l.at = "idle" THEN m' ELSE m' - Len(l.sent)
        /\ Base(Phone) = m - Len(k.sent)
    BY DEF Pending, Done, Base
  <1>5. \A x : call' = [call EXCEPT ![Phone] = x] => l = x
    BY <1>0, <1>1
  <1>6. Pending \in Nat /\ Done \in Int /\ Done <= m
    BY <1>2, <1>3, <1>4
  <1>7. ASSUME ServeFrames
        PROVE  m' = m /\ Pending' = Pending + (K + 1) /\ Done' = Done
    <2>1. Head(requests) \in Asked /\ Head(requests).op = "frames"
      BY <1>7, HeadTailProperties DEF ServeFrames, Asking
    <2>2. Head(requests).n = K + 1 /\ K + 1 \in BatchSize /\ AddFramesCall(Phone, K + 1) /\ K + 1 \in Nat
      BY <1>7, <2>1, AskedFields, PhoneAssumption DEF ServeFrames
    <2> DEFINE x == [at |-> "offer", left |-> K + 1, sent |-> <<>>, answer |-> <<>>]
    <2>3. k.at = "idle" /\ call' = [call EXCEPT ![Phone] = x]
      BY <1>0, <2>2, CallSteps
    <2>4. l = x /\ m' = m
      BY <1>5, <1>7, <2>3, PhoneServiceSteps DEF Service!serviceVars
    <2>5. x.at = "offer" /\ x.left = K + 1 /\ Len(x.sent) = 0
      BY EmptySeq
    <2> HIDE DEF k, l, m, x
    <2> QED BY <1>3, <1>4, <2>2, <2>3, <2>4, <2>5
  <1>8. ASSUME OfferNext(Phone)
        PROVE  m' = m + 1 /\ Pending' = Pending - 1 /\ Done' = Done /\ Pending > 0
    <2> DEFINE x == [at |-> "offer", left |-> k.left - 1, sent |-> Append(k.sent, m + 1),
                     answer |-> k.answer]
    <2>1. k.at = "offer" /\ k.left > 0 /\ call' = [call EXCEPT ![Phone] = x]
      BY <1>0, <1>8, CallSteps
    <2>2. l = x /\ m' = m + 1
      BY <1>5, <1>8, <2>1, PhoneServiceSteps DEF Service!Accept
    <2>3. Len(Append(k.sent, m + 1)) = Len(k.sent) + 1
      BY <1>2, <1>3, AppendProperties
    <2>4. x.at = "offer" /\ x.left = k.left - 1 /\ Len(x.sent) = Len(k.sent) + 1
      BY <2>3
    <2> HIDE DEF k, l, m, x
    <2> QED BY <1>2, <1>3, <1>4, <2>1, <2>2, <2>4
  <1>9. ASSUME BeginCollect(Phone) PROVE UNCHANGED <<count, Pending, Done>>
    <2> DEFINE x == [at |-> "collect", left |-> Len(k.sent), sent |-> k.sent, answer |-> k.answer]
    <2>1. k.at = "offer" /\ k.left = 0 /\ call' = [call EXCEPT ![Phone] = x]
      BY <1>0, <1>9, CallSteps
    <2>2. l = x /\ count' = count
      BY <1>5, <1>9, <2>1 DEF BeginCollect, vars
    <2>3. x.at = "collect" /\ x.sent = k.sent
      OBVIOUS
    <2> HIDE DEF k, l, x
    <2> QED BY <1>2, <1>3, <1>4, <2>1, <2>2, <2>3
  <1>10. ASSUME CollectNext(Phone)
         PROVE  /\ m' = m /\ Pending' = Pending
                /\ Done' = IF l.at = "idle" THEN m ELSE Done
                /\ Done = Base(Phone)
    <2>1. k.at = "collect" /\ l.at \in {"idle", "collect"} /\ l.sent = k.sent
      BY <1>0, <1>10, CallUpdates
    <2>2. m' = m
      BY <1>10, PhoneServiceSteps DEF Service!Fetch
    <2> HIDE DEF k, l, m
    <2> QED BY <1>2, <1>3, <1>4, <2>1, <2>2
  <1>11. ASSUME ~(ServeFrames \/ ServeOn)
         PROVE  m' = m /\ Pending' = Pending /\ Done' = Done
    <2>1. call' = call /\ m' = m
      BY <1>11, PhoneServiceSteps
      DEF Service!Configure, Service!Lose, Service!Deliver, Service!serviceVars
    <2> HIDE DEF m
    <2> QED BY <1>4, <2>1
  <1> QED BY <1>3, <1>6, <1>7, <1>8, <1>9, <1>10, <1>11

\* The number of a picture is its place among the frames of the phone.  While
\* the link lasts, those that the server has not been offered yet are on the
\* way or in the buffer.  The server has a list for every edit it answered.
Placed ==
  /\ link \in {"connecting", "up"} => Len(settled) = count.frames + Pending + OnTheWay + buffer
  /\ count.frames + Pending <= Len(settled)
  /\ \A i \in 1 .. Len(settled) : settled[i] <= 1 + edits.answered
  /\ AnsweredEdits = {} => 1 + edits.answered <= Len(history)
  /\ AnsweredEdits # {} => 2 + edits.answered <= Len(history)

\* The edits that the server has answered, at the phone or on the way.
LEMMA ListsForEdits ==
  ASSUME Sound, TypeOK', Asking, PhoneTypes, OneEdit, ServerTypeOK, ServerTypeOK', CallsInStep,
         Placed, [OffloadNext]_offloadVars
  PROVE  /\ edits.answered \in Nat /\ edits'.answered \in Nat /\ edits.answered <= edits'.answered
         /\ AnsweredEdits' = {} => 1 + edits'.answered <= Len(history')
         /\ AnsweredEdits' # {} => 2 + edits'.answered <= Len(history')
  <1> DEFINE e == edits.answered
             h == Len(history)
  <1>1. /\ edits \in EditsType /\ e \in Nat /\ e' \in Nat /\ h \in Nat /\ h' \in Nat
        /\ ServeEdit => h' = h + 1
        /\ ~ServeEdit => h' = h
    BY EditsSteps, PastStays DEF PhoneTypes
  <1>2. /\ AnsweredEdits = {} => 1 + e <= h
        /\ AnsweredEdits # {} => 2 + e <= h
    BY DEF Placed
  <1>3. h <= h'
    BY <1>1
  <1> HIDE DEF e, h
  <1>4. SUFFICES e <= e' /\ (AnsweredEdits' = {} => 1 + e' <= h') /\ (AnsweredEdits' # {} => 2 + e' <= h')
    BY <1>1 DEF e, h
  <1>5. CASE ServeEdit
    <2>1. 1 \in AskedEdits
      BY <1>5, EditsTravel
    <2>2. AnsweredEdits = {}
      BY <2>1 DEF OneEdit
    <2>3. e' = e
      BY <1>5 DEF ServeEdit, e
    <2> QED BY <1>1, <1>2, <1>5, <2>2, <2>3
  <1>6. CASE EditReturns
    <2>1. 1 \in AnsweredEdits /\ \A i \in AnsweredEdits' : i + 1 \in AnsweredEdits /\ i # 0
      BY <1>6, EditsTravel
    <2>2. AnsweredEdits' = {}
      <3>1. \A i \in AnsweredEdits' : i \in Nat
        BY DEF AnsweredEdits
      <3>2. \A i \in AnsweredEdits' : i + 1 = 1
        BY <2>1 DEF OneEdit
      <3> QED BY <2>1, <3>1, <3>2
    <2>3. e' = e + 1
      BY <1>1, <1>6, EditsSteps DEF e
    <2> QED BY <1>1, <1>2, <1>3, <2>1, <2>2, <2>3
  <1>7. ASSUME e' = e, AnsweredEdits = {} => AnsweredEdits' = {}
        PROVE  e <= e' /\ (AnsweredEdits' = {} => 1 + e' <= h') /\ (AnsweredEdits' # {} => 2 + e' <= h')
    BY <1>1, <1>2, <1>3, <1>7
  <1>8. CASE Disconnect
    BY <1>1, <1>7, <1>8, EditsSteps, EditsTravel DEF e
  <1>9. ASSUME NEW op \in {"add", "clear"}, UserEdit(op)
        PROVE  e' = e /\ AnsweredEdits' = AnsweredEdits
    <2>1. e' = e
      BY <1>1, <1>9, EditsSteps DEF e
    <2>2. CASE link = "up"
      BY <1>9, <2>1, <2>2, EditsTravel
    <2>3. CASE link # "up"
      BY <1>9, <2>1, <2>3 DEF UserEdit, AnsweredEdits
    <2> QED BY <2>2, <2>3
  <1>10. CASE ~(Disconnect \/ ServeEdit \/ EditReturns \/ \E op \in {"add", "clear"} : UserEdit(op))
    <2>1. e' = e
      BY <1>1, <1>10, EditsSteps DEF e
    <2>2. \A i, j \in AnsweredEdits' : \/ i \in AnsweredEdits /\ j \in AnsweredEdits
                                       \/ i + 1 \in AnsweredEdits /\ j + 1 \in AnsweredEdits
      BY <1>10, EditsTravel
    <2> QED BY <1>7, <2>1, <2>2
  <1> QED BY <1>5, <1>6, <1>7, <1>8, <1>9, <1>10

LEMMA PhoneKeepsPlaced ==
  ASSUME Sound, TypeOK', Asking, Asking', PhoneTypes, OneEdit, ServerTypeOK, ServerTypeOK',
         CallsInStep, OwnFrames(Phone), Accounts, Placed, [OffloadNext]_offloadVars
  PROVE  Placed'
  <1> DEFINE w == OnTheWay
             m == count.frames
             p == Pending
             b == buffer
             z == Len(settled)
             e == edits.answered
  <1>1. /\ w \in Nat /\ w' \in Nat /\ m \in Nat /\ p \in Nat /\ b \in Nat /\ b' \in Nat /\ K \in Nat
        /\ z \in Nat /\ z' \in Nat /\ e \in Nat /\ e' \in Nat /\ e <= e'
    BY OnTheWaySteps, CallsTake, PastStays, ListsForEdits, PhoneAssumption DEF Asking
  <1>2. /\ link \in {"connecting", "up"} => z = m + p + w + b
        /\ m + p <= z
        /\ \A i \in 1 .. z : settled[i] <= 1 + e
    BY DEF Placed
  <1>3. \A i \in 1 .. z' : settled'[i] <= 1 + e'
    <2>1. \A i \in 1 .. z : settled[i] \in Nat /\ settled[i] <= 1 + e'
      <3>1. \A i \in 1 .. z : settled[i] \in Nat
        BY DEF PhoneTypes
      <3> QED BY <1>1, <1>2, <3>1
    <2>2. CASE PhoneAddFrame
      <3>1. z' = z + 1 /\ settled'[z'] = 1 + e /\ \A i \in 1 .. z : settled'[i] = settled[i]
        BY <2>2, PastStays
      <3>2. \A i \in 1 .. z' : i = z' \/ i \in 1 .. z
        BY <1>1, <3>1
      <3>3. 1 + e <= 1 + e'
        BY <1>1
      <3> QED BY <2>1, <3>1, <3>2, <3>3
    <2>3. CASE ~PhoneAddFrame
      <3>1. settled' = settled
        BY <2>3, PastStays
      <3> QED BY <2>1, <3>1
    <2> QED BY <2>2, <2>3
  <1>4. SUFFICES /\ link' \in {"connecting", "up"} => z' = m' + p' + w' + b'
                 /\ m' + p' <= z'
    BY <1>3, ListsForEdits DEF Placed
  <1> HIDE DEF w, m, p, b, z, e
  <1>5. ASSUME UNCHANGED <<m, p, w, b, z>>, link' \in {"connecting", "up"} => link \in {"connecting", "up"}
        PROVE  /\ link' \in {"connecting", "up"} => z' = m' + p' + w' + b'
               /\ m' + p' <= z'
    BY <1>2, <1>5
  <1>6. ~(ServeFrames \/ ServeOn) => m' = m /\ p' = p
    BY CallsTake DEF m, p
  <1>7. ~PhoneAddFrame => z' = z
    BY PastStays DEF z
  <1>8. CASE Connect
    <2>1. link = "connecting" /\ UNCHANGED <<requests, b, z, m, p>>
      BY <1>8 DEF Connect, serverVars, vars, b, z, m, p, Pending
    <2>2. w' = w
      BY <2>1, OnTheWaySteps DEF w
    <2> QED BY <1>5, <2>1, <2>2
  <1>9. CASE Disconnect
    <2>1. link' = "down" /\ UNCHANGED <<z, m, p>>
      BY <1>9 DEF Disconnect, serverVars, vars, z, m, p, Pending
    <2> QED BY <1>2, <2>1
  <1>10. ASSUME NEW op \in {"add", "clear"}, UserEdit(op)
         PROVE  /\ UNCHANGED <<m, p, w, b, z>>
                /\ link' \in {"connecting", "up"} => link \in {"connecting", "up"}
    <2>1. /\ UNCHANGED <<b, z, m, p>> /\ (link' = link \/ link' = "crashed")
      BY <1>10 DEF UserEdit, serverVars, vars, b, z, m, p, Pending
    <2>2. link = "up" => w' = w
      BY <1>10, OnTheWaySteps DEF w
    <2>3. link # "up" => w' = w
      <3>1. link # "up" => requests' = requests
        BY <1>10 DEF UserEdit
      <3> QED BY <3>1, OnTheWaySteps DEF w
    <2> QED BY <2>1, <2>2, <2>3
  <1>11. CASE PhoneAddFrame
    <2>1. z' = z + 1 /\ UNCHANGED <<m, p>>
      BY <1>11, PastStays DEF PhoneAddFrame, serverVars, vars, z, m, p, Pending
    <2>2. CASE b + 1 > K /\ link = "up"
      <3>1. w' = w + (K + 1) /\ b = K /\ b' = 0
        BY <1>11, <2>2, OnTheWaySteps, RequestsSteps DEF Sending, w, b
      <3> QED BY <1>1, <1>2, <2>1, <2>2, <3>1
    <2>3. CASE b + 1 <= K \/ link # "up"
      <3>1. /\ b' = b + 1 /\ requests' = requests /\ (link' = link \/ link' = "crashed")
        BY <1>1, <1>11, <2>3 DEF PhoneAddFrame, b
      <3>2. w' = w
        BY <3>1, OnTheWaySteps DEF w
      <3>3. z = m + p + w + b => z' = m' + p' + w' + b'
        BY <1>1, <2>1, <3>1, <3>2
      <3>4. m' + p' <= z'
        BY <1>1, <1>2, <2>1
      <3> QED BY <1>2, <3>1, <3>3, <3>4
    <2> QED BY <1>1, <2>2, <2>3
  <1>12. CASE CallBack
    <2>1. UNCHANGED <<link, requests, b, z, m, p>>
      BY <1>12 DEF CallBack, HandleResult, EditReturns, serverVars, vars, b, z, m, p, Pending
    <2>2. w' = w
      BY <2>1, OnTheWaySteps DEF w
    <2> QED BY <1>5, <2>1, <2>2
  <1>13. CASE ServeEdit
    <2>1. UNCHANGED <<link, b, z>>
      BY <1>13 DEF ServeEdit, b, z
    <2>2. w' = w
      BY <1>13, OnTheWaySteps DEF w
    <2>3. m' = m /\ p' = p
      <3>1. Service!Configure /\ call' = call
        BY <1>13, PhoneServiceSteps
      <3> QED BY <3>1 DEF Service!Configure, m, p, Pending
    <2> QED BY <1>5, <2>1, <2>2, <2>3
  <1>14. CASE ServeFrames
    <2>1. UNCHANGED <<link, b, z>> /\ link = "up"
      BY <1>14, RequestsSteps DEF ServeFrames, b, z
    <2>2. w' = w - (K + 1) /\ m' = m /\ p' = p + (K + 1)
      BY <1>14, OnTheWaySteps, CallsTake DEF w, m, p
    <2> QED BY <1>1, <1>2, <2>1, <2>2
  <1>15. CASE ServeOn
    <2>1. UNCHANGED <<link, requests, b, z>>
      BY <1>15 DEF ServeOn, b, z
    <2>2. w' = w
      BY <2>1, OnTheWaySteps DEF w
    <2>3. \/ m' = m + 1 /\ p' = p - 1 /\ p > 0
          \/ m' = m /\ p' = p
      BY <1>15, CallsTake, PhoneServiceSteps DEF m, p
    <2> QED BY <1>1, <1>2, <2>1, <2>2, <2>3
  <1>16. CASE \/ PhoneShowOriginal \/ PhoneShowProcessed
              \/ (Construct /\ UNCHANGED phoneVars) \/ (Work /\ UNCHANGED <<call, phoneVars>>)
              \/ UNCHANGED offloadVars
    <2>1. UNCHANGED <<link, requests, b, z>> /\ call' = call
      BY <1>16 DEF PhoneShowOriginal, PhoneShowProcessed, Construct, serverVars, phoneVars,
                   offloadVars, b, z
    <2>2. w' = w
      BY <2>1, OnTheWaySteps DEF w
    <2>3. p' = p
      BY <2>1 DEF p, Pending
    <2>4. m' = m
      <3>1. (Construct \/ Work \/ UNCHANGED vars) => m' = m
        BY HandlerSteps
        DEF m, Service!Lose, Service!Deliver, Service!serviceVars
      <3> QED BY <1>16, <3>1
          DEF PhoneShowOriginal, PhoneShowProcessed, serverVars, offloadVars
    <2> QED BY <1>5, <2>1, <2>2, <2>3, <2>4
  <1> QED BY <1>5, <1>8, <1>9, <1>10, <1>11, <1>12, <1>13, <1>14, <1>15, <1>16
      DEF OffloadNext, CameraThread, Serve

\* A frame that was offered is one of the phone's, and was offered after the
\* lists had settled that its picture was taken under.
Settled(f) == f.id \in 1 .. Len(settled) /\ settled[f.id] <= f.born

OfferedSettled ==
  /\ \A g \in Waiting : Settled(g)
  /\ \A x \in 1 .. Len(queue[Processed]) : Settled(queue[Processed][x])
  /\ \A i \in 1 .. Len(call[Phone].answer) : Settled(call[Phone].answer[i])

LEMMA PhoneKeepsOffered ==
  ASSUME Sound, TypeOK', Asking, PhoneTypes, OneEdit, ServerTypeOK, ServerTypeOK', CallsInStep,
         OwnFrames(Phone), Placed, OfferedSettled, [OffloadNext]_offloadVars
  PROVE  OfferedSettled'
  <1> DEFINE r == queue[Processed]
             a == call[Phone].answer
  <1>0. Phone \in Connection /\ TypeOK
    BY PhoneAssumption DEF Sound
  <1>1. \A n, k : n \in 1 .. Len(settled) /\ settled[n] <= k
                    => n \in 1 .. Len(settled') /\ settled'[n] <= k
    BY PastStays
  <1>2. /\ \A g \in Waiting : g.id \in 1 .. Len(settled') /\ settled'[g.id] <= g.born
        /\ \A x \in 1 .. Len(r) : r[x].id \in 1 .. Len(settled') /\ settled'[r[x].id] <= r[x].born
        /\ \A i \in 1 .. Len(a) : a[i].id \in 1 .. Len(settled') /\ settled'[a[i].id] <= a[i].born
    BY <1>1 DEF OfferedSettled, Settled
  <1>3. SUFFICES
        /\ \A g \in Waiting' : g.id \in 1 .. Len(settled') /\ settled'[g.id] <= g.born
        /\ \A x \in 1 .. Len(r') : r'[x].id \in 1 .. Len(settled') /\ settled'[r'[x].id] <= r'[x].born
        /\ \A i \in 1 .. Len(a') : a'[i].id \in 1 .. Len(settled') /\ settled'[a'[i].id] <= a'[i].born
    BY DEF OfferedSettled, Settled
  <1>4. ASSUME Waiting' \subseteq Waiting, r' = r, a' = a
        PROVE
        /\ \A g \in Waiting' : g.id \in 1 .. Len(settled') /\ settled'[g.id] <= g.born
        /\ \A x \in 1 .. Len(r') : r'[x].id \in 1 .. Len(settled') /\ settled'[r'[x].id] <= r'[x].born
        /\ \A i \in 1 .. Len(a') : a'[i].id \in 1 .. Len(settled') /\ settled'[a'[i].id] <= a'[i].born
    <2> HIDE DEF r, a
    <2> QED BY <1>2, <1>4
  <1>5. CASE ServeEdit
    <2>1. Waiting' \subseteq Waiting /\ r' = r /\ call' = call
      BY <1>5, PhoneServiceSteps DEF Service!Configure
    <2> QED BY <1>4, <2>1
  <1>6. CASE ServeFrames
    <2>1. Waiting' = Waiting /\ r' = r
      BY <1>6, PhoneServiceSteps DEF Service!serviceVars
    <2>2. a' = <<>>
      <3>1. Head(requests) \in Asked /\ Head(requests).op = "frames"
        BY <1>6, HeadTailProperties DEF ServeFrames, Asking
      <3>2. K + 1 \in BatchSize /\ AddFramesCall(Phone, K + 1)
        BY <1>6, <3>1, AskedFields, PhoneAssumption DEF ServeFrames
      <3> QED BY <1>0, <3>2, CallUpdates
    <2>3. 1 .. Len(a') = {}
      BY <2>2, EmptySeq
    <2> HIDE DEF r, a
    <2> QED BY <1>2, <2>1, <2>3
  <1>7. CASE OfferNext(Phone)
    <2> DEFINE m == count.frames + 1
    <2>1. /\ Waiting' \subseteq Waiting \cup {[id |-> m, born |-> Len(history)]}
          /\ r' = r /\ a' = a /\ history' = history
      BY <1>0, <1>7, CallUpdates, PhoneServiceSteps DEF Service!Accept
    <2>2. m \in 1 .. Len(settled) /\ settled[m] <= Len(history)
      <3>1. /\ count.frames \in Nat /\ Pending \in Nat /\ Pending > 0
            /\ Len(settled) \in Nat /\ Len(history) \in Nat /\ edits.answered \in Nat
        BY <1>7, CallsTake, PastStays, ListsForEdits
      <3>2. count.frames + Pending <= Len(settled) /\ 1 + edits.answered <= Len(history)
        BY <3>1 DEF Placed
      <3>3. m \in 1 .. Len(settled)
        BY <3>1, <3>2
      <3>4. settled[m] \in Nat /\ settled[m] <= 1 + edits.answered
        BY <3>3 DEF Placed, PhoneTypes
      <3> QED BY <3>1, <3>2, <3>3, <3>4
    <2>3. m \in 1 .. Len(settled') /\ settled'[m] <= Len(history)
      BY <1>1, <2>2
    <2> HIDE DEF r, a, m
    <2> QED BY <1>2, <2>1, <2>3
  <1>8. CASE BeginCollect(Phone)
    <2>1. Waiting' = Waiting /\ r' = r
      BY <1>8, PhoneServiceSteps DEF Service!serviceVars
    <2>2. a' = a
      BY <1>0, <1>8, CallUpdates
    <2> QED BY <1>4, <2>1, <2>2
  <1>9. CASE CollectNext(Phone)
    <2>1. Service!Fetch /\ a' = Append(a, Head(r)) /\ Head(r) \in Frame
      BY <1>0, <1>9, CallUpdates, PhoneServiceSteps
    <2>2. /\ 1 \in 1 .. Len(r) /\ Head(r) = r[1] /\ Waiting' = Waiting
          /\ \A x \in 1 .. Len(r') : x + 1 \in 1 .. Len(r) /\ r'[x] = r[x + 1]
      BY <1>0, <2>1, FetchLeaves DEF Service!Fetch
    <2>3. a \in Seq(Frame)
      <3>1. call[Phone] \in CallRecord
        BY <1>0, CallSteps
      <3> QED BY <3>1, CallFields
    <2> DEFINE f == Head(r)
    <2> HIDE DEF r, a, f
    <2>4. /\ Len(a) \in Nat /\ Len(a') = Len(a) + 1
          /\ \A i \in 1 .. Len(a) + 1 : a'[i] = IF i = Len(a) + 1 THEN f ELSE a[i]
      <3>1. f \in Frame /\ a' = Append(a, f)
        BY <2>1 DEF f
      <3> QED BY <2>3, <3>1, Appended, LenProperties
    <2>5. \A i \in 1 .. Len(a') : i = Len(a) + 1 \/ (i # Len(a) + 1 /\ i \in 1 .. Len(a))
      BY <2>4
    <2>6. f.id \in 1 .. Len(settled') /\ settled'[f.id] <= f.born
      BY <1>2, <2>2 DEF f
    <2> QED BY <1>2, <2>2, <2>4, <2>5, <2>6
  <1>10. CASE ~(ServeEdit \/ ServeFrames \/ ServeOn)
    <2>1. call' = call
      BY <1>10, PhoneServiceSteps
    <2>2. CASE Service!Lose \/ UNCHANGED Service!serviceVars
      <3>1. Waiting' \subseteq Waiting /\ r' = r
        BY <2>2 DEF Service!Lose, Service!serviceVars
      <3> QED BY <1>4, <2>1, <3>1
    <2>3. ASSUME NEW f \in Waiting, NEW k, Service!Deliver(f, k)
          PROVE
          /\ \A g \in Waiting' : g.id \in 1 .. Len(settled') /\ settled'[g.id] <= g.born
          /\ \A x \in 1 .. Len(r') :
               r'[x].id \in 1 .. Len(settled') /\ settled'[r'[x].id] <= r'[x].born
          /\ \A i \in 1 .. Len(a') :
               a'[i].id \in 1 .. Len(settled') /\ settled'[a'[i].id] <= a'[i].born
      <3>1. Waiting' \subseteq Waiting
        BY <2>3 DEF Service!Deliver
      <3>2. \A x \in 1 .. Len(r') : \/ x \in 1 .. Len(r) /\ r'[x] = r[x]
                                    \/ r'[x].id = f.id /\ r'[x].born = f.born
        BY <1>0, <2>3, DeliverAdds
      <3>3. a' = a
        BY <2>1
      <3> HIDE DEF r, a
      <3> QED BY <1>2, <3>1, <3>2, <3>3
    <2> QED BY <1>10, <2>2, <2>3, PhoneServiceSteps
  <1> QED BY <1>5, <1>6, <1>7, <1>8, <1>9, <1>10, PhoneServiceSteps

\* The places of the pictures on the link, in the order of their arrival.
IsPlace(rs, i, x) == i \in 1 .. Len(rs) /\ x \in 1 .. Len(rs[i].frames)
Before(i, x, j, y) == i < j \/ (i = j /\ x < y)

\* The pictures on the link keep their order: an action takes off a whole answer
\* (d) or the first picture of the first answer (e), or cuts some off at the end.
LEMMA PicturesTravel ==
  ASSUME Asking, PhoneTypes, ServerTypeOK, ServerTypeOK', [OffloadNext]_offloadVars
  PROVE  /\ Answering =>
              \A i, x : IsPlace(replies', i, x) =>
                \/ IsPlace(replies, i, x) /\ replies'[i] = replies[i]
                \/ /\ i = Len(replies) + 1 /\ x \in 1 .. Len(call'[Phone].answer)
                   /\ replies'[i].frames = call'[Phone].answer
         /\ ~Answering =>
              \E d, e \in {0, 1} :
                /\ HandleResult => d + e = 1
                /\ \A i, x : IsPlace(replies', i, x) =>
                     LET y == IF i = 1 THEN x + e ELSE x
                     IN  IsPlace(replies, i + d, y) /\ replies'[i].frames[x] = replies[i + d].frames[y]
         /\ HandleResult => IsPlace(replies, 1, 1) /\ Head(Head(replies).frames) = replies[1].frames[1]
  <1> DEFINE Moves(d, e) ==
               \A i, x : IsPlace(replies', i, x) =>
                 LET y == IF i = 1 THEN x + e ELSE x
                 IN  IsPlace(replies, i + d, y) /\ replies'[i].frames[x] = replies[i + d].frames[y]
  <1>1. /\ replies \in Seq(ReplyType) /\ replies' \in Seq(ReplyType) /\ Len(replies) \in Nat
    BY RepliesSteps DEF PhoneTypes
  <1>2. /\ \A i \in 1 .. Len(replies) : Len(replies[i].frames) \in Nat
        /\ \A i \in 1 .. Len(replies') : Len(replies'[i].frames) \in Nat
    BY <1>1, ReplyFields
  <1>3. ASSUME HandleResult
        PROVE  /\ IsPlace(replies, 1, 1) /\ Head(Head(replies).frames) = replies[1].frames[1]
               /\ replies[1].frames \in Seq(Frame) /\ replies[1].frames # <<>>
    <2>1. 1 \in 1 .. Len(replies) /\ Head(replies) = replies[1] /\ replies[1] \in ReplyType
      BY <1>1, <1>3, RepliesSteps
    <2>2. replies[1].frames \in Seq(Frame) /\ replies[1].frames # <<>>
      BY <1>3, <2>1, ReplyFields DEF HandleResult
    <2>3. Len(replies[1].frames) \in Nat /\ Len(replies[1].frames) # 0
      BY <2>2, EmptySeq, LenProperties
    <2>4. Head(replies[1].frames) = replies[1].frames[1]
      BY <2>2, HeadTailProperties
    <2> QED BY <2>1, <2>2, <2>3, <2>4 DEF IsPlace
  <1>4. ASSUME EditReturns \/ (HandleResult /\ Len(replies[1].frames) = 1) PROVE Moves(1, 0)
    <2>1. /\ Len(replies') = Len(replies) - 1
          /\ \A i \in 1 .. Len(replies') : i + 1 \in 2 .. Len(replies) /\ replies'[i] = replies[i + 1]
      BY <1>1, <1>4, RepliesSteps
    <2> SUFFICES ASSUME NEW i, NEW x, IsPlace(replies', i, x)
                 PROVE  /\ IsPlace(replies, i + 1, IF i = 1 THEN x + 0 ELSE x)
                        /\ replies'[i].frames[x] =
                             replies[i + 1].frames[IF i = 1 THEN x + 0 ELSE x]
      OBVIOUS
    <2>2. i \in 1 .. Len(replies') /\ x \in 1 .. Len(replies[i + 1].frames) /\ i + 1 \in 1 .. Len(replies)
      BY <1>1, <2>1 DEF IsPlace
    <2>3. x \in Nat /\ (IF i = 1 THEN x + 0 ELSE x) = x
      BY <1>2, <2>2
    <2> QED BY <2>1, <2>2, <2>3 DEF IsPlace
  <1>5. ASSUME HandleResult, Len(replies[1].frames) # 1 PROVE Moves(0, 1)
    <2>1. /\ Len(replies') = Len(replies) /\ replies'[1].frames = Tail(replies[1].frames)
          /\ \A i \in 2 .. Len(replies) : replies'[i] = replies[i]
      BY <1>1, <1>5, RepliesSteps
    <2> DEFINE f == replies[1].frames
    <2>2. /\ Len(Tail(f)) = Len(f) - 1 /\ Len(f) \in Nat
          /\ \A x \in 1 .. Len(f) - 1 : Tail(f)[x] = f[x + 1]
      <3> HIDE DEF f
      <3>1. f \in Seq(Frame) /\ f # <<>>
        BY <1>3, <1>5 DEF f
      <3> QED BY <3>1, HeadTailProperties, LenProperties
    <2> SUFFICES ASSUME NEW i, NEW x, IsPlace(replies', i, x)
                 PROVE  /\ IsPlace(replies, i + 0, IF i = 1 THEN x + 1 ELSE x)
                        /\ replies'[i].frames[x] =
                             replies[i + 0].frames[IF i = 1 THEN x + 1 ELSE x]
      OBVIOUS
    <2>3. i \in 1 .. Len(replies) /\ i + 0 = i /\ x \in 1 .. Len(replies'[i].frames)
      BY <1>1, <2>1 DEF IsPlace
    <2>4. CASE i = 1
      <3>1. x \in 1 .. Len(Tail(f)) /\ replies'[i].frames[x] = Tail(f)[x]
        BY <2>1, <2>3, <2>4
      <3>2. x \in 1 .. Len(f) - 1 /\ x + 1 \in 1 .. Len(f)
        BY <2>2, <3>1
      <3>3. IsPlace(replies, 1, x + 1)
        BY <2>3, <2>4, <3>2 DEF IsPlace
      <3>4. replies'[i].frames[x] = replies[1].frames[x + 1]
        BY <2>2, <3>1, <3>2
      <3> QED BY <2>3, <2>4, <3>3, <3>4
    <2>5. CASE i # 1
      <3>1. i \in 2 .. Len(replies)
        BY <1>1, <2>3, <2>5
      <3> QED BY <2>1, <2>3, <2>5, <3>1 DEF IsPlace
    <2> QED BY <2>4, <2>5
  <1>6. ASSUME NEW n \in Nat, n <= Len(replies), \A i \in 1 .. n : replies'[i] = replies[i],
               \A i, x : IsPlace(replies', i, x) => i \in 1 .. n
        PROVE  Moves(0, 0)
    <2> SUFFICES ASSUME NEW i, NEW x, IsPlace(replies', i, x)
                 PROVE  /\ IsPlace(replies, i + 0, IF i = 1 THEN x + 0 ELSE x)
                        /\ replies'[i].frames[x] = replies[i + 0].frames[IF i = 1 THEN x + 0 ELSE x]
      OBVIOUS
    <2>1. i \in 1 .. n /\ i \in 1 .. Len(replies) /\ i + 0 = i /\ replies'[i] = replies[i]
          /\ x \in 1 .. Len(replies[i].frames)
      BY <1>1, <1>6 DEF IsPlace
    <2>2. (IF i = 1 THEN x + 0 ELSE x) = x
      BY <1>2, <2>1
    <2> QED BY <2>1, <2>2 DEF IsPlace
  <1>7. Disconnect => Moves(0, 0)
    <2> SUFFICES ASSUME Disconnect PROVE Moves(0, 0)
      OBVIOUS
    <2>1. /\ Len(replies') <= Len(replies)
          /\ \A i \in 1 .. Len(replies') : i \in 1 .. Len(replies) /\ replies'[i] = replies[i]
      BY <1>1, RepliesSteps
    <2>2. Len(replies') \in Nat /\ \A i, x : IsPlace(replies', i, x) => i \in 1 .. Len(replies')
      BY <1>1, LenProperties DEF IsPlace
    <2> QED BY <1>6, <2>1, <2>2
  <1>8. replies' = replies => Moves(0, 0)
    <2> SUFFICES ASSUME replies' = replies PROVE Moves(0, 0)
      OBVIOUS
    <2>1. \A i, x : IsPlace(replies', i, x) => i \in 1 .. Len(replies)
      BY DEF IsPlace
    <2>2. \A i \in 1 .. Len(replies) : replies'[i] = replies[i]
      OBVIOUS
    <2>3. Len(replies) <= Len(replies)
      BY <1>1
    <2> QED BY <1>1, <1>6, <2>1, <2>2, <2>3
  <1>9. ASSUME ServeEdit \/ Answering
        PROVE  /\ Len(replies') = Len(replies) + 1
               /\ \A i \in 1 .. Len(replies) : replies'[i] = replies[i]
               /\ \A i, x : IsPlace(replies', i, x) => i \in 1 .. Len(replies) \/ i = Len(replies')
    <2>1. /\ Len(replies') = Len(replies) + 1
          /\ \A i \in 1 .. Len(replies) : replies'[i] = replies[i]
      BY <1>1, <1>9, RepliesSteps
    <2>2. \A i \in 1 .. Len(replies') : i \in 1 .. Len(replies) \/ i = Len(replies')
      BY <1>1, <2>1
    <2> QED BY <2>1, <2>2 DEF IsPlace
  <1>10. ServeEdit => Moves(0, 0)
    <2> SUFFICES ASSUME ServeEdit PROVE Moves(0, 0)
      OBVIOUS
    <2>1. replies'[Len(replies')].frames = <<>>
      BY <1>1, RepliesSteps
    <2>2. 1 .. Len(replies'[Len(replies')].frames) = {}
      BY <2>1, EmptySeq
    <2>3. \A i, x : IsPlace(replies', i, x) => i \in 1 .. Len(replies)
      BY <1>9, <2>2 DEF IsPlace
    <2>4. Len(replies) <= Len(replies)
      BY <1>1
    <2> QED BY <1>1, <1>6, <1>9, <2>3, <2>4
  <1>11. Answering =>
           \A i, x : IsPlace(replies', i, x) =>
             \/ IsPlace(replies, i, x) /\ replies'[i] = replies[i]
             \/ /\ i = Len(replies) + 1 /\ x \in 1 .. Len(call'[Phone].answer)
                /\ replies'[i].frames = call'[Phone].answer
    <2> SUFFICES ASSUME Answering, NEW i, NEW x, IsPlace(replies', i, x)
                 PROVE  \/ IsPlace(replies, i, x) /\ replies'[i] = replies[i]
                        \/ /\ i = Len(replies) + 1 /\ x \in 1 .. Len(call'[Phone].answer)
                           /\ replies'[i].frames = call'[Phone].answer
      OBVIOUS
    <2>1. replies'[Len(replies')].frames = call'[Phone].answer
      BY <1>1, RepliesSteps
    <2> QED BY <1>9, <2>1 DEF IsPlace
  <1>12. HandleResult => Moves(1, 0) \/ Moves(0, 1)
    BY <1>4, <1>5
  <1>13. ~Answering => Moves(0, 0) \/ Moves(1, 0) \/ HandleResult
    BY <1>1, <1>4, <1>7, <1>8, <1>10, RepliesSteps
  <1>14. ~Answering => \E d, e \in {0, 1} : (HandleResult => d + e = 1) /\ Moves(d, e)
    <2> HIDE DEF Moves
    <2>1. 1 + 0 = 1 /\ 0 + 1 = 1
      OBVIOUS
    <2> QED BY <1>12, <1>13, <2>1
  <1>15. HandleResult => IsPlace(replies, 1, 1) /\ Head(Head(replies).frames) = replies[1].frames[1]
    BY <1>3
  <1> QED BY <1>11, <1>14, <1>15

\* The pictures at the phone have their fields.
LEMMA PictureTypes ==
  ASSUME PhoneTypes
  PROVE  /\ shown.id \in Nat
         /\ \A x \in 1 .. Len(processed) : processed[x] \in Frame /\ processed[x].id \in Nat
         /\ \A i, x : IsPlace(replies, i, x) =>
              replies[i].frames[x] \in Frame /\ replies[i].frames[x].id \in Nat
  <1>1. shown.id \in Nat
    BY FrameFields DEF PhoneTypes
  <1>2. \A x \in 1 .. Len(processed) : processed[x] \in Frame /\ processed[x].id \in Nat
    BY ElementOfSeq, FrameFields DEF PhoneTypes
  <1>3. ASSUME NEW i, NEW x, IsPlace(replies, i, x)
        PROVE  replies[i].frames[x] \in Frame /\ replies[i].frames[x].id \in Nat
    <2>1. i \in 1 .. Len(replies) /\ x \in 1 .. Len(replies[i].frames)
      BY <1>3 DEF IsPlace
    <2>2. replies[i] \in ReplyType
      BY <2>1, ElementOfSeq DEF PhoneTypes
    <2>3. replies[i].frames \in Seq(Frame)
      BY <2>2, ReplyFields
    <2>4. replies[i].frames[x] \in Frame
      BY <2>1, <2>3, ElementOfSeq
    <2> QED BY <2>4, FrameFields
  <1> QED BY <1>1, <1>2, <1>3

\* What the steps do to the queue of the phone and to the screen.
LEMMA ScreenSteps ==
  ASSUME Asking, PhoneTypes, ServerTypeOK, ServerTypeOK', [OffloadNext]_offloadVars
  PROVE  /\ Len(processed) \in Nat
         /\ HandleResult =>
              /\ shown' = shown
              /\ \A x \in 1 .. Len(processed') :
                   \/ x \in 1 .. Len(processed) /\ processed'[x] = processed[x]
                   \/ x = Len(processed) + 1 /\ processed'[x] = replies[1].frames[1]
         /\ PhoneShowProcessed =>
              /\ 1 \in 1 .. Len(processed) /\ shown' = processed[1] /\ replies' = replies
              /\ \A x \in 1 .. Len(processed') :
                   /\ x + 1 \in 1 .. Len(processed) /\ 1 < x + 1
                   /\ processed'[x] = processed[x + 1]
         /\ ~(HandleResult \/ PhoneShowProcessed) => UNCHANGED <<processed, shown>>
  <1>1. processed \in Seq(Frame) /\ Len(processed) \in Nat
    BY LenProperties DEF PhoneTypes
  <1>2. ASSUME HandleResult
        PROVE  /\ shown' = shown
               /\ \A x \in 1 .. Len(processed') :
                    \/ x \in 1 .. Len(processed) /\ processed'[x] = processed[x]
                    \/ x = Len(processed) + 1 /\ processed'[x] = replies[1].frames[1]
    <2> DEFINE f == Head(Head(replies).frames)
    <2>1. f = replies[1].frames[1] /\ f \in Frame
      BY <1>2, PicturesTravel, PictureTypes
    <2>2. processed' = processed \/ processed' = Append(processed, f)
      BY <1>2 DEF HandleResult
    <2>3. shown' = shown
      BY <1>2 DEF HandleResult
    <2> HIDE DEF f
    <2>4. /\ Len(Append(processed, f)) = Len(processed) + 1
          /\ \A x \in 1 .. Len(processed) + 1 :
               Append(processed, f)[x] = IF x = Len(processed) + 1 THEN f ELSE processed[x]
      BY <1>1, <2>1, Appended
    <2>5. \A x \in 1 .. Len(processed) + 1 : x = Len(processed) + 1 \/ x \in 1 .. Len(processed)
      BY <1>1
    <2> QED BY <2>1, <2>2, <2>3, <2>4, <2>5
  <1>3. ASSUME PhoneShowProcessed
        PROVE  /\ 1 \in 1 .. Len(processed) /\ shown' = processed[1] /\ replies' = replies
               /\ \A x \in 1 .. Len(processed') :
                    /\ x + 1 \in 1 .. Len(processed) /\ 1 < x + 1
                    /\ processed'[x] = processed[x + 1]
    <2>1. /\ processed # <<>> /\ processed' = Tail(processed) /\ shown' = Head(processed)
          /\ replies' = replies
      BY <1>3 DEF PhoneShowProcessed
    <2>2. /\ Len(processed) # 0 /\ Head(processed) = processed[1]
          /\ Len(Tail(processed)) = Len(processed) - 1
          /\ \A x \in 1 .. Len(processed) - 1 : Tail(processed)[x] = processed[x + 1]
      BY <1>1, <2>1, HeadTailProperties, EmptySeq
    <2> QED BY <1>1, <2>1, <2>2
  <1>4. ~(HandleResult \/ PhoneShowProcessed) => UNCHANGED <<processed, shown>>
    BY DEF OffloadNext, CameraThread, Connect, Disconnect, UserEdit, PhoneAddFrame,
           PhoneShowOriginal, CallBack, EditReturns, Serve, ServeEdit, ServeFrames, ServeOn,
           phoneVars, offloadVars
  <1> QED BY <1>1, <1>2, <1>3, <1>4

\* The last shown picture, those in the queue of the phone and those on the link
\* are in the order of their numbers.
InLine ==
  /\ shown.id <= Done
  /\ \A x \in 1 .. Len(processed) : shown.id < processed[x].id /\ processed[x].id <= Done
  /\ \A x, y \in 1 .. Len(processed) : x < y => processed[x].id < processed[y].id
  /\ \A i, x : IsPlace(replies, i, x) =>
       /\ shown.id < replies[i].frames[x].id /\ replies[i].frames[x].id <= Done
       /\ \A y \in 1 .. Len(processed) : processed[y].id < replies[i].frames[x].id
  /\ \A i, x, j, y : IsPlace(replies, i, x) /\ IsPlace(replies, j, y) /\ Before(i, x, j, y)
       => replies[i].frames[x].id < replies[j].frames[y].id

\* A new answer joins the line at its end.
LEMMA AnswerJoinsLine ==
  ASSUME Sound, TypeOK', Asking, PhoneTypes, ServerTypeOK, ServerTypeOK', CallsInStep,
         OwnFrames(Phone), OwnFrames(Phone)', InLine, [OffloadNext]_offloadVars, Answering
  PROVE  InLine'
  <1> DEFINE a == call'[Phone].answer
             m == count.frames
             b == Base(Phone)
             d == Done
  <1>0. Phone \in Connection
    BY PhoneAssumption
  <1>1. /\ CollectNext(Phone) /\ call'[Phone].at = "idle"
        /\ d = b /\ Done' = m /\ m \in Nat /\ d \in Int /\ d <= m /\ count'.frames = m
    BY CallsTake DEF Answering
  <1>2. Base(Phone)' = b
    BY <1>0, <1>1, CallUpdates DEF Base
  <1>3. /\ a \in Seq(Frame) /\ \A x \in 1 .. Len(a) : x \in Nat /\ a[x].id \in Nat
    <2>1. call'[Phone] \in CallRecord
      BY <1>0 DEF ServerTypeOK, CallRecord
    <2>2. a \in Seq(Frame) /\ Len(a) \in Nat
      BY <2>1, CallFields
    <2>3. \A x \in 1 .. Len(a) : a[x] \in Frame
      BY <2>2, ElementOfSeq
    <2> HIDE DEF a
    <2> QED BY <2>2, <2>3, FrameFields
  <1>4. /\ \A x \in 1 .. Len(a) : b + x <= a[x].id /\ a[x].id <= m
        /\ \A x, y \in 1 .. Len(a) : x <= y => y - x <= a[y].id - a[x].id
    BY <1>1, <1>2 DEF OwnFrames, Climbs
  <1> HIDE DEF a, m, b, d
  <1>5. /\ \A x \in 1 .. Len(a) : d < a[x].id /\ a[x].id <= m
        /\ \A x, y \in 1 .. Len(a) : x < y => a[x].id < a[y].id
    <2>1. ASSUME NEW x \in 1 .. Len(a) PROVE d < a[x].id /\ a[x].id <= m
      <3>1. x \in Nat /\ x >= 1 /\ a[x].id \in Nat /\ b + x <= a[x].id
        BY <1>3, <1>4
      <3> QED BY <1>1, <1>4, <3>1
    <2>2. ASSUME NEW x \in 1 .. Len(a), NEW y \in 1 .. Len(a), x < y PROVE a[x].id < a[y].id
      <3>1. x \in Nat /\ y \in Nat /\ a[x].id \in Nat /\ a[y].id \in Nat
        BY <1>3
      <3>2. x <= y
        BY <2>2, <3>1
      <3>3. y - x <= a[y].id - a[x].id
        BY <1>4, <3>2
      <3> QED BY <2>2, <3>1, <3>3
    <2> QED BY <2>1, <2>2
  <1>6. UNCHANGED <<processed, shown>>
    BY DEF Answering, ServeOn
  <1>7. /\ shown.id \in Nat
        /\ \A y \in 1 .. Len(processed) : processed[y].id \in Nat
        /\ \A i, x : IsPlace(replies, i, x) => replies[i].frames[x].id \in Nat
    BY PictureTypes
  <1>8. /\ shown.id <= d
        /\ \A y \in 1 .. Len(processed) : shown.id < processed[y].id /\ processed[y].id <= d
        /\ \A x, y \in 1 .. Len(processed) : x < y => processed[x].id < processed[y].id
        /\ \A i, x : IsPlace(replies, i, x) =>
             /\ shown.id < replies[i].frames[x].id /\ replies[i].frames[x].id <= d
             /\ \A y \in 1 .. Len(processed) : processed[y].id < replies[i].frames[x].id
        /\ \A i, x, j, y : IsPlace(replies, i, x) /\ IsPlace(replies, j, y) /\ Before(i, x, j, y)
             => replies[i].frames[x].id < replies[j].frames[y].id
    BY DEF InLine, d
  <1>9. ASSUME NEW i, NEW x, IsPlace(replies', i, x)
        PROVE  /\ i \in Nat
               /\ \/ /\ IsPlace(replies, i, x) /\ replies'[i] = replies[i] /\ i <= Len(replies)
                  \/ /\ i = Len(replies) + 1 /\ x \in 1 .. Len(a) /\ replies'[i].frames = a
    <2>1. Len(replies) \in Nat /\ i \in 1 .. Len(replies')
      BY <1>9, LenProperties DEF PhoneTypes, IsPlace
    <2>2. \/ /\ IsPlace(replies, i, x) /\ replies'[i] = replies[i]
          \/ /\ i = Len(replies) + 1 /\ x \in 1 .. Len(a) /\ replies'[i].frames = a
      BY <1>9, PicturesTravel DEF a
    <2> QED BY <2>1, <2>2 DEF IsPlace
  <1>10. ASSUME NEW i, NEW x, IsPlace(replies', i, x)
         PROVE  /\ shown.id < replies'[i].frames[x].id /\ replies'[i].frames[x].id <= m
                /\ \A y \in 1 .. Len(processed) : processed[y].id < replies'[i].frames[x].id
    <2>1. CASE IsPlace(replies, i, x) /\ replies'[i] = replies[i]
      <3>1. replies[i].frames[x].id <= d /\ replies[i].frames[x].id \in Nat
        BY <1>7, <1>8, <2>1
      <3> QED BY <1>1, <1>8, <2>1, <3>1
    <2>2. CASE x \in 1 .. Len(a) /\ replies'[i].frames = a
      <3>1. d < a[x].id /\ a[x].id <= m /\ a[x].id \in Nat
        BY <1>3, <1>5, <2>2
      <3> QED BY <1>1, <1>7, <1>8, <2>2, <3>1
    <2> QED BY <1>9, <1>10, <2>1, <2>2
  <1>11. ASSUME NEW i, NEW x, NEW j, NEW y,
                IsPlace(replies', i, x), IsPlace(replies', j, y), Before(i, x, j, y)
         PROVE  replies'[i].frames[x].id < replies'[j].frames[y].id
    <2>0. Len(replies) \in Nat
      BY LenProperties DEF PhoneTypes
    <2>1. /\ i \in Nat /\ j \in Nat
          /\ \/ IsPlace(replies, i, x) /\ replies'[i] = replies[i] /\ i <= Len(replies)
             \/ i = Len(replies) + 1 /\ x \in 1 .. Len(a) /\ replies'[i].frames = a
          /\ \/ IsPlace(replies, j, y) /\ replies'[j] = replies[j] /\ j <= Len(replies)
             \/ j = Len(replies) + 1 /\ y \in 1 .. Len(a) /\ replies'[j].frames = a
      BY <1>9, <1>11
    <2>2. CASE /\ IsPlace(replies, i, x) /\ replies'[i] = replies[i]
               /\ IsPlace(replies, j, y) /\ replies'[j] = replies[j]
      BY <1>8, <1>11, <2>2
    <2>3. CASE /\ IsPlace(replies, i, x) /\ replies'[i] = replies[i]
               /\ y \in 1 .. Len(a) /\ replies'[j].frames = a
      <3>1. replies[i].frames[x].id <= d /\ d < a[y].id
            /\ replies[i].frames[x].id \in Nat /\ a[y].id \in Nat
        BY <1>3, <1>5, <1>7, <1>8, <2>3
      <3> QED BY <1>1, <2>3, <3>1
    <2>4. CASE i = Len(replies) + 1 /\ x \in 1 .. Len(a) /\ replies'[i].frames = a
      <3>1. j = i /\ x < y
        BY <1>11, <2>0, <2>1, <2>4 DEF Before
      <3>2. y \in 1 .. Len(a)
        BY <2>0, <2>1, <2>4, <3>1
      <3> QED BY <1>5, <2>4, <3>1, <3>2
    <2> QED BY <2>1, <2>2, <2>3, <2>4
  <1>12. /\ shown.id <= m
         /\ \A y \in 1 .. Len(processed) : shown.id < processed[y].id /\ processed[y].id <= m
    BY <1>1, <1>7, <1>8
  <1> QED BY <1>1, <1>6, <1>8, <1>10, <1>11, <1>12 DEF InLine

LEMMA PhoneKeepsLine ==
  ASSUME Sound, TypeOK', Asking, PhoneTypes, ServerTypeOK, ServerTypeOK', CallsInStep,
         OwnFrames(Phone), OwnFrames(Phone)', InLine, [OffloadNext]_offloadVars
  PROVE  InLine'
  <1> DEFINE d == Done
  <1>1. d \in Int /\ d' \in Int /\ d <= d'
    <2>1. d \in Int /\ count.frames \in Int /\ d <= count.frames
          /\ (d' = d \/ d' = count.frames)
      BY CallsTake, PhoneServiceSteps
    <2> HIDE DEF d
    <2> QED BY <2>1
  <1>2. CASE Answering
    BY <1>2, AnswerJoinsLine
  <1>3. CASE ~Answering
    <2>1. PICK e \in {0, 1}, f \in {0, 1} :
            /\ HandleResult => e + f = 1
            /\ \A i, x : IsPlace(replies', i, x) =>
                 LET y == IF i = 1 THEN x + f ELSE x
                 IN  IsPlace(replies, i + e, y) /\ replies'[i].frames[x] = replies[i + e].frames[y]
      BY <1>3, PicturesTravel
    <2> DEFINE At(i, x) == IF i = 1 THEN x + f ELSE x
    <2>2. \A i, x : IsPlace(replies', i, x) =>
            IsPlace(replies, i + e, At(i, x)) /\ replies'[i].frames[x] = replies[i + e].frames[At(i, x)]
      BY <2>1
    <2>3. \A i, x : IsPlace(replies', i, x) => i \in Nat \ {0} /\ x \in Nat \ {0}
      <3> SUFFICES ASSUME NEW i, NEW x, IsPlace(replies', i, x)
                   PROVE  i \in Nat \ {0} /\ x \in Nat \ {0}
        OBVIOUS
      <3>1. replies' \in Seq(ReplyType)
        BY RepliesSteps DEF PhoneTypes
      <3>2. i \in 1 .. Len(replies') /\ Len(replies') \in Nat /\ x \in 1 .. Len(replies'[i].frames)
        BY <3>1, LenProperties DEF IsPlace
      <3>3. replies'[i] \in ReplyType
        BY <3>1, <3>2, ElementOfSeq
      <3>4. Len(replies'[i].frames) \in Nat
        BY <3>3, ReplyFields
      <3> QED BY <3>2, <3>4
    <2>4. \A i, x, j, y : /\ IsPlace(replies', i, x) /\ IsPlace(replies', j, y)
                          /\ Before(i, x, j, y)
                          => Before(i + e, At(i, x), j + e, At(j, y))
      <3> SUFFICES ASSUME NEW i \in Nat, NEW x \in Nat, NEW j \in Nat, NEW y \in Nat,
                          i < j \/ (i = j /\ x < y)
                   PROVE  i + e < j + e \/ (i + e = j + e /\ At(i, x) < At(j, y))
        BY <2>3 DEF Before
      <3>1. CASE i < j
        BY <3>1
      <3>2. CASE i = j /\ x < y
        BY <3>2
      <3> QED BY <3>1, <3>2
    <2>5. HandleResult => \A i, x : IsPlace(replies', i, x) => Before(1, 1, i + e, At(i, x))
      <3> SUFFICES ASSUME HandleResult, NEW i \in Nat \ {0}, NEW x \in Nat \ {0}
                   PROVE  1 < i + e \/ (1 = i + e /\ 1 < At(i, x))
        BY <2>3 DEF Before
      <3>1. e = 1 \/ f = 1
        BY <2>1
      <3>2. CASE i = 1
        BY <3>1, <3>2
      <3>3. CASE i # 1
        BY <3>3
      <3> QED BY <3>2, <3>3
    <2> HIDE DEF At, d
    <2>6. /\ shown.id <= d
          /\ \A x \in 1 .. Len(processed) : shown.id < processed[x].id /\ processed[x].id <= d
          /\ \A x, y \in 1 .. Len(processed) : x < y => processed[x].id < processed[y].id
          /\ \A i, x : IsPlace(replies, i, x) =>
               /\ shown.id < replies[i].frames[x].id /\ replies[i].frames[x].id <= d
               /\ \A y \in 1 .. Len(processed) : processed[y].id < replies[i].frames[x].id
          /\ \A i, x, j, y : IsPlace(replies, i, x) /\ IsPlace(replies, j, y) /\ Before(i, x, j, y)
               => replies[i].frames[x].id < replies[j].frames[y].id
      BY DEF InLine, d
    <2>7. /\ shown.id \in Nat
          /\ \A y \in 1 .. Len(processed) : processed[y].id \in Nat
          /\ \A i, x : IsPlace(replies, i, x) => replies[i].frames[x].id \in Nat
      BY PictureTypes
    <2>8. \A n \in Nat : n <= d => n <= d'
      BY <1>1
    \* What is on the link afterwards was there before, in the same order.
    <2>9. /\ \A i, x : IsPlace(replies', i, x) =>
               /\ shown.id < replies'[i].frames[x].id /\ replies'[i].frames[x].id <= d'
               /\ \A y \in 1 .. Len(processed) : processed[y].id < replies'[i].frames[x].id
          /\ \A i, x, j, y : IsPlace(replies', i, x) /\ IsPlace(replies', j, y) /\ Before(i, x, j, y)
               => replies'[i].frames[x].id < replies'[j].frames[y].id
      BY <2>2, <2>4, <2>6, <2>7, <2>8
    <2>10. /\ shown.id <= d'
           /\ \A x \in 1 .. Len(processed) : shown.id < processed[x].id /\ processed[x].id <= d'
      BY <2>6, <2>7, <2>8
    <2>11. CASE HandleResult
      <3> DEFINE g == replies[1].frames[1]
      <3>1. IsPlace(replies, 1, 1)
        BY <2>11, PicturesTravel
      <3>2. /\ shown.id < g.id /\ g.id <= d'
            /\ \A y \in 1 .. Len(processed) : processed[y].id < g.id
        BY <2>6, <2>7, <2>8, <3>1
      <3>3. \A i, x : IsPlace(replies', i, x) => g.id < replies'[i].frames[x].id
        BY <2>2, <2>5, <2>6, <2>11, <3>1
      <3>4. /\ shown' = shown /\ Len(processed) \in Nat
            /\ \A x \in 1 .. Len(processed') :
                 \/ x \in 1 .. Len(processed) /\ processed'[x] = processed[x]
                 \/ x = Len(processed) + 1 /\ processed'[x] = g
        BY <2>11, ScreenSteps
      <3> HIDE DEF g
      <3>5. \A x \in 1 .. Len(processed') : shown'.id < processed'[x].id /\ processed'[x].id <= d'
        BY <2>10, <3>2, <3>4
      <3>6. \A x, y \in 1 .. Len(processed') : x < y => processed'[x].id < processed'[y].id
        <4> SUFFICES ASSUME NEW x \in 1 .. Len(processed'), NEW y \in 1 .. Len(processed'), x < y
                     PROVE  processed'[x].id < processed'[y].id
          OBVIOUS
        <4>1. \/ x \in 1 .. Len(processed) /\ processed'[x] = processed[x]
              \/ x = Len(processed) + 1
          BY <3>4
        <4>2. \/ y \in 1 .. Len(processed) /\ processed'[y] = processed[y]
              \/ y = Len(processed) + 1 /\ processed'[y] = g
          BY <3>4
        <4>3. x # Len(processed) + 1
          BY <3>4, <4>2
        <4> QED BY <2>6, <3>2, <4>1, <4>2, <4>3
      <3>7. \A i, x : IsPlace(replies', i, x) =>
              \A y \in 1 .. Len(processed') : processed'[y].id < replies'[i].frames[x].id
        BY <2>9, <3>3, <3>4
      <3> QED BY <2>9, <2>10, <3>4, <3>5, <3>6, <3>7 DEF InLine, d
    <2>12. CASE PhoneShowProcessed
      <3>1. /\ 1 \in 1 .. Len(processed) /\ shown' = processed[1] /\ replies' = replies
            /\ \A x \in 1 .. Len(processed') :
                 /\ x + 1 \in 1 .. Len(processed) /\ 1 < x + 1
                 /\ processed'[x] = processed[x + 1]
        BY <2>12, ScreenSteps
      <3>2. /\ shown'.id <= d'
            /\ \A x \in 1 .. Len(processed') : shown'.id < processed'[x].id /\ processed'[x].id <= d'
        BY <2>6, <2>10, <3>1
      <3>3. \A x, y \in 1 .. Len(processed') : x < y => processed'[x].id < processed'[y].id
        <4> SUFFICES ASSUME NEW x \in 1 .. Len(processed'), NEW y \in 1 .. Len(processed'), x < y
                     PROVE  processed'[x].id < processed'[y].id
          OBVIOUS
        <4>1. /\ x + 1 \in 1 .. Len(processed) /\ processed'[x] = processed[x + 1]
              /\ y + 1 \in 1 .. Len(processed) /\ processed'[y] = processed[y + 1]
          BY <3>1
        <4>2. x \in Int /\ y \in Int /\ x + 1 < y + 1
          <5>1. \A u, v : u \in 1 .. v => u \in Int
            OBVIOUS
          <5>2. x \in Int /\ y \in Int
            BY <5>1
          <5> QED BY <5>2
        <4> QED BY <2>6, <4>1, <4>2
      <3>4. \A i, x : IsPlace(replies', i, x) =>
              /\ shown'.id < replies'[i].frames[x].id
              /\ \A y \in 1 .. Len(processed') : processed'[y].id < replies'[i].frames[x].id
        BY <2>9, <3>1
      <3> QED BY <2>9, <3>2, <3>3, <3>4 DEF InLine, d
    <2>13. CASE ~(HandleResult \/ PhoneShowProcessed)
      <3>1. UNCHANGED <<processed, shown>>
        BY <2>13, ScreenSteps
      <3> QED BY <2>6, <2>9, <2>10, <3>1 DEF InLine, d
    <2> QED BY <2>11, <2>12, <2>13
  <1> QED BY <1>2, <1>3

\* A processed picture of the phone was treated with the list that was in force
\* when it was offered.
TreatedInTime(f) == Settled(f) /\ TreatedAtOnce(f)

TreatedPictures ==
  /\ shown = NoFrame \/ TreatedInTime(shown)
  /\ \A x \in 1 .. Len(processed) : TreatedInTime(processed[x])
  /\ \A i, x : IsPlace(replies, i, x) => TreatedInTime(replies[i].frames[x])

LEMMA PhoneKeepsTreated ==
  ASSUME Sound, TypeOK', Asking, PhoneTypes, ServerTypeOK, ServerTypeOK', OwnFrames(Phone)',
         OfferedSettled', TreatedPictures, [OffloadNext]_offloadVars
  PROVE  TreatedPictures'
  <1> DEFINE Fine(f) == /\ f.id \in 1 .. Len(settled') /\ settled'[f.id] <= f.born
                        /\ f.born \in 1 .. Len(history') /\ f.applied = history'[f.born]
  <1>1. \A f : TreatedInTime(f) => Fine(f)
    BY PastStays DEF TreatedInTime, Settled, TreatedAtOnce
  <1>2. SUFFICES /\ shown' = NoFrame \/ Fine(shown')
                 /\ \A x \in 1 .. Len(processed') : Fine(processed'[x])
                 /\ \A i, x : IsPlace(replies', i, x) => Fine(replies'[i].frames[x])
    BY DEF TreatedPictures, TreatedInTime, Settled, TreatedAtOnce
  <1>3. Answering => \A x \in 1 .. Len(call'[Phone].answer) : Fine(call'[Phone].answer[x])
    BY DEF OfferedSettled, Settled, OwnFrames, TreatedAtOnce
  <1> HIDE DEF Fine
  <1>4. /\ shown = NoFrame \/ Fine(shown)
        /\ \A x \in 1 .. Len(processed) : Fine(processed[x])
        /\ \A i, x : IsPlace(replies, i, x) => Fine(replies[i].frames[x])
    BY <1>1 DEF TreatedPictures
  <1>5. \A i, x : IsPlace(replies', i, x) => Fine(replies'[i].frames[x])
    <2>1. CASE Answering
      BY <1>3, <1>4, <2>1, PicturesTravel
    <2>2. CASE ~Answering
      <3>1. PICK e \in {0, 1}, f \in {0, 1} :
              \A i, x : IsPlace(replies', i, x) =>
                LET y == IF i = 1 THEN x + f ELSE x
                IN  IsPlace(replies, i + e, y) /\ replies'[i].frames[x] = replies[i + e].frames[y]
        BY <2>2, PicturesTravel
      <3> QED BY <1>4, <3>1
    <2> QED BY <2>1, <2>2
  <1>6. (shown' = NoFrame \/ Fine(shown')) /\ \A x \in 1 .. Len(processed') : Fine(processed'[x])
    <2>1. CASE HandleResult
      <3>1. Fine(replies[1].frames[1])
        BY <1>4, <2>1, PicturesTravel
      <3> QED BY <1>4, <2>1, <3>1, ScreenSteps
    <2>2. CASE PhoneShowProcessed
      BY <1>4, <2>2, ScreenSteps
    <2>3. CASE ~(HandleResult \/ PhoneShowProcessed)
      <3>1. UNCHANGED <<processed, shown>>
        BY <2>3, ScreenSteps
      <3> QED BY <1>4, <3>1
    <2> QED BY <2>1, <2>2, <2>3
  <1> QED BY <1>5, <1>6

-----------------------------------------------------------------------------
\* Every picture is in its place, from the call that offers it to the screen.
Pictures == Placed /\ OfferedSettled /\ InLine /\ TreatedPictures

THEOREM PicturesInvariant == OffloadSpec => []Pictures
  <1>1. OffloadInit => Pictures
    <2> SUFFICES ASSUME OffloadInit PROVE Pictures
      OBVIOUS
    <2>1. Waiting = {} /\ queue[Processed] = <<>> /\ count.frames = 0 /\ Len(history) = 1
      BY InitService DEF OffloadInit, ServerInit, Service!Init
    <2>2. call[Phone].at = "idle" /\ call[Phone].answer = <<>>
      BY PhoneAssumption DEF OffloadInit, ServerInit, NoCall
    <2>3. /\ Len(requests) = 0 /\ Len(replies) = 0 /\ Len(settled) = 0 /\ Len(processed) = 0
          /\ Len(queue[Processed]) = 0 /\ Len(call[Phone].answer) = 0
      BY <2>1, <2>2, EmptySeq DEF OffloadInit
    <2>4. OnTheWay = 0
      <3>1. Sizes(requests) = <<>>
        BY <2>3 DEF Sizes
      <3> QED BY <3>1, TotalEmpty DEF OnTheWay, Sizes
    <2>5. /\ Pending = 0 /\ Done = 0 /\ AnsweredEdits = {} /\ buffer = 0 /\ edits.answered = 0
          /\ shown = NoFrame /\ shown.id = 0
      BY <2>1, <2>2, <2>3 DEF Pending, Done, AnsweredEdits, OffloadInit, NoFrame
    <2>6. 1 .. 0 = {}
      OBVIOUS
    <2>7. Placed
      BY <2>1, <2>3, <2>4, <2>5, <2>6 DEF Placed
    <2>8. OfferedSettled
      BY <2>1, <2>3, <2>6 DEF OfferedSettled
    <2>9. InLine /\ TreatedPictures
      BY <2>3, <2>5, <2>6 DEF InLine, TreatedPictures, IsPlace
    <2> QED BY <2>7, <2>8, <2>9 DEF Pictures
  <1>2. /\ ServerSound /\ ServerSound' /\ PhoneInOrder /\ PhoneInOrder' /\ Accounts
        /\ Pictures /\ [OffloadNext]_offloadVars
        => Pictures'
    <2> SUFFICES ASSUME ServerSound, ServerSound', PhoneInOrder, PhoneInOrder', Accounts, Pictures,
                        [OffloadNext]_offloadVars
                 PROVE  Pictures'
      OBVIOUS
    <2>1. /\ Sound /\ TypeOK' /\ Asking /\ Asking' /\ PhoneTypes /\ OneEdit /\ ServerTypeOK
          /\ ServerTypeOK' /\ CallsInStep /\ OwnFrames(Phone) /\ OwnFrames(Phone)'
          /\ Placed /\ OfferedSettled /\ InLine /\ TreatedPictures
      BY DEF ServerSound, PhoneInOrder, Pictures
    <2>2. Placed'
      BY <2>1, PhoneKeepsPlaced
    <2>3. OfferedSettled'
      BY <2>1, PhoneKeepsOffered
    <2>4. InLine'
      BY <2>1, PhoneKeepsLine
    <2>5. TreatedPictures'
      BY <2>1, <2>3, PhoneKeepsTreated
    <2> QED BY <2>2, <2>3, <2>4, <2>5 DEF Pictures
  <1> QED BY <1>1, <1>2, PhoneFacts, AccountsInvariant, PTL DEF OffloadSpec

\* An edit holds from the moment its call returns: a picture on the screen was
\* treated with the list of an edit that had returned when the picture was
\* taken, or of a later one, wherever edits, frames and answers overlap.
THEOREM ShownIsTreated == OffloadSpec => []ShownTreated
  <1>1. PhoneTypes /\ TypeOK /\ Pictures => ShownTreated
    <2> SUFFICES ASSUME PhoneTypes, TypeOK, Pictures, shown # NoFrame
                 PROVE  \E k \in settled[shown.id] .. Len(history) : shown.applied = history[k]
      BY DEF ShownTreated
    <2>1. /\ shown.id \in 1 .. Len(settled) /\ settled[shown.id] <= shown.born
          /\ shown.born \in 1 .. Len(history) /\ shown.applied = history[shown.born]
      BY DEF Pictures, TreatedPictures, TreatedInTime, Settled, TreatedAtOnce
    <2>2. settled[shown.id] \in Nat /\ Len(history) \in Nat
      BY <2>1, ReadyTypes DEF PhoneTypes
    <2>3. shown.born \in settled[shown.id] .. Len(history)
      BY <2>1, <2>2
    <2> QED BY <2>1, <2>3
  <1>2. ServerSound /\ PhoneInOrder => PhoneTypes /\ TypeOK
    BY DEF ServerSound, PhoneInOrder
  <1> QED BY <1>1, <1>2, PhoneFacts, PicturesInvariant, PTL

\* The screen never goes back in time: the picture shown and those that wait
\* for the screen are in the order in which they were taken, across requests,
\* edits and a lost link.
THEOREM ScreenStaysInOrder == OffloadSpec => []ScreenInOrder
  <1>1. PhoneTypes /\ Pictures => ScreenInOrder
    <2> SUFFICES ASSUME PhoneTypes, Pictures PROVE ScreenInOrder
      OBVIOUS
    <2> DEFINE line == <<shown>> \o processed
    <2>1. /\ processed \in Seq(Frame) /\ <<shown>> \in Seq(Frame) /\ Len(processed) \in Nat
          /\ Len(<<shown>>) = 1 /\ <<shown>>[1] = shown
      BY LenProperties DEF PhoneTypes
    <2>2. /\ Len(line) = Len(processed) + 1
          /\ \A i \in 1 .. Len(processed) + 1 : line[i] = IF i = 1 THEN shown ELSE processed[i - 1]
      <3>1. /\ Len(line) = Len(<<shown>>) + Len(processed)
            /\ \A i \in 1 .. Len(<<shown>>) + Len(processed) :
                 line[i] = IF i <= Len(<<shown>>) THEN <<shown>>[i] ELSE processed[i - Len(<<shown>>)]
        BY <2>1, ConcatProperties
      <3> HIDE DEF line
      <3>2. ASSUME NEW i \in 1 .. Len(processed) + 1
            PROVE  line[i] = IF i = 1 THEN shown ELSE processed[i - 1]
        <4>1. (i <= 1 <=> i = 1) /\ i \in 1 .. Len(<<shown>>) + Len(processed)
          BY <2>1
        <4> QED BY <2>1, <3>1, <4>1
      <3>3. Len(line) = Len(processed) + 1
        BY <2>1, <3>1
      <3> QED BY <3>2, <3>3
    <2> HIDE DEF line
    <2>3. ASSUME NEW i \in 1 .. Len(line), NEW j \in 1 .. Len(line), i < j
          PROVE  line[i].id < line[j].id
      <3>1. /\ j # 1 /\ j - 1 \in 1 .. Len(processed) /\ line[j] = processed[j - 1]
            /\ i = 1 \/ (i # 1 /\ i - 1 \in 1 .. Len(processed) /\ i - 1 < j - 1)
        BY <2>1, <2>2, <2>3
      <3>2. line[i] = IF i = 1 THEN shown ELSE processed[i - 1]
        BY <2>2
      <3> QED BY <3>1, <3>2 DEF Pictures, InLine
    <2> QED BY <2>3 DEF ScreenInOrder, line
  <1>2. ServerSound /\ PhoneInOrder => PhoneTypes
    BY DEF PhoneInOrder
  <1> QED BY <1>1, <1>2, PhoneFacts, PicturesInvariant, PTL
=============================================================================
