------------------------- MODULE PipelineRefinement -------------------------
(***************************************************************************)
(* The pipeline of threads and queues implements FrameService: the frames  *)
(* that wait are those in the queues before the last one and in the hands  *)
(* of the threads, except a frame that its thread is going to drop.        *)
(***************************************************************************)
EXTENDS EffectPipeline

Token(f) == [id |-> f.id, born |-> f.born]

InQueues == UNION {{Token(queue[q][i]) : i \in 1 .. Len(queue[q])} : q \in Queue \ {Processed}}

\* An interrupt during applyTo is seen before the frame is passed on: a thread
\* that is interrupted there ends and drops its frame.
Keeps(th) == pc[th] \in Busy /\ ~(pc[th] = "apply" /\ interrupted[th])
InHands == {Token(hand[th]) : th \in {t \in Thread : Keeps(t)}}
Waiting == InQueues \cup InHands

Service == INSTANCE FrameService WITH lists <- history,
                                      offered <- count.frames,
                                      waiting <- Waiting,
                                      ready <- queue[Processed]

\* The FrameProcessor and its Pipeline keep the promise of FrameService, with
\* edits, stop() and effects that throw at any moment between the threads' steps.
ImplementsService == Service!Spec
=============================================================================
