--------------------------- MODULE PipelineEditing ---------------------------
(***************************************************************************)
(* The operations of Pipeline.java that address an effect by its index:    *)
(* addEffect(index, effect), removeEffect and moveEffect.  They are public *)
(* and reuse the task objects of EffectPipeline, but neither program calls *)
(* them.  Indices count from 0, as in the code.                            *)
(***************************************************************************)
EXTENDS EffectPipeline, SequencesExt

CONSTANT Calls \* the operations a run allows
ASSUME CallsAssumption == Calls \subseteq {"insertFirst", "insertBetween", "remove", "move"}

VARIABLES
  moving,   \* moveEffect between its two calls: the task and its new index
  forgotten \* ghost: threads at work have been left out without an interrupt
editVars == <<vars, moving, forgotten>>

AtRest == [task |-> 0, to |-> 0]
EditingInit == Init /\ moving = AtRest /\ forgotten = FALSE
-----------------------------------------------------------------------------
\* addEffect(0, effect) in front of another effect, whose thread is replaced.
PutFirst(t) ==
  LET next == effectTasks[1]
      q == NewQueue
      th == NewThread(1)
  IN /\ inputQueue' = [inputQueue EXCEPT ![t] = inputQueue[next], ![next] = q]
     /\ outputQueue' = [outputQueue EXCEPT ![t] = q]
     /\ effectTasks' = <<t>> \o effectTasks
     /\ effectThreads' = <<th, th + 1>> \o Tail(effectThreads)
     /\ taskOf' = [taskOf EXCEPT ![th] = t, ![th + 1] = next]
     /\ interrupted' = Interrupt({effectThreads[1]})
     /\ pc' = Launched({th, th + 1})
     /\ history' = Append(history, effectTasks')
     /\ UNCHANGED <<running, queue, ref, hand, count>>

\* addEffect(i, effect) between two effects: both get a new thread, and the old
\* threads are forgotten without an interrupt.
PutBetween(i, t) ==
  LET prev == effectTasks[i]
      next == effectTasks[i + 1]
      q == NewQueue
      th == NewThread(1)
  IN /\ inputQueue' = [inputQueue EXCEPT ![t] = outputQueue[prev], ![next] = q]
     /\ outputQueue' = [outputQueue EXCEPT ![t] = q]
     /\ effectTasks' = InsertAt(effectTasks, i + 1, t)
     /\ effectThreads' = SubSeq(effectThreads, 1, i - 1) \o <<th, th + 1, th + 2>>
                           \o SubSeq(effectThreads, i + 2, Len(effectThreads))
     /\ taskOf' = [taskOf EXCEPT ![th] = prev, ![th + 1] = t, ![th + 2] = next]
     /\ pc' = Launched({th, th + 1, th + 2})
     /\ history' = Append(history, effectTasks')
     /\ forgotten' = TRUE
     /\ UNCHANGED <<running, interrupted, queue, ref, hand, count>>

\* removeEffect(i): the neighbour behind, or for the last effect the one in
\* front, takes over the queue of the removed effect and gets a new thread.
\* With no effect left, clearEffects.
TakeOut(i) ==
  LET gone == effectTasks[i + 1]
      last == i + 1 = Len(effectTasks)
      next == effectTasks[IF last THEN i ELSE i + 2]
      th == NewThread(1)
  IN /\ Len(effectTasks) > 1
     /\ Room(0, 1, 0)
     /\ Create(0, 1, 0)
     /\ inputQueue' = IF last THEN inputQueue
                              ELSE [inputQueue EXCEPT ![next] = inputQueue[gone]]
     /\ outputQueue' = IF last THEN [outputQueue EXCEPT ![next] = outputQueue[gone]]
                               ELSE outputQueue
     /\ effectTasks' = RemoveAt(effectTasks, i + 1)
     /\ effectThreads' = [RemoveAt(effectThreads, i + 1) EXCEPT ![IF last THEN i ELSE i + 1] = th]
     /\ interrupted' = Interrupt({effectThreads[i + 1], effectThreads[IF last THEN i ELSE i + 2]})
     /\ taskOf' = [taskOf EXCEPT ![th] = next]
     /\ pc' = Launched({th})
     /\ history' = Append(history, effectTasks')
     /\ UNCHANGED <<running, queue, ref, hand, count>>

RemoveEffectAt(i) == TakeOut(i) \/ (Len(effectTasks) = 1 /\ ClearEffects)
-----------------------------------------------------------------------------
InsertFirst ==
  /\ "insertFirst" \in Calls
  /\ effectTasks # <<>>
  /\ Room(1, 2, 1)
  /\ Create(1, 2, 1)
  /\ PutFirst(NewTask)

InsertBetween ==
  /\ "insertBetween" \in Calls
  /\ Room(1, 3, 1)
  /\ Create(1, 3, 1)
  /\ \E i \in 1 .. Len(effectTasks) - 1 : PutBetween(i, NewTask)

RemoveEffect ==
  /\ "remove" \in Calls
  /\ \E i \in 0 .. Len(effectTasks) - 1 : RemoveEffectAt(i)

\* moveEffect is a removal and an insertion of the same task; the effect
\* threads, the new ones included, run between the two.
StartMove ==
  /\ "move" \in Calls
  /\ Room(1, 4, 1) \* what the two halves of a move may create
  /\ \E i \in 0 .. Len(effectTasks) - 1, to \in 0 .. Len(effectTasks) :
       /\ RemoveEffectAt(i)
       /\ moving' = [task |-> effectTasks[i + 1], to |-> to]

FinishMove ==
  LET t == moving.task
      to == moving.to
      n == Len(effectTasks)
  IN /\ moving # AtRest
     /\ moving' = AtRest
     /\ \/ to >= n /\ Room(0, 2, 1) /\ Create(0, 2, 1) /\ AppendTask(t) /\ UNCHANGED forgotten
        \/ to = 0 /\ Room(0, 2, 1) /\ Create(0, 2, 1) /\ PutFirst(t) /\ UNCHANGED forgotten
        \/ to \in 1 .. n - 1 /\ Room(0, 3, 1) /\ Create(0, 3, 1) /\ PutBetween(to, t)

\* One thread owns the pipeline: no other call comes while a move is under way.
Owner == Start \/ Stop \/ Edit \/ InsertFirst \/ RemoveEffect
Threads == \E th \in Thread : Run(th) \/ ApplyThrows(th)

EditingNext ==
  \/ moving = AtRest /\ Owner /\ UNCHANGED <<moving, forgotten>>
  \/ moving = AtRest /\ InsertBetween /\ UNCHANGED moving
  \/ moving = AtRest /\ StartMove /\ UNCHANGED forgotten
  \/ FinishMove
  \/ (Frames \/ Threads) /\ UNCHANGED <<moving, forgotten>>

EditingSpec == EditingInit /\ [][EditingNext]_editVars
-----------------------------------------------------------------------------
\* AddedAtIndex: "adds the given effect at the given index".  A processed frame
\* offered since the last edit went through the effects of the pipeline, all of
\* them and in their order, even between the two halves of a move.
AddedAtIndex ==
  \A i \in 1 .. Len(queue[Processed]) :
    queue[Processed][i].born = Len(history)
      => queue[Processed][i].applied = effectTasks

\* EditsTakeEffect: every edit by index holds for the frames that follow, but for
\* insertion between two effects: from then on threads work that nobody will
\* interrupt, and a frame may miss an effect (it passes through the old thread of the effect
\* behind, which still waits at what is now the queue of the inserted one).
EditsTakeEffect == ~forgotten => AddedAtIndex
=============================================================================
