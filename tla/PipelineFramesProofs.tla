------------------------- MODULE PipelineFramesProofs -------------------------
(***************************************************************************)
(* What EffectPipeline does to its frames, for all bounds and capacities:  *)
(* each is treated with one list of effects, those offered since the last  *)
(* edit stay in their order, and the pipeline implements FrameService.     *)
(***************************************************************************)
EXTENDS EffectPipelineProofs, PipelineRefinement, FiniteSetTheorems

(***************************************************************************)
(* Every processed frame of EffectPipeline went through exactly the effects *)
(* of one list.  A frame carries no mark of the list it is treated with: a *)
(* task takes what lies in its input queue, and what lies there was put    *)
(* there by the task before it, perhaps before an edit.  The argument is   *)
(* that the place of a frame tells what it went through: a task has the    *)
(* same tasks before it in every list it is in, and a queue between two    *)
(* effects is read by one task and written by one task, ever.              *)
(***************************************************************************)

\* Frame f went through the first n effects of list k.
WentThrough(f, k, n) ==
  Len(f.applied) = n /\ \A m \in 1 .. n : f.applied[m] = history[k][m]

\* A task has the same tasks before it in every list it is in: lists only grow
\* at the end, or start anew with a task of their own.
SamePast ==
  \A k, l \in 1 .. Len(history) :
    \A i \in 1 .. Len(history[k]), j \in 1 .. Len(history[l]) :
      history[k][i] = history[l][j] =>
        i = j /\ \A m \in 1 .. i : history[k][m] = history[l][m]

\* In every list there has been, the first task reads from unprocessed and each
\* task still offers to the queue that the next one reads.
Chained ==
  \A k \in 1 .. Len(history) : \A i \in 1 .. Len(history[k]) :
    /\ history[k][i] \in 1 .. created.tasks
    /\ i = 1 <=> inputQueue[history[k][i]] = Unprocessed
    /\ i < Len(history[k]) =>
         outputQueue[history[k][i]] = inputQueue[history[k][i + 1]]

\* No two tasks read one queue or write one queue, but for the end queues.
QueuesApart ==
  \A t, u \in 1 .. created.tasks :
    /\ inputQueue[t] \in (0 .. created.queues) \ {Processed}
    /\ outputQueue[t] \in 1 .. created.queues
    /\ inputQueue[t] = inputQueue[u] => t = u \/ inputQueue[t] = Unprocessed
    /\ outputQueue[t] = outputQueue[u] => t = u \/ outputQueue[t] = Processed

\* The lists there have been, and how their tasks are wired now.
Lineage == /\ Len(history) >= 1 /\ history[Len(history)] = effectTasks
           /\ SamePast /\ Chained /\ QueuesApart

\* Nothing lies in a queue that is yet to be created, no thread refers to one,
\* and a thread runs a task that has been created.
NewUntouched ==
  /\ \A q \in Queue : q > created.queues => queue[q] = <<>>
  /\ \A th \in Thread : /\ ref[th] <= created.queues
                        /\ pc[th] # "none" => taskOf[th] \in 1 .. created.tasks

\* What a frame that lies in queue q went through: the tasks before the task
\* that reads q or, at the end, a list no older than the frame.
Fits(f, q) ==
  /\ f.born \in 1 .. Len(history)
  /\ q = Unprocessed => Len(f.applied) = 0
  /\ \A k \in 1 .. Len(history) : \A i \in 1 .. Len(history[k]) :
       inputQueue[history[k][i]] = q => WentThrough(f, k, i - 1)
  /\ q = Processed => \E k \in f.born .. Len(history) : WentThrough(f, k, Len(history[k]))

\* What a frame that task t has treated went through: a list no older than the
\* frame up to t, and all of it if t offers to processed.
Treated(f, t) ==
  /\ f.born \in 1 .. Len(history)
  /\ \E k \in f.born .. Len(history) : \E i \in 1 .. Len(history[k]) :
       /\ history[k][i] = t
       /\ WentThrough(f, k, i)
       /\ outputQueue[t] = Processed => i = Len(history[k])

\* Frames in queues, and frames in the hands of threads.
Queued == \A q \in Queue : \A i \in 1 .. Len(queue[q]) : Fits(queue[q][i], q)
Carried ==
  \A th \in Thread :
    /\ pc[th] \in {"take", "apply"} => ref[th] = inputQueue[taskOf[th]]
    /\ pc[th] \in {"apply", "offer"} => Fits(hand[th], ref[th])
    /\ pc[th] = "applied" => Treated(hand[th], taskOf[th])

\* The inductive invariant.
Listed == Lineage /\ NewUntouched /\ Queued /\ Carried

-----------------------------------------------------------------------------
\* The lists and the tasks in them.
LEMMA ListTypes ==
  ASSUME TypeOK, Lineage
  PROVE  /\ Len(history) \in Nat /\ Len(history) >= 1
         /\ Len(history) \in 1 .. Len(history)
         /\ \A k \in 1 .. Len(history) : /\ history[k] \in Seq(Task)
                                         /\ Len(history[k]) \in Nat
                                         /\ \A i \in 1 .. Len(history[k]) : history[k][i] \in Task
         /\ created.tasks \in Nat /\ created.queues \in Nat \ {0}
         /\ 1 .. created.tasks \subseteq Task
  <1>1. history \in Seq(Seq(Task))
    BY DEF TypeOK
  <1>2. Len(history) \in Nat /\ Len(history) >= 1
    BY <1>1, LenProperties DEF Lineage
  <1>3. ASSUME NEW k \in 1 .. Len(history)
        PROVE  /\ history[k] \in Seq(Task) /\ Len(history[k]) \in Nat
               /\ \A i \in 1 .. Len(history[k]) : history[k][i] \in Task
    <2>1. history[k] \in Seq(Task)
      BY <1>1, ElementOfSeq
    <2> QED BY <2>1, ElementOfSeq, LenProperties
  <1>4. created.tasks \in 0 .. MaxTasks /\ created.queues \in 1 .. MaxQueues
    BY DEF TypeOK
  <1>5. created.tasks \in Nat /\ created.queues \in Nat \ {0}
    BY CountersAreNumbers
  <1> QED BY <1>2, <1>3, <1>4, <1>5, BoundsAssumption DEF Task

\* The lists of frames' effects have lengths, and frames are born at a time.
LEMMA FrameFields ==
  ASSUME NEW f \in Frame
  PROVE  /\ f.applied \in Seq(Task) /\ Len(f.applied) \in Nat
         /\ f.born \in Nat /\ f.id \in Nat
  BY LenProperties DEF Frame

\* As long as the lists and the wiring stay, so does what fits where.
LEMMA ListsStay ==
  ASSUME UNCHANGED <<history, inputQueue, outputQueue, created, effectTasks>>
  PROVE  /\ Lineage => Lineage'
         /\ \A f, q : Fits(f, q) => Fits(f, q)'
         /\ \A f, t : Treated(f, t) => Treated(f, t)'
  <1>1. Lineage => Lineage'
    BY DEF Lineage, SamePast, Chained, QueuesApart
  <1>2. \A f, q : Fits(f, q) => Fits(f, q)'
    BY DEF Fits, WentThrough
  <1>3. \A f, t : Treated(f, t) => Treated(f, t)'
    BY DEF Treated, WentThrough
  <1> QED BY <1>1, <1>2, <1>3

\* The constructor's list.
LEMMA InitListed == Init => Listed
  <1> SUFFICES ASSUME Init PROVE Listed
    OBVIOUS
  <1> USE BoundsAssumption
  <1>1. TypeOK
    BY InitType
  <1>2. /\ Len(history) = 1 /\ history[1] = effectTasks
        /\ Len(effectTasks) = InitialEffects
        /\ \A i \in 1 .. InitialEffects : effectTasks[i] = i
    <2>1. history = <<effectTasks>> /\ effectTasks = [i \in 1 .. InitialEffects |-> i]
      BY DEF Init
    <2>2. effectTasks \in Seq(Task)
      BY <1>1 DEF TypeOK
    <2>3. DOMAIN effectTasks = 1 .. InitialEffects /\ Len(effectTasks) \in Nat
          /\ DOMAIN effectTasks = 1 .. Len(effectTasks)
      BY <2>1, <2>2, LenProperties
    <2>4. Len(effectTasks) = InitialEffects
      BY <2>3
    <2> QED BY <2>1, <2>2, <2>4, Singleton
  <1>3. /\ created.tasks = InitialEffects
        /\ created.queues = IF InitialEffects = 0 THEN 1 ELSE InitialEffects
    BY DEF Init
  <1>4. \A t \in 1 .. InitialEffects :
          /\ inputQueue[t] = IF t = 1 THEN 0 ELSE t
          /\ outputQueue[t] = IF t < InitialEffects THEN t + 1 ELSE 1
    BY DEF Init, Task, Unprocessed, Processed
  <1>5. SamePast
    BY <1>2 DEF SamePast
  <1>6. Chained
    BY <1>2, <1>3, <1>4 DEF Chained, Unprocessed
  <1>7. QueuesApart
    BY <1>3, <1>4 DEF QueuesApart, Unprocessed, Processed
  <1>8. NewUntouched
    BY <1>3 DEF Init, NewUntouched, Unprocessed, Thread
  <1>9. Queued /\ Carried
    BY EmptySeq DEF Init, Queued, Carried
  <1> QED BY <1>2, <1>5, <1>6, <1>7, <1>8, <1>9 DEF Listed, Lineage
-----------------------------------------------------------------------------
\* What every edit does: one more list, one more task, nothing moved.
LEMMA WhatEditsDo ==
  ASSUME TypeOK, Ownership, Lineage, NewUntouched, Edit
  PROVE  /\ Len(history') = Len(history) + 1
         /\ \A k \in 1 .. Len(history) : history'[k] = history[k]
         /\ history'[Len(history) + 1] = effectTasks'
         /\ NewTask = created.tasks + 1 /\ NewTask \in Task
         /\ created'.tasks = NewTask /\ created'.queues >= created.queues
         /\ created'.queues \in Nat
         /\ \A t \in 1 .. created.tasks : inputQueue'[t] = inputQueue[t]
         /\ outputQueue'[NewTask] = Processed
         /\ UNCHANGED <<queue, ref, hand, count>>
         /\ \A th \in Thread :
              \/ pc'[th] \in {"new", "loop"} /\ taskOf'[th] \in 1 .. NewTask
              \/ pc'[th] = pc[th] /\ taskOf'[th] = taskOf[th]
  <1>1. /\ history' = Append(history, effectTasks') /\ effectTasks' \in Seq(Task)
        /\ UNCHANGED <<queue, ref, hand, count>>
    <2>1. Wired
      BY DEF Ownership
    <2> QED BY <2>1, EditType DEF Edit, AddFirstEffect, AddEffect, AppendTask, ClearEffects, TypeOK
  <1>2. /\ Len(history') = Len(history) + 1
        /\ \A k \in 1 .. Len(history) : history'[k] = history[k]
        /\ history'[Len(history) + 1] = effectTasks'
    <2>1. history \in Seq(Seq(Task))
      BY DEF TypeOK
    <2>2. /\ Len(history') = Len(history) + 1
          /\ \A k \in 1 .. Len(history) + 1 :
               history'[k] = IF k = Len(history) + 1 THEN effectTasks' ELSE history[k]
      BY <1>1, <2>1, Appended
    <2> HIDE DEF Lineage
    <2> QED BY <2>2, ListTypes
  <1>3. /\ Len(effectTasks) \in Nat
        /\ 1 .. created.tasks \subseteq Task /\ created.tasks \in Nat /\ created.queues \in Nat
    BY ListTypes, LenProperties DEF TypeOK
  <1>4. CASE AddFirstEffect \/ ClearEffects
    <2>1. /\ NewTask \in Task /\ NewThread(1) \in Thread
          /\ inputQueue' = [inputQueue EXCEPT ![NewTask] = Unprocessed]
          /\ outputQueue' = [outputQueue EXCEPT ![NewTask] = Processed]
          /\ taskOf' = [taskOf EXCEPT ![NewThread(1)] = NewTask]
          /\ pc' = Launched({NewThread(1)})
          /\ created'.tasks = NewTask /\ created'.queues = created.queues
      BY <1>4, AfterSingle DEF AddFirstEffect, ClearEffects
    <2>2. NewTask = created.tasks + 1
      BY DEF NewTask
    <2> HIDE DEF NewTask, NewThread
    <2>3. /\ \A t \in 1 .. created.tasks : inputQueue'[t] = inputQueue[t]
          /\ outputQueue'[NewTask] = Processed
      BY <1>3, <2>1, <2>2 DEF TypeOK
    <2>4. \A th \in Thread :
            \/ pc'[th] \in {"new", "loop"} /\ taskOf'[th] \in 1 .. NewTask
            \/ pc'[th] = pc[th] /\ taskOf'[th] = taskOf[th]
      BY <1>3, <2>1, <2>2 DEF TypeOK, Launched
    <2>5. created'.queues >= created.queues /\ created'.queues \in Nat
      BY <1>3, <2>1
    <2> QED BY <1>1, <1>2, <2>1, <2>2, <2>3, <2>4, <2>5, Zenon
  <1>5. CASE AddEffect
    <2> DEFINE n == Len(effectTasks)
               last == effectTasks[n]
    <2>1. /\ NewTask \in Task /\ NewThread(1) \in Thread /\ NewThread(2) \in Thread
          /\ inputQueue' = [inputQueue EXCEPT ![NewTask] = NewQueue]
          /\ outputQueue' = [outputQueue EXCEPT ![last] = NewQueue, ![NewTask] = Processed]
          /\ taskOf' = [taskOf EXCEPT ![NewThread(1)] = last, ![NewThread(2)] = NewTask]
          /\ pc' = Launched({NewThread(1), NewThread(2)})
          /\ created'.tasks = NewTask /\ created'.queues = NewQueue
      BY <1>5, AfterAddEffect, FieldsAfterAddEffect DEF AddEffect, AppendTask, Ownership
    <2>2. NewTask = created.tasks + 1 /\ NewQueue = created.queues + 1
      BY DEF NewTask, NewQueue
    <2>3. last \in 1 .. created.tasks
      <3>1. n \in 1 .. n
        BY <1>5, AfterAddEffect DEF Ownership
      <3> QED BY <3>1, ListTypes DEF Lineage, Chained
    <2> HIDE DEF NewTask, NewQueue, NewThread, last
    <2>4. /\ \A t \in 1 .. created.tasks : inputQueue'[t] = inputQueue[t]
          /\ outputQueue'[NewTask] = Processed
      BY <1>3, <2>1, <2>2, <2>3 DEF TypeOK
    <2>5. last \in 1 .. NewTask /\ NewTask \in 1 .. NewTask
      BY <1>3, <2>2, <2>3
    <2>6. \A th \in Thread :
            \/ pc'[th] \in {"new", "loop"} /\ taskOf'[th] \in 1 .. NewTask
            \/ pc'[th] = pc[th] /\ taskOf'[th] = taskOf[th]
      <3>1. \A th \in Thread : \/ th \in {NewThread(1), NewThread(2)}
                               \/ pc'[th] = pc[th] /\ taskOf'[th] = taskOf[th]
        BY <2>1 DEF TypeOK, Launched
      <3>2. \A th \in {NewThread(1), NewThread(2)} : pc'[th] \in {"new", "loop"}
        BY <2>1 DEF Launched
      <3>3. \A th \in {NewThread(1), NewThread(2)} : taskOf'[th] \in {last, NewTask}
        BY <2>1 DEF TypeOK
      <3> QED BY <2>5, <3>1, <3>2, <3>3
    <2>7. created'.queues >= created.queues /\ created'.queues \in Nat
      BY <1>3, <2>1, <2>2
    <2> QED BY <1>1, <1>2, <2>1, <2>2, <2>4, <2>6, <2>7, Zenon
  <1> QED BY <1>4, <1>5 DEF Edit

\* The list an edit brings into force and the wiring of its tasks: the new
\* task alone, or the new task behind the last one.
LEMMA NewList ==
  ASSUME TypeOK, Ownership, Lineage, Edit
  PROVE  \/ /\ effectTasks' = <<NewTask>> /\ Len(effectTasks') = 1
            /\ inputQueue'[NewTask] = Unprocessed
            /\ created'.queues = created.queues
            /\ \A t \in 1 .. created.tasks : outputQueue'[t] = outputQueue[t]
         \/ /\ Len(effectTasks) >= 1 /\ Len(effectTasks) \in 1 .. Len(effectTasks)
            /\ Len(effectTasks') = Len(effectTasks) + 1
            /\ \A i \in 1 .. Len(effectTasks) : effectTasks'[i] = effectTasks[i]
            /\ effectTasks'[Len(effectTasks) + 1] = NewTask
            /\ effectTasks[Len(effectTasks)] \in 1 .. created.tasks
            /\ NewQueue = created.queues + 1 /\ created'.queues = NewQueue
            /\ inputQueue'[NewTask] = NewQueue
            /\ outputQueue[effectTasks[Len(effectTasks)]] = Processed
            /\ outputQueue'[effectTasks[Len(effectTasks)]] = NewQueue
            /\ \A t \in (1 .. created.tasks) \ {effectTasks[Len(effectTasks)]} :
                 outputQueue'[t] = outputQueue[t]
  <1>1. /\ 1 .. created.tasks \subseteq Task /\ created.tasks \in Nat
        /\ NewTask = created.tasks + 1 /\ NewQueue = created.queues + 1
    BY ListTypes DEF NewTask, NewQueue
  <1>2. CASE AddFirstEffect \/ ClearEffects
    <2>1. outputQueue' = [outputQueue EXCEPT ![NewTask] = Processed]
      BY <1>2 DEF AddFirstEffect, ClearEffects
    <2>2. /\ effectTasks' = <<NewTask>> /\ Len(effectTasks') = 1
          /\ inputQueue'[NewTask] = Unprocessed
          /\ created'.queues = created.queues
      BY <1>2, AfterSingle
    <2> HIDE DEF NewTask
    <2>3. \A t \in 1 .. created.tasks : outputQueue'[t] = outputQueue[t]
      BY <1>1, <2>1 DEF TypeOK
    <2> QED BY <2>2, <2>3
  <1>3. CASE AddEffect
    <2> DEFINE n == Len(effectTasks)
               last == effectTasks[n]
    <2>1. /\ n >= 1 /\ n \in 1 .. n
          /\ Len(effectTasks') = n + 1
          /\ \A i \in 1 .. n : effectTasks'[i] = effectTasks[i]
          /\ effectTasks'[n + 1] = NewTask
      BY <1>3, AfterAddEffect DEF Ownership
    <2>2. outputQueue' = [outputQueue EXCEPT ![last] = NewQueue, ![NewTask] = Processed]
      BY <1>3 DEF AddEffect, AppendTask
    <2>3. /\ inputQueue'[NewTask] = NewQueue /\ created'.queues = NewQueue
          /\ outputQueue'[last] = NewQueue
      BY <1>3, FieldsAfterAddEffect DEF Ownership
    <2>4. last \in 1 .. created.tasks
      BY <2>1, ListTypes DEF Lineage, Chained
    <2>5. outputQueue[last] = Processed
      BY <2>1 DEF Ownership, Wired
    <2> HIDE DEF NewTask, NewQueue, last, n
    <2>6. \A t \in (1 .. created.tasks) \ {last} : outputQueue'[t] = outputQueue[t]
      <3>1. \A t \in 1 .. created.tasks : t \in Task /\ t # NewTask
        BY <1>1
      <3> QED BY <2>2, <3>1 DEF TypeOK
    <2> QED BY <1>1, <2>1, <2>3, <2>4, <2>5, <2>6 DEF n, last
  <1> QED BY <1>2, <1>3 DEF Edit
-----------------------------------------------------------------------------
\* An effect of a list after an edit is the new task at the end of the new list,
\* or was in a list before, after the same effects.
LEMMA OldOrNew ==
  ASSUME TypeOK, Ownership, Lineage, NewUntouched, Edit,
         NEW k \in 1 .. Len(history'), NEW i \in 1 .. Len(history'[k])
  PROVE  \/ /\ k = Len(history) + 1 /\ i = Len(effectTasks') /\ history'[k][i] = NewTask
         \/ /\ k = Len(history) + 1 => i < Len(effectTasks') /\ i <= Len(effectTasks)
            /\ \E o \in 1 .. Len(history) :
                 /\ k # Len(history) + 1 => o = k
                 /\ k = Len(history) + 1 => o = Len(history)
                 /\ i \in 1 .. Len(history[o])
                 /\ \A m \in 1 .. i : history'[k][m] = history[o][m]
  <1>1. /\ Len(history) \in Nat /\ Len(history) \in 1 .. Len(history)
        /\ \A o \in 1 .. Len(history) : Len(history[o]) \in Nat
    BY ListTypes
  <1>2. /\ Len(history') = Len(history) + 1
        /\ \A o \in 1 .. Len(history) : history'[o] = history[o]
        /\ history'[Len(history) + 1] = effectTasks'
    BY WhatEditsDo
  <1>3. history[Len(history)] = effectTasks
    BY DEF Lineage
  <1>4. CASE k # Len(history) + 1
    <2>1. k \in 1 .. Len(history)
      BY <1>1, <1>2, <1>4
    <2>2. history'[k] = history[k]
      BY <1>2, <2>1
    <2> QED BY <1>4, <2>1, <2>2
  <1>5. CASE k = Len(history) + 1
    <2>1. i \in 1 .. Len(effectTasks') /\ history'[k] = effectTasks'
      BY <1>2, <1>5
    <2>2. CASE effectTasks' = <<NewTask>> /\ Len(effectTasks') = 1
      <3>1. effectTasks'[1] = NewTask
        BY <2>2
      <3>2. i = 1
        BY <2>1, <2>2
      <3> QED BY <1>5, <2>1, <2>2, <3>1, <3>2
    <2>3. CASE /\ Len(effectTasks') = Len(effectTasks) + 1
               /\ \A j \in 1 .. Len(effectTasks) : effectTasks'[j] = effectTasks[j]
               /\ effectTasks'[Len(effectTasks) + 1] = NewTask
      <3>1. Len(effectTasks) \in Nat
        BY <1>1, <1>3
      <3>2. CASE i = Len(effectTasks) + 1
        BY <1>5, <2>1, <2>3, <3>2
      <3>3. CASE i <= Len(effectTasks)
        <4>1. i \in 1 .. Len(history[Len(history)])
          BY <1>3, <2>1, <3>1, <3>3
        <4>2. \A m \in 1 .. i : history'[k][m] = history[Len(history)][m]
          BY <1>3, <2>1, <2>3, <3>1, <3>3
        <4>3. i < Len(effectTasks')
          BY <2>1, <2>3, <3>1, <3>3
        <4> QED BY <1>1, <1>5, <3>3, <4>1, <4>2, <4>3
      <3> QED BY <2>1, <2>3, <3>1, <3>2, <3>3
    <2> QED BY <2>2, <2>3, NewList
  <1> QED BY <1>4, <1>5

\* Edits keep the lists what they are: a task is new, or has the past it had.
LEMMA EditSamePast ==
  ASSUME TypeOK, Ownership, Lineage, NewUntouched, Edit
  PROVE  SamePast'
  <1> SUFFICES ASSUME NEW k \in 1 .. Len(history'), NEW l \in 1 .. Len(history'),
                      NEW i \in 1 .. Len(history'[k]), NEW j \in 1 .. Len(history'[l]),
                      history'[k][i] = history'[l][j]
               PROVE  i = j /\ \A m \in 1 .. i : history'[k][m] = history'[l][m]
    BY DEF SamePast
  <1> DEFINE Was(a, x) == \E o \in 1 .. Len(history) :
                            /\ x \in 1 .. Len(history[o])
                            /\ \A m \in 1 .. x : history'[a][m] = history[o][m]
             New(a, x) == /\ a = Len(history) + 1 /\ x = Len(effectTasks')
                          /\ history'[a][x] = NewTask
  <1>1. (New(k, i) \/ Was(k, i)) /\ (New(l, j) \/ Was(l, j))
    BY OldOrNew
  <1>2. ASSUME NEW a, NEW x \in Nat \ {0}, Was(a, x)
        PROVE  history'[a][x] # NewTask
    <2>1. PICK o \in 1 .. Len(history) :
             x \in 1 .. Len(history[o]) /\ history'[a][x] = history[o][x]
      BY <1>2
    <2>2. history[o][x] \in 1 .. created.tasks
      BY <2>1 DEF Lineage, Chained
    <2> QED BY <2>1, <2>2, WhatEditsDo, ListTypes
  <1>3. i \in Nat \ {0} /\ j \in Nat \ {0}
    OBVIOUS
  <1>4. CASE New(k, i) /\ New(l, j)
    BY <1>4
  <1>5. CASE Was(k, i) /\ Was(l, j)
    <2>1. PICK o \in 1 .. Len(history) : /\ i \in 1 .. Len(history[o])
                                         /\ \A m \in 1 .. i : history'[k][m] = history[o][m]
      BY <1>5
    <2>2. PICK p \in 1 .. Len(history) : /\ j \in 1 .. Len(history[p])
                                         /\ \A m \in 1 .. j : history'[l][m] = history[p][m]
      BY <1>5
    <2>3. history[o][i] = history[p][j]
      BY <1>3, <2>1, <2>2
    <2>4. i = j /\ \A m \in 1 .. i : history[o][m] = history[p][m]
      BY <2>1, <2>2, <2>3 DEF Lineage, SamePast
    <2> QED BY <2>1, <2>2, <2>4
  <1> HIDE DEF Was
  <1> QED BY <1>1, <1>2, <1>3, <1>4, <1>5

\* Edits keep every list that has been wired as it was in force.
LEMMA EditChained ==
  ASSUME TypeOK, Ownership, Lineage, NewUntouched, Edit
  PROVE  Chained'
  <1> SUFFICES ASSUME NEW k \in 1 .. Len(history'), NEW i \in 1 .. Len(history'[k])
               PROVE  /\ history'[k][i] \in 1 .. created'.tasks
                      /\ i = 1 <=> inputQueue'[history'[k][i]] = Unprocessed
                      /\ i < Len(history'[k]) =>
                           outputQueue'[history'[k][i]] = inputQueue'[history'[k][i + 1]]
    BY DEF Chained
  <1>1. /\ created.tasks \in Nat /\ NewTask = created.tasks + 1 /\ created'.tasks = NewTask
        /\ \A t \in 1 .. created.tasks : inputQueue'[t] = inputQueue[t]
        /\ Len(history) \in Nat /\ Len(history) \in 1 .. Len(history)
        /\ Len(history') = Len(history) + 1
        /\ \A o \in 1 .. Len(history) : history'[o] = history[o] /\ Len(history[o]) \in Nat
        /\ history'[Len(history) + 1] = effectTasks'
    BY WhatEditsDo, ListTypes
  <1>2. CASE k = Len(history) + 1 /\ i = Len(effectTasks') /\ history'[k][i] = NewTask
    <2>1. history'[k][i] \in 1 .. created'.tasks
      BY <1>1, <1>2
    <2>2. i = 1 <=> inputQueue'[NewTask] = Unprocessed
      <3>1. CASE Len(effectTasks') = 1 /\ inputQueue'[NewTask] = Unprocessed
        BY <1>2, <3>1
      <3>2. CASE /\ Len(effectTasks) >= 1 /\ Len(effectTasks') = Len(effectTasks) + 1
                 /\ inputQueue'[NewTask] = NewQueue
        <4>1. NewQueue >= 2 /\ Len(effectTasks) \in Nat /\ NewQueue \in Nat
          BY <1>1, NewAreNumbers DEF Lineage
        <4> QED BY <1>2, <3>2, <4>1 DEF Unprocessed
      <3> QED BY <3>1, <3>2, NewList
    <2>3. ~(i < Len(history'[k]))
      BY <1>1, <1>2
    <2> QED BY <1>2, <2>1, <2>2, <2>3
  <1>3. ASSUME NEW o \in 1 .. Len(history),
               k # Len(history) + 1 => o = k,
               k = Len(history) + 1 => o = Len(history),
               k = Len(history) + 1 => i < Len(effectTasks') /\ i <= Len(effectTasks),
               i \in 1 .. Len(history[o]),
               \A m \in 1 .. i : history'[k][m] = history[o][m]
        PROVE  /\ history'[k][i] \in 1 .. created'.tasks
               /\ i = 1 <=> inputQueue'[history'[k][i]] = Unprocessed
               /\ i < Len(history'[k]) =>
                    outputQueue'[history'[k][i]] = inputQueue'[history'[k][i + 1]]
    <2> DEFINE t == history[o][i]
    <2>1. history'[k][i] = t
      BY <1>3
    <2>2. /\ t \in 1 .. created.tasks
          /\ i = 1 <=> inputQueue[t] = Unprocessed
          /\ i < Len(history[o]) => outputQueue[t] = inputQueue[history[o][i + 1]]
      BY <1>3 DEF Lineage, Chained
    <2>3. ASSUME i < Len(history[o])
          PROVE  /\ history[o][i + 1] \in 1 .. created.tasks
                 /\ outputQueue'[t] = outputQueue[t]
      <3>1. i + 1 \in 1 .. Len(history[o])
        BY <1>1, <2>3
      <3>2. history[o][i + 1] \in 1 .. created.tasks
        BY <3>1 DEF Lineage, Chained
      <3>3. outputQueue[t] # Processed
        BY <2>2, <2>3, <3>2 DEF Lineage, QueuesApart
      <3> HIDE DEF t
      <3>4. outputQueue'[t] = outputQueue[t]
        BY <2>2, <3>3, NewList
      <3> QED BY <3>2, <3>4
    <2> HIDE DEF t
    <2>4. ASSUME i < Len(history'[k])
          PROVE  outputQueue'[t] = inputQueue'[history'[k][i + 1]]
      <3>1. CASE i < Len(history[o])
        <4>1. history'[k][i + 1] = history[o][i + 1]
          <5>1. CASE k # Len(history) + 1
            <6>1. k = o
              BY <1>3, <5>1
            <6> QED BY <1>1, <6>1
          <5>2. CASE k = Len(history) + 1
            <6>1. history[o] = effectTasks /\ o = Len(history)
              BY <1>3, <5>2 DEF Lineage
            <6>2. i + 1 \in 1 .. Len(effectTasks)
              BY <1>1, <3>1, <6>1
            <6>3. Len(effectTasks') # 1
              <7>1. i < Len(effectTasks') /\ i \in Nat /\ i >= 1
                BY <1>1, <1>3, <5>2
              <7>2. ~(i < 1)
                BY <7>1
              <7> QED BY <7>1, <7>2, Zenon
            <6>4. effectTasks'[i + 1] = effectTasks[i + 1]
              BY <6>2, <6>3, NewList
            <6> QED BY <1>1, <5>2, <6>1, <6>4
          <5> QED BY <5>1, <5>2
        <4> QED BY <1>1, <2>2, <2>3, <3>1, <4>1
      <3>2. CASE i = Len(history[o])
        <4>1. k = Len(history) + 1
          BY <1>1, <1>3, <2>4, <3>2
        <4>2. history[o] = effectTasks /\ history'[k] = effectTasks' /\ o = Len(history)
          BY <1>1, <1>3, <4>1 DEF Lineage
        <4>3. Len(effectTasks') # 1
          <5>1. i < Len(effectTasks') /\ i \in Nat /\ i >= 1
            BY <1>1, <1>3, <4>1
          <5>2. ~(i < 1)
            BY <5>1
          <5> QED BY <5>1, <5>2, Zenon
        <4>4. /\ effectTasks'[Len(effectTasks) + 1] = NewTask
              /\ inputQueue'[NewTask] = NewQueue
              /\ outputQueue'[effectTasks[Len(effectTasks)]] = NewQueue
          BY <4>3, NewList
        <4> QED BY <3>2, <4>2, <4>4 DEF t
      <3> QED BY <1>1, <1>3, <3>1, <3>2
    <2> QED BY <1>1, <2>1, <2>2, <2>4
  <1> QED BY <1>2, <1>3, OldOrNew
\* Edits keep the queues apart: a queue between two effects is a new one.
LEMMA EditApart ==
  ASSUME TypeOK, Ownership, Lineage, NewUntouched, Edit
  PROVE  QueuesApart'
  <1>1. /\ created.tasks \in Nat /\ created.queues \in Nat \ {0}
        /\ NewTask = created.tasks + 1 /\ created'.tasks = NewTask
        /\ created'.queues \in Nat /\ created'.queues >= created.queues
        /\ \A t \in 1 .. created.tasks : inputQueue'[t] = inputQueue[t]
        /\ outputQueue'[NewTask] = Processed
    BY WhatEditsDo, ListTypes
  <1>2. \A t \in 1 .. created'.tasks : t = NewTask \/ t \in 1 .. created.tasks
    BY <1>1
  <1>3. \A t, u \in 1 .. created.tasks :
          /\ inputQueue[t] \in (0 .. created.queues) \ {Processed}
          /\ outputQueue[t] \in 1 .. created.queues
          /\ inputQueue[t] = inputQueue[u] => t = u \/ inputQueue[t] = Unprocessed
          /\ outputQueue[t] = outputQueue[u] => t = u \/ outputQueue[t] = Processed
    BY DEF Lineage, QueuesApart
  <1>4. CASE /\ inputQueue'[NewTask] = Unprocessed /\ created'.queues = created.queues
             /\ \A t \in 1 .. created.tasks : outputQueue'[t] = outputQueue[t]
    BY <1>1, <1>2, <1>3, <1>4 DEF QueuesApart, Unprocessed, Processed
  <1>5. ASSUME NEW last \in 1 .. created.tasks,
               NewQueue = created.queues + 1, created'.queues = NewQueue,
               inputQueue'[NewTask] = NewQueue, outputQueue'[last] = NewQueue,
               \A t \in (1 .. created.tasks) \ {last} : outputQueue'[t] = outputQueue[t]
        PROVE  QueuesApart'
    <2> HIDE DEF NewQueue, NewTask
    <2>1. NewQueue # Processed /\ NewQueue \notin 0 .. created.queues
          /\ NewQueue \in 1 .. NewQueue /\ Processed \in 1 .. NewQueue
          /\ 1 .. created.queues \subseteq 1 .. NewQueue
          /\ 0 .. created.queues \subseteq 0 .. NewQueue
          /\ NewQueue \in 0 .. NewQueue
      BY <1>1, <1>5 DEF Processed
    <2>2. \A t \in 1 .. created.tasks : t # NewTask
      BY <1>1
    <2>3. \A t \in 1 .. created'.tasks :
            /\ inputQueue'[t] \in (0 .. NewQueue) \ {Processed}
            /\ inputQueue'[t] = NewQueue <=> t = NewTask
            /\ t # NewTask => t \in 1 .. created.tasks /\ inputQueue'[t] = inputQueue[t]
      BY <1>1, <1>2, <1>3, <1>5, <2>1, <2>2
    <2>4. \A t \in 1 .. created'.tasks :
            \/ t = NewTask /\ outputQueue'[t] = Processed
            \/ t = last /\ outputQueue'[t] = NewQueue
            \/ /\ t \in 1 .. created.tasks /\ outputQueue'[t] = outputQueue[t]
               /\ outputQueue[t] \in 1 .. NewQueue /\ outputQueue[t] # NewQueue
      BY <1>1, <1>2, <1>3, <1>5, <2>1, <2>2
    <2>5. \A t, u \in 1 .. created'.tasks :
            inputQueue'[t] = inputQueue'[u] => t = u \/ inputQueue'[t] = Unprocessed
      BY <1>3, <2>3
    <2>6. \A t, u \in 1 .. created'.tasks :
            outputQueue'[t] = outputQueue'[u] => t = u \/ outputQueue'[t] = Processed
      BY <1>3, <2>4
    <2>7. \A t \in 1 .. created'.tasks : outputQueue'[t] \in 1 .. NewQueue
      BY <2>1, <2>4
    <2> QED BY <1>5, <2>3, <2>5, <2>6, <2>7 DEF QueuesApart
  <1> QED BY <1>4, <1>5, NewList

\* Edits leave frames where they fit: nothing lies in a queue created only now.
LEMMA EditFits ==
  ASSUME TypeOK, Ownership, Lineage, NewUntouched, Edit,
         NEW f \in Frame, NEW q \in Queue, q <= created.queues, Fits(f, q)
  PROVE  Fits(f, q)'
  <1>1. /\ Len(history) \in Nat /\ Len(history') = Len(history) + 1
        /\ \A k \in 1 .. Len(history) : history'[k] = history[k]
        /\ created.queues \in Nat
    BY WhatEditsDo, ListTypes
  <1>2. f.born \in Nat /\ Len(f.applied) \in Nat /\ q \in Nat
    BY FrameFields DEF Queue
  <1>3. f.born \in 1 .. Len(history')
    BY <1>1, <1>2 DEF Fits
  <1>4. ASSUME NEW k \in 1 .. Len(history'), NEW i \in 1 .. Len(history'[k]),
               inputQueue'[history'[k][i]] = q
        PROVE  WentThrough(f, k, i - 1)'
    <2>1. CASE i = Len(effectTasks') /\ history'[k][i] = NewTask
      <3>1. CASE Len(effectTasks') = 1 /\ inputQueue'[NewTask] = Unprocessed
        <4>1. Len(f.applied) = 0
          BY <1>4, <2>1, <3>1 DEF Fits
        <4> QED BY <2>1, <3>1, <4>1 DEF WentThrough
      <3>2. CASE inputQueue'[NewTask] = NewQueue /\ NewQueue = created.queues + 1
        <4>1. q = created.queues + 1
          BY <1>4, <2>1, <3>2
        <4> QED BY <1>1, <1>2, <4>1
      <3> QED BY <3>1, <3>2, NewList
    <2>2. ASSUME NEW o \in 1 .. Len(history), i \in 1 .. Len(history[o]),
                 \A m \in 1 .. i : history'[k][m] = history[o][m]
          PROVE  WentThrough(f, k, i - 1)'
      <3>1. history'[k][i] = history[o][i]
        BY <2>2
      <3>2. history[o][i] \in 1 .. created.tasks
        BY <2>2 DEF Lineage, Chained
      <3>3. inputQueue[history[o][i]] = q
        BY <1>4, <3>1, <3>2, WhatEditsDo
      <3>4. WentThrough(f, o, i - 1)
        BY <2>2, <3>3 DEF Fits
      <3>5. \A m \in 1 .. i - 1 : m \in 1 .. i
        OBVIOUS
      <3> QED BY <2>2, <3>4, <3>5 DEF WentThrough
    <2> QED BY <2>1, <2>2, OldOrNew
  <1>5. ASSUME q = Processed
        PROVE  \E k \in f.born .. Len(history') : WentThrough(f, k, Len(history[k]))'
    <2>1. PICK k \in f.born .. Len(history) : WentThrough(f, k, Len(history[k]))
      BY <1>5 DEF Fits
    <2>2. k \in 1 .. Len(history) /\ k \in f.born .. Len(history')
      BY <1>1, <1>2, <2>1 DEF Fits
    <2>3. history'[k] = history[k]
      BY <1>1, <2>2
    <2>4. WentThrough(f, k, Len(history[k]))'
      BY <2>1, <2>3 DEF WentThrough
    <2> QED BY <2>2, <2>4
  <1> QED BY <1>3, <1>4, <1>5 DEF Fits

\* Edits take nothing from what a frame in the hands of a thread went through.
LEMMA EditTreated ==
  ASSUME TypeOK, Ownership, Lineage, NewUntouched, Edit,
         NEW f \in Frame, NEW t, Treated(f, t)
  PROVE  Treated(f, t)'
  <1>1. /\ Len(history) \in Nat /\ Len(history') = Len(history) + 1
        /\ \A k \in 1 .. Len(history) : history'[k] = history[k]
        /\ created.queues \in Nat /\ f.born \in Nat
    BY WhatEditsDo, ListTypes, FrameFields
  <1> DEFINE Way(k, i) == /\ history[k][i] = t
                          /\ WentThrough(f, k, i)
                          /\ outputQueue[t] = Processed => i = Len(history[k])
  <1>0. PICK k \in f.born .. Len(history) : \E i \in 1 .. Len(history[k]) : Way(k, i)
    BY DEF Treated
  <1>2. PICK i \in 1 .. Len(history[k]) : Way(k, i)
    BY <1>0
  <1>3. /\ k \in 1 .. Len(history) /\ k \in f.born .. Len(history')
        /\ f.born \in 1 .. Len(history')
    BY <1>1 DEF Treated
  <1>4. history'[k] = history[k]
    BY <1>1, <1>3
  <1>5. t \in 1 .. created.tasks
    BY <1>2, <1>3 DEF Lineage, Chained
  <1>6. outputQueue'[t] = Processed => outputQueue[t] = Processed
    <2>1. NewQueue # Processed
      BY NewAreNumbers DEF Processed
    <2> HIDE DEF NewQueue
    <2> QED BY <1>5, <2>1, NewList
  <1>7. WentThrough(f, k, i)'
    BY <1>2, <1>4 DEF WentThrough
  <1> QED BY <1>2, <1>3, <1>4, <1>6, <1>7 DEF Treated

\* Every edit keeps the inductive invariant.
LEMMA EditListed ==
  ASSUME TypeOK, Ownership, Listed, Edit
  PROVE  Listed'
  <1>1. Lineage /\ NewUntouched /\ Queued /\ Carried
    BY DEF Listed
  <1>2. /\ Len(history) \in Nat /\ Len(history') = Len(history) + 1
        /\ history'[Len(history) + 1] = effectTasks'
        /\ created.tasks \in Nat /\ NewTask = created.tasks + 1 /\ created'.tasks = NewTask
        /\ created.queues \in Nat /\ created'.queues \in Nat
        /\ created'.queues >= created.queues
        /\ \A t \in 1 .. created.tasks : inputQueue'[t] = inputQueue[t]
        /\ queue' = queue /\ ref' = ref /\ hand' = hand
        /\ \A th \in Thread :
             \/ pc'[th] \in {"new", "loop"} /\ taskOf'[th] \in 1 .. NewTask
             \/ pc'[th] = pc[th] /\ taskOf'[th] = taskOf[th]
    BY <1>1, WhatEditsDo, ListTypes
  <1>3. Lineage'
    BY <1>1, <1>2, EditSamePast, EditChained, EditApart DEF Lineage
  <1>4. /\ \A q \in Queue : q \in Nat /\ queue[q] \in Seq(Frame)
        /\ \A th \in Thread : ref[th] \in Queue /\ ref[th] \in Nat /\ hand[th] \in Frame
    <2>1. \A q \in Queue : q \in Nat
      BY DEF Queue
    <2> QED BY <2>1 DEF TypeOK
  <1>5. NewUntouched'
    <2>1. \A q \in Queue : q > created'.queues => queue'[q] = <<>>
      BY <1>1, <1>2, <1>4 DEF NewUntouched
    <2>2. \A th \in Thread : ref'[th] <= created'.queues
      BY <1>1, <1>2, <1>4 DEF NewUntouched
    <2>3. \A th \in Thread : pc'[th] # "none" => taskOf'[th] \in 1 .. created'.tasks
      BY <1>1, <1>2 DEF NewUntouched
    <2> QED BY <2>1, <2>2, <2>3 DEF NewUntouched
  <1>6. Queued'
    <2> SUFFICES ASSUME NEW q \in Queue, NEW i \in 1 .. Len(queue[q])
                 PROVE  Fits(queue[q][i], q)'
      BY <1>2 DEF Queued
    <2>1. queue[q][i] \in Frame
      BY <1>4, ElementOfSeq
    <2>2. q <= created.queues
      BY <1>1, <1>2, <1>4, EmptySeq DEF NewUntouched
    <2>3. Fits(queue[q][i], q)
      BY <1>1 DEF Queued
    <2>4. \A f \in Frame : Fits(f, q) => Fits(f, q)'
      BY <1>1, <2>2, EditFits
    <2> QED BY <1>2, <2>1, <2>3, <2>4
  <1>7. Carried'
    <2> SUFFICES ASSUME NEW th \in Thread,
                        pc'[th] \in {"take", "apply", "applied", "offer"}
                 PROVE  /\ pc'[th] \in {"take", "apply"} => ref'[th] = inputQueue'[taskOf'[th]]
                        /\ pc'[th] \in {"apply", "offer"} => Fits(hand[th], ref[th])'
                        /\ pc'[th] = "applied" => Treated(hand[th], taskOf[th])'
      BY DEF Carried
    <2>1. pc'[th] = pc[th] /\ taskOf'[th] = taskOf[th]
      BY <1>2
    <2>2. taskOf[th] \in 1 .. created.tasks
      BY <1>1, <2>1 DEF NewUntouched
    <2>3. ref[th] <= created.queues /\ ref[th] \in Queue /\ hand[th] \in Frame
      BY <1>1, <1>4 DEF NewUntouched
    <2>4. \A f \in Frame, q \in Queue : q <= created.queues /\ Fits(f, q) => Fits(f, q)'
      BY <1>1, EditFits
    <2>5. \A f \in Frame : \A t : Treated(f, t) => Treated(f, t)'
      BY <1>1, EditTreated
    <2>6. pc'[th] \in {"take", "apply"} => ref'[th] = inputQueue'[taskOf'[th]]
      BY <1>1, <1>2, <2>1, <2>2 DEF Carried
    <2>7. pc'[th] \in {"apply", "offer"} => Fits(hand[th], ref[th])'
      BY <1>1, <1>2, <2>1, <2>3, <2>4 DEF Carried
    <2>8. pc'[th] = "applied" => Treated(hand[th], taskOf[th])'
      BY <1>1, <1>2, <2>1, <2>3, <2>5 DEF Carried
    <2> QED BY <2>6, <2>7, <2>8
  <1> QED BY <1>3, <1>5, <1>6, <1>7 DEF Listed
-----------------------------------------------------------------------------
\* The queues between two effects that are yet to be created are no end queues.
LEMMA EndsAreCreated ==
  ASSUME TypeOK, NEW q \in Queue, q > created.queues
  PROVE  q \notin {Unprocessed, Processed}
  <1>1. created.queues \in Nat \ {0}
    BY CountersAreNumbers
  <1> QED BY <1>1 DEF Queue, Unprocessed, Processed

\* What a queue looks like that has accepted a frame.
LEMMA Accepted ==
  ASSUME TypeOK, NEW r \in Queue, NEW f \in Frame,
         queue' = [queue EXCEPT ![r] = Append(@, f)]
  PROVE  /\ \A q \in Queue \ {r} : queue'[q] = queue[q]
         /\ Len(queue[r]) \in Nat
         /\ Len(queue'[r]) = Len(queue[r]) + 1
         /\ \A i \in 1 .. Len(queue[r]) + 1 :
              queue'[r][i] = IF i = Len(queue[r]) + 1 THEN f ELSE queue[r][i]
  <1>1. queue[r] \in Seq(Frame) /\ queue'[r] = Append(queue[r], f)
    BY DEF TypeOK
  <1>2. \A q \in Queue \ {r} : queue'[q] = queue[q]
    BY DEF TypeOK
  <1> QED BY <1>1, <1>2, Appended, FrameIds

\* start(), stop(), addFrame and getFrame.
LEMMA CallListed ==
  ASSUME TypeOK, Listed, Start \/ Stop \/ Frames
  PROVE  Listed'
  <1>1. Lineage /\ NewUntouched /\ Queued /\ Carried
    BY DEF Listed
  <1>2. UNCHANGED <<history, inputQueue, outputQueue, created, effectTasks, taskOf, ref, hand>>
    BY DEF Start, Stop, Frames, AddFrame, GetFrame, pipelineVars
  <1>3. /\ Lineage'
        /\ \A f, q : Fits(f, q) => Fits(f, q)'
        /\ \A f, t : Treated(f, t) => Treated(f, t)'
    BY <1>1, <1>2, ListsStay
  <1>4. \A th \in Thread : pc'[th] = pc[th] \/ (pc[th] = "new" /\ pc'[th] = "loop")
    BY DEF Start, Startable, Stop, Frames, AddFrame, GetFrame, TypeOK
  <1>5. Carried'
    BY <1>1, <1>2, <1>3, <1>4 DEF Carried
  <1>6. \A th \in Thread : /\ ref'[th] <= created'.queues
                           /\ pc'[th] # "none" => taskOf'[th] \in 1 .. created'.tasks
    BY <1>1, <1>2, <1>4 DEF NewUntouched
  <1>7. ASSUME \A q \in Queue \ {Unprocessed, Processed} : queue'[q] = queue[q]
        PROVE  NewUntouched'
    <2>1. \A q \in Queue : q > created'.queues => queue'[q] = <<>>
      BY <1>1, <1>2, <1>7, EndsAreCreated DEF NewUntouched
    <2> QED BY <1>6, <2>1 DEF NewUntouched
  <1>8. ASSUME \A q \in Queue : \A i \in 1 .. Len(queue'[q]) :
                 Fits(queue'[q][i], q) \/ \E j \in 1 .. Len(queue[q]) : queue'[q][i] = queue[q][j]
        PROVE  Queued'
    BY <1>1, <1>3, <1>8 DEF Queued
  <1>9. CASE Start
    <2>1. queue' = queue
      BY <1>9 DEF Start
    <2> QED BY <1>3, <1>5, <1>7, <1>8, <2>1 DEF Listed
  <1>10. CASE Stop
    <2>1. /\ \A q \in {Unprocessed, Processed} : queue'[q] = <<>>
          /\ \A q \in Queue \ {Unprocessed, Processed} : queue'[q] = queue[q]
      BY <1>10, EndQueues DEF Stop, TypeOK
    <2>2. \A q \in Queue : \A i \in 1 .. Len(queue'[q]) :
            \E j \in 1 .. Len(queue[q]) : queue'[q][i] = queue[q][j]
      BY <2>1, EmptySeq
    <2> QED BY <1>3, <1>5, <1>7, <1>8, <2>1, <2>2 DEF Listed
  <1>11. CASE GetFrame
    <2>1. queue[Processed] # <<>> /\ queue' = [queue EXCEPT ![Processed] = Tail(@)]
      BY <1>11 DEF GetFrame
    <2>2. Processed \in Queue
      BY EndQueues
    <2> HIDE DEF Processed
    <2>3. /\ \A q \in Queue \ {Processed} : queue'[q] = queue[q]
          /\ Len(queue'[Processed]) \in Nat
          /\ Len(queue'[Processed]) + 1 <= Len(queue[Processed])
          /\ \A i \in 1 .. Len(queue'[Processed]) : queue'[Processed][i] = queue[Processed][i + 1]
      BY <2>1, <2>2, HeadTaken
    <2>4. \A i \in 1 .. Len(queue'[Processed]) : i + 1 \in 1 .. Len(queue[Processed])
      BY <2>2, <2>3, FrameIds
    <2>5. \A q \in Queue : \A i \in 1 .. Len(queue'[q]) :
            \E j \in 1 .. Len(queue[q]) : queue'[q][i] = queue[q][j]
      BY <2>3, <2>4
    <2> QED BY <1>3, <1>5, <1>7, <1>8, <2>3, <2>5 DEF Listed
  <1>12. CASE AddFrame
    <2> DEFINE f == [id |-> count.frames + 1, born |-> Len(history), applied |-> <<>>]
    <2>1. /\ f.born = Len(history) /\ Len(f.applied) = 0 /\ f.born \in 1 .. Len(history)
          /\ f \in Frame
      BY <1>1, ListTypes, EmptySeq, CountersAreNumbers DEF Frame
    <2>2. Fits(f, Unprocessed)
      <3>1. ASSUME NEW k \in 1 .. Len(history), NEW i \in 1 .. Len(history[k]),
                   inputQueue[history[k][i]] = Unprocessed
            PROVE  WentThrough(f, k, i - 1)
        <4>1. i = 1
          BY <1>1, <3>1 DEF Lineage, Chained
        <4> HIDE DEF f
        <4> QED BY <2>1, <4>1 DEF WentThrough
      <3> HIDE DEF f
      <3> QED BY <2>1, <3>1 DEF Fits, Unprocessed, Processed
    <2>3. queue' = Offered(Unprocessed, f)
      BY <1>12 DEF AddFrame
    <2> HIDE DEF f
    <2>4. Unprocessed \in Queue /\ queue[Unprocessed] \in Seq(Frame) /\ Len(queue[Unprocessed]) \in Nat
      BY EndQueues, FrameIds
    <2> HIDE DEF Unprocessed
    <2>5. CASE queue' = queue
      BY <1>3, <1>5, <1>7, <1>8, <2>5 DEF Listed
    <2>6. CASE queue' = [queue EXCEPT ![Unprocessed] = Append(@, f)]
      <3>1. /\ \A q \in Queue \ {Unprocessed} : queue'[q] = queue[q]
            /\ Len(queue'[Unprocessed]) = Len(queue[Unprocessed]) + 1
            /\ \A i \in 1 .. Len(queue[Unprocessed]) + 1 :
                 queue'[Unprocessed][i]
                   = IF i = Len(queue[Unprocessed]) + 1 THEN f ELSE queue[Unprocessed][i]
        BY <2>1, <2>4, <2>6, Accepted
      <3>2. \A q \in Queue : \A i \in 1 .. Len(queue'[q]) :
              Fits(queue'[q][i], q) \/ \E j \in 1 .. Len(queue[q]) : queue'[q][i] = queue[q][j]
        <4>1. \A i \in 1 .. Len(queue[Unprocessed]) + 1 :
                i = Len(queue[Unprocessed]) + 1 \/ i \in 1 .. Len(queue[Unprocessed])
          BY <2>4
        <4> QED BY <2>2, <3>1, <4>1
      <3> QED BY <1>3, <1>5, <1>7, <1>8, <3>1, <3>2 DEF Listed
    <2> QED BY <2>3, <2>5, <2>6 DEF Offered
  <1> QED BY <1>9, <1>10, <1>11, <1>12 DEF Frames

\* A task that treats a frame from its input queue adds itself to what the frame
\* went through: the task is in the list in force, for the thread is one of the
\* pipeline's.
LEMMA Applied ==
  ASSUME TypeOK, Ownership, Lineage, NEW th \in Thread,
         pc[th] \in Alive, ~interrupted[th],
         NEW f \in Frame, NEW g \in Frame,
         Fits(f, inputQueue[taskOf[th]]),
         g = [f EXCEPT !.applied = Append(@, taskOf[th])]
  PROVE  Treated(g, taskOf[th])
  <1> DEFINE t == taskOf[th]
             k == Len(history)
  <1>1. PICK i \in 1 .. Len(effectThreads) : effectThreads[i] = th
    <2>1. th \in Range(effectThreads)
      BY DEF Ownership, ReplacedThreadsInterrupted
    <2> QED BY <2>1, RangeByIndex DEF TypeOK
  <1>2. i \in 1 .. Len(effectTasks) /\ effectTasks[i] = t
    BY <1>1 DEF Ownership, Wired
  <1>3. /\ k \in Nat /\ k \in 1 .. k /\ i \in 1 .. Len(history[k]) /\ history[k][i] = t
        /\ Len(history[k]) \in Nat /\ t \in Task
    BY <1>2, ListTypes DEF Lineage
  <1>4. /\ f.born \in 1 .. k /\ g.born = f.born
        /\ f.applied \in Seq(Task) /\ g.applied = Append(f.applied, t)
        /\ k \in g.born .. k
    BY FrameFields DEF Fits, Frame
  <1> HIDE DEF k, t
  <1>5. WentThrough(f, k, i - 1)
    BY <1>3 DEF Fits, k, t
  <1>6. Len(f.applied) = i - 1 /\ \A m \in 1 .. i - 1 : f.applied[m] = history[k][m]
    BY <1>5 DEF WentThrough
  <1>7. WentThrough(g, k, i)
    <2>1. /\ Len(g.applied) = i
          /\ \A m \in 1 .. i : g.applied[m] = IF m = i THEN t ELSE f.applied[m]
      BY <1>3, <1>4, <1>6, Appended
    <2> QED BY <1>3, <1>6, <2>1 DEF WentThrough
  <1>8. outputQueue[t] = Processed => i = Len(history[k])
    <2> SUFFICES ASSUME i # Len(history[k]) PROVE outputQueue[t] # Processed
      OBVIOUS
    <2>1. i < Len(history[k]) /\ i + 1 \in 1 .. Len(history[k])
      BY <1>3
    <2>2. outputQueue[t] = inputQueue[history[k][i + 1]]
      BY <1>3, <2>1 DEF Lineage, Chained, k
    <2>3. history[k][i + 1] \in 1 .. created.tasks
      BY <1>3, <2>1 DEF Lineage, Chained, k
    <2> QED BY <2>2, <2>3 DEF Lineage, QueuesApart
  <1> QED BY <1>3, <1>4, <1>7, <1>8 DEF Treated, k, t

\* A frame that task t has treated fits the queue that t offers to: whichever
\* task reads that queue, in whichever list, has t and its past before it.
LEMMA FitsNext ==
  ASSUME TypeOK, Lineage, NEW t \in 1 .. created.tasks, NEW f, Treated(f, t)
  PROVE  Fits(f, outputQueue[t])
  <1> DEFINE Way(k, i) == /\ history[k][i] = t
                          /\ WentThrough(f, k, i)
                          /\ outputQueue[t] = Processed => i = Len(history[k])
  <1>1. PICK k \in f.born .. Len(history) : \E i \in 1 .. Len(history[k]) : Way(k, i)
    BY DEF Treated
  <1>2. PICK i \in 1 .. Len(history[k]) : Way(k, i)
    BY <1>1
  <1>3. f.born \in 1 .. Len(history) /\ k \in 1 .. Len(history)
    BY <1>1, ListTypes DEF Treated
  <1>4. outputQueue[t] # Unprocessed
    BY DEF Lineage, QueuesApart, Unprocessed
  <1>5. outputQueue[t] = Processed =>
          \E l \in f.born .. Len(history) : WentThrough(f, l, Len(history[l]))
    BY <1>1, <1>2
  <1>6. ASSUME NEW l \in 1 .. Len(history), NEW j \in 1 .. Len(history[l]),
               inputQueue[history[l][j]] = outputQueue[t]
        PROVE  WentThrough(f, l, j - 1)
    <2>1. j # 1 /\ j \in Nat /\ Len(history[l]) \in Nat
      BY <1>4, <1>6, ListTypes DEF Lineage, Chained
    <2>2. j - 1 \in 1 .. Len(history[l]) /\ j - 1 < Len(history[l]) /\ j - 1 + 1 = j
      BY <2>1
    <2> DEFINE u == history[l][j - 1]
    <2>3. u \in 1 .. created.tasks /\ outputQueue[u] = inputQueue[history[l][j]]
      BY <2>2 DEF Lineage, Chained
    <2>4. history[l][j] \in 1 .. created.tasks
      BY DEF Lineage, Chained
    <2>5. outputQueue[t] # Processed
      BY <1>6, <2>4 DEF Lineage, QueuesApart
    <2> HIDE DEF u
    <2>6. u = t
      BY <1>6, <2>3, <2>5 DEF Lineage, QueuesApart
    <2>7. history[k][i] = history[l][j - 1]
      BY <1>2, <2>6 DEF u
    <2>8. i = j - 1 /\ \A m \in 1 .. i : history[k][m] = history[l][m]
      <3>1. SamePast
        BY DEF Lineage
      <3>2. \A y \in 1 .. Len(history[l]) :
              history[k][i] = history[l][y] =>
                i = y /\ \A m \in 1 .. i : history[k][m] = history[l][m]
        BY <1>3, <3>1 DEF SamePast
      <3> QED BY <2>2, <2>7, <3>2
    <2> QED BY <1>2, <2>8 DEF WentThrough
  <1> HIDE DEF Way
  <1> QED BY <1>3, <1>4, <1>5, <1>6 DEF Fits

\* The steps of a thread.
LEMMA ThreadListed ==
  ASSUME TypeOK, Ownership, Listed, NEW th \in Thread, Run(th) \/ ApplyThrows(th)
  PROVE  Listed'
  <1>1. Lineage /\ NewUntouched /\ Queued /\ Carried /\ Numbered
    BY DEF Listed, Ownership
  <1>2. /\ UNCHANGED <<history, inputQueue, outputQueue, created, effectTasks, taskOf>>
        /\ pc[th] \in Alive
    BY DEF Run, ReadInput, Take, LeaveLoop, Apply, DropFrame, ReadOutput, Offer, ApplyThrows,
           pipelineVars, Alive, Busy
  <1>3. /\ Lineage'
        /\ \A f, q : Fits(f, q) => Fits(f, q)'
        /\ \A f, t : Treated(f, t) => Treated(f, t)'
    BY <1>1, <1>2, ListsStay
  <1>4. /\ taskOf[th] \in 1 .. created.tasks /\ taskOf[th] \in Task
        /\ ref[th] \in Queue /\ ref[th] <= created.queues /\ created.queues \in Nat
        /\ inputQueue[taskOf[th]] \in 0 .. created.queues
        /\ outputQueue[taskOf[th]] \in 1 .. created.queues
    <2>1. pc[th] # "none"
      BY <1>2 DEF Alive, Busy
    <2>2. taskOf[th] \in 1 .. created.tasks /\ ref[th] <= created.queues
      BY <1>1, <2>1 DEF NewUntouched
    <2> QED BY <1>1, <2>2, ListTypes DEF Lineage, QueuesApart, TypeOK
  <1>5. \A o \in Thread \ {th} : /\ pc'[o] = pc[o] /\ ref'[o] = ref[o]
                                 /\ hand'[o] = hand[o]
    BY DEF Run, ReadInput, Take, LeaveLoop, Apply, DropFrame, ReadOutput, Offer, ApplyThrows,
           TypeOK
  <1>6. ASSUME pc'[th] \in {"take", "apply"} => ref'[th] = inputQueue[taskOf[th]],
               pc'[th] \in {"apply", "offer"} => Fits(hand'[th], ref'[th]),
               pc'[th] = "applied" => Treated(hand'[th], taskOf[th])
        PROVE  Carried'
    <2> SUFFICES ASSUME NEW o \in Thread
                 PROVE  /\ pc'[o] \in {"take", "apply"} => ref'[o] = inputQueue'[taskOf'[o]]
                        /\ pc'[o] \in {"apply", "offer"} => Fits(hand[o], ref[o])'
                        /\ pc'[o] = "applied" => Treated(hand[o], taskOf[o])'
      BY DEF Carried
    <2>1. CASE o = th
      BY <1>2, <1>3, <1>6, <2>1
    <2>2. CASE o # th
      BY <1>1, <1>2, <1>3, <1>5, <2>2 DEF Carried
    <2> QED BY <2>1, <2>2
  <1>7. ASSUME \A q \in Queue : q > created.queues => queue'[q] = queue[q],
               ref'[th] <= created.queues
        PROVE  NewUntouched'
    BY <1>1, <1>2, <1>4, <1>5, <1>7 DEF NewUntouched, Alive, Busy
  <1>8. ASSUME \A q \in Queue : \A i \in 1 .. Len(queue'[q]) :
                 Fits(queue'[q][i], q) \/ \E j \in 1 .. Len(queue[q]) : queue'[q][i] = queue[q][j]
        PROVE  Queued'
    BY <1>1, <1>3, <1>8 DEF Queued
  <1>9. queue' = queue /\ ref'[th] <= created.queues => Queued' /\ NewUntouched'
    BY <1>7, <1>8
  <1>10. CASE ReadInput(th)
    <2>1. /\ ref'[th] = inputQueue[taskOf[th]] /\ pc'[th] = "take" /\ queue' = queue
      BY <1>10 DEF ReadInput, TypeOK
    <2> QED BY <1>3, <1>4, <1>6, <1>9, <2>1 DEF Listed
  <1>11. CASE LeaveLoop(th) \/ DropFrame(th) \/ ApplyThrows(th)
    <2>1. /\ ref' = ref /\ pc'[th] = "done" /\ queue' = queue
      BY <1>11 DEF LeaveLoop, DropFrame, ApplyThrows, TypeOK
    <2> QED BY <1>3, <1>4, <1>6, <1>9, <2>1 DEF Listed
  <1>12. CASE Take(th)
    <2> DEFINE r == ref[th]
    <2>1. /\ queue[r] # <<>> /\ queue' = [queue EXCEPT ![r] = Tail(@)]
          /\ pc[th] = "take" /\ pc'[th] = "apply" /\ ref' = ref
          /\ hand'[th] = Head(queue[r])
      BY <1>12 DEF Take, TypeOK
    <2>2. /\ \A q \in Queue \ {r} : queue'[q] = queue[q]
          /\ Len(queue'[r]) \in Nat
          /\ Len(queue'[r]) + 1 <= Len(queue[r])
          /\ \A i \in 1 .. Len(queue'[r]) : queue'[r][i] = queue[r][i + 1]
          /\ Len(queue[r]) >= 1 /\ Head(queue[r]) = queue[r][1] /\ Len(queue[r]) \in Nat
      BY <1>4, <2>1, HeadTaken, FrameIds
    <2>3. r = inputQueue[taskOf[th]]
      BY <1>1, <2>1 DEF Carried
    <2>4. r \in Queue /\ r <= created.queues
      BY <1>4
    <2> HIDE DEF r
    <2>5. Fits(hand'[th], r)
      BY <1>1, <2>1, <2>2, <2>4 DEF Queued
    <2>6. Carried'
      BY <1>6, <2>1, <2>3, <2>5 DEF r
    <2>7. \A q \in Queue : \A i \in 1 .. Len(queue'[q]) :
            \E j \in 1 .. Len(queue[q]) : queue'[q][i] = queue[q][j]
      <3>1. \A i \in 1 .. Len(queue'[r]) : i + 1 \in 1 .. Len(queue[r])
        BY <2>2
      <3> QED BY <2>2, <3>1
    <2>8. \A q \in Queue : q > created.queues => queue'[q] = queue[q]
      <3>1. ~(r > created.queues)
        BY <1>4, <2>4 DEF Queue
      <3> QED BY <2>2, <3>1
    <2> QED BY <1>3, <1>7, <1>8, <2>1, <2>4, <2>6, <2>7, <2>8 DEF Listed, r
  <1>13. CASE Apply(th)
    <2>1. /\ pc[th] = "apply" /\ ~interrupted[th] /\ pc'[th] = "applied"
          /\ hand'[th] = [hand[th] EXCEPT !.applied = Append(@, taskOf[th])]
          /\ queue' = queue /\ ref' = ref
      BY <1>13 DEF Apply, TypeOK
    <2>2. hand[th] \in Frame /\ hand'[th] \in Frame
      BY <1>1, ThreadType DEF TypeOK
    <2>3. Fits(hand[th], inputQueue[taskOf[th]])
      BY <1>1, <2>1 DEF Carried
    <2>4. Treated(hand'[th], taskOf[th])
      BY <1>1, <1>2, <2>1, <2>2, <2>3, Applied
    <2> QED BY <1>3, <1>4, <1>6, <1>9, <2>1, <2>4 DEF Listed
  <1>14. CASE ReadOutput(th)
    <2>1. /\ pc[th] = "applied" /\ pc'[th] = "offer" /\ ref'[th] = outputQueue[taskOf[th]]
          /\ queue' = queue /\ hand' = hand
      BY <1>14 DEF ReadOutput, TypeOK
    <2>2. Fits(hand[th], outputQueue[taskOf[th]])
      BY <1>1, <1>4, <2>1, FitsNext DEF Carried
    <2> QED BY <1>3, <1>4, <1>6, <1>9, <2>1, <2>2 DEF Listed
  <1>15. CASE Offer(th)
    <2> DEFINE r == ref[th]
               f == hand[th]
    <2>1. /\ pc[th] = "offer" /\ pc'[th] = "loop" /\ ref' = ref
          /\ queue' = Offered(r, f) /\ f \in Frame /\ r \in Queue /\ r <= created.queues
      BY <1>4, <1>15 DEF Offer, TypeOK
    <2>2. Fits(f, r)
      BY <1>1, <2>1 DEF Carried
    <2>3. Carried'
      BY <1>6, <2>1
    <2> HIDE DEF r, f
    <2>4. CASE queue' = queue
      BY <1>3, <1>9, <2>1, <2>3, <2>4 DEF Listed, r
    <2>5. CASE queue' = [queue EXCEPT ![r] = Append(@, f)]
      <3>1. /\ \A q \in Queue \ {r} : queue'[q] = queue[q]
            /\ Len(queue[r]) \in Nat
            /\ Len(queue'[r]) = Len(queue[r]) + 1
            /\ \A i \in 1 .. Len(queue[r]) + 1 :
                 queue'[r][i] = IF i = Len(queue[r]) + 1 THEN f ELSE queue[r][i]
        BY <2>1, <2>5, Accepted
      <3>2. \A i \in 1 .. Len(queue[r]) + 1 :
              i = Len(queue[r]) + 1 \/ i \in 1 .. Len(queue[r])
        BY <3>1
      <3>3. \A q \in Queue : \A i \in 1 .. Len(queue'[q]) :
              Fits(queue'[q][i], q) \/ \E j \in 1 .. Len(queue[q]) : queue'[q][i] = queue[q][j]
        BY <2>2, <3>1, <3>2
      <3>4. \A q \in Queue : q > created.queues => queue'[q] = queue[q]
        <4>1. ~(r > created.queues)
          BY <1>4, <2>1 DEF Queue
        <4> QED BY <3>1, <4>1
      <3> QED BY <1>3, <1>7, <1>8, <2>1, <2>3, <3>3, <3>4 DEF Listed, r
    <2> QED BY <2>1, <2>4, <2>5 DEF Offered
  <1> QED BY <1>10, <1>11, <1>12, <1>13, <1>14, <1>15 DEF Run

-----------------------------------------------------------------------------
\* The inductive invariant holds in every state of every behaviour.
THEOREM ListedInvariant == Spec => []Listed
  <1>1. TypeOK /\ Ownership /\ Listed /\ [Next]_vars => Listed'
    <2> SUFFICES ASSUME TypeOK, Ownership, Listed, [Next]_vars
                 PROVE  Listed'
      OBVIOUS
    <2>1. CASE Edit
      BY <2>1, EditListed
    <2>2. CASE Start \/ Stop \/ Frames
      BY <2>2, CallListed
    <2>3. CASE \E th \in Thread : Run(th) \/ ApplyThrows(th)
      BY <2>3, ThreadListed
    <2>4. CASE UNCHANGED vars
      <3>1. /\ UNCHANGED <<history, inputQueue, outputQueue, created, effectTasks>>
            /\ UNCHANGED <<queue, taskOf, pc, ref, hand>>
        BY <2>4 DEF vars, pipelineVars
      <3>2. /\ Lineage => Lineage'
            /\ \A f, q : Fits(f, q) => Fits(f, q)'
            /\ \A f, t : Treated(f, t) => Treated(f, t)'
        BY <3>1, ListsStay
      <3> QED BY <3>1, <3>2 DEF Listed, NewUntouched, Queued, Carried
    <2> QED BY <2>1, <2>2, <2>3, <2>4 DEF Next
  <1> QED BY <1>1, InitListed, OwnershipInvariant, PTL DEF Spec

\* A processed frame went through the effects of exactly one list, in their
\* order, and that list was in force after the frame was offered, wherever
\* addEffect, clearEffects and stop() fall between the steps of the threads.
THEOREM FramesTreatedWithOneList == Spec => []AppliedOneList
  <1>1. TypeOK /\ Listed => AppliedOneList
    <2> SUFFICES ASSUME TypeOK, Listed, NEW i \in 1 .. Len(queue[Processed])
                 PROVE  \E k \in queue[Processed][i].born .. Len(history) :
                          queue[Processed][i].applied = history[k]
      BY DEF AppliedOneList
    <2> DEFINE f == queue[Processed][i]
    <2>1. Fits(f, Processed) /\ f \in Frame
      BY EndQueues, ElementOfSeq DEF Listed, Queued, TypeOK
    <2> HIDE DEF f
    <2>2. PICK k \in f.born .. Len(history) : WentThrough(f, k, Len(history[k]))
      BY <2>1 DEF Fits
    <2>3. k \in 1 .. Len(history)
      BY <2>1, <2>2, ListTypes DEF Fits, Listed
    <2>4. f.applied \in Seq(Task) /\ history[k] \in Seq(Task)
      BY <2>1, <2>3, FrameFields, ListTypes DEF Listed
    <2>5. f.applied = history[k]
      BY <2>2, <2>4, SeqEqual DEF WentThrough
    <2> QED BY <2>2, <2>5 DEF f
  <1> QED BY <1>1, ListedInvariant, TypeCorrect, PTL

-----------------------------------------------------------------------------
(***************************************************************************)
(* No frame of EffectPipeline overtakes another between two edits, and the *)
(* pipeline implements FrameService.  The frames offered since the last    *)
(* edit are fresh.  Fresh frames are on the way through the tasks in force: *)
(* in the queues between them, called links here and numbered from the     *)
(* unprocessed queue on, and in the hands of the threads that serve them.  *)
(* The further a fresh frame has come, the earlier it was offered.         *)
(***************************************************************************)

\* The queue that task number i offers to, and number 0 is unprocessed.
Link(i) == IF i = 0 THEN Unprocessed ELSE outputQueue[effectTasks[i]]

\* Frame f was offered since the last edit.
Fresh(f) == f.born = Len(history)

\* Thread number i of the pipeline has a fresh frame in its hands.
HoldsFresh(i) == pc[effectThreads[i]] \in Busy /\ Fresh(hand[effectThreads[i]])

\* Fresh frames lie in the links, ...
QueuedOnChain ==
  \A q \in Queue : \A x \in 1 .. Len(queue[q]) :
    Fresh(queue[q][x]) => \E i \in 0 .. Len(effectTasks) : q = Link(i)

\* ... and once treated they are held by threads of the pipeline, which offer
\* them to the next link.  (A replaced thread may hold one, but it drops it.)
HeldOnChain ==
  \A th \in Thread :
    pc[th] \in {"applied", "offer"} /\ Fresh(hand[th]) =>
      /\ \E i \in 1 .. Len(effectThreads) : th = effectThreads[i]
      /\ pc[th] = "offer" => ref[th] = outputQueue[taskOf[th]]

\* A fresh frame that is further on was offered earlier: in the links, ...
QueuesOrdered ==
  \A i, j \in 0 .. Len(effectTasks) :
    \A x \in 1 .. Len(queue[Link(i)]), y \in 1 .. Len(queue[Link(j)]) :
      /\ Fresh(queue[Link(i)][x]) /\ Fresh(queue[Link(j)][y])
      /\ i < j \/ (i = j /\ y < x)
      => queue[Link(j)][y].id < queue[Link(i)][x].id

\* ... between the links and the hands of the threads, ...
HandsInOrder ==
  \A i \in 1 .. Len(effectTasks), j \in 0 .. Len(effectTasks) :
    \A x \in 1 .. Len(queue[Link(j)]) :
      HoldsFresh(i) /\ Fresh(queue[Link(j)][x]) =>
        /\ i <= j => queue[Link(j)][x].id < hand[effectThreads[i]].id
        /\ j < i => hand[effectThreads[i]].id < queue[Link(j)][x].id

\* ... and from hand to hand.
HandsOrdered ==
  \A i, j \in 1 .. Len(effectTasks) :
    i < j /\ HoldsFresh(i) /\ HoldsFresh(j) =>
      hand[effectThreads[j]].id < hand[effectThreads[i]].id

\* The inductive invariant.
Ordered == QueuedOnChain /\ HeldOnChain /\ QueuesOrdered /\ HandsInOrder /\ HandsOrdered

-----------------------------------------------------------------------------
\* The links are different queues, and thread number i takes from the link
\* before it and offers to the link after it.
LEMMA Links ==
  ASSUME TypeOK, Wired
  PROVE  /\ Len(effectTasks) \in Nat /\ Len(effectThreads) = Len(effectTasks)
         /\ Link(0) = Unprocessed
         /\ \A i \in 0 .. Len(effectTasks) : Link(i) \in Queue
         /\ \A i, j \in 0 .. Len(effectTasks) : Link(i) = Link(j) => i = j
         /\ \A i \in 1 .. Len(effectTasks) :
              /\ effectThreads[i] \in Thread
              /\ inputQueue[taskOf[effectThreads[i]]] = Link(i - 1)
              /\ outputQueue[taskOf[effectThreads[i]]] = Link(i)
         /\ \A i, j \in 1 .. Len(effectTasks) : effectThreads[i] = effectThreads[j] => i = j
         /\ Len(effectTasks) > 0 => Link(Len(effectTasks)) = Processed
  <1> DEFINE n == Len(effectTasks)
  <1>1. /\ n \in Nat /\ Len(effectThreads) = n
        /\ \A i \in 1 .. n : effectTasks[i] \in Task /\ effectThreads[i] \in Thread
    BY ElementOfSeq, LenProperties DEF TypeOK, Wired
  <1>2. /\ \A i \in 1 .. n : taskOf[effectThreads[i]] = effectTasks[i]
        /\ n > 0 => /\ inputQueue[effectTasks[1]] = Unprocessed
                    /\ outputQueue[effectTasks[n]] = Processed
        /\ \A i \in 1 .. n - 1 : outputQueue[effectTasks[i]] = inputQueue[effectTasks[i + 1]]
        /\ \A i \in 2 .. n : inputQueue[effectTasks[i]] \notin {Unprocessed, Processed}
        /\ \A i, j \in 1 .. n : inputQueue[effectTasks[i]] = inputQueue[effectTasks[j]] => i = j
    BY DEF Wired
  <1>3. \A i \in 0 .. n : Link(i) \in Queue
    BY <1>1, EndQueues DEF Link, TypeOK
  <1> HIDE DEF n
  <1>4. \A i \in 1 .. n : inputQueue[effectTasks[i]] = Link(i - 1)
    <2>1. CASE n = 0
      BY <1>1, <2>1
    <2>2. CASE n > 0
      <3> SUFFICES ASSUME NEW i \in 1 .. n PROVE inputQueue[effectTasks[i]] = Link(i - 1)
        OBVIOUS
      <3>1. CASE i = 1
        BY <1>2, <2>2, <3>1 DEF Link
      <3>2. CASE i # 1
        <4>1. i - 1 \in 1 .. n - 1 /\ i - 1 # 0 /\ i - 1 + 1 = i
          BY <1>1, <3>2
        <4> QED BY <1>2, <4>1 DEF Link
      <3> QED BY <3>1, <3>2
    <2> QED BY <1>1, <2>1, <2>2
  <1>5. \A i \in 1 .. n : outputQueue[effectTasks[i]] = Link(i)
    BY <1>1 DEF Link
  <1>6. n > 0 => Link(n) = Processed
    BY <1>1, <1>2 DEF Link
  <1>7. ASSUME NEW i \in 0 .. n, NEW j \in 0 .. n, Link(i) = Link(j)
        PROVE  i = j
    <2>1. ASSUME NEW a \in 0 .. n - 1, NEW b \in 0 .. n - 1, Link(a) = Link(b)
          PROVE  a = b
      <3>1. a + 1 \in 1 .. n /\ b + 1 \in 1 .. n /\ a + 1 - 1 = a /\ b + 1 - 1 = b
        BY <1>1
      <3>2. inputQueue[effectTasks[a + 1]] = inputQueue[effectTasks[b + 1]]
        BY <1>4, <2>1, <3>1
      <3> QED BY <1>1, <1>2, <3>1, <3>2
    <2>2. ASSUME NEW a \in 0 .. n - 1
          PROVE  Link(a) # Link(n)
      <3>1. n > 0 /\ Link(n) = Processed
        BY <1>1, <1>6
      <3>2. CASE a = 0
        BY <3>1, <3>2 DEF Link, Unprocessed, Processed
      <3>3. CASE a # 0
        <4>1. a + 1 \in 2 .. n /\ a + 1 \in 1 .. n /\ a + 1 - 1 = a
          BY <1>1, <3>3
        <4> QED BY <1>2, <1>4, <3>1, <4>1
      <3> QED BY <3>2, <3>3
    <2>3. (i = n \/ i \in 0 .. n - 1) /\ (j = n \/ j \in 0 .. n - 1)
      BY <1>1
    <2> QED BY <1>7, <2>1, <2>2, <2>3
  <1>8. \A i, j \in 1 .. n : effectThreads[i] = effectThreads[j] => i = j
    BY <1>2
  <1>9. Link(0) = Unprocessed
    BY DEF Link
  <1> QED BY <1>1, <1>2, <1>3, <1>4, <1>5, <1>6, <1>7, <1>8, <1>9 DEF n

\* As long as the wiring, the threads and the lists stay, so do the links and
\* what is fresh.
LEMMA LinksStay ==
  ASSUME UNCHANGED <<effectTasks, effectThreads, outputQueue, history>>
  PROVE  /\ \A i : Link(i)' = Link(i)
         /\ \A f : Fresh(f)' = Fresh(f)
         /\ Len(effectTasks') = Len(effectTasks) /\ Len(effectThreads') = Len(effectThreads)
  BY DEF Link, Fresh

\* Frames that only leave queues at the head stay in their order, between the
\* links and with regard to the threads that only let go of frames.
LEMMA OrderAfterLeaving ==
  ASSUME TypeOK, Wired, Ordered,
         UNCHANGED <<effectTasks, effectThreads, outputQueue, history>>,
         NEW d \in [Queue -> Nat],
         \A q \in Queue : Len(queue'[q]) \in Nat /\ Len(queue'[q]) + d[q] <= Len(queue[q]),
         \A q \in Queue : \A x \in 1 .. Len(queue'[q]) : queue'[q][x] = queue[q][x + d[q]],
         NEW Kept \in SUBSET Thread,
         \A th \in Kept : pc'[th] \in Busy => /\ pc[th] \in Busy
                                              /\ hand'[th].id = hand[th].id
                                              /\ hand'[th].born = hand[th].born
  PROVE  /\ QueuedOnChain' /\ QueuesOrdered'
         /\ \A i \in 1 .. Len(effectTasks) : effectThreads[i] \in Kept =>
              /\ HoldsFresh(i)' => /\ HoldsFresh(i)
                                   /\ hand'[effectThreads[i]].id = hand[effectThreads[i]].id
              /\ \A j \in 0 .. Len(effectTasks) : \A x \in 1 .. Len(queue'[Link(j)]) :
                   HoldsFresh(i)' /\ Fresh(queue'[Link(j)][x]) =>
                     /\ i <= j => queue'[Link(j)][x].id < hand'[effectThreads[i]].id
                     /\ j < i => hand'[effectThreads[i]].id < queue'[Link(j)][x].id
  <1> DEFINE n == Len(effectTasks)
  <1>1. /\ \A i : Link(i)' = Link(i)
        /\ \A f : Fresh(f)' = Fresh(f)
        /\ Len(effectTasks') = n
    BY LinksStay
  <1>2. n \in Nat /\ \A i \in 0 .. n : Link(i) \in Queue
    BY Links
  <1>3. \A q \in Queue : \A x \in 1 .. Len(queue'[q]) :
          x + d[q] \in 1 .. Len(queue[q]) /\ queue'[q][x] = queue[q][x + d[q]]
    BY FrameIds
  <1>4. QueuedOnChain'
    <2> SUFFICES ASSUME NEW q \in Queue, NEW x \in 1 .. Len(queue'[q]), Fresh(queue[q][x])'
                 PROVE  \E i \in 0 .. n : q = Link(i)
      BY <1>1 DEF QueuedOnChain
    <2>1. Fresh(queue[q][x + d[q]])
      BY <1>3 DEF Fresh
    <2> QED BY <1>3, <2>1 DEF Ordered, QueuedOnChain
  <1>5. QueuesOrdered'
    <2> SUFFICES ASSUME NEW i \in 0 .. n, NEW j \in 0 .. n,
                        NEW x \in 1 .. Len(queue'[Link(i)]), NEW y \in 1 .. Len(queue'[Link(j)]),
                        Fresh(queue'[Link(i)][x]), Fresh(queue'[Link(j)][y]),
                        i < j \/ (i = j /\ y < x)
                 PROVE  queue'[Link(j)][y].id < queue'[Link(i)][x].id
      BY <1>1 DEF QueuesOrdered
    <2> DEFINE a == x + d[Link(i)]
               b == y + d[Link(j)]
    <2>1. /\ a \in 1 .. Len(queue[Link(i)]) /\ queue'[Link(i)][x] = queue[Link(i)][a]
          /\ b \in 1 .. Len(queue[Link(j)]) /\ queue'[Link(j)][y] = queue[Link(j)][b]
      BY <1>2, <1>3
    <2>2. i < j \/ (i = j /\ b < a)
      <3>1. d[Link(i)] \in Nat
        BY <1>2
      <3>2. x \in Int /\ y \in Int
        OBVIOUS
      <3> QED BY <3>1, <3>2
    <2> HIDE DEF a, b
    <2> QED BY <2>1, <2>2 DEF Ordered, QueuesOrdered
  <1>6. ASSUME NEW i \in 1 .. n, effectThreads[i] \in Kept, HoldsFresh(i)'
        PROVE  /\ HoldsFresh(i)
               /\ hand'[effectThreads[i]].id = hand[effectThreads[i]].id
    BY <1>6 DEF HoldsFresh, Fresh
  <1>7. ASSUME NEW i \in 1 .. n, effectThreads[i] \in Kept, HoldsFresh(i)',
               NEW j \in 0 .. n, NEW x \in 1 .. Len(queue'[Link(j)]), Fresh(queue'[Link(j)][x])
        PROVE  /\ i <= j => queue'[Link(j)][x].id < hand'[effectThreads[i]].id
               /\ j < i => hand'[effectThreads[i]].id < queue'[Link(j)][x].id
    <2> DEFINE a == x + d[Link(j)]
    <2>1. a \in 1 .. Len(queue[Link(j)]) /\ queue'[Link(j)][x] = queue[Link(j)][a]
      BY <1>2, <1>3
    <2> HIDE DEF a
    <2>2. HoldsFresh(i) /\ hand'[effectThreads[i]].id = hand[effectThreads[i]].id
      BY <1>6, <1>7
    <2> QED BY <1>7, <2>1, <2>2 DEF Ordered, HandsInOrder
  <1> QED BY <1>4, <1>5, <1>6, <1>7

\* So they do when threads only let go of frames.
LEMMA FramesLeaving ==
  ASSUME TypeOK, Wired, Ordered,
         UNCHANGED <<effectTasks, effectThreads, outputQueue, history>>,
         NEW d \in [Queue -> Nat],
         \A q \in Queue : Len(queue'[q]) \in Nat /\ Len(queue'[q]) + d[q] <= Len(queue[q]),
         \A q \in Queue : \A x \in 1 .. Len(queue'[q]) : queue'[q][x] = queue[q][x + d[q]],
         \A th \in Thread : pc'[th] \in Busy => /\ pc[th] \in Busy
                                                /\ hand'[th].id = hand[th].id
                                                /\ hand'[th].born = hand[th].born
  PROVE  QueuedOnChain' /\ QueuesOrdered' /\ HandsInOrder' /\ HandsOrdered'
  <1> DEFINE n == Len(effectTasks)
  <1>1. /\ QueuedOnChain' /\ QueuesOrdered'
        /\ \A i \in 1 .. n : effectThreads[i] \in Thread =>
             /\ HoldsFresh(i)' => /\ HoldsFresh(i)
                                  /\ hand'[effectThreads[i]].id = hand[effectThreads[i]].id
             /\ \A j \in 0 .. n : \A x \in 1 .. Len(queue'[Link(j)]) :
                  HoldsFresh(i)' /\ Fresh(queue'[Link(j)][x]) =>
                    /\ i <= j => queue'[Link(j)][x].id < hand'[effectThreads[i]].id
                    /\ j < i => hand'[effectThreads[i]].id < queue'[Link(j)][x].id
    <2>1. Thread \in SUBSET Thread
      OBVIOUS
    <2> QED BY <2>1, OrderAfterLeaving
  <1>2. \A i \in 1 .. n : effectThreads[i] \in Thread
    BY Links
  <1>3. /\ \A i : Link(i)' = Link(i)
        /\ \A f : Fresh(f)' = Fresh(f)
        /\ Len(effectTasks') = n
    BY LinksStay
  <1>4. HandsInOrder'
    BY <1>1, <1>2, <1>3 DEF HandsInOrder
  <1>5. HandsOrdered'
    BY <1>1, <1>2, <1>3 DEF HandsOrdered, Ordered
  <1> QED BY <1>1, <1>4, <1>5

\* A queue accepts a frame.  If the frame is fresh, it goes to a link behind all
\* the fresh frames of that link and those further on.
LEMMA OrderAfterEntering ==
  ASSUME TypeOK, Wired, Ordered,
         UNCHANGED <<effectTasks, effectThreads, outputQueue, history>>,
         NEW r \in Queue, NEW f \in Frame, NEW m \in 0 .. Len(effectTasks),
         queue' = [queue EXCEPT ![r] = Append(@, f)],
         \A th \in Thread : pc'[th] \in Busy => pc[th] \in Busy /\ hand'[th] = hand[th],
         Fresh(f) => r = Link(m),
         Fresh(f) => \A j \in 0 .. Len(effectTasks) : \A y \in 1 .. Len(queue[Link(j)]) :
                       Fresh(queue[Link(j)][y]) =>
                         /\ m <= j => queue[Link(j)][y].id < f.id
                         /\ j < m => f.id < queue[Link(j)][y].id,
         Fresh(f) => \A k \in 1 .. Len(effectTasks) :
                       HoldsFresh(k) /\ pc'[effectThreads[k]] \in Busy =>
                         /\ k <= m => f.id < hand[effectThreads[k]].id
                         /\ m < k => hand[effectThreads[k]].id < f.id
  PROVE  QueuedOnChain' /\ QueuesOrdered' /\ HandsInOrder' /\ HandsOrdered'
  <1> DEFINE n == Len(effectTasks)
             old(q, x) == x \in 1 .. Len(queue[q]) /\ queue'[q][x] = queue[q][x]
             last(q, x) == q = r /\ x = Len(queue[r]) + 1 /\ queue'[q][x] = f
  <1>1. /\ \A i : Link(i)' = Link(i)
        /\ \A g : Fresh(g)' = Fresh(g)
        /\ Len(effectTasks') = n
    BY LinksStay
  <1>2. /\ n \in Nat /\ \A i \in 0 .. n : Link(i) \in Queue
        /\ \A i, j \in 0 .. n : Link(i) = Link(j) => i = j
        /\ \A i \in 1 .. n : effectThreads[i] \in Thread
    BY Links
  <1>3. \A q \in Queue : \A x \in 1 .. Len(queue'[q]) : old(q, x) \/ last(q, x)
    <2>1. /\ \A q \in Queue \ {r} : queue'[q] = queue[q]
          /\ Len(queue[r]) \in Nat
          /\ Len(queue'[r]) = Len(queue[r]) + 1
          /\ \A i \in 1 .. Len(queue[r]) + 1 :
               queue'[r][i] = IF i = Len(queue[r]) + 1 THEN f ELSE queue[r][i]
      BY Accepted
    <2>2. \A i \in 1 .. Len(queue[r]) + 1 : i = Len(queue[r]) + 1 \/ i \in 1 .. Len(queue[r])
      BY <2>1
    <2> QED BY <2>1, <2>2
  <1>4. QueuedOnChain'
    <2> SUFFICES ASSUME NEW q \in Queue, NEW x \in 1 .. Len(queue'[q]), Fresh(queue'[q][x])
                 PROVE  \E i \in 0 .. n : q = Link(i)
      BY <1>1 DEF QueuedOnChain
    <2> QED BY <1>3 DEF Ordered, QueuedOnChain
  <1>5. QueuesOrdered'
    <2> SUFFICES ASSUME NEW i \in 0 .. n, NEW j \in 0 .. n,
                        NEW x \in 1 .. Len(queue'[Link(i)]), NEW y \in 1 .. Len(queue'[Link(j)]),
                        Fresh(queue'[Link(i)][x]), Fresh(queue'[Link(j)][y]),
                        i < j \/ (i = j /\ y < x)
                 PROVE  queue'[Link(j)][y].id < queue'[Link(i)][x].id
      BY <1>1 DEF QueuesOrdered
    <2>1. (old(Link(i), x) \/ last(Link(i), x)) /\ (old(Link(j), y) \/ last(Link(j), y))
      BY <1>2, <1>3
    <2>2. CASE old(Link(i), x) /\ old(Link(j), y)
      BY <2>2 DEF Ordered, QueuesOrdered
    <2>3. CASE last(Link(i), x) /\ old(Link(j), y)
      <3>1. Fresh(f) /\ i = m
        BY <1>2, <2>3
      <3>2. m <= j
        BY <3>1
      <3> QED BY <2>3, <3>1, <3>2
    <2>4. CASE old(Link(i), x) /\ last(Link(j), y)
      <3>1. Fresh(f) /\ j = m
        BY <1>2, <2>4
      <3>2. i < m
        <4>1. CASE i = j
          <5>1. x \in 1 .. Len(queue[r]) /\ y = Len(queue[r]) + 1
            BY <2>4, <4>1
          <5>2. Len(queue[r]) \in Nat
            BY FrameIds
          <5> QED BY <4>1, <5>1, <5>2
        <4> QED BY <3>1, <4>1
      <3> QED BY <2>4, <3>1, <3>2
    <2>5. CASE last(Link(i), x) /\ last(Link(j), y)
      <3>1. i = j /\ x = y
        BY <1>2, <2>5
      <3> QED BY <1>2, <3>1
    <2> HIDE DEF old, last
    <2> QED BY <2>1, <2>2, <2>3, <2>4, <2>5
  <1>6. \A k \in 1 .. n : HoldsFresh(k)' => /\ HoldsFresh(k) /\ pc'[effectThreads[k]] \in Busy
                                            /\ hand'[effectThreads[k]] = hand[effectThreads[k]]
    BY <1>2 DEF HoldsFresh, Fresh
  <1>7. HandsInOrder'
    <2> SUFFICES ASSUME NEW k \in 1 .. n, NEW j \in 0 .. n, NEW x \in 1 .. Len(queue'[Link(j)]),
                        HoldsFresh(k)', Fresh(queue'[Link(j)][x])
                 PROVE  /\ k <= j => queue'[Link(j)][x].id < hand'[effectThreads[k]].id
                        /\ j < k => hand'[effectThreads[k]].id < queue'[Link(j)][x].id
      BY <1>1 DEF HandsInOrder
    <2>1. old(Link(j), x) \/ last(Link(j), x)
      BY <1>2, <1>3
    <2>2. CASE old(Link(j), x)
      BY <1>6, <2>2 DEF Ordered, HandsInOrder
    <2>3. CASE last(Link(j), x)
      <3>1. Fresh(f) /\ j = m
        BY <1>2, <2>3
      <3> QED BY <1>6, <2>3, <3>1
    <2> QED BY <2>1, <2>2, <2>3
  <1>8. HandsOrdered'
    BY <1>1, <1>6 DEF HandsOrdered, Ordered
  <1> QED BY <1>4, <1>5, <1>7, <1>8

\* A thread takes the head of the queue it refers to; a thread of the pipeline
\* refers to the link before it, and so stays between the frames on either side.
LEMMA OrderAfterTaking ==
  ASSUME TypeOK, Wired, Ordered, Carried, NEW th \in Thread, Take(th)
  PROVE  Ordered'
  <1> DEFINE n == Len(effectTasks)
             r == ref[th]
             d == [q \in Queue |-> IF q = r THEN 1 ELSE 0]
  <1>1. /\ queue[r] # <<>> /\ queue' = [queue EXCEPT ![r] = Tail(@)]
        /\ pc[th] = "take" /\ pc'[th] = "apply" /\ hand'[th] = Head(queue[r])
        /\ \A o \in Thread \ {th} : pc'[o] = pc[o] /\ hand'[o] = hand[o]
        /\ UNCHANGED <<effectTasks, effectThreads, outputQueue, history, taskOf, ref>>
        /\ r \in Queue
    BY DEF Take, pipelineVars, TypeOK
  <1>2. /\ \A q \in Queue \ {r} : queue'[q] = queue[q]
        /\ \A q \in Queue : Len(queue'[q]) \in Nat
        /\ Len(queue'[r]) + 1 <= Len(queue[r])
        /\ \A i \in 1 .. Len(queue'[r]) : queue'[r][i] = queue[r][i + 1]
        /\ Len(queue[r]) >= 1 /\ Head(queue[r]) = queue[r][1] /\ Len(queue[r]) \in Nat
    BY <1>1, HeadTaken, FrameIds
  <1>3. d \in [Queue -> Nat]
    OBVIOUS
  <1>4. \A q \in Queue : d[q] = IF q = r THEN 1 ELSE 0
    OBVIOUS
  <1> HIDE DEF r, d
  <1>5. /\ \A q \in Queue : Len(queue'[q]) \in Nat /\ Len(queue'[q]) + d[q] <= Len(queue[q])
        /\ \A q \in Queue : \A x \in 1 .. Len(queue'[q]) : queue'[q][x] = queue[q][x + d[q]]
    BY <1>2, <1>4, FrameIds
  <1>6. /\ QueuedOnChain' /\ QueuesOrdered'
        /\ \A i \in 1 .. n : effectThreads[i] \in Thread \ {th} =>
             /\ HoldsFresh(i)' => /\ HoldsFresh(i)
                                  /\ hand'[effectThreads[i]].id = hand[effectThreads[i]].id
             /\ \A j \in 0 .. n : \A x \in 1 .. Len(queue'[Link(j)]) :
                  HoldsFresh(i)' /\ Fresh(queue'[Link(j)][x]) =>
                    /\ i <= j => queue'[Link(j)][x].id < hand'[effectThreads[i]].id
                    /\ j < i => hand'[effectThreads[i]].id < queue'[Link(j)][x].id
    <2>1. \A o \in Thread \ {th} : pc'[o] \in Busy => /\ pc[o] \in Busy
                                                      /\ hand'[o].id = hand[o].id
                                                      /\ hand'[o].born = hand[o].born
      BY <1>1
    <2>2. Thread \ {th} \in SUBSET Thread
      OBVIOUS
    <2> QED BY <1>1, <1>3, <1>5, <2>1, <2>2, OrderAfterLeaving
  <1>7. /\ \A i : Link(i)' = Link(i)
        /\ \A f : Fresh(f)' = Fresh(f)
        /\ Len(effectTasks') = n
    BY <1>1, LinksStay
  <1>8. /\ n \in Nat /\ \A i \in 0 .. n : Link(i) \in Queue
        /\ \A i \in 1 .. n : /\ effectThreads[i] \in Thread
                             /\ inputQueue[taskOf[effectThreads[i]]] = Link(i - 1)
        /\ \A i, j \in 1 .. n : effectThreads[i] = effectThreads[j] => i = j
    BY Links
  <1>9. 1 \in 1 .. Len(queue[r]) /\ hand'[th] = queue[r][1]
    BY <1>1, <1>2 DEF r
  <1>10. r = inputQueue[taskOf[th]]
    BY <1>1 DEF Carried, r
  <1>11. \A q \in Queue : \A x \in 1 .. Len(queue'[q]) :
           /\ x + d[q] \in 1 .. Len(queue[q]) /\ queue'[q][x] = queue[q][x + d[q]]
           /\ q = r => 1 < x + d[q]
    BY <1>4, <1>5, FrameIds
  <1>12. ASSUME NEW i \in 1 .. n, th = effectThreads[i], HoldsFresh(i)'
         PROVE  /\ Fresh(queue[r][1]) /\ r = Link(i - 1) /\ i - 1 \in 0 .. n
    BY <1>1, <1>8, <1>9, <1>10, <1>12 DEF HoldsFresh, Fresh
  <1>13. HandsInOrder'
    <2> SUFFICES ASSUME NEW i \in 1 .. n, NEW j \in 0 .. n, NEW x \in 1 .. Len(queue'[Link(j)]),
                        HoldsFresh(i)', Fresh(queue'[Link(j)][x])
                 PROVE  /\ i <= j => queue'[Link(j)][x].id < hand'[effectThreads[i]].id
                        /\ j < i => hand'[effectThreads[i]].id < queue'[Link(j)][x].id
      BY <1>1, <1>7 DEF HandsInOrder
    <2>1. CASE effectThreads[i] # th
      BY <1>6, <1>8, <2>1
    <2>2. CASE effectThreads[i] = th
      <3> DEFINE a == x + d[Link(j)]
      <3>1. /\ a \in 1 .. Len(queue[Link(j)]) /\ queue'[Link(j)][x] = queue[Link(j)][a]
            /\ Link(j) = r => 1 < a
        BY <1>8, <1>11
      <3> HIDE DEF a
      <3>2. Fresh(queue[Link(i - 1)][1]) /\ r = Link(i - 1) /\ i - 1 \in 0 .. n
            /\ 1 \in 1 .. Len(queue[Link(i - 1)])
        BY <1>9, <1>12, <2>2
      <3>3. hand'[effectThreads[i]].id = queue[Link(i - 1)][1].id
        BY <1>9, <2>2, <3>2
      <3>4. i <= j => i - 1 < j
        BY <1>8
      <3>5. j < i => j < i - 1 \/ (j = i - 1 /\ 1 < a)
        BY <1>8, <3>1, <3>2
      <3> QED BY <3>1, <3>2, <3>3, <3>4, <3>5 DEF Ordered, QueuesOrdered
    <2> QED BY <2>1, <2>2
  <1>14. HandsOrdered'
    <2> SUFFICES ASSUME NEW i \in 1 .. n, NEW j \in 1 .. n,
                        i < j, HoldsFresh(i)', HoldsFresh(j)'
                 PROVE  hand'[effectThreads[j]].id < hand'[effectThreads[i]].id
      BY <1>1, <1>7 DEF HandsOrdered
    <2>1. \A k \in 1 .. n : HoldsFresh(k)' /\ effectThreads[k] # th =>
            /\ HoldsFresh(k)
            /\ hand'[effectThreads[k]].id = hand[effectThreads[k]].id
      BY <1>6, <1>8
    <2>2. CASE effectThreads[i] # th /\ effectThreads[j] # th
      BY <2>1, <2>2 DEF Ordered, HandsOrdered
    <2>3. CASE effectThreads[i] = th
      <3>1. effectThreads[j] # th
        BY <1>8, <2>3
      <3>2. Fresh(queue[Link(i - 1)][1]) /\ i - 1 \in 0 .. n /\ 1 \in 1 .. Len(queue[Link(i - 1)])
            /\ hand'[effectThreads[i]].id = queue[Link(i - 1)][1].id
        BY <1>9, <1>12, <2>3
      <3>3. i - 1 < j
        BY <1>8
      <3> QED BY <2>1, <3>1, <3>2, <3>3 DEF Ordered, HandsInOrder
    <2>4. CASE effectThreads[j] = th
      <3>1. effectThreads[i] # th
        BY <1>8, <2>4
      <3>2. Fresh(queue[Link(j - 1)][1]) /\ j - 1 \in 0 .. n /\ 1 \in 1 .. Len(queue[Link(j - 1)])
            /\ hand'[effectThreads[j]].id = queue[Link(j - 1)][1].id
        BY <1>9, <1>12, <2>4
      <3>3. i <= j - 1
        BY <1>8
      <3> QED BY <2>1, <3>1, <3>2, <3>3 DEF Ordered, HandsInOrder
    <2> QED BY <2>2, <2>3, <2>4
  <1>15. HeldOnChain'
    BY <1>1 DEF Ordered, HeldOnChain, Fresh
  <1> QED BY <1>6, <1>13, <1>14, <1>15 DEF Ordered

-----------------------------------------------------------------------------
\* After an edit no frame is fresh.
LEMMA EditOrdered ==
  ASSUME TypeOK, Ownership, Listed, Edit
  PROVE  Ordered'
  <1>1. /\ Len(history) \in Nat /\ Len(history') = Len(history) + 1
        /\ queue' = queue /\ hand' = hand
        /\ \A th \in Thread : pc'[th] \in {"new", "loop"} \/ pc'[th] = pc[th]
    BY WhatEditsDo, ListTypes DEF Listed
  <1>2. \A q \in Queue : \A x \in 1 .. Len(queue'[q]) : ~Fresh(queue[q][x])'
    <2> SUFFICES ASSUME NEW q \in Queue, NEW x \in 1 .. Len(queue[q])
                 PROVE  queue[q][x].born # Len(history) + 1
      BY <1>1 DEF Fresh
    <2>1. Fits(queue[q][x], q)
      BY DEF Listed, Queued
    <2>2. queue[q][x].born \in 1 .. Len(history)
      BY <2>1 DEF Fits
    <2> QED BY <1>1, <2>2
  <1>3. \A th \in Thread : pc'[th] \in Busy => ~Fresh(hand[th])'
    <2> SUFFICES ASSUME NEW th \in Thread, pc'[th] \in Busy
                 PROVE  hand[th].born # Len(history) + 1
      BY <1>1 DEF Fresh
    <2>1. pc[th] \in {"apply", "applied", "offer"}
      BY <1>1 DEF Busy
    <2>2. Fits(hand[th], ref[th]) \/ Treated(hand[th], taskOf[th])
      BY <2>1 DEF Listed, Carried
    <2>3. hand[th].born \in 1 .. Len(history)
      BY <2>2 DEF Fits, Treated
    <2> QED BY <1>1, <2>3
  <1>4. TypeOK' /\ Wired'
    BY StepKeepsOwnership DEF Ownership, Next
  <1>5. /\ \A i \in 0 .. Len(effectTasks') : Link(i)' \in Queue
        /\ \A i \in 1 .. Len(effectTasks') : effectThreads'[i] \in Thread
    <2>1. /\ effectTasks' \in Seq(Task) /\ effectThreads' \in Seq(Thread)
          /\ outputQueue' \in [Task -> Queue]
      BY <1>4 DEF TypeOK
    <2>2. Len(effectThreads') = Len(effectTasks') /\ Len(effectTasks') \in Nat
      BY <1>4, <2>1, LenProperties DEF Wired
    <2>3. /\ \A i \in 1 .. Len(effectTasks') : effectTasks'[i] \in Task
          /\ \A i \in 1 .. Len(effectTasks') : effectThreads'[i] \in Thread
      BY <2>1, <2>2, ElementOfSeq
    <2> QED BY <2>1, <2>2, <2>3, EndQueues DEF Link
  <1>6. QueuedOnChain' /\ QueuesOrdered' /\ HandsInOrder'
    BY <1>2, <1>5 DEF QueuedOnChain, QueuesOrdered, HandsInOrder
  <1>7. HeldOnChain'
    BY <1>3 DEF HeldOnChain, Busy
  <1>8. HandsOrdered'
    BY <1>3, <1>5 DEF HandsOrdered, HoldsFresh
  <1> QED BY <1>6, <1>7, <1>8 DEF Ordered

\* The other steps.  A frame is offered behind all others, a treated frame is
\* held by a thread of the pipeline, and it is offered to the link after it.
LEMMA CallOrdered ==
  ASSUME TypeOK, Wired, FramesNumbered, Ordered, Start \/ Stop \/ Frames
  PROVE  Ordered'
  <1> DEFINE none == [q \in Queue |-> 0]
  <1>1. UNCHANGED <<effectTasks, effectThreads, outputQueue, history, taskOf, ref, hand>>
    BY DEF Start, Stop, Frames, AddFrame, GetFrame, pipelineVars
  <1>2. \A th \in Thread : pc'[th] = pc[th] \/ pc'[th] \notin Busy
    BY DEF Start, Stop, Frames, AddFrame, GetFrame, TypeOK, Busy
  <1>3. HeldOnChain'
    BY <1>1, <1>2 DEF Ordered, HeldOnChain, Fresh, Busy
  <1>4. none \in [Queue -> Nat] /\ \A q \in Queue : none[q] = 0
    OBVIOUS
  <1> HIDE DEF none
  <1>5. ASSUME \A q \in Queue : queue'[q] = queue[q] \/ queue'[q] = <<>>
        PROVE  QueuedOnChain' /\ QueuesOrdered' /\ HandsInOrder' /\ HandsOrdered'
    <2>1. \A q \in Queue : Len(queue'[q]) \in Nat /\ Len(queue'[q]) + none[q] <= Len(queue[q])
      BY <1>4, <1>5, EmptySeq, FrameIds
    <2>2. \A q \in Queue : \A x \in 1 .. Len(queue'[q]) : queue'[q][x] = queue[q][x + none[q]]
      BY <1>4, <1>5, EmptySeq
    <2> QED BY <1>1, <1>2, <1>4, <2>1, <2>2, FramesLeaving
  <1>6. CASE Start \/ Stop
    <2>1. \A q \in Queue : queue'[q] = queue[q] \/ queue'[q] = <<>>
      BY <1>6 DEF Start, Stop, TypeOK
    <2> QED BY <1>3, <1>5, <2>1 DEF Ordered
  <1>7. CASE GetFrame
    <2> DEFINE d == [q \in Queue |-> IF q = Processed THEN 1 ELSE 0]
    <2>1. /\ queue[Processed] # <<>> /\ queue' = [queue EXCEPT ![Processed] = Tail(@)]
          /\ Processed \in Queue
      BY <1>7, EndQueues DEF GetFrame
    <2>2. d \in [Queue -> Nat] /\ \A q \in Queue : d[q] = IF q = Processed THEN 1 ELSE 0
      OBVIOUS
    <2> HIDE DEF d, Processed
    <2>3. /\ \A q \in Queue : Len(queue'[q]) \in Nat
          /\ \A q \in Queue \ {Processed} : queue'[q] = queue[q]
          /\ Len(queue'[Processed]) + 1 <= Len(queue[Processed])
          /\ \A i \in 1 .. Len(queue'[Processed]) : queue'[Processed][i] = queue[Processed][i + 1]
      BY <2>1, HeadTaken
    <2>4. /\ \A q \in Queue : Len(queue'[q]) \in Nat /\ Len(queue'[q]) + d[q] <= Len(queue[q])
          /\ \A q \in Queue : \A x \in 1 .. Len(queue'[q]) : queue'[q][x] = queue[q][x + d[q]]
      <3>1. /\ \A q \in Queue \ {Processed} : queue'[q] = queue[q] /\ d[q] = 0
            /\ d[Processed] = 1
        BY <2>1, <2>2, <2>3
      <3>2. \A q \in Queue : Len(queue'[q]) \in Nat /\ Len(queue'[q]) + d[q] <= Len(queue[q])
        BY <2>3, <3>1, FrameIds
      <3>3. \A q \in Queue : \A x \in 1 .. Len(queue'[q]) : queue'[q][x] = queue[q][x + d[q]]
        BY <2>3, <3>1
      <3> QED BY <3>2, <3>3
    <2> QED BY <1>1, <1>2, <1>3, <2>2, <2>4, FramesLeaving DEF Ordered
  <1>8. CASE AddFrame
    <2> DEFINE f == [id |-> count.frames + 1, born |-> Len(history), applied |-> <<>>]
    <2>1. /\ queue' = Offered(Unprocessed, f) /\ Unprocessed \in Queue
          /\ f \in Frame /\ f.id = count.frames + 1
      BY <1>8, EndQueues, EmptySeq, LenProperties, CountersAreNumbers DEF AddFrame, Frame, TypeOK
    <2> HIDE DEF f
    <2>2. CASE queue' = queue
      BY <1>3, <1>5, <2>2 DEF Ordered
    <2>3. CASE queue' = [queue EXCEPT ![Unprocessed] = Append(@, f)]
      <3>1. /\ \A q \in Queue : \A x \in 1 .. Len(queue[q]) : queue[q][x].id < f.id
            /\ \A th \in Thread : hand[th].id < f.id
        <4>1. /\ \A q \in Queue : \A x \in 1 .. Len(queue[q]) : queue[q][x].id \in 1 .. count.frames
              /\ \A th \in Thread : hand[th].id <= count.frames /\ hand[th].id \in Nat
              /\ count.frames \in Nat
          BY FrameIds, CountersAreNumbers DEF FramesNumbered
        <4> QED BY <2>1, <4>1
      <3>2. /\ 0 \in 0 .. Len(effectTasks) /\ Link(0) = Unprocessed
            /\ \A i \in 0 .. Len(effectTasks) : Link(i) \in Queue /\ ~(i < 0)
            /\ \A i \in 1 .. Len(effectTasks) : effectThreads[i] \in Thread /\ ~(i <= 0)
        BY Links
      <3> HIDE DEF Unprocessed
      <3>3. QueuedOnChain' /\ QueuesOrdered' /\ HandsInOrder' /\ HandsOrdered'
        BY <1>1, <1>2, <2>1, <2>3, <3>1, <3>2, OrderAfterEntering
      <3> QED BY <1>3, <3>3 DEF Ordered
    <2> QED BY <2>1, <2>2, <2>3 DEF Offered
  <1> QED BY <1>6, <1>7, <1>8 DEF Frames

LEMMA ThreadOrdered ==
  ASSUME TypeOK, Ownership, Listed, Ordered, NEW th \in Thread, Run(th) \/ ApplyThrows(th)
  PROVE  Ordered'
  <1> DEFINE none == [q \in Queue |-> 0]
  <1>1. /\ UNCHANGED <<effectTasks, effectThreads, outputQueue, history, taskOf>>
        /\ \A o \in Thread \ {th} : pc'[o] = pc[o] /\ ref'[o] = ref[o] /\ hand'[o] = hand[o]
        /\ Wired /\ ReplacedThreadsInterrupted /\ Carried
    BY DEF Run, ReadInput, Take, LeaveLoop, Apply, DropFrame, ReadOutput, Offer, ApplyThrows,
           pipelineVars, TypeOK, Ownership, Listed
  <1>2. none \in [Queue -> Nat] /\ \A q \in Queue : none[q] = 0
    OBVIOUS
  <1> HIDE DEF none
  <1>3. ASSUME queue' = queue,
               pc'[th] \in Busy => /\ pc[th] \in Busy
                                   /\ hand'[th].id = hand[th].id
                                   /\ hand'[th].born = hand[th].born
        PROVE  QueuedOnChain' /\ QueuesOrdered' /\ HandsInOrder' /\ HandsOrdered'
    <2>1. \A q \in Queue : /\ Len(queue'[q]) \in Nat
                           /\ Len(queue'[q]) + none[q] <= Len(queue[q])
                           /\ \A x \in 1 .. Len(queue'[q]) : queue'[q][x] = queue[q][x + none[q]]
      BY <1>2, <1>3, FrameIds
    <2>2. \A o \in Thread : pc'[o] \in Busy => /\ pc[o] \in Busy
                                               /\ hand'[o].id = hand[o].id
                                               /\ hand'[o].born = hand[o].born
      BY <1>1, <1>3
    <2> QED BY <1>1, <1>2, <2>1, <2>2, FramesLeaving
  <1>4. ASSUME pc'[th] \in {"applied", "offer"} /\ Fresh(hand'[th]) =>
                 /\ \E i \in 1 .. Len(effectThreads) : th = effectThreads[i]
                 /\ pc'[th] = "offer" => ref'[th] = outputQueue[taskOf[th]]
        PROVE  HeldOnChain'
    BY <1>1, <1>4 DEF Ordered, HeldOnChain, Fresh
  <1>5. CASE ReadInput(th) \/ LeaveLoop(th) \/ DropFrame(th) \/ ApplyThrows(th)
    <2>1. queue' = queue /\ pc'[th] \in {"take", "done"}
      BY <1>5 DEF ReadInput, LeaveLoop, DropFrame, ApplyThrows, TypeOK
    <2>2. pc'[th] \notin Busy /\ pc'[th] \notin {"applied", "offer"}
      BY <2>1 DEF Busy
    <2> QED BY <1>3, <1>4, <2>1, <2>2 DEF Ordered
  <1>6. CASE Take(th)
    BY <1>1, <1>6, OrderAfterTaking
  <1>7. CASE Apply(th)
    <2>1. /\ queue' = queue /\ pc'[th] = "applied" /\ pc[th] = "apply" /\ ~interrupted[th]
          /\ hand'[th].id = hand[th].id /\ hand'[th].born = hand[th].born
      BY <1>7 DEF Apply, TypeOK, Frame
    <2>2. \E i \in 1 .. Len(effectThreads) : th = effectThreads[i]
      <3>1. th \in Range(effectThreads)
        BY <1>1, <2>1 DEF ReplacedThreadsInterrupted, Alive, Busy
      <3> QED BY <3>1, RangeByIndex DEF TypeOK
    <2> QED BY <1>3, <1>4, <2>1, <2>2 DEF Ordered, Busy
  <1>8. CASE ReadOutput(th)
    <2>1. /\ queue' = queue /\ pc'[th] = "offer" /\ pc[th] = "applied" /\ hand' = hand
          /\ ref'[th] = outputQueue[taskOf[th]]
      BY <1>8 DEF ReadOutput, TypeOK
    <2>2. Fresh(hand[th]) => \E i \in 1 .. Len(effectThreads) : th = effectThreads[i]
      BY <2>1 DEF Ordered, HeldOnChain
    <2> QED BY <1>3, <1>4, <2>1, <2>2 DEF Ordered, Busy
  <1>9. CASE Offer(th)
    <2> DEFINE f == hand[th]
               r == ref[th]
    <2>1. /\ queue' = Offered(r, f) /\ f \in Frame /\ r \in Queue
          /\ pc[th] = "offer" /\ pc'[th] = "loop"
      BY <1>9 DEF Offer, TypeOK
    <2>2. pc'[th] \notin Busy /\ pc'[th] \notin {"applied", "offer"} /\ pc[th] \in Busy
      BY <2>1 DEF Busy
    <2>3. HeldOnChain'
      BY <1>4, <2>2
    <2>4. CASE queue' = queue
      BY <1>3, <2>2, <2>3, <2>4 DEF Ordered
    <2>5. CASE queue' = [queue EXCEPT ![r] = Append(@, f)]
      <3>1. \A o \in Thread : pc'[o] \in Busy => pc[o] \in Busy /\ hand'[o] = hand[o]
        BY <1>1, <2>2
      <3>2. CASE ~Fresh(f)
        <4>1. 0 \in 0 .. Len(effectTasks)
          BY <1>1, Links
        <4> HIDE DEF f, r
        <4>2. QueuedOnChain' /\ QueuesOrdered' /\ HandsInOrder' /\ HandsOrdered'
          BY <1>1, <2>1, <2>5, <3>1, <3>2, <4>1, OrderAfterEntering
        <4> QED BY <2>3, <4>2 DEF Ordered
      <3>3. CASE Fresh(f)
        <4>1. PICK m \in 1 .. Len(effectThreads) : th = effectThreads[m]
          BY <2>1, <3>3 DEF Ordered, HeldOnChain
        <4>2. /\ m \in 1 .. Len(effectTasks) /\ m \in 0 .. Len(effectTasks)
              /\ r = Link(m) /\ HoldsFresh(m)
              /\ \A i, j \in 1 .. Len(effectTasks) : effectThreads[i] = effectThreads[j] => i = j
          <5>1. r = outputQueue[taskOf[th]]
            BY <2>1, <3>3 DEF Ordered, HeldOnChain
          <5> QED BY <1>1, <2>2, <3>3, <4>1, <5>1, Links DEF HoldsFresh
        <4>3. \A j \in 0 .. Len(effectTasks) : \A y \in 1 .. Len(queue[Link(j)]) :
                Fresh(queue[Link(j)][y]) =>
                  /\ m <= j => queue[Link(j)][y].id < f.id
                  /\ j < m => f.id < queue[Link(j)][y].id
          BY <4>1, <4>2 DEF Ordered, HandsInOrder
        <4>4. \A k \in 1 .. Len(effectTasks) :
                HoldsFresh(k) /\ pc'[effectThreads[k]] \in Busy =>
                  /\ k <= m => f.id < hand[effectThreads[k]].id
                  /\ m < k => hand[effectThreads[k]].id < f.id
          <5> SUFFICES ASSUME NEW k \in 1 .. Len(effectTasks),
                              HoldsFresh(k), pc'[effectThreads[k]] \in Busy
                       PROVE  /\ k <= m => f.id < hand[effectThreads[k]].id
                              /\ m < k => hand[effectThreads[k]].id < f.id
            OBVIOUS
          <5>1. k # m
            BY <2>2, <4>1
          <5>2. k <= m => k < m
            BY <4>2, <5>1
          <5> QED BY <4>1, <4>2, <5>2 DEF Ordered, HandsOrdered
        <4> HIDE DEF f, r
        <4>5. QueuedOnChain' /\ QueuesOrdered' /\ HandsInOrder' /\ HandsOrdered'
          BY <1>1, <2>1, <2>5, <3>1, <3>3, <4>2, <4>3, <4>4, OrderAfterEntering
        <4> QED BY <2>3, <4>5 DEF Ordered
      <3> QED BY <3>2, <3>3
    <2> QED BY <2>1, <2>4, <2>5 DEF Offered
  <1> QED BY <1>5, <1>6, <1>7, <1>8, <1>9 DEF Run

\* The inductive invariant holds in every state of every behaviour.
THEOREM OrderedInvariant == Spec => []Ordered
  <1>1. Init => Ordered
    <2> SUFFICES ASSUME Init PROVE Ordered
      OBVIOUS
    <2>1. /\ \A q \in Queue : Len(queue[q]) = 0
          /\ \A th \in Thread : pc[th] \notin Busy /\ pc[th] \notin {"applied", "offer"}
      BY EmptySeq DEF Init, Busy
    <2>2. TypeOK /\ Wired
      BY InitType, InitOwnership DEF Ownership
    <2>3. /\ \A i \in 0 .. Len(effectTasks) : Link(i) \in Queue
          /\ \A i \in 1 .. Len(effectTasks) : effectThreads[i] \in Thread
      BY <2>2, Links
    <2>4. \A q \in Queue : 1 .. Len(queue[q]) = {}
      BY <2>1
    <2> QED BY <2>1, <2>3, <2>4 DEF Ordered, QueuedOnChain, HeldOnChain, QueuesOrdered,
                                  HandsInOrder, HandsOrdered, HoldsFresh
  <1>2. TypeOK /\ Ownership /\ FramesNumbered /\ Listed /\ Ordered /\ [Next]_vars => Ordered'
    <2> SUFFICES ASSUME TypeOK, Ownership, FramesNumbered, Listed, Ordered, [Next]_vars
                 PROVE  Ordered'
      OBVIOUS
    <2>1. CASE Edit
      BY <2>1, EditOrdered
    <2>2. CASE Start \/ Stop \/ Frames
      BY <2>2, CallOrdered DEF Ownership
    <2>3. CASE \E th \in Thread : Run(th) \/ ApplyThrows(th)
      BY <2>3, ThreadOrdered
    <2>4. CASE UNCHANGED vars
      BY <2>4 DEF vars, pipelineVars, Ordered, QueuedOnChain, HeldOnChain, QueuesOrdered,
                  HandsInOrder, HandsOrdered, HoldsFresh, Fresh, Link
    <2> QED BY <2>1, <2>2, <2>3, <2>4 DEF Next
  <1>3. FramesNumbered /\ OneOwner => FramesNumbered
    OBVIOUS
  <1> QED BY <1>1, <1>2, <1>3, OwnershipInvariant, NumberedInvariant, ListedInvariant, PTL DEF Spec

\* The frames of a queue that were offered since the last edit are in the order
\* in which they were offered: however the threads of the stages interleave, and
\* whatever stop() clears and a full queue refuses, none overtakes another.
THEOREM FramesInOrder == Spec => []InOrder
  <1>1. TypeOK /\ Ordered => InOrder
    <2> SUFFICES ASSUME TypeOK, Ordered, NEW q \in Queue,
                        NEW i \in 1 .. Len(queue[q]), NEW j \in 1 .. Len(queue[q]),
                        i < j, Fresh(queue[q][i]), Fresh(queue[q][j])
                 PROVE  queue[q][i].id < queue[q][j].id
      BY DEF InOrder, Fresh
    <2>1. PICK m \in 0 .. Len(effectTasks) : q = Link(m)
      BY DEF Ordered, QueuedOnChain
    <2> QED BY <2>1 DEF Ordered, QueuesOrdered
  <1> QED BY <1>1, OrderedInvariant, TypeCorrect, PTL

-----------------------------------------------------------------------------
(***************************************************************************)
(* The refinement: every step of the pipeline is a step of FrameService.   *)
(***************************************************************************)

\* The frames that wait, by where they are.
LEMMA WaitingPlaces ==
  ASSUME NEW t
  PROVE  t \in Waiting <=>
           \/ \E q \in Queue \ {Processed} : \E i \in 1 .. Len(queue[q]) : t = Token(queue[q][i])
           \/ \E th \in Thread : Keeps(th) /\ t = Token(hand[th])
  BY DEF Waiting, InQueues, InHands

\* The same one step later.
LEMMA WaitingPlacesLater ==
  ASSUME NEW t
  PROVE  t \in Waiting' <=>
           \/ \E q \in Queue \ {Processed} : \E i \in 1 .. Len(queue'[q]) : t = Token(queue'[q][i])
           \/ \E th \in Thread : Keeps(th)' /\ t = Token(hand'[th])
  BY DEF Waiting, InQueues, InHands, Token

\* Frames that wait are lost, or nothing happens to them, if what waits after a
\* step is what was in a queue or in the hands of a thread before it.
LEMMA OnlyLost ==
  ASSUME \A q \in Queue \ {Processed} : \A i \in 1 .. Len(queue'[q]) :
           \/ \E j \in 1 .. Len(queue[q]) : queue'[q][i] = queue[q][j]
           \/ \E th \in Thread : Keeps(th) /\ Token(queue'[q][i]) = Token(hand[th]),
         \A th \in Thread : Keeps(th)' =>
           \/ Keeps(th) /\ Token(hand'[th]) = Token(hand[th])
           \/ \E q \in Queue \ {Processed} : \E j \in 1 .. Len(queue[q]) : hand'[th] = queue[q][j]
  PROVE  Waiting' \subseteq Waiting
  BY WaitingPlaces, WaitingPlacesLater

\* The service starts with nothing.
LEMMA InitService == Init => Service!Init
  <1> SUFFICES ASSUME Init PROVE Service!Init
    OBVIOUS
  <1>1. Len(history) = 1
    BY Singleton DEF Init
  <1>2. InQueues = {}
    <2>1. \A q \in Queue : 1 .. Len(queue[q]) = {}
      BY EmptySeq DEF Init
    <2> QED BY <2>1 DEF InQueues
  <1>3. InHands = {}
    BY DEF Init, InHands, Keeps, Busy
  <1>4. queue[Processed] = <<>> /\ count.frames = 0
    BY EndQueues DEF Init
  <1> QED BY <1>1, <1>2, <1>3, <1>4 DEF Service!Init, Waiting

\* An edit brings another list into force.
LEMMA EditService ==
  ASSUME TypeOK, Ownership, Listed, Edit
  PROVE  Service!Configure
  <1>1. /\ Len(history) \in Nat /\ Len(history') = Len(history) + 1
        /\ \A k \in 1 .. Len(history) : history'[k] = history[k]
        /\ UNCHANGED <<queue, hand, count>>
    BY WhatEditsDo, ListTypes DEF Listed
  <1>2. history \in Seq(Seq(Task)) /\ history' \in Seq(Seq(Task))
    BY StepKeepsOwnership DEF TypeOK, Next
  <1>3. SubSeq(history', 1, Len(history)) = history
    <2> DEFINE s == SubSeq(history', 1, Len(history))
    <2>1. /\ s \in Seq(Seq(Task)) /\ Len(s) = Len(history)
          /\ \A i \in 1 .. Len(history) : s[i] = history'[i]
      BY <1>1, <1>2, SubSeqProperties
    <2> HIDE DEF s
    <2>2. s = history
      BY <1>1, <1>2, <2>1, SeqEqual
    <2> QED BY <2>2 DEF s
  <1>4. Waiting' \subseteq Waiting
    <2>1. ASSUME NEW th \in Thread, Keeps(th)' PROVE Keeps(th)
      <3>1. pc'[th] \in Busy => pc'[th] = pc[th]
        BY DEF Edit, AddFirstEffect, AddEffect, AppendTask, ClearEffects, Launched, Busy, TypeOK
      <3>2. interrupted[th] => interrupted'[th]
        BY DEF Edit, AddFirstEffect, AddEffect, AppendTask, ClearEffects, Interrupt, TypeOK
      <3> QED BY <2>1, <3>1, <3>2 DEF Keeps
    <2> QED BY <1>1, <2>1, OnlyLost
  <1> QED BY <1>1, <1>3, <1>4 DEF Service!Configure

\* The calls that offer and fetch no frames: start() changes nothing of what the
\* service shows, and stop() throws frames away.
LEMMA StartService ==
  ASSUME TypeOK, Start
  PROVE  UNCHANGED Service!serviceVars
  <1>1. UNCHANGED <<history, queue, hand, interrupted, count>>
    BY DEF Start
  <1>2. \A th \in Thread : Keeps(th)' <=> Keeps(th)
    BY DEF Start, Startable, Keeps, Busy, TypeOK
  <1>3. Waiting' = Waiting
    <2>1. \A t : t \in Waiting' <=> t \in Waiting
      BY <1>1, <1>2, WaitingPlaces, WaitingPlacesLater
    <2> QED BY <2>1
  <1> QED BY <1>1, <1>3 DEF Service!serviceVars

LEMMA StopService ==
  ASSUME TypeOK, Stop
  PROVE  Service!Flush
  <1>1. /\ \A q \in Queue \ {Processed} : queue'[q] = queue[q] \/ queue'[q] = <<>>
        /\ queue'[Processed] = <<>> /\ count'.frames = count.frames
        /\ UNCHANGED <<history, hand, pc>>
        /\ \A th \in Thread : interrupted[th] => interrupted'[th]
    BY EndQueues DEF Stop, Interrupt, TypeOK
  <1>2. \A q \in Queue \ {Processed} : \A i \in 1 .. Len(queue'[q]) :
          \E j \in 1 .. Len(queue[q]) : queue'[q][i] = queue[q][j]
    BY <1>1, EmptySeq
  <1>3. \A th \in Thread : Keeps(th)' => Keeps(th)
    BY <1>1 DEF Keeps
  <1>4. Waiting' \subseteq Waiting
    BY <1>1, <1>2, <1>3, OnlyLost
  <1> QED BY <1>1, <1>4 DEF Service!Flush

\* getFrame.
LEMMA GetService ==
  ASSUME TypeOK, GetFrame
  PROVE  Service!Fetch
  <1>1. /\ queue[Processed] # <<>> /\ queue'[Processed] = Tail(queue[Processed])
        /\ \A q \in Queue \ {Processed} : queue'[q] = queue[q]
        /\ UNCHANGED <<history, hand, pc, interrupted, count>>
    BY EndQueues DEF GetFrame, pipelineVars, TypeOK
  <1>2. \A th \in Thread : Keeps(th)' <=> Keeps(th)
    BY <1>1 DEF Keeps
  <1>3. Waiting' = Waiting
    <2>1. \A t : t \in Waiting' <=> t \in Waiting
      BY <1>1, <1>2, WaitingPlaces, WaitingPlacesLater
    <2> QED BY <2>1
  <1> QED BY <1>1, <1>3 DEF Service!Fetch

\* addFrame.
LEMMA AddService ==
  ASSUME TypeOK, AddFrame
  PROVE  Service!Accept
  <1> DEFINE f == [id |-> count.frames + 1, born |-> Len(history), applied |-> <<>>]
             tok == [id |-> count.frames + 1, born |-> Len(history)]
  <1>1. /\ queue' = Offered(Unprocessed, f) /\ count'.frames = count.frames + 1
        /\ Unprocessed \in Queue \ {Processed} /\ Token(f) = tok
        /\ f \in Frame
        /\ UNCHANGED <<history, hand, pc, interrupted>>
    BY EndQueues, EmptySeq, LenProperties, CountersAreNumbers
       DEF AddFrame, pipelineVars, Frame, TypeOK, Unprocessed, Processed, Token
  <1>2. \A th \in Thread : Keeps(th)' <=> Keeps(th)
    BY <1>1 DEF Keeps
  <1> HIDE DEF f, tok
  <1>3. CASE queue' = queue
    <2>1. \A t : t \in Waiting' <=> t \in Waiting
      BY <1>1, <1>2, <1>3, WaitingPlaces, WaitingPlacesLater
    <2>2. Waiting' = Waiting
      BY <2>1
    <2> QED BY <1>1, <1>3, <2>2 DEF Service!Accept
  <1>4. CASE queue' = [queue EXCEPT ![Unprocessed] = Append(@, f)]
    <2>1. /\ \A q \in Queue \ {Unprocessed} : queue'[q] = queue[q]
          /\ Len(queue[Unprocessed]) \in Nat
          /\ Len(queue'[Unprocessed]) = Len(queue[Unprocessed]) + 1
          /\ \A i \in 1 .. Len(queue[Unprocessed]) + 1 :
               queue'[Unprocessed][i]
                 = IF i = Len(queue[Unprocessed]) + 1 THEN f ELSE queue[Unprocessed][i]
      BY <1>1, <1>4, Accepted
    <2> HIDE DEF Unprocessed, Processed
    <2>2. \A t : (\E i \in 1 .. Len(queue'[Unprocessed]) : t = Token(queue'[Unprocessed][i]))
                   <=> \/ t = tok
                       \/ \E i \in 1 .. Len(queue[Unprocessed]) : t = Token(queue[Unprocessed][i])
      <3>1. /\ Len(queue[Unprocessed]) + 1 \in 1 .. Len(queue[Unprocessed]) + 1
            /\ 1 .. Len(queue[Unprocessed]) \subseteq 1 .. Len(queue[Unprocessed]) + 1
            /\ \A i \in 1 .. Len(queue[Unprocessed]) + 1 :
                 i = Len(queue[Unprocessed]) + 1 \/ i \in 1 .. Len(queue[Unprocessed])
            /\ \A i \in 1 .. Len(queue[Unprocessed]) : i # Len(queue[Unprocessed]) + 1
        BY <2>1
      <3> QED BY <1>1, <2>1, <3>1
    <2>3. \A t : t \in Waiting' <=> t \in Waiting \/ t = tok
      <3> SUFFICES ASSUME NEW t PROVE t \in Waiting' <=> t \in Waiting \/ t = tok
        OBVIOUS
      <3>1. (\E q \in Queue \ {Processed} : \E i \in 1 .. Len(queue'[q]) : t = Token(queue'[q][i]))
              <=> \/ t = tok
                  \/ \E q \in Queue \ {Processed} : \E i \in 1 .. Len(queue[q]) :
                       t = Token(queue[q][i])
        BY <1>1, <2>1, <2>2
      <3> QED BY <1>1, <1>2, <3>1, WaitingPlaces, WaitingPlacesLater
    <2>4. Waiting' = Waiting \cup {tok}
      BY <2>3
    <2>5. queue'[Processed] = queue[Processed]
      BY <1>1, <2>1, EndQueues
    <2> QED BY <1>1, <2>4, <2>5 DEF Service!Accept, tok
  <1> QED BY <1>1, <1>3, <1>4 DEF Offered

\* A frame that is accepted at the end of the pipeline comes out: it went through
\* one list, no longer waits, and overtakes nothing.  The thread that offers it is
\* the last one, and an older frame in the hands of a replaced thread is lost.
LEMMA OfferDelivers ==
  ASSUME TypeOK, Ownership, FramesNumbered, OneOwner, Listed, Ordered,
         NEW th \in Thread, Offer(th), ref[th] = Processed,
         queue' = [queue EXCEPT ![Processed] = Append(@, hand[th])]
  PROVE  \E f \in Waiting : \E k \in f.born .. Len(history) : Service!Deliver(f, k)
  <1> DEFINE f == hand[th]
             tok == Token(f)
  <1>1. /\ pc[th] = "offer" /\ f \in Frame
        /\ UNCHANGED <<history, count, interrupted>>
        /\ hand' = [hand EXCEPT ![th] = NoFrame] /\ pc' = [pc EXCEPT ![th] = "loop"]
        /\ Processed \in Queue /\ Wired /\ ReplacedThreadsInterrupted
    BY EndQueues DEF Offer, TypeOK, pipelineVars, Ownership
  <1>2. f.id # 0 /\ Keeps(th) /\ tok.id = f.id /\ tok.born = f.born
    BY <1>1 DEF Keeps, Busy, FramesNumbered, Token
  <1>3. tok \in Waiting
    BY <1>2, WaitingPlaces
  <1>4. Fits(f, Processed)
    BY <1>1 DEF Listed, Carried
  <1>5. PICK k \in f.born .. Len(history) : WentThrough(f, k, Len(history[k]))
    BY <1>4 DEF Fits
  <1>6. f.applied = history[k]
    <2>1. k \in 1 .. Len(history)
      BY <1>4, <1>5, ListTypes DEF Fits, Listed
    <2>2. f.applied \in Seq(Task) /\ history[k] \in Seq(Task)
      BY <1>1, <2>1, FrameFields, ListTypes DEF Listed
    <2> QED BY <1>5, <2>2, SeqEqual DEF WentThrough
  <1>7. queue'[Processed] = Append(queue[Processed],
                                   [id |-> tok.id, born |-> tok.born, applied |-> history[k]])
    <2>1. f = [id |-> f.id, born |-> f.born, applied |-> f.applied]
      BY <1>1 DEF Frame
    <2>2. queue'[Processed] = Append(queue[Processed], f)
      BY <1>1 DEF TypeOK
    <2> QED BY <1>2, <1>6, <2>1, <2>2
  <1>8. Waiting' = Waiting \ {tok}
    <2>1. \A q \in Queue \ {Processed} :
            /\ queue'[q] = queue[q]
            /\ \A i \in 1 .. Len(queue[q]) : Token(queue[q][i]) # tok
      BY <1>1 DEF TypeOK, OneOwner, HeldNotQueued, Token
    <2>2. \A o \in Thread \ {th} :
            /\ hand'[o] = hand[o] /\ Keeps(o)' = Keeps(o)
            /\ Token(hand[o]) # tok
      BY <1>1, <1>2 DEF TypeOK, OneOwner, HeldOnce, Token, Keeps
    <2>3. ~Keeps(th)'
      BY <1>1 DEF TypeOK, Keeps, Busy
    <2> HIDE DEF tok
    <2> SUFFICES ASSUME NEW t PROVE t \in Waiting' <=> t \in Waiting /\ t # tok
      OBVIOUS
    <2>4. (\E q \in Queue \ {Processed} : \E i \in 1 .. Len(queue'[q]) : t = Token(queue'[q][i]))
            <=> /\ t # tok
                /\ \E q \in Queue \ {Processed} : \E i \in 1 .. Len(queue[q]) :
                     t = Token(queue[q][i])
      BY <2>1
    <2>5. (\E o \in Thread : Keeps(o)' /\ t = Token(hand'[o]))
            <=> t # tok /\ \E o \in Thread : Keeps(o) /\ t = Token(hand[o])
      BY <2>2, <2>3 DEF tok
    <2> QED BY <2>4, <2>5, WaitingPlaces, WaitingPlacesLater
  <1>9. ASSUME Fresh(f), NEW g \in Waiting, g.born = Len(history)
        PROVE  f.id <= g.id
    <2> DEFINE n == Len(effectTasks)
    <2>1. PICK m \in 1 .. Len(effectThreads) : th = effectThreads[m]
      BY <1>1, <1>9 DEF Ordered, HeldOnChain
    <2>2. outputQueue[taskOf[th]] = Processed
      BY <1>1, <1>9 DEF Ordered, HeldOnChain
    <2>3. /\ n \in Nat /\ m \in 1 .. n /\ Len(effectThreads) = n
          /\ Link(m) = Processed /\ HoldsFresh(m)
      BY <1>1, <1>9, <2>1, <2>2, Links DEF HoldsFresh, Busy
    <2>4. m = n
      <3>1. m \in 0 .. n /\ n \in 0 .. n /\ n > 0
        BY <2>3
      <3> QED BY <1>1, <2>3, <3>1, Links
    <2>5. hand[th].id \in Nat /\ \A q \in Queue : \A x \in 1 .. Len(queue[q]) : queue[q][x].id \in Nat
      BY FrameIds
    <2>6. ASSUME NEW q \in Queue \ {Processed}, NEW x \in 1 .. Len(queue[q]),
                 g = Token(queue[q][x])
          PROVE  f.id <= g.id
      <3>1. Fresh(queue[q][x]) /\ g.id = queue[q][x].id
        BY <1>9, <2>6 DEF Token, Fresh
      <3>2. PICK j \in 0 .. n : q = Link(j)
        BY <3>1 DEF Ordered, QueuedOnChain
      <3>3. j < m
        BY <2>3, <2>4, <3>2
      <3>4. f.id < queue[q][x].id
        BY <2>1, <2>3, <3>1, <3>2, <3>3 DEF Ordered, HandsInOrder
      <3> QED BY <2>5, <3>1, <3>4
    <2>7. ASSUME NEW o \in Thread, Keeps(o), g = Token(hand[o])
          PROVE  f.id <= g.id
      <3>1. Fresh(hand[o]) /\ g.id = hand[o].id /\ pc[o] \in Busy /\ hand[o].id \in Nat
        BY <1>9, <2>7, FrameIds DEF Token, Fresh, Keeps
      <3>2. \E k1 \in 1 .. Len(effectThreads) : o = effectThreads[k1]
        <4>1. CASE pc[o] \in {"applied", "offer"}
          BY <3>1, <4>1 DEF Ordered, HeldOnChain
        <4>2. CASE pc[o] = "apply"
          <5>1. o \in Range(effectThreads)
            BY <1>1, <2>7, <4>2 DEF ReplacedThreadsInterrupted, Keeps, Alive, Busy
          <5> QED BY <5>1, RangeByIndex DEF TypeOK
        <4> QED BY <3>1, <4>1, <4>2 DEF Busy
      <3>3. PICK k1 \in 1 .. n : o = effectThreads[k1]
        BY <2>3, <3>2
      <3>4. HoldsFresh(k1)
        BY <3>1, <3>3 DEF HoldsFresh
      <3>5. CASE k1 = m
        BY <2>1, <2>5, <3>1, <3>3, <3>5
      <3>6. CASE k1 # m
        <4>1. k1 < m
          BY <2>3, <2>4, <3>6
        <4>2. hand[effectThreads[m]].id < hand[effectThreads[k1]].id
          BY <2>3, <3>4, <4>1 DEF Ordered, HandsOrdered
        <4> QED BY <2>1, <2>5, <3>1, <3>3, <4>2
      <3> QED BY <3>5, <3>6
    <2> QED BY <2>6, <2>7, WaitingPlaces
  <1>10. /\ tok.born = Len(history) => \A g \in Waiting : g.born = Len(history) => tok.id <= g.id
         /\ k \in tok.born .. Len(history)
    BY <1>2, <1>5, <1>9 DEF Fresh
  <1>11. history' = history /\ count'.frames = count.frames
    BY <1>1
  <1> HIDE DEF tok, f
  <1>12. Service!Deliver(tok, k)
    BY <1>7, <1>8, <1>10, <1>11 DEF Service!Deliver
  <1> QED BY <1>3, <1>10, <1>12

\* The steps of a thread.
LEMMA ThreadService ==
  ASSUME TypeOK, Ownership, FramesNumbered, OneOwner, Listed, Ordered,
         NEW th \in Thread, Run(th) \/ ApplyThrows(th)
  PROVE  \/ Service!Lose
         \/ \E f \in Waiting : \E k \in f.born .. Len(history) : Service!Deliver(f, k)
  <1>1. /\ history' = history /\ count'.frames = count.frames
        /\ \A o \in Thread \ {th} : hand'[o] = hand[o] /\ Keeps(o)' = Keeps(o)
    BY DEF Run, ReadInput, Take, LeaveLoop, Apply, DropFrame, ReadOutput, Offer, ApplyThrows,
           pipelineVars, TypeOK, Keeps
  <1>2. ASSUME queue' = queue,
               Keeps(th)' => Keeps(th) /\ Token(hand'[th]) = Token(hand[th])
        PROVE  Service!Lose
    <2>1. Waiting' \subseteq Waiting
      <3>1. \A q \in Queue \ {Processed} : \A i \in 1 .. Len(queue'[q]) :
              \E j \in 1 .. Len(queue[q]) : queue'[q][i] = queue[q][j]
        BY <1>2
      <3>2. \A o \in Thread : Keeps(o)' => Keeps(o) /\ Token(hand'[o]) = Token(hand[o])
        BY <1>1, <1>2
      <3> QED BY <3>1, <3>2, OnlyLost
    <2> QED BY <1>1, <1>2, <2>1 DEF Service!Lose
  <1>3. CASE ReadInput(th) \/ LeaveLoop(th) \/ DropFrame(th) \/ ApplyThrows(th)
    <2>1. queue' = queue /\ ~Keeps(th)'
      BY <1>3 DEF ReadInput, LeaveLoop, DropFrame, ApplyThrows, TypeOK, Keeps, Busy
    <2> QED BY <1>2, <2>1
  <1>4. CASE Apply(th) \/ ReadOutput(th)
    <2>1. queue' = queue /\ Keeps(th)
      BY <1>4 DEF Apply, ReadOutput, Keeps, Busy
    <2>2. hand'[th].id = hand[th].id /\ hand'[th].born = hand[th].born
      BY <1>4 DEF Apply, ReadOutput, TypeOK, Frame
    <2> QED BY <1>2, <2>1, <2>2 DEF Token
  <1>5. CASE Take(th)
    <2> DEFINE r == ref[th]
    <2>1. /\ pc[th] = "take" /\ r \in Queue /\ queue[r] # <<>>
          /\ hand'[th] = Head(queue[r])
          /\ queue' = [queue EXCEPT ![r] = Tail(@)]
      BY <1>5 DEF Take, TypeOK
    <2>2. r # Processed
      <3>1. r = inputQueue[taskOf[th]] /\ taskOf[th] \in 1 .. created.tasks
        BY <2>1 DEF Listed, Carried, NewUntouched
      <3> QED BY <3>1 DEF Listed, Lineage, QueuesApart
    <2>3. queue'[Processed] = queue[Processed] /\ \A q \in Queue \ {r} : queue'[q] = queue[q]
      BY <2>1, <2>2, EndQueues DEF TypeOK
    <2>4. /\ queue'[r] = Tail(queue[r]) /\ queue[r] \in Seq(Frame)
          /\ Len(queue[r]) \in Nat /\ 1 \in 1 .. Len(queue[r])
          /\ Head(queue[r]) = queue[r][1]
          /\ \A i \in 1 .. Len(Tail(queue[r])) :
               i + 1 \in 1 .. Len(queue[r]) /\ Tail(queue[r])[i] = queue[r][i + 1]
      <3>1. queue[r] \in Seq(Frame) /\ queue'[r] = Tail(queue[r])
        BY <2>1 DEF TypeOK
      <3> QED BY <2>1, <3>1, HeadTailProperties, LenProperties, EmptySeq
    <2> HIDE DEF r
    <2>5. \A q \in Queue \ {Processed} : \A i \in 1 .. Len(queue'[q]) :
            \E j \in 1 .. Len(queue[q]) : queue'[q][i] = queue[q][j]
      <3>1. \A i \in 1 .. Len(queue'[r]) : \E j \in 1 .. Len(queue[r]) : queue'[r][i] = queue[r][j]
        BY <2>4
      <3> QED BY <2>3, <3>1
    <2>6. \A o \in Thread : Keeps(o)' =>
            \/ Keeps(o) /\ Token(hand'[o]) = Token(hand[o])
            \/ \E q \in Queue \ {Processed} : \E j \in 1 .. Len(queue[q]) : hand'[o] = queue[q][j]
      BY <1>1, <2>1, <2>2, <2>4
    <2>7. Waiting' \subseteq Waiting
      BY <2>5, <2>6, OnlyLost
    <2> QED BY <1>1, <2>3, <2>7 DEF Service!Lose
  <1>6. CASE Offer(th)
    <2> DEFINE f == hand[th]
               r == ref[th]
    <2>1. /\ queue' = Offered(r, f) /\ f \in Frame /\ r \in Queue
          /\ Keeps(th) /\ ~Keeps(th)'
      BY <1>6 DEF Offer, TypeOK, Keeps, Busy
    <2>2. CASE queue' = queue
      BY <1>2, <2>1, <2>2
    <2>3. CASE queue' = [queue EXCEPT ![r] = Append(@, f)]
      <3>1. CASE r = Processed
        BY <1>6, <2>3, <3>1, OfferDelivers
      <3>2. CASE r # Processed
        <4>1. queue'[Processed] = queue[Processed]
          BY <2>1, <2>3, <3>2, EndQueues, Accepted
        <4> HIDE DEF f, r
        <4>2. \A q \in Queue \ {Processed} : \A i \in 1 .. Len(queue'[q]) :
                \/ \E j \in 1 .. Len(queue[q]) : queue'[q][i] = queue[q][j]
                \/ queue'[q][i] = f
          <5>1. /\ \A q \in Queue \ {r} : queue'[q] = queue[q]
                /\ Len(queue[r]) \in Nat
                /\ Len(queue'[r]) = Len(queue[r]) + 1
                /\ \A i \in 1 .. Len(queue[r]) + 1 :
                     queue'[r][i] = IF i = Len(queue[r]) + 1 THEN f ELSE queue[r][i]
            BY <2>1, <2>3, Accepted
          <5>2. \A i \in 1 .. Len(queue'[r]) :
                  \/ \E j \in 1 .. Len(queue[r]) : queue'[r][i] = queue[r][j]
                  \/ queue'[r][i] = f
            BY <5>1
          <5> QED BY <5>1, <5>2
        <4>3. \A o \in Thread : Keeps(o)' => Keeps(o) /\ hand'[o] = hand[o]
          BY <1>1, <2>1
        <4>4. \A q \in Queue \ {Processed} : \A i \in 1 .. Len(queue'[q]) :
                \/ \E j \in 1 .. Len(queue[q]) : queue'[q][i] = queue[q][j]
                \/ \E o \in Thread : Keeps(o) /\ Token(queue'[q][i]) = Token(hand[o])
          BY <2>1, <4>2 DEF f
        <4>5. Waiting' \subseteq Waiting
          BY <4>3, <4>4, OnlyLost
        <4> QED BY <1>1, <4>1, <4>5 DEF Service!Lose
      <3> QED BY <3>1, <3>2
    <2> QED BY <2>1, <2>2, <2>3 DEF Offered
  <1> QED BY <1>3, <1>4, <1>5, <1>6 DEF Run

\* Every step of the pipeline is a step of the service.
LEMMA StepService ==
  ASSUME TypeOK, Ownership, FramesNumbered, OneOwner, Listed, Ordered, [Next]_vars
  PROVE  [Service!Next]_(Service!serviceVars)
  <1>1. CASE Edit
    BY <1>1, EditService DEF Service!Next
  <1>2. CASE Start
    BY <1>2, StartService
  <1>3. CASE Stop
    BY <1>3, StopService DEF Service!Next
  <1>4. CASE Frames
    BY <1>4, AddService, GetService DEF Service!Next, Frames
  <1>5. CASE \E th \in Thread : Run(th) \/ ApplyThrows(th)
    BY <1>5, ThreadService DEF Service!Next
  <1>6. CASE UNCHANGED vars
    BY <1>6 DEF vars, pipelineVars, Service!serviceVars, Waiting, InQueues, InHands, Token, Keeps
  <1> QED BY <1>1, <1>2, <1>3, <1>4, <1>5, <1>6 DEF Next

\* The pipeline of threads and queues keeps the promise of FrameService, for any
\* number of effects, threads, queues, frames and calls of stop(): a frame that
\* was accepted is lost or comes out once, treated with one list that was in
\* force since it was accepted, and none overtakes another under the list in force.
THEOREM PipelineImplementsService == Spec => ImplementsService
  <1>1. TypeOK /\ Ownership /\ (FramesNumbered /\ OneOwner) /\ Listed /\ Ordered /\ [Next]_vars
          => [Service!Next]_(Service!serviceVars)
    BY StepService
  <1> QED BY <1>1, InitService, OwnershipInvariant, NumberedInvariant, ListedInvariant,
             OrderedInvariant, PTL DEF Spec, ImplementsService, Service!Spec

-----------------------------------------------------------------------------
(***************************************************************************)
(* What a user of the pipeline can rely on, from the steps of FrameService *)
(* alone: the frames it will still get are numbered and come in order.     *)
(***************************************************************************)

\* The frames that wait or are ready have been offered, under a list that there
\* has been; a frame that waits is known by its number and its list; and a fresh
\* frame that is ready was offered before the fresh frames that wait.
InService ==
  /\ IsFiniteSet(Waiting)
  /\ \A g \in Waiting : g.id \in 1 .. count.frames /\ g.born \in 1 .. Len(history)
  /\ \A g, h \in Waiting : g.id = h.id /\ g.born = h.born => g = h
  /\ \A x \in 1 .. Len(queue[Processed]) :
       /\ queue[Processed][x].id \in 1 .. count.frames
       /\ queue[Processed][x].born \in 1 .. Len(history)
  /\ \A x \in 1 .. Len(queue[Processed]), g \in Waiting :
       Fresh(queue[Processed][x]) /\ Fresh(g) => queue[Processed][x].id < g.id

\* The frames that are ready, as a sequence.
LEMMA ReadyTypes ==
  ASSUME TypeOK
  PROVE  /\ queue[Processed] \in Seq(Frame) /\ Len(queue[Processed]) \in Nat
         /\ \A x \in 1 .. Len(queue[Processed]) : queue[Processed][x] \in Frame
         /\ count.frames \in Nat /\ Len(history) \in Nat
  BY EndQueues, ElementOfSeq, LenProperties, CountersAreNumbers DEF TypeOK

\* What is ready after a frame has been fetched.
LEMMA FetchLeaves ==
  ASSUME TypeOK, Service!Fetch
  PROVE  /\ Len(queue[Processed]) \in Nat /\ 1 \in 1 .. Len(queue[Processed])
         /\ Head(queue[Processed]) = queue[Processed][1]
         /\ queue[Processed][1] \in Frame
         /\ \A x \in 1 .. Len(queue'[Processed]) :
              /\ x + 1 \in 1 .. Len(queue[Processed]) /\ 1 < x + 1
              /\ queue'[Processed][x] = queue[Processed][x + 1]
         /\ Len(queue'[Processed]) = Len(queue[Processed]) - 1
  <1> DEFINE r == queue[Processed]
  <1>1. r \in Seq(Frame) /\ r # <<>> /\ queue'[Processed] = Tail(r)
    BY ReadyTypes DEF Service!Fetch
  <1> HIDE DEF r
  <1>2. /\ Len(r) \in Nat /\ Len(r) # 0 /\ Head(r) = r[1]
        /\ Len(Tail(r)) = Len(r) - 1
        /\ \A x \in 1 .. Len(Tail(r)) : Tail(r)[x] = r[x + 1]
    BY <1>1, HeadTailProperties, LenProperties, EmptySeq
  <1>3. r[1] \in Frame
    <2>1. 1 \in 1 .. Len(r)
      BY <1>2
    <2> QED BY <1>1, <2>1, ElementOfSeq
  <1> QED BY <1>1, <1>2, <1>3 DEF r

\* What is ready after a frame has come out.
LEMMA DeliverAdds ==
  ASSUME TypeOK, TypeOK', NEW f, NEW k, Service!Deliver(f, k)
  PROVE  /\ Len(queue[Processed]) \in Nat
         /\ Len(queue'[Processed]) = Len(queue[Processed]) + 1
         /\ \A x \in 1 .. Len(queue'[Processed]) :
              \/ /\ x \in 1 .. Len(queue[Processed])
                 /\ queue'[Processed][x] = queue[Processed][x]
              \/ /\ x = Len(queue[Processed]) + 1
                 /\ queue'[Processed][x].id = f.id /\ queue'[Processed][x].born = f.born
  <1> DEFINE r == queue[Processed]
             e == [id |-> f.id, born |-> f.born, applied |-> history[k]]
  <1>1. r \in Seq(Frame) /\ queue'[Processed] = Append(r, e) /\ e.id = f.id /\ e.born = f.born
    BY ReadyTypes DEF Service!Deliver
  <1>2. queue'[Processed] \in Seq(Frame)
    BY EndQueues DEF TypeOK
  <1> HIDE DEF r, e
  <1>3. /\ Len(r) \in Nat /\ Len(Append(r, e)) = Len(r) + 1
        /\ \A x \in 1 .. Len(r) : Append(r, e)[x] = r[x]
        /\ Append(r, e)[Len(r) + 1] = e
    <2>1. Len(r) \in Nat
      BY <1>1, LenProperties
    <2>2. r \in Seq(Frame \cup {e}) /\ e \in Frame \cup {e}
      BY <1>1
    <2>3. /\ Len(Append(r, e)) = Len(r) + 1
          /\ \A x \in 1 .. Len(r) + 1 : Append(r, e)[x] = IF x = Len(r) + 1 THEN e ELSE r[x]
      BY <2>2, Appended
    <2> QED BY <2>1, <2>3
  <1> QED BY <1>1, <1>3 DEF r

LEMMA ServiceKeepsOrder ==
  ASSUME TypeOK, TypeOK', InService, Len(history) >= 1, [Service!Next]_(Service!serviceVars)
  PROVE  InService'
  <1> USE DEF InService, Fresh
  <1> DEFINE r == queue[Processed]
  <1>1. /\ Len(r) \in Nat /\ count.frames \in Nat /\ Len(history) \in Nat
    BY ReadyTypes
  <1>2. CASE Service!Configure
    <2>1. /\ Len(history') = Len(history) + 1 /\ Waiting' \subseteq Waiting
          /\ count'.frames = count.frames /\ queue'[Processed] = r
      BY <1>2 DEF Service!Configure
    <2>2. IsFiniteSet(Waiting')
      BY <2>1, FS_Subset
    <2>3. \A n \in 1 .. Len(history) : n \in 1 .. Len(history') /\ n # Len(history')
      BY <1>1, <2>1
    <2> QED BY <2>1, <2>2, <2>3
  <1>3. CASE Service!Accept
    <2> DEFINE new == [id |-> count.frames + 1, born |-> Len(history)]
    <2>1. /\ Len(history') = Len(history) /\ queue'[Processed] = r
          /\ count'.frames = count.frames + 1
          /\ Waiting' = Waiting \/ Waiting' = Waiting \cup {new}
          /\ new.id = count.frames + 1 /\ new.born = Len(history)
      BY <1>3 DEF Service!Accept
    <2> HIDE DEF new
    <2>2. IsFiniteSet(Waiting')
      BY <2>1, FS_AddElement
    <2>3. /\ \A n \in 1 .. count.frames : n \in 1 .. count'.frames /\ n < new.id
          /\ new.id \in 1 .. count'.frames
          /\ Len(history) \in 1 .. Len(history)
      BY <1>1, <2>1
    <2>4. \A g \in Waiting' : g \in Waiting \/ g = new
      BY <2>1
    <2>5. \A g \in Waiting' : g.id \in 1 .. count'.frames /\ g.born \in 1 .. Len(history')
      BY <2>1, <2>3, <2>4
    <2>6. \A g, h \in Waiting' : g.id = h.id /\ g.born = h.born => g = h
      BY <1>1, <2>3, <2>4
    <2> QED BY <2>1, <2>2, <2>3, <2>4, <2>5, <2>6
  <1>4. CASE Service!Lose \/ Service!Flush \/ UNCHANGED Service!serviceVars
    <2>1. /\ Len(history') = Len(history) /\ Waiting' \subseteq Waiting
          /\ count'.frames = count.frames
          /\ queue'[Processed] = r \/ queue'[Processed] = <<>>
      BY <1>4 DEF Service!Lose, Service!Flush, Service!serviceVars
    <2>2. IsFiniteSet(Waiting')
      BY <2>1, FS_Subset
    <2>3. \A x \in 1 .. Len(queue'[Processed]) : x \in 1 .. Len(r) /\ queue'[Processed][x] = r[x]
      BY <2>1, EmptySeq
    <2> QED BY <2>1, <2>2, <2>3
  <1>5. CASE Service!Fetch
    <2>1. /\ Len(history') = Len(history) /\ Waiting' = Waiting
          /\ count'.frames = count.frames
      BY <1>5 DEF Service!Fetch
    <2>2. \A x \in 1 .. Len(queue'[Processed]) :
            x + 1 \in 1 .. Len(r) /\ queue'[Processed][x] = r[x + 1]
      BY <1>5, FetchLeaves
    <2> QED BY <2>1, <2>2
  <1>6. CASE \E f \in Waiting : \E k \in f.born .. Len(history) : Service!Deliver(f, k)
    <2> PICK f \in Waiting : \E k \in f.born .. Len(history) : Service!Deliver(f, k)
      BY <1>6
    <2> PICK k \in f.born .. Len(history) : Service!Deliver(f, k)
      OBVIOUS
    <2>1. /\ Len(history') = Len(history) /\ Waiting' = Waiting \ {f}
          /\ count'.frames = count.frames
          /\ f.born = Len(history) => \A g \in Waiting : g.born = Len(history) => f.id <= g.id
      BY DEF Service!Deliver
    <2>2. IsFiniteSet(Waiting')
      BY <2>1, FS_RemoveElement
    <2>3. \A x \in 1 .. Len(queue'[Processed]) :
            \/ x \in 1 .. Len(r) /\ queue'[Processed][x] = r[x]
            \/ queue'[Processed][x].id = f.id /\ queue'[Processed][x].born = f.born
      BY DeliverAdds
    <2>4. ASSUME NEW g \in Waiting', Fresh(f), Fresh(g) PROVE f.id < g.id
      <3>1. f.id <= g.id /\ g \in Waiting /\ g # f
        BY <2>1, <2>4
      <3>2. f.id # g.id /\ f.id \in Nat /\ g.id \in Nat
        BY <2>4, <3>1
      <3> QED BY <3>1, <3>2
    <2>5. \A x \in 1 .. Len(queue'[Processed]), g \in Waiting' :
            Fresh(queue'[Processed][x]) /\ Fresh(g) => queue'[Processed][x].id < g.id
      BY <2>1, <2>3, <2>4
    <2> QED BY <2>1, <2>2, <2>3, <2>5
  <1> QED BY <1>2, <1>3, <1>4, <1>5, <1>6 DEF Service!Next

\* Every fresh frame that may still be fetched was offered after frame number n.
Later(n) ==
  /\ \A g \in Waiting : Fresh(g) => n < g.id
  /\ \A x \in 1 .. Len(queue[Processed]) :
       Fresh(queue[Processed][x]) => n < queue[Processed][x].id

\* No step of the service brings an older frame back.
LEMMA LaterStays ==
  ASSUME TypeOK, TypeOK', InService, [Service!Next]_(Service!serviceVars),
         NEW n \in Nat, n <= count.frames, Later(n)
  PROVE  Later(n)'
  <1> USE DEF Fresh, Later
  <1> DEFINE r == queue[Processed]
  <1>1. /\ Len(r) \in Nat /\ count.frames \in Nat /\ Len(history) \in Nat
    BY ReadyTypes
  <1>2. CASE Service!Configure
    <2>1. /\ Len(history') = Len(history) + 1 /\ Waiting' \subseteq Waiting
          /\ queue'[Processed] = r
      BY <1>2 DEF Service!Configure
    <2>2. \A m \in 1 .. Len(history) : m # Len(history')
      BY <1>1, <2>1
    <2> QED BY <2>1, <2>2 DEF InService
  <1>3. CASE Service!Accept
    <2>1. /\ Len(history') = Len(history) /\ queue'[Processed] = r
          /\ \A g \in Waiting' : g \in Waiting \/ g.id = count.frames + 1
      BY <1>3 DEF Service!Accept
    <2> QED BY <1>1, <2>1
  <1>4. CASE Service!Lose \/ Service!Flush \/ UNCHANGED Service!serviceVars
    <2>1. /\ Len(history') = Len(history) /\ Waiting' \subseteq Waiting
          /\ queue'[Processed] = r \/ queue'[Processed] = <<>>
      BY <1>4 DEF Service!Lose, Service!Flush, Service!serviceVars
    <2>2. \A x \in 1 .. Len(queue'[Processed]) : x \in 1 .. Len(r) /\ queue'[Processed][x] = r[x]
      BY <2>1, EmptySeq
    <2> QED BY <2>1, <2>2
  <1>5. CASE Service!Fetch
    <2>1. Len(history') = Len(history) /\ Waiting' = Waiting
      BY <1>5 DEF Service!Fetch
    <2>2. \A x \in 1 .. Len(queue'[Processed]) :
            x + 1 \in 1 .. Len(r) /\ queue'[Processed][x] = r[x + 1]
      BY <1>5, FetchLeaves
    <2> QED BY <2>1, <2>2
  <1>6. CASE \E f \in Waiting : \E k \in f.born .. Len(history) : Service!Deliver(f, k)
    <2> PICK f \in Waiting : \E k \in f.born .. Len(history) : Service!Deliver(f, k)
      BY <1>6
    <2> PICK k \in f.born .. Len(history) : Service!Deliver(f, k)
      OBVIOUS
    <2>1. Len(history') = Len(history) /\ Waiting' \subseteq Waiting
      BY DEF Service!Deliver
    <2>2. \A x \in 1 .. Len(queue'[Processed]) :
            \/ x \in 1 .. Len(r) /\ queue'[Processed][x] = r[x]
            \/ queue'[Processed][x].id = f.id /\ queue'[Processed][x].born = f.born
      BY DeliverAdds
    <2> QED BY <2>1, <2>2
  <1> QED BY <1>2, <1>3, <1>4, <1>5, <1>6 DEF Service!Next

\* A frame that has been fetched is older than all that follow.
LEMMA LaterThanFetched ==
  ASSUME TypeOK, InService, InOrder, Service!Fetch, Fresh(Head(queue[Processed])),
         NEW n, n = Head(queue[Processed]).id
  PROVE  Later(n)'
  <1>1. /\ Len(history') = Len(history) /\ Waiting' = Waiting
    BY DEF Service!Fetch
  <1>2. /\ 1 \in 1 .. Len(queue[Processed])
        /\ Head(queue[Processed]) = queue[Processed][1]
        /\ \A x \in 1 .. Len(queue'[Processed]) :
             /\ x + 1 \in 1 .. Len(queue[Processed]) /\ 1 < x + 1
             /\ queue'[Processed][x] = queue[Processed][x + 1]
    BY FetchLeaves
  <1>3. \A x \in 1 .. Len(queue'[Processed]) :
          Fresh(queue'[Processed][x]) => Head(queue[Processed]).id < queue'[Processed][x].id
    BY <1>2, EndQueues DEF InOrder, Fresh
  <1>4. \A g \in Waiting' : Fresh(g) => Head(queue[Processed]).id < g.id
    BY <1>1, <1>2 DEF InService
  <1> QED BY <1>1, <1>3, <1>4 DEF Later, Fresh

\* In every state of every behaviour the frames of the service are in order.
THEOREM ServiceInvariant == Spec => []InService
  <1>1. Init => InService
    <2> SUFFICES ASSUME Init PROVE InService
      OBVIOUS
    <2>1. Waiting = {} /\ queue[Processed] = <<>>
      BY InitService DEF Service!Init
    <2>2. 1 .. Len(queue[Processed]) = {}
      BY <2>1, EmptySeq
    <2> QED BY <2>1, <2>2, FS_EmptySet DEF InService
  <1>2. /\ TypeOK /\ Ownership /\ (FramesNumbered /\ OneOwner) /\ Listed /\ Ordered
        /\ TypeOK' /\ InService /\ [Next]_vars
        => InService'
    <2> SUFFICES ASSUME TypeOK, Ownership, FramesNumbered, OneOwner, Listed, Ordered,
                        TypeOK', InService, [Next]_vars
                 PROVE  InService'
      OBVIOUS
    <2>1. Len(history) >= 1
      BY DEF Listed, Lineage
    <2> QED BY <2>1, StepService, ServiceKeepsOrder
  <1> QED BY <1>1, <1>2, OwnershipInvariant, NumberedInvariant, ListedInvariant,
             OrderedInvariant, PTL DEF Spec
=============================================================================
