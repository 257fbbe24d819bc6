------------------------ MODULE EffectPipelineProofs ------------------------
(***************************************************************************)
(* Safety of EffectPipeline for every number of effects, frames, edits,    *)
(* stops and faults and every capacity of the queues.                      *)
(***************************************************************************)
EXTENDS EffectPipeline, SequenceTheorems, TLAPS

\* Whatever is in use has been created: tasks, threads and queues get numbers
\* that nothing uses yet, and a thread that was created has a task to run.
Numbered ==
  /\ \A i \in 1 .. Len(effectTasks) : /\ effectTasks[i] <= created.tasks
                                      /\ inputQueue[effectTasks[i]] <= created.queues
  /\ \A i \in 1 .. Len(effectThreads) : effectThreads[i] <= created.threads
  /\ \A th \in Thread : pc[th] # "none" => taskOf[th] \in Task

\* The owner's part of the inductive invariant: types, wiring, threads.
Ownership == Numbered /\ Wired /\ ReplacedThreadsInterrupted

-----------------------------------------------------------------------------
LEMMA EmptyInSeq == ASSUME NEW S PROVE <<>> \in Seq(S) /\ Len(<<>>) = 0
  BY EmptySeq

\* A sequence of one element.
LEMMA Singleton ==
  ASSUME NEW S, NEW e \in S
  PROVE  <<e>> \in Seq(S) /\ Len(<<e>>) = 1 /\ <<e>>[1] = e
  OBVIOUS

\* What Append does to the length and the elements.
LEMMA Appended ==
  ASSUME NEW S, NEW s \in Seq(S), NEW e \in S
  PROVE  /\ Append(s, e) \in Seq(S)
         /\ Len(Append(s, e)) = Len(s) + 1
         /\ \A i \in 1 .. Len(s) + 1 : Append(s, e)[i] = IF i = Len(s) + 1 THEN e ELSE s[i]
  BY AppendProperties

\* offer() leaves well-typed queues behind, whether it accepts or refuses.
LEMMA OfferedType ==
  ASSUME TypeOK, NEW q \in Queue, NEW f \in Frame
  PROVE  Offered(q, f) \in [Queue -> Seq(Frame)]
  <1>1. Append(queue[q], f) \in Seq(Frame)
    BY Appended DEF TypeOK
  <1> QED BY <1>1 DEF Offered, TypeOK

LEMMA NoFrameIsFrame == NoFrame \in Frame
  BY EmptySeq DEF NoFrame, Frame

\* The states a thread can be given by an edit.
LEMMA LaunchedType ==
  ASSUME TypeOK, NEW ths \in SUBSET Thread
  PROVE  Launched(ths) \in [Thread -> State]
  BY DEF TypeOK, Launched, State, Alive

LEMMA InterruptType ==
  ASSUME TypeOK, NEW ths
  PROVE  Interrupt(ths) \in [Thread -> BOOLEAN]
  BY DEF TypeOK, Interrupt

\* The counters of what was created, and the numbers an edit with room hands out.
LEMMA CountersAreNumbers ==
  ASSUME TypeOK
  PROVE  /\ created.tasks \in Nat /\ created.threads \in Nat /\ created.queues \in Nat \ {0}
         /\ count.frames \in Nat /\ count.stops \in Nat /\ count.faults \in Nat
         /\ MaxTasks \in Nat /\ MaxThreads \in Nat /\ MaxQueues \in Nat
         /\ MaxFrames \in Nat /\ MaxStops \in Nat /\ MaxFaults \in Nat
  BY BoundsAssumption DEF TypeOK

LEMMA RoomForNew ==
  ASSUME TypeOK, NEW a \in Nat, NEW b \in Nat, NEW c \in Nat, Room(a, b, c)
  PROVE  /\ a >= 1 => NewTask \in Task
         /\ \A i \in 1 .. b : NewThread(i) \in Thread
         /\ c >= 1 => NewQueue \in Queue
         /\ Create(a, b, c) =>
              created' \in [tasks : 0 .. MaxTasks, threads : 0 .. MaxThreads,
                            queues : 1 .. MaxQueues]
  <1>1. /\ created.tasks + a \in 0 .. MaxTasks
        /\ created.threads + b \in 0 .. MaxThreads
        /\ created.queues + c \in 1 .. MaxQueues
    BY CountersAreNumbers DEF Room
  <1>2. Create(a, b, c) =>
          created' \in [tasks : 0 .. MaxTasks, threads : 0 .. MaxThreads, queues : 1 .. MaxQueues]
    BY <1>1 DEF Create
  <1> QED BY <1>1, <1>2, CountersAreNumbers DEF Task, Thread, Queue, NewTask, NewThread, NewQueue

LEMMA NewAreNumbers ==
  ASSUME TypeOK
  PROVE  /\ NewTask \in Nat /\ NewQueue \in Nat
         /\ NewThread(1) \in Nat /\ NewThread(2) \in Nat
         /\ NewThread(1) < NewThread(2) /\ NewQueue >= 2
  <1>1. created.tasks \in Nat /\ created.threads \in Nat /\ created.queues \in Nat \ {0}
    BY CountersAreNumbers
  <1> QED BY <1>1 DEF NewTask, NewQueue, NewThread

\* The end queues are queues.
LEMMA EndQueues == Unprocessed \in Queue /\ Processed \in Queue
  BY BoundsAssumption DEF Unprocessed, Processed, Queue

-----------------------------------------------------------------------------
\* TypeOK and Numbered hold in the initial states.
LEMMA InitType == Init => TypeOK
  <1> SUFFICES ASSUME Init PROVE TypeOK
    OBVIOUS
  <1> USE BoundsAssumption
  <1>1. effectTasks \in Seq(Task) /\ effectThreads \in Seq(Thread)
    <2>1. \A i \in 1 .. InitialEffects : i \in Task /\ i \in Thread
      BY DEF Task, Thread
    <2>2. [i \in 1 .. InitialEffects |-> i] \in [1 .. InitialEffects -> Task]
      BY <2>1
    <2>3. [i \in 1 .. InitialEffects |-> i] \in [1 .. InitialEffects -> Thread]
      BY <2>1
    <2> QED BY <2>2, <2>3 DEF Init
  <1>2. inputQueue \in [Task -> Queue] /\ outputQueue \in [Task -> Queue]
    BY DEF Init, Task, Queue, Unprocessed, Processed
  <1>3. queue \in [Queue -> Seq(Frame)]
    BY EmptySeq DEF Init
  <1>4. taskOf \in [Thread -> Task \cup {0}]
    BY DEF Init, Task, Thread
  <1>5. pc \in [Thread -> State]
    BY DEF Init, State
  <1>6. ref \in [Thread -> Queue]
    BY DEF Init, Queue, Unprocessed
  <1>7. hand \in [Thread -> Frame]
    BY NoFrameIsFrame DEF Init
  <1>8. created \in [tasks : 0 .. MaxTasks, threads : 0 .. MaxThreads, queues : 1 .. MaxQueues]
    BY DEF Init
  <1>9. history \in Seq(Seq(Task))
    BY <1>1, Singleton DEF Init
  <1>10. count \in [frames : 0 .. MaxFrames, stops : 0 .. MaxStops, faults : 0 .. MaxFaults]
    BY DEF Init
  <1> QED BY <1>1, <1>2, <1>3, <1>4, <1>5, <1>6, <1>7, <1>8, <1>9, <1>10 DEF TypeOK, Init

LEMMA InitNumbered == Init => Numbered
  BY BoundsAssumption DEF Init, Numbered, Task, Thread, Unprocessed

-----------------------------------------------------------------------------
\* Every step keeps the types: the edits, ...
LEMMA EditType ==
  ASSUME TypeOK, Wired, Edit
  PROVE  TypeOK'
  <1>1. CASE AddFirstEffect \/ ClearEffects
    <2> DEFINE t == NewTask
               th == NewThread(1)
    <2>1. /\ Room(1, 1, 0) /\ Create(1, 1, 0)
          /\ effectTasks' = <<t>> /\ effectThreads' = <<th>>
          /\ inputQueue' = [inputQueue EXCEPT ![t] = Unprocessed]
          /\ outputQueue' = [outputQueue EXCEPT ![t] = Processed]
          /\ taskOf' = [taskOf EXCEPT ![th] = t]
          /\ interrupted' = interrupted \/ interrupted' = Interrupt(Range(effectThreads))
          /\ pc' = Launched({th})
          /\ history' = Append(history, effectTasks')
          /\ UNCHANGED <<running, queue, ref, hand, count>>
      BY <1>1 DEF AddFirstEffect, ClearEffects
    <2>2. t \in Task /\ th \in Thread
      BY <2>1, RoomForNew
    <2> HIDE DEF t, th
    <2>3. effectTasks' \in Seq(Task) /\ effectThreads' \in Seq(Thread)
      BY <2>1, <2>2, Singleton
    <2>4. inputQueue' \in [Task -> Queue] /\ outputQueue' \in [Task -> Queue]
      BY <2>1, EndQueues DEF TypeOK
    <2>5. taskOf' \in [Thread -> Task \cup {0}]
      BY <2>1, <2>2 DEF TypeOK
    <2>6. pc' \in [Thread -> State]
      BY <2>1, <2>2, LaunchedType
    <2>7. interrupted' \in [Thread -> BOOLEAN]
      BY <2>1, InterruptType DEF TypeOK
    <2>8. history' \in Seq(Seq(Task))
      BY <2>1, <2>3, Appended DEF TypeOK
    <2> QED BY <2>1, <2>3, <2>4, <2>5, <2>6, <2>7, <2>8, RoomForNew DEF TypeOK
  <1>2. CASE AddEffect
    <2> DEFINE n == Len(effectTasks)
               old == effectTasks[n]
               t == NewTask
               q == NewQueue
               renewed == NewThread(1)
               fresh == NewThread(2)
    <2>1. /\ Room(1, 2, 1) /\ Create(1, 2, 1) /\ effectTasks # <<>>
          /\ effectTasks' = Append(effectTasks, t)
          /\ effectThreads' = Append([effectThreads EXCEPT ![n] = renewed], fresh)
          /\ inputQueue' = [inputQueue EXCEPT ![t] = q]
          /\ outputQueue' = [outputQueue EXCEPT ![old] = q, ![t] = Processed]
          /\ taskOf' = [taskOf EXCEPT ![renewed] = old, ![fresh] = t]
          /\ interrupted' = Interrupt({effectThreads[n]})
          /\ pc' = Launched({renewed, fresh})
          /\ history' = Append(history, effectTasks')
          /\ UNCHANGED <<running, queue, ref, hand, count>>
      BY <1>2 DEF AddEffect, AppendTask
    <2>2. t \in Task /\ renewed \in Thread /\ fresh \in Thread /\ q \in Queue
      BY <2>1, RoomForNew
    <2>3. n \in 1 .. n /\ old \in Task
      <3>1. effectTasks \in Seq(Task) /\ effectTasks # <<>>
        BY <2>1 DEF TypeOK
      <3>2. n \in Nat \ {0}
        BY <3>1, EmptySeq
      <3> QED BY <3>1, <3>2, ElementOfSeq
    <2> HIDE DEF t, q, renewed, fresh, n, old
    <2>4. effectTasks' \in Seq(Task)
      BY <2>1, <2>2, Appended DEF TypeOK
    <2>5. [effectThreads EXCEPT ![n] = renewed] \in Seq(Thread)
      <3>1. n \in 1 .. Len(effectThreads)
        BY <2>3 DEF Wired, n
      <3> QED BY <3>1, <2>2, ExceptSeq DEF TypeOK
    <2>6. effectThreads' \in Seq(Thread)
      BY <2>1, <2>2, <2>5, Appended
    <2>7. inputQueue' \in [Task -> Queue] /\ outputQueue' \in [Task -> Queue]
      BY <2>1, <2>2, EndQueues DEF TypeOK
    <2>8. taskOf' \in [Thread -> Task \cup {0}]
      BY <2>1, <2>2, <2>3 DEF TypeOK
    <2>9. pc' \in [Thread -> State]
      BY <2>1, <2>2, LaunchedType
    <2>10. interrupted' \in [Thread -> BOOLEAN]
      BY <2>1, InterruptType
    <2>11. history' \in Seq(Seq(Task))
      BY <2>1, <2>4, Appended DEF TypeOK
    <2> QED BY <2>1, <2>4, <2>6, <2>7, <2>8, <2>9, <2>10, <2>11, RoomForNew DEF TypeOK
  <1> QED BY <1>1, <1>2 DEF Edit

\* ... start(), stop(), addFrame and getFrame, ...
LEMMA CallType ==
  ASSUME TypeOK, Start \/ Stop \/ Frames
  PROVE  TypeOK'
  <1>1. CASE Start
    <2>1. pc' \in [Thread -> State]
      BY <1>1 DEF Start, Startable, State, Alive, TypeOK
    <2> QED BY <1>1, <2>1 DEF Start, TypeOK
  <1>2. CASE Stop
    <2>1. queue' \in [Queue -> Seq(Frame)]
      BY <1>2, EmptySeq DEF Stop, TypeOK
    <2>2. interrupted' \in [Thread -> BOOLEAN]
      BY <1>2, InterruptType DEF Stop
    <2>3. count.stops + 1 \in 0 .. MaxStops
      BY <1>2, CountersAreNumbers DEF Stop
    <2>4. count' \in [frames : 0 .. MaxFrames, stops : 0 .. MaxStops, faults : 0 .. MaxFaults]
      BY <1>2, <2>3 DEF Stop, TypeOK
    <2> QED BY <1>2, <2>1, <2>2, <2>4 DEF Stop, TypeOK
  <1>3. CASE AddFrame
    <2> DEFINE f == [id |-> count.frames + 1, born |-> Len(history), applied |-> <<>>]
    <2>1. f \in Frame
      BY EmptySeq, LenProperties, CountersAreNumbers DEF Frame, TypeOK
    <2>2. queue' \in [Queue -> Seq(Frame)]
      BY <1>3, <2>1, EndQueues, OfferedType DEF AddFrame
    <2>3. count.frames + 1 \in 0 .. MaxFrames
      <3>1. count.frames < MaxFrames
        BY <1>3 DEF AddFrame
      <3> QED BY <3>1, CountersAreNumbers
    <2>4. count' \in [frames : 0 .. MaxFrames, stops : 0 .. MaxStops, faults : 0 .. MaxFaults]
      BY <1>3, <2>3 DEF AddFrame, TypeOK
    <2> QED BY <1>3, <2>2, <2>4 DEF AddFrame, pipelineVars, TypeOK
  <1>4. CASE GetFrame
    <2>1. queue' \in [Queue -> Seq(Frame)]
      BY <1>4, EndQueues, HeadTailProperties DEF GetFrame, TypeOK
    <2> QED BY <1>4, <2>1 DEF GetFrame, pipelineVars, TypeOK
  <1> QED BY <1>1, <1>2, <1>3, <1>4 DEF Frames

\* ... and the steps of a thread, which has a task by Numbered.
LEMMA ThreadType ==
  ASSUME TypeOK, Numbered, NEW th \in Thread, Run(th) \/ ApplyThrows(th)
  PROVE  TypeOK'
  <1> USE DEF TypeOK, pipelineVars
  <1>1. {"loop", "take", "apply", "applied", "offer", "done"} \subseteq State
    BY DEF State, Alive, Busy
  <1>2. CASE ReadInput(th)
    <2>1. taskOf[th] \in Task
      BY <1>2 DEF ReadInput, Numbered
    <2> QED BY <1>1, <1>2, <2>1 DEF ReadInput
  <1>3. CASE Take(th)
    <2>1. ref[th] \in Queue /\ queue[ref[th]] \in Seq(Frame)
      OBVIOUS
    <2>2. Head(queue[ref[th]]) \in Frame /\ Tail(queue[ref[th]]) \in Seq(Frame)
      BY <1>3, <2>1, HeadTailProperties DEF Take
    <2> QED BY <1>1, <1>3, <2>1, <2>2 DEF Take
  <1>4. CASE LeaveLoop(th)
    BY <1>1, <1>4 DEF LeaveLoop
  <1>5. CASE Apply(th)
    <2>1. taskOf[th] \in Task
      BY <1>5 DEF Apply, Numbered
    <2>2. hand[th] \in Frame /\ hand[th].applied \in Seq(Task)
      BY DEF Frame
    <2>3. Append(hand[th].applied, taskOf[th]) \in Seq(Task)
      BY <2>1, <2>2, Appended
    <2>4. [hand[th] EXCEPT !.applied = Append(@, taskOf[th])] \in Frame
      BY <2>2, <2>3 DEF Frame
    <2> QED BY <1>1, <1>5, <2>4 DEF Apply
  <1>6. CASE DropFrame(th)
    BY <1>1, <1>6, NoFrameIsFrame DEF DropFrame
  <1>7. CASE ReadOutput(th)
    <2>1. taskOf[th] \in Task
      BY <1>7 DEF ReadOutput, Numbered
    <2> QED BY <1>1, <1>7, <2>1 DEF ReadOutput
  <1>8. CASE Offer(th)
    <2>1. queue' \in [Queue -> Seq(Frame)]
      BY <1>8, OfferedType DEF Offer
    <2> QED BY <1>1, <1>8, <2>1, NoFrameIsFrame DEF Offer
  <1>9. CASE ApplyThrows(th)
    <2>1. count.faults + 1 \in 0 .. MaxFaults
      <3>1. count.faults < MaxFaults
        BY <1>9 DEF ApplyThrows
      <3> HIDE DEF TypeOK
      <3> QED BY <3>1, CountersAreNumbers
    <2>2. count' \in [frames : 0 .. MaxFrames, stops : 0 .. MaxStops, faults : 0 .. MaxFaults]
      BY <1>9, <2>1 DEF ApplyThrows
    <2> QED BY <1>1, <1>9, <2>2, NoFrameIsFrame DEF ApplyThrows
  <1> QED BY <1>2, <1>3, <1>4, <1>5, <1>6, <1>7, <1>8, <1>9 DEF Run

-----------------------------------------------------------------------------
\* The range of a sequence, by its indices.
LEMMA RangeByIndex ==
  ASSUME NEW S, NEW s \in Seq(S), NEW e
  PROVE  e \in Range(s) <=> \E i \in 1 .. Len(s) : s[i] = e
  <1>1. DOMAIN s = 1 .. Len(s)
    BY LenProperties
  <1>2. e \in Range(s) <=> \E i \in DOMAIN s : s[i] = e
    BY Zenon DEF Range
  <1> QED BY <1>1, <1>2

\* New numbers are above all numbers in use.
LEMMA NewIsUnused ==
  ASSUME TypeOK, Wired, Numbered
  PROVE  /\ \A i \in 1 .. Len(effectTasks) :
              /\ effectTasks[i] \in Task
              /\ effectTasks[i] < NewTask
              /\ inputQueue[effectTasks[i]] < NewQueue
         /\ \A i \in 1 .. Len(effectTasks) :
              /\ effectThreads[i] \in Thread
              /\ effectThreads[i] < NewThread(1)
              /\ effectThreads[i] < NewThread(2)
         /\ NewQueue >= 2
         /\ NewThread(1) < NewThread(2)
  <1>1. /\ created.tasks \in Nat /\ created.threads \in Nat /\ created.queues \in Nat \ {0}
        /\ Task \subseteq Nat /\ Thread \subseteq Nat /\ Queue \subseteq Nat
    BY CountersAreNumbers DEF Task, Thread, Queue
  <1>2. Len(effectThreads) = Len(effectTasks)
    BY DEF Wired
  <1>3. /\ \A i \in 1 .. Len(effectTasks) : effectTasks[i] \in Task
        /\ \A i \in 1 .. Len(effectTasks) : effectThreads[i] \in Thread
    BY <1>2, ElementOfSeq DEF TypeOK
  <1>4. \A i \in 1 .. Len(effectTasks) : inputQueue[effectTasks[i]] \in Queue
    BY <1>3 DEF TypeOK
  <1>5. /\ \A i \in 1 .. Len(effectTasks) : effectTasks[i] <= created.tasks
        /\ \A i \in 1 .. Len(effectTasks) : inputQueue[effectTasks[i]] <= created.queues
        /\ \A i \in 1 .. Len(effectTasks) : effectThreads[i] <= created.threads
    BY <1>2 DEF Numbered
  <1>6. /\ NewTask = created.tasks + 1 /\ NewQueue = created.queues + 1
        /\ NewThread(1) = created.threads + 1 /\ NewThread(2) = created.threads + 2
    BY DEF NewTask, NewQueue, NewThread
  <1>7. ASSUME NEW i \in 1 .. Len(effectTasks)
        PROVE  /\ effectTasks[i] < NewTask
               /\ inputQueue[effectTasks[i]] < NewQueue
               /\ effectThreads[i] < NewThread(1) /\ effectThreads[i] < NewThread(2)
    <2>1. effectTasks[i] \in Nat /\ inputQueue[effectTasks[i]] \in Nat /\ effectThreads[i] \in Nat
      BY <1>1, <1>3, <1>4
    <2>2. /\ effectTasks[i] <= created.tasks
          /\ inputQueue[effectTasks[i]] <= created.queues
          /\ effectThreads[i] <= created.threads
      BY <1>5
    <2>3. created.tasks \in Nat /\ created.threads \in Nat /\ created.queues \in Nat
      BY <1>1
    <2>4. effectTasks[i] < NewTask
      BY <2>1, <2>2, <2>3, <1>6
    <2>5. inputQueue[effectTasks[i]] < NewQueue
      BY <2>1, <2>2, <2>3, <1>6
    <2>6. effectThreads[i] < NewThread(1) /\ effectThreads[i] < NewThread(2)
      BY <2>1, <2>2, <2>3, <1>6
    <2> QED BY <2>4, <2>5, <2>6
  <1>10. NewQueue >= 2 /\ NewThread(1) < NewThread(2)
    BY NewAreNumbers
  <1> QED BY <1>3, <1>7, <1>10

\* The lists addEffect(effect) leaves behind, element by element.
LEMMA AfterAddEffect ==
  ASSUME TypeOK, Wired, AddEffect
  PROVE  /\ Len(effectTasks) \in Nat /\ Len(effectTasks) >= 1
         /\ NewTask \in Task /\ NewQueue \in Queue
         /\ NewThread(1) \in Thread /\ NewThread(2) \in Thread
         /\ Len(effectTasks') = Len(effectTasks) + 1
         /\ Len(effectThreads') = Len(effectTasks) + 1
         /\ \A i \in 1 .. Len(effectTasks) : effectTasks'[i] = effectTasks[i]
         /\ effectTasks'[Len(effectTasks) + 1] = NewTask
         /\ \A i \in 1 .. Len(effectTasks) - 1 : effectThreads'[i] = effectThreads[i]
         /\ effectThreads'[Len(effectTasks)] = NewThread(1)
         /\ effectThreads'[Len(effectTasks) + 1] = NewThread(2)
  <1> DEFINE n == Len(effectTasks)
  <1>1. /\ Room(1, 2, 1) /\ effectTasks # <<>>
        /\ effectTasks' = Append(effectTasks, NewTask)
        /\ effectThreads' = Append([effectThreads EXCEPT ![n] = NewThread(1)], NewThread(2))
    BY DEF AddEffect, AppendTask
  <1>2. NewTask \in Task /\ NewThread(1) \in Thread /\ NewThread(2) \in Thread /\ NewQueue \in Queue
    BY <1>1, RoomForNew
  <1>3. effectTasks \in Seq(Task) /\ effectThreads \in Seq(Thread)
    BY DEF TypeOK
  <1>4. n \in Nat /\ n >= 1
    <2>1. n \in Nat \ {0}
      BY <1>1, <1>3, EmptySeq
    <2> QED BY <2>1
  <1>5. Len(effectThreads) = n
    BY DEF Wired
  <1> HIDE DEF n
  <1>6. n \in 1 .. Len(effectThreads)
    BY <1>4, <1>5
  <1>7. /\ [effectThreads EXCEPT ![n] = NewThread(1)] \in Seq(Thread)
        /\ Len([effectThreads EXCEPT ![n] = NewThread(1)]) = n
        /\ \A j \in 1 .. n : [effectThreads EXCEPT ![n] = NewThread(1)][j]
                               = IF j = n THEN NewThread(1) ELSE effectThreads[j]
    BY <1>2, <1>3, <1>5, <1>6, ExceptSeq
  <1>8. /\ Len(effectThreads') = n + 1
        /\ \A j \in 1 .. n + 1 : effectThreads'[j]
             = IF j = n + 1 THEN NewThread(2)
                            ELSE [effectThreads EXCEPT ![n] = NewThread(1)][j]
    BY <1>1, <1>2, <1>7, Appended
  <1>9. /\ Len(effectTasks') = n + 1
        /\ \A j \in 1 .. n + 1 : effectTasks'[j] = IF j = n + 1 THEN NewTask ELSE effectTasks[j]
    BY <1>1, <1>2, <1>3, Appended DEF n
  <1> QED BY <1>2, <1>4, <1>7, <1>8, <1>9 DEF n

\* The fields and the threads after addEffect(effect).
LEMMA FieldsAfterAddEffect ==
  ASSUME TypeOK, Wired, Numbered, AddEffect
  PROVE  /\ created'.tasks = NewTask /\ created'.threads = NewThread(2)
         /\ created'.queues = NewQueue
         /\ inputQueue'[NewTask] = NewQueue /\ outputQueue'[NewTask] = Processed
         /\ \A i \in 1 .. Len(effectTasks) :
              inputQueue'[effectTasks[i]] = inputQueue[effectTasks[i]]
         /\ outputQueue'[effectTasks[Len(effectTasks)]] = NewQueue
         /\ \A i \in 1 .. Len(effectTasks) - 1 :
              outputQueue'[effectTasks[i]] = outputQueue[effectTasks[i]]
         /\ taskOf'[NewThread(1)] = effectTasks[Len(effectTasks)]
         /\ taskOf'[NewThread(2)] = NewTask
         /\ \A th \in Thread \ {NewThread(1), NewThread(2)} : taskOf'[th] = taskOf[th]
  <1> DEFINE n == Len(effectTasks)
             last == effectTasks[n]
  <1>1. /\ Create(1, 2, 1)
        /\ inputQueue' = [inputQueue EXCEPT ![NewTask] = NewQueue]
        /\ outputQueue' = [outputQueue EXCEPT ![last] = NewQueue, ![NewTask] = Processed]
        /\ taskOf' = [taskOf EXCEPT ![NewThread(1)] = last, ![NewThread(2)] = NewTask]
    BY DEF AddEffect, AppendTask
  <1>2. /\ n \in Nat /\ n >= 1 /\ NewTask \in Task
        /\ NewThread(1) \in Thread /\ NewThread(2) \in Thread
    BY AfterAddEffect
  <1>3. /\ \A i \in 1 .. n : effectTasks[i] \in Task /\ effectTasks[i] < NewTask
        /\ NewThread(1) < NewThread(2)
    BY NewIsUnused
  <1>4. \A i \in 1 .. n - 1 : effectTasks[i] # last
    BY <1>2 DEF Wired
  <1>5. last \in Task
    BY <1>2, <1>3
  <1> HIDE DEF n, last
  <1>6. /\ inputQueue \in [Task -> Queue] /\ outputQueue \in [Task -> Queue]
        /\ taskOf \in [Thread -> Task \cup {0}]
    BY DEF TypeOK
  <1>7. \A i \in 1 .. n : effectTasks[i] # NewTask
    BY <1>2, <1>3 DEF Task
  <1>8. NewThread(1) # NewThread(2)
    BY <1>2, <1>3 DEF Thread
  <1>9. last # NewTask
    BY <1>2, <1>7 DEF last
  <1>10. created'.tasks = NewTask /\ created'.threads = NewThread(2) /\ created'.queues = NewQueue
    BY <1>1 DEF Create, NewTask, NewThread, NewQueue
  <1>11. /\ inputQueue'[NewTask] = NewQueue
         /\ \A i \in 1 .. n : inputQueue'[effectTasks[i]] = inputQueue[effectTasks[i]]
    BY <1>1, <1>2, <1>3, <1>6, <1>7
  <1>12. /\ outputQueue'[NewTask] = Processed
         /\ outputQueue'[last] = NewQueue
    BY <1>1, <1>2, <1>5, <1>6, <1>9
  <1>13. \A i \in 1 .. n - 1 : outputQueue'[effectTasks[i]] = outputQueue[effectTasks[i]]
    BY <1>1, <1>2, <1>3, <1>4, <1>6, <1>7
  <1>14. /\ taskOf'[NewThread(1)] = last /\ taskOf'[NewThread(2)] = NewTask
         /\ \A th \in Thread \ {NewThread(1), NewThread(2)} : taskOf'[th] = taskOf[th]
    BY <1>1, <1>2, <1>6, <1>8
  <1> QED BY <1>10, <1>11, <1>12, <1>13, <1>14 DEF n, last

\* addEffect(effect) on an empty pipeline, and clearEffects.
LEMMA AfterSingle ==
  ASSUME TypeOK, AddFirstEffect \/ ClearEffects
  PROVE  /\ NewTask \in Task /\ NewThread(1) \in Thread
         /\ effectTasks' = <<NewTask>> /\ effectThreads' = <<NewThread(1)>>
         /\ Len(effectTasks') = 1 /\ Len(effectThreads') = 1
         /\ inputQueue'[NewTask] = Unprocessed /\ outputQueue'[NewTask] = Processed
         /\ taskOf'[NewThread(1)] = NewTask
         /\ \A th \in Thread \ {NewThread(1)} : taskOf'[th] = taskOf[th]
         /\ pc' = Launched({NewThread(1)})
         /\ created'.tasks = NewTask /\ created'.threads = NewThread(1)
         /\ created'.queues = created.queues
  <1>1. /\ Room(1, 1, 0) /\ Create(1, 1, 0)
        /\ effectTasks' = <<NewTask>> /\ effectThreads' = <<NewThread(1)>>
        /\ inputQueue' = [inputQueue EXCEPT ![NewTask] = Unprocessed]
        /\ outputQueue' = [outputQueue EXCEPT ![NewTask] = Processed]
        /\ taskOf' = [taskOf EXCEPT ![NewThread(1)] = NewTask]
        /\ pc' = Launched({NewThread(1)})
    BY DEF AddFirstEffect, ClearEffects
  <1>5. Len(effectTasks') = 1 /\ Len(effectThreads') = 1
    BY <1>1, Singleton
  <1>2. NewTask \in Task /\ NewThread(1) \in Thread
    BY <1>1, RoomForNew
  <1>3. created'.tasks = NewTask /\ created'.threads = NewThread(1) /\ created'.queues = created.queues
    BY <1>1, CountersAreNumbers DEF Create, NewTask, NewThread
  <1>4. /\ inputQueue \in [Task -> Queue] /\ outputQueue \in [Task -> Queue]
        /\ taskOf \in [Thread -> Task \cup {0}]
    BY DEF TypeOK
  <1> QED BY <1>1, <1>2, <1>3, <1>4, <1>5
-----------------------------------------------------------------------------
\* The edits keep Numbered: what they create takes the next numbers.
LEMMA EditNumbered ==
  ASSUME TypeOK, Wired, Numbered, Edit
  PROVE  Numbered'
  <1>1. CASE AddFirstEffect \/ ClearEffects
    <2>1. \A th \in Thread : pc'[th] # "none" => taskOf'[th] \in Task
      <3> SUFFICES ASSUME NEW th \in Thread, pc'[th] # "none"
                   PROVE  taskOf'[th] \in Task
        OBVIOUS
      <3>1. CASE th = NewThread(1)
        BY <1>1, <3>1, AfterSingle
      <3>2. CASE th # NewThread(1)
        <4>1. pc'[th] = pc[th] /\ taskOf'[th] = taskOf[th]
          BY <1>1, <3>2, AfterSingle DEF Launched
        <4> QED BY <4>1 DEF Numbered
      <3> QED BY <3>1, <3>2
    <2> DEFINE tasks == Len(effectTasks')
               threads == Len(effectThreads')
    <2>6. tasks = 1 /\ threads = 1
      BY <1>1, AfterSingle
    <2> HIDE DEF tasks, threads
    <2>7. \A i \in 1 .. tasks : i = 1
      BY <2>6
    <2>2. \A i \in 1 .. Len(effectTasks') : i = 1
      BY <2>7 DEF tasks
    <2>8. \A i \in 1 .. threads : i = 1
      BY <2>6
    <2>3. \A i \in 1 .. Len(effectThreads') : i = 1
      BY <2>8 DEF threads
    <2>4. /\ effectTasks'[1] = NewTask /\ effectThreads'[1] = NewThread(1)
          /\ created'.tasks = NewTask /\ created'.threads = NewThread(1)
          /\ created'.queues = created.queues
          /\ inputQueue'[NewTask] = 0
      BY <1>1, AfterSingle DEF Unprocessed
    <2>5. NewTask <= NewTask /\ NewThread(1) <= NewThread(1) /\ 0 <= created.queues
      BY CountersAreNumbers DEF NewTask, NewThread
    <2> QED BY <2>1, <2>2, <2>3, <2>4, <2>5 DEF Numbered
  <1>2. CASE AddEffect
    <2> DEFINE n == Len(effectTasks)
    <2>1. \A th \in Thread : pc'[th] # "none" => taskOf'[th] \in Task
      <3> SUFFICES ASSUME NEW th \in Thread, pc'[th] # "none"
                   PROVE  taskOf'[th] \in Task
        OBVIOUS
      <3>1. CASE th = NewThread(2)
        BY <1>2, <3>1, FieldsAfterAddEffect, AfterAddEffect
      <3>2. CASE th = NewThread(1)
        <4>1. n \in 1 .. n /\ taskOf'[th] = effectTasks[n]
          BY <1>2, <3>2, FieldsAfterAddEffect, AfterAddEffect
        <4> QED BY <4>1, NewIsUnused
      <3>3. CASE th \notin {NewThread(1), NewThread(2)}
        <4>1. taskOf'[th] = taskOf[th]
          BY <1>2, <3>3, FieldsAfterAddEffect
        <4>2. pc'[th] = pc[th]
          BY <1>2, <3>3 DEF AddEffect, AppendTask, Launched
        <4> QED BY <4>1, <4>2 DEF Numbered
      <3> QED BY <3>1, <3>2, <3>3
    <2>2. /\ n \in Nat /\ n >= 1
          /\ NewTask \in Nat /\ NewQueue \in Nat
          /\ NewThread(1) \in Nat /\ NewThread(2) \in Nat
          /\ NewThread(1) < NewThread(2)
      BY <1>2, AfterAddEffect, NewAreNumbers
    <2>3. ASSUME NEW i \in 1 .. Len(effectTasks')
          PROVE  /\ effectTasks'[i] <= created'.tasks
                 /\ inputQueue'[effectTasks'[i]] <= created'.queues
      <3>1. CASE i = n + 1
        BY <1>2, <2>2, <3>1, AfterAddEffect, FieldsAfterAddEffect
      <3>2. CASE i \in 1 .. n
        <4>1. /\ effectTasks[i] \in Task /\ effectTasks[i] < NewTask
              /\ inputQueue[effectTasks[i]] < NewQueue
          BY <3>2, NewIsUnused
        <4>2. effectTasks[i] \in Nat /\ inputQueue[effectTasks[i]] \in Nat
          BY <4>1 DEF TypeOK, Task, Queue
        <4>3. effectTasks[i] <= NewTask /\ inputQueue[effectTasks[i]] <= NewQueue
          BY <2>2, <4>1, <4>2
        <4> QED BY <1>2, <3>2, <4>3, AfterAddEffect, FieldsAfterAddEffect
      <3>3. Len(effectTasks') = n + 1
        BY <1>2, AfterAddEffect
      <3> QED BY <2>2, <3>1, <3>2, <3>3
    <2>4. ASSUME NEW i \in 1 .. Len(effectThreads')
          PROVE  effectThreads'[i] <= created'.threads
      <3>1. CASE i \in {n, n + 1}
        BY <1>2, <2>2, <3>1, AfterAddEffect, FieldsAfterAddEffect
      <3>2. CASE i \in 1 .. n - 1
        <4>1. effectThreads[i] \in Thread /\ effectThreads[i] < NewThread(2)
          BY <2>2, <3>2, NewIsUnused
        <4>2. effectThreads[i] <= NewThread(2)
          BY <2>2, <4>1 DEF Thread
        <4> QED BY <1>2, <3>2, <4>2, AfterAddEffect, FieldsAfterAddEffect
      <3>3. Len(effectThreads') = n + 1
        BY <1>2, AfterAddEffect
      <3> QED BY <2>2, <3>1, <3>2, <3>3
    <2> QED BY <2>1, <2>3, <2>4 DEF Numbered
  <1> QED BY <1>1, <1>2 DEF Edit

\* The edits keep the chain of queues from unprocessed to processed.
LEMMA EditWired ==
  ASSUME TypeOK, Wired, Numbered, Edit
  PROVE  Wired'
  <1>1. CASE AddFirstEffect \/ ClearEffects
    BY <1>1, AfterSingle DEF Wired
  <1>2. CASE AddEffect
    <2> DEFINE n == Len(effectTasks)
    <2>1. n \in Nat /\ n >= 1
      BY <1>2, AfterAddEffect
    <2>2. Len(effectTasks') = n + 1 /\ Len(effectThreads') = n + 1
      BY <1>2, AfterAddEffect
    <2>3. \A i \in 1 .. n + 1 : taskOf'[effectThreads'[i]] = effectTasks'[i]
      <3> SUFFICES ASSUME NEW i \in 1 .. n + 1
                   PROVE  taskOf'[effectThreads'[i]] = effectTasks'[i]
        OBVIOUS
      <3>1. CASE i = n + 1
        BY <1>2, <3>1, AfterAddEffect, FieldsAfterAddEffect
      <3>2. CASE i = n
        BY <1>2, <2>1, <3>2, AfterAddEffect, FieldsAfterAddEffect
      <3>3. CASE i \in 1 .. n - 1
        <4>1. i \in 1 .. n
          BY <2>1, <3>3
        <4>2. effectThreads[i] \in Thread \ {NewThread(1), NewThread(2)}
          <5>1. /\ effectThreads[i] \in Thread
                /\ effectThreads[i] < NewThread(1) /\ effectThreads[i] < NewThread(2)
            BY <4>1, NewIsUnused
          <5> QED BY <5>1 DEF Thread
        <4>3. taskOf[effectThreads[i]] = effectTasks[i]
          BY <4>1 DEF Wired
        <4> QED BY <1>2, <3>3, <4>1, <4>2, <4>3, AfterAddEffect, FieldsAfterAddEffect
      <3> QED BY <2>1, <3>1, <3>2, <3>3
    <2>4. /\ inputQueue'[effectTasks'[1]] = Unprocessed
          /\ outputQueue'[effectTasks'[n + 1]] = Processed
      <3>1. inputQueue[effectTasks[1]] = Unprocessed
        BY <2>1 DEF Wired
      <3>2. 1 \in 1 .. n
        BY <2>1
      <3> QED BY <1>2, <3>1, <3>2, AfterAddEffect, FieldsAfterAddEffect
    <2>5. \A i \in 1 .. n : outputQueue'[effectTasks'[i]] = inputQueue'[effectTasks'[i + 1]]
      <3> SUFFICES ASSUME NEW i \in 1 .. n
                   PROVE  outputQueue'[effectTasks'[i]] = inputQueue'[effectTasks'[i + 1]]
        OBVIOUS
      <3>1. CASE i = n
        BY <1>2, <2>1, <3>1, AfterAddEffect, FieldsAfterAddEffect
      <3>2. CASE i \in 1 .. n - 1
        <4>1. i \in 1 .. n /\ i + 1 \in 1 .. n
          BY <2>1, <3>2
        <4>2. outputQueue[effectTasks[i]] = inputQueue[effectTasks[i + 1]]
          BY <3>2 DEF Wired
        <4> QED BY <1>2, <3>2, <4>1, <4>2, AfterAddEffect, FieldsAfterAddEffect
      <3> QED BY <2>1, <3>1, <3>2
    <2>6. \A i \in 2 .. n + 1 : inputQueue'[effectTasks'[i]] \notin {Unprocessed, Processed}
      <3> SUFFICES ASSUME NEW i \in 2 .. n + 1
                   PROVE  inputQueue'[effectTasks'[i]] \notin {Unprocessed, Processed}
        OBVIOUS
      <3>1. CASE i = n + 1
        <4>1. inputQueue'[effectTasks'[i]] = NewQueue
          BY <1>2, <3>1, AfterAddEffect, FieldsAfterAddEffect
        <4>2. NewQueue >= 2 /\ NewQueue \in Nat
          BY NewAreNumbers
        <4> QED BY <4>1, <4>2 DEF Unprocessed, Processed
      <3>2. CASE i \in 2 .. n
        <4>1. i \in 1 .. n
          BY <2>1, <3>2
        <4>2. inputQueue[effectTasks[i]] \notin {Unprocessed, Processed}
          BY <3>2 DEF Wired
        <4> QED BY <1>2, <4>1, <4>2, AfterAddEffect, FieldsAfterAddEffect
      <3> QED BY <2>1, <3>1, <3>2
    <2>7. \A i, j \in 1 .. n + 1 :
            inputQueue'[effectTasks'[i]] = inputQueue'[effectTasks'[j]] => i = j
      <3>1. \A i \in 1 .. n : inputQueue'[effectTasks'[i]] = inputQueue[effectTasks[i]]
        BY <1>2, AfterAddEffect, FieldsAfterAddEffect
      <3>2. inputQueue'[effectTasks'[n + 1]] = NewQueue
        BY <1>2, AfterAddEffect, FieldsAfterAddEffect
      <3>3. \A i \in 1 .. n : inputQueue[effectTasks[i]] # NewQueue
        <4> SUFFICES ASSUME NEW i \in 1 .. n PROVE inputQueue[effectTasks[i]] # NewQueue
          OBVIOUS
        <4>1. effectTasks[i] \in Task /\ inputQueue[effectTasks[i]] < NewQueue
          BY NewIsUnused
        <4>2. inputQueue[effectTasks[i]] \in Queue
          BY <4>1 DEF TypeOK
        <4>3. inputQueue[effectTasks[i]] \in Nat /\ NewQueue \in Nat
          BY <4>2, NewAreNumbers DEF Queue
        <4> QED BY <4>1, <4>3
      <3>4. \A i, j \in 1 .. n : inputQueue[effectTasks[i]] = inputQueue[effectTasks[j]] => i = j
        BY DEF Wired
      <3>5. \A i \in 1 .. n + 1 : i = n + 1 \/ i \in 1 .. n
        BY <2>1
      <3> HIDE DEF n
      <3> QED BY <3>1, <3>2, <3>3, <3>4, <3>5
    <2> HIDE DEF n
    <2>8. n + 1 > 0 /\ (n + 1) - 1 = n
      BY <2>1 DEF n
    <2> QED BY <2>2, <2>3, <2>4, <2>5, <2>6, <2>7, <2>8 DEF Wired
  <1> QED BY <1>1, <1>2 DEF Edit
-----------------------------------------------------------------------------
\* A thread that an edit does not put to work is working only if it was before,
\* and one that the edit does not interrupt keeps its interrupt status.
LEMMA EditReplaces ==
  ASSUME TypeOK, Wired, Numbered, ReplacedThreadsInterrupted, Edit
  PROVE  ReplacedThreadsInterrupted'
  <1> SUFFICES ASSUME NEW th \in Thread, pc'[th] \in Alive, ~interrupted'[th]
               PROVE  th \in Range(effectThreads')
    BY DEF ReplacedThreadsInterrupted
  <1>1. CASE AddFirstEffect \/ ClearEffects
    <2>1. th = NewThread(1)
      <3>1. CASE AddFirstEffect
        <4>1. effectTasks = <<>> /\ interrupted' = interrupted
          BY <3>1 DEF AddFirstEffect
        <4>2. Len(effectThreads) = 0
          BY <4>1, EmptySeq DEF Wired
        <4>3. th \notin Range(effectThreads)
          <5>1. effectThreads \in Seq(Thread)
            BY DEF TypeOK
          <5>2. \A i \in 1 .. Len(effectThreads) : FALSE
            BY <4>2
          <5> QED BY <5>1, <5>2, RangeByIndex
        <4>4. pc[th] \notin Alive
          BY <4>1, <4>3 DEF ReplacedThreadsInterrupted
        <4> QED BY <1>1, <4>4, AfterSingle DEF Launched
      <3>2. CASE ClearEffects
        <4>1. interrupted' = Interrupt(Range(effectThreads))
          BY <3>2 DEF ClearEffects
        <4>2. pc[th] \notin Alive
          BY <4>1 DEF ReplacedThreadsInterrupted, Interrupt
        <4> QED BY <1>1, <4>2, AfterSingle DEF Launched
      <3> QED BY <1>1, <3>1, <3>2
    <2>2. effectThreads' \in Seq(Thread) /\ Len(effectThreads') = 1 /\ effectThreads'[1] = NewThread(1)
      BY <1>1, AfterSingle, Singleton
    <2> QED BY <2>1, <2>2, RangeByIndex
  <1>2. CASE AddEffect
    <2> DEFINE n == Len(effectTasks)
    <2>1. /\ n \in Nat /\ n >= 1 /\ Len(effectThreads') = n + 1
          /\ effectThreads'[n] = NewThread(1) /\ effectThreads'[n + 1] = NewThread(2)
      BY <1>2, AfterAddEffect
    <2>2. \E i \in 1 .. n + 1 : effectThreads'[i] = th
      <3>1. CASE th \in {NewThread(1), NewThread(2)}
        BY <2>1, <3>1
      <3>2. CASE th \notin {NewThread(1), NewThread(2)}
        <4>1. /\ interrupted' = Interrupt({effectThreads[n]})
              /\ pc'[th] = pc[th]
          BY <1>2, <3>2 DEF AddEffect, AppendTask, Launched
        <4>2. ~interrupted[th] /\ th # effectThreads[n]
          BY <4>1 DEF Interrupt
        <4>3. th \in Range(effectThreads)
          BY <4>1, <4>2 DEF ReplacedThreadsInterrupted
        <4>4. effectThreads \in Seq(Thread) /\ Len(effectThreads) = n
          BY DEF TypeOK, Wired
        <4>5. PICK i \in 1 .. n : effectThreads[i] = th
          BY <4>3, <4>4, RangeByIndex
        <4>6. i \in 1 .. n - 1
          BY <2>1, <4>2, <4>5
        <4>7. effectThreads'[i] = th
          BY <1>2, <4>5, <4>6, AfterAddEffect
        <4> QED BY <2>1, <4>6, <4>7
      <3> QED BY <3>1, <3>2
    <2>3. effectThreads' \in Seq(Thread)
      BY EditType DEF TypeOK
    <2> QED BY <2>1, <2>2, <2>3, RangeByIndex
  <1> QED BY <1>1, <1>2 DEF Edit

\* The calls that are no edits, and the threads, change neither the list of
\* effects nor the wiring; a thread comes to life only by start().
LEMMA OtherStepsKeepOwnership ==
  ASSUME TypeOK, Ownership,
         Start \/ Stop \/ Frames \/ \E th \in Thread : Run(th) \/ ApplyThrows(th)
  PROVE  Ownership'
  <1>1. UNCHANGED <<effectTasks, effectThreads, inputQueue, outputQueue, taskOf, created>>
    BY DEF Start, Startable, Stop, Frames, AddFrame, GetFrame, Run, ReadInput, Take, LeaveLoop,
           Apply, DropFrame, ReadOutput, Offer, ApplyThrows, pipelineVars
  <1>2. Wired'
    BY <1>1 DEF Ownership, Wired
  <1>3. \A th \in Thread : pc'[th] # "none" => pc[th] # "none"
    BY DEF Start, Startable, Stop, Frames, AddFrame, GetFrame, Run, ReadInput, Take, LeaveLoop,
           Apply, DropFrame, ReadOutput, Offer, ApplyThrows, TypeOK
  <1>4. Numbered'
    BY <1>1, <1>3 DEF Ownership, Numbered
  <1>5. ReplacedThreadsInterrupted'
    <2> SUFFICES ASSUME NEW th \in Thread, pc'[th] \in Alive, ~interrupted'[th]
                 PROVE  th \in Range(effectThreads)
      BY <1>1 DEF ReplacedThreadsInterrupted
    <2>1. th \in Range(effectThreads) \/ (pc[th] \in Alive /\ ~interrupted[th])
      <3>1. CASE Start
        BY <3>1 DEF Start, Startable
      <3>2. CASE Stop
        BY <3>2 DEF Stop, Interrupt
      <3>3. CASE Frames
        BY <3>3 DEF Frames, AddFrame, GetFrame
      <3>4. ASSUME NEW other \in Thread, Run(other) \/ ApplyThrows(other)
            PROVE  pc[th] \in Alive /\ ~interrupted[th]
        BY <3>4 DEF Run, ReadInput, Take, LeaveLoop, Apply, DropFrame, ReadOutput, Offer,
                    ApplyThrows, TypeOK, Alive, Busy
      <3> QED BY <3>1, <3>2, <3>3, <3>4
    <2> QED BY <2>1 DEF Ownership, ReplacedThreadsInterrupted
  <1> QED BY <1>2, <1>4, <1>5 DEF Ownership

\* A constructed pipeline is wired and none of its threads works yet.
LEMMA InitOwnership == Init => Ownership
  <1> SUFFICES ASSUME Init PROVE Ownership
    OBVIOUS
  <1>1. Numbered
    BY InitNumbered
  <1>2. /\ Len(effectTasks) = InitialEffects /\ Len(effectThreads) = InitialEffects
        /\ \A i \in 1 .. InitialEffects : /\ effectTasks[i] = i /\ effectThreads[i] = i
                                          /\ i \in Task /\ i \in Thread
    BY BoundsAssumption DEF Init, Task, Thread
  <1>3. /\ inputQueue = [t \in Task |-> IF t \in 2 .. InitialEffects THEN t ELSE Unprocessed]
        /\ outputQueue = [t \in Task |-> IF t < InitialEffects THEN t + 1 ELSE Processed]
        /\ taskOf = [th \in Thread |-> IF th <= InitialEffects THEN th ELSE 0]
        /\ pc = [th \in Thread |-> IF th <= InitialEffects THEN "new" ELSE "none"]
    BY DEF Init
  <1>4. Wired
    <2>1. InitialEffects \in Nat
      BY BoundsAssumption
    <2>2. \A i \in 1 .. InitialEffects :
            /\ inputQueue[effectTasks[i]] = IF i = 1 THEN 0 ELSE i
            /\ outputQueue[effectTasks[i]] = IF i = InitialEffects THEN 1 ELSE i + 1
            /\ taskOf[effectThreads[i]] = i
      BY <1>2, <1>3, <2>1 DEF Unprocessed, Processed
    <2> QED BY <1>2, <2>1, <2>2 DEF Wired, Unprocessed, Processed
  <1>5. ReplacedThreadsInterrupted
    BY <1>3 DEF ReplacedThreadsInterrupted, Alive, Busy
  <1> QED BY <1>1, <1>4, <1>5 DEF Ownership

\* Every step keeps types, wiring and threads together.
LEMMA StepKeepsOwnership ==
  ASSUME TypeOK, Ownership, [Next]_vars
  PROVE  TypeOK' /\ Ownership'
  <1>1. Numbered /\ Wired /\ ReplacedThreadsInterrupted
    BY DEF Ownership
  <1>2. CASE Edit
    BY <1>1, <1>2, EditType, EditNumbered, EditWired, EditReplaces DEF Ownership
  <1>3. CASE Start \/ Stop \/ Frames
    BY <1>3, CallType, OtherStepsKeepOwnership
  <1>4. CASE \E th \in Thread : Run(th) \/ ApplyThrows(th)
    BY <1>1, <1>4, ThreadType, OtherStepsKeepOwnership
  <1>5. CASE UNCHANGED vars
    BY <1>5 DEF vars, pipelineVars, TypeOK, Ownership, Numbered, Wired,
                ReplacedThreadsInterrupted
  <1> QED BY <1>2, <1>3, <1>4, <1>5 DEF Next

\* The inductive invariant holds in every state of every behaviour.
THEOREM OwnershipInvariant == Spec => [](TypeOK /\ Ownership)
  <1>1. Init => TypeOK /\ Ownership
    BY InitType, InitOwnership
  <1>2. (TypeOK /\ Ownership) /\ [Next]_vars => (TypeOK /\ Ownership)'
    BY StepKeepsOwnership
  <1> QED BY <1>1, <1>2, PTL DEF Spec

\* Every variable keeps its type.
THEOREM TypeCorrect == Spec => []TypeOK
  BY OwnershipInvariant, PTL

\* However effects are appended and cleared, the pipeline is one chain of
\* queues from unprocessed to processed (Pipeline.addEffect, clearEffects).
THEOREM ChainWired == Spec => []Wired
  <1>1. TypeOK /\ Ownership => Wired
    BY DEF Ownership
  <1> QED BY <1>1, OwnershipInvariant, PTL

\* No thread that an edit has replaced goes on working unasked: it has been
\* interrupted (the calls of interrupt() in Pipeline.addEffect and stop()).
THEOREM ReplacedEnd == Spec => []ReplacedThreadsInterrupted
  <1>1. TypeOK /\ Ownership => ReplacedThreadsInterrupted
    BY DEF Ownership
  <1> QED BY <1>1, OwnershipInvariant, PTL
-----------------------------------------------------------------------------
\* Frames are numbered as they are offered, none is number 0, and a thread
\* between take() and offer() holds one.
FramesNumbered ==
  /\ \A q \in Queue : \A i \in 1 .. Len(queue[q]) : queue[q][i].id \in 1 .. count.frames
  /\ \A th \in Thread : hand[th].id <= count.frames
  /\ \A th \in Thread : pc[th] \in Busy => hand[th].id # 0

\* An element of a queue is a frame, and so is what a thread holds.
LEMMA FrameIds ==
  ASSUME TypeOK
  PROVE  /\ \A q \in Queue : /\ queue[q] \in Seq(Frame) /\ Len(queue[q]) \in Nat
                             /\ \A i \in 1 .. Len(queue[q]) : queue[q][i].id \in Nat
         /\ \A th \in Thread : hand[th].id \in Nat
  <1>1. \A q \in Queue : queue[q] \in Seq(Frame)
    BY DEF TypeOK
  <1>2. \A q \in Queue : \A i \in 1 .. Len(queue[q]) : queue[q][i] \in Frame
    BY <1>1, ElementOfSeq
  <1>3. \A q \in Queue : Len(queue[q]) \in Nat
    BY <1>1, LenProperties
  <1> QED BY <1>1, <1>2, <1>3 DEF TypeOK, Frame

\* Frames only leave queues at the head: what is left was there before, at
\* different places.
LEMMA FramesLeave ==
  ASSUME TypeOK, QueuedOnce, NEW d \in Nat, NEW r \in Queue,
         \A q \in Queue : Len(queue'[q]) \in Nat,
         \A q \in Queue \ {r} : queue'[q] = queue[q] \/ Len(queue'[q]) = 0,
         Len(queue'[r]) + d <= Len(queue[r]),
         \A i \in 1 .. Len(queue'[r]) : queue'[r][i] = queue[r][i + d]
  PROVE  /\ QueuedOnce'
         /\ \A q \in Queue : \A i \in 1 .. Len(queue'[q]) :
              \E j \in 1 .. Len(queue[q]) : queue'[q][i] = queue[q][j]
  <1> DEFINE old(q, i) == IF q = r THEN i + d ELSE i
  <1>1. ASSUME NEW q \in Queue, NEW i \in 1 .. Len(queue'[q])
        PROVE  old(q, i) \in 1 .. Len(queue[q]) /\ queue'[q][i] = queue[q][old(q, i)]
    <2>1. Len(queue[q]) \in Nat /\ Len(queue'[q]) \in Nat
      BY FrameIds
    <2>2. CASE q = r
      BY <2>1, <2>2
    <2>3. CASE q # r
      <3>1. queue'[q] = queue[q]
        BY <2>1, <2>3
      <3> QED BY <2>3, <3>1
    <2> QED BY <2>2, <2>3
  <1>2. QueuedOnce'
    <2> SUFFICES ASSUME NEW p \in Queue, NEW q \in Queue,
                        NEW i \in 1 .. Len(queue'[p]), NEW j \in 1 .. Len(queue'[q]),
                        queue'[p][i].id = queue'[q][j].id
                 PROVE  p = q /\ i = j
      BY DEF QueuedOnce
    <2> HIDE DEF old
    <2>1. old(p, i) \in 1 .. Len(queue[p]) /\ queue'[p][i] = queue[p][old(p, i)]
      BY <1>1
    <2>2. old(q, j) \in 1 .. Len(queue[q]) /\ queue'[q][j] = queue[q][old(q, j)]
      BY <1>1
    <2>3. queue[p][old(p, i)].id = queue[q][old(q, j)].id
      BY <2>1, <2>2
    <2>4. p = q /\ old(p, i) = old(q, j)
      BY <2>1, <2>2, <2>3 DEF QueuedOnce
    <2>5. Len(queue'[p]) \in Nat
      OBVIOUS
    <2> QED BY <2>4, <2>5 DEF old
  <1> QED BY <1>1, <1>2

\* A frame that lies in no queue is offered to one.
LEMMA FrameEnters ==
  ASSUME TypeOK, QueuedOnce, NEW r \in Queue, NEW f \in Frame,
         \A q \in Queue : \A i \in 1 .. Len(queue[q]) : queue[q][i].id # f.id,
         queue' = Offered(r, f)
  PROVE  /\ QueuedOnce'
         /\ \A q \in Queue : \A i \in 1 .. Len(queue'[q]) :
              \/ queue'[q][i] = f
              \/ \E j \in 1 .. Len(queue[q]) : queue'[q][i] = queue[q][j]
  <1>1. CASE queue' = queue
    BY <1>1 DEF QueuedOnce
  <1>2. CASE queue' = [queue EXCEPT ![r] = Append(@, f)]
    <2> DEFINE last(q, i) == q = r /\ i = Len(queue[r]) + 1
    <2>1. /\ Len(queue'[r]) = Len(queue[r]) + 1
          /\ \A i \in 1 .. Len(queue[r]) + 1 :
               queue'[r][i] = IF i = Len(queue[r]) + 1 THEN f ELSE queue[r][i]
          /\ \A q \in Queue \ {r} : queue'[q] = queue[q]
      <3>1. queue[r] \in Seq(Frame)
        BY DEF TypeOK
      <3>2. /\ Len(Append(queue[r], f)) = Len(queue[r]) + 1
            /\ \A i \in 1 .. Len(queue[r]) + 1 :
                 Append(queue[r], f)[i] = IF i = Len(queue[r]) + 1 THEN f ELSE queue[r][i]
        BY <3>1, Appended
      <3>3. queue'[r] = Append(queue[r], f) /\ \A q \in Queue \ {r} : queue'[q] = queue[q]
        BY <1>2 DEF TypeOK
      <3> QED BY <3>2, <3>3
    <2>2. ASSUME NEW q \in Queue, NEW i \in 1 .. Len(queue'[q])
          PROVE  \/ last(q, i) /\ queue'[q][i] = f
                 \/ i \in 1 .. Len(queue[q]) /\ queue'[q][i] = queue[q][i]
      <3>1. Len(queue[r]) \in Nat
        BY FrameIds
      <3>2. CASE q = r
        BY <2>1, <3>1, <3>2
      <3>3. CASE q # r
        BY <2>1, <3>3
      <3> QED BY <3>2, <3>3
    <2>3. QueuedOnce'
      <3> SUFFICES ASSUME NEW p \in Queue, NEW q \in Queue,
                          NEW i \in 1 .. Len(queue'[p]), NEW j \in 1 .. Len(queue'[q]),
                          queue'[p][i].id = queue'[q][j].id
                   PROVE  p = q /\ i = j
        BY DEF QueuedOnce
      <3>1. \/ last(p, i) /\ queue'[p][i] = f
            \/ i \in 1 .. Len(queue[p]) /\ queue'[p][i] = queue[p][i]
        BY <2>2
      <3>2. \/ last(q, j) /\ queue'[q][j] = f
            \/ j \in 1 .. Len(queue[q]) /\ queue'[q][j] = queue[q][j]
        BY <2>2
      <3>3. CASE queue'[p][i] = f
        <4>1. queue'[q][j].id = f.id
          BY <3>3
        <4>2. last(q, j)
          BY <3>2, <4>1
        <4>3. last(p, i)
          BY <3>1, <3>3
        <4> QED BY <4>2, <4>3
      <3>4. CASE queue'[q][j] = f
        <4>1. queue'[p][i].id = f.id
          BY <3>4
        <4>2. last(p, i)
          BY <3>1, <4>1
        <4>3. last(q, j)
          BY <3>2, <3>4
        <4> QED BY <4>2, <4>3
      <3>5. CASE queue'[p][i] # f /\ queue'[q][j] # f
        <4>1. i \in 1 .. Len(queue[p]) /\ j \in 1 .. Len(queue[q])
          BY <3>1, <3>2, <3>5
        <4>2. queue[p][i].id = queue[q][j].id
          BY <3>1, <3>2, <3>5
        <4> QED BY <4>1, <4>2 DEF QueuedOnce
      <3> QED BY <3>3, <3>4, <3>5
    <2> HIDE DEF last
    <2> QED BY <2>2, <2>3
  <1> QED BY <1>1, <1>2 DEF Offered

\* What take() and getFrame leave in a queue they take the head of.
LEMMA HeadTaken ==
  ASSUME TypeOK, NEW r \in Queue, queue[r] # <<>>,
         queue' = [queue EXCEPT ![r] = Tail(@)]
  PROVE  /\ \A q \in Queue : Len(queue'[q]) \in Nat
         /\ \A q \in Queue \ {r} : queue'[q] = queue[q]
         /\ Len(queue'[r]) + 1 <= Len(queue[r])
         /\ \A i \in 1 .. Len(queue'[r]) : queue'[r][i] = queue[r][i + 1]
         /\ Len(queue[r]) >= 1 /\ Head(queue[r]) = queue[r][1]
  <1>1. queue[r] \in Seq(Frame) /\ queue'[r] = Tail(queue[r])
    BY DEF TypeOK
  <1>2. /\ Tail(queue[r]) \in Seq(Frame) /\ Len(Tail(queue[r])) = Len(queue[r]) - 1
        /\ \A i \in 1 .. Len(Tail(queue[r])) : Tail(queue[r])[i] = queue[r][i + 1]
        /\ Head(queue[r]) = queue[r][1]
    BY <1>1, HeadTailProperties
  <1>3. Len(queue[r]) \in Nat /\ Len(queue[r]) # 0
    BY <1>1, EmptySeq, LenProperties
  <1>4. \A q \in Queue \ {r} : queue'[q] = queue[q]
    BY DEF TypeOK
  <1>5. \A q \in Queue : Len(queue'[q]) \in Nat
    <2>1. \A q \in Queue \ {r} : Len(queue'[q]) \in Nat
      BY <1>4, FrameIds
    <2>2. Len(queue'[r]) \in Nat
      BY <1>1, <1>2, LenProperties
    <2> QED BY <2>1, <2>2
  <1>6. Len(queue'[r]) + 1 <= Len(queue[r]) /\ Len(queue[r]) >= 1
    <2>1. Len(queue'[r]) = Len(queue[r]) - 1
      BY <1>1, <1>2
    <2> QED BY <1>3, <2>1
  <1>7. \A i \in 1 .. Len(queue'[r]) : queue'[r][i] = queue[r][i + 1]
    BY <1>1, <1>2
  <1> QED BY <1>2, <1>4, <1>5, <1>6, <1>7

\* The calls of the owner: what they do to frames.
LEMMA CallOwners ==
  ASSUME TypeOK, FramesNumbered, OneOwner, Edit \/ Start \/ Stop \/ Frames
  PROVE  FramesNumbered' /\ OneOwner'
  <1>1. CASE Edit \/ Start
    <2>1. UNCHANGED <<queue, hand, count>>
      BY <1>1 DEF Edit, AddFirstEffect, AddEffect, AppendTask, ClearEffects, Start
    <2>2. \A th \in Thread : pc'[th] \in Busy => pc[th] \in Busy
      BY <1>1 DEF Edit, AddFirstEffect, AddEffect, AppendTask, ClearEffects, Start, Startable,
                  Launched, Busy
    <2> QED BY <2>1, <2>2 DEF FramesNumbered, OneOwner, QueuedOnce, HeldNotQueued, HeldOnce
  <1>2. CASE Stop \/ GetFrame
    <2>1. /\ QueuedOnce'
          /\ \A q \in Queue : \A i \in 1 .. Len(queue'[q]) :
               \E j \in 1 .. Len(queue[q]) : queue'[q][i] = queue[q][j]
      <3>1. CASE GetFrame
        <4>1. queue[Processed] # <<>> /\ queue' = [queue EXCEPT ![Processed] = Tail(@)]
          BY <3>1 DEF GetFrame
        <4>2. Processed \in Queue /\ 1 \in Nat
          BY EndQueues
        <4> HIDE DEF Processed
        <4>3. /\ \A q \in Queue : Len(queue'[q]) \in Nat
              /\ \A q \in Queue \ {Processed} : queue'[q] = queue[q]
              /\ Len(queue'[Processed]) + 1 <= Len(queue[Processed])
              /\ \A i \in 1 .. Len(queue'[Processed]) :
                   queue'[Processed][i] = queue[Processed][i + 1]
          BY <4>1, <4>2, HeadTaken
        <4> QED BY <4>2, <4>3, FramesLeave DEF OneOwner
      <3>2. CASE Stop
        <4>1. /\ \A q \in {Unprocessed, Processed} : queue'[q] = <<>>
              /\ \A q \in Queue \ {Unprocessed, Processed} : queue'[q] = queue[q]
          BY <3>2, EndQueues DEF Stop, TypeOK
        <4>2. /\ Len(queue'[Unprocessed]) = 0
              /\ \A q \in Queue \ {Unprocessed} : queue'[q] = queue[q] \/ Len(queue'[q]) = 0
          BY <4>1, EmptySeq
        <4>3. \A q \in Queue : Len(queue'[q]) \in Nat
          BY <4>2, FrameIds
        <4>4. Len(queue'[Unprocessed]) + 0 <= Len(queue[Unprocessed])
          BY <4>2, EndQueues, FrameIds
        <4>5. \A i \in 1 .. Len(queue'[Unprocessed]) :
                queue'[Unprocessed][i] = queue[Unprocessed][i + 0]
          BY <4>2
        <4>6. 0 \in Nat /\ Unprocessed \in Queue
          BY EndQueues
        <4> HIDE DEF Unprocessed, Processed
        <4> QED BY <4>2, <4>3, <4>4, <4>5, <4>6, FramesLeave DEF OneOwner
      <3> QED BY <1>2, <3>1, <3>2
    <2>2. /\ hand' = hand /\ pc' = pc /\ count'.frames = count.frames
      BY <1>2 DEF Stop, GetFrame, TypeOK
    <2>3. HeldNotQueued' /\ HeldOnce'
      BY <2>1, <2>2 DEF OneOwner, HeldNotQueued, HeldOnce
    <2>4. FramesNumbered'
      BY <2>1, <2>2 DEF FramesNumbered
    <2> QED BY <2>1, <2>3, <2>4 DEF OneOwner
  <1>3. CASE AddFrame
    <2> DEFINE f == [id |-> count.frames + 1, born |-> Len(history), applied |-> <<>>]
    <2>1. f \in Frame /\ f.id = count.frames + 1
      BY EmptySeq, LenProperties, CountersAreNumbers DEF Frame, TypeOK
    <2>2. queue' = Offered(Unprocessed, f) /\ hand' = hand /\ pc' = pc
      BY <1>3 DEF AddFrame
    <2>3. count'.frames = count.frames + 1 /\ count.frames \in Nat
      BY <1>3, CountersAreNumbers DEF AddFrame, TypeOK
    <2> HIDE DEF f
    <2>4. \A q \in Queue : \A i \in 1 .. Len(queue[q]) : queue[q][i].id # f.id
      BY <2>1, <2>3 DEF FramesNumbered
    <2>5. /\ QueuedOnce'
          /\ \A q \in Queue : \A i \in 1 .. Len(queue'[q]) :
               \/ queue'[q][i] = f
               \/ \E j \in 1 .. Len(queue[q]) : queue'[q][i] = queue[q][j]
      BY <2>1, <2>2, <2>4, EndQueues, FrameEnters DEF OneOwner
    <2>6. \A th \in Thread : hand[th].id \in Nat /\ hand[th].id <= count.frames
      BY FrameIds DEF FramesNumbered
    <2>7. \A th \in Thread : hand[th].id # f.id /\ hand[th].id <= count.frames + 1
      BY <2>1, <2>3, <2>6
    <2>8. HeldNotQueued' /\ HeldOnce'
      BY <2>2, <2>5, <2>7 DEF OneOwner, HeldNotQueued, HeldOnce
    <2>9. \A q \in Queue : \A i \in 1 .. Len(queue'[q]) :
            queue'[q][i].id \in 1 .. count.frames + 1
      <3> SUFFICES ASSUME NEW q \in Queue, NEW i \in 1 .. Len(queue'[q])
                   PROVE  queue'[q][i].id \in 1 .. count.frames + 1
        OBVIOUS
      <3>1. CASE queue'[q][i] = f
        BY <2>1, <2>3, <3>1
      <3>2. ASSUME NEW j \in 1 .. Len(queue[q]), queue'[q][i] = queue[q][j]
            PROVE  queue'[q][i].id \in 1 .. count.frames + 1
        <4>1. queue[q][j].id \in 1 .. count.frames
          BY DEF FramesNumbered
        <4> QED BY <2>3, <3>2, <4>1
      <3> QED BY <2>5, <3>1, <3>2
    <2>10. FramesNumbered'
      BY <2>2, <2>3, <2>7, <2>9 DEF FramesNumbered
    <2> QED BY <2>5, <2>8, <2>10 DEF OneOwner
  <1> QED BY <1>1, <1>2, <1>3 DEF Frames

\* The steps of a thread: what they do to frames.
LEMMA ThreadOwners ==
  ASSUME TypeOK, FramesNumbered, OneOwner, NEW th \in Thread, Run(th) \/ ApplyThrows(th)
  PROVE  FramesNumbered' /\ OneOwner'
  <1>1. CASE ReadInput(th) \/ LeaveLoop(th) \/ ReadOutput(th)
    <2>1. UNCHANGED <<queue, hand, count>>
      BY <1>1 DEF ReadInput, LeaveLoop, ReadOutput
    <2>2. \A other \in Thread : pc'[other] \in Busy => pc[other] \in Busy
      BY <1>1 DEF ReadInput, LeaveLoop, ReadOutput, Busy, TypeOK
    <2> QED BY <2>1, <2>2 DEF FramesNumbered, OneOwner, QueuedOnce, HeldNotQueued, HeldOnce
  <1>2. CASE Apply(th) \/ DropFrame(th) \/ ApplyThrows(th)
    <2>1. queue' = queue /\ count'.frames = count.frames
      BY <1>2 DEF Apply, DropFrame, ApplyThrows, TypeOK
    <2>2. \A other \in Thread : \/ hand'[other].id = hand[other].id
                                \/ hand'[other].id = 0 /\ pc'[other] \notin Busy
      <3>1. hand \in [Thread -> Frame] /\ pc \in [Thread -> State]
        BY DEF TypeOK
      <3>2. CASE Apply(th)
        BY <3>1, <3>2 DEF Apply, Frame
      <3>3. CASE DropFrame(th) \/ ApplyThrows(th)
        BY <3>1, <3>3 DEF DropFrame, ApplyThrows, NoFrame, Busy
      <3> QED BY <1>2, <3>2, <3>3
    <2>3. \A other \in Thread : pc'[other] \in Busy => pc[other] \in Busy
      BY <1>2 DEF Apply, DropFrame, ApplyThrows, TypeOK, Busy
    <2>4. \A q \in Queue : \A i \in 1 .. Len(queue[q]) : queue[q][i].id # 0
      BY CountersAreNumbers DEF FramesNumbered
    <2>5. HeldNotQueued'
      BY <2>1, <2>2, <2>4 DEF OneOwner, HeldNotQueued
    <2>6. HeldOnce'
      BY <2>2 DEF OneOwner, HeldOnce
    <2>7. FramesNumbered'
      BY <2>1, <2>2, <2>3, CountersAreNumbers DEF FramesNumbered
    <2> QED BY <2>1, <2>5, <2>6, <2>7 DEF OneOwner, QueuedOnce
  <1>3. CASE Take(th)
    <2> DEFINE r == ref[th]
               f == Head(queue[r])
    <2>1. r \in Queue /\ queue[r] # <<>> /\ queue' = [queue EXCEPT ![r] = Tail(@)]
      BY <1>3 DEF Take, TypeOK
    <2>2. /\ hand' = [hand EXCEPT ![th] = f] /\ count' = count
          /\ pc' = [pc EXCEPT ![th] = "apply"]
      BY <1>3 DEF Take
    <2> HIDE DEF r, f
    <2>3. /\ \A q \in Queue : Len(queue'[q]) \in Nat
          /\ \A q \in Queue \ {r} : queue'[q] = queue[q]
          /\ Len(queue'[r]) + 1 <= Len(queue[r])
          /\ \A i \in 1 .. Len(queue'[r]) : queue'[r][i] = queue[r][i + 1]
          /\ Len(queue[r]) >= 1 /\ f = queue[r][1]
      BY <2>1, HeadTaken DEF f
    <2>4. /\ QueuedOnce'
          /\ \A q \in Queue : \A i \in 1 .. Len(queue'[q]) :
               \E j \in 1 .. Len(queue[q]) : queue'[q][i] = queue[q][j]
      BY <2>1, <2>3, FramesLeave DEF OneOwner
    <2>5. 1 \in 1 .. Len(queue[r])
      BY <2>1, <2>3, FrameIds
    <2>6. f.id \in 1 .. count.frames /\ f.id # 0
      BY <2>1, <2>3, <2>5, CountersAreNumbers DEF FramesNumbered
    <2>7. \A other \in Thread : hand[other].id # f.id
      BY <2>1, <2>3, <2>5 DEF OneOwner, HeldNotQueued
    <2>8. \A q \in Queue : \A i \in 1 .. Len(queue'[q]) : queue'[q][i].id # f.id
      <3> SUFFICES ASSUME NEW q \in Queue, NEW i \in 1 .. Len(queue'[q])
                   PROVE  queue'[q][i].id # f.id
        OBVIOUS
      <3>1. CASE q = r
        <4>1. i + 1 \in 1 .. Len(queue[r]) /\ i + 1 # 1
          BY <2>1, <2>3, <3>1, FrameIds
        <4>2. queue[r][i + 1].id # queue[r][1].id
          BY <2>1, <2>5, <4>1 DEF OneOwner, QueuedOnce
        <4> QED BY <2>3, <3>1, <4>2
      <3>2. CASE q # r
        <4>1. queue'[q] = queue[q]
          BY <2>3, <3>2
        <4> QED BY <2>1, <2>3, <2>5, <3>2, <4>1 DEF OneOwner, QueuedOnce
      <3> QED BY <3>1, <3>2
    <2>9. /\ hand'[th] = f
          /\ \A other \in Thread \ {th} : hand'[other] = hand[other] /\ pc'[other] = pc[other]
      BY <2>2 DEF TypeOK
    <2>10. HeldNotQueued'
      BY <2>4, <2>8, <2>9 DEF OneOwner, HeldNotQueued
    <2>11. HeldOnce'
      BY <2>7, <2>9 DEF OneOwner, HeldOnce
    <2>12. FramesNumbered'
      <3>1. \A q \in Queue : \A i \in 1 .. Len(queue'[q]) :
              queue'[q][i].id \in 1 .. count.frames
        BY <2>4 DEF FramesNumbered
      <3>2. \A other \in Thread : hand'[other].id <= count.frames
        BY <2>6, <2>9, CountersAreNumbers DEF FramesNumbered
      <3>3. \A other \in Thread : pc'[other] \in Busy => hand'[other].id # 0
        BY <2>6, <2>9 DEF FramesNumbered
      <3> QED BY <2>2, <3>1, <3>2, <3>3 DEF FramesNumbered
    <2> QED BY <2>4, <2>10, <2>11, <2>12 DEF OneOwner
  <1>4. CASE Offer(th)
    <2> DEFINE f == hand[th]
    <2>1. /\ ref[th] \in Queue /\ f \in Frame
          /\ queue' = Offered(ref[th], f) /\ count' = count
          /\ hand' = [hand EXCEPT ![th] = NoFrame] /\ pc' = [pc EXCEPT ![th] = "loop"]
      BY <1>4 DEF Offer, TypeOK
    <2>2. f.id # 0
      BY <1>4 DEF Offer, FramesNumbered, Busy
    <2>3. \A q \in Queue : \A i \in 1 .. Len(queue[q]) : queue[q][i].id # f.id
      BY DEF OneOwner, HeldNotQueued
    <2>4. f.id \in 1 .. count.frames
      BY <2>2, FrameIds, CountersAreNumbers DEF FramesNumbered
    <2>5. \A other \in Thread \ {th} : hand[other].id # f.id
      BY <2>2 DEF OneOwner, HeldOnce
    <2> HIDE DEF f
    <2>6. /\ QueuedOnce'
          /\ \A q \in Queue : \A i \in 1 .. Len(queue'[q]) :
               \/ queue'[q][i] = f
               \/ \E j \in 1 .. Len(queue[q]) : queue'[q][i] = queue[q][j]
      BY <2>1, <2>3, FrameEnters DEF OneOwner
    <2>7. /\ hand'[th].id = 0 /\ pc'[th] = "loop"
          /\ \A other \in Thread \ {th} : hand'[other] = hand[other] /\ pc'[other] = pc[other]
      BY <2>1 DEF TypeOK, NoFrame
    <2>8. \A q \in Queue : \A i \in 1 .. Len(queue'[q]) : queue'[q][i].id \in 1 .. count.frames
      BY <2>4, <2>6 DEF FramesNumbered
    <2>9. \A q \in Queue : \A i \in 1 .. Len(queue'[q]) : queue'[q][i].id # 0
      BY <2>8, CountersAreNumbers
    <2>10. HeldNotQueued'
      BY <2>5, <2>6, <2>7, <2>9 DEF OneOwner, HeldNotQueued
    <2>11. HeldOnce'
      BY <2>7 DEF OneOwner, HeldOnce
    <2>12. FramesNumbered'
      BY <2>1, <2>7, <2>8, CountersAreNumbers DEF FramesNumbered, Busy
    <2> QED BY <2>6, <2>10, <2>11, <2>12 DEF OneOwner
  <1> QED BY <1>1, <1>2, <1>3, <1>4 DEF Run

\* Frames keep their numbers and owners in every state of every behaviour.
THEOREM NumberedInvariant == Spec => [](FramesNumbered /\ OneOwner)
  <1>1. Init => FramesNumbered /\ OneOwner
    BY EmptySeq DEF Init, FramesNumbered, OneOwner, QueuedOnce, HeldNotQueued, HeldOnce,
                    NoFrame, Busy
  <1>2. TypeOK /\ (FramesNumbered /\ OneOwner) /\ [Next]_vars => (FramesNumbered /\ OneOwner)'
    <2> SUFFICES ASSUME TypeOK, FramesNumbered, OneOwner, [Next]_vars
                 PROVE  FramesNumbered' /\ OneOwner'
      OBVIOUS
    <2>1. CASE Edit \/ Start \/ Stop \/ Frames
      BY <2>1, CallOwners
    <2>2. CASE \E th \in Thread : Run(th) \/ ApplyThrows(th)
      BY <2>2, ThreadOwners
    <2>3. CASE UNCHANGED vars
      BY <2>3 DEF vars, FramesNumbered, OneOwner, QueuedOnce, HeldNotQueued, HeldOnce
    <2> QED BY <2>1, <2>2, <2>3 DEF Next
  <1> QED BY <1>1, <1>2, TypeCorrect, PTL DEF Spec

\* No Mat ever has two owners (queues that hand a frame over by take and offer,
\* threads that drop it when they end).
THEOREM FramesHaveOneOwner == Spec => []OneOwner
  <1>1. FramesNumbered /\ OneOwner => OneOwner
    OBVIOUS
  <1> QED BY <1>1, NumberedInvariant, PTL
=============================================================================
