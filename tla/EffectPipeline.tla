--------------------------- MODULE EffectPipeline ---------------------------
(***************************************************************************)
(* The effect pipeline: one thread per effect, each taking frames from the *)
(* queue before its effect and offering them to the queue after it, while  *)
(* the owner of the pipeline appends effects, clears them, starts it and   *)
(* stops it.  Pipeline.java, LocalEffectTask.java and EffectTask.java, with *)
(* the FrameProcessor of the server tree as the owner of the two end       *)
(* queues.  The operations that address an effect by its index are in      *)
(* PipelineEditing, which extends this module.                             *)
(*                                                                         *)
(* Every call of an edit is one step: the fields it writes are read by an  *)
(* effect thread only when the thread passes ReadInput or ReadOutput, and  *)
(* these are steps of their own.  Tasks, threads and queues are numbered   *)
(* in the order they are created.                                          *)
(***************************************************************************)
EXTENDS Integers, Sequences, Functions

CONSTANTS
  InitialEffects, \* effects given to the constructor
  StageCap,       \* capacity of a queue between two effects (2 in the code)
  EndCap,         \* capacity of the two end queues (2 client, 20 server)
  MaxTasks,       \* bound: effect tasks ever created
  MaxThreads,     \* bound: threads ever created
  MaxQueues,      \* bound: number of the last queue ever created
  MaxFrames,      \* bound: frames ever offered
  MaxStops,       \* bound: calls of stop()
  MaxFaults       \* bound: effects that throw out of applyTo

ASSUME BoundsAssumption ==
  /\ InitialEffects \in Nat /\ MaxFrames \in Nat
  /\ MaxTasks \in Nat /\ MaxThreads \in Nat /\ MaxQueues \in Nat
  /\ MaxStops \in Nat /\ MaxFaults \in Nat
  /\ InitialEffects <= MaxTasks /\ InitialEffects <= MaxThreads
  /\ InitialEffects <= MaxQueues /\ 1 <= MaxQueues
  /\ StageCap \in Nat /\ EndCap \in Nat

VARIABLES
  running,       \* Pipeline.running
  effectTasks,   \* Pipeline.effectTasks, a sequence of tasks
  effectThreads, \* Pipeline.effectThreads, a sequence of threads
  inputQueue,    \* EffectTask.inputQueue of each task
  outputQueue,   \* EffectTask.outputQueue of each task
  queue,         \* the frames in each LinkedBlockingQueue
  taskOf,        \* the Runnable each thread was created with
  pc,            \* how far each thread has come
  interrupted,   \* the interrupt status of each thread
  ref,           \* the queue a thread has read from its task's field
  hand,          \* the Mat a thread holds
  created,       \* how many tasks, threads and queues exist
  history,       \* ghost: every list of effects there has been
  count          \* ghost: frames offered, calls of stop(), effects that threw

pipelineVars == <<running, effectTasks, effectThreads, inputQueue, outputQueue,
                  taskOf, created, history>>
vars == <<pipelineVars, queue, pc, interrupted, ref, hand, count>>

Unprocessed == 0
Processed == 1
Queue == 0 .. MaxQueues
Task == 1 .. MaxTasks
Thread == 1 .. MaxThreads

\* A Mat.  id 0 is null; born is the number of the list of effects in force
\* when it was offered; applied lists the tasks whose effect it went through.
Frame == [id : Nat, born : Nat, applied : Seq(Task)]
NoFrame == [id |-> 0, born |-> 0, applied |-> <<>>]

\* Points of LocalEffectTask.run(): "none" and "new" before Thread.start().
Busy == {"apply", "applied", "offer"}
Alive == {"loop", "take"} \cup Busy
State == {"none", "new", "done"} \cup Alive

Cap(q) == IF q \in {Unprocessed, Processed} THEN EndCap ELSE StageCap

\* Slips that the runs must notice are written before the definition they
\* distort.  Slip of Offered: the queue is a stack.
OfferedOnTop(q, f) == IF Len(queue[q]) < Cap(q)
                        THEN [queue EXCEPT ![q] = <<f>> \o @]
                        ELSE queue

\* BlockingQueue.offer: a full queue refuses the frame and the caller goes on.
Offered(q, f) == IF Len(queue[q]) < Cap(q)
                   THEN [queue EXCEPT ![q] = Append(@, f)]
                   ELSE queue

\* Slip of Interrupt: only a thread that waits in take() notices.
InterruptWaiting(ths) ==
  [th \in Thread |-> interrupted[th] \/ (th \in ths /\ pc[th] = "take")]

\* Thread.interrupt(): no effect on a thread not started or already ended.
Interrupt(ths) ==
  [th \in Thread |-> interrupted[th] \/ (th \in ths /\ pc[th] \in Alive)]

\* Slip of Launched: the threads of an edit wait for the next start().
LaunchedLater(ths) == [th \in Thread |-> IF th \in ths THEN "new" ELSE pc[th]]

\* Threads created by an edit; started at once when the pipeline is running.
Launched(ths) ==
  [th \in Thread |-> IF th \in ths THEN IF running THEN "loop" ELSE "new"
                                   ELSE pc[th]]

\* Slips of NewQueue: the field stays null; no queue of its own is made.
NoQueue == -1
LastQueue == created.queues

\* The numbers of the next task, queue and threads.
NewTask == created.tasks + 1
NewQueue == created.queues + 1
NewThread(i) == created.threads + i

Room(tasks, threads, queues) ==
  /\ created.tasks + tasks <= MaxTasks
  /\ created.threads + threads <= MaxThreads
  /\ created.queues + queues <= MaxQueues

Create(tasks, threads, queues) ==
  created' = [tasks |-> created.tasks + tasks,
              threads |-> created.threads + threads,
              queues |-> created.queues + queues]
-----------------------------------------------------------------------------
\* The constructor: task i reads queue i (the first reads unprocessed) and
\* writes queue i + 1 (the last writes processed); one thread for each task.
Init ==
  /\ running = FALSE
  /\ effectTasks = [i \in 1 .. InitialEffects |-> i]
  /\ effectThreads = [i \in 1 .. InitialEffects |-> i]
  /\ inputQueue = [t \in Task |-> IF t \in 2 .. InitialEffects THEN t
                                                               ELSE Unprocessed]
  /\ outputQueue = [t \in Task |-> IF t < InitialEffects THEN t + 1 ELSE Processed]
  /\ queue = [q \in Queue |-> <<>>]
  /\ taskOf = [th \in Thread |-> IF th <= InitialEffects THEN th ELSE 0]
  /\ pc = [th \in Thread |-> IF th <= InitialEffects THEN "new" ELSE "none"]
  /\ interrupted = [th \in Thread |-> FALSE]
  /\ ref = [th \in Thread |-> Unprocessed]
  /\ hand = [th \in Thread |-> NoFrame]
  /\ created = [tasks |-> InitialEffects, threads |-> InitialEffects,
                queues |-> IF InitialEffects = 0 THEN 1 ELSE InitialEffects]
  /\ history = <<effectTasks>>
  /\ count = [frames |-> 0, stops |-> 0, faults |-> 0]

\* Slip of Startable: a thread that an edit has replaced starts too.
EveryNewThread == {th \in Thread : pc[th] = "new"}

\* start(): every thread of the pipeline that is still NEW starts; a thread
\* that has ended is not replaced.
Startable == {th \in Range(effectThreads) : pc[th] = "new"}

Start ==
  /\ pc' = [th \in Thread |-> IF th \in Startable THEN "loop" ELSE pc[th]]
  /\ running' = TRUE
  /\ UNCHANGED <<effectTasks, effectThreads, inputQueue, outputQueue, taskOf,
                 created, history, queue, interrupted, ref, hand, count>>

\* FrameProcessor.stop(): Pipeline.stop(), then both end queues are cleared.
Stop ==
  /\ count.stops < MaxStops
  /\ interrupted' = Interrupt(Range(effectThreads))
  /\ running' = FALSE
  /\ queue' = [queue EXCEPT ![Unprocessed] = <<>>, ![Processed] = <<>>]
  /\ count' = [count EXCEPT !.stops = @ + 1]
  /\ UNCHANGED <<effectTasks, effectThreads, inputQueue, outputQueue, taskOf,
                 created, history, pc, ref, hand>>

\* addEffect(effect) when the pipeline has no effect yet.
AddFirstEffect ==
  LET t == NewTask
      th == NewThread(1)
  IN /\ effectTasks = <<>>
     /\ Room(1, 1, 0)
     /\ Create(1, 1, 0)
     /\ effectTasks' = <<t>>
     /\ effectThreads' = <<th>>
     /\ inputQueue' = [inputQueue EXCEPT ![t] = Unprocessed]
     /\ outputQueue' = [outputQueue EXCEPT ![t] = Processed]
     /\ taskOf' = [taskOf EXCEPT ![th] = t]
     /\ pc' = Launched({th})
     /\ history' = Append(history, effectTasks')
     /\ UNCHANGED <<running, queue, interrupted, ref, hand, count>>

\* addEffect(effect) for task t: the last task is rewired to a new queue and
\* gets a new thread, its old thread is interrupted, and t goes behind it.
AppendTask(t) ==
  LET n == Len(effectTasks)
      q == NewQueue
      renewed == NewThread(1)
      fresh == NewThread(2)
  IN /\ effectTasks' = Append(effectTasks, t)
     /\ effectThreads' = Append([effectThreads EXCEPT ![n] = renewed], fresh)
     /\ inputQueue' = [inputQueue EXCEPT ![t] = q]
     /\ outputQueue' = [outputQueue EXCEPT ![effectTasks[n]] = q, ![t] = Processed]
     /\ taskOf' = [taskOf EXCEPT ![renewed] = effectTasks[n], ![fresh] = t]
     /\ interrupted' = Interrupt({effectThreads[n]})
     /\ pc' = Launched({renewed, fresh})
     /\ history' = Append(history, effectTasks')
     /\ UNCHANGED <<running, queue, ref, hand, count>>

AddEffect ==
  /\ effectTasks # <<>>
  /\ Room(1, 2, 1)
  /\ Create(1, 2, 1)
  /\ AppendTask(NewTask)

\* clearEffects() and createThreads(): every thread is interrupted and an
\* IdentityEffect alone takes frames from one end queue to the other.
ClearEffects ==
  LET t == NewTask
      th == NewThread(1)
  IN /\ Room(1, 1, 0)
     /\ Create(1, 1, 0)
     /\ effectTasks' = <<t>>
     /\ effectThreads' = <<th>>
     /\ inputQueue' = [inputQueue EXCEPT ![t] = Unprocessed]
     /\ outputQueue' = [outputQueue EXCEPT ![t] = Processed]
     /\ taskOf' = [taskOf EXCEPT ![th] = t]
     /\ interrupted' = Interrupt(Range(effectThreads))
     /\ pc' = Launched({th})
     /\ history' = Append(history, effectTasks')
     /\ UNCHANGED <<running, queue, ref, hand, count>>
-----------------------------------------------------------------------------
\* FrameProcessor.addFrame: offered to the unprocessed queue, or lost.
AddFrame ==
  LET f == [id |-> count.frames + 1, born |-> Len(history), applied |-> <<>>]
  IN /\ count.frames < MaxFrames
     /\ queue' = Offered(Unprocessed, f)
     /\ count' = [count EXCEPT !.frames = @ + 1]
     /\ UNCHANGED <<pipelineVars, pc, interrupted, ref, hand>>

\* FrameProcessor.getFrame: waits for a processed frame.
GetFrame ==
  /\ queue[Processed] # <<>>
  /\ queue' = [queue EXCEPT ![Processed] = Tail(@)]
  /\ UNCHANGED <<pipelineVars, pc, interrupted, ref, hand, count>>
-----------------------------------------------------------------------------
\* inputQueue.take(): the field is read and take() finds no interrupt pending.
ReadInput(th) ==
  /\ pc[th] = "loop"
  /\ ~interrupted[th]
  /\ ref' = [ref EXCEPT ![th] = inputQueue[taskOf[th]]]
  /\ pc' = [pc EXCEPT ![th] = "take"]
  /\ UNCHANGED <<pipelineVars, queue, interrupted, hand, count>>

\* Slip of Take: peek() leaves the frame in the queue.
Peek(th) ==
  /\ pc[th] = "take"
  /\ queue[ref[th]] # <<>>
  /\ hand' = [hand EXCEPT ![th] = Head(queue[ref[th]])]
  /\ pc' = [pc EXCEPT ![th] = "apply"]
  /\ UNCHANGED <<pipelineVars, queue, interrupted, ref, count>>

\* take() gets the lock and finds a frame.  An interrupt that came since
\* ReadInput does not prevent it.
Take(th) ==
  /\ pc[th] = "take"
  /\ queue[ref[th]] # <<>>
  /\ hand' = [hand EXCEPT ![th] = Head(queue[ref[th]])]
  /\ queue' = [queue EXCEPT ![ref[th]] = Tail(@)]
  /\ pc' = [pc EXCEPT ![th] = "apply"]
  /\ UNCHANGED <<pipelineVars, interrupted, ref, count>>

\* Slip of LeaveLoop: the exception is caught and the loop goes on.
SwallowInterrupt(th) ==
  /\ pc[th] \in {"loop", "take"}
  /\ interrupted[th]
  /\ pc' = [pc EXCEPT ![th] = "loop"]
  /\ interrupted' = [interrupted EXCEPT ![th] = FALSE]
  /\ UNCHANGED <<pipelineVars, queue, ref, hand, count>>

\* take() throws InterruptedException, or the check at the end of the loop
\* finds the interrupt: run() returns.
LeaveLoop(th) ==
  /\ pc[th] \in {"loop", "take"}
  /\ interrupted[th]
  /\ pc' = [pc EXCEPT ![th] = "done"]
  /\ interrupted' = [interrupted EXCEPT ![th] = FALSE]
  /\ UNCHANGED <<pipelineVars, queue, ref, hand, count>>

\* effect.applyTo(frame) returns and no interrupt is pending.
Apply(th) ==
  /\ pc[th] = "apply"
  /\ ~interrupted[th]
  /\ hand' = [hand EXCEPT ![th].applied = Append(@, taskOf[th])]
  /\ pc' = [pc EXCEPT ![th] = "applied"]
  /\ UNCHANGED <<pipelineVars, queue, interrupted, ref, count>>

\* The interrupt is seen after applyTo: run() returns and the frame is lost.
DropFrame(th) ==
  /\ pc[th] = "apply"
  /\ interrupted[th]
  /\ hand' = [hand EXCEPT ![th] = NoFrame]
  /\ pc' = [pc EXCEPT ![th] = "done"]
  /\ interrupted' = [interrupted EXCEPT ![th] = FALSE]
  /\ UNCHANGED <<pipelineVars, queue, ref, count>>

\* Slip of ApplyThrows: the exception is caught and the frame passed on.
PassOnUnapplied(th) ==
  /\ pc[th] = "apply"
  /\ count.faults < MaxFaults
  /\ pc' = [pc EXCEPT ![th] = "applied"]
  /\ count' = [count EXCEPT !.faults = @ + 1]
  /\ UNCHANGED <<pipelineVars, queue, interrupted, ref, hand>>

\* applyTo throws (OpenCV's CvException is unchecked): the thread ends.
ApplyThrows(th) ==
  /\ pc[th] = "apply"
  /\ count.faults < MaxFaults
  /\ hand' = [hand EXCEPT ![th] = NoFrame]
  /\ pc' = [pc EXCEPT ![th] = "done"]
  /\ interrupted' = [interrupted EXCEPT ![th] = FALSE]
  /\ count' = [count EXCEPT !.faults = @ + 1]
  /\ UNCHANGED <<pipelineVars, queue, ref>>

\* The field outputQueue is read; an edit may change it before or after this.
ReadOutput(th) ==
  /\ pc[th] = "applied"
  /\ ref' = [ref EXCEPT ![th] = outputQueue[taskOf[th]]]
  /\ pc' = [pc EXCEPT ![th] = "offer"]
  /\ UNCHANGED <<pipelineVars, queue, interrupted, hand, count>>

\* outputQueue.offer(frame); a refused frame is lost.
Offer(th) ==
  /\ pc[th] = "offer"
  /\ queue' = Offered(ref[th], hand[th])
  /\ hand' = [hand EXCEPT ![th] = NoFrame]
  /\ pc' = [pc EXCEPT ![th] = "loop"]
  /\ UNCHANGED <<pipelineVars, interrupted, ref, count>>

Run(th) == \/ ReadInput(th) \/ Take(th) \/ LeaveLoop(th)
           \/ Apply(th) \/ DropFrame(th) \/ ReadOutput(th) \/ Offer(th)

Frames == AddFrame \/ GetFrame
Edit == AddFirstEffect \/ AddEffect \/ ClearEffects
Next == Start \/ Stop \/ Edit \/ Frames \/ \E th \in Thread : Run(th) \/ ApplyThrows(th)

Spec == Init /\ [][Next]_vars

\* The JVM schedules every thread that can run.
FairSpec == Spec /\ \A th \in Thread : WF_vars(Run(th))
-----------------------------------------------------------------------------
TypeOK ==
  /\ running \in BOOLEAN
  /\ effectTasks \in Seq(Task)
  /\ effectThreads \in Seq(Thread)
  /\ inputQueue \in [Task -> Queue]
  /\ outputQueue \in [Task -> Queue]
  /\ queue \in [Queue -> Seq(Frame)]
  /\ taskOf \in [Thread -> Task \cup {0}]
  /\ pc \in [Thread -> State]
  /\ interrupted \in [Thread -> BOOLEAN]
  /\ ref \in [Thread -> Queue]
  /\ hand \in [Thread -> Frame]
  /\ created \in [tasks : 0 .. MaxTasks, threads : 0 .. MaxThreads,
                  queues : 1 .. MaxQueues]
  /\ history \in Seq(Seq(Task))
  /\ count \in [frames : 0 .. MaxFrames, stops : 0 .. MaxStops, faults : 0 .. MaxFaults]

\* The list of effects and the list of threads stay in step, and the effects
\* form one chain of queues from unprocessed to processed that no queue enters
\* twice (what the constructor, addEffect and clearEffects wire by hand).
Wired ==
  LET n == Len(effectTasks)
  IN /\ Len(effectThreads) = n
     /\ \A i \in 1 .. n : taskOf[effectThreads[i]] = effectTasks[i]
     /\ n > 0 => /\ inputQueue[effectTasks[1]] = Unprocessed
                 /\ outputQueue[effectTasks[n]] = Processed
     /\ \A i \in 1 .. n - 1 : outputQueue[effectTasks[i]] = inputQueue[effectTasks[i + 1]]
     /\ \A i \in 2 .. n : inputQueue[effectTasks[i]] \notin {Unprocessed, Processed}
     /\ \A i, j \in 1 .. n : inputQueue[effectTasks[i]] = inputQueue[effectTasks[j]]
                               => i = j

\* A thread that an edit has replaced has been told to end: every thread still
\* working without a pending interrupt is one of the pipeline's threads, and so
\* no two of them serve the same task (remove, interrupt and new Thread in
\* addEffect; stop() before clear() in createThreads).
ReplacedThreadsInterrupted ==
  \A th \in Thread :
    (pc[th] \in Alive /\ ~interrupted[th]) => th \in Range(effectThreads)

QueuedOnce ==
  \A p, q \in Queue : \A i \in 1 .. Len(queue[p]), j \in 1 .. Len(queue[q]) :
    queue[p][i].id = queue[q][j].id => p = q /\ i = j
HeldNotQueued ==
  \A th \in Thread, q \in Queue : \A i \in 1 .. Len(queue[q]) :
    hand[th].id # queue[q][i].id
HeldOnce ==
  \A th, other \in Thread :
    hand[th].id = hand[other].id => th = other \/ hand[th].id = 0

\* A Mat is changed in place by the effects, so it has one owner: it lies in
\* one place of one queue or in the hands of one thread (take, offer and the
\* early exits of LocalEffectTask.run).
OneOwner == QueuedOnce /\ HeldNotQueued /\ HeldOnce

\* The frames of a queue that were offered since the last edit are in the order
\* in which they were offered: no two threads race on the way (one thread for
\* each task, FIFO queues).  Older frames may be overtaken after an edit.
InOrder ==
  \A q \in Queue : \A i, j \in 1 .. Len(queue[q]) :
    (i < j /\ queue[q][i].born = Len(history) /\ queue[q][j].born = Len(history))
      => queue[q][i].id < queue[q][j].id

\* "processes them by applying a list of effects in order": a processed frame
\* went through exactly the effects of one list that was in force at some time
\* between the call that offered it and now, however edits and threads interleave.
AppliedOneList ==
  \A i \in 1 .. Len(queue[Processed]) :
    \E k \in queue[Processed][i].born .. Len(history) :
      queue[Processed][i].applied = history[k]

\* While the pipeline runs, frames never stay in front of an effect: a queue
\* that an effect reads is emptied again and again until stop() or an edit
\* that takes the queue away (the loop of run() and the calls of start()).
FramesWait(q) == /\ running
                 /\ queue[q] # <<>>
                 /\ \E i \in 1 .. Len(effectTasks) : inputQueue[effectTasks[i]] = q
StagesConsume == \A q \in Queue : FramesWait(q) ~> ~FramesWait(q)

\* "Stops all effect threads", and an edit ends the threads it replaces: an
\* interrupted thread comes to its end instead of waiting for a frame for ever
\* or finishing its loop (the three exits of LocalEffectTask.run).
InterruptedThreadsEnd == \A th \in Thread : interrupted[th] ~> pc[th] = "done"
=============================================================================
