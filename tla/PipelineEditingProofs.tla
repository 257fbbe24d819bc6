------------------------ MODULE PipelineEditingProofs ------------------------
(***************************************************************************)
(* The edits by index keep the chain of queues and hold for the frames     *)
(* that follow, for all bounds and capacities.  The camera loop drives the *)
(* pipeline as EffectPipeline allows, never waits in take(), and does not  *)
(* go back on the screen.                                                  *)
(*                                                                         *)
(* Each edit gives the list of effects a new chain of links.  What it      *)
(* leaves in the fields is first written down place by place; that the     *)
(* chain is whole, and that every thread is either kept with its queue,    *)
(* new, or told to end, then follows for all of them at once.              *)
(***************************************************************************)
EXTENDS PipelineEditing, CameraLoop, PipelineFramesProofs

-----------------------------------------------------------------------------
\* Sequences put together from parts, place by place.
LEMMA PartOf ==
  ASSUME NEW S, NEW s \in Seq(S), NEW m \in Nat, NEW n \in 0 .. Len(s), m >= 1, m <= n + 1
  PROVE  /\ SubSeq(s, m, n) \in Seq(S) /\ Len(SubSeq(s, m, n)) = n + 1 - m
         /\ \A i \in 1 .. n + 1 - m : SubSeq(s, m, n)[i] = s[m + i - 1]
  <1>1. Len(s) \in Nat
    BY LenProperties
  <1>2. \A i \in m .. n : s[i] \in S
    BY <1>1, ElementOfSeq
  <1>3. m \in Int /\ n \in Int
    OBVIOUS
  <1>4. /\ SubSeq(s, m, n) \in Seq(S)
        /\ Len(SubSeq(s, m, n)) = IF m <= n THEN n - m + 1 ELSE 0
        /\ \A i \in 1 .. n - m + 1 : SubSeq(s, m, n)[i] = s[m + i - 1]
    BY <1>2, <1>3, SubSeqProperties
  <1>5. n - m + 1 = n + 1 - m
    BY <1>3
  <1>6. Len(SubSeq(s, m, n)) = n + 1 - m
    BY <1>3, <1>4
  <1> QED BY <1>4, <1>5, <1>6

LEMMA Joined ==
  ASSUME NEW S, NEW u \in Seq(S), NEW w \in Seq(S), NEW v \in Seq(S)
  PROVE  /\ (u \o w) \o v \in Seq(S) /\ Len((u \o w) \o v) = Len(u) + Len(w) + Len(v)
         /\ \A i \in 1 .. Len(u) + Len(w) + Len(v) :
              ((u \o w) \o v)[i] = IF i <= Len(u) THEN u[i]
                                   ELSE IF i <= Len(u) + Len(w) THEN w[i - Len(u)]
                                   ELSE v[i - (Len(u) + Len(w))]
  <1> DEFINE c == Len(u)
             d == Len(w)
             e == Len(v)
             x == u \o w
             r == x \o v
  <1>1. c \in Nat /\ d \in Nat /\ e \in Nat
    BY LenProperties
  <1>2. /\ x \in Seq(S) /\ Len(x) = c + d
        /\ \A i \in 1 .. c + d : x[i] = IF i <= c THEN u[i] ELSE w[i - c]
    BY ConcatProperties
  <1> HIDE DEF x, c, d, e
  <1>3. /\ r \in Seq(S) /\ Len(r) = Len(x) + Len(v)
        /\ \A i \in 1 .. Len(x) + Len(v) : r[i] = IF i <= Len(x) THEN x[i] ELSE v[i - Len(x)]
    BY <1>2, ConcatProperties
  <1>6. Len(v) = e
    BY DEF e
  <1> HIDE DEF r
  <1>4. Len(x) + Len(v) = c + d + e /\ Len(x) = c + d
    BY <1>1, <1>2, <1>6
  <1>5. ASSUME NEW i \in 1 .. c + d + e
        PROVE  r[i] = IF i <= c THEN u[i] ELSE IF i <= c + d THEN w[i - c] ELSE v[i - (c + d)]
    <2>1. r[i] = IF i <= c + d THEN x[i] ELSE v[i - (c + d)]
      BY <1>3, <1>4
    <2>2. i <= c + d => i \in 1 .. c + d
      BY <1>1
    <2>3. i <= c => i <= c + d
      BY <1>1
    <2> QED BY <1>2, <2>1, <2>2, <2>3
  <1> QED BY <1>3, <1>4, <1>5 DEF r, x, c, d, e

-----------------------------------------------------------------------------
\* What Wired and Numbered say of the tasks, the threads and the links.
LEMMA Chain ==
  ASSUME TypeOK, Wired, Numbered
  PROVE  /\ Len(effectTasks) \in Nat /\ Len(effectThreads) = Len(effectTasks)
         /\ \A i \in 1 .. Len(effectTasks) :
              /\ effectTasks[i] \in Task /\ effectTasks[i] <= created.tasks
              /\ effectThreads[i] \in Thread /\ effectThreads[i] <= created.threads
              /\ taskOf[effectThreads[i]] = effectTasks[i]
              /\ inputQueue[effectTasks[i]] = Link(i - 1)
              /\ outputQueue[effectTasks[i]] = Link(i)
         /\ \A i, j \in 1 .. Len(effectTasks) :
              effectTasks[i] = effectTasks[j] \/ effectThreads[i] = effectThreads[j] => i = j
         /\ \A i \in 0 .. Len(effectTasks) : Link(i) \in Queue /\ Link(i) <= created.queues
         /\ Link(0) = Unprocessed
         /\ Len(effectTasks) > 0 => Link(Len(effectTasks)) = Processed
         /\ \A i \in 1 .. Len(effectTasks) - 1 : Link(i) \notin {Unprocessed, Processed}
         /\ \A i, j \in 0 .. Len(effectTasks) - 1 : Link(i) = Link(j) => i = j
  <1> DEFINE n == Len(effectTasks)
  <1>1. /\ effectTasks \in Seq(Task) /\ effectThreads \in Seq(Thread)
        /\ inputQueue \in [Task -> Queue] /\ outputQueue \in [Task -> Queue]
    BY DEF TypeOK
  <1>2. n \in Nat /\ Len(effectThreads) = n
    BY <1>1, LenProperties DEF Wired
  <1>3. /\ \A i \in 1 .. n : taskOf[effectThreads[i]] = effectTasks[i]
        /\ n > 0 => inputQueue[effectTasks[1]] = Unprocessed
        /\ n > 0 => outputQueue[effectTasks[n]] = Processed
        /\ \A i \in 1 .. n - 1 : outputQueue[effectTasks[i]] = inputQueue[effectTasks[i + 1]]
        /\ \A i \in 2 .. n : inputQueue[effectTasks[i]] \notin {Unprocessed, Processed}
        /\ \A i, j \in 1 .. n : inputQueue[effectTasks[i]] = inputQueue[effectTasks[j]] => i = j
    BY DEF Wired
  <1>4. \A i \in 1 .. n : /\ effectTasks[i] \in Task /\ effectTasks[i] <= created.tasks
                          /\ effectThreads[i] \in Thread /\ effectThreads[i] <= created.threads
                          /\ inputQueue[effectTasks[i]] <= created.queues
    BY <1>1, <1>2, ElementOfSeq DEF Numbered
  <1> HIDE DEF n
  <1>5. \A i \in 1 .. n : outputQueue[effectTasks[i]] = Link(i)
    BY <1>2 DEF Link
  <1>6. Link(0) = Unprocessed
    BY DEF Link
  <1>7. \A i \in 1 .. n : inputQueue[effectTasks[i]] = Link(i - 1)
    <2> SUFFICES ASSUME NEW i \in 1 .. n PROVE inputQueue[effectTasks[i]] = Link(i - 1)
      OBVIOUS
    <2>1. CASE i = 1
      BY <1>2, <1>3, <1>6, <2>1
    <2>2. CASE i # 1
      <3>1. i - 1 \in 1 .. n - 1 /\ i - 1 \in 1 .. n /\ (i - 1) + 1 = i
        BY <1>2, <2>2
      <3>2. outputQueue[effectTasks[i - 1]] = inputQueue[effectTasks[i]]
        BY <1>3, <3>1
      <3> QED BY <1>5, <3>1, <3>2
    <2> QED BY <2>1, <2>2
  <1>8. n > 0 => Link(n) = Processed
    BY <1>2, <1>3, <1>5
  <1>9. \A i \in 1 .. n - 1 : Link(i) \notin {Unprocessed, Processed}
    <2> SUFFICES ASSUME NEW i \in 1 .. n - 1 PROVE Link(i) \notin {Unprocessed, Processed}
      OBVIOUS
    <2>1. i + 1 \in 2 .. n /\ i + 1 \in 1 .. n /\ (i + 1) - 1 = i
      BY <1>2
    <2>2. inputQueue[effectTasks[i + 1]] = Link(i)
      BY <1>7, <2>1
    <2> QED BY <1>3, <2>1, <2>2
  <1>10. \A i, j \in 0 .. n - 1 : Link(i) = Link(j) => i = j
    <2> SUFFICES ASSUME NEW i \in 0 .. n - 1, NEW j \in 0 .. n - 1, Link(i) = Link(j) PROVE i = j
      OBVIOUS
    <2>1. /\ i + 1 \in 1 .. n /\ (i + 1) - 1 = i
          /\ j + 1 \in 1 .. n /\ (j + 1) - 1 = j
      BY <1>2
    <2>2. inputQueue[effectTasks[i + 1]] = Link(i) /\ inputQueue[effectTasks[j + 1]] = Link(j)
      BY <1>7, <2>1
    <2>3. i + 1 = j + 1
      BY <1>3, <2>1, <2>2
    <2> QED BY <2>3
  <1>11. \A i \in 0 .. n : Link(i) \in Queue /\ Link(i) <= created.queues
    <2> SUFFICES ASSUME NEW i \in 0 .. n PROVE Link(i) \in Queue /\ Link(i) <= created.queues
      OBVIOUS
    <2>1. created.queues \in Nat \ {0} /\ MaxQueues \in Nat
      BY CountersAreNumbers
    <2>2. CASE i < n
      <3>1. i + 1 \in 1 .. n /\ (i + 1) - 1 = i
        BY <1>2, <2>2
      <3>2. inputQueue[effectTasks[i + 1]] = Link(i)
        BY <1>7, <3>1
      <3> QED BY <1>1, <1>4, <3>1, <3>2
    <2>3. CASE i = n /\ n > 0
      <3>1. 1 <= created.queues
        BY <2>1
      <3> QED BY <1>8, <2>3, <3>1, EndQueues DEF Processed
    <2>4. CASE i = 0
      <3>1. 0 <= created.queues
        BY <2>1
      <3> QED BY <1>6, <2>4, <3>1, EndQueues DEF Unprocessed
    <2> QED BY <1>2, <2>2, <2>3, <2>4
  <1>12. \A i, j \in 1 .. n :
           effectTasks[i] = effectTasks[j] \/ effectThreads[i] = effectThreads[j] => i = j
    BY <1>3
  <1> QED BY <1>2, <1>3, <1>4, <1>5, <1>6, <1>7, <1>8, <1>9, <1>10, <1>11, <1>12 DEF n

\* A chain of m links from unprocessed to processed.
LinksAre(m, ls) ==
  /\ m \in Nat
  /\ ls[0] = Unprocessed
  /\ m > 0 => ls[m] = Processed
  /\ \A i \in 1 .. m - 1 : ls[i] \notin {Unprocessed, Processed}
  /\ \A i, j \in 0 .. m - 1 : ls[i] = ls[j] => i = j

\* An edit leaves m effects with threads of their own, chained by the links.
Rewires(m, ls) ==
  /\ Len(effectTasks') = m /\ Len(effectThreads') = m
  /\ \A i \in 1 .. m : /\ taskOf'[effectThreads'[i]] = effectTasks'[i]
                       /\ inputQueue'[effectTasks'[i]] = ls[i - 1]
                       /\ outputQueue'[effectTasks'[i]] = ls[i]

LEMMA RewiredIsWired ==
  ASSUME NEW m, NEW ls, LinksAre(m, ls), Rewires(m, ls)
  PROVE  Wired'
  <1>1. m \in Nat /\ Len(effectTasks') = m /\ Len(effectThreads') = m
    BY DEF LinksAre, Rewires
  <1>2. \A i \in 1 .. m : /\ taskOf'[effectThreads'[i]] = effectTasks'[i]
                          /\ inputQueue'[effectTasks'[i]] = ls[i - 1]
                          /\ outputQueue'[effectTasks'[i]] = ls[i]
    BY DEF Rewires
  <1>3. m > 0 => /\ inputQueue'[effectTasks'[1]] = Unprocessed
                 /\ outputQueue'[effectTasks'[m]] = Processed
    <2> SUFFICES ASSUME m > 0 PROVE /\ inputQueue'[effectTasks'[1]] = Unprocessed
                                    /\ outputQueue'[effectTasks'[m]] = Processed
      OBVIOUS
    <2>1. 1 \in 1 .. m /\ m \in 1 .. m /\ 1 - 1 = 0
      BY <1>1
    <2> QED BY <1>2, <2>1 DEF LinksAre
  <1>4. \A i \in 1 .. m - 1 : outputQueue'[effectTasks'[i]] = inputQueue'[effectTasks'[i + 1]]
    <2> SUFFICES ASSUME NEW i \in 1 .. m - 1
                 PROVE  outputQueue'[effectTasks'[i]] = inputQueue'[effectTasks'[i + 1]]
      OBVIOUS
    <2>1. i \in 1 .. m /\ i + 1 \in 1 .. m /\ (i + 1) - 1 = i
      BY <1>1
    <2> QED BY <1>2, <2>1
  <1>5. \A i \in 2 .. m : inputQueue'[effectTasks'[i]] \notin {Unprocessed, Processed}
    <2> SUFFICES ASSUME NEW i \in 2 .. m
                 PROVE  inputQueue'[effectTasks'[i]] \notin {Unprocessed, Processed}
      OBVIOUS
    <2>1. i \in 1 .. m /\ i - 1 \in 1 .. m - 1
      BY <1>1
    <2> QED BY <1>2, <2>1 DEF LinksAre
  <1>6. \A i, j \in 1 .. m :
          inputQueue'[effectTasks'[i]] = inputQueue'[effectTasks'[j]] => i = j
    <2> SUFFICES ASSUME NEW i \in 1 .. m, NEW j \in 1 .. m,
                        inputQueue'[effectTasks'[i]] = inputQueue'[effectTasks'[j]]
                 PROVE  i = j
      OBVIOUS
    <2>1. i - 1 \in 0 .. m - 1 /\ j - 1 \in 0 .. m - 1
      BY <1>1
    <2>2. i - 1 = j - 1
      BY <1>2, <2>1 DEF LinksAre
    <2> QED BY <2>2
  <1> QED BY <1>1, <1>2, <1>3, <1>4, <1>5, <1>6 DEF Wired

-----------------------------------------------------------------------------
\* The threads an edit creates.
NewThreads(c) == {NewThread(i) : i \in 1 .. c}

LEMMA NewThreadsAreNew ==
  ASSUME TypeOK, NEW c \in Nat, NEW x \in Nat, NEW z \in Nat, Room(x, c, z)
  PROVE  /\ NewThreads(c) \in SUBSET Thread
         /\ \A i \in 1 .. c : NewThread(i) \in NewThreads(c) /\ NewThread(i) > created.threads
                              /\ NewThread(i) <= created.threads + c
         /\ \A i, j \in 1 .. c : NewThread(i) = NewThread(j) => i = j
         /\ \A th \in Thread : th <= created.threads => th \notin NewThreads(c)
  <1>1. created.threads \in Nat
    BY CountersAreNumbers
  <1>2. \A i \in 1 .. c : NewThread(i) \in Thread
    BY RoomForNew
  <1>3. \A i \in 1 .. c : NewThread(i) = created.threads + i
    BY DEF NewThread
  <1>4. \A i \in 1 .. c : NewThread(i) > created.threads /\ NewThread(i) <= created.threads + c
    BY <1>1, <1>3
  <1>5. \A i, j \in 1 .. c : NewThread(i) = NewThread(j) => i = j
    BY <1>1, <1>3
  <1>6. ASSUME NEW th \in Thread, th <= created.threads PROVE th \notin NewThreads(c)
    <2> SUFFICES ASSUME NEW i \in 1 .. c, th = NewThread(i) PROVE FALSE
      BY DEF NewThreads
    <2>1. th = created.threads + i /\ i \in Nat /\ i >= 1
      BY <1>3
    <2> QED BY <1>1, <1>6, <2>1
  <1> QED BY <1>2, <1>4, <1>5, <1>6 DEF NewThreads

\* An edit that creates and rewires keeps types, numbering and the chain.
LEMMA RewiringKeeps ==
  ASSUME TypeOK, Wired, Numbered,
         NEW x \in Nat, NEW c \in Nat, NEW z \in Nat, Room(x, c, z), Create(x, c, z),
         effectTasks' \in Seq(Task), effectThreads' \in Seq(Thread),
         inputQueue' \in [Task -> Queue], outputQueue' \in [Task -> Queue],
         taskOf' \in [Thread -> Task \cup {0}], interrupted' \in [Thread -> BOOLEAN],
         pc' = Launched(NewThreads(c)), history' = Append(history, effectTasks'),
         UNCHANGED <<running, queue, ref, hand, count>>,
         NEW m, NEW ls, LinksAre(m, ls), Rewires(m, ls),
         \A i \in 1 .. m : /\ effectTasks'[i] <= created.tasks + x
                           /\ effectThreads'[i] <= created.threads + c
                           /\ ls[i - 1] <= created.queues + z,
         \A i \in 1 .. c : taskOf'[NewThread(i)] \in Task,
         \A th \in Thread : th \notin NewThreads(c) => taskOf'[th] = taskOf[th]
  PROVE  TypeOK' /\ Wired' /\ Numbered'
  <1>1. NewThreads(c) \in SUBSET Thread
    BY NewThreadsAreNew
  <1>2. pc' \in [Thread -> State]
    BY <1>1, LaunchedType
  <1>3. history' \in Seq(Seq(Task))
    BY Appended DEF TypeOK
  <1>4. created' \in [tasks : 0 .. MaxTasks, threads : 0 .. MaxThreads, queues : 1 .. MaxQueues]
    BY RoomForNew
  <1>5. TypeOK'
    BY <1>2, <1>3, <1>4 DEF TypeOK
  <1>6. Wired'
    BY RewiredIsWired
  <1>7. /\ created'.tasks = created.tasks + x /\ created'.threads = created.threads + c
        /\ created'.queues = created.queues + z
    BY DEF Create
  <1>8. \A i \in 1 .. Len(effectTasks') : /\ effectTasks'[i] <= created'.tasks
                                          /\ inputQueue'[effectTasks'[i]] <= created'.queues
    BY <1>7 DEF Rewires
  <1>9. \A i \in 1 .. Len(effectThreads') : effectThreads'[i] <= created'.threads
    BY <1>7 DEF Rewires
  <1>10. ASSUME NEW th \in Thread, pc'[th] # "none" PROVE taskOf'[th] \in Task
    <2>1. CASE th \in NewThreads(c)
      BY <2>1 DEF NewThreads
    <2>2. CASE th \notin NewThreads(c)
      <3>1. pc'[th] = pc[th] /\ taskOf'[th] = taskOf[th]
        BY <2>2 DEF Launched
      <3> QED BY <1>10, <3>1 DEF Numbered
    <2> QED BY <2>1, <2>2
  <1>11. Numbered'
    BY <1>8, <1>9, <1>10 DEF Numbered
  <1> QED BY <1>5, <1>6, <1>11

\* An edit hands the chain over to new threads: it tells the old ones to end and
\* keeps the others with the queue they read.
HandsOver(new, old) ==
  /\ interrupted' = Interrupt(old) /\ pc' = Launched(new)
  /\ \A i \in 1 .. Len(effectThreads') :
       \/ effectThreads'[i] \in new
       \/ \E j \in 1 .. Len(effectThreads) :
            /\ effectThreads'[i] = effectThreads[j]
            /\ inputQueue'[effectTasks'[i]] = inputQueue[effectTasks[j]]
  /\ \A j \in 1 .. Len(effectThreads) :
       \/ effectThreads[j] \in old
       \/ \E i \in 1 .. Len(effectThreads') : effectThreads'[i] = effectThreads[j]
  /\ \A th \in new : \E i \in 1 .. Len(effectThreads') : effectThreads'[i] = th
  /\ history' = Append(history, effectTasks')
  /\ UNCHANGED <<queue, ref, hand>>

\* The frames in queues and hands were offered under a list there has been.
BornInTime ==
  /\ \A q \in Queue : \A x \in 1 .. Len(queue[q]) : queue[q][x].born <= Len(history)
  /\ \A th \in Thread : hand[th].born <= Len(history)

\* Frame f went through the first i effects.
Through(f, i) == Len(f.applied) = i /\ \A m \in 1 .. i : f.applied[m] = effectTasks[m]

\* A thread of the pipeline waits at the queue that its task reads.
Steady ==
  \A i \in 1 .. Len(effectThreads) :
    pc[effectThreads[i]] = "take" => ref[effectThreads[i]] = inputQueue[effectTasks[i]]

\* A fresh frame lies in the link behind the effects it went through, ...
QueuedOnLinks ==
  \A q \in Queue : \A x \in 1 .. Len(queue[q]) :
    Fresh(queue[q][x]) =>
      \E i \in 0 .. Len(effectTasks) : q = Link(i) /\ Through(queue[q][x], i)

\* ... or is held by the thread of the effect it goes through, or is about to be
\* dropped.
HeldAt(th, i) ==
  /\ effectThreads[i] = th
  /\ pc[th] = "apply" => Through(hand[th], i - 1)
  /\ pc[th] \in {"applied", "offer"} => Through(hand[th], i)
  /\ pc[th] = "offer" => ref[th] = Link(i)

HeldOnLinks ==
  \A th \in Thread :
    pc[th] \in Busy /\ Fresh(hand[th]) =>
      \/ pc[th] = "apply" /\ interrupted[th]
      \/ \E i \in 1 .. Len(effectTasks) : HeldAt(th, i)

\* What holds as long as no thread has been forgotten.
Following == ReplacedThreadsInterrupted /\ Steady /\ QueuedOnLinks /\ HeldOnLinks

\* After an edit no frame is fresh.
LEMMA NothingIsFresh ==
  ASSUME TypeOK, TypeOK', BornInTime, history' = Append(history, effectTasks'),
         UNCHANGED <<queue, hand>>
  PROVE  /\ BornInTime' /\ Len(history') = Len(history) + 1
         /\ \A q \in Queue : \A x \in 1 .. Len(queue[q]) : queue[q][x].born # Len(history')
         /\ \A th \in Thread : hand[th].born # Len(history')
  <1>1. Len(history') = Len(history) + 1 /\ Len(history) \in Nat
    BY Appended, LenProperties DEF TypeOK
  <1>2. \A q \in Queue : \A x \in 1 .. Len(queue[q]) : queue[q][x].born \in Nat
    <2> SUFFICES ASSUME NEW q \in Queue, NEW x \in 1 .. Len(queue[q])
                 PROVE  queue[q][x].born \in Nat
      OBVIOUS
    <2>1. queue[q] \in Seq(Frame)
      BY DEF TypeOK
    <2>2. queue[q][x] \in Frame
      BY <2>1, ElementOfSeq
    <2> QED BY <2>2 DEF Frame
  <1>3. \A th \in Thread : hand[th].born \in Nat
    BY DEF TypeOK, Frame
  <1>4. ASSUME NEW q \in Queue, NEW x \in 1 .. Len(queue[q])
        PROVE  queue[q][x].born # Len(history') /\ queue[q][x].born <= Len(history')
    <2>1. queue[q][x].born <= Len(history)
      BY DEF BornInTime
    <2> QED BY <1>1, <1>2, <2>1
  <1>5. ASSUME NEW th \in Thread
        PROVE  hand[th].born # Len(history') /\ hand[th].born <= Len(history')
    <2>1. hand[th].born <= Len(history)
      BY DEF BornInTime
    <2> QED BY <1>1, <1>3, <2>1
  <1> QED BY <1>1, <1>4, <1>5 DEF BornInTime

LEMMA HandedOver ==
  ASSUME TypeOK, Wired, TypeOK', Wired', BornInTime, Following,
         NEW new \in SUBSET Thread, NEW old, HandsOver(new, old)
  PROVE  Following'
  <1>1. /\ interrupted' = Interrupt(old) /\ pc' = Launched(new)
        /\ history' = Append(history, effectTasks') /\ UNCHANGED <<queue, ref, hand>>
        /\ effectThreads \in Seq(Thread) /\ effectThreads' \in Seq(Thread)
    BY DEF HandsOver, TypeOK
  <1>2. ReplacedThreadsInterrupted'
    <2> SUFFICES ASSUME NEW th \in Thread, pc'[th] \in Alive, ~interrupted'[th]
                 PROVE  th \in Range(effectThreads')
      BY DEF ReplacedThreadsInterrupted
    <2>1. \E i \in 1 .. Len(effectThreads') : effectThreads'[i] = th
      <3>1. CASE th \in new
        BY <3>1 DEF HandsOver
      <3>2. CASE th \notin new
        <4>1. pc'[th] = pc[th]
          BY <1>1, <3>2 DEF Launched
        <4>2. ~interrupted[th] /\ th \notin old
          BY <1>1, <4>1 DEF Interrupt
        <4>3. th \in Range(effectThreads)
          BY <4>1, <4>2 DEF Following, ReplacedThreadsInterrupted
        <4>4. PICK j \in 1 .. Len(effectThreads) : effectThreads[j] = th
          BY <1>1, <4>3, RangeByIndex
        <4> QED BY <4>2, <4>4 DEF HandsOver
      <3> QED BY <3>1, <3>2
    <2> QED BY <1>1, <2>1, RangeByIndex
  <1>3. Steady'
    <2> SUFFICES ASSUME NEW i \in 1 .. Len(effectThreads'), pc'[effectThreads'[i]] = "take"
                 PROVE  ref[effectThreads'[i]] = inputQueue'[effectTasks'[i]]
      BY <1>1 DEF Steady
    <2>1. effectThreads'[i] \in Thread
      BY <1>1, ElementOfSeq
    <2>2. effectThreads'[i] \notin new /\ pc[effectThreads'[i]] = "take"
      BY <1>1, <2>1 DEF Launched
    <2>3. PICK j \in 1 .. Len(effectThreads) :
            /\ effectThreads'[i] = effectThreads[j]
            /\ inputQueue'[effectTasks'[i]] = inputQueue[effectTasks[j]]
      BY <2>2 DEF HandsOver
    <2> QED BY <2>2, <2>3 DEF Following, Steady
  <1>4. QueuedOnLinks'
    BY <1>1, NothingIsFresh DEF QueuedOnLinks, Fresh
  <1>5. HeldOnLinks'
    BY <1>1, NothingIsFresh DEF HeldOnLinks, Fresh
  <1> QED BY <1>2, <1>3, <1>4, <1>5 DEF Following

-----------------------------------------------------------------------------
\* An insertion: task t comes in at place p of the list, a new queue becomes link
\* number l, and the effects from a to b of the new list get new threads.
Inserts(p, t, a, b, l) ==
  LET n == Len(effectTasks)
  IN /\ Len(effectTasks') = n + 1 /\ Len(effectThreads') = n + 1
     /\ \A k \in 1 .. n + 1 :
          /\ effectTasks'[k] = IF k < p THEN effectTasks[k]
                               ELSE IF k = p THEN t ELSE effectTasks[k - 1]
          /\ effectThreads'[k] = IF k < a THEN effectThreads[k]
                                 ELSE IF k <= b THEN NewThread((k - a) + 1)
                                 ELSE effectThreads[k - 1]
          /\ inputQueue'[effectTasks'[k]] = IF k - 1 < l THEN Link(k - 1)
                                            ELSE IF k - 1 = l THEN NewQueue ELSE Link(k - 2)
          /\ outputQueue'[effectTasks'[k]] = IF k < l THEN Link(k)
                                             ELSE IF k = l THEN NewQueue ELSE Link(k - 1)
     /\ \A k \in a .. b : taskOf'[NewThread((k - a) + 1)] = effectTasks'[k]

\* The links after an insertion.
LEMMA LinkComesIn ==
  ASSUME TypeOK, Wired, Numbered, NEW l \in 1 .. Len(effectTasks),
         NEW m, m = Len(effectTasks) + 1,
         NEW ls, ls = [k \in 0 .. m |-> IF k < l THEN Link(k)
                                        ELSE IF k = l THEN NewQueue ELSE Link(k - 1)]
  PROVE  LinksAre(m, ls) /\ \A k \in 0 .. m - 1 : ls[k] <= created.queues + 1
  <1> DEFINE n == Len(effectTasks)
  <1>1. /\ n \in Nat /\ l \in 1 .. n /\ m = n + 1
        /\ Link(0) = Unprocessed /\ (n > 0 => Link(n) = Processed)
        /\ \A i \in 0 .. n : Link(i) \in Queue /\ Link(i) <= created.queues
        /\ \A i \in 1 .. n - 1 : Link(i) \notin {Unprocessed, Processed}
        /\ \A i, j \in 0 .. n - 1 : Link(i) = Link(j) => i = j
    BY Chain
  <1>2. created.queues \in Nat \ {0} /\ NewQueue = created.queues + 1
    BY CountersAreNumbers DEF NewQueue
  <1> HIDE DEF n
  <1>3. Queue \subseteq Nat
    BY <1>2, CountersAreNumbers DEF Queue
  <1>4. NewQueue \notin {Unprocessed, Processed}
    BY <1>2 DEF Unprocessed, Processed
  <1>5. \A i \in 0 .. n : Link(i) # NewQueue
    <2> SUFFICES ASSUME NEW i \in 0 .. n PROVE Link(i) # NewQueue
      OBVIOUS
    <2>1. Link(i) \in Nat /\ Link(i) <= created.queues
      BY <1>1, <1>3
    <2> QED BY <1>2, <2>1
  <1>6. /\ \A k \in 0 .. m : k < l => ls[k] = Link(k)
        /\ ls[l] = NewQueue
        /\ \A k \in 0 .. m : k > l => ls[k] = Link(k - 1)
    BY <1>1
  <1> HIDE DEF NewQueue
  <1>7. ls[0] = Unprocessed /\ m \in Nat
    BY <1>1, <1>6
  <1>8. ls[m] = Processed
    <2>1. m \in 0 .. m /\ m > l /\ m - 1 = n /\ n > 0
      BY <1>1
    <2> QED BY <1>1, <1>6, <2>1
  <1>9. ASSUME NEW i \in 1 .. m - 1 PROVE ls[i] \notin {Unprocessed, Processed}
    <2>1. CASE i < l
      <3>1. i \in 0 .. m /\ i \in 1 .. n - 1
        BY <1>1, <2>1
      <3> QED BY <1>1, <1>6, <2>1, <3>1
    <2>2. CASE i = l
      BY <1>4, <1>6, <2>2
    <2>3. CASE i > l
      <3>1. i \in 0 .. m /\ i - 1 \in 1 .. n - 1
        BY <1>1, <2>3
      <3>2. ls[i] = Link(i - 1)
        BY <1>6, <2>3, <3>1
      <3> QED BY <1>1, <3>1, <3>2
    <2> QED BY <1>1, <2>1, <2>2, <2>3
  <1>10. ASSUME NEW i \in 0 .. m - 1
         PROVE  \/ i < l /\ i \in 0 .. n - 1 /\ ls[i] = Link(i)
                \/ i = l /\ ls[i] = NewQueue
                \/ i > l /\ i - 1 \in 0 .. n - 1 /\ ls[i] = Link(i - 1)
    <2>1. i \in 0 .. m
      BY <1>1
    <2>2. CASE i < l
      <3>1. i \in 0 .. n - 1
        BY <1>1, <2>2
      <3> QED BY <1>6, <2>1, <2>2, <3>1
    <2>3. CASE i = l
      BY <1>6, <2>3
    <2>4. CASE i > l
      <3>1. i - 1 \in 0 .. n - 1
        BY <1>1, <2>4
      <3> QED BY <1>6, <2>1, <2>4, <3>1
    <2> QED BY <1>1, <2>2, <2>3, <2>4
  <1>11. ASSUME NEW i \in 0 .. m - 1, NEW j \in 0 .. m - 1, ls[i] = ls[j] PROVE i = j
    <2>1. /\ i \in Int /\ j \in Int /\ l \in Int
          /\ \A h \in 0 .. n - 1 : h \in 0 .. n
      BY <1>1
    <2>2. \/ i < l /\ i \in 0 .. n - 1 /\ ls[i] = Link(i)
          \/ i = l /\ ls[i] = NewQueue
          \/ i > l /\ i - 1 \in 0 .. n - 1 /\ ls[i] = Link(i - 1)
      BY <1>10
    <2>3. \/ j < l /\ j \in 0 .. n - 1 /\ ls[j] = Link(j)
          \/ j = l /\ ls[j] = NewQueue
          \/ j > l /\ j - 1 \in 0 .. n - 1 /\ ls[j] = Link(j - 1)
      BY <1>10
    <2>4. CASE i = l \/ j = l
      <3>1. i = l /\ j = l
        BY <1>5, <1>11, <2>1, <2>2, <2>3, <2>4
      <3> QED BY <3>1
    <2>5. CASE i < l /\ j < l
      BY <1>1, <1>11, <2>1, <2>2, <2>3, <2>5
    <2>6. CASE i > l /\ j > l
      <3>1. i - 1 = j - 1
        BY <1>1, <1>11, <2>1, <2>2, <2>3, <2>6
      <3> QED BY <2>1, <3>1
    <2>7. CASE i < l /\ j > l
      <3>1. i = j - 1
        BY <1>1, <1>11, <2>1, <2>2, <2>3, <2>7
      <3> QED BY <2>1, <2>7, <3>1
    <2>8. CASE i > l /\ j < l
      <3>1. i - 1 = j
        BY <1>1, <1>11, <2>1, <2>2, <2>3, <2>8
      <3> QED BY <2>1, <2>8, <3>1
    <2> QED BY <2>1, <2>4, <2>5, <2>6, <2>7, <2>8
  <1>12. ASSUME NEW k \in 0 .. m - 1 PROVE ls[k] <= created.queues + 1
    <2>1. \/ \E h \in 0 .. n : ls[k] = Link(h)
          \/ ls[k] = NewQueue
      <3>1. \A h \in 0 .. n - 1 : h \in 0 .. n
        BY <1>1
      <3> QED BY <1>10, <3>1
    <2>2. CASE ls[k] = NewQueue
      BY <1>2, <2>2
    <2>3. CASE \E h \in 0 .. n : ls[k] = Link(h)
      <3>1. PICK h \in 0 .. n : ls[k] = Link(h)
        BY <2>3
      <3>2. Link(h) \in Nat /\ Link(h) <= created.queues
        BY <1>1, <1>3
      <3> QED BY <1>2, <3>1, <3>2
    <2> QED BY <2>1, <2>2, <2>3
  <1> QED BY <1>7, <1>8, <1>9, <1>11, <1>12 DEF LinksAre

LEMMA StaysBelow ==
  ASSUME NEW u \in Nat, NEW v \in Nat, NEW w \in Nat, u <= v
  PROVE  u <= v + w
  OBVIOUS

\* What an insertion keeps, and which threads go on.
LEMMA InsertionKeeps ==
  ASSUME TypeOK, Wired, Numbered,
         NEW x \in Nat, NEW a \in 1 .. Len(effectTasks), NEW b \in a + 1 .. Len(effectTasks) + 1,
         NEW l \in a .. Len(effectTasks), l < b,
         NEW p \in a .. b, NEW t \in Task, t <= created.tasks + x,
         Room(x, (b - a) + 1, 1), Create(x, (b - a) + 1, 1),
         effectTasks' \in Seq(Task), effectThreads' \in Seq(Thread),
         inputQueue' \in [Task -> Queue], outputQueue' \in [Task -> Queue],
         taskOf' \in [Thread -> Task \cup {0}], interrupted' \in [Thread -> BOOLEAN],
         pc' = Launched(NewThreads((b - a) + 1)), history' = Append(history, effectTasks'),
         UNCHANGED <<running, queue, ref, hand, count>>,
         \A th \in Thread : th \notin NewThreads((b - a) + 1) => taskOf'[th] = taskOf[th],
         Inserts(p, t, a, b, l)
  PROVE  /\ TypeOK' /\ Wired' /\ Numbered'
         /\ \A old : /\ interrupted' = Interrupt(old)
                     /\ \A j \in a .. b - 1 : effectThreads[j] \in old
                     => HandsOver(NewThreads((b - a) + 1), old)
  <1> DEFINE n == Len(effectTasks)
             m == n + 1
             c == (b - a) + 1
             ls == [k \in 0 .. m |-> IF k < l THEN Link(k)
                                     ELSE IF k = l THEN NewQueue ELSE Link(k - 1)]
  <1>1. /\ n \in Nat /\ Len(effectThreads) = n
        /\ \A i \in 1 .. n : /\ effectTasks[i] \in Task /\ effectTasks[i] <= created.tasks
                             /\ effectThreads[i] \in Thread
                             /\ effectThreads[i] <= created.threads
                             /\ taskOf[effectThreads[i]] = effectTasks[i]
                             /\ inputQueue[effectTasks[i]] = Link(i - 1)
    BY Chain
  <1>2. c \in Nat /\ c >= 2 /\ a \in 1 .. n /\ b \in a + 1 .. n + 1 /\ l \in a .. n
        /\ p \in a .. b /\ n \in Nat
    BY <1>1
  <1>3. created.tasks \in Nat /\ created.threads \in Nat /\ created.queues \in Nat
    BY CountersAreNumbers
  <1>4. /\ NewThreads(c) \in SUBSET Thread
        /\ \A i \in 1 .. c : NewThread(i) \in NewThreads(c) /\ NewThread(i) <= created.threads + c
        /\ \A th \in Thread : th <= created.threads => th \notin NewThreads(c)
    BY <1>2, NewThreadsAreNew
  <1>5. /\ Len(effectTasks') = m /\ Len(effectThreads') = m
        /\ \A k \in 1 .. m :
             /\ effectTasks'[k] = IF k < p THEN effectTasks[k]
                                  ELSE IF k = p THEN t ELSE effectTasks[k - 1]
             /\ effectThreads'[k] = IF k < a THEN effectThreads[k]
                                    ELSE IF k <= b THEN NewThread((k - a) + 1)
                                    ELSE effectThreads[k - 1]
             /\ inputQueue'[effectTasks'[k]] = IF k - 1 < l THEN Link(k - 1)
                                               ELSE IF k - 1 = l THEN NewQueue ELSE Link(k - 2)
             /\ outputQueue'[effectTasks'[k]] = IF k < l THEN Link(k)
                                                ELSE IF k = l THEN NewQueue ELSE Link(k - 1)
        /\ \A k \in a .. b : taskOf'[NewThread((k - a) + 1)] = effectTasks'[k]
    BY DEF Inserts
  <1>6. LinksAre(m, ls) /\ \A k \in 0 .. m - 1 : ls[k] <= created.queues + 1
    <2>1. l \in 1 .. Len(effectTasks)
      BY <1>2
    <2> QED BY <2>1, LinkComesIn
  <1>7. \A k \in 1 .. m : /\ inputQueue'[effectTasks'[k]] = ls[k - 1]
                          /\ outputQueue'[effectTasks'[k]] = ls[k]
    <2> SUFFICES ASSUME NEW k \in 1 .. m
                 PROVE  /\ inputQueue'[effectTasks'[k]] = ls[k - 1]
                        /\ outputQueue'[effectTasks'[k]] = ls[k]
      OBVIOUS
    <2>1. k \in 0 .. m /\ k - 1 \in 0 .. m /\ (k - 1) - 1 = k - 2
      BY <1>1
    <2>2. /\ ls[k] = IF k < l THEN Link(k) ELSE IF k = l THEN NewQueue ELSE Link(k - 1)
          /\ ls[k - 1] = IF k - 1 < l THEN Link(k - 1)
                         ELSE IF k - 1 = l THEN NewQueue ELSE Link((k - 1) - 1)
      BY <2>1
    <2> HIDE DEF ls
    <2> QED BY <1>5, <2>1, <2>2
  <1> HIDE DEF ls, c, n
  \* The three kinds of threads.
  <1>8. ASSUME NEW k \in 1 .. m
        PROVE  \/ k < a /\ k \in 1 .. n /\ effectThreads'[k] = effectThreads[k]
               \/ /\ k \in a .. b /\ (k - a) + 1 \in 1 .. c
                  /\ effectThreads'[k] = NewThread((k - a) + 1)
               \/ k > b /\ k - 1 \in 1 .. n /\ effectThreads'[k] = effectThreads[k - 1]
    <2>1. CASE k < a
      <3>1. k \in 1 .. n
        BY <1>2, <2>1
      <3> QED BY <1>5, <2>1, <3>1
    <2>2. CASE k >= a /\ k <= b
      <3>1. k \in a .. b /\ (k - a) + 1 \in 1 .. c /\ ~(k < a)
        BY <1>2, <2>2 DEF c
      <3> QED BY <1>5, <2>2, <3>1
    <2>3. CASE k > b
      <3>1. k - 1 \in 1 .. n /\ ~(k < a) /\ ~(k <= b)
        BY <1>1, <1>2, <2>3
      <3> QED BY <1>5, <2>3, <3>1
    <2> QED BY <1>2, <2>1, <2>2, <2>3
  <1>9. ASSUME NEW k \in 1 .. n
        PROVE  /\ k < a => /\ k \in 1 .. m /\ effectThreads'[k] = effectThreads[k]
                           /\ inputQueue'[effectTasks'[k]] = inputQueue[effectTasks[k]]
               /\ k >= b => /\ k + 1 \in 1 .. m /\ effectThreads'[k + 1] = effectThreads[k]
                            /\ inputQueue'[effectTasks'[k + 1]] = inputQueue[effectTasks[k]]
    <2>1. inputQueue[effectTasks[k]] = Link(k - 1)
      BY <1>1
    <2>2. CASE k < a
      <3>1. k \in 1 .. m /\ k - 1 < l /\ ~(k >= b)
        BY <1>1, <1>2, <2>2
      <3> QED BY <1>5, <2>1, <2>2, <3>1
    <2>3. CASE k >= b
      <3>1. /\ k + 1 \in 1 .. m /\ (k + 1) - 1 = k /\ (k + 1) - 2 = k - 1
            /\ ~(k + 1 < a) /\ ~(k + 1 <= b) /\ ~(k < l) /\ k # l /\ ~(k < a)
        BY <1>1, <1>2, <2>3
      <3>2. effectThreads'[k + 1] = effectThreads[k]
        BY <1>5, <3>1
      <3>3. inputQueue'[effectTasks'[k + 1]] = Link(k - 1)
        BY <1>5, <3>1
      <3> QED BY <2>1, <3>1, <3>2, <3>3
    <2>4. CASE ~(k < a) /\ ~(k >= b)
      BY <2>4
    <2> QED BY <2>2, <2>3, <2>4
  <1>10. ASSUME NEW k \in 1 .. m
         PROVE  effectTasks'[k] \in Task /\ effectTasks'[k] <= created.tasks + x
    <2>1. \/ k \in 1 .. n /\ effectTasks'[k] = effectTasks[k]
          \/ effectTasks'[k] = t
          \/ k - 1 \in 1 .. n /\ effectTasks'[k] = effectTasks[k - 1]
      <3>1. /\ k < p => k \in 1 .. n
            /\ k > p => k - 1 \in 1 .. n /\ ~(k < p) /\ k # p
            /\ k < p \/ k = p \/ k > p
        BY <1>2
      <3> QED BY <1>5, <3>1
    <2>2. ASSUME NEW i \in 1 .. n, effectTasks'[k] = effectTasks[i]
          PROVE  effectTasks'[k] \in Task /\ effectTasks'[k] <= created.tasks + x
      <3>1. effectTasks[i] \in Task /\ effectTasks[i] <= created.tasks
        BY <1>1
      <3>2. effectTasks[i] \in Nat /\ created.tasks \in Nat /\ x \in Nat
        BY <1>3, <3>1 DEF Task
      <3>3. effectTasks[i] <= created.tasks + x
        BY <3>1, <3>2, StaysBelow
      <3> QED BY <2>2, <3>1, <3>3
    <2> QED BY <2>1, <2>2
  <1>11. ASSUME NEW k \in 1 .. m PROVE effectThreads'[k] <= created.threads + c
    <2>1. ASSUME NEW i \in 1 .. n, effectThreads'[k] = effectThreads[i]
          PROVE  effectThreads'[k] <= created.threads + c
      <3>1. effectThreads[i] \in Nat /\ effectThreads[i] <= created.threads
        BY <1>1 DEF Thread
      <3> QED BY <1>2, <1>3, <2>1, <3>1
    <2> QED BY <1>4, <1>8, <2>1
  <1>12. ASSUME NEW k \in 1 .. m PROVE taskOf'[effectThreads'[k]] = effectTasks'[k]
    <2>1. CASE k < a
      <3>1. effectThreads'[k] = effectThreads[k]
        BY <1>5, <2>1
      <3>2. k \in 1 .. n /\ k < p
        BY <1>2, <2>1
      <3>3. effectTasks'[k] = effectTasks[k]
        BY <1>5, <3>2
      <3>4. taskOf'[effectThreads[k]] = taskOf[effectThreads[k]]
        BY <1>1, <1>4, <3>2 DEF c
      <3> QED BY <1>1, <3>1, <3>2, <3>3, <3>4
    <2>2. CASE k >= a /\ k <= b
      <3>1. k \in a .. b /\ ~(k < a)
        BY <1>2, <2>2
      <3>2. effectThreads'[k] = NewThread((k - a) + 1)
        BY <1>5, <2>2, <3>1
      <3> QED BY <1>5, <3>1, <3>2
    <2>3. CASE k > b
      <3>1. k - 1 \in 1 .. n /\ ~(k < a) /\ ~(k <= b) /\ ~(k < p) /\ k # p
        BY <1>2, <2>3
      <3>2. effectThreads'[k] = effectThreads[k - 1]
        BY <1>5, <3>1
      <3>3. effectTasks'[k] = effectTasks[k - 1]
        BY <1>5, <3>1
      <3>4. taskOf'[effectThreads[k - 1]] = taskOf[effectThreads[k - 1]]
        BY <1>1, <1>4, <3>1 DEF c
      <3> QED BY <1>1, <3>1, <3>2, <3>3, <3>4
    <2> QED BY <1>2, <2>1, <2>2, <2>3
  <1>13. Rewires(m, ls)
    BY <1>5, <1>7, <1>12 DEF Rewires
  <1>14. ASSUME NEW i \in 1 .. c
         PROVE  \E k \in 1 .. m : effectThreads'[k] = NewThread(i) /\ k \in a .. b
                                  /\ taskOf'[NewThread(i)] = effectTasks'[k]
    <2>1. /\ (a + i) - 1 \in 1 .. m /\ (a + i) - 1 \in a .. b
          /\ (((a + i) - 1) - a) + 1 = i /\ ~((a + i) - 1 < a) /\ (a + i) - 1 <= b
      BY <1>1, <1>2 DEF c
    <2>2. effectThreads'[(a + i) - 1] = NewThread(i)
      BY <1>5, <2>1
    <2>3. taskOf'[NewThread(i)] = effectTasks'[(a + i) - 1]
      BY <1>5, <2>1
    <2> QED BY <2>1, <2>2, <2>3
  <1>15. \A i \in 1 .. c : taskOf'[NewThread(i)] \in Task
    BY <1>10, <1>14
  <1>16. \A i \in 1 .. m : ls[i - 1] <= created.queues + 1
    <2>1. \A i \in 1 .. m : i - 1 \in 0 .. m - 1
      BY <1>1
    <2> QED BY <1>6, <2>1
  <1>17. /\ Room(x, c, 1) /\ Create(x, c, 1) /\ pc' = Launched(NewThreads(c))
         /\ \A th \in Thread : th \notin NewThreads(c) => taskOf'[th] = taskOf[th]
    BY DEF c
  <1>18. TypeOK' /\ Wired' /\ Numbered'
    BY <1>2, <1>6, <1>10, <1>11, <1>13, <1>15, <1>16, <1>17, RewiringKeeps
  <1>19. ASSUME NEW old, interrupted' = Interrupt(old),
                \A j \in a .. b - 1 : effectThreads[j] \in old
         PROVE  HandsOver(NewThreads(c), old)
    <2>1. \A i \in 1 .. Len(effectThreads') :
            \/ effectThreads'[i] \in NewThreads(c)
            \/ \E j \in 1 .. Len(effectThreads) :
                 /\ effectThreads'[i] = effectThreads[j]
                 /\ inputQueue'[effectTasks'[i]] = inputQueue[effectTasks[j]]
      <3> SUFFICES ASSUME NEW i \in 1 .. m
                   PROVE  \/ effectThreads'[i] \in NewThreads(c)
                          \/ \E j \in 1 .. n :
                               /\ effectThreads'[i] = effectThreads[j]
                               /\ inputQueue'[effectTasks'[i]] = inputQueue[effectTasks[j]]
        BY <1>1, <1>5
      <3>1. CASE i < a
        <4>1. i \in 1 .. n
          BY <1>2, <1>8, <3>1
        <4> QED BY <1>9, <3>1, <4>1
      <3>2. CASE i >= a /\ i <= b
        BY <1>2, <1>4, <1>8, <3>2
      <3>3. CASE i > b
        <4>1. i - 1 \in 1 .. n /\ i - 1 >= b /\ (i - 1) + 1 = i
          BY <1>1, <1>2, <3>3
        <4>2. effectThreads'[(i - 1) + 1] = effectThreads[i - 1]
              /\ inputQueue'[effectTasks'[(i - 1) + 1]] = inputQueue[effectTasks[i - 1]]
          BY <1>9, <4>1
        <4> QED BY <4>1, <4>2
      <3>4. i < a \/ (i >= a /\ i <= b) \/ i > b
        BY <1>2
      <3> QED BY <3>1, <3>2, <3>3, <3>4
    <2>2. \A j \in 1 .. Len(effectThreads) :
            effectThreads[j] \in old
              \/ \E i \in 1 .. Len(effectThreads') : effectThreads'[i] = effectThreads[j]
      <3> SUFFICES ASSUME NEW j \in 1 .. n
                   PROVE  \/ effectThreads[j] \in old
                          \/ \E i \in 1 .. m : effectThreads'[i] = effectThreads[j]
        BY <1>1, <1>5
      <3>1. CASE j < a \/ j >= b
        BY <1>9, <3>1
      <3>2. CASE ~(j < a \/ j >= b)
        <4>1. j \in a .. b - 1
          BY <1>2, <3>2
        <4> QED BY <1>19, <4>1
      <3> QED BY <3>1, <3>2
    <2>3. \A th \in NewThreads(c) : \E i \in 1 .. Len(effectThreads') : effectThreads'[i] = th
      BY <1>5, <1>14 DEF NewThreads
    <2> QED BY <1>17, <1>19, <2>1, <2>2, <2>3 DEF HandsOver
  <1> QED BY <1>18, <1>19 DEF c

-----------------------------------------------------------------------------
\* The threads an edit creates, one by one.
LEMMA NewThreadsListed ==
  ASSUME TypeOK
  PROVE  /\ NewThreads(1) = {NewThread(1)}
         /\ NewThreads(2) = {NewThread(1), NewThread(2)}
         /\ NewThreads(3) = {NewThread(1), NewThread(2), NewThread(3)}
         /\ NewThread(2) = NewThread(1) + 1 /\ NewThread(3) = NewThread(1) + 2
  <1>1. 1 .. 1 = {1} /\ 1 .. 2 = {1, 2} /\ 1 .. 3 = {1, 2, 3}
    OBVIOUS
  <1>2. created.threads \in Nat
    BY CountersAreNumbers
  <1>3. NewThread(2) = NewThread(1) + 1 /\ NewThread(3) = NewThread(1) + 2
    BY <1>2 DEF NewThread
  <1> QED BY <1>1, <1>3 DEF NewThreads

\* addEffect(effect): the task goes behind the last one.
LEMMA AppendKeeps ==
  ASSUME TypeOK, Wired, Numbered, effectTasks # <<>>,
         NEW x \in Nat, NEW t \in Task, t <= created.tasks + x,
         \A i \in 1 .. Len(effectTasks) : effectTasks[i] # t,
         Room(x, 2, 1), Create(x, 2, 1), AppendTask(t)
  PROVE  /\ TypeOK' /\ Wired' /\ Numbered'
         /\ HandsOver(NewThreads(2), {effectThreads[Len(effectTasks)]})
  <1> DEFINE n == Len(effectTasks)
             last == effectTasks[n]
             r == NewThread(1)
             f == NewThread(2)
             q == NewQueue
  <1>1. /\ effectTasks' = Append(effectTasks, t)
        /\ effectThreads' = Append([effectThreads EXCEPT ![n] = r], f)
        /\ inputQueue' = [inputQueue EXCEPT ![t] = q]
        /\ outputQueue' = [outputQueue EXCEPT ![last] = q, ![t] = Processed]
        /\ taskOf' = [taskOf EXCEPT ![r] = last, ![f] = t]
        /\ interrupted' = Interrupt({effectThreads[n]})
        /\ pc' = Launched({r, f})
        /\ history' = Append(history, effectTasks')
        /\ UNCHANGED <<running, queue, ref, hand, count>>
    BY DEF AppendTask
  <1>2. /\ effectTasks \in Seq(Task) /\ effectThreads \in Seq(Thread)
        /\ inputQueue \in [Task -> Queue] /\ outputQueue \in [Task -> Queue]
        /\ taskOf \in [Thread -> Task \cup {0}]
    BY DEF TypeOK
  <1>3. /\ n \in Nat /\ Len(effectThreads) = n
        /\ \A i \in 1 .. n : /\ effectTasks[i] \in Task
                             /\ inputQueue[effectTasks[i]] = Link(i - 1)
                             /\ outputQueue[effectTasks[i]] = Link(i)
        /\ \A i, j \in 1 .. n : effectTasks[i] = effectTasks[j] => i = j
        /\ n > 0 => Link(n) = Processed
    BY Chain
  <1>4. n >= 1 /\ n \in 1 .. n
    <2>1. n \in Nat \ {0}
      BY <1>2, EmptySeq
    <2> QED BY <2>1
  <1>5. /\ r \in Thread /\ f \in Thread /\ q \in Queue
    BY RoomForNew
  <1>6. /\ NewThreads(2) = {r, f} /\ f = r + 1
    BY NewThreadsListed
  <1>7. last \in Task /\ last # t
    BY <1>3, <1>4
  <1>8. r # f
    BY <1>5, <1>6 DEF Thread
  <1>9. \A i \in 1 .. n : effectTasks[i] # t
    OBVIOUS
  <1>10. (NewThread(1) = r /\ NewThread(2) = f) /\ NewQueue = q
    OBVIOUS
  <1>11. last = effectTasks[n] /\ n = Len(effectTasks)
    OBVIOUS
  <1> HIDE DEF n, last, r, f, q
  <1>12. /\ Len(effectTasks') = n + 1 /\ effectTasks' \in Seq(Task)
         /\ \A k \in 1 .. n + 1 : effectTasks'[k] = IF k = n + 1 THEN t ELSE effectTasks[k]
    BY <1>1, <1>2, <1>11, Appended
  <1>13. /\ Len(effectThreads') = n + 1 /\ effectThreads' \in Seq(Thread)
         /\ \A k \in 1 .. n + 1 :
              effectThreads'[k] = IF k = n + 1 THEN f ELSE IF k = n THEN r ELSE effectThreads[k]
    <2>1. /\ [effectThreads EXCEPT ![n] = r] \in Seq(Thread)
          /\ Len([effectThreads EXCEPT ![n] = r]) = n
          /\ \A j \in 1 .. n : [effectThreads EXCEPT ![n] = r][j]
                                 = IF j = n THEN r ELSE effectThreads[j]
      BY <1>2, <1>3, <1>4, <1>5, ExceptSeq
    <2>2. /\ Len(effectThreads') = n + 1 /\ effectThreads' \in Seq(Thread)
          /\ \A k \in 1 .. n + 1 :
               effectThreads'[k] = IF k = n + 1 THEN f ELSE [effectThreads EXCEPT ![n] = r][k]
      BY <1>1, <1>5, <2>1, Appended
    <2>3. \A k \in 1 .. n + 1 : k = n + 1 \/ (k # n + 1 /\ k \in 1 .. n)
      BY <1>3
    <2> QED BY <1>3, <2>1, <2>2, <2>3
  <1>14. /\ inputQueue' \in [Task -> Queue] /\ outputQueue' \in [Task -> Queue]
         /\ taskOf' \in [Thread -> Task \cup {0}]
    BY <1>1, <1>2, <1>5, <1>7, EndQueues
  <1>15. interrupted' \in [Thread -> BOOLEAN]
    BY <1>1, InterruptType
  <1>16. /\ inputQueue'[t] = q /\ outputQueue'[t] = Processed /\ outputQueue'[last] = q
         /\ \A u \in Task : u # t => inputQueue'[u] = inputQueue[u]
         /\ \A u \in Task : u # t /\ u # last => outputQueue'[u] = outputQueue[u]
         /\ taskOf'[r] = last /\ taskOf'[f] = t
         /\ \A th \in Thread : th \notin {r, f} => taskOf'[th] = taskOf[th]
    BY <1>1, <1>2, <1>5, <1>7, <1>8
  <1>17. ASSUME NEW k \in 1 .. n + 1
         PROVE  /\ inputQueue'[effectTasks'[k]] = IF k - 1 < n THEN Link(k - 1)
                                                  ELSE IF k - 1 = n THEN q ELSE Link(k - 2)
                /\ outputQueue'[effectTasks'[k]] = IF k < n THEN Link(k)
                                                   ELSE IF k = n THEN q ELSE Link(k - 1)
    <2>1. CASE k = n + 1
      <3>1. effectTasks'[k] = t /\ k - 1 = n /\ ~(k < n) /\ k # n
        BY <1>3, <1>12, <2>1
      <3> QED BY <1>3, <1>4, <1>16, <3>1
    <2>2. CASE k = n
      <3>1. effectTasks'[k] = last /\ k - 1 < n /\ k \in 1 .. n
        BY <1>3, <1>4, <1>11, <1>12, <2>2
      <3> QED BY <1>3, <1>7, <1>11, <1>16, <2>2, <3>1
    <2>3. CASE k < n
      <3>1. effectTasks'[k] = effectTasks[k] /\ k - 1 < n /\ k \in 1 .. n
        BY <1>3, <1>12, <2>3
      <3>2. effectTasks[k] # t /\ effectTasks[k] # last /\ effectTasks[k] \in Task
        BY <1>3, <1>4, <1>9, <1>11, <2>3, <3>1
      <3>3. /\ inputQueue[effectTasks[k]] = Link(k - 1)
            /\ outputQueue[effectTasks[k]] = Link(k)
        BY <1>3, <3>1
      <3>4. /\ inputQueue'[effectTasks[k]] = Link(k - 1)
            /\ outputQueue'[effectTasks[k]] = Link(k)
        BY <1>16, <3>2, <3>3
      <3> QED BY <2>3, <3>1, <3>4
    <2> QED BY <1>3, <2>1, <2>2, <2>3
  <1>18. Inserts(n + 1, t, n, n + 1, n)
    <2>1. ASSUME NEW k \in 1 .. n + 1
          PROVE  /\ effectTasks'[k] = IF k < n + 1 THEN effectTasks[k]
                                      ELSE IF k = n + 1 THEN t ELSE effectTasks[k - 1]
                 /\ effectThreads'[k] = IF k < n THEN effectThreads[k]
                                        ELSE IF k <= n + 1 THEN NewThread((k - n) + 1)
                                        ELSE effectThreads[k - 1]
      <3>1. effectTasks'[k] = IF k < n + 1 THEN effectTasks[k]
                              ELSE IF k = n + 1 THEN t ELSE effectTasks[k - 1]
        BY <1>3, <1>12
      <3>2. /\ k = n + 1 => (k - n) + 1 = 2
            /\ k = n => (k - n) + 1 = 1
            /\ k = n + 1 \/ k = n \/ k < n
        BY <1>3
      <3>3. effectThreads'[k] = IF k < n THEN effectThreads[k]
                                ELSE IF k <= n + 1 THEN NewThread((k - n) + 1)
                                ELSE effectThreads[k - 1]
        <4>1. CASE k = n + 1
          <5>1. ~(k < n) /\ k <= n + 1 /\ effectThreads'[k] = f
            BY <1>3, <1>13, <4>1
          <5> QED BY <1>10, <3>2, <4>1, <5>1
        <4>2. CASE k = n
          <5>1. ~(k < n) /\ k <= n + 1 /\ effectThreads'[k] = r
            BY <1>3, <1>13, <4>2
          <5> QED BY <1>10, <3>2, <4>2, <5>1
        <4>3. CASE k < n
          BY <1>3, <1>13, <4>3
        <4> QED BY <3>2, <4>1, <4>2, <4>3
      <3> QED BY <3>1, <3>3
    <2>2. ASSUME NEW k \in n .. n + 1 PROVE taskOf'[NewThread((k - n) + 1)] = effectTasks'[k]
      <3>1. CASE k = n
        <4>1. (k - n) + 1 = 1 /\ effectTasks'[k] = last
          BY <1>3, <1>4, <1>11, <1>12, <3>1
        <4> QED BY <1>10, <1>16, <4>1
      <3>2. CASE k = n + 1
        <4>1. (k - n) + 1 = 2 /\ effectTasks'[k] = t
          BY <1>3, <1>12, <3>2
        <4> QED BY <1>10, <1>16, <4>1
      <3> QED BY <1>3, <3>1, <3>2
    <2> QED BY <1>10, <1>11, <1>12, <1>13, <1>17, <2>1, <2>2 DEF Inserts
  <1>19. ((n + 1) - n) + 1 = 2 /\ n .. (n + 1) - 1 = {n} /\ n < n + 1
    BY <1>3
  <1>20. /\ n \in 1 .. Len(effectTasks) /\ n + 1 \in n + 1 .. Len(effectTasks) + 1
         /\ n \in n .. Len(effectTasks) /\ n + 1 \in n .. n + 1
    BY <1>3, <1>4, <1>11
  <1>21. /\ pc' = Launched(NewThreads(2))
         /\ \A th \in Thread : th \notin NewThreads(2) => taskOf'[th] = taskOf[th]
    BY <1>1, <1>6, <1>16
  <1>22. /\ Room(x, ((n + 1) - n) + 1, 1) /\ Create(x, ((n + 1) - n) + 1, 1)
         /\ pc' = Launched(NewThreads(((n + 1) - n) + 1))
         /\ \A th \in Thread : th \notin NewThreads(((n + 1) - n) + 1) => taskOf'[th] = taskOf[th]
    BY <1>19, <1>21
  <1>23. /\ TypeOK' /\ Wired' /\ Numbered'
         /\ \A old : /\ interrupted' = Interrupt(old)
                     /\ \A j \in n .. (n + 1) - 1 : effectThreads[j] \in old
                     => HandsOver(NewThreads(((n + 1) - n) + 1), old)
    BY <1>1, <1>12, <1>13, <1>14, <1>15, <1>18, <1>19, <1>20, <1>22, InsertionKeeps
  <1>24. HandsOver(NewThreads(2), {effectThreads[n]})
    <2>1. \A j \in n .. (n + 1) - 1 : effectThreads[j] \in {effectThreads[n]}
      BY <1>19
    <2> QED BY <1>1, <1>19, <1>23, <2>1
  <1> QED BY <1>11, <1>23, <1>24

\* addEffect(0, effect): the task goes in front of the first one.
LEMMA PutFirstKeeps ==
  ASSUME TypeOK, Wired, Numbered, effectTasks # <<>>,
         NEW x \in Nat, NEW t \in Task, t <= created.tasks + x,
         \A i \in 1 .. Len(effectTasks) : effectTasks[i] # t,
         Room(x, 2, 1), Create(x, 2, 1), PutFirst(t)
  PROVE  /\ TypeOK' /\ Wired' /\ Numbered'
         /\ HandsOver(NewThreads(2), {effectThreads[1]})
  <1> DEFINE n == Len(effectTasks)
             next == effectTasks[1]
             r == NewThread(1)
             f == NewThread(2)
             q == NewQueue
  <1>1. /\ effectTasks' = <<t>> \o effectTasks
        /\ effectThreads' = <<r, r + 1>> \o Tail(effectThreads)
        /\ inputQueue' = [inputQueue EXCEPT ![t] = inputQueue[next], ![next] = q]
        /\ outputQueue' = [outputQueue EXCEPT ![t] = q]
        /\ taskOf' = [taskOf EXCEPT ![r] = t, ![r + 1] = next]
        /\ interrupted' = Interrupt({effectThreads[1]})
        /\ pc' = Launched({r, r + 1})
        /\ history' = Append(history, effectTasks')
        /\ UNCHANGED <<running, queue, ref, hand, count>>
    BY DEF PutFirst
  <1>2. /\ effectTasks \in Seq(Task) /\ effectThreads \in Seq(Thread)
        /\ inputQueue \in [Task -> Queue] /\ outputQueue \in [Task -> Queue]
        /\ taskOf \in [Thread -> Task \cup {0}]
    BY DEF TypeOK
  <1>3. /\ n \in Nat /\ Len(effectThreads) = n
        /\ \A i \in 1 .. n : /\ effectTasks[i] \in Task
                             /\ inputQueue[effectTasks[i]] = Link(i - 1)
                             /\ outputQueue[effectTasks[i]] = Link(i)
        /\ \A i, j \in 1 .. n : effectTasks[i] = effectTasks[j] => i = j
    BY Chain
  <1>4. n >= 1 /\ 1 \in 1 .. n
    <2>1. n \in Nat \ {0}
      BY <1>2, EmptySeq
    <2> QED BY <2>1
  <1>5. r \in Thread /\ f \in Thread /\ q \in Queue
    BY RoomForNew
  <1>6. NewThreads(2) = {r, f} /\ f = r + 1
    BY NewThreadsListed
  <1>7. next \in Task /\ next # t
    BY <1>3, <1>4
  <1>8. r # f
    BY <1>5, <1>6 DEF Thread
  <1>9. \A i \in 1 .. n : effectTasks[i] # t
    OBVIOUS
  <1>10. (NewThread(1) = r /\ NewThread(2) = f) /\ NewQueue = q
    OBVIOUS
  <1>11. next = effectTasks[1] /\ n = Len(effectTasks)
    OBVIOUS
  <1> HIDE DEF n, next, r, f, q
  <1>12. /\ Len(effectTasks') = n + 1 /\ effectTasks' \in Seq(Task)
         /\ \A k \in 1 .. n + 1 : effectTasks'[k] = IF k = 1 THEN t ELSE effectTasks[k - 1]
    <2>1. <<t>> \in Seq(Task) /\ Len(<<t>>) = 1 /\ <<t>>[1] = t
      BY Singleton
    <2>2. /\ <<t>> \o effectTasks \in Seq(Task)
          /\ Len(<<t>> \o effectTasks) = Len(<<t>>) + Len(effectTasks)
          /\ \A i \in 1 .. Len(<<t>>) + Len(effectTasks) :
               (<<t>> \o effectTasks)[i] = IF i <= Len(<<t>>) THEN <<t>>[i]
                                           ELSE effectTasks[i - Len(<<t>>)]
      BY <1>2, <2>1, ConcatProperties
    <2>3. Len(<<t>>) + Len(effectTasks) = n + 1
      BY <1>3, <1>11, <2>1
    <2>4. ASSUME NEW k \in 1 .. n + 1
          PROVE  effectTasks'[k] = IF k = 1 THEN t ELSE effectTasks[k - 1]
      <3>1. (k <= 1) <=> (k = 1)
        BY <1>3
      <3>2. effectTasks'[k] = IF k <= 1 THEN <<t>>[k] ELSE effectTasks[k - 1]
        BY <1>1, <2>1, <2>2, <2>3
      <3> QED BY <2>1, <3>1, <3>2
    <2> QED BY <1>1, <2>2, <2>3, <2>4
  <1>13. /\ Len(effectThreads') = n + 1 /\ effectThreads' \in Seq(Thread)
         /\ \A k \in 1 .. n + 1 :
              effectThreads'[k] = IF k = 1 THEN r ELSE IF k = 2 THEN f ELSE effectThreads[k - 1]
    <2> DEFINE w == <<r, f>>
               v == Tail(effectThreads)
    <2>1. w \in Seq(Thread) /\ Len(w) = 2 /\ w[1] = r /\ w[2] = f
      BY <1>5
    <2>2. /\ v \in Seq(Thread) /\ Len(v) = n - 1
          /\ \A i \in 1 .. n - 1 : v[i] = effectThreads[i + 1]
      <3>1. effectThreads # <<>>
        BY <1>3, <1>4, EmptySeq
      <3> QED BY <1>2, <1>3, <3>1, HeadTailProperties
    <2>3. effectThreads' = w \o v
      BY <1>1, <1>6
    <2> HIDE DEF w, v
    <2>4. /\ w \o v \in Seq(Thread) /\ Len(w \o v) = Len(w) + Len(v)
          /\ \A i \in 1 .. Len(w) + Len(v) :
               (w \o v)[i] = IF i <= Len(w) THEN w[i] ELSE v[i - Len(w)]
      BY <2>1, <2>2, ConcatProperties
    <2>5. Len(w) + Len(v) = n + 1
      BY <1>3, <2>1, <2>2
    <2>6. ASSUME NEW k \in 1 .. n + 1
          PROVE  effectThreads'[k] = IF k = 1 THEN r ELSE IF k = 2 THEN f ELSE effectThreads[k - 1]
      <3>1. effectThreads'[k] = IF k <= 2 THEN w[k] ELSE v[k - 2]
        BY <2>1, <2>3, <2>4, <2>5
      <3>2. CASE k = 1 \/ k = 2
        BY <2>1, <3>1, <3>2
      <3>3. CASE k # 1 /\ k # 2
        <4>1. ~(k <= 2) /\ k - 2 \in 1 .. n - 1 /\ (k - 2) + 1 = k - 1
          BY <1>3, <3>3
        <4> QED BY <2>2, <3>1, <3>3, <4>1
      <3> QED BY <3>2, <3>3
    <2> QED BY <2>3, <2>4, <2>5, <2>6
  <1>14. /\ inputQueue' \in [Task -> Queue] /\ outputQueue' \in [Task -> Queue]
         /\ taskOf' \in [Thread -> Task \cup {0}]
    BY <1>1, <1>2, <1>5, <1>6, <1>7
  <1>15. interrupted' \in [Thread -> BOOLEAN]
    BY <1>1, InterruptType
  <1>16. /\ inputQueue'[t] = inputQueue[next] /\ inputQueue'[next] = q /\ outputQueue'[t] = q
         /\ \A u \in Task : u # t /\ u # next => inputQueue'[u] = inputQueue[u]
         /\ \A u \in Task : u # t => outputQueue'[u] = outputQueue[u]
         /\ taskOf'[r] = t /\ taskOf'[f] = next
         /\ \A th \in Thread : th \notin {r, f} => taskOf'[th] = taskOf[th]
    BY <1>1, <1>2, <1>5, <1>6, <1>7, <1>8
  <1>17. ASSUME NEW k \in 1 .. n + 1
         PROVE  /\ inputQueue'[effectTasks'[k]] = IF k - 1 < 1 THEN Link(k - 1)
                                                  ELSE IF k - 1 = 1 THEN q ELSE Link(k - 2)
                /\ outputQueue'[effectTasks'[k]] = IF k < 1 THEN Link(k)
                                                   ELSE IF k = 1 THEN q ELSE Link(k - 1)
    <2>1. CASE k = 1
      <3>1. effectTasks'[k] = t /\ k - 1 < 1 /\ ~(k < 1)
        BY <1>12, <2>1
      <3>2. inputQueue[next] = Link(1 - 1)
        BY <1>3, <1>4, <1>11
      <3> QED BY <1>16, <2>1, <3>1, <3>2
    <2>2. CASE k # 1
      <3>1. effectTasks'[k] = effectTasks[k - 1] /\ k - 1 \in 1 .. n /\ ~(k - 1 < 1) /\ ~(k < 1)
            /\ (k - 1) - 1 = k - 2
        BY <1>3, <1>12, <2>2
      <3>2. /\ effectTasks[k - 1] \in Task /\ effectTasks[k - 1] # t
            /\ inputQueue[effectTasks[k - 1]] = Link(k - 2)
            /\ outputQueue[effectTasks[k - 1]] = Link(k - 1)
        BY <1>3, <1>9, <3>1
      <3>3. outputQueue'[effectTasks[k - 1]] = Link(k - 1)
        BY <1>16, <3>2
      <3>4. k - 1 = 1 => inputQueue'[effectTasks[k - 1]] = q
        BY <1>11, <1>16
      <3>5. k - 1 # 1 => inputQueue'[effectTasks[k - 1]] = Link(k - 2)
        BY <1>3, <1>4, <1>11, <1>16, <3>1, <3>2
      <3> QED BY <2>2, <3>1, <3>3, <3>4, <3>5
    <2> QED BY <2>1, <2>2
  <1>18. Inserts(1, t, 1, 2, 1)
    <2>1. ASSUME NEW k \in 1 .. n + 1
          PROVE  /\ effectTasks'[k] = IF k < 1 THEN effectTasks[k]
                                      ELSE IF k = 1 THEN t ELSE effectTasks[k - 1]
                 /\ effectThreads'[k] = IF k < 1 THEN effectThreads[k]
                                        ELSE IF k <= 2 THEN NewThread((k - 1) + 1)
                                        ELSE effectThreads[k - 1]
      <3>1. /\ ~(k < 1) /\ (k <= 2 <=> k = 1 \/ k = 2) /\ (k - 1) + 1 = k
        BY <1>3
      <3>2. effectTasks'[k] = IF k = 1 THEN t ELSE effectTasks[k - 1]
        BY <1>12
      <3>3. effectThreads'[k] = IF k = 1 THEN r ELSE IF k = 2 THEN f ELSE effectThreads[k - 1]
        BY <1>13
      <3> QED BY <1>10, <3>1, <3>2, <3>3
    <2>2. ASSUME NEW k \in 1 .. 2 PROVE taskOf'[NewThread((k - 1) + 1)] = effectTasks'[k]
      <3>1. CASE k = 1
        <4>1. (k - 1) + 1 = 1 /\ effectTasks'[k] = t
          BY <1>3, <1>12, <3>1
        <4> QED BY <1>10, <1>16, <4>1
      <3>2. CASE k = 2
        <4>1. (k - 1) + 1 = 2 /\ effectTasks'[k] = next
          <5>1. 2 \in 1 .. n + 1 /\ 2 - 1 = 1
            BY <1>3, <1>4
          <5> QED BY <1>11, <1>12, <3>2, <5>1
        <4> QED BY <1>10, <1>16, <4>1
      <3> QED BY <3>1, <3>2
    <2> QED BY <1>10, <1>11, <1>12, <1>13, <1>17, <2>1, <2>2 DEF Inserts
  <1>19. (2 - 1) + 1 = 2 /\ 1 .. 2 - 1 = {1} /\ 1 < 2
    OBVIOUS
  <1>20. /\ 1 \in 1 .. Len(effectTasks) /\ 2 \in 1 + 1 .. Len(effectTasks) + 1 /\ 1 \in 1 .. 2
    BY <1>3, <1>4, <1>11
  <1>21. /\ pc' = Launched(NewThreads(2))
         /\ \A th \in Thread : th \notin NewThreads(2) => taskOf'[th] = taskOf[th]
    BY <1>1, <1>6, <1>16
  <1>22. /\ Room(x, (2 - 1) + 1, 1) /\ Create(x, (2 - 1) + 1, 1)
         /\ pc' = Launched(NewThreads((2 - 1) + 1))
         /\ \A th \in Thread : th \notin NewThreads((2 - 1) + 1) => taskOf'[th] = taskOf[th]
    BY <1>19, <1>21
  <1>23. /\ TypeOK' /\ Wired' /\ Numbered'
         /\ \A old : /\ interrupted' = Interrupt(old)
                     /\ \A j \in 1 .. 2 - 1 : effectThreads[j] \in old
                     => HandsOver(NewThreads((2 - 1) + 1), old)
    BY <1>1, <1>12, <1>13, <1>14, <1>15, <1>18, <1>19, <1>20, <1>22, InsertionKeeps
  <1>24. HandsOver(NewThreads(2), {effectThreads[1]})
    <2>1. \A j \in 1 .. 2 - 1 : effectThreads[j] \in {effectThreads[1]}
      BY <1>19
    <2> QED BY <1>1, <1>19, <1>23, <2>1
  <1> QED BY <1>23, <1>24

\* addEffect(index, effect) between two effects.
LEMMA PutBetweenKeeps ==
  ASSUME TypeOK, Wired, Numbered,
         NEW i \in 1 .. Len(effectTasks) - 1,
         NEW x \in Nat, NEW t \in Task, t <= created.tasks + x,
         \A j \in 1 .. Len(effectTasks) : effectTasks[j] # t,
         Room(x, 3, 1), Create(x, 3, 1), PutBetween(i, t)
  PROVE  TypeOK' /\ Wired' /\ Numbered'
  <1> DEFINE n == Len(effectTasks)
             prev == effectTasks[i]
             next == effectTasks[i + 1]
             r == NewThread(1)
             f == NewThread(2)
             g == NewThread(3)
             q == NewQueue
  <1>1. /\ effectTasks' = InsertAt(effectTasks, i + 1, t)
        /\ effectThreads' = SubSeq(effectThreads, 1, i - 1) \o <<r, r + 1, r + 2>>
                              \o SubSeq(effectThreads, i + 2, Len(effectThreads))
        /\ inputQueue' = [inputQueue EXCEPT ![t] = outputQueue[prev], ![next] = q]
        /\ outputQueue' = [outputQueue EXCEPT ![t] = q]
        /\ taskOf' = [taskOf EXCEPT ![r] = prev, ![r + 1] = t, ![r + 2] = next]
        /\ pc' = Launched({r, r + 1, r + 2})
        /\ history' = Append(history, effectTasks')
        /\ UNCHANGED <<running, interrupted, queue, ref, hand, count>>
    BY DEF PutBetween
  <1>2. /\ effectTasks \in Seq(Task) /\ effectThreads \in Seq(Thread)
        /\ inputQueue \in [Task -> Queue] /\ outputQueue \in [Task -> Queue]
        /\ taskOf \in [Thread -> Task \cup {0}]
    BY DEF TypeOK
  <1>3. /\ n \in Nat /\ Len(effectThreads) = n
        /\ \A j \in 1 .. n : /\ effectTasks[j] \in Task
                             /\ inputQueue[effectTasks[j]] = Link(j - 1)
                             /\ outputQueue[effectTasks[j]] = Link(j)
        /\ \A j, k \in 1 .. n : effectTasks[j] = effectTasks[k] => j = k
    BY Chain
  <1>4. i \in 1 .. n /\ i + 1 \in 1 .. n /\ i \in 1 .. n - 1
    BY <1>3
  <1>5. r \in Thread /\ f \in Thread /\ g \in Thread /\ q \in Queue
    BY RoomForNew
  <1>6. NewThreads(3) = {r, f, g} /\ f = r + 1 /\ g = r + 2
    BY NewThreadsListed
  <1>7. next \in Task /\ next # t /\ prev \in Task /\ prev # t /\ prev # next
    BY <1>3, <1>4
  <1>8. r # f /\ r # g /\ f # g
    BY <1>5, <1>6 DEF Thread
  <1>9. \A j \in 1 .. n : effectTasks[j] # t
    OBVIOUS
  <1>10. (NewThread(1) = r /\ NewThread(2) = f /\ NewThread(3) = g) /\ NewQueue = q
    OBVIOUS
  <1>11. prev = effectTasks[i] /\ next = effectTasks[i + 1] /\ n = Len(effectTasks)
    OBVIOUS
  <1> HIDE DEF n, prev, next, r, f, g, q
  <1>0. n \in Nat /\ i \in Nat /\ i >= 1 /\ i + 1 <= n
    BY <1>3, <1>4
  <1>12. /\ Len(effectTasks') = n + 1 /\ effectTasks' \in Seq(Task)
         /\ \A k \in 1 .. n + 1 :
              effectTasks'[k] = IF k < i + 1 THEN effectTasks[k]
                                ELSE IF k = i + 1 THEN t ELSE effectTasks[k - 1]
    <2> DEFINE u == SubSeq(effectTasks, 1, i)
               w == <<t>>
               v == SubSeq(effectTasks, i + 1, n)
    <2>1. w \in Seq(Task) /\ Len(w) = 1 /\ w[1] = t
      BY Singleton
    <2>2. effectTasks' = (u \o w) \o v
      <3>1. (i + 1) - 1 = i
        BY <1>4
      <3> QED BY <1>1, <1>11, <3>1 DEF InsertAt
    <2>3. u \in Seq(Task) /\ Len(u) = i /\ \A k \in 1 .. i : u[k] = effectTasks[k]
      <3>1. /\ u \in Seq(Task) /\ Len(u) = i + 1 - 1
            /\ \A k \in 1 .. i + 1 - 1 : u[k] = effectTasks[1 + k - 1]
        <4>1. i \in 0 .. Len(effectTasks) /\ 1 <= i + 1
          BY <1>3, <1>4, <1>11
        <4> QED BY <1>2, <4>1, PartOf
      <3> HIDE DEF u
      <3>2. i + 1 - 1 = i /\ \A k \in 1 .. i : 1 + k - 1 = k
        BY <1>4
      <3> QED BY <3>1, <3>2
    <2>4. /\ v \in Seq(Task) /\ Len(v) = n - i
          /\ \A k \in 1 .. n - i : v[k] = effectTasks[i + k]
      <3>1. /\ v \in Seq(Task) /\ Len(v) = n + 1 - (i + 1)
            /\ \A k \in 1 .. n + 1 - (i + 1) : v[k] = effectTasks[(i + 1) + k - 1]
        <4>1. n \in 0 .. Len(effectTasks) /\ i + 1 \in Nat /\ i + 1 >= 1 /\ i + 1 <= n + 1
          BY <1>3, <1>4, <1>11
        <4> QED BY <1>2, <4>1, PartOf
      <3> HIDE DEF v
      <3>2. n + 1 - (i + 1) = n - i /\ \A k \in 1 .. n - i : (i + 1) + k - 1 = i + k
        BY <1>0
      <3> QED BY <3>1, <3>2
    <2> HIDE DEF u, w, v
    <2>9. u \in Seq(Task) /\ w \in Seq(Task) /\ v \in Seq(Task)
      BY <2>1, <2>3, <2>4
    <2>8. /\ (u \o w) \o v \in Seq(Task) /\ Len((u \o w) \o v) = Len(u) + Len(w) + Len(v)
          /\ \A k \in 1 .. Len(u) + Len(w) + Len(v) :
               ((u \o w) \o v)[k] = IF k <= Len(u) THEN u[k]
                                    ELSE IF k <= Len(u) + Len(w) THEN w[k - Len(u)]
                                    ELSE v[k - (Len(u) + Len(w))]
      BY <2>9, Joined
    <2>5. /\ effectTasks' \in Seq(Task) /\ Len(effectTasks') = i + 1 + (n - i)
          /\ \A k \in 1 .. i + 1 + (n - i) :
               effectTasks'[k] = IF k <= i THEN u[k]
                                 ELSE IF k <= i + 1 THEN w[k - i] ELSE v[k - (i + 1)]
      BY <2>1, <2>2, <2>3, <2>4, <2>8
    <2>6. i + 1 + (n - i) = n + 1
      BY <1>3, <1>4
    <2>7. ASSUME NEW k \in 1 .. n + 1
          PROVE  effectTasks'[k] = IF k < i + 1 THEN effectTasks[k]
                                   ELSE IF k = i + 1 THEN t ELSE effectTasks[k - 1]
      <3>1. effectTasks'[k] = IF k <= i THEN u[k]
                              ELSE IF k <= i + 1 THEN w[k - i] ELSE v[k - (i + 1)]
        BY <2>5, <2>6
      <3>2. CASE k <= i
        <4>1. k \in 1 .. i /\ k < i + 1
          BY <1>4, <3>2
        <4> QED BY <2>3, <3>1, <4>1
      <3>3. CASE k = i + 1
        <4>1. k - i = 1 /\ ~(k <= i) /\ k <= i + 1 /\ ~(k < i + 1)
          BY <1>4, <3>3
        <4> QED BY <2>1, <3>1, <3>3, <4>1
      <3>4. CASE k > i + 1
        <4>1. /\ k - (i + 1) \in 1 .. n - i /\ i + (k - (i + 1)) = k - 1
              /\ ~(k <= i) /\ ~(k <= i + 1) /\ ~(k < i + 1) /\ k # i + 1
          BY <1>0, <3>4
        <4> QED BY <2>4, <3>1, <4>1
      <3> QED BY <1>4, <3>2, <3>3, <3>4
    <2> QED BY <2>5, <2>6, <2>7
  <1>13. /\ Len(effectThreads') = n + 1 /\ effectThreads' \in Seq(Thread)
         /\ \A k \in 1 .. n + 1 :
              effectThreads'[k] = IF k < i THEN effectThreads[k]
                                  ELSE IF k = i THEN r ELSE IF k = i + 1 THEN f
                                  ELSE IF k = i + 2 THEN g ELSE effectThreads[k - 1]
    <2> DEFINE u == SubSeq(effectThreads, 1, i - 1)
               w == <<r, f, g>>
               v == SubSeq(effectThreads, i + 2, n)
    <2>1. w \in Seq(Thread) /\ Len(w) = 3 /\ w[1] = r /\ w[2] = f /\ w[3] = g
      BY <1>5
    <2>2. effectThreads' = (u \o w) \o v
      BY <1>1, <1>3, <1>6
    <2>3. u \in Seq(Thread) /\ Len(u) = i - 1 /\ \A k \in 1 .. i - 1 : u[k] = effectThreads[k]
      <3>1. /\ u \in Seq(Thread) /\ Len(u) = (i - 1) + 1 - 1
            /\ \A k \in 1 .. (i - 1) + 1 - 1 : u[k] = effectThreads[1 + k - 1]
        <4>1. i - 1 \in 0 .. Len(effectThreads) /\ 1 <= (i - 1) + 1
          BY <1>3, <1>4
        <4> QED BY <1>2, <4>1, PartOf
      <3> HIDE DEF u
      <3>2. (i - 1) + 1 - 1 = i - 1 /\ \A k \in 1 .. i - 1 : 1 + k - 1 = k
        BY <1>4
      <3> QED BY <3>1, <3>2
    <2>4. /\ v \in Seq(Thread) /\ Len(v) = n - (i + 1)
          /\ \A k \in 1 .. n - (i + 1) : v[k] = effectThreads[i + 1 + k]
      <3>1. /\ v \in Seq(Thread) /\ Len(v) = n + 1 - (i + 2)
            /\ \A k \in 1 .. n + 1 - (i + 2) : v[k] = effectThreads[(i + 2) + k - 1]
        <4>1. n \in 0 .. Len(effectThreads) /\ i + 2 \in Nat /\ i + 2 >= 1 /\ i + 2 <= n + 1
          BY <1>3, <1>4
        <4> QED BY <1>2, <4>1, PartOf
      <3> HIDE DEF v
      <3>2. n + 1 - (i + 2) = n - (i + 1) /\ \A k \in 1 .. n - (i + 1) : (i + 2) + k - 1 = i + 1 + k
        BY <1>0
      <3> QED BY <3>1, <3>2
    <2> HIDE DEF u, w, v
    <2>9. u \in Seq(Thread) /\ w \in Seq(Thread) /\ v \in Seq(Thread)
      BY <2>1, <2>3, <2>4
    <2>8. /\ (u \o w) \o v \in Seq(Thread) /\ Len((u \o w) \o v) = Len(u) + Len(w) + Len(v)
          /\ \A k \in 1 .. Len(u) + Len(w) + Len(v) :
               ((u \o w) \o v)[k] = IF k <= Len(u) THEN u[k]
                                    ELSE IF k <= Len(u) + Len(w) THEN w[k - Len(u)]
                                    ELSE v[k - (Len(u) + Len(w))]
      BY <2>9, Joined
    <2>5. /\ effectThreads' \in Seq(Thread) /\ Len(effectThreads') = (i - 1) + 3 + (n - (i + 1))
          /\ \A k \in 1 .. (i - 1) + 3 + (n - (i + 1)) :
               effectThreads'[k] = IF k <= i - 1 THEN u[k]
                                   ELSE IF k <= (i - 1) + 3 THEN w[k - (i - 1)]
                                   ELSE v[k - ((i - 1) + 3)]
      BY <2>1, <2>2, <2>3, <2>4, <2>8
    <2>6. (i - 1) + 3 + (n - (i + 1)) = n + 1
      BY <1>3, <1>4
    <2>7. ASSUME NEW k \in 1 .. n + 1
          PROVE  effectThreads'[k] = IF k < i THEN effectThreads[k]
                                     ELSE IF k = i THEN r ELSE IF k = i + 1 THEN f
                                     ELSE IF k = i + 2 THEN g ELSE effectThreads[k - 1]
      <3>1. effectThreads'[k] = IF k <= i - 1 THEN u[k]
                                ELSE IF k <= (i - 1) + 3 THEN w[k - (i - 1)]
                                ELSE v[k - ((i - 1) + 3)]
        BY <2>5, <2>6
      <3>2. CASE k < i
        <4>1. k \in 1 .. i - 1 /\ k <= i - 1
          BY <1>4, <3>2
        <4> QED BY <2>3, <3>1, <3>2, <4>1
      <3>3. CASE k \in i .. i + 2
        <4>1. ~(k <= i - 1) /\ k <= (i - 1) + 3 /\ ~(k < i)
          BY <1>4, <3>3
        <4>2. effectThreads'[k] = w[k - (i - 1)]
          BY <3>1, <4>1
        <4>3. /\ k = i => k - (i - 1) = 1
              /\ k = i + 1 => k - (i - 1) = 2 /\ k # i
              /\ k = i + 2 => k - (i - 1) = 3 /\ k # i /\ k # i + 1
              /\ k = i \/ k = i + 1 \/ k = i + 2
          BY <1>4, <3>3
        <4> QED BY <2>1, <4>1, <4>2, <4>3
      <3>4. CASE k > i + 2
        <4>1. /\ k - ((i - 1) + 3) \in 1 .. n - (i + 1) /\ i + 1 + (k - ((i - 1) + 3)) = k - 1
              /\ ~(k <= i - 1) /\ ~(k <= (i - 1) + 3)
              /\ ~(k < i) /\ k # i /\ k # i + 1 /\ k # i + 2
          BY <1>0, <3>4
        <4> QED BY <2>4, <3>1, <4>1
      <3> QED BY <1>4, <3>2, <3>3, <3>4
    <2> QED BY <2>5, <2>6, <2>7
  <1>14. /\ inputQueue' \in [Task -> Queue] /\ outputQueue' \in [Task -> Queue]
         /\ taskOf' \in [Thread -> Task \cup {0}]
    BY <1>1, <1>2, <1>5, <1>6, <1>7
  <1>15. interrupted' \in [Thread -> BOOLEAN]
    BY <1>1 DEF TypeOK
  <1>16. /\ inputQueue'[t] = outputQueue[prev] /\ inputQueue'[next] = q /\ outputQueue'[t] = q
         /\ \A u \in Task : u # t /\ u # next => inputQueue'[u] = inputQueue[u]
         /\ \A u \in Task : u # t => outputQueue'[u] = outputQueue[u]
         /\ taskOf'[r] = prev /\ taskOf'[f] = t /\ taskOf'[g] = next
         /\ \A th \in Thread : th \notin {r, f, g} => taskOf'[th] = taskOf[th]
    BY <1>1, <1>2, <1>5, <1>6, <1>7, <1>8
  <1>17. ASSUME NEW k \in 1 .. n + 1
         PROVE  /\ inputQueue'[effectTasks'[k]] = IF k - 1 < i + 1 THEN Link(k - 1)
                                                  ELSE IF k - 1 = i + 1 THEN q ELSE Link(k - 2)
                /\ outputQueue'[effectTasks'[k]] = IF k < i + 1 THEN Link(k)
                                                   ELSE IF k = i + 1 THEN q ELSE Link(k - 1)
    <2>1. CASE k < i + 1
      <3>1. effectTasks'[k] = effectTasks[k] /\ k \in 1 .. n /\ k # i + 1 /\ k - 1 < i + 1
        BY <1>3, <1>4, <1>12, <2>1
      <3>2. /\ effectTasks[k] \in Task /\ effectTasks[k] # t /\ effectTasks[k] # next
            /\ inputQueue[effectTasks[k]] = Link(k - 1) /\ outputQueue[effectTasks[k]] = Link(k)
        BY <1>3, <1>4, <1>9, <1>11, <3>1
      <3>3. inputQueue'[effectTasks[k]] = Link(k - 1) /\ outputQueue'[effectTasks[k]] = Link(k)
        BY <1>16, <3>2
      <3> QED BY <2>1, <3>1, <3>3
    <2>2. CASE k = i + 1
      <3>1. effectTasks'[k] = t /\ ~(k < i + 1) /\ k - 1 < i + 1 /\ k - 1 = i
        BY <1>3, <1>4, <1>12, <2>2
      <3>2. outputQueue[prev] = Link(i)
        BY <1>3, <1>4, <1>11
      <3> QED BY <1>16, <2>2, <3>1, <3>2
    <2>3. CASE k > i + 1
      <3>1. /\ effectTasks'[k] = effectTasks[k - 1] /\ k - 1 \in 1 .. n
            /\ ~(k < i + 1) /\ k # i + 1 /\ ~(k - 1 < i + 1) /\ (k - 1) - 1 = k - 2
        BY <1>3, <1>4, <1>12, <2>3
      <3>2. /\ effectTasks[k - 1] \in Task /\ effectTasks[k - 1] # t
            /\ inputQueue[effectTasks[k - 1]] = Link(k - 2)
            /\ outputQueue[effectTasks[k - 1]] = Link(k - 1)
        BY <1>3, <1>9, <3>1
      <3>3. outputQueue'[effectTasks[k - 1]] = Link(k - 1)
        BY <1>16, <3>2
      <3>4. k - 1 = i + 1 => inputQueue'[effectTasks[k - 1]] = q
        BY <1>11, <1>16
      <3>5. k - 1 # i + 1 => inputQueue'[effectTasks[k - 1]] = Link(k - 2)
        BY <1>3, <1>4, <1>11, <1>16, <3>1, <3>2
      <3> QED BY <2>3, <3>1, <3>3, <3>4, <3>5
    <2> QED BY <1>3, <1>4, <2>1, <2>2, <2>3
  <1>18. Inserts(i + 1, t, i, i + 2, i + 1)
    <2>1. ASSUME NEW k \in 1 .. n + 1
          PROVE  effectThreads'[k] = IF k < i THEN effectThreads[k]
                                     ELSE IF k <= i + 2 THEN NewThread((k - i) + 1)
                                     ELSE effectThreads[k - 1]
      <3>1. /\ k = i => (k - i) + 1 = 1 /\ ~(k < i) /\ k <= i + 2
            /\ k = i + 1 => (k - i) + 1 = 2 /\ ~(k < i) /\ k <= i + 2 /\ k # i
            /\ k = i + 2 => (k - i) + 1 = 3 /\ ~(k < i) /\ k <= i + 2 /\ k # i /\ k # i + 1
            /\ ~(k < i) /\ k # i /\ k # i + 1 /\ k # i + 2 => ~(k <= i + 2)
        BY <1>3, <1>4
      <3>2. effectThreads'[k] = IF k < i THEN effectThreads[k]
                                ELSE IF k = i THEN r ELSE IF k = i + 1 THEN f
                                ELSE IF k = i + 2 THEN g ELSE effectThreads[k - 1]
        BY <1>13
      <3> QED BY <1>10, <3>1, <3>2
    <2>2. ASSUME NEW k \in i .. i + 2 PROVE taskOf'[NewThread((k - i) + 1)] = effectTasks'[k]
      <3>1. CASE k = i
        <4>1. (k - i) + 1 = 1 /\ effectTasks'[k] = prev
          BY <1>3, <1>4, <1>11, <1>12, <3>1
        <4> QED BY <1>10, <1>16, <4>1
      <3>2. CASE k = i + 1
        <4>1. (k - i) + 1 = 2 /\ effectTasks'[k] = t
          BY <1>3, <1>4, <1>12, <3>2
        <4> QED BY <1>10, <1>16, <4>1
      <3>3. CASE k = i + 2
        <4>1. /\ (k - i) + 1 = 3 /\ k \in 1 .. n + 1 /\ k - 1 = i + 1
              /\ ~(k < i + 1) /\ k # i + 1
          BY <1>3, <1>4, <3>3
        <4>2. effectTasks'[k] = next
          BY <1>11, <1>12, <4>1
        <4> QED BY <1>10, <1>16, <4>1, <4>2
      <3> QED BY <1>4, <3>1, <3>2, <3>3
    <2> QED BY <1>10, <1>11, <1>12, <1>13, <1>17, <2>1, <2>2 DEF Inserts
  <1>19. ((i + 2) - i) + 1 = 3 /\ i + 1 < i + 2
    BY <1>4
  <1>20. /\ i \in 1 .. Len(effectTasks) /\ i + 2 \in i + 1 .. Len(effectTasks) + 1
         /\ i + 1 \in i .. Len(effectTasks) /\ i + 1 \in i .. i + 2
    BY <1>3, <1>4, <1>11
  <1>21. /\ pc' = Launched(NewThreads(3))
         /\ \A th \in Thread : th \notin NewThreads(3) => taskOf'[th] = taskOf[th]
    BY <1>1, <1>6, <1>16
  <1>22. /\ Room(x, ((i + 2) - i) + 1, 1) /\ Create(x, ((i + 2) - i) + 1, 1)
         /\ pc' = Launched(NewThreads(((i + 2) - i) + 1))
         /\ \A th \in Thread : th \notin NewThreads(((i + 2) - i) + 1) => taskOf'[th] = taskOf[th]
    BY <1>19, <1>21
  <1> QED BY <1>1, <1>12, <1>13, <1>14, <1>15, <1>18, <1>19, <1>20, <1>22, InsertionKeeps
-----------------------------------------------------------------------------
\* A sequence without its element at place p.
LEMMA Removed ==
  ASSUME NEW S, NEW s \in Seq(S), NEW p \in 1 .. Len(s)
  PROVE  /\ RemoveAt(s, p) \in Seq(S) /\ Len(RemoveAt(s, p)) = Len(s) - 1
         /\ \A k \in 1 .. Len(s) - 1 : RemoveAt(s, p)[k] = IF k < p THEN s[k] ELSE s[k + 1]
  <1> DEFINE n == Len(s)
             u == SubSeq(s, 1, p - 1)
             v == SubSeq(s, p + 1, n)
             r == u \o v
  <1>1. n \in Nat /\ p \in Nat /\ p >= 1 /\ p <= n
    BY LenProperties
  <1>2. RemoveAt(s, p) = r
    BY DEF RemoveAt
  <1>3. u \in Seq(S) /\ Len(u) = p - 1 /\ \A k \in 1 .. p - 1 : u[k] = s[k]
    <2>1. /\ u \in Seq(S) /\ Len(u) = (p - 1) + 1 - 1
          /\ \A k \in 1 .. (p - 1) + 1 - 1 : u[k] = s[1 + k - 1]
      <3>1. p - 1 \in 0 .. Len(s) /\ 1 <= (p - 1) + 1
        BY <1>1
      <3> QED BY <3>1, PartOf
    <2> HIDE DEF u
    <2>2. (p - 1) + 1 - 1 = p - 1 /\ \A k \in 1 .. p - 1 : 1 + k - 1 = k
      BY <1>1
    <2> QED BY <2>1, <2>2
  <1>4. v \in Seq(S) /\ Len(v) = n - p /\ \A k \in 1 .. n - p : v[k] = s[p + k]
    <2>1. /\ v \in Seq(S) /\ Len(v) = n + 1 - (p + 1)
          /\ \A k \in 1 .. n + 1 - (p + 1) : v[k] = s[(p + 1) + k - 1]
      <3>1. n \in 0 .. Len(s) /\ p + 1 \in Nat /\ p + 1 >= 1 /\ p + 1 <= n + 1
        BY <1>1
      <3> QED BY <3>1, PartOf
    <2> HIDE DEF v, n
    <2>2. n + 1 - (p + 1) = n - p /\ \A k \in 1 .. n - p : (p + 1) + k - 1 = p + k
      BY <1>1
    <2> QED BY <2>1, <2>2
  <1> HIDE DEF u, v
  <1>5. /\ r \in Seq(S) /\ Len(r) = Len(u) + Len(v)
        /\ \A k \in 1 .. Len(u) + Len(v) : r[k] = IF k <= Len(u) THEN u[k] ELSE v[k - Len(u)]
    BY <1>3, <1>4, ConcatProperties
  <1> HIDE DEF r, n
  <1>6. Len(u) + Len(v) = n - 1 /\ Len(u) = p - 1
    BY <1>1, <1>3, <1>4
  <1>7. ASSUME NEW k \in 1 .. n - 1 PROVE r[k] = IF k < p THEN s[k] ELSE s[k + 1]
    <2>1. r[k] = IF k <= p - 1 THEN u[k] ELSE v[k - (p - 1)]
      BY <1>5, <1>6
    <2>2. CASE k < p
      <3>1. k <= p - 1 /\ k \in 1 .. p - 1
        BY <1>1, <2>2
      <3> QED BY <1>3, <2>1, <2>2, <3>1
    <2>3. CASE ~(k < p)
      <3>1. ~(k <= p - 1) /\ k - (p - 1) \in 1 .. n - p /\ p + (k - (p - 1)) = k + 1
        BY <1>1, <2>3
      <3> QED BY <1>4, <2>1, <2>3, <3>1
    <2> QED BY <2>2, <2>3
  <1> QED BY <1>2, <1>5, <1>6, <1>7 DEF n

\* The links after a removal: number l is left out.
LEMMA LinkGoesOut ==
  ASSUME TypeOK, Wired, Numbered, NEW l \in 1 .. Len(effectTasks) - 1,
         NEW m, m = Len(effectTasks) - 1,
         NEW ls, ls = [k \in 0 .. m |-> IF k < l THEN Link(k) ELSE Link(k + 1)]
  PROVE  LinksAre(m, ls) /\ \A k \in 0 .. m - 1 : ls[k] <= created.queues + 0
  <1> DEFINE n == Len(effectTasks)
  <1>1. /\ n \in Nat /\ l \in 1 .. n - 1 /\ m = n - 1
        /\ Link(0) = Unprocessed /\ (n > 0 => Link(n) = Processed)
        /\ \A i \in 0 .. n : Link(i) \in Queue /\ Link(i) <= created.queues
        /\ \A i \in 1 .. n - 1 : Link(i) \notin {Unprocessed, Processed}
        /\ \A i, j \in 0 .. n - 1 : Link(i) = Link(j) => i = j
    BY Chain
  <1>2. created.queues \in Nat
    BY CountersAreNumbers
  <1> HIDE DEF n
  <1>3. n \in Nat /\ m = n - 1 /\ l \in Nat /\ l >= 1 /\ l <= m /\ m \in Nat
    BY <1>1
  <1>4. /\ \A k \in 0 .. m : k < l => ls[k] = Link(k)
        /\ \A k \in 0 .. m : ~(k < l) => ls[k] = Link(k + 1)
    OBVIOUS
  <1>5. ls[0] = Unprocessed
    <2>1. 0 \in 0 .. m /\ 0 < l
      BY <1>3
    <2> QED BY <1>1, <1>4, <2>1
  <1>6. ls[m] = Processed
    <2>1. m \in 0 .. m /\ ~(m < l) /\ m + 1 = n /\ n > 0
      BY <1>3
    <2> QED BY <1>1, <1>4, <2>1
  <1>7. ASSUME NEW i \in 0 .. m - 1
        PROVE  \/ i < l /\ i \in 0 .. n - 1 /\ ls[i] = Link(i)
               \/ ~(i < l) /\ i + 1 \in 0 .. n - 1 /\ ls[i] = Link(i + 1)
    <2>1. i \in 0 .. m /\ i \in 0 .. n - 1 /\ i + 1 \in 0 .. n - 1
      BY <1>3
    <2> QED BY <1>4, <2>1
  <1>8. ASSUME NEW i \in 1 .. m - 1 PROVE ls[i] \notin {Unprocessed, Processed}
    <2>1. i \in 0 .. m - 1 /\ i \in 1 .. n - 1 /\ i + 1 \in 1 .. n - 1
      BY <1>3
    <2>2. ls[i] = Link(i) \/ ls[i] = Link(i + 1)
      BY <1>7, <2>1
    <2> QED BY <1>1, <2>1, <2>2
  <1>9. ASSUME NEW i \in 0 .. m - 1, NEW j \in 0 .. m - 1, ls[i] = ls[j] PROVE i = j
    <2>1. i \in Int /\ j \in Int /\ l \in Int
      BY <1>3
    <2>2. \/ i < l /\ i \in 0 .. n - 1 /\ ls[i] = Link(i)
          \/ ~(i < l) /\ i + 1 \in 0 .. n - 1 /\ ls[i] = Link(i + 1)
      BY <1>7
    <2>3. \/ j < l /\ j \in 0 .. n - 1 /\ ls[j] = Link(j)
          \/ ~(j < l) /\ j + 1 \in 0 .. n - 1 /\ ls[j] = Link(j + 1)
      BY <1>7
    <2>4. CASE i < l /\ j < l
      BY <1>1, <1>9, <2>2, <2>3, <2>4
    <2>5. CASE ~(i < l) /\ ~(j < l)
      <3>1. i + 1 = j + 1
        BY <1>1, <1>9, <2>2, <2>3, <2>5
      <3> QED BY <2>1, <3>1
    <2>6. CASE i < l /\ ~(j < l)
      <3>1. i = j + 1
        BY <1>1, <1>9, <2>2, <2>3, <2>6
      <3> QED BY <2>1, <2>6, <3>1
    <2>7. CASE ~(i < l) /\ j < l
      <3>1. i + 1 = j
        BY <1>1, <1>9, <2>2, <2>3, <2>7
      <3> QED BY <2>1, <2>7, <3>1
    <2> QED BY <2>4, <2>5, <2>6, <2>7
  <1>10. ASSUME NEW k \in 0 .. m - 1 PROVE ls[k] <= created.queues + 0
    <2>1. PICK h \in 0 .. n : ls[k] = Link(h)
      <3>1. \A h \in 0 .. n - 1 : h \in 0 .. n
        BY <1>3
      <3> QED BY <1>7, <3>1
    <2>2. Link(h) <= created.queues /\ created.queues + 0 = created.queues
      BY <1>1, <1>2
    <2> QED BY <2>1, <2>2
  <1> QED BY <1>3, <1>5, <1>6, <1>8, <1>9, <1>10 DEF LinksAre

\* removeEffect: the effect at place p goes, and the effect at place a of the new
\* list gets a new thread.
LEMMA TakeOutKeeps ==
  ASSUME TypeOK, Wired, Numbered, NEW i \in 0 .. Len(effectTasks) - 1, TakeOut(i)
  PROVE  /\ TypeOK' /\ Wired' /\ Numbered'
         /\ \E old : HandsOver(NewThreads(1), old)
  <1> DEFINE n == Len(effectTasks)
             p == i + 1
             last == p = n
             a == IF last THEN i ELSE i + 1
             x == IF last THEN i ELSE i + 2
             gone == effectTasks[p]
             next == effectTasks[x]
             r == NewThread(1)
             m == n - 1
             ls == [k \in 0 .. m |-> IF k < a THEN Link(k) ELSE Link(k + 1)]
             old == {effectThreads[p], effectThreads[x]}
  <1>1. /\ n > 1 /\ Room(0, 1, 0) /\ Create(0, 1, 0)
        /\ inputQueue' = IF last THEN inputQueue
                                 ELSE [inputQueue EXCEPT ![next] = inputQueue[gone]]
        /\ outputQueue' = IF last THEN [outputQueue EXCEPT ![next] = outputQueue[gone]]
                                  ELSE outputQueue
        /\ effectTasks' = RemoveAt(effectTasks, p)
        /\ effectThreads' = [RemoveAt(effectThreads, p) EXCEPT ![a] = r]
        /\ interrupted' = Interrupt(old)
        /\ taskOf' = [taskOf EXCEPT ![r] = next]
        /\ pc' = Launched({r})
        /\ history' = Append(history, effectTasks')
        /\ UNCHANGED <<running, queue, ref, hand, count>>
    BY DEF TakeOut
  <1>2. /\ effectTasks \in Seq(Task) /\ effectThreads \in Seq(Thread)
        /\ inputQueue \in [Task -> Queue] /\ outputQueue \in [Task -> Queue]
        /\ taskOf \in [Thread -> Task \cup {0}]
    BY DEF TypeOK
  <1>3. /\ n \in Nat /\ Len(effectThreads) = n
        /\ \A j \in 1 .. n : /\ effectTasks[j] \in Task /\ effectTasks[j] <= created.tasks
                             /\ effectThreads[j] \in Thread
                             /\ effectThreads[j] <= created.threads
                             /\ taskOf[effectThreads[j]] = effectTasks[j]
                             /\ inputQueue[effectTasks[j]] = Link(j - 1)
                             /\ outputQueue[effectTasks[j]] = Link(j)
        /\ \A j, k \in 1 .. n : effectTasks[j] = effectTasks[k] => j = k
    BY Chain
  <1>4. r \in Thread /\ NewThreads(1) = {r}
    <2>1. Room(0, 1, 0) /\ 1 \in 1 .. 1
      BY <1>1
    <2>2. \A j \in 1 .. 1 : NewThread(j) \in Thread
      BY <2>1, RoomForNew
    <2> QED BY <2>1, <2>2, NewThreadsListed
  <1>5. created.tasks \in Nat /\ created.threads \in Nat
    BY CountersAreNumbers
  <1>6. /\ r <= created.threads + 1
        /\ \A th \in Thread : th <= created.threads => th \notin {r}
    <2>1. Room(0, 1, 0) /\ 1 \in 1 .. 1
      BY <1>1
    <2>2. /\ \A j \in 1 .. 1 : NewThread(j) <= created.threads + 1
          /\ \A th \in Thread : th <= created.threads => th \notin NewThreads(1)
      BY <2>1, NewThreadsAreNew
    <2> QED BY <1>4, <2>1, <2>2
  <1>7. gone = effectTasks[p] /\ next = effectTasks[x] /\ r = NewThread(1) /\ n = Len(effectTasks)
    OBVIOUS
  <1>8. /\ n \in Nat /\ n > 1 /\ i \in Nat /\ p = i + 1 /\ p \in 1 .. n /\ m = n - 1 /\ m \in Nat
        /\ (p = n /\ a = i /\ x = i /\ last) \/ (p < n /\ a = p /\ x = p + 1 /\ ~last)
    BY <1>1, <1>3
  <1> HIDE DEF n, gone, next, r, x, a, last, p, m, ls, old
  <1>9. a \in 1 .. m /\ x \in 1 .. n /\ x # p /\ p - 1 <= a /\ a <= p
    BY <1>8
  <1>10. /\ Len(effectTasks') = m /\ effectTasks' \in Seq(Task)
         /\ \A k \in 1 .. m : effectTasks'[k] = IF k < p THEN effectTasks[k] ELSE effectTasks[k + 1]
    BY <1>1, <1>2, <1>7, <1>8, Removed DEF m
  <1>11. /\ Len(effectThreads') = m /\ effectThreads' \in Seq(Thread)
         /\ \A k \in 1 .. m : effectThreads'[k] = IF k = a THEN r
                                                  ELSE IF k < p THEN effectThreads[k]
                                                  ELSE effectThreads[k + 1]
    <2> DEFINE s == RemoveAt(effectThreads, p)
    <2>1. /\ s \in Seq(Thread) /\ Len(s) = m
          /\ \A k \in 1 .. m : s[k] = IF k < p THEN effectThreads[k] ELSE effectThreads[k + 1]
      <3>1. p \in 1 .. Len(effectThreads) /\ Len(effectThreads) - 1 = m
        BY <1>3, <1>8
      <3>2. /\ s \in Seq(Thread) /\ Len(s) = Len(effectThreads) - 1
            /\ \A k \in 1 .. Len(effectThreads) - 1 :
                 s[k] = IF k < p THEN effectThreads[k] ELSE effectThreads[k + 1]
        BY <1>2, <3>1, Removed
      <3> QED BY <3>1, <3>2
    <2>2. effectThreads' = [s EXCEPT ![a] = r]
      BY <1>1
    <2> HIDE DEF s
    <2>3. a \in 1 .. Len(s)
      BY <1>9, <2>1
    <2>4. /\ [s EXCEPT ![a] = r] \in Seq(Thread) /\ Len([s EXCEPT ![a] = r]) = Len(s)
          /\ \A k \in 1 .. Len(s) : [s EXCEPT ![a] = r][k] = IF k = a THEN r ELSE s[k]
      BY <1>4, <2>1, <2>3, ExceptSeq
    <2> QED BY <2>1, <2>2, <2>4
  <1>12. gone \in Task /\ next \in Task /\ gone # next
    BY <1>3, <1>7, <1>8, <1>9
  <1>13. /\ inputQueue' \in [Task -> Queue] /\ outputQueue' \in [Task -> Queue]
         /\ taskOf' \in [Thread -> Task \cup {0}] /\ interrupted' \in [Thread -> BOOLEAN]
    BY <1>1, <1>2, <1>4, <1>12, InterruptType
  <1>14. /\ last => /\ \A u \in Task : inputQueue'[u] = inputQueue[u]
                    /\ outputQueue'[next] = outputQueue[gone]
                    /\ \A u \in Task : u # next => outputQueue'[u] = outputQueue[u]
         /\ ~last => /\ \A u \in Task : outputQueue'[u] = outputQueue[u]
                     /\ inputQueue'[next] = inputQueue[gone]
                     /\ \A u \in Task : u # next => inputQueue'[u] = inputQueue[u]
    BY <1>1, <1>2, <1>12
  <1>15. /\ taskOf'[r] = next
         /\ \A th \in Thread : th \notin {r} => taskOf'[th] = taskOf[th]
    BY <1>1, <1>2, <1>4
  <1>16. ASSUME NEW k \in 1 .. m
         PROVE  \/ /\ k < a /\ k \in 1 .. n /\ effectTasks'[k] = effectTasks[k]
                   /\ effectThreads'[k] = effectThreads[k] /\ k # x /\ k # p
                \/ k = a /\ effectTasks'[k] = next /\ effectThreads'[k] = r
                \/ /\ k > a /\ k + 1 \in 1 .. n /\ effectTasks'[k] = effectTasks[k + 1]
                   /\ effectThreads'[k] = effectThreads[k + 1] /\ k + 1 # x /\ k + 1 # p
    <2>1. CASE k < a
      <3>1. k \in 1 .. n /\ k < p /\ k # a /\ k # x /\ k # p
        BY <1>8, <2>1
      <3> QED BY <1>10, <1>11, <2>1, <3>1
    <2>2. CASE k = a
      <3>1. (k < p /\ x = k) \/ (~(k < p) /\ x = k + 1)
        BY <1>8, <2>2
      <3> QED BY <1>7, <1>10, <1>11, <2>2, <3>1
    <2>3. CASE k > a
      <3>1. k + 1 \in 1 .. n /\ ~(k < p) /\ k # a /\ k + 1 # x /\ k + 1 # p
        BY <1>8, <2>3
      <3> QED BY <1>10, <1>11, <2>3, <3>1
    <2> QED BY <1>8, <1>9, <2>1, <2>2, <2>3
  <1>17. ASSUME NEW k \in 1 .. m
         PROVE  /\ inputQueue'[effectTasks'[k]] = IF k <= a THEN Link(k - 1) ELSE Link(k)
                /\ outputQueue'[effectTasks'[k]] = IF k < a THEN Link(k) ELSE Link(k + 1)
    <2>1. ASSUME NEW j \in 1 .. n, j # x
          PROVE  /\ inputQueue'[effectTasks[j]] = Link(j - 1)
                 /\ outputQueue'[effectTasks[j]] = Link(j)
      <3>1. effectTasks[j] \in Task /\ effectTasks[j] # next
        BY <1>3, <1>7, <1>9, <2>1
      <3> QED BY <1>3, <1>14, <3>1
    <2>2. CASE k < a
      <3>1. k \in 1 .. n /\ effectTasks'[k] = effectTasks[k] /\ k # x /\ k <= a
        BY <1>9, <1>16, <2>2
      <3> QED BY <2>1, <2>2, <3>1
    <2>3. CASE k = a
      <3>1. effectTasks'[k] = next /\ k <= a /\ ~(k < a)
        BY <1>9, <1>16, <2>3
      <3>2. /\ inputQueue[next] = Link(x - 1) /\ outputQueue[next] = Link(x)
            /\ inputQueue[gone] = Link(p - 1) /\ outputQueue[gone] = Link(p)
        BY <1>3, <1>7, <1>8, <1>9
      <3>3. CASE last
        <4>1. x - 1 = k - 1 /\ p = k + 1
          BY <1>8, <2>3, <3>3
        <4> QED BY <1>12, <1>14, <3>1, <3>2, <3>3, <4>1
      <3>4. CASE ~last
        <4>1. p - 1 = k - 1 /\ x = k + 1
          BY <1>8, <2>3, <3>4
        <4> QED BY <1>12, <1>14, <3>1, <3>2, <3>4, <4>1
      <3> QED BY <3>3, <3>4
    <2>4. CASE k > a
      <3>1. /\ k + 1 \in 1 .. n /\ effectTasks'[k] = effectTasks[k + 1] /\ k + 1 # x
            /\ ~(k <= a) /\ ~(k < a) /\ (k + 1) - 1 = k
        BY <1>9, <1>16, <2>4
      <3> QED BY <2>1, <3>1
    <2> QED BY <1>9, <2>2, <2>3, <2>4
  <1>18. LinksAre(m, ls) /\ \A k \in 0 .. m - 1 : ls[k] <= created.queues + 0
    <2>1. a \in 1 .. Len(effectTasks) - 1 /\ m = Len(effectTasks) - 1
      BY <1>7, <1>8, <1>9
    <2> QED BY <2>1, LinkGoesOut DEF ls
  <1>19. \A k \in 1 .. m : /\ inputQueue'[effectTasks'[k]] = ls[k - 1]
                           /\ outputQueue'[effectTasks'[k]] = ls[k]
    <2> SUFFICES ASSUME NEW k \in 1 .. m
                 PROVE  /\ inputQueue'[effectTasks'[k]] = ls[k - 1]
                        /\ outputQueue'[effectTasks'[k]] = ls[k]
      OBVIOUS
    <2>1. /\ k \in 0 .. m /\ k - 1 \in 0 .. m /\ (k - 1) + 1 = k
          /\ (k - 1 < a <=> k <= a)
      BY <1>8, <1>9
    <2>2. /\ ls[k] = IF k < a THEN Link(k) ELSE Link(k + 1)
          /\ ls[k - 1] = IF k - 1 < a THEN Link(k - 1) ELSE Link((k - 1) + 1)
      BY <2>1 DEF ls
    <2> QED BY <1>17, <2>1, <2>2
  <1>20. ASSUME NEW k \in 1 .. m
         PROVE  /\ taskOf'[effectThreads'[k]] = effectTasks'[k]
                /\ effectTasks'[k] <= created.tasks + 0
                /\ effectThreads'[k] <= created.threads + 1
    <2>1. ASSUME NEW j \in 1 .. n
          PROVE  /\ taskOf'[effectThreads[j]] = effectTasks[j]
                 /\ effectTasks[j] <= created.tasks + 0
                 /\ effectThreads[j] <= created.threads + 1
      <3>1. effectThreads[j] \in Thread /\ effectThreads[j] <= created.threads
        BY <1>3
      <3>2. effectThreads[j] \in Nat /\ effectTasks[j] \in Nat
        <4>1. effectTasks[j] \in Task
          BY <1>3
        <4> QED BY <3>1, <4>1, BoundsAssumption DEF Thread, Task
      <3>3. taskOf'[effectThreads[j]] = taskOf[effectThreads[j]]
        BY <1>6, <1>15, <3>1
      <3> QED BY <1>3, <1>5, <3>1, <3>2, <3>3
    <2>2. x \in 1 .. n
      BY <1>9
    <2>3. effectTasks[x] <= created.tasks + 0
      BY <2>1, <2>2
    <2> QED BY <1>6, <1>7, <1>15, <1>16, <2>1, <2>3
  <1>21. Rewires(m, ls)
    BY <1>10, <1>11, <1>19, <1>20 DEF Rewires
  <1>22. \A k \in 1 .. m : ls[k - 1] <= created.queues + 0
    <2>1. \A k \in 1 .. m : k - 1 \in 0 .. m - 1
      BY <1>8
    <2> QED BY <1>18, <2>1
  <1>23. \A j \in 1 .. 1 : taskOf'[NewThread(j)] \in Task
    BY <1>7, <1>12, <1>15
  <1>24. TypeOK' /\ Wired' /\ Numbered'
    BY <1>1, <1>4, <1>10, <1>11, <1>13, <1>15, <1>18, <1>20, <1>21, <1>22, <1>23, RewiringKeeps
  <1>25. HandsOver({r}, old)
    <2>1. ASSUME NEW k \in 1 .. m
          PROVE  \/ effectThreads'[k] \in {r}
                 \/ \E j \in 1 .. n :
                      /\ effectThreads'[k] = effectThreads[j]
                      /\ inputQueue'[effectTasks'[k]] = inputQueue[effectTasks[j]]
      <3>1. CASE k < a
        <4>1. k \in 1 .. n /\ effectThreads'[k] = effectThreads[k] /\ k <= a
          BY <1>9, <1>16, <3>1
        <4> QED BY <1>3, <1>17, <4>1
      <3>2. CASE k = a
        BY <1>11, <3>2
      <3>3. CASE k > a
        <4>1. /\ k + 1 \in 1 .. n /\ effectThreads'[k] = effectThreads[k + 1] /\ ~(k <= a)
              /\ (k + 1) - 1 = k
          BY <1>9, <1>16, <3>3
        <4>2. inputQueue[effectTasks[k + 1]] = Link(k)
          BY <1>3, <4>1
        <4> QED BY <1>17, <4>1, <4>2
      <3> QED BY <1>9, <3>1, <3>2, <3>3
    <2>2. ASSUME NEW j \in 1 .. n
          PROVE  effectThreads[j] \in old \/ \E k \in 1 .. m : effectThreads'[k] = effectThreads[j]
      <3>1. CASE j = p \/ j = x
        BY <3>1 DEF old
      <3>2. CASE j # p /\ j # x /\ j < p
        <4>1. j \in 1 .. m /\ j # a
          BY <1>8, <3>2
        <4> QED BY <1>11, <3>2, <4>1
      <3>3. CASE j # p /\ j # x /\ ~(j < p)
        <4>1. j - 1 \in 1 .. m /\ j - 1 # a /\ ~(j - 1 < p) /\ (j - 1) + 1 = j
          BY <1>8, <3>3
        <4> QED BY <1>11, <4>1
      <3> QED BY <3>1, <3>2, <3>3
    <2>3. \A th \in {r} : \E k \in 1 .. m : effectThreads'[k] = th
      BY <1>9, <1>11
    <2> QED BY <1>1, <1>3, <1>11, <2>1, <2>2, <2>3 DEF HandsOver
  <1> QED BY <1>4, <1>24, <1>25
-----------------------------------------------------------------------------
\* addEffect(effect) on an empty pipeline, and clearEffects: one new thread takes
\* over from all the others.
LEMMA SingleHandsOver ==
  ASSUME TypeOK, Wired, AddFirstEffect \/ ClearEffects
  PROVE  HandsOver(NewThreads(1), Range(effectThreads))
  <1>1. /\ effectThreads' = <<NewThread(1)>> /\ Len(effectThreads') = 1
        /\ pc' = Launched({NewThread(1)}) /\ NewThread(1) \in Thread
    BY AfterSingle
  <1>2. effectThreads'[1] = NewThread(1)
    BY <1>1, Singleton
  <1>3. NewThreads(1) = {NewThread(1)}
    BY NewThreadsListed
  <1>4. history' = Append(history, effectTasks') /\ UNCHANGED <<queue, ref, hand>>
    BY DEF AddFirstEffect, ClearEffects
  <1>5. effectThreads \in Seq(Thread) /\ interrupted \in [Thread -> BOOLEAN]
    BY DEF TypeOK
  <1>6. \A j \in 1 .. Len(effectThreads) : effectThreads[j] \in Range(effectThreads)
    BY <1>5, RangeByIndex
  <1>7. interrupted' = Interrupt(Range(effectThreads))
    <2>1. CASE ClearEffects
      BY <2>1 DEF ClearEffects
    <2>2. CASE AddFirstEffect
      <3>1. effectTasks = <<>> /\ interrupted' = interrupted
        BY <2>2 DEF AddFirstEffect
      <3>2. Len(effectThreads) = 0
        BY <3>1, EmptyInSeq DEF Wired
      <3>3. \A th \in Thread : th \notin Range(effectThreads)
        <4> SUFFICES ASSUME NEW th \in Thread, th \in Range(effectThreads) PROVE FALSE
          OBVIOUS
        <4>1. PICK j \in 1 .. Len(effectThreads) : effectThreads[j] = th
          BY <1>5, RangeByIndex
        <4> QED BY <3>2, <4>1
      <3>4. Interrupt(Range(effectThreads)) \in [Thread -> BOOLEAN]
        BY InterruptType
      <3>5. ASSUME NEW th \in Thread
            PROVE  Interrupt(Range(effectThreads))[th] = interrupted[th]
        BY <1>5, <3>3 DEF Interrupt
      <3> QED BY <1>5, <3>1, <3>4, <3>5
    <2> QED BY <2>1, <2>2
  <1>8. \A i \in 1 .. Len(effectThreads') : effectThreads'[i] \in NewThreads(1)
    BY <1>1, <1>2, <1>3
  <1>9. \A th \in NewThreads(1) : \E i \in 1 .. Len(effectThreads') : effectThreads'[i] = th
    BY <1>1, <1>2, <1>3
  <1> QED BY <1>1, <1>3, <1>4, <1>6, <1>7, <1>8, <1>9 DEF HandsOver

\* What an edit owes to the threads: the chain, and a handover to new threads.
Handover == \E new \in SUBSET Thread : \E old : HandsOver(new, old)

\* A task that an edit makes is in the list of no earlier edit.
LEMMA NewTaskIsNew ==
  ASSUME TypeOK, Wired, Numbered, NEW y \in Nat, NEW z \in Nat, Room(1, y, z)
  PROVE  /\ NewTask \in Task /\ NewTask <= created.tasks + 1 /\ NewTask > created.tasks
         /\ \A i \in 1 .. Len(effectTasks) : effectTasks[i] # NewTask
  <1>1. NewTask \in Task
    BY RoomForNew
  <1>2. \A i \in 1 .. Len(effectTasks) : effectTasks[i] \in Task /\ effectTasks[i] < NewTask
    BY NewIsUnused
  <1>3. \A i \in 1 .. Len(effectTasks) : effectTasks[i] # NewTask
    BY <1>1, <1>2 DEF Task
  <1>4. NewTask = created.tasks + 1 /\ created.tasks \in Nat
    BY CountersAreNumbers DEF NewTask
  <1> QED BY <1>1, <1>3, <1>4

\* addEffect(effect) and clearEffects, ...
LEMMA EditKeeps ==
  ASSUME TypeOK, Wired, Numbered, Edit
  PROVE  TypeOK' /\ Wired' /\ Numbered' /\ Handover
  <1>1. TypeOK' /\ Wired' /\ Numbered'
    BY EditType, EditWired, EditNumbered
  <1>2. CASE AddFirstEffect \/ ClearEffects
    <2>1. NewThreads(1) \in SUBSET Thread
      BY <1>2, AfterSingle, NewThreadsListed
    <2> QED BY <1>1, <1>2, <2>1, SingleHandsOver DEF Handover
  <1>3. CASE AddEffect
    <2>1. effectTasks # <<>> /\ Room(1, 2, 1) /\ Create(1, 2, 1) /\ AppendTask(NewTask)
      BY <1>3 DEF AddEffect
    <2>2. 1 \in Nat /\ 2 \in Nat
      OBVIOUS
    <2>3. /\ NewTask \in Task /\ NewTask <= created.tasks + 1
          /\ \A i \in 1 .. Len(effectTasks) : effectTasks[i] # NewTask
      BY <2>1, <2>2, NewTaskIsNew
    <2>4. HandsOver(NewThreads(2), {effectThreads[Len(effectTasks)]})
      BY <2>1, <2>2, <2>3, AppendKeeps
    <2>5. NewThreads(2) \in SUBSET Thread
      BY <2>1, <2>2, NewThreadsAreNew
    <2> QED BY <1>1, <2>4, <2>5 DEF Handover
  <1> QED BY <1>2, <1>3 DEF Edit

\* ... addEffect(0, effect), ...
LEMMA InsertFirstKeeps ==
  ASSUME TypeOK, Wired, Numbered, InsertFirst
  PROVE  TypeOK' /\ Wired' /\ Numbered' /\ Handover
  <1>1. effectTasks # <<>> /\ Room(1, 2, 1) /\ Create(1, 2, 1) /\ PutFirst(NewTask)
    BY DEF InsertFirst
  <1>2. 1 \in Nat /\ 2 \in Nat
    OBVIOUS
  <1>3. /\ NewTask \in Task /\ NewTask <= created.tasks + 1
        /\ \A i \in 1 .. Len(effectTasks) : effectTasks[i] # NewTask
    BY <1>1, <1>2, NewTaskIsNew
  <1>4. TypeOK' /\ Wired' /\ Numbered' /\ HandsOver(NewThreads(2), {effectThreads[1]})
    BY <1>1, <1>2, <1>3, PutFirstKeeps
  <1>5. NewThreads(2) \in SUBSET Thread
    BY <1>1, <1>2, NewThreadsAreNew
  <1> QED BY <1>4, <1>5 DEF Handover

\* ... removeEffect, also as the first half of a move: the task is in the list no
\* more, ...
LEMMA RemoveKeeps ==
  ASSUME TypeOK, Wired, Numbered, NEW i \in 0 .. Len(effectTasks) - 1, RemoveEffectAt(i)
  PROVE  /\ TypeOK' /\ Wired' /\ Numbered' /\ Handover
         /\ effectTasks[i + 1] \in Task /\ effectTasks[i + 1] <= created'.tasks
         /\ effectTasks' # <<>>
         /\ \A j \in 1 .. Len(effectTasks') : effectTasks'[j] # effectTasks[i + 1]
  <1> DEFINE n == Len(effectTasks)
             gone == effectTasks[i + 1]
  <1>1. /\ n \in Nat
        /\ \A j \in 1 .. n : effectTasks[j] \in Task /\ effectTasks[j] <= created.tasks
        /\ \A j, k \in 1 .. n : effectTasks[j] = effectTasks[k] => j = k
    BY Chain
  <1>2. i + 1 \in 1 .. n /\ gone \in Task /\ gone \in Nat /\ gone <= created.tasks
        /\ created.tasks \in Nat
    BY <1>1, CountersAreNumbers DEF Task
  <1>3. CASE TakeOut(i)
    <2>1. TypeOK' /\ Wired' /\ Numbered' /\ \E old : HandsOver(NewThreads(1), old)
      BY <1>3, TakeOutKeeps
    <2>2. /\ Room(0, 1, 0) /\ effectTasks' = RemoveAt(effectTasks, i + 1) /\ n > 1
          /\ created'.tasks = created.tasks + 0
      BY <1>3 DEF TakeOut, Create
    <2>3. 0 \in Nat /\ 1 \in Nat
      OBVIOUS
    <2>4. NewThreads(1) \in SUBSET Thread
      BY <2>2, <2>3, NewThreadsAreNew
    <2>5. effectTasks \in Seq(Task)
      BY DEF TypeOK
    <2>6. /\ Len(effectTasks') = n - 1
          /\ \A k \in 1 .. n - 1 : effectTasks'[k] = IF k < i + 1 THEN effectTasks[k] ELSE effectTasks[k + 1]
      BY <1>2, <2>2, <2>5, Removed
    <2> HIDE DEF n
    <2>7. effectTasks' # <<>>
      BY <1>1, <2>2, <2>6, EmptyInSeq
    <2>8. ASSUME NEW j \in 1 .. Len(effectTasks') PROVE effectTasks'[j] # gone
      <3>1. j \in 1 .. n - 1 /\ j \in 1 .. n /\ j + 1 \in 1 .. n /\ i + 1 \in 1 .. n
        BY <1>1, <1>2, <2>6
      <3>2. CASE j < i + 1
        BY <1>1, <2>6, <3>1, <3>2
      <3>3. CASE ~(j < i + 1)
        BY <1>1, <2>6, <3>1, <3>3
      <3> QED BY <3>2, <3>3
    <2>9. gone <= created'.tasks
      BY <1>2, <2>2
    <2> QED BY <1>2, <2>1, <2>4, <2>7, <2>8, <2>9 DEF Handover
  <1>4. CASE ClearEffects
    <2>1. TypeOK' /\ Wired' /\ Numbered' /\ Handover
      BY <1>4, EditKeeps DEF Edit
    <2>2. /\ effectTasks' = <<NewTask>> /\ Len(effectTasks') = 1 /\ NewTask \in Task
          /\ created'.tasks = NewTask
      BY <1>4, AfterSingle
    <2>3. effectTasks'[1] = NewTask /\ NewTask = created.tasks + 1
      BY <2>2, Singleton DEF NewTask
    <2>4. effectTasks' # <<>>
      BY <2>2, EmptyInSeq
    <2>5. gone < NewTask
      BY <1>2, <2>3
    <2>6. ASSUME NEW j \in 1 .. Len(effectTasks') PROVE effectTasks'[j] # gone
      <3>1. j = 1
        BY <2>2
      <3> QED BY <1>2, <2>3, <2>5, <3>1
    <2> HIDE DEF gone
    <2>7. gone <= created'.tasks
      BY <1>2, <2>2, <2>3
    <2> QED BY <1>2, <2>1, <2>4, <2>6, <2>7 DEF gone
  <1> QED BY <1>3, <1>4 DEF RemoveEffectAt

\* What moveEffect has taken out is a task that is not in the list.
MovingOut ==
  \/ moving = AtRest
  \/ /\ moving.task \in Task /\ moving.task <= created.tasks /\ moving.to \in Nat
     /\ effectTasks # <<>>
     /\ \A i \in 1 .. Len(effectTasks) : effectTasks[i] # moving.task

\* ... addEffect(index, effect) between two effects, which forgets threads, ...
LEMMA InsertBetweenKeeps ==
  ASSUME TypeOK, Wired, Numbered, InsertBetween
  PROVE  /\ TypeOK' /\ Wired' /\ Numbered' /\ forgotten'
         /\ history' = Append(history, effectTasks') /\ UNCHANGED <<queue, hand>>
  <1>1. Room(1, 3, 1) /\ Create(1, 3, 1)
    BY DEF InsertBetween
  <1>2. PICK i \in 1 .. Len(effectTasks) - 1 : PutBetween(i, NewTask)
    BY DEF InsertBetween
  <1>3. 1 \in Nat /\ 3 \in Nat
    OBVIOUS
  <1>4. /\ NewTask \in Task /\ NewTask <= created.tasks + 1
        /\ \A j \in 1 .. Len(effectTasks) : effectTasks[j] # NewTask
    BY <1>1, <1>3, NewTaskIsNew
  <1>5. TypeOK' /\ Wired' /\ Numbered'
    BY <1>1, <1>2, <1>3, <1>4, PutBetweenKeeps
  <1> QED BY <1>2, <1>5 DEF PutBetween

\* ... and the second half of a move, whichever of the three insertions it is.
LEMMA FinishMoveKeeps ==
  ASSUME TypeOK, Wired, Numbered, MovingOut, FinishMove
  PROVE  /\ TypeOK' /\ Wired' /\ Numbered' /\ MovingOut'
         /\ history' = Append(history, effectTasks') /\ UNCHANGED <<queue, hand>>
         /\ forgotten' \/ (forgotten' = forgotten /\ Handover)
  <1> DEFINE t == moving.task
             to == moving.to
             n == Len(effectTasks)
  <1>1. /\ t \in Task /\ t <= created.tasks /\ to \in Nat /\ effectTasks # <<>>
        /\ \A i \in 1 .. n : effectTasks[i] # t
    BY DEF MovingOut, FinishMove
  <1>2. /\ 0 \in Nat /\ 2 \in Nat /\ 3 \in Nat /\ t <= created.tasks + 0
    BY <1>1, CountersAreNumbers DEF Task
  <1>3. MovingOut'
    BY DEF MovingOut, FinishMove
  <1>4. CASE Room(0, 2, 1) /\ Create(0, 2, 1) /\ AppendTask(t) /\ UNCHANGED forgotten
    <2>1. /\ TypeOK' /\ Wired' /\ Numbered'
          /\ HandsOver(NewThreads(2), {effectThreads[Len(effectTasks)]})
      BY <1>1, <1>2, <1>4, AppendKeeps
    <2>2. NewThreads(2) \in SUBSET Thread
      BY <1>2, <1>4, NewThreadsAreNew
    <2> QED BY <1>3, <1>4, <2>1, <2>2 DEF Handover, AppendTask
  <1>5. CASE Room(0, 2, 1) /\ Create(0, 2, 1) /\ PutFirst(t) /\ UNCHANGED forgotten
    <2>1. /\ TypeOK' /\ Wired' /\ Numbered'
          /\ HandsOver(NewThreads(2), {effectThreads[1]})
      BY <1>1, <1>2, <1>5, PutFirstKeeps
    <2>2. NewThreads(2) \in SUBSET Thread
      BY <1>2, <1>5, NewThreadsAreNew
    <2> QED BY <1>3, <1>5, <2>1, <2>2 DEF Handover, PutFirst
  <1>6. CASE to \in 1 .. n - 1 /\ Room(0, 3, 1) /\ Create(0, 3, 1) /\ PutBetween(to, t)
    <2>1. TypeOK' /\ Wired' /\ Numbered'
      BY <1>1, <1>2, <1>6, PutBetweenKeeps
    <2> QED BY <1>3, <1>6, <2>1 DEF PutBetween
  <1> QED BY <1>4, <1>5, <1>6 DEF FinishMove

-----------------------------------------------------------------------------
\* No two links are the same queue.
LEMMA LinkOnce ==
  ASSUME TypeOK, Wired, Numbered,
         NEW i \in 0 .. Len(effectTasks), NEW j \in 0 .. Len(effectTasks), Link(i) = Link(j)
  PROVE  i = j
  <1> DEFINE n == Len(effectTasks)
  <1>1. /\ n \in Nat /\ Link(0) = Unprocessed /\ (n > 0 => Link(n) = Processed)
        /\ \A k \in 1 .. n - 1 : Link(k) \notin {Unprocessed, Processed}
        /\ \A k, l \in 0 .. n - 1 : Link(k) = Link(l) => k = l
    BY Chain
  <1>2. Unprocessed # Processed
    BY DEF Unprocessed, Processed
  <1>3. \A k \in 0 .. n - 1 : Link(k) # Processed
    BY <1>1, <1>2
  <1>4. CASE i \in 0 .. n - 1 /\ j \in 0 .. n - 1
    BY <1>1, <1>4
  <1>5. CASE i = n /\ j \in 0 .. n - 1
    BY <1>1, <1>3, <1>5
  <1>6. CASE j = n /\ i \in 0 .. n - 1
    BY <1>1, <1>3, <1>6
  <1> QED BY <1>1, <1>4, <1>5, <1>6

\* As long as the list stays, frames that were queued stay in their link, and a
\* fresh frame may come into the link behind what it went through.
LEMMA QueuesKeep ==
  ASSUME QueuedOnLinks, UNCHANGED <<effectTasks, outputQueue, history>>,
         \A q \in Queue : \A x \in 1 .. Len(queue'[q]) :
           \/ \E y \in 1 .. Len(queue[q]) : queue'[q][x] = queue[q][y]
           \/ Fresh(queue'[q][x]) =>
                \E i \in 0 .. Len(effectTasks) : q = Link(i) /\ Through(queue'[q][x], i)
  PROVE  QueuedOnLinks'
  <1>1. ASSUME NEW q \in Queue, NEW x \in 1 .. Len(queue'[q])
        PROVE  Fresh(queue'[q][x]) =>
                 \E i \in 0 .. Len(effectTasks) : q = Link(i) /\ Through(queue'[q][x], i)
    BY DEF QueuedOnLinks
  <1> QED BY <1>1 DEF QueuedOnLinks, Fresh, Through, Link

\* What an offer leaves in the queues.
LEMMA OfferedFrames ==
  ASSUME TypeOK, NEW r \in Queue, NEW f \in Frame, queue' = Offered(r, f)
  PROVE  \A q \in Queue : \A x \in 1 .. Len(queue'[q]) :
           \/ \E y \in 1 .. Len(queue[q]) : queue'[q][x] = queue[q][y]
           \/ q = r /\ queue'[q][x] = f
  <1>1. queue \in [Queue -> Seq(Frame)]
    BY DEF TypeOK
  <1>2. CASE Len(queue[r]) < Cap(r)
    <2>1. queue' = [queue EXCEPT ![r] = Append(queue[r], f)]
      BY <1>2 DEF Offered
    <2>2. queue[r] \in Seq(Frame) /\ Len(queue[r]) \in Nat
      BY <1>1, LenProperties
    <2>3. /\ Len(Append(queue[r], f)) = Len(queue[r]) + 1
          /\ \A x \in 1 .. Len(queue[r]) + 1 :
               Append(queue[r], f)[x] = IF x = Len(queue[r]) + 1 THEN f ELSE queue[r][x]
      BY <2>2, Appended
    <2>4. queue'[r] = Append(queue[r], f) /\ \A q \in Queue \ {r} : queue'[q] = queue[q]
      BY <1>1, <2>1
    <2>5. ASSUME NEW x \in 1 .. Len(queue'[r])
          PROVE  (\E y \in 1 .. Len(queue[r]) : queue'[r][x] = queue[r][y]) \/ queue'[r][x] = f
      <3>1. x \in 1 .. Len(queue[r]) + 1
        BY <2>3, <2>4
      <3>2. CASE x = Len(queue[r]) + 1
        BY <2>3, <2>4, <3>1, <3>2
      <3>3. CASE x # Len(queue[r]) + 1
        <4>1. x \in 1 .. Len(queue[r])
          BY <2>2, <3>1, <3>3
        <4>2. queue'[r][x] = queue[r][x]
          BY <2>3, <2>4, <3>1, <3>3
        <4> QED BY <4>1, <4>2
      <3> QED BY <3>2, <3>3
    <2>6. ASSUME NEW q \in Queue \ {r}, NEW x \in 1 .. Len(queue'[q])
          PROVE  \E y \in 1 .. Len(queue[q]) : queue'[q][x] = queue[q][y]
      <3>1. queue'[q] = queue[q]
        BY <2>4
      <3> QED BY <3>1
    <2> SUFFICES ASSUME NEW q \in Queue, NEW x \in 1 .. Len(queue'[q])
                 PROVE  \/ \E y \in 1 .. Len(queue[q]) : queue'[q][x] = queue[q][y]
                        \/ q = r /\ queue'[q][x] = f
      OBVIOUS
    <2>7. CASE q = r
      BY <2>5, <2>7
    <2>8. CASE q # r
      BY <2>6, <2>8
    <2> QED BY <2>7, <2>8
  <1>3. CASE ~(Len(queue[r]) < Cap(r))
    BY <1>3 DEF Offered
  <1> QED BY <1>2, <1>3

\* What taking the head leaves in the queues.
LEMMA TakenFrames ==
  ASSUME TypeOK, NEW r \in Queue, queue[r] # <<>>,
         queue' = [queue EXCEPT ![r] = Tail(@)]
  PROVE  /\ \A q \in Queue : \A x \in 1 .. Len(queue'[q]) :
              \E y \in 1 .. Len(queue[q]) : queue'[q][x] = queue[q][y]
         /\ 1 \in 1 .. Len(queue[r]) /\ Head(queue[r]) = queue[r][1]
  <1>1. /\ \A q \in Queue : Len(queue'[q]) \in Nat
        /\ \A q \in Queue \ {r} : queue'[q] = queue[q]
        /\ Len(queue'[r]) + 1 <= Len(queue[r])
        /\ \A i \in 1 .. Len(queue'[r]) : queue'[r][i] = queue[r][i + 1]
        /\ Len(queue[r]) >= 1 /\ Head(queue[r]) = queue[r][1]
    BY HeadTaken
  <1>2. Len(queue[r]) \in Nat
    BY FrameIds
  <1>3. ASSUME NEW x \in 1 .. Len(queue'[r])
        PROVE  \E y \in 1 .. Len(queue[r]) : queue'[r][x] = queue[r][y]
    <2>1. x + 1 \in 1 .. Len(queue[r])
      BY <1>1, <1>2
    <2> QED BY <1>1, <2>1
  <1> QED BY <1>1, <1>2, <1>3

\* The thread of an effect serves its link: what Wired says of thread th.
LEMMA OwnLink ==
  ASSUME TypeOK, Wired, Numbered, NEW i \in 1 .. Len(effectTasks)
  PROVE  /\ taskOf[effectThreads[i]] = effectTasks[i] /\ effectThreads[i] \in Thread
         /\ inputQueue[effectTasks[i]] = Link(i - 1) /\ outputQueue[effectTasks[i]] = Link(i)
         /\ Len(effectThreads) = Len(effectTasks) /\ i \in Nat /\ i # 0
         /\ i - 1 \in 0 .. Len(effectTasks) /\ i \in 0 .. Len(effectTasks)
         /\ Len(effectTasks) \in Nat
  BY Chain

-----------------------------------------------------------------------------
\* The calls that are no edits leave the fresh frames on their way: start(), ...
LEMMA StartFollows ==
  ASSUME TypeOK, Following, ReplacedThreadsInterrupted', Start
  PROVE  Following'
  <1>1. /\ UNCHANGED <<effectTasks, effectThreads, inputQueue, outputQueue, history,
                       queue, interrupted, ref, hand>>
        /\ \A th \in Thread : pc'[th] \in {"take"} \cup Busy => pc'[th] = pc[th]
    BY DEF Start, Busy
  <1>2. QueuedOnLinks'
    BY <1>1 DEF Following, QueuedOnLinks, Fresh, Through, Link
  <1>3. Steady'
    <2>1. \A i \in 1 .. Len(effectThreads) : effectThreads[i] \in Thread
      BY ElementOfSeq DEF TypeOK
    <2>2. Steady
      BY DEF Following
    <2> QED BY <1>1, <2>1, <2>2 DEF Steady
  <1>4. HeldOnLinks'
    <2> SUFFICES ASSUME NEW th \in Thread, pc'[th] \in Busy, Fresh(hand[th])
                 PROVE  \/ pc'[th] = "apply" /\ interrupted[th]
                        \/ \E i \in 1 .. Len(effectTasks) : HeldAt(th, i)'
      BY <1>1 DEF HeldOnLinks, Fresh
    <2>1. pc'[th] = pc[th]
      BY <1>1
    <2>2. \A i \in 1 .. Len(effectTasks) : HeldAt(th, i) => HeldAt(th, i)'
      BY <1>1, <2>1 DEF HeldAt, Through, Link
    <2> QED BY <2>1, <2>2 DEF Following, HeldOnLinks
  <1> QED BY <1>2, <1>3, <1>4 DEF Following

\* ... stop(), addFrame and getFrame, ...
LEMMA CallFollows ==
  ASSUME TypeOK, Following, ReplacedThreadsInterrupted', Stop \/ Frames
  PROVE  Following'
  <1>1. /\ UNCHANGED <<effectTasks, effectThreads, inputQueue, outputQueue, history,
                       pc, ref, hand>>
        /\ \A th \in Thread : interrupted[th] => interrupted'[th]
    BY DEF Stop, Frames, AddFrame, GetFrame, pipelineVars, Interrupt
  <1>2. \A q \in Queue : \A x \in 1 .. Len(queue'[q]) :
           \/ \E y \in 1 .. Len(queue[q]) : queue'[q][x] = queue[q][y]
           \/ Fresh(queue'[q][x]) =>
                \E i \in 0 .. Len(effectTasks) : q = Link(i) /\ Through(queue'[q][x], i)
    <2>1. CASE Stop
      <3>1. /\ \A q \in {Unprocessed, Processed} : queue'[q] = <<>>
            /\ \A q \in Queue \ {Unprocessed, Processed} : queue'[q] = queue[q]
        BY <2>1, EndQueues DEF Stop, TypeOK
      <3>2. \A q \in {Unprocessed, Processed} : Len(queue'[q]) = 0
        BY <3>1, EmptySeq
      <3> SUFFICES ASSUME NEW q \in Queue, NEW x \in 1 .. Len(queue'[q])
                   PROVE  \E y \in 1 .. Len(queue[q]) : queue'[q][x] = queue[q][y]
        OBVIOUS
      <3>3. queue'[q] = queue[q]
        BY <3>1, <3>2
      <3> QED BY <3>3
    <2>2. CASE GetFrame
      <3>1. queue[Processed] # <<>> /\ queue' = [queue EXCEPT ![Processed] = Tail(@)]
        BY <2>2 DEF GetFrame
      <3> QED BY <3>1, EndQueues, TakenFrames
    <2>3. CASE AddFrame
      <3> DEFINE f == [id |-> count.frames + 1, born |-> Len(history), applied |-> <<>>]
      <3>1. f \in Frame /\ Len(f.applied) = 0
        BY EmptySeq, LenProperties, CountersAreNumbers DEF Frame, TypeOK
      <3>2. queue' = Offered(Unprocessed, f)
        BY <2>3 DEF AddFrame
      <3> HIDE DEF f
      <3>3. \A q \in Queue : \A x \in 1 .. Len(queue'[q]) :
              \/ \E y \in 1 .. Len(queue[q]) : queue'[q][x] = queue[q][y]
              \/ q = Unprocessed /\ queue'[q][x] = f
        BY <3>1, <3>2, EndQueues, OfferedFrames
      <3>4. Through(f, 0)
        BY <3>1 DEF Through
      <3>5. Unprocessed = Link(0) /\ 0 \in 0 .. Len(effectTasks)
        BY LenProperties DEF Link, TypeOK
      <3> QED BY <3>1, <3>3, <3>4, <3>5
    <2> QED BY <2>1, <2>2, <2>3 DEF Frames
  <1>3. QueuedOnLinks'
    BY <1>1, <1>2, QueuesKeep DEF Following
  <1>4. Steady'
    BY <1>1 DEF Following, Steady
  <1>5. HeldOnLinks'
    <2> SUFFICES ASSUME NEW th \in Thread, pc[th] \in Busy, Fresh(hand[th])
                 PROVE  \/ pc[th] = "apply" /\ interrupted'[th]
                        \/ \E i \in 1 .. Len(effectTasks) : HeldAt(th, i)'
      BY <1>1 DEF HeldOnLinks, Fresh
    <2>1. \A i \in 1 .. Len(effectTasks) : HeldAt(th, i) => HeldAt(th, i)'
      BY <1>1 DEF HeldAt, Through, Link
    <2> QED BY <1>1, <2>1 DEF Following, HeldOnLinks
  <1> QED BY <1>3, <1>4, <1>5 DEF Following

\* ... and the steps of a thread.  What one thread does leaves the others as they
\* are, ...
LEMMA OthersKeep ==
  ASSUME TypeOK, HeldOnLinks, NEW th \in Thread,
         UNCHANGED <<effectTasks, effectThreads, outputQueue, history>>,
         \A o \in Thread \ {th} : /\ pc'[o] = pc[o] /\ hand'[o] = hand[o]
                                  /\ interrupted'[o] = interrupted[o] /\ ref'[o] = ref[o],
         pc'[th] \in Busy /\ Fresh(hand'[th]) =>
           \/ pc'[th] = "apply" /\ interrupted'[th]
           \/ \E i \in 1 .. Len(effectTasks) : HeldAt(th, i)'
  PROVE  HeldOnLinks'
  <1> SUFFICES ASSUME NEW o \in Thread, pc'[o] \in Busy, Fresh(hand'[o])
               PROVE  \/ pc'[o] = "apply" /\ interrupted'[o]
                      \/ \E i \in 1 .. Len(effectTasks) : HeldAt(o, i)'
    BY DEF HeldOnLinks, Fresh
  <1>1. CASE o = th
    BY <1>1
  <1>2. CASE o # th
    <2>1. /\ pc'[o] = pc[o] /\ hand'[o] = hand[o]
          /\ interrupted'[o] = interrupted[o] /\ ref'[o] = ref[o]
      BY <1>2
    <2>2. \A i \in 1 .. Len(effectTasks) : HeldAt(o, i) => HeldAt(o, i)'
      BY <2>1 DEF HeldAt, Through, Link
    <2> QED BY <2>1, <2>2 DEF HeldOnLinks
  <1> QED BY <1>1, <1>2

\* ... and what it does to its own frame follows the links: it takes the frame
\* from the link in front of its effect, ...
LEMMA TakeFollows ==
  ASSUME TypeOK, Wired, Numbered, Following, NEW th \in Thread, Take(th)
  PROVE  Fresh(hand'[th]) => \/ pc'[th] = "apply" /\ interrupted'[th]
                             \/ \E i \in 1 .. Len(effectTasks) : HeldAt(th, i)'
  <1> DEFINE f == queue[ref[th]][1]
  <1>1. /\ ref[th] \in Queue /\ queue[ref[th]] # <<>> /\ pc[th] = "take"
        /\ queue' = [queue EXCEPT ![ref[th]] = Tail(@)]
        /\ hand' = [hand EXCEPT ![th] = Head(queue[ref[th]])] /\ pc' = [pc EXCEPT ![th] = "apply"]
        /\ UNCHANGED <<effectTasks, effectThreads, outputQueue, history, interrupted, ref>>
    BY DEF Take, pipelineVars, TypeOK
  <1>2. 1 \in 1 .. Len(queue[ref[th]]) /\ Head(queue[ref[th]]) = f
    BY <1>1, TakenFrames
  <1>3. hand'[th] = f /\ pc'[th] = "apply"
    BY <1>1, <1>2 DEF TypeOK
  <1> HIDE DEF f
  <1> SUFFICES ASSUME Fresh(f), ~interrupted[th]
               PROVE  \E i \in 1 .. Len(effectTasks) : HeldAt(th, i)'
    BY <1>1, <1>3
  <1>4. th \in Range(effectThreads) /\ effectThreads \in Seq(Thread)
    BY <1>1 DEF Following, ReplacedThreadsInterrupted, Alive, TypeOK
  <1>5. PICK i \in 1 .. Len(effectThreads) : effectThreads[i] = th
    BY <1>4, RangeByIndex
  <1>6. i \in 1 .. Len(effectTasks)
    BY <1>5 DEF Wired
  <1>7. /\ inputQueue[effectTasks[i]] = Link(i - 1) /\ i \in Nat
        /\ i - 1 \in 0 .. Len(effectTasks)
    BY <1>6, OwnLink
  <1>8. ref[th] = Link(i - 1)
    BY <1>1, <1>5, <1>7 DEF Following, Steady
  <1>9. PICK k \in 0 .. Len(effectTasks) : ref[th] = Link(k) /\ Through(f, k)
    BY <1>1, <1>2 DEF Following, QueuedOnLinks, f
  <1>10. k = i - 1
    BY <1>7, <1>8, <1>9, LinkOnce
  <1>11. Through(f, i - 1)
    BY <1>9, <1>10
  <1>12. HeldAt(th, i)'
    BY <1>1, <1>3, <1>5, <1>11 DEF HeldAt, Through
  <1> QED BY <1>6, <1>12

\* ... lets it go through the effect, ...
LEMMA ApplyFollows ==
  ASSUME TypeOK, Wired, Numbered, Following, NEW th \in Thread, Apply(th)
  PROVE  Fresh(hand'[th]) => \E i \in 1 .. Len(effectTasks) : HeldAt(th, i)'
  <1> DEFINE f == hand[th]
             t == taskOf[th]
             g == [f EXCEPT !.applied = Append(@, t)]
  <1>1. /\ pc[th] = "apply" /\ ~interrupted[th]
        /\ pc' = [pc EXCEPT ![th] = "applied"]
        /\ hand' = [hand EXCEPT ![th].applied = Append(@, t)]
        /\ UNCHANGED <<effectTasks, effectThreads, outputQueue, history, interrupted, ref>>
    BY DEF Apply, pipelineVars
  <1>2. pc'[th] = "applied" /\ hand'[th] = g /\ f \in Frame
    BY <1>1 DEF TypeOK
  <1>3. /\ g.born = f.born /\ g.applied = Append(f.applied, t) /\ f.applied \in Seq(Task)
    BY <1>2 DEF Frame
  <1> SUFFICES ASSUME Fresh(f)
               PROVE  \E i \in 1 .. Len(effectTasks) : HeldAt(th, i)'
    BY <1>1, <1>2, <1>3 DEF Fresh
  <1>4. PICK i \in 1 .. Len(effectTasks) : HeldAt(th, i)
    BY <1>1 DEF Following, HeldOnLinks, Busy
  <1>5. effectThreads[i] = th /\ Through(f, i - 1)
    BY <1>1, <1>4 DEF HeldAt
  <1>6. t = effectTasks[i] /\ effectTasks[i] \in Task /\ i \in Nat
    <2>1. effectTasks[i] \in Task
      BY ElementOfSeq DEF TypeOK
    <2> QED BY <1>5, <2>1, OwnLink
  <1>7. Len(f.applied) = i - 1 /\ \A m \in 1 .. i - 1 : f.applied[m] = effectTasks[m]
    BY <1>5 DEF Through
  <1>8. /\ Len(g.applied) = Len(f.applied) + 1
        /\ \A m \in 1 .. Len(f.applied) + 1 :
             g.applied[m] = IF m = Len(f.applied) + 1 THEN t ELSE f.applied[m]
    BY <1>3, <1>6, Appended
  <1> HIDE DEF f, t, g
  <1>9. Len(g.applied) = i /\ \A m \in 1 .. i : g.applied[m] = effectTasks[m]
    <2>1. Len(f.applied) + 1 = i
      BY <1>6, <1>7
    <2>2. ASSUME NEW m \in 1 .. i PROVE g.applied[m] = effectTasks[m]
      <3>1. CASE m = i
        BY <1>6, <1>8, <2>1, <3>1
      <3>2. CASE m # i
        <4>1. m \in 1 .. i - 1
          BY <1>6, <3>2
        <4> QED BY <1>7, <1>8, <2>1, <3>2, <4>1
      <3> QED BY <3>1, <3>2
    <2> QED BY <1>8, <2>1, <2>2
  <1>10. HeldAt(th, i)'
    BY <1>1, <1>2, <1>5, <1>9 DEF HeldAt, Through
  <1> QED BY <1>10

\* ... and reads which link comes behind the effect.
LEMMA ReadOutputFollows ==
  ASSUME TypeOK, Wired, Numbered, Following, NEW th \in Thread, ReadOutput(th)
  PROVE  Fresh(hand'[th]) => \E i \in 1 .. Len(effectTasks) : HeldAt(th, i)'
  <1>1. /\ pc[th] = "applied" /\ pc' = [pc EXCEPT ![th] = "offer"]
        /\ ref' = [ref EXCEPT ![th] = outputQueue[taskOf[th]]]
        /\ UNCHANGED <<effectTasks, effectThreads, outputQueue, history, hand>>
    BY DEF ReadOutput, pipelineVars
  <1>2. pc'[th] = "offer" /\ ref'[th] = outputQueue[taskOf[th]] /\ hand'[th] = hand[th]
    BY <1>1 DEF TypeOK
  <1> SUFFICES ASSUME Fresh(hand[th])
               PROVE  \E i \in 1 .. Len(effectTasks) : HeldAt(th, i)'
    BY <1>1, <1>2
  <1>3. PICK i \in 1 .. Len(effectTasks) : HeldAt(th, i)
    BY <1>1 DEF Following, HeldOnLinks, Busy
  <1>4. effectThreads[i] = th /\ Through(hand[th], i)
    BY <1>1, <1>3 DEF HeldAt
  <1>5. outputQueue[taskOf[th]] = Link(i)
    BY <1>4, OwnLink
  <1>6. HeldAt(th, i)'
    BY <1>1, <1>2, <1>4, <1>5 DEF HeldAt, Through, Link
  <1> QED BY <1>6

\* A thread waits at the queue that its task reads.
LEMMA ThreadSteady ==
  ASSUME TypeOK, Wired, Numbered, Steady, NEW th \in Thread, Run(th) \/ ApplyThrows(th)
  PROVE  Steady'
  <1>1. UNCHANGED <<effectTasks, effectThreads, inputQueue>>
    BY DEF Run, ReadInput, Take, LeaveLoop, Apply, DropFrame, ReadOutput, Offer,
           ApplyThrows, pipelineVars
  <1> SUFFICES ASSUME NEW i \in 1 .. Len(effectThreads), pc'[effectThreads[i]] = "take"
               PROVE  ref'[effectThreads[i]] = inputQueue[effectTasks[i]]
    BY <1>1 DEF Steady
  <1> DEFINE o == effectThreads[i]
  <1>2. i \in 1 .. Len(effectTasks)
    BY DEF Wired
  <1>3. o \in Thread /\ taskOf[o] = effectTasks[i]
    BY <1>2, OwnLink
  <1>4. pc[o] = "take" => ref[o] = inputQueue[effectTasks[i]]
    BY DEF Steady
  <1> HIDE DEF o
  <1>5. (pc[o] = "take" /\ ref'[o] = ref[o]) \/ ref'[o] = inputQueue[taskOf[o]]
    <2>1. CASE ReadInput(th)
      BY <1>3, <2>1 DEF ReadInput, TypeOK, o
    <2>2. CASE ReadOutput(th)
      BY <1>3, <2>2 DEF ReadOutput, TypeOK, o
    <2>3. CASE Take(th) \/ LeaveLoop(th) \/ Apply(th) \/ DropFrame(th) \/ Offer(th) \/ ApplyThrows(th)
      BY <1>3, <2>3 DEF Take, LeaveLoop, Apply, DropFrame, Offer, ApplyThrows, TypeOK, o
    <2> QED BY <2>1, <2>2, <2>3 DEF Run
  <1> QED BY <1>3, <1>4, <1>5 DEF o

LEMMA ThreadFollows ==
  ASSUME TypeOK, Wired, Numbered, Following, ReplacedThreadsInterrupted',
         NEW th \in Thread, Run(th) \/ ApplyThrows(th)
  PROVE  Following'
  <1>1. /\ UNCHANGED <<effectTasks, effectThreads, inputQueue, outputQueue, history>>
        /\ \A o \in Thread \ {th} : /\ pc'[o] = pc[o] /\ hand'[o] = hand[o]
                                    /\ interrupted'[o] = interrupted[o] /\ ref'[o] = ref[o]
    BY DEF Run, ReadInput, Take, LeaveLoop, Apply, DropFrame, ReadOutput, Offer,
           ApplyThrows, pipelineVars, TypeOK
  <1>2. Steady /\ QueuedOnLinks /\ HeldOnLinks
    BY DEF Following
  <1>3. hand[th] \in Frame /\ ref[th] \in Queue
    BY DEF TypeOK
  <1>4. \A q \in Queue : \A x \in 1 .. Len(queue'[q]) :
           \/ \E y \in 1 .. Len(queue[q]) : queue'[q][x] = queue[q][y]
           \/ Fresh(queue'[q][x]) =>
                \E i \in 0 .. Len(effectTasks) : q = Link(i) /\ Through(queue'[q][x], i)
    <2>1. CASE Take(th)
      <3>1. queue[ref[th]] # <<>> /\ queue' = [queue EXCEPT ![ref[th]] = Tail(@)]
        BY <2>1 DEF Take
      <3> QED BY <1>3, <3>1, TakenFrames
    <2>2. CASE Offer(th)
      <3>1. queue' = Offered(ref[th], hand[th]) /\ pc[th] = "offer"
        BY <2>2 DEF Offer
      <3>2. \A q \in Queue : \A x \in 1 .. Len(queue'[q]) :
              \/ \E y \in 1 .. Len(queue[q]) : queue'[q][x] = queue[q][y]
              \/ q = ref[th] /\ queue'[q][x] = hand[th]
        BY <1>3, <3>1, OfferedFrames
      <3>3. ASSUME Fresh(hand[th])
            PROVE  \E i \in 0 .. Len(effectTasks) : ref[th] = Link(i) /\ Through(hand[th], i)
        <4>1. PICK i \in 1 .. Len(effectTasks) : HeldAt(th, i)
          BY <1>2, <3>1, <3>3 DEF HeldOnLinks, Busy
        <4>2. i \in 0 .. Len(effectTasks)
          BY OwnLink
        <4>3. ref[th] = Link(i) /\ Through(hand[th], i)
          BY <3>1, <4>1 DEF HeldAt
        <4> QED BY <4>2, <4>3
      <3> QED BY <1>3, <3>2, <3>3
    <2>3. CASE ReadInput(th) \/ LeaveLoop(th) \/ Apply(th) \/ DropFrame(th) \/ ReadOutput(th)
               \/ ApplyThrows(th)
      <3>1. queue' = queue
        BY <2>3 DEF ReadInput, LeaveLoop, Apply, DropFrame, ReadOutput, ApplyThrows
      <3> QED BY <3>1
    <2> QED BY <2>1, <2>2, <2>3 DEF Run
  <1>5. QueuedOnLinks'
    BY <1>1, <1>2, <1>4, QueuesKeep
  <1>6. Steady'
    BY <1>2, ThreadSteady
  <1>7. HeldOnLinks'
    <2>1. CASE Take(th) \/ Apply(th) \/ ReadOutput(th)
      <3>1. Fresh(hand'[th]) => \/ pc'[th] = "apply" /\ interrupted'[th]
                                \/ \E i \in 1 .. Len(effectTasks) : HeldAt(th, i)'
        BY <2>1, TakeFollows, ApplyFollows, ReadOutputFollows
      <3> QED BY <1>1, <1>2, <3>1, OthersKeep
    <2>2. CASE ReadInput(th) \/ LeaveLoop(th) \/ DropFrame(th) \/ Offer(th) \/ ApplyThrows(th)
      <3>1. pc'[th] \notin Busy
        BY <2>2 DEF ReadInput, LeaveLoop, DropFrame, Offer, ApplyThrows, TypeOK, Busy
      <3> QED BY <1>1, <1>2, <3>1, OthersKeep
    <2> QED BY <2>1, <2>2 DEF Run
  <1> QED BY <1>5, <1>6, <1>7 DEF Following

-----------------------------------------------------------------------------
\* The inductive invariant.
EditingInvariant ==
  /\ TypeOK /\ Numbered /\ Wired
  /\ MovingOut /\ BornInTime
  /\ forgotten \/ Following

\* A constructed pipeline has no frame yet.
LEMMA InitEditing == EditingInit => EditingInvariant
  <1> SUFFICES ASSUME EditingInit PROVE EditingInvariant
    OBVIOUS
  <1>1. TypeOK /\ Numbered /\ Wired /\ ReplacedThreadsInterrupted
    BY InitType, InitOwnership DEF EditingInit, Ownership
  <1>2. MovingOut
    BY DEF EditingInit, MovingOut
  <1>3. /\ queue = [q \in Queue |-> <<>>] /\ hand = [th \in Thread |-> NoFrame]
        /\ pc = [th \in Thread |-> IF th <= InitialEffects THEN "new" ELSE "none"]
    BY DEF EditingInit, Init
  <1>4. \A q \in Queue : Len(queue[q]) = 0
    BY <1>3, EmptySeq
  <1>5. \A th \in Thread : hand[th].born = 0 /\ pc[th] \notin Busy /\ pc[th] # "take"
    BY <1>3 DEF NoFrame, Busy
  <1>6. Len(history) \in Nat
    BY <1>1, LenProperties DEF TypeOK
  <1>7. BornInTime /\ QueuedOnLinks /\ HeldOnLinks
    BY <1>4, <1>5, <1>6 DEF BornInTime, QueuedOnLinks, HeldOnLinks
  <1>8. Steady
    <2>1. \A i \in 1 .. Len(effectThreads) : effectThreads[i] \in Thread
      BY <1>1, ElementOfSeq DEF TypeOK
    <2> QED BY <1>5, <2>1 DEF Steady
  <1> QED BY <1>1, <1>2, <1>7, <1>8 DEF EditingInvariant, Following

\* An edit that hands over keeps what follows the links, unless threads have been
\* forgotten before.
LEMMA HandoverKeeps ==
  ASSUME EditingInvariant, TypeOK', Wired', Handover, forgotten' = forgotten
  PROVE  BornInTime' /\ (forgotten' \/ Following')
  <1>1. PICK new \in SUBSET Thread : \E old : HandsOver(new, old)
    BY DEF Handover
  <1>2. PICK old : HandsOver(new, old)
    BY <1>1
  <1>3. history' = Append(history, effectTasks') /\ UNCHANGED <<queue, hand>>
    BY <1>2 DEF HandsOver
  <1>4. TypeOK /\ Wired /\ BornInTime /\ (forgotten \/ Following)
    BY DEF EditingInvariant
  <1>5. BornInTime'
    BY <1>3, <1>4, NothingIsFresh
  <1>6. CASE Following
    BY <1>2, <1>4, <1>5, <1>6, HandedOver
  <1>7. CASE forgotten
    BY <1>5, <1>7
  <1> QED BY <1>4, <1>6, <1>7

\* The calls that are no edits, and the threads, leave the chain alone.
LEMMA OthersKeepChain ==
  ASSUME TypeOK, Numbered, Wired,
         Start \/ Stop \/ Frames \/ \E th \in Thread : Run(th) \/ ApplyThrows(th)
  PROVE  /\ TypeOK' /\ Numbered' /\ Wired'
         /\ UNCHANGED <<effectTasks, created>>
         /\ ReplacedThreadsInterrupted => ReplacedThreadsInterrupted'
  <1>1. UNCHANGED <<effectTasks, effectThreads, inputQueue, outputQueue, taskOf, created>>
    BY DEF Start, Startable, Stop, Frames, AddFrame, GetFrame, Run, ReadInput, Take, LeaveLoop,
           Apply, DropFrame, ReadOutput, Offer, ApplyThrows, pipelineVars
  <1>2. Wired'
    BY <1>1 DEF Wired
  <1>3. \A th \in Thread : pc'[th] # "none" => pc[th] # "none"
    BY DEF Start, Startable, Stop, Frames, AddFrame, GetFrame, Run, ReadInput, Take, LeaveLoop,
           Apply, DropFrame, ReadOutput, Offer, ApplyThrows, TypeOK
  <1>4. Numbered'
    BY <1>1, <1>3 DEF Numbered
  <1>5. TypeOK'
    BY CallType, ThreadType
  <1>6. ReplacedThreadsInterrupted => ReplacedThreadsInterrupted'
    BY OtherStepsKeepOwnership DEF Ownership
  <1> QED BY <1>1, <1>2, <1>4, <1>5, <1>6

\* The calls that are no edits, and the threads, hand over the frames they find,
\* and new frames carry the number of the list in force.
LEMMA OthersBorn ==
  ASSUME TypeOK, BornInTime,
         Start \/ Stop \/ Frames \/ \E th \in Thread : Run(th) \/ ApplyThrows(th)
  PROVE  BornInTime'
  <1>1. history' = history
    BY DEF Start, Stop, Frames, AddFrame, GetFrame, Run, ReadInput, Take, LeaveLoop,
           Apply, DropFrame, ReadOutput, Offer, ApplyThrows, pipelineVars
  <1>2. CASE Start
    BY <1>1, <1>2 DEF Start, BornInTime
  <1>3. CASE Stop
    <2>1. /\ \A q \in {Unprocessed, Processed} : queue'[q] = <<>>
          /\ \A q \in Queue \ {Unprocessed, Processed} : queue'[q] = queue[q]
          /\ hand' = hand
      BY <1>3, EndQueues DEF Stop, TypeOK
    <2>2. \A q \in {Unprocessed, Processed} : Len(queue'[q]) = 0
      BY <2>1, EmptySeq
    <2> QED BY <1>1, <2>1, <2>2 DEF BornInTime
  <1>4. CASE GetFrame
    <2>1. /\ queue[Processed] # <<>> /\ queue' = [queue EXCEPT ![Processed] = Tail(@)]
          /\ hand' = hand
      BY <1>4 DEF GetFrame
    <2>2. \A q \in Queue : \A x \in 1 .. Len(queue'[q]) :
            \E y \in 1 .. Len(queue[q]) : queue'[q][x] = queue[q][y]
      BY <2>1, EndQueues, TakenFrames
    <2> QED BY <1>1, <2>1, <2>2 DEF BornInTime
  <1>5. CASE AddFrame
    <2> DEFINE f == [id |-> count.frames + 1, born |-> Len(history), applied |-> <<>>]
    <2>0. Len(history) \in Nat /\ count.frames + 1 \in Nat /\ <<>> \in Seq(Task)
      BY EmptySeq, LenProperties, CountersAreNumbers DEF TypeOK
    <2>1. f \in Frame /\ f.born = Len(history) /\ Len(history) \in Nat
      BY <2>0 DEF Frame
    <2>2. queue' = Offered(Unprocessed, f) /\ hand' = hand
      BY <1>5 DEF AddFrame
    <2> HIDE DEF f
    <2>3. \A q \in Queue : \A x \in 1 .. Len(queue'[q]) :
            \/ \E y \in 1 .. Len(queue[q]) : queue'[q][x] = queue[q][y]
            \/ q = Unprocessed /\ queue'[q][x] = f
      BY <2>1, <2>2, EndQueues, OfferedFrames
    <2> QED BY <1>1, <2>1, <2>2, <2>3 DEF BornInTime
  <1>6. ASSUME NEW th \in Thread, Run(th) \/ ApplyThrows(th) PROVE BornInTime'
    <2>1. \A o \in Thread \ {th} : hand'[o] = hand[o]
      BY <1>6 DEF Run, ReadInput, Take, LeaveLoop, Apply, DropFrame, ReadOutput, Offer,
                  ApplyThrows, TypeOK
    <2>2. hand[th] \in Frame /\ ref[th] \in Queue /\ hand[th].born <= Len(history)
      BY DEF TypeOK, BornInTime
    <2>3. \A q \in Queue : \A x \in 1 .. Len(queue'[q]) :
            \/ \E y \in 1 .. Len(queue[q]) : queue'[q][x] = queue[q][y]
            \/ queue'[q][x] = hand[th]
      <3>1. CASE Take(th)
        <4>1. queue[ref[th]] # <<>> /\ queue' = [queue EXCEPT ![ref[th]] = Tail(@)]
          BY <3>1 DEF Take
        <4> QED BY <2>2, <4>1, TakenFrames
      <3>2. CASE Offer(th)
        <4>1. queue' = Offered(ref[th], hand[th])
          BY <3>2 DEF Offer
        <4> QED BY <2>2, <4>1, OfferedFrames
      <3>3. CASE ReadInput(th) \/ LeaveLoop(th) \/ Apply(th) \/ DropFrame(th) \/ ReadOutput(th)
                 \/ ApplyThrows(th)
        <4>1. queue' = queue
          BY <3>3 DEF ReadInput, LeaveLoop, Apply, DropFrame, ReadOutput, ApplyThrows
        <4> QED BY <4>1
      <3> QED BY <1>6, <3>1, <3>2, <3>3 DEF Run
    <2>4. hand'[th].born <= Len(history)
      <3>1. CASE Take(th)
        <4>1. /\ queue[ref[th]] # <<>> /\ queue' = [queue EXCEPT ![ref[th]] = Tail(@)]
              /\ hand'[th] = Head(queue[ref[th]])
          BY <3>1 DEF Take, TypeOK
        <4>2. 1 \in 1 .. Len(queue[ref[th]]) /\ Head(queue[ref[th]]) = queue[ref[th]][1]
          BY <2>2, <4>1, TakenFrames
        <4> QED BY <2>2, <4>1, <4>2 DEF BornInTime
      <3>2. CASE DropFrame(th) \/ Offer(th) \/ ApplyThrows(th)
        <4>1. hand'[th] = NoFrame
          BY <3>2 DEF DropFrame, Offer, ApplyThrows, TypeOK
        <4>2. Len(history) \in Nat
          BY LenProperties DEF TypeOK
        <4> QED BY <4>1, <4>2 DEF NoFrame
      <3>3. CASE Apply(th)
        <4>1. hand'[th] = [hand[th] EXCEPT !.applied = Append(@, taskOf[th])]
          BY <3>3 DEF Apply, TypeOK
        <4>2. hand'[th].born = hand[th].born
          BY <2>2, <4>1 DEF Frame
        <4> QED BY <2>2, <4>2
      <3>4. CASE ReadInput(th) \/ LeaveLoop(th) \/ ReadOutput(th)
        BY <2>2, <3>4 DEF ReadInput, LeaveLoop, ReadOutput
      <3> QED BY <1>6, <3>1, <3>2, <3>3, <3>4 DEF Run
    <2>5. ASSUME NEW o \in Thread PROVE hand'[o].born <= Len(history)
      <3>1. CASE o = th
        BY <2>4, <3>1
      <3>2. CASE o # th
        BY <2>1, <3>2 DEF BornInTime
      <3> QED BY <3>1, <3>2
    <2>6. ASSUME NEW q \in Queue, NEW x \in 1 .. Len(queue'[q])
          PROVE  queue'[q][x].born <= Len(history)
      BY <2>2, <2>3 DEF BornInTime
    <2> QED BY <1>1, <2>5, <2>6 DEF BornInTime
  <1> QED BY <1>2, <1>3, <1>4, <1>5, <1>6 DEF Frames

\* Every step keeps the invariant.
LEMMA StepKeepsEditing ==
  ASSUME EditingInvariant, [EditingNext]_editVars
  PROVE  EditingInvariant'
  <1>1. /\ TypeOK /\ Numbered /\ Wired /\ MovingOut /\ BornInTime
        /\ forgotten \/ Following
    BY DEF EditingInvariant
  <1>2. CASE moving = AtRest /\ (Edit \/ InsertFirst) /\ UNCHANGED <<moving, forgotten>>
    <2>1. TypeOK' /\ Wired' /\ Numbered' /\ Handover
      BY <1>1, <1>2, EditKeeps, InsertFirstKeeps
    <2>2. MovingOut'
      BY <1>2 DEF MovingOut
    <2> QED BY <1>2, <2>1, <2>2, HandoverKeeps DEF EditingInvariant
  <1>3. CASE moving = AtRest /\ RemoveEffect /\ UNCHANGED <<moving, forgotten>>
    <2>1. PICK i \in 0 .. Len(effectTasks) - 1 : RemoveEffectAt(i)
      BY <1>3 DEF RemoveEffect
    <2>2. TypeOK' /\ Wired' /\ Numbered' /\ Handover
      BY <1>1, <2>1, RemoveKeeps
    <2>3. MovingOut'
      BY <1>3 DEF MovingOut
    <2> QED BY <1>3, <2>2, <2>3, HandoverKeeps DEF EditingInvariant
  <1>4. CASE moving = AtRest /\ InsertBetween /\ UNCHANGED moving
    <2>1. /\ TypeOK' /\ Wired' /\ Numbered' /\ forgotten'
          /\ history' = Append(history, effectTasks') /\ UNCHANGED <<queue, hand>>
      BY <1>1, <1>4, InsertBetweenKeeps
    <2>2. BornInTime'
      BY <1>1, <2>1, NothingIsFresh
    <2>3. MovingOut'
      BY <1>4 DEF MovingOut
    <2> QED BY <2>1, <2>2, <2>3 DEF EditingInvariant
  <1>5. CASE moving = AtRest /\ StartMove /\ UNCHANGED forgotten
    <2>1. PICK i \in 0 .. Len(effectTasks) - 1, to \in 0 .. Len(effectTasks) :
            RemoveEffectAt(i) /\ moving' = [task |-> effectTasks[i + 1], to |-> to]
      BY <1>5 DEF StartMove
    <2>2. /\ TypeOK' /\ Wired' /\ Numbered' /\ Handover
          /\ effectTasks[i + 1] \in Task /\ effectTasks[i + 1] <= created'.tasks
          /\ effectTasks' # <<>>
          /\ \A j \in 1 .. Len(effectTasks') : effectTasks'[j] # effectTasks[i + 1]
      BY <1>1, <2>1, RemoveKeeps
    <2>3. moving'.task = effectTasks[i + 1] /\ moving'.to = to /\ to \in Nat
      BY <2>1
    <2>4. MovingOut'
      BY <2>2, <2>3 DEF MovingOut
    <2> QED BY <1>5, <2>2, <2>4, HandoverKeeps DEF EditingInvariant
  <1>6. CASE FinishMove
    <2>1. /\ TypeOK' /\ Wired' /\ Numbered' /\ MovingOut'
          /\ history' = Append(history, effectTasks') /\ UNCHANGED <<queue, hand>>
          /\ forgotten' \/ (forgotten' = forgotten /\ Handover)
      BY <1>1, <1>6, FinishMoveKeeps
    <2>2. BornInTime'
      BY <1>1, <2>1, NothingIsFresh
    <2>3. forgotten' \/ Following'
      BY <2>1, HandoverKeeps
    <2> QED BY <2>1, <2>2, <2>3 DEF EditingInvariant
  <1>7. CASE (Start \/ Stop \/ Frames \/ Threads) /\ UNCHANGED <<moving, forgotten>>
    <2>1. /\ TypeOK' /\ Numbered' /\ Wired' /\ UNCHANGED <<effectTasks, created>>
          /\ ReplacedThreadsInterrupted => ReplacedThreadsInterrupted'
      BY <1>1, <1>7, OthersKeepChain DEF Threads
    <2>2. MovingOut'
      BY <1>1, <1>7, <2>1 DEF MovingOut
    <2>3. BornInTime'
      BY <1>1, <1>7, OthersBorn DEF Threads
    <2>4. ASSUME Following PROVE Following'
      <3>1. ReplacedThreadsInterrupted'
        BY <2>1, <2>4 DEF Following
      <3>2. CASE Start \/ Stop \/ Frames
        BY <1>1, <2>4, <3>1, <3>2, StartFollows, CallFollows
      <3>3. CASE Threads
        <4>1. PICK th \in Thread : Run(th) \/ ApplyThrows(th)
          BY <3>3 DEF Threads
        <4> QED BY <1>1, <2>4, <3>1, <4>1, ThreadFollows
      <3> QED BY <1>7, <3>2, <3>3
    <2>5. forgotten' \/ Following'
      BY <1>1, <1>7, <2>4
    <2> QED BY <2>1, <2>2, <2>3, <2>5 DEF EditingInvariant
  <1>8. CASE UNCHANGED editVars
    <2>1. UNCHANGED <<running, effectTasks, effectThreads, inputQueue, outputQueue, taskOf,
                      created, history, queue, pc, interrupted, ref, hand, count, moving, forgotten>>
      BY <1>8 DEF editVars, vars, pipelineVars
    <2>2. TypeOK'
      BY <1>1, <2>1 DEF TypeOK
    <2>3. Numbered' /\ Wired' /\ MovingOut' /\ BornInTime'
      BY <1>1, <2>1 DEF Numbered, Wired, MovingOut, BornInTime
    <2>4. ASSUME Following PROVE Following'
      <3>1. ReplacedThreadsInterrupted' /\ Steady'
        BY <2>1, <2>4 DEF Following, ReplacedThreadsInterrupted, Steady
      <3>2. QueuedOnLinks'
        BY <2>1, <2>4 DEF Following, QueuedOnLinks, Fresh, Through, Link
      <3>3. HeldOnLinks'
        BY <2>1, <2>4 DEF Following, HeldOnLinks, HeldAt, Fresh, Through, Link
      <3> QED BY <3>1, <3>2, <3>3 DEF Following
    <2> QED BY <1>1, <2>1, <2>2, <2>3, <2>4 DEF EditingInvariant
  <1> QED BY <1>2, <1>3, <1>4, <1>5, <1>6, <1>7, <1>8 DEF EditingNext, Owner

THEOREM EditingIsInvariant == EditingSpec => []EditingInvariant
  <1>1. EditingInit => EditingInvariant
    BY InitEditing
  <1>2. EditingInvariant /\ [EditingNext]_editVars => EditingInvariant'
    BY StepKeepsEditing
  <1> QED BY <1>1, <1>2, PTL DEF EditingSpec

\* Whatever effects are inserted, removed and moved by their index, the list of
\* effects stays one chain of queues from unprocessed to processed
\* (Pipeline.addEffect(index, effect), removeEffect, moveEffect).
THEOREM EditedChainWired == EditingSpec => []Wired
  <1>1. EditingInvariant => Wired
    BY DEF EditingInvariant
  <1> QED BY <1>1, EditingIsInvariant, PTL

\* As long as no insertion between two effects has forgotten threads, a frame
\* that was offered since the last edit and is processed went through all
\* effects of the list in their order: no thread of an earlier wiring gets hold
\* of it, and no effect is passed over.
THEOREM EditsHold == EditingSpec => []EditsTakeEffect
  <1>1. EditingInvariant => EditsTakeEffect
    <2> SUFFICES ASSUME EditingInvariant, ~forgotten, NEW x \in 1 .. Len(queue[Processed]),
                        queue[Processed][x].born = Len(history)
                 PROVE  queue[Processed][x].applied = effectTasks
      BY DEF EditsTakeEffect, AddedAtIndex
    <2> DEFINE f == queue[Processed][x]
               n == Len(effectTasks)
    <2>1. TypeOK /\ Numbered /\ Wired /\ QueuedOnLinks
      BY DEF EditingInvariant, Following
    <2>2. PICK i \in 0 .. n : Processed = Link(i) /\ Through(f, i)
      BY <2>1, EndQueues DEF QueuedOnLinks, Fresh
    <2>3. n \in Nat /\ Link(0) = Unprocessed /\ (n > 0 => Link(n) = Processed)
      BY <2>1, Chain
    <2>4. Unprocessed # Processed
      BY DEF Unprocessed, Processed
    <2>5. n \in 0 .. n /\ Link(i) = Link(n)
      BY <2>2, <2>3, <2>4
    <2>6. i = n
      BY <2>1, <2>5, LinkOnce
    <2>7. Len(f.applied) = Len(effectTasks) /\ \A m \in 1 .. Len(f.applied) : f.applied[m] = effectTasks[m]
      BY <2>2, <2>6 DEF Through
    <2>8. f \in Frame
      <3>1. queue[Processed] \in Seq(Frame)
        BY <2>1, EndQueues DEF TypeOK
      <3> QED BY <3>1, ElementOfSeq
    <2>9. f.applied \in Seq(Task) /\ effectTasks \in Seq(Task)
      BY <2>1, <2>8 DEF Frame, TypeOK
    <2> QED BY <2>7, <2>9, SeqEqual
  <1> QED BY <1>1, EditingIsInvariant, PTL

(***************************************************************************)
(* The camera loop of the phone that applies the effects itself.           *)
(***************************************************************************)

\* A step of the camera loop is a step of the pipeline or leaves it alone.
LEMMA CameraStepIsPipelineStep == [CameraNext]_cameraVars => [Next]_vars
  <1> SUFFICES ASSUME [CameraNext]_cameraVars PROVE [Next]_vars
    OBVIOUS
  <1>1. CASE ViewStarted \/ ViewStopped
    BY <1>1 DEF ViewStarted, ViewStopped, Next
  <1>2. CASE OnCameraFrame \/ ShowProcessed
    BY <1>2 DEF OnCameraFrame, ShowProcessed, Frames, Next
  <1>3. CASE ShowOriginal \/ FindReady \/ UNCHANGED cameraVars
    BY <1>3 DEF ShowOriginal, FindReady, cameraVars
  <1>4. CASE EditFromMenu
    BY <1>4 DEF EditFromMenu, Next
  <1>5. CASE \E th \in Thread : (Run(th) \/ ApplyThrows(th)) /\ UNCHANGED <<camera, shown>>
    BY <1>5 DEF Next
  <1> QED BY <1>1, <1>2, <1>3, <1>4, <1>5 DEF CameraNext, Camera

\* The camera loop is one of the environments of the pipeline.
THEOREM CameraDrivesPipeline == CameraSpec => Spec
  <1>1. CameraInit => Init
    BY DEF CameraInit
  <1> QED BY <1>1, CameraStepIsPipelineStep, PTL DEF CameraSpec, Spec

\* No effect reads the processed queue, and no thread waits in its take().
NoEffectReadsProcessed ==
  /\ \A t \in Task : inputQueue[t] # Processed
  /\ \A th \in Thread : pc[th] = "take" => ref[th] # Processed

LEMMA InitReads == Init => NoEffectReadsProcessed
  BY DEF Init, NoEffectReadsProcessed, Unprocessed, Processed

\* Edits give effects the unprocessed queue or a queue of their own to read.
LEMMA StepReads ==
  ASSUME TypeOK, Numbered, NoEffectReadsProcessed, [Next]_vars
  PROVE  NoEffectReadsProcessed'
  <1> USE DEF NoEffectReadsProcessed
  <1>1. Unprocessed # Processed /\ NewQueue # Processed
    BY NewAreNumbers DEF Unprocessed, Processed
  <1>2. CASE Edit
    <2>1. \A t \in Task : inputQueue'[t] # Processed
      BY <1>1, <1>2 DEF Edit, AddFirstEffect, AddEffect, AppendTask, ClearEffects, TypeOK
    <2>2. \A th \in Thread : pc'[th] = "take" => pc[th] = "take" /\ ref'[th] = ref[th]
      BY <1>2 DEF Edit, AddFirstEffect, AddEffect, AppendTask, ClearEffects, Launched, TypeOK
    <2> QED BY <2>1, <2>2
  <1>3. CASE Start \/ Stop \/ Frames \/ UNCHANGED vars
    BY <1>3 DEF Start, Startable, Stop, Frames, AddFrame, GetFrame, pipelineVars, vars, TypeOK
  <1>4. CASE \E th \in Thread : Run(th) \/ ApplyThrows(th)
    <2> PICK th \in Thread : Run(th) \/ ApplyThrows(th)
      BY <1>4
    <2>1. CASE ReadInput(th)
      BY <2>1 DEF ReadInput, Numbered, TypeOK, pipelineVars
    <2>2. CASE \/ Take(th) \/ LeaveLoop(th) \/ Apply(th) \/ DropFrame(th)
               \/ ReadOutput(th) \/ Offer(th) \/ ApplyThrows(th)
      BY <2>2 DEF Take, LeaveLoop, Apply, DropFrame, ReadOutput, Offer, ApplyThrows,
                  TypeOK, pipelineVars
    <2> QED BY <2>1, <2>2 DEF Run
  <1> QED BY <1>2, <1>3, <1>4 DEF Next

\* Only getFrame and stop() take frames out of the processed queue: a step of
\* the pipeline that is neither leaves it non-empty.
LEMMA ProcessedStays ==
  ASSUME TypeOK, queue[Processed] # <<>>,
         Edit \/ Start \/ AddFrame \/ \E th \in Thread : Run(th) \/ ApplyThrows(th),
         NoEffectReadsProcessed
  PROVE  queue'[Processed] # <<>>
  <1>1. CASE Edit \/ Start
    BY <1>1 DEF Edit, AddFirstEffect, AddEffect, AppendTask, ClearEffects, Start
  <1>2. ASSUME NEW q \in Queue, NEW f \in Frame, queue' = Offered(q, f)
        PROVE  queue'[Processed] # <<>>
    <2>1. queue[q] \in Seq(Frame) /\ Append(queue[q], f) # <<>>
      <3>1. queue[q] \in Seq(Frame)
        BY DEF TypeOK
      <3>2. Len(Append(queue[q], f)) = Len(queue[q]) + 1 /\ Len(queue[q]) \in Nat
        BY <3>1, Appended, LenProperties
      <3> QED BY <3>1, <3>2, EmptySeq
    <2> QED BY <1>2, <2>1, EndQueues DEF Offered, TypeOK
  <1>3. CASE AddFrame
    <2> DEFINE f == [id |-> count.frames + 1, born |-> Len(history), applied |-> <<>>]
    <2>1. f \in Frame
      <3>1. count.frames + 1 \in Nat /\ Len(history) \in Nat
        BY CountersAreNumbers, LenProperties DEF TypeOK
      <3> QED BY <3>1, EmptySeq DEF Frame
    <2>2. queue' = Offered(Unprocessed, f)
      BY <1>3 DEF AddFrame
    <2> HIDE DEF f
    <2> QED BY <1>2, <2>1, <2>2, EndQueues
  <1>4. CASE \E th \in Thread : Run(th) \/ ApplyThrows(th)
    <2> PICK th \in Thread : Run(th) \/ ApplyThrows(th)
      BY <1>4
    <2>1. CASE Take(th)
      BY <2>1, EndQueues DEF Take, TypeOK, NoEffectReadsProcessed
    <2>2. CASE Offer(th)
      BY <1>2, <2>2 DEF Offer, TypeOK
    <2>3. CASE \/ ReadInput(th) \/ LeaveLoop(th) \/ Apply(th) \/ DropFrame(th)
               \/ ReadOutput(th) \/ ApplyThrows(th)
      BY <2>3 DEF ReadInput, LeaveLoop, Apply, DropFrame, ReadOutput, ApplyThrows
    <2> QED BY <2>1, <2>2, <2>3 DEF Run
  <1> QED BY <1>1, <1>2, <1>3, <1>4

\* Whatever size() found in the processed queue is still there at the call of
\* take(): the camera thread never waits in getFrame, for every capacity and
\* every list of effects.
THEOREM CameraAlwaysGetsAnAnswer == CameraSpec => []CameraNeverWaits
  <1>1. CameraInit => NoEffectReadsProcessed /\ CameraNeverWaits
    BY InitReads DEF CameraInit, CameraNeverWaits
  <1>2. /\ TypeOK /\ Ownership /\ NoEffectReadsProcessed /\ CameraNeverWaits
        /\ [CameraNext]_cameraVars
        => NoEffectReadsProcessed' /\ CameraNeverWaits'
    <2> SUFFICES ASSUME TypeOK, Ownership, NoEffectReadsProcessed, CameraNeverWaits,
                        [CameraNext]_cameraVars
                 PROVE  NoEffectReadsProcessed' /\ CameraNeverWaits'
      OBVIOUS
    <2>1. NoEffectReadsProcessed'
      BY StepReads, CameraStepIsPipelineStep DEF Ownership
    <2> SUFFICES CameraNeverWaits'
      BY <2>1
    <2> USE DEF CameraNeverWaits
    <2>2. CASE ViewStarted
      BY <2>2, ProcessedStays DEF ViewStarted
    <2>3. CASE EditFromMenu
      BY <2>3, ProcessedStays DEF EditFromMenu
    <2>4. CASE \E th \in Thread : (Run(th) \/ ApplyThrows(th)) /\ UNCHANGED <<camera, shown>>
      <3>1. (\E th \in Thread : Run(th) \/ ApplyThrows(th)) /\ camera' = camera
        BY <2>4
      <3> QED BY <3>1, ProcessedStays
    <2>5. CASE ViewStopped \/ OnCameraFrame
      BY <2>5 DEF ViewStopped, OnCameraFrame
    <2>6. CASE ShowOriginal \/ ShowProcessed
      BY <2>6 DEF ShowOriginal, ShowProcessed
    <2>7. CASE FindReady \/ UNCHANGED cameraVars
      BY <2>7 DEF FindReady, cameraVars, vars
    <2> QED BY <2>1, <2>2, <2>3, <2>4, <2>5, <2>6, <2>7 DEF CameraNext, Camera
  <1> QED BY <1>1, <1>2, CameraDrivesPipeline, OwnershipInvariant, PTL DEF CameraSpec

-----------------------------------------------------------------------------
\* The picture on the screen has been offered, under a list that there has been,
\* and every fresh frame that may still be shown was offered after it.
ScreenBehind ==
  /\ shown.id <= count.frames /\ shown.born <= Len(history)
  /\ Fresh(shown) => Later(shown.id)

\* How the numbers of frames and lists go on.
LEMMA NumbersGrow ==
  ASSUME TypeOK, [Service!Next]_(Service!serviceVars)
  PROVE  /\ count.frames \in Nat /\ count'.frames \in {count.frames, count.frames + 1}
         /\ Len(history) \in Nat /\ Len(history') \in {Len(history), Len(history) + 1}
  <1>1. count.frames \in Nat /\ Len(history) \in Nat
    BY ReadyTypes
  <1> QED BY <1>1 DEF Service!Next, Service!Configure, Service!Accept, Service!Lose, Service!Flush,
             Service!Fetch, Service!Deliver, Service!serviceVars

\* getFrame takes a frame that comes after the one on the screen, and before all
\* that follow.
LEMMA ScreenStep ==
  ASSUME CameraTypeOK, TypeOK', InService, InOrder, ScreenBehind,
         [Service!Next]_(Service!serviceVars), [CameraNext]_cameraVars
  PROVE  /\ shown' \in Frame
         /\ ScreenBehind'
         /\ shown' # shown /\ Fresh(shown) /\ Fresh(shown') => shown.id < shown'.id
  <1>1. /\ shown \in Frame /\ shown.id \in Nat /\ shown.born \in Nat /\ TypeOK
    BY FrameFields DEF CameraTypeOK
  <1>2. CASE shown' = shown
    <2>1. shown.id <= count'.frames /\ shown.born <= Len(history')
      BY <1>1, NumbersGrow DEF ScreenBehind
    <2>2. shown.born = Len(history') => Fresh(shown)
      BY <1>1, NumbersGrow DEF ScreenBehind, Fresh
    <2>3. Fresh(shown) => Later(shown.id)'
      <3> DEFINE n == shown.id
      <3>1. n \in Nat /\ n <= count.frames /\ (Fresh(shown) => Later(n))
        BY <1>1 DEF ScreenBehind
      <3>2. \A m \in Nat : m <= count.frames /\ Later(m) => Later(m)'
        BY <1>1, LaterStays
      <3>3. \A m : m = n /\ Later(m)' => Later(shown.id)'
        BY <1>2 DEF Later, n
      <3> QED BY <3>1, <3>2, <3>3
    <2> QED BY <1>1, <1>2, <2>1, <2>2, <2>3 DEF ScreenBehind, Fresh
  <1>3. CASE shown' # shown
    <2>1. GetFrame /\ shown' = Head(queue[Processed])
      BY <1>3 DEF CameraNext, ViewStarted, ViewStopped, Camera, OnCameraFrame, ShowOriginal,
                  FindReady, ShowProcessed, EditFromMenu, cameraVars
    <2>2. Service!Fetch
      BY <1>1, <2>1, GetService
    <2>3. /\ 1 \in 1 .. Len(queue[Processed])
          /\ shown' = queue[Processed][1] /\ shown' \in Frame
      BY <1>1, <2>1, <2>2, FetchLeaves
    <2>4. /\ history' = history /\ count' = count
      BY <2>1 DEF GetFrame, pipelineVars
    <2>5. shown'.id <= count.frames /\ shown'.born <= Len(history)
      <3>1. shown'.id \in 1 .. count.frames /\ shown'.born \in 1 .. Len(history)
        BY <2>3 DEF InService
      <3> QED BY <1>1, <3>1, ReadyTypes
    <2>6. Fresh(shown') => Later(shown.id)'
      <3>1. \A m : m = Head(queue[Processed]).id /\ Fresh(Head(queue[Processed])) => Later(m)'
        BY <1>1, <2>2, LaterThanFetched
      <3>2. \A m : m = shown'.id /\ Later(m)' => Later(shown.id)'
        BY DEF Later
      <3> QED BY <2>1, <3>1, <3>2
    <2>7. Fresh(shown) /\ Fresh(shown') => shown.id < shown'.id
      BY <2>3 DEF ScreenBehind, Later
    <2> QED BY <2>3, <2>4, <2>5, <2>6, <2>7 DEF ScreenBehind, Fresh
  <1> QED BY <1>2, <1>3

\* Everything that is proved of the pipeline, for the pipeline in the camera loop.
LEMMA CameraKeepsPipeline ==
  CameraSpec => /\ [](TypeOK /\ Ownership) /\ [](FramesNumbered /\ OneOwner)
                /\ []Listed /\ []Ordered /\ []InService /\ []InOrder
  BY CameraDrivesPipeline, OwnershipInvariant, NumberedInvariant, ListedInvariant,
     OrderedInvariant, ServiceInvariant, FramesInOrder, PTL

\* The inductive invariant of the screen.
THEOREM ScreenInvariant == CameraSpec => [](CameraTypeOK /\ ScreenBehind)
  <1>1. CameraInit /\ TypeOK /\ Listed => CameraTypeOK /\ ScreenBehind
    <2> SUFFICES ASSUME CameraInit, TypeOK, Listed PROVE CameraTypeOK /\ ScreenBehind
      OBVIOUS
    <2>1. shown = NoFrame /\ shown.id = 0 /\ shown.born = 0 /\ camera = "idle"
      BY DEF CameraInit, NoFrame
    <2>2. count.frames \in Nat /\ Len(history) \in Nat /\ Len(history) >= 1
      BY ReadyTypes DEF Listed, Lineage
    <2> QED BY <2>1, <2>2, NoFrameIsFrame DEF CameraTypeOK, ScreenBehind, Fresh
  <1>2. /\ TypeOK /\ Ownership /\ (FramesNumbered /\ OneOwner) /\ Listed /\ Ordered
        /\ InService /\ InOrder /\ TypeOK' /\ CameraTypeOK /\ ScreenBehind
        /\ [CameraNext]_cameraVars
        => CameraTypeOK' /\ ScreenBehind'
    <2> SUFFICES ASSUME TypeOK, Ownership, FramesNumbered, OneOwner, Listed, Ordered,
                        InService, InOrder, TypeOK', CameraTypeOK, ScreenBehind,
                        [CameraNext]_cameraVars
                 PROVE  CameraTypeOK' /\ ScreenBehind'
      OBVIOUS
    <2>1. [Service!Next]_(Service!serviceVars)
      BY CameraStepIsPipelineStep, StepService
    <2>2. camera' \in {"idle", "added", "ready"}
      BY DEF CameraTypeOK, CameraNext, ViewStarted, ViewStopped, Camera, OnCameraFrame,
             ShowOriginal, FindReady, ShowProcessed, EditFromMenu, cameraVars
    <2> QED BY <2>1, <2>2, ScreenStep DEF CameraTypeOK
  <1> QED BY <1>1, <1>2, CameraKeepsPipeline, PTL DEF CameraSpec

\* Every variable of the camera loop keeps its type.
THEOREM CameraTypeCorrect == CameraSpec => []CameraTypeOK
  BY ScreenInvariant, PTL

\* The pictures of one list of effects come in their order: of two frames offered
\* since the last edit the later one on the screen is the later picture, with
\* stop(), full queues and effects that throw at any moment.  Of frames offered
\* before an edit nothing is said: they may come late, or be overtaken.
THEOREM PicturesOfOneListInOrder == CameraSpec => ShownInOrder
  <1>1. /\ TypeOK /\ Ownership /\ (FramesNumbered /\ OneOwner) /\ Listed /\ Ordered
        /\ InService /\ InOrder /\ TypeOK' /\ CameraTypeOK /\ ScreenBehind
        /\ [CameraNext]_cameraVars
        => [(shown.born = Len(history) /\ shown'.born = Len(history))
              => shown.id < shown'.id]_shown
    <2> SUFFICES ASSUME TypeOK, Ownership, FramesNumbered, OneOwner, Listed, Ordered,
                        InService, InOrder, TypeOK', CameraTypeOK, ScreenBehind,
                        [CameraNext]_cameraVars
                 PROVE  \/ (shown.born = Len(history) /\ shown'.born = Len(history))
                              => shown.id < shown'.id
                        \/ shown' = shown
      OBVIOUS
    <2>1. [Service!Next]_(Service!serviceVars)
      BY CameraStepIsPipelineStep, StepService
    <2> QED BY <2>1, ScreenStep DEF Fresh
  <1> QED BY <1>1, CameraKeepsPipeline, ScreenInvariant, PTL DEF CameraSpec, ShownInOrder
=============================================================================
