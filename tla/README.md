# Verification of the offloading video editor

The program under `src/` puts effects on the camera picture of a phone, on the
phone itself or on a server.  This directory holds TLA+ modules that model its
concurrent core, the TLC runs that check them on small instances, and proofs
that TLAPS checks for every instance.

`C/` below is `src/android-video-editor/src/com/cs4911/video_editor/`, `S/` is
`src/android-video-editor-server/src/com/cs4911/video_editor/`, and `J/` is
`src/android-video-editor/jni/`.

## The system

| Part | State | Operations | Talks to |
|---|---|---|---|
| `Pipeline`, `LocalEffectTask`, `EffectTask` (`C/pipeline`, the same in `S/pipeline`) | the lists of tasks and threads, `running`, the two queue fields of every task | `start`, `stop`, `addEffect`, `addEffect(index)`, `removeEffect`, `moveEffect`, `clearEffects`; one thread for each task that takes, applies and offers | the `FrameProcessor` that owns the end queues; effect threads over bounded `LinkedBlockingQueue`s |
| `FrameProcessor` of the server | two queues of 20, one pipeline | `addFrame`, `getFrame` (blocks), `addEffect`, `clearEffects`, `start`, `stop` | called by the handler threads of the server |
| `Server.TestProtocolImpl` | one `FrameProcessor` for all connections | `addFrames`, `add...Effect`, `clearEffects` | Avro over Netty |
| `FrameProcessor` of the phone, `ImageProcessor` | two queues of 2, `originalFrame`, `frameBuffer`, `numFrames` | `addFrame`, `getFrame`, `addEffect`, `clearEffects`, `handleResult`, `handleError` | camera thread, user interface thread, the callback thread of Netty |
| `CloudClient` | the transceiver and the `client` proxy, null until connected | the RPCs, `addFrames` with a callback, the others synchronous | the server |
| `VideoViewingActivity`, `PipelineEditingActivity` | the current `ImageProcessor`, the list of effects being edited | lifecycle callbacks, menus | `ImageProcessor` |
| `BandwidthMeasurement`, `J/main.c`, `J/iperf_*` | one native test object, its control state, its streams and timers | a bandwidth test against an iperf server | `CloudClient`, an iperf server |
| effects | the pixels; `MotionHistoryEffect` keeps frames | `applyTo` | effect threads, OpenCV |

What is hard: a pipeline is edited while its threads run, with `interrupt()` as
the only means to end one; queues drop frames when they are full; the answer to
a request is as many frames as it had, taken from a queue that all requests
share; RPCs have no timeout; three threads share the frame processor of the
phone.  In the bandwidth test, client and server follow each other over a
connection whose messages have no tags, a network may cut or lose what they
send, timers run out while messages arrive, and two threads of the phone start
tests on one native object.

## What makes each part correct

* **Pipeline.** The effects form one chain of queues from the unprocessed to the
  processed queue, whatever was edited (`Wired`).  A thread that an edit has
  replaced ends (`ReplacedThreadsInterrupted`, `InterruptedThreadsEnd`), because
  two threads that serve one queue would change the order of the frames.  A
  `Mat` is changed in place, so it is in one place only (`OneOwner`).  Frames
  come out in their order (`InOrder`), each treated with one list of effects that
  the pipeline had while the frame was in it (`AppliedOneList`), an edit holds
  for the frames that follow (`EditsTakeEffect`; insertion between two effects does
  not), and no frame waits for ever in front of an effect (`StagesConsume`).
* **Server.** A request is answered with its own frames in their order
  (`AnswersOwnFrames`), leaves nothing for the next one (`NoLeftovers`), and is
  answered (`CallsReturn`, or `CallsReturnUnlessLost` where that fails).
* **Phone, local mode.** The camera thread never waits for an effect
  (`CameraNeverWaits`), the pictures of one list of effects come in their order
  (`ShownInOrder`).
* **Phone, cloud mode.** Phone and server have the same list (`ListsAgree`), the
  frames under way are counted (`FramesAccounted`), an edit that has returned
  holds (`ShownTreated`), results are shown in order (`ScreenInOrder`), and an
  edit gives the user interface back (`EditsReturn`).
* **Screens.** What the user chose is what is applied until the user leaves the
  app, through visits of the editing screen and destroyed activities
  (`ChosenShownUnlessLeft`; Home loses the choice), a server applies the same
  list once it was edited (`ServerAgrees`), the list survives a cancel
  (`ListKept`), and no threads run for a screen that is gone
  (`NoneLeftRunning`).
* **iperf, control connection.** Neither side takes a message for another one
  (`InStep`); the server runs the options it was sent, with its defaults
  or, for bytes and tos, an earlier client's for those that were not, and always
  over TCP (`ServerKnowsTest`); what the getters tell after a test is what the server
  counted (`ResultsAreServers`); a report finds its intervals
  (`ReportsHaveIntervals`); a test that succeeds closes its streams
  (`StreamsClosed`); neither end waits for the other (`SomeoneActs`), and every
  test comes back (`EveryTestEnds`).
* **iperf, UDP streams.** All streams get connected unless a datagram is lost
  (`ConnectsUnlessLost`), packets keep the distance the rate asks for
  (`RateKept`), the test ends when it should (`EndsAsAsked`), the loss counter
  brackets what is missing (`LossBracketed`), and the intervals and results add
  up on both ends (`ResultsAddUp`).
* **Measurement.** The bandwidth of a test that succeeded is kept
  (`MeasurementKept`, which the code violates).

`PROJECT.json` lists the hazards of this code with their lines and the property
that would catch each.

## Modules

* **EffectPipeline** models `Pipeline.java` and `LocalEffectTask.java` with the
  end queues of `S/pipeline/FrameProcessor.java`.  Tasks, threads and queues are
  numbers in the order of their creation.  `effectTasks`, `effectThreads`,
  `inputQueue`, `outputQueue` and `running` are the fields of the same name;
  `queue` holds the frames of each `LinkedBlockingQueue`, `pc`, `interrupted`,
  `ref` and `hand` are what a thread is doing, its interrupt status, the queue it
  has read from its task and the `Mat` it holds.  `taskOf` is the task given to
  the constructor of a thread, `created` counts the objects made so far, `count`
  the bounded events.  `history` (every list of effects there has been) and the
  parts of a frame called `born` and `applied` are ghosts.
  `ReadInput` and `Take` are `inputQueue.take()`, `Apply`, `DropFrame` and
  `ApplyThrows` are `applyTo` and the check after it, `ReadOutput` and `Offer`
  are `outputQueue.offer(frame)`, `LeaveLoop` is the `InterruptedException` and
  the check at the end of the loop.
* **PipelineEditing** extends it with the operations by index: `InsertFirst`,
  `InsertBetween`, `RemoveEffect`, and `moveEffect` in two steps, because its
  removal and its insertion each start threads that run in between.  `Calls`
  chooses the operations of a run, and the ghost `forgotten` records that an
  insertion between two effects has left out threads at work.  `AddedAtIndex` is
  the promise of every edit; `EditsTakeEffect` is the part of it that holds.
* **FrameService** is the abstract promise of a frame processor, without threads
  and queues: frames come in, may be lost (in a full queue, with a thread that an
  edit replaces), and come out in order, each with one list of effects in force
  since it came in.  **PipelineRefinement** maps the pipeline to it; the mapping
  reads the frames off the threads and queues, and leaves out a frame whose thread
  was interrupted in `applyTo`, since that thread is going to drop it.
* **CameraLoop** composes the pipeline with the camera thread of a phone that
  applies the effects itself.  `camera` is where `onCameraFrame` is: `idle`, after
  `addFrame` (`added`), or between `size()` and `take()` of `getFrame` (`ready`).
* **OffloadServer** composes the pipeline with the handlers of `Server.java`.
  `call` says where the handler of each connection is: idle, in the loop of
  `addFrames` that offers (`OfferNext`), or in the one that collects
  (`CollectNext`).
* **Offloading** composes `OffloadServer` with a phone: the thread of the user
  interface (`UserEdit`, `EditReturns`), the camera thread (`PhoneAddFrame`,
  `PhoneShow...`), the callback thread of Netty (`HandleResult`), the connection
  (`Connect`, `Disconnect`, `requests`, `replies`).  `effects`, `buffer`,
  `numFrames` and `processed` are the fields of the phone's `FrameProcessor`.
* **EffectScreens** models both activities and the life of the image processors,
  one action for each callback.  It looks at lists of effects, at whether
  threads are new, running or ended and at the flag `running` of each pipeline, not
  at frames.  `ClearEffects` replaces the threads as `createThreads` does, so a
  clear while the view is on starts a new one.  The ghosts: `chosen` is what the
  user chose last, `left` that the user has left the app since (Home, not a visit
  of the editing screen), `edited` that the current image processor was edited.
* **IperfOptions** holds the options of a bandwidth test (`J/iperf_api.c`,
  `J/units.c`): defaults, command line, the parameters a client packs and a
  server unpacks, the reset between two tests.  An option is a letter with a
  number and a unit; the value of `-l` and `-w` is one that fits the `int` it is
  narrowed to (`MAX_INT`), since a larger one is not asked for.
* **IperfStream** holds the functions on a list of streams: new streams and their
  numbers, statistics and intervals, the report, the lines of results and how
  they are taken over.
* **IperfClient** extends both with the control connection: one action for each
  case of `iperf_handle_message_client`, `RunBody` for the body of
  `iperf_run_client`, `ReadResults` and `ReadGarbage` for the two ways the
  answer of the server is read.  `pc` is where the calling thread is (`select`,
  `body`: behind the message TEST_RUNNING, `results`: waiting for the lines of
  the server), `test`, `streams` and `gTest` are the structures of that name,
  `up` and `down` the two directions of each control connection, `sockets` the
  open sockets of each launch.  A stream may break at any turn of the body: the -1
  of its write is added to the bytes as data.  The server takes the handlers of `iperf_api.c`
  and `iperf_tcp.c` that have a server's branch; the loop that calls them is not
  in the repository and is modelled from the messages the client expects.
* **IperfTimer** is `J/timer.c`; the product in `timer_expired` wraps.
  **IperfUdp** composes it with `IperfStream` to the UDP streams: the handshake
  in the steps of `iperf_udp_connect` and `iperf_udp_accept`, `UdpSend` for one
  stream in a turn of the body, `Timers` for the rest of the turn, `UdpRecv` for
  `iperf_udp_recv`.  `seen` and `sentAt` are ghosts.
* **Measurement** is `BandwidthMeasurement.java` over `launchBandwidthTest`: two
  threads, one variable `gTest`, a step for each access to it.
* **EffectPipelineProofs** holds the proofs about the structure of the pipeline,
  **PipelineFramesProofs** those about its frames: what each went through, their
  order, the refinement of `FrameService`.  **PipelineEditingProofs** continues
  the first for the operations by index and for the camera loop.
  **OffloadingProofs** are about the server and about the phone that offloads to
  it.  **IperfStreamProofs** holds the lemmas about lists of streams, options and
  folds; **IperfUdpProofs**, **IperfClientProofs** and **EffectScreensProofs** are
  about the modules they are named after.
* **MCIperfClient** and **MCIperfUdp** define the tests of the two iperf runs.

An operator whose comment calls it a *slip* is not part of the model: it is what
a plausible mistake in the code would make of the definition it names, and shows
that a property notices it.

## How the code is abstracted

**Frames.** A frame is its number, the list of effects in force when it came and
the tasks that have been applied to it.  Pixels are left out.  One consequence:
that `getFrame` shows `originalFrame` while an effect thread changes the same
`Mat` in place is a flaw of the picture that the models do not see.

**Steps of an effect thread.** A step is an access to something shared: the field
`inputQueue`, the take, the test of the interrupt status after `applyTo`, the
field `outputQueue`, the offer.  A thread that has passed the interrupt check at
the beginning of `take()` but not yet looked at the queue can be interrupted, and
then still take a frame that arrives; `Take` allows this, and `DropFrame` then
loses that frame.

**An edit is one step.** `addEffect` and `clearEffects` interrupt the threads they
replace before they rewire anything, and start the new threads at the end.  What
other threads do in between commutes with the parts of the edit, except for
reading the fields that it writes, and such a read sees the old or the new value,
as before or after the step.  The edit belongs to one thread: the user interface
on the phone, the handler of the only connection on the server.  Edits by two
connections at once corrupt unsynchronised `ArrayList`s; that hazard is listed
and not modelled.

**Visibility.** The fields `inputQueue` and `outputQueue` are not volatile.  The
queue operations between two reads synchronise, and a stale read is no more than
a read at an earlier moment, as long as the thread has not synchronised since.

**External code.** From OpenCV: the camera thread is joined before
`onCameraViewStopped`, `disableView()` calls that method when the view was
started, effects may throw unchecked exceptions.  From Avro and Netty: the calls
of one connection are handled one after the other and answered in that order; a
lost connection loses the calls under way, and makes a call that waits throw.
From sockets: a connection keeps its order, a write can fail only once the other
side has closed, and a reset may lose what was under way; datagrams may be lost,
repeated and reordered.  From Android: the order of the life
cycle callbacks, a result is delivered before `onResume`, a stopped activity may be destroyed and created again without its
fields.

## Runs

Bounds appear in the guards under the names given here: `MaxTasks`, `MaxThreads`
and `MaxQueues` bound the objects ever created, `MaxFrames` the frames,
`MaxStops` the calls of `stop()`, `MaxFaults` the exceptions of effects.
`EndCap` is 20 in the server and 2 on the phone, `StageCap` is 2 in both.

| Run | Checks | Bounds, and why they are enough |
|---|---|---|
| `PipelineEdits` | `Spec` of the pipeline through `PipelineRefinement` | Starts without effects, so every branch of `addEffect` is taken. Three tasks and four threads are an only effect that becomes the first of two and a last one behind it, or an edit after a clear, with a replaced thread still at work (a chain of three, which has an effect in the middle, needs five threads: run `Editing` has one, and the proofs are for any length). Capacity 1 between stages and two frames fill a queue. |
| `Editing` | insertion by index, removal, moves | Two effects to begin with and one more: every index of lists of two and three; six threads allow two edits, so that an old thread meets a second edit; one frame, since both properties are about where one frame can go. |
| `PipelineRestart` | finding: `StagesConsume` | One effect, one frame, one stop. |
| `CameraProgress` | local mode, with fairness | Both capacities are those of the code; three frames exceed the queue of two. |
| `ServerRequests` | requests of one client, with fairness | `EndCap` as in the code, three frames in requests of one and two; two edits, a clear and an effect that throws. |
| `ServerEditRace` | finding: `CallsReturn` | One frame before and one after an edit. |
| `CloudMode` | phone and server, with fairness | `K` and `PhoneCap` as in the code, so that four frames make two requests whose answers fill the queue of the phone; one edit and one loss of the connection, at any moment. |
| `ScreensLife` | the screens, with Home, Back and destroyed activities | Four image processors allow a visit of the editing screen, a trip Home and another visit. Two effects in lists of two distinguish order, growth and loss. |
| `ScreensCancel` | finding: `ListKept` | Three image processors. |
| `IperfControl` | the control connection, with fairness | `Lines` are eight command lines: the application's own, two streams, no stream, the server sends with reports, bounded by bytes with a new listener, UDP, one that is refused, and a server. Two launches in a row with one test of another client let each test find what an earlier one left. One fault at any moment: refused, cut, interrupted or silent. A block for each stream and test is enough to tell sums, totals and directions apart. |
| `IperfUdp` | UDP streams, with fairness | Seconds have `SEC_TO_US` = 4 ticks and the product wraps at `TimeRange` = 32; starting at 0 no test meets the wrap, at 13 the timed one does. `MaxTime` is longer than both tests, `MaxWrite` = 3 longer than the gap of two ticks between packets. Two faults: a loss and a repetition, or two of one kind; up to three packets of a stream arrive in any order. |
| `BandwidthKept` | finding: `MeasurementKept` | The two threads of the constructor, with and without a test of an earlier measurement. |

The pipeline cannot deadlock in TLC's sense, since `start()` may always be called
again; that its threads do not wait for each other is what `StagesConsume` and
`InterruptedThreadsEnd` say.  The runs of `CameraLoop`, `OffloadServer`,
`Offloading` and `EffectScreens` say `CHECK_DEADLOCK FALSE`: their users may stop,
and an image processor beyond the bound cannot be created.

## Fairness

* Effect threads (`WF` of `Run(th)` for each thread): the JVM schedules a thread
  that is not blocked.  Throwing is not part of `Run`, so no run relies on it.
* Handler threads of the server, the callback thread of Netty: the same.
* Nothing is assumed of the camera, the user, the network and Android: each may
  stop with any step.
* The client of a bandwidth test (`WF` of `ClientStep`): its thread runs, and
  `select` comes back at once, since the streams and the control socket can be
  written.  The server (`WF` of `ServerStep`) while it is not silent; silence is
  the phase `hung`, which the property excepts, as it does a test of no streams
  (below).  The code reads the timer of a
  test with a time in every turn.  A turn of `RunBody` that changes nothing is a
  stutter, so weak fairness lets the timer run out at the latest when the blocks
  and statistics of the bounds are used up (its wrap is in `IperfUdp`).
* The handshake of UDP streams (`WF` of `Handshake`): both ends run, and what is
  not lost arrives.  `HelloLost` is a fault.
* Weak fairness is enough: a thread that can take a step keeps that step enabled
  or has another one, since each queue has one live consumer
  (`ReplacedThreadsInterrupted`) and an interrupted thread ends.

## Findings

1. `PipelineRestart`: after `stop()` and `start()` the pipeline has no thread.
   `start()` starts threads in state `NEW` only and `stop()` does not replace the
   threads it ends.
2. `ServerEditRace`: a thread interrupted just inside `take()` still takes the next
   frame, drops it, and the `addFrames` that offered it waits for ever.
   The comment of `getFrame()` promises null when nothing is ready.
3. `ScreensCancel`: the list "kept in persistence" for a cancelled editing screen
   is a plain field.  When Android destroys the activity behind that screen,
   `onActivityResult` runs into null.
4. `BandwidthKept`: `launchBandwidthTest` answers false for success, `run()` takes
   it for failure and stores zero over a good measurement, whichever of the two
   threads comes last.

What else the models say of the code, without a run that expects a violation:

* `addEffect(index, effect)` between two effects neither interrupts nor keeps the
  old threads of its neighbours.  The one of the effect behind waits in `take()` on
  its old queue, which is now the input of the new effect, and takes a later frame
  past that effect.  `EditsTakeEffect` excepts everything from that edit on
  (`forgotten`), since such a thread serves its queue for ever; neither program
  calls the operation.
* A client that a busy server denies reports "unknown control message":
  ACCESS_DENIED is -1 and is read as 255 into the low byte of an `int` (`Byte`,
  `OnRefusal`).
* A stream that breaks answers -1, which an unsigned type makes a huge number of
  bytes sent: a test of given bytes ends as one that has sent all its data
  (`RunBody`).
* Leaving the app with Home loses the effects the user chose: `onStop` gives up
  the image processor and `onStart` makes one without effects, while a server
  keeps the list until the next edit (`ChosenShownUnlessLeft`, `ServerAgrees`).
* `addFrame` and `clearEffects` before the client is connected run into null and
  end the app; `addEffect` prints the exception (`link`, `crashed`).
* A failed test keeps its control socket and its streams open, so the server
  stays in that test until the process ends (`Fail`).
* `-c` ends the command line: options after it are ignored.  Where `char` has no
  sign, a command line without `-c` runs into the end of the list as an unknown
  letter (`CharIsSigned`).  At a server the same loop never ends while it reads the
  parameters; to the client it is then one that falls silent (`ServerHangs`).
* The first word of the parameters is taken for the name of a program, so a
  client's `-u` does not reach the server: it listens for TCP, and the client
  waits for a datagram (`OnCreateUdpStreams`).
* An option that is zero is not sent, so the server has its default there; but
  `iperf_reset_test` keeps `-n` and `-S` of the last client: `ServerKnowsTest` says
  that these two may be stale, and that they are what some client asked for.
* `-P 0` passes the check of the command line and is sent.  The handlers start a
  test when a stream has been accepted, so that here nothing starts a test of
  none, and neither end has a limit to its waiting.  What the loop of a real
  server does then is not in the repository; `SomeoneActs` and `EveryTestEnds`
  except that test.
* A timed test that starts within its own duration of the wrap of the 32-bit
  product ends at once or late; a UDP packet whose timer lies across the wrap
  waits for it (`EndsAsAsked`, `RateKept`).

## Proofs

They hold for every value of the constants and assume only what the modules name:

* `BoundsAssumption`: bounds and capacities are natural numbers, and the effects
  of the constructor are within the bounds.
* `BatchAssumption`: a request to the server has at least one frame.
* `PhoneAssumption`: the phone is a connection, `K` and the bounds are natural
  numbers, both programs begin with one effect, and the server takes requests of
  the length the phone sends.
* `ScreensAssumption`: the identity effect is on no button, null is neither a
  number nor a list.
* `TestsAssumption`: the UDP tests are those of a client that sends on one stream
  or more, with a rate and a gap between packets above zero (the code asserts
  that the gap is not zero), and the times are natural numbers.
* `ArgsAssumption`: a command line is a list of options, each a letter with a
  natural number and a unit; a length of blocks or buffers is at most `MAX_INT`,
  so that the `int` it is stored in holds it.  Nothing else is assumed of which ones: everything the
  proofs need of the options is proved of `iperf_parse_arguments`.
* `TimeAssumption` and `CharAssumption`: the width of the product and the kind of
  `char`.

**Pipeline** (`OwnershipInvariant`, then `TypeCorrect`, `ChainWired`, `ReplacedEnd`).
`Wired` and `ReplacedThreadsInterrupted` are not inductive: an edit could give a
thread or task the number of one that exists, and so wake a thread that ended.
The inductive invariant is `TypeOK /\ Ownership`, where `Ownership` adds
`Numbered`: the tasks, the threads and the input queues of the pipeline have
numbers that `created` has counted, so the next number is unused, and a thread
that exists has a task.  The proof takes the three edits one by one, first what
each leaves in the fields (`AfterAddEffect`, `FieldsAfterAddEffect`, `AfterSingle`),
then the three conjuncts; every other step leaves the lists alone.

**One owner of every frame** (`FramesHaveOneOwner`).  Added to `OneOwner` is
`FramesNumbered`: no frame has a number that is still to come.  A new
frame is then different from all others.  Each step takes a frame from one place and
puts it in at most one other (`FrameIds`, `FramesLeave`, `FrameEnters`,
`HeadTaken`).

**One list for every frame** (`ListedInvariant`, then `FramesTreatedWithOneList`).
That a processed frame went through one list says nothing of a frame half way, so
the invariant says what a frame has been through from the place where it is.
`Lineage` looks at all lists there have been: a task has the same tasks before it
in each list it is in (`SamePast`), each list is still one chain of queues
(`Chained`), and no two tasks read or write one queue (`QueuesApart`).  A frame in
the queue that a task reads went through the tasks before that one (`Fits`), a
frame in the hands of a thread through these and, once treated, through its task
(`Treated`).  Old threads may still push old frames through a list that is no
longer in force; they reach the processed queue with a list of the time since the
frame came in.

**Order** (`OrderedInvariant`, then `FramesInOrder`).  The links are the
unprocessed queue and the queue behind each task.  A frame offered since the last
edit lies in a link or is in the hands of a thread of the pipeline
(`QueuedOnChain`, `HeldOnChain`); a replaced thread may hold one, but it was
interrupted before it took the frame and so drops it.  Of two such frames the one
further on was offered earlier, from queue to queue, from queue to hand and from
hand to hand (`QueuesOrdered`, `HandsInOrder`, `HandsOrdered`).  `InOrder` is the
part of it about one queue.

**Edits by index** (`EditingIsInvariant`, then `EditedChainWired`, `EditsHold`).
The chain is described by its links: `Link(i)` is the queue behind task number i.
What an insertion, a removal or an append leaves in the fields is written down place
by place (`Inserts`, `Rewires`); if the new links are a chain (`LinksAre`), the list is
wired (`RewiredIsWired`), whichever edit it was.  `HandsOver` says what an edit owes
to the threads: each thread of the old list is told to end or goes on with the queue
it reads, and the others are new.  It holds for every edit but the insertion between
two effects, and keeps `Following`: a thread that waits does so at the queue of its
task, a fresh frame in link i went through the first i effects, and a fresh frame in
the hands of a thread that is not about to drop it is on its way from one link to the
next.  After an edit no frame is fresh, so an edit has to keep only where the threads
stand.  Between the halves of a move the task is in no place of the list (`MovingOut`),
so that its second half may set the task's fields.

**Refinement** (`PipelineImplementsService`).  The initial states and the steps are
mapped one by one.  When the last thread offers a frame, `Treated` names the list it
is delivered with and `Ordered` says that no other frame has to come first; every
other step of a thread loses a frame or none.  `ServiceInvariant` states what the
steps of `FrameService` alone keep true of the frames that wait; the proofs about
server and phone use the pipeline through it.

**Camera** (`CameraAlwaysGetsAnAnswer`, `PicturesOfOneListInOrder`).
`CameraDrivesPipeline` shows that every step of the camera loop is a step of the pipeline or leaves it alone, so all of
the above holds on the phone.  The camera thread finds at `take()` what `size()`
has seen because nobody else takes from the processed queue: no thread reads it
as its input (`NoEffectReadsProcessed`, which rests on the wiring), and `stop()`
comes only when the camera thread has been joined.  For the order of the pictures
it is added that the picture on the screen came before every frame under the same
list that may still come out (`ScreenBehind`).  It is about frames of one list: a frame
offered before an edit may still come out after later ones.

**Server** (`NothingLeftOver`, `OneClientGetsItsFrames`).  `ServerDrivesPipeline`
carries the above over.  The handlers' calls have a shape (`CallsInStep`): frames
are offered first, then as many are collected.  For any number of connections the
service never holds more frames than the calls are owed (`Covered`), because a
frame enters with a debt of its handler and every debt is paid with one frame.
With one connection the frames in the processor are those of the present call
(`Own`), and the numbers in its answer rise (`Climbs`).  An answer as long as the
request, of rising numbers among those of the request, is the request: that is
where "each one, in order" comes from.  With two connections a handler may collect
the other one's frames, so this theorem, like the run, is about one.

**Phone and server** (`PhoneDrivesServer`, then `ListsOfEffectsAgree`,
`FramesAreAccounted`, `ShownIsTreated`, `ScreenStaysInOrder`).  The phone asks the
server only for what the server's proofs allow (`Asking`).
The user interface waits for its edit, so at most one edit is on its way
(`OneEdit`), and the server's list is the phone's present one or the one before it
(`ListsInStep`).  `Accounts` says that `numFrames` is the sum of buffer, requests,
handler and answers; the sums over requests and answers are of lists of any length
(`Total` is a recursive function, and its lemmas are proved with the well-founded
order on natural numbers).  `Pictures` follows every picture: its number is its
place among the frames of the phone (`Placed`), it was offered after the edits
that had returned when it was taken (`OfferedSettled`), pictures from the screen
over the queue of the phone to the answers are in order (`InLine`), and a
processed one was treated with the list in force when it was offered
(`TreatedPictures`).  `history` only grows, so that list is the one of the edit or
of a later one.

**Screens** (`NoThreadsLeftBehind`, `ChoiceLostOnlyByLeaving`, `ServerFollowsScreen`).
`ViewFollows` says that an activity that is not stopped has an image processor,
that a resumed one listens with that image processor, that the view is started
only in a resumed activity, and that only the image processor behind a started
view has the flag `running` or threads at work; without the flag, a clear could
start a thread in an image processor that was stopped.  For the choice of the user,
`Kept` is what must be left of it: all, or nothing once the user has left the app.
`ChoiceKept` says that the current image processor applies that unless a result
is on its way, that while the editing screen is open or its result on its way
`effectList` is that list or was lost, that an activity which is stopped
otherwise was left or has nothing to lose, and that a server follows the current
image processor once that was edited.  `left` is set in `onStop` only and no
creation of an image processor touches `chosen`, so the theorem says where a
choice can be lost.  `GetEffectsOfList` shows that what `getEffects` gives back, after the
identity effect is filtered out, is what was put in.

**UDP losses** (`UdpInvariant`, then `LossAccounted`).  `LossBracketed` is not
inductive: a number above `packet_count` that had come already would be counted
as lost when a later one arrives.  `Bracket` adds that no number that has come is
above `packet_count`, and that the numbers are finitely many.  A packet in order
is then a new number (`CountedBrackets`), so the counter grows by the gap and the
missing ones by the same; one out of order is a new number, which the bracket
allows for, or an old one.  `StatsType` and `CloseIntervalType` show that closing
an interval leaves the three counters alone, and `UdpTypeOK` leaves the client's
streams out once the results have been parsed into them.

**UDP: what both ends count** (`LedgerInvariant`, then `BooksBalance`, `RateIsKept`,
`EndsWhenAsked`, `AlwaysListens`).  `Ledger` has three parts.  `HandshakeInv` says
that one handshake is under way at a time, as a datagram, as the peer being
accepted or as the answer, and which stream it is for; so both ends number their
streams alike and every line of results finds its stream.  `BooksInv` says that
the intervals of a stream tile its time from the start and that their bytes are
what it has counted but for the interval that is open; the exchange closes that
one on the server and copies its counters.  `PaceInv` says what the timer of a
stream holds: it runs from the end of the last write, for what was left of the gap.
The product of the timers wraps, so what is compared are numbers modulo
`TimeRange`; between two readings of the clock the wrapped number grows at most as
the clock does (`WrapFalls`, `Elapsed`).  So the timer of a packet, which has no
whole seconds, never fires early (`NeverEarly`); a timer fires in time unless the
product has wrapped since it began (`NeverLate`), and that of the test fires exactly
at its end where the product has not wrapped between that and now (`RunsOut`).

**Folds and totals** (`IperfStreamProofs`).  The statistics, the lines of results
and the totals are folds over lists of any length.  A fold over a sequence is the
value of a recursive function on sets of places; `FoldExists` shows that there is
one, `LastPlace` that it takes the places from the last one on.  Induction is on
the set of numbers that have a property: if one lacked it, there would be a least
one (`LeastNumber`, `UpTo`).  From this follow what a total is when a record is
appended or changed (`TotalAppend`, `TotalChange`, `TotalBelow`), what
`parse_results` makes of a list (`ParseKeeps`, `ParseMatching`), and what options a
command line, the parameters and a reset leave (`ServerTakes`, `SetMember`).

**The control connection** (`ClientKeepsStep`).  `InStep` is not inductive: it
says nothing of what is behind the first message, or of the server when nothing
is under way.  `Inv` has three parts.  `Shape` bounds the launches and the
streams in the backlog, and says that a connection to come is empty.  `ServerInv`
is the server's half of `InStep` with the fact that nobody waits to be accepted
but the client that runs.  `ClientInv` lists what the client may still find for
each of its states: while the server is there, `Pending`, else also `LastWords`,
where a refusal is last; `Joint` relates the phase of the server to the state of
the client and to both directions.  A client that is not served is `AtTheDoor` or
shut out, so a session of an earlier launch changes nothing for it (`ServesOther`).
`Reading` and `OnByte` turn the byte a handler reads into the state both ends are
in; then there is one lemma for each action.

The other properties of a bandwidth test are proved in layers on `Inv`, each with
a lemma for each group of actions:

* `OptionsInv` (`ServerRunsWhatItWasTold`): between two tests the server is `Fresh`
  but for what a reset keeps, whoever used it before, and only a fresh server takes
  parameters; these are the options of the client that runs, so from then on the
  server `Knows` its test.  A message that waits at a server belongs to the client
  that runs.  `KeptInv` is about what a reset keeps: the server's protocol is TCP,
  and its bytes and tos are zero or those of some command line (`Asked`), through
  every action of both ends.
* `StreamsInv`: both ends have as many streams as the test from the moment they
  are made, with the same numbers; while the server has as many as it
  expects no other connection waits for it.  The lines under way to it are those
  of the client's streams.
* `SocketsInv` (`OneSocketLeft`): one socket for the control connection and one
  for each stream, so closing the streams leaves one.
* `IntervalsInv` (`NoReportWithoutInterval`): the end of a test records an
  interval for each stream and nothing takes intervals away, so a stream has one
  before the first report that is not made by a timer.
* `BytesInv` (`TotalsAreServers`): each end counts whole blocks, no stream has
  received more than the other end sent (`Meets`), the lines of the server agree
  with the client's streams before they are taken over (`Fits`) and after it
  (`Taken`), and the report adds these up (`Reported`).  That one block more keeps
  a receiver behind its sender needs that both count in blocks of one size
  (`RoomForBlock`).  What `Nread` makes of an answer that was cut short is never
  reported: nothing more comes on a connection that has ended.
* `Kinds` and `QueueInv` (`ClientTypes`): the bytes under way are bytes, the
  totals are counts, and at most one message to the server is under way.
* `FlowInv` (`NoneWaitsForEver`): when the server is in a phase in which the
  client waits for it, what it waits for in turn is there: the parameters,
  TEST_END, the results, or at the end of the backlog as many connections of the
  client as it has streams still to accept (`Owed`).  Connections of an earlier
  test that was cut short may lie before them; the server closes those and they
  do not count.  With this each pair of states in `Joint` leaves one end a step.

Only model-checked is liveness (`StagesConsume`, `InterruptedThreadsEnd`,
`CallsReturnUnlessLost`, `EditsReturn`, `EveryTestEnds`, `ConnectsUnlessLost`):
fairness is beyond the provers.  Every other property of a passing run is a
theorem for all values of the constants.

## Not modelled

* The pixels: effects are OpenCV calls.  Seam carving, a dynamic program over
  `Mat`s, is an effect as any other here.
* Unsynchronised edits by two connections at once, a second connection that
  answers from the same queues, and a connection that comes back.
* `stop()` while the phone offloads, and the frames that its own, idle pipeline
  never sees in that mode.
* The state of `MotionHistoryEffect` between frames.
* Of iperf: jitter, CPU load, the text of the reports and of errors (`units.c`
  beyond `unit_atof` and `unit_atoi`, `locale.c`, `iperf_error.c`), socket options
  beyond whether they are set (`tcp_info.c`, `tcp_window_size.c`), the list macros
  of `queue.h`, failures of `malloc` and of `select`, UDP with `-R`, a UDP write
  that fails, an iperf server on UDP that was not started with `-u`.
* `ping.c`: `start_ping` is exported but no screen calls it.
* `StartActivity`, the classes the Avro compiler generates, OpenCV: no state the
  properties tell apart.

## What could come next

Of the edits by index, what an insertion between two effects still leaves to the
frames: which effects one can miss.  Of a server with two connections, what a
request gets when another handler collects from the same queue.  Of the liveness properties, the safety half that `SomeoneActs` gives for the control
connection: that an effect thread, a handler of the server or the thread of the
user interface that waits does so for a step that another one can take.
