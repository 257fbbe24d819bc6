------------------------- MODULE EffectScreensProofs -------------------------
(***************************************************************************)
(* Proofs about EffectScreens, for any number of image processors and      *)
(* effects: no image processor is left behind with its threads running,    *)
(* the choice of the user is shown until he leaves the app, and a server   *)
(* applies what the screen shows.                                          *)
(***************************************************************************)
EXTENDS EffectScreens, SequenceTheorems, WellFoundedInduction, TLAPS

(***************************************************************************)
(* The lists of effects and the image processors.                          *)
(***************************************************************************)

ProcessorRecord ==
  [effects : Seq(Effect \cup {Identity}), threads : {"new", "running", "ended"}, running : BOOLEAN]

\* A set of numbers with 0 and the successor of each of its elements is Nat.
LEMMA InductionOnSets ==
  ASSUME NEW S \in SUBSET Nat, 0 \in S, \A n \in S : n + 1 \in S
  PROVE  S = Nat
  <1> SUFFICES ASSUME Nat \ S # {} PROVE FALSE
    OBVIOUS
  <1>1. IsWellFoundedOn(OpToRel(<, Nat), Nat)
    BY NatLessThanWellFounded
  <1>2. PICK x \in Nat \ S : \A y \in Nat \ S : ~ (<<y, x>> \in OpToRel(<, Nat))
    BY <1>1, WFMin
  <1>3. x \in Nat /\ x \notin S /\ x # 0
    OBVIOUS
  <1>4. x - 1 \in Nat /\ x - 1 < x /\ x = (x - 1) + 1
    BY <1>3
  <1>5. x - 1 \in S
    BY <1>2, <1>4 DEF OpToRel
  <1> QED BY <1>3, <1>4, <1>5

\* A longer prefix has one more element at its end.
LEMMA LongerPrefix ==
  ASSUME NEW T, NEW L \in Seq(T), NEW m \in 1 .. Len(L)
  PROVE  SubSeq(L, 1, m) = Append(SubSeq(L, 1, m - 1), L[m])
  <1> DEFINE a == SubSeq(L, 1, m)  b == SubSeq(L, 1, m - 1)
  <1>1. Len(L) \in Nat /\ L[m] \in T
    OBVIOUS
  <1>2. /\ a \in Seq(T) /\ Len(a) = m /\ \A i \in 1 .. m : a[i] = L[i]
        /\ b \in Seq(T) /\ Len(b) = m - 1 /\ \A i \in 1 .. m - 1 : b[i] = L[i]
    BY <1>1
  <1> HIDE DEF a, b
  <1>3. /\ Append(b, L[m]) \in Seq(T) /\ Len(Append(b, L[m])) = (m - 1) + 1
        /\ \A i \in 1 .. m - 1 : Append(b, L[m])[i] = b[i]
        /\ Append(b, L[m])[(m - 1) + 1] = L[m]
    BY <1>1, <1>2, AppendProperties
  <1>4. \A i \in 1 .. m : Append(b, L[m])[i] = a[i]
    BY <1>1, <1>2, <1>3
  <1>5. Len(Append(b, L[m])) = Len(a)
    BY <1>2, <1>3
  <1> QED BY <1>2, <1>3, <1>4, <1>5, SeqEqual DEF a, b

\* getEffects() leaves out the IdentityEffect that clearPipeline() puts first,
\* and nothing else.
LEMMA GetEffectsOfList ==
  ASSUME NEW L \in Seq(Effect)
  PROVE  GetEffects(<<Identity>> \o L) = L
  <1> DEFINE s == <<Identity>> \o L
             f == [i \in 0 .. Len(s) |-> IF i = 0 THEN <<>> ELSE SubSeq(L, 1, i - 1)]
             u == CHOOSE u : u = [i \in 0 .. Len(s) |->
                    IF i = 0 THEN <<>>
                    ELSE IF s[i] = Identity THEN u[i - 1] ELSE Append(u[i - 1], s[i])]
  <1>1. /\ Len(L) \in Nat /\ Len(s) = Len(L) + 1 /\ s[1] = Identity
        /\ \A i \in 1 .. Len(L) : s[i + 1] = L[i] /\ L[i] \in Effect /\ L[i] # Identity
    BY ScreensAssumption
  <1>2. GetEffects(s) = u[Len(s)]
    BY DEF GetEffects
  <1> HIDE DEF s
  <1>3. ASSUME NEW i \in 1 .. Len(s)
        PROVE  f[i] = IF s[i] = Identity THEN f[i - 1] ELSE Append(f[i - 1], s[i])
    <2>1. i \in 0 .. Len(s) /\ i - 1 \in 0 .. Len(s) /\ i # 0
      BY <1>1
    <2>2. CASE i = 1
      <3>1. SubSeq(L, 1, 0) = <<>>
        OBVIOUS
      <3> QED BY <1>1, <2>1, <2>2, <3>1
    <2>3. CASE i # 1
      <3>1. i - 1 \in 1 .. Len(L) /\ i = (i - 1) + 1 /\ i - 1 # 0
        BY <1>1, <2>3
      <3>2. s[i] = L[i - 1] /\ s[i] # Identity
        BY <1>1, <3>1
      <3>3. f[i] = SubSeq(L, 1, i - 1) /\ f[i - 1] = SubSeq(L, 1, (i - 1) - 1)
        BY <2>1, <3>1
      <3>4. SubSeq(L, 1, i - 1) = Append(SubSeq(L, 1, (i - 1) - 1), L[i - 1])
        BY <3>1, LongerPrefix
      <3> QED BY <3>2, <3>3, <3>4
    <2> QED BY <2>2, <2>3
  <1>4. f = [i \in 0 .. Len(s) |->
               IF i = 0 THEN <<>>
               ELSE IF s[i] = Identity THEN f[i - 1] ELSE Append(f[i - 1], s[i])]
    <2> DEFINE h == [i \in 0 .. Len(s) |->
               IF i = 0 THEN <<>>
               ELSE IF s[i] = Identity THEN f[i - 1] ELSE Append(f[i - 1], s[i])]
    <2>1. ASSUME NEW i \in 0 .. Len(s) PROVE f[i] = h[i]
      <3>1. CASE i = 0
        BY <3>1
      <3>2. CASE i # 0
        <4>1. i \in 1 .. Len(s)
          BY <1>1, <3>2
        <4>2. h[i] = IF s[i] = Identity THEN f[i - 1] ELSE Append(f[i - 1], s[i])
          BY <3>2
        <4> HIDE DEF f, h
        <4> QED BY <1>3, <4>1, <4>2
      <3> QED BY <3>1, <3>2
    <2> QED BY <2>1
  <1>5. f[0] = <<>> /\ f[Len(s)] = L
    <2>1. Len(s) \in 0 .. Len(s) /\ 0 \in 0 .. Len(s) /\ Len(s) # 0 /\ Len(s) - 1 = Len(L)
      BY <1>1
    <2>2. SubSeq(L, 1, Len(L)) = L
      OBVIOUS
    <2> QED BY <2>1, <2>2
  <1> HIDE DEF f
  <1>6. u = [i \in 0 .. Len(s) |->
               IF i = 0 THEN <<>>
               ELSE IF s[i] = Identity THEN u[i - 1] ELSE Append(u[i - 1], s[i])]
    BY <1>4
  <1> HIDE DEF u
  <1> DEFINE S == {m \in Nat : m <= Len(s) => f[m] = u[m]}
  <1>7. 0 \in S
    BY <1>1, <1>5, <1>6
  <1>8. ASSUME NEW m \in S PROVE m + 1 \in S
    <2> SUFFICES ASSUME m + 1 <= Len(s) PROVE f[m + 1] = u[m + 1]
      OBVIOUS
    <2>1. f[m] = u[m] /\ m + 1 \in 1 .. Len(s) /\ m + 1 \in 0 .. Len(s) /\ m + 1 # 0
          /\ (m + 1) - 1 = m
      BY <1>1
    <2>2. f[m + 1] = IF s[m + 1] = Identity THEN f[m] ELSE Append(f[m], s[m + 1])
      BY <1>3, <2>1
    <2>3. u[m + 1] = IF s[m + 1] = Identity THEN u[m] ELSE Append(u[m], s[m + 1])
      BY <1>6, <2>1
    <2> QED BY <2>1, <2>2, <2>3
  <1>9. S = Nat
    <2> HIDE DEF S
    <2>1. S \in SUBSET Nat
      BY DEF S
    <2> QED BY <1>7, <1>8, <2>1, InductionOnSets
  <1>10. f[Len(s)] = u[Len(s)]
    BY <1>1, <1>9
  <1> QED BY <1>2, <1>5, <1>10 DEF s

\* Lists of chosen effects behind an IdentityEffect.
LEMMA ListTypes ==
  /\ <<Identity>> \in Seq(Effect \cup {Identity})
  /\ \A L \in Seq(Effect) : <<Identity>> \o L \in Seq(Effect \cup {Identity})
  /\ <<>> \in Seq(Effect) /\ <<Identity>> \o <<>> = <<Identity>>
  /\ \A L \in Seq(Effect) : L # Null
  /\ \A e : Before(e) = <<Identity>>
  <1>1. <<Identity>> \in Seq(Effect \cup {Identity})
    OBVIOUS
  <1>2. \A L \in Seq(Effect) : <<Identity>> \o L \in Seq(Effect \cup {Identity})
    <2> SUFFICES ASSUME NEW L \in Seq(Effect)
                 PROVE  <<Identity>> \o L \in Seq(Effect \cup {Identity})
      OBVIOUS
    <2>1. L \in Seq(Effect \cup {Identity})
      BY SeqMonotonic
    <2> QED BY <1>1, <2>1, ConcatProperties
  <1>3. <<>> \in Seq(Effect) /\ <<Identity>> \o <<>> = <<Identity>>
    OBVIOUS
  <1> QED BY <1>1, <1>2, <1>3, ScreensAssumption DEF Before

\* A new image processor, and a changed one.
LEMMA ProcessorAppended ==
  ASSUME processors \in Seq(ProcessorRecord), NEW e \in ProcessorRecord,
         NEW ps, ps = Append(processors, e)
  PROVE  /\ ps \in Seq(ProcessorRecord) /\ Len(ps) \in DOMAIN ps /\ Len(ps) # Null
         /\ ps[Len(ps)] = e /\ DOMAIN processors \subseteq DOMAIN ps
         /\ \A i \in DOMAIN ps : i # Len(ps) => i \in DOMAIN processors /\ ps[i] = processors[i]
  <1>1. /\ ps \in Seq(ProcessorRecord) /\ Len(ps) = Len(processors) + 1
        /\ ps[Len(processors) + 1] = e
        /\ \A i \in 1 .. Len(processors) : ps[i] = processors[i]
    BY AppendProperties
  <1>2. Len(processors) \in Nat /\ DOMAIN processors = 1 .. Len(processors)
        /\ DOMAIN ps = 1 .. Len(ps)
    BY <1>1, LenProperties
  <1>3. Len(ps) # Null
    BY <1>1, <1>2, ScreensAssumption
  <1> QED BY <1>1, <1>2, <1>3

LEMMA ProcessorChanged ==
  ASSUME processors \in Seq(ProcessorRecord), NEW i \in DOMAIN processors,
         NEW e \in ProcessorRecord, NEW ps, ps = [processors EXCEPT ![i] = e]
  PROVE  /\ ps \in Seq(ProcessorRecord) /\ DOMAIN ps = DOMAIN processors
         /\ ps[i] = e /\ \A j \in DOMAIN processors : j # i => ps[j] = processors[j]
  <1>1. i \in 1 .. Len(processors)
    BY LenProperties
  <1> QED BY <1>1, ExceptSeq

LEMMA ProcessorOf ==
  ASSUME TypeOK, NEW i \in DOMAIN processors
  PROVE  processors \in Seq(ProcessorRecord) /\ processors[i] \in ProcessorRecord
  <1>1. processors \in Seq(ProcessorRecord)
    BY DEF TypeOK, ProcessorRecord
  <1>2. i \in 1 .. Len(processors)
    BY <1>1, LenProperties
  <1> QED BY <1>1, <1>2, ElementOfSeq

\* What the pipeline of an image processor makes of start, stop and clearEffects:
\* threads are at work only where the pipeline is running.
LEMMA NewOne ==
  ASSUME NEW list \in Seq(Effect \cup {Identity})
  PROVE  /\ NewProcessor(list) \in ProcessorRecord /\ NewProcessor(list).effects = list
         /\ NewProcessor(list).threads = "new" /\ NewProcessor(list).running = FALSE
  BY DEF NewProcessor, ProcessorRecord

LEMMA Started ==
  ASSUME NEW p \in ProcessorRecord
  PROVE  /\ Start(p) \in ProcessorRecord /\ Start(p).effects = p.effects
         /\ Start(p).running = TRUE
  BY DEF Start, ProcessorRecord

LEMMA Stopped ==
  ASSUME NEW p \in ProcessorRecord
  PROVE  /\ Stop(p) \in ProcessorRecord /\ Stop(p).effects = p.effects
         /\ Stop(p).running = FALSE /\ Stop(p).threads # "running"
  BY DEF Stop, ProcessorRecord

LEMMA Cleared ==
  ASSUME NEW p \in ProcessorRecord
  PROVE  /\ ClearEffects(p) \in ProcessorRecord /\ ClearEffects(p).effects = <<Identity>>
         /\ ClearEffects(p).running = p.running
         /\ ClearEffects(p).threads = "running" => p.running
  <1> DEFINE new == NewProcessor(<<Identity>>)
  <1>1. new \in ProcessorRecord /\ new.effects = <<Identity>>
        /\ new.threads = "new" /\ new.running = FALSE
    BY NewOne, ListTypes
  <1>2. Start(new) \in ProcessorRecord /\ Start(new).effects = new.effects
        /\ Start(new).running = TRUE
    BY <1>1, Started
  <1>3. ClearEffects(p) = IF p.running THEN Start(new) ELSE new
    BY DEF ClearEffects
  <1>4. p.running \in BOOLEAN
    BY DEF ProcessorRecord
  <1> HIDE DEF new
  <1> QED BY <1>1, <1>2, <1>3, <1>4

-----------------------------------------------------------------------------
(***************************************************************************)
(* The threads.                                                            *)
(***************************************************************************)

\* There is a current image processor while the activity does anything, the
\* camera view calls no other, it is started only on the screen, and a pipeline
\* is running, or has threads at work, only behind a view that is started.
ViewFollows ==
  /\ activity \in {"started", "resumed", "paused"} => imageProcessor # Null
  /\ activity = "resumed" => listener = imageProcessor
  /\ viewing => activity = "resumed"
  /\ \A p \in DOMAIN processors :
       processors[p].running \/ processors[p].threads = "running" => viewing /\ imageProcessor = p

LEMMA NoneRuns == ViewFollows => NoneLeftRunning
  BY DEF ViewFollows, NoneLeftRunning

\* A new image processor becomes the current one while the camera view is off.
LEMMA NewIsLast ==
  ASSUME TypeOK, ViewFollows, NEW list \in Seq(Effect \cup {Identity}), activity # "resumed",
         processors' = Append(processors, NewProcessor(list)),
         imageProcessor' = Len(processors'),
         UNCHANGED <<listener, viewing>>, activity' # "resumed"
  PROVE  ViewFollows'
  <1> DEFINE e == NewProcessor(list)
  <1>1. e \in ProcessorRecord /\ e.threads = "new" /\ e.running = FALSE
    BY NewOne
  <1>2. processors \in Seq(ProcessorRecord) /\ processors' = Append(processors, e)
    BY DEF TypeOK, ProcessorRecord
  <1> HIDE DEF e
  <1>3. /\ imageProcessor' # Null /\ processors'[Len(processors')] = e
        /\ \A i \in DOMAIN processors' :
             i # Len(processors') => i \in DOMAIN processors /\ processors'[i] = processors[i]
    BY <1>1, <1>2, ProcessorAppended
  <1>4. ~viewing /\ ~viewing'
    BY DEF ViewFollows
  <1>5. ASSUME NEW p \in DOMAIN processors'
        PROVE  ~(processors'[p].running \/ processors'[p].threads = "running")
    <2>1. CASE p = Len(processors')
      BY <1>1, <1>3, <2>1
    <2>2. CASE p # Len(processors')
      BY <1>3, <1>4, <2>2 DEF ViewFollows
    <2> QED BY <2>1, <2>2
  <1> QED BY <1>3, <1>4, <1>5 DEF ViewFollows

\* A change of the current image processor behind the same view.
LEMMA ChangedInPlace ==
  ASSUME TypeOK, ViewFollows, NEW e \in ProcessorRecord, imageProcessor \in DOMAIN processors,
         processors' = [processors EXCEPT ![imageProcessor] = e],
         UNCHANGED imageProcessor,
         activity' \in {"started", "resumed", "paused"} => imageProcessor # Null,
         activity' = "resumed" => listener' = imageProcessor,
         viewing' => activity' = "resumed", viewing => viewing' \/ ~e.running,
         e.running \/ e.threads = "running" => viewing'
  PROVE  ViewFollows'
  <1>1. /\ DOMAIN processors' = DOMAIN processors /\ processors'[imageProcessor] = e
        /\ \A j \in DOMAIN processors : j # imageProcessor => processors'[j] = processors[j]
    BY ProcessorOf, ProcessorChanged
  <1>2. ASSUME NEW p \in DOMAIN processors',
               processors'[p].running \/ processors'[p].threads = "running"
        PROVE  viewing' /\ imageProcessor' = p
    BY <1>1, <1>2 DEF ViewFollows
  <1> QED BY <1>2 DEF ViewFollows

LEMMA StepFollows ==
  ASSUME TypeOK, ViewFollows, [Next]_vars
  PROVE  ViewFollows'
  <1>1. CASE OnStart
    <2>1. CASE imageProcessor = Null
      <3>1. processors' = Append(processors, NewProcessor(<<Identity>>))
            /\ imageProcessor' = Len(processors')
        BY <1>1, <2>1 DEF OnStart
      <3>2. activity = "stopped" /\ activity' = "started" /\ UNCHANGED <<listener, viewing>>
        BY <1>1 DEF OnStart
      <3> QED BY <3>1, <3>2, ListTypes, NewIsLast
    <2>2. CASE imageProcessor # Null
      BY <1>1, <2>2 DEF OnStart, ViewFollows
    <2> QED BY <2>1, <2>2
  <1>2. CASE OnActivityResult
    <2> DEFINE list == IF effectList' = Null THEN <<>> ELSE effectList'
    <2>1. processors' = Append(processors, NewProcessor(<<Identity>> \o list))
          /\ imageProcessor' = Len(processors')
      BY <1>2, ListTypes DEF OnActivityResult
    <2>2. list \in Seq(Effect)
      BY <1>2, ListTypes DEF OnActivityResult, Returned, TypeOK
    <2>3. activity \in {"started", "paused"} /\ UNCHANGED <<activity, listener, viewing>>
      BY <1>2 DEF OnActivityResult
    <2> HIDE DEF list
    <2>4. <<Identity>> \o list \in Seq(Effect \cup {Identity})
      BY <2>2, ListTypes
    <2> QED BY <2>1, <2>3, <2>4, NewIsLast
  <1>3. CASE OnResume
    BY <1>3 DEF OnResume, ViewFollows
  <1>4. CASE ViewStarts
    <2>1. /\ imageProcessor \in DOMAIN processors /\ imageProcessor # Null
          /\ listener = imageProcessor
      BY <1>4 DEF ViewStarts, ViewFollows, TypeOK
    <2>2. Start(processors[imageProcessor]) \in ProcessorRecord
      BY <2>1, ProcessorOf, Started
    <2>3. processors' = [processors EXCEPT ![imageProcessor] = Start(processors[imageProcessor])]
      BY <1>4, <2>1 DEF ViewStarts
    <2>4. activity = "resumed" /\ viewing' = TRUE
          /\ UNCHANGED <<activity, imageProcessor, listener>>
      BY <1>4 DEF ViewStarts
    <2> QED BY <2>1, <2>2, <2>3, <2>4, ChangedInPlace
  <1>5. CASE OnPause
    <2>1. activity = "resumed" /\ activity' = "paused" /\ viewing' = FALSE
          /\ imageProcessor' = imageProcessor /\ listener = imageProcessor
      BY <1>5 DEF OnPause, ViewFollows
    <2>2. CASE ~viewing
      BY <1>5, <2>1, <2>2 DEF OnPause, ViewFollows
    <2>3. CASE viewing
      <3>1. imageProcessor \in DOMAIN processors /\ imageProcessor # Null
        BY <2>1 DEF ViewFollows, TypeOK
      <3> DEFINE e == Stop(processors[imageProcessor])
      <3>2. e \in ProcessorRecord /\ e.running = FALSE /\ e.threads # "running"
        BY <3>1, ProcessorOf, Stopped
      <3>3. processors' = [processors EXCEPT ![imageProcessor] = e]
        BY <1>5, <2>1, <2>3 DEF OnPause
      <3> HIDE DEF e
      <3> QED BY <2>1, <3>1, <3>2, <3>3, ChangedInPlace
    <2> QED BY <2>2, <2>3
  <1>6. CASE OnStop \/ Destroy
    <2>1. ~viewing /\ UNCHANGED <<listener, viewing, processors>> /\ activity' = "stopped"
      BY <1>6 DEF OnStop, Destroy, ViewFollows
    <2> QED BY <2>1 DEF ViewFollows
  <1>7. CASE ClearPipeline
    <2>1. imageProcessor \in DOMAIN processors /\ imageProcessor # Null
      BY <1>7 DEF ClearPipeline, ViewFollows, TypeOK
    <2> DEFINE p == processors[imageProcessor]
               e == ClearEffects(p)
    <2>2. e \in ProcessorRecord /\ e.running = p.running /\ (e.threads = "running" => p.running)
      BY <2>1, ProcessorOf, Cleared
    <2>3. processors' = [processors EXCEPT ![imageProcessor] = e]
          /\ UNCHANGED <<activity, imageProcessor, listener, viewing>>
      BY <1>7 DEF ClearPipeline
    <2>4. p.running => viewing
      BY <2>1 DEF ViewFollows
    <2> HIDE DEF e, p
    <2> QED BY <2>1, <2>2, <2>3, <2>4, ChangedInPlace DEF ViewFollows
  <1>8. CASE EditPipeline \/ ChangeList \/ (\E code \in {"ok", "canceled"} : Finish(code))
             \/ UNCHANGED vars
    BY <1>8 DEF EditPipeline, ChangeList, Finish, vars, ViewFollows
  <1> QED BY <1>1, <1>2, <1>3, <1>4, <1>5, <1>6, <1>7, <1>8 DEF Next, LifeCycle

-----------------------------------------------------------------------------
(***************************************************************************)
(* The choice of the user.                                                 *)
(***************************************************************************)

\* What the screens know of the user's choice, which is what is kept of it.  The
\* current image processor has it, unless a result is on its way; while the editing
\* screen is open or its result on its way, effectList is the choice before it or
\* was lost; a server follows the edits of the current image processor.
ChoiceKept ==
  /\ (imageProcessor # Null /\ result = Null /\ ~crashed)
       => processors[imageProcessor].effects = <<Identity>> \o Kept
  /\ (editor # Null \/ result # Null) => effectList \in {Kept, Null}
  /\ editor # Null => result = Null
  /\ (result # Null \/ crashed) => activity # "resumed"
  /\ (activity = "stopped" /\ editor = Null /\ result = Null) => left \/ Kept = <<>>
  /\ (edited /\ imageProcessor # Null) => server = processors[imageProcessor].effects

LEMMA InitKeepsChoice == Init => TypeOK /\ ChoiceKept /\ ViewFollows
  <1> SUFFICES ASSUME Init PROVE TypeOK /\ ChoiceKept /\ ViewFollows
    OBVIOUS
  <1>1. <<>> \in Seq(ProcessorRecord) /\ DOMAIN processors = {}
    BY DEF Init
  <1>2. TypeOK
    BY <1>1, ListTypes DEF Init, TypeOK, ProcessorRecord
  <1>3. ChoiceKept
    BY DEF Init, ChoiceKept, Kept
  <1>4. ViewFollows
    BY <1>1 DEF Init, ViewFollows
  <1> QED BY <1>2, <1>3, <1>4

LEMMA KeptList == TypeOK => Kept \in Seq(Effect)
  BY ListTypes DEF TypeOK, Kept

\* onStart: whoever left the app finds an image processor without effects.
LEMMA StartKeepsChoice ==
  ASSUME TypeOK, ChoiceKept, ViewFollows, OnStart
  PROVE  TypeOK' /\ ChoiceKept'
  <1>0. Kept' = Kept
    BY DEF OnStart, Kept
  <1>1. CASE imageProcessor # Null
    BY <1>0, <1>1 DEF OnStart, TypeOK, ChoiceKept
  <1>2. CASE imageProcessor = Null
    <2> DEFINE new == NewProcessor(<<Identity>>)
    <2>1. new \in ProcessorRecord /\ new.effects = <<Identity>>
      BY ListTypes, NewOne
    <2> HIDE DEF new
    <2>2. processors \in Seq(ProcessorRecord) /\ processors' = Append(processors, new)
          /\ imageProcessor' = Len(processors')
      BY <1>2 DEF TypeOK, ProcessorRecord, OnStart, new
    <2>3. /\ processors' \in Seq(ProcessorRecord) /\ imageProcessor' \in DOMAIN processors'
          /\ processors'[imageProcessor'] = new /\ DOMAIN processors \subseteq DOMAIN processors'
      BY <2>1, <2>2, ProcessorAppended
    <2>4. TypeOK'
      BY <1>2, <2>3, ListTypes DEF OnStart, TypeOK, ProcessorRecord
    <2>5. result = Null => Kept = <<>>
      BY DEF OnStart, ChoiceKept, Kept
    <2>6. ChoiceKept'
      BY <1>0, <1>2, <2>1, <2>3, <2>5, ListTypes DEF OnStart, TypeOK, ChoiceKept
    <2> QED BY <2>4, <2>6
  <1> QED BY <1>1, <1>2

\* onActivityResult: Ok brings a new choice, Cancel the kept one.
LEMMA ResultKeepsChoice ==
  ASSUME TypeOK, ChoiceKept, ViewFollows, OnActivityResult
  PROVE  TypeOK' /\ ChoiceKept'
  <1> DEFINE list == IF effectList' = Null THEN <<>> ELSE effectList'
             new == NewProcessor(<<Identity>> \o list)
  <1>1. /\ result \in [code : {"ok", "canceled"}, list : Seq(Effect)] /\ result' = Null
        /\ result # Null /\ effectList' = Returned
        /\ activity \in {"started", "paused"} /\ crashed' = (effectList' = Null) /\ edited' = TRUE
        /\ editor = Null /\ UNCHANGED <<activity, listener, viewing, editor>>
    BY DEF OnActivityResult, TypeOK, ChoiceKept
  <1>2. processors' = Append(processors, new) /\ imageProcessor' = Len(processors')
        /\ server' = <<Identity>> \o list
    BY ListTypes DEF OnActivityResult
  <1>3. /\ effectList' \in Seq(Effect) \cup {Null}
        /\ chosen' \in Seq(Effect) /\ left' \in BOOLEAN
        /\ effectList' \in {Kept', Null}
    <2>1. CASE result.code = "ok"
      <3>1. chosen' = result.list /\ left' = FALSE /\ effectList' = result.list
        BY <1>1, <2>1 DEF OnActivityResult, Returned
      <3> QED BY <1>1, <3>1 DEF Kept
    <2>2. CASE result.code # "ok"
      <3>1. chosen' = chosen /\ left' = left /\ effectList' = effectList
        BY <1>1, <2>2 DEF OnActivityResult, Returned
      <3> QED BY <1>1, <3>1 DEF TypeOK, ChoiceKept, Kept
    <2> QED BY <2>1, <2>2
  <1>4. list \in Seq(Effect) /\ (~crashed' => list = Kept')
    BY <1>1, <1>3, ListTypes
  <1> HIDE DEF list
  <1>5. new \in ProcessorRecord /\ new.effects = <<Identity>> \o list
    BY <1>4, ListTypes, NewOne
  <1> HIDE DEF new
  <1>6. processors \in Seq(ProcessorRecord)
    BY DEF TypeOK, ProcessorRecord
  <1>7. /\ processors' \in Seq(ProcessorRecord) /\ imageProcessor' \in DOMAIN processors'
        /\ processors'[imageProcessor'] = new /\ DOMAIN processors \subseteq DOMAIN processors'
    BY <1>2, <1>5, <1>6, ProcessorAppended
  <1>8. server' \in Seq(Effect \cup {Identity})
    BY <1>2, <1>4, ListTypes
  <1>9. TypeOK'
    BY <1>1, <1>3, <1>7, <1>8 DEF TypeOK, ProcessorRecord
  <1>10. ChoiceKept'
    BY <1>1, <1>2, <1>3, <1>4, <1>5, <1>7 DEF ChoiceKept
  <1> QED BY <1>9, <1>10

\* The camera view starts or stops the threads, and changes no list.
LEMMA ViewKeepsChoice ==
  ASSUME TypeOK, ChoiceKept, ViewFollows, ViewStarts \/ OnPause
  PROVE  TypeOK' /\ ChoiceKept'
  <1>1. listener \in DOMAIN processors /\ listener = imageProcessor
        /\ imageProcessor \in DOMAIN processors
    BY DEF ViewStarts, OnPause, ViewFollows, TypeOK
  <1>2. processors \in Seq(ProcessorRecord) /\ processors[listener] \in ProcessorRecord
    BY <1>1, ProcessorOf
  <1>3. ASSUME NEW e \in ProcessorRecord, e.effects = processors[listener].effects,
               processors' = [processors EXCEPT ![listener] = e]
        PROVE  /\ processors' \in Seq(ProcessorRecord) /\ DOMAIN processors' = DOMAIN processors
               /\ \A i \in DOMAIN processors : processors'[i].effects = processors[i].effects
    BY <1>1, <1>2, <1>3, ProcessorChanged
  <1>4. /\ processors' \in Seq(ProcessorRecord) /\ DOMAIN processors' = DOMAIN processors
        /\ \A i \in DOMAIN processors : processors'[i].effects = processors[i].effects
    <2>1. CASE ViewStarts
      <3>1. processors' = [processors EXCEPT ![listener] = Start(processors[listener])]
        BY <2>1 DEF ViewStarts
      <3> QED BY <1>2, <1>3, <3>1, Started
    <2>2. CASE OnPause /\ viewing
      <3>1. processors' = [processors EXCEPT ![listener] = Stop(processors[listener])]
        BY <2>2 DEF OnPause
      <3> QED BY <1>2, <1>3, <3>1, Stopped
    <2>3. CASE OnPause /\ ~viewing
      BY <1>2, <2>3 DEF OnPause
    <2> QED BY <2>1, <2>2, <2>3 DEF ViewFollows, TypeOK
  <1>5. CASE ViewStarts
    <2>1. TypeOK'
      BY <1>4, <1>5 DEF ViewStarts, TypeOK, ProcessorRecord
    <2>2. ChoiceKept'
      BY <1>1, <1>4, <1>5 DEF ViewStarts, ChoiceKept, Kept
    <2> QED BY <2>1, <2>2
  <1>6. CASE OnPause
    <2>1. TypeOK'
      BY <1>4, <1>6 DEF OnPause, TypeOK, ProcessorRecord
    <2>2. ChoiceKept'
      BY <1>1, <1>4, <1>6 DEF OnPause, ChoiceKept, Kept
    <2> QED BY <2>1, <2>2
  <1> QED BY <1>5, <1>6

\* The editing screen.
LEMMA EditKeepsChoice ==
  ASSUME TypeOK, ChoiceKept, ViewFollows,
         EditPipeline \/ ChangeList \/ \E code \in {"ok", "canceled"} : Finish(code)
  PROVE  TypeOK' /\ ChoiceKept'
  <1>1. CASE EditPipeline
    <2>0. Kept' = Kept
      BY <1>1 DEF EditPipeline, Kept
    <2>1. processors[imageProcessor].effects = <<Identity>> \o Kept
      BY <1>1 DEF EditPipeline, ViewFollows, ChoiceKept
    <2>2. Kept \in Seq(Effect)
      BY KeptList
    <2>3. effectList' = Kept /\ editor' = Kept
      BY <1>1, <2>1, <2>2, GetEffectsOfList DEF EditPipeline
    <2>4. TypeOK'
      BY <1>1, <2>2, <2>3 DEF EditPipeline, TypeOK
    <2>5. ChoiceKept'
      BY <1>1, <2>0, <2>3 DEF EditPipeline, ChoiceKept
    <2> QED BY <2>4, <2>5
  <1>2. CASE ChangeList
    <2>1. editor \in Seq(Effect) /\ result = Null
      BY <1>2 DEF ChangeList, InEditor, TypeOK, ChoiceKept
    <2>2. editor' \in Seq(Effect)
      <3>1. CASE \E e \in Effect : Len(editor) < MaxLength /\ editor' = Append(editor, e)
        BY <2>1, <3>1, AppendProperties
      <3>2. CASE \E i \in 1 .. Len(editor) : editor' = RemoveAt(editor, i)
        <4> PICK i \in 1 .. Len(editor) : editor' = RemoveAt(editor, i)
          BY <3>2
        <4>1. SubSeq(editor, 1, i - 1) \in Seq(Effect)
              /\ SubSeq(editor, i + 1, Len(editor)) \in Seq(Effect)
          BY <2>1
        <4> QED BY <4>1, ConcatProperties DEF RemoveAt
      <3>3. CASE editor' = <<>>
        BY <3>3
      <3> QED BY <1>2, <3>1, <3>2, <3>3 DEF ChangeList
    <2>3. TypeOK'
      BY <1>2, <2>2 DEF ChangeList, TypeOK
    <2>4. ChoiceKept'
      BY <1>2, <2>1, <2>2, ListTypes DEF ChangeList, InEditor, ChoiceKept, Kept
    <2> QED BY <2>3, <2>4
  <1>3. CASE \E code \in {"ok", "canceled"} : Finish(code)
    <2> PICK code \in {"ok", "canceled"} : Finish(code)
      BY <1>3
    <2>1. result' \in [code : {"ok", "canceled"}, list : Seq(Effect)]
      BY ListTypes DEF Finish, InEditor, TypeOK
    <2>2. TypeOK'
      BY <2>1 DEF Finish, TypeOK
    <2>3. result' # Null
      BY <2>1, ScreensAssumption
    <2>4. ChoiceKept'
      BY <2>3 DEF Finish, InEditor, ChoiceKept, Kept
    <2> QED BY <2>2, <2>4
  <1> QED BY <1>1, <1>2, <1>3

LEMMA StepKeepsChoice ==
  ASSUME TypeOK, ChoiceKept, ViewFollows, [Next]_vars
  PROVE  TypeOK' /\ ChoiceKept'
  <1>1. CASE OnResume
    <2>1. ~crashed \/ UNCHANGED vars
      BY DEF Next
    <2> QED BY <1>1, <2>1 DEF OnResume, TypeOK, ChoiceKept, Kept, vars
  <1>2. CASE OnStop \/ Destroy
    <2>1. CASE OnStop
      <3>1. left' = TRUE \/ (left' = left /\ (editor # Null \/ result # Null))
        BY <2>1 DEF OnStop, TypeOK
      <3>2. CASE left' = TRUE /\ editor = Null /\ result = Null
        BY <2>1, <3>2 DEF OnStop, TypeOK, ChoiceKept, Kept
      <3>3. CASE left' = left /\ (editor # Null \/ result # Null)
        BY <2>1, <3>3 DEF OnStop, TypeOK, ChoiceKept, Kept
      <3> QED BY <2>1, <3>1, <3>2, <3>3 DEF OnStop, TypeOK
    <2>2. CASE Destroy
      BY <2>2 DEF Destroy, TypeOK, ChoiceKept, Kept
    <2> QED BY <1>2, <2>1, <2>2
  <1>3. CASE ClearPipeline
    <2>1. imageProcessor \in DOMAIN processors /\ result = Null
      BY <1>3 DEF ClearPipeline, ViewFollows, ChoiceKept, TypeOK
    <2> DEFINE new == ClearEffects(processors[imageProcessor])
    <2>2. processors \in Seq(ProcessorRecord) /\ new \in ProcessorRecord
          /\ new.effects = <<Identity>>
      BY <2>1, ProcessorOf, Cleared
    <2>3. processors' = [processors EXCEPT ![imageProcessor] = new]
      BY <1>3 DEF ClearPipeline
    <2> HIDE DEF new
    <2>4. /\ processors' \in Seq(ProcessorRecord) /\ DOMAIN processors' = DOMAIN processors
          /\ processors'[imageProcessor] = new
      BY <2>1, <2>2, <2>3, ProcessorChanged
    <2>5. TypeOK'
      BY <1>3, <2>4, ListTypes DEF ClearPipeline, TypeOK, ProcessorRecord
    <2>6. Kept' = <<>>
      BY <1>3 DEF ClearPipeline, Kept
    <2>7. ChoiceKept'
      BY <1>3, <2>1, <2>2, <2>4, <2>6, ListTypes DEF ClearPipeline, ChoiceKept
    <2> QED BY <2>5, <2>7
  <1>4. CASE UNCHANGED vars
    BY <1>4 DEF vars, TypeOK, ChoiceKept, Kept
  <1> QED BY <1>1, <1>2, <1>3, <1>4, StartKeepsChoice, ResultKeepsChoice, ViewKeepsChoice,
             EditKeepsChoice DEF Next, LifeCycle

\* The screens keep their types, the kept choice, and the threads behind the view,
\* with the fields that Android's destruction of a stopped activity takes away.
THEOREM ChoiceInvariant == Spec => [](TypeOK /\ ChoiceKept /\ ViewFollows)
  <1>1. TypeOK /\ ChoiceKept /\ ViewFollows /\ [Next]_vars
          => (TypeOK /\ ChoiceKept /\ ViewFollows)'
    BY StepFollows, StepKeepsChoice
  <1> QED BY <1>1, InitKeepsChoice, PTL DEF Spec

\* Every variable of the screens keeps its type.
THEOREM ScreensTypeCorrect == Spec => []TypeOK
  BY ChoiceInvariant, PTL

\* No image processor that is given up or out of sight has threads at work, the
\* thread that the menu's Clear Pipeline starts included.
THEOREM NoThreadsLeftBehind == Spec => []NoneLeftRunning
  BY ChoiceInvariant, NoneRuns, PTL

\* The screen shows what the user chose last with Ok or in the menu, through every
\* visit of the editing screen and every cancel, until he leaves the app; from then
\* on, and until he chooses again, it shows no effects.
THEOREM ChoiceLostOnlyByLeaving == Spec => []ChosenShownUnlessLeft
  <1>1. TypeOK /\ ChoiceKept /\ ViewFollows => ChosenShownUnlessLeft
    BY DEF ChoiceKept, ViewFollows, ChosenShownUnlessLeft
  <1> QED BY <1>1, ChoiceInvariant, PTL

\* A server applies the list of the current image processor once that was edited.
THEOREM ServerFollowsScreen == Spec => []ServerAgrees
  <1>1. TypeOK /\ ChoiceKept /\ ViewFollows => ServerAgrees
    BY DEF ChoiceKept, ViewFollows, ServerAgrees
  <1> QED BY <1>1, ChoiceInvariant, PTL
=============================================================================
