--------------------------- MODULE IperfClientProofs ---------------------------
(***************************************************************************)
(* What holds of a bandwidth test for every set of command lines and any   *)
(* number of launches, of other clients and of faults.  The invariant      *)
(* grows in layers: the control connection (Inv), the options (OptionsInv),*)
(* the streams and the lines of results (StreamsInv), the sockets          *)
(* (SocketsInv), the intervals (IntervalsInv), the bytes that both ends    *)
(* count (BytesInv), the kinds of values (Kinds, QueueInv), and what the   *)
(* server has still to take (FlowInv).                                     *)
(***************************************************************************)
EXTENDS IperfClient, IperfStreamProofs, FiniteSetTheorems

\* The client follows the messages of the server.
Active == pc \in {"select", "body", "results"}
Phases == {"params", "streams", "running", "results", "display"}

Answer == Data("results", answered)

\* What the client has still to read while its server is there.
Pending(d) ==
  \/ pc = "select" /\ test.state = 0 /\ d \in {<<>>, <<Byte(PARAM_EXCHANGE)>>}
  \/ pc = "select" /\ test.state = PARAM_EXCHANGE /\ d \in {<<>>, <<Byte(CREATE_STREAMS)>>}
  \/ pc = "select" /\ test.state = CREATE_STREAMS
       /\ d \in {<<>>, <<Byte(TEST_START), Byte(TEST_RUNNING)>>}
  \/ pc = "select" /\ test.state = TEST_START /\ d = <<Byte(TEST_RUNNING)>>
  \/ pc \in {"select", "body"} /\ test.state = TEST_RUNNING /\ d = <<>>
  \/ pc = "select" /\ test.state = TEST_END /\ d \in {<<>>, <<Byte(EXCHANGE_RESULTS)>>}
  \/ pc = "results" /\ test.state = EXCHANGE_RESULTS
       /\ d \in {<<>>, <<Answer, Byte(DISPLAY_RESULTS)>>}
  \/ pc = "select" /\ test.state = EXCHANGE_RESULTS /\ d \in {<<>>, <<Byte(DISPLAY_RESULTS)>>}

Denied == <<Byte(ACCESS_DENIED)>>
Broken == <<Byte(SERVER_ERROR), Data("number", "i_errno"), Data("number", "errno")>>
End == Byte(SERVER_TERMINATE)

\* What it may find when the server is gone: its last word is a refusal.
LastWords(d) ==
  \/ pc = "select" /\ test.state = 0 /\ d \in {Denied, <<End>>, <<Byte(PARAM_EXCHANGE), End>>}
  \/ pc = "select" /\ test.state = PARAM_EXCHANGE
       /\ d \in {Broken, <<End>>, <<Byte(CREATE_STREAMS), End>>}
  \/ pc = "select" /\ test.state = CREATE_STREAMS
       /\ d \in {<<End>>, <<Byte(TEST_START), Byte(TEST_RUNNING), End>>}
  \/ pc = "select" /\ test.state = TEST_START /\ d = <<Byte(TEST_RUNNING), End>>
  \/ pc \in {"select", "body"} /\ test.state = TEST_RUNNING /\ d = <<End>>
  \/ pc = "select" /\ test.state = TEST_END /\ d \in {<<End>>, <<Byte(EXCHANGE_RESULTS), End>>}
  \/ pc = "results" /\ test.state = EXCHANGE_RESULTS
       /\ d \in {<<End>>, <<Answer, Byte(DISPLAY_RESULTS), End>>}
  \/ pc = "select" /\ test.state = EXCHANGE_RESULTS
       /\ d \in {<<End>>, <<Byte(DISPLAY_RESULTS), End>>}

\* The phase of the server, with the state of a client that follows it.
Joint ==
  LET phase == server.phase
      state == test.state
      said == down[launch]
      read == up[launch] = <<>>
  IN \/ phase = "params" /\ state = 0 /\ said = <<Byte(PARAM_EXCHANGE)>> /\ read
     \/ phase = "params" /\ state = PARAM_EXCHANGE /\ said = <<>>
     \/ phase = "streams" /\ state = PARAM_EXCHANGE /\ said = <<Byte(CREATE_STREAMS)>> /\ read
     \/ phase = "streams" /\ state = CREATE_STREAMS /\ said = <<>> /\ read
     \/ phase = "running" /\ state \in {CREATE_STREAMS, TEST_START} /\ said # <<>> /\ read
     \/ phase = "running" /\ state = TEST_RUNNING /\ read
     \/ phase = "running" /\ state = TEST_END /\ said = <<>>
     \/ phase = "results" /\ state = TEST_END /\ said = <<Byte(EXCHANGE_RESULTS)>> /\ read
     \/ phase = "results" /\ state = EXCHANGE_RESULTS /\ pc = "results" /\ said = <<>>
     \/ phase = "display" /\ state = EXCHANGE_RESULTS /\ said # <<>> /\ read

\* A client that no server has accepted yet.
AtTheDoor ==
  /\ pc = "select" /\ test.state = 0
  /\ down[launch] = <<>> /\ up[launch] = <<Data("cookie", launch)>>

\* Shape: the domains of records and functions, and how far the launches are.
Shape ==
  /\ launch \in 0 .. MaxLaunches /\ (launch = 0 => pc = "idle")
  /\ DOMAIN up = Launches /\ DOMAIN down = Launches /\ DOMAIN shut = Launches
  /\ DOMAIN test = {"options", "state", "bytes_sent", "timer", "stats_timer"}
  /\ DOMAIN server = {"session", "phase", "options", "streams"}
  /\ test.options.num_streams \in Nat
  /\ backlog \in Seq(1 .. launch)
  /\ \A n \in Launches : n > launch => up[n] = <<>> /\ down[n] = <<>> /\ ~shut[n]
  /\ server.session \in {Other, 0} \cup 1 .. launch

\* At most one message, of one of the kinds.
Next1(queue, kinds) == queue = <<>> \/ (queue = <<queue[1]>> /\ queue[1].is \in kinds)

\* ServerInv: what the server reads next, and that nobody waits unaccepted but
\* a client at the door.
ServerInv ==
  /\ server.session \in Launches => server.phase \in Phases \cup {"hung"} /\ ~shut[server.session]
  /\ server.session \notin Launches => server.phase # "hung"
  /\ server.session \in Launches /\ server.phase # "hung" =>
       Next1(up[server.session], Expected[server.phase])
  /\ server.phase # "hung" => Unaccepted \subseteq {launch} /\ (Unaccepted # {} => Active)

\* ClientInv: what the client reads next, and where the server is meanwhile.
ClientInv ==
  Active =>
    /\ Pending(down[launch]) \/ (shut[launch] /\ LastWords(down[launch]))
    /\ server.session # launch => shut[launch] \/ AtTheDoor
    /\ server.session # launch /\ server.session \in Launches =>
         test.state = 0 /\ down[launch] \in {<<>>, Denied}
    /\ server.session = launch /\ server.phase # "hung" => Joint
    /\ test.state \in {0, PARAM_EXCHANGE} => \A i \in 1 .. Len(backlog) : backlog[i] # launch

Inv == Shape /\ ServerInv /\ ClientInv
-----------------------------------------------------------------------------
\* The short sequences that are under way.
LEMMA Tuples ==
  ASSUME NEW a, NEW b, NEW c
  PROVE  /\ Head(<<a>>) = a /\ Tail(<<a>>) = <<>> /\ <<a>> # <<>> /\ <<a>>[1] = a
         /\ Head(<<a, b>>) = a /\ Tail(<<a, b>>) = <<b>> /\ <<a, b>> # <<>>
         /\ Head(<<a, b, c>>) = a /\ Tail(<<a, b, c>>) = <<b, c>> /\ <<a, b, c>> # <<>>
         /\ Append(<<>>, a) = <<a>> /\ <<>> \o <<>> = <<>> /\ <<a>> \o <<>> = <<a>>
         /\ <<>> \o <<a>> = <<a>> /\ <<a>> \o <<b>> = <<a, b>> /\ <<>> \o <<a, b>> = <<a, b>>
         /\ <<>> \o <<a, b, c>> = <<a, b, c>> /\ <<a, b>> \o <<>> = <<a, b>>
<1>. DEFINE S == {a, b, c}
<1>1. <<>> \in Seq(S) /\ <<a>> \in Seq(S) /\ <<a, b>> \in Seq(S)
      /\ <<c>> \in Seq(S) /\ <<b>> \in Seq(S) /\ <<a, b, c>> \in Seq(S)
  OBVIOUS
<1>2. <<a>> \o <<b>> = Append(<<a>>, b)
  BY <1>1, AppendIsConcat
<1>3. Append(<<a>>, b) = <<a, b>>
  <2>1. Append(<<a>>, b) \in Seq(S) /\ Len(Append(<<a>>, b)) = 2
    BY <1>1, AppendProperties
  <2>2. \A i \in 1 .. 2 : Append(<<a>>, b)[i] = <<a, b>>[i]
    BY <1>1, AppendProperties
  <2>3. Len(<<a, b>>) = 2
    OBVIOUS
  <2>. HIDE DEF S
  <2>. QED BY <1>1, <2>1, <2>2, <2>3, SeqEqual
<1>4. /\ Head(<<a>>) = a /\ Tail(<<a>>) = <<>> /\ <<a>> # <<>> /\ <<a>>[1] = a
      /\ Head(<<a, b>>) = a /\ Tail(<<a, b>>) = <<b>> /\ <<a, b>> # <<>>
      /\ Head(<<a, b, c>>) = a /\ Tail(<<a, b, c>>) = <<b, c>> /\ <<a, b, c>> # <<>>
      /\ Append(<<>>, a) = <<a>>
  OBVIOUS
<1>5. /\ <<>> \o <<>> = <<>> /\ <<a>> \o <<>> = <<a>> /\ <<>> \o <<a>> = <<a>>
      /\ <<>> \o <<a, b>> = <<a, b>> /\ <<>> \o <<a, b, c>> = <<a, b, c>>
      /\ <<a, b>> \o <<>> = <<a, b>>
  <2>. HIDE DEF S
  <2>. QED BY <1>1, ConcatEmptySeq
<1>. QED BY <1>2, <1>3, <1>4, <1>5

LEMMA NotEmpty == (\A a : <<a>> # <<>>) /\ (\A a, b : <<a, b>> # <<>>)
OBVIOUS

LEMMA TwoAndOne == \A a, b, c : <<a, b>> \o <<c>> = <<a, b, c>>
<1>. SUFFICES ASSUME NEW a, NEW b, NEW c PROVE <<a, b>> \o <<c>> = <<a, b, c>>
  OBVIOUS
<1>. DEFINE S == {a, b, c}
<1>1. <<a, b>> \in Seq(S) /\ <<c>> \in Seq(S) /\ <<a, b, c>> \in Seq(S)
  OBVIOUS
<1>2. <<a, b>> \o <<c>> = Append(<<a, b>>, c)
  BY <1>1, AppendIsConcat
<1>3. Append(<<a, b>>, c) = <<a, b, c>>
  <2>1. Append(<<a, b>>, c) \in Seq(S) /\ Len(Append(<<a, b>>, c)) = 3
    BY <1>1, AppendProperties
  <2>2. \A i \in 1 .. 3 : Append(<<a, b>>, c)[i] = <<a, b, c>>[i]
    BY <1>1, AppendProperties
  <2>3. Len(<<a, b, c>>) = 3
    OBVIOUS
  <2>. HIDE DEF S
  <2>. QED BY <1>1, <2>1, <2>2, <2>3, SeqEqual
<1>. QED BY <1>2, <1>3

\* The byte of a negative state.
LEMMA NegativeByte == ASSUME NEW k \in {1, 2} PROVE (-k) % 256 = 256 - k
<1>1. \A x \in Int : x % 256 \in 0 .. 255 /\ x \div 256 \in Int /\ x = 256 * (x \div 256) + (x % 256)
  OBVIOUS
<1>2. \A x \in Int, r \in 0 .. 255, d \in Int : x = -k /\ x = 256 * d + r => r = 256 - k
  OBVIOUS
<1>3. -k \in Int
  OBVIOUS
<1>4. (-k) % 256 \in 0 .. 255 /\ (-k) \div 256 \in Int /\ -k = 256 * ((-k) \div 256) + ((-k) % 256)
  BY <1>1, <1>3, Zenon
<1>. QED BY <1>2, <1>3, <1>4, Zenon

\* Two messages are told apart by their kind and their byte.
LEMMA Messages ==
  /\ \A m \in 0 .. 16 : Byte(m).is = "byte" /\ Byte(m).v = m
  /\ Byte(ACCESS_DENIED).is = "byte" /\ Byte(ACCESS_DENIED).v = 255
  /\ Byte(SERVER_ERROR).is = "byte" /\ Byte(SERVER_ERROR).v = 254
  /\ \A kind, v : Data(kind, v).is = kind /\ Data(kind, v).v = v
<1>1. \A m \in 0 .. 16 : m % 256 = m
  OBVIOUS
<1>2. (-1) % 256 = 255
  <2>1. (-1) % 256 = 256 - 1
    BY NegativeByte, Zenon
  <2>. QED BY <2>1
<1>3. (-2) % 256 = 254
  <2>1. (-2) % 256 = 256 - 2
    BY NegativeByte, Zenon
  <2>. QED BY <2>1
<1>. QED BY <1>1, <1>2, <1>3 DEF Byte, Data, ACCESS_DENIED, SERVER_ERROR

LEMMA ExpectedIs ==
  /\ Expected["params"] = {"params"} /\ Expected["streams"] = {} /\ Expected["running"] = {"byte"}
  /\ Expected["results"] = {"results"} /\ Expected["display"] = {"byte"}
BY DEF Expected

\* What the client finds on its connection: a refusal, or what its state asks
\* for, with no more behind it than belongs to that.
Left(said) == Tail(down[launch]) = said
LEMMA Reading ==
  ASSUME ClientInv, Active, down[launch] # <<>>
  PROVE  LET m == Head(down[launch])
             none == Left(<<>>) \/ (shut[launch] /\ Left(<<End>>))
         IN \/ m \in {End, Byte(ACCESS_DENIED), Byte(SERVER_ERROR)} /\ shut[launch]
            \/ test.state = 0 /\ m = Byte(PARAM_EXCHANGE) /\ none
            \/ test.state = PARAM_EXCHANGE /\ m = Byte(CREATE_STREAMS) /\ none
            \/ /\ test.state = CREATE_STREAMS /\ m = Byte(TEST_START)
               /\ \/ Left(<<Byte(TEST_RUNNING)>>)
                  \/ shut[launch] /\ Left(<<Byte(TEST_RUNNING), End>>)
            \/ test.state = TEST_START /\ m = Byte(TEST_RUNNING) /\ none
            \/ test.state = TEST_END /\ m = Byte(EXCHANGE_RESULTS) /\ none
            \/ /\ pc = "results" /\ test.state = EXCHANGE_RESULTS /\ m = Answer
               /\ \/ Left(<<Byte(DISPLAY_RESULTS)>>)
                  \/ shut[launch] /\ Left(<<Byte(DISPLAY_RESULTS), End>>)
            \/ pc = "select" /\ test.state = EXCHANGE_RESULTS /\ m = Byte(DISPLAY_RESULTS) /\ none
<1>. DEFINE d == down[launch]
<1>1. /\ \A a : d = <<a>> => Head(d) = a /\ Left(<<>>)
      /\ \A a, b : d = <<a, b>> => Head(d) = a /\ Left(<<b>>)
      /\ \A a, b, c : d = <<a, b, c>> => Head(d) = a /\ Left(<<b, c>>)
  <2>1. ASSUME NEW a, d = <<a>> PROVE Head(d) = a /\ Left(<<>>)
    BY <2>1 DEF Left
  <2>2. ASSUME NEW a, NEW b, d = <<a, b>> PROVE Head(d) = a /\ Left(<<b>>)
    BY <2>2 DEF Left
  <2>3. ASSUME NEW a, NEW b, NEW c, d = <<a, b, c>> PROVE Head(d) = a /\ Left(<<b, c>>)
    BY <2>3 DEF Left
  <2>. QED BY <2>1, <2>2, <2>3
<1>. HIDE DEF d
<1>2. CASE Pending(d)
  BY <1>1, <1>2 DEF Pending, d
<1>3. CASE shut[launch] /\ LastWords(d)
  BY <1>1, <1>3 DEF LastWords, Denied, Broken, d
<1>. QED BY <1>2, <1>3 DEF ClientInv, d

\* Nobody waits for the server but a client at its door.
LEMMA NoneAtTheDoor ==
  ASSUME Shape, ServerInv, ClientInv, server.phase # "hung", ~(Active /\ AtTheDoor)
  PROVE  Unaccepted = {}
<1>1. SUFFICES ASSUME launch \in Unaccepted, Active PROVE FALSE
  BY <1>1 DEF ServerInv
<1>2. launch \in Launches /\ ~shut[launch]
  BY <1>1 DEF Unaccepted, Shape, Launches
<1>3. server.session = launch
  BY <1>1, <1>2 DEF ClientInv
<1>4. Next1(up[launch], Expected[server.phase]) /\ server.phase \in Phases
  BY <1>2, <1>3 DEF ServerInv
<1>5. up[launch] # <<>> /\ Head(up[launch]).is = "cookie"
  BY <1>1 DEF Unaccepted
<1>6. Head(up[launch]).is \in Expected[server.phase]
  BY <1>4, <1>5, Tuples DEF Next1
<1>. QED BY <1>4, <1>5, <1>6, ExpectedIs DEF Phases

\* The session's queue never begins with a cookie.
LEMMA ServedNotAtTheDoor ==
  ASSUME ServerInv, server.session \in Launches, server.phase # "hung"
  PROVE  server.session \notin Unaccepted
<1>1. Next1(up[server.session], Expected[server.phase]) /\ server.phase \in Phases
  BY DEF ServerInv
<1>. QED BY <1>1, Tuples, ExpectedIs DEF Next1, Phases, Unaccepted
-----------------------------------------------------------------------------
LEMMA InitInv == Init => Inv
<1>. SUFFICES ASSUME Init PROVE Inv
  OBVIOUS
<1>1. Shape
  BY BoundsAssumption DEF Init, Shape, NewTest, FreeServer, iperf_defaults, Launches
<1>2. Unaccepted = {}
  BY DEF Init, Unaccepted, Launches
<1>3. ServerInv
  BY <1>2 DEF Init, ServerInv, FreeServer, Launches
<1>4. ClientInv
  BY DEF Init, ClientInv, Active
<1>. QED BY <1>1, <1>3, <1>4 DEF Inv

\* The invariant gives the property.
LEMMA InvInStep == Inv => InStep
<1>. SUFFICES ASSUME Inv PROVE InStep
  OBVIOUS
<1>. USE DEF Inv
<1>1. ASSUME server.session \in Launches, server.phase # "hung"
      PROVE  LET queue == up[server.session]
             IN queue = <<>> \/ (Len(queue) = 1 /\ queue[1].is \in Expected[server.phase])
  <2>. DEFINE queue == up[server.session]
  <2>1. queue = <<>> \/ (queue = <<queue[1]>> /\ queue[1].is \in Expected[server.phase])
    BY <1>1 DEF ServerInv, Next1
  <2>2. \A m : Len(<<m>>) = 1
    OBVIOUS
  <2>. HIDE DEF queue
  <2>3. queue = <<queue[1]>> => Len(queue) = 1
    BY <2>2, Zenon
  <2>. QED BY <2>1, <2>3 DEF queue
<1>2. ASSUME Waiting PROVE Incoming \in Follows(test.state) \cup Refusals
  <2>1. Active /\ down[launch] # <<>> /\ pc = "select"
    BY <1>2 DEF Waiting, Active
  <2>2. Incoming = Head(down[launch]).v
    BY DEF Incoming
  <2>. QED
    BY <2>1, <2>2, Reading, Messages
    DEF Follows, Refusals, End, TEST_START, TEST_RUNNING, TEST_END, PARAM_EXCHANGE,
        CREATE_STREAMS, SERVER_TERMINATE, EXCHANGE_RESULTS, DISPLAY_RESULTS,
        ACCESS_DENIED, SERVER_ERROR, Byte
<1>3. ASSUME pc = "results", down[launch] # <<>>
      PROVE  Head(down[launch]) \in {Byte(SERVER_TERMINATE)} \cup [is : {"results"}, v : {answered}]
  <2>1. Pending(down[launch]) \/ LastWords(down[launch])
    BY <1>3 DEF ClientInv, Active
  <2>. QED BY <1>3, <2>1, Tuples DEF Pending, LastWords, Answer, End, Data
<1>. QED BY <1>1, <1>2, <1>3 DEF InStep
-----------------------------------------------------------------------------
(* The steps of the client *)

USE DEF TEST_START, TEST_RUNNING, TEST_END, PARAM_EXCHANGE, CREATE_STREAMS, EXCHANGE_RESULTS,
        DISPLAY_RESULTS, IPERF_DONE, SERVER_TERMINATE

LEMMA ClientShape ==
  ASSUME Shape, launch # 0, UNCHANGED <<launch, shut, server>>,
         DOMAIN test' = DOMAIN test, test'.options = test.options,
         backlog' \in Seq(1 .. launch),
         up' = up \/ \E m : up' = [up EXCEPT ![launch] = Append(@, m)],
         down' = down \/ \E q : down' = [down EXCEPT ![launch] = q]
  PROVE  Shape'
<1>1. \A n \in Launches : n > launch => n # launch
  BY DEF Shape, Launches
<1>2. DOMAIN up' = Launches /\ \A n \in Launches : n > launch => up'[n] = <<>>
  BY <1>1 DEF Shape
<1>3. DOMAIN down' = Launches /\ \A n \in Launches : n > launch => down'[n] = <<>>
  BY <1>1 DEF Shape
<1>. QED BY <1>2, <1>3 DEF Shape

\* A step that writes nothing; the client leaves the door only when refused.
LEMMA ClientQuiet ==
  ASSUME Shape, ServerInv, ClientInv, UNCHANGED <<launch, server, up, shut>>,
         Active' \/ ~(Active /\ AtTheDoor)
  PROVE  ServerInv'
<1>1. Unaccepted' = Unaccepted
  BY DEF Unaccepted
<1>2. server.phase # "hung" => Unaccepted \subseteq {launch} /\ (Unaccepted # {} => Active')
  BY NoneAtTheDoor DEF ServerInv
<1>. QED BY <1>1, <1>2 DEF ServerInv

\* A step that writes what the server reads next.
LEMMA ClientWrites ==
  ASSUME Shape, ServerInv, ClientInv, Active, ~AtTheDoor, UNCHANGED <<launch, server, shut>>,
         NEW m, m.is # "cookie", up' = [up EXCEPT ![launch] = Append(@, m)],
         server.session = launch /\ server.phase # "hung" =>
           up[launch] = <<>> /\ m.is \in Expected[server.phase]
  PROVE  ServerInv'
<1>1. launch \in Launches /\ DOMAIN up = Launches
  BY DEF Shape, Launches, Active
<1>2. up'[launch] = Append(up[launch], m) /\ \A n \in Launches \ {launch} : up'[n] = up[n]
  BY <1>1
<1>3. server.session # launch => shut[launch]
  BY DEF ClientInv
<1>4. ASSUME server.session = launch, server.phase # "hung" PROVE up'[launch] = <<m>>
  BY <1>2, <1>4, Tuples
<1>5. ASSUME server.phase # "hung" PROVE Unaccepted' = {}
  <2>1. launch \notin Unaccepted'
    <3>1. CASE server.session = launch
      BY <1>4, <1>5, <3>1, Tuples DEF Unaccepted
    <3>2. CASE server.session # launch
      BY <1>3, <3>2 DEF Unaccepted
    <3>. QED BY <3>1, <3>2
  <2>2. \A n \in 1 .. launch : n # launch => n \notin Unaccepted'
    <3>1. Unaccepted = {}
      BY <1>5, NoneAtTheDoor
    <3>2. \A n \in 1 .. launch : n # launch => up'[n] = up[n]
      BY <1>1, <1>2 DEF Launches
    <3>. QED BY <3>1, <3>2 DEF Unaccepted
  <2>. QED BY <2>1, <2>2 DEF Unaccepted
<1>6. ASSUME server.session \in Launches, server.phase # "hung"
      PROVE  Next1(up'[server.session], Expected[server.phase])
  <2>1. CASE server.session = launch
    BY <1>4, <1>6, <2>1, Tuples DEF Next1
  <2>2. CASE server.session # launch
    BY <1>2, <1>6, <2>2 DEF ServerInv, Next1
  <2>. QED BY <2>1, <2>2
<1>. QED BY <1>5, <1>6 DEF ServerInv, Next1

\* What a byte other than a refusal says of the client, its server and the
\* rest of the connection.
LEMMA OnByte ==
  ASSUME Shape, ClientInv, Waiting
  PROVE  LET none == Left(<<>>) \/ (shut[launch] /\ Left(<<End>>))
         IN /\ Active /\ ~AtTheDoor /\ pc = "select" /\ launch \in Launches
            /\ server.session # launch => shut[launch]
            /\ Incoming = PARAM_EXCHANGE => test.state = 0 /\ none
            /\ Incoming = CREATE_STREAMS => test.state = PARAM_EXCHANGE /\ none
            /\ Incoming = TEST_START =>
                 /\ test.state = CREATE_STREAMS
                 /\ \/ Left(<<Byte(TEST_RUNNING)>>)
                    \/ shut[launch] /\ Left(<<Byte(TEST_RUNNING), End>>)
            /\ Incoming = TEST_RUNNING => test.state = TEST_START /\ none
            /\ Incoming = EXCHANGE_RESULTS => test.state = TEST_END /\ none
            /\ Incoming = DISPLAY_RESULTS => test.state = EXCHANGE_RESULTS /\ none
            /\ Incoming \in {PARAM_EXCHANGE, CREATE_STREAMS, TEST_START, TEST_RUNNING,
                            EXCHANGE_RESULTS, DISPLAY_RESULTS} => server.session = launch \/ server.session \notin Launches
<1>1. Active /\ ~AtTheDoor /\ pc = "select" /\ launch \in Launches /\ down[launch] # <<>>
  BY DEF Waiting, Active, AtTheDoor, Shape, Launches
<1>2. Incoming = Head(down[launch]).v
  BY DEF Incoming
<1>3. ASSUME Incoming # Byte(ACCESS_DENIED).v, server.session # launch, server.session \in Launches
      PROVE  FALSE
  <2>1. down[launch] = <<Byte(ACCESS_DENIED)>>
    BY <1>1, <1>3 DEF ClientInv, Denied
  <2>. QED BY <1>2, <1>3, <2>1
<1>4. Byte(SERVER_TERMINATE).v = 11 /\ Byte(ACCESS_DENIED).v = 255 /\ Byte(SERVER_ERROR).v = 254
      /\ Byte(PARAM_EXCHANGE).v = PARAM_EXCHANGE /\ Byte(CREATE_STREAMS).v = CREATE_STREAMS
      /\ Byte(TEST_START).v = TEST_START /\ Byte(TEST_RUNNING).v = TEST_RUNNING
      /\ Byte(EXCHANGE_RESULTS).v = EXCHANGE_RESULTS /\ Byte(DISPLAY_RESULTS).v = DISPLAY_RESULTS
  BY Messages
<1>5. server.session # launch => shut[launch]
  BY <1>1 DEF ClientInv
<1>. QED
  BY <1>1, <1>2, <1>3, <1>4, <1>5, Reading DEF End

LEMMA ParamExchangeInv == Inv /\ OnParamExchange => Inv'
<1>. SUFFICES ASSUME Inv, OnParamExchange PROVE Inv'
  OBVIOUS
<1>. USE DEF Inv
<1>1. /\ Waiting /\ Incoming = PARAM_EXCHANGE /\ down' = [down EXCEPT ![launch] = Tail(@)]
      /\ UNCHANGED <<launch, shut, server, answered, backlog>>
      /\ test' = [test EXCEPT !.state = PARAM_EXCHANGE]
  BY DEF OnParamExchange, Handle, SetState
<1>2. /\ Active /\ ~AtTheDoor /\ pc = "select" /\ launch \in Launches
      /\ server.session # launch => shut[launch]
      /\ test.state = 0 /\ (Left(<<>>) \/ (shut[launch] /\ Left(<<End>>)))
      /\ server.session = launch \/ server.session \notin Launches
  BY <1>1, OnByte
<1>3. DOMAIN test' = DOMAIN test /\ test'.options = test.options /\ test'.state = PARAM_EXCHANGE
  BY <1>1 DEF Shape
<1>4. Shape'
  BY <1>1, <1>2, <1>3, ClientShape DEF OnParamExchange, Nwrite, NwriteFails, Fail, Shape, Launches
<1>5. down'[launch] = <<>> \/ (shut'[launch] /\ down'[launch] = <<End>>)
  BY <1>1, <1>2 DEF Left, Shape
<1>6. server.session = launch /\ server.phase # "hung" =>
        server.phase = "params" /\ up[launch] = <<>>
  BY <1>2 DEF ClientInv, Joint
<1>7. CASE Nwrite(Data("params", package_parameters(test.options))) /\ UNCHANGED pc
  <2>. DEFINE m == Data("params", package_parameters(test.options))
  <2>1. ServerInv'
    <3>1. m.is = "params"
      BY Messages
    <3>2. up' = [up EXCEPT ![launch] = Append(@, m)]
      BY <1>7 DEF Nwrite
    <3>. HIDE DEF m
    <3>. QED BY <1>1, <1>2, <1>6, <3>1, <3>2, ClientWrites, ExpectedIs
  <2>2. Pending(down[launch])' \/ (shut[launch] /\ LastWords(down[launch]))'
    BY <1>1, <1>2, <1>3, <1>5, <1>7 DEF Pending, LastWords
  <2>3. server.session = launch /\ server.phase # "hung" => Joint'
    <3>1. server.session = launch /\ server.phase # "hung" => ~shut[launch]
      BY <1>2 DEF ServerInv
    <3>. QED BY <1>1, <1>3, <1>5, <1>6, <3>1 DEF Joint
  <2>4. ClientInv'
    BY <1>1, <1>2, <1>3, <2>2, <2>3 DEF ClientInv
  <2>. QED BY <1>4, <2>1, <2>4
<1>8. CASE pc' = "idle" /\ UNCHANGED up
  BY <1>1, <1>2, <1>4, <1>8, ClientQuiet DEF ClientInv, Active
<1>. QED BY <1>7, <1>8 DEF OnParamExchange, NwriteFails, Fail

\* A step that ends the run, of a client that is past the door or turned away.
LEMMA ClientEnds ==
  ASSUME Inv, Shape', ~Active', ~(Active /\ AtTheDoor), UNCHANGED <<launch, server, up, shut>>
  PROVE  Inv'
BY ClientQuiet DEF Inv, ClientInv

\* What holds in every case of iperf_handle_message_client.
LEMMA Handled ==
  ASSUME Inv, NEW state, Handle(state)
  PROVE  /\ Waiting /\ Incoming = state /\ Active /\ ~AtTheDoor /\ pc = "select"
         /\ launch \in Launches /\ launch # 0
         /\ UNCHANGED <<launch, shut, server, answered>>
         /\ down' = [down EXCEPT ![launch] = Tail(@)] /\ down'[launch] = Tail(down[launch])
         /\ server.session # launch => shut[launch]
         /\ server.session = launch /\ server.phase # "hung" => Joint /\ ~shut[launch]
<1>. USE DEF Inv
<1>1. /\ Waiting /\ Incoming = state /\ down' = [down EXCEPT ![launch] = Tail(@)]
      /\ UNCHANGED <<launch, shut, server, answered>>
  BY DEF Handle
<1>2. Active /\ ~AtTheDoor /\ pc = "select" /\ launch \in Launches /\ (server.session # launch => shut[launch])
  BY <1>1, OnByte
<1>3. down'[launch] = Tail(down[launch])
  BY <1>1, <1>2 DEF Shape
<1>4. server.session = launch /\ server.phase # "hung" => Joint /\ ~shut[launch]
  BY <1>2 DEF ClientInv, ServerInv
<1>. QED BY <1>1, <1>2, <1>3, <1>4 DEF Launches

LEMMA CreateStreamsInv == Inv /\ OnCreateStreams => Inv'
<1>. SUFFICES ASSUME Inv, OnCreateStreams PROVE Inv'
  OBVIOUS
<1>. USE DEF Inv
<1>1. Handle(CREATE_STREAMS) /\ test' = [test EXCEPT !.state = CREATE_STREAMS] /\ up' = up
  BY DEF OnCreateStreams, SetState
<1>2. DOMAIN test' = DOMAIN test /\ test'.options = test.options /\ test'.state = CREATE_STREAMS
  BY <1>1 DEF Shape
<1>3. backlog' \in Seq(1 .. launch) /\ (pc' = pc \/ pc' = "idle")
  <2>1. \A k \in Nat : [s \in 1 .. k |-> launch] \in Seq(1 .. launch)
    BY <1>1, Handled DEF Launches
  <2>2. \A k \in Nat : Opened(k) => backlog' \in Seq(1 .. launch)
    <3>. SUFFICES ASSUME NEW k \in Nat, Opened(k) PROVE backlog' \in Seq(1 .. launch)
      OBVIOUS
    <3>. DEFINE more == [s \in 1 .. k |-> launch]
    <3>1. backlog \in Seq(1 .. launch) /\ more \in Seq(1 .. launch)
      BY <2>1 DEF Shape
    <3>2. backlog' = backlog \o more
      BY DEF Opened
    <3>. HIDE DEF more
    <3>. QED BY <3>1, <3>2, ConcatProperties
  <2>3. PICK k \in Nat : Opened(k)
    BY DEF OnCreateStreams, Shape
  <2>. QED BY <2>2, <2>3 DEF OnCreateStreams, Fail
<1>4. Shape'
  BY <1>1, <1>2, <1>3, Handled, ClientShape
<1>5. CASE pc' = "idle"
  BY <1>1, <1>4, <1>5, Handled, ClientEnds DEF Active
<1>6. CASE pc' = pc
  <2>1. ServerInv'
    BY <1>1, <1>6, Handled, ClientQuiet DEF Active
  <2>2. /\ test.state = PARAM_EXCHANGE
        /\ down'[launch] = <<>> \/ (shut[launch] /\ down'[launch] = <<End>>)
        /\ server.session = launch \/ server.session \notin Launches
    BY <1>1, Handled, OnByte DEF Left
  <2>3. Pending(down[launch])' \/ (shut[launch] /\ LastWords(down[launch]))'
    BY <1>1, <1>2, <1>6, <2>2, Handled DEF Pending, LastWords
  <2>4. server.session = launch /\ server.phase # "hung" => Joint'
    <3>1. server.session = launch /\ server.phase # "hung" =>
            server.phase = "streams" /\ up[launch] = <<>> /\ ~shut[launch]
      BY <1>1, <2>2, Handled DEF Joint, Waiting
    <3>. QED BY <1>1, <1>2, <2>2, <3>1, Handled DEF Joint
  <2>5. ClientInv'
    BY <1>1, <1>2, <2>2, <2>3, <2>4, Handled DEF ClientInv
  <2>. QED BY <1>4, <2>1, <2>5
<1>. QED BY <1>3, <1>5, <1>6

LEMMA CreateUdpStreamsInv == Inv /\ OnCreateUdpStreams => Inv'
<1>. SUFFICES ASSUME Inv, OnCreateUdpStreams PROVE Inv'
  OBVIOUS
<1>. USE DEF Inv
<1>1. Handle(CREATE_STREAMS) /\ test' = [test EXCEPT !.state = CREATE_STREAMS]
      /\ UNCHANGED <<up, backlog>> /\ pc' = "udp"
  BY DEF OnCreateUdpStreams, SetState
<1>2. DOMAIN test' = DOMAIN test /\ test'.options = test.options
  BY <1>1 DEF Shape
<1>3. backlog' \in Seq(1 .. launch)
  BY <1>1 DEF Shape
<1>4. Shape'
  BY <1>1, <1>2, <1>3, Handled, ClientShape
<1>. QED BY <1>1, <1>4, Handled, ClientEnds DEF Active

LEMMA UdpRefusedInv == Inv /\ UdpRefused => Inv'
<1>. SUFFICES ASSUME Inv, UdpRefused PROVE Inv'
  OBVIOUS
<1>. USE DEF Inv
<1>1. pc = "udp" /\ pc' = "idle" /\ UNCHANGED <<launch, test, up, down, shut, server, backlog>>
  BY DEF UdpRefused, Fail, serverVars
<1>2. Shape'
  BY <1>1 DEF Shape
<1>. QED BY <1>1, <1>2, ClientEnds DEF Active

LEMMA TestStartInv == Inv /\ OnTestStart => Inv'
<1>. SUFFICES ASSUME Inv, OnTestStart PROVE Inv'
  OBVIOUS
<1>. USE DEF Inv
<1>1. /\ Handle(TEST_START) /\ UNCHANGED <<pc, up, backlog>>
      /\ test' = [test EXCEPT !.state = TEST_START, !.timer = (test.options.bytes = 0),
                              !.stats_timer = (test.options.interval # 0)]
  BY DEF OnTestStart
<1>2. DOMAIN test' = DOMAIN test /\ test'.options = test.options /\ test'.state = TEST_START
  BY <1>1 DEF Shape
<1>3. backlog' \in Seq(1 .. launch)
  BY <1>1 DEF Shape
<1>4. Shape'
  BY <1>1, <1>2, <1>3, Handled, ClientShape
<1>5. ServerInv'
  BY <1>1, Handled, ClientQuiet DEF Active
<1>6. /\ test.state = CREATE_STREAMS
      /\ \/ down'[launch] = <<Byte(TEST_RUNNING)>>
         \/ shut[launch] /\ down'[launch] = <<Byte(TEST_RUNNING), End>>
      /\ server.session = launch \/ server.session \notin Launches
  BY <1>1, Handled, OnByte DEF Left
<1>7. Pending(down[launch])' \/ (shut[launch] /\ LastWords(down[launch]))'
  BY <1>1, <1>2, <1>6, Handled DEF Pending, LastWords
<1>8. server.session = launch /\ server.phase # "hung" => Joint'
  <2>1. server.session = launch /\ server.phase # "hung" =>
          server.phase = "running" /\ up[launch] = <<>>
    BY <1>1, <1>6, Handled DEF Joint, Waiting
  <2>2. down'[launch] # <<>>
    BY <1>6, NotEmpty
  <2>. QED BY <1>1, <1>2, <2>1, <2>2, Handled DEF Joint
<1>9. ClientInv'
  BY <1>1, <1>2, <1>6, <1>7, <1>8, Handled DEF ClientInv
<1>. QED BY <1>4, <1>5, <1>9

LEMMA TestRunningInv == Inv /\ OnTestRunning => Inv'
<1>. SUFFICES ASSUME Inv, OnTestRunning PROVE Inv'
  OBVIOUS
<1>. USE DEF Inv
<1>1. /\ Handle(TEST_RUNNING) /\ UNCHANGED <<up, backlog>> /\ pc' = "body"
      /\ test' = [test EXCEPT !.state = TEST_RUNNING]
  BY DEF OnTestRunning, SetState
<1>2. DOMAIN test' = DOMAIN test /\ test'.options = test.options /\ test'.state = TEST_RUNNING
  BY <1>1 DEF Shape
<1>3. backlog' \in Seq(1 .. launch)
  BY <1>1 DEF Shape
<1>4. Shape'
  BY <1>1, <1>2, <1>3, Handled, ClientShape
<1>5. ServerInv'
  BY <1>1, Handled, ClientQuiet DEF Active
<1>6. /\ test.state = TEST_START
      /\ down'[launch] = <<>> \/ (shut[launch] /\ down'[launch] = <<End>>)
      /\ server.session = launch \/ server.session \notin Launches
  BY <1>1, Handled, OnByte DEF Left
<1>7. Pending(down[launch])' \/ (shut[launch] /\ LastWords(down[launch]))'
  BY <1>1, <1>2, <1>6, Handled DEF Pending, LastWords
<1>8. server.session = launch /\ server.phase # "hung" => Joint'
  <2>1. server.session = launch /\ server.phase # "hung" =>
          server.phase = "running" /\ up[launch] = <<>>
    BY <1>1, <1>6, Handled DEF Joint, Waiting
  <2>. QED BY <1>1, <1>2, <2>1, Handled DEF Joint
<1>9. ClientInv'
  BY <1>1, <1>2, <1>6, <1>7, <1>8, Handled DEF ClientInv
<1>. QED BY <1>4, <1>5, <1>9

LEMMA ExchangeResultsInv == Inv /\ OnExchangeResults => Inv'
<1>. SUFFICES ASSUME Inv, OnExchangeResults PROVE Inv'
  OBVIOUS
<1>. USE DEF Inv
<1>1. /\ Handle(EXCHANGE_RESULTS) /\ UNCHANGED backlog
      /\ test' = [test EXCEPT !.state = EXCHANGE_RESULTS]
  BY DEF OnExchangeResults, SetState
<1>2. DOMAIN test' = DOMAIN test /\ test'.options = test.options /\ test'.state = EXCHANGE_RESULTS
  BY <1>1 DEF Shape
<1>3. backlog' \in Seq(1 .. launch)
  BY <1>1, Handled DEF Shape
<1>4. Shape'
  BY <1>1, <1>2, <1>3, Handled, ClientShape DEF OnExchangeResults, Nwrite, NwriteFails, Fail
<1>5. /\ test.state = TEST_END
      /\ down'[launch] = <<>> \/ (shut[launch] /\ down'[launch] = <<End>>)
      /\ server.session = launch \/ server.session \notin Launches
  BY <1>1, Handled, OnByte DEF Left
<1>6. server.session = launch /\ server.phase # "hung" =>
        server.phase = "results" /\ up[launch] = <<>>
  BY <1>1, <1>5, Handled DEF Joint, Waiting
<1>7. CASE Nwrite(Data("results", Results(test.options, streams))) /\ pc' = "results"
  <2>. DEFINE m == Data("results", Results(test.options, streams))
  <2>1. ServerInv'
    <3>1. m.is = "results"
      BY Messages
    <3>2. up' = [up EXCEPT ![launch] = Append(@, m)]
      BY <1>7 DEF Nwrite
    <3>. HIDE DEF m
    <3>. QED BY <1>1, <1>6, <3>1, <3>2, Handled, ClientWrites, ExpectedIs
  <2>2. Pending(down[launch])' \/ (shut[launch] /\ LastWords(down[launch]))'
    BY <1>1, <1>2, <1>5, <1>7, Handled DEF Pending, LastWords
  <2>3. server.session = launch /\ server.phase # "hung" => Joint'
    BY <1>1, <1>2, <1>5, <1>6, <1>7, Handled DEF Joint
  <2>4. ClientInv'
    BY <1>1, <1>2, <1>5, <2>2, <2>3, Handled DEF ClientInv
  <2>. QED BY <1>4, <2>1, <2>4
<1>8. CASE pc' = "idle" /\ UNCHANGED up
  BY <1>1, <1>4, <1>8, Handled, ClientEnds DEF Active
<1>. QED BY <1>7, <1>8 DEF OnExchangeResults, NwriteFails, Fail

LEMMA DisplayResultsInv == Inv /\ OnDisplayResults => Inv'
<1>. SUFFICES ASSUME Inv, OnDisplayResults PROVE Inv'
  OBVIOUS
<1>. USE DEF Inv
<1>1. /\ Handle(DISPLAY_RESULTS) /\ UNCHANGED backlog /\ ~Active'
      /\ test' = [test EXCEPT !.state = IPERF_DONE]
      /\ Nwrite(Byte(IPERF_DONE)) \/ up' = up
  BY DEF OnDisplayResults, SetState, Active
<1>2. DOMAIN test' = DOMAIN test /\ test'.options = test.options
  BY <1>1 DEF Shape
<1>3. backlog' \in Seq(1 .. launch)
  BY <1>1, Handled DEF Shape
<1>4. Shape'
  BY <1>1, <1>2, <1>3, Handled, ClientShape DEF Nwrite
<1>5. CASE up' = up
  BY <1>1, <1>4, <1>5, Handled, ClientEnds
<1>6. CASE Nwrite(Byte(IPERF_DONE))
  <2>1. test.state = EXCHANGE_RESULTS
    BY <1>1, Handled, OnByte
  <2>2. server.session = launch /\ server.phase # "hung" =>
          server.phase = "display" /\ up[launch] = <<>>
    BY <1>1, <2>1, Handled DEF Joint, Waiting
  <2>3. ServerInv'
    <3>. DEFINE m == Byte(IPERF_DONE)
    <3>1. m.is = "byte"
      BY Messages
    <3>2. up' = [up EXCEPT ![launch] = Append(@, m)]
      BY <1>6 DEF Nwrite
    <3>. HIDE DEF m
    <3>. QED BY <1>1, <2>2, <3>1, <3>2, Handled, ClientWrites, ExpectedIs
  <2>. QED BY <1>1, <1>4, <2>3 DEF ClientInv
<1>. QED BY <1>1, <1>5, <1>6

LEMMA RefusalInv == Inv /\ OnRefusal => Inv'
<1>. SUFFICES ASSUME Inv, OnRefusal PROVE Inv'
  OBVIOUS
<1>. USE DEF Inv
<1>1. /\ Handle(Incoming) /\ UNCHANGED <<up, backlog>> /\ ~Active'
      /\ test' = [test EXCEPT !.state = Incoming]
  BY DEF OnRefusal, SetState, Fail, Active
<1>2. DOMAIN test' = DOMAIN test /\ test'.options = test.options
  BY <1>1 DEF Shape
<1>3. backlog' \in Seq(1 .. launch)
  BY <1>1 DEF Shape
<1>4. Shape'
  BY <1>1, <1>2, <1>3, Handled, ClientShape
<1>. QED BY <1>1, <1>4, Handled, ClientEnds

\* A client whose connection is shut is not unaccepted: it leaves no cookie.
LEMMA ClosedInv == Inv /\ OnClosed => Inv'
<1>. SUFFICES ASSUME Inv, OnClosed PROVE Inv'
  OBVIOUS
<1>. USE DEF Inv
<1>1. /\ shut[launch] /\ pc = "select" /\ pc' = "idle"
      /\ UNCHANGED <<launch, test, up, down, shut, server, backlog>>
  BY DEF OnClosed, Fail, serverVars
<1>2. Shape'
  BY <1>1 DEF Shape
<1>3. ServerInv'
  <2>1. Unaccepted' = Unaccepted /\ launch \notin Unaccepted
    BY <1>1 DEF Unaccepted
  <2>. QED BY <1>1, <2>1 DEF ServerInv
<1>. QED BY <1>1, <1>2, <1>3 DEF ClientInv, Active

LEMMA ReadResultsInv == Inv /\ ReadResults => Inv'
<1>. SUFFICES ASSUME Inv, ReadResults PROVE Inv'
  OBVIOUS
<1>. USE DEF Inv
<1>1. /\ pc = "results" /\ pc' \in {"select", "idle"}
      /\ down[launch] # <<>> /\ Head(down[launch]).is = "results"
      /\ down' = [down EXCEPT ![launch] = Tail(@)]
      /\ UNCHANGED <<launch, test, up, shut, server, backlog, answered>>
  BY DEF ReadResults, Fail, serverVars
<1>2. Active /\ ~AtTheDoor /\ launch # 0 /\ launch \in Launches
  BY <1>1 DEF Active, AtTheDoor, Shape, Launches
<1>3. Shape'
  <2>1. backlog' \in Seq(1 .. launch)
    BY <1>1 DEF Shape
  <2>. QED BY <1>1, <1>2, <2>1, ClientShape
<1>4. ServerInv'
  BY <1>1, <1>2, ClientQuiet
<1>5. test.state = EXCHANGE_RESULTS
      /\ (Left(<<Byte(DISPLAY_RESULTS)>>) \/ (shut[launch] /\ Left(<<Byte(DISPLAY_RESULTS), End>>)))
  <2>1. \A m \in {End, Byte(ACCESS_DENIED), Byte(SERVER_ERROR), Byte(PARAM_EXCHANGE),
                  Byte(CREATE_STREAMS), Byte(TEST_START), Byte(TEST_RUNNING),
                  Byte(EXCHANGE_RESULTS)} : m.is = "byte"
    BY Messages DEF End
  <2>. QED BY <1>1, <1>2, <2>1, Reading
<1>6. CASE pc' = "select"
  <2>1. down'[launch] = Tail(down[launch])
    BY <1>1, <1>2 DEF Shape
  <2>2. Pending(down[launch])' \/ (shut[launch] /\ LastWords(down[launch]))'
    BY <1>1, <1>5, <1>6, <2>1 DEF Pending, LastWords, Left
  <2>3. server.session = launch /\ server.phase # "hung" => Joint'
    <3>1. server.session = launch /\ server.phase # "hung" => Joint
      BY <1>2 DEF ClientInv
    <3>2. server.session = launch /\ server.phase # "hung" =>
            server.phase = "display" /\ up[launch] = <<>>
      BY <1>1, <1>5, <3>1 DEF Joint
    <3>3. down'[launch] # <<>>
      BY <1>5, <2>1, Tuples DEF Left
    <3>. QED BY <1>1, <1>5, <3>2, <3>3 DEF Joint
  <2>4. server.session # launch /\ server.session \in Launches => FALSE
    BY <1>2, <1>5 DEF ClientInv
  <2>5. ClientInv'
    BY <1>1, <1>2, <1>5, <2>2, <2>3, <2>4 DEF ClientInv
  <2>. QED BY <1>3, <1>4, <2>5
<1>7. CASE pc' = "idle"
  BY <1>3, <1>4, <1>7 DEF ClientInv, Active
<1>. QED BY <1>1, <1>6, <1>7

LEMMA ReadGarbageInv == Inv /\ ReadGarbage => Inv'
<1>. SUFFICES ASSUME Inv, ReadGarbage PROVE Inv'
  OBVIOUS
<1>. USE DEF Inv
<1>1. /\ pc = "results" /\ pc' \in {"select", "idle", "crashed"} /\ shut[launch]
      /\ down' = [down EXCEPT ![launch] = <<>>]
      /\ UNCHANGED <<launch, test, up, shut, server, backlog, answered>>
  BY DEF ReadGarbage, Fail, serverVars
<1>2. Active /\ ~AtTheDoor /\ launch # 0 /\ launch \in Launches
  BY <1>1 DEF Active, AtTheDoor, Shape, Launches
<1>3. Shape'
  <2>1. backlog' \in Seq(1 .. launch)
    BY <1>1 DEF Shape
  <2>. QED BY <1>1, <1>2, <2>1, ClientShape
<1>4. ServerInv'
  BY <1>1, <1>2, ClientQuiet
<1>5. server.session # launch
  BY <1>1, <1>2 DEF ServerInv
<1>6. test.state = EXCHANGE_RESULTS
  BY <1>1, <1>2 DEF ClientInv, Pending, LastWords
<1>7. ClientInv'
  <2>1. down'[launch] = <<>>
    BY <1>1, <1>2 DEF Shape
  <2>2. pc' = "select" => Pending(down[launch])'
    BY <1>1, <1>6, <2>1 DEF Pending
  <2>3. server.session \notin Launches
    BY <1>2, <1>5, <1>6 DEF ClientInv
  <2>. QED BY <1>1, <1>5, <1>6, <2>2, <2>3 DEF ClientInv, Active
<1>. QED BY <1>3, <1>4, <1>7

LEMMA RunBodyInv == Inv /\ RunBody => Inv'
<1>. SUFFICES ASSUME Inv, RunBody PROVE Inv'
  OBVIOUS
<1>. USE DEF Inv
<1>. DEFINE m == Byte(TEST_END)
<1>1. /\ pc = "body" \/ (pc = "select" /\ test.state = TEST_RUNNING)
      /\ UNCHANGED <<launch, down, shut, server, backlog, answered>>
  BY DEF RunBody, Body, serverVars
<1>2. PICK sent :
        \/ pc' = "crashed" /\ UNCHANGED <<test, up>>
        \/ pc' = "select" /\ test' = [test EXCEPT !.bytes_sent = sent] /\ UNCHANGED up
        \/ /\ test' = [test EXCEPT !.bytes_sent = sent, !.state = TEST_END]
           /\ \/ pc' = "select" /\ up' = [up EXCEPT ![launch] = Append(@, m)]
              \/ pc' = "idle" /\ UNCHANGED up
  <2>1. PICK blocks, broken, stats, report, timeUp : Body(blocks, broken, stats, report, timeUp)
    BY DEF RunBody
  <2>. DEFINE moved == Transfer(blocks, broken)
  <2>. HIDE DEF moved
  <2>2. \/ pc' = "crashed" /\ UNCHANGED <<test, up>>
        \/ pc' = "select" /\ test' = [test EXCEPT !.bytes_sent = moved.bytes_sent] /\ UNCHANGED up
        \/ /\ test' = [test EXCEPT !.bytes_sent = moved.bytes_sent, !.state = TEST_END]
           /\ \/ pc' = "select" /\ up' = [up EXCEPT ![launch] = Append(@, m)]
              \/ pc' = "idle" /\ UNCHANGED up
    BY <2>1, Zenon DEF Body, Nwrite, NwriteFails, Fail, moved
  <2>. QED BY <2>2
<1>. HIDE DEF m
<1>3. Active /\ launch # 0 /\ launch \in Launches
  BY <1>1 DEF Active, Shape, Launches
<1>4. /\ test.state = TEST_RUNNING
      /\ down[launch] = <<>> \/ (shut[launch] /\ down[launch] = <<End>>)
  BY <1>1, <1>3 DEF ClientInv, Pending, LastWords
<1>5. ~AtTheDoor /\ (server.session # launch => shut[launch] /\ server.session \notin Launches)
  BY <1>3, <1>4 DEF AtTheDoor, ClientInv
<1>6. server.session = launch /\ server.phase # "hung" =>
        server.phase = "running" /\ up[launch] = <<>> /\ down[launch] = <<>>
  BY <1>3, <1>4 DEF ClientInv, Joint, ServerInv
<1>7. DOMAIN test' = DOMAIN test /\ test'.options = test.options
  BY <1>2 DEF Shape
<1>8. Shape'
  <2>1. backlog' \in Seq(1 .. launch)
    BY <1>1 DEF Shape
  <2>. QED BY <1>1, <1>2, <1>3, <1>7, <2>1, ClientShape
<1>9. ServerInv'
  <2>1. CASE up' = up
    BY <1>1, <1>5, <2>1, ClientQuiet
  <2>2. CASE up' = [up EXCEPT ![launch] = Append(@, m)]
    <3>1. m.is = "byte"
      BY Messages DEF m
    <3>. QED BY <1>1, <1>3, <1>5, <1>6, <2>2, <3>1, ClientWrites, ExpectedIs
  <2>. QED BY <1>2, <2>1, <2>2
<1>10. ASSUME pc' = "select" PROVE ClientInv'
  <2>1. CASE test'.state = TEST_RUNNING /\ up' = up
    <3>1. Pending(down[launch])' \/ (shut[launch] /\ LastWords(down[launch]))'
      BY <1>1, <1>4, <1>10, <2>1 DEF Pending, LastWords
    <3>2. server.session = launch /\ server.phase # "hung" => Joint'
      BY <1>1, <1>6, <2>1 DEF Joint
    <3>. QED BY <1>1, <1>5, <2>1, <3>1, <3>2 DEF ClientInv
  <2>2. CASE test'.state = TEST_END
    <3>1. Pending(down[launch])' \/ (shut[launch] /\ LastWords(down[launch]))'
      BY <1>1, <1>4, <1>10, <2>2 DEF Pending, LastWords
    <3>2. server.session = launch /\ server.phase # "hung" => Joint'
      BY <1>1, <1>6, <2>2 DEF Joint
    <3>. QED BY <1>1, <1>5, <2>2, <3>1, <3>2 DEF ClientInv
  <2>. QED BY <1>2, <1>4, <1>10, <2>1, <2>2 DEF Shape
<1>11. pc' # "select" => ClientInv'
  BY <1>2 DEF ClientInv, Active
<1>. QED BY <1>8, <1>9, <1>10, <1>11
-----------------------------------------------------------------------------
(* The launches *)

LEMMA ParsedOptions == ASSUME NEW r \in Parsed PROVE r.test.num_streams \in Nat
BY ArgsAssumption, ParsedWithin DEF Parsed, Within, Options

\* A new launch has a connection nobody has used, and no stream in the backlog.
LEMMA LaunchShape ==
  ASSUME Shape, launch < MaxLaunches, launch' = launch + 1, NEW r \in Parsed,
         test' = NewTest(r.test), UNCHANGED <<down, shut, server, backlog>>,
         up' = up \/ \E q : up' = [up EXCEPT ![launch'] = q]
  PROVE  Shape' /\ launch' \in Launches /\ test'.state = 0
<1>1. launch \in Nat /\ launch' \in Nat /\ launch' \in 0 .. MaxLaunches /\ launch' \in Launches
  BY BoundsAssumption DEF Shape, Launches
<1>2. backlog' \in Seq(1 .. launch')
  BY <1>1, SeqMonotonic DEF Shape
<1>3. /\ DOMAIN test' = {"options", "state", "bytes_sent", "timer", "stats_timer"}
      /\ test'.options.num_streams \in Nat /\ test'.state = 0
  BY ParsedOptions DEF NewTest
<1>4. \A n \in Launches : n > launch' => n > launch /\ n # launch'
  BY <1>1 DEF Launches
<1>5. DOMAIN up' = Launches /\ \A n \in Launches : n > launch' => up'[n] = <<>>
  BY <1>4 DEF Shape
<1>6. server.session \in {Other, 0} \cup 1 .. launch'
  BY <1>1 DEF Shape
<1>. QED BY <1>1, <1>2, <1>3, <1>4, <1>5, <1>6 DEF Shape

LEMMA LaunchServer ==
  ASSUME Inv, pc = "idle", launch < MaxLaunches, launch' = launch + 1,
         UNCHANGED <<shut, server>>, up' = up \/ up' = [up EXCEPT ![launch'] = <<make_cookie>>],
         up' # up => Active'
  PROVE  ServerInv'
<1>. USE DEF Inv
<1>1. launch \in Nat /\ launch' \in Launches /\ launch' # launch /\ up[launch'] = <<>> /\ DOMAIN up = Launches
  BY BoundsAssumption DEF Shape, Launches
<1>2. server.session # launch'
  BY <1>1 DEF Shape, Other
<1>3. server.phase # "hung" => Unaccepted = {}
  BY DEF ServerInv, Active
<1>4. \A n \in 1 .. launch' : n # launch' => n \in 1 .. launch /\ up'[n] = up[n]
  <2>1. \A n \in 1 .. launch' : n # launch' => n \in 1 .. launch /\ n \in Launches
    BY <1>1, BoundsAssumption DEF Launches
  <2>. QED BY <1>1, <2>1
<1>5. server.phase # "hung" => Unaccepted' \subseteq {launch'}
  BY <1>3, <1>4 DEF Unaccepted
<1>6. up' = up => launch' \notin Unaccepted'
  BY <1>1 DEF Unaccepted
<1>7. server.session \in Launches => up'[server.session] = up[server.session]
  BY <1>1, <1>2
<1>. QED BY <1>2, <1>5, <1>6, <1>7 DEF ServerInv, Next1

LEMMA LaunchReturnsInv == Inv /\ LaunchReturns => Inv'
<1>. SUFFICES ASSUME Inv, LaunchReturns PROVE Inv'
  OBVIOUS
<1>1. PICK r \in Parsed : test' = NewTest(r.test)
  BY DEF LaunchReturns
<1>2. /\ pc = "idle" /\ launch < MaxLaunches /\ launch' = launch + 1
      /\ UNCHANGED <<pc, up, down, shut, server, backlog>>
  BY DEF LaunchReturns, serverVars
<1>3. Shape'
  BY <1>1, <1>2, LaunchShape DEF Inv
<1>4. ServerInv'
  BY <1>2, LaunchServer
<1>. QED BY <1>2, <1>3, <1>4 DEF Inv, ClientInv, Active

LEMMA LaunchConnectsInv == Inv /\ LaunchConnects => Inv'
<1>. SUFFICES ASSUME Inv, LaunchConnects PROVE Inv'
  OBVIOUS
<1>1. PICK r \in Parsed : test' = NewTest(r.test)
  BY DEF LaunchConnects
<1>2. /\ pc = "idle" /\ launch < MaxLaunches /\ launch' = launch + 1
      /\ UNCHANGED <<down, shut, server, backlog>>
  BY DEF LaunchConnects, serverVars
<1>3. CASE up' = [up EXCEPT ![launch'] = <<make_cookie>>] /\ pc' = "select"
  <2>1. Shape' /\ launch' \in Launches /\ test'.state = 0
    BY <1>1, <1>2, <1>3, LaunchShape DEF Inv
  <2>2. ServerInv'
    BY <1>2, <1>3, LaunchServer DEF Active
  <2>3. launch' > launch /\ launch \in Nat
    BY <1>2 DEF Inv, Shape
  <2>4. down'[launch'] = <<>> /\ up'[launch'] = <<Data("cookie", launch')>>
    BY <1>2, <1>3, <2>1, <2>3 DEF Inv, Shape, make_cookie
  <2>5. AtTheDoor' /\ Pending(down[launch])'
    BY <1>3, <2>1, <2>4 DEF AtTheDoor, Pending
  <2>6. server'.session # launch'
    BY <1>2, <2>3 DEF Inv, Shape, Other
  <2>7. \A i \in 1 .. Len(backlog') : backlog'[i] # launch'
    <3>1. \A i \in 1 .. Len(backlog) : backlog[i] \in 1 .. launch
      BY ElementOfSeq DEF Inv, Shape
    <3>. QED BY <1>2, <2>3, <3>1
  <2>8. ClientInv'
    BY <2>1, <2>4, <2>5, <2>6, <2>7 DEF ClientInv
  <2>. QED BY <2>1, <2>2, <2>8 DEF Inv
<1>4. CASE up' = up /\ pc' = "idle"
  <2>1. Shape'
    BY <1>1, <1>2, <1>4, LaunchShape DEF Inv
  <2>2. ServerInv'
    BY <1>2, <1>4, LaunchServer
  <2>. QED BY <1>4, <2>1, <2>2 DEF Inv, ClientInv, Active
<1>. QED BY <1>3, <1>4 DEF LaunchConnects, Fail
-----------------------------------------------------------------------------
(* The steps of the server and of the environment *)

\* The session the server has, and the connections it may touch.
LEMMA Session ==
  ASSUME Inv, server.session \in Launches
  PROVE  server.session \in 1 .. launch /\ launch \in Nat /\ launch \in Launches
BY BoundsAssumption DEF Inv, Shape, Launches, Other

LEMMA ServerShape ==
  ASSUME Shape, UNCHANGED <<launch, pc, test>>, NEW s \in 1 .. launch,
         DOMAIN server' = DOMAIN server, server'.session \in {server.session, s, 0},
         up' = up \/ \E q : up' = [up EXCEPT ![s] = q],
         down' = down \/ \E q : down' = [down EXCEPT ![s] = q],
         DOMAIN shut' = Launches, \A n \in Launches : n > launch => ~shut'[n],
         backlog' \in Seq(1 .. launch)
  PROVE  Shape'
<1>1. \A n \in Launches : n > launch => n # s
  BY DEF Shape, Launches
<1>2. DOMAIN up' = Launches /\ \A n \in Launches : n > launch => up'[n] = <<>>
  BY <1>1 DEF Shape
<1>3. DOMAIN down' = Launches /\ \A n \in Launches : n > launch => down'[n] = <<>>
  BY <1>1 DEF Shape
<1>. QED BY <1>2, <1>3 DEF Shape

\* A step in the service of a client: its message, if one is read, was the only one.
LEMMA ServesServer ==
  ASSUME Inv, UNCHANGED <<pc, launch>>, NEW s \in Launches, s = server.session,
         server.phase # "hung",
         up' = up \/ (up[s] # <<>> /\ up' = [up EXCEPT ![s] = Tail(@)]),
         \A n \in Launches : shut[n] => shut'[n],
         \/ server'.session = s /\ server'.phase \in Phases /\ ~shut'[s]
              /\ Next1(up'[s], Expected[server'.phase])
         \/ server'.session = 0 /\ server'.phase # "hung"
  PROVE  ServerInv'
<1>1. DOMAIN up = Launches /\ 0 \notin Launches
  BY DEF Inv, Shape, Launches
<1>2. s \notin Unaccepted
  BY ServedNotAtTheDoor DEF Inv
<1>3. up[s] # <<>> => Tail(up[s]) = <<>>
  <2>1. up[s] # <<>> => up[s] = <<up[s][1]>>
    BY DEF Inv, ServerInv, Next1
  <2>2. \A m : Tail(<<m>>) = <<>>
    OBVIOUS
  <2>. QED BY <2>1, <2>2, Zenon
<1>4. \A n \in Launches : n # s => up'[n] = up[n]
  BY <1>1
<1>5. up' # up => up'[s] = <<>>
  BY <1>1, <1>3
<1>6. launch \in Nat /\ 1 .. launch \subseteq Launches
  BY BoundsAssumption DEF Inv, Shape, Launches
<1>7. Unaccepted' \subseteq Unaccepted
  BY <1>2, <1>4, <1>5, <1>6 DEF Unaccepted
<1>8. Active' = Active
  BY DEF Active
<1>. QED BY <1>1, <1>7, <1>8 DEF Inv, ServerInv, Phases, Next1

\* What is left of the backlog holds no stream that was not in it.
Fewer == backlog' = backlog \/ backlog' = <<>> \/ (backlog # <<>> /\ backlog' = Tail(backlog))
LEMMA FewerStreams ==
  ASSUME Shape, Fewer, launch' = launch
  PROVE  /\ backlog' \in Seq(1 .. launch)
         /\ (\A i \in 1 .. Len(backlog) : backlog[i] # launch)
              => \A i \in 1 .. Len(backlog') : backlog'[i] # launch
<1>1. CASE backlog' = backlog
  BY <1>1 DEF Shape
<1>2. CASE backlog' = <<>>
  BY <1>2
<1>3. CASE backlog # <<>> /\ backlog' = Tail(backlog)
  <2>1. backlog \in Seq(1 .. launch)
    BY DEF Shape
  <2>2. /\ backlog' \in Seq(1 .. launch) /\ Len(backlog') = Len(backlog) - 1
        /\ Len(backlog) \in Nat /\ \A i \in 1 .. Len(backlog') : backlog'[i] = backlog[i + 1]
    BY <1>3, <2>1, HeadTailProperties, LenProperties
  <2>. QED BY <2>2
<1>. QED BY <1>1, <1>2, <1>3 DEF Fewer

\* A client that is not the one served does not notice, or finds itself shut out.
LEMMA ServesOther ==
  ASSUME Inv, UNCHANGED <<pc, test, launch>>, NEW s \in Launches, s = server.session, s # launch,
         launch \in Launches => down'[launch] = down[launch] /\ up'[launch] = up[launch],
         launch \in Launches => (shut[launch] => shut'[launch]),
         server'.session \in {s, 0}, Fewer
  PROVE  ClientInv'
<1>. SUFFICES ASSUME Active PROVE ClientInv'
  BY DEF ClientInv, Active
<1>1. launch \in Launches /\ launch # 0
  BY DEF Active, Inv, Shape, Launches
<1>2. test.state = 0 /\ down[launch] \in {<<>>, Denied}
  BY <1>1 DEF Inv, ClientInv
<1>3. Pending(down[launch])' \/ (shut[launch] /\ LastWords(down[launch]))'
  BY <1>1, <1>2 DEF Inv, ClientInv, Pending, LastWords
<1>4. shut'[launch] \/ AtTheDoor'
  BY <1>1 DEF Inv, ClientInv, AtTheDoor
<1>5. (\A i \in 1 .. Len(backlog) : backlog[i] # launch)
         /\ (\A i \in 1 .. Len(backlog') : backlog'[i] # launch)
  BY <1>2, FewerStreams DEF Inv, ClientInv
<1>. QED BY <1>1, <1>2, <1>3, <1>4, <1>5 DEF ClientInv

LEMMA AcceptsInv == ASSUME NEW n \in Launches PROVE Inv /\ ServerAccepts(n) => Inv'
<1>. SUFFICES ASSUME Inv, ServerAccepts(n) PROVE Inv'
  OBVIOUS
<1>. USE DEF Inv
<1>1. /\ n \in Unaccepted /\ server.phase # "hung"
      /\ UNCHANGED <<pc, launch, test, backlog, answered>>
  BY DEF ServerAccepts, clientVars
<1>2. n = launch /\ Active /\ launch # 0 /\ ~shut[launch] /\ launch \in Launches
      /\ launch \in 1 .. launch /\ 0 \notin Launches
  BY <1>1 DEF ServerInv, Unaccepted, Launches
<1>3. server.session # launch /\ AtTheDoor
  <2>1. server.session # launch
    BY <1>1, <1>2, ServedNotAtTheDoor
  <2>. QED BY <1>2, <2>1 DEF ClientInv
<1>4. \A i \in 1 .. Len(backlog) : backlog[i] # launch
  BY <1>2, <1>3 DEF ClientInv, AtTheDoor
<1>5. backlog' \in Seq(1 .. launch)
  BY <1>1 DEF Shape
<1>6. CASE server.session = 0
  <2>1. /\ server' = [server EXCEPT !.session = launch, !.phase = "params"]
        /\ up' = [up EXCEPT ![launch] = Tail(@)]
        /\ down' = [down EXCEPT ![launch] = <<Byte(PARAM_EXCHANGE)>>] /\ shut' = shut
    BY <1>2, <1>6 DEF ServerAccepts
  <2>2. /\ DOMAIN server' = DOMAIN server /\ server'.session = launch /\ server'.phase = "params"
    BY <2>1 DEF Shape
  <2>3. up'[launch] = <<>> /\ down'[launch] = <<Byte(PARAM_EXCHANGE)>>
        /\ \A k \in Launches : k # launch => up'[k] = up[k]
    BY <1>2, <1>3, <2>1 DEF Shape, AtTheDoor
  <2>4. Shape'
    BY <1>1, <1>2, <1>5, <2>1, <2>2, ServerShape DEF Shape
  <2>5. Unaccepted' \subseteq Unaccepted /\ Active' = Active
    <3>1. 1 .. launch \subseteq Launches
      BY BoundsAssumption DEF Shape, Launches
    <3>. QED BY <1>1, <2>1, <2>3, <3>1 DEF Unaccepted, Active
  <2>6. ServerInv'
    BY <1>1, <1>2, <2>1, <2>2, <2>3, <2>5 DEF ServerInv, Phases, Next1
  <2>7. Pending(down[launch])' /\ Joint'
    BY <1>1, <1>3, <2>2, <2>3 DEF AtTheDoor, Pending, Joint
  <2>8. ClientInv'
    BY <1>1, <1>4, <2>2, <2>7 DEF ClientInv
  <2>. QED BY <2>4, <2>6, <2>8
<1>7. CASE server.session # 0
  <2>1. /\ UNCHANGED <<server, up>> /\ shut' = [shut EXCEPT ![launch] = TRUE]
        /\ down' = [down EXCEPT ![launch] = Denied]
    BY <1>2, <1>7 DEF ServerAccepts, Close, Denied
  <2>2. shut'[launch] /\ down'[launch] = Denied /\ DOMAIN shut' = Launches
        /\ \A k \in Launches : k # launch => shut'[k] = shut[k]
    BY <1>2, <2>1 DEF Shape
  <2>3. Shape'
    BY <1>1, <1>2, <1>5, <2>1, <2>2, ServerShape DEF Shape
  <2>4. Unaccepted' \subseteq Unaccepted /\ Active' = Active
    <3>1. 1 .. launch \subseteq Launches
      BY BoundsAssumption DEF Shape, Launches
    <3>. QED BY <1>1, <2>1, <2>2, <3>1 DEF Unaccepted, Active
  <2>5. ServerInv'
    BY <1>1, <1>2, <1>3, <2>1, <2>2, <2>4 DEF ServerInv, Next1
  <2>6. LastWords(down[launch])'
    BY <1>1, <1>3, <2>2 DEF AtTheDoor, LastWords, Denied
  <2>7. ClientInv'
    BY <1>1, <1>3, <1>4, <2>1, <2>2, <2>6 DEF ClientInv, AtTheDoor
  <2>. QED BY <2>3, <2>5, <2>7
<1>. QED BY <1>6, <1>7

LEMMA ParamsInv == Inv /\ ServerParams => Inv'
<1>. SUFFICES ASSUME Inv, ServerParams PROVE Inv'
  OBVIOUS
<1>. DEFINE s == server.session
<1>1. /\ s \in Launches /\ server.phase = "params" /\ up[s] # <<>>
      /\ up' = [up EXCEPT ![s] = Tail(@)]
      /\ UNCHANGED <<pc, launch, test, answered>>
  BY DEF ServerParams, Serving, Received1, Take, clientVars
<1>2. s \in 1 .. launch /\ launch \in Launches /\ launch # 0 /\ 0 \notin Launches /\ ~shut[s]
  BY <1>1, Session DEF Inv, ServerInv, Launches
<1>. DEFINE o == parse_parameters(server.options, Head(up[s]).v)
            lost == IF NewListener(o) THEN Unaccepted ELSE {}
            reset == iperf_reset_test(o)
<1>3. PICK q :
        /\ backlog' = <<>> \/ backlog' = backlog
        /\ lost \in SUBSET Unaccepted
        /\ down' = [down EXCEPT ![s] = @ \o q]
        /\ \/ /\ server' = [server EXCEPT !.options = o, !.phase = "streams"]
              /\ q = <<Byte(CREATE_STREAMS)>>
              /\ shut' = [n \in Launches |-> shut[n] \/ n \in lost]
           \/ /\ server' = FreeServer(reset) /\ q = Broken
              /\ shut' = [n \in Launches |-> shut[n] \/ n \in lost \/ n = s]
  <2>1. backlog' = <<>> \/ backlog' = backlog
    BY DEF ServerParams
  <2>2. \/ /\ server' = [server EXCEPT !.options = o, !.phase = "streams"]
           /\ down' = [down EXCEPT ![s] = @ \o <<Byte(CREATE_STREAMS)>>]
           /\ shut' = [n \in Launches |-> shut[n] \/ n \in lost]
        \/ /\ server' = FreeServer(reset)
           /\ down' = [down EXCEPT ![s] = @ \o Broken]
           /\ shut' = [n \in Launches |-> shut[n] \/ n \in lost \/ n = s]
    BY DEF ServerParams, Say, Broken
  <2>3. lost \in SUBSET Unaccepted
    OBVIOUS
  <2>. HIDE DEF o, reset, lost
  <2>. QED BY <2>1, <2>2, <2>3
<1>. HIDE DEF o, reset, lost
<1>4. Fewer /\ backlog' \in Seq(1 .. launch)
  <2>1. Fewer
    BY <1>3 DEF Fewer
  <2>. QED BY <1>1, <2>1, FewerStreams DEF Inv
<1>5. s \notin lost /\ \A n \in lost : n \in 1 .. launch
  BY <1>1, <1>3, ServedNotAtTheDoor DEF Inv, Unaccepted
<1>6. /\ DOMAIN server' = DOMAIN server /\ DOMAIN shut' = Launches
      /\ \A n \in Launches : shut[n] => shut'[n]
      /\ \/ server'.session = s /\ server'.phase = "streams" /\ ~shut'[s]
              /\ q = <<Byte(CREATE_STREAMS)>>
         \/ server'.session = 0 /\ server'.phase = "idle" /\ shut'[s] /\ q = Broken
  <2>1. DOMAIN server = {"session", "phase", "options", "streams"} /\ DOMAIN FreeServer(reset) = DOMAIN server
        /\ FreeServer(reset).session = 0 /\ FreeServer(reset).phase = "idle"
    BY DEF Inv, Shape, FreeServer
  <2>2. DOMAIN shut' = Launches /\ \A n \in Launches : shut[n] => shut'[n]
    BY <1>3
  <2>3. CASE server' = FreeServer(reset) /\ q = Broken
               /\ shut' = [n \in Launches |-> shut[n] \/ n \in lost \/ n = s]
    BY <1>1, <2>1, <2>2, <2>3
  <2>4. CASE /\ server' = [server EXCEPT !.options = o, !.phase = "streams"]
             /\ q = <<Byte(CREATE_STREAMS)>>
             /\ shut' = [n \in Launches |-> shut[n] \/ n \in lost]
    BY <1>1, <1>2, <1>5, <2>1, <2>2, <2>4
  <2>. QED BY <1>3, <2>3, <2>4
<1>7. Shape'
  <2>1. \A n \in Launches : n > launch => ~shut'[n]
    <3>1. \A n \in Launches : n > launch => ~shut[n] /\ n \notin lost /\ n # s
      BY <1>2, <1>5 DEF Inv, Shape, Launches
    <3>. QED BY <1>3, <3>1
  <2>. QED BY <1>1, <1>2, <1>3, <1>4, <1>6, <2>1, ServerShape DEF Inv
<1>8. up'[s] = <<>> /\ down'[s] = down[s] \o q
  <2>1. up[s] = <<up[s][1]>>
    BY <1>1 DEF Inv, ServerInv, Next1
  <2>2. \A m : Tail(<<m>>) = <<>>
    OBVIOUS
  <2>3. Tail(up[s]) = <<>>
    BY <2>1, <2>2, Zenon
  <2>. QED BY <1>1, <1>3, <2>3 DEF Inv, Shape
<1>9. ServerInv'
  BY <1>1, <1>6, <1>8, ServesServer DEF Phases, Next1
<1>10. CASE s = launch
  <2>. SUFFICES ASSUME Active PROVE ClientInv'
    BY <1>1, <1>7, <1>9 DEF Inv, ClientInv, Active
  <2>1. test.state = PARAM_EXCHANGE /\ pc = "select" /\ down[launch] = <<>>
    <3>1. Joint
      BY <1>1, <1>10 DEF Inv, ClientInv
    <3>2. test.state = PARAM_EXCHANGE /\ down[launch] = <<>>
      BY <1>1, <1>10, <3>1 DEF Joint
    <3>3. ~shut[launch] /\ Pending(down[launch])
      BY <1>2, <1>10 DEF Inv, ClientInv
    <3>. QED BY <3>2, <3>3 DEF Pending
  <2>2. down'[launch] = q
    BY <1>6, <1>8, <1>10, <2>1, Tuples DEF Broken
  <2>3. \A i \in 1 .. Len(backlog') : backlog'[i] # launch
    BY <1>1, <1>4, <2>1, FewerStreams DEF Inv, ClientInv
  <2>4. CASE q = <<Byte(CREATE_STREAMS)>> /\ server'.phase = "streams"
    BY <1>1, <1>6, <1>8, <1>10, <2>1, <2>2, <2>3, <2>4, Tuples DEF ClientInv, Pending, Joint
  <2>5. CASE q = Broken /\ shut'[s] /\ server'.session = 0
    <3>1. LastWords(down[launch])'
      BY <1>1, <2>1, <2>2, <2>5 DEF LastWords
    <3>. QED BY <1>1, <1>2, <1>10, <2>1, <2>3, <2>5, <3>1 DEF ClientInv
  <2>. QED BY <1>6, <2>4, <2>5
<1>11. CASE s # launch
  <2>1. down'[launch] = down[launch] /\ up'[launch] = up[launch]
    BY <1>1, <1>2, <1>3, <1>11 DEF Inv, Shape
  <2>. QED BY <1>1, <1>2, <1>4, <1>6, <1>7, <1>9, <1>11, <2>1, ServesOther DEF Inv
<1>. QED BY <1>7, <1>9, <1>10, <1>11 DEF Inv

\* The server reads a message, if any, closes the connection and is free again.
LEMMA FreedInv ==
  ASSUME Inv, UNCHANGED <<pc, launch, test, down, backlog, answered>>,
         NEW s \in Launches, s = server.session, server.phase # "hung",
         up' = up \/ (up[s] # <<>> /\ up' = [up EXCEPT ![s] = Tail(@)]),
         shut' = [shut EXCEPT ![s] = TRUE], NEW o, server' = FreeServer(o)
  PROVE  Inv'
<1>1. s \in 1 .. launch /\ launch \in Launches /\ launch # 0 /\ 0 \notin Launches
  BY Session DEF Launches
<1>2. DOMAIN server' = DOMAIN server /\ server'.session = 0 /\ server'.phase = "idle"
  BY DEF FreeServer, Inv, Shape
<1>3. DOMAIN shut' = Launches /\ shut'[s] /\ \A n \in Launches : n # s => shut'[n] = shut[n]
  BY DEF Inv, Shape
<1>4. Shape'
  <2>1. \A n \in Launches : n > launch => ~shut'[n]
    <3>1. \A n \in Launches : n > launch => n # s
      BY <1>1 DEF Launches
    <3>. QED BY <1>3, <3>1 DEF Inv, Shape
  <2>2. backlog' \in Seq(1 .. launch)
    BY DEF Inv, Shape
  <2>. QED BY <1>1, <1>2, <1>3, <2>1, <2>2, ServerShape DEF Inv
<1>5. ServerInv'
  BY <1>2, <1>3, ServesServer
<1>6. CASE s = launch
  <2>. SUFFICES ASSUME Active PROVE ClientInv'
    BY <1>4, <1>5 DEF Inv, ClientInv, Active
  <2>1. (Pending(down[launch]) \/ LastWords(down[launch]))'
    BY DEF Inv, ClientInv, Pending, LastWords, Answer
  <2>2. test.state \in {0, PARAM_EXCHANGE} => \A i \in 1 .. Len(backlog) : backlog[i] # launch
    BY DEF Inv, ClientInv
  <2>. QED BY <1>1, <1>2, <1>3, <1>6, <2>1, <2>2 DEF ClientInv
<1>7. CASE s # launch
  <2>1. down'[launch] = down[launch] /\ up'[launch] = up[launch] /\ (shut[launch] => shut'[launch])
    BY <1>1, <1>3, <1>7 DEF Inv, Shape
  <2>. QED BY <1>2, <1>4, <1>5, <1>7, <2>1, ServesOther DEF Inv, Fewer
<1>. QED BY <1>6, <1>7

\* The server goes to a phase and writes to the client it serves, which has
\* nothing to read.
LEMMA AnsweredInv ==
  ASSUME Inv, UNCHANGED <<pc, launch, test, shut, backlog>>,
         NEW s \in Launches, s = server.session, server.phase # "hung",
         up[s] # <<>>, up' = [up EXCEPT ![s] = Tail(@)],
         NEW q, down' = [down EXCEPT ![s] = @ \o q], <<>> \o q = q,
         DOMAIN server' = DOMAIN server, server'.session = s, server'.phase \in Phases,
         s = launch /\ Active /\ Joint /\ up'[launch] = <<>> =>
           down[launch] = <<>> /\ (down'[launch] = q => Pending(down[launch])' /\ Joint')
  PROVE  Inv'
<1>1. s \in 1 .. launch /\ launch \in Launches /\ launch # 0 /\ 0 \notin Launches /\ ~shut[s]
  BY Session DEF Launches, Inv, ServerInv
<1>2. Shape'
  <2>1. \A n \in Launches : n > launch => ~shut'[n]
    BY DEF Inv, Shape
  <2>2. backlog' \in Seq(1 .. launch) /\ DOMAIN shut' = Launches
    BY DEF Inv, Shape
  <2>. QED BY <1>1, <2>1, <2>2, ServerShape DEF Inv
<1>3. up'[s] = <<>>
  <2>1. up[s] = <<up[s][1]>>
    BY DEF Inv, ServerInv, Next1
  <2>2. \A m : Tail(<<m>>) = <<>>
    OBVIOUS
  <2>3. Tail(up[s]) = <<>>
    BY <2>1, <2>2, Zenon
  <2>. QED BY <2>3 DEF Inv, Shape
<1>4. ServerInv'
  BY <1>1, <1>3, ServesServer DEF Next1
<1>5. CASE s = launch
  <2>. SUFFICES ASSUME Active PROVE ClientInv'
    BY <1>2, <1>4 DEF Inv, ClientInv, Active
  <2>1. down[launch] = <<>> /\ (down'[launch] = q => Pending(down[launch])' /\ Joint')
    BY <1>3, <1>5 DEF Inv, ClientInv
  <2>2. down'[launch] = q
    BY <1>1, <1>5, <2>1 DEF Inv, Shape
  <2>3. test.state \in {0, PARAM_EXCHANGE} => \A i \in 1 .. Len(backlog) : backlog[i] # launch
    BY DEF Inv, ClientInv
  <2>. QED BY <1>5, <2>1, <2>2, <2>3 DEF ClientInv
<1>6. CASE s # launch
  <2>1. down'[launch] = down[launch] /\ up'[launch] = up[launch]
    BY <1>1, <1>6 DEF Inv, Shape
  <2>. QED BY <1>2, <1>4, <1>6, <2>1, ServesOther DEF Inv, Fewer
<1>. QED BY <1>5, <1>6

LEMMA TestEndInv == Inv /\ ServerTestEnd => Inv'
<1>. SUFFICES ASSUME Inv, ServerTestEnd PROVE Inv'
  OBVIOUS
<1>. DEFINE s == server.session
            q == <<Byte(EXCHANGE_RESULTS)>>
<1>1. /\ s \in Launches /\ server.phase = "running" /\ up[s] # <<>>
      /\ up' = [up EXCEPT ![s] = Tail(@)] /\ down' = [down EXCEPT ![s] = @ \o q]
      /\ server' = [server EXCEPT !.phase = "results"]
      /\ UNCHANGED <<pc, launch, test, shut, backlog, answered>>
  BY DEF ServerTestEnd, Serving, Received1, Take, Say, clientVars
<1>2. DOMAIN server' = DOMAIN server /\ server'.session = s /\ server'.phase = "results"
  BY <1>1 DEF Inv, Shape
<1>3. ASSUME s = launch, Active, Joint, up'[launch] = <<>>
      PROVE  down[launch] = <<>> /\ (down'[launch] = q => Pending(down[launch])' /\ Joint')
  <2>1. test.state = TEST_END /\ down[launch] = <<>>
    BY <1>1, <1>3 DEF Joint
  <2>2. pc = "select"
    BY <1>1, <1>3, <2>1 DEF Inv, ClientInv, Pending, LastWords
  <2>. QED BY <1>1, <1>2, <1>3, <2>1, <2>2 DEF Pending, Joint
<1>4. <<>> \o q = q
  BY Tuples
<1>. HIDE DEF q
<1>. QED BY <1>1, <1>2, <1>3, <1>4, AnsweredInv DEF Phases

LEMMA ResultsInv == Inv /\ ServerResults => Inv'
<1>. SUFFICES ASSUME Inv, ServerResults PROVE Inv'
  OBVIOUS
<1>. DEFINE s == server.session
<1>1. /\ s \in Launches /\ server.phase = "results" /\ up[s] # <<>>
      /\ up' = [up EXCEPT ![s] = Tail(@)]
      /\ UNCHANGED <<pc, launch, test, backlog>>
  BY DEF ServerResults, Serving, Received1, Take, clientVars
<1>2. CASE \E kept : /\ server' = FreeServer(kept) /\ shut' = [shut EXCEPT ![s] = TRUE]
                     /\ UNCHANGED <<down, answered>>
  BY <1>1, <1>2, FreedInv
<1>3. CASE \E list : /\ server' = [server EXCEPT !.streams = list, !.phase = "display"]
                     /\ down' = [down EXCEPT ![s] = @ \o <<Answer', Byte(DISPLAY_RESULTS)>>]
                     /\ UNCHANGED shut
  <2>. DEFINE q == <<Answer', Byte(DISPLAY_RESULTS)>>
  <2>1. /\ DOMAIN server' = DOMAIN server /\ server'.session = s /\ server'.phase = "display"
        /\ down' = [down EXCEPT ![s] = @ \o q]
    BY <1>3 DEF Inv, Shape
  <2>2. <<>> \o q = q /\ q # <<>>
    BY Tuples
  <2>3. ASSUME s = launch, Active, Joint, up'[launch] = <<>>
        PROVE  down[launch] = <<>> /\ (down'[launch] = q => Pending(down[launch])' /\ Joint')
    <3>1. test.state = EXCHANGE_RESULTS /\ pc = "results" /\ down[launch] = <<>>
      <4>1. up[launch] # <<>>
        BY <1>1, <2>3
      <4>. QED BY <1>1, <2>3, <4>1 DEF Joint
    <3>. QED BY <1>1, <2>1, <2>2, <2>3, <3>1 DEF Pending, Joint
  <2>. HIDE DEF q
  <2>. QED BY <1>1, <1>3, <2>1, <2>2, <2>3, AnsweredInv DEF Phases
<1>. QED BY <1>2, <1>3 DEF ServerResults, Say, Close, Answer

LEMMA DoneInv == Inv /\ ServerDone => Inv'
<1>. SUFFICES ASSUME Inv, ServerDone PROVE Inv'
  OBVIOUS
<1>. DEFINE s == server.session
<1>1. /\ s \in Launches /\ server.phase = "display" /\ up[s] # <<>>
      /\ up' = [up EXCEPT ![s] = Tail(@)] /\ shut' = [shut EXCEPT ![s] = TRUE]
      /\ server' = FreeServer(iperf_reset_test(server.options))
      /\ UNCHANGED <<pc, launch, test, down, backlog, answered>>
  BY DEF ServerDone, Serving, Received1, Take, Close, clientVars
<1>. QED BY <1>1, FreedInv

LEMMA ConnectionLostInv == Inv /\ ConnectionLost => Inv'
<1>. SUFFICES ASSUME Inv, ConnectionLost PROVE Inv'
  OBVIOUS
<1>. DEFINE s == server.session
<1>1. /\ s \in Launches /\ server.phase # "hung" /\ up' = up
      /\ shut' = [shut EXCEPT ![s] = TRUE]
      /\ server' = FreeServer(iperf_reset_test(server.options))
      /\ UNCHANGED <<pc, launch, test, down, backlog, answered>>
  BY DEF ConnectionLost, Close, clientVars
<1>. QED BY <1>1, FreedInv

LEMMA AcceptsStreamInv == Inv /\ ServerAcceptsStream => Inv'
<1>. SUFFICES ASSUME Inv, ServerAcceptsStream PROVE Inv'
  OBVIOUS
<1>. DEFINE s == server.session
            both == <<Byte(TEST_START), Byte(TEST_RUNNING)>>
<1>1. /\ s \in Launches /\ server.phase = "streams" /\ backlog # <<>> /\ backlog' = Tail(backlog)
      /\ UNCHANGED <<pc, launch, test, up, shut, answered>>
  BY DEF ServerAcceptsStream, Serving, clientVars
<1>2. /\ DOMAIN server' = DOMAIN server /\ server'.session = s
      /\ \/ server'.phase = "running" /\ Head(backlog) = s /\ down' = [down EXCEPT ![s] = @ \o both]
         \/ server'.phase = "streams" /\ down' = [down EXCEPT ![s] = @ \o <<>>]
  <2>. DEFINE own == Head(backlog) = s
              list == IF own THEN iperf_add_stream(server.streams, iperf_new_stream(0))
                      ELSE server.streams
              full == own /\ Len(list) = server.options.num_streams
  <2>1. /\ server' = [server EXCEPT !.streams = list, !.phase = IF full THEN "running" ELSE @]
        /\ Say(IF full THEN both ELSE <<>>)
    BY DEF ServerAcceptsStream
  <2>2. full => Head(backlog) = s
    OBVIOUS
  <2>. HIDE DEF own, list, full
  <2>. QED BY <1>1, <2>1, <2>2 DEF Say, Inv, Shape
<1>3. s \in 1 .. launch /\ launch \in Launches /\ launch # 0 /\ 0 \notin Launches /\ ~shut[s]
  BY <1>1, Session DEF Launches, Inv, ServerInv
<1>4. Fewer /\ backlog' \in Seq(1 .. launch)
  <2>1. Fewer
    BY <1>1 DEF Fewer
  <2>. QED BY <1>1, <2>1, FewerStreams DEF Inv
<1>5. Shape'
  <2>1. \A n \in Launches : n > launch => ~shut'[n]
    BY <1>1 DEF Inv, Shape
  <2>2. DOMAIN shut' = Launches
    BY <1>1 DEF Inv, Shape
  <2>. QED BY <1>1, <1>2, <1>3, <1>4, <2>1, <2>2, ServerShape DEF Inv
<1>6. up[s] = <<>>
  BY <1>1, ExpectedIs DEF Inv, ServerInv, Next1
<1>7. ServerInv'
  BY <1>1, <1>2, <1>3, <1>6, ServesServer DEF Phases, Next1
<1>8. CASE s = launch
  <2>. SUFFICES ASSUME Active PROVE ClientInv'
    BY <1>1, <1>5, <1>7 DEF Inv, ClientInv, Active
  <2>1. Joint /\ Pending(down[launch])
    BY <1>1, <1>3, <1>8 DEF Inv, ClientInv
  <2>2. /\ pc = "select"
        /\ \/ test.state = PARAM_EXCHANGE /\ down[launch] = <<Byte(CREATE_STREAMS)>>
           \/ test.state = CREATE_STREAMS /\ down[launch] = <<>>
    BY <1>1, <2>1 DEF Joint, Pending
  <2>3. test.state = PARAM_EXCHANGE =>
          Head(backlog) # s /\ \A i \in 1 .. Len(backlog') : backlog'[i] # launch
    <3>1. test.state = PARAM_EXCHANGE => \A i \in 1 .. Len(backlog) : backlog[i] # launch
      BY DEF Inv, ClientInv
    <3>2. Head(backlog) = backlog[1] /\ Len(backlog) >= 1
      BY <1>1, EmptySeq DEF Inv, Shape
    <3>. QED BY <1>1, <1>4, <1>8, <3>1, <3>2, FewerStreams DEF Inv
  <2>4. CASE server'.phase = "running" /\ Head(backlog) = s /\ down' = [down EXCEPT ![s] = @ \o both]
    <3>1. test.state = CREATE_STREAMS /\ down[launch] = <<>>
      BY <2>2, <2>3, <2>4
    <3>2. down'[launch] = <<>> \o both
      BY <1>3, <1>8, <2>4, <3>1 DEF Inv, Shape
    <3>3. <<>> \o both = both /\ both # <<>>
      BY Tuples
    <3>4. Pending(down[launch])' /\ Joint'
      BY <1>1, <1>6, <1>8, <2>2, <2>4, <3>1, <3>2, <3>3 DEF Pending, Joint
    <3>. QED BY <1>1, <1>2, <1>8, <3>1, <3>4 DEF ClientInv
  <2>5. CASE server'.phase = "streams" /\ down' = [down EXCEPT ![s] = @ \o <<>>]
    <3>1. down'[launch] = down[launch] \o <<>>
      BY <1>3, <1>8, <2>5 DEF Inv, Shape
    <3>2. <<Byte(CREATE_STREAMS)>> \o <<>> = <<Byte(CREATE_STREAMS)>> /\ <<>> \o <<>> = <<>>
      BY Tuples
    <3>3. down'[launch] = down[launch]
      BY <2>2, <3>1, <3>2
    <3>4. Pending(down[launch])' /\ Joint'
      BY <1>1, <1>6, <1>8, <2>2, <2>5, <3>3 DEF Pending, Joint
    <3>. QED BY <1>1, <1>2, <1>8, <2>2, <2>3, <3>4 DEF ClientInv
  <2>. QED BY <1>2, <2>4, <2>5
<1>9. CASE s # launch
  <2>1. down'[launch] = down[launch]
    BY <1>2, <1>3, <1>9 DEF Inv, Shape
  <2>. QED BY <1>1, <1>2, <1>4, <1>5, <1>7, <1>9, <2>1, ServesOther DEF Inv
<1>. QED BY <1>5, <1>7, <1>8, <1>9 DEF Inv

LEMMA MovesInv == ASSUME NEW i PROVE Inv /\ ServerMoves(i) => Inv'
<1>. SUFFICES ASSUME Inv, ServerMoves(i) PROVE Inv'
  OBVIOUS
<1>1. /\ UNCHANGED <<pc, launch, test, up, down, shut, backlog, answered>>
      /\ \E sp : server' = [server EXCEPT !.streams[i] = sp]
  BY DEF ServerMoves, clientVars
<1>2. DOMAIN server' = DOMAIN server /\ server'.session = server.session
      /\ server'.phase = server.phase
  BY <1>1 DEF Inv, Shape
<1>3. Shape'
  BY <1>1, <1>2 DEF Inv, Shape
<1>4. ServerInv'
  BY <1>1, <1>2 DEF Inv, ServerInv, Unaccepted, Active, Next1
<1>5. ClientInv'
  BY <1>1, <1>2 DEF Inv, ClientInv, Active, Pending, LastWords, Answer, Joint, AtTheDoor
<1>. QED BY <1>3, <1>4, <1>5 DEF Inv

LEMMA HangsInv == Inv /\ ServerHangs => Inv'
<1>. SUFFICES ASSUME Inv, ServerHangs PROVE Inv'
  OBVIOUS
<1>1. /\ UNCHANGED <<pc, launch, test, up, down, shut, backlog, answered>>
      /\ server.session \in Launches /\ server' = [server EXCEPT !.phase = "hung"]
  BY DEF ServerHangs, clientVars
<1>2. DOMAIN server' = DOMAIN server /\ server'.session = server.session
      /\ server'.phase = "hung"
  BY <1>1 DEF Inv, Shape
<1>3. Shape'
  BY <1>1, <1>2 DEF Inv, Shape
<1>4. ServerInv'
  BY <1>1, <1>2 DEF Inv, ServerInv
<1>5. ClientInv'
  BY <1>1, <1>2 DEF Inv, ClientInv, Active, Pending, LastWords, Answer, AtTheDoor
<1>. QED BY <1>3, <1>4, <1>5 DEF Inv

\* Between sessions nothing depends on who has the server.
LEMMA OthersInv ==
  ASSUME Inv, UNCHANGED <<pc, launch, test, up, down, shut, backlog, answered>>,
         server.session \in {0, Other}, DOMAIN server' = DOMAIN server,
         server'.session \in {0, Other}, server'.phase # "hung"
  PROVE  Inv'
<1>1. 0 \notin Launches /\ Other \notin Launches /\ server.phase # "hung"
  BY DEF Launches, Other, Inv, ServerInv
<1>2. Shape'
  BY DEF Inv, Shape
<1>3. ServerInv'
  BY <1>1 DEF Inv, ServerInv, Unaccepted, Active
<1>4. ClientInv'
  <2>. SUFFICES ASSUME Active PROVE ClientInv'
    BY DEF ClientInv, Active
  <2>1. launch \in Launches
    BY DEF Active, Inv, Shape, Launches
  <2>. QED
    BY <1>1, <2>1 DEF Inv, ClientInv, Pending, LastWords, Answer, AtTheDoor
<1>. QED BY <1>2, <1>3, <1>4 DEF Inv

LEMMA OthersTestInv == Inv /\ (OthersTest \/ OthersTestEnds) => Inv'
<1>. SUFFICES ASSUME Inv, OthersTest \/ OthersTestEnds PROVE Inv'
  OBVIOUS
<1>1. CASE OthersTest
  <2>1. PICK o : server' = [server EXCEPT !.session = Other, !.phase = "other", !.options = o]
    BY <1>1 DEF OthersTest
  <2>2. /\ UNCHANGED <<pc, launch, test, up, down, shut, backlog, answered>>
        /\ server.session = 0
    BY <1>1 DEF OthersTest, clientVars
  <2>3. DOMAIN server' = DOMAIN server /\ server'.session = Other /\ server'.phase = "other"
    BY <2>1 DEF Inv, Shape
  <2>. QED BY <2>2, <2>3, OthersInv
<1>2. CASE OthersTestEnds
  <2>1. /\ UNCHANGED <<pc, launch, test, up, down, shut, backlog, answered>>
        /\ server.session = Other /\ server' = FreeServer(iperf_reset_test(server.options))
    BY <1>2 DEF OthersTestEnds, clientVars
  <2>2. DOMAIN server' = DOMAIN server /\ server'.session = 0 /\ server'.phase = "idle"
    BY <2>1 DEF Inv, Shape, FreeServer
  <2>. QED BY <2>1, <2>2, OthersInv
<1>. QED BY <1>1, <1>2

LEMMA TerminatesInv == Inv /\ ServerTerminates => Inv'
<1>. SUFFICES ASSUME Inv, ServerTerminates PROVE Inv'
  OBVIOUS
<1>. DEFINE s == server.session
<1>1. /\ s \in Launches /\ server.phase # "hung" /\ backlog' = <<>>
      /\ down' = [down EXCEPT ![s] = @ \o <<End>>] /\ shut' = [shut EXCEPT ![s] = TRUE]
      /\ UNCHANGED <<pc, launch, test, up, answered>>
  BY DEF ServerTerminates, Say, Close, End, clientVars
<1>2. DOMAIN server' = DOMAIN server /\ server'.session = 0 /\ server'.phase = "idle"
  BY DEF ServerTerminates, FreeServer, Inv, Shape
<1>3. s \in 1 .. launch /\ launch \in Launches /\ launch # 0 /\ 0 \notin Launches
  BY <1>1, Session DEF Launches
<1>4. Fewer /\ backlog' \in Seq(1 .. launch)
  BY <1>1 DEF Fewer
<1>5. DOMAIN shut' = Launches /\ shut'[s] /\ \A n \in Launches : n # s => shut'[n] = shut[n]
  BY <1>1 DEF Inv, Shape
<1>6. Shape'
  <2>1. \A n \in Launches : n > launch => ~shut'[n]
    <3>1. \A n \in Launches : n > launch => n # s
      BY <1>3 DEF Launches
    <3>. QED BY <1>5, <3>1 DEF Inv, Shape
  <2>. QED BY <1>1, <1>2, <1>3, <1>4, <1>5, <2>1, ServerShape DEF Inv
<1>7. ServerInv'
  BY <1>1, <1>2, <1>5, ServesServer
<1>8. CASE s = launch
  <2>. SUFFICES ASSUME Active PROVE ClientInv'
    BY <1>1, <1>6, <1>7 DEF Inv, ClientInv, Active
  <2>1. Pending(down[launch]) /\ down'[launch] = down[launch] \o <<End>>
    <3>1. ~shut[launch]
      BY <1>1, <1>8 DEF Inv, ServerInv
    <3>. QED BY <1>1, <1>3, <1>8, <3>1 DEF Inv, ClientInv, Shape
  <2>2. LastWords(down[launch])'
    <3>. DEFINE d == down[launch]
                e == down'[launch]
    <3>1. /\ d = <<>> => e = <<End>>
          /\ \A a : d = <<a>> => e = <<a, End>>
          /\ \A a, b : d = <<a, b>> => e = <<a, b, End>>
      <4>1. <<>> \o <<End>> = <<End>>
        BY Tuples
      <4>2. \A a : <<a>> \o <<End>> = <<a, End>>
        BY Tuples
      <4>3. ASSUME NEW a, NEW b PROVE <<a, b>> \o <<End>> = <<a, b, End>>
        BY TwoAndOne
      <4>. QED BY <2>1, <4>1, <4>2, <4>3
    <3>2. Pending(d)
      BY <2>1
    <3>. HIDE DEF d, e
    <3>3. /\ test' = test /\ pc' = pc /\ answered' = answered
          /\ LastWords(e) => LastWords(down[launch])'
      BY <1>1 DEF LastWords, Answer, e
    <3>4. LastWords(e)
      BY <3>1, <3>2 DEF Pending, LastWords
    <3>. QED BY <3>3, <3>4
  <2>. QED BY <1>1, <1>2, <1>3, <1>5, <1>8, <2>2 DEF ClientInv
<1>9. CASE s # launch
  <2>1. down'[launch] = down[launch] /\ up'[launch] = up[launch] /\ (shut[launch] => shut'[launch])
    BY <1>1, <1>3, <1>5, <1>9 DEF Inv, Shape
  <2>. QED BY <1>1, <1>2, <1>4, <1>6, <1>7, <1>9, <2>1, ServesOther DEF Inv
<1>. QED BY <1>6, <1>7, <1>8, <1>9 DEF Inv
-----------------------------------------------------------------------------
LEMMA NextInv == Inv /\ [Next]_vars => Inv'
<1>. SUFFICES ASSUME Inv, [Next]_vars PROVE Inv'
  OBVIOUS
<1>1. CASE UNCHANGED vars
  <2>1. UNCHANGED <<pc, launch, test, up, down, shut, server, backlog, answered>>
    BY <1>1 DEF vars, clientVars, serverVars
  <2>2. Shape'
    BY <2>1 DEF Inv, Shape
  <2>3. ServerInv'
    BY <2>1 DEF Inv, ServerInv, Unaccepted, Active, Next1
  <2>4. ClientInv'
    BY <2>1 DEF Inv, ClientInv, Active, Pending, LastWords, Answer, Joint, AtTheDoor
  <2>. QED BY <2>2, <2>3, <2>4 DEF Inv
<1>2. CASE Launch
  BY <1>2, LaunchReturnsInv, LaunchConnectsInv DEF Launch
<1>3. CASE OnMessage
  BY <1>3, ParamExchangeInv, CreateStreamsInv, CreateUdpStreamsInv, TestStartInv,
     TestRunningInv, ExchangeResultsInv, DisplayResultsInv, RefusalInv, ClosedInv
  DEF OnMessage
<1>4. CASE ReadResults \/ ReadGarbage \/ RunBody
  BY <1>4, ReadResultsInv, ReadGarbageInv, RunBodyInv
<1>5. CASE UdpRefused
  BY <1>5, UdpRefusedInv
<1>6. CASE ServerStep
  <2>1. CASE \E n \in Launches : ServerAccepts(n)
    BY <2>1, AcceptsInv
  <2>2. CASE \E i \in DOMAIN server.streams : ServerMoves(i)
    BY <2>2, MovesInv
  <2>. QED
    BY <1>6, <2>1, <2>2, ParamsInv, AcceptsStreamInv, TestEndInv, ResultsInv, DoneInv,
       OthersTestInv
    DEF ServerStep
<1>7. CASE Environment
  BY <1>7, TerminatesInv, ConnectionLostInv, HangsInv, OthersTestInv DEF Environment
<1>. QED BY <1>1, <1>2, <1>3, <1>4, <1>5, <1>6, <1>7 DEF Next, ClientStep

\* Client and server never take a message of the control connection for another
\* one, whatever the command lines, the other clients and the faults are.
THEOREM ClientKeepsStep == Spec => []InStep
<1>1. Init => Inv
  BY InitInv
<1>2. Inv /\ [Next]_vars => Inv'
  BY NextInv
<1>3. Inv => InStep
  BY InvInStep
<1>. QED BY <1>1, <1>2, <1>3, PTL DEF Spec
-----------------------------------------------------------------------------
(* What the server knows of the test *)

\* The options of a server between two tests, but for what it keeps.
Fresh(o) ==
  /\ o.num_streams = 1
  /\ \A m \in {"reverse", "socket_bufsize", "mss", "no_delay"} : o[m] = 0
  /\ \A m \in {"rate", "duration", "blksize"} : o[m] = iperf_defaults[m]

\* What ServerKnowsTest says of what a client sent and a server has.
Knows(s, t) ==
  /\ \A member \in {"num_streams", "reverse", "socket_bufsize", "mss", "no_delay"} :
       s[member] = t[member]
  /\ \A member \in {"rate", "duration", "blksize", "bytes", "tos"} :
       t[member] # 0 => s[member] = t[member]
  /\ \A member \in {"rate", "duration", "blksize"} :
       t[member] = 0 => s[member] = iperf_defaults[member]

\* The server has a message of its session to read, or waits for the results.
Busy(phase, queue) == phase = "results" \/ (phase \in {"params", "running"} /\ queue # <<>>)

\* OptionsInv: whose options client and server have.
OptionsInv ==
  /\ test.options \in Within /\ server.options \in Within /\ server.options.role = "s"
  /\ Active => test.options.role = "c"
  /\ server.session = 0 \/ server.phase = "params" => Fresh(server.options)
  /\ server.session \notin Launches => server.phase \notin Phases
  /\ server.session \in Launches /\ Busy(server.phase, up[server.session]) =>
       server.session = launch /\ Active
  /\ server.session \in Launches /\ server.phase = "params" /\ up[server.session] # <<>> =>
       Head(up[server.session]) = Data("params", package_parameters(test.options))
  /\ server.session \in Launches /\ server.session = launch /\ server.phase \in Phases \ {"params"} =>
       Knows(server.options, test.options)

LEMMA FreshKnows ==
  ASSUME NEW s \in Within, NEW t \in Within, Fresh(s)
  PROVE  LET p == parse_parameters(s, package_parameters(t))
         IN p \in Within /\ p.role = s.role /\ Knows(p, t)
<1>. DEFINE p == parse_parameters(s, package_parameters(t))
<1>1. s \in Options /\ t \in Options /\ t.num_streams <= MAX_STREAMS
  BY DEF Within
<1>2. /\ p \in Options /\ p.role = s.role /\ p.num_streams = t.num_streams
      /\ \A m \in Told : p[m] = IF t[m] = 0 THEN s[m] ELSE t[m]
  BY <1>1, ServerTakes
<1>. HIDE DEF p
<1>3. \A m \in {"reverse", "socket_bufsize", "mss", "no_delay"} : p[m] = t[m]
  BY <1>2 DEF Fresh, Told
<1>4. \A m \in {"rate", "duration", "blksize", "bytes", "tos"} : t[m] # 0 => p[m] = t[m]
  BY <1>2 DEF Told
<1>5. \A m \in {"rate", "duration", "blksize"} : t[m] = 0 => p[m] = iperf_defaults[m]
  BY <1>2 DEF Fresh, Told
<1>6. p \in Within
  BY <1>1, <1>2 DEF Within
<1>7. Knows(p, t)
  BY <1>2, <1>3, <1>4, <1>5 DEF Knows
<1>. QED BY <1>2, <1>6, <1>7 DEF p

LEMMA TakesWithin ==
  ASSUME NEW s \in Within, NEW t \in Within
  PROVE  LET p == parse_parameters(s, package_parameters(t))
         IN p \in Within /\ p.role = s.role
BY ServerTakes DEF Within

LEMMA DefaultsFresh ==
  ASSUME NEW o, o = [iperf_defaults EXCEPT !.role = "s"]
  PROVE  o \in Within /\ o.role = "s" /\ Fresh(o) /\ iperf_defaults \in Within
<1>1. o \in Options /\ o.num_streams = 1 /\ o.role = "s" /\ iperf_defaults \in Options
  BY DEF iperf_defaults, Options
<1>2. Fresh(o)
  BY DEF Fresh, iperf_defaults
<1>3. iperf_defaults.num_streams = 1 /\ 1 <= MAX_STREAMS
  BY DEF iperf_defaults, MAX_STREAMS
<1>4. \A x \in Options : x.num_streams = 1 => x \in Within
  BY <1>3 DEF Within
<1>. QED BY <1>1, <1>2, <1>3, <1>4

\* A member that a server keeps from one test to the next.
KeptNumbers == {"bytes", "tos", "server_port", "bind_address", "interval", "tcp_info"}
LEMMA FreshSet ==
  ASSUME NEW d \in Options, d \in Within, d.role = "s", Fresh(d),
         NEW m \in Numeric, m \in KeptNumbers, NEW v \in Nat, NEW e, e = [d EXCEPT ![m] = v]
  PROVE  e \in Within /\ e.role = "s" /\ Fresh(e)
<1>1. d \in Options /\ m \in Numeric /\ m # "num_streams"
  BY DEF Within, Numeric, KeptNumbers
<1>2. e \in Options /\ e.role = d.role /\ \A k \in Numeric : k # m => e[k] = d[k]
  <2>1. e \in Options
    BY SetMember
  <2>2. e.role = d.role
    BY SetMember
  <2>3. \A k \in Numeric : k # m => e[k] = d[k]
    BY SetMember
  <2>. QED BY <2>1, <2>2, <2>3
<1>3. e \in Within
  BY <1>1, WithinMember
<1>4. Fresh(e)
  BY <1>2 DEF Fresh, Numeric, KeptNumbers
<1>. QED BY <1>2, <1>3, <1>4

LEMMA ResetFresh ==
  ASSUME NEW t \in Within, NEW o, o = iperf_reset_test(t)
  PROVE  o \in Within /\ o.role = "s" /\ Fresh(o)
<1>. DEFINE
       d0 == [iperf_defaults EXCEPT !.role = "s"]
       d1 == [d0 EXCEPT !["bytes"] = t.bytes]
       d2 == [d1 EXCEPT !["tos"] = t.tos]
       d3 == [d2 EXCEPT !.domain = t.domain]
       d4 == [d3 EXCEPT !["server_port"] = t.server_port]
       d5 == [d4 EXCEPT !["bind_address"] = t.bind_address]
       d6 == [d5 EXCEPT !["interval"] = t.interval]
       d7 == [d6 EXCEPT !["tcp_info"] = t.tcp_info]
       Good(d) == d \in Within /\ d.role = "s" /\ Fresh(d)
<1>1. t \in Options
  BY DEF Within
<1>2. Good(d0)
  BY DefaultsFresh
<1>3. ASSUME NEW d, Good(d), NEW m \in KeptNumbers, NEW v \in Nat, NEW e, e = [d EXCEPT ![m] = v]
      PROVE  Good(e)
  <2>1. d \in Options /\ d \in Within /\ d.role = "s" /\ Fresh(d)
    BY <1>3 DEF Within
  <2>2. m \in Numeric /\ m \in KeptNumbers /\ v \in Nat /\ e = [d EXCEPT ![m] = v]
    BY <1>3 DEF Numeric, KeptNumbers
  <2>. HIDE DEF Good
  <2>3. e \in Within
    BY <2>1, <2>2, FreshSet
  <2>4. e.role = "s" /\ Fresh(e)
    BY <2>1, <2>2, FreshSet
  <2>. QED BY <2>3, <2>4 DEF Good
<1>4. ASSUME NEW d, Good(d), NEW e, e = [d EXCEPT !.domain = t.domain]
      PROVE  Good(e)
  <2>1. e \in Options /\ e.num_streams = d.num_streams /\ e.role = d.role
    BY <1>1, <1>4 DEF Within, Options
  <2>2. Fresh(e)
    BY <1>4 DEF Fresh, Within, Options
  <2>. QED BY <1>4, <2>1, <2>2 DEF Within
<1>. HIDE DEF Good
<1>5. /\ t.bytes \in Nat /\ t.tos \in Nat /\ t.server_port \in Nat /\ t.bind_address \in Nat
      /\ t.interval \in Nat /\ t.tcp_info \in Nat
  BY <1>1 DEF Options
<1>6. Good(d1) /\ Good(d2)
  BY <1>2, <1>3, <1>5 DEF KeptNumbers
<1>7. Good(d3)
  BY <1>4, <1>6
<1>8. Good(d4) /\ Good(d5)
  BY <1>3, <1>5, <1>7 DEF KeptNumbers
<1>9. Good(d6) /\ Good(d7)
  BY <1>3, <1>5, <1>8 DEF KeptNumbers
<1>10. o = d7
  BY DEF iperf_reset_test
<1>. QED BY <1>9, <1>10 DEF Good

\* A step of the client: it has its options, and a server that waits for its
\* message finds it there.
LEMMA ClientOptions ==
  ASSUME Inv, OptionsInv, UNCHANGED <<launch, server>>, test'.options = test.options,
         Active' => Active,
         \/ up' = up
         \/ /\ Active
            /\ \E m : /\ up' = [up EXCEPT ![launch] = Append(@, m)]
                      /\ server.session = launch /\ server.phase = "params" =>
                           up[launch] = <<>> /\ m = Data("params", package_parameters(test.options)),
         server.session = launch /\ Active /\ Busy(server.phase, up'[launch]) => Active'
  PROVE  OptionsInv'
<1>. DEFINE s == server.session
            told == Data("params", package_parameters(test.options))
<1>1. told' = told
  OBVIOUS
<1>. HIDE DEF told
<1>2. ASSUME s \in Launches, Busy(server.phase, up'[s]) PROVE s = launch /\ Active'
  <2>1. CASE s # launch
    <3>1. up'[s] = up[s]
      BY <1>2, <2>1 DEF Inv, Shape
    <3>. QED BY <1>2, <2>1, <3>1 DEF OptionsInv
  <2>2. CASE s = launch
    <3>1. Active
      BY <1>2, <2>2 DEF OptionsInv
    <3>. QED BY <1>2, <2>2, <3>1
  <2>. QED BY <2>1, <2>2
<1>3. ASSUME s \in Launches, server.phase = "params", up'[s] # <<>> PROVE Head(up'[s]) = told
  <2>1. s = launch
    BY <1>2, <1>3 DEF Busy
  <2>2. CASE up' = up
    BY <1>3, <2>2 DEF OptionsInv, told
  <2>3. CASE up' # up
    <3>1. up'[launch] = Append(<<>>, told)
      BY <1>3, <2>1, <2>3 DEF Inv, Shape, told
    <3>2. up'[launch] = <<told>>
      BY <3>1, Tuples
    <3>. QED BY <2>1, <3>2, Tuples
  <2>. QED BY <2>2, <2>3
<1>4. Head(up'[server'.session]) = told' <=> Head(up'[s]) = told
  BY <1>1
<1>5. server'.session = s /\ server'.phase = server.phase /\ server'.options = server.options
  OBVIOUS
<1>6. s \in Launches /\ Busy(server.phase, up'[s]) => s = launch /\ Active'
  BY <1>2
<1>7. Busy(server.phase, up[server.session])' = Busy(server.phase, up'[s])
  BY <1>5 DEF Busy
<1>. QED BY <1>3, <1>4, <1>5, <1>6, <1>7 DEF OptionsInv, told

\* The client writes what it was told to, and stays while the server needs it.
LEMMA MessageOptions == Inv /\ OptionsInv /\ OnMessage => OptionsInv'
<1>. SUFFICES ASSUME Inv, OptionsInv, OnMessage PROVE OptionsInv'
  OBVIOUS
<1>. USE DEF Inv
<1>. DEFINE Stays == server.session = launch /\ Active /\ Busy(server.phase, up'[launch]) => Active'
<1>0. ASSUME Active, shut[launch] PROVE Stays
  BY <1>0 DEF ServerInv, Shape, Launches, Active
<1>1. CASE OnParamExchange
  <2>1. Handle(PARAM_EXCHANGE) /\ test' = [test EXCEPT !.state = PARAM_EXCHANGE]
    BY <1>1 DEF OnParamExchange, SetState
  <2>2. test.state = 0 /\ (server.session = launch /\ server.phase = "params" => up[launch] = <<>>)
    <3>1. test.state = 0
      BY <2>1, Handled, OnByte
    <3>2. server.session = launch /\ server.phase # "hung" => Joint
      BY <2>1, Handled
    <3>. QED BY <3>1, <3>2 DEF Joint
  <2>3. CASE Nwrite(Data("params", package_parameters(test.options))) /\ UNCHANGED pc
    <3>1. Stays
      BY <2>3 DEF Active
    <3>. QED BY <2>1, <2>2, <2>3, <3>1, Handled, ClientOptions DEF Nwrite, Shape, Active
  <2>4. CASE shut[launch] /\ up' = up /\ pc' = "idle"
    BY <1>0, <2>1, <2>4, Handled, ClientOptions DEF Shape, Active
  <2>. QED BY <1>1, <2>3, <2>4 DEF OnParamExchange, NwriteFails, Fail
<1>2. CASE OnCreateStreams \/ OnCreateUdpStreams
  <2>1. Handle(CREATE_STREAMS) /\ test' = [test EXCEPT !.state = CREATE_STREAMS] /\ up' = up
    BY <1>2 DEF OnCreateStreams, OnCreateUdpStreams, SetState
  <2>2. server.session = launch /\ server.phase # "hung" => server.phase = "streams"
    <3>1. test.state = PARAM_EXCHANGE /\ down[launch] # <<>>
      BY <2>1, Handled, OnByte DEF Waiting
    <3>2. server.session = launch /\ server.phase # "hung" => Joint
      BY <2>1, Handled
    <3>. QED BY <3>1, <3>2 DEF Joint
  <2>3. Stays
    BY <2>1, <2>2 DEF Busy
  <2>. QED BY <2>1, <2>3, Handled, ClientOptions DEF Shape
<1>3. CASE OnTestStart \/ OnTestRunning
  <2>1. /\ Handle(TEST_START) \/ Handle(TEST_RUNNING)
        /\ test'.options = test.options /\ up' = up /\ Active'
    BY <1>3, Handled DEF OnTestStart, OnTestRunning, SetState, Shape, Active
  <2>. QED BY <2>1, Handled, ClientOptions
<1>4. CASE OnExchangeResults
  <2>. DEFINE m == Data("results", Results(test.options, streams))
  <2>1. Handle(EXCHANGE_RESULTS) /\ test' = [test EXCEPT !.state = EXCHANGE_RESULTS]
    BY <1>4 DEF OnExchangeResults, SetState
  <2>2. test.state = TEST_END /\ (server.session = launch => server.phase # "params")
    <3>1. test.state = TEST_END
      BY <2>1, Handled, OnByte
    <3>2. server.session = launch /\ server.phase # "hung" => Joint
      BY <2>1, Handled
    <3>. QED BY <3>1, <3>2 DEF Joint
  <2>3. CASE up' = [up EXCEPT ![launch] = Append(@, m)] /\ pc' = "results"
    <3>1. Stays
      BY <2>3 DEF Active
    <3>. HIDE DEF m
    <3>. QED BY <2>1, <2>2, <2>3, <3>1, Handled, ClientOptions DEF Shape, Active
  <2>4. CASE shut[launch] /\ up' = up /\ pc' = "idle"
    BY <1>0, <2>1, <2>4, Handled, ClientOptions DEF Shape, Active
  <2>. QED BY <1>4, <2>3, <2>4 DEF OnExchangeResults, Nwrite, NwriteFails, Fail
<1>5. CASE OnDisplayResults
  <2>1. /\ Handle(DISPLAY_RESULTS) /\ test' = [test EXCEPT !.state = IPERF_DONE] /\ ~Active'
        /\ Nwrite(Byte(IPERF_DONE)) \/ up' = up
    BY <1>5 DEF OnDisplayResults, SetState, Active
  <2>2. test.state = EXCHANGE_RESULTS /\ down[launch] # <<>> /\ pc = "select"
    BY <2>1, Handled, OnByte DEF Waiting
  <2>3. server.session = launch /\ server.phase # "hung" => server.phase = "display"
    <3>1. server.session = launch /\ server.phase # "hung" => Joint
      BY <2>1, Handled
    <3>. QED BY <2>2, <3>1 DEF Joint
  <2>4. Stays /\ (server.session = launch => server.phase # "params")
    BY <2>3 DEF Busy
  <2>5. test'.options = test.options /\ UNCHANGED <<launch, server>> /\ Active
    BY <2>1, Handled DEF Shape
  <2>. QED BY <2>1, <2>4, <2>5, ClientOptions DEF Nwrite
<1>6. CASE OnRefusal
  <2>1. Handle(Incoming) /\ test' = [test EXCEPT !.state = Incoming] /\ up' = up /\ ~Active'
    BY <1>6 DEF OnRefusal, SetState, Fail, Active
  <2>2. shut[launch]
    <3>1. down[launch] # <<>> /\ Active /\ Incoming = Head(down[launch]).v
      BY <2>1, Handled DEF Waiting, Incoming
    <3>2. Incoming \notin {PARAM_EXCHANGE, CREATE_STREAMS, TEST_START, TEST_RUNNING,
                           EXCHANGE_RESULTS, DISPLAY_RESULTS, IPERF_DONE}
      BY <1>6 DEF OnRefusal
    <3>3. pc = "select"
      BY <2>1, Handled
    <3>4. /\ Byte(PARAM_EXCHANGE).v = PARAM_EXCHANGE /\ Byte(CREATE_STREAMS).v = CREATE_STREAMS
          /\ Byte(TEST_START).v = TEST_START /\ Byte(TEST_RUNNING).v = TEST_RUNNING
          /\ Byte(EXCHANGE_RESULTS).v = EXCHANGE_RESULTS
          /\ Byte(DISPLAY_RESULTS).v = DISPLAY_RESULTS
      BY Messages
    <3>. QED BY <3>1, <3>2, <3>3, <3>4, Reading
  <2>. QED BY <1>0, <2>1, <2>2, Handled, ClientOptions DEF Shape
<1>7. CASE OnClosed
  <2>1. /\ shut[launch] /\ pc = "select" /\ pc' = "idle"
        /\ UNCHANGED <<launch, test, up, server>>
    BY <1>7 DEF OnClosed, Fail, serverVars
  <2>. QED BY <1>0, <2>1, ClientOptions DEF Active
<1>. QED BY <1>1, <1>2, <1>3, <1>4, <1>5, <1>6, <1>7 DEF OnMessage

LEMMA ReadingOptions == Inv /\ OptionsInv /\ (ReadResults \/ ReadGarbage) => OptionsInv'
<1>. SUFFICES ASSUME Inv, OptionsInv, ReadResults \/ ReadGarbage PROVE OptionsInv'
  OBVIOUS
<1>. USE DEF Inv
<1>1. UNCHANGED <<launch, test, up, server>> /\ Active /\ pc = "results" /\ launch \in Launches
  BY DEF ReadResults, ReadGarbage, serverVars, Active, Shape, Launches
<1>2. ASSUME server.session = launch, server.phase # "hung" PROVE server.phase \in {"results", "display"}
                                                  /\ (server.phase = "results" => down[launch] = <<>>)
  <2>1. Joint
    BY <1>1, <1>2 DEF ClientInv
  <2>2. test.state = EXCHANGE_RESULTS
    BY <1>1 DEF ClientInv, Pending, LastWords
  <2>. QED BY <2>1, <2>2 DEF Joint
<1>3. CASE ReadResults
  <2>1. server.session = launch /\ Active /\ Busy(server.phase, up'[launch]) => Active'
    BY <1>2, <1>3 DEF Busy, ReadResults
  <2>. QED BY <1>1, <2>1, ClientOptions
<1>4. CASE ReadGarbage
  <2>1. server.session # launch
    BY <1>1, <1>4 DEF ServerInv, ReadGarbage
  <2>. QED BY <1>1, <2>1, ClientOptions
<1>. QED BY <1>3, <1>4

\* What a turn of the loop leaves of the test, and writes.
LEMMA Turn ==
  ASSUME Inv, RunBody
  PROVE  /\ pc = "body" \/ (pc = "select" /\ test.state = TEST_RUNNING)
         /\ Active /\ launch # 0 /\ launch \in Launches /\ test.state = TEST_RUNNING
         /\ UNCHANGED <<launch, gTest, sockets, down, shut, server, backlog, answered>>
         /\ Fault \/ UNCHANGED budget
         /\ down[launch] = <<>> \/ (shut[launch] /\ down[launch] = <<End>>)
         /\ server.session # launch => shut[launch] /\ server.session \notin Launches
         /\ server.session = launch /\ server.phase # "hung" =>
              server.phase = "running" /\ up[launch] = <<>> /\ down[launch] = <<>> /\ ~shut[launch]
         /\ test'.options = test.options /\ DOMAIN test' = DOMAIN test
         /\ test'.stats_timer = test.stats_timer
         /\ \/ pc' = "crashed" /\ UNCHANGED <<test, up, streams, ret>>
            \/ pc' = "select" /\ test'.state = TEST_RUNNING /\ UNCHANGED <<up, ret>>
            \/ pc' = "select" /\ test'.state = TEST_END /\ UNCHANGED ret
                 /\ up' = [up EXCEPT ![launch] = Append(@, Byte(TEST_END))]
            \/ pc' = "idle" /\ test'.state = TEST_END /\ ret' = "fail" /\ shut[launch] /\ UNCHANGED up
<1>. USE DEF Inv
<1>1. /\ pc = "body" \/ (pc = "select" /\ test.state = TEST_RUNNING)
      /\ UNCHANGED <<launch, gTest, sockets, down, shut, server, backlog, answered>>
      /\ Fault \/ UNCHANGED budget
  BY DEF RunBody, Body, serverVars
<1>2. Active /\ launch # 0 /\ launch \in Launches
  BY <1>1 DEF Active, Shape, Launches
<1>3. /\ test.state = TEST_RUNNING
      /\ down[launch] = <<>> \/ (shut[launch] /\ down[launch] = <<End>>)
  BY <1>1, <1>2 DEF ClientInv, Pending, LastWords
<1>4. server.session # launch => shut[launch] /\ server.session \notin Launches
  BY <1>2, <1>3 DEF AtTheDoor, ClientInv
<1>5. server.session = launch /\ server.phase # "hung" =>
        server.phase = "running" /\ up[launch] = <<>> /\ down[launch] = <<>> /\ ~shut[launch]
  BY <1>2, <1>3 DEF ClientInv, Joint, ServerInv
<1>6. PICK blocks, broken, stats, report, timeUp : Body(blocks, broken, stats, report, timeUp)
  BY DEF RunBody
<1>. DEFINE sent == Transfer(blocks, broken).bytes_sent
            m == Byte(TEST_END)
<1>. HIDE DEF sent, m
<1>7. \/ pc' = "crashed" /\ UNCHANGED <<test, up, streams, ret>>
      \/ /\ pc' = "select" /\ test' = [test EXCEPT !.bytes_sent = sent] /\ UNCHANGED <<up, ret>>
      \/ /\ test' = [test EXCEPT !.bytes_sent = sent, !.state = TEST_END]
         /\ \/ pc' = "select" /\ up' = [up EXCEPT ![launch] = Append(@, m)] /\ UNCHANGED ret
            \/ pc' = "idle" /\ ret' = "fail" /\ shut[launch] /\ UNCHANGED up
  BY <1>6, Zenon DEF Body, Nwrite, NwriteFails, Fail, sent, m
<1>8. CASE pc' = "crashed" /\ UNCHANGED <<test, up, streams, ret>>
  BY <1>1, <1>2, <1>3, <1>4, <1>5, <1>8
<1>9. CASE pc' = "select" /\ test' = [test EXCEPT !.bytes_sent = sent] /\ UNCHANGED <<up, ret>>
  <2>1. test'.options = test.options /\ DOMAIN test' = DOMAIN test /\ test'.state = test.state
        /\ test'.stats_timer = test.stats_timer
    BY <1>9 DEF Shape
  <2>. QED BY <1>1, <1>2, <1>3, <1>4, <1>5, <1>9, <2>1
<1>10. CASE /\ test' = [test EXCEPT !.bytes_sent = sent, !.state = TEST_END]
            /\ \/ pc' = "select" /\ up' = [up EXCEPT ![launch] = Append(@, m)] /\ UNCHANGED ret
               \/ pc' = "idle" /\ ret' = "fail" /\ shut[launch] /\ UNCHANGED up
  <2>1. test'.options = test.options /\ DOMAIN test' = DOMAIN test /\ test'.state = TEST_END
        /\ test'.stats_timer = test.stats_timer
    BY <1>10 DEF Shape
  <2>. QED BY <1>1, <1>2, <1>3, <1>4, <1>5, <1>10, <2>1 DEF m
<1>. QED BY <1>7, <1>8, <1>9, <1>10

LEMMA TurnOptions == Inv /\ OptionsInv /\ RunBody => OptionsInv'
<1>. SUFFICES ASSUME Inv, OptionsInv, RunBody PROVE OptionsInv'
  OBVIOUS
<1>1. server.session = launch /\ Busy(server.phase, up'[launch]) => Active'
  <2>1. CASE server.session = launch /\ server.phase # "hung"
    <3>1. server.phase = "running" /\ up[launch] = <<>> /\ ~shut[launch]
      BY <2>1, Turn
    <3>. QED BY <3>1, Turn DEF Busy, Active
  <2>. QED BY <2>1 DEF Busy
<1>2. \/ up' = up
      \/ Active /\ \E m : /\ up' = [up EXCEPT ![launch] = Append(@, m)]
                          /\ server.session = launch => server.phase # "params"
  BY Turn
<1>3. UNCHANGED <<launch, server>> /\ test'.options = test.options /\ Active
  BY Turn
<1>. QED BY <1>1, <1>2, <1>3, ClientOptions

LEMMA LaunchOptions == Inv /\ OptionsInv /\ Launch => OptionsInv'
<1>. SUFFICES ASSUME Inv, OptionsInv, Launch PROVE OptionsInv'
  OBVIOUS
<1>1. PICK r \in Parsed :
        /\ pc = "idle" /\ launch' = launch + 1 /\ test' = NewTest(r.test) /\ server' = server
        /\ launch' \in 1 .. MaxLaunches
        /\ up' = up \/ \E q : up' = [up EXCEPT ![launch'] = q]
        /\ Active' => r.test.role = "c"
  <2>1. launch < MaxLaunches => launch + 1 \in 1 .. MaxLaunches
    BY BoundsAssumption DEF Inv, Shape
  <2>2. CASE LaunchReturns
    BY <2>1, <2>2 DEF LaunchReturns, serverVars, Active
  <2>3. CASE LaunchConnects
    BY <2>1, <2>3 DEF LaunchConnects, serverVars, Active
  <2>. QED BY <2>2, <2>3 DEF Launch
<1>2. r.test \in Within /\ test'.options = r.test
  <2>1. PICK args \in ArgLists : r = iperf_parse_arguments(args)
    BY DEF Parsed
  <2>2. args \in Seq(Word)
    BY ArgsAssumption
  <2>3. r.test \in Within
    BY <2>1, <2>2, ParsedWithin
  <2>. QED BY <1>1, <2>3 DEF NewTest
<1>3. ASSUME server.session \in Launches PROVE server.session # launch' /\ up'[server.session] = up[server.session]
  <2>1. server.session # launch'
    BY <1>1, <1>3, Session DEF Inv
  <2>. QED BY <1>1, <1>3, <2>1 DEF Inv, Shape
<1>4. server.session \in Launches => ~Busy(server.phase, up'[server.session])
  BY <1>1, <1>3 DEF OptionsInv, Active
<1>5. Busy(server.phase, up[server.session])' = Busy(server.phase, up'[server.session])
  BY <1>1 DEF Busy
<1>6. server.phase = "params" /\ up'[server.session] # <<>> => Busy(server.phase, up'[server.session])
  BY DEF Busy
<1>. QED BY <1>1, <1>2, <1>3, <1>4, <1>5, <1>6 DEF OptionsInv

\* A server that is free again.
LEMMA FreedOptions ==
  ASSUME Inv, OptionsInv, UNCHANGED <<pc, test>>, NEW o \in Within, o.role = "s", Fresh(o),
         server' = FreeServer(o)
  PROVE  OptionsInv'
<1>1. server'.session = 0 /\ server'.phase = "idle" /\ server'.options = o /\ 0 \notin Launches
  BY DEF FreeServer, Launches
<1>2. Fresh(o) /\ "idle" \notin Phases
  BY DEF Phases
<1>3. test'.options = test.options /\ (Active' <=> Active)
  BY DEF Active
<1>. QED BY <1>1, <1>2, <1>3 DEF OptionsInv

\* A server that keeps its options and its session.
LEMMA ServedOptions ==
  ASSUME Inv, OptionsInv, UNCHANGED <<pc, launch, test>>, server'.options = server.options,
         server'.session = server.session, server.session \in Launches,
         server'.phase \in {"streams", "running", "results", "display", "hung"},
         server'.phase # "hung" => server.phase \in Phases \ {"params"},
         Busy(server'.phase, up'[server.session]) => Busy(server.phase, up[server.session])
  PROVE  OptionsInv'
<1>1. Busy(server.phase, up[server.session])' = Busy(server'.phase, up'[server.session])
  BY DEF Busy
<1>2. 0 \notin Launches /\ (Active' <=> Active)
  BY DEF Launches, Active
<1>3. server'.session # 0 /\ server'.phase # "params" /\ server'.session \in Launches
  BY <1>2
<1>4. test'.options \in Within /\ server'.options \in Within /\ server'.options.role = "s"
      /\ (Active' => test'.options.role = "c")
  BY <1>2 DEF OptionsInv
<1>5. Busy(server.phase, up[server.session])' => server'.session = launch' /\ Active'
  BY <1>1, <1>2 DEF OptionsInv
<1>6. server'.session = launch' /\ server'.phase \in Phases \ {"params"} =>
        Knows(server'.options, test'.options)
  BY DEF OptionsInv, Phases
<1>. QED BY <1>3, <1>4, <1>5, <1>6 DEF OptionsInv

LEMMA StepOptions == Inv /\ OptionsInv /\ ServerStep => OptionsInv'
<1>. SUFFICES ASSUME Inv, OptionsInv, ServerStep PROVE OptionsInv'
  OBVIOUS
<1>. DEFINE s == server.session
<1>0. ASSUME s \in Launches
      PROVE  /\ DOMAIN up = Launches /\ DOMAIN server = {"session", "phase", "options", "streams"}
             /\ server.options \in Within
  BY DEF Inv, Shape, OptionsInv
<1>1. ASSUME NEW n \in Launches, ServerAccepts(n) PROVE OptionsInv'
  <2>1. UNCHANGED <<pc, launch, test>> /\ n \in Unaccepted /\ server.phase # "hung"
    BY <1>1 DEF ServerAccepts, clientVars
  <2>2. n = launch /\ Active /\ launch # 0
    BY <1>1, <2>1 DEF Inv, ServerInv, Launches
  <2>3. CASE s = 0
    <3>1. server' = [server EXCEPT !.session = n, !.phase = "params"] /\ up' = [up EXCEPT ![n] = Tail(@)]
      BY <1>1, <2>3 DEF ServerAccepts
    <3>2. server'.session = n /\ server'.phase = "params" /\ server'.options = server.options
      BY <3>1 DEF Inv, Shape
    <3>3. up'[n] = <<>>
      <4>1. ~shut[launch] /\ AtTheDoor
        BY <2>1, <2>2, <2>3 DEF Inv, ClientInv, Unaccepted
      <4>. QED BY <1>1, <2>2, <3>1, <4>1, Tuples DEF AtTheDoor, Inv, Shape
    <3>4. ~Busy(server.phase, up[server.session])'
      BY <3>2, <3>3 DEF Busy
    <3>5. Fresh(server.options)
      BY <2>3 DEF OptionsInv
    <3>. QED BY <1>1, <2>1, <2>2, <3>2, <3>3, <3>4, <3>5 DEF OptionsInv, Active
  <2>4. CASE s # 0
    <3>1. UNCHANGED <<server, up>>
      BY <1>1, <2>4 DEF ServerAccepts
    <3>. QED BY <2>1, <3>1 DEF OptionsInv, Active, Busy
  <2>. QED BY <2>3, <2>4
<1>2. CASE ServerParams
  <2>. DEFINE o == parse_parameters(server.options, Head(up[s]).v)
              reset == iperf_reset_test(o)
  <2>1. s \in Launches /\ server.phase = "params" /\ up[s] # <<>> /\ UNCHANGED <<pc, launch, test>>
    BY <1>2 DEF ServerParams, Serving, Received1, clientVars
  <2>2. s = launch /\ Head(up[s]) = Data("params", package_parameters(test.options))
    BY <2>1 DEF OptionsInv, Busy
  <2>3. o = parse_parameters(server.options, package_parameters(test.options))
    BY <2>2, Messages
  <2>4. server.options \in Within /\ test.options \in Within /\ Fresh(server.options)
    BY <2>1 DEF OptionsInv
  <2>. HIDE DEF o
  <2>5. o \in Within /\ o.role = server.options.role /\ Knows(o, test.options)
    BY <2>3, <2>4, FreshKnows
  <2>6. reset \in Within /\ reset.role = "s" /\ Fresh(reset)
    BY <2>5, ResetFresh
  <2>. HIDE DEF reset
  <2>7. \/ server' = [server EXCEPT !.options = o, !.phase = "streams"]
        \/ server' = FreeServer(reset)
    BY <1>2 DEF ServerParams, o, reset
  <2>8. CASE server' = [server EXCEPT !.options = o, !.phase = "streams"]
    <3>1. server'.session = s /\ server'.phase = "streams" /\ server'.options = o
      BY <2>8, <2>1, <1>0
    <3>2. ~Busy(server.phase, up[server.session])'
      BY <3>1 DEF Busy
    <3>3. 0 \notin Launches
      BY DEF Launches
    <3>. QED BY <2>1, <2>2, <2>4, <2>5, <3>1, <3>2, <3>3 DEF OptionsInv, Active
  <2>9. CASE server' = FreeServer(reset)
    BY <2>1, <2>6, <2>9, FreedOptions
  <2>. QED BY <2>7, <2>8, <2>9
<1>3. CASE ServerAcceptsStream
  <2>1. s \in Launches /\ server.phase = "streams" /\ UNCHANGED <<pc, launch, test, up>>
    BY <1>3 DEF ServerAcceptsStream, Serving, clientVars
  <2>2. /\ server'.session = s /\ server'.phase \in {"streams", "running"}
        /\ server'.options = server.options
    <3>1. \E list, full : server' = [server EXCEPT !.streams = list,
                                       !.phase = IF full THEN "running" ELSE @]
      BY <1>3 DEF ServerAcceptsStream
    <3>. QED BY <1>0, <2>1, <3>1
  <2>3. up[s] = <<>>
    BY <2>1, ExpectedIs DEF Inv, ServerInv, Next1
  <2>4. ~Busy(server'.phase, up'[s])
    BY <2>1, <2>2, <2>3 DEF Busy
  <2>. QED BY <2>1, <2>2, <2>4, ServedOptions DEF Phases
<1>4. CASE ServerTestEnd
  <2>1. /\ s \in Launches /\ server.phase = "running" /\ up[s] # <<>>
        /\ UNCHANGED <<pc, launch, test>> /\ server' = [server EXCEPT !.phase = "results"]
    BY <1>4 DEF ServerTestEnd, Serving, Received1, clientVars
  <2>2. Busy(server.phase, up[s])
    BY <2>1 DEF Busy
  <2>. QED BY <1>0, <2>1, <2>2, ServedOptions DEF Phases
<1>5. CASE ServerResults
  <2>1. s \in Launches /\ server.phase = "results" /\ UNCHANGED <<pc, launch, test>>
    BY <1>5 DEF ServerResults, Serving, clientVars
  <2>. DEFINE reset == iperf_reset_test(server.options)
  <2>2. \/ \E list : server' = [server EXCEPT !.streams = list, !.phase = "display"]
        \/ server' = FreeServer(reset)
    BY <1>5 DEF ServerResults
  <2>3. CASE \E list : server' = [server EXCEPT !.streams = list, !.phase = "display"]
    <3>1. server'.session = s /\ server'.phase = "display" /\ server'.options = server.options
      BY <1>0, <2>1, <2>3
    <3>2. ~Busy(server'.phase, up'[s])
      BY <3>1 DEF Busy
    <3>. QED BY <2>1, <3>1, <3>2, ServedOptions DEF Phases
  <2>4. CASE server' = FreeServer(reset)
    BY <1>0, <2>1, <2>4, FreedOptions, ResetFresh
  <2>. QED BY <2>2, <2>3, <2>4
<1>6. CASE ServerDone
  BY <1>6, FreedOptions, ResetFresh DEF ServerDone, OptionsInv, clientVars
<1>7. ASSUME NEW i, ServerMoves(i) PROVE OptionsInv'
  <2>1. UNCHANGED <<pc, launch, test, up>> /\ \E sp : server' = [server EXCEPT !.streams[i] = sp]
        /\ s \in Launches
    BY <1>7 DEF ServerMoves, Serving, clientVars
  <2>2. /\ server'.session = s /\ server'.phase = server.phase /\ server'.options = server.options
    BY <1>0, <2>1
  <2>. QED BY <2>1, <2>2 DEF OptionsInv, Active, Busy
<1>8. CASE OthersTestEnds
  BY <1>8, FreedOptions, ResetFresh DEF OthersTestEnds, OptionsInv, clientVars
<1>. QED BY <1>1, <1>2, <1>3, <1>4, <1>5, <1>6, <1>7, <1>8 DEF ServerStep

LEMMA EnvironmentOptions == Inv /\ OptionsInv /\ Environment => OptionsInv'
<1>. SUFFICES ASSUME Inv, OptionsInv, Environment PROVE OptionsInv'
  OBVIOUS
<1>1. CASE ServerTerminates
  <2>. DEFINE o == [iperf_defaults EXCEPT !.role = "s"]
  <2>1. UNCHANGED <<pc, test>> /\ server' = FreeServer(o)
    BY <1>1 DEF ServerTerminates, clientVars
  <2>2. o \in Within /\ o.role = "s" /\ Fresh(o)
    BY DefaultsFresh
  <2>. HIDE DEF o
  <2>. QED BY <2>1, <2>2, FreedOptions
<1>2. CASE ConnectionLost
  BY <1>2, FreedOptions, ResetFresh DEF ConnectionLost, OptionsInv, clientVars
<1>3. CASE ServerHangs
  <2>1. /\ server.session \in Launches /\ server' = [server EXCEPT !.phase = "hung"]
        /\ UNCHANGED <<pc, launch, test>>
    BY <1>3 DEF ServerHangs, clientVars
  <2>2. /\ server'.session = server.session /\ server'.phase = "hung"
        /\ server'.options = server.options
    BY <2>1 DEF Inv, Shape
  <2>3. ~Busy(server'.phase, up'[server.session])
    BY <2>2 DEF Busy
  <2>. QED BY <2>1, <2>2, <2>3, ServedOptions
<1>4. CASE OthersTest
  <2>1. PICK r \in Parsed :
          /\ server' = [server EXCEPT !.session = Other, !.phase = "other",
                          !.options = parse_parameters(@, package_parameters(r.test))]
          /\ UNCHANGED <<pc, launch, test>>
    BY <1>4 DEF OthersTest, clientVars
  <2>. DEFINE o == parse_parameters(server.options, package_parameters(r.test))
  <2>2. o \in Within /\ o.role = "s"
    <3>1. PICK args \in ArgLists : r = iperf_parse_arguments(args)
      BY DEF Parsed
    <3>2. r.test \in Within
      BY <3>1, ArgsAssumption, ParsedWithin
    <3>. QED BY <3>2, TakesWithin DEF OptionsInv
  <2>3. server' = [server EXCEPT !.session = Other, !.phase = "other", !.options = o]
    BY <2>1
  <2>. HIDE DEF o
  <2>4. server'.session = Other /\ server'.phase = "other" /\ server'.options = o
    BY <2>3 DEF Inv, Shape
  <2>5. Other \notin Launches /\ Other # 0 /\ "other" \notin Phases
    BY DEF Other, Launches, Phases
  <2>. QED BY <2>1, <2>2, <2>4, <2>5 DEF OptionsInv, Active
<1>. QED BY <1>1, <1>2, <1>3, <1>4 DEF Environment

LEMMA InitOptions == Init => OptionsInv
<1>. SUFFICES ASSUME Init PROVE OptionsInv
  OBVIOUS
<1>. DEFINE o == [iperf_defaults EXCEPT !.role = "s"]
<1>1. o \in Within /\ o.role = "s" /\ Fresh(o) /\ iperf_defaults \in Within
  BY DefaultsFresh
<1>. HIDE DEF o
<1>2. test.options = iperf_defaults /\ server.options = o /\ server.session = 0 /\ server.phase = "idle"
  BY DEF Init, NewTest, FreeServer, o
<1>3. 0 \notin Launches /\ "idle" \notin Phases /\ ~Active
  BY DEF Launches, Phases, Init, Active
<1>. QED BY <1>1, <1>2, <1>3 DEF OptionsInv

LEMMA NextOptions == Inv /\ OptionsInv /\ [Next]_vars => OptionsInv'
<1>. SUFFICES ASSUME Inv, OptionsInv, [Next]_vars PROVE OptionsInv'
  OBVIOUS
<1>1. CASE UNCHANGED vars
  BY <1>1 DEF OptionsInv, Active, Busy, vars, clientVars, serverVars
<1>2. CASE UdpRefused
  BY <1>2, ClientOptions DEF UdpRefused, Fail, serverVars, Active
<1>. QED
  BY <1>1, <1>2, LaunchOptions, MessageOptions, ReadingOptions, TurnOptions, StepOptions,
     EnvironmentOptions
  DEF Next, ClientStep

\* What nothing but a test that some client asked for can change: the bytes and
\* the tos of the client and of the server, and the server's protocol.
Asked(o) == \A member \in {"bytes", "tos"} : o[member] \in AskedFor(member)
Retained(o) == o.protocol = "tcp" /\ Asked(o)
KeptInv == Retained(server.options) /\ Asked(test.options)

LEMMA ParsedAsked == ASSUME NEW r \in Parsed PROVE Asked(r.test) /\ r.test \in Within
<1>1. r.test \in Within
  <2>1. PICK args \in ArgLists : r = iperf_parse_arguments(args)
    BY DEF Parsed
  <2>. QED BY <2>1, ArgsAssumption, ParsedWithin
<1>. QED BY <1>1 DEF Asked, AskedFor

LEMMA ToldKept ==
  ASSUME NEW s \in Within, NEW t \in Within, Retained(s), Asked(t)
  PROVE  Retained(parse_parameters(s, package_parameters(t)))
<1>. DEFINE p == parse_parameters(s, package_parameters(t))
<1>1. p.protocol = s.protocol /\ \A m \in Told : p[m] = IF t[m] = 0 THEN s[m] ELSE t[m]
  BY ServerTakes DEF Within
<1>. HIDE DEF p
<1>2. \A m \in {"bytes", "tos"} : p[m] = s[m] \/ p[m] = t[m]
  BY <1>1 DEF Told
<1>3. Retained(p)
  BY <1>1, <1>2 DEF Retained, Asked
<1>. QED BY <1>3 DEF p

LEMMA ResetKept == ASSUME NEW t, Asked(t) PROVE Retained(iperf_reset_test(t))
<1>. DEFINE o == iperf_reset_test(t)
<1>1. o.protocol = "tcp" /\ o.bytes = t.bytes /\ o.tos = t.tos
  BY DEF iperf_reset_test, iperf_defaults
<1>. HIDE DEF o
<1>2. Retained(o)
  BY <1>1 DEF Retained, Asked
<1>. QED BY <1>2 DEF o

LEMMA DefaultsKept ==
  Retained([iperf_defaults EXCEPT !.role = "s"]) /\ Asked(iperf_defaults)
BY DEF Retained, Asked, AskedFor, iperf_defaults

LEMMA InitKept == Init => KeptInv
BY DefaultsKept DEF Init, NewTest, FreeServer, KeptInv

\* What each step leaves of the options of the client and of the server.
LEMMA ClientKeeps ==
  Inv /\ (ClientStep \/ UdpRefused) => test'.options = test.options /\ server'.options = server.options
<1>. SUFFICES ASSUME Inv, ClientStep \/ UdpRefused
              PROVE  test'.options = test.options /\ server'.options = server.options
  OBVIOUS
<1>1. DOMAIN test = {"options", "state", "bytes_sent", "timer", "stats_timer"}
  BY DEF Inv, Shape
<1>2. CASE OnClosed \/ ReadResults \/ ReadGarbage \/ UdpRefused
  BY <1>2 DEF OnClosed, ReadResults, ReadGarbage, UdpRefused, serverVars
<1>3. CASE RunBody
  BY <1>3, Turn
<1>4. CASE OnParamExchange
  BY <1>1, <1>4 DEF OnParamExchange, Handle, SetState
<1>5. CASE OnCreateStreams
  BY <1>1, <1>5 DEF OnCreateStreams, Handle, SetState
<1>6. CASE OnCreateUdpStreams
  BY <1>1, <1>6 DEF OnCreateUdpStreams, Handle, SetState
<1>7. CASE OnTestStart
  BY <1>1, <1>7 DEF OnTestStart, Handle
<1>8. CASE OnTestRunning
  BY <1>1, <1>8 DEF OnTestRunning, Handle, SetState
<1>9. CASE OnExchangeResults
  BY <1>1, <1>9 DEF OnExchangeResults, Handle, SetState
<1>10. CASE OnDisplayResults
  BY <1>1, <1>10 DEF OnDisplayResults, Handle, SetState
<1>11. CASE OnRefusal
  BY <1>1, <1>11 DEF OnRefusal, Handle, SetState
<1>. QED
  BY <1>2, <1>3, <1>4, <1>5, <1>6, <1>7, <1>8, <1>9, <1>10, <1>11 DEF ClientStep, OnMessage

LEMMA LaunchKeeps ==
  Launch => server' = server /\ \E r \in Parsed : test'.options = r.test
<1>. SUFFICES ASSUME Launch PROVE server' = server /\ \E r \in Parsed : test'.options = r.test
  OBVIOUS
<1>1. PICK r \in Parsed : test' = NewTest(r.test)
  BY DEF Launch, LaunchReturns, LaunchConnects
<1>2. server' = server
  BY DEF Launch, LaunchReturns, LaunchConnects, serverVars
<1>3. test'.options = r.test
  BY <1>1 DEF NewTest
<1>. QED BY <1>2, <1>3

LEMMA FreedKept ==
  ASSUME NEW o, Retained(o), server' = FreeServer(o) PROVE Retained(server'.options)
<1>1. server'.options = o
  BY DEF FreeServer
<1>. QED BY <1>1

LEMMA ServerKeeps ==
  Inv /\ OptionsInv /\ KeptInv /\ (ServerStep \/ Environment) =>
    test' = test /\ Retained(server'.options)
<1>. SUFFICES ASSUME Inv, OptionsInv, KeptInv, ServerStep \/ Environment
              PROVE  test' = test /\ Retained(server'.options)
  OBVIOUS
<1>. DEFINE s == server.options
<1>0. /\ DOMAIN server = {"session", "phase", "options", "streams"}
      /\ Retained(s) /\ Asked(s) /\ Asked(test.options) /\ s \in Within /\ test.options \in Within
  BY DEF Inv, Shape, KeptInv, Retained, OptionsInv
<1>1. test' = test
  BY DEF ServerStep, Environment, ServerAccepts, ServerParams, ServerAcceptsStream, ServerTestEnd,
    ServerResults, ServerDone, ServerMoves, OthersTestEnds, ServerTerminates, ConnectionLost,
    ServerHangs, OthersTest, clientVars
<1>. SUFFICES Retained(server'.options)
  BY <1>1
<1>2. ASSUME NEW o, o = iperf_reset_test(s), server' = FreeServer(o) PROVE Retained(server'.options)
  BY <1>0, <1>2, ResetKept, FreedKept
<1>3. ASSUME NEW n, ServerAccepts(n) PROVE Retained(server'.options)
  <2>1. server'.options = s
    BY <1>0, <1>3 DEF ServerAccepts
  <2>. QED BY <1>0, <2>1
<1>4. CASE ServerParams
  <2>. DEFINE w == parse_parameters(s, Head(up[server.session]).v)
              reset == iperf_reset_test(w)
  <2>1. server.session \in Launches /\ server.phase = "params" /\ up[server.session] # <<>>
    BY <1>4 DEF ServerParams, Serving, Received1
  <2>2. Head(up[server.session]) = Data("params", package_parameters(test.options))
    BY <2>1 DEF OptionsInv
  <2>3. w = parse_parameters(s, package_parameters(test.options))
    BY <2>2, Messages
  <2>4. \/ server' = [server EXCEPT !.options = w, !.phase = "streams"]
        \/ server' = FreeServer(reset)
    BY <1>4 DEF ServerParams
  <2>. HIDE DEF w
  <2>5. Retained(w) /\ Asked(w)
    BY <1>0, <2>3, ToldKept DEF Retained
  <2>6. Retained(reset)
    BY <2>5, ResetKept
  <2>. HIDE DEF reset
  <2>7. CASE server' = [server EXCEPT !.options = w, !.phase = "streams"]
    <3>1. server'.options = w
      BY <1>0, <2>7
    <3>. QED BY <2>5, <3>1
  <2>. QED BY <2>4, <2>6, <2>7, FreedKept
<1>5. CASE ServerAcceptsStream
  <2>1. PICK list, full : server' = [server EXCEPT !.streams = list,
                                       !.phase = IF full THEN "running" ELSE @]
    BY <1>5 DEF ServerAcceptsStream
  <2>2. server'.options = s
    BY <1>0, <2>1
  <2>. QED BY <1>0, <2>2
<1>6. CASE ServerTestEnd
  <2>1. server'.options = s
    BY <1>0, <1>6 DEF ServerTestEnd
  <2>. QED BY <1>0, <2>1
<1>7. CASE ServerResults
  <2>. DEFINE reset == iperf_reset_test(s)
  <2>1. \/ \E list : server' = [server EXCEPT !.streams = list, !.phase = "display"]
        \/ server' = FreeServer(reset)
    BY <1>7 DEF ServerResults
  <2>2. CASE \E list : server' = [server EXCEPT !.streams = list, !.phase = "display"]
    <3>1. server'.options = s
      BY <1>0, <2>2
    <3>. QED BY <1>0, <3>1
  <2>. QED BY <1>2, <2>1, <2>2
<1>8. CASE ServerDone \/ ConnectionLost \/ OthersTestEnds
  BY <1>2, <1>8 DEF ServerDone, ConnectionLost, OthersTestEnds
<1>9. ASSUME NEW i, ServerMoves(i) PROVE Retained(server'.options)
  <2>1. PICK sp : server' = [server EXCEPT !.streams[i] = sp]
    BY <1>9 DEF ServerMoves
  <2>2. server'.options = s
    BY <1>0, <2>1
  <2>. QED BY <1>0, <2>2
<1>10. CASE ServerTerminates
  BY <1>10, DefaultsKept, FreedKept DEF ServerTerminates
<1>11. CASE ServerHangs
  <2>1. server'.options = s
    BY <1>0, <1>11 DEF ServerHangs
  <2>. QED BY <1>0, <2>1
<1>12. CASE OthersTest
  <2>1. PICK r \in Parsed :
          server' = [server EXCEPT !.session = Other, !.phase = "other",
                       !.options = parse_parameters(@, package_parameters(r.test))]
    BY <1>12 DEF OthersTest
  <2>. DEFINE o == parse_parameters(s, package_parameters(r.test))
  <2>2. server' = [server EXCEPT !.session = Other, !.phase = "other", !.options = o]
    BY <2>1
  <2>3. Retained(o)
    BY <1>0, ParsedAsked, ToldKept
  <2>. HIDE DEF o
  <2>4. server'.options = o
    BY <1>0, <2>2
  <2>. QED BY <2>3, <2>4
<1>. QED
  BY <1>3, <1>4, <1>5, <1>6, <1>7, <1>8, <1>9, <1>10, <1>11, <1>12
  DEF ServerStep, Environment

LEMMA NextKept == Inv /\ OptionsInv /\ KeptInv /\ [Next]_vars => KeptInv'
<1>. SUFFICES ASSUME Inv, OptionsInv, KeptInv, [Next]_vars
              PROVE  Retained(server'.options) /\ Asked(test'.options)
  BY DEF KeptInv, Retained, Asked
<1>. DEFINE s == server.options
            t == test.options
<1>0. Retained(s) /\ Asked(t)
  BY DEF KeptInv
<1>1. CASE UNCHANGED vars
  BY <1>0, <1>1 DEF vars, clientVars, serverVars
<1>2. CASE ClientStep \/ UdpRefused
  BY <1>0, <1>2, ClientKeeps
<1>3. CASE Launch
  BY <1>0, <1>3, LaunchKeeps, ParsedAsked
<1>4. CASE ServerStep \/ Environment
  BY <1>0, <1>4, ServerKeeps
<1>. QED BY <1>1, <1>2, <1>3, <1>4 DEF Next

\* Once the options are exchanged the server has those that its client sent, of
\* every other but two the default, and for the bytes and the tos, which it keeps
\* from one test to the next, nothing that no client asked for.  It has them
\* whichever tests other clients and earlier launches ran on it before.
THEOREM ServerRunsWhatItWasTold == Spec => []ServerKnowsTest
<1>1. Init => Inv /\ OptionsInv /\ KeptInv
  BY InitInv, InitOptions, InitKept
<1>2. Inv /\ OptionsInv /\ KeptInv /\ [Next]_vars => Inv' /\ OptionsInv' /\ KeptInv'
  BY NextInv, NextOptions, NextKept
<1>3. Inv /\ OptionsInv /\ KeptInv => ServerKnowsTest
  <2>. SUFFICES ASSUME Inv, OptionsInv, KeptInv, server.session = launch, launch # 0,
                       server.phase \notin {"params", "hung"}
                PROVE  Knows(server.options, test.options) /\ Retained(server.options)
    BY DEF ServerKnowsTest, Knows, Retained, Asked
  <2>1. server.session \in Launches
    BY DEF Inv, Shape, Launches
  <2>2. server.phase \in Phases \ {"params"}
    BY <2>1 DEF Inv, ServerInv
  <2>. QED BY <2>1, <2>2 DEF OptionsInv, KeptInv
<1>. QED BY <1>1, <1>2, <1>3, PTL DEF Spec
-----------------------------------------------------------------------------
(* The streams of the client and of the server *)

\* A stream after a turn of the loop: one block more at most, and intervals
\* that are closed.
Turned(i) ==
  LET sp == streams[i]
      new == streams'[i]
  IN /\ new.id = sp.id /\ new.start_time = sp.start_time /\ new.end_time \in {sp.end_time, 0}
     /\ Totals(sp, new) \/ (CanMove(i) /\ Totals(Moved(sp), new))
     /\ sp.interval_results # <<>> \/ test'.state = TEST_END => new.interval_results # <<>>

LEMMA MovedIs ==
  ASSUME test.options \in Options, NEW sp \in Stream
  PROVE  /\ Moved(sp) \in Stream /\ Moved(sp).id = sp.id /\ Times(sp, Moved(sp))
<1>1. test.options.blksize \in Int
  BY DEF Options
<1>. QED BY <1>1, SentIs, ReceivedIs DEF Moved

\* The intervals a turn closes, for one stream.
LEMMA ClosedIs ==
  ASSUME NEW sp \in Stream, NEW sends \in BOOLEAN
  PROVE  LET new == CloseInterval(sp, sends, 0)
         IN /\ new \in Stream /\ new.id = sp.id /\ new.start_time = sp.start_time /\ new.end_time = 0
            /\ Totals(sp, new) /\ new.interval_results # <<>>
<1>. DEFINE new == CloseInterval(sp, sends, 0)
<1>0. 0 \in Int
  OBVIOUS
<1>1. /\ new \in Stream /\ new.id = sp.id /\ Totals(sp, new)
      /\ new.start_time = sp.start_time /\ new.end_time = 0
      /\ new.interval_results = Append(sp.interval_results, Closing(sp, sends, 0))
      /\ Closing(sp, sends, 0) \in Interval
  BY <1>0, CloseIntervalIs
<1>. HIDE DEF new
<1>2. sp.interval_results \in Seq(Interval)
  BY DEF Stream, Intervals
<1>3. Append(sp.interval_results, Closing(sp, sends, 0)) # <<>>
  BY <1>1, <1>2, AppendProperties
<1>. QED BY <1>1, <1>3 DEF new

LEMMA TurnStreams ==
  ASSUME Inv, test.options \in Options, streams \in Seq(Stream), RunBody
  PROVE  /\ streams' \in Seq(Stream) /\ Len(streams') = Len(streams)
         /\ \A i \in 1 .. Len(streams) : Turned(i)
         /\ pc' = "crashed" => test.stats_timer
<1>1. PICK blocks, broken, stats, report, timeUp :
        /\ blocks \in SUBSET {i \in DOMAIN streams : CanMove(i)}
        /\ report \in If(test.stats_timer)
        /\ Body(blocks, broken, stats, report, timeUp)
  BY Zenon DEF RunBody
<1>. DEFINE moved == Transfer(blocks, broken).streams
            counted == IF stats THEN iperf_stats_callback(test.options, moved, 0) ELSE moved
            last == iperf_stats_callback(test.options, counted, 0)
            o == test.options
            Like(list) == /\ list \in Seq(Stream) /\ Len(list) = Len(streams)
                          /\ \A i \in 1 .. Len(streams) :
                               /\ list[i].id = streams[i].id
                               /\ list[i].start_time = streams[i].start_time
                               /\ list[i].end_time \in {streams[i].end_time, 0}
                               /\ \/ Totals(streams[i], list[i])
                                  \/ CanMove(i) /\ Totals(Moved(streams[i]), list[i])
                               /\ streams[i].interval_results # <<>> => list[i].interval_results # <<>>
<1>2. DOMAIN streams = 1 .. Len(streams) /\ Len(streams) \in Nat
      /\ \A i \in 1 .. Len(streams) : streams[i] \in Stream
  BY LenProperties
<1>3. Like(moved)
  <2>1. moved = [i \in DOMAIN streams |-> IF i \in blocks THEN Moved(streams[i]) ELSE streams[i]]
    BY DEF Transfer
  <2>2. \A i \in 1 .. Len(streams) : moved[i] \in Stream
    BY <1>2, <2>1, MovedIs
  <2>3. moved \in Seq(Stream) /\ Len(moved) = Len(streams)
    BY <1>2, <2>1, <2>2, IsASeq, LenProperties
  <2>4. ASSUME NEW i \in 1 .. Len(streams), i \in blocks
        PROVE  /\ CanMove(i) /\ moved[i] = Moved(streams[i]) /\ moved[i].id = streams[i].id
               /\ Times(streams[i], moved[i])
    <3>1. CanMove(i) /\ moved[i] = Moved(streams[i])
      BY <1>1, <1>2, <2>1, <2>4
    <3>. QED BY <1>2, <3>1, MovedIs
  <2>5. \A i \in 1 .. Len(streams) : i \notin blocks => moved[i] = streams[i]
    BY <1>2, <2>1
  <2>. HIDE DEF moved
  <2>. QED BY <2>3, <2>4, <2>5 DEF Times, Totals
<1>4. ASSUME NEW list, Like(list) PROVE Like(iperf_stats_callback(o, list, 0))
      /\ \A i \in 1 .. Len(streams) : iperf_stats_callback(o, list, 0)[i].interval_results # <<>>
  <2>. DEFINE new == iperf_stats_callback(o, list, 0)
  <2>1. /\ new \in Seq(Stream) /\ Len(new) = Len(list) /\ Sends(o) \in BOOLEAN
        /\ \A i \in 1 .. Len(list) : new[i] = CloseInterval(list[i], Sends(o), 0)
    BY <1>4, StatsIs
  <2>2. Len(list) = Len(streams) /\ \A i \in 1 .. Len(streams) : list[i] \in Stream
    BY <1>4, LenProperties
  <2>. HIDE DEF new, o
  <2>3. ASSUME NEW i \in 1 .. Len(streams)
        PROVE  /\ new[i].id = list[i].id /\ new[i].start_time = list[i].start_time
               /\ new[i].end_time = 0 /\ Totals(list[i], new[i]) /\ new[i].interval_results # <<>>
    BY <2>1, <2>2, ClosedIs
  <2>4. Like(new)
    BY <1>4, <2>1, <2>2, <2>3 DEF Totals
  <2>. QED BY <2>3, <2>4 DEF new, o
<1>5. Like(counted) /\ Like(last) /\ \A i \in 1 .. Len(streams) : last[i].interval_results # <<>>
  BY <1>3, <1>4
<1>6. Like(streams)
  BY <1>2 DEF Totals
<1>. HIDE DEF moved, counted, last, Like
<1>7. \/ pc' = "crashed" /\ report /\ UNCHANGED <<test, streams>>
      \/ pc' = "select" /\ streams' = counted /\ test' = [test EXCEPT !.bytes_sent = Transfer(blocks, broken).bytes_sent]
      \/ pc' \in {"select", "idle"} /\ streams' = last
  BY <1>1, Zenon DEF Body, NwriteFails, Fail, moved, counted, last
<1>8. test.state = TEST_RUNNING
  BY Turn
<1>9. /\ Like(streams')
      /\ pc' = "crashed" => report
      /\ \/ test'.state # TEST_END
         \/ \A i \in 1 .. Len(streams) : streams'[i].interval_results # <<>>
  <2>1. CASE pc' = "crashed" /\ report /\ UNCHANGED <<test, streams>>
    BY <1>6, <1>8, <2>1
  <2>2. CASE /\ pc' = "select" /\ streams' = counted
             /\ test' = [test EXCEPT !.bytes_sent = Transfer(blocks, broken).bytes_sent]
    <3>1. test'.state = TEST_RUNNING
      BY <1>8, <2>2 DEF Inv, Shape
    <3>. QED BY <1>5, <2>2, <3>1
  <2>3. CASE pc' \in {"select", "idle"} /\ streams' = last
    BY <1>5, <2>3
  <2>. QED BY <1>7, <2>1, <2>2, <2>3
<1>10. report => test.stats_timer
  BY <1>1 DEF If
<1>. QED BY <1>9, <1>10 DEF Like, Turned

\* The client is past the start of its test.
Begun ==
  \/ test.state \in {TEST_START, TEST_RUNNING, TEST_END, EXCHANGE_RESULTS}
  \/ /\ test.state = CREATE_STREAMS
     /\ down[launch] # <<>> /\ Head(down[launch]) = Byte(TEST_START)

\* ClientHas: the streams of the client, by the state of its test.
ClientHas ==
  /\ streams \in Seq(Stream) /\ Numbered(streams)
  /\ Active /\ test.state \in {0, PARAM_EXCHANGE} => streams = <<>>
  /\ Active /\ test.state \notin {0, PARAM_EXCHANGE} => Len(streams) = test.options.num_streams
  /\ Active /\ Begun => streams # <<>>

\* ServerHas: the streams of the server, by its phase; while it has as many as
\* it expects, no other waits for it.
ServerHas ==
  /\ server.streams \in Seq(Stream) /\ Numbered(server.streams)
  /\ Len(server.streams) <= MAX_STREAMS
  /\ server.session \notin Launches \/ server.phase = "params" => server.streams = <<>>
  /\ Serving("streams") =>
       /\ \/ Len(server.streams) < server.options.num_streams
          \/ \A i \in 1 .. Len(backlog) : backlog[i] # server.session
       /\ server.session = launch /\ Active /\ test.state = PARAM_EXCHANGE => server.streams = <<>>
  /\ server.session \in Launches /\ server.phase \in {"running", "results", "display"} =>
       server.streams # <<>> /\ Len(server.streams) = server.options.num_streams

\* LinesAre: the lines of results that client and server write.
LinesAre ==
  /\ answered \in Seq(Line)
  /\ Serving("results") /\ up[server.session] # <<>> =>
       Head(up[server.session]) = Data("results", Results(test.options, streams))

StreamsInv == ClientHas /\ ServerHas /\ LinesAre

LEMMA NoStreams == <<>> \in Seq(Stream) /\ Numbered(<<>>) /\ Len(<<>>) = 0 /\ <<>> \in Seq(Line)
BY DEF Numbered

\* A step of the client that keeps what it wrote, or writes what it has.
LEMMA LinesKept ==
  ASSUME Inv, OptionsInv, LinesAre, UNCHANGED <<launch, server, answered>>,
         test'.options = test.options,
         up' = up \/ \E m : up' = [up EXCEPT ![launch] = Append(@, m)],
         \/ UNCHANGED <<up, streams>>
         \/ ~(server.session = launch /\ server.phase = "results")
         \/ /\ up[launch] = <<>> /\ UNCHANGED streams
            /\ up' = [up EXCEPT ![launch] = Append(@, Data("results", Results(test.options, streams)))]
  PROVE  LinesAre'
<1>. DEFINE s == server.session
            m == Data("results", Results(test.options, streams))
<1>1. Serving("results")' = Serving("results") /\ server'.session = s
  BY DEF Serving
<1>2. SUFFICES ASSUME Serving("results"), up'[s] # <<>> PROVE (Head(up[s]) = m)'
  BY <1>1 DEF LinesAre
<1>3. s = launch /\ server.phase = "results" /\ s \in Launches
  BY <1>2 DEF Serving, OptionsInv, Busy
<1>4. CASE UNCHANGED <<up, streams>>
  BY <1>2, <1>4 DEF LinesAre
<1>5. CASE up[launch] = <<>> /\ UNCHANGED streams /\ up' = [up EXCEPT ![launch] = Append(@, m)]
  <2>1. m' = m
    BY <1>5
  <2>. HIDE DEF m
  <2>2. up'[launch] = <<m>>
    BY <1>3, <1>5, Tuples DEF Inv, Shape
  <2>3. Head(up'[launch]) = m
    BY <2>2, Tuples
  <2>. QED BY <1>3, <2>1, <2>3
<1>. QED BY <1>3, <1>4, <1>5

\* A step of the client that makes no stream.
LEMMA ServerKept ==
  ASSUME ServerHas, UNCHANGED <<launch, server, backlog>>, Active' => Active,
         Active' /\ test'.state = PARAM_EXCHANGE =>
           test.state = PARAM_EXCHANGE \/ server.session # launch \/ server.phase # "streams"
  PROVE  ServerHas'
BY DEF ServerHas, Serving

\* The client sees the streams it has, whatever the server says.
LEMMA ClientKept ==
  ASSUME ClientHas, UNCHANGED <<pc, launch, streams>>, test' = test,
         Active /\ test.state = CREATE_STREAMS /\ Begun' => Begun \/ streams # <<>>
  PROVE  ClientHas'
<1>1. Active' = Active /\ (Begun' /\ test.state # CREATE_STREAMS => Begun)
  BY DEF Active, Begun
<1>. QED BY <1>1 DEF ClientHas, Numbered

LEMMA ExchangeStreams == Inv /\ OptionsInv /\ StreamsInv /\ OnParamExchange => StreamsInv'
<1>. SUFFICES ASSUME Inv, OptionsInv, StreamsInv, OnParamExchange PROVE StreamsInv'
  OBVIOUS
<1>1. /\ Handle(PARAM_EXCHANGE) /\ test' = [test EXCEPT !.state = PARAM_EXCHANGE]
      /\ UNCHANGED <<streams, backlog>>
      /\ up' = up \/ \E m : up' = [up EXCEPT ![launch] = Append(@, m)]
  BY DEF OnParamExchange, SetState, Nwrite, NwriteFails
<1>2. /\ test.state = 0 /\ Active /\ UNCHANGED <<launch, server, answered>>
      /\ server.session = launch /\ server.phase # "hung" => Joint
  <2>1. /\ Active /\ UNCHANGED <<launch, server, answered>> /\ Waiting /\ Incoming = PARAM_EXCHANGE
        /\ server.session = launch /\ server.phase # "hung" => Joint
    BY <1>1, Handled
  <2>2. test.state = 0
    BY <2>1, OnByte DEF Inv
  <2>. QED BY <2>1, <2>2
<1>3. test'.options = test.options /\ test'.state = PARAM_EXCHANGE
  BY <1>1 DEF Inv, Shape
<1>4. server.session = launch => server.phase \notin {"streams", "results"}
  BY <1>2 DEF Joint
<1>5. ClientHas'
  BY <1>1, <1>2, <1>3 DEF StreamsInv, ClientHas, Numbered, Begun
<1>6. ServerHas'
  BY <1>1, <1>2, <1>4, ServerKept DEF StreamsInv
<1>7. LinesAre'
  BY <1>1, <1>2, <1>3, <1>4, LinesKept DEF StreamsInv
<1>. QED BY <1>5, <1>6, <1>7 DEF StreamsInv

LEMMA CreatedStreams == Inv /\ OptionsInv /\ StreamsInv /\ OnCreateStreams => StreamsInv'
<1>. SUFFICES ASSUME Inv, OptionsInv, StreamsInv, OnCreateStreams PROVE StreamsInv'
  OBVIOUS
<1>. DEFINE n == test.options.num_streams
<1>1. /\ Handle(CREATE_STREAMS) /\ test' = [test EXCEPT !.state = CREATE_STREAMS] /\ up' = up
  BY DEF OnCreateStreams, SetState
<1>2. /\ test.state = PARAM_EXCHANGE /\ Active /\ launch \in Launches
      /\ UNCHANGED <<launch, server, answered>>
      /\ server.session = launch /\ server.phase # "hung" => Joint
      /\ down[launch] # <<>> /\ down'[launch] = Tail(down[launch])
      /\ Left(<<>>) \/ Left(<<End>>)
  <2>1. /\ Active /\ UNCHANGED <<launch, server, answered>> /\ Waiting /\ Incoming = CREATE_STREAMS
        /\ server.session = launch /\ server.phase # "hung" => Joint
        /\ launch \in Launches /\ down'[launch] = Tail(down[launch])
    BY <1>1, Handled
  <2>2. test.state = PARAM_EXCHANGE /\ (Left(<<>>) \/ Left(<<End>>))
    BY <2>1, OnByte DEF Inv
  <2>. QED BY <2>1, <2>2 DEF Waiting
<1>3. test'.options = test.options /\ test'.state = CREATE_STREAMS
  BY <1>1 DEF Inv, Shape
<1>4. server.session = launch /\ server.phase # "hung" => server.phase = "streams" /\ server.streams = <<>>
  <2>1. server.session = launch /\ server.phase # "hung" => server.phase = "streams"
    BY <1>2 DEF Joint
  <2>. QED BY <1>2, <2>1 DEF StreamsInv, ServerHas, Serving
<1>5. PICK k \in 0 .. n : Opened(k) /\ (Active' => k = n)
  <2>1. n \in Nat
    BY DEF Inv, Shape
  <2>2. CASE Opened(n) /\ UNCHANGED pc
    BY <2>1, <2>2
  <2>3. CASE \E k \in 0 .. n - 1 : Opened(k) /\ pc' = "idle"
    BY <2>1, <2>3 DEF Active
  <2>. QED BY <2>2, <2>3 DEF OnCreateStreams, Fail
<1>6. streams = <<>>
  BY <1>2 DEF StreamsInv, ClientHas
<1>7. /\ streams' \in Seq(Stream) /\ Len(streams') = k /\ Numbered(streams')
  <2>1. streams' = OpenedOver(<<>>, [s \in 1 .. k |-> s])
    BY <1>5, <1>6 DEF Opened, OpenedOver
  <2>2. k \in Nat
    OBVIOUS
  <2>. QED BY <2>1, <2>2, NewStreamsAre
<1>8. ClientHas'
  <2>1. ~Begun'
    <3>1. End.v = 11 /\ Byte(TEST_START).v = 1
      BY Messages DEF End
    <3>2. launch' = launch /\ (down'[launch] = <<>> \/ Head(down'[launch]) = End)
      <4>1. Head(<<End>>) = End
        OBVIOUS
      <4>. QED BY <1>2, <4>1 DEF Left
    <3>3. down'[launch'] = <<>> \/ Head(down'[launch']) = End
      BY <3>2
    <3>4. Begun' => down'[launch'] # <<>> /\ Head(down'[launch']) = Byte(TEST_START)
      BY <1>3 DEF Begun
    <3>. QED BY <3>1, <3>3, <3>4
  <2>2. Numbered(streams)'
    BY <1>7 DEF Numbered
  <2>. QED BY <1>3, <1>5, <1>7, <2>1, <2>2 DEF ClientHas
<1>9. ServerHas'
  <2>1. backlog' = backlog \o [s \in 1 .. k |-> launch]
    BY <1>5 DEF Opened
  <2>2. ASSUME Serving("streams")
        PROVE  \/ Len(server.streams) < server.options.num_streams
               \/ \A i \in 1 .. Len(backlog') : backlog'[i] # server.session
    <3>. DEFINE q == [s \in 1 .. k |-> launch]
    <3>1. q \in Seq(1 .. launch) /\ Len(q) = k /\ \A i \in 1 .. k : q[i] = launch
      <4>1. launch \in 1 .. launch /\ k \in Nat
        BY <1>2 DEF Launches
      <4>. QED BY <4>1
    <3>2. backlog \in Seq(1 .. launch)
      BY DEF Inv, Shape
    <3>. HIDE DEF q
    <3>3. /\ Len(backlog') = Len(backlog) + k
          /\ \A i \in 1 .. Len(backlog') :
               backlog'[i] = IF i <= Len(backlog) THEN backlog[i] ELSE q[i - Len(backlog)]
      BY <2>1, <3>1, <3>2, ConcatProperties DEF q
    <3>4. CASE server.session # launch
      <4>1. \A i \in 1 .. Len(backlog') : backlog'[i] = launch \/ \E j \in 1 .. Len(backlog) : backlog'[i] = backlog[j]
        <5>1. Len(backlog) \in Nat /\ k \in Nat
          BY <3>2, LenProperties
        <5>2. ASSUME NEW i \in 1 .. Len(backlog'), i > Len(backlog) PROVE backlog'[i] = launch
          <6>1. i - Len(backlog) \in 1 .. k /\ ~(i <= Len(backlog))
            BY <3>3, <5>1, <5>2
          <6>. QED BY <3>1, <3>3, <6>1
        <5>3. ASSUME NEW i \in 1 .. Len(backlog'), i <= Len(backlog)
              PROVE  i \in 1 .. Len(backlog) /\ backlog'[i] = backlog[i]
          BY <3>3, <5>1, <5>3
        <5>. QED BY <3>3, <5>1, <5>2, <5>3
      <4>. QED BY <2>2, <3>4, <4>1 DEF StreamsInv, ServerHas
    <3>5. CASE server.session = launch
      <4>1. server.streams = <<>> /\ Len(server.streams) = 0
        BY <1>4, <2>2, <3>5 DEF Serving
      <4>2. server.options.num_streams = n
        BY <1>2, <2>2, <3>5 DEF OptionsInv, Knows, Serving, Phases
      <4>3. CASE n = 0
        <5>1. k = 0 /\ Len(backlog') = Len(backlog)
          <6>1. Len(backlog) \in Nat
            BY <3>2, LenProperties
          <6>. QED BY <3>3, <4>3, <6>1
        <5>2. \A i \in 1 .. Len(backlog) : backlog'[i] = backlog[i]
          BY <3>3, <5>1
        <5>3. \A i \in 1 .. Len(backlog) : backlog[i] # launch
          BY <1>2 DEF Inv, ClientInv
        <5>. QED BY <3>5, <5>1, <5>2, <5>3
      <4>4. CASE n # 0
        <5>1. n \in Nat
          BY DEF Inv, Shape
        <5>. QED BY <4>1, <4>2, <4>4, <5>1
      <4>. QED BY <4>3, <4>4
    <3>. QED BY <3>4, <3>5
  <2>3. server' = server /\ launch' = launch /\ test'.state # PARAM_EXCHANGE
    BY <1>2, <1>3
  <2>. QED BY <2>2, <2>3 DEF StreamsInv, ServerHas, Serving
<1>10. LinesAre'
  BY <1>1, <1>2, <1>3, <1>4, LinesKept DEF StreamsInv
<1>. QED BY <1>8, <1>9, <1>10 DEF StreamsInv

\* Every other step of the client finds streams and keeps as many.
LEMMA ClientStreams ==
  ASSUME Inv, OptionsInv, StreamsInv, UNCHANGED <<launch, server, answered, backlog>>,
         test'.options = test.options, streams' \in Seq(Stream), Len(streams') = Len(streams),
         \A i \in 1 .. Len(streams) : streams'[i].id = streams[i].id,
         Active' => Active /\ Begun /\ test'.state \notin {0, PARAM_EXCHANGE},
         up' = up \/ \E m : up' = [up EXCEPT ![launch] = Append(@, m)],
         \/ UNCHANGED <<up, streams>>
         \/ ~(server.session = launch /\ server.phase = "results")
         \/ /\ up[launch] = <<>> /\ UNCHANGED streams
            /\ up' = [up EXCEPT ![launch] = Append(@, Data("results", Results(test.options, streams)))]
  PROVE  StreamsInv'
<1>1. Numbered(streams)'
  BY DEF StreamsInv, ClientHas, Numbered
<1>2. streams # <<>> => streams' # <<>>
  BY EmptySeq DEF StreamsInv, ClientHas
<1>3. Begun => test.state \notin {0, PARAM_EXCHANGE}
  BY DEF Begun
<1>4. ClientHas'
  BY <1>1, <1>2, <1>3 DEF StreamsInv, ClientHas
<1>5. ServerHas'
  BY ServerKept DEF StreamsInv
<1>6. LinesAre'
  BY LinesKept DEF StreamsInv
<1>. QED BY <1>4, <1>5, <1>6 DEF StreamsInv

\* ... and most of them change none.
LEMMA SameStreams ==
  ASSUME Inv, OptionsInv, StreamsInv, UNCHANGED <<launch, server, answered, backlog, streams, up>>,
         test'.options = test.options,
         Active' => Active /\ Begun /\ test'.state \notin {0, PARAM_EXCHANGE}
  PROVE  StreamsInv'
BY ClientStreams DEF StreamsInv, ClientHas

LEMMA MessageStreams == Inv /\ OptionsInv /\ StreamsInv /\ OnMessage => StreamsInv'
<1>. SUFFICES ASSUME Inv, OptionsInv, StreamsInv, OnMessage PROVE StreamsInv'
  OBVIOUS
<1>1. CASE OnCreateUdpStreams
  <2>1. /\ Handle(CREATE_STREAMS) /\ test' = [test EXCEPT !.state = CREATE_STREAMS] /\ ~Active'
        /\ UNCHANGED <<up, streams, backlog>>
    BY <1>1 DEF OnCreateUdpStreams, SetState, Active
  <2>. QED BY <2>1, Handled, SameStreams DEF Inv, Shape
<1>2. CASE OnTestStart
  <2>1. /\ Handle(TEST_START) /\ test'.options = test.options /\ test'.state = TEST_START
        /\ UNCHANGED <<up, streams, backlog>>
    BY <1>2 DEF OnTestStart, Inv, Shape
  <2>2. Active /\ Waiting /\ Incoming = TEST_START /\ UNCHANGED <<launch, server, answered>>
    BY <2>1, Handled
  <2>3. test.state = CREATE_STREAMS
    BY <2>2, OnByte DEF Inv
  <2>4. Begun
    <3>1. down[launch] # <<>> /\ Head(down[launch]).v = 1 /\ pc = "select"
      BY <2>2 DEF Waiting, Incoming
    <3>2. Byte(PARAM_EXCHANGE).v = 9 /\ Byte(CREATE_STREAMS).v = 10 /\ End.v = 11
          /\ Byte(ACCESS_DENIED).v = 255 /\ Byte(SERVER_ERROR).v = 254 /\ Byte(TEST_RUNNING).v = 2
          /\ Byte(EXCHANGE_RESULTS).v = 13 /\ Byte(DISPLAY_RESULTS).v = 14
      BY Messages DEF End
    <3>3. Head(down[launch]) = Byte(TEST_START)
      BY <2>2, <3>1, <3>2, Reading DEF Inv
    <3>. QED BY <2>3, <3>1, <3>3 DEF Begun
  <2>. QED BY <2>1, <2>2, <2>4, SameStreams
<1>3. CASE OnTestRunning
  <2>1. /\ Handle(TEST_RUNNING) /\ test'.options = test.options /\ test'.state = TEST_RUNNING
        /\ UNCHANGED <<up, streams, backlog>>
    BY <1>3 DEF OnTestRunning, SetState, Inv, Shape
  <2>2. Active /\ Waiting /\ Incoming = TEST_RUNNING /\ UNCHANGED <<launch, server, answered>>
    BY <2>1, Handled
  <2>3. test.state = TEST_START
    BY <2>2, OnByte DEF Inv
  <2>4. Begun
    BY <2>3 DEF Begun
  <2>. QED BY <2>1, <2>2, <2>4, SameStreams
<1>4. CASE OnExchangeResults
  <2>. DEFINE m == Data("results", Results(test.options, streams))
  <2>1. /\ Handle(EXCHANGE_RESULTS) /\ test' = [test EXCEPT !.state = EXCHANGE_RESULTS]
        /\ UNCHANGED <<streams, backlog>>
        /\ up' = up \/ up' = [up EXCEPT ![launch] = Append(@, m)]
        /\ Active' => up' = [up EXCEPT ![launch] = Append(@, m)]
    BY <1>4 DEF OnExchangeResults, SetState, Nwrite, NwriteFails, Fail, Active
  <2>2. /\ Active /\ Waiting /\ Incoming = EXCHANGE_RESULTS /\ UNCHANGED <<launch, server, answered>>
        /\ server.session = launch /\ server.phase # "hung" => Joint
    BY <2>1, Handled
  <2>3. test.state = TEST_END
    BY <2>2, OnByte DEF Inv
  <2>4. server.session = launch /\ server.phase = "results" => up[launch] = <<>>
    BY <2>2, <2>3 DEF Joint
  <2>5. Begun /\ test'.options = test.options /\ test'.state = EXCHANGE_RESULTS
    BY <2>1, <2>3 DEF Begun, Inv, Shape
  <2>. HIDE DEF m
  <2>6. CASE up' = up
    BY <2>1, <2>2, <2>5, <2>6, SameStreams
  <2>7. CASE up' = [up EXCEPT ![launch] = Append(@, m)]
    <3>1. streams' \in Seq(Stream) /\ Len(streams') = Len(streams)
      BY <2>1 DEF StreamsInv, ClientHas
    <3>2. \/ ~(server.session = launch /\ server.phase = "results")
          \/ /\ up[launch] = <<>> /\ UNCHANGED streams
             /\ up' = [up EXCEPT ![launch] = Append(@, Data("results", Results(test.options, streams)))]
      BY <2>1, <2>4, <2>7 DEF m
    <3>3. \E x : up' = [up EXCEPT ![launch] = Append(@, x)]
      BY <2>7
    <3>4. \A i \in 1 .. Len(streams) : streams'[i].id = streams[i].id
      BY <2>1
    <3>5. Active' => Active /\ Begun /\ test'.state \notin {0, PARAM_EXCHANGE}
      BY <2>2, <2>5
    <3>. QED BY <2>1, <2>2, <2>5, <3>1, <3>2, <3>3, <3>4, <3>5, ClientStreams
  <2>. QED BY <2>1, <2>6, <2>7
<1>5. CASE OnDisplayResults
  <2>1. /\ Handle(DISPLAY_RESULTS) /\ test' = [test EXCEPT !.state = IPERF_DONE] /\ ~Active'
        /\ Nwrite(Byte(IPERF_DONE)) \/ up' = up
        /\ UNCHANGED <<streams, backlog>>
    BY <1>5 DEF OnDisplayResults, SetState, Active
  <2>2. /\ Active /\ Waiting /\ Incoming = DISPLAY_RESULTS /\ UNCHANGED <<launch, server, answered>>
        /\ server.session = launch /\ server.phase # "hung" => Joint
    BY <2>1, Handled
  <2>3. test.state = EXCHANGE_RESULTS /\ pc = "select" /\ down[launch] # <<>>
    BY <2>2, OnByte DEF Inv, Waiting
  <2>4. ~(server.session = launch /\ server.phase = "results")
    BY <2>2, <2>3 DEF Joint
  <2>5. test'.options = test.options /\ streams' \in Seq(Stream) /\ Len(streams') = Len(streams)
    BY <2>1 DEF Inv, Shape, StreamsInv, ClientHas
  <2>. QED BY <2>1, <2>2, <2>4, <2>5, ClientStreams DEF Nwrite
<1>6. CASE OnRefusal
  <2>1. /\ Handle(Incoming) /\ test' = [test EXCEPT !.state = Incoming] /\ ~Active'
        /\ UNCHANGED <<up, streams, backlog>>
    BY <1>6 DEF OnRefusal, SetState, Fail, Active
  <2>. QED BY <2>1, Handled, SameStreams DEF Inv, Shape
<1>7. CASE OnClosed
  BY <1>7, SameStreams DEF OnClosed, Fail, Active, serverVars
<1>. QED
  BY <1>1, <1>2, <1>3, <1>4, <1>5, <1>6, <1>7, ExchangeStreams, CreatedStreams DEF OnMessage

LEMMA ParsedStreams ==
  ASSUME NEW o, NEW list \in Seq(Stream), NEW lines \in Seq(Line),
         NEW new, new = parse_results(o, list, lines).streams
  PROVE  new \in Seq(Stream) /\ Len(new) = Len(list) /\ \A i \in 1 .. Len(list) : Kept(o, list[i], new[i])
<1>. DEFINE r == parse_results(o, list, lines)
<1>1. /\ r.streams \in Seq(Stream) /\ Len(r.streams) = Len(list)
      /\ \A i \in 1 .. Len(list) : Kept(o, list[i], r.streams[i])
  BY ParseKeeps
<1>. HIDE DEF r
<1>2. new = r.streams
  BY DEF r
<1>. QED BY <1>1, <1>2

\* The client takes over the lines of the server, or its own ones again.
LEMMA ReadStreams ==
  ASSUME Inv, OptionsInv, StreamsInv, ReadResults \/ ReadGarbage
  PROVE  /\ UNCHANGED <<launch, test, up, server, answered, backlog>> /\ Active /\ pc = "results"
         /\ test.state = EXCHANGE_RESULTS
         /\ streams' \in Seq(Stream) /\ Len(streams') = Len(streams)
         /\ \A i \in 1 .. Len(streams) : Kept(test.options, streams[i], streams'[i])
         /\ ReadResults => /\ Head(down[launch]) = Answer /\ down[launch] # <<>>
                           /\ streams' = parse_results(test.options, streams, answered).streams
         /\ ReadGarbage => server.session # launch
<1>1. UNCHANGED <<launch, test, up, server, answered, backlog>> /\ Active /\ pc = "results"
  BY DEF ReadResults, ReadGarbage, serverVars, Active
<1>2. test.state = EXCHANGE_RESULTS
  BY <1>1 DEF Inv, ClientInv, Pending, LastWords
<1>3. streams \in Seq(Stream) /\ Results(test.options, streams) \in Seq(Line) /\ answered \in Seq(Line)
  BY ResultsAre DEF StreamsInv, ClientHas, LinesAre
<1>4. ReadResults => /\ Head(down[launch]) = Answer /\ down[launch] # <<>>
                     /\ streams' = parse_results(test.options, streams, answered).streams
  <2>. SUFFICES ASSUME ReadResults
                PROVE  /\ Head(down[launch]) = Answer /\ down[launch] # <<>>
                       /\ streams' = parse_results(test.options, streams, answered).streams
    OBVIOUS
  <2>1. /\ down[launch] # <<>> /\ Head(down[launch]).is = "results"
        /\ streams' = parse_results(test.options, streams, Head(down[launch]).v).streams
    BY DEF ReadResults, Incoming
  <2>2. Head(down[launch]) = Answer
    <3>1. \A m \in {End, Byte(ACCESS_DENIED), Byte(SERVER_ERROR), Byte(PARAM_EXCHANGE),
                    Byte(CREATE_STREAMS), Byte(TEST_START), Byte(TEST_RUNNING),
                    Byte(EXCHANGE_RESULTS)} : m.is = "byte"
      BY Messages DEF End
    <3>. QED BY <1>1, <2>1, <3>1, Reading DEF Inv
  <2>3. Head(down[launch]).v = answered
    BY <2>2, Messages DEF Answer
  <2>. QED BY <2>1, <2>2, <2>3
<1>5. ReadGarbage => \/ streams' = streams
                     \/ streams' = parse_results(test.options, streams, Results(test.options, streams)).streams
  BY DEF ReadGarbage
<1>6. ReadGarbage => server.session # launch
  BY <1>1 DEF Inv, ServerInv, ReadGarbage, Shape, Launches, Active
<1>7. /\ streams' \in Seq(Stream) /\ Len(streams') = Len(streams)
      /\ \A i \in 1 .. Len(streams) : Kept(test.options, streams[i], streams'[i])
  <2>1. CASE streams' = streams
    BY <1>3, <2>1 DEF Kept
  <2>2. ASSUME NEW lines, lines \in Seq(Line), streams' = parse_results(test.options, streams, lines).streams
        PROVE  /\ streams' \in Seq(Stream) /\ Len(streams') = Len(streams)
               /\ \A i \in 1 .. Len(streams) : Kept(test.options, streams[i], streams'[i])
    <3>1. streams' \in Seq(Stream)
      BY <1>3, <2>2, ParsedStreams
    <3>2. Len(streams') = Len(streams)
      BY <1>3, <2>2, ParsedStreams
    <3>3. \A i \in 1 .. Len(streams) : Kept(test.options, streams[i], streams'[i])
      BY <1>3, <2>2, ParsedStreams
    <3>. QED BY <3>1, <3>2, <3>3
  <2>3. CASE ReadGarbage
    BY <1>3, <1>5, <2>1, <2>2, <2>3
  <2>4. CASE ReadResults
    BY <1>3, <1>4, <2>2, <2>4
  <2>. QED BY <2>3, <2>4
<1>. QED BY <1>1, <1>2, <1>4, <1>6, <1>7

LEMMA ReadingStreams == Inv /\ OptionsInv /\ StreamsInv /\ (ReadResults \/ ReadGarbage) => StreamsInv'
<1>. SUFFICES ASSUME Inv, OptionsInv, StreamsInv, ReadResults \/ ReadGarbage PROVE StreamsInv'
  OBVIOUS
<1>1. /\ UNCHANGED <<launch, test, up, server, answered, backlog>> /\ Active /\ pc = "results"
      /\ test.state = EXCHANGE_RESULTS
      /\ streams' \in Seq(Stream) /\ Len(streams') = Len(streams)
      /\ \A i \in 1 .. Len(streams) : Kept(test.options, streams[i], streams'[i])
  BY ReadStreams
<1>2. \A i \in 1 .. Len(streams) : streams'[i].id = streams[i].id
  BY <1>1 DEF Kept
<1>3. ~(server.session = launch /\ server.phase = "results")
  <2>1. CASE ReadGarbage
    BY <2>1, ReadStreams
  <2>2. CASE ReadResults
    <3>1. down[launch] # <<>>
      BY <2>2, ReadStreams
    <3>2. server.session = launch /\ server.phase = "results" => Joint
      BY <1>1 DEF Inv, ClientInv
    <3>. QED BY <1>1, <3>1, <3>2 DEF Joint
  <2>. QED BY <2>1, <2>2
<1>4. Begun
  BY <1>1 DEF Begun
<1>. QED BY <1>1, <1>2, <1>3, <1>4, ClientStreams

LEMMA TurnKeepsStreams == Inv /\ OptionsInv /\ StreamsInv /\ RunBody => StreamsInv'
<1>. SUFFICES ASSUME Inv, OptionsInv, StreamsInv, RunBody PROVE StreamsInv'
  OBVIOUS
<1>1. test.options \in Options /\ streams \in Seq(Stream)
  BY DEF OptionsInv, Within, StreamsInv, ClientHas
<1>2. /\ streams' \in Seq(Stream) /\ Len(streams') = Len(streams)
      /\ \A i \in 1 .. Len(streams) : streams'[i].id = streams[i].id
  BY <1>1, TurnStreams DEF Turned
<1>3. /\ Active /\ test.state = TEST_RUNNING /\ UNCHANGED <<launch, server, answered, backlog>>
      /\ test'.options = test.options
      /\ up' = up \/ \E m : up' = [up EXCEPT ![launch] = Append(@, m)]
      /\ ~(server.session = launch /\ server.phase = "results")
  BY Turn
<1>4. Active' => test'.state \in {TEST_RUNNING, TEST_END}
  BY Turn DEF Active
<1>5. Begun
  BY <1>3 DEF Begun
<1>6. Active' => Active /\ Begun /\ test'.state \notin {0, PARAM_EXCHANGE}
  BY <1>3, <1>4, <1>5
<1>. QED BY <1>2, <1>3, <1>6, ClientStreams

LEMMA LaunchStreams == Inv /\ OptionsInv /\ StreamsInv /\ Launch => StreamsInv'
<1>. SUFFICES ASSUME Inv, OptionsInv, StreamsInv, Launch PROVE StreamsInv'
  OBVIOUS
<1>1. /\ pc = "idle" /\ launch' = launch + 1 /\ test'.state = 0 /\ streams' = <<>>
      /\ UNCHANGED <<server, backlog, answered>>
  <2>1. CASE LaunchReturns
    BY <2>1 DEF LaunchReturns, NewTest, serverVars
  <2>2. CASE LaunchConnects
    BY <2>2 DEF LaunchConnects, NewTest, serverVars
  <2>. QED BY <2>1, <2>2 DEF Launch
<1>2. server.session # launch'
  BY <1>1 DEF Inv, Shape, Other
<1>3. ~Serving("results")
  BY <1>1 DEF OptionsInv, Busy, Serving, Active
<1>4. ClientHas'
  BY <1>1, NoStreams DEF ClientHas, Begun, Numbered
<1>5. ServerHas'
  BY <1>1, <1>2 DEF StreamsInv, ServerHas, Serving
<1>6. LinesAre'
  BY <1>1, <1>3 DEF StreamsInv, LinesAre, Serving
<1>. QED BY <1>4, <1>5, <1>6 DEF StreamsInv

\* A server that is free has no stream.
LEMMA FreeHas ==
  ASSUME StreamsInv, NEW o, server' = FreeServer(o), answered' = answered
  PROVE  ServerHas' /\ LinesAre'
<1>1. server'.session = 0 /\ server'.phase = "idle" /\ server'.streams = <<>> /\ 0 \notin Launches
  BY DEF FreeServer, Launches
<1>2. <<>> \in Seq(Stream) /\ Len(<<>>) <= MAX_STREAMS
  BY DEF MAX_STREAMS
<1>3. Numbered(server.streams)'
  BY <1>1 DEF Numbered
<1>4. ServerHas'
  BY <1>1, <1>2, <1>3 DEF ServerHas, Serving
<1>. QED BY <1>1, <1>4 DEF StreamsInv, LinesAre, Serving

LEMMA AcceptsStreams ==
  ASSUME NEW n \in Launches PROVE Inv /\ OptionsInv /\ StreamsInv /\ ServerAccepts(n) => StreamsInv'
<1>. SUFFICES ASSUME Inv, OptionsInv, StreamsInv, ServerAccepts(n) PROVE StreamsInv'
  OBVIOUS
<1>1. /\ UNCHANGED <<pc, launch, test, streams, backlog, answered>> /\ n \in Unaccepted
      /\ server.phase # "hung"
  BY DEF ServerAccepts, clientVars
<1>2. n = launch /\ Active
  BY <1>1 DEF Inv, ServerInv
<1>3. test.state = 0
  <2>1. CASE server.session = launch
    BY <1>1, <1>2, <2>1, ServedNotAtTheDoor DEF Inv
  <2>2. CASE server.session # launch
    BY <1>1, <1>2, <2>2 DEF Inv, ClientInv, Unaccepted, AtTheDoor
  <2>. QED BY <2>1, <2>2
<1>4. ClientHas'
  BY <1>1, <1>3, ClientKept DEF StreamsInv
<1>5. CASE server.session = 0
  <2>1. server' = [server EXCEPT !.session = n, !.phase = "params"]
    BY <1>5 DEF ServerAccepts
  <2>2. /\ server'.session = n /\ server'.phase = "params" /\ server'.streams = server.streams
        /\ 0 \notin Launches
    BY <2>1 DEF Inv, Shape, Launches
  <2>3. server.streams = <<>>
    BY <1>5, <2>2 DEF StreamsInv, ServerHas
  <2>4. ServerHas'
    BY <2>2, <2>3 DEF StreamsInv, ServerHas, Serving, Numbered
  <2>. QED BY <1>1, <1>4, <2>2, <2>4 DEF StreamsInv, LinesAre, Serving
<1>6. CASE server.session # 0
  <2>1. server' = server /\ up' = up
    BY <1>6 DEF ServerAccepts
  <2>. QED BY <1>1, <1>4, <2>1 DEF StreamsInv, ServerHas, LinesAre, Serving, Active, Numbered
<1>. QED BY <1>5, <1>6

LEMMA ParamsStreams == Inv /\ OptionsInv /\ StreamsInv /\ ServerParams => StreamsInv'
<1>. SUFFICES ASSUME Inv, OptionsInv, StreamsInv, ServerParams PROVE StreamsInv'
  OBVIOUS
<1>. DEFINE s == server.session
            o == parse_parameters(server.options, Head(up[s]).v)
<1>1. /\ s \in Launches /\ server.phase = "params" /\ up[s] # <<>>
      /\ UNCHANGED <<pc, launch, test, streams, answered>> /\ Fewer
  BY DEF ServerParams, Serving, Received1, clientVars, Fewer
<1>2. s = launch /\ Active
  BY <1>1 DEF OptionsInv, Busy
<1>3. /\ test.state \in {0, PARAM_EXCHANGE}
      /\ \A i \in 1 .. Len(backlog) : backlog[i] # launch
  <2>1. Joint
    BY <1>1, <1>2 DEF Inv, ClientInv
  <2>2. test.state \in {0, PARAM_EXCHANGE}
    BY <1>1, <2>1 DEF Joint
  <2>. QED BY <1>2, <2>2 DEF Inv, ClientInv
<1>4. ClientHas'
  BY <1>1, <1>3, ClientKept DEF StreamsInv
<1>. HIDE DEF o
<1>5. \/ server' = [server EXCEPT !.options = o, !.phase = "streams"]
      \/ server' = FreeServer(iperf_reset_test(o))
  BY DEF ServerParams, o
<1>6. CASE server' = [server EXCEPT !.options = o, !.phase = "streams"]
  <2>1. server'.session = s /\ server'.phase = "streams" /\ server'.streams = server.streams
    BY <1>6 DEF Inv, Shape
  <2>2. server.streams = <<>>
    BY <1>1 DEF StreamsInv, ServerHas
  <2>3. \A i \in 1 .. Len(backlog') : backlog'[i] # launch
    BY <1>1, <1>3, FewerStreams DEF Inv
  <2>4. ServerHas'
    BY <1>1, <1>2, <2>1, <2>2, <2>3 DEF StreamsInv, ServerHas, Serving, Numbered
  <2>. QED BY <1>1, <1>4, <2>1, <2>4 DEF StreamsInv, LinesAre, Serving
<1>7. CASE server' = FreeServer(iperf_reset_test(o))
  BY <1>1, <1>4, <1>7, FreeHas DEF StreamsInv
<1>. QED BY <1>5, <1>6, <1>7

\* A stream of the client, or one that shows another cookie.
LEMMA AcceptedStream == Inv /\ OptionsInv /\ StreamsInv /\ ServerAcceptsStream => StreamsInv'
<1>. SUFFICES ASSUME Inv, OptionsInv, StreamsInv, ServerAcceptsStream PROVE StreamsInv'
  OBVIOUS
<1>. DEFINE s == server.session
            own == Head(backlog) = s
            new == iperf_add_stream(server.streams, iperf_new_stream(0))
            num == server.options.num_streams
<1>1. /\ s \in Launches /\ server.phase = "streams" /\ backlog # <<>> /\ backlog' = Tail(backlog)
      /\ UNCHANGED <<pc, launch, test, streams, answered, up>>
  BY DEF ServerAcceptsStream, Serving, clientVars
<1>2. /\ backlog[1] = Head(backlog) /\ Len(backlog) \in Nat /\ Len(backlog) >= 1
      /\ Len(backlog') = Len(backlog) - 1
      /\ \A i \in 1 .. Len(backlog') : backlog'[i] = backlog[i + 1]
  <2>1. backlog \in Seq(1 .. launch)
    BY DEF Inv, Shape
  <2>. QED BY <1>1, <2>1, EmptySeq
<1>3. s = launch /\ Active => Joint
  BY <1>1 DEF Inv, ClientInv
<1>4. CASE ~own
  <2>1. server' = [server EXCEPT !.streams = server.streams, !.phase = server.phase]
        /\ down' = [down EXCEPT ![s] = @ \o <<>>]
    BY <1>4 DEF ServerAcceptsStream, Say
  <2>2. server'.session = s /\ server'.phase = "streams" /\ server'.streams = server.streams
        /\ server'.options = server.options
    BY <1>1, <2>1 DEF Inv, Shape
  <2>3. ClientHas'
    <3>1. ASSUME Active, test.state = CREATE_STREAMS, Begun' PROVE Begun
      <4>1. CASE s = launch
        <5>1. down[launch] = <<>>
          BY <1>1, <1>3, <3>1, <4>1 DEF Joint
        <5>2. down'[launch] = <<>>
          BY <1>1, <2>1, <4>1, <5>1, Tuples DEF Inv, Shape
        <5>. QED BY <1>1, <3>1, <5>2 DEF Begun
      <4>2. CASE s # launch
        <5>1. down'[launch] = down[launch]
          BY <2>1, <4>2
        <5>. QED BY <1>1, <3>1, <5>1 DEF Begun
      <4>. QED BY <4>1, <4>2
    <3>. QED BY <1>1, <3>1, ClientKept DEF StreamsInv
  <2>4. \/ Len(server.streams) < num
        \/ \A i \in 1 .. Len(backlog') : backlog'[i] # s
    <3>1. \A i \in 1 .. Len(backlog') : i + 1 \in 1 .. Len(backlog)
      BY <1>2
    <3>. QED BY <1>1, <1>2, <3>1 DEF StreamsInv, ServerHas, Serving
  <2>5. ServerHas'
    BY <1>1, <2>2, <2>4 DEF StreamsInv, ServerHas, Serving, Numbered, Active
  <2>. QED BY <1>1, <2>2, <2>3, <2>5 DEF StreamsInv, LinesAre, Serving
<1>5. CASE own
  <2>1. Len(server.streams) < num
    <3>1. 1 \in 1 .. Len(backlog) /\ backlog[1] = s
      BY <1>2, <1>5
    <3>. QED BY <1>1, <3>1 DEF StreamsInv, ServerHas, Serving
  <2>2. server.streams \in Seq(Stream) /\ Len(server.streams) \in Nat
        /\ num \in Nat /\ num <= MAX_STREAMS
    BY DEF StreamsInv, ServerHas, OptionsInv, Within, Options
  <2>3. /\ new \in Seq(Stream) /\ Len(new) = Len(server.streams) + 1 /\ Numbered(new)
    <3>1. iperf_new_stream(0) \in Stream
      BY NewStreamType
    <3>. QED BY <2>2, <3>1, AddStream, AddNumbered DEF StreamsInv, ServerHas
  <2>4. Len(new) <= num /\ new # <<>> /\ Len(new) <= MAX_STREAMS
    BY <2>1, <2>2, <2>3, EmptySeq DEF MAX_STREAMS
  <2>. DEFINE full == Len(new) = num
  <2>. HIDE DEF new
  <2>5. /\ server' = [server EXCEPT !.streams = new, !.phase = IF full THEN "running" ELSE @]
        /\ down' = [down EXCEPT ![s] = @ \o IF full THEN <<Byte(TEST_START), Byte(TEST_RUNNING)>> ELSE <<>>]
    BY <1>5 DEF ServerAcceptsStream, Say, new
  <2>6. /\ server'.session = s /\ server'.streams = new /\ server'.options = server.options
        /\ server'.phase = IF full THEN "running" ELSE "streams"
    BY <1>1, <2>5 DEF Inv, Shape
  <2>7. ~(s = launch /\ Active /\ test.state = PARAM_EXCHANGE)
    BY <1>2, <1>5 DEF Inv, ClientInv
  <2>8. ServerHas'
    <3>1. Numbered(server.streams)'
      BY <2>3, <2>6 DEF Numbered
    <3>2. Len(server'.streams) < server'.options.num_streams \/ server'.phase = "running"
      BY <2>2, <2>3, <2>4, <2>6
    <3>3. s = launch /\ Active' /\ test'.state = PARAM_EXCHANGE => server'.streams = <<>>
      BY <1>1, <2>7 DEF Active
    <3>4. server'.phase \in {"streams", "running"} /\ server'.session \in Launches
      BY <1>1, <2>6
    <3>. QED BY <1>1, <2>3, <2>4, <2>6, <3>1, <3>2, <3>3, <3>4 DEF ServerHas, Serving
  <2>9. ClientHas'
    <3>1. ASSUME Active, test.state = CREATE_STREAMS, Begun' PROVE Begun \/ streams # <<>>
      <4>1. CASE s = launch
        <5>1. down[launch] = <<>>
          BY <1>1, <1>3, <3>1, <4>1 DEF Joint
        <5>2. CASE full
          <6>1. Knows(server.options, test.options)
            BY <1>1, <4>1 DEF OptionsInv, Phases
          <6>2. test.options.num_streams = num
            BY <6>1 DEF Knows
          <6>3. Len(streams) = num
            BY <3>1, <6>2 DEF StreamsInv, ClientHas
          <6>. QED BY <2>1, <2>2, <6>3
        <5>3. CASE ~full
          <6>1. down'[launch] = <<>>
            BY <1>1, <2>5, <4>1, <5>1, <5>3, Tuples DEF Inv, Shape
          <6>. QED BY <1>1, <3>1, <6>1 DEF Begun
        <5>. QED BY <5>2, <5>3
      <4>2. CASE s # launch
        <5>1. down'[launch] = down[launch]
          BY <2>5, <4>2
        <5>. QED BY <1>1, <3>1, <5>1 DEF Begun
      <4>. QED BY <4>1, <4>2
    <3>. QED BY <1>1, <3>1, ClientKept DEF StreamsInv
  <2>. QED BY <1>1, <2>6, <2>8, <2>9 DEF StreamsInv, LinesAre, Serving
<1>. QED BY <1>4, <1>5

LEMMA MovedStream == ASSUME NEW i PROVE Inv /\ OptionsInv /\ StreamsInv /\ ServerMoves(i) => StreamsInv'
<1>. SUFFICES ASSUME Inv, OptionsInv, StreamsInv, ServerMoves(i) PROVE StreamsInv'
  OBVIOUS
<1>. DEFINE n == server.options.blksize
            sp == server.streams[i]
<1>1. /\ Serving("running") /\ i \in DOMAIN server.streams
      /\ UNCHANGED <<pc, launch, test, streams, answered, up, down, backlog>>
      /\ \E e \in {Received(sp, n), Sent(sp, n)} : server' = [server EXCEPT !.streams[i] = e]
  BY DEF ServerMoves, clientVars
<1>2. PICK e \in {Received(sp, n), Sent(sp, n)} : server' = [server EXCEPT !.streams[i] = e]
  BY <1>1
<1>3. /\ server.streams \in Seq(Stream) /\ i \in 1 .. Len(server.streams) /\ n \in Int
      /\ server.streams # <<>> /\ Len(server.streams) = server.options.num_streams
  <2>1. server.options \in Options
    BY DEF OptionsInv, Within
  <2>2. n \in Int
    BY <2>1 DEF Options
  <2>3. server.streams \in Seq(Stream) /\ i \in 1 .. Len(server.streams)
    BY <1>1 DEF StreamsInv, ServerHas
  <2>. QED BY <1>1, <2>2, <2>3 DEF StreamsInv, ServerHas, Serving
<1>4. e \in Stream /\ e.id = sp.id
  <2>1. sp \in Stream
    BY <1>3
  <2>2. Sent(sp, n) \in Stream /\ Sent(sp, n).id = sp.id
    BY <1>3, <2>1, SentIs
  <2>3. Received(sp, n) \in Stream /\ Received(sp, n).id = sp.id
    BY <1>3, <2>1, ReceivedIs
  <2>. QED BY <1>2, <2>2, <2>3
<1>. DEFINE new == [server.streams EXCEPT ![i] = e]
<1>5. /\ server'.session = server.session /\ server'.phase = server.phase
      /\ server'.options = server.options /\ server'.streams = new
  BY <1>2 DEF Inv, Shape
<1>6. /\ new \in Seq(Stream) /\ Len(new) = Len(server.streams)
      /\ \A k \in 1 .. Len(server.streams) : new[k] = IF k = i THEN e ELSE server.streams[k]
  BY <1>3, <1>4, UpdateSeq
<1>. HIDE DEF new
<1>7. Numbered(server.streams)'
  BY <1>4, <1>5, <1>6 DEF StreamsInv, ServerHas, Numbered
<1>8. server'.streams # <<>>
  BY <1>3, <1>5, <1>6
<1>9. ServerHas'
  BY <1>1, <1>3, <1>5, <1>6, <1>7, <1>8 DEF StreamsInv, ServerHas, Serving
<1>10. ClientHas' /\ LinesAre'
  BY <1>1, <1>5 DEF StreamsInv, ClientHas, LinesAre, Serving, Active, Begun, Numbered
<1>. QED BY <1>9, <1>10 DEF StreamsInv

LEMMA TestEndStreams == Inv /\ OptionsInv /\ StreamsInv /\ ServerTestEnd => StreamsInv'
<1>. SUFFICES ASSUME Inv, OptionsInv, StreamsInv, ServerTestEnd PROVE StreamsInv'
  OBVIOUS
<1>. DEFINE s == server.session
<1>1. /\ s \in Launches /\ server.phase = "running" /\ up[s] # <<>>
      /\ up' = [up EXCEPT ![s] = Tail(@)] /\ server' = [server EXCEPT !.phase = "results"]
      /\ UNCHANGED <<pc, launch, test, streams, answered, backlog>>
  BY DEF ServerTestEnd, Serving, Received1, Take, clientVars
<1>2. s = launch /\ Active
  BY <1>1 DEF OptionsInv, Busy
<1>3. test.state = TEST_END
  <2>1. Joint
    BY <1>1, <1>2 DEF Inv, ClientInv
  <2>. QED BY <1>1, <1>2, <2>1 DEF Joint
<1>4. ClientHas'
  BY <1>1, <1>3, ClientKept DEF StreamsInv
<1>5. up'[s] = <<>>
  <2>1. Next1(up[s], Expected["running"])
    BY <1>1 DEF Inv, ServerInv
  <2>2. up[s] = <<up[s][1]>>
    BY <1>1, <2>1 DEF Next1
  <2>3. Tail(up[s]) = <<>>
    BY <2>2, Tuples
  <2>. QED BY <1>1, <2>3 DEF Inv, Shape
<1>6. /\ server'.session = s /\ server'.phase = "results" /\ server'.streams = server.streams
      /\ server'.options = server.options
  BY <1>1 DEF Inv, Shape
<1>7. ServerHas'
  BY <1>1, <1>6 DEF StreamsInv, ServerHas, Serving, Numbered
<1>8. LinesAre'
  BY <1>1, <1>5, <1>6 DEF StreamsInv, LinesAre, Serving
<1>. QED BY <1>4, <1>7, <1>8 DEF StreamsInv

\* The server takes over the lines of the client, and writes its own.
LEMMA ResultsStreams == Inv /\ OptionsInv /\ StreamsInv /\ ServerResults => StreamsInv'
<1>. SUFFICES ASSUME Inv, OptionsInv, StreamsInv, ServerResults PROVE StreamsInv'
  OBVIOUS
<1>. DEFINE s == server.session
            o == server.options
            lines == Head(up[s]).v
            new == parse_results(o, server.streams, lines).streams
<1>1. /\ s \in Launches /\ server.phase = "results" /\ up[s] # <<>>
      /\ UNCHANGED <<pc, launch, test, streams, backlog>>
  BY DEF ServerResults, Serving, Received1, clientVars
<1>2. s = launch /\ Active
  BY <1>1 DEF OptionsInv, Busy
<1>3. test.state = EXCHANGE_RESULTS
  <2>1. Joint
    BY <1>1, <1>2 DEF Inv, ClientInv
  <2>. QED BY <1>1, <1>2, <2>1 DEF Joint
<1>4. ClientHas'
  BY <1>1, <1>3, ClientKept DEF StreamsInv
<1>5. \/ /\ server' = [server EXCEPT !.streams = new, !.phase = "display"]
         /\ answered' = Results(o, new)
      \/ server' = FreeServer(iperf_reset_test(o)) /\ answered' = answered
  BY DEF ServerResults
<1>6. /\ server.streams \in Seq(Stream) /\ Numbered(server.streams) /\ server.streams # <<>>
      /\ Len(server.streams) = o.num_streams /\ Len(server.streams) <= MAX_STREAMS
  BY <1>1 DEF StreamsInv, ServerHas
<1>7. lines \in Seq(Line)
  <2>1. lines = Results(test.options, streams)
    BY <1>1, Messages DEF StreamsInv, LinesAre, Serving
  <2>. QED BY <2>1, ResultsAre DEF StreamsInv, ClientHas
<1>. HIDE DEF lines
<1>8. PICK list : list = new
  OBVIOUS
<1>9. /\ list \in Seq(Stream) /\ Len(list) = Len(server.streams)
      /\ \A i \in 1 .. Len(server.streams) : Kept(o, server.streams[i], list[i])
  <2>1. list \in Seq(Stream)
    BY <1>6, <1>7, <1>8, ParsedStreams
  <2>2. Len(list) = Len(server.streams)
    BY <1>6, <1>7, <1>8, ParsedStreams
  <2>3. \A i \in 1 .. Len(server.streams) : Kept(o, server.streams[i], list[i])
    BY <1>6, <1>7, <1>8, ParsedStreams
  <2>. QED BY <2>1, <2>2, <2>3
<1>. HIDE DEF new
<1>10. CASE server' = [server EXCEPT !.streams = new, !.phase = "display"] /\ answered' = Results(o, new)
  <2>1. server'.session = s /\ server'.phase = "display" /\ server'.streams = list /\ server'.options = o
    BY <1>8, <1>10 DEF Inv, Shape
  <2>2. Numbered(list) /\ list # <<>>
    BY <1>6, <1>9, EmptySeq DEF Numbered, Kept
  <2>3. Numbered(server.streams)'
    BY <2>1, <2>2 DEF Numbered
  <2>4. ServerHas'
    BY <1>1, <1>6, <1>9, <2>1, <2>2, <2>3 DEF ServerHas, Serving
  <2>5. answered' \in Seq(Line)
    BY <1>8, <1>9, <1>10, ResultsAre
  <2>6. LinesAre'
    BY <2>1, <2>5 DEF LinesAre, Serving
  <2>. QED BY <1>4, <2>4, <2>6 DEF StreamsInv
<1>11. CASE server' = FreeServer(iperf_reset_test(o)) /\ answered' = answered
  BY <1>4, <1>11, FreeHas DEF StreamsInv
<1>. QED BY <1>5, <1>10, <1>11

\* What the server says last is no start of a test.
LEMMA TerminatedStreams == Inv /\ OptionsInv /\ StreamsInv /\ ServerTerminates => StreamsInv'
<1>. SUFFICES ASSUME Inv, OptionsInv, StreamsInv, ServerTerminates PROVE StreamsInv'
  OBVIOUS
<1>. DEFINE s == server.session
<1>1. /\ s \in Launches /\ server.phase # "hung" /\ down' = [down EXCEPT ![s] = @ \o <<End>>]
      /\ server' = FreeServer([iperf_defaults EXCEPT !.role = "s"])
      /\ UNCHANGED <<pc, launch, test, streams, answered>>
  BY DEF ServerTerminates, Say, End, clientVars
<1>2. ASSUME Active, test.state = CREATE_STREAMS, Begun' PROVE Begun
  <2>1. CASE s # launch
    <3>1. down'[launch] = down[launch]
      BY <1>1, <2>1
    <3>. QED BY <1>1, <1>2, <3>1 DEF Begun
  <2>2. CASE s = launch
    <3>1. ~shut[launch]
      BY <1>1, <2>2 DEF Inv, ServerInv
    <3>2. Pending(down[launch])
      BY <1>2, <3>1 DEF Inv, ClientInv
    <3>3. down[launch] \in {<<>>, <<Byte(TEST_START), Byte(TEST_RUNNING)>>}
      BY <1>2, <3>2 DEF Pending
    <3>4. CASE down[launch] = <<>>
      <4>1. down'[launch] = <<End>>
        BY <1>1, <2>2, <3>4, Tuples DEF Inv, Shape
      <4>2. Head(<<End>>) = End
        BY Tuples
      <4>3. Head(down'[launch]) = Byte(TEST_START)
        BY <1>1, <1>2 DEF Begun
      <4>4. End.v = 11 /\ Byte(TEST_START).v = 1
        BY Messages DEF End
      <4>. QED BY <4>1, <4>2, <4>3, <4>4
    <3>5. CASE down[launch] = <<Byte(TEST_START), Byte(TEST_RUNNING)>>
      <4>1. Head(down[launch]) = Byte(TEST_START) /\ down[launch] # <<>>
        BY <3>5, Tuples
      <4>. QED BY <1>2, <4>1 DEF Begun
    <3>. QED BY <3>3, <3>4, <3>5
  <2>. QED BY <2>1, <2>2
<1>3. ClientHas'
  BY <1>1, <1>2, ClientKept DEF StreamsInv
<1>. QED BY <1>1, <1>3, FreeHas DEF StreamsInv

LEMMA FreedStreams ==
  ASSUME Inv, StreamsInv, UNCHANGED <<pc, launch, test, streams, answered, down>>,
         NEW o, server' = FreeServer(o)
  PROVE  StreamsInv'
<1>1. ClientHas'
  BY ClientKept DEF StreamsInv, Begun
<1>. QED BY <1>1, FreeHas DEF StreamsInv

LEMMA ServerStreams == Inv /\ OptionsInv /\ StreamsInv /\ (ServerStep \/ Environment) => StreamsInv'
<1>. SUFFICES ASSUME Inv, OptionsInv, StreamsInv, ServerStep \/ Environment PROVE StreamsInv'
  OBVIOUS
<1>1. CASE ServerDone
  BY <1>1, FreedStreams DEF ServerDone, clientVars
<1>2. CASE OthersTestEnds
  BY <1>2, FreedStreams DEF OthersTestEnds, clientVars
<1>3. CASE ConnectionLost
  BY <1>3, FreedStreams DEF ConnectionLost, clientVars
<1>4. CASE ServerHangs
  <2>1. /\ UNCHANGED <<pc, launch, test, streams, answered, down, up, backlog>>
        /\ server' = [server EXCEPT !.phase = "hung"] /\ server.session \in Launches
    BY <1>4 DEF ServerHangs, clientVars
  <2>2. /\ server'.session = server.session /\ server'.phase = "hung"
        /\ server'.streams = server.streams /\ server'.options = server.options
    BY <2>1 DEF Inv, Shape
  <2>3. ClientHas'
    BY <2>1, ClientKept DEF StreamsInv, Begun
  <2>4. ServerHas'
    BY <2>1, <2>2 DEF StreamsInv, ServerHas, Serving, Numbered
  <2>. QED BY <2>1, <2>2, <2>3, <2>4 DEF StreamsInv, LinesAre, Serving
<1>5. CASE OthersTest
  <2>1. /\ UNCHANGED <<pc, launch, test, streams, answered, down, up, backlog>>
        /\ server.session = 0
        /\ \E o : server' = [server EXCEPT !.session = Other, !.phase = "other", !.options = o]
    BY <1>5 DEF OthersTest, clientVars
  <2>2. /\ server'.session = Other /\ server'.phase = "other" /\ server'.streams = server.streams
        /\ Other \notin Launches /\ 0 \notin Launches
    BY <2>1 DEF Inv, Shape, Other, Launches
  <2>3. ClientHas'
    BY <2>1, ClientKept DEF StreamsInv, Begun
  <2>4. ServerHas'
    BY <2>1, <2>2 DEF StreamsInv, ServerHas, Serving, Numbered
  <2>. QED BY <2>1, <2>2, <2>3, <2>4 DEF StreamsInv, LinesAre, Serving
<1>. QED
  BY <1>1, <1>2, <1>3, <1>4, <1>5, AcceptsStreams, ParamsStreams, AcceptedStream, MovedStream,
     TestEndStreams, ResultsStreams, TerminatedStreams
  DEF ServerStep, Environment

LEMMA InitStreams == Init => StreamsInv
<1>. SUFFICES ASSUME Init PROVE StreamsInv
  OBVIOUS
<1>1. streams = <<>> /\ server.streams = <<>> /\ server.session = 0 /\ server.phase = "idle"
      /\ answered = <<>> /\ pc = "idle" /\ 0 \notin Launches
  BY DEF Init, FreeServer, Launches
<1>2. Len(<<>>) <= MAX_STREAMS
  BY DEF MAX_STREAMS
<1>3. ClientHas
  BY <1>1, NoStreams DEF ClientHas, Active
<1>4. ServerHas
  BY <1>1, <1>2, NoStreams DEF ServerHas, Serving
<1>. QED BY <1>1, <1>3, <1>4, NoStreams DEF StreamsInv, LinesAre, Serving

LEMMA NextStreams == Inv /\ OptionsInv /\ StreamsInv /\ [Next]_vars => StreamsInv'
<1>. SUFFICES ASSUME Inv, OptionsInv, StreamsInv, [Next]_vars PROVE StreamsInv'
  OBVIOUS
<1>1. CASE UNCHANGED vars
  BY <1>1 DEF StreamsInv, ClientHas, ServerHas, LinesAre, Active, Begun, Serving, Numbered, vars,
              clientVars, serverVars
<1>2. CASE UdpRefused
  BY <1>2, SameStreams DEF UdpRefused, Fail, serverVars, Active
<1>. QED
  BY <1>1, <1>2, LaunchStreams, MessageStreams, ReadingStreams, TurnKeepsStreams, ServerStreams
  DEF Next, ClientStep
-----------------------------------------------------------------------------
(* The sockets a test leaves open *)

\* SocketsInv: one for the control connection and one for each stream, while
\* the test goes on; a test that succeeded has closed those of its streams.
SocketsInv ==
  /\ sockets \in [Launches -> 0 .. MAX_STREAMS + 1]
  /\ \A n \in Launches : n > launch => sockets[n] = 0
  /\ Active => sockets[launch] = 1 + Len(streams) /\ ret # "ok"
  /\ pc = "udp" => ret # "ok"
  /\ ret = "ok" => launch # 0 /\ sockets[launch] = IF streams = <<>> THEN 0 ELSE 1

LEMMA SocketsKept ==
  ASSUME SocketsInv, UNCHANGED <<launch, sockets>>, Active \/ pc = "udp",
         Active' => Active /\ Len(streams') = Len(streams), pc' # "udp",
         ret' \in {ret, "fail"}
  PROVE  SocketsInv'
BY DEF SocketsInv

\* While its test goes on the client keeps the number of its streams.
LEMMA SameNumber ==
  ASSUME StreamsInv, StreamsInv', test'.options = test.options, Active, Active',
         test.state \notin {0, PARAM_EXCHANGE}, test'.state \notin {0, PARAM_EXCHANGE}
  PROVE  Len(streams') = Len(streams)
BY DEF StreamsInv, ClientHas

LEMMA MessageSockets ==
  Inv /\ OptionsInv /\ StreamsInv /\ SocketsInv /\ OnMessage => SocketsInv'
<1>. SUFFICES ASSUME Inv, OptionsInv, StreamsInv, SocketsInv, OnMessage PROVE SocketsInv'
  OBVIOUS
<1>0. Active /\ UNCHANGED launch
  BY DEF OnMessage, OnParamExchange, OnCreateStreams, OnCreateUdpStreams, OnTestStart, OnTestRunning,
         OnExchangeResults, OnDisplayResults, OnRefusal, OnClosed, Handle, Waiting, Active
<1>1. CASE OnParamExchange \/ OnTestStart \/ OnTestRunning \/ OnExchangeResults \/ OnRefusal \/ OnClosed
  <2>1. UNCHANGED <<sockets, streams>> /\ pc' # "udp" /\ ret' \in {ret, "fail"}
    BY <1>0, <1>1 DEF OnParamExchange, OnTestStart, OnTestRunning, OnExchangeResults, OnRefusal,
                 OnClosed, NwriteFails, Fail, Active
  <2>. QED BY <1>0, <2>1, SocketsKept
<1>2. CASE OnCreateStreams
  <2>. DEFINE n == test.options.num_streams
  <2>1. /\ Handle(CREATE_STREAMS) /\ StreamsInv'
        /\ test' = [test EXCEPT !.state = CREATE_STREAMS]
    BY <1>2, CreatedStreams DEF OnCreateStreams, SetState
  <2>2. test.state = PARAM_EXCHANGE /\ launch \in Launches /\ launch' = launch
    BY <2>1, Handled, OnByte DEF Inv
  <2>3. /\ sockets[launch] = 1 /\ n \in Nat /\ n <= MAX_STREAMS
        /\ sockets \in [Launches -> 0 .. MAX_STREAMS + 1]
    BY <1>0, <2>2 DEF StreamsInv, ClientHas, SocketsInv, OptionsInv, Within, Options
  <2>4. test'.options = test.options /\ test'.state = CREATE_STREAMS
    BY <2>1 DEF Inv, Shape
  <2>5. CASE UNCHANGED <<pc, ret>> /\ sockets' = [sockets EXCEPT ![launch] = @ + n]
    <3>1. Active' /\ Len(streams') = n
      BY <1>0, <2>1, <2>4, <2>5 DEF Active, StreamsInv, ClientHas
    <3>2. sockets'[launch] = 1 + n /\ 1 + n \in 0 .. MAX_STREAMS + 1
      BY <2>2, <2>3, <2>5 DEF MAX_STREAMS
    <3>3. sockets' \in [Launches -> 0 .. MAX_STREAMS + 1] /\ \A m \in Launches : m # launch => sockets'[m] = sockets[m]
      BY <2>2, <2>3, <2>5, <3>2
    <3>. QED BY <1>0, <2>2, <2>5, <3>1, <3>2, <3>3 DEF SocketsInv, Launches, Active
  <2>6. CASE \E k \in 0 .. n - 1 : sockets' = [sockets EXCEPT ![launch] = @ + k + 1]
               /\ pc' = "idle" /\ ret' = "fail"
    <3>1. PICK k \in 0 .. n - 1 : sockets' = [sockets EXCEPT ![launch] = @ + k + 1]
      BY <2>6
    <3>2. sockets'[launch] = 1 + k + 1 /\ 1 + k + 1 \in 0 .. MAX_STREAMS + 1
      BY <2>2, <2>3, <3>1 DEF MAX_STREAMS
    <3>3. sockets' \in [Launches -> 0 .. MAX_STREAMS + 1] /\ \A m \in Launches : m # launch => sockets'[m] = sockets[m]
      BY <2>2, <2>3, <3>1, <3>2
    <3>. QED BY <2>2, <2>6, <3>3 DEF SocketsInv, Active, Launches
  <2>. QED BY <1>2, <2>5, <2>6 DEF OnCreateStreams, Fail
<1>3. CASE OnCreateUdpStreams
  <2>1. /\ Handle(CREATE_STREAMS) /\ sockets' = [sockets EXCEPT ![launch] = @ + 1]
        /\ pc' = "udp" /\ UNCHANGED <<ret, streams>>
    BY <1>3 DEF OnCreateUdpStreams
  <2>2. test.state = PARAM_EXCHANGE /\ launch \in Launches /\ launch' = launch
    BY <2>1, Handled, OnByte DEF Inv
  <2>3. /\ sockets[launch] = 1 /\ sockets \in [Launches -> 0 .. MAX_STREAMS + 1] /\ ret # "ok"
    BY <1>0, <2>2 DEF StreamsInv, ClientHas, SocketsInv
  <2>4. 2 \in 0 .. MAX_STREAMS + 1
    BY DEF MAX_STREAMS
  <2>5. sockets' \in [Launches -> 0 .. MAX_STREAMS + 1] /\ \A m \in Launches : m # launch => sockets'[m] = sockets[m]
    BY <2>1, <2>2, <2>3, <2>4
  <2>. QED BY <2>1, <2>2, <2>3, <2>5 DEF SocketsInv, Active, Launches
<1>4. CASE OnDisplayResults
  <2>1. /\ Handle(DISPLAY_RESULTS) /\ sockets' = [sockets EXCEPT ![launch] = @ - Len(streams)]
        /\ pc' \in {"crashed", "idle"} /\ UNCHANGED streams
    BY <1>4 DEF OnDisplayResults, CloseStreams
  <2>2. test.state = EXCHANGE_RESULTS /\ launch \in Launches /\ launch' = launch
    BY <2>1, Handled, OnByte DEF Inv
  <2>3. streams # <<>> /\ Len(streams) \in Nat
    BY <1>0, <2>2 DEF StreamsInv, ClientHas, Begun
  <2>4. sockets[launch] = 1 + Len(streams) /\ sockets \in [Launches -> 0 .. MAX_STREAMS + 1]
    BY <1>0 DEF SocketsInv
  <2>5. sockets'[launch] = 1 /\ 1 \in 0 .. MAX_STREAMS + 1
    BY <2>1, <2>2, <2>3, <2>4 DEF MAX_STREAMS
  <2>6. sockets' \in [Launches -> 0 .. MAX_STREAMS + 1] /\ \A m \in Launches : m # launch => sockets'[m] = sockets[m]
    BY <2>1, <2>2, <2>4, <2>5
  <2>. QED BY <2>1, <2>2, <2>3, <2>5, <2>6 DEF SocketsInv, Active, Launches
<1>. QED BY <1>1, <1>2, <1>3, <1>4 DEF OnMessage

LEMMA LaunchSockets == Inv /\ SocketsInv /\ Launch => SocketsInv'
<1>. SUFFICES ASSUME Inv, SocketsInv, Launch PROVE SocketsInv'
  OBVIOUS
<1>1. launch' = launch + 1 /\ launch' \in Launches /\ streams' = <<>>
  <2>1. launch' = launch + 1 /\ launch < MaxLaunches /\ streams' = <<>>
    <3>1. CASE LaunchReturns
      BY <3>1 DEF LaunchReturns
    <3>2. CASE LaunchConnects
      BY <3>2 DEF LaunchConnects
    <3>. QED BY <3>1, <3>2 DEF Launch
  <2>. QED BY <2>1, BoundsAssumption DEF Inv, Shape, Launches
<1>2. sockets \in [Launches -> 0 .. MAX_STREAMS + 1] /\ 1 \in 0 .. MAX_STREAMS + 1 /\ sockets[launch'] = 0
      /\ launch \in Nat
  BY <1>1 DEF SocketsInv, MAX_STREAMS, Inv, Shape
<1>3. Len(<<>>) = 0
  OBVIOUS
<1>4. CASE LaunchReturns
  <2>1. sockets' = sockets /\ pc' = "idle"
    BY <1>4 DEF LaunchReturns
  <2>2. \A n \in Launches : n > launch' => sockets'[n] = 0
    BY <1>1, <1>2, <2>1 DEF SocketsInv, Launches
  <2>. QED BY <1>1, <1>2, <2>1, <2>2 DEF SocketsInv, Active, Launches
<1>5. CASE LaunchConnects
  <2>1. sockets' = [sockets EXCEPT ![launch'] = 1]
        /\ ((pc' = "select" /\ ret' = "none") \/ (pc' = "idle" /\ ret' = "fail"))
    BY <1>5 DEF LaunchConnects, netdial, Fail
  <2>2. sockets' \in [Launches -> 0 .. MAX_STREAMS + 1] /\ sockets'[launch'] = 1
        /\ \A n \in Launches : n # launch' => sockets'[n] = sockets[n]
    <3>. DEFINE k == launch'
    <3>1. k \in Launches /\ sockets' = [sockets EXCEPT ![k] = 1]
      BY <1>1, <2>1
    <3>. HIDE DEF k
    <3>2. sockets' \in [Launches -> 0 .. MAX_STREAMS + 1] /\ sockets'[k] = 1
          /\ \A n \in Launches : n # k => sockets'[n] = sockets[n]
      BY <1>2, <3>1
    <3>. QED BY <3>2 DEF k
  <2>3. \A n \in Launches : n > launch' => sockets'[n] = 0
    BY <1>1, <1>2, <2>2 DEF SocketsInv, Launches
  <2>. QED BY <1>1, <1>3, <2>1, <2>2, <2>3 DEF SocketsInv, Active
<1>. QED BY <1>4, <1>5 DEF Launch

LEMMA NextSockets ==
  Inv /\ OptionsInv /\ StreamsInv /\ StreamsInv' /\ SocketsInv /\ [Next]_vars => SocketsInv'
<1>. SUFFICES ASSUME Inv, OptionsInv, StreamsInv, StreamsInv', SocketsInv, [Next]_vars
              PROVE  SocketsInv'
  OBVIOUS
<1>1. ASSUME UNCHANGED <<pc, launch, ret, streams, sockets>> PROVE SocketsInv'
  BY <1>1 DEF SocketsInv, Active
<1>2. CASE UNCHANGED vars
  BY <1>1, <1>2 DEF vars, clientVars
<1>3. CASE UdpRefused
  BY <1>3, SocketsKept DEF UdpRefused, Fail, Active
<1>4. CASE ServerStep
  BY <1>1, <1>4 DEF ServerStep, ServerAccepts, ServerParams, ServerAcceptsStream, ServerTestEnd,
                    ServerResults, ServerDone, ServerMoves, OthersTestEnds, clientVars
<1>5. CASE Environment
  BY <1>1, <1>5 DEF Environment, ServerTerminates, ConnectionLost, ServerHangs, OthersTest, clientVars
<1>6. CASE ReadResults \/ ReadGarbage
  <2>1. /\ UNCHANGED <<launch, sockets, test>> /\ Active /\ pc = "results"
        /\ pc' \in {"select", "idle", "crashed"} /\ ret' \in {ret, "fail"}
    BY <1>6 DEF ReadResults, ReadGarbage, Fail, Active
  <2>2. test.state = EXCHANGE_RESULTS
    BY <2>1 DEF Inv, ClientInv, Pending, LastWords
  <2>3. Active' => Len(streams') = Len(streams)
    BY <2>1, <2>2, SameNumber
  <2>. QED BY <2>1, <2>3, SocketsKept
<1>7. CASE RunBody
  <2>1. /\ UNCHANGED <<launch, sockets>> /\ Active /\ test.state = TEST_RUNNING
        /\ test'.options = test.options /\ pc' # "udp" /\ ret' \in {ret, "fail"}
        /\ Active' => test'.state \in {TEST_RUNNING, TEST_END}
    BY <1>7, Turn DEF Active
  <2>2. Active' => Len(streams') = Len(streams)
    BY <2>1, SameNumber
  <2>. QED BY <2>1, <2>2, SocketsKept
<1>. QED BY <1>2, <1>3, <1>4, <1>5, <1>6, <1>7, MessageSockets, LaunchSockets DEF Next, ClientStep

LEMMA Invariants == Spec => [](Inv /\ OptionsInv /\ StreamsInv /\ SocketsInv)
<1>1. Init => Inv /\ OptionsInv /\ StreamsInv /\ SocketsInv
  <2>1. ASSUME Init PROVE SocketsInv
    BY <2>1 DEF Init, SocketsInv, Active, MAX_STREAMS
  <2>. QED BY <2>1, InitInv, InitOptions, InitStreams
<1>2. Inv /\ OptionsInv /\ StreamsInv /\ SocketsInv /\ [Next]_vars
        => Inv' /\ OptionsInv' /\ StreamsInv' /\ SocketsInv'
  BY NextInv, NextOptions, NextStreams, NextSockets
<1>. QED BY <1>1, <1>2, PTL DEF Spec

\* A test that succeeded leaves open the socket of its control connection and
\* no other, however many streams it had.
THEOREM OneSocketLeft == Spec => []StreamsClosed
<1>1. SocketsInv => StreamsClosed
  BY DEF SocketsInv, StreamsClosed
<1>. QED BY <1>1, Invariants, PTL

-----------------------------------------------------------------------------
(* The intervals that the reports read *)

Finished == {TEST_END, EXCHANGE_RESULTS, IPERF_DONE}
Counted == \A i \in 1 .. Len(streams) : streams[i].interval_results # <<>>

\* IntervalsInv: a report before the end follows an interval or a timer of -i.
IntervalsInv ==
  /\ test.stats_timer => test.options.interval # 0
  /\ pc = "crashed" /\ test.state = TEST_RUNNING => test.options.interval # 0
  /\ test.state \in Finished => Counted

LEMMA IntervalsKept ==
  ASSUME IntervalsInv, test'.options = test.options,
         test'.stats_timer => test.options.interval # 0,
         pc' = "crashed" /\ test'.state = TEST_RUNNING => test.options.interval # 0,
         test'.state \in Finished =>
           test.state \in Finished /\ Len(streams') = Len(streams)
             /\ \A i \in 1 .. Len(streams) : streams'[i].interval_results = streams[i].interval_results
  PROVE  IntervalsInv'
BY DEF IntervalsInv, Counted

LEMMA MessageIntervals == Inv /\ IntervalsInv /\ OnMessage => IntervalsInv'
<1>. SUFFICES ASSUME Inv, IntervalsInv, OnMessage PROVE IntervalsInv'
  OBVIOUS
<1>0. DOMAIN test = {"options", "state", "bytes_sent", "timer", "stats_timer"}
  BY DEF Inv, Shape
<1>1. ASSUME NEW state, test' = [test EXCEPT !.state = state], pc' # "crashed" \/ state # TEST_RUNNING,
             state \in Finished => test.state \in Finished /\ streams' = streams
      PROVE  IntervalsInv'
  <2>1. test'.options = test.options /\ test'.stats_timer = test.stats_timer /\ test'.state = state
    BY <1>0, <1>1
  <2>. QED BY <1>1, <2>1, IntervalsKept DEF IntervalsInv
<1>2. CASE OnParamExchange
  <2>1. test' = [test EXCEPT !.state = PARAM_EXCHANGE]
    BY <1>2 DEF OnParamExchange, SetState
  <2>. QED BY <1>1, <2>1 DEF Finished
<1>3. CASE OnCreateStreams \/ OnCreateUdpStreams
  <2>1. test' = [test EXCEPT !.state = CREATE_STREAMS]
    BY <1>3 DEF OnCreateStreams, OnCreateUdpStreams, SetState
  <2>. QED BY <1>1, <2>1 DEF Finished
<1>4. CASE OnTestStart
  <2>1. /\ test'.options = test.options /\ test'.state = TEST_START
        /\ test'.stats_timer => test.options.interval # 0
    BY <1>0, <1>4 DEF OnTestStart
  <2>. QED BY <2>1, IntervalsKept DEF Finished
<1>5. CASE OnTestRunning
  <2>1. test' = [test EXCEPT !.state = TEST_RUNNING] /\ pc' = "body"
    BY <1>5 DEF OnTestRunning, SetState
  <2>. QED BY <1>1, <2>1 DEF Finished
<1>6. CASE OnExchangeResults
  <2>1. /\ Handle(EXCHANGE_RESULTS) /\ test' = [test EXCEPT !.state = EXCHANGE_RESULTS]
        /\ streams' = streams
    BY <1>6 DEF OnExchangeResults, SetState
  <2>2. test.state = TEST_END
    BY <2>1, Handled, OnByte DEF Inv
  <2>. QED BY <1>1, <2>1, <2>2 DEF Finished
<1>7. CASE OnDisplayResults
  <2>1. /\ Handle(DISPLAY_RESULTS) /\ test' = [test EXCEPT !.state = IPERF_DONE]
        /\ streams' = streams
    BY <1>7 DEF OnDisplayResults, SetState
  <2>2. test.state = EXCHANGE_RESULTS
    BY <2>1, Handled, OnByte DEF Inv
  <2>. QED BY <1>1, <2>1, <2>2 DEF Finished
<1>8. CASE OnRefusal
  <2>1. /\ Handle(Incoming) /\ test' = [test EXCEPT !.state = Incoming] /\ pc' = "idle"
        /\ Waiting /\ Incoming = Head(down[launch]).v /\ down[launch] # <<>>
        /\ Incoming \notin {PARAM_EXCHANGE, CREATE_STREAMS, TEST_START, TEST_RUNNING,
                            EXCHANGE_RESULTS, DISPLAY_RESULTS, IPERF_DONE}
    BY <1>8 DEF OnRefusal, SetState, Fail, Waiting, Incoming
  <2>2. Incoming # TEST_END
    <3>1. /\ Byte(PARAM_EXCHANGE).v = 9 /\ Byte(CREATE_STREAMS).v = 10 /\ End.v = 11
          /\ Byte(ACCESS_DENIED).v = 255 /\ Byte(SERVER_ERROR).v = 254 /\ Byte(TEST_RUNNING).v = 2
          /\ Byte(EXCHANGE_RESULTS).v = 13 /\ Byte(DISPLAY_RESULTS).v = 14 /\ Byte(TEST_START).v = 1
      BY Messages DEF End
    <3>2. Active /\ Head(down[launch]) # Answer
      BY <2>1, Messages DEF Waiting, Active, Answer
    <3>. QED BY <2>1, <3>1, <3>2, Reading DEF Inv
  <2>. QED BY <1>1, <2>1, <2>2 DEF Finished
<1>9. CASE OnClosed
  <2>1. UNCHANGED <<test, streams>> /\ pc' = "idle"
    BY <1>9 DEF OnClosed, Fail
  <2>. QED BY <2>1, IntervalsKept DEF IntervalsInv
<1>. QED BY <1>2, <1>3, <1>4, <1>5, <1>6, <1>7, <1>8, <1>9 DEF OnMessage

LEMMA NextIntervals ==
  Inv /\ OptionsInv /\ StreamsInv /\ IntervalsInv /\ [Next]_vars => IntervalsInv'
<1>. SUFFICES ASSUME Inv, OptionsInv, StreamsInv, IntervalsInv, [Next]_vars PROVE IntervalsInv'
  OBVIOUS
<1>1. ASSUME UNCHANGED <<test, streams>>, pc' = pc \/ pc' # "crashed" PROVE IntervalsInv'
  BY <1>1, IntervalsKept DEF IntervalsInv
<1>2. CASE UNCHANGED vars
  BY <1>1, <1>2 DEF vars, clientVars
<1>3. CASE UdpRefused
  BY <1>1, <1>3 DEF UdpRefused, Fail
<1>4. CASE ServerStep
  BY <1>1, <1>4 DEF ServerStep, ServerAccepts, ServerParams, ServerAcceptsStream, ServerTestEnd,
                    ServerResults, ServerDone, ServerMoves, OthersTestEnds, clientVars
<1>5. CASE Environment
  BY <1>1, <1>5 DEF Environment, ServerTerminates, ConnectionLost, ServerHangs, OthersTest, clientVars
<1>6. CASE ReadResults \/ ReadGarbage
  <2>1. /\ test' = test /\ test.state = EXCHANGE_RESULTS /\ Len(streams') = Len(streams)
        /\ \A i \in 1 .. Len(streams) : Kept(test.options, streams[i], streams'[i])
    BY <1>6, ReadStreams
  <2>2. \A i \in 1 .. Len(streams) : streams'[i].interval_results = streams[i].interval_results
    BY <2>1 DEF Kept
  <2>. QED BY <2>1, <2>2, IntervalsKept DEF IntervalsInv, Finished
<1>7. CASE RunBody
  <2>1. /\ test'.options = test.options /\ test'.stats_timer = test.stats_timer
        /\ test.state = TEST_RUNNING /\ test'.state \in {TEST_RUNNING, TEST_END}
    <3>1. /\ test'.options = test.options /\ test'.stats_timer = test.stats_timer
          /\ test.state = TEST_RUNNING
          /\ test' = test \/ test'.state \in {TEST_RUNNING, TEST_END}
      BY <1>7, Turn
    <3>. QED BY <3>1
  <2>2. /\ Len(streams') = Len(streams) /\ \A i \in 1 .. Len(streams) : Turned(i)
        /\ pc' = "crashed" => test.stats_timer
    BY <1>7, TurnStreams DEF OptionsInv, Within, StreamsInv, ClientHas
  <2>3. test'.state = TEST_END => Counted'
    BY <2>2 DEF Turned, Counted
  <2>. QED BY <2>1, <2>2, <2>3 DEF IntervalsInv, Finished
<1>8. CASE Launch
  <2>1. PICK r \in Parsed : test' = NewTest(r.test) /\ pc' # "crashed"
    <3>1. CASE LaunchReturns
      BY <3>1 DEF LaunchReturns
    <3>2. CASE LaunchConnects
      BY <3>2 DEF LaunchConnects, Fail
    <3>. QED BY <1>8, <3>1, <3>2 DEF Launch
  <2>2. ~test'.stats_timer /\ test'.state = 0
    BY <2>1 DEF NewTest
  <2>. QED BY <2>1, <2>2 DEF IntervalsInv, Finished
<1>. QED BY <1>2, <1>3, <1>4, <1>5, <1>6, <1>7, <1>8, MessageIntervals DEF Next, ClientStep

\* The final report never follows a null pointer, and an earlier report does so
\* only in a test that asked for intervals.
THEOREM NoReportWithoutInterval == Spec => []ReportsHaveIntervals
<1>1. Init => IntervalsInv
  BY DEF Init, IntervalsInv, Finished, NewTest
<1>2. Inv /\ OptionsInv /\ StreamsInv /\ IntervalsInv /\ [Next]_vars => IntervalsInv'
  BY NextIntervals
<1>3. StreamsInv /\ IntervalsInv => ReportsHaveIntervals
  BY DEF StreamsInv, ClientHas, IntervalsInv, ReportsHaveIntervals, ReportFollowsNull, Finished, Counted
<1>. QED BY <1>1, <1>2, <1>3, Invariants, PTL DEF Spec

-----------------------------------------------------------------------------
(* The bytes that client and server count *)

\* What an end of the test counts itself: the sender what it sent.
Own(o, sp) == IF Sends(o) THEN sp.bytes_sent ELSE sp.bytes_received

\* A number of whole blocks.
Whole(n, size) == \E k \in Nat : n = k * size

\* Counts of a stream of the client, and its times.
Clean(sp) ==
  /\ sp.bytes_sent \in Nat /\ sp.bytes_received \in Nat
  /\ sp.start_time = 0 /\ sp.end_time = 0

ClientBytes ==
  /\ \A i \in 1 .. Len(streams) : Clean(streams[i])
  /\ Active /\ test.state \in {CREATE_STREAMS, TEST_START, TEST_RUNNING, TEST_END} =>
       \A i \in 1 .. Len(streams) : Whole(Own(test.options, streams[i]), test.options.blksize)
  /\ Active /\ test.state = CREATE_STREAMS =>
       \A i \in 1 .. Len(streams) : Own(test.options, streams[i]) = 0

\* No stream has received more than the other end has sent.
Meets(i) ==
  LET c == Own(test.options, streams[i])
      s == Own(server.options, server.streams[i])
  IN IF Sends(test.options) THEN s <= c ELSE c <= s

ServerBytes ==
  server.session \in Launches /\ server.phase \in {"streams", "running", "results"} =>
    /\ \A i \in 1 .. Len(server.streams) :
         Whole(Own(server.options, server.streams[i]), server.options.blksize)
    /\ server.session = launch /\ Active =>
         \A i \in 1 .. Len(server.streams) : i <= Len(streams) => Meets(i)

\* The lines of the server, before the client has read them and afterwards.
Fits ==
  /\ Len(answered) = Len(streams) /\ Numbered(answered)
  /\ \A i \in 1 .. Len(streams) :
       /\ answered[i].bytes \in Nat
       /\ IF Sends(test.options) THEN answered[i].bytes <= streams[i].bytes_sent
          ELSE streams[i].bytes_received <= answered[i].bytes
Taken ==
  /\ Len(answered) = Len(streams)
  /\ \A i \in 1 .. Len(streams) :
       /\ streams[i].bytes_received <= streams[i].bytes_sent
       /\ answered[i].bytes = IF Sends(test.options) THEN streams[i].bytes_received
                              ELSE streams[i].bytes_sent
Finds(m) == down[launch] # <<>> /\ Head(down[launch]) = m
LinesFit ==
  /\ pc = "results" /\ Finds(Answer) => Fits
  /\ pc = "select" /\ test.state = EXCHANGE_RESULTS /\ Finds(Byte(DISPLAY_RESULTS)) => Taken

\* What the getters of main.c tell after a test that succeeded.
Report(g) ==
  /\ g.total_recv <= g.total_sent
  /\ Total(answered, "bytes") = IF Sends(test.options) THEN g.total_recv ELSE g.total_sent
Reported == ret = "ok" /\ streams # <<>> => Report(gTest)

BytesInv == ClientBytes /\ ServerBytes /\ LinesFit /\ Reported

LEMMA WholeIs ==
  ASSUME NEW n, NEW b \in Nat, Whole(n, b)
  PROVE  n \in Nat /\ n + b \in Nat /\ Whole(n + b, b)
<1>1. PICK k \in Nat : n = k * b
  BY DEF Whole
<1>2. n \in Nat /\ n + b = (k + 1) * b /\ k + 1 \in Nat
  BY <1>1
<1>. QED BY <1>2 DEF Whole

LEMMA WholeBelow ==
  ASSUME NEW m, NEW n, NEW b \in Nat, Whole(m, b), Whole(n, b), m < n
  PROVE  m + b <= n
<1>1. PICK k \in Nat : m = k * b
  BY DEF Whole
<1>2. PICK l \in Nat : n = l * b
  BY DEF Whole
<1>3. k < l
  <2>1. SUFFICES ASSUME l <= k PROVE FALSE
    OBVIOUS
  <2>2. PICK d \in Nat : k = l + d
    BY <2>1
  <2>3. k * b = l * b + d * b /\ d * b >= 0 /\ l * b \in Nat
    BY <2>2
  <2>. QED BY <1>1, <1>2, <2>3
<1>4. PICK d \in Nat : l = k + 1 + d
  BY <1>3
<1>5. l * b = k * b + b + d * b /\ d * b >= 0 /\ k * b \in Nat /\ d * b \in Nat
  BY <1>4
<1>. QED BY <1>1, <1>2, <1>5

\* Client and server send in opposite directions.
LEMMA Opposite ==
  ASSUME NEW s, NEW t, s.role = "s", t.role = "c", Knows(s, t)
  PROVE  /\ Sends(s) = ~Sends(t) /\ Sends(t) \in BOOLEAN /\ Sends(s) \in BOOLEAN
         /\ t.blksize # 0 => s.blksize = t.blksize
<1>1. s.reverse = t.reverse
  BY DEF Knows
<1>2. t.blksize # 0 => s.blksize = t.blksize
  BY DEF Knows
<1>. QED BY <1>1, <1>2 DEF Sends

\* A block may go to a receiver that has less than the sender.
LEMMA RoomForBlock ==
  ASSUME NEW b \in Nat, NEW n \in Nat, b = n \/ b = 0 \/ n = 0,
         NEW x, NEW y, Whole(x, b), Whole(y, n), x < y
  PROVE  x + b <= y
<1>1. CASE b = n
  BY <1>1, WholeBelow
<1>2. CASE b = 0
  BY <1>2, WholeIs
<1>3. CASE n = 0
  <2>1. y = 0
    BY <1>3 DEF Whole
  <2>. QED BY <2>1, WholeIs
<1>. QED BY <1>1, <1>2, <1>3

LEMMA ParsedMatching ==
  ASSUME NEW o, NEW list \in Seq(Stream), NEW lines \in Seq(Line), Len(lines) = Len(list),
         Numbered(list), Numbered(lines), NEW new, new = parse_results(o, list, lines).streams
  PROVE  \A i \in 1 .. Len(list) : new[i] = Merged(o, list[i], lines[i])
BY ParseMatching

LEMMA CleanKept ==
  ASSUME ClientBytes, streams' = streams, test'.options = test.options,
         Active' /\ test'.state \in {CREATE_STREAMS, TEST_START, TEST_RUNNING, TEST_END} =>
           Active /\ test.state \in {CREATE_STREAMS, TEST_START, TEST_RUNNING, TEST_END},
         Active' /\ test'.state = CREATE_STREAMS => Active /\ test.state = CREATE_STREAMS
  PROVE  ClientBytes'
BY DEF ClientBytes, Clean, Whole, Own

\* The client's own counts, in every case of iperf_handle_message_client.
LEMMA MessageBytes ==
  ASSUME Inv, OptionsInv, StreamsInv, ClientBytes, OnMessage
  PROVE  /\ ClientBytes'
         /\ OnCreateStreams => \A i \in 1 .. Len(streams') : Blank(streams'[i])
<1>0. DOMAIN test = {"options", "state", "bytes_sent", "timer", "stats_timer"}
  BY DEF Inv, Shape
<1>1. CASE OnCreateStreams
  <2>. DEFINE n == test.options.num_streams
  <2>1. test' = [test EXCEPT !.state = CREATE_STREAMS] /\ Handle(CREATE_STREAMS)
    BY <1>1 DEF OnCreateStreams, SetState
  <2>2. test.state = PARAM_EXCHANGE /\ Active
    BY <2>1, Handled, OnByte DEF Inv
  <2>3. streams = <<>>
    BY <2>2 DEF StreamsInv, ClientHas
  <2>4. PICK k \in 0 .. n : Opened(k)
    <3>1. n \in Nat
      BY DEF Inv, Shape
    <3>. QED BY <1>1, <3>1 DEF OnCreateStreams
  <2>5. \A i \in 1 .. Len(streams') : Blank(streams'[i])
    <3>1. streams' = OpenedOver(<<>>, [s \in 1 .. k |-> s])
      BY <2>3, <2>4 DEF Opened, OpenedOver
    <3>2. k \in Nat
      OBVIOUS
    <3>3. Len(streams') = k /\ \A i \in 1 .. k : Blank(streams'[i])
      BY <3>1, <3>2, NewStreamsAre
    <3>. QED BY <3>3
  <2>6. test'.options = test.options /\ test'.state = CREATE_STREAMS /\ test.options.blksize \in Nat
    BY <1>0, <2>1 DEF OptionsInv, Within, Options
  <2>7. Whole(0, test.options.blksize)
    <3>1. 0 = 0 * test.options.blksize /\ 0 \in Nat
      BY <2>6
    <3>. QED BY <3>1 DEF Whole
  <2>8. \A i \in 1 .. Len(streams') : Clean(streams'[i]) /\ Own(test.options, streams'[i]) = 0
    BY <2>5 DEF Blank, Clean, Own
  <2>9. ClientBytes'
    BY <2>6, <2>7, <2>8 DEF ClientBytes
  <2>. QED BY <2>5, <2>9
<1>2. ASSUME ~OnCreateStreams PROVE ClientBytes'
  <2>1. ASSUME NEW state, NEW m, Handle(m), test' = [test EXCEPT !.state = state], streams' = streams,
               state \notin {CREATE_STREAMS, TEST_START, TEST_RUNNING, TEST_END} \/ ~Active'
                 \/ (m = TEST_RUNNING /\ state = TEST_RUNNING)
        PROVE  ClientBytes'
    <3>1. test'.options = test.options /\ test'.state = state
      BY <1>0, <2>1
    <3>2. m = TEST_RUNNING => test.state = TEST_START /\ Active
      BY <2>1, Handled, OnByte DEF Inv
    <3>. QED BY <2>1, <3>1, <3>2, CleanKept
  <2>2. CASE OnParamExchange
    BY <2>1, <2>2 DEF OnParamExchange, SetState
  <2>3. CASE OnCreateUdpStreams
    BY <2>1, <2>3 DEF OnCreateUdpStreams, SetState, Active
  <2>4. CASE OnTestStart
    <3>1. Handle(TEST_START) /\ test'.options = test.options /\ test'.state = TEST_START /\ streams' = streams
      BY <1>0, <2>4 DEF OnTestStart
    <3>2. Active /\ test.state = CREATE_STREAMS
      BY <3>1, Handled, OnByte DEF Inv
    <3>. QED BY <3>1, <3>2, CleanKept
  <2>5. CASE OnTestRunning
    BY <2>1, <2>5 DEF OnTestRunning, SetState
  <2>6. CASE OnExchangeResults
    BY <2>1, <2>6 DEF OnExchangeResults, SetState
  <2>7. CASE OnDisplayResults
    BY <2>1, <2>7 DEF OnDisplayResults, SetState
  <2>8. CASE OnRefusal
    BY <2>1, <2>8 DEF OnRefusal, SetState, Fail, Active
  <2>9. CASE OnClosed
    BY <2>9, CleanKept DEF OnClosed, Fail, Active
  <2>. QED BY <1>2, <2>2, <2>3, <2>4, <2>5, <2>6, <2>7, <2>8, <2>9 DEF OnMessage
<1>. QED BY <1>1, <1>2

LEMMA MergedClean ==
  ASSUME NEW o, NEW sp \in Stream, NEW line, Clean(sp), line.bytes \in Nat
  PROVE  /\ Clean(Merged(o, sp, line))
         /\ Merged(o, sp, line).bytes_received = IF Sends(o) THEN line.bytes ELSE sp.bytes_received
         /\ Merged(o, sp, line).bytes_sent = IF Sends(o) THEN sp.bytes_sent ELSE line.bytes
BY DEF Merged, Clean, Stream

LEMMA ReadingBytes ==
  ASSUME Inv, OptionsInv, StreamsInv, ClientBytes, LinesFit, ReadResults \/ ReadGarbage
  PROVE  ClientBytes' /\ LinesFit'
<1>1. /\ UNCHANGED <<launch, test, answered>> /\ Active /\ pc = "results"
      /\ test.state = EXCHANGE_RESULTS /\ launch \in Launches /\ DOMAIN down = Launches
  BY ReadStreams DEF Inv, Shape, Launches, Active
<1>2. /\ streams \in Seq(Stream) /\ Numbered(streams) /\ answered \in Seq(Line)
      /\ \A i \in 1 .. Len(streams) : Clean(streams[i])
  BY DEF StreamsInv, ClientHas, LinesAre, ClientBytes
<1>3. ASSUME NEW lines \in Seq(Line), Len(lines) = Len(streams), Numbered(lines),
             \A i \in 1 .. Len(streams) : lines[i].bytes \in Nat,
             streams' = parse_results(test.options, streams, lines).streams
      PROVE  /\ Len(streams') = Len(streams)
             /\ \A i \in 1 .. Len(streams) :
                  /\ Clean(streams'[i])
                  /\ streams'[i].bytes_received =
                       IF Sends(test.options) THEN lines[i].bytes ELSE streams[i].bytes_received
                  /\ streams'[i].bytes_sent =
                       IF Sends(test.options) THEN streams[i].bytes_sent ELSE lines[i].bytes
  <2>1. Len(streams') = Len(streams)
    BY <1>2, <1>3, ParsedStreams
  <2>2. \A i \in 1 .. Len(streams) : streams'[i] = Merged(test.options, streams[i], lines[i])
    BY <1>2, <1>3, ParsedMatching
  <2>3. ASSUME NEW i \in 1 .. Len(streams)
        PROVE  /\ Clean(streams'[i])
               /\ streams'[i].bytes_received =
                    IF Sends(test.options) THEN lines[i].bytes ELSE streams[i].bytes_received
               /\ streams'[i].bytes_sent =
                    IF Sends(test.options) THEN streams[i].bytes_sent ELSE lines[i].bytes
    <3>1. streams[i] \in Stream /\ Clean(streams[i]) /\ lines[i].bytes \in Nat
      BY <1>2, <1>3
    <3>. QED BY <2>2, <3>1, MergedClean
  <2>. QED BY <2>1, <2>3
<1>4. ASSUME Len(streams') = Len(streams), \A i \in 1 .. Len(streams) : Clean(streams'[i])
      PROVE  ClientBytes'
  BY <1>1, <1>4 DEF ClientBytes
<1>5. CASE ReadGarbage
  <2>. DEFINE lines == Results(test.options, streams)
  <2>1. streams' = streams \/ streams' = parse_results(test.options, streams, lines).streams
    BY <1>5 DEF ReadGarbage
  <2>2. lines \in Seq(Line) /\ Len(lines) = Len(streams) /\ Numbered(lines)
    BY <1>2, ResultsAre
  <2>3. \A i \in 1 .. Len(streams) : lines[i].bytes \in Nat
    BY <1>2, ResultsAre DEF Clean
  <2>. HIDE DEF lines
  <2>4. ClientBytes'
    BY <1>2, <1>3, <1>4, <2>1, <2>2, <2>3
  <2>5. down'[launch] = <<>>
    BY <1>1, <1>5 DEF ReadGarbage
  <2>. QED BY <1>1, <2>4, <2>5 DEF LinesFit, Finds
<1>6. CASE ReadResults
  <2>1. /\ Finds(Answer) /\ streams' = parse_results(test.options, streams, answered).streams
        /\ pc' # "results"
    <3>1. Head(down[launch]) = Answer /\ down[launch] # <<>>
          /\ streams' = parse_results(test.options, streams, answered).streams
      BY <1>6, ReadStreams
    <3>. QED BY <1>6, <3>1 DEF Finds, ReadResults, Fail
  <2>2. Fits
    BY <1>1, <2>1 DEF LinesFit
  <2>3. /\ Len(streams') = Len(streams)
        /\ \A i \in 1 .. Len(streams) :
             /\ Clean(streams'[i])
             /\ streams'[i].bytes_received =
                  IF Sends(test.options) THEN answered[i].bytes ELSE streams[i].bytes_received
             /\ streams'[i].bytes_sent =
                  IF Sends(test.options) THEN streams[i].bytes_sent ELSE answered[i].bytes
    <3>1. Len(answered) = Len(streams) /\ Numbered(answered)
          /\ \A i \in 1 .. Len(streams) : answered[i].bytes \in Nat
      BY <2>2 DEF Fits
    <3>. QED BY <1>2, <1>3, <2>1, <3>1
  <2>4. ClientBytes'
    BY <1>4, <2>3
  <2>5. Taken'
    <3>1. ASSUME NEW i \in 1 .. Len(streams)
          PROVE  /\ streams'[i].bytes_received <= streams'[i].bytes_sent
                 /\ answered[i].bytes = IF Sends(test.options) THEN streams'[i].bytes_received
                                        ELSE streams'[i].bytes_sent
      <4>1. IF Sends(test.options) THEN answered[i].bytes <= streams[i].bytes_sent
            ELSE streams[i].bytes_received <= answered[i].bytes
        BY <2>2 DEF Fits
      <4>. QED BY <2>3, <4>1
    <3>2. Len(answered) = Len(streams)
      BY <2>2 DEF Fits
    <3>. QED BY <1>1, <2>3, <3>1, <3>2 DEF Taken
  <2>. QED BY <2>1, <2>4, <2>5 DEF LinesFit
<1>. QED BY <1>5, <1>6

\* A turn of the loop: a stream has what it had, or one block more.
LEMMA TurnOwn ==
  ASSUME Inv, OptionsInv, StreamsInv, ClientBytes, RunBody, NEW i \in 1 .. Len(streams)
  PROVE  /\ Clean(streams'[i])
         /\ \/ Own(test.options, streams'[i]) = Own(test.options, streams[i])
            \/ /\ CanMove(i)
               /\ Own(test.options, streams'[i]) = Own(test.options, streams[i]) + test.options.blksize
<1>. DEFINE sp == streams[i]
            new == streams'[i]
            b == test.options.blksize
<1>1. test.options \in Options /\ streams \in Seq(Stream) /\ sp \in Stream /\ Clean(sp)
  BY DEF OptionsInv, Within, StreamsInv, ClientHas, ClientBytes
<1>2. b \in Nat
  BY <1>1 DEF Options
<1>3. Turned(i)
  BY <1>1, TurnStreams
<1>4. /\ new.start_time = 0 /\ new.end_time = 0
      /\ Totals(sp, new) \/ (CanMove(i) /\ Totals(Moved(sp), new))
  BY <1>1, <1>3 DEF Turned, Clean
<1>. HIDE DEF sp, new
<1>5. CASE Totals(sp, new)
  <2>1. Clean(new) /\ Own(test.options, new) = Own(test.options, sp)
    BY <1>1, <1>4, <1>5 DEF Totals, Clean, Own
  <2>. QED BY <2>1 DEF sp, new
<1>6. CASE CanMove(i) /\ Totals(Moved(sp), new)
  <2>1. /\ new.bytes_sent = IF Sends(test.options) THEN sp.bytes_sent + b ELSE sp.bytes_sent
        /\ new.bytes_received = IF Sends(test.options) THEN sp.bytes_received ELSE sp.bytes_received + b
    <3>1. CASE Sends(test.options)
      <4>1. Moved(sp) = Sent(sp, b)
        BY <3>1 DEF Moved
      <4>2. Sent(sp, b).bytes_sent = sp.bytes_sent + b /\ Sent(sp, b).bytes_received = sp.bytes_received
        <5>1. sp \in Stream /\ b \in Int
          BY <1>1, <1>2
        <5>. HIDE DEF b
        <5>. QED BY <5>1, SentIs
      <4>. QED BY <1>6, <3>1, <4>1, <4>2 DEF Totals
    <3>2. CASE ~Sends(test.options)
      <4>1. Moved(sp) = Received(sp, b)
        BY <3>2 DEF Moved
      <4>2. Received(sp, b).bytes_received = sp.bytes_received + b
            /\ Received(sp, b).bytes_sent = sp.bytes_sent
        <5>1. sp \in Stream /\ b \in Int
          BY <1>1, <1>2
        <5>. HIDE DEF b
        <5>. QED BY <5>1, ReceivedIs
      <4>. QED BY <1>6, <3>2, <4>1, <4>2 DEF Totals
    <3>. QED BY <3>1, <3>2
  <2>2. Clean(new)
    <3>1. sp.bytes_sent \in Nat /\ sp.bytes_received \in Nat
      BY <1>1 DEF Clean
    <3>2. sp.bytes_sent + b \in Nat /\ sp.bytes_received + b \in Nat
      BY <1>2, <3>1
    <3>3. new.bytes_sent \in Nat /\ new.bytes_received \in Nat
      BY <2>1, <3>1, <3>2
    <3>. QED BY <1>4, <3>3 DEF Clean
  <2>3. Own(test.options, new) = Own(test.options, sp) + b
    BY <2>1 DEF Own
  <2>. QED BY <1>6, <2>2, <2>3 DEF sp, new
<1>. QED BY <1>4, <1>5, <1>6

LEMMA TurnBytes ==
  ASSUME Inv, OptionsInv, StreamsInv, ClientBytes, ServerBytes, RunBody
  PROVE  ClientBytes' /\ ServerBytes' /\ LinesFit'
<1>. DEFINE b == test.options.blksize
            o == test.options
            s == server.session
<1>1. /\ test.state = TEST_RUNNING /\ Active /\ test'.options = test.options /\ launch \in Launches
      /\ UNCHANGED <<launch, server, answered>> /\ Len(streams') = Len(streams)
      /\ pc' # "results" /\ test'.state \in {TEST_RUNNING, TEST_END}
  <2>1. Len(streams') = Len(streams)
    BY TurnStreams DEF OptionsInv, Within, StreamsInv, ClientHas
  <2>. QED BY <2>1, Turn
<1>2. b \in Nat /\ server.options.blksize \in Nat /\ o.role = "c" /\ server.options.role = "s"
  BY <1>1 DEF OptionsInv, Within, Options
<1>3. \A i \in 1 .. Len(streams) : Clean(streams'[i])
  BY TurnOwn
<1>4. ASSUME NEW i \in 1 .. Len(streams)
      PROVE  /\ Own(o, streams[i]) \in Nat /\ Whole(Own(o, streams[i]), b)
             /\ Own(o, streams'[i]) \in Nat /\ Whole(Own(o, streams'[i]), b)
  <2>1. Whole(Own(o, streams[i]), b)
    BY <1>1 DEF ClientBytes
  <2>2. /\ Own(o, streams[i]) \in Nat /\ Own(o, streams[i]) + b \in Nat
        /\ Whole(Own(o, streams[i]) + b, b)
    BY <1>2, <2>1, WholeIs
  <2>3. \/ Own(o, streams'[i]) = Own(o, streams[i])
        \/ Own(o, streams'[i]) = Own(o, streams[i]) + b
    BY TurnOwn
  <2>. HIDE DEF b, o
  <2>. QED BY <2>1, <2>2, <2>3
<1>5. ClientBytes'
  <2>1. \A i \in 1 .. Len(streams') : Clean(streams'[i])
    BY <1>1, <1>3
  <2>2. \A i \in 1 .. Len(streams') : Whole(Own(test'.options, streams'[i]), test'.options.blksize)
    BY <1>1, <1>4
  <2>. QED BY <1>1, <2>1, <2>2 DEF ClientBytes
<1>6. LinesFit'
  BY <1>1 DEF LinesFit
<1>7. ServerBytes'
  <2>1. SUFFICES ASSUME s \in Launches, server.phase \in {"streams", "running", "results"},
                        s = launch, NEW i \in 1 .. Len(server.streams), i <= Len(streams)
                 PROVE  Meets(i)'
    BY <1>1 DEF ServerBytes
  <2>2. i \in 1 .. Len(streams)
    <3>1. Len(streams) \in Nat /\ i \in Nat /\ i >= 1
      BY <1>1 DEF StreamsInv, ClientHas
    <3>. QED BY <2>1, <3>1
  <2>. DEFINE c == Own(o, streams[i])
              d == Own(o, streams'[i])
              y == Own(server.options, server.streams[i])
  <2>3. Whole(y, server.options.blksize) /\ Meets(i)
    BY <1>1, <2>1 DEF ServerBytes
  <2>4. y \in Nat
    BY <1>2, <2>3, WholeIs
  <2>5. c \in Nat /\ Whole(c, b) /\ d \in Nat
    BY <1>4, <2>2
  <2>6. Knows(server.options, o)
    BY <2>1 DEF OptionsInv, Phases
  <2>7. /\ Sends(server.options) = ~Sends(o) /\ (b # 0 => server.options.blksize = b)
    BY <1>2, <2>6, Opposite
  <2>8. d = c \/ (CanMove(i) /\ d = c + b)
    BY <2>2, TurnOwn
  <2>9. IF Sends(o) THEN y <= d ELSE d <= y
    <3>1. IF Sends(o) THEN y <= c ELSE c <= y
      BY <2>3 DEF Meets
    <3>2. ASSUME ~Sends(o), CanMove(i) PROVE c < y
      <4>1. Sends(server.options)
        BY <2>7, <3>2, Zenon
      <4>. QED BY <3>2, <4>1 DEF CanMove, Own
    <3>3. ASSUME ~Sends(o), CanMove(i) PROVE c + b <= y
      BY <1>2, <2>3, <2>5, <2>7, <3>2, <3>3, RoomForBlock
    <3>. HIDE DEF c, d, y, b, o
    <3>. QED BY <1>2, <2>4, <2>5, <2>8, <3>1, <3>3
  <2>. QED BY <1>1, <2>9 DEF Meets
<1>. QED BY <1>5, <1>6, <1>7

LEMMA LaunchBytes == Inv /\ OptionsInv /\ BytesInv /\ Launch => BytesInv'
<1>. SUFFICES ASSUME Inv, OptionsInv, BytesInv, Launch PROVE BytesInv'
  OBVIOUS
<1>1. /\ pc = "idle" /\ launch' = launch + 1 /\ streams' = <<>> /\ test'.state = 0
      /\ UNCHANGED <<server, answered>> /\ pc' # "results"
  <2>1. CASE LaunchReturns
    BY <2>1 DEF LaunchReturns, NewTest, serverVars
  <2>2. CASE LaunchConnects
    <3>1. PICK r \in Parsed : test' = NewTest(r.test) /\ pc' \in {"select", "idle"}
      BY <2>2 DEF LaunchConnects, Fail
    <3>. QED BY <2>2, <3>1 DEF LaunchConnects, NewTest, serverVars
  <2>. QED BY <2>1, <2>2 DEF Launch
<1>2. Len(<<>>) = 0 /\ server.session # launch'
  BY <1>1 DEF Inv, Shape, Other
<1>3. ClientBytes'
  BY <1>1, <1>2 DEF ClientBytes
<1>4. ServerBytes'
  BY <1>1, <1>2 DEF BytesInv, ServerBytes
<1>5. LinesFit'
  BY <1>1 DEF LinesFit
<1>6. Reported'
  BY <1>1 DEF Reported
<1>. QED BY <1>3, <1>4, <1>5, <1>6 DEF BytesInv

\* The sums over the streams, when every stream has taken over its line.
LEMMA TakenAddsUp ==
  ASSUME StreamsInv, ClientBytes, Taken, NEW g, g = iperf_print_results(streams)
  PROVE  Report(g)
<1>1. /\ streams \in Seq(Stream) /\ answered \in Seq(Line) /\ Len(answered) = Len(streams)
      /\ Len(streams) \in Nat
  BY DEF StreamsInv, ClientHas, LinesAre, Taken
<1>2. g.total_recv = Total(streams, "bytes_received") /\ g.total_sent = Total(streams, "bytes_sent")
  BY DEF iperf_print_results
<1>3. \A i \in 1 .. Len(streams) :
        /\ streams[i].bytes_received \in Int /\ streams[i].bytes_sent \in Int
        /\ streams[i].bytes_received <= streams[i].bytes_sent
  BY DEF ClientBytes, Clean, Taken
<1>4. Total(streams, "bytes_received") <= Total(streams, "bytes_sent")
  BY <1>1, <1>3, TotalBelow
<1>5. CASE Sends(test.options)
  <2>1. \A i \in 1 .. Len(answered) :
          answered[i].bytes \in Int /\ answered[i].bytes = streams[i].bytes_received
    BY <1>1, <1>3, <1>5 DEF Taken
  <2>2. Total(answered, "bytes") = Total(streams, "bytes_received")
    BY <1>1, <2>1, TotalSame
  <2>. QED BY <1>2, <1>4, <1>5, <2>2 DEF Report
<1>6. CASE ~Sends(test.options)
  <2>1. \A i \in 1 .. Len(answered) :
          answered[i].bytes \in Int /\ answered[i].bytes = streams[i].bytes_sent
    BY <1>1, <1>3, <1>6 DEF Taken
  <2>2. Total(answered, "bytes") = Total(streams, "bytes_sent")
    BY <1>1, <2>1, TotalSame
  <2>. QED BY <1>2, <1>4, <1>6, <2>2 DEF Report
<1>. QED BY <1>5, <1>6

\* A step of the client that does not touch its streams.
LEMMA MeetsKept ==
  ASSUME ServerBytes, UNCHANGED <<launch, server, streams>>, test'.options = test.options,
         Active' => Active
  PROVE  ServerBytes'
BY DEF ServerBytes, Meets, Own, Whole

LEMMA MessageAll ==
  Inv /\ OptionsInv /\ StreamsInv /\ SocketsInv /\ BytesInv /\ OnMessage => BytesInv'
<1>. SUFFICES ASSUME Inv, OptionsInv, StreamsInv, SocketsInv, BytesInv, OnMessage PROVE BytesInv'
  OBVIOUS
<1>0. DOMAIN test = {"options", "state", "bytes_sent", "timer", "stats_timer"}
  BY DEF Inv, Shape
<1>1. ClientBytes'
  BY MessageBytes DEF BytesInv
<1>2. ASSUME Active, UNCHANGED <<launch, server, streams>>, test'.options = test.options,
             pc' # "results", pc' # "select" \/ test'.state # EXCHANGE_RESULTS,
             ret' \in {ret, "fail"}
      PROVE  BytesInv'
  <2>1. ServerBytes'
    BY <1>2, MeetsKept DEF BytesInv
  <2>2. LinesFit'
    BY <1>2 DEF LinesFit
  <2>3. ret' # "ok"
    BY <1>2 DEF SocketsInv
  <2>. QED BY <1>1, <2>1, <2>2, <2>3 DEF BytesInv, Reported
<1>3. ASSUME NEW m, Handle(m)
      PROVE  Active /\ pc = "select" /\ UNCHANGED <<launch, server, answered>> /\ launch \in Launches
  BY <1>3, Handled
<1>4. CASE OnParamExchange
  <2>1. /\ Handle(PARAM_EXCHANGE) /\ test' = [test EXCEPT !.state = PARAM_EXCHANGE]
        /\ streams' = streams /\ pc' \in {pc, "idle"} /\ ret' \in {ret, "fail"}
    BY <1>4 DEF OnParamExchange, SetState, NwriteFails, Fail
  <2>. QED BY <1>0, <1>2, <1>3, <2>1
<1>5. CASE OnCreateStreams
  <2>1. /\ Handle(CREATE_STREAMS) /\ test' = [test EXCEPT !.state = CREATE_STREAMS]
        /\ pc' \in {pc, "idle"} /\ ret' \in {ret, "fail"}
    BY <1>5 DEF OnCreateStreams, SetState, Fail
  <2>2. /\ test.state = PARAM_EXCHANGE /\ Active /\ UNCHANGED <<launch, server>> /\ pc = "select"
        /\ server.session = launch /\ server.phase # "hung" => Joint
    BY <2>1, Handled, OnByte DEF Inv
  <2>3. server.session = launch /\ server.phase \in {"streams", "running", "results"}
          => server.streams = <<>>
    <3>1. server.session = launch /\ server.phase \in {"streams", "running", "results"} =>
            server.phase = "streams"
      BY <2>2 DEF Joint
    <3>. QED BY <2>2, <3>1 DEF StreamsInv, ServerHas, Serving
  <2>4. ServerBytes'
    <3>1. Len(<<>>) = 0
      OBVIOUS
    <3>. QED BY <2>2, <2>3, <3>1 DEF BytesInv, ServerBytes, Own, Whole
  <2>5. LinesFit' /\ ret' # "ok"
    BY <1>0, <2>1, <2>2 DEF LinesFit, SocketsInv
  <2>. QED BY <1>1, <2>4, <2>5 DEF BytesInv, Reported
<1>6. CASE OnCreateUdpStreams
  <2>1. /\ Handle(CREATE_STREAMS) /\ test' = [test EXCEPT !.state = CREATE_STREAMS]
        /\ UNCHANGED <<streams, ret>> /\ pc' = "udp"
    BY <1>6 DEF OnCreateUdpStreams, SetState
  <2>. QED BY <1>0, <1>2, <1>3, <2>1
<1>7. CASE OnTestStart
  <2>1. /\ Handle(TEST_START) /\ test'.options = test.options /\ test'.state = TEST_START
        /\ UNCHANGED <<streams, ret, pc>>
    BY <1>0, <1>7 DEF OnTestStart
  <2>. QED BY <1>2, <1>3, <2>1
<1>8. CASE OnTestRunning
  <2>1. /\ Handle(TEST_RUNNING) /\ test' = [test EXCEPT !.state = TEST_RUNNING]
        /\ UNCHANGED <<streams, ret>> /\ pc' = "body"
    BY <1>8 DEF OnTestRunning, SetState
  <2>. QED BY <1>0, <1>2, <1>3, <2>1
<1>9. CASE OnExchangeResults
  <2>1. /\ Handle(EXCHANGE_RESULTS) /\ test' = [test EXCEPT !.state = EXCHANGE_RESULTS]
        /\ streams' = streams /\ pc' \in {"results", "idle"} /\ ret' \in {ret, "fail"}
    BY <1>9 DEF OnExchangeResults, SetState, NwriteFails, Fail
  <2>2. /\ Active /\ UNCHANGED <<launch, server>> /\ down'[launch] = Tail(down[launch])
        /\ Left(<<>>) \/ Left(<<End>>)
    <3>1. Waiting /\ Incoming = EXCHANGE_RESULTS
      BY <2>1, Handled
    <3>2. Left(<<>>) \/ Left(<<End>>)
      BY <3>1, OnByte DEF Inv
    <3>. QED BY <2>1, <3>2, Handled
  <2>3. ServerBytes'
    BY <1>0, <2>1, <2>2, MeetsKept DEF BytesInv, Active
  <2>4. ~Finds(Answer)'
    <3>1. End # Answer' /\ Head(<<End>>) = End
      BY Messages DEF End, Answer
    <3>. QED BY <2>2, <3>1 DEF Finds, Left
  <2>5. LinesFit' /\ ret' # "ok"
    BY <2>1, <2>2, <2>4 DEF LinesFit, SocketsInv
  <2>. QED BY <1>1, <2>3, <2>5 DEF BytesInv, Reported
<1>10. CASE OnDisplayResults
  <2>1. /\ Handle(DISPLAY_RESULTS) /\ test' = [test EXCEPT !.state = IPERF_DONE]
        /\ streams' = streams /\ pc' \in {"crashed", "idle"}
        /\ ret' = ret \/ gTest' = iperf_print_results(streams)
    BY <1>10 DEF OnDisplayResults, SetState
  <2>2. /\ Active /\ pc = "select" /\ UNCHANGED <<launch, server, answered>>
        /\ Waiting /\ Incoming = DISPLAY_RESULTS /\ test'.options = test.options
    BY <1>0, <2>1, Handled
  <2>3. test.state = EXCHANGE_RESULTS
    BY <2>2, OnByte DEF Inv
  <2>4. Finds(Byte(DISPLAY_RESULTS))
    <3>1. down[launch] # <<>> /\ Head(down[launch]).v = 14
      BY <2>2 DEF Waiting, Incoming
    <3>2. Byte(PARAM_EXCHANGE).v = 9 /\ Byte(CREATE_STREAMS).v = 10 /\ End.v = 11
          /\ Byte(ACCESS_DENIED).v = 255 /\ Byte(SERVER_ERROR).v = 254 /\ Byte(TEST_RUNNING).v = 2
          /\ Byte(EXCHANGE_RESULTS).v = 13 /\ Byte(TEST_START).v = 1
      BY Messages DEF End
    <3>. QED BY <2>2, <3>1, <3>2, Reading DEF Inv, Finds
  <2>5. Taken
    BY <2>2, <2>3, <2>4 DEF BytesInv, LinesFit
  <2>6. Reported'
    <3>1. CASE ret' = ret
      BY <2>2, <3>1 DEF SocketsInv, Reported
    <3>2. CASE gTest' = iperf_print_results(streams)
      <4>1. Report(gTest')
        BY <2>5, <3>2, TakenAddsUp DEF BytesInv
      <4>2. test'.options = test.options /\ answered' = answered
        BY <2>2
      <4>. QED BY <4>1, <4>2 DEF Reported, Report
    <3>. QED BY <2>1, <3>1, <3>2
  <2>7. ServerBytes'
    BY <2>1, <2>2, MeetsKept DEF BytesInv
  <2>8. LinesFit'
    BY <2>1 DEF LinesFit
  <2>. QED BY <1>1, <2>6, <2>7, <2>8 DEF BytesInv
<1>11. CASE OnRefusal
  <2>1. /\ Handle(Incoming) /\ test' = [test EXCEPT !.state = Incoming]
        /\ streams' = streams /\ pc' = "idle" /\ ret' = "fail"
    BY <1>11 DEF OnRefusal, SetState, Fail
  <2>. QED BY <1>0, <1>2, <1>3, <2>1
<1>12. CASE OnClosed
  <2>1. /\ Active /\ UNCHANGED <<launch, server, streams, test>> /\ pc' = "idle" /\ ret' = "fail"
    BY <1>12 DEF OnClosed, Fail, Active, serverVars
  <2>. QED BY <1>2, <2>1
<1>. QED
  BY <1>4, <1>5, <1>6, <1>7, <1>8, <1>9, <1>10, <1>11, <1>12 DEF OnMessage

\* What the server says to a client that reads or has read its lines.
LEMMA ServerLines ==
  ASSUME Inv, LinesFit, UNCHANGED <<pc, launch, test, streams, answered>>,
         Active /\ test.state = EXCHANGE_RESULTS =>
           \/ down'[launch] = down[launch]
           \/ down[launch] # <<>> /\ Head(down'[launch]) = Head(down[launch])
           \/ down'[launch] = <<End>>
  PROVE  LinesFit'
<1>1. Answer' = Answer /\ Fits' = Fits /\ Taken' = Taken
  BY DEF Answer, Fits, Taken, Numbered
<1>2. End # Answer /\ End # Byte(DISPLAY_RESULTS) /\ Head(<<End>>) = End
  <2>1. End.v = 11 /\ Byte(DISPLAY_RESULTS).v = 14 /\ End.is = "byte"
    BY Messages DEF End
  <2>2. Answer.is = "results"
    BY Messages DEF Answer
  <2>. QED BY <2>1, <2>2
<1>3. pc = "results" => Active /\ test.state = EXCHANGE_RESULTS
  BY DEF Inv, ClientInv, Active, Pending, LastWords
<1>4. pc = "select" => Active
  BY DEF Active
<1>5. ASSUME NEW m \in {Answer, Byte(DISPLAY_RESULTS)}, Active, test.state = EXCHANGE_RESULTS, Finds(m)'
      PROVE  Finds(m)
  <2>1. down'[launch] # <<>> /\ Head(down'[launch]) = m
    BY <1>1, <1>5 DEF Finds
  <2>. QED BY <1>2, <1>5, <2>1 DEF Finds
<1>. QED BY <1>1, <1>3, <1>4, <1>5 DEF LinesFit

LEMMA ReportedKept ==
  ASSUME Reported, UNCHANGED <<ret, test, streams, gTest, answered>>
  PROVE  Reported'
BY DEF Reported, Report

\* A step of the server that keeps its streams, and those that wait for none.
LEMMA QuietBytes ==
  ASSUME Inv, BytesInv, UNCHANGED <<clientVars, answered>>,
         \/ server'.session \notin Launches \/ server'.phase \notin {"streams", "running", "results"}
         \/ server'.streams = <<>>
         \/ /\ server'.session = server.session /\ server'.streams = server.streams
            /\ server'.options = server.options
            /\ server.phase \in {"streams", "running", "results"},
         Active /\ test.state = EXCHANGE_RESULTS =>
           \/ down'[launch] = down[launch]
           \/ down[launch] # <<>> /\ Head(down'[launch]) = Head(down[launch])
           \/ down'[launch] = <<End>>
  PROVE  BytesInv'
<1>1. UNCHANGED <<pc, launch, ret, test, streams, gTest>> /\ (Active' <=> Active)
  BY DEF clientVars, Active
<1>2. ClientBytes'
  BY <1>1, CleanKept DEF BytesInv
<1>3. ServerBytes'
  <2>1. CASE server'.session \notin Launches \/ server'.phase \notin {"streams", "running", "results"}
    BY <2>1 DEF ServerBytes
  <2>2. CASE server'.streams = <<>>
    <3>1. Len(<<>>) = 0
      OBVIOUS
    <3>. QED BY <2>2, <3>1 DEF ServerBytes
  <2>3. CASE /\ server'.session = server.session /\ server'.streams = server.streams
             /\ server'.options = server.options
             /\ server.phase \in {"streams", "running", "results"}
    BY <1>1, <2>3 DEF BytesInv, ServerBytes, Meets, Own, Whole
  <2>. QED BY <2>1, <2>2, <2>3
<1>4. LinesFit' /\ Reported'
  BY <1>1, ServerLines, ReportedKept DEF BytesInv
<1>. QED BY <1>2, <1>3, <1>4 DEF BytesInv

LEMMA AcceptsBytes ==
  ASSUME NEW n \in Launches PROVE Inv /\ StreamsInv /\ BytesInv /\ ServerAccepts(n) => BytesInv'
<1>. SUFFICES ASSUME Inv, StreamsInv, BytesInv, ServerAccepts(n) PROVE BytesInv'
  OBVIOUS
<1>1. UNCHANGED <<clientVars, answered>> /\ n \in Unaccepted /\ server.phase # "hung"
  BY DEF ServerAccepts
<1>2. n = launch /\ Active
  BY <1>1 DEF Inv, ServerInv
<1>3. test.state = 0
  <2>1. CASE server.session = launch
    BY <1>1, <1>2, <2>1, ServedNotAtTheDoor DEF Inv
  <2>2. CASE server.session # launch
    BY <1>1, <1>2, <2>2 DEF Inv, ClientInv, Unaccepted, AtTheDoor
  <2>. QED BY <2>1, <2>2
<1>4. CASE server.session = 0
  <2>1. server'.phase = "params"
    BY <1>4 DEF ServerAccepts, Inv, Shape
  <2>. QED BY <1>1, <1>3, <2>1, QuietBytes
<1>5. CASE server.session # 0
  <2>1. server' = server
    BY <1>5 DEF ServerAccepts
  <2>. QED BY <1>1, <1>3, <2>1, QuietBytes
<1>. QED BY <1>4, <1>5

LEMMA ParamsBytes == Inv /\ OptionsInv /\ StreamsInv /\ BytesInv /\ ServerParams => BytesInv'
<1>. SUFFICES ASSUME Inv, OptionsInv, StreamsInv, BytesInv, ServerParams PROVE BytesInv'
  OBVIOUS
<1>. DEFINE s == server.session
            o == parse_parameters(server.options, Head(up[s]).v)
<1>1. s \in Launches /\ server.phase = "params" /\ up[s] # <<>> /\ UNCHANGED <<clientVars, answered>>
  BY DEF ServerParams, Serving, Received1
<1>2. s = launch /\ Active
  BY <1>1 DEF OptionsInv, Busy
<1>3. test.state # EXCHANGE_RESULTS
  <2>1. Joint
    BY <1>1, <1>2 DEF Inv, ClientInv
  <2>. QED BY <1>1, <2>1 DEF Joint
<1>. HIDE DEF o
<1>4. \/ server' = [server EXCEPT !.options = o, !.phase = "streams"]
      \/ server' = FreeServer(iperf_reset_test(o))
  BY DEF ServerParams, o
<1>5. server.streams = <<>>
  BY <1>1 DEF StreamsInv, ServerHas
<1>6. server'.streams = <<>>
  <2>1. DOMAIN server = {"session", "phase", "options", "streams"}
    BY DEF Inv, Shape
  <2>2. CASE server' = [server EXCEPT !.options = o, !.phase = "streams"]
    BY <1>5, <2>1, <2>2
  <2>3. CASE server' = FreeServer(iperf_reset_test(o))
    BY <2>3 DEF FreeServer
  <2>. QED BY <1>4, <2>2, <2>3
<1>. QED BY <1>1, <1>3, <1>6, QuietBytes

\* The block that a server receives, or sends.
LEMMA MovedBytes ==
  ASSUME NEW j PROVE Inv /\ OptionsInv /\ StreamsInv /\ BytesInv /\ ServerMoves(j) => BytesInv'
<1>. SUFFICES ASSUME Inv, OptionsInv, StreamsInv, BytesInv, ServerMoves(j) PROVE BytesInv'
  OBVIOUS
<1>. DEFINE o == server.options
            b == o.blksize
            sp == server.streams[j]
            old == Own(o, sp)
<1>1. /\ server.session \in Launches /\ server.phase = "running" /\ server.session = launch
      /\ j \in DOMAIN server.streams /\ server.streams \in Seq(Stream)
      /\ UNCHANGED <<clientVars, answered, down>> /\ DOMAIN server = {"session", "phase", "options", "streams"}
  BY DEF ServerMoves, Serving, StreamsInv, ServerHas, Inv, Shape
<1>2. UNCHANGED <<pc, launch, ret, test, streams, gTest>> /\ (Active' <=> Active)
  BY <1>1 DEF clientVars, Active
<1>3. b \in Nat /\ test.options.blksize \in Nat /\ o.role = "s" /\ (Active => test.options.role = "c")
  BY DEF OptionsInv, Within, Options
<1>4. /\ j \in 1 .. Len(server.streams) /\ sp \in Stream
      /\ \A i \in 1 .. Len(server.streams) : Whole(Own(o, server.streams[i]), b)
      /\ Active => \A i \in 1 .. Len(server.streams) : i <= Len(streams) => Meets(i)
  BY <1>1 DEF BytesInv, ServerBytes
<1>5. old \in Nat /\ old + b \in Nat /\ Whole(old + b, b)
  BY <1>3, <1>4, WholeIs
<1>6. PICK e : /\ server' = [server EXCEPT !.streams[j] = e] /\ e \in Stream /\ Own(o, e) = old + b
               /\ ~Sends(o) => j <= Len(streams) /\ old < streams[j].bytes_sent
  <2>1. b \in Int
    BY <1>3
  <2>2. CASE ~Sends(o)
    <3>. DEFINE e == Received(sp, b)
    <3>1. server' = [server EXCEPT !.streams[j] = e] /\ j <= Len(streams) /\ sp.bytes_received < streams[j].bytes_sent
      BY <2>2 DEF ServerMoves
    <3>2. e \in Stream /\ e.bytes_received = sp.bytes_received + b
      <4>. HIDE DEF b
      <4>. QED BY <1>4, <2>1, ReceivedIs
    <3>3. Own(o, e) = old + b /\ old = sp.bytes_received
      BY <2>2, <3>2 DEF Own
    <3>. QED BY <3>1, <3>2, <3>3
  <2>3. CASE Sends(o)
    <3>. DEFINE e == Sent(sp, b)
    <3>1. server' = [server EXCEPT !.streams[j] = e]
      BY <2>3 DEF ServerMoves
    <3>2. e \in Stream /\ e.bytes_sent = sp.bytes_sent + b
      <4>. HIDE DEF b
      <4>. QED BY <1>4, <2>1, SentIs
    <3>3. Own(o, e) = old + b
      BY <2>3, <3>2 DEF Own
    <3>. QED BY <2>3, <3>1, <3>2, <3>3
  <2>. QED BY <2>2, <2>3
<1>. DEFINE new == [server.streams EXCEPT ![j] = e]
<1>7. /\ server'.session = server.session /\ server'.phase = server.phase
      /\ server'.options = o /\ server'.streams = new
  BY <1>1, <1>6
<1>8. /\ Len(new) = Len(server.streams)
      /\ \A k \in 1 .. Len(server.streams) : new[k] = IF k = j THEN e ELSE server.streams[k]
  BY <1>1, <1>4, <1>6, UpdateSeq
<1>. HIDE DEF new
<1>9. \A i \in 1 .. Len(new) : Whole(Own(o, new[i]), b)
  BY <1>4, <1>5, <1>6, <1>8
<1>10. ASSUME Active, NEW i \in 1 .. Len(new), i <= Len(streams)
       PROVE  IF Sends(test.options) THEN Own(o, new[i]) <= Own(test.options, streams[i])
              ELSE Own(test.options, streams[i]) <= Own(o, new[i])
  <2>. DEFINE c == Own(test.options, streams[i])
  <2>1. /\ Sends(o) = ~Sends(test.options)
        /\ b = test.options.blksize \/ test.options.blksize = 0
    <3>1. Knows(o, test.options)
      BY <1>1 DEF OptionsInv, Phases
    <3>. QED BY <1>3, <1>10, <3>1, Opposite
  <2>2. Meets(i) /\ i \in 1 .. Len(server.streams)
    BY <1>4, <1>8, <1>10
  <2>3. IF Sends(test.options) THEN Own(o, server.streams[i]) <= c ELSE c <= Own(o, server.streams[i])
    BY <2>2 DEF Meets
  <2>4. CASE i # j
    BY <1>8, <2>2, <2>3, <2>4
  <2>5. CASE i = j
    <3>1. new[i] = e /\ Own(o, new[i]) = old + b
      BY <1>6, <1>8, <2>2, <2>5
    <3>2. i \in 1 .. Len(streams)
      <4>1. Len(streams) \in Nat /\ i \in Nat /\ i >= 1
        BY <1>10 DEF StreamsInv, ClientHas
      <4>. QED BY <1>10, <4>1
    <3>3. Whole(c, test.options.blksize) /\ c \in Nat
      <4>1. Joint
        BY <1>1, <1>10 DEF Inv, ClientInv
      <4>2. test.state \in {CREATE_STREAMS, TEST_START, TEST_RUNNING, TEST_END}
        BY <1>1, <4>1 DEF Joint
      <4>3. Whole(c, test.options.blksize)
        BY <1>10, <3>2, <4>2 DEF BytesInv, ClientBytes
      <4>. QED BY <1>3, <4>3, WholeIs
    <3>4. CASE Sends(test.options)
      <4>1. old < c
        <5>1. ~Sends(o)
          BY <2>1, <3>4
        <5>. QED BY <1>6, <2>5, <3>4, <5>1 DEF Own
      <4>2. Whole(old, b)
        BY <1>4
      <4>. HIDE DEF old, b, c
      <4>3. old + b <= c
        BY <1>3, <2>1, <3>3, <4>1, <4>2, RoomForBlock
      <4>. QED BY <3>1, <3>4, <4>3 DEF c
    <3>5. CASE ~Sends(test.options)
      <4>1. c <= old
        BY <2>3, <2>5, <3>5
      <4>2. c <= old + b
        <5>. HIDE DEF old, b, c
        <5>. QED BY <1>3, <1>5, <3>3, <4>1
      <4>. QED BY <3>1, <3>5, <4>2
    <3>. QED BY <3>4, <3>5
  <2>. QED BY <2>4, <2>5
<1>11. ServerBytes'
  <2>1. \A i \in 1 .. Len(server'.streams) : Whole(Own(server'.options, server'.streams[i]), server'.options.blksize)
    BY <1>7, <1>9
  <2>2. Active' => \A i \in 1 .. Len(server'.streams) : i <= Len(streams') => Meets(i)'
    BY <1>2, <1>7, <1>10 DEF Meets
  <2>. QED BY <2>1, <2>2 DEF ServerBytes
<1>12. ClientBytes'
  BY <1>2, CleanKept DEF BytesInv
<1>13. LinesFit' /\ Reported'
  BY <1>1, <1>2, ServerLines, ReportedKept DEF BytesInv
<1>. QED BY <1>11, <1>12, <1>13 DEF BytesInv

\* A stream that the server accepts, or one that shows another cookie.
LEMMA AcceptedBytes == Inv /\ OptionsInv /\ StreamsInv /\ BytesInv /\ ServerAcceptsStream => BytesInv'
<1>. SUFFICES ASSUME Inv, OptionsInv, StreamsInv, BytesInv, ServerAcceptsStream PROVE BytesInv'
  OBVIOUS
<1>. DEFINE s == server.session
            o == server.options
            own == Head(backlog) = s
            new == iperf_add_stream(server.streams, iperf_new_stream(0))
            full == own /\ Len(IF own THEN new ELSE server.streams) = o.num_streams
            said == IF full THEN <<Byte(TEST_START), Byte(TEST_RUNNING)>> ELSE <<>>
<1>1. /\ s \in Launches /\ server.phase = "streams" /\ UNCHANGED <<clientVars, answered>> /\ backlog # <<>>
      /\ DOMAIN server = {"session", "phase", "options", "streams"} /\ server.streams \in Seq(Stream)
  BY DEF ServerAcceptsStream, Serving, Inv, Shape, StreamsInv, ServerHas
<1>2. UNCHANGED <<pc, launch, ret, test, streams, gTest>> /\ (Active' <=> Active)
  BY <1>1 DEF clientVars, Active
<1>3. down' = [down EXCEPT ![s] = @ \o said]
  BY DEF ServerAcceptsStream, Say
<1>. HIDE DEF said
<1>4. s = launch /\ Active => test.state \in {PARAM_EXCHANGE, CREATE_STREAMS}
  <2>1. s = launch /\ Active => Joint
    BY <1>1 DEF Inv, ClientInv
  <2>. QED BY <1>1, <2>1 DEF Joint
<1>5. Active /\ test.state = EXCHANGE_RESULTS => down'[launch] = down[launch]
  BY <1>3, <1>4
<1>6. CASE ~own
  <2>1. server' = [server EXCEPT !.streams = server.streams, !.phase = server.phase]
    BY <1>6 DEF ServerAcceptsStream
  <2>2. server'.session = s /\ server'.streams = server.streams /\ server'.options = o
    BY <1>1, <2>1
  <2>. QED BY <1>1, <1>5, <2>2, QuietBytes
<1>7. CASE own
  <2>1. \E p : server' = [server EXCEPT !.streams = new, !.phase = p]
    BY <1>7 DEF ServerAcceptsStream
  <2>2. server'.session = s /\ server'.streams = new /\ server'.options = o
    BY <1>1, <2>1
  <2>3. /\ Len(new) = Len(server.streams) + 1 /\ Len(server.streams) \in Nat
        /\ \A i \in 1 .. Len(server.streams) : new[i] = server.streams[i]
        /\ Own(o, new[Len(server.streams) + 1]) = 0
    <3>. DEFINE z == iperf_new_stream(0)
    <3>1. z \in Stream /\ z.bytes_sent = 0 /\ z.bytes_received = 0
      <4>1. z \in Stream
        BY NewStreamType
      <4>. QED BY <4>1 DEF iperf_new_stream
    <3>. HIDE DEF z
    <3>. DEFINE l == iperf_add_stream(server.streams, z)
    <3>2. Len(l) = Len(server.streams) + 1
      BY <1>1, <3>1, AddStream
    <3>3. \A i \in 1 .. Len(server.streams) : l[i] = server.streams[i]
      BY <1>1, <3>1, AddStream
    <3>4. Totals(z, l[Len(server.streams) + 1])
      BY <1>1, <3>1, AddStream
    <3>5. Own(o, l[Len(server.streams) + 1]) = 0
      BY <3>1, <3>4 DEF Own, Totals
    <3>6. Len(server.streams) \in Nat
      BY <1>1
    <3>7. l = new
      BY DEF z
    <3>. HIDE DEF l, new
    <3>. QED BY <3>2, <3>3, <3>5, <3>6, <3>7
  <2>. HIDE DEF new
  <2>. DEFINE n == Len(server.streams) + 1
  <2>4. /\ \A i \in 1 .. Len(server.streams) : Whole(Own(o, server.streams[i]), o.blksize)
        /\ s = launch /\ Active =>
             \A i \in 1 .. Len(server.streams) : i <= Len(streams) => Meets(i)
    BY <1>1 DEF BytesInv, ServerBytes
  <2>5. Whole(0, o.blksize)
    <3>1. o.blksize \in Nat
      BY DEF OptionsInv, Within, Options
    <3>2. 0 = 0 * o.blksize /\ 0 \in Nat
      BY <3>1
    <3>. QED BY <3>2 DEF Whole
  <2>6. ASSUME NEW i \in 1 .. Len(new) PROVE Whole(Own(o, new[i]), o.blksize)
    <3>1. i \in 1 .. Len(server.streams) \/ i = n
      BY <2>3
    <3>. QED BY <2>3, <2>4, <2>5, <3>1
  <2>7. ASSUME s = launch, Active, NEW i \in 1 .. Len(new), i <= Len(streams)
        PROVE  IF Sends(test.options) THEN Own(o, new[i]) <= Own(test.options, streams[i])
               ELSE Own(test.options, streams[i]) <= Own(o, new[i])
    <3>1. CASE i \in 1 .. Len(server.streams)
      <4>1. Meets(i)
        BY <2>4, <2>7, <3>1
      <4>. QED BY <2>3, <3>1, <4>1 DEF Meets
    <3>2. CASE i = n
      <4>1. i \in 1 .. Len(streams)
        <5>1. Len(streams) \in Nat
          BY DEF StreamsInv, ClientHas
        <5>. QED BY <2>3, <2>7, <5>1
      <4>2. test.state = CREATE_STREAMS
        <5>1. test.state = PARAM_EXCHANGE => streams = <<>>
          BY <2>7 DEF StreamsInv, ClientHas
        <5>2. Len(<<>>) = 0
          OBVIOUS
        <5>. QED BY <1>4, <2>7, <4>1, <5>1, <5>2
      <4>3. Own(test.options, streams[i]) = 0
        BY <2>7, <4>1, <4>2 DEF BytesInv, ClientBytes
      <4>. QED BY <2>3, <3>2, <4>3
    <3>3. i \in 1 .. Len(server.streams) \/ i = n
      BY <2>3
    <3>. QED BY <3>1, <3>2, <3>3
  <2>8. ServerBytes'
    <3>1. \A i \in 1 .. Len(server'.streams) : Whole(Own(server'.options, server'.streams[i]), server'.options.blksize)
      BY <2>2, <2>6
    <3>2. server'.session = launch' /\ Active' =>
            \A i \in 1 .. Len(server'.streams) : i <= Len(streams') => Meets(i)'
      BY <1>2, <2>2, <2>7 DEF Meets
    <3>. QED BY <3>1, <3>2 DEF ServerBytes
  <2>9. ClientBytes'
    BY <1>2, CleanKept DEF BytesInv
  <2>10. LinesFit' /\ Reported'
    BY <1>1, <1>2, <1>5, ServerLines, ReportedKept DEF BytesInv
  <2>. QED BY <2>8, <2>9, <2>10 DEF BytesInv
<1>. QED BY <1>6, <1>7

\* What else a server does without its streams.
LEMMA IdleBytes ==
  ASSUME Inv, OptionsInv, StreamsInv, BytesInv,
         \/ ServerTestEnd \/ ServerDone \/ ConnectionLost \/ ServerHangs \/ OthersTest \/ OthersTestEnds
         \/ ServerTerminates
  PROVE  BytesInv'
<1>0. DOMAIN server = {"session", "phase", "options", "streams"} /\ DOMAIN down = Launches
  BY DEF Inv, Shape
<1>1. CASE ServerTestEnd
  <2>. DEFINE s == server.session
  <2>1. /\ s \in Launches /\ server.phase = "running" /\ up[s] # <<>>
        /\ server' = [server EXCEPT !.phase = "results"]
        /\ down' = [down EXCEPT ![s] = @ \o <<Byte(EXCHANGE_RESULTS)>>]
        /\ UNCHANGED <<clientVars, answered>>
    BY <1>1 DEF ServerTestEnd, Serving, Received1, Say
  <2>2. s = launch /\ Active => test.state # EXCHANGE_RESULTS
    <3>1. s = launch /\ Active => Joint
      BY <2>1 DEF Inv, ClientInv
    <3>. QED BY <2>1, <3>1 DEF Joint
  <2>3. s = launch /\ Active
    BY <2>1 DEF OptionsInv, Busy
  <2>4. server'.session = server.session /\ server'.streams = server.streams /\ server'.options = server.options
    BY <1>0, <2>1
  <2>. QED BY <2>1, <2>2, <2>3, <2>4, QuietBytes
<1>2. ASSUME NEW o, server' = FreeServer(o), UNCHANGED <<clientVars, answered>>, down' = down
      PROVE  BytesInv'
  <2>1. server'.streams = <<>>
    BY <1>2 DEF FreeServer
  <2>. QED BY <1>2, <2>1, QuietBytes
<1>3. CASE ServerDone
  BY <1>2, <1>3 DEF ServerDone
<1>4. CASE ConnectionLost
  BY <1>2, <1>4 DEF ConnectionLost
<1>5. CASE OthersTestEnds
  BY <1>2, <1>5 DEF OthersTestEnds
<1>6. CASE ServerHangs
  <2>1. server'.phase = "hung"
    BY <1>0, <1>6 DEF ServerHangs
  <2>. QED BY <1>6, <2>1, QuietBytes DEF ServerHangs
<1>7. CASE OthersTest
  <2>1. \E o : server' = [server EXCEPT !.session = Other, !.phase = "other", !.options = o]
    BY <1>7 DEF OthersTest
  <2>2. server'.session \notin Launches
    BY <1>0, <2>1 DEF Other, Launches
  <2>. QED BY <1>7, <2>2, QuietBytes DEF OthersTest
<1>8. CASE ServerTerminates
  <2>. DEFINE s == server.session
  <2>1. /\ s \in Launches /\ down' = [down EXCEPT ![s] = @ \o <<End>>]
        /\ \E o : server' = FreeServer(o)
        /\ UNCHANGED <<clientVars, answered>>
    BY <1>8 DEF ServerTerminates, Say, End
  <2>2. server'.streams = <<>>
    BY <2>1 DEF FreeServer
  <2>3. ASSUME Active, test.state = EXCHANGE_RESULTS
        PROVE  \/ down'[launch] = down[launch]
               \/ down[launch] # <<>> /\ Head(down'[launch]) = Head(down[launch])
               \/ down'[launch] = <<End>>
    <3>1. CASE s # launch
      BY <2>1, <3>1
    <3>2. CASE s = launch
      <4>1. ~shut[launch]
        BY <2>1, <3>2 DEF Inv, ServerInv
      <4>2. Pending(down[launch])
        BY <2>3, <4>1 DEF Inv, ClientInv
      <4>3. down'[launch] = down[launch] \o <<End>>
        BY <1>0, <2>1, <3>2
      <4>4. \/ down[launch] = <<>> \/ down[launch] = <<Byte(DISPLAY_RESULTS)>>
            \/ down[launch] = <<Answer, Byte(DISPLAY_RESULTS)>>
        BY <2>3, <4>2 DEF Pending
      <4>5. CASE down[launch] = <<>>
        BY <4>3, <4>5, Tuples
      <4>6. CASE down[launch] = <<Byte(DISPLAY_RESULTS)>>
        BY <4>3, <4>6, Tuples
      <4>7. CASE down[launch] = <<Answer, Byte(DISPLAY_RESULTS)>>
        BY <4>3, <4>7, Tuples, TwoAndOne
      <4>. QED BY <4>4, <4>5, <4>6, <4>7
    <3>. QED BY <3>1, <3>2
  <2>. QED BY <2>1, <2>2, <2>3, QuietBytes
<1>. QED BY <1>1, <1>3, <1>4, <1>5, <1>6, <1>7, <1>8

\* The server's lines tell no less than it counted, and fit the client's streams.
LEMMA ResultsBytes ==
  Inv /\ OptionsInv /\ StreamsInv /\ SocketsInv /\ BytesInv /\ ServerResults => BytesInv'
<1>. SUFFICES ASSUME Inv, OptionsInv, StreamsInv, SocketsInv, BytesInv, ServerResults PROVE BytesInv'
  OBVIOUS
<1>. DEFINE s == server.session
            o == server.options
            lines == Head(up[s]).v
            new == parse_results(o, server.streams, lines).streams
<1>1. /\ s \in Launches /\ server.phase = "results" /\ up[s] # <<>>
      /\ UNCHANGED clientVars /\ DOMAIN server = {"session", "phase", "options", "streams"}
      /\ DOMAIN down = Launches /\ server.streams \in Seq(Stream) /\ Numbered(server.streams)
      /\ Len(server.streams) = o.num_streams
  BY DEF ServerResults, Serving, Received1, Inv, Shape, StreamsInv, ServerHas
<1>2. UNCHANGED <<pc, launch, ret, test, streams, gTest>> /\ (Active' <=> Active)
  BY <1>1 DEF clientVars, Active
<1>3. s = launch /\ Active
  BY <1>1 DEF OptionsInv, Busy
<1>4. pc = "results" /\ test.state = EXCHANGE_RESULTS /\ down[launch] = <<>>
  <2>1. Joint
    BY <1>1, <1>3 DEF Inv, ClientInv
  <2>. QED BY <1>1, <1>3, <2>1 DEF Joint
<1>5. \/ /\ server' = [server EXCEPT !.streams = new, !.phase = "display"]
         /\ answered' = Results(o, new)
      \/ server' = FreeServer(iperf_reset_test(o)) /\ UNCHANGED <<answered, down>>
  BY DEF ServerResults
<1>6. lines \in Seq(Line)
  <2>1. lines = Results(test.options, streams)
    BY <1>1, Messages DEF StreamsInv, LinesAre, Serving
  <2>. QED BY <2>1, ResultsAre DEF StreamsInv, ClientHas
<1>. HIDE DEF lines
<1>7. PICK list : list = new
  OBVIOUS
<1>8. /\ list \in Seq(Stream) /\ Len(list) = Len(server.streams)
      /\ \A i \in 1 .. Len(server.streams) : Kept(o, server.streams[i], list[i])
  <2>1. list \in Seq(Stream)
    BY <1>1, <1>6, <1>7, ParsedStreams
  <2>2. Len(list) = Len(server.streams)
    BY <1>1, <1>6, <1>7, ParsedStreams
  <2>3. \A i \in 1 .. Len(server.streams) : Kept(o, server.streams[i], list[i])
    BY <1>1, <1>6, <1>7, ParsedStreams
  <2>. QED BY <2>1, <2>2, <2>3
<1>. HIDE DEF new
<1>9. CASE server' = [server EXCEPT !.streams = new, !.phase = "display"] /\ answered' = Results(o, new)
  <2>1. server'.phase = "display"
    BY <1>1, <1>9
  <2>2. ServerBytes'
    BY <2>1 DEF ServerBytes
  <2>3. ClientBytes'
    BY <1>2, CleanKept DEF BytesInv
  <2>4. Reported'
    BY <1>2, <1>3 DEF Reported, SocketsInv
  <2>5. Knows(o, test.options) /\ o.role = "s" /\ test.options.role = "c" /\ o.blksize \in Nat
    BY <1>1, <1>3 DEF OptionsInv, Phases, Within, Options
  <2>6. Sends(o) = ~Sends(test.options)
    BY <2>5, Opposite
  <2>7. Len(streams) = Len(server.streams) /\ streams \in Seq(Stream)
    <3>1. Len(streams) = test.options.num_streams /\ streams \in Seq(Stream)
      BY <1>3, <1>4 DEF StreamsInv, ClientHas
    <3>2. o.num_streams = test.options.num_streams
      BY <2>5 DEF Knows
    <3>. QED BY <1>1, <3>1, <3>2
  <2>8. PICK told : told = Results(o, list)
    OBVIOUS
  <2>9. /\ answered' = told /\ Len(told) = Len(streams) /\ Numbered(told)
        /\ \A i \in 1 .. Len(streams) : told[i].bytes = Own(o, list[i])
    <3>1. answered' = told
      BY <1>7, <1>9, <2>8
    <3>2. Len(told) = Len(list)
      BY <1>8, <2>8, ResultsAre
    <3>3. Numbered(list)
      BY <1>1, <1>8 DEF Numbered, Kept
    <3>4. Numbered(told)
      BY <1>8, <2>8, <3>3, ResultsAre
    <3>5. \A i \in 1 .. Len(list) : told[i].bytes = IF Sends(o) THEN list[i].bytes_sent ELSE list[i].bytes_received
      BY <1>8, <2>8, ResultsAre
    <3>. QED BY <1>8, <2>7, <3>1, <3>2, <3>4, <3>5 DEF Own
  <2>10. ASSUME NEW i \in 1 .. Len(streams)
         PROVE  /\ told[i].bytes \in Nat
                /\ IF Sends(test.options) THEN told[i].bytes <= streams[i].bytes_sent
                   ELSE streams[i].bytes_received <= told[i].bytes
    <3>1. i \in 1 .. Len(server.streams) /\ i <= Len(streams)
      BY <2>7
    <3>2. Own(o, list[i]) = Own(o, server.streams[i])
      BY <1>8, <3>1 DEF Kept, Own
    <3>3. Whole(Own(o, server.streams[i]), o.blksize) /\ Meets(i)
      BY <1>1, <1>3, <3>1 DEF BytesInv, ServerBytes
    <3>4. Own(o, server.streams[i]) \in Nat
      BY <2>5, <3>3, WholeIs
    <3>5. told[i].bytes = Own(o, server.streams[i])
      BY <2>9, <3>2
    <3>6. IF Sends(test.options) THEN told[i].bytes <= streams[i].bytes_sent
          ELSE streams[i].bytes_received <= told[i].bytes
      BY <3>3, <3>5 DEF Meets, Own
    <3>. QED BY <3>4, <3>5, <3>6
  <2>11. Fits'
    <3>1. Numbered(answered)'
      BY <2>9 DEF Numbered
    <3>. QED BY <1>2, <2>9, <2>10, <3>1 DEF Fits
  <2>12. LinesFit'
    BY <1>2, <1>4, <2>11 DEF LinesFit
  <2>. QED BY <2>2, <2>3, <2>4, <2>12 DEF BytesInv
<1>10. CASE server' = FreeServer(iperf_reset_test(o)) /\ UNCHANGED <<answered, down>>
  <2>1. server'.streams = <<>>
    BY <1>10 DEF FreeServer
  <2>. QED BY <1>1, <1>10, <2>1, QuietBytes
<1>. QED BY <1>5, <1>9, <1>10

\* The client reads the lines, or what there is in their place.
LEMMA ReadingAll ==
  Inv /\ OptionsInv /\ StreamsInv /\ SocketsInv /\ BytesInv /\ (ReadResults \/ ReadGarbage) => BytesInv'
<1>. SUFFICES ASSUME Inv, OptionsInv, StreamsInv, SocketsInv, BytesInv, ReadResults \/ ReadGarbage
              PROVE  BytesInv'
  OBVIOUS
<1>1. ClientBytes' /\ LinesFit'
  BY ReadingBytes DEF BytesInv
<1>2. /\ UNCHANGED <<launch, test, server, answered>> /\ Active /\ pc = "results"
      /\ test.state = EXCHANGE_RESULTS /\ ret # "ok"
  BY ReadStreams DEF SocketsInv
<1>3. ret' # "ok"
  BY <1>2 DEF ReadResults, ReadGarbage, Fail
<1>4. server.session \in Launches /\ server.session = launch =>
        server.phase \notin {"streams", "running", "results"}
  <2>1. CASE ReadGarbage
    BY <2>1, ReadStreams
  <2>2. CASE ReadResults
    <3>1. down[launch] # <<>>
      BY <2>2, ReadStreams
    <3>2. server.session = launch /\ server.phase # "hung" => Joint
      BY <1>2 DEF Inv, ClientInv
    <3>. QED BY <1>2, <3>1, <3>2 DEF Joint
  <2>. QED BY <2>1, <2>2
<1>5. ServerBytes'
  BY <1>2, <1>4 DEF BytesInv, ServerBytes, Own, Whole
<1>. QED BY <1>1, <1>3, <1>5 DEF BytesInv, Reported

LEMMA InitBytes == Init => BytesInv
<1>1. Len(<<>>) = 0
  OBVIOUS
<1>. QED BY <1>1 DEF Init, BytesInv, ClientBytes, ServerBytes, LinesFit, Reported, FreeServer, Active

LEMMA NextBytes ==
  Inv /\ OptionsInv /\ StreamsInv /\ SocketsInv /\ BytesInv /\ [Next]_vars => BytesInv'
<1>. SUFFICES ASSUME Inv, OptionsInv, StreamsInv, SocketsInv, BytesInv, [Next]_vars PROVE BytesInv'
  OBVIOUS
<1>1. CASE Launch
  BY <1>1, LaunchBytes
<1>2. CASE OnMessage
  BY <1>2, MessageAll
<1>3. CASE ReadResults \/ ReadGarbage
  BY <1>3, ReadingAll
<1>4. CASE RunBody
  <2>1. ClientBytes' /\ ServerBytes' /\ LinesFit'
    BY <1>4, TurnBytes DEF BytesInv
  <2>2. ret' \in {ret, "fail"} /\ ret # "ok"
    BY <1>4, Turn DEF SocketsInv
  <2>. QED BY <2>1, <2>2 DEF BytesInv, Reported
<1>5. CASE UdpRefused
  <2>1. /\ pc = "udp" /\ pc' = "idle" /\ ret' = "fail"
        /\ UNCHANGED <<launch, test, streams, server, answered>>
    BY <1>5 DEF UdpRefused, Fail, serverVars
  <2>2. ~Active /\ ~Active'
    BY <2>1 DEF Active
  <2>3. ClientBytes'
    BY <2>1, <2>2, CleanKept DEF BytesInv
  <2>4. ServerBytes'
    BY <2>1, <2>2, MeetsKept DEF BytesInv
  <2>. QED BY <2>1, <2>3, <2>4 DEF BytesInv, LinesFit, Reported
<1>6. CASE ServerStep
  <2>1. CASE \E n \in Launches : ServerAccepts(n)
    BY <2>1, AcceptsBytes
  <2>2. CASE ServerParams
    BY <2>2, ParamsBytes
  <2>3. CASE ServerAcceptsStream
    BY <2>3, AcceptedBytes
  <2>4. CASE ServerResults
    BY <2>4, ResultsBytes
  <2>5. CASE \E i \in DOMAIN server.streams : ServerMoves(i)
    BY <2>5, MovedBytes
  <2>6. CASE ServerTestEnd \/ ServerDone \/ OthersTestEnds
    BY <2>6, IdleBytes
  <2>. QED BY <1>6, <2>1, <2>2, <2>3, <2>4, <2>5, <2>6 DEF ServerStep
<1>7. CASE Environment
  BY <1>7, IdleBytes DEF Environment
<1>8. CASE UNCHANGED vars
  <2>1. UNCHANGED <<pc, launch, ret, test, streams, gTest, server, answered, down>>
    BY <1>8 DEF vars, clientVars, serverVars
  <2>2. ClientBytes'
    BY <2>1, CleanKept DEF BytesInv, Active
  <2>3. ServerBytes'
    BY <2>1, MeetsKept DEF BytesInv, Active
  <2>. QED BY <2>1, <2>2, <2>3, ServerLines, ReportedKept DEF BytesInv
<1>. QED BY <1>1, <1>2, <1>3, <1>4, <1>5, <1>6, <1>7, <1>8 DEF Next, ClientStep

LEMMA SumOfLines ==
  ASSUME NEW lines
  PROVE  FoldLeft(LAMBDA sum, line : sum + line.bytes, 0, lines) = Total(lines, "bytes")
BY DEF Total

\* The totals of a test that succeeded are those of the lines the server wrote,
\* and tell no more received than sent, for any block size, direction and number
\* of streams.
THEOREM TotalsAreServers == Spec => []ResultsAreServers
<1>1. Reported => ResultsAreServers
  <2>. SUFFICES ASSUME Reported, ret = "ok", streams # <<>>
                PROVE  /\ gTest.total_recv <= gTest.total_sent
                       /\ FoldLeft(LAMBDA sum, line : sum + line.bytes, 0, answered)
                            = IF Sends(test.options) THEN gTest.total_recv ELSE gTest.total_sent
    BY DEF ResultsAreServers
  <2>1. Report(gTest)
    BY DEF Reported
  <2>. QED BY <2>1, SumOfLines DEF Report
<1>2. BytesInv => Reported
  BY DEF BytesInv
<1>. QED
  BY <1>1, <1>2, Invariants, InitBytes, NextBytes, PTL DEF Spec

-----------------------------------------------------------------------------
(* The kinds of values *)

Speech ==
  [is : {"byte"}, v : 0 .. 255] \cup [is : {"results"}, v : Seq(Line)]
    \cup [is : {"number"}, v : {"i_errno", "errno"}]
Getters == [{"total_sent", "total_recv", "total_time"} -> Nat] \cup {NULL}
Budgets == [faults : 0 .. MaxFaults, others : 0 .. MaxOthers]

Kinds ==
  /\ pc \in {"idle", "select", "body", "results", "udp", "crashed"}
  /\ ret \in {"none", "ok", "fail"} /\ gTest \in Getters
  /\ test.state \in 0 .. 255 /\ test.bytes_sent \in 0 .. SizeMod - 1
  /\ shut \in [Launches -> BOOLEAN] /\ down \in [Launches -> Seq(Speech)]
  /\ budget \in Budgets

LEMMA ByteSpoken == ASSUME NEW k \in Int PROVE Byte(k) \in Speech
<1>1. k % 256 \in 0 .. 255
  OBVIOUS
<1>. QED BY <1>1 DEF Byte, Speech

LEMMA Spoken ==
  /\ <<>> \in Seq(Speech) /\ <<End>> \in Seq(Speech)
  /\ <<Byte(PARAM_EXCHANGE)>> \in Seq(Speech) /\ <<Byte(ACCESS_DENIED)>> \in Seq(Speech)
  /\ <<Byte(CREATE_STREAMS)>> \in Seq(Speech)
  /\ <<Byte(SERVER_ERROR), Data("number", "i_errno"), Data("number", "errno")>> \in Seq(Speech)
  /\ <<Byte(TEST_START), Byte(TEST_RUNNING)>> \in Seq(Speech)
  /\ <<Byte(EXCHANGE_RESULTS)>> \in Seq(Speech)
  /\ \A lines \in Seq(Line) : <<Data("results", lines), Byte(DISPLAY_RESULTS)>> \in Seq(Speech)
<1>1. /\ End \in Speech /\ Byte(PARAM_EXCHANGE) \in Speech /\ Byte(ACCESS_DENIED) \in Speech
      /\ Byte(CREATE_STREAMS) \in Speech /\ Byte(SERVER_ERROR) \in Speech
      /\ Byte(TEST_START) \in Speech /\ Byte(TEST_RUNNING) \in Speech
      /\ Byte(EXCHANGE_RESULTS) \in Speech /\ Byte(DISPLAY_RESULTS) \in Speech
  <2>1. ACCESS_DENIED \in Int /\ SERVER_ERROR \in Int
    BY DEF ACCESS_DENIED, SERVER_ERROR
  <2>. QED BY <2>1, ByteSpoken DEF End
<1>2. Data("number", "i_errno") \in Speech /\ Data("number", "errno") \in Speech
      /\ \A lines \in Seq(Line) : Data("results", lines) \in Speech
  BY DEF Data, Speech
<1>. QED BY <1>1, <1>2

LEMMA FaultKinds == ASSUME budget \in Budgets, Fault \/ UNCHANGED budget PROVE budget' \in Budgets
BY BoundsAssumption DEF Fault, Budgets

\* What the client takes from its connection.
LEMMA HandledKinds ==
  ASSUME Inv, Kinds, NEW m, Handle(m)
  PROVE  /\ Incoming \in 0 .. 255 /\ Incoming = m
         /\ down' \in [Launches -> Seq(Speech)] /\ shut' = shut
         /\ pc = "select"
<1>1. /\ Waiting /\ Incoming = m /\ launch \in Launches /\ shut' = shut
      /\ down' = [down EXCEPT ![launch] = Tail(@)]
  BY Handled
<1>2. down[launch] \in Seq(Speech) /\ down[launch] # <<>>
  BY <1>1 DEF Waiting, Kinds
<1>3. Head(down[launch]) \in Speech /\ Tail(down[launch]) \in Seq(Speech)
  BY <1>2
<1>4. down' \in [Launches -> Seq(Speech)]
  BY <1>1, <1>3 DEF Kinds
<1>5. Head(down[launch]).is = "byte" => Head(down[launch]).v \in 0 .. 255
  BY <1>3 DEF Speech
<1>. QED BY <1>1, <1>4, <1>5 DEF Waiting, Incoming

LEMMA ReportKinds ==
  ASSUME StreamsInv, ClientBytes, streams # <<>>
  PROVE  iperf_print_results(streams) \in Getters
<1>. DEFINE g == iperf_print_results(streams)
<1>1. streams \in Seq(Stream) /\ 1 \in 1 .. Len(streams)
  <2>1. streams \in Seq(Stream)
    BY DEF StreamsInv, ClientHas
  <2>. QED BY <2>1, EmptySeq
<1>2. \A i \in 1 .. Len(streams) : Clean(streams[i])
  BY DEF ClientBytes
<1>3. Total(streams, "bytes_sent") \in Nat
  <2>1. \A i \in 1 .. Len(streams) : streams[i]["bytes_sent"] \in Nat
    BY <1>2 DEF Clean
  <2>. QED BY <1>1, <2>1, TotalNat
<1>4. Total(streams, "bytes_received") \in Nat
  <2>1. \A i \in 1 .. Len(streams) : streams[i]["bytes_received"] \in Nat
    BY <1>2 DEF Clean
  <2>. QED BY <1>1, <2>1, TotalNat
<1>5. streams[1].end_time - streams[1].start_time \in Nat
  BY <1>1, <1>2 DEF Clean
<1>. QED BY <1>3, <1>4, <1>5 DEF iperf_print_results, Getters

\* A step of the client that sends or connects nothing new.
LEMMA ClientKinds ==
  ASSUME Kinds, pc' \in {pc, "idle", "select", "body", "results", "udp", "crashed"},
         ret' \in {ret, "none", "ok", "fail"}, gTest' \in Getters,
         test'.state \in 0 .. 255, test'.bytes_sent \in 0 .. SizeMod - 1,
         UNCHANGED shut, down' \in [Launches -> Seq(Speech)], Fault \/ UNCHANGED budget
  PROVE  Kinds'
BY FaultKinds DEF Kinds

\* set_state writes the state only.
LEMMA StateKinds ==
  ASSUME Inv, Kinds, NEW state \in 0 .. 255, test' = [test EXCEPT !.state = state]
  PROVE  test'.state \in 0 .. 255 /\ test'.bytes_sent \in 0 .. SizeMod - 1
<1>1. DOMAIN test = {"options", "state", "bytes_sent", "timer", "stats_timer"}
  BY DEF Inv, Shape
<1>2. test'.state = state /\ test'.bytes_sent = test.bytes_sent
  BY <1>1
<1>. QED BY <1>2 DEF Kinds

LEMMA MessageKinds == Inv /\ StreamsInv /\ ClientBytes /\ Kinds /\ OnMessage => Kinds'
<1>. SUFFICES ASSUME Inv, StreamsInv, ClientBytes, Kinds, OnMessage PROVE Kinds'
  OBVIOUS
<1>1. DOMAIN test = {"options", "state", "bytes_sent", "timer", "stats_timer"}
  BY DEF Inv, Shape
<1>2. gTest \in Getters
  BY DEF Kinds
<1>3. CASE OnParamExchange
  <2>1. /\ Handle(PARAM_EXCHANGE) /\ test' = [test EXCEPT !.state = PARAM_EXCHANGE]
        /\ pc' \in {pc, "idle"} /\ ret' \in {ret, "fail"} /\ UNCHANGED <<gTest, budget>>
    BY <1>3 DEF OnParamExchange, SetState, NwriteFails, Fail
  <2>2. test'.state \in 0 .. 255 /\ test'.bytes_sent \in 0 .. SizeMod - 1
    BY <2>1, StateKinds
  <2>3. down' \in [Launches -> Seq(Speech)] /\ UNCHANGED shut
    BY <2>1, HandledKinds
  <2>. QED BY <1>2, <2>1, <2>2, <2>3, ClientKinds
<1>4. CASE OnCreateStreams
  <2>1. /\ Handle(CREATE_STREAMS) /\ test' = [test EXCEPT !.state = CREATE_STREAMS]
        /\ pc' \in {pc, "idle"} /\ ret' \in {ret, "fail"} /\ UNCHANGED gTest
        /\ Fault \/ UNCHANGED budget
    BY <1>4 DEF OnCreateStreams, SetState, Fail
  <2>2. test'.state \in 0 .. 255 /\ test'.bytes_sent \in 0 .. SizeMod - 1
    BY <2>1, StateKinds
  <2>3. down' \in [Launches -> Seq(Speech)] /\ UNCHANGED shut
    BY <2>1, HandledKinds
  <2>. QED BY <1>2, <2>1, <2>2, <2>3, ClientKinds
<1>5. CASE OnCreateUdpStreams
  <2>1. /\ Handle(CREATE_STREAMS) /\ test' = [test EXCEPT !.state = CREATE_STREAMS]
        /\ UNCHANGED <<ret, gTest, budget>> /\ pc' = "udp"
    BY <1>5 DEF OnCreateUdpStreams, SetState
  <2>2. test'.state \in 0 .. 255 /\ test'.bytes_sent \in 0 .. SizeMod - 1
    BY <2>1, StateKinds
  <2>3. down' \in [Launches -> Seq(Speech)] /\ UNCHANGED shut
    BY <2>1, HandledKinds
  <2>. QED BY <1>2, <2>1, <2>2, <2>3, ClientKinds
<1>6. CASE OnTestStart
  <2>1. /\ Handle(TEST_START) /\ test'.bytes_sent = test.bytes_sent /\ test'.state = TEST_START
        /\ UNCHANGED <<ret, pc, gTest, budget>>
    BY <1>1, <1>6 DEF OnTestStart
  <2>2. test'.bytes_sent \in 0 .. SizeMod - 1 /\ test'.state \in 0 .. 255
    BY <2>1 DEF Kinds
  <2>3. down' \in [Launches -> Seq(Speech)] /\ UNCHANGED shut
    BY <2>1, HandledKinds
  <2>. QED BY <1>2, <2>1, <2>2, <2>3, ClientKinds
<1>7. CASE OnTestRunning
  <2>1. /\ Handle(TEST_RUNNING) /\ test' = [test EXCEPT !.state = TEST_RUNNING]
        /\ UNCHANGED <<ret, gTest, budget>> /\ pc' = "body"
    BY <1>7 DEF OnTestRunning, SetState
  <2>2. test'.state \in 0 .. 255 /\ test'.bytes_sent \in 0 .. SizeMod - 1
    BY <2>1, StateKinds
  <2>3. down' \in [Launches -> Seq(Speech)] /\ UNCHANGED shut
    BY <2>1, HandledKinds
  <2>. QED BY <1>2, <2>1, <2>2, <2>3, ClientKinds
<1>8. CASE OnExchangeResults
  <2>1. /\ Handle(EXCHANGE_RESULTS) /\ test' = [test EXCEPT !.state = EXCHANGE_RESULTS]
        /\ pc' \in {"results", "idle"} /\ ret' \in {ret, "fail"} /\ UNCHANGED <<gTest, budget>>
    BY <1>8 DEF OnExchangeResults, SetState, NwriteFails, Fail
  <2>2. test'.state \in 0 .. 255 /\ test'.bytes_sent \in 0 .. SizeMod - 1
    BY <2>1, StateKinds
  <2>3. down' \in [Launches -> Seq(Speech)] /\ UNCHANGED shut
    BY <2>1, HandledKinds
  <2>. QED BY <1>2, <2>1, <2>2, <2>3, ClientKinds
<1>9. CASE OnDisplayResults
  <2>1. /\ Handle(DISPLAY_RESULTS) /\ test' = [test EXCEPT !.state = IPERF_DONE]
        /\ pc' \in {"crashed", "idle"} /\ ret' \in {ret, "ok"} /\ UNCHANGED budget
        /\ gTest' = gTest \/ gTest' = iperf_print_results(streams)
    BY <1>9 DEF OnDisplayResults, SetState
  <2>2. streams # <<>>
    <3>1. Waiting /\ Incoming = DISPLAY_RESULTS /\ Active
      BY <2>1, Handled
    <3>2. test.state = EXCHANGE_RESULTS
      BY <3>1, OnByte DEF Inv
    <3>. QED BY <3>1, <3>2 DEF StreamsInv, ClientHas, Begun
  <2>3. gTest' \in Getters
    BY <1>2, <2>1, <2>2, ReportKinds
  <2>4. test'.state \in 0 .. 255 /\ test'.bytes_sent \in 0 .. SizeMod - 1
    BY <2>1, StateKinds
  <2>5. down' \in [Launches -> Seq(Speech)] /\ UNCHANGED shut
    BY <2>1, HandledKinds
  <2>. QED BY <2>1, <2>3, <2>4, <2>5, ClientKinds
<1>10. CASE OnRefusal
  <2>1. /\ Handle(Incoming) /\ test' = [test EXCEPT !.state = Incoming]
        /\ UNCHANGED <<gTest, budget>> /\ pc' = "idle" /\ ret' = "fail"
    BY <1>10 DEF OnRefusal, SetState, Fail
  <2>2. Incoming \in 0 .. 255
    BY <2>1, HandledKinds
  <2>3. test'.state \in 0 .. 255 /\ test'.bytes_sent \in 0 .. SizeMod - 1
    BY <2>1, <2>2, StateKinds
  <2>4. down' \in [Launches -> Seq(Speech)] /\ UNCHANGED shut
    BY <2>1, HandledKinds
  <2>. QED BY <1>2, <2>1, <2>3, <2>4, ClientKinds
<1>11. CASE OnClosed
  <2>1. UNCHANGED <<test, gTest, down, shut, budget>> /\ pc' = "idle" /\ ret' = "fail"
    BY <1>11 DEF OnClosed, Fail
  <2>. QED BY <2>1 DEF Kinds
<1>. QED BY <1>3, <1>4, <1>5, <1>6, <1>7, <1>8, <1>9, <1>10, <1>11 DEF OnMessage

LEMMA ReadingKinds == Inv /\ Kinds /\ (ReadResults \/ ReadGarbage) => Kinds'
<1>. SUFFICES ASSUME Inv, Kinds, ReadResults \/ ReadGarbage PROVE Kinds'
  OBVIOUS
<1>1. /\ pc = "results" /\ UNCHANGED <<launch, test, gTest, shut, budget>>
      /\ pc' \in {"idle", "select", "crashed"} /\ ret' \in {ret, "fail"}
  BY DEF ReadResults, ReadGarbage, Fail
<1>2. launch \in Launches /\ down \in [Launches -> Seq(Speech)]
  BY <1>1 DEF Inv, Shape, Launches, Kinds
<1>3. down' \in [Launches -> Seq(Speech)]
  <2>1. CASE ReadResults
    <3>1. down[launch] # <<>> /\ down' = [down EXCEPT ![launch] = Tail(@)]
      BY <2>1 DEF ReadResults
    <3>. QED BY <1>2, <3>1
  <2>2. CASE ReadGarbage
    <3>1. down' = [down EXCEPT ![launch] = <<>>]
      BY <2>2 DEF ReadGarbage
    <3>. QED BY <1>2, <3>1
  <2>. QED BY <2>1, <2>2
<1>. QED BY <1>1, <1>3 DEF Kinds

\* Bytes and errors are added up in a size_t, which wraps.
LEMMA TurnKinds == Inv /\ OptionsInv /\ StreamsInv /\ Kinds /\ RunBody => Kinds'
<1>. SUFFICES ASSUME Inv, OptionsInv, StreamsInv, Kinds, RunBody PROVE Kinds'
  OBVIOUS
<1>1. /\ UNCHANGED <<gTest, down, shut>> /\ (Fault \/ UNCHANGED budget)
      /\ pc' \in {"crashed", "select", "idle"}
      /\ ret' \in {ret, "fail"} /\ test'.state \in {test.state, TEST_RUNNING, TEST_END}
  BY Turn
<1>2. DOMAIN test = {"options", "state", "bytes_sent", "timer", "stats_timer"}
  BY DEF Inv, Shape
<1>3. PICK blocks \in SUBSET {i \in DOMAIN streams : CanMove(i)} :
        \E broken \in SUBSET DOMAIN streams :
          \E stats \in If(test.stats_timer /\ Len(streams[1].interval_results) < MaxBlocks),
             report \in If(test.stats_timer), timeUp \in If(test.timer) :
            Body(blocks, broken, stats, report, timeUp)
  BY DEF RunBody
<1>4. PICK broken \in SUBSET DOMAIN streams :
          \E stats \in If(test.stats_timer /\ Len(streams[1].interval_results) < MaxBlocks),
             report \in If(test.stats_timer), timeUp \in If(test.timer) :
            Body(blocks, broken, stats, report, timeUp)
  BY <1>3
<1>5. PICK stats, report, timeUp : Body(blocks, broken, stats, report, timeUp)
  BY <1>4
<1>. DEFINE sent == Transfer(blocks, broken).bytes_sent
<1>6. test' = test \/ test' = [test EXCEPT !.bytes_sent = sent]
      \/ test' = [test EXCEPT !.bytes_sent = sent, !.state = TEST_END]
  BY <1>5 DEF Body
<1>7. sent \in 0 .. SizeMod - 1
  <2>. DEFINE x == Cardinality(blocks)
              y == Cardinality(broken)
              n == test.options.blksize
              b == test.bytes_sent
  <2>1. Len(streams) \in Nat /\ DOMAIN streams = 1 .. Len(streams)
    BY DEF StreamsInv, ClientHas
  <2>2. IsFiniteSet(1 .. Len(streams))
    BY <2>1, FS_Interval
  <2>3. IsFiniteSet(blocks) /\ IsFiniteSet(broken)
    <3>1. blocks \subseteq 1 .. Len(streams) /\ broken \subseteq 1 .. Len(streams)
      BY <2>1
    <3>. QED BY <2>2, <3>1, FS_Subset
  <2>4. x \in Nat /\ y \in Nat
    BY <2>3, FS_CardinalityType
  <2>5. n \in Nat /\ b \in Int
    BY DEF OptionsInv, Within, Options, Kinds
  <2>6. sent = (b + n * x - y) % SizeMod
    BY DEF Transfer
  <2>. HIDE DEF sent, x, y, n, b
  <2>7. SizeMod \in Nat \ {0}
    BY DEF SizeMod
  <2>8. n * x \in Int
    BY <2>4, <2>5
  <2>9. b + n * x - y \in Int
    BY <2>4, <2>5, <2>8
  <2>10. \A k \in Int, z \in Nat \ {0} : k % z \in 0 .. z - 1
    OBVIOUS
  <2>. QED BY <2>6, <2>7, <2>9, <2>10, Zenon
<1>. HIDE DEF sent
<1>8. test'.bytes_sent \in 0 .. SizeMod - 1
  BY <1>2, <1>6, <1>7 DEF Kinds
<1>9. test.state \in 0 .. 255 /\ gTest \in Getters /\ down \in [Launches -> Seq(Speech)]
  BY DEF Kinds
<1>10. test'.state \in 0 .. 255
  BY <1>1, <1>9
<1>. QED BY <1>1, <1>8, <1>9, <1>10, ClientKinds

LEMMA LaunchKinds == Inv /\ Kinds /\ Launch => Kinds'
<1>. SUFFICES ASSUME Inv, Kinds, Launch PROVE Kinds'
  OBVIOUS
<1>0. 0 \in 0 .. SizeMod - 1 /\ 0 \in 0 .. 255
  <2>1. SizeMod \in Nat \ {0}
    BY DEF SizeMod
  <2>. QED BY <2>1
<1>1. CASE LaunchReturns
  <2>1. /\ pc' = pc /\ UNCHANGED <<down, shut, budget>> /\ ret' \in {"fail", "ok"}
        /\ gTest' \in {NULL, [total_sent |-> 0, total_recv |-> 0, total_time |-> 0]}
        /\ \E o : test' = NewTest(o)
    BY <1>1 DEF LaunchReturns
  <2>2. gTest' \in Getters
    BY <2>1 DEF Getters
  <2>3. test'.state = 0 /\ test'.bytes_sent = 0
    BY <2>1 DEF NewTest
  <2>. QED BY <1>0, <2>1, <2>2, <2>3 DEF Kinds
<1>2. CASE LaunchConnects
  <2>1. PICK r \in Parsed :
          /\ test' = NewTest(r.test) /\ gTest' = NULL /\ UNCHANGED <<down, shut>>
          /\ pc' \in {"select", "idle"} /\ ret' \in {"none", "fail"}
          /\ Fault \/ UNCHANGED budget
    BY <1>2 DEF LaunchConnects, Fail, netdial
  <2>2. test'.state = 0 /\ test'.bytes_sent = 0 /\ gTest' \in Getters
    BY <2>1 DEF NewTest, Getters
  <2>3. down \in [Launches -> Seq(Speech)]
    BY DEF Kinds
  <2>. QED BY <1>0, <2>1, <2>2, <2>3, ClientKinds
<1>. QED BY <1>1, <1>2 DEF Launch

\* What a server says and closes.
LEMMA ServedKinds ==
  ASSUME Kinds, UNCHANGED clientVars, shut' \in [Launches -> BOOLEAN],
         \/ UNCHANGED down
         \/ server.session \in Launches /\ \E q \in Seq(Speech) : Say(q),
         budget' \in Budgets
  PROVE  Kinds'
<1>1. down \in [Launches -> Seq(Speech)]
  BY DEF Kinds
<1>2. down' \in [Launches -> Seq(Speech)]
  <2>1. ASSUME server.session \in Launches, NEW q \in Seq(Speech), Say(q)
        PROVE  down' \in [Launches -> Seq(Speech)]
    <3>1. down[server.session] \o q \in Seq(Speech)
      BY <1>1, <2>1, ConcatProperties
    <3>. QED BY <1>1, <2>1, <3>1 DEF Say
  <2>. QED BY <1>1, <2>1
<1>. QED BY <1>2 DEF Kinds, clientVars

LEMMA StepKinds == Inv /\ StreamsInv' /\ Kinds /\ (ServerStep \/ Environment) => Kinds'
<1>. SUFFICES ASSUME Inv, StreamsInv', Kinds, ServerStep \/ Environment PROVE Kinds'
  OBVIOUS
<1>0. shut \in [Launches -> BOOLEAN] /\ budget \in Budgets /\ down \in [Launches -> Seq(Speech)]
  BY DEF Kinds
<1>1. ASSUME NEW n, Close(n) PROVE shut' \in [Launches -> BOOLEAN]
  BY <1>0, <1>1 DEF Close
<1>2. ASSUME NEW n \in Launches, ServerAccepts(n) PROVE Kinds'
  <2>1. UNCHANGED <<clientVars, budget>> /\ (UNCHANGED shut \/ Close(n))
        /\ \/ down' = [down EXCEPT ![n] = <<Byte(PARAM_EXCHANGE)>>]
           \/ down' = [down EXCEPT ![n] = <<Byte(ACCESS_DENIED)>>]
    BY <1>2 DEF ServerAccepts
  <2>2. shut' \in [Launches -> BOOLEAN]
    BY <1>0, <1>1, <2>1
  <2>3. down' \in [Launches -> Seq(Speech)]
    BY <1>0, <1>2, <2>1, Spoken
  <2>. QED BY <2>1, <2>2, <2>3 DEF Kinds, clientVars
<1>3. CASE ServerParams
  <2>1. /\ server.session \in Launches /\ UNCHANGED clientVars
        /\ \/ Say(<<Byte(CREATE_STREAMS)>>)
           \/ Say(<<Byte(SERVER_ERROR), Data("number", "i_errno"), Data("number", "errno")>>)
        /\ Fault \/ UNCHANGED budget
    BY <1>3 DEF ServerParams, Serving
  <2>2. shut' \in [Launches -> BOOLEAN]
    BY <1>0, <1>3 DEF ServerParams
  <2>3. budget' \in Budgets
    BY <1>0, <2>1, FaultKinds
  <2>. QED BY <2>1, <2>2, <2>3, Spoken, ServedKinds
<1>4. CASE ServerAcceptsStream
  <2>1. /\ server.session \in Launches /\ UNCHANGED <<clientVars, shut, budget>>
        /\ Say(<<Byte(TEST_START), Byte(TEST_RUNNING)>>) \/ Say(<<>>)
    BY <1>4 DEF ServerAcceptsStream, Serving
  <2>. QED BY <1>0, <2>1, Spoken, ServedKinds
<1>5. CASE ServerTestEnd
  <2>1. /\ server.session \in Launches /\ UNCHANGED <<clientVars, shut, budget>>
        /\ Say(<<Byte(EXCHANGE_RESULTS)>>)
    BY <1>5 DEF ServerTestEnd, Serving
  <2>. QED BY <1>0, <2>1, Spoken, ServedKinds
<1>6. CASE ServerResults
  <2>1. /\ server.session \in Launches /\ UNCHANGED <<clientVars, budget>>
        /\ \/ Say(<<Data("results", answered'), Byte(DISPLAY_RESULTS)>>) /\ UNCHANGED shut
           \/ UNCHANGED down /\ Close(server.session)
    BY <1>6 DEF ServerResults, Serving
  <2>2. answered' \in Seq(Line)
    BY DEF StreamsInv, LinesAre
  <2>. QED BY <1>0, <1>1, <2>1, <2>2, Spoken, ServedKinds
<1>7. CASE ServerDone \/ ConnectionLost
  <2>1. UNCHANGED <<clientVars, down>> /\ Close(server.session) /\ (Fault \/ UNCHANGED budget)
    BY <1>7 DEF ServerDone, ConnectionLost
  <2>2. budget' \in Budgets /\ shut' \in [Launches -> BOOLEAN]
    BY <1>0, <1>1, <2>1, FaultKinds
  <2>. QED BY <2>1, <2>2, ServedKinds
<1>8. CASE ServerTerminates
  <2>1. /\ server.session \in Launches /\ UNCHANGED clientVars /\ Say(<<End>>)
        /\ Close(server.session) /\ Fault
    BY <1>8 DEF ServerTerminates, End
  <2>2. budget' \in Budgets /\ shut' \in [Launches -> BOOLEAN]
    BY <1>0, <1>1, <2>1, FaultKinds
  <2>. QED BY <2>1, <2>2, Spoken, ServedKinds
<1>9. CASE ServerHangs
  <2>1. UNCHANGED <<clientVars, down, shut>> /\ Fault
    BY <1>9 DEF ServerHangs
  <2>. QED BY <1>0, <2>1, FaultKinds, ServedKinds
<1>10. CASE OthersTest
  <2>1. /\ UNCHANGED <<clientVars, down, shut>>
        /\ budget.others < MaxOthers /\ budget' = [budget EXCEPT !.others = @ + 1]
    BY <1>10 DEF OthersTest
  <2>2. budget' \in Budgets
    BY <1>0, <2>1, BoundsAssumption DEF Budgets
  <2>. QED BY <1>0, <2>1, <2>2, ServedKinds
<1>11. CASE OthersTestEnds
  <2>1. UNCHANGED <<clientVars, down, shut, budget>>
    BY <1>11 DEF OthersTestEnds
  <2>. QED BY <1>0, <2>1, ServedKinds
<1>12. ASSUME NEW i, ServerMoves(i) PROVE Kinds'
  <2>1. UNCHANGED <<clientVars, down, shut, budget>>
    BY <1>12 DEF ServerMoves
  <2>. QED BY <1>0, <2>1, ServedKinds
<1>. QED
  BY <1>2, <1>3, <1>4, <1>5, <1>6, <1>7, <1>8, <1>9, <1>10, <1>11, <1>12 DEF ServerStep, Environment

LEMMA InitKinds == Init => Kinds
<1>1. SizeMod \in Nat \ {0}
  BY DEF SizeMod
<1>. QED BY <1>1, BoundsAssumption DEF Init, Kinds, NewTest, Getters, Budgets

LEMMA NextKinds ==
  Inv /\ OptionsInv /\ StreamsInv /\ StreamsInv' /\ BytesInv /\ Kinds /\ [Next]_vars => Kinds'
<1>. SUFFICES ASSUME Inv, OptionsInv, StreamsInv, StreamsInv', BytesInv, Kinds, [Next]_vars PROVE Kinds'
  OBVIOUS
<1>1. CASE UdpRefused
  <2>1. UNCHANGED <<test, gTest, down, shut, budget>> /\ pc' = "idle" /\ ret' = "fail"
    BY <1>1 DEF UdpRefused, Fail
  <2>. QED BY <2>1 DEF Kinds
<1>2. CASE UNCHANGED vars
  BY <1>2 DEF Kinds, vars, clientVars, serverVars
<1>. QED BY <1>1, <1>2, LaunchKinds, MessageKinds, ReadingKinds, TurnKinds, StepKinds
         DEF Next, ClientStep, BytesInv

-----------------------------------------------------------------------------
(* The messages to the server *)

\* The server says something that the client does not take for a refusal.
Refusing == {End, Byte(ACCESS_DENIED), Byte(SERVER_ERROR)}
Speaks(d) == d # <<>> /\ Head(d) \notin Refusing

\* QueueInv: no message but one is under way to the server, and none when it
\* has answered the last or the client waits for the test to begin or end.
Short(q) == q = <<>> \/ q = <<q[1]>>
QueueInv ==
  /\ \A n \in Launches : Short(up[n])
  /\ Active /\ (Speaks(down[launch]) \/ test.state \in {CREATE_STREAMS, TEST_START, TEST_RUNNING}) =>
       up[launch] = <<>>

LEMMA ShortIs ==
  ASSUME NEW q, Short(q)
  PROVE  Len(q) <= 1 /\ Short(Tail(q)) /\ (q # <<>> => Tail(q) = <<>>)
<1>1. CASE q = <<>>
  <2>1. Len(<<>>) = 0 /\ Tail(<<>>) = <<>>
    OBVIOUS
  <2>. QED BY <1>1, <2>1 DEF Short
<1>2. CASE q = <<q[1]>>
  <2>1. \A m : Len(<<m>>) = 1 /\ Tail(<<m>>) = <<>>
    OBVIOUS
  <2>2. Len(q) = 1 /\ Tail(q) = <<>>
    BY <1>2, <2>1, Zenon
  <2>. QED BY <2>2 DEF Short
<1>. QED BY <1>1, <1>2 DEF Short

LEMMA ShortAppend == ASSUME NEW q, q = <<>>, NEW m PROVE Short(Append(q, m))
<1>1. Append(<<>>, m) = <<m>> /\ <<m>>[1] = m
  OBVIOUS
<1>. QED BY <1>1 DEF Short

\* A step of the client that writes nothing, or writes and waits.
LEMMA QueueKept ==
  ASSUME Inv, QueueInv, UNCHANGED launch,
         \/ /\ UNCHANGED up
            /\ Active' /\ (Speaks(down'[launch]) \/ test'.state \in {CREATE_STREAMS, TEST_START, TEST_RUNNING})
                 => up[launch] = <<>>
         \/ /\ \E m : up' = [up EXCEPT ![launch] = Append(@, m)]
            /\ up[launch] = <<>>
            /\ Active' => /\ ~Speaks(down'[launch])
                          /\ test'.state \notin {CREATE_STREAMS, TEST_START, TEST_RUNNING}
  PROVE  QueueInv'
<1>0. DOMAIN up = Launches
  BY DEF Inv, Shape
<1>1. CASE UNCHANGED up
  BY <1>1 DEF QueueInv, Short, Speaks, Refusing
<1>2. ASSUME NEW m, up' = [up EXCEPT ![launch] = Append(@, m)], up[launch] = <<>>,
             Active' => /\ ~Speaks(down'[launch])
                        /\ test'.state \notin {CREATE_STREAMS, TEST_START, TEST_RUNNING}
      PROVE  QueueInv'
  <2>1. ASSUME NEW n \in Launches PROVE Short(up'[n])
    <3>1. CASE n = launch
      BY <1>0, <1>2, <3>1, ShortAppend
    <3>2. CASE n # launch
      BY <1>2, <3>2 DEF QueueInv
    <3>. QED BY <3>1, <3>2
  <2>2. ~(Active' /\ (Speaks(down'[launch']) \/ test'.state \in {CREATE_STREAMS, TEST_START, TEST_RUNNING}))
    BY <1>2
  <2>3. Speaks(down'[launch']) <=> Speaks(down[launch])'
    BY DEF Speaks, Refusing
  <2>. QED BY <2>1, <2>2, <2>3 DEF QueueInv, Short
<1>. QED BY <1>1, <1>2

\* The client finds a byte that is none of the refusals: the server has read
\* what the client wrote, and has no more to say but the end.
LEMMA HandledQueue ==
  ASSUME Inv, QueueInv, NEW m \in {PARAM_EXCHANGE, CREATE_STREAMS, TEST_START, TEST_RUNNING,
                                   EXCHANGE_RESULTS, DISPLAY_RESULTS}, Handle(m)
  PROVE  /\ Active /\ UNCHANGED launch /\ up[launch] = <<>>
         /\ m # TEST_START => ~Speaks(down'[launch])
<1>1. /\ Waiting /\ Incoming = m /\ Active /\ launch' = launch /\ pc = "select"
      /\ down'[launch] = Tail(down[launch])
  BY Handled
<1>2. down[launch] # <<>> /\ Head(down[launch]).v = m /\ Head(down[launch]).is = "byte"
  BY <1>1 DEF Waiting, Incoming
<1>3. End.v = 11 /\ Byte(ACCESS_DENIED).v = 255 /\ Byte(SERVER_ERROR).v = 254
      /\ Byte(TEST_START).v = 1
  BY Messages DEF End
<1>4. Speaks(down[launch])
  BY <1>2, <1>3 DEF Speaks, Refusing
<1>5. up[launch] = <<>>
  BY <1>1, <1>4 DEF QueueInv
<1>6. ASSUME m # TEST_START PROVE down'[launch] \in {<<>>, <<End>>}
  <2>1. Left(<<>>) \/ Left(<<End>>)
    BY <1>1, <1>6, OnByte DEF Inv
  <2>. QED BY <1>1, <2>1 DEF Left
<1>7. ~Speaks(<<>>) /\ ~Speaks(<<End>>)
  <2>1. Head(<<End>>) = End
    OBVIOUS
  <2>. QED BY <2>1 DEF Speaks, Refusing
<1>. QED BY <1>1, <1>5, <1>6, <1>7

LEMMA MessageQueue == Inv /\ QueueInv /\ OnMessage => QueueInv'
<1>. SUFFICES ASSUME Inv, QueueInv, OnMessage PROVE QueueInv'
  OBVIOUS
<1>0. DOMAIN test = {"options", "state", "bytes_sent", "timer", "stats_timer"}
  BY DEF Inv, Shape
<1>1. CASE OnParamExchange
  <2>1. /\ Handle(PARAM_EXCHANGE) /\ test' = [test EXCEPT !.state = PARAM_EXCHANGE]
        /\ UNCHANGED up \/ \E m : up' = [up EXCEPT ![launch] = Append(@, m)]
    BY <1>1 DEF OnParamExchange, SetState, NwriteFails, Nwrite
  <2>2. Active /\ UNCHANGED launch /\ up[launch] = <<>> /\ ~Speaks(down'[launch])
    BY <2>1, HandledQueue
  <2>. QED BY <1>0, <2>1, <2>2, QueueKept
<1>2. CASE OnCreateStreams \/ OnCreateUdpStreams
  <2>1. Handle(CREATE_STREAMS) /\ UNCHANGED up
    BY <1>2 DEF OnCreateStreams, OnCreateUdpStreams
  <2>2. UNCHANGED launch /\ up[launch] = <<>>
    BY <2>1, HandledQueue
  <2>. QED BY <2>1, <2>2, QueueKept
<1>3. CASE OnTestStart
  <2>1. Handle(TEST_START) /\ UNCHANGED up
    BY <1>3 DEF OnTestStart
  <2>2. UNCHANGED launch /\ up[launch] = <<>>
    BY <2>1, HandledQueue
  <2>. QED BY <2>1, <2>2, QueueKept
<1>4. CASE OnTestRunning
  <2>1. Handle(TEST_RUNNING) /\ UNCHANGED up
    BY <1>4 DEF OnTestRunning
  <2>2. UNCHANGED launch /\ up[launch] = <<>>
    BY <2>1, HandledQueue
  <2>. QED BY <2>1, <2>2, QueueKept
<1>5. CASE OnExchangeResults
  <2>1. /\ Handle(EXCHANGE_RESULTS) /\ test' = [test EXCEPT !.state = EXCHANGE_RESULTS]
        /\ UNCHANGED up \/ \E m : up' = [up EXCEPT ![launch] = Append(@, m)]
    BY <1>5 DEF OnExchangeResults, SetState, NwriteFails, Nwrite
  <2>2. Active /\ UNCHANGED launch /\ up[launch] = <<>> /\ ~Speaks(down'[launch])
    BY <2>1, HandledQueue
  <2>. QED BY <1>0, <2>1, <2>2, QueueKept
<1>6. CASE OnDisplayResults
  <2>1. /\ Handle(DISPLAY_RESULTS) /\ pc' \in {"crashed", "idle"}
        /\ UNCHANGED up \/ \E m : up' = [up EXCEPT ![launch] = Append(@, m)]
    BY <1>6 DEF OnDisplayResults, Nwrite
  <2>2. UNCHANGED launch /\ up[launch] = <<>> /\ ~Active'
    BY <2>1, HandledQueue DEF Active
  <2>. QED BY <2>1, <2>2, QueueKept
<1>7. CASE OnRefusal \/ OnClosed
  <2>1. UNCHANGED <<launch, up>> /\ pc' = "idle"
    BY <1>7 DEF OnRefusal, OnClosed, Handle, Fail
  <2>. QED BY <2>1, QueueKept DEF Active
<1>. QED BY <1>1, <1>2, <1>3, <1>4, <1>5, <1>6, <1>7 DEF OnMessage

LEMMA ReadingQueue == Inv /\ QueueInv /\ (ReadResults \/ ReadGarbage) => QueueInv'
<1>. SUFFICES ASSUME Inv, QueueInv, ReadResults \/ ReadGarbage PROVE QueueInv'
  OBVIOUS
<1>1. UNCHANGED <<launch, test, up>> /\ Active /\ pc = "results" /\ launch \in Launches
      /\ DOMAIN down = Launches
  BY DEF ReadResults, ReadGarbage, Active, Inv, Shape, Launches
<1>2. test.state = EXCHANGE_RESULTS
  BY <1>1 DEF Inv, ClientInv, Pending, LastWords
<1>3. CASE ReadGarbage
  <2>1. down'[launch] = <<>>
    BY <1>1, <1>3 DEF ReadGarbage
  <2>. QED BY <1>1, <1>2, <2>1, QueueKept DEF Speaks
<1>4. CASE ReadResults
  <2>1. down[launch] # <<>> /\ Head(down[launch]).is = "results"
    BY <1>4 DEF ReadResults
  <2>2. End.is = "byte" /\ Byte(ACCESS_DENIED).is = "byte" /\ Byte(SERVER_ERROR).is = "byte"
    BY Messages DEF End
  <2>3. Speaks(down[launch])
    BY <2>1, <2>2 DEF Speaks, Refusing
  <2>4. up[launch] = <<>>
    BY <1>1, <2>3 DEF QueueInv
  <2>. QED BY <1>1, <2>4, QueueKept
<1>. QED BY <1>3, <1>4

LEMMA TurnQueue == Inv /\ QueueInv /\ RunBody => QueueInv'
<1>. SUFFICES ASSUME Inv, QueueInv, RunBody PROVE QueueInv'
  OBVIOUS
<1>1. /\ Active /\ test.state = TEST_RUNNING /\ UNCHANGED <<launch, down>>
      /\ down[launch] = <<>> \/ down[launch] = <<End>>
      /\ UNCHANGED up \/ (up' = [up EXCEPT ![launch] = Append(@, Byte(TEST_END))] /\ test'.state = TEST_END)
  BY Turn
<1>2. up[launch] = <<>>
  BY <1>1 DEF QueueInv
<1>3. ~Speaks(down[launch])
  <2>1. Head(<<End>>) = End
    OBVIOUS
  <2>. QED BY <1>1, <2>1 DEF Speaks, Refusing
<1>. QED BY <1>1, <1>2, <1>3, QueueKept

\* A message that the server takes, or leaves, and what it says.
LEMMA ServedQueue ==
  ASSUME Inv, QueueInv, UNCHANGED clientVars, NEW n \in Launches,
         \/ up' = [up EXCEPT ![n] = Tail(@)] /\ up[n] # <<>>
         \/ UNCHANGED up,
         \/ UNCHANGED down
         \/ n # launch /\ down'[launch] = down[launch]
         \/ n = launch /\ up' = [up EXCEPT ![n] = Tail(@)] /\ up[n] # <<>>
         \/ n = launch /\ UNCHANGED up /\ Active /\ test.state \in {CREATE_STREAMS, TEST_START, TEST_RUNNING}
         \/ n = launch /\ UNCHANGED up /\ (Active /\ Speaks(down'[launch]) => Speaks(down[launch]))
  PROVE  QueueInv'
<1>0. DOMAIN up = Launches /\ UNCHANGED <<launch, test>> /\ (Active' <=> Active)
  BY DEF Inv, Shape, clientVars, Active
<1>1. ASSUME NEW k \in Launches PROVE Short(up'[k]) /\ (up[k] = <<>> => up'[k] = <<>>)
  <2>1. Short(up[k])
    BY DEF QueueInv
  <2>2. CASE UNCHANGED up
    BY <2>1, <2>2
  <2>3. CASE up' = [up EXCEPT ![n] = Tail(@)] /\ up[n] # <<>>
    <3>1. CASE k = n
      BY <1>0, <2>1, <2>3, <3>1, ShortIs
    <3>2. CASE k # n
      BY <2>1, <2>3, <3>2
    <3>. QED BY <3>1, <3>2
  <2>. QED BY <2>2, <2>3
<1>2. ASSUME up' = [up EXCEPT ![n] = Tail(@)], up[n] # <<>> PROVE up'[n] = <<>>
  <2>1. Short(up[n])
    BY DEF QueueInv
  <2>. QED BY <1>0, <1>2, <2>1, ShortIs
<1>3. launch \in Launches \/ ~Active
  BY DEF Inv, Shape, Launches, Active
<1>4. ASSUME Active, Speaks(down'[launch]) \/ test.state \in {CREATE_STREAMS, TEST_START, TEST_RUNNING}
      PROVE  up'[launch] = <<>>
  <2>1. CASE n = launch /\ up' = [up EXCEPT ![n] = Tail(@)] /\ up[n] # <<>>
    BY <1>2, <2>1
  <2>2. ASSUME Speaks(down[launch]) \/ test.state \in {CREATE_STREAMS, TEST_START, TEST_RUNNING}
        PROVE  up'[launch] = <<>>
    <3>1. up[launch] = <<>>
      BY <1>4, <2>2 DEF QueueInv
    <3>. QED BY <1>1, <1>3, <1>4, <3>1
  <2>. QED BY <1>4, <2>1, <2>2
<1>5. Speaks(down'[launch']) <=> Speaks(down[launch])'
  BY DEF Speaks, Refusing
<1>6. Active' /\ (Speaks(down[launch])' \/ test'.state \in {CREATE_STREAMS, TEST_START, TEST_RUNNING})
        => up'[launch'] = <<>>
  BY <1>0, <1>4, <1>5
<1>. QED BY <1>1, <1>6 DEF QueueInv, Short

LEMMA StepQueue == Inv /\ OptionsInv /\ QueueInv /\ (ServerStep \/ Environment) => QueueInv'
<1>. SUFFICES ASSUME Inv, OptionsInv, QueueInv, ServerStep \/ Environment PROVE QueueInv'
  OBVIOUS
<1>. DEFINE s == server.session
<1>0. DOMAIN down = Launches /\ DOMAIN up = Launches
  BY DEF Inv, Shape
<1>1. ASSUME NEW n \in Launches, ServerAccepts(n) PROVE QueueInv'
  <2>1. /\ UNCHANGED clientVars /\ n \in Unaccepted
        /\ \/ up' = [up EXCEPT ![n] = Tail(@)]
           \/ UNCHANGED up /\ down' = [down EXCEPT ![n] = <<Byte(ACCESS_DENIED)>>]
        /\ n # launch => down'[launch] = down[launch]
    <3>1. UNCHANGED clientVars /\ n \in Unaccepted
      BY <1>1 DEF ServerAccepts
    <3>2. \/ up' = [up EXCEPT ![n] = Tail(@)] /\ down' = [down EXCEPT ![n] = <<Byte(PARAM_EXCHANGE)>>]
          \/ UNCHANGED up /\ down' = [down EXCEPT ![n] = <<Byte(ACCESS_DENIED)>>]
      BY <1>1 DEF ServerAccepts
    <3>3. launch \in Launches
      BY <1>1, <3>1 DEF Unaccepted, Inv, Shape, Launches
    <3>4. n # launch => down'[launch] = down[launch]
      BY <1>0, <3>2, <3>3
    <3>. QED BY <3>1, <3>2, <3>4
  <2>2. up[n] # <<>>
    BY <2>1 DEF Unaccepted
  <2>3. ASSUME n = launch, down' = [down EXCEPT ![n] = <<Byte(ACCESS_DENIED)>>] PROVE ~Speaks(down'[launch])
    <3>1. down'[launch] = <<Byte(ACCESS_DENIED)>>
      BY <1>0, <2>3
    <3>. QED BY <3>1 DEF Speaks, Refusing
  <2>. QED BY <2>1, <2>2, <2>3, ServedQueue
<1>2. CASE ServerParams \/ ServerTestEnd \/ ServerResults \/ ServerDone
  <2>1. /\ UNCHANGED clientVars /\ s \in Launches /\ up[s] # <<>>
        /\ up' = [up EXCEPT ![s] = Tail(@)]
    BY <1>2 DEF ServerParams, ServerTestEnd, ServerResults, ServerDone, Serving, Received1, Take
  <2>2. s # launch => down'[launch] = down[launch]
    <3>1. CASE ServerParams
      <4>1. \E q : down' = [down EXCEPT ![s] = @ \o q]
        BY <3>1 DEF ServerParams, Say
      <4>. QED BY <4>1
    <3>2. CASE ServerTestEnd
      BY <3>2 DEF ServerTestEnd, Say
    <3>3. CASE ServerResults
      <4>1. UNCHANGED down \/ \E q : down' = [down EXCEPT ![s] = @ \o q]
        BY <3>3 DEF ServerResults, Say
      <4>2. launch \in Launches
        BY <2>1 DEF Inv, Shape, Launches, Other
      <4>3. CASE UNCHANGED down
        BY <4>3
      <4>4. CASE \E q : down' = [down EXCEPT ![s] = @ \o q]
        BY <1>0, <4>2, <4>4
      <4>. QED BY <4>1, <4>3, <4>4
    <3>4. CASE ServerDone
      BY <3>4 DEF ServerDone
    <3>. QED BY <1>2, <3>1, <3>2, <3>3, <3>4
  <2>. QED BY <2>1, <2>2, ServedQueue
<1>3. CASE ServerAcceptsStream
  <2>1. /\ UNCHANGED <<clientVars, up>> /\ s \in Launches /\ server.phase = "streams"
        /\ \E q : Say(q)
    BY <1>3 DEF ServerAcceptsStream, Serving
  <2>2. s # launch => down'[launch] = down[launch]
    BY <2>1 DEF Say
  <2>3. ASSUME s = launch, Active, Speaks(down'[launch])
        PROVE  test.state = CREATE_STREAMS \/ Speaks(down[launch])
    <3>1. Joint
      BY <2>1, <2>3 DEF Inv, ClientInv
    <3>2. CASE down[launch] = <<Byte(CREATE_STREAMS)>>
      <4>1. End.v = 11 /\ Byte(ACCESS_DENIED).v = 255 /\ Byte(SERVER_ERROR).v = 254
            /\ Byte(CREATE_STREAMS).v = 10
        BY Messages DEF End
      <4>. QED BY <3>2, <4>1 DEF Speaks, Refusing
    <3>. QED BY <2>1, <3>1, <3>2 DEF Joint
  <2>4. CASE s # launch
    BY <2>1, <2>2, <2>4, ServedQueue
  <2>5. CASE s = launch /\ Active /\ test.state = CREATE_STREAMS
    BY <2>1, <2>5, ServedQueue
  <2>6. CASE s = launch /\ ~(Active /\ test.state = CREATE_STREAMS)
    BY <2>1, <2>3, <2>6, ServedQueue
  <2>. QED BY <2>4, <2>5, <2>6
<1>4. CASE ServerTerminates
  <2>1. UNCHANGED <<clientVars, up>> /\ s \in Launches /\ down' = [down EXCEPT ![s] = @ \o <<End>>]
    BY <1>4 DEF ServerTerminates, Say, End
  <2>2. s # launch => down'[launch] = down[launch]
    BY <2>1
  <2>3. ASSUME s = launch, Active, Speaks(down'[launch]) PROVE Speaks(down[launch])
    <3>1. ~shut[launch]
      BY <2>1, <2>3 DEF Inv, ServerInv
    <3>2. Pending(down[launch])
      BY <2>3, <3>1 DEF Inv, ClientInv
    <3>3. down'[launch] = down[launch] \o <<End>>
      BY <1>0, <2>1, <2>3
    <3>4. down[launch] = <<>> \/ (\E a : down[launch] = <<a>>) \/ (\E a, b : down[launch] = <<a, b>>)
      BY <3>2 DEF Pending
    <3>5. CASE down[launch] = <<>>
      <4>1. down'[launch] = <<End>> /\ Head(<<End>>) = End
        BY <3>3, <3>5, Tuples
      <4>. QED BY <2>3, <4>1 DEF Speaks, Refusing
    <3>6. ASSUME NEW a, down[launch] = <<a>> PROVE Speaks(down[launch])
      <4>1. Head(down'[launch]) = Head(down[launch]) /\ down[launch] # <<>>
        BY <3>3, <3>6, Tuples
      <4>. QED BY <2>3, <4>1 DEF Speaks, Refusing
    <3>7. ASSUME NEW a, NEW b, down[launch] = <<a, b>> PROVE Speaks(down[launch])
      <4>1. down'[launch] = <<a, b, End>>
        BY <3>3, <3>7, TwoAndOne
      <4>2. Head(down'[launch]) = Head(down[launch]) /\ down[launch] # <<>>
        BY <3>7, <4>1, Tuples
      <4>. QED BY <2>3, <4>2 DEF Speaks, Refusing
    <3>. QED BY <3>4, <3>5, <3>6, <3>7
  <2>. QED BY <2>1, <2>2, <2>3, ServedQueue
<1>5. ASSUME UNCHANGED <<clientVars, up, down>> PROVE QueueInv'
  BY <1>5 DEF QueueInv, clientVars, Active, Short, Speaks, Refusing
<1>6. CASE ConnectionLost \/ ServerHangs \/ OthersTest \/ OthersTestEnds
  BY <1>5, <1>6 DEF ConnectionLost, ServerHangs, OthersTest, OthersTestEnds
<1>7. ASSUME NEW i, ServerMoves(i) PROVE QueueInv'
  BY <1>5, <1>7 DEF ServerMoves
<1>. QED BY <1>1, <1>2, <1>3, <1>4, <1>6, <1>7 DEF ServerStep, Environment

LEMMA LaunchQueue == Inv /\ QueueInv /\ Launch => QueueInv'
<1>. SUFFICES ASSUME Inv, QueueInv, Launch PROVE QueueInv'
  OBVIOUS
<1>0. /\ launch' = launch + 1 /\ launch' \in Launches /\ UNCHANGED down /\ DOMAIN up = Launches
      /\ test'.state = 0 /\ down[launch'] = <<>>
  <2>1. launch' = launch + 1 /\ launch' \in Launches /\ UNCHANGED down /\ test'.state = 0
    <3>1. launch' = launch + 1 /\ launch < MaxLaunches /\ UNCHANGED down
      BY DEF Launch, LaunchReturns, LaunchConnects
    <3>2. \E o : test' = NewTest(o)
      BY DEF Launch, LaunchReturns, LaunchConnects
    <3>3. launch' \in Launches
      BY <3>1, BoundsAssumption DEF Inv, Shape, Launches
    <3>. QED BY <3>1, <3>2, <3>3 DEF NewTest
  <2>. QED BY <2>1 DEF Inv, Shape
<1>1. \A n \in Launches : Short(up'[n])
  <2>1. UNCHANGED up \/ \E m : up' = [up EXCEPT ![launch'] = <<m>>]
    <3>1. CASE LaunchReturns
      BY <3>1 DEF LaunchReturns
    <3>2. CASE LaunchConnects
      BY <3>2 DEF LaunchConnects
    <3>. QED BY <3>1, <3>2 DEF Launch
  <2>2. \A m : Short(<<m>>)
    BY DEF Short
  <2>3. \A n \in Launches : Short(up[n])
    BY DEF QueueInv
  <2>. QED BY <1>0, <2>1, <2>2, <2>3
<1>2. ~(Speaks(down[launch])' \/ test'.state \in {CREATE_STREAMS, TEST_START, TEST_RUNNING})
  BY <1>0 DEF Speaks
<1>. QED BY <1>1, <1>2 DEF QueueInv, Short

LEMMA InitQueue == Init => QueueInv
BY DEF Init, QueueInv, Short, Active

LEMMA NextQueue == Inv /\ OptionsInv /\ QueueInv /\ [Next]_vars => QueueInv'
<1>. SUFFICES ASSUME Inv, OptionsInv, QueueInv, [Next]_vars PROVE QueueInv'
  OBVIOUS
<1>1. CASE UdpRefused
  <2>1. UNCHANGED <<launch, up>> /\ pc' = "idle"
    BY <1>1 DEF UdpRefused, Fail
  <2>. QED BY <2>1, QueueKept DEF Active
<1>2. CASE UNCHANGED vars
  BY <1>2 DEF QueueInv, vars, clientVars, Active, Short, Speaks, Refusing
<1>. QED BY <1>1, <1>2, LaunchQueue, MessageQueue, ReadingQueue, TurnQueue, StepQueue
         DEF Next, ClientStep

\* Every variable keeps its kind of value: the messages are bytes, the totals
\* counts, the counters within their bounds, for all the constants.
THEOREM ClientTypes == Spec => []TypeOK
<1>1. ASSUME Inv, StreamsInv, SocketsInv, Kinds, QueueInv PROVE TypeOK
  <2>1. \A n \in Launches : Len(up[n]) <= 2
    <3>1. ASSUME NEW n \in Launches PROVE Len(up[n]) <= 2
      <4>1. Short(up[n])
        BY <1>1 DEF QueueInv
      <4>2. up[n] = <<>> \/ up[n] = <<up[n][1]>>
        BY <4>1 DEF Short
      <4>3. Len(<<>>) = 0 /\ \A m : Len(<<m>>) = 1
        OBVIOUS
      <4>4. Len(up[n]) = 0 \/ Len(up[n]) = 1
        BY <4>2, <4>3, Zenon
      <4>5. \A k : k = 0 \/ k = 1 => k <= 2
        OBVIOUS
      <4>. QED BY <4>4, <4>5, Zenon
    <3>. QED BY <3>1
  <2>2. \A n \in Launches : \A i \in DOMAIN down[n] : down[n][i].is = "byte" => down[n][i].v \in 0 .. 255
    <3>1. ASSUME NEW n \in Launches, NEW i \in DOMAIN down[n], down[n][i].is = "byte"
          PROVE  down[n][i].v \in 0 .. 255
      <4>1. down[n] \in Seq(Speech)
        BY <1>1 DEF Kinds
      <4>2. down[n][i] \in Speech
        BY <3>1, <4>1
      <4>. QED BY <3>1, <4>2 DEF Speech
    <3>. QED BY <3>1
  <2>3. launch \in 0 .. MaxLaunches /\ server.session \in Launches \cup {0, Other}
    BY <1>1, BoundsAssumption DEF Inv, Shape, Launches
  <2>4. /\ Len(server.streams) <= MAX_STREAMS /\ sockets \in [Launches -> 0 .. MAX_STREAMS + 1]
        /\ budget.faults \in 0 .. MaxFaults /\ budget.others \in 0 .. MaxOthers
    BY <1>1 DEF StreamsInv, ServerHas, SocketsInv, Kinds, Budgets
  <2>. QED BY <1>1, <2>1, <2>2, <2>3, <2>4 DEF TypeOK, Kinds, Getters
<1>2. Init => BytesInv /\ Kinds /\ QueueInv
  BY InitBytes, InitKinds, InitQueue
<1>3. Inv /\ OptionsInv /\ StreamsInv /\ SocketsInv /\ StreamsInv' /\ BytesInv /\ Kinds /\ QueueInv
        /\ [Next]_vars
        => BytesInv' /\ Kinds' /\ QueueInv'
  BY NextBytes, NextKinds, NextQueue
<1>. QED BY <1>1, <1>2, <1>3, Invariants, PTL DEF Spec
-----------------------------------------------------------------------------
(* Neither end waits for the other *)

\* The streams that the server of the client's test has still to accept.
Owed == test.options.num_streams - Len(server.streams)

\* FlowInv: what a server that the client waits for has still to take.
FlowInv ==
  server.session = launch /\ Active =>
    /\ server.phase = "params" /\ test.state = PARAM_EXCHANGE => up[launch] # <<>>
    /\ server.phase = "running" /\ test.state = TEST_END =>
         up[launch] # <<>> /\ Head(up[launch]) = Byte(TEST_END)
    /\ server.phase = "results" /\ test.state = EXCHANGE_RESULTS => up[launch] # <<>>
    /\ server.phase = "streams" /\ test.state = CREATE_STREAMS =>
         /\ Owed <= Len(backlog) /\ (test.options.num_streams # 0 => Owed > 0)
         /\ \A i \in 1 .. Len(backlog) : i > Len(backlog) - Owed => backlog[i] = launch

\* A step of the client writes, comes to a state in which the server waits for
\* nothing, or ends the test.
LEMMA WritesFlow ==
  ASSUME Inv, launch \in Launches, UNCHANGED <<launch, server>>,
         \/ ~Active'
         \/ test'.state \in {TEST_START, TEST_RUNNING}
         \/ /\ test'.state \in {PARAM_EXCHANGE, EXCHANGE_RESULTS}
            /\ \E m : up' = [up EXCEPT ![launch] = Append(@, m)] /\ up[launch] = <<>>
         \/ /\ test'.state = TEST_END
            /\ up' = [up EXCEPT ![launch] = Append(@, Byte(TEST_END))] /\ up[launch] = <<>>
  PROVE  FlowInv'
<1>1. CASE ~Active' \/ test'.state \in {TEST_START, TEST_RUNNING}
  BY <1>1 DEF FlowInv
<1>2. ASSUME NEW m, up' = [up EXCEPT ![launch] = Append(@, m)], up[launch] = <<>>
      PROVE  up'[launch] # <<>> /\ Head(up'[launch]) = m
  <2>1. up'[launch] = Append(<<>>, m)
    BY <1>2 DEF Inv, Shape
  <2>2. up'[launch] = <<m>>
    BY <2>1, Tuples
  <2>. QED BY <2>2, Tuples
<1>3. CASE /\ test'.state \in {PARAM_EXCHANGE, EXCHANGE_RESULTS}
           /\ \E m : up' = [up EXCEPT ![launch] = Append(@, m)] /\ up[launch] = <<>>
  <2>1. up'[launch] # <<>>
    BY <1>2, <1>3
  <2>. QED BY <1>3, <2>1 DEF FlowInv
<1>4. CASE /\ test'.state = TEST_END
           /\ up' = [up EXCEPT ![launch] = Append(@, Byte(TEST_END))] /\ up[launch] = <<>>
  <2>1. up'[launch] # <<>> /\ Head(up'[launch]) = Byte(TEST_END)
    BY <1>2, <1>4
  <2>2. Byte(TEST_END)' = Byte(TEST_END)
    BY DEF Byte
  <2>. QED BY <1>4, <2>1, <2>2 DEF FlowInv
<1>. QED BY <1>1, <1>3, <1>4

\* As many connections wait as the client has streams, behind those of others.
LEMMA CreatedFlow == Inv /\ StreamsInv /\ OnCreateStreams => FlowInv'
<1>. SUFFICES ASSUME Inv, StreamsInv, OnCreateStreams PROVE FlowInv'
  OBVIOUS
<1>. SUFFICES ASSUME Active', server.session = launch, server.phase = "streams" PROVE FlowInv'
  <2>1. Handle(CREATE_STREAMS) /\ test' = [test EXCEPT !.state = CREATE_STREAMS]
    BY DEF OnCreateStreams, SetState
  <2>2. UNCHANGED <<launch, server>> /\ test'.state = CREATE_STREAMS
    BY <2>1, Handled DEF Inv, Shape
  <2>. QED BY <2>2 DEF FlowInv
<1>. DEFINE n == test.options.num_streams
            own == [s \in 1 .. n |-> launch]
            total == Len(backlog)
<1>1. Handle(CREATE_STREAMS) /\ test' = [test EXCEPT !.state = CREATE_STREAMS]
  BY DEF OnCreateStreams, SetState
<1>2. /\ UNCHANGED <<launch, server>> /\ Active /\ launch \in Launches /\ launch # 0 /\ Waiting
      /\ Incoming = CREATE_STREAMS
  BY <1>1, Handled
<1>3. test.state = PARAM_EXCHANGE
  BY <1>2, OnByte DEF Inv
<1>4. server.streams = <<>> /\ Len(<<>>) = 0
  BY <1>2, <1>3 DEF StreamsInv, ServerHas, Serving
<1>5. backlog' = backlog \o own
  BY DEF OnCreateStreams, Opened, Fail, Active
<1>6. /\ backlog \in Seq(1 .. launch) /\ own \in Seq(1 .. launch) /\ Len(own) = n
      /\ n \in Nat /\ total \in Nat
  BY <1>2 DEF Inv, Shape
<1>7. /\ Len(backlog') = total + n
      /\ \A i \in 1 .. total + n : backlog'[i] = IF i <= total THEN backlog[i] ELSE own[i - total]
  <2>. HIDE DEF own
  <2>. QED BY <1>5, <1>6, ConcatProperties
<1>8. test'.options = test.options /\ test'.state = CREATE_STREAMS
  BY <1>1 DEF Inv, Shape
<1>9. Owed' = n
  BY <1>2, <1>4, <1>6, <1>8 DEF Owed
<1>10. ASSUME NEW i \in 1 .. Len(backlog'), i > Len(backlog') - n PROVE backlog'[i] = launch
  <2>1. i \in 1 .. total + n /\ i > total /\ i - total \in 1 .. n
    BY <1>6, <1>7, <1>10
  <2>. QED BY <1>7, <2>1
<1>11. Owed' <= Len(backlog') /\ (n # 0 => Owed' > 0)
  BY <1>6, <1>7, <1>9
<1>. HIDE DEF n, own, total
<1>12. \A i \in 1 .. Len(backlog') : i > Len(backlog') - Owed' => backlog'[i] = launch
  BY <1>9, <1>10
<1>13. (test.options.num_streams # 0)' <=> n # 0
  BY <1>8 DEF n
<1>. QED BY <1>2, <1>8, <1>11, <1>12, <1>13 DEF FlowInv

LEMMA MessageFlow == Inv /\ StreamsInv /\ QueueInv /\ OnMessage => FlowInv'
<1>. SUFFICES ASSUME Inv, StreamsInv, QueueInv, OnMessage PROVE FlowInv'
  OBVIOUS
<1>0. DOMAIN test = {"options", "state", "bytes_sent", "timer", "stats_timer"}
  BY DEF Inv, Shape
<1>1. CASE OnParamExchange
  <2>1. /\ Handle(PARAM_EXCHANGE) /\ test' = [test EXCEPT !.state = PARAM_EXCHANGE]
        /\ pc' = "idle" \/ \E m : up' = [up EXCEPT ![launch] = Append(@, m)]
    BY <1>1 DEF OnParamExchange, SetState, NwriteFails, Nwrite, Fail
  <2>2. UNCHANGED <<launch, server>> /\ launch \in Launches
    BY <2>1, Handled
  <2>3. up[launch] = <<>>
    BY <2>1, HandledQueue
  <2>. QED BY <1>0, <2>1, <2>2, <2>3, WritesFlow DEF Active
<1>2. CASE OnCreateStreams
  BY <1>2, CreatedFlow
<1>3. CASE OnCreateUdpStreams
  BY <1>3 DEF OnCreateUdpStreams, FlowInv, Active
<1>4. CASE OnTestStart \/ OnTestRunning
  <2>1. Handle(TEST_START) \/ Handle(TEST_RUNNING)
    BY <1>4 DEF OnTestStart, OnTestRunning
  <2>2. UNCHANGED <<launch, server>> /\ launch \in Launches
    BY <2>1, Handled
  <2>3. test'.state \in {TEST_START, TEST_RUNNING}
    BY <1>0, <1>4 DEF OnTestStart, OnTestRunning, SetState
  <2>. QED BY <2>2, <2>3, WritesFlow
<1>5. CASE OnExchangeResults
  <2>1. /\ Handle(EXCHANGE_RESULTS) /\ test' = [test EXCEPT !.state = EXCHANGE_RESULTS]
        /\ pc' = "idle" \/ \E m : up' = [up EXCEPT ![launch] = Append(@, m)]
    BY <1>5 DEF OnExchangeResults, SetState, NwriteFails, Nwrite, Fail
  <2>2. UNCHANGED <<launch, server>> /\ launch \in Launches
    BY <2>1, Handled
  <2>3. up[launch] = <<>>
    BY <2>1, HandledQueue
  <2>. QED BY <1>0, <2>1, <2>2, <2>3, WritesFlow DEF Active
<1>6. CASE OnDisplayResults \/ OnRefusal \/ OnClosed
  <2>1. pc' \in {"idle", "crashed"}
    BY <1>6 DEF OnDisplayResults, OnRefusal, OnClosed, Fail
  <2>. QED BY <2>1 DEF FlowInv, Active
<1>. QED BY <1>1, <1>2, <1>3, <1>4, <1>5, <1>6 DEF OnMessage

LEMMA ReadingFlow == Inv /\ FlowInv /\ (ReadResults \/ ReadGarbage) => FlowInv'
<1>. SUFFICES ASSUME Inv, FlowInv, ReadResults \/ ReadGarbage PROVE FlowInv'
  OBVIOUS
<1>1. UNCHANGED <<launch, test, up, server, backlog>> /\ Active /\ pc = "results"
  BY DEF ReadResults, ReadGarbage, Active, serverVars
<1>2. test.state = EXCHANGE_RESULTS
  BY <1>1 DEF Inv, ClientInv, Pending, LastWords
<1>. QED BY <1>1, <1>2 DEF FlowInv

LEMMA TurnFlow == Inv /\ RunBody => FlowInv'
<1>. SUFFICES ASSUME Inv, RunBody PROVE FlowInv'
  OBVIOUS
<1>. SUFFICES ASSUME server.session = launch, server.phase = "running" PROVE FlowInv'
  <2>1. UNCHANGED <<launch, server>> /\ test'.state \in {TEST_RUNNING, TEST_END}
    BY Turn
  <2>. QED BY <2>1 DEF FlowInv
<1>1. /\ launch \in Launches /\ UNCHANGED <<launch, server>> /\ up[launch] = <<>>
      /\ \/ pc' = "idle"
         \/ test'.state = TEST_RUNNING
         \/ test'.state = TEST_END /\ up' = [up EXCEPT ![launch] = Append(@, Byte(TEST_END))]
  BY Turn
<1>. QED BY <1>1, WritesFlow DEF Active

LEMMA LaunchFlow == Inv /\ Launch => FlowInv'
<1>. SUFFICES ASSUME Inv, Launch PROVE FlowInv'
  OBVIOUS
<1>1. launch' = launch + 1 /\ UNCHANGED server
  BY DEF Launch, LaunchReturns, LaunchConnects, serverVars
<1>2. server.session # launch'
  BY <1>1, BoundsAssumption DEF Inv, Shape, Other
<1>. QED BY <1>1, <1>2 DEF FlowInv

\* The server accepts a stream: one fewer is owed when it is the client's, and
\* as many as before wait behind it otherwise.
LEMMA AcceptedFlow == Inv /\ OptionsInv /\ StreamsInv /\ FlowInv /\ ServerAcceptsStream => FlowInv'
<1>. SUFFICES ASSUME Inv, OptionsInv, StreamsInv, FlowInv, ServerAcceptsStream PROVE FlowInv'
  OBVIOUS
<1>. DEFINE s == server.session
            own == Head(backlog) = s
            new == iperf_add_stream(server.streams, iperf_new_stream(0))
            list == IF own THEN new ELSE server.streams
            num == server.options.num_streams
            full == own /\ Len(list) = num
            total == Len(backlog)
<1>1. /\ s \in Launches /\ server.phase = "streams" /\ backlog # <<>> /\ backlog' = Tail(backlog)
      /\ UNCHANGED <<pc, launch, test>>
      /\ server' = [server EXCEPT !.streams = list, !.phase = IF full THEN "running" ELSE @]
  BY DEF ServerAcceptsStream, Serving, clientVars
<1>2. /\ backlog[1] = Head(backlog) /\ total \in Nat /\ total >= 1
      /\ Len(backlog') = total - 1
      /\ \A i \in 1 .. Len(backlog') : backlog'[i] = backlog[i + 1]
  <2>1. backlog \in Seq(1 .. launch)
    BY DEF Inv, Shape
  <2>. QED BY <1>1, <2>1, EmptySeq
<1>3. server.streams \in Seq(Stream) /\ Len(server.streams) \in Nat
  BY DEF StreamsInv, ServerHas
<1>4. Len(new) = Len(server.streams) + 1
  <2>1. iperf_new_stream(0) \in Stream
    BY NewStreamType
  <2>. QED BY <1>3, <2>1, AddStream
<1>. HIDE DEF new
<1>5. /\ server'.session = s /\ server'.streams = list
      /\ server'.phase = IF full THEN "running" ELSE "streams"
  BY <1>1 DEF Inv, Shape
<1>6. Active' <=> Active
  BY <1>1 DEF Active
<1>7. SUFFICES ASSUME s = launch, Active, test.state = CREATE_STREAMS, ~full
               PROVE  (/\ Owed <= Len(backlog) /\ (test.options.num_streams # 0 => Owed > 0)
                       /\ \A i \in 1 .. Len(backlog) : i > Len(backlog) - Owed => backlog[i] = launch)'
  <2>1. Active /\ s = launch /\ test.state = TEST_END => FALSE
    <3>1. s = launch /\ Active => Joint
      BY <1>1 DEF Inv, ClientInv
    <3>. QED BY <1>1, <3>1 DEF Joint
  <2>. QED BY <1>1, <1>5, <1>6, <1>7, <2>1 DEF FlowInv
<1>8. /\ Owed <= total /\ (test.options.num_streams # 0 => Owed > 0)
      /\ \A i \in 1 .. total : i > total - Owed => backlog[i] = launch
  BY <1>1, <1>7 DEF FlowInv
<1>9. test.options.num_streams = num /\ num \in Nat
  <2>1. Knows(server.options, test.options)
    BY <1>1, <1>7 DEF OptionsInv, Phases
  <2>2. num \in Nat
    BY DEF OptionsInv, Within, Options
  <2>. QED BY <2>1, <2>2 DEF Knows
<1>10. /\ Owed = num - Len(server.streams) /\ Owed' = num - Len(list)
       /\ Owed \in Int /\ Owed' \in Int
  <2>1. Len(list) \in Nat
    BY <1>3, <1>4
  <2>2. Owed = num - Len(server.streams) /\ Owed' = num - Len(list)
    BY <1>1, <1>5, <1>9 DEF Owed
  <2>. QED BY <1>3, <1>9, <2>1, <2>2
<1>11. own => num # 0 /\ Owed' = Owed - 1 /\ Owed' > 0
  <2>1. ASSUME own PROVE num # 0 /\ Owed' = Owed - 1 /\ Owed' > 0
    <3>1. \E i \in 1 .. total : backlog[i] = s
      <4>1. 1 \in 1 .. total /\ backlog[1] = s
        BY <1>2, <2>1
      <4>. QED BY <4>1
    <3>2. Len(server.streams) < num
      BY <1>1, <3>1 DEF StreamsInv, ServerHas, Serving
    <3>3. Len(list) = Len(server.streams) + 1 /\ Len(list) # num
      BY <1>4, <1>7, <2>1
    <3>. QED BY <1>3, <1>9, <1>10, <3>2, <3>3
  <2>. QED BY <2>1
<1>12. ~own => Owed' = Owed /\ Owed <= total - 1
  <2>1. ASSUME ~own PROVE Owed' = Owed /\ Owed <= total - 1
    <3>1. Owed' = Owed
      BY <1>10, <2>1
    <3>2. ~(1 > total - Owed)
      <4>1. 1 \in 1 .. total /\ backlog[1] # launch
        BY <1>2, <1>7, <2>1
      <4>. QED BY <1>8, <4>1
    <3>. QED BY <1>2, <1>10, <3>1, <3>2
  <2>. QED BY <2>1
<1>13. Owed' \in {Owed, Owed - 1} /\ Owed' <= total - 1
  BY <1>2, <1>8, <1>10, <1>11, <1>12
<1>14. ASSUME NEW i \in 1 .. Len(backlog'), i > Len(backlog') - Owed' PROVE backlog'[i] = launch
  <2>1. i + 1 \in 1 .. total /\ i + 1 > total - Owed
    BY <1>2, <1>10, <1>13, <1>14
  <2>. QED BY <1>2, <1>8, <2>1
<1>15. test.options.num_streams # 0 => Owed' > 0
  BY <1>8, <1>11, <1>12
<1>. QED BY <1>1, <1>2, <1>13, <1>14, <1>15

LEMMA StepFlow ==
  Inv /\ OptionsInv /\ StreamsInv /\ FlowInv /\ (ServerStep \/ Environment) => FlowInv'
<1>. SUFFICES ASSUME Inv, OptionsInv, StreamsInv, FlowInv, ServerStep \/ Environment PROVE FlowInv'
  OBVIOUS
<1>. DEFINE s == server.session
<1>0. /\ UNCHANGED clientVars /\ UNCHANGED <<launch, test>> /\ (Active' <=> Active)
      /\ Active => launch # 0 /\ launch # Other
  <2>1. UNCHANGED clientVars
    BY DEF ServerStep, Environment, ServerAccepts, ServerParams, ServerAcceptsStream, ServerMoves,
           ServerTestEnd, ServerResults, ServerDone, ServerTerminates, ConnectionLost, ServerHangs,
           OthersTest, OthersTestEnds
  <2>2. Active => launch # 0 /\ launch # Other
    BY BoundsAssumption DEF Active, Inv, Shape, Other
  <2>. QED BY <2>1, <2>2 DEF clientVars, Active
<1>1. ASSUME NEW n \in Launches, ServerAccepts(n) PROVE FlowInv'
  <2>1. Active /\ AtTheDoor
    <3>1. Unaccepted # {} /\ server.phase # "hung"
      BY <1>1 DEF ServerAccepts
    <3>. QED BY <3>1, NoneAtTheDoor DEF Inv
  <2>2. test'.state = 0
    BY <1>0, <2>1 DEF AtTheDoor
  <2>. QED BY <2>2 DEF FlowInv
<1>2. ASSUME server'.session \in {0, Other} PROVE FlowInv'
  BY <1>0, <1>2 DEF FlowInv
<1>3. CASE ServerDone \/ ServerTerminates \/ ConnectionLost \/ OthersTestEnds \/ OthersTest
  <2>1. CASE ServerDone \/ ServerTerminates \/ ConnectionLost \/ OthersTestEnds
    <3>1. server'.session = 0
      BY <2>1 DEF ServerDone, ServerTerminates, ConnectionLost, OthersTestEnds, FreeServer
    <3>. QED BY <1>2, <3>1
  <2>2. CASE OthersTest
    <3>1. server'.session = Other
      BY <2>2 DEF OthersTest, Inv, Shape
    <3>. QED BY <1>2, <3>1
  <2>. QED BY <1>3, <2>1, <2>2
<1>4. CASE ServerParams
  <2>1. s \in Launches /\ server.phase = "params" /\ up[s] # <<>>
    BY <1>4 DEF ServerParams, Serving, Received1
  <2>2. server'.session = 0 \/ (server'.session = s /\ server'.phase = "streams")
    <3>1. \/ \E o : server' = FreeServer(o)
          \/ \E o : server' = [server EXCEPT !.options = o, !.phase = "streams"]
      BY <1>4 DEF ServerParams
    <3>2. DOMAIN server = {"session", "phase", "options", "streams"}
      BY DEF Inv, Shape
    <3>3. ASSUME NEW o, server' = FreeServer(o) PROVE server'.session = 0
      BY <3>3 DEF FreeServer
    <3>4. ASSUME NEW o, server' = [server EXCEPT !.options = o, !.phase = "streams"]
          PROVE  server'.session = s /\ server'.phase = "streams"
      BY <3>2, <3>4
    <3>. QED BY <3>1, <3>3, <3>4
  <2>3. s = launch /\ Active => test.state = PARAM_EXCHANGE
    <3>1. s = launch /\ Active => Joint
      BY <2>1 DEF Inv, ClientInv
    <3>. QED BY <2>1, <3>1 DEF Joint
  <2>. QED BY <1>0, <1>2, <2>2, <2>3 DEF FlowInv
<1>5. CASE ServerTestEnd
  <2>1. s \in Launches /\ server.phase = "running" /\ up[s] # <<>>
    BY <1>5 DEF ServerTestEnd, Serving, Received1
  <2>2. server'.session = s /\ server'.phase = "results"
    BY <1>5 DEF ServerTestEnd, Inv, Shape
  <2>3. s = launch /\ Active => test.state = TEST_END
    <3>1. s = launch /\ Active => Joint
      BY <2>1 DEF Inv, ClientInv
    <3>. QED BY <2>1, <3>1 DEF Joint
  <2>. QED BY <1>0, <2>2, <2>3 DEF FlowInv
<1>6. CASE ServerResults
  <2>1. server'.session = 0 \/ server'.phase = "display"
    <3>1. \/ \E o : server' = FreeServer(o)
          \/ \E list : server' = [server EXCEPT !.streams = list, !.phase = "display"]
      BY <1>6 DEF ServerResults
    <3>2. DOMAIN server = {"session", "phase", "options", "streams"}
      BY DEF Inv, Shape
    <3>3. ASSUME NEW o, server' = FreeServer(o) PROVE server'.session = 0
      BY <3>3 DEF FreeServer
    <3>4. ASSUME NEW o, server' = [server EXCEPT !.streams = o, !.phase = "display"]
          PROVE  server'.session = s /\ server'.phase = "display"
      BY <3>2, <3>4
    <3>. QED BY <3>1, <3>3, <3>4
  <2>. QED BY <1>2, <2>1 DEF FlowInv
<1>7. CASE ServerAcceptsStream
  BY <1>7, AcceptedFlow
<1>8. ASSUME NEW i, ServerMoves(i) PROVE FlowInv'
  <2>1. /\ server.phase = "running" /\ UNCHANGED up
        /\ server'.phase = server.phase /\ server'.session = s
    BY <1>8 DEF ServerMoves, Serving, Inv, Shape
  <2>2. Byte(TEST_END)' = Byte(TEST_END)
    BY DEF Byte
  <2>. QED BY <1>0, <2>1, <2>2 DEF FlowInv
<1>9. CASE ServerHangs
  <2>1. server'.phase = "hung"
    BY <1>9 DEF ServerHangs, Inv, Shape
  <2>. QED BY <2>1 DEF FlowInv
<1>. QED BY <1>1, <1>3, <1>4, <1>5, <1>6, <1>7, <1>8, <1>9 DEF ServerStep, Environment

LEMMA NextFlow ==
  Inv /\ OptionsInv /\ StreamsInv /\ QueueInv /\ FlowInv /\ [Next]_vars => FlowInv'
<1>. SUFFICES ASSUME Inv, OptionsInv, StreamsInv, QueueInv, FlowInv, [Next]_vars PROVE FlowInv'
  OBVIOUS
<1>1. CASE UdpRefused
  BY <1>1 DEF UdpRefused, Fail, FlowInv, Active
<1>2. CASE UNCHANGED vars
  BY <1>2 DEF FlowInv, vars, clientVars, serverVars, Active, Owed, Byte
<1>. QED BY <1>1, <1>2, LaunchFlow, MessageFlow, ReadingFlow, TurnFlow, StepFlow
         DEF Next, ClientStep

\* Each state that both ends are in together leaves one of them something to do.
LEMMA FlowActs == Inv /\ StreamsInv /\ FlowInv => SomeoneActs
<1>. SUFFICES ASSUME Inv, StreamsInv, FlowInv, Active, server.phase # "hung", test.options.num_streams # 0,
                     ~shut[launch]
              PROVE  SomeoneActs
  BY DEF SomeoneActs, Active
<1>1. launch \in Launches /\ launch \in 1 .. launch
  BY BoundsAssumption DEF Active, Inv, Shape, Launches
<1>2. CASE server.session # launch
  <2>1. AtTheDoor
    BY <1>2 DEF Inv, ClientInv
  <2>2. up[launch] # <<>> /\ Head(up[launch]).is = "cookie"
    BY <2>1, Tuples, Messages DEF AtTheDoor
  <2>3. launch \in Unaccepted
    BY <1>1, <2>2 DEF Unaccepted
  <2>. QED BY <2>3 DEF SomeoneActs
<1>3. CASE server.session = launch
  <2>1. Joint /\ Pending(down[launch])
    BY <1>3 DEF Inv, ClientInv
  <2>2. ASSUME down[launch] # <<>>, pc = "select" PROVE Waiting
    <3>1. Head(down[launch]) \in {Byte(k) : k \in {PARAM_EXCHANGE, CREATE_STREAMS, TEST_START,
                                                  TEST_RUNNING, EXCHANGE_RESULTS, DISPLAY_RESULTS}}
      BY <2>1, <2>2, Tuples DEF Pending
    <3>2. \A k \in 0 .. 16 : Byte(k).is = "byte"
      BY Messages
    <3>. QED BY <2>2, <3>1, <3>2 DEF Waiting
  <2>3. CASE down[launch] # <<>>
    BY <2>2, <2>3 DEF SomeoneActs, Active
  <2>4. ASSUME down[launch] = <<>> PROVE SomeoneActs
    <3>1. \/ server.phase = "params" /\ test.state = PARAM_EXCHANGE
          \/ server.phase = "streams" /\ test.state = CREATE_STREAMS
          \/ server.phase = "running" /\ test.state = TEST_RUNNING
          \/ server.phase = "running" /\ test.state = TEST_END
          \/ server.phase = "results" /\ test.state = EXCHANGE_RESULTS
      BY <2>1, <2>4, NotEmpty DEF Joint
    <3>2. Next1(up[launch], Expected[server.phase])
      BY <1>1, <1>3 DEF Inv, ServerInv
    <3>3. up[launch] # <<>> => Head(up[launch]).is \in Expected[server.phase]
      BY <3>2, Tuples DEF Next1
    <3>4. CASE server.phase = "params" /\ test.state = PARAM_EXCHANGE
      <4>1. up[launch] # <<>>
        BY <1>3, <3>4 DEF FlowInv
      <4>2. Serving("params") /\ Received1("params")
        BY <1>1, <1>3, <3>3, <3>4, <4>1, ExpectedIs DEF Serving, Received1
      <4>. QED BY <4>2 DEF SomeoneActs
    <3>5. CASE server.phase = "streams" /\ test.state = CREATE_STREAMS
      <4>1. Owed <= Len(backlog) /\ Owed > 0 /\ Len(backlog) \in Nat
        BY <1>3, <3>5 DEF FlowInv, Inv, Shape
      <4>. Owed \in Int
        BY DEF Owed, Inv, Shape, StreamsInv, ServerHas
      <4>2. Len(<<>>) = 0
        OBVIOUS
      <4>3. backlog # <<>>
        <5>1. ASSUME Len(backlog) = 0 PROVE FALSE
          BY <4>1, <5>1
        <5>. QED BY <4>2, <5>1
      <4>. QED BY <1>1, <1>3, <3>5, <4>3 DEF SomeoneActs, Serving
    <3>6. CASE server.phase = "running" /\ test.state = TEST_RUNNING
      <4>1. pc \in {"select", "body"}
        BY <2>1, <3>6 DEF Pending
      <4>. QED BY <3>6, <4>1 DEF SomeoneActs
    <3>7. CASE server.phase = "running" /\ test.state = TEST_END
      <4>1. up[launch] # <<>> /\ Head(up[launch]) = Byte(TEST_END)
        BY <1>3, <3>7 DEF FlowInv
      <4>2. Serving("running") /\ Received1("byte")
        BY <1>1, <1>3, <3>3, <3>7, <4>1, ExpectedIs DEF Serving, Received1
      <4>. QED BY <1>3, <4>1, <4>2 DEF SomeoneActs
    <3>8. CASE server.phase = "results" /\ test.state = EXCHANGE_RESULTS
      <4>1. up[launch] # <<>>
        BY <1>3, <3>8 DEF FlowInv
      <4>2. Serving("results") /\ Received1("results")
        BY <1>1, <1>3, <3>3, <3>8, <4>1, ExpectedIs DEF Serving, Received1
      <4>. QED BY <4>2 DEF SomeoneActs
    <3>. QED BY <3>1, <3>4, <3>5, <3>6, <3>7, <3>8
  <2>. QED BY <2>3, <2>4
<1>. QED BY <1>2, <1>3

\* Client and server never wait for each other, whatever the command line and
\* whoever used the server before: what one waits for is on its way, or the
\* other end has what it needs to send it.
THEOREM NoneWaitsForEver == Spec => []SomeoneActs
<1>1. Init => QueueInv /\ FlowInv
  BY InitQueue DEF Init, FlowInv, Active
<1>2. Inv /\ OptionsInv /\ StreamsInv /\ QueueInv /\ FlowInv /\ [Next]_vars => QueueInv' /\ FlowInv'
  BY NextQueue, NextFlow
<1>3. Inv /\ StreamsInv /\ FlowInv => SomeoneActs
  BY FlowActs
<1>. QED BY <1>1, <1>2, <1>3, Invariants, PTL DEF Spec
=============================================================================
