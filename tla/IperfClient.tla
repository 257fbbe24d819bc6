----------------------------- MODULE IperfClient ------------------------------
(***************************************************************************)
(* A bandwidth test from the phone (main.c, iperf_client_api.c): each      *)
(* launch connects to an iperf server, follows its messages on a control   *)
(* connection, sends or receives on TCP streams, and keeps the totals in   *)
(* gTest.  The handlers a server runs are those of iperf_api.c and         *)
(* iperf_tcp.c; the loop that calls them is not in the repository.  UDP    *)
(* streams are in IperfUdp.                                                *)
(***************************************************************************)
EXTENDS IperfStream, FiniteSets

CONSTANTS
  ArgLists,    \* the command lines a run tries
  MaxLaunches, \* tests that are started, one after the other
  MaxBlocks,   \* blocks a stream carries in one test
  MaxFaults,   \* failures of the network and of the server
  MaxOthers    \* tests of other clients on the same server
ASSUME BoundsAssumption ==
  /\ MaxLaunches \in Nat \ {0} /\ MaxBlocks \in Nat \ {0}
  /\ MaxFaults \in Nat /\ MaxOthers \in Nat
ASSUME ArgsAssumption == ArgLists \subseteq Seq(Word)

VARIABLES
  pc,      \* where the calling thread is
  launch,  \* launches so far; also the number of the current connection
  ret,     \* how the last launch ended
  i_errno,
  test,    \* options, state, bytes_sent and timers of the current test
  streams, \* of the current test
  gTest,   \* what the getters of main.c read
  sockets, \* sockets of each launch that nobody has closed
  up,      \* control connection of each launch, to the server
  down,    \* ... and to the client
  shut,    \* connections that the server has closed
  backlog, \* stream connections the server has not accepted: their cookies
  server,  \* session (a launch, 0 or Other), phase, options and streams
  budget,  \* faults and tests of others so far
  answered \* ghost: the lines of results the server sent last

clientVars == <<pc, launch, ret, i_errno, test, streams, gTest, sockets>>
serverVars == <<server, backlog, answered>>
vars == <<clientVars, serverVars, up, down, shut, budget>>

\* Messages of the control connection: one byte each.
TEST_START       == 1
TEST_RUNNING     == 2
TEST_END         == 4
PARAM_EXCHANGE   == 9
CREATE_STREAMS   == 10
SERVER_TERMINATE == 11
EXCHANGE_RESULTS == 13
DISPLAY_RESULTS  == 14
IPERF_DONE       == 16
ACCESS_DENIED    == -1
SERVER_ERROR     == -2

SignedByte(state) == [is |-> "byte", v |-> state] \* slip: as the peer wrote it
Byte(state) == [is |-> "byte", v |-> state % 256]
Data(kind, v) == [is |-> kind, v |-> v]

Launches == 1 .. MaxLaunches
Other == -1
NULL == [total_sent |-> -1, total_recv |-> -1, total_time |-> -1]
NewTest(options) ==
  [options |-> options, state |-> 0, bytes_sent |-> 0, timer |-> FALSE, stats_timer |-> FALSE]
FreeServer(options) == [session |-> 0, phase |-> "idle", options |-> options, streams |-> <<>>]

Init ==
  /\ pc = "idle" /\ launch = 0 /\ ret = "none" /\ i_errno = "IENONE"
  /\ test = NewTest(iperf_defaults) /\ streams = <<>> /\ gTest = NULL
  /\ sockets = [n \in Launches |-> 0]
  /\ up = [n \in Launches |-> <<>>] /\ down = [n \in Launches |-> <<>>]
  /\ shut = [n \in Launches |-> FALSE] /\ backlog = <<>>
  /\ server = FreeServer([iperf_defaults EXCEPT !.role = "s"])
  /\ budget = [faults |-> 0, others |-> 0] /\ answered = <<>>

Fault == budget.faults < MaxFaults /\ budget' = [budget EXCEPT !.faults = @ + 1]

\* A run that ends without success: main_launch gives NULL to its caller, and
\* neither frees the test nor closes its sockets.
Fail(error) == pc' = "idle" /\ ret' = "fail" /\ i_errno' = error

\* Nwrite fails only on a connection the other side has closed, and need not.
Nwrite(m) == up' = [up EXCEPT ![launch] = Append(@, m)]
NwriteFails(error) == shut[launch] /\ Fail(error) /\ UNCHANGED up
-----------------------------------------------------------------------------
(* launchBandwidthTest, main_launch and iperf_connect *)

Parsed == {iperf_parse_arguments(args) : args \in ArgLists}

\* The last test is freed and a new one made; the command line may end it.
LaunchReturns ==
  \E r \in Parsed :
    /\ pc = "idle" /\ launch < MaxLaunches
    /\ r.ret = "error" \/ r.test.role # "c" \* iperf_run prints its usage for a server
    /\ launch' = launch + 1 /\ test' = NewTest(r.test) /\ streams' = <<>>
    /\ ret' = IF r.ret = "error" THEN "fail" ELSE "ok"
    /\ gTest' = IF r.ret = "error" THEN NULL
                ELSE [total_sent |-> 0, total_recv |-> 0, total_time |-> 0]
    /\ i_errno' = IF r.err = "usage" THEN i_errno ELSE r.err
    /\ UNCHANGED <<pc, sockets, up, down, shut, serverVars, budget>>

\* netdial makes a socket and connects it; it does not close it when that fails.
netdial(fails) ==
  /\ sockets' = [sockets EXCEPT ![launch'] = 1]
  /\ IF fails THEN Fault ELSE UNCHANGED budget

\* A cookie is random; it is its launch here, so that no two are the same.
make_cookie == Data("cookie", launch')

LaunchConnects ==
  \E r \in Parsed :
    /\ pc = "idle" /\ launch < MaxLaunches
    /\ r.ret = "ok" /\ r.test.role = "c"
    /\ launch' = launch + 1
    /\ test' = NewTest(r.test) /\ streams' = <<>> /\ gTest' = NULL
    /\ \/ /\ netdial(FALSE)
          /\ up' = [up EXCEPT ![launch'] = <<make_cookie>>]
          /\ pc' = "select" /\ ret' = "none"
          /\ UNCHANGED i_errno
       \/ netdial(TRUE) /\ (Fail("IECONNECT") \/ Fail("IESENDCOOKIE")) /\ UNCHANGED up
    /\ UNCHANGED <<down, shut, serverVars>>
-----------------------------------------------------------------------------
(* iperf_handle_message_client: one action for each case *)

Waiting == pc = "select" /\ down[launch] # <<>> /\ Head(down[launch]).is = "byte"
Incoming == Head(down[launch]).v

\* One byte is read into the low byte of the int test->state.
Handle(state) ==
  /\ Waiting /\ Incoming = state
  /\ down' = [down EXCEPT ![launch] = Tail(@)]
  /\ UNCHANGED <<launch, shut, server, answered>>

SetState(state) == test' = [test EXCEPT !.state = state]

OnParamExchange ==
  /\ Handle(PARAM_EXCHANGE)
  /\ SetState(PARAM_EXCHANGE)
  /\ \/ Nwrite(Data("params", package_parameters(test.options))) /\ UNCHANGED <<pc, ret, i_errno>>
     \/ NwriteFails("IESENDPARAMS")
  /\ UNCHANGED <<streams, gTest, sockets, backlog, budget>>

\* What can fail in iperf_tcp_connect and iperf_new_stream.
StreamErrors(o) ==
  {"IESTREAMCONNECT", "IESENDCOOKIE", "IECREATESTREAM", "IEINITSTREAM"}
    \cup {e \in {"IESETNODELAY"} : o.no_delay # 0} \cup {e \in {"IESETMSS"} : o.mss # 0}
    \cup {e \in {"IESETBUF"} : o.socket_bufsize # 0} \cup {e \in {"IESETTOS"} : o.tos # 0}

\* iperf_create_streams: a connection, its cookie and a stream, as often as
\* the test has streams.  When one fails, the sockets so far stay open.
OpenedFewer(k) == \* slip: the loop starts at 1
  /\ streams' = FoldLeft(LAMBDA list, s : iperf_add_stream(list, iperf_new_stream(s)),
                         streams, [s \in 1 .. k - 1 |-> s])
  /\ backlog' = backlog \o [s \in 1 .. k - 1 |-> launch]
Opened(k) ==
  /\ streams' = FoldLeft(LAMBDA list, s : iperf_add_stream(list, iperf_new_stream(s)),
                         streams, [s \in 1 .. k |-> s])
  /\ backlog' = backlog \o [s \in 1 .. k |-> launch]

OnCreateStreams ==
  LET n == test.options.num_streams IN
  /\ test.options.protocol = "tcp"
  /\ Handle(CREATE_STREAMS)
  /\ SetState(CREATE_STREAMS)
  /\ \/ /\ Opened(n)
        /\ sockets' = [sockets EXCEPT ![launch] = @ + n]
        /\ UNCHANGED <<pc, ret, i_errno, budget>>
     \/ \E k \in 0 .. n - 1, e \in StreamErrors(test.options) :
          /\ Opened(k)
          /\ sockets' = [sockets EXCEPT ![launch] = @ + k + 1]
          /\ Fault
          /\ Fail(e)
  /\ UNCHANGED <<gTest, up>>

\* iperf_udp_connect sends its credentials and reads the answer.  A server of
\* this code has no UDP listener: the option -u does not reach it.
OnCreateUdpStreams ==
  /\ test.options.protocol = "udp"
  /\ Handle(CREATE_STREAMS)
  /\ SetState(CREATE_STREAMS)
  /\ sockets' = [sockets EXCEPT ![launch] = @ + 1]
  /\ pc' = "udp"
  /\ UNCHANGED <<ret, i_errno, streams, gTest, up, backlog, budget>>

\* The server's host may answer that the port is closed, or not at all.
UdpRefused ==
  /\ pc = "udp"
  /\ Fail("IESTREAMREAD")
  /\ UNCHANGED <<launch, test, streams, gTest, sockets, up, down, shut, serverVars, budget>>

\* iperf_init_test: a test bounded by bytes has no timer.
OnTestStart ==
  /\ Handle(TEST_START)
  /\ test' = [test EXCEPT !.state = TEST_START, !.timer = (test.options.bytes = 0),
                          !.stats_timer = (test.options.interval # 0)]
  /\ UNCHANGED <<pc, ret, i_errno, streams, gTest, sockets, up, backlog, budget>>

OnTestRunning ==
  /\ Handle(TEST_RUNNING)
  /\ SetState(TEST_RUNNING)
  /\ pc' = "body"
  /\ UNCHANGED <<ret, i_errno, streams, gTest, sockets, up, backlog, budget>>

\* iperf_exchange_results: write the own lines, then read those of the server.
OnExchangeResults ==
  /\ Handle(EXCHANGE_RESULTS)
  /\ SetState(EXCHANGE_RESULTS)
  /\ \/ /\ Nwrite(Data("results", Results(test.options, streams)))
        /\ pc' = "results"
        /\ UNCHANGED <<ret, i_errno>>
     \/ NwriteFails("IESENDRESULTS")
  /\ UNCHANGED <<streams, gTest, sockets, backlog, budget>>

CloseFirst == sockets' = [sockets EXCEPT ![launch] = @ - 1] \* slip: one stream only
CloseStreams == sockets' = [sockets EXCEPT ![launch] = @ - Len(streams)]

\* iperf_client_end: the streams are closed, the report sets the totals, and
\* the test is done whether or not the last message can be written.
OnDisplayResults ==
  /\ Handle(DISPLAY_RESULTS)
  /\ SetState(IPERF_DONE)
  /\ CloseStreams
  /\ IF ReportFollowsNull(streams)
     THEN pc' = "crashed" /\ UNCHANGED <<ret, gTest, up>>
     ELSE /\ gTest' = iperf_print_results(streams)
          /\ pc' = "idle" /\ ret' = "ok"
          /\ Nwrite(Byte(IPERF_DONE)) \/ (shut[launch] /\ UNCHANGED up)
  /\ UNCHANGED <<i_errno, streams, backlog, budget>>

\* Every other byte ends the run.  The state is an int and the message one
\* byte: no message is the state -1 or -2.
OnRefusal ==
  /\ Waiting
  /\ Incoming \notin {PARAM_EXCHANGE, CREATE_STREAMS, TEST_START, TEST_RUNNING,
                      EXCHANGE_RESULTS, DISPLAY_RESULTS, IPERF_DONE}
  /\ Handle(Incoming)
  /\ SetState(Incoming)
  /\ Fail(CASE Incoming = SERVER_TERMINATE -> "IESERVERTERM"
            [] Incoming = ACCESS_DENIED -> "IEACCESSDENIED"
            [] Incoming = SERVER_ERROR -> "the server's"
            [] OTHER -> "IEMESSAGE")
  /\ UNCHANGED <<streams, gTest, sockets, up, backlog, budget>>

\* The connection ends, or is reset and what was under way is lost.
OnClosed ==
  /\ pc = "select" /\ shut[launch]
  /\ Fail("IERECVMESSAGE") \/ (down[launch] = <<>> /\ Fail("IECTRLCLOSE"))
  /\ UNCHANGED <<launch, test, streams, gTest, sockets, up, down, shut, serverVars, budget>>
-----------------------------------------------------------------------------
(* iperf_exchange_results: the answer of the server *)

ReadResults ==
  /\ pc = "results"
  /\ down[launch] # <<>> /\ Head(down[launch]).is = "results"
  /\ \E r \in {parse_results(test.options, streams, Incoming)} :
        /\ streams' = r.streams
        /\ IF r.err = "IENONE" THEN pc' = "select" /\ UNCHANGED <<ret, i_errno>> ELSE Fail(r.err)
  /\ down' = [down EXCEPT ![launch] = Tail(@)]
  /\ UNCHANGED <<launch, test, gTest, sockets, up, shut, serverVars, budget>>

\* Nread gives back what came before the connection ended, which the caller
\* does not compare with what it asked for: the size and the text are then
\* what the memory held.  The memory may be too large to get, without a line
\* (strchr answers NULL), with a line of no stream, or the own results again.
ReadGarbage ==
  /\ pc = "results" /\ shut[launch]
  /\ down[launch] # <<>> => Head(down[launch]).is # "results"
  /\ \/ Fail("IERECVRESULTS") /\ UNCHANGED streams
     \/ pc' = "crashed" /\ UNCHANGED <<ret, i_errno, streams>>
     \/ Fail("IESTREAMID") /\ UNCHANGED streams
     \/ /\ pc' = "select"
        /\ streams' = parse_results(test.options, streams, Results(test.options, streams)).streams
        /\ UNCHANGED <<ret, i_errno>>
  /\ down' = [down EXCEPT ![launch] = <<>>]
  /\ UNCHANGED <<launch, test, gTest, sockets, up, shut, serverVars, budget>>
-----------------------------------------------------------------------------
(* iperf_run_client: the body of the loop while the test runs *)

SizeMod == 1024 * 1024 * 1024 \* stands for 2^64, above all the counts of a run

\* One block of a stream: snd writes it, rcv reads one the server has sent.
CanMove(i) ==
  IF Sends(test.options) THEN streams[i].bytes_sent < MaxBlocks * test.options.blksize
  ELSE /\ server.session = launch /\ i <= Len(server.streams)
       /\ streams[i].bytes_received < server.streams[i].bytes_sent

Moved(sp) ==
  IF Sends(test.options) THEN Sent(sp, test.options.blksize) ELSE Received(sp, test.options.blksize)

\* iperf_send and iperf_recv.  The result is kept without a sign, so that the
\* -1 of a broken stream is no error and is added to what was sent.
Transfer(blocks, broken) ==
  [streams |-> [i \in DOMAIN streams |-> IF i \in blocks THEN Moved(streams[i]) ELSE streams[i]],
   bytes_sent |-> (test.bytes_sent + test.options.blksize * Cardinality(blocks)
                     - Cardinality(broken)) % SizeMod]

\* The timers are read one after the other: stats, reporter, end of the test.
Body(blocks, broken, stats, report, timeUp) ==
  LET moved == Transfer(blocks, broken)
      counted == IF stats THEN iperf_stats_callback(test.options, moved.streams, 0)
                 ELSE moved.streams
      over == all_data_sent(test.options, moved.bytes_sent) \/ timeUp
  IN /\ IF report /\ ReportFollowsNull(counted)
        THEN pc' = "crashed" /\ UNCHANGED <<ret, i_errno, test, streams, up>>
        ELSE IF ~over
        THEN /\ pc' = "select"
             /\ streams' = counted
             /\ test' = [test EXCEPT !.bytes_sent = moved.bytes_sent]
             /\ UNCHANGED <<ret, i_errno, up>>
        ELSE /\ streams' = iperf_stats_callback(test.options, counted, 0)
             /\ test' = [test EXCEPT !.bytes_sent = moved.bytes_sent, !.state = TEST_END]
             /\ \/ Nwrite(Byte(TEST_END)) /\ pc' = "select" /\ UNCHANGED <<ret, i_errno>>
                \/ NwriteFails("IESENDMESSAGE")
     /\ UNCHANGED <<launch, gTest, sockets, down, shut, serverVars>>

If(guard) == IF guard THEN BOOLEAN ELSE {FALSE}

\* Streams break when the server has closed them, or by a fault of the network.
RunBody ==
  /\ \/ pc = "body"
     \/ pc = "select" /\ test.state = TEST_RUNNING /\ down[launch] = <<>> /\ ~shut[launch]
  /\ \E blocks \in SUBSET {i \in DOMAIN streams : CanMove(i)},
        broken \in SUBSET DOMAIN streams,
        stats \in If(test.stats_timer /\ Len(streams[1].interval_results) < MaxBlocks),
        report \in If(test.stats_timer), timeUp \in If(test.timer) :
       /\ blocks \cap broken = {} /\ Body(blocks, broken, stats, report, timeUp)
       /\ IF broken = {} \/ shut[launch] THEN UNCHANGED budget ELSE Fault
-----------------------------------------------------------------------------
(* The server: handlers of iperf_api.c and iperf_tcp.c, in the order of the *)
(* messages of an iperf server.                                             *)

Serving(phase) == server.session \in Launches /\ server.phase = phase
Received1(kind) == up[server.session] # <<>> /\ Head(up[server.session]).is = kind
Take == up' = [up EXCEPT ![server.session] = Tail(@)]
Say(messages) == down' = [down EXCEPT ![server.session] = @ \o messages]
Close(n) == shut' = [shut EXCEPT ![n] = TRUE]
Unaccepted == {n \in 1 .. launch : up[n] # <<>> /\ Head(up[n]).is = "cookie" /\ ~shut[n]}

\* A connection with a cookie starts a test; a busy server denies it.
ServerAccepts(n) ==
  /\ n \in Unaccepted /\ server.phase # "hung"
  /\ IF server.session = 0
     THEN /\ server' = [server EXCEPT !.session = n, !.phase = "params"]
          /\ up' = [up EXCEPT ![n] = Tail(@)]
          /\ down' = [down EXCEPT ![n] = <<Byte(PARAM_EXCHANGE)>>]
          /\ UNCHANGED shut
     ELSE /\ down' = [down EXCEPT ![n] = <<Byte(ACCESS_DENIED)>>]
          /\ Close(n)
          /\ UNCHANGED <<server, up>>
  /\ UNCHANGED <<clientVars, backlog, answered, budget>>

\* iperf_tcp_listen opens the listener anew when an option of the socket asks
\* for it: connections that wait at the old one are gone.
NewListener(o) == o.no_delay # 0 \/ o.mss # 0 \/ o.socket_bufsize # 0

ServerParams ==
  /\ Serving("params") /\ Received1("params")
  /\ Take
  /\ LET o == parse_parameters(server.options, Head(up[server.session]).v)
         lost == IF NewListener(o) THEN Unaccepted ELSE {}
     IN /\ backlog' = IF NewListener(o) THEN <<>> ELSE backlog
        /\ \/ /\ server' = [server EXCEPT !.options = o, !.phase = "streams"]
              /\ Say(<<Byte(CREATE_STREAMS)>>)
              /\ shut' = [n \in Launches |-> shut[n] \/ n \in lost]
              /\ UNCHANGED budget
           \/ /\ NewListener(o) /\ Fault
              /\ server' = FreeServer(iperf_reset_test(o))
              /\ Say(<<Byte(SERVER_ERROR), Data("number", "i_errno"), Data("number", "errno")>>)
              /\ shut' = [n \in Launches |-> shut[n] \/ n \in lost \/ n = server.session]
  /\ UNCHANGED <<clientVars, answered>>

\* iperf_tcp_accept closes a stream that shows another cookie (is_closed tells
\* the loop); the last one that is expected starts the test.
ServerAcceptsStream ==
  /\ Serving("streams") /\ backlog # <<>>
  /\ backlog' = Tail(backlog)
  /\ LET own == Head(backlog) = server.session
         list == IF own THEN iperf_add_stream(server.streams, iperf_new_stream(0))
                 ELSE server.streams
         full == own /\ Len(list) = server.options.num_streams
     IN /\ server' = [server EXCEPT !.streams = list, !.phase = IF full THEN "running" ELSE @]
        /\ Say(IF full THEN <<Byte(TEST_START), Byte(TEST_RUNNING)>> ELSE <<>>)
  /\ UNCHANGED <<clientVars, up, shut, answered, budget>>

\* A block on a stream of the client that is connected.
ServerMoves(i) ==
  LET o == server.options
      sp == server.streams[i]
  IN /\ Serving("running") /\ server.session = launch
     /\ i \in DOMAIN server.streams
     /\ \/ /\ ~Sends(o) /\ i <= Len(streams) /\ sp.bytes_received < streams[i].bytes_sent
           /\ server' = [server EXCEPT !.streams[i] = Received(sp, o.blksize)]
        \/ /\ Sends(o) /\ sp.bytes_sent < MaxBlocks * o.blksize
           /\ server' = [server EXCEPT !.streams[i] = Sent(sp, o.blksize)]
     /\ UNCHANGED <<clientVars, up, down, shut, backlog, answered, budget>>

\* Slip: the request to display the results does not wait for the exchange.
BothAtOnce ==
  /\ Serving("running") /\ Received1("byte") /\ Head(up[server.session]) = Byte(TEST_END)
  /\ Take
  /\ server' = [server EXCEPT !.phase = "results"]
  /\ Say(<<Byte(EXCHANGE_RESULTS), Byte(DISPLAY_RESULTS)>>)
  /\ UNCHANGED <<clientVars, shut, backlog, answered, budget>>

ServerTestEnd ==
  /\ Serving("running") /\ Received1("byte") /\ Head(up[server.session]) = Byte(TEST_END)
  /\ Take
  /\ server' = [server EXCEPT !.phase = "results"]
  /\ Say(<<Byte(EXCHANGE_RESULTS)>>)
  /\ UNCHANGED <<clientVars, shut, backlog, answered, budget>>

\* iperf_exchange_results of the server: read and parse, then write the own lines.
ServerResults ==
  /\ Serving("results") /\ Received1("results")
  /\ Take
  /\ \E r \in {parse_results(server.options, server.streams, Head(up[server.session]).v)} :
     \E lines \in {Results(server.options, r.streams)} :
        IF r.err = "IENONE"
        THEN /\ server' = [server EXCEPT !.streams = r.streams, !.phase = "display"]
             /\ Say(<<Data("results", lines), Byte(DISPLAY_RESULTS)>>)
             /\ answered' = lines
             /\ UNCHANGED shut
        ELSE /\ server' = FreeServer(iperf_reset_test(server.options))
             /\ Close(server.session)
             /\ UNCHANGED <<down, answered>>
  /\ UNCHANGED <<clientVars, backlog, budget>>

ServerDone ==
  /\ Serving("display") /\ Received1("byte") /\ Head(up[server.session]) = Byte(IPERF_DONE)
  /\ Take
  /\ server' = FreeServer(iperf_reset_test(server.options))
  /\ Close(server.session)
  /\ UNCHANGED <<clientVars, down, backlog, answered, budget>>

\* What the environment does to a test: an interrupt makes the server say so
\* and end (it comes back as a new process), the connection breaks, or the
\* server stays silent.
ServerTerminates ==
  /\ server.session \in Launches /\ server.phase # "hung" /\ Fault
  /\ Say(<<Byte(SERVER_TERMINATE)>>)
  /\ Close(server.session)
  /\ server' = FreeServer([iperf_defaults EXCEPT !.role = "s"])
  /\ backlog' = <<>>
  /\ UNCHANGED <<clientVars, up, answered>>

ConnectionLost ==
  /\ server.session \in Launches /\ server.phase # "hung" /\ Fault
  /\ Close(server.session)
  /\ server' = FreeServer(iperf_reset_test(server.options))
  /\ UNCHANGED <<clientVars, up, down, backlog, answered>>

ServerHangs ==
  /\ server.session \in Launches /\ server.phase # "hung" /\ Fault
  /\ server' = [server EXCEPT !.phase = "hung"]
  /\ UNCHANGED <<clientVars, up, down, shut, backlog, answered>>

\* Another client has a test on the same server, and finishes it.
OthersTest ==
  /\ server.session = 0 /\ budget.others < MaxOthers
  /\ budget' = [budget EXCEPT !.others = @ + 1]
  /\ \E r \in Parsed :
       /\ r.ret = "ok"
       /\ server' = [server EXCEPT !.session = Other, !.phase = "other",
                     !.options = parse_parameters(@, package_parameters(r.test))]
  /\ UNCHANGED <<clientVars, up, down, shut, backlog, answered>>

OthersTestEnds ==
  /\ server.session = Other
  /\ server' = FreeServer(iperf_reset_test(server.options))
  /\ UNCHANGED <<clientVars, up, down, shut, backlog, answered, budget>>
-----------------------------------------------------------------------------
Launch == LaunchReturns \/ LaunchConnects

OnMessage ==
  \/ OnParamExchange \/ OnCreateStreams \/ OnCreateUdpStreams \/ OnTestStart \/ OnTestRunning
  \/ OnExchangeResults \/ OnDisplayResults \/ OnRefusal \/ OnClosed

ClientStep == OnMessage \/ ReadResults \/ ReadGarbage \/ RunBody

ServerStep ==
  \/ \E n \in Launches : ServerAccepts(n)
  \/ ServerParams \/ ServerAcceptsStream \/ ServerTestEnd \/ ServerResults \/ ServerDone
  \/ \E i \in DOMAIN server.streams : ServerMoves(i)
  \/ OthersTestEnds

Environment == ServerTerminates \/ ConnectionLost \/ ServerHangs \/ OthersTest

Next == Launch \/ ClientStep \/ UdpRefused \/ ServerStep \/ Environment

Spec == Init /\ [][Next]_vars

\* The caller's thread and the server go on; a host need not answer for a
\* closed UDP port, and the server may fall silent (its phase is "hung").
FairSpec == Spec /\ WF_vars(ClientStep) /\ WF_vars(ServerStep)
-----------------------------------------------------------------------------
(* Properties *)

\* TypeOK: every variable keeps its kind of value, the message bytes are
\* bytes, the totals are counts or absent, and no counter passes its bound.
TypeOK ==
  /\ pc \in {"idle", "select", "body", "results", "udp", "crashed"}
  /\ launch \in 0 .. MaxLaunches /\ ret \in {"none", "ok", "fail"}
  /\ test.state \in 0 .. 255 /\ test.bytes_sent \in 0 .. SizeMod - 1
  /\ gTest \in [{"total_sent", "total_recv", "total_time"} -> Nat] \cup {NULL}
  /\ sockets \in [Launches -> 0 .. MAX_STREAMS + 1] /\ shut \in [Launches -> BOOLEAN]
  /\ \A n \in Launches : /\ \A i \in DOMAIN down[n] :
                               down[n][i].is = "byte" => down[n][i].v \in 0 .. 255
                         /\ Len(up[n]) <= 2
  /\ server.session \in Launches \cup {0, Other} /\ Len(server.streams) <= MAX_STREAMS
  /\ budget.faults \in 0 .. MaxFaults /\ budget.others \in 0 .. MaxOthers

\* What the server reads next in each phase, and what may follow each state of
\* the client on the control connection.
Expected == [params |-> {"params"}, streams |-> {}, running |-> {"byte"},
             results |-> {"results"}, display |-> {"byte"}]
Follows(state) ==
  CASE state = 0 -> {PARAM_EXCHANGE} [] state = PARAM_EXCHANGE -> {CREATE_STREAMS}
    [] state = CREATE_STREAMS -> {TEST_START} [] state = TEST_START -> {TEST_RUNNING}
    [] state = TEST_END -> {EXCHANGE_RESULTS} [] state = EXCHANGE_RESULTS -> {DISPLAY_RESULTS}
    [] OTHER -> {}
Refusals == {SERVER_TERMINATE, ACCESS_DENIED % 256, SERVER_ERROR % 256}

\* InStep: client and server never take a message for another one.  They have
\* no lengths and no tags to tell a byte from a text: what the server finds is
\* what its phase expects, and what the client finds is the successor of its
\* state or a refusal.
InStep ==
  /\ server.session \in Launches /\ server.phase # "hung" =>
       LET queue == up[server.session]
       IN queue = <<>> \/ (Len(queue) = 1 /\ queue[1].is \in Expected[server.phase])
  /\ Waiting => Incoming \in Follows(test.state) \cup Refusals
  /\ pc = "results" /\ down[launch] # <<>> =>
       Head(down[launch]) \in {Byte(SERVER_TERMINATE)} \cup [is : {"results"}, v : {answered}]

\* ResultsAreServers: after a test that succeeded the getters of main.c tell
\* what the server said it received (or sent, with -R), never the memory that
\* is read when the answer is cut short; and no more was received than sent.
ResultsAreServers ==
  ret = "ok" /\ streams # <<>> =>
    /\ gTest.total_recv <= gTest.total_sent
    /\ FoldLeft(LAMBDA sum, line : sum + line.bytes, 0, answered)
         = IF Sends(test.options) THEN gTest.total_recv ELSE gTest.total_sent

\* ServerKnowsTest: what the server runs once the options are exchanged, whoever
\* used it before.  The options that were sent are those of the client.  One that
\* is zero is not sent: the server then has its default, but for the bytes and the
\* tos, which iperf_reset_test keeps: these may be what an earlier client asked for,
\* and nothing else.  The protocol, whose word is lost, is always TCP.
AskedFor(member) == {0} \cup {r.test[member] : r \in Parsed}
ServerKnowsTest ==
  server.session = launch /\ launch # 0 /\ server.phase \notin {"params", "hung"} =>
    /\ server.options.protocol = "tcp"
    /\ \A member \in {"bytes", "tos"} : server.options[member] \in AskedFor(member)
    /\ \A member \in {"num_streams", "reverse", "socket_bufsize", "mss", "no_delay"} :
         server.options[member] = test.options[member]
    /\ \A member \in {"rate", "duration", "blksize", "bytes", "tos"} :
         test.options[member] # 0 => server.options[member] = test.options[member]
    /\ \A member \in {"rate", "duration", "blksize"} :
         test.options[member] = 0 => server.options[member] = iperf_defaults[member]

\* ReportsHaveIntervals: the report that follows a null pointer is the first
\* one of a test with -i, read as due before the statistics.  The last report
\* always finds an interval, since TEST_END records one.
ReportsHaveIntervals ==
  /\ pc = "crashed" /\ test.state = TEST_RUNNING => test.options.interval # 0
  /\ test.state \in {TEST_END, EXCHANGE_RESULTS, IPERF_DONE} => ~ReportFollowsNull(streams)

\* StreamsClosed: a test that succeeded leaves one socket open, that of its
\* control connection; nothing closes it, nor any socket of a failed test.
StreamsClosed ==
  \A n \in 1 .. launch :
    pc = "idle" /\ n = launch /\ ret = "ok" => sockets[n] = IF streams = <<>> THEN 0 ELSE 1

\* SomeoneActs: client and server never wait for each other.  While a test goes
\* on the client has something to read or to do, or the server has, unless it is
\* silent or is to wait for no streams at all (-P 0).
SomeoneActs ==
  pc \in {"select", "body", "results"} /\ server.phase # "hung" /\ test.options.num_streams # 0 =>
    \/ Waiting \/ shut[launch] \/ pc = "body" \/ (pc = "select" /\ test.state = TEST_RUNNING)
    \/ pc = "results" /\ down[launch] # <<>>
    \/ Unaccepted # {}
    \/ Serving("params") /\ Received1("params")
    \/ Serving("streams") /\ backlog # <<>>
    \/ Serving("running") /\ Received1("byte") /\ Head(up[server.session]) = Byte(TEST_END)
    \/ Serving("results") /\ Received1("results")

\* EveryTestEnds: a test comes back to its caller, unless the server falls
\* silent, it was told to wait for no streams (-P 0), a UDP handshake gets no
\* answer, or the process ends in a crash.
EveryTestEnds ==
  pc \in {"select", "body", "results"} ~>
    \/ pc \in {"idle", "crashed", "udp"}
    \/ server.phase = "hung" \/ test.options.num_streams = 0
=============================================================================
