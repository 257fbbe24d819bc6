------------------------------- MODULE IperfUdp -------------------------------
(***************************************************************************)
(* The UDP streams of a bandwidth test (iperf_udp.c with the body of       *)
(* iperf_run_client): the handshake of each stream, packets paced by a     *)
(* timer, a network that loses, repeats and reorders them, and the         *)
(* receiver that counts losses from sequence numbers.  The client sends,   *)
(* to a server that was itself started with -u (the option of the client   *)
(* does not reach it, see IperfClient).                                    *)
(***************************************************************************)
EXTENDS IperfStream, IperfTimer, FiniteSets

CONSTANTS
  Tests,      \* options of the tests a run tries
  StartTimes, \* when the client may start
  MaxTime,    \* how long a run looks at it: the clock stops there
  MaxWrite,   \* the longest time one write takes
  MaxFaults   \* losses, repetitions and failures

\* How far packets are apart (-b): blksize * 8 bits at the rate.  The code
\* asserts that it is not zero.  The client sends (UDP with -R is not modelled);
\* a test without streams never gets its TEST_START.
Dtargus(t) == (t.blksize * SEC_TO_US * 8) \div t.rate
ASSUME TestsAssumption ==
  /\ Tests \subseteq Options /\ \A t \in Tests : t.rate > 0 /\ Dtargus(t) > 0
  /\ \A t \in Tests : t.role = "c" /\ t.reverse = 0 /\ t.num_streams > 0
  /\ StartTimes \subseteq Nat /\ MaxTime \in Nat /\ MaxWrite \in Nat /\ MaxFaults \in Nat

VARIABLES
  options, \* of the test
  phase,   \* of the client: dial, wait, start, run, ended, done, failed
  now,     \* the clock of the phone
  streams, \* of the client
  send_timer, \* of each of them
  turn,    \* the place in the body: the stream to send on, then the timers
  timer, stats_timer, bytes_sent,
  listener, accepting, \* of the server: its listener, and the peer it accepts
  hello, reply,        \* handshake datagrams under way: sockets of the client
  sinks,   \* streams of the server
  net,     \* packets under way, for each stream
  seen,    \* ghost: the sequence numbers that have arrived, for each stream
  sentAt,  \* ghost: when each stream sent last, -1 before
  faults
clientVars == <<options, streams, send_timer, turn, timer, stats_timer, bytes_sent, sentAt>>
serverVars == <<listener, accepting, sinks, seen>>
netVars == <<hello, reply, net>>
vars == <<clientVars, phase, now, serverVars, netVars, faults>>

N == options.num_streams

Init ==
  /\ options \in Tests /\ now \in StartTimes
  /\ phase = "dial" /\ streams = <<>> /\ send_timer = <<>> /\ turn = 1
  /\ timer = NoTimer /\ stats_timer = NoTimer /\ bytes_sent = 0
  /\ listener = TRUE /\ accepting = 0 /\ hello = {} /\ reply = {} /\ sinks = <<>>
  /\ net = <<>> /\ seen = <<>> /\ sentAt = <<>> /\ faults = 0

LastTime == streams[1].start_time + MaxTime
Fault == faults < MaxFaults /\ faults' = faults + 1
-----------------------------------------------------------------------------
(* The handshake: iperf_udp_connect, iperf_udp_accept *)

\* The client writes to say who it is, and reads with no limit of time.
Dial ==
  /\ phase = "dial"
  /\ hello' = hello \cup {Len(streams) + 1}
  /\ phase' = "wait"
  /\ UNCHANGED <<clientVars, now, serverVars, reply, net, faults>>

\* recvfrom and connect: the listener becomes the socket of the stream.  While
\* there is no listener a datagram is refused, and the client's read fails.
Accept ==
  /\ listener => accepting = 0
  /\ \E s \in hello :
       /\ hello' = hello \ {s}
       /\ IF listener THEN accepting' = s /\ listener' = FALSE /\ UNCHANGED phase
          ELSE phase' = "failed" /\ UNCHANGED <<accepting, listener>>
  /\ UNCHANGED <<clientVars, now, sinks, seen, reply, net, faults>>

\* netannounce: a new listener, which may fail.
Announce ==
  /\ accepting # 0 /\ ~listener
  /\ \/ listener' = TRUE /\ UNCHANGED <<accepting, faults>>
     \/ Fault /\ accepting' = -1 /\ UNCHANGED listener \* IESTREAMLISTEN
  /\ UNCHANGED <<clientVars, phase, now, sinks, seen, netVars>>

\* Slip: the answer does not wait for the new listener, which never comes.
ConfirmEarly ==
  /\ accepting > 0
  /\ reply' = reply \cup {accepting}
  /\ accepting' = 0
  /\ sinks' = iperf_add_stream(sinks, iperf_new_stream(accepting))
  /\ seen' = Append(seen, {})
  /\ UNCHANGED <<clientVars, phase, now, listener, hello, net, faults>>

Confirm ==
  /\ accepting > 0 /\ listener
  /\ reply' = reply \cup {accepting}
  /\ accepting' = 0
  /\ sinks' = iperf_add_stream(sinks, iperf_new_stream(accepting))
  /\ seen' = Append(seen, {})
  /\ UNCHANGED <<clientVars, phase, now, listener, hello, net, faults>>

HelloLost ==
  /\ Fault
  /\ \/ \E s \in hello : hello' = hello \ {s} /\ UNCHANGED reply
     \/ \E s \in reply : reply' = reply \ {s} /\ UNCHANGED hello
  /\ UNCHANGED <<clientVars, phase, now, serverVars, net>>

\* The read returns, and iperf_create_streams adds the stream.
Connected ==
  LET s == Len(streams) + 1 IN
  /\ phase = "wait" /\ s \in reply
  /\ reply' = reply \ {s}
  /\ streams' = iperf_add_stream(streams, iperf_new_stream(s))
  /\ send_timer' = Append(send_timer, NoTimer)
  /\ net' = Append(net, {}) /\ sentAt' = Append(sentAt, -1)
  /\ phase' = IF s = N THEN "start" ELSE "dial"
  /\ UNCHANGED <<options, turn, timer, stats_timer, bytes_sent, now, serverVars, hello, faults>>
-----------------------------------------------------------------------------
(* The test: iperf_udp_init with iperf_init_test, iperf_udp_send, the timers *)

Start ==
  LET d == Dtargus(options) IN
  /\ phase = "start"
  /\ streams' = [i \in DOMAIN streams |->
       [streams[i] EXCEPT !.start_time = now]]
  /\ send_timer' = [i \in DOMAIN streams |->
       new_timer(now, d \div SEC_TO_US, d % SEC_TO_US)]
  /\ timer' = IF options.bytes = 0 THEN new_timer(now, options.duration, 0) ELSE NoTimer
  /\ stats_timer' = IF options.interval # 0 THEN new_timer(now, options.interval, 0) ELSE NoTimer
  /\ sinks' = [i \in DOMAIN sinks |-> [sinks[i] EXCEPT !.start_time = now]]
  /\ phase' = "run"
  /\ UNCHANGED <<options, turn, bytes_sent, sentAt, now, listener, accepting, seen, netVars, faults>>

\* Slip: the two times are swapped.
PauseMore(d, before, after) ==
  LET rest == d + after - before IN IF rest > 0 THEN rest ELSE d

\* The time to the next packet, after a write that took a while: the rest of d,
\* or all of it when the write took longer than d.
Pause(d, before, after) ==
  LET rest == d + before - after IN IF rest > 0 THEN rest ELSE d

Packet(sp) == Sent([sp EXCEPT !.packet_count = @ + 1], options.blksize)

UdpSend ==
  /\ phase = "run" /\ turn <= N
  /\ turn' = turn + 1
  /\ LET sp == streams[turn] IN
     IF timer_expired(send_timer[turn], now)
     THEN /\ \E after \in now .. now + MaxWrite :
               /\ after <= LastTime /\ now' = after
               /\ send_timer' = [send_timer EXCEPT ![turn] =
                    update_timer(after, 0, Pause(Dtargus(options), now, after))]
          /\ streams' = [streams EXCEPT ![turn] = Packet(sp)]
          /\ net' = [net EXCEPT ![turn] = @ \cup {sp.packet_count + 1}]
          /\ sentAt' = [sentAt EXCEPT ![turn] = now]
          /\ bytes_sent' = bytes_sent + options.blksize
     ELSE UNCHANGED <<streams, send_timer, now, net, sentAt, bytes_sent>>
  /\ UNCHANGED <<options, timer, stats_timer, phase, serverVars, hello, reply, faults>>

\* The rest of the body: statistics, and whether the test is over.
Timers ==
  LET stats == timer_expired(stats_timer, now)
      counted == IF stats THEN iperf_stats_callback(options, streams, now) ELSE streams
      over == all_data_sent(options, bytes_sent) \/ timer_expired(timer, now)
  IN /\ phase = "run" /\ turn = N + 1
     /\ turn' = 1
     /\ stats_timer' = IF stats THEN update_timer(now, options.interval, 0) ELSE stats_timer
     /\ streams' = IF over THEN iperf_stats_callback(options, counted, now) ELSE counted
     /\ phase' = IF over THEN "ended" ELSE "run"
     /\ UNCHANGED <<options, send_timer, timer, bytes_sent, sentAt, now, serverVars, netVars, faults>>

\* TEST_END and the exchange of results.
Exchange ==
  LET theirs == [options EXCEPT !.role = "s"]
  IN /\ phase = "ended"
     /\ sinks' = iperf_stats_callback(theirs, sinks, now)
     /\ streams' = parse_results(options, streams, Results(theirs, sinks)).streams
     /\ phase' = "done"
     /\ UNCHANGED <<options, send_timer, turn, timer, stats_timer, bytes_sent, sentAt, now,
                    listener, accepting, seen, netVars, faults>>
-----------------------------------------------------------------------------
(* The network and iperf_udp_recv *)

\* Slip: the packet that has come counts as lost too.
CountedOneMore(sp, pcount) ==
  LET new == Received(sp, options.blksize)
  IN IF pcount >= sp.packet_count + 1
     THEN [new EXCEPT !.cnt_error = @ + pcount - sp.packet_count, !.packet_count = pcount]
     ELSE [new EXCEPT !.outoforder_packets = @ + 1]

\* The next number or a later one counts as lost what lies between; an earlier
\* one, or the same again, is out of order.
Counted(sp, pcount) ==
  LET new == Received(sp, options.blksize)
  IN IF pcount >= sp.packet_count + 1
     THEN [new EXCEPT !.cnt_error = @ + (pcount - 1) - sp.packet_count, !.packet_count = pcount]
     ELSE [new EXCEPT !.outoforder_packets = @ + 1]

UdpRecv(i, pcount) ==
  /\ phase \in {"run", "ended"}
  /\ pcount \in net[i]
  /\ \/ net' = [net EXCEPT ![i] = @ \ {pcount}] /\ UNCHANGED faults
     \/ Fault /\ UNCHANGED net \* it will come a second time
  /\ sinks' = [sinks EXCEPT ![i] = Counted(@, pcount)]
  /\ seen' = [seen EXCEPT ![i] = @ \cup {pcount}]
  /\ UNCHANGED <<clientVars, phase, now, listener, accepting, hello, reply>>

PacketLost(i, pcount) ==
  /\ Fault
  /\ phase = "run" /\ pcount \in net[i]
  /\ net' = [net EXCEPT ![i] = @ \ {pcount}]
  /\ UNCHANGED <<clientVars, phase, now, serverVars, hello, reply>>

Tick ==
  /\ phase = "run" /\ now < LastTime
  /\ now' = now + 1
  /\ UNCHANGED <<clientVars, phase, serverVars, netVars, faults>>
-----------------------------------------------------------------------------
Handshake == Dial \/ Accept \/ Announce \/ Confirm \/ Connected

Next ==
  \/ Handshake \/ HelloLost \/ Start \/ UdpSend \/ Timers \/ Exchange \/ Tick
  \/ \E i \in DOMAIN net : \E pcount \in net[i] : UdpRecv(i, pcount) \/ PacketLost(i, pcount)

Spec == Init /\ [][Next]_vars
FairSpec == Spec /\ WF_vars(Handshake)
-----------------------------------------------------------------------------
(* Properties *)

\* ConnectsUnlessLost: every handshake comes to its end and all streams get
\* connected, unless the network loses a datagram (the client then reads for
\* ever) or the server finds no new listener: no datagram of the client comes
\* to a server that does not listen, since the answer is sent when it does
\* ("Let the client know we're ready to accept another UDP stream").
ConnectsUnlessLost == phase = "dial" ~> phase = "start" \/ faults > 0

\* RateKept: two packets of a stream are as far apart as the rate asks, however
\* long the writes take; and a turn that finds a packet due sends it, unless the
\* 32-bit product has wrapped since the last one.
RateKept ==
  [][\A i \in DOMAIN streams :
       /\ sentAt'[i] # sentAt[i] /\ sentAt[i] # -1 => sentAt'[i] - sentAt[i] >= Dtargus(options)
       /\ phase = "run" /\ turn = i /\ turn' # i =>
            \/ sentAt'[i] = now
            \/ now <= sentAt[i] + Dtargus(options) + MaxWrite
            \/ now <= streams[i].start_time + Dtargus(options)
            \/ ~SameEra(gettimeofday(now), send_timer[i].begin)]_vars

\* EndsAsAsked: a turn of the body ends a test of a given time (-t) exactly when
\* that time is over, and one of given bytes (-n) when all streams together have
\* sent them, unless the product has wrapped since the start or would wrap
\* before the end: then it ends at once, or goes on.
EndsAsAsked ==
  [][phase = "run" /\ turn = N + 1 /\ turn' = 1 =>
       LET deadline == streams[1].start_time + options.duration * SEC_TO_US IN
       IF options.bytes > 0
       THEN (phase' = "ended") =
              (FoldLeft(LAMBDA sum, sp : sum + sp.bytes_sent, 0, streams) >= N * options.bytes)
       ELSE \/ (phase' = "ended") = (now > deadline)
            \/ ~SameEra(gettimeofday(now), gettimeofday(deadline))]_vars

\* LossBracketed: the packets that are missing below the highest number that has
\* come are at most those the receiver counts as lost, and at least those less
\* the ones that came out of order (iperf_udp_recv).
LossBracketed ==
  \A i \in DOMAIN sinks :
    LET missing == sinks[i].packet_count - Cardinality(seen[i])
    IN /\ sinks[i].cnt_error - sinks[i].outoforder_packets <= missing
       /\ missing <= sinks[i].cnt_error

\* The intervals follow one another from the start of the stream to its end,
\* and hold every byte of the total that came before the current interval.
Tiled(sp, total) ==
  LET intervals == sp.interval_results IN
  /\ FoldLeft(LAMBDA sum, ip : sum + ip.bytes, 0, intervals) = total
  /\ \A k \in DOMAIN intervals :
       /\ intervals[k].start = IF k = 1 THEN sp.start_time ELSE intervals[k - 1].end
       /\ intervals[k].start <= intervals[k].end
  /\ intervals # <<>> => intervals[Len(intervals)].end = sp.end_time

\* ResultsAddUp: on both ends the intervals of every stream tile its time and
\* add up to its total, whatever turn of the body closes them; and the client
\* ends with the counts of the receiver, stream by stream.
ResultsAddUp ==
  /\ \A i \in DOMAIN streams :
       Tiled(streams[i], streams[i].bytes_sent - streams[i].bytes_sent_this_interval)
  /\ \A i \in DOMAIN sinks :
       Tiled(sinks[i], sinks[i].bytes_received - sinks[i].bytes_received_this_interval)
  /\ phase = "done" => \A i \in DOMAIN streams :
       /\ streams[i].packet_count = sinks[i].packet_count
       /\ streams[i].cnt_error = sinks[i].cnt_error
       /\ streams[i].bytes_received = sinks[i].bytes_received
=============================================================================
