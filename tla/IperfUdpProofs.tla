---------------------------- MODULE IperfUdpProofs ----------------------------
(***************************************************************************)
(* The accounting of UDP streams, for every test, rate, clock and number   *)
(* of faults, and whatever the network does with the packets: the loss     *)
(* counters of the receiver bracket what is really missing, intervals tile *)
(* the test and add up to its totals, every stream keeps the rate, and the *)
(* test ends when it should, but for the wrapped product of a timer.       *)
(***************************************************************************)
EXTENDS IperfUdp, IperfStreamProofs, FiniteSetTheorems

\* UdpTypeOK: the kinds of values the accounting rests on.
UdpTypeOK ==
  /\ options \in Tests /\ now \in Nat /\ turn \in Nat
  /\ accepting \in Int /\ hello \subseteq Nat
  /\ sinks \in Seq(Stream)
  /\ net \in Seq(SUBSET Nat) /\ seen \in Seq(SUBSET Nat)
  /\ streams \in Seq(Stream) /\ Len(net) = Len(streams)

\* What the counters of one stream say of the numbers that have come.
Bracket(sp, numbers) ==
  /\ IsFiniteSet(numbers)
  /\ \A c \in numbers : c <= sp.packet_count
  /\ sp.cnt_error - sp.outoforder_packets <= sp.packet_count - Cardinality(numbers)
  /\ sp.packet_count - Cardinality(numbers) <= sp.cnt_error

\* No packet has a number above packet_count: the number of the next one in
\* order is new, and one that is out of order need not be.
LossInv == Len(seen) = Len(sinks) /\ \A i \in 1 .. Len(sinks) : Bracket(sinks[i], seen[i])

Inv == UdpTypeOK /\ LossInv
-----------------------------------------------------------------------------
\* What the tests give the accounting.
LEMMA OptionTypes == ASSUME NEW t \in Tests PROVE t.blksize \in Nat /\ t.num_streams \in Nat
BY TestsAssumption DEF Options

\* iperf_stats_callback closes intervals without touching the counters of packets.
LEMMA StatsCount ==
  ASSUME NEW o, NEW list \in Seq(Stream), NEW t \in Int
  PROVE  /\ iperf_stats_callback(o, list, t) \in Seq(Stream)
         /\ Len(iperf_stats_callback(o, list, t)) = Len(list)
         /\ \A i \in 1 .. Len(list) :
              /\ iperf_stats_callback(o, list, t)[i].packet_count = list[i].packet_count
              /\ iperf_stats_callback(o, list, t)[i].cnt_error = list[i].cnt_error
              /\ iperf_stats_callback(o, list, t)[i].outoforder_packets
                   = list[i].outoforder_packets
<1>1. \A i \in 1 .. Len(list) : list[i] \in Stream
  OBVIOUS
<1>2. \A i \in 1 .. Len(list) : Counters(list[i], CloseInterval(list[i], Sends(o), t))
  BY <1>1, StatsIs, CloseIntervalIs
<1>. QED BY <1>2, StatsIs DEF Counters

\* Streams whose counters are the same are bracketed by the same numbers.
LEMMA SameCounters ==
  ASSUME NEW sp, NEW tp, NEW numbers, Bracket(sp, numbers),
         tp.packet_count = sp.packet_count, tp.cnt_error = sp.cnt_error,
         tp.outoforder_packets = sp.outoforder_packets
  PROVE  Bracket(tp, numbers)
BY DEF Bracket

\* iperf_udp_recv: one more packet, in order or not, keeps the bracket.
LEMMA CountedBrackets ==
  ASSUME NEW sp \in Stream, NEW numbers \in SUBSET Nat, Bracket(sp, numbers),
         NEW pcount \in Nat, options.blksize \in Nat
  PROVE  Counted(sp, pcount) \in Stream /\ Bracket(Counted(sp, pcount), numbers \cup {pcount})
<1>. DEFINE new == Received(sp, options.blksize)
            more == numbers \cup {pcount}
<1>1. /\ new \in Stream /\ new.packet_count = sp.packet_count /\ new.cnt_error = sp.cnt_error
      /\ new.outoforder_packets = sp.outoforder_packets
  <2>. DEFINE n == options.blksize
              half == [sp EXCEPT !.bytes_received = @ + n]
  <2>1. /\ half \in Stream /\ half.packet_count = sp.packet_count
        /\ half.cnt_error = sp.cnt_error /\ half.outoforder_packets = sp.outoforder_packets
    BY DEF Stream
  <2>2. new = [half EXCEPT !.bytes_received_this_interval = @ + n]
    BY DEF Received, Stream
  <2>. HIDE DEF half, new
  <2>. QED BY <2>1, <2>2 DEF Stream
<1>2. /\ IsFiniteSet(more) /\ Cardinality(numbers) \in Nat
      /\ Cardinality(more) = Cardinality(numbers) \/ Cardinality(more) = Cardinality(numbers) + 1
      /\ pcount \notin numbers => Cardinality(more) = Cardinality(numbers) + 1
  BY FS_AddElement, FS_CardinalityType DEF Bracket
<1>3. sp.packet_count \in Nat /\ sp.cnt_error \in Int /\ sp.outoforder_packets \in Int
  BY DEF Stream
<1>. HIDE DEF new, more
<1>4. CASE pcount >= sp.packet_count + 1
  <2>1. Counted(sp, pcount) =
          [new EXCEPT !.cnt_error = @ + (pcount - 1) - sp.packet_count, !.packet_count = pcount]
    BY <1>4 DEF Counted, new
  <2>2. /\ Counted(sp, pcount) \in Stream /\ Counted(sp, pcount).packet_count = pcount
        /\ Counted(sp, pcount).cnt_error = sp.cnt_error + (pcount - 1) - sp.packet_count
        /\ Counted(sp, pcount).outoforder_packets = sp.outoforder_packets
    <3>. DEFINE lost == [new EXCEPT !.cnt_error = @ + (pcount - 1) - sp.packet_count]
    <3>1. /\ lost \in Stream /\ lost.outoforder_packets = sp.outoforder_packets
          /\ lost.cnt_error = sp.cnt_error + (pcount - 1) - sp.packet_count
      BY <1>1, <1>3 DEF Stream
    <3>2. Counted(sp, pcount) = [lost EXCEPT !.packet_count = pcount]
      BY <2>1, <1>1 DEF Stream
    <3>. HIDE DEF lost
    <3>. QED BY <3>1, <3>2 DEF Stream
  <2>3. pcount \notin numbers
    BY <1>3, <1>4 DEF Bracket
  <2>4. \A c \in more : c <= pcount
    BY <1>3, <1>4 DEF Bracket, more
  <2>. QED BY <2>2, <2>3, <2>4, <1>2, <1>3 DEF Bracket, more
<1>5. CASE ~(pcount >= sp.packet_count + 1)
  <2>1. Counted(sp, pcount) = [new EXCEPT !.outoforder_packets = @ + 1]
    BY <1>5 DEF Counted, new
  <2>2. /\ Counted(sp, pcount) \in Stream
        /\ Counted(sp, pcount).packet_count = sp.packet_count
        /\ Counted(sp, pcount).cnt_error = sp.cnt_error
        /\ Counted(sp, pcount).outoforder_packets = sp.outoforder_packets + 1
    BY <2>1, <1>1, <1>3 DEF Stream
  <2>3. \A c \in more : c <= sp.packet_count
    BY <1>3, <1>5 DEF Bracket, more
  <2>. QED BY <2>2, <2>3, <1>2, <1>3 DEF Bracket, more
<1>. QED BY <1>4, <1>5
-----------------------------------------------------------------------------
\* The invariant holds before the first handshake.
LEMMA InitInv == Init => Inv
<1>. SUFFICES ASSUME Init PROVE Inv
  OBVIOUS
<1>1. UdpTypeOK
  BY TestsAssumption DEF Init, UdpTypeOK
<1>2. LossInv
  BY DEF Init, LossInv
<1>. QED BY <1>1, <1>2 DEF Inv

\* A handshake adds streams that have counted nothing.
LEMMA ConfirmInv == Inv /\ Confirm => Inv'
<1>. SUFFICES ASSUME Inv, Confirm PROVE Inv'
  OBVIOUS
<1>. DEFINE new == iperf_new_stream(accepting)
<1>1. /\ new \in Stream /\ new.packet_count = 0 /\ new.cnt_error = 0
      /\ new.outoforder_packets = 0
  BY NewStreamType DEF Inv, UdpTypeOK, iperf_new_stream
<1>2. sinks' = iperf_add_stream(sinks, new) /\ seen' = Append(seen, {})
  BY DEF Confirm
<1>. HIDE DEF new
<1>3. UdpTypeOK'
  BY <1>1, <1>2, AddStream DEF Inv, UdpTypeOK, Confirm, clientVars
<1>4. Len(seen') = Len(seen) + 1 /\ \A i \in 1 .. Len(seen) : seen'[i] = seen[i]
  BY <1>2 DEF Inv, UdpTypeOK
<1>5. seen'[Len(seen) + 1] = {}
  BY <1>2 DEF Inv, UdpTypeOK
<1>6. ASSUME NEW i \in 1 .. Len(sinks') PROVE Bracket(sinks'[i], seen'[i])
  <2>1. CASE i \in 1 .. Len(sinks)
    <3>1. sinks'[i] = sinks[i] /\ seen'[i] = seen[i]
      BY <2>1, <1>1, <1>2, <1>4, AddStream DEF Inv, UdpTypeOK, LossInv
    <3>. QED BY <2>1, <3>1 DEF Inv, LossInv
  <2>2. CASE i = Len(sinks) + 1
    <3>1. /\ sinks'[i].packet_count = 0 /\ sinks'[i].cnt_error = 0
          /\ sinks'[i].outoforder_packets = 0 /\ seen'[i] = {}
      <4>1. Counters(new, sinks'[i])
        BY <2>2, <1>1, <1>2, AddStream DEF Inv, UdpTypeOK
      <4>. QED BY <4>1, <2>2, <1>1, <1>5 DEF Counters, Inv, LossInv
    <3>. QED BY <3>1, FS_EmptySet DEF Bracket
  <2>3. Len(sinks') = Len(sinks) + 1 /\ Len(sinks) \in Nat
    BY <1>1, <1>2, AddStream DEF Inv, UdpTypeOK
  <2>. QED BY <2>1, <2>2, <2>3
<1>7. LossInv'
  BY <1>1, <1>2, <1>4, <1>6, AddStream DEF Inv, UdpTypeOK, LossInv
<1>. QED BY <1>3, <1>7 DEF Inv

\* A packet that comes is counted on its own stream.
LEMMA RecvInv ==
  ASSUME NEW i \in DOMAIN net, NEW pcount \in net[i], Inv, UdpRecv(i, pcount)
  PROVE  Inv'
<1>1. /\ i \in 1 .. Len(net) /\ pcount \in Nat /\ options.blksize \in Nat
  BY OptionTypes DEF Inv, UdpTypeOK
<1>2. /\ sinks' = [sinks EXCEPT ![i] = Counted(@, pcount)]
      /\ seen' = [seen EXCEPT ![i] = @ \cup {pcount}]
  BY DEF UdpRecv
<1>3. i \in 1 .. Len(sinks) =>
        Counted(sinks[i], pcount) \in Stream
          /\ Bracket(Counted(sinks[i], pcount), seen[i] \cup {pcount})
  <2>. SUFFICES ASSUME i \in 1 .. Len(sinks)
                PROVE  /\ Counted(sinks[i], pcount) \in Stream
                       /\ Bracket(Counted(sinks[i], pcount), seen[i] \cup {pcount})
    OBVIOUS
  <2>1. sinks[i] \in Stream /\ seen[i] \in SUBSET Nat
    BY DEF Inv, UdpTypeOK, LossInv
  <2>2. Bracket(sinks[i], seen[i])
    BY DEF Inv, LossInv
  <2>. QED BY <1>1, <2>1, <2>2, CountedBrackets
<1>4. sinks' \in Seq(Stream) /\ Len(sinks') = Len(sinks)
  <2>. DEFINE e == Counted(sinks[i], pcount)
  <2>1. /\ sinks \in Seq(Stream) /\ sinks' = [sinks EXCEPT ![i] = e]
        /\ i \in 1 .. Len(sinks) => e \in Stream
    BY <1>2, <1>3 DEF Inv, UdpTypeOK
  <2>. HIDE DEF e
  <2>. QED BY <2>1, UpdateSeq
<1>5. seen' \in Seq(SUBSET Nat) /\ Len(seen') = Len(seen)
  <2>. DEFINE e == seen[i] \cup {pcount}
  <2>1. seen \in Seq(SUBSET Nat) /\ seen' = [seen EXCEPT ![i] = e]
    BY <1>2 DEF Inv, UdpTypeOK
  <2>2. i \in 1 .. Len(seen) => e \in SUBSET Nat
    BY <1>1, <2>1
  <2>. HIDE DEF e
  <2>. QED BY <2>1, <2>2, UpdateSeq
<1>6. net' \in Seq(SUBSET Nat) /\ Len(net') = Len(net)
  <2>1. CASE net' = [net EXCEPT ![i] = @ \ {pcount}]
    <3>. DEFINE e == net[i] \ {pcount}
    <3>1. net \in Seq(SUBSET Nat) /\ net' = [net EXCEPT ![i] = e]
      BY <2>1 DEF Inv, UdpTypeOK
    <3>2. e \in SUBSET Nat
      BY <1>1, <3>1
    <3>. HIDE DEF e
    <3>. QED BY <3>1, <3>2, UpdateSeq
  <2>2. CASE net' = net
    BY <2>2 DEF Inv, UdpTypeOK
  <2>. QED BY <2>1, <2>2 DEF UdpRecv
<1>7. UdpTypeOK'
  BY <1>4, <1>5, <1>6 DEF Inv, UdpTypeOK, UdpRecv, clientVars
<1>8. ASSUME NEW k \in 1 .. Len(sinks) PROVE Bracket(sinks'[k], seen'[k])
  <2>1. CASE k = i
    <3>1. sinks'[i] = Counted(sinks[i], pcount) /\ seen'[i] = seen[i] \cup {pcount}
      BY <2>1, <1>2 DEF Inv, UdpTypeOK, LossInv
    <3>. QED BY <2>1, <3>1, <1>3
  <2>2. CASE k # i
    <3>1. sinks'[k] = sinks[k] /\ seen'[k] = seen[k]
      BY <2>2, <1>2 DEF Inv, UdpTypeOK, LossInv
    <3>. QED BY <3>1 DEF Inv, LossInv
  <2>. QED BY <2>1, <2>2
<1>. QED BY <1>4, <1>5, <1>7, <1>8 DEF Inv, LossInv

\* The exchange closes the last interval of every stream and counts nothing.
LEMMA ExchangeInv == Inv /\ Exchange => Inv'
<1>. SUFFICES ASSUME Inv, Exchange PROVE Inv'
  OBVIOUS
<1>1. /\ sinks' = iperf_stats_callback([options EXCEPT !.role = "s"], sinks, now)
      /\ phase' = "done" /\ seen' = seen /\ net' = net
  BY DEF Exchange, netVars
<1>2. sinks' \in Seq(Stream) /\ Len(sinks') = Len(sinks)
  <2>1. sinks \in Seq(Stream) /\ now \in Int
    BY DEF Inv, UdpTypeOK
  <2>. QED BY <1>1, <2>1, StatsCount
<1>3. streams' \in Seq(Stream) /\ Len(streams') = Len(streams)
  <2>. DEFINE lines == Results([options EXCEPT !.role = "s"], sinks)
              r == parse_results(options, streams, lines)
  <2>1. lines \in Seq(Line)
    BY ResultsAre DEF Inv, UdpTypeOK
  <2>2. streams' = r.streams
    BY DEF Exchange
  <2>3. streams \in Seq(Stream)
    BY DEF Inv, UdpTypeOK
  <2>. HIDE DEF lines
  <2>. QED BY <2>1, <2>2, <2>3, ParseKeeps
<1>5. UdpTypeOK'
  BY <1>1, <1>2, <1>3 DEF Inv, UdpTypeOK, Exchange, netVars
<1>4. ASSUME NEW i \in 1 .. Len(sinks) PROVE Bracket(sinks'[i], seen'[i])
  <2>1. /\ sinks'[i].packet_count = sinks[i].packet_count
        /\ sinks'[i].cnt_error = sinks[i].cnt_error
        /\ sinks'[i].outoforder_packets = sinks[i].outoforder_packets /\ seen'[i] = seen[i]
    <3>1. sinks \in Seq(Stream) /\ now \in Int
      BY DEF Inv, UdpTypeOK
    <3>. QED BY <1>1, <3>1, StatsCount
  <2>. QED BY <2>1, SameCounters DEF Inv, LossInv
<1>. QED BY <1>1, <1>2, <1>4, <1>5 DEF Inv, LossInv

\* At the start every stream is given its time.
LEMMA StartInv == Inv /\ Start => Inv'
<1>. SUFFICES ASSUME Inv, Start PROVE Inv'
  OBVIOUS
<1>1. ASSUME NEW list \in Seq(Stream)
      PROVE  LET new == [i \in DOMAIN list |-> [list[i] EXCEPT !.start_time = now]]
             IN /\ new \in Seq(Stream) /\ Len(new) = Len(list)
                /\ \A i \in 1 .. Len(list) :
                     /\ new[i].packet_count = list[i].packet_count
                     /\ new[i].cnt_error = list[i].cnt_error
                     /\ new[i].outoforder_packets = list[i].outoforder_packets
  <2>1. ASSUME NEW sp \in Stream
        PROVE  LET tp == [sp EXCEPT !.start_time = now]
               IN /\ tp \in Stream /\ tp.packet_count = sp.packet_count
                  /\ tp.cnt_error = sp.cnt_error
                  /\ tp.outoforder_packets = sp.outoforder_packets
    <3>1. now \in Int
      BY DEF Inv, UdpTypeOK
    <3>. QED BY <3>1 DEF Stream
  <2>2. \A i \in 1 .. Len(list) : list[i] \in Stream
    OBVIOUS
  <2>. QED BY <2>1, <2>2
<1>2. streams \in Seq(Stream) /\ sinks \in Seq(Stream) /\ Len(net) = Len(streams)
  BY DEF Start, Inv, UdpTypeOK
<1>3. /\ streams' \in Seq(Stream) /\ Len(streams') = Len(streams)
      /\ sinks' \in Seq(Stream) /\ Len(sinks') = Len(sinks)
  BY <1>1, <1>2 DEF Start
<1>4. UdpTypeOK'
  BY <1>2, <1>3 DEF Start, Inv, UdpTypeOK, netVars
<1>5. ASSUME NEW i \in 1 .. Len(sinks) PROVE Bracket(sinks'[i], seen'[i])
  <2>1. /\ sinks'[i].packet_count = sinks[i].packet_count
        /\ sinks'[i].cnt_error = sinks[i].cnt_error
        /\ sinks'[i].outoforder_packets = sinks[i].outoforder_packets /\ seen'[i] = seen[i]
    BY <1>1, <1>2 DEF Start
  <2>. QED BY <2>1, SameCounters DEF Inv, LossInv
<1>. QED BY <1>3, <1>4, <1>5 DEF Inv, LossInv, Start

\* What the sender does leaves the receiver alone.
LEMMA SendInv == Inv /\ (UdpSend \/ Timers) => Inv'
<1>. SUFFICES ASSUME Inv, UdpSend \/ Timers PROVE Inv'
  OBVIOUS
<1>1. sinks' = sinks /\ seen' = seen
  BY DEF UdpSend, Timers, serverVars
<1>2. LossInv'
  BY <1>1 DEF Inv, LossInv
<1>3. streams \in Seq(Stream) /\ Len(net) = Len(streams)
  BY DEF UdpSend, Timers, Inv, UdpTypeOK
<1>4. CASE UdpSend
  <2>1. CASE timer_expired(send_timer[turn], now)
    <3>1. /\ streams' = [streams EXCEPT ![turn] = Packet(streams[turn])]
          /\ net' = [net EXCEPT ![turn] = @ \cup {streams[turn].packet_count + 1}]
      BY <1>4, <2>1 DEF UdpSend
    <3>2. \E after \in now .. now + MaxWrite : now' = after
      BY <1>4, <2>1 DEF UdpSend
    <3>3. now' \in Nat
      BY <3>2, TestsAssumption DEF Inv, UdpTypeOK
    <3>4. ASSUME turn \in 1 .. Len(streams)
          PROVE  Packet(streams[turn]) \in Stream /\ streams[turn].packet_count + 1 \in Nat
      <4>. DEFINE sp == streams[turn]
                  n == options.blksize
                  a == [sp EXCEPT !.packet_count = @ + 1]
                  b == [a EXCEPT !.bytes_sent = @ + n]
      <4>1. sp \in Stream /\ n \in Int
        BY <3>4, <1>3, OptionTypes DEF Inv, UdpTypeOK
      <4>2. Packet(sp) = [b EXCEPT !.bytes_sent_this_interval = @ + n]
        BY <4>1 DEF Packet, Sent, Stream
      <4>. HIDE DEF sp, n
      <4>3. a \in Stream /\ sp.packet_count + 1 \in Nat
        BY <4>1 DEF Stream
      <4>. HIDE DEF a
      <4>4. b \in Stream
        BY <4>1, <4>3 DEF Stream
      <4>. HIDE DEF b
      <4>5. Packet(sp) \in Stream
        BY <4>1, <4>2, <4>4 DEF Stream
      <4>. QED BY <4>3, <4>5 DEF sp
    <3>5. streams' \in Seq(Stream) /\ Len(streams') = Len(streams)
      <4>. DEFINE e == Packet(streams[turn])
      <4>1. /\ streams' = [streams EXCEPT ![turn] = e]
            /\ turn \in 1 .. Len(streams) => e \in Stream
        BY <3>1, <3>4
      <4>. HIDE DEF e
      <4>. QED BY <4>1, <1>3, UpdateSeq
    <3>6. net' \in Seq(SUBSET Nat) /\ Len(net') = Len(net)
      <4>. DEFINE e == net[turn] \cup {streams[turn].packet_count + 1}
      <4>1. net' = [net EXCEPT ![turn] = e] /\ net \in Seq(SUBSET Nat)
        BY <3>1 DEF Inv, UdpTypeOK
      <4>2. turn \in 1 .. Len(net) => e \in SUBSET Nat
        BY <3>4, <1>3, <4>1
      <4>. HIDE DEF e
      <4>. QED BY <4>1, <4>2, UpdateSeq
    <3>7. /\ phase' = phase /\ turn' = turn + 1 /\ options' = options /\ hello' = hello
          /\ accepting' = accepting
      BY <1>4 DEF UdpSend, serverVars
    <3>8. UdpTypeOK'
      BY <1>1, <1>3, <3>3, <3>5, <3>6, <3>7 DEF Inv, UdpTypeOK
    <3>. QED BY <1>2, <3>8 DEF Inv
  <2>2. CASE ~timer_expired(send_timer[turn], now)
    <3>1. /\ streams' = streams /\ net' = net /\ now' = now /\ phase' = phase
          /\ turn' = turn + 1 /\ options' = options /\ hello' = hello
          /\ accepting' = accepting
      BY <1>4, <2>2 DEF UdpSend, serverVars
    <3>2. UdpTypeOK'
      BY <1>1, <3>1 DEF Inv, UdpTypeOK
    <3>. QED BY <1>2, <3>2 DEF Inv
  <2>. QED BY <2>1, <2>2
<1>5. CASE Timers
  <2>. DEFINE counted == IF timer_expired(stats_timer, now)
                         THEN iperf_stats_callback(options, streams, now) ELSE streams
  <2>1. counted \in Seq(Stream) /\ Len(counted) = Len(streams)
    BY <1>3, StatsCount DEF Inv, UdpTypeOK
  <2>2. streams' \in {iperf_stats_callback(options, counted, now), counted}
    BY <1>5 DEF Timers
  <2>. HIDE DEF counted
  <2>3. streams' \in Seq(Stream) /\ Len(streams') = Len(streams)
    BY <2>1, <2>2, StatsCount DEF Inv, UdpTypeOK
  <2>4. /\ net' = net /\ now' = now /\ turn' = 1 /\ options' = options /\ hello' = hello
        /\ accepting' = accepting
    BY <1>5 DEF Timers, serverVars, netVars
  <2>5. UdpTypeOK'
    BY <1>1, <1>3, <2>3, <2>4 DEF Inv, UdpTypeOK
  <2>. QED BY <1>2, <2>5 DEF Inv
<1>. QED BY <1>4, <1>5

\* The other steps of the handshake and the network move no counter.
LEMMA OtherInv ==
  ASSUME Inv, \/ Dial \/ Accept \/ Announce \/ HelloLost \/ Connected \/ Tick
              \/ (\E i \in DOMAIN net : \E pcount \in net[i] : PacketLost(i, pcount))
              \/ UNCHANGED vars
  PROVE  Inv'
<1>1. sinks' = sinks /\ seen' = seen
  BY DEF Dial, Accept, Announce, HelloLost, Connected, Tick, PacketLost, vars, serverVars
<1>2. LossInv'
  BY <1>1 DEF Inv, LossInv
<1>3. CASE Dial
  <2>1. hello' \subseteq Nat
    <3>1. streams \in Seq(Stream) /\ hello' = hello \cup {Len(streams) + 1}
      BY <1>3 DEF Dial, Inv, UdpTypeOK
    <3>2. Len(streams) + 1 \in Nat
      BY <3>1
    <3>. QED BY <3>1, <3>2 DEF Inv, UdpTypeOK
  <2>. QED BY <1>1, <1>2, <1>3, <2>1 DEF Dial, Inv, UdpTypeOK, clientVars, serverVars
<1>4. CASE Accept
  <2>1. hello' \subseteq Nat /\ accepting' \in Int /\ phase' \in {phase, "failed"}
    <3>1. PICK s \in hello :
            /\ hello' = hello \ {s}
            /\ IF listener THEN accepting' = s /\ listener' = FALSE /\ UNCHANGED phase
               ELSE phase' = "failed" /\ UNCHANGED <<accepting, listener>>
      BY <1>4 DEF Accept
    <3>2. hello \subseteq Nat /\ accepting \in Int
      BY DEF Inv, UdpTypeOK
    <3>3. hello' \subseteq Nat /\ s \in Int
      BY <3>1, <3>2
    <3>4. accepting' \in {s, accepting} /\ phase' \in {phase, "failed"}
      BY <3>1
    <3>. QED BY <3>2, <3>3, <3>4
  <2>2. streams' = streams /\ options' = options /\ turn' = turn /\ now' = now /\ net' = net
    BY <1>4 DEF Accept, clientVars
  <2>. QED BY <1>1, <1>2, <2>1, <2>2 DEF Inv, UdpTypeOK
<1>5. CASE Announce \/ HelloLost
  <2>1. /\ hello' \subseteq hello /\ accepting' \in {accepting, -1} /\ phase' = phase
        /\ net' = net /\ now' = now
    BY <1>5 DEF Announce, HelloLost, netVars, serverVars
  <2>2. streams' = streams /\ options' = options /\ turn' = turn
    BY <1>5 DEF Announce, HelloLost, clientVars
  <2>. QED BY <1>1, <1>2, <2>1, <2>2 DEF Inv, UdpTypeOK
<1>6. CASE Connected
  <2>1. /\ streams' = iperf_add_stream(streams, iperf_new_stream(Len(streams) + 1))
        /\ net' = Append(net, {})
    BY <1>6 DEF Connected
  <2>2. streams \in Seq(Stream) /\ net \in Seq(SUBSET Nat) /\ Len(net) = Len(streams)
    BY <2>1 DEF Inv, UdpTypeOK
  <2>3. streams' \in Seq(Stream) /\ Len(streams') = Len(streams) + 1
    <3>. DEFINE new == iperf_new_stream(Len(streams) + 1)
    <3>1. new \in Stream
      BY <2>2, NewStreamType
    <3>2. streams' = iperf_add_stream(streams, new)
      BY <2>1
    <3>. HIDE DEF new
    <3>. QED BY <2>2, <3>1, <3>2, AddStream
  <2>4. net' \in Seq(SUBSET Nat) /\ Len(net') = Len(net) + 1
    BY <2>1, <2>2
  <2>5. hello' = hello /\ accepting' = accepting /\ options' = options /\ turn' = turn /\ now' = now
    BY <1>6 DEF Connected, serverVars
  <2>. QED BY <1>1, <1>2, <2>2, <2>3, <2>4, <2>5 DEF Inv, UdpTypeOK
<1>7. CASE Tick
  <2>1. now' \in Nat
    BY <1>7 DEF Tick, Inv, UdpTypeOK
  <2>. QED BY <1>1, <1>2, <1>7, <2>1 DEF Tick, Inv, UdpTypeOK, clientVars, serverVars, netVars
<1>8. CASE \E i \in DOMAIN net : \E pcount \in net[i] : PacketLost(i, pcount)
  <2>. PICK i \in DOMAIN net : \E pcount \in net[i] : PacketLost(i, pcount)
    BY <1>8
  <2>. PICK pcount \in net[i] : PacketLost(i, pcount)
    OBVIOUS
  <2>. DEFINE e == net[i] \ {pcount}
  <2>1. net \in Seq(SUBSET Nat) /\ net' = [net EXCEPT ![i] = e]
    BY DEF PacketLost, Inv, UdpTypeOK
  <2>2. e \in SUBSET Nat
    BY <2>1
  <2>. HIDE DEF e
  <2>3. net' \in Seq(SUBSET Nat) /\ Len(net') = Len(net)
    BY <2>1, <2>2, UpdateSeq
  <2>4. /\ streams' = streams /\ options' = options /\ turn' = turn /\ now' = now
        /\ phase' = phase /\ hello' = hello /\ accepting' = accepting
    BY DEF PacketLost, clientVars, serverVars
  <2>. QED BY <1>1, <1>2, <2>3, <2>4 DEF Inv, UdpTypeOK
<1>9. CASE UNCHANGED vars
  BY <1>1, <1>2, <1>9 DEF Inv, UdpTypeOK, vars, clientVars, netVars, serverVars
<1>. QED BY <1>3, <1>4, <1>5, <1>6, <1>7, <1>8, <1>9

\* Every step keeps the invariant.
LEMMA StepInv == Inv /\ [Next]_vars => Inv'
<1>. SUFFICES ASSUME Inv, [Next]_vars PROVE Inv'
  OBVIOUS
<1>1. CASE Confirm
  BY <1>1, ConfirmInv
<1>2. CASE \E i \in DOMAIN net : \E pcount \in net[i] : UdpRecv(i, pcount)
  BY <1>2, RecvInv
<1>3. CASE Start \/ Exchange \/ UdpSend \/ Timers
  BY <1>3, StartInv, ExchangeInv, SendInv
<1>4. CASE \/ Dial \/ Accept \/ Announce \/ HelloLost \/ Connected \/ Tick
           \/ (\E i \in DOMAIN net : \E pcount \in net[i] : PacketLost(i, pcount))
           \/ UNCHANGED vars
  BY <1>4, OtherInv
<1>. QED BY <1>1, <1>2, <1>3, <1>4 DEF Next, Handshake

\* UdpInvariant: the inductive invariant, in every reachable state.
THEOREM UdpInvariant == Spec => []Inv
<1>1. Init => Inv
  BY InitInv
<1>2. Inv /\ [Next]_vars => Inv'
  BY StepInv
<1>. QED BY <1>1, <1>2, PTL DEF Spec

\* LossAccounted: for every test, clock, number of streams and of faults, what
\* iperf_udp_recv counts as lost brackets the packets that are really missing.
THEOREM LossAccounted == Spec => []LossBracketed
<1>1. Inv => LossBracketed
  BY DEF Inv, UdpTypeOK, LossInv, Bracket, LossBracketed
<1>. QED BY <1>1, UdpInvariant, PTL

(***************************************************************************)
(* The books of both ends, and the clock.                                  *)
(***************************************************************************)

\* The steps up to the start of the test.
Early == phase \in {"dial", "wait", "start"}

\* HandshakeInv: one handshake is under way at a time.  Its token is the
\* datagram of the client, the peer the server accepts or the answer, unless it
\* is lost; and while there is no listener no datagram is under way.
HandshakeInv ==
  LET s == Len(streams) + 1 IN
  /\ phase \in {"dial", "wait", "start", "run", "ended", "done"}
  /\ accepting = 0 => listener
  /\ Numbered(streams) /\ Numbered(sinks)
  /\ IF phase \in {"dial", "wait"} THEN Len(streams) < N ELSE Len(streams) = N
  /\ phase # "wait" => hello = {} /\ reply = {} /\ accepting = 0 /\ Len(sinks) = Len(streams)
  /\ phase = "wait" =>
       /\ hello \subseteq {s} /\ reply \subseteq {s} /\ accepting \in {0, -1, s}
       /\ hello = {} \/ accepting = 0
       /\ hello # {} \/ accepting # 0 => reply = {} /\ Len(sinks) = Len(streams)
       /\ reply # {} => Len(sinks) = s

\* The times of a stream have passed.
Timely(sp) ==
  /\ sp.start_time \in Nat /\ sp.start_time <= now
  /\ sp.interval_results # <<>> => sp.end_time <= now

\* BooksInv: the intervals tile the streams of the client while it sends; those
\* of the server have none before the exchange, which closes one.
BooksInv ==
  /\ \A i \in 1 .. Len(streams) :
       /\ Timely(streams[i])
       /\ Tiled(streams[i], streams[i].bytes_sent - streams[i].bytes_sent_this_interval)
       /\ Early => streams[i].interval_results = <<>> /\ streams[i].bytes_sent = 0
  /\ \A i \in 1 .. Len(sinks) :
       /\ Timely(sinks[i])
       /\ Tiled(sinks[i], sinks[i].bytes_received - sinks[i].bytes_received_this_interval)
       /\ phase # "done" => sinks[i].interval_results = <<>>
  /\ phase = "done" => \A i \in 1 .. Len(streams) :
       /\ streams[i].packet_count = sinks[i].packet_count
       /\ streams[i].cnt_error = sinks[i].cnt_error
       /\ streams[i].bytes_received = sinks[i].bytes_received

Clock == [tv_sec : Int, tv_usec : Int]
Timer == [begin : Clock, end : Clock]

\* What the timer of a stream says of the packet before: that there was none,
\* or when its write ended.
Paced(tp, last, start) ==
  LET d == Dtargus(options) IN
  \/ last = -1 /\ tp = new_timer(start, d \div SEC_TO_US, d % SEC_TO_US)
  \/ /\ last \in Nat
     /\ \E after \in last .. last + MaxWrite :
          after <= now /\ tp = update_timer(after, 0, Pause(d, last, after))

\* PaceInv: the timers of the test and of its streams, and what has been sent.
PaceInv ==
  /\ turn \in 1 .. N + 1
  /\ send_timer \in Seq(Timer) /\ Len(send_timer) = Len(streams)
  /\ sentAt \in Seq(Int) /\ Len(sentAt) = Len(streams)
  /\ phase # "done" => bytes_sent = Total(streams, "bytes_sent")
  /\ Early => \A i \in 1 .. Len(streams) : sentAt[i] = -1
  /\ phase = "run" =>
       /\ timer = IF options.bytes = 0 THEN new_timer(streams[1].start_time, options.duration, 0)
                  ELSE NoTimer
       /\ \A i \in 1 .. Len(streams) : Paced(send_timer[i], sentAt[i], streams[i].start_time)

Ledger == HandshakeInv /\ BooksInv /\ PaceInv
-----------------------------------------------------------------------------
LEMMA DivMod ==
  ASSUME NEW n \in Nat, NEW m \in Nat \ {0}
  PROVE  /\ n \div m \in Nat /\ n % m \in 0 .. m - 1 /\ n = (n \div m) * m + (n % m)
<1>1. n \div m \in Nat
  OBVIOUS
<1>2. n % m \in 0 .. m - 1
  OBVIOUS
<1>3. n = (n \div m) * m + (n % m)
  OBVIOUS
<1>. QED BY <1>1, <1>2, <1>3

LEMMA Quotient ==
  ASSUME NEW m \in Nat \ {0}, NEW q \in Nat, NEW r \in 0 .. m - 1
  PROVE  (q * m + r) \div m = q /\ (q * m + r) % m = r
OBVIOUS

LEMMA DivMonotone ==
  ASSUME NEW m \in Nat \ {0}, NEW a \in Nat, NEW b \in Nat, a <= b
  PROVE  a \div m <= b \div m
<1>. DEFINE p == a \div m
            q == b \div m
            r == a % m
            s == b % m
<1>1. p \in Nat /\ q \in Nat /\ r \in 0 .. m - 1 /\ s \in 0 .. m - 1 /\ a = p * m + r /\ b = q * m + s
  BY DivMod
<1>. HIDE DEF p, q, r, s
<1>2. ASSUME q < p PROVE FALSE
  <2>1. PICK k \in Nat : p = q + 1 + k
    BY <1>1, <1>2
  <2>2. p * m = q * m + m + k * m
    BY <2>1, <1>1
  <2>3. k * m >= 0 /\ q * m \in Int /\ k * m \in Int
    BY <1>1
  <2>4. a >= q * m + m
    BY <2>2, <2>3, <1>1
  <2>. QED BY <2>3, <2>4, <1>1
<1>. QED BY <1>1, <1>2 DEF p, q

\* A number that wraps falls behind, the later the more.
LEMMA WrapFalls ==
  ASSUME NEW a \in Nat, NEW b \in Nat, a <= b
  PROVE  Wrapped(a) \in Int /\ Wrapped(b) \in Int /\ Wrapped(b) - Wrapped(a) <= b - a
<1>. DEFINE h == TimeRange \div 2
            p == (a + h) \div TimeRange
            q == (b + h) \div TimeRange
<1>1. TimeRange \in Nat \ {0} /\ h \in Nat
  BY TimeAssumption
<1>. HIDE DEF h
<1>2. p \in Nat /\ q \in Nat /\ p <= q
  BY <1>1, DivMod, DivMonotone
<1>3. /\ (a + h) % TimeRange \in Int /\ (b + h) % TimeRange \in Int
      /\ a + h = p * TimeRange + ((a + h) % TimeRange)
      /\ b + h = q * TimeRange + ((b + h) % TimeRange)
  <2>1. a + h \in Nat /\ b + h \in Nat
    BY <1>1
  <2>. QED BY <2>1, <1>1, DivMod
<1>4. /\ Wrapped(a) = ((a + h) % TimeRange) - h
      /\ Wrapped(b) = ((b + h) % TimeRange) - h
  BY DEF Wrapped, h
<1>. HIDE DEF p, q
<1>5. p * TimeRange <= q * TimeRange /\ p * TimeRange \in Int /\ q * TimeRange \in Int
  <2>1. PICK k \in Nat : q = p + k
    BY <1>2
  <2>2. q * TimeRange = p * TimeRange + k * TimeRange
    BY <2>1, <1>1, <1>2
  <2>3. k * TimeRange >= 0 /\ k * TimeRange \in Int /\ p * TimeRange \in Int
    BY <1>1, <1>2
  <2>. QED BY <2>2, <2>3
<1>. DEFINE x == (a + h) % TimeRange
            y == (b + h) % TimeRange
            m == p * TimeRange
            n == q * TimeRange
<1>6. /\ x \in Int /\ y \in Int /\ m \in Int /\ n \in Int /\ m <= n /\ a + h = m + x /\ b + h = n + y
      /\ Wrapped(a) = x - h /\ Wrapped(b) = y - h
  BY <1>3, <1>4, <1>5
<1>. HIDE DEF x, y, m, n
<1>. QED BY <1>1, <1>6

\* A clock value split and put together again.
LEMMA ClockIs ==
  ASSUME NEW c \in Nat
  PROVE  /\ gettimeofday(c).tv_sec \in Nat /\ gettimeofday(c).tv_usec \in Nat
         /\ Microseconds(gettimeofday(c)) = c
         /\ gettimeofday(c).tv_sec * SEC_TO_US + gettimeofday(c).tv_usec = c
BY DivMod, TimeAssumption DEF gettimeofday, Microseconds

\* Between two readings of the clock the products do not grow faster than the clock.
LEMMA Elapsed ==
  ASSUME NEW a \in Nat, NEW b \in Nat, a <= b
  PROVE  /\ Product(gettimeofday(a)) \in Int /\ Product(gettimeofday(b)) \in Int
         /\ Product(gettimeofday(b)) - Product(gettimeofday(a)) <= b - a
<1>. DEFINE u == gettimeofday(a).tv_sec
            v == gettimeofday(b).tv_sec
            x == gettimeofday(a).tv_usec
            y == gettimeofday(b).tv_usec
            m == u * SEC_TO_US
            n == v * SEC_TO_US
<1>1. u \in Nat /\ v \in Nat /\ x \in Nat /\ y \in Nat /\ m + x = a /\ n + y = b
  BY ClockIs
<1>2. u <= v
  BY DivMonotone, TimeAssumption DEF gettimeofday
<1>. HIDE DEF u, v, x, y
<1>3. m \in Nat /\ n \in Nat /\ m <= n
  <2>1. PICK k \in Nat : v = u + k
    BY <1>1, <1>2
  <2>2. n = m + k * SEC_TO_US
    BY <2>1, <1>1, TimeAssumption
  <2>3. k * SEC_TO_US \in Nat /\ m \in Nat /\ n \in Nat
    BY <1>1, TimeAssumption
  <2>. HIDE DEF m, n
  <2>. QED BY <2>2, <2>3
<1>4. Product(gettimeofday(a)) = Wrapped(m) + x /\ Product(gettimeofday(b)) = Wrapped(n) + y
  BY DEF Product, u, v, x, y
<1>. HIDE DEF m, n
<1>5. Wrapped(m) \in Int /\ Wrapped(n) \in Int /\ Wrapped(n) - Wrapped(m) <= n - m
  BY <1>3, WrapFalls
<1>. QED BY <1>1, <1>3, <1>4, <1>5

\* The end of a timer, told by the product that timer_expired compares.
LEMMA EndingIs ==
  ASSUME NEW c \in Nat, NEW sec \in Nat, NEW usec \in Nat
  PROVE  LET tp == Ending(gettimeofday(c), sec, usec)
         IN /\ tp # NoTimer /\ tp.begin = gettimeofday(c) /\ Product(tp.end) \in Int
            /\ Product(tp.end) - Product(gettimeofday(c)) <= sec * SEC_TO_US + usec
            /\ sec = 0 => Product(tp.end) = Product(gettimeofday(c)) + usec
<1>. DEFINE tp == Ending(gettimeofday(c), sec, usec)
            s == gettimeofday(c).tv_sec
            x == gettimeofday(c).tv_usec
            m == s * SEC_TO_US
            n == sec * SEC_TO_US
<1>1. s \in Nat /\ x \in Nat /\ m \in Nat /\ n \in Nat /\ (s + sec) * SEC_TO_US = m + n
  BY ClockIs, TimeAssumption
<1>2. tp.begin = gettimeofday(c) /\ tp.end = [tv_sec |-> s + sec, tv_usec |-> x + usec]
  BY DEF Ending
<1>3. tp # NoTimer
  <2>1. NoTimer.begin.tv_sec = -1
    BY DEF NoTimer, Ending
  <2>2. tp.begin.tv_sec = s
    BY <1>2
  <2>. HIDE DEF tp, s
  <2>. QED BY <2>1, <2>2, <1>1
<1>4. /\ Product(tp.end) = Wrapped((s + sec) * SEC_TO_US) + (x + usec)
      /\ Product(gettimeofday(c)) = Wrapped(m) + x
  BY <1>2 DEF Product
<1>. HIDE DEF tp, s, x, m, n
<1>5. Wrapped(m) \in Int /\ Wrapped(m + n) \in Int /\ Wrapped(m + n) - Wrapped(m) <= n
  <2>1. m \in Nat /\ m + n \in Nat /\ m <= m + n
    BY <1>1
  <2>2. Wrapped(m) \in Int /\ Wrapped(m + n) \in Int /\ Wrapped(m + n) - Wrapped(m) <= (m + n) - m
    BY <2>1, WrapFalls
  <2>. QED BY <2>2, <1>1
<1>6. sec = 0 => n = 0
  BY TimeAssumption DEF n
<1>7. Product(tp.end) = Wrapped(m + n) + (x + usec)
  BY <1>1, <1>4
<1>8. sec = 0 => Product(tp.end) = Wrapped(m) + (x + usec)
  <2>1. n = 0 => m + n = m
    BY <1>1
  <2>. QED BY <2>1, <1>6, <1>7
<1>9. /\ Product(tp.end) \in Int
      /\ Product(tp.end) - Product(gettimeofday(c)) <= n + usec
  BY <1>1, <1>4, <1>5, <1>7
<1>10. sec = 0 => Product(tp.end) = Product(gettimeofday(c)) + usec
  BY <1>1, <1>4, <1>5, <1>8
<1>. QED BY <1>2, <1>3, <1>9, <1>10 DEF tp, n

\* A timer of microseconds never runs out early.
LEMMA NeverEarly ==
  ASSUME NEW c \in Nat, NEW usec \in Nat, NEW t \in Nat, c <= t,
         timer_expired(Ending(gettimeofday(c), 0, usec), t)
  PROVE  t > c + usec
<1>. DEFINE e == Product(Ending(gettimeofday(c), 0, usec).end)
            a == Product(gettimeofday(c))
            b == Product(gettimeofday(t))
<1>1. a \in Int /\ b \in Int /\ b - a <= t - c
  BY Elapsed
<1>2. e = a + usec
  BY EndingIs
<1>3. b > e
  BY DEF timer_expired
<1>. HIDE DEF e, a, b
<1>. QED BY <1>1, <1>2, <1>3

\* A timer runs out in time, unless the product has wrapped since it began.
LEMMA NeverLate ==
  ASSUME NEW c \in Nat, NEW sec \in Nat, NEW usec \in Nat, NEW t \in Nat,
         ~ timer_expired(Ending(gettimeofday(c), sec, usec), t),
         SameEra(gettimeofday(t), gettimeofday(c))
  PROVE  t <= c + (sec * SEC_TO_US + usec)
<1>. DEFINE e == Product(Ending(gettimeofday(c), sec, usec).end)
            a == Product(gettimeofday(c))
            b == Product(gettimeofday(t))
            d == sec * SEC_TO_US + usec
<1>1. /\ Ending(gettimeofday(c), sec, usec) # NoTimer /\ e \in Int /\ e - a <= d
  BY EndingIs
<1>2. ~ (b > e)
  BY <1>1 DEF timer_expired
<1>3. b - a = t - c
  BY ClockIs DEF SameEra
<1>4. a \in Int /\ b \in Int /\ d \in Int
  BY Elapsed, TimeAssumption
<1>. HIDE DEF e, a, b, d
<1>5. t <= c + d
  BY <1>1, <1>2, <1>3, <1>4
<1>. QED BY <1>5 DEF d

\* The timer of the test runs out after its last second, unless the product
\* differs in era at its end.
LEMMA RunsOut ==
  ASSUME NEW c \in Nat, NEW sec \in Nat, NEW t \in Nat,
         SameEra(gettimeofday(t), gettimeofday(c + sec * SEC_TO_US))
  PROVE  timer_expired(new_timer(c, sec, 0), t) <=> t > c + sec * SEC_TO_US
<1>. DEFINE s == c \div SEC_TO_US
            x == c % SEC_TO_US
            d == c + sec * SEC_TO_US
            tp == new_timer(c, sec, 0)
<1>1. /\ s \in Nat /\ x \in 0 .. SEC_TO_US - 1 /\ c = s * SEC_TO_US + x
      /\ SEC_TO_US \in Nat \ {0}
  BY DivMod, TimeAssumption
<1>2. d \in Nat /\ d \div SEC_TO_US = s + sec /\ d % SEC_TO_US = x
  <2>. HIDE DEF s, x
  <2>1. d = (s + sec) * SEC_TO_US + x
    BY <1>1
  <2>2. s + sec \in Nat
    BY <1>1
  <2>3. d \in Nat
    <3>1. sec * SEC_TO_US \in Nat
      BY <1>1
    <3>. QED BY <3>1
  <2>. QED BY <2>1, <2>2, <2>3, <1>1, Quotient
<1>3. tp.end = gettimeofday(d)
  <2>1. tp.end = [tv_sec |-> s + sec, tv_usec |-> x + 0]
    BY DEF new_timer, Ending, gettimeofday
  <2>2. gettimeofday(d) = [tv_sec |-> s + sec, tv_usec |-> x]
    BY <1>2 DEF gettimeofday
  <2>. QED BY <2>1, <2>2, <1>1
<1>4. tp # NoTimer
  BY EndingIs DEF new_timer
<1>5. timer_expired(tp, t) <=> Product(gettimeofday(t)) > Product(gettimeofday(d))
  BY <1>3, <1>4 DEF timer_expired
<1>6. Product(gettimeofday(t)) - Product(gettimeofday(d)) = t - d
  BY <1>2, ClockIs DEF SameEra
<1>7. Product(gettimeofday(t)) \in Int /\ Product(gettimeofday(d)) \in Int
  BY <1>2, Elapsed
<1>. HIDE DEF d, tp
<1>8. timer_expired(tp, t) <=> t > d
  BY <1>2, <1>5, <1>6, <1>7
<1>. QED BY <1>8 DEF d, tp
-----------------------------------------------------------------------------
LEMMA BytesOf == \A s : FoldLeft(LAMBDA sum, ip : sum + ip.bytes, 0, s) = Total(s, "bytes")
BY Zenon DEF Total
LEMMA SentOf == \A s : FoldLeft(LAMBDA sum, sp : sum + sp.bytes_sent, 0, s) = Total(s, "bytes_sent")
BY DEF Total

\* Closing an interval that begins where the last one ended tiles the time of
\* the stream up to now, with the bytes of the interval more.
LEMMA CloseTiles ==
  ASSUME NEW sp \in Stream, NEW sends \in BOOLEAN, NEW t \in Int, NEW total \in Int,
         Tiled(sp, total), sp.start_time <= t, sp.interval_results # <<>> => sp.end_time <= t
  PROVE  /\ Tiled(CloseInterval(sp, sends, t), total + Closing(sp, sends, t).bytes)
         /\ CloseInterval(sp, sends, t).interval_results # <<>>
<1>. DEFINE new == CloseInterval(sp, sends, t)
            ip == Closing(sp, sends, t)
            old == sp.interval_results
            n == Len(old)
<1>1. /\ new.start_time = sp.start_time /\ new.end_time = t
      /\ new.interval_results = Append(old, ip) /\ ip \in Interval
  BY CloseIntervalIs
<1>2. old \in Seq(Interval) /\ n \in Nat
  BY DEF Stream, Intervals
<1>3. /\ ip.start = (IF old = <<>> THEN sp.start_time ELSE sp.end_time) /\ ip.end = t
      /\ old # <<>> => sp.end_time <= t
  BY DEF Closing
<1>4. sp.start_time \in Int /\ sp.end_time \in Int
  BY DEF Stream
<1>5. /\ Total(old, "bytes") = total
      /\ \A k \in 1 .. n : /\ old[k].start = IF k = 1 THEN sp.start_time ELSE old[k - 1].end
                           /\ old[k].start <= old[k].end
      /\ old # <<>> => old[n].end = sp.end_time
  <2>1. FoldLeft(LAMBDA sum, i : sum + i.bytes, 0, old) = total
    BY DEF Tiled
  <2>2. Total(old, "bytes") = total
    BY <2>1, BytesOf, Zenon
  <2>3. DOMAIN old = 1 .. n
    BY <1>2
  <2>. QED BY <2>2, <2>3 DEF Tiled
<1>. HIDE DEF new, ip, old
<1>. DEFINE list == Append(old, ip)
<1>6. /\ Len(list) = n + 1 /\ list[n + 1] = ip /\ \A k \in 1 .. n : list[k] = old[k]
      /\ list # <<>> /\ DOMAIN list = 1 .. n + 1
  BY <1>1, <1>2
<1>7. Total(list, "bytes") = total + ip.bytes
  <2>1. \A k \in 1 .. Len(old) : old[k]["bytes"] \in Int
    <3>1. \A k \in 1 .. Len(old) : old[k] \in Interval
      BY <1>2
    <3>. QED BY <3>1 DEF Interval
  <2>2. ip["bytes"] \in Int
    BY <1>1 DEF Interval
  <2>3. Total(list, "bytes") = Total(old, "bytes") + ip["bytes"]
    BY <1>1, <1>2, <2>1, <2>2, TotalAppend
  <2>. QED BY <2>3, <1>5
<1>8. (old = <<>> <=> n = 0) /\ (old # <<>> => n \in 1 .. n)
  BY <1>2
<1>. HIDE DEF list, n
<1>9. ASSUME NEW k \in 1 .. n + 1
      PROVE  /\ list[k].start = IF k = 1 THEN sp.start_time ELSE list[k - 1].end
             /\ list[k].start <= list[k].end
  <2>1. CASE k \in 1 .. n
    <3>1. k # 1 => k - 1 \in 1 .. n /\ list[k - 1] = old[k - 1]
      BY <2>1, <1>2, <1>6
    <3>2. list[k] = old[k]
      BY <2>1, <1>6
    <3>. QED BY <2>1, <3>1, <3>2, <1>5
  <2>2. CASE k = n + 1 /\ n = 0
    BY <2>2, <1>3, <1>6, <1>8
  <2>3. CASE k = n + 1 /\ n # 0
    <3>1. n \in 1 .. n /\ k - 1 = n /\ k # 1 /\ old # <<>>
      BY <2>3, <1>2, <1>8
    <3>2. list[k - 1] = old[n] /\ list[k] = ip
      BY <2>3, <3>1, <1>6
    <3>. QED BY <3>1, <3>2, <1>3, <1>5
  <2>. QED BY <2>1, <2>2, <2>3, <1>2
<1>10. /\ new.start_time = sp.start_time /\ new.end_time = t /\ new.interval_results = list
  BY <1>1 DEF list
<1>11. list[Len(list)].end = t
  BY <1>3, <1>6
<1>12. Tiled(new, total + ip.bytes)
  BY <1>6, <1>7, <1>9, <1>10, <1>11, BytesOf DEF Tiled
<1>. QED BY <1>6, <1>10, <1>12 DEF new, ip

\* A stream without intervals is tiled by none.
LEMMA NoneTiles ==
  ASSUME NEW sp, sp.interval_results = <<>>
  PROVE  Tiled(sp, 0)
<1>1. Total(<<>>, "bytes") = 0
  BY TotalEmpty
<1>2. DOMAIN <<>> = {}
  OBVIOUS
<1>. QED BY <1>1, <1>2, BytesOf DEF Tiled

\* What does not touch the intervals and the time of a stream keeps them tiled.
LEMMA SameTiles ==
  ASSUME NEW sp, NEW tp, NEW total, Tiled(sp, total), Times(sp, tp)
  PROVE  Tiled(tp, total)
BY DEF Tiled, Times
-----------------------------------------------------------------------------
\* What the options of a test give the books and the clock.
LEMMA TestFacts ==
  ASSUME Inv
  PROVE  /\ N \in Nat \ {0} /\ options.blksize \in Nat /\ options.bytes \in Nat
         /\ options.duration \in Nat /\ options.interval \in Nat
         /\ Dtargus(options) \in Nat \ {0} /\ Sends(options)
         /\ ~ Sends([options EXCEPT !.role = "s"])
         /\ now \in Nat /\ MaxWrite \in Nat
<1>1. options \in Options /\ options \in Tests /\ now \in Nat /\ MaxWrite \in Nat
  BY TestsAssumption DEF Inv, UdpTypeOK
<1>2. /\ options.rate > 0 /\ Dtargus(options) > 0 /\ options.role = "c" /\ options.reverse = 0
      /\ options.num_streams > 0
  BY <1>1, TestsAssumption
<1>3. /\ options.num_streams \in Nat /\ options.blksize \in Nat /\ options.bytes \in Nat
      /\ options.duration \in Nat /\ options.interval \in Nat /\ options.rate \in Nat
  BY <1>1 DEF Options
<1>4. Dtargus(options) \in Nat
  <2>1. options.blksize * SEC_TO_US \in Nat
    BY <1>3, TimeAssumption
  <2>2. options.blksize * SEC_TO_US * 8 \in Nat
    BY <2>1
  <2>3. options.rate \in Nat \ {0}
    BY <1>2, <1>3
  <2>. QED BY <2>2, <2>3, DivMod DEF Dtargus
<1>5. Sends(options) /\ ~ Sends([options EXCEPT !.role = "s"])
  BY <1>1, <1>2 DEF Sends, Options
<1>. QED BY <1>1, <1>2, <1>3, <1>4, <1>5 DEF N

\* Steps that leave the streams of both ends alone.
LEMMA BooksKept ==
  ASSUME BooksInv, streams' = streams, sinks' = sinks, now' >= now, now \in Nat, now' \in Nat,
         Early' => Early, phase' = "done" <=> phase = "done",
         streams \in Seq(Stream), sinks \in Seq(Stream)
  PROVE  BooksInv'
<1>1. ASSUME NEW sp \in Stream, Timely(sp)
      PROVE  /\ sp.start_time \in Nat /\ sp.start_time <= now'
             /\ sp.interval_results # <<>> => sp.end_time <= now'
  <2>1. sp.start_time \in Int /\ sp.end_time \in Int
    BY DEF Stream
  <2>. QED BY <1>1, <2>1 DEF Timely
<1>2. \A i \in 1 .. Len(streams) : streams[i] \in Stream
  OBVIOUS
<1>3. \A i \in 1 .. Len(sinks) : sinks[i] \in Stream
  OBVIOUS
<1>4. ASSUME NEW i \in 1 .. Len(streams) PROVE Timely(streams[i])'
  <2>1. Timely(streams[i])
    BY DEF BooksInv
  <2>. QED BY <1>1, <1>2, <2>1 DEF Timely
<1>5. ASSUME NEW i \in 1 .. Len(sinks) PROVE Timely(sinks[i])'
  <2>1. Timely(sinks[i])
    BY DEF BooksInv
  <2>. QED BY <1>1, <1>3, <2>1 DEF Timely
<1>6. (\A i \in 1 .. Len(streams) :
         /\ Timely(streams[i])
         /\ Tiled(streams[i], streams[i].bytes_sent - streams[i].bytes_sent_this_interval)
         /\ Early => streams[i].interval_results = <<>> /\ streams[i].bytes_sent = 0)'
  BY <1>4 DEF BooksInv
<1>7. (\A i \in 1 .. Len(sinks) :
         /\ Timely(sinks[i])
         /\ Tiled(sinks[i], sinks[i].bytes_received - sinks[i].bytes_received_this_interval)
         /\ phase # "done" => sinks[i].interval_results = <<>>)'
  BY <1>5 DEF BooksInv
<1>8. (phase = "done" => \A i \in 1 .. Len(streams) :
         /\ streams[i].packet_count = sinks[i].packet_count
         /\ streams[i].cnt_error = sinks[i].cnt_error
         /\ streams[i].bytes_received = sinks[i].bytes_received)'
  BY DEF BooksInv
<1>. QED BY <1>6, <1>7, <1>8 DEF BooksInv

\* Steps that leave the sender alone.
LEMMA PaceKept ==
  ASSUME PaceInv, UNCHANGED clientVars, now' >= now, now \in Nat, now' \in Nat, MaxWrite \in Nat,
         phase' = "run" => phase = "run", Early' => Early, phase' # "done" => phase # "done"
  PROVE  PaceInv'
<1>1. ASSUME NEW tp, NEW last, NEW start, Paced(tp, last, start)
      PROVE  \/ last = -1 /\ tp = new_timer(start, Dtargus(options) \div SEC_TO_US,
                                              Dtargus(options) % SEC_TO_US)
             \/ /\ last \in Nat
                /\ \E after \in last .. last + MaxWrite :
                     /\ after <= now'
                     /\ tp = update_timer(after, 0, Pause(Dtargus(options), last, after))
  <2>1. CASE last = -1
    BY <2>1, <1>1 DEF Paced
  <2>2. CASE last # -1
    <3>1. last \in Nat
      BY <2>2, <1>1 DEF Paced
    <3>. PICK after \in last .. last + MaxWrite :
           after <= now /\ tp = update_timer(after, 0, Pause(Dtargus(options), last, after))
      BY <2>2, <1>1 DEF Paced
    <3>2. after <= now'
      BY <3>1
    <3>. QED BY <3>1, <3>2
  <2>. QED BY <2>1, <2>2
<1>2. options' = options /\ streams' = streams /\ send_timer' = send_timer /\ sentAt' = sentAt
      /\ timer' = timer /\ turn' = turn /\ bytes_sent' = bytes_sent
  BY DEF clientVars
<1>3. ASSUME phase = "run", NEW i \in 1 .. Len(streams)
      PROVE  Paced(send_timer[i], sentAt[i], streams[i].start_time)'
  <2>1. Paced(send_timer[i], sentAt[i], streams[i].start_time)
    BY <1>3 DEF PaceInv
  <2>. QED BY <1>1, <1>2, <2>1 DEF Paced
<1>. QED BY <1>2, <1>3 DEF PaceInv, N

\* Steps after the handshakes, and steps that belong to none.
LEMMA HandshakeKept ==
  ASSUME HandshakeInv, phase # "wait", phase' # "wait", UNCHANGED <<hello, reply, accepting, listener, options>>,
         phase \in {"dial", "wait"} <=> phase' \in {"dial", "wait"},
         phase' \in {"dial", "wait", "start", "run", "ended", "done"},
         Len(streams') = Len(streams), Len(sinks') = Len(sinks),
         \A i \in 1 .. Len(streams) : streams'[i].id = streams[i].id,
         \A i \in 1 .. Len(sinks) : sinks'[i].id = sinks[i].id
  PROVE  HandshakeInv'
BY DEF HandshakeInv, Numbered, N
-----------------------------------------------------------------------------
\* A new handshake begins when the last one has ended.
LEMMA DialLedger == Inv /\ Inv' /\ Ledger /\ Dial => Ledger'
<1>. SUFFICES ASSUME Inv, Inv', Ledger, Dial PROVE Ledger'
  OBVIOUS
<1>1. /\ phase = "dial" /\ phase' = "wait" /\ hello' = hello \cup {Len(streams) + 1}
      /\ streams' = streams /\ sinks' = sinks /\ reply' = reply /\ accepting' = accepting
      /\ listener' = listener /\ options' = options /\ now' = now
  BY DEF Dial, clientVars, serverVars
<1>2. HandshakeInv'
  BY <1>1 DEF Ledger, HandshakeInv, Numbered, N
<1>3. BooksInv'
  BY <1>1, BooksKept DEF Ledger, Inv, UdpTypeOK, Early
<1>4. PaceInv'
  BY <1>1, PaceKept, TestsAssumption DEF Dial, Ledger, Inv, UdpTypeOK, Early
<1>. QED BY <1>2, <1>3, <1>4 DEF Ledger

\* The server takes the token: it listens when a datagram comes.
LEMMA AcceptLedger == Inv /\ Inv' /\ Ledger /\ Accept => Ledger'
<1>. SUFFICES ASSUME Inv, Inv', Ledger, Accept PROVE Ledger'
  OBVIOUS
<1>1. PICK s \in hello :
        /\ hello' = hello \ {s}
        /\ IF listener THEN accepting' = s /\ listener' = FALSE /\ UNCHANGED phase
           ELSE phase' = "failed" /\ UNCHANGED <<accepting, listener>>
  BY DEF Accept
<1>2. /\ phase = "wait" /\ hello = {s} /\ s = Len(streams) + 1 /\ accepting = 0 /\ listener
      /\ reply = {} /\ Len(sinks) = Len(streams)
  BY DEF Ledger, HandshakeInv
<1>3. /\ streams' = streams /\ sinks' = sinks /\ reply' = reply /\ options' = options
      /\ now' = now /\ phase' = phase /\ accepting' = s /\ hello' = {} /\ UNCHANGED clientVars
  BY <1>1, <1>2 DEF Accept, clientVars
<1>4. HandshakeInv'
  <2>1. s # 0
    BY <1>2 DEF Inv, UdpTypeOK
  <2>. QED BY <1>2, <1>3, <2>1 DEF Ledger, HandshakeInv, Numbered, N
<1>5. BooksInv'
  BY <1>3, BooksKept DEF Ledger, Inv, UdpTypeOK, Early
<1>6. PaceInv'
  BY <1>3, PaceKept, TestsAssumption DEF Ledger, Inv, UdpTypeOK, Early
<1>. QED BY <1>4, <1>5, <1>6 DEF Ledger

\* The new listener, or none, and a datagram that is lost.
LEMMA AnnounceLedger == Inv /\ Inv' /\ Ledger /\ (Announce \/ HelloLost) => Ledger'
<1>. SUFFICES ASSUME Inv, Inv', Ledger, Announce \/ HelloLost PROVE Ledger'
  OBVIOUS
<1>1. /\ streams' = streams /\ sinks' = sinks /\ options' = options /\ now' = now
      /\ phase' = phase /\ UNCHANGED clientVars
  BY DEF Announce, HelloLost, clientVars, serverVars
<1>2. ASSUME Announce PROVE HandshakeInv'
  <2>1. /\ hello' = hello /\ reply' = reply /\ accepting # 0
        /\ accepting' = accepting \/ accepting' = -1
    BY <1>2 DEF Announce, netVars
  <2>2. phase = "wait"
    BY <2>1 DEF Ledger, HandshakeInv
  <2>3. accepting' # 0
    BY <2>1
  <2>4. /\ accepting \in {0, -1, Len(streams) + 1} /\ hello = {} /\ reply = {}
        /\ Len(sinks) = Len(streams) /\ Len(streams) < N /\ Numbered(streams) /\ Numbered(sinks)
    BY <2>1, <2>2 DEF Ledger, HandshakeInv
  <2>5. phase' = "wait" /\ (accepting' = 0 => listener') /\ Len(streams') < N'
    BY <1>1, <2>2, <2>3, <2>4 DEF N
  <2>6. Numbered(streams') /\ Numbered(sinks')
    BY <1>1, <2>4
  <2>7. /\ hello' = {} /\ reply' = {} /\ accepting' \in {0, -1, Len(streams') + 1}
        /\ Len(sinks') = Len(streams')
    BY <1>1, <2>1, <2>4
  <2>. QED BY <2>5, <2>6, <2>7 DEF HandshakeInv
<1>3. ASSUME HelloLost PROVE HandshakeInv'
  <2>1. /\ hello' \subseteq hello /\ reply' \subseteq reply /\ accepting' = accepting
        /\ listener' = listener /\ (hello # {} \/ reply # {})
    BY <1>3 DEF HelloLost, serverVars
  <2>2. phase = "wait"
    BY <2>1 DEF Ledger, HandshakeInv
  <2>3. /\ hello \subseteq {Len(streams) + 1} /\ reply \subseteq {Len(streams) + 1}
        /\ accepting = 0 /\ listener
        /\ hello # {} => reply = {} /\ Len(sinks) = Len(streams)
        /\ reply # {} => Len(sinks) = Len(streams) + 1
        /\ Len(streams) < N /\ Numbered(streams) /\ Numbered(sinks)
    BY <2>1, <2>2 DEF Ledger, HandshakeInv
  <2>4. phase' = "wait" /\ (accepting' = 0 => listener') /\ Len(streams') < N'
    BY <1>1, <2>1, <2>2, <2>3 DEF N
  <2>5. Numbered(streams') /\ Numbered(sinks')
    BY <1>1, <2>3
  <2>6. /\ hello' \subseteq {Len(streams') + 1} /\ reply' \subseteq {Len(streams') + 1}
        /\ accepting' = 0
        /\ hello' # {} => reply' = {} /\ Len(sinks') = Len(streams')
        /\ reply' # {} => Len(sinks') = Len(streams') + 1
    BY <1>1, <2>1, <2>3
  <2>. QED BY <2>4, <2>5, <2>6 DEF HandshakeInv
<1>4. HandshakeInv'
  BY <1>2, <1>3
<1>5. BooksInv'
  BY <1>1, BooksKept DEF Ledger, Inv, UdpTypeOK, Early
<1>6. PaceInv'
  BY <1>1, PaceKept, TestsAssumption DEF Ledger, Inv, UdpTypeOK, Early
<1>. QED BY <1>4, <1>5, <1>6 DEF Ledger

\* A stream that has just been made has nothing in its books.
LEMMA NewStreamBooks ==
  ASSUME NEW s \in Int, NEW list \in Seq(Stream), now \in Nat
  PROVE  LET more == iperf_add_stream(list, iperf_new_stream(s))
             sp == more[Len(list) + 1]
         IN /\ more \in Seq(Stream) /\ Len(more) = Len(list) + 1
            /\ \A i \in 1 .. Len(list) : more[i] = list[i]
            /\ Numbered(list) => Numbered(more)
            /\ sp.interval_results = <<>> /\ Timely(sp) /\ Tiled(sp, 0)
            /\ sp.bytes_sent = 0 /\ sp.bytes_sent_this_interval = 0
            /\ sp.bytes_received = 0 /\ sp.bytes_received_this_interval = 0
            /\ sp.start_time = 0
<1>. DEFINE new == iperf_new_stream(s)
            more == iperf_add_stream(list, new)
            sp == more[Len(list) + 1]
<1>1. new \in Stream
  BY NewStreamType
<1>2. /\ new.bytes_sent = 0 /\ new.bytes_sent_this_interval = 0 /\ new.bytes_received = 0
      /\ new.bytes_received_this_interval = 0 /\ new.start_time = 0
      /\ new.interval_results = <<>>
  BY DEF iperf_new_stream
<1>. HIDE DEF new
<1>3. /\ more \in Seq(Stream) /\ Len(more) = Len(list) + 1
      /\ \A i \in 1 .. Len(list) : more[i] = list[i]
      /\ Totals(new, sp) /\ ThisInterval(new, sp) /\ Times(new, sp)
  BY <1>1, AddStream
<1>4. Numbered(list) => Numbered(more)
  BY <1>1, AddNumbered
<1>. HIDE DEF more
<1>5. /\ sp.bytes_sent = 0 /\ sp.bytes_sent_this_interval = 0 /\ sp.bytes_received = 0
      /\ sp.bytes_received_this_interval = 0 /\ sp.start_time = 0
      /\ sp.interval_results = <<>>
  BY <1>2, <1>3 DEF Totals, ThisInterval, Times
<1>6. Timely(sp)
  BY <1>5 DEF Timely
<1>7. Tiled(sp, 0)
  BY <1>5, NoneTiles
<1>. QED BY <1>3, <1>4, <1>5, <1>6, <1>7 DEF more, new

\* The server adds a stream, and answers.
LEMMA ConfirmLedger == Inv /\ Inv' /\ Ledger /\ Confirm => Ledger'
<1>. SUFFICES ASSUME Inv, Inv', Ledger, Confirm PROVE Ledger'
  OBVIOUS
<1>1. /\ accepting > 0 /\ listener /\ reply' = reply \cup {accepting} /\ accepting' = 0
      /\ sinks' = iperf_add_stream(sinks, iperf_new_stream(accepting))
      /\ UNCHANGED clientVars /\ phase' = phase /\ now' = now /\ listener' = listener
      /\ hello' = hello /\ options' = options /\ streams' = streams
  BY DEF Confirm, clientVars
<1>2. phase = "wait"
  BY <1>1 DEF Ledger, HandshakeInv
<1>3. /\ accepting = Len(streams) + 1 /\ hello = {} /\ reply = {} /\ Len(sinks) = Len(streams)
      /\ Len(streams) < N /\ Numbered(streams) /\ Numbered(sinks) /\ accepting \in Int
  BY <1>1, <1>2 DEF Ledger, HandshakeInv, Inv, UdpTypeOK
<1>4. sinks \in Seq(Stream) /\ streams \in Seq(Stream) /\ now \in Nat
  BY DEF Inv, UdpTypeOK
<1>. DEFINE sp == sinks'[Len(sinks) + 1]
<1>5. /\ sinks' \in Seq(Stream) /\ Len(sinks') = Len(sinks) + 1
      /\ \A i \in 1 .. Len(sinks) : sinks'[i] = sinks[i]
      /\ Numbered(sinks')
      /\ sp.interval_results = <<>> /\ Timely(sp) /\ Tiled(sp, 0)
      /\ sp.bytes_received = 0 /\ sp.bytes_received_this_interval = 0
  BY <1>1, <1>3, <1>4, NewStreamBooks
<1>6. HandshakeInv'
  <2>1. phase' = "wait" /\ (accepting' = 0 => listener') /\ Len(streams') < N'
    BY <1>1, <1>2, <1>3 DEF N
  <2>2. Numbered(streams') /\ Numbered(sinks')
    BY <1>1, <1>3, <1>5
  <2>3. /\ hello' = {} /\ reply' \subseteq {Len(streams') + 1} /\ accepting' = 0
        /\ Len(sinks') = Len(streams') + 1
    BY <1>1, <1>3, <1>5
  <2>. QED BY <2>1, <2>2, <2>3 DEF HandshakeInv
<1>7. BooksInv'
  <2>1. ASSUME NEW i \in 1 .. Len(sinks')
        PROVE  /\ Timely(sinks'[i])
               /\ Tiled(sinks'[i], sinks'[i].bytes_received - sinks'[i].bytes_received_this_interval)
               /\ sinks'[i].interval_results = <<>>
    <3>1. CASE i \in 1 .. Len(sinks)
      BY <3>1, <1>2, <1>5 DEF Ledger, BooksInv
    <3>2. CASE i = Len(sinks) + 1
      BY <3>2, <1>5
    <3>3. Len(sinks) \in Nat
      BY <1>4
    <3>. QED BY <3>1, <3>2, <3>3, <1>5
  <2>2. Early' = Early
    BY <1>1 DEF Early
  <2>3. \A sp0 : Timely(sp0) => (/\ sp0.start_time \in Nat /\ sp0.start_time <= now'
                                 /\ sp0.interval_results # <<>> => sp0.end_time <= now')
    BY <1>1 DEF Timely
  <2>4. \A i \in 1 .. Len(streams) : Timely(streams[i])'
    <3>1. \A i \in 1 .. Len(streams) : Timely(streams[i])
      BY DEF Ledger, BooksInv
    <3>. QED BY <3>1, <1>1 DEF Timely
  <2>5. \A i \in 1 .. Len(sinks') : Timely(sinks[i])'
    BY <2>1, <2>3 DEF Timely
  <2>6. (\A i \in 1 .. Len(streams) :
           /\ Timely(streams[i])
           /\ Tiled(streams[i], streams[i].bytes_sent - streams[i].bytes_sent_this_interval)
           /\ Early => streams[i].interval_results = <<>> /\ streams[i].bytes_sent = 0)'
    BY <1>1, <2>2, <2>4 DEF Ledger, BooksInv
  <2>7. (\A i \in 1 .. Len(sinks) :
           /\ Timely(sinks[i])
           /\ Tiled(sinks[i], sinks[i].bytes_received - sinks[i].bytes_received_this_interval)
           /\ phase # "done" => sinks[i].interval_results = <<>>)'
    BY <2>1, <2>5
  <2>8. phase' # "done"
    BY <1>1, <1>2
  <2>. QED BY <2>6, <2>7, <2>8 DEF BooksInv
<1>8. PaceInv'
  BY <1>1, <1>4, PaceKept, TestsAssumption DEF Ledger, Early
<1>. QED BY <1>6, <1>7, <1>8 DEF Ledger

\* The client adds a stream, and dials again or starts.
LEMMA ConnectedHandshake == Inv /\ Ledger /\ Connected => HandshakeInv'
<1>. SUFFICES ASSUME Inv, Ledger, Connected PROVE HandshakeInv'
  OBVIOUS
<1>. DEFINE s == Len(streams) + 1
<1>1. /\ phase = "wait" /\ s \in reply /\ reply' = reply \ {s}
      /\ streams' = iperf_add_stream(streams, iperf_new_stream(s))
      /\ phase' = IF s = N THEN "start" ELSE "dial"
      /\ sinks' = sinks /\ hello' = hello /\ accepting' = accepting /\ listener' = listener
      /\ options' = options
  BY DEF Connected, serverVars
<1>2. streams \in Seq(Stream) /\ s \in Int /\ now \in Nat
  BY DEF Inv, UdpTypeOK
<1>3. /\ reply = {s} /\ hello = {} /\ accepting = 0 /\ listener /\ Len(sinks) = s
      /\ Len(streams) < N /\ Numbered(streams) /\ Numbered(sinks)
  BY <1>1 DEF Ledger, HandshakeInv
<1>4. Len(streams') = s /\ Numbered(streams')
  <2>. HIDE DEF s
  <2>1. Len(streams') = Len(streams) + 1 /\ Numbered(streams')
    BY <1>1, <1>2, <1>3, NewStreamBooks
  <2>. QED BY <2>1 DEF s
<1>5. IF phase' \in {"dial", "wait"} THEN Len(streams') < N' ELSE Len(streams') = N'
  <2>1. N \in Nat /\ Len(streams) \in Nat /\ N' = N
    BY <1>1, <1>2, TestFacts DEF N
  <2>. QED BY <2>1, <1>1, <1>3, <1>4
<1>6. phase' \in {"dial", "start"} /\ hello' = {} /\ reply' = {} /\ accepting' = 0 /\ listener'
  BY <1>1, <1>3
<1>7. Len(sinks') = Len(streams') /\ Numbered(sinks')
  BY <1>1, <1>3, <1>4
<1>. QED BY <1>4, <1>5, <1>6, <1>7 DEF HandshakeInv

LEMMA ConnectedLedger == Inv /\ Inv' /\ Ledger /\ Connected => Ledger'
<1>. SUFFICES ASSUME Inv, Inv', Ledger, Connected PROVE Ledger'
  OBVIOUS
<1>. DEFINE s == Len(streams) + 1
            new == iperf_new_stream(s)
            sp == streams'[s]
<1>1. /\ phase = "wait" /\ streams' = iperf_add_stream(streams, new)
      /\ phase' \in {"start", "dial"} /\ sinks' = sinks /\ now' = now
      /\ send_timer' = Append(send_timer, NoTimer) /\ sentAt' = Append(sentAt, -1)
      /\ UNCHANGED <<options, turn, bytes_sent>>
  BY DEF Connected, serverVars
<1>2. streams \in Seq(Stream) /\ s \in Int /\ now \in Nat /\ Len(streams) \in Nat
  BY DEF Inv, UdpTypeOK
<1>3. Early /\ Early'
  BY <1>1 DEF Early
<1>4. /\ streams' \in Seq(Stream) /\ Len(streams') = s
      /\ \A i \in 1 .. Len(streams) : streams'[i] = streams[i]
      /\ sp.interval_results = <<>> /\ Timely(sp) /\ Tiled(sp, 0)
      /\ sp.bytes_sent = 0 /\ sp.bytes_sent_this_interval = 0
  BY <1>1, <1>2, NewStreamBooks
<1>5. BooksInv'
  <2>1. ASSUME NEW i \in 1 .. Len(streams')
        PROVE  /\ Timely(streams'[i])
               /\ Tiled(streams'[i], streams'[i].bytes_sent - streams'[i].bytes_sent_this_interval)
               /\ streams'[i].interval_results = <<>> /\ streams'[i].bytes_sent = 0
    <3>1. CASE i \in 1 .. Len(streams)
      BY <3>1, <1>3, <1>4 DEF Ledger, BooksInv
    <3>2. CASE i = s
      BY <3>2, <1>4
    <3>. QED BY <3>1, <3>2, <1>2, <1>4
  <2>2. \A i \in 1 .. Len(streams') : Timely(streams[i])'
    BY <2>1, <1>1 DEF Timely
  <2>3. \A i \in 1 .. Len(sinks') : Timely(sinks[i])'
    <3>1. \A i \in 1 .. Len(sinks) : Timely(sinks[i])
      BY DEF Ledger, BooksInv
    <3>. QED BY <3>1, <1>1 DEF Timely
  <2>4. (\A i \in 1 .. Len(streams) :
           /\ Timely(streams[i])
           /\ Tiled(streams[i], streams[i].bytes_sent - streams[i].bytes_sent_this_interval)
           /\ Early => streams[i].interval_results = <<>> /\ streams[i].bytes_sent = 0)'
    BY <2>1, <2>2
  <2>5. phase # "done" /\ phase' # "done"
    BY <1>1
  <2>6. (\A i \in 1 .. Len(sinks) :
           /\ Timely(sinks[i])
           /\ Tiled(sinks[i], sinks[i].bytes_received - sinks[i].bytes_received_this_interval)
           /\ phase # "done" => sinks[i].interval_results = <<>>)'
    BY <2>3, <2>5, <1>1 DEF Ledger, BooksInv
  <2>. QED BY <2>4, <2>5, <2>6 DEF BooksInv
<1>6. Total(streams', "bytes_sent") = Total(streams, "bytes_sent")
  <2>. DEFINE e == [new EXCEPT !.id = IF streams = <<>> THEN 1 ELSE 2 + Len(streams)]
  <2>1. streams' = Append(streams, e)
    BY <1>1 DEF iperf_add_stream
  <2>2. e = streams'[s] /\ e \in Stream
    <3>. HIDE DEF e
    <3>1. e = streams'[s]
      BY <2>1, <1>2
    <3>. QED BY <3>1, <1>2, <1>4
  <2>. HIDE DEF e, new
  <2>3. \A i \in 1 .. Len(streams) : streams[i]["bytes_sent"] \in Int
    <3>1. \A i \in 1 .. Len(streams) : streams[i] \in Stream
      BY <1>2
    <3>. QED BY <3>1 DEF Stream
  <2>4. e["bytes_sent"] = 0
    BY <2>2, <1>4
  <2>5. Total(Append(streams, e), "bytes_sent") = Total(streams, "bytes_sent") + 0
    BY <2>2, <2>3, <2>4, <1>2, TotalAppend
  <2>6. Total(streams, "bytes_sent") \in Int
    BY <2>3, <1>2, TotalInt
  <2>. QED BY <2>1, <2>5, <2>6
<1>7. PaceInv'
  <2>1. /\ turn' \in 1 .. N' + 1 /\ bytes_sent' = Total(streams', "bytes_sent")
    BY <1>1, <1>6 DEF Ledger, PaceInv, N
  <2>2. send_timer' \in Seq(Timer) /\ Len(send_timer') = Len(streams')
    <3>1. NoTimer \in Timer
      BY DEF NoTimer, Ending, Timer, Clock
    <3>. QED BY <3>1, <1>1, <1>4 DEF Ledger, PaceInv
  <2>3. /\ sentAt' \in Seq(Int) /\ Len(sentAt') = Len(streams')
        /\ \A i \in 1 .. Len(streams') : sentAt'[i] = -1
    <3>1. /\ sentAt \in Seq(Int) /\ Len(sentAt) = Len(streams)
          /\ \A i \in 1 .. Len(streams) : sentAt[i] = -1
      BY <1>3 DEF Ledger, PaceInv
    <3>. QED BY <3>1, <1>1, <1>2, <1>4
  <2>4. phase' # "run"
    BY <1>1
  <2>. QED BY <2>1, <2>2, <2>3, <2>4 DEF PaceInv
<1>8. HandshakeInv'
  BY ConnectedHandshake
<1>. QED BY <1>5, <1>7, <1>8 DEF Ledger

\* Without intervals the time of a stream may be set.
LEMMA EmptyTiles ==
  ASSUME NEW sp, NEW tp, NEW total, Tiled(sp, total), sp.interval_results = <<>>,
         tp.interval_results = <<>>
  PROVE  Tiled(tp, total)
<1>1. Total(<<>>, "bytes") = total
  <2>1. FoldLeft(LAMBDA sum, ip : sum + ip.bytes, 0, <<>>) = total
    BY DEF Tiled
  <2>. QED BY <2>1, BytesOf, Zenon
<1>2. total = 0
  BY <1>1, TotalEmpty
<1>. QED BY <1>2, NoneTiles

\* The clock readings of timers are numbers.
LEMMA TimerType ==
  ASSUME NEW c \in Nat, NEW sec \in Int, NEW usec \in Int
  PROVE  Ending(gettimeofday(c), sec, usec) \in Timer
<1>1. gettimeofday(c).tv_sec \in Nat /\ gettimeofday(c).tv_usec \in Nat
  BY ClockIs
<1>2. gettimeofday(c) \in Clock
  BY <1>1 DEF gettimeofday, Clock
<1>. QED BY <1>1, <1>2 DEF Ending, Timer, Clock

\* At the start the streams of both ends get their time, and the timers theirs.
LEMMA Started ==
  ASSUME NEW list \in Seq(Stream), now \in Nat
  PROVE  LET new == [i \in DOMAIN list |-> [list[i] EXCEPT !.start_time = now]]
         IN /\ new \in Seq(Stream) /\ Len(new) = Len(list)
            /\ \A i \in 1 .. Len(list) :
                 /\ new[i].id = list[i].id /\ Totals(list[i], new[i])
                 /\ ThisInterval(list[i], new[i])
                 /\ new[i].interval_results = list[i].interval_results
                 /\ new[i].start_time = now
<1>1. ASSUME NEW sp \in Stream
      PROVE  LET tp == [sp EXCEPT !.start_time = now]
             IN /\ tp \in Stream /\ tp.id = sp.id /\ Totals(sp, tp) /\ ThisInterval(sp, tp)
                /\ tp.interval_results = sp.interval_results /\ tp.start_time = now
  <2>. DEFINE tp == [sp EXCEPT !.start_time = now]
  <2>1. now \in Int
    OBVIOUS
  <2>2. tp \in Stream
    BY <2>1 DEF Stream
  <2>3. /\ tp.id = sp.id /\ tp.interval_results = sp.interval_results /\ tp.start_time = now
        /\ tp.bytes_sent = sp.bytes_sent /\ tp.bytes_received = sp.bytes_received
    BY DEF Stream
  <2>4. /\ tp.bytes_sent_this_interval = sp.bytes_sent_this_interval
        /\ tp.bytes_received_this_interval = sp.bytes_received_this_interval
    BY DEF Stream
  <2>. HIDE DEF tp
  <2>5. /\ tp \in Stream /\ tp.id = sp.id /\ Totals(sp, tp) /\ ThisInterval(sp, tp)
        /\ tp.interval_results = sp.interval_results /\ tp.start_time = now
    BY <2>2, <2>3, <2>4 DEF Totals, ThisInterval
  <2>. QED BY <2>5 DEF tp
<1>. DEFINE tp(i) == [list[i] EXCEPT !.start_time = now]
            new == [i \in DOMAIN list |-> tp(i)]
<1>2. \A i \in 1 .. Len(list) : list[i] \in Stream
  OBVIOUS
<1>3. \A i \in 1 .. Len(list) :
        /\ tp(i) \in Stream /\ tp(i).id = list[i].id /\ Totals(list[i], tp(i))
        /\ ThisInterval(list[i], tp(i))
        /\ tp(i).interval_results = list[i].interval_results /\ tp(i).start_time = now
  BY <1>1, <1>2
<1>. HIDE DEF tp
<1>4. new = [i \in 1 .. Len(list) |-> tp(i)]
  OBVIOUS
<1>5. new \in Seq(Stream) /\ Len(new) = Len(list) /\ \A i \in 1 .. Len(list) : new[i] = tp(i)
  BY <1>3, <1>4
<1>. HIDE DEF new
<1>6. /\ new \in Seq(Stream) /\ Len(new) = Len(list)
      /\ \A i \in 1 .. Len(list) :
           /\ new[i].id = list[i].id /\ Totals(list[i], new[i])
           /\ ThisInterval(list[i], new[i])
           /\ new[i].interval_results = list[i].interval_results
           /\ new[i].start_time = now
  BY <1>3, <1>5
<1>. QED BY <1>6 DEF new, tp

LEMMA StartLedger == Inv /\ Inv' /\ Ledger /\ Start => Ledger'
<1>. SUFFICES ASSUME Inv, Inv', Ledger, Start PROVE Ledger'
  OBVIOUS
<1>. DEFINE d == Dtargus(options)
<1>1. /\ phase = "start" /\ phase' = "run" /\ now' = now
      /\ streams' = [i \in DOMAIN streams |-> [streams[i] EXCEPT !.start_time = now]]
      /\ sinks' = [i \in DOMAIN sinks |-> [sinks[i] EXCEPT !.start_time = now]]
      /\ send_timer' = [i \in DOMAIN streams |->
                          new_timer(now, d \div SEC_TO_US, d % SEC_TO_US)]
      /\ timer' = IF options.bytes = 0 THEN new_timer(now, options.duration, 0) ELSE NoTimer
      /\ UNCHANGED <<options, turn, bytes_sent, sentAt, hello, reply, accepting, listener>>
  BY DEF Start, netVars
<1>2. /\ streams \in Seq(Stream) /\ sinks \in Seq(Stream) /\ now \in Nat
      /\ N \in Nat \ {0} /\ d \in Nat /\ Len(streams) = N /\ SEC_TO_US \in Nat \ {0}
  BY <1>1, TestFacts, TimeAssumption DEF Inv, UdpTypeOK, Ledger, HandshakeInv
<1>3. /\ streams' \in Seq(Stream) /\ Len(streams') = Len(streams)
      /\ \A i \in 1 .. Len(streams) :
           /\ streams'[i].id = streams[i].id /\ Totals(streams[i], streams'[i])
           /\ ThisInterval(streams[i], streams'[i])
           /\ streams'[i].interval_results = streams[i].interval_results
           /\ streams'[i].start_time = now
  BY <1>1, <1>2, Started
<1>4. /\ sinks' \in Seq(Stream) /\ Len(sinks') = Len(sinks)
      /\ \A i \in 1 .. Len(sinks) :
           /\ sinks'[i].id = sinks[i].id /\ Totals(sinks[i], sinks'[i])
           /\ ThisInterval(sinks[i], sinks'[i])
           /\ sinks'[i].interval_results = sinks[i].interval_results
           /\ sinks'[i].start_time = now
  BY <1>1, <1>2, Started
<1>5. HandshakeInv'
  <2>1. /\ phase # "wait" /\ phase' # "wait"
        /\ phase \in {"dial", "wait"} <=> phase' \in {"dial", "wait"}
        /\ phase' \in {"dial", "wait", "start", "run", "ended", "done"}
    BY <1>1
  <2>2. HandshakeInv
    BY DEF Ledger
  <2>. QED BY <2>1, <2>2, <1>1, <1>3, <1>4, HandshakeKept
<1>6. BooksInv'
  <2>1. Early /\ ~ Early' /\ phase # "done" /\ phase' # "done"
    BY <1>1 DEF Early
  <2>2. ASSUME NEW i \in 1 .. Len(streams')
        PROVE  /\ Timely(streams[i])'
               /\ Tiled(streams'[i], streams'[i].bytes_sent - streams'[i].bytes_sent_this_interval)
    <3>1. /\ Tiled(streams[i], streams[i].bytes_sent - streams[i].bytes_sent_this_interval)
          /\ streams[i].interval_results = <<>>
      BY <1>3, <2>1 DEF Ledger, BooksInv
    <3>2. /\ streams'[i].interval_results = <<>> /\ streams'[i].start_time = now
          /\ streams'[i].bytes_sent = streams[i].bytes_sent
          /\ streams'[i].bytes_sent_this_interval = streams[i].bytes_sent_this_interval
      BY <3>1, <1>3 DEF Totals, ThisInterval
    <3>3. Tiled(streams'[i], streams[i].bytes_sent - streams[i].bytes_sent_this_interval)
      BY <3>1, <3>2, EmptyTiles
    <3>4. Timely(streams[i])'
      BY <3>2, <1>1, <1>2 DEF Timely
    <3>. QED BY <3>2, <3>3, <3>4
  <2>3. ASSUME NEW i \in 1 .. Len(sinks')
        PROVE  /\ Timely(sinks[i])'
               /\ Tiled(sinks'[i], sinks'[i].bytes_received - sinks'[i].bytes_received_this_interval)
               /\ sinks'[i].interval_results = <<>>
    <3>1. /\ Tiled(sinks[i], sinks[i].bytes_received - sinks[i].bytes_received_this_interval)
          /\ sinks[i].interval_results = <<>>
      BY <1>4, <2>1 DEF Ledger, BooksInv
    <3>2. /\ sinks'[i].interval_results = <<>> /\ sinks'[i].start_time = now
          /\ sinks'[i].bytes_received = sinks[i].bytes_received
          /\ sinks'[i].bytes_received_this_interval = sinks[i].bytes_received_this_interval
      BY <3>1, <1>4 DEF Totals, ThisInterval
    <3>3. Tiled(sinks'[i], sinks[i].bytes_received - sinks[i].bytes_received_this_interval)
      BY <3>1, <3>2, EmptyTiles
    <3>4. Timely(sinks[i])'
      BY <3>2, <1>1, <1>2 DEF Timely
    <3>. QED BY <3>2, <3>3, <3>4
  <2>4. (\A i \in 1 .. Len(streams) :
           /\ Timely(streams[i])
           /\ Tiled(streams[i], streams[i].bytes_sent - streams[i].bytes_sent_this_interval)
           /\ Early => streams[i].interval_results = <<>> /\ streams[i].bytes_sent = 0)'
    BY <2>1, <2>2
  <2>5. (\A i \in 1 .. Len(sinks) :
           /\ Timely(sinks[i])
           /\ Tiled(sinks[i], sinks[i].bytes_received - sinks[i].bytes_received_this_interval)
           /\ phase # "done" => sinks[i].interval_results = <<>>)'
    BY <2>3
  <2>. QED BY <2>1, <2>4, <2>5 DEF BooksInv
<1>7. PaceInv'
  <2>1. Early /\ ~ Early'
    BY <1>1 DEF Early
  <2>2. bytes_sent' = Total(streams', "bytes_sent")
    <3>1. bytes_sent = Total(streams, "bytes_sent")
      BY <1>1 DEF Ledger, PaceInv
    <3>2. \A i \in 1 .. Len(streams) :
            /\ streams[i]["bytes_sent"] \in Int
            /\ streams[i]["bytes_sent"] = streams'[i]["bytes_sent"]
      <4>1. \A i \in 1 .. Len(streams) : streams[i] \in Stream
        BY <1>2
      <4>. QED BY <4>1, <1>3 DEF Stream, Totals
    <3>3. Total(streams, "bytes_sent") = Total(streams', "bytes_sent")
      BY <3>2, <1>2, <1>3, TotalSame
    <3>. QED BY <3>1, <3>3, <1>1
  <2>3. turn' \in 1 .. N' + 1
    BY <1>1 DEF Ledger, PaceInv, N
  <2>4. sentAt' \in Seq(Int) /\ Len(sentAt') = Len(streams')
    BY <1>1, <1>3 DEF Ledger, PaceInv
  <2>. DEFINE tp == new_timer(now, d \div SEC_TO_US, d % SEC_TO_US)
  <2>5. tp \in Timer
    <3>1. d \div SEC_TO_US \in Int /\ d % SEC_TO_US \in Int
      <4>1. d \in Nat /\ SEC_TO_US \in Nat \ {0}
        BY <1>2
      <4>2. d \div SEC_TO_US \in Nat /\ d % SEC_TO_US \in 0 .. SEC_TO_US - 1
        BY <4>1, DivMod
      <4>. QED BY <4>1, <4>2
    <3>. QED BY <3>1, <1>2, TimerType DEF new_timer
  <2>6. send_timer' = [i \in 1 .. Len(streams) |-> tp]
    BY <1>1, <1>2
  <2>7. ASSUME NEW i \in 1 .. Len(streams')
        PROVE  Paced(send_timer[i], sentAt[i], streams[i].start_time)'
    <3>1. sentAt'[i] = -1 /\ send_timer'[i] = tp /\ streams'[i].start_time = now
      BY <2>1, <2>6, <1>1, <1>3 DEF Ledger, PaceInv
    <3>2. Dtargus(options)' = d
      BY <1>1 DEF Dtargus
    <3>. QED BY <3>1, <3>2 DEF Paced
  <2>. HIDE DEF tp
  <2>8. send_timer' \in Seq(Timer) /\ Len(send_timer') = Len(streams')
    BY <2>5, <2>6, <1>2, <1>3
  <2>9. timer' = (IF options.bytes = 0 THEN new_timer(streams[1].start_time, options.duration, 0)
                  ELSE NoTimer)'
    <3>1. streams'[1].start_time = now /\ options' = options
      BY <1>1, <1>2, <1>3
    <3>. QED BY <3>1, <1>1
  <2>. QED BY <2>1, <2>2, <2>3, <2>4, <2>7, <2>8, <2>9 DEF PaceInv
<1>. QED BY <1>5, <1>6, <1>7 DEF Ledger

\* A packet adds a block to its stream and leaves its intervals and times.
LEMMA PacketIs ==
  ASSUME NEW sp \in Stream, options.blksize \in Nat
  PROVE  /\ Packet(sp) \in Stream /\ Packet(sp).id = sp.id /\ Times(sp, Packet(sp))
         /\ Packet(sp).bytes_sent = sp.bytes_sent + options.blksize
         /\ Packet(sp).bytes_sent_this_interval = sp.bytes_sent_this_interval + options.blksize
<1>. DEFINE a == [sp EXCEPT !.packet_count = @ + 1]
            n == options.blksize
<1>1. /\ a \in Stream /\ a.id = sp.id /\ Times(sp, a) /\ a.bytes_sent = sp.bytes_sent
      /\ a.bytes_sent_this_interval = sp.bytes_sent_this_interval
  BY DEF Stream, Times
<1>2. Packet(sp) = Sent(a, n)
  BY DEF Packet
<1>. HIDE DEF a
<1>3. n \in Int
  OBVIOUS
<1>. HIDE DEF n
<1>4. /\ Sent(a, n) \in Stream /\ Sent(a, n).id = a.id /\ Times(a, Sent(a, n))
      /\ Sent(a, n).bytes_sent = a.bytes_sent + n
      /\ Sent(a, n).bytes_sent_this_interval = a.bytes_sent_this_interval + n
  BY <1>1, <1>3, SentIs
<1>5. Times(sp, Sent(a, n))
  BY <1>1, <1>4 DEF Times
<1>. QED BY <1>1, <1>2, <1>4, <1>5 DEF n

\* The pause reaches to the next packet, whatever the write took.
LEMMA PauseIs ==
  ASSUME NEW d \in Nat \ {0}, NEW before \in Nat, NEW after \in Nat, before <= after
  PROVE  /\ Pause(d, before, after) \in Nat
         /\ after + Pause(d, before, after) >= before + d
         /\ after + Pause(d, before, after) <= after + d
         /\ \A w \in Nat : after <= before + w => after + Pause(d, before, after) <= before + d + w
BY DEF Pause

\* A packet that is due is sent, and the timer of its stream set to the next one.
LEMMA PacketLedger ==
  ASSUME Inv, Inv', Ledger, UdpSend, timer_expired(send_timer[turn], now)
  PROVE  Ledger'
<1>. DEFINE sp == streams[turn]
            e == Packet(sp)
            d == Dtargus(options)
<1>1. /\ phase = "run" /\ turn <= N /\ turn' = turn + 1 /\ phase' = phase
      /\ streams' = [streams EXCEPT ![turn] = e]
      /\ sentAt' = [sentAt EXCEPT ![turn] = now]
      /\ bytes_sent' = bytes_sent + options.blksize
      /\ UNCHANGED <<options, timer, sinks, hello, reply, accepting, listener>>
  BY DEF UdpSend, serverVars
<1>2. PICK after \in now .. now + MaxWrite :
        /\ now' = after
        /\ send_timer' = [send_timer EXCEPT ![turn] = update_timer(after, 0, Pause(d, now, after))]
  BY DEF UdpSend
<1>3. /\ streams \in Seq(Stream) /\ sinks \in Seq(Stream) /\ now \in Nat
      /\ N \in Nat \ {0} /\ d \in Nat \ {0} /\ Len(streams) = N /\ options.blksize \in Nat
      /\ MaxWrite \in Nat
  BY <1>1, TestFacts DEF Inv, UdpTypeOK, Ledger, HandshakeInv
<1>4. turn \in 1 .. Len(streams) /\ after \in Nat /\ now <= after
  <2>1. turn \in 1 .. N + 1
    BY DEF Ledger, PaceInv
  <2>. QED BY <1>1, <1>3, <2>1
<1>5. sp \in Stream
  BY <1>3, <1>4
<1>6. /\ e \in Stream /\ e.id = sp.id /\ Times(sp, e)
      /\ e.bytes_sent = sp.bytes_sent + options.blksize
      /\ e.bytes_sent_this_interval = sp.bytes_sent_this_interval + options.blksize
  <2>. HIDE DEF sp
  <2>. QED BY <1>3, <1>5, PacketIs
<1>. HIDE DEF e
<1>7. /\ streams' \in Seq(Stream) /\ Len(streams') = Len(streams)
      /\ \A k \in 1 .. Len(streams) : streams'[k] = IF k = turn THEN e ELSE streams[k]
  BY <1>1, <1>3, <1>6, UpdateSeq
<1>8. \A k \in 1 .. Len(streams) :
        streams'[k].id = streams[k].id /\ Times(streams[k], streams'[k])
  BY <1>6, <1>7 DEF Times
<1>9. HandshakeInv'
  <2>1. HandshakeInv /\ phase # "wait" /\ phase' # "wait"
    BY <1>1 DEF Ledger
  <2>. QED BY <2>1, <1>1, <1>7, <1>8, HandshakeKept DEF HandshakeInv
<1>10. BooksInv'
  <2>1. ~ Early' /\ phase # "done" /\ phase' # "done"
    BY <1>1 DEF Early
  <2>2. ASSUME NEW i \in 1 .. Len(streams')
        PROVE  /\ Timely(streams[i])'
               /\ Tiled(streams'[i], streams'[i].bytes_sent - streams'[i].bytes_sent_this_interval)
    <3>1. /\ Tiled(streams[i], streams[i].bytes_sent - streams[i].bytes_sent_this_interval)
          /\ Timely(streams[i]) /\ streams[i] \in Stream
      BY <1>3, <1>7 DEF Ledger, BooksInv
    <3>2. Times(streams[i], streams'[i])
      BY <1>7, <1>8
    <3>3. streams'[i].bytes_sent - streams'[i].bytes_sent_this_interval
            = streams[i].bytes_sent - streams[i].bytes_sent_this_interval
      <4>1. CASE i = turn
        <5>1. streams'[i] = e
          BY <4>1, <1>4, <1>7
        <5>2. streams[i].bytes_sent \in Int /\ streams[i].bytes_sent_this_interval \in Int
          BY <3>1 DEF Stream
        <5>. QED BY <4>1, <5>1, <5>2, <1>3, <1>6
      <4>2. CASE i # turn
        BY <4>2, <1>7
      <4>. QED BY <4>1, <4>2
    <3>4. Tiled(streams'[i], streams[i].bytes_sent - streams[i].bytes_sent_this_interval)
      BY <3>1, <3>2, SameTiles
    <3>5. Timely(streams[i])'
      <4>1. streams[i].start_time \in Int /\ streams[i].end_time \in Int
        BY <3>1 DEF Stream
      <4>. QED BY <4>1, <3>1, <3>2, <1>2, <1>3, <1>4 DEF Timely, Times
    <3>. QED BY <3>3, <3>4, <3>5
  <2>3. ASSUME NEW i \in 1 .. Len(sinks) PROVE Timely(sinks[i])'
    <3>1. Timely(sinks[i]) /\ sinks[i] \in Stream
      BY <1>3 DEF Ledger, BooksInv
    <3>2. sinks[i].start_time \in Int /\ sinks[i].end_time \in Int
      BY <3>1 DEF Stream
    <3>. QED BY <3>1, <3>2, <1>1, <1>2, <1>3, <1>4 DEF Timely
  <2>4. (\A i \in 1 .. Len(streams) :
           /\ Timely(streams[i])
           /\ Tiled(streams[i], streams[i].bytes_sent - streams[i].bytes_sent_this_interval)
           /\ Early => streams[i].interval_results = <<>> /\ streams[i].bytes_sent = 0)'
    BY <2>1, <2>2
  <2>5. (\A i \in 1 .. Len(sinks) :
           /\ Timely(sinks[i])
           /\ Tiled(sinks[i], sinks[i].bytes_received - sinks[i].bytes_received_this_interval)
           /\ phase # "done" => sinks[i].interval_results = <<>>)'
    BY <2>1, <2>3, <1>1 DEF Ledger, BooksInv
  <2>. QED BY <2>1, <2>4, <2>5 DEF BooksInv
<1>11. bytes_sent' = Total(streams', "bytes_sent")
  <2>1. bytes_sent = Total(streams, "bytes_sent")
    BY <1>1 DEF Ledger, PaceInv
  <2>2. \A j \in 1 .. Len(streams) : streams[j]["bytes_sent"] \in Int
    <3>1. \A j \in 1 .. Len(streams) : streams[j] \in Stream
      BY <1>3
    <3>. QED BY <3>1 DEF Stream
  <2>3. \A j \in 1 .. Len(streams) :
          streams'[j]["bytes_sent"] = IF j = turn THEN streams[j]["bytes_sent"] + options.blksize
                                      ELSE streams[j]["bytes_sent"]
    BY <1>6, <1>7
  <2>4. /\ options.blksize \in Int /\ streams \in Seq(Stream) /\ streams' \in Seq(Stream)
        /\ Len(streams) = Len(streams') /\ turn \in 1 .. Len(streams)
    BY <1>3, <1>4, <1>7
  <2>5. Total(streams', "bytes_sent") = Total(streams, "bytes_sent") + options.blksize
    <3>. DEFINE s == streams
                t == streams'
                m == "bytes_sent"
                n == options.blksize
    <3>1. /\ s \in Seq(Stream) /\ t \in Seq(Stream) /\ Len(s) = Len(t) /\ turn \in 1 .. Len(s)
          /\ n \in Int
          /\ \A j \in 1 .. Len(s) : s[j][m] \in Int
          /\ \A j \in 1 .. Len(s) : t[j][m] = IF j = turn THEN s[j][m] + n ELSE s[j][m]
      BY <2>2, <2>3, <2>4
    <3>. HIDE DEF s, t, m, n
    <3>2. Total(t, m) = Total(s, m) + n
      BY <3>1, TotalChange
    <3>. QED BY <3>2 DEF s, t, m, n
  <2>. QED BY <2>1, <2>5, <1>1
<1>12. PaceInv'
  <2>. DEFINE tp == update_timer(after, 0, Pause(d, now, after))
  <2>1. tp \in Timer
    <3>1. Pause(d, now, after) \in Nat
      BY <1>3, <1>4, PauseIs
    <3>2. Pause(d, now, after) \in Int /\ 0 \in Int /\ after \in Nat
      BY <3>1, <1>4
    <3>3. Ending(gettimeofday(after), 0, Pause(d, now, after)) \in Timer
      <4>. HIDE DEF d
      <4>. QED BY <3>2, TimerType
    <3>. QED BY <3>3 DEF update_timer
  <2>2. /\ send_timer' \in Seq(Timer) /\ Len(send_timer') = Len(send_timer)
        /\ \A k \in 1 .. Len(send_timer) :
             send_timer'[k] = IF k = turn THEN tp ELSE send_timer[k]
    <3>1. send_timer \in Seq(Timer) /\ send_timer' = [send_timer EXCEPT ![turn] = tp]
      BY <1>2 DEF Ledger, PaceInv
    <3>. HIDE DEF tp
    <3>. QED BY <2>1, <3>1, UpdateSeq
  <2>3. /\ sentAt' \in Seq(Int) /\ Len(sentAt') = Len(sentAt)
        /\ \A k \in 1 .. Len(sentAt) : sentAt'[k] = IF k = turn THEN now ELSE sentAt[k]
    <3>1. sentAt \in Seq(Int) /\ now \in Int
      BY <1>3 DEF Ledger, PaceInv
    <3>. QED BY <3>1, <1>1, UpdateSeq
  <2>4. Len(send_timer) = Len(streams) /\ Len(sentAt) = Len(streams)
    BY DEF Ledger, PaceInv
  <2>5. Dtargus(options)' = d
    BY <1>1 DEF Dtargus
  <2>6. ASSUME NEW i \in 1 .. Len(streams')
        PROVE  Paced(send_timer[i], sentAt[i], streams[i].start_time)'
    <3>1. CASE i = turn
      <4>1. send_timer'[i] = tp /\ sentAt'[i] = now
        BY <3>1, <1>4, <2>2, <2>3, <2>4
      <4>2. \E x \in now .. now + MaxWrite : x <= now' /\ tp = update_timer(x, 0, Pause(d, now, x))
        BY <1>2, <1>4
      <4>. HIDE DEF tp
      <4>. QED BY <4>1, <4>2, <2>5, <1>3 DEF Paced
    <3>2. CASE i # turn
      <4>1. /\ send_timer'[i] = send_timer[i] /\ sentAt'[i] = sentAt[i]
            /\ streams'[i].start_time = streams[i].start_time
        BY <3>2, <1>7, <2>2, <2>3, <2>4
      <4>2. Paced(send_timer[i], sentAt[i], streams[i].start_time)
        BY <1>1, <1>7 DEF Ledger, PaceInv
      <4>3. CASE sentAt[i] = -1
        BY <4>1, <4>2, <4>3, <2>5 DEF Paced
      <4>4. CASE sentAt[i] # -1
        <5>1. sentAt[i] \in Nat
          BY <4>2, <4>4 DEF Paced
        <5>. PICK x \in sentAt[i] .. sentAt[i] + MaxWrite :
               x <= now /\ send_timer[i] = update_timer(x, 0, Pause(d, sentAt[i], x))
          BY <4>2, <4>4 DEF Paced
        <5>2. x <= now'
          BY <5>1, <1>2, <1>3, <1>4
        <5>. QED BY <5>1, <5>2, <4>1, <2>5 DEF Paced
      <4>. QED BY <4>3, <4>4
    <3>. QED BY <3>1, <3>2
  <2>7. turn' \in 1 .. N' + 1
    BY <1>1, <1>3, <1>4 DEF N
  <2>8. timer' = (IF options.bytes = 0 THEN new_timer(streams[1].start_time, options.duration, 0)
                  ELSE NoTimer)'
    <3>1. streams'[1].start_time = streams[1].start_time
      BY <1>3, <1>8 DEF Times
    <3>. QED BY <3>1, <1>1 DEF Ledger, PaceInv
  <2>9. ~ Early'
    BY <1>1 DEF Early
  <2>. QED BY <2>2, <2>3, <2>4, <2>6, <2>7, <2>8, <2>9, <1>7, <1>11 DEF PaceInv
<1>. QED BY <1>9, <1>10, <1>12 DEF Ledger

\* A turn that finds no packet due only goes on.
LEMMA NotDueLedger ==
  ASSUME Inv, Inv', Ledger, UdpSend, ~ timer_expired(send_timer[turn], now)
  PROVE  Ledger'
<1>1. /\ phase = "run" /\ turn <= N /\ turn' = turn + 1 /\ phase' = phase
      /\ UNCHANGED <<streams, send_timer, now, sentAt, bytes_sent, options, timer, sinks,
                     hello, reply, accepting, listener>>
  BY DEF UdpSend, serverVars
<1>2. HandshakeInv'
  BY <1>1 DEF Ledger, HandshakeInv, N
<1>3. BooksInv'
  BY <1>1, BooksKept DEF Ledger, Inv, UdpTypeOK, Early
<1>4. PaceInv'
  <2>1. turn' \in 1 .. N' + 1
    BY <1>1, TestFacts DEF Ledger, PaceInv, N
  <2>2. ASSUME NEW i \in 1 .. Len(streams)
        PROVE  Paced(send_timer[i], sentAt[i], streams[i].start_time)'
    <3>1. Paced(send_timer[i], sentAt[i], streams[i].start_time)
      BY <1>1 DEF Ledger, PaceInv
    <3>. QED BY <3>1, <1>1 DEF Paced, Dtargus
  <2>. QED BY <2>1, <2>2, <1>1 DEF Ledger, PaceInv, Early
<1>. QED BY <1>2, <1>3, <1>4 DEF Ledger

\* Statistics close an interval of every stream, and its books stay in order.
Booked(list) ==
  \A i \in 1 .. Len(list) :
    Timely(list[i]) /\ Tiled(list[i], list[i].bytes_sent - list[i].bytes_sent_this_interval)
Alike(list, new) ==
  /\ new \in Seq(Stream) /\ Len(new) = Len(list)
  /\ \A i \in 1 .. Len(list) :
       /\ new[i].id = list[i].id /\ new[i].bytes_sent = list[i].bytes_sent
       /\ new[i].start_time = list[i].start_time

LEMMA StatsBooked ==
  ASSUME NEW o, Sends(o), NEW list \in Seq(Stream), Booked(list), now \in Nat
  PROVE  Booked(iperf_stats_callback(o, list, now)) /\ Alike(list, iperf_stats_callback(o, list, now))
<1>. DEFINE new == iperf_stats_callback(o, list, now)
<1>1. /\ new \in Seq(Stream) /\ Len(new) = Len(list)
      /\ \A i \in 1 .. Len(list) : new[i] = CloseInterval(list[i], Sends(o), now)
  <2>1. now \in Int
    OBVIOUS
  <2>. QED BY <2>1, StatsIs
<1>. HIDE DEF new
<1>2. ASSUME NEW i \in 1 .. Len(list)
      PROVE  /\ Timely(new[i])
             /\ Tiled(new[i], new[i].bytes_sent - new[i].bytes_sent_this_interval)
             /\ new[i].id = list[i].id /\ new[i].bytes_sent = list[i].bytes_sent
             /\ new[i].start_time = list[i].start_time
  <2>. DEFINE sp == list[i]
              total == sp.bytes_sent - sp.bytes_sent_this_interval
              tp == CloseInterval(sp, TRUE, now)
  <2>1. sp \in Stream /\ Timely(sp) /\ Tiled(sp, total) /\ new[i] = tp /\ now \in Int
    <3>1. Sends(o) = TRUE
      BY DEF Sends
    <3>2. sp \in Stream /\ now \in Int
      OBVIOUS
    <3>3. Timely(sp) /\ Tiled(sp, total)
      BY DEF Booked
    <3>4. new[i] = tp
      BY <3>1, <1>1
    <3>. QED BY <3>2, <3>3, <3>4
  <2>2. /\ sp.bytes_sent \in Int /\ sp.bytes_sent_this_interval \in Int /\ total \in Int
        /\ sp.start_time <= now /\ (sp.interval_results # <<>> => sp.end_time <= now)
        /\ sp.start_time \in Nat
    <3>. HIDE DEF sp
    <3>1. sp.bytes_sent \in Int /\ sp.bytes_sent_this_interval \in Int
      BY <2>1 DEF Stream
    <3>. QED BY <3>1, <2>1 DEF Timely
  <2>. HIDE DEF sp
  <2>3. /\ tp.id = sp.id /\ Totals(sp, tp) /\ tp.start_time = sp.start_time /\ tp.end_time = now
        /\ tp.bytes_sent_this_interval = 0
    BY <2>1, CloseIntervalIs
  <2>4. Tiled(tp, total + Closing(sp, TRUE, now).bytes)
    <3>. HIDE DEF total, tp
    <3>. QED BY <2>1, <2>2, CloseTiles DEF tp
  <2>5. Closing(sp, TRUE, now).bytes = sp.bytes_sent_this_interval
    BY DEF Closing
  <2>6. total + sp.bytes_sent_this_interval = tp.bytes_sent - tp.bytes_sent_this_interval
    <3>. HIDE DEF tp
    <3>. QED BY <2>2, <2>3 DEF Totals
  <2>7. Timely(tp)
    <3>. HIDE DEF tp
    <3>. QED BY <2>1, <2>2, <2>3 DEF Timely
  <2>8. Tiled(tp, tp.bytes_sent - tp.bytes_sent_this_interval)
    BY <2>4, <2>5, <2>6
  <2>9. tp.bytes_sent = sp.bytes_sent
    BY <2>3 DEF Totals
  <2>. HIDE DEF tp, total
  <2>. QED BY <2>1, <2>3, <2>7, <2>8, <2>9 DEF sp
<1>. QED BY <1>1, <1>2 DEF Booked, Alike, new

LEMMA TimersLedger == Inv /\ Inv' /\ Ledger /\ Timers => Ledger'
<1>. SUFFICES ASSUME Inv, Inv', Ledger, Timers PROVE Ledger'
  OBVIOUS
<1>. DEFINE counted == IF timer_expired(stats_timer, now)
                       THEN iperf_stats_callback(options, streams, now) ELSE streams
            again == iperf_stats_callback(options, counted, now)
<1>1. /\ phase = "run" /\ phase' \in {"run", "ended"} /\ turn' = 1
      /\ streams' \in {counted, again}
      /\ UNCHANGED <<options, send_timer, timer, bytes_sent, sentAt, now, sinks, hello, reply,
                     accepting, listener>>
  BY DEF Timers, serverVars, netVars
<1>2. /\ streams \in Seq(Stream) /\ sinks \in Seq(Stream) /\ now \in Nat /\ Sends(options)
      /\ N \in Nat \ {0} /\ Len(streams) = N
  BY <1>1, TestFacts DEF Inv, UdpTypeOK, Ledger, HandshakeInv
<1>3. Booked(streams)
  BY DEF Ledger, BooksInv, Booked
<1>4. Booked(counted) /\ Alike(streams, counted)
  <2>1. Alike(streams, streams)
    BY <1>2 DEF Alike
  <2>. QED BY <2>1, <1>2, <1>3, StatsBooked
<1>5. counted \in Seq(Stream)
  BY <1>4 DEF Alike
<1>. HIDE DEF counted
<1>6. Booked(again) /\ Alike(counted, again)
  BY <1>2, <1>4, <1>5, StatsBooked
<1>. HIDE DEF again
<1>7. Booked(streams') /\ Alike(streams, streams')
  BY <1>1, <1>4, <1>6 DEF Alike
<1>8. HandshakeInv'
  <2>1. /\ HandshakeInv /\ phase # "wait" /\ phase' # "wait"
        /\ phase \in {"dial", "wait"} <=> phase' \in {"dial", "wait"}
        /\ phase' \in {"dial", "wait", "start", "run", "ended", "done"}
    BY <1>1 DEF Ledger
  <2>. QED BY <2>1, <1>1, <1>7, HandshakeKept DEF Alike
<1>9. BooksInv'
  <2>1. ~ Early' /\ phase # "done" /\ phase' # "done"
    BY <1>1 DEF Early
  <2>2. \A i \in 1 .. Len(streams') : Timely(streams[i])'
    BY <1>1, <1>7 DEF Booked, Timely
  <2>3. \A i \in 1 .. Len(sinks') : Timely(sinks[i])'
    BY <1>1 DEF Ledger, BooksInv, Timely
  <2>4. (\A i \in 1 .. Len(streams) :
           /\ Timely(streams[i])
           /\ Tiled(streams[i], streams[i].bytes_sent - streams[i].bytes_sent_this_interval)
           /\ Early => streams[i].interval_results = <<>> /\ streams[i].bytes_sent = 0)'
    BY <2>1, <2>2, <1>7 DEF Booked
  <2>5. (\A i \in 1 .. Len(sinks) :
           /\ Timely(sinks[i])
           /\ Tiled(sinks[i], sinks[i].bytes_received - sinks[i].bytes_received_this_interval)
           /\ phase # "done" => sinks[i].interval_results = <<>>)'
    BY <2>1, <2>3, <1>1 DEF Ledger, BooksInv
  <2>. QED BY <2>1, <2>4, <2>5 DEF BooksInv
<1>10. PaceInv'
  <2>1. bytes_sent' = Total(streams', "bytes_sent")
    <3>. DEFINE s == streams
                t == streams'
                m == "bytes_sent"
    <3>1. /\ s \in Seq(Stream) /\ t \in Seq(Stream) /\ Len(s) = Len(t)
          /\ \A i \in 1 .. Len(s) : s[i][m] \in Int /\ s[i][m] = t[i][m]
      <4>1. \A i \in 1 .. Len(streams) : streams[i] \in Stream
        BY <1>2
      <4>. QED BY <4>1, <1>2, <1>7 DEF Alike, Stream
    <3>. HIDE DEF s, t, m
    <3>2. Total(s, m) = Total(t, m)
      BY <3>1, TotalSame
    <3>3. bytes_sent = Total(streams, "bytes_sent")
      BY <1>1 DEF Ledger, PaceInv
    <3>. QED BY <3>2, <3>3, <1>1 DEF s, t, m
  <2>2. turn' \in 1 .. N' + 1
    BY <1>1, <1>2 DEF N
  <2>3. Dtargus(options)' = Dtargus(options)
    BY <1>1 DEF Dtargus
  <2>4. \A i \in 1 .. Len(streams) : streams'[i].start_time = streams[i].start_time
    BY <1>7 DEF Alike
  <2>5. ASSUME NEW i \in 1 .. Len(streams')
        PROVE  Paced(send_timer[i], sentAt[i], streams[i].start_time)'
    <3>1. Paced(send_timer[i], sentAt[i], streams[i].start_time)
      BY <1>1, <1>7 DEF Ledger, PaceInv, Alike
    <3>2. streams'[i].start_time = streams[i].start_time
      BY <2>4, <1>7 DEF Alike
    <3>. QED BY <3>1, <3>2, <2>3, <1>1 DEF Paced
  <2>6. timer' = (IF options.bytes = 0 THEN new_timer(streams[1].start_time, options.duration, 0)
                  ELSE NoTimer)'
    <3>1. streams'[1].start_time = streams[1].start_time
      BY <1>2, <2>4
    <3>. QED BY <3>1, <1>1 DEF Ledger, PaceInv
  <2>7. ~ Early' /\ Len(streams') = Len(streams)
    BY <1>1, <1>7 DEF Early, Alike
  <2>. QED BY <2>1, <2>2, <2>5, <2>6, <2>7, <1>1 DEF Ledger, PaceInv
<1>. QED BY <1>8, <1>9, <1>10 DEF Ledger

\* What the exchange leaves in the streams of the server.
LEMMA SinksClosed ==
  ASSUME NEW o, ~ Sends(o), NEW list \in Seq(Stream), now \in Nat, NEW i \in 1 .. Len(list),
         Timely(list[i]),
         Tiled(list[i], list[i].bytes_received - list[i].bytes_received_this_interval)
  PROVE  LET tp == iperf_stats_callback(o, list, now)[i]
         IN /\ Timely(tp) /\ Tiled(tp, tp.bytes_received - tp.bytes_received_this_interval)
            /\ tp.id = list[i].id /\ Counters(list[i], tp) /\ Totals(list[i], tp)
<1>. DEFINE sp == list[i]
            total == sp.bytes_received - sp.bytes_received_this_interval
            tp == CloseInterval(sp, FALSE, now)
<1>1. sp \in Stream /\ now \in Int
  OBVIOUS
<1>2. iperf_stats_callback(o, list, now)[i] = tp
  <2>1. Sends(o) = FALSE
    BY DEF Sends
  <2>2. now \in Int
    OBVIOUS
  <2>3. \A k \in 1 .. Len(list) :
          iperf_stats_callback(o, list, now)[k] = CloseInterval(list[k], Sends(o), now)
    BY <2>2, StatsIs
  <2>4. iperf_stats_callback(o, list, now)[i] = CloseInterval(list[i], Sends(o), now)
    BY <2>3
  <2>. QED BY <2>1, <2>4
<1>3. /\ sp.bytes_received \in Int /\ sp.bytes_received_this_interval \in Int
  <2>. HIDE DEF sp
  <2>. QED BY <1>1 DEF Stream
<1>4. Timely(sp) /\ Tiled(sp, total)
  OBVIOUS
<1>. HIDE DEF sp
<1>5. /\ sp.start_time \in Nat /\ sp.start_time <= now
      /\ sp.interval_results # <<>> => sp.end_time <= now
  BY <1>4 DEF Timely
<1>6. /\ tp.id = sp.id /\ Totals(sp, tp) /\ Counters(sp, tp) /\ tp.start_time = sp.start_time
      /\ tp.end_time = now /\ tp.bytes_received_this_interval = 0
  BY <1>1, CloseIntervalIs
<1>7. Tiled(tp, total + Closing(sp, FALSE, now).bytes)
  <2>1. total \in Int
    BY <1>3
  <2>. HIDE DEF total, tp
  <2>. QED BY <2>1, <1>1, <1>4, <1>5, CloseTiles DEF tp
<1>8. Closing(sp, FALSE, now).bytes = sp.bytes_received_this_interval
  BY DEF Closing
<1>. HIDE DEF tp
<1>9. total + sp.bytes_received_this_interval = tp.bytes_received - tp.bytes_received_this_interval
  BY <1>3, <1>6 DEF Totals
<1>10. Timely(tp)
  BY <1>1, <1>5, <1>6 DEF Timely
<1>11. Tiled(tp, tp.bytes_received - tp.bytes_received_this_interval)
  BY <1>7, <1>8, <1>9
<1>. QED BY <1>2, <1>6, <1>10, <1>11 DEF sp

\* The exchange gives every stream of the client the counts of its own receiver.
LEMMA ExchangeLedger == Inv /\ Inv' /\ Ledger /\ Exchange => Ledger'
<1>. SUFFICES ASSUME Inv, Inv', Ledger, Exchange PROVE Ledger'
  OBVIOUS
<1>. DEFINE theirs == [options EXCEPT !.role = "s"]
            lines == Results(theirs, sinks)
            r == parse_results(options, streams, lines)
<1>1. /\ phase = "ended" /\ phase' = "done"
      /\ sinks' = iperf_stats_callback(theirs, sinks, now)
      /\ streams' = r.streams
      /\ UNCHANGED <<options, send_timer, turn, timer, bytes_sent, sentAt, now, hello, reply,
                     accepting, listener>>
  BY DEF Exchange, netVars
<1>2. /\ streams \in Seq(Stream) /\ sinks \in Seq(Stream) /\ now \in Nat
      /\ Sends(options) /\ ~ Sends(theirs)
  BY TestFacts DEF Inv, UdpTypeOK
<1>3. Numbered(streams) /\ Numbered(sinks) /\ Len(sinks) = Len(streams)
  BY <1>1 DEF Ledger, HandshakeInv
<1>. HIDE DEF theirs
<1>4. /\ lines \in Seq(Line) /\ Len(lines) = Len(streams) /\ Numbered(lines)
      /\ \A i \in 1 .. Len(streams) :
           /\ lines[i].bytes = sinks[i].bytes_received
           /\ lines[i].cnt_error = sinks[i].cnt_error
           /\ lines[i].packet_count = sinks[i].packet_count
  BY <1>2, <1>3, ResultsAre
<1>. HIDE DEF lines
<1>5. /\ streams' \in Seq(Stream) /\ Len(streams') = Len(streams)
      /\ \A i \in 1 .. Len(streams) : Kept(options, streams[i], streams'[i])
  BY <1>1, <1>2, <1>4, ParseKeeps
<1>6. \A i \in 1 .. Len(streams) : streams'[i] = Merged(options, streams[i], lines[i])
  BY <1>1, <1>2, <1>3, <1>4, ParseMatching
<1>. HIDE DEF r
<1>7. \A i \in 1 .. Len(streams) :
        /\ streams'[i].packet_count = sinks[i].packet_count
        /\ streams'[i].cnt_error = sinks[i].cnt_error
        /\ streams'[i].bytes_received = sinks[i].bytes_received
  <2>. SUFFICES ASSUME NEW i \in 1 .. Len(streams)
                PROVE  /\ streams'[i].packet_count = sinks[i].packet_count
                       /\ streams'[i].cnt_error = sinks[i].cnt_error
                       /\ streams'[i].bytes_received = sinks[i].bytes_received
    OBVIOUS
  <2>. DEFINE sp == streams[i]
              tp == streams'[i]
              line == lines[i]
  <2>1. tp = Merged(options, sp, line) /\ sp \in Stream
    BY <1>2, <1>6
  <2>. HIDE DEF sp, tp, line
  <2>2. /\ tp.packet_count = line.packet_count /\ tp.cnt_error = line.cnt_error
        /\ tp.bytes_received = line.bytes
    BY <2>1, <1>2 DEF Merged, Stream
  <2>. QED BY <2>2, <1>4 DEF tp, line
<1>8. /\ sinks' \in Seq(Stream) /\ Len(sinks') = Len(sinks)
      /\ \A i \in 1 .. Len(sinks) :
           /\ Timely(sinks'[i])
           /\ Tiled(sinks'[i], sinks'[i].bytes_received - sinks'[i].bytes_received_this_interval)
           /\ sinks'[i].id = sinks[i].id /\ Counters(sinks[i], sinks'[i])
           /\ Totals(sinks[i], sinks'[i])
  <2>1. sinks' \in Seq(Stream) /\ Len(sinks') = Len(sinks)
    <3>1. now \in Int
      BY <1>2
    <3>. QED BY <3>1, <1>1, <1>2, StatsIs
  <2>2. \A i \in 1 .. Len(sinks) :
          /\ Timely(sinks[i])
          /\ Tiled(sinks[i], sinks[i].bytes_received - sinks[i].bytes_received_this_interval)
    BY DEF Ledger, BooksInv
  <2>. QED BY <2>1, <2>2, <1>1, <1>2, SinksClosed
<1>9. HandshakeInv'
  <2>1. HandshakeInv
    BY DEF Ledger
  <2>2. \A i \in 1 .. Len(streams) : streams'[i].id = streams[i].id
    BY <1>5 DEF Kept
  <2>. QED BY <2>1, <2>2, <1>1, <1>5, <1>8, HandshakeKept
<1>10. BooksInv'
  <2>1. ~ Early' /\ phase' = "done"
    BY <1>1 DEF Early
  <2>2. ASSUME NEW i \in 1 .. Len(streams')
        PROVE  /\ Timely(streams[i])'
               /\ Tiled(streams'[i], streams'[i].bytes_sent - streams'[i].bytes_sent_this_interval)
    <3>1. /\ Timely(streams[i])
          /\ Tiled(streams[i], streams[i].bytes_sent - streams[i].bytes_sent_this_interval)
      BY <1>5 DEF Ledger, BooksInv
    <3>2. /\ Times(streams[i], streams'[i])
          /\ streams'[i].bytes_sent = streams[i].bytes_sent
          /\ streams'[i].bytes_sent_this_interval = streams[i].bytes_sent_this_interval
      BY <1>2, <1>5 DEF Kept, Times
    <3>3. Tiled(streams'[i], streams[i].bytes_sent - streams[i].bytes_sent_this_interval)
      BY <3>1, <3>2, SameTiles
    <3>. QED BY <3>1, <3>2, <3>3, <1>1 DEF Timely, Times
  <2>3. \A i \in 1 .. Len(sinks') : Timely(sinks[i])'
    BY <1>1, <1>8 DEF Timely
  <2>4. (\A i \in 1 .. Len(streams) :
           /\ Timely(streams[i])
           /\ Tiled(streams[i], streams[i].bytes_sent - streams[i].bytes_sent_this_interval)
           /\ Early => streams[i].interval_results = <<>> /\ streams[i].bytes_sent = 0)'
    BY <2>1, <2>2
  <2>5. (\A i \in 1 .. Len(sinks) :
           /\ Timely(sinks[i])
           /\ Tiled(sinks[i], sinks[i].bytes_received - sinks[i].bytes_received_this_interval)
           /\ phase # "done" => sinks[i].interval_results = <<>>)'
    BY <2>1, <2>3, <1>8
  <2>6. (\A i \in 1 .. Len(streams) :
           /\ streams[i].packet_count = sinks[i].packet_count
           /\ streams[i].cnt_error = sinks[i].cnt_error
           /\ streams[i].bytes_received = sinks[i].bytes_received)'
    BY <1>3, <1>5, <1>7, <1>8 DEF Counters, Totals
  <2>. QED BY <2>4, <2>5, <2>6 DEF BooksInv
<1>11. PaceInv'
  BY <1>1, <1>5 DEF Ledger, PaceInv, Early, N
<1>. QED BY <1>9, <1>10, <1>11 DEF Ledger

\* A packet that has come adds a block to its stream and closes no interval.
LEMMA CountedIs ==
  ASSUME NEW sp \in Stream, NEW pcount \in Nat, options.blksize \in Nat
  PROVE  LET tp == Counted(sp, pcount)
         IN /\ tp.id = sp.id /\ Times(sp, tp)
            /\ tp.bytes_received = sp.bytes_received + options.blksize
            /\ tp.bytes_received_this_interval = sp.bytes_received_this_interval + options.blksize
<1>. DEFINE n == options.blksize
            new == Received(sp, n)
            tp == Counted(sp, pcount)
<1>1. /\ new \in Stream /\ new.id = sp.id /\ Times(sp, new)
      /\ new.bytes_received = sp.bytes_received + n
      /\ new.bytes_received_this_interval = sp.bytes_received_this_interval + n
  <2>1. n \in Int
    OBVIOUS
  <2>. HIDE DEF n
  <2>. QED BY <2>1, ReceivedIs
<1>2. tp = IF pcount >= sp.packet_count + 1
           THEN [new EXCEPT !.cnt_error = @ + (pcount - 1) - sp.packet_count, !.packet_count = pcount]
           ELSE [new EXCEPT !.outoforder_packets = @ + 1]
  BY DEF Counted
<1>. HIDE DEF new, tp
<1>3. /\ tp.id = new.id /\ Times(new, tp) /\ tp.bytes_received = new.bytes_received
      /\ tp.bytes_received_this_interval = new.bytes_received_this_interval
  BY <1>1, <1>2 DEF Stream, Times
<1>. HIDE DEF n
<1>4. Times(sp, tp)
  BY <1>1, <1>3 DEF Times
<1>. QED BY <1>1, <1>3, <1>4 DEF tp, n

LEMMA RecvLedger ==
  ASSUME NEW i \in DOMAIN net, NEW pcount \in net[i], Inv, Inv', Ledger, UdpRecv(i, pcount)
  PROVE  Ledger'
<1>. DEFINE e == Counted(sinks[i], pcount)
<1>1. /\ phase \in {"run", "ended"} /\ sinks' = [sinks EXCEPT ![i] = e]
      /\ UNCHANGED clientVars
      /\ UNCHANGED <<options, streams, phase, now, listener, accepting, hello, reply>>
  BY DEF UdpRecv, clientVars
<1>2. /\ streams \in Seq(Stream) /\ sinks \in Seq(Stream) /\ now \in Nat
      /\ options.blksize \in Nat /\ Len(sinks) = Len(streams) /\ i \in 1 .. Len(sinks)
      /\ pcount \in Nat
  <2>1. phase # "wait"
    BY <1>1
  <2>2. Len(sinks) = Len(streams)
    BY <2>1 DEF Ledger, HandshakeInv
  <2>3. net \in Seq(SUBSET Nat) /\ Len(net) = Len(streams)
    BY DEF Inv, UdpTypeOK
  <2>4. i \in 1 .. Len(sinks) /\ pcount \in Nat
    BY <2>2, <2>3
  <2>. QED BY <2>2, <2>4, TestFacts DEF Inv, UdpTypeOK
<1>3. sinks' \in Seq(Stream)
  BY DEF Inv, UdpTypeOK
<1>4. sinks[i] \in Stream
  BY <1>2
<1>5. /\ e.id = sinks[i].id /\ Times(sinks[i], e)
      /\ e.bytes_received = sinks[i].bytes_received + options.blksize
      /\ e.bytes_received_this_interval = sinks[i].bytes_received_this_interval + options.blksize
  BY <1>2, <1>4, CountedIs
<1>. HIDE DEF e
<1>6. /\ Len(sinks') = Len(sinks)
      /\ \A k \in 1 .. Len(sinks) : sinks'[k] = IF k = i THEN e ELSE sinks[k]
  BY <1>1, <1>2
<1>7. \A k \in 1 .. Len(sinks) : sinks'[k].id = sinks[k].id /\ Times(sinks[k], sinks'[k])
  BY <1>5, <1>6 DEF Times
<1>8. HandshakeInv'
  BY <1>1, <1>6, <1>7, HandshakeKept DEF Ledger, HandshakeInv
<1>9. BooksInv'
  <2>1. phase # "done" /\ phase' # "done" /\ Early' = Early
    BY <1>1 DEF Early
  <2>2. \A k \in 1 .. Len(streams') : Timely(streams[k])'
    BY <1>1 DEF Ledger, BooksInv, Timely
  <2>3. (\A k \in 1 .. Len(streams) :
           /\ Timely(streams[k])
           /\ Tiled(streams[k], streams[k].bytes_sent - streams[k].bytes_sent_this_interval)
           /\ Early => streams[k].interval_results = <<>> /\ streams[k].bytes_sent = 0)'
    BY <2>1, <2>2, <1>1 DEF Ledger, BooksInv
  <2>4. ASSUME NEW k \in 1 .. Len(sinks')
        PROVE  /\ Timely(sinks[k])'
               /\ Tiled(sinks'[k], sinks'[k].bytes_received - sinks'[k].bytes_received_this_interval)
               /\ sinks'[k].interval_results = <<>>
    <3>1. /\ Timely(sinks[k]) /\ sinks[k].interval_results = <<>> /\ sinks[k] \in Stream
          /\ Tiled(sinks[k], sinks[k].bytes_received - sinks[k].bytes_received_this_interval)
      BY <2>1, <1>2, <1>6 DEF Ledger, BooksInv
    <3>2. Times(sinks[k], sinks'[k])
      BY <1>6, <1>7
    <3>3. sinks'[k].bytes_received - sinks'[k].bytes_received_this_interval
            = sinks[k].bytes_received - sinks[k].bytes_received_this_interval
      <4>1. CASE k = i
        <5>1. sinks'[k] = e
          BY <4>1, <1>2, <1>6
        <5>2. sinks[k].bytes_received \in Int /\ sinks[k].bytes_received_this_interval \in Int
          BY <3>1 DEF Stream
        <5>. QED BY <4>1, <5>1, <5>2, <1>2, <1>5
      <4>2. CASE k # i
        BY <4>2, <1>6
      <4>. QED BY <4>1, <4>2
    <3>4. Tiled(sinks'[k], sinks[k].bytes_received - sinks[k].bytes_received_this_interval)
      BY <3>1, <3>2, SameTiles
    <3>5. Timely(sinks[k])'
      BY <3>1, <3>2, <1>1 DEF Timely, Times
    <3>6. sinks'[k].interval_results = <<>>
      BY <3>1, <3>2 DEF Times
    <3>. QED BY <3>3, <3>4, <3>5, <3>6
  <2>5. (\A k \in 1 .. Len(sinks) :
           /\ Timely(sinks[k])
           /\ Tiled(sinks[k], sinks[k].bytes_received - sinks[k].bytes_received_this_interval)
           /\ phase # "done" => sinks[k].interval_results = <<>>)'
    BY <2>4
  <2>. QED BY <2>1, <2>3, <2>5 DEF BooksInv
<1>10. PaceInv'
  BY <1>1, <1>2, PaceKept, TestsAssumption DEF Ledger, Early
<1>. QED BY <1>8, <1>9, <1>10 DEF Ledger

\* The clock goes on, packets get lost.
LEMMA RestLedger ==
  ASSUME Inv, Inv', Ledger,
         \/ Tick \/ UNCHANGED vars
         \/ \E i \in DOMAIN net : \E pcount \in net[i] : PacketLost(i, pcount)
  PROVE  Ledger'
<1>1. /\ UNCHANGED clientVars
      /\ UNCHANGED <<options, streams, sinks, phase, listener, accepting, hello, reply>>
      /\ now' = now \/ now' = now + 1
  BY DEF Tick, PacketLost, vars, clientVars, serverVars, netVars
<1>2. now \in Nat /\ now' \in Nat /\ now' >= now
  BY <1>1 DEF Inv, UdpTypeOK
<1>3. HandshakeInv'
  BY <1>1 DEF Ledger, HandshakeInv, Numbered, N
<1>4. BooksInv'
  BY <1>1, <1>2, BooksKept DEF Ledger, Inv, UdpTypeOK, Early
<1>5. PaceInv'
  BY <1>1, <1>2, PaceKept, TestsAssumption DEF Ledger, Early
<1>. QED BY <1>3, <1>4, <1>5 DEF Ledger
-----------------------------------------------------------------------------
LEMMA InitLedger == Init => Ledger
<1>. SUFFICES ASSUME Init PROVE Ledger
  OBVIOUS
<1>1. N \in Nat \ {0}
  BY InitInv, TestFacts
<1>2. HandshakeInv
  BY <1>1 DEF Init, HandshakeInv, Numbered
<1>3. BooksInv
  BY DEF Init, BooksInv
<1>4. PaceInv
  BY <1>1, TotalEmpty DEF Init, PaceInv
<1>. QED BY <1>2, <1>3, <1>4 DEF Ledger

LEMMA StepLedger == Inv /\ Inv' /\ Ledger /\ [Next]_vars => Ledger'
<1>. SUFFICES ASSUME Inv, Inv', Ledger, [Next]_vars PROVE Ledger'
  OBVIOUS
<1>1. CASE Handshake
  BY <1>1, DialLedger, AcceptLedger, AnnounceLedger, ConfirmLedger, ConnectedLedger DEF Handshake
<1>2. CASE HelloLost
  BY <1>2, AnnounceLedger
<1>3. CASE Start \/ Timers \/ Exchange
  BY <1>3, StartLedger, TimersLedger, ExchangeLedger
<1>4. CASE UdpSend
  BY <1>4, PacketLedger, NotDueLedger
<1>5. CASE \E i \in DOMAIN net : \E pcount \in net[i] : UdpRecv(i, pcount)
  BY <1>5, RecvLedger
<1>6. CASE \/ Tick \/ UNCHANGED vars
           \/ \E i \in DOMAIN net : \E pcount \in net[i] : PacketLost(i, pcount)
  BY <1>6, RestLedger
<1>. QED BY <1>1, <1>2, <1>3, <1>4, <1>5, <1>6 DEF Next

\* LedgerInvariant: handshakes, books and clock, in every reachable state.
THEOREM LedgerInvariant == Spec => []Ledger
<1>1. Init => Ledger
  BY InitLedger
<1>2. Inv /\ Inv' /\ Ledger /\ [Next]_vars => Ledger'
  BY StepLedger
<1>. QED BY <1>1, <1>2, UdpInvariant, PTL DEF Spec

\* BooksBalance: for every test the intervals of every stream tile its time and
\* add up to its total, on both ends, and the exchange gives each stream the
\* counts of its own receiver.
THEOREM BooksBalance == Spec => []ResultsAddUp
<1>1. Inv /\ Ledger => ResultsAddUp
  <2>. SUFFICES ASSUME Inv, Ledger PROVE ResultsAddUp
    OBVIOUS
  <2>1. DOMAIN streams = 1 .. Len(streams) /\ DOMAIN sinks = 1 .. Len(sinks)
    BY DEF Inv, UdpTypeOK
  <2>. QED BY <2>1 DEF Ledger, BooksInv, ResultsAddUp
<1>. QED BY <1>1, UdpInvariant, LedgerInvariant, PTL

\* AlwaysListens: no datagram of the client comes to a server that does not
\* listen, so none is refused: iperf_udp_accept answers when the new listener is
\* there.
THEOREM AlwaysListens == Spec => [](phase # "failed" /\ (hello # {} => listener))
<1>1. Ledger => phase # "failed" /\ (hello # {} => listener)
  BY DEF Ledger, HandshakeInv
<1>. QED BY <1>1, LedgerInvariant, PTL
-----------------------------------------------------------------------------
\* The streams whose turn it is in a step that passes the turn on.
LEMMA TurnTaken ==
  ASSUME Inv, Ledger, [Next]_vars, turn' # turn
  PROVE  UdpSend \/ Timers
BY DEF Next, Handshake, Dial, Accept, Announce, Confirm, Connected, HelloLost, Start, Exchange,
       Tick, UdpRecv, PacketLost, vars, clientVars

\* Packets are sent by nobody but the turn of their stream.
LEMMA SentByTurn ==
  ASSUME Inv, Ledger, [Next]_vars, NEW i \in 1 .. Len(streams), sentAt'[i] # sentAt[i]
  PROVE  /\ UdpSend /\ i = turn /\ timer_expired(send_timer[turn], now)
         /\ sentAt'[i] = now
<1>1. sentAt \in Seq(Int) /\ Len(sentAt) = Len(streams) /\ Len(streams) \in Nat
  BY DEF Ledger, PaceInv, Inv, UdpTypeOK
<1>2. CASE UdpSend
  <2>1. timer_expired(send_timer[turn], now)
    BY <1>2 DEF UdpSend
  <2>2. sentAt' = [sentAt EXCEPT ![turn] = now]
    BY <1>2, <2>1 DEF UdpSend
  <2>. QED BY <1>1, <1>2, <2>1, <2>2
<1>3. CASE Connected
  <2>1. sentAt' = Append(sentAt, -1)
    BY <1>3 DEF Connected
  <2>2. sentAt'[i] = sentAt[i]
    BY <2>1, <1>1
  <2>. QED BY <2>2
<1>4. CASE ~ UdpSend /\ ~ Connected
  <2>1. sentAt' = sentAt
    BY <1>4 DEF Next, Handshake, Dial, Accept, Announce, Confirm, HelloLost, Start, Exchange,
                Timers, Tick, UdpRecv, PacketLost, vars, clientVars
  <2>. QED BY <2>1
<1>. QED BY <1>2, <1>3, <1>4

\* Two packets are as far apart as the rate asks.
LEMMA FarApart ==
  ASSUME Inv, Ledger, UdpSend, timer_expired(send_timer[turn], now), sentAt[turn] # -1,
         turn \in 1 .. Len(streams)
  PROVE  now - sentAt[turn] >= Dtargus(options)
<1>. DEFINE d == Dtargus(options)
            last == sentAt[turn]
<1>1. phase = "run"
  BY DEF UdpSend
<1>2. Paced(send_timer[turn], last, streams[turn].start_time)
  BY <1>1 DEF Ledger, PaceInv
<1>3. last \in Nat
  BY <1>2 DEF Paced
<1>. PICK after \in last .. last + MaxWrite :
       after <= now /\ send_timer[turn] = update_timer(after, 0, Pause(d, last, after))
  BY <1>2 DEF Paced
<1>4. after \in Nat /\ last <= after /\ d \in Nat \ {0} /\ now \in Nat
  BY <1>3, TestFacts
<1>5. /\ Pause(d, last, after) \in Nat
      /\ after + Pause(d, last, after) >= last + d
  <2>. HIDE DEF last, d
  <2>. QED BY <1>3, <1>4, PauseIs
<1>. DEFINE p == Pause(d, last, after)
<1>6. timer_expired(Ending(gettimeofday(after), 0, p), now)
  BY DEF update_timer
<1>. HIDE DEF d, last, p
<1>7. p \in Nat /\ after + p >= last + d
  BY <1>5 DEF p
<1>8. now > after + p
  BY <1>4, <1>6, <1>7, NeverEarly
<1>9. now - last >= d
  BY <1>3, <1>4, <1>7, <1>8
<1>. QED BY <1>9 DEF d, last

\* A turn that finds no packet due is early, or the product has wrapped.
LEMMA NotDue ==
  ASSUME Inv, Ledger, phase = "run", NEW i \in 1 .. Len(streams),
         ~ timer_expired(send_timer[i], now)
  PROVE  \/ now <= sentAt[i] + Dtargus(options) + MaxWrite
         \/ now <= streams[i].start_time + Dtargus(options)
         \/ ~ SameEra(gettimeofday(now), send_timer[i].begin)
<1>. DEFINE d == Dtargus(options)
            last == sentAt[i]
            start == streams[i].start_time
            tp == send_timer[i]
<1>1. Paced(tp, last, start) /\ start \in Nat
  BY DEF Ledger, PaceInv, BooksInv, Timely
<1>2. d \in Nat \ {0} /\ now \in Nat /\ MaxWrite \in Nat /\ SEC_TO_US \in Nat \ {0}
  BY TestFacts, TimeAssumption
<1>3. ~ timer_expired(tp, now)
  OBVIOUS
<1>. SUFFICES ASSUME SameEra(gettimeofday(now), tp.begin)
              PROVE  now <= last + d + MaxWrite \/ now <= start + d
  OBVIOUS
<1>. HIDE DEF d, last, start, tp
<1>4. CASE last = -1
  <2>. DEFINE s == d \div SEC_TO_US
              u == d % SEC_TO_US
  <2>1. s \in Nat /\ u \in Nat /\ s * SEC_TO_US + u = d
    <3>1. s \in Nat /\ u \in 0 .. SEC_TO_US - 1 /\ d = s * SEC_TO_US + u
      BY <1>2, DivMod
    <3>. QED BY <3>1, <1>2
  <2>2. tp = Ending(gettimeofday(start), s, u)
    BY <1>1, <1>4 DEF Paced, new_timer, d
  <2>3. tp.begin = gettimeofday(start)
    BY <2>2 DEF Ending
  <2>. HIDE DEF s, u
  <2>4. now <= start + (s * SEC_TO_US + u)
    BY <1>1, <1>2, <1>3, <2>1, <2>2, <2>3, NeverLate
  <2>. QED BY <2>1, <2>4
<1>5. CASE last # -1
  <2>1. last \in Nat
    BY <1>1, <1>5 DEF Paced
  <2>. PICK after \in last .. last + MaxWrite :
         after <= now /\ tp = update_timer(after, 0, Pause(d, last, after))
    BY <1>1, <1>5 DEF Paced, d
  <2>. DEFINE p == Pause(d, last, after)
  <2>2. after \in Nat /\ last <= after /\ after <= last + MaxWrite
    BY <2>1, <1>2
  <2>3. p \in Nat /\ after + p <= last + d + MaxWrite
    BY <2>1, <2>2, <1>2, PauseIs
  <2>4. tp = Ending(gettimeofday(after), 0, p) /\ tp.begin = gettimeofday(after)
    BY DEF update_timer, Ending
  <2>. HIDE DEF p
  <2>5. now <= after + (0 * SEC_TO_US + p)
    BY <1>2, <1>3, <2>2, <2>3, <2>4, NeverLate
  <2>6. 0 * SEC_TO_US = 0
    BY <1>2
  <2>. QED BY <2>1, <2>2, <2>3, <2>5, <2>6, <1>2
<1>6. QED BY <1>4, <1>5

\* RateIsKept: for every rate, block size, clock and time of the writes.
THEOREM RateIsKept == Spec => RateKept
<1>. DEFINE Kept1 ==
       \A i \in DOMAIN streams :
         /\ sentAt'[i] # sentAt[i] /\ sentAt[i] # -1 => sentAt'[i] - sentAt[i] >= Dtargus(options)
         /\ phase = "run" /\ turn = i /\ turn' # i =>
              \/ sentAt'[i] = now
              \/ now <= sentAt[i] + Dtargus(options) + MaxWrite
              \/ now <= streams[i].start_time + Dtargus(options)
              \/ ~SameEra(gettimeofday(now), send_timer[i].begin)
<1>1. Inv /\ Ledger /\ [Next]_vars => Kept1
  <2>. SUFFICES ASSUME Inv, Ledger, [Next]_vars, NEW i \in DOMAIN streams
                PROVE  /\ sentAt'[i] # sentAt[i] /\ sentAt[i] # -1 =>
                            sentAt'[i] - sentAt[i] >= Dtargus(options)
                       /\ phase = "run" /\ turn = i /\ turn' # i =>
                            \/ sentAt'[i] = now
                            \/ now <= sentAt[i] + Dtargus(options) + MaxWrite
                            \/ now <= streams[i].start_time + Dtargus(options)
                            \/ ~SameEra(gettimeofday(now), send_timer[i].begin)
    OBVIOUS
  <2>1. i \in 1 .. Len(streams)
    BY DEF Inv, UdpTypeOK
  <2>2. ASSUME sentAt'[i] # sentAt[i], sentAt[i] # -1
        PROVE  sentAt'[i] - sentAt[i] >= Dtargus(options)
    <3>1. /\ UdpSend /\ i = turn /\ timer_expired(send_timer[turn], now) /\ sentAt'[i] = now
      BY <2>1, <2>2, SentByTurn
    <3>. QED BY <3>1, <2>1, <2>2, FarApart
  <2>3. ASSUME phase = "run", turn = i, turn' # i
        PROVE  \/ sentAt'[i] = now
               \/ now <= sentAt[i] + Dtargus(options) + MaxWrite
               \/ now <= streams[i].start_time + Dtargus(options)
               \/ ~SameEra(gettimeofday(now), send_timer[i].begin)
    <3>1. CASE timer_expired(send_timer[i], now)
      <4>1. Len(streams) = N /\ N \in Nat
        BY <2>3, TestFacts DEF Ledger, HandshakeInv
      <4>2. UdpSend
        BY <2>1, <2>3, <4>1, TurnTaken DEF Timers
      <4>3. sentAt' = [sentAt EXCEPT ![i] = now]
        BY <2>3, <3>1, <4>2 DEF UdpSend
      <4>. QED BY <2>1, <4>3 DEF Ledger, PaceInv
    <3>2. CASE ~ timer_expired(send_timer[i], now)
      BY <2>1, <2>3, <3>2, NotDue
    <3>. QED BY <3>1, <3>2
  <2>. QED BY <2>2, <2>3
<1>. QED BY <1>1, UdpInvariant, LedgerInvariant, PTL DEF RateKept, Spec

\* A turn of the timers ends the test as it was asked for.
LEMMA EndsRight ==
  ASSUME Inv, Ledger, Timers
  PROVE  LET deadline == streams[1].start_time + options.duration * SEC_TO_US IN
         IF options.bytes > 0
         THEN (phase' = "ended") = (Total(streams, "bytes_sent") >= N * options.bytes)
         ELSE \/ (phase' = "ended") = (now > deadline)
              \/ ~SameEra(gettimeofday(now), gettimeofday(deadline))
<1>. DEFINE c == streams[1].start_time
            deadline == c + options.duration * SEC_TO_US
            over == all_data_sent(options, bytes_sent) \/ timer_expired(timer, now)
<1>1. phase = "run" /\ phase' = IF over THEN "ended" ELSE "run"
  BY DEF Timers
<1>2. (phase' = "ended") = over
  <2>1. over \in BOOLEAN
    BY DEF all_data_sent, timer_expired
  <2>. HIDE DEF over
  <2>. QED BY <1>1, <2>1
<1>3. /\ options.bytes \in Nat /\ options.duration \in Nat /\ now \in Nat /\ N \in Nat \ {0}
      /\ Len(streams) = N
  BY <1>1, TestFacts DEF Ledger, HandshakeInv
<1>4. c \in Nat
  <2>1. 1 \in 1 .. Len(streams)
    BY <1>3
  <2>. QED BY <2>1 DEF Ledger, BooksInv, Timely
<1>5. timer = IF options.bytes = 0 THEN new_timer(c, options.duration, 0) ELSE NoTimer
  BY <1>1 DEF Ledger, PaceInv
<1>6. CASE options.bytes > 0
  <2>1. ~ timer_expired(timer, now)
    BY <1>3, <1>5, <1>6 DEF timer_expired
  <2>2. over = (bytes_sent >= N * options.bytes)
    BY <2>1, <1>6 DEF all_data_sent, N
  <2>3. bytes_sent = Total(streams, "bytes_sent")
    BY <1>1 DEF Ledger, PaceInv
  <2>. QED BY <1>2, <1>6, <2>2, <2>3
<1>7. CASE ~ (options.bytes > 0)
  <2>1. options.bytes = 0 /\ ~ all_data_sent(options, bytes_sent)
    BY <1>3, <1>7 DEF all_data_sent
  <2>2. over = timer_expired(new_timer(c, options.duration, 0), now)
    BY <2>1, <1>5 DEF timer_expired
  <2>3. ASSUME SameEra(gettimeofday(now), gettimeofday(deadline))
        PROVE  timer_expired(new_timer(c, options.duration, 0), now) <=> now > deadline
    <3>. HIDE DEF c
    <3>. QED BY <1>3, <1>4, <2>3, RunsOut
  <2>4. \/ over = (now > deadline) \/ ~ SameEra(gettimeofday(now), gettimeofday(deadline))
    BY <2>2, <2>3 DEF timer_expired
  <2>. QED BY <1>2, <1>7, <2>4
<1>. QED BY <1>6, <1>7

\* EndsWhenAsked: for every time, number of bytes, of streams and rate.
THEOREM EndsWhenAsked == Spec => EndsAsAsked
<1>. DEFINE Ends ==
       phase = "run" /\ turn = N + 1 /\ turn' = 1 =>
         LET deadline == streams[1].start_time + options.duration * SEC_TO_US IN
         IF options.bytes > 0
         THEN (phase' = "ended") =
                (FoldLeft(LAMBDA sum, sp : sum + sp.bytes_sent, 0, streams) >= N * options.bytes)
         ELSE \/ (phase' = "ended") = (now > deadline)
              \/ ~SameEra(gettimeofday(now), gettimeofday(deadline))
<1>1. Inv /\ Ledger /\ [Next]_vars => Ends
  <2>. SUFFICES ASSUME Inv, Ledger, [Next]_vars, phase = "run", turn = N + 1, turn' = 1
                PROVE  Ends
    OBVIOUS
  <2>1. N \in Nat \ {0}
    BY TestFacts
  <2>2. Timers
    BY <2>1, TurnTaken DEF UdpSend
  <2>3. FoldLeft(LAMBDA sum, sp : sum + sp.bytes_sent, 0, streams) = Total(streams, "bytes_sent")
    BY SentOf, Zenon
  <2>. QED BY <2>2, <2>3, EndsRight
<1>. QED BY <1>1, UdpInvariant, LedgerInvariant, PTL DEF EndsAsAsked, Spec
=============================================================================
