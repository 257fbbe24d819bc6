----------------------------- MODULE IperfStream ------------------------------
(***************************************************************************)
(* The data streams of a bandwidth test (iperf_api.c, iperf_tcp.c) as      *)
(* functions of their records.  A test is given by its options (see        *)
(* IperfOptions) and a sequence of streams; client and server use the same *)
(* code, told apart by options.role.                                       *)
(***************************************************************************)
EXTENDS IperfOptions

\* struct iperf_stream with its iperf_stream_result, and its intervals.
Interval == [bytes : Int, start : Int, end : Int]
Intervals == Seq(Interval)
Stream ==
  [id : Nat, socket : Int, bytes_sent : Int, bytes_received : Int,
   bytes_sent_this_interval : Int, bytes_received_this_interval : Int,
   start_time : Int, end_time : Int, interval_results : Intervals,
   packet_count : Nat, cnt_error : Int, outoforder_packets : Int]

\* iperf_new_stream: everything zero.  The socket is named by its number.
iperf_new_stream(s) ==
  [id |-> 0, socket |-> s, bytes_sent |-> 0, bytes_received |-> 0,
   bytes_sent_this_interval |-> 0, bytes_received_this_interval |-> 0,
   start_time |-> 0, end_time |-> 0, interval_results |-> <<>>,
   packet_count |-> 0, cnt_error |-> 0, outoforder_packets |-> 0]

\* The first stream gets the number 1; a later one counts up from 2 once for
\* every stream before it.
iperf_add_stream(streams, sp) ==
  Append(streams, [sp EXCEPT !.id = IF streams = <<>> THEN 1 ELSE 2 + Len(streams)])

Sent(sp, n) ==
  [sp EXCEPT !.bytes_sent = @ + n, !.bytes_sent_this_interval = @ + n]
Received(sp, n) ==
  [sp EXCEPT !.bytes_received = @ + n, !.bytes_received_this_interval = @ + n]

\* Whether this end of the test is the one that sends.
Sends(options) == (options.role = "c") = (options.reverse = 0)
-----------------------------------------------------------------------------
add_to_interval_list(sp, interval) ==
  [sp EXCEPT !.interval_results = Append(@, interval)]

\* Slip: every interval begins at the start of the stream.
CloseFromStart(sp, sends, now) ==
  LET bytes == IF sends THEN sp.bytes_sent_this_interval ELSE sp.bytes_received_this_interval
  IN [add_to_interval_list(sp, [bytes |-> bytes, start |-> sp.start_time, end |-> now]) EXCEPT
        !.end_time = now, !.bytes_sent_this_interval = 0, !.bytes_received_this_interval = 0]

\* The interval begins where the last one ended, the first one at the start.
CloseInterval(sp, sends, now) ==
  LET bytes == IF sends THEN sp.bytes_sent_this_interval ELSE sp.bytes_received_this_interval
      start == IF sp.interval_results = <<>> THEN sp.start_time ELSE sp.end_time
  IN [add_to_interval_list(sp, [bytes |-> bytes, start |-> start, end |-> now]) EXCEPT
        !.end_time = now, !.bytes_sent_this_interval = 0, !.bytes_received_this_interval = 0]

\* Slip: a stream that was idle gets no interval.
CountBusy(options, streams, now) ==
  [i \in DOMAIN streams |->
     LET sp == streams[i]
     IN IF sp.bytes_sent_this_interval + sp.bytes_received_this_interval = 0 THEN sp
        ELSE CloseInterval(sp, Sends(options), now)]

iperf_stats_callback(options, streams, now) ==
  [i \in DOMAIN streams |-> CloseInterval(streams[i], Sends(options), now)]

\* iperf_print_intermediate takes the last interval of every stream without
\* looking whether there is one (print_interval_results looks, and returns).
ReportFollowsNull(streams) == \E i \in DOMAIN streams : streams[i].interval_results = <<>>

\* What the report leaves behind: the totals over the streams, and the time
\* from the start of the first one to its last interval.
Total(streams, member) == FoldLeft(LAMBDA sum, sp : sum + sp[member], 0, streams)
iperf_print_results(streams) ==
  [total_sent |-> Total(streams, "bytes_sent"), total_recv |-> Total(streams, "bytes_received"),
   total_time |-> streams[1].end_time - streams[1].start_time]

\* Slip: one byte too many is asked for; the streams are not counted.
MoreThanAll(options, bytes_sent) ==
  options.bytes > 0 /\ bytes_sent > options.num_streams * options.bytes
OneStreamSent(options, bytes_sent) == options.bytes > 0 /\ bytes_sent >= options.bytes

\* all_data_sent, for a test that is bounded by bytes.
all_data_sent(options, bytes_sent) ==
  options.bytes > 0 /\ bytes_sent >= options.num_streams * options.bytes
-----------------------------------------------------------------------------
\* A line of results for every stream: iperf_exchange_results writes it for
\* this end, and reads that of the other end.
Results(options, streams) ==
  [i \in DOMAIN streams |->
     [id |-> streams[i].id,
      bytes |-> IF Sends(options) THEN streams[i].bytes_sent ELSE streams[i].bytes_received,
      cnt_error |-> streams[i].cnt_error,
      packet_count |-> streams[i].packet_count]]

\* Slip: the client takes every line for the receiver's, also with -R.
ParseAsReceiver(options, r, line) ==
  LET i == SelectInSeq(r.streams, LAMBDA sp : sp.id = line.id)
  IN IF r.err # "IENONE" \/ i = 0 THEN [r EXCEPT !.err = "IESTREAMID"]
     ELSE [r EXCEPT !.streams[i] =
             IF options.role = "c"
             THEN [@ EXCEPT !.cnt_error = line.cnt_error, !.packet_count = line.packet_count,
                            !.bytes_received = line.bytes]
             ELSE [@ EXCEPT !.bytes_sent = line.bytes]]

\* The first stream of the list that has the number of the line takes it over.
\* The receiver's counts are believed, and those of the sender kept.
ParseLine(options, r, line) ==
  LET i == SelectInSeq(r.streams, LAMBDA sp : sp.id = line.id)
  IN IF r.err # "IENONE" \/ i = 0 THEN [r EXCEPT !.err = "IESTREAMID"]
     ELSE [r EXCEPT !.streams[i] =
             IF Sends(options)
             THEN [@ EXCEPT !.cnt_error = line.cnt_error, !.packet_count = line.packet_count,
                            !.bytes_received = line.bytes]
             ELSE [@ EXCEPT !.bytes_sent = line.bytes]]

parse_results(options, streams, lines) ==
  FoldLeft(LAMBDA r, line : ParseLine(options, r, line),
           [streams |-> streams, err |-> "IENONE"], lines)
=============================================================================
