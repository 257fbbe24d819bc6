------------------------------ MODULE MCIperfUdp ------------------------------
(***************************************************************************)
(* Two tests for model checking, in seconds of four ticks: one of a second *)
(* with statistics, and one of two streams bounded by its bytes.  A packet *)
(* of one byte at a rate of 16 is due every two ticks.                     *)
(***************************************************************************)
EXTENDS IperfUdp

Udp == [iperf_defaults EXCEPT !.role = "c", !.protocol = "udp", !.blksize = 1, !.rate = 16]
Timed == [Udp EXCEPT !.duration = 1, !.interval = 1]
Bounded == [Udp EXCEPT !.bytes = 2, !.num_streams = 2]
BothTests == {Timed, Bounded}
=============================================================================
