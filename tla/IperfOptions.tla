----------------------------- MODULE IperfOptions -----------------------------
(***************************************************************************)
(* The options of a bandwidth test (iperf_api.c, units.c): their defaults, *)
(* how the command line sets them, and how a client tells them to its      *)
(* server.  An option is a letter with a number and a unit, as getopt and  *)
(* sscanf take it apart; flags are the C integers 0 and 1.                 *)
(***************************************************************************)
EXTENDS Integers, Sequences, SequencesExt

CONSTANT CharIsSigned \* of the build: FALSE on the ARM processors of the phones
ASSUME CharAssumption == CharIsSigned \in BOOLEAN

MAX_TIME       == 3600
MAX_STREAMS    == 128
MAX_BLOCKSIZE  == 1024 * 1024
MAX_TCP_BUFFER == 128 * 1024 * 1024
MAX_INTERVAL   == 60
MAX_MSS        == 9 * 1024

iperf_defaults ==
  [role |-> "none", protocol |-> "tcp", domain |-> "inet", server_port |-> 5201,
   bind_address |-> 0, duration |-> 5, num_streams |-> 1, interval |-> 0,
   socket_bufsize |-> 0, blksize |-> 128 * 1024, rate |-> 1024 * 1024, mss |-> 0,
   bytes |-> 0, tos |-> 0, reverse |-> 0, no_delay |-> 0, tcp_info |-> 0]

DEFAULT_UDP_BLKSIZE == 1450

\* The members of struct iperf_test and struct iperf_settings that options set.
Options ==
  [role : {"none", "c", "s"}, protocol : {"tcp", "udp"}, domain : {"inet", "inet6"},
   server_port : Nat, bind_address : Nat, duration : Nat, num_streams : Nat, interval : Nat,
   socket_bufsize : Nat, blksize : Nat, rate : Nat, mss : Nat, bytes : Nat, tos : Nat,
   reverse : Nat, no_delay : Nat, tcp_info : Nat]
-----------------------------------------------------------------------------
Option(letter, n, unit) == [opt |-> letter, n |-> n, unit |-> unit]
Switch(letter) == Option(letter, 1, "")

\* #x: a number and K, M, G (powers of 1024) or k, m, g (powers of 1000).
Multiplier(unit) ==
  CASE unit = "K" -> 1024
    [] unit = "M" -> 1024 * 1024
    [] unit = "G" -> 1024 * 1024 * 1024
    [] unit = "k" -> 1000
    [] unit = "m" -> 1000 * 1000
    [] unit = "g" -> 1000 * 1000 * 1000
    [] OTHER -> 1

unit_atof(o) == o.n * Multiplier(o.unit)

\* Bound: the numbers of -l and -w fit into the int that they are stored in.
MAX_INT == 2147483647
Word == {o \in [opt : STRING, n : Nat, unit : STRING] :
           o.opt \in {"l", "w"} => unit_atof(o) <= MAX_INT}

unit_atoi(o) == unit_atof(o) \* the cast changes nothing: o.n is whole

\* The member of the test that an option stores its number in.
Member == [p |-> "server_port", t |-> "duration", P |-> "num_streams", B |-> "bind_address",
           b |-> "rate", l |-> "blksize", w |-> "socket_bufsize", i |-> "interval",
           n |-> "bytes", N |-> "no_delay", M |-> "mss", R |-> "reverse", S |-> "tos",
           T |-> "tcp_info"]

Limit == [t |-> MAX_TIME, P |-> MAX_STREAMS, l |-> MAX_BLOCKSIZE, w |-> MAX_TCP_BUFFER,
          i |-> MAX_INTERVAL, M |-> MAX_MSS]
TooLarge == [t |-> "IEDURATION", P |-> "IENUMSTREAMS", l |-> "IEBLOCKSIZE",
             w |-> "IEBUFSIZE", i |-> "IEINTERVAL", M |-> "IEMSS"]

ClientOnly == {"t", "P", "b", "l", "w", "n", "N", "M", "R", "S"}

\* One turn of the loop over the command line.  r.ret is "more" until the
\* function returns; -c returns at once, whatever follows it.
ParseOption(r, o) ==
  LET value == CASE o.opt \in {"b", "w"} -> unit_atof(o)
                 [] o.opt \in {"l", "n"} -> unit_atoi(o)
                 [] OTHER -> o.n
      Error(e) == [r EXCEPT !.ret = "error", !.err = e]
  IN IF r.ret # "more" THEN r
     ELSE IF o.opt \in ClientOnly /\ r.test.role = "s" THEN Error("IECLIENTONLY")
     ELSE IF o.opt \in DOMAIN Limit /\ value > Limit[o.opt] THEN Error(TooLarge[o.opt])
     ELSE IF o.opt \in DOMAIN Member THEN [r EXCEPT !.test[Member[o.opt]] = value]
     ELSE CASE o.opt = "c" -> IF r.test.role = "s" THEN Error("IESERVCLIENT")
                              ELSE [r EXCEPT !.ret = "ok", !.test.role = "c"]
            [] o.opt = "s" -> [r EXCEPT !.test.role = "s"] \* no -c came before: it returns
            [] o.opt = "u" ->
                 [r EXCEPT !.test.protocol = "udp", !.test.blksize = DEFAULT_UDP_BLKSIZE]
            [] o.opt = "6" -> [r EXCEPT !.test.domain = "inet6"]
            [] o.opt \in {"f", "V", "d"} -> r \* how the report looks
            [] OTHER -> Error("usage")        \* -h, --daemon, unknown letters (-v ends the process)

\* The result of getopt_long is kept in a char: where that has no sign, the -1
\* at the end of the list becomes 255, an unknown letter.
iperf_parse_arguments(args) ==
  LET r == FoldLeft(ParseOption, [test |-> iperf_defaults, ret |-> "more", err |-> "IENONE"], args)
  IN IF r.ret # "more" THEN r
     ELSE IF ~CharIsSigned THEN [r EXCEPT !.ret = "error", !.err = "usage"]
     ELSE IF r.test.role = "none" THEN [r EXCEPT !.ret = "error", !.err = "IENOROLE"]
     ELSE [r EXCEPT !.ret = "ok"]
-----------------------------------------------------------------------------
\* What the client writes on the control connection: the protocol first, the
\* number of streams always, and every other option that is not zero.
Given(letter, n) == IF n = 0 THEN <<>> ELSE <<Option(letter, n, "")>>
package_parameters(t) ==
  <<Switch(IF t.protocol = "tcp" THEN "p" ELSE "u")>> \o
  (<<Option("P", t.num_streams, "")>>
    \o Given("R", t.reverse) \o Given("w", t.socket_bufsize) \o Given("b", t.rate)
    \o Given("m", t.mss) \o Given("N", t.no_delay) \o Given("n", t.bytes)
    \o Given("t", t.duration) \o Given("l", t.blksize) \o Given("S", t.tos))

\* The server hands the words to getopt as an argument vector, so the first
\* one, the protocol, is taken for the name of the program.  This is a server whose
\* char has a sign; one without never sees the end of the words and falls silent
\* in this loop, as any server may (ServerHangs).
ParseParameter(t, o) ==
  CASE o.opt = "p" -> [t EXCEPT !.protocol = "tcp"]
    [] o.opt = "u" -> [t EXCEPT !.protocol = "udp"]
    [] o.opt = "m" -> [t EXCEPT !.mss = o.n]
    [] OTHER -> [t EXCEPT ![Member[o.opt]] = o.n]

parse_parameters(t, words) == FoldLeft(ParseParameter, t, Tail(words))

\* Slip: the direction of the last test stays.
ResetKeepsReverse(t) ==
  [iperf_defaults EXCEPT !.role = "s", !.bytes = t.bytes, !.tos = t.tos, !.reverse = t.reverse]

\* Between two tests a server goes back to the defaults, but for the number of
\* bytes and the type of service.
iperf_reset_test(t) ==
  [iperf_defaults EXCEPT !.role = "s", !.bytes = t.bytes, !.tos = t.tos, !.domain = t.domain,
     !.server_port = t.server_port, !.bind_address = t.bind_address, !.interval = t.interval,
     !.tcp_info = t.tcp_info]
=============================================================================
