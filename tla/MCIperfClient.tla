---------------------------- MODULE MCIperfClient -----------------------------
(***************************************************************************)
(* Command lines for model checking: the application's own (-c), and those *)
(* that reach another path of the code.                                    *)
(***************************************************************************)
EXTENDS IperfClient

Client == Switch("c")
Small(letter, n) == Option(letter, n, "")

AppOnly == {<<Client>>}
Lines ==
  AppOnly \cup
  {<<Small("P", 2), Small("b", 0), Client>>,          \* two streams; a zero is not sent
   <<Small("P", 0), Client>>,                         \* no stream: the server waits for ever
   <<Switch("R"), Small("i", 1), Client>>,            \* the server sends; reports
   <<Option("n", 128, "K"), Switch("N"), Client>>,    \* bounded by bytes; a new listener
   <<Switch("u"), Client>>,                           \* UDP
   <<Small("t", MAX_TIME + 1), Client>>,              \* refused
   <<Switch("s"), Switch("d")>>}                      \* a server
=============================================================================
