----------------------------- MODULE Measurement ------------------------------
(***************************************************************************)
(* BandwidthMeasurement.java over main.c: the constructor starts a thread  *)
(* that measures the bandwidth, and measures it itself.  Both go through   *)
(* the one variable gTest of the native library.  How a test runs is in    *)
(* IperfClient; here it succeeds or fails.                                 *)
(***************************************************************************)
EXTENDS Naturals

Threads == {"run", "constructor"}
NULL == 0
Test == 1 .. 3 \* the test of an earlier measurement, and one for each thread

VARIABLES
  gTest,
  freed,    \* tests given back to malloc
  made,     \* tests made so far
  pc,       \* of each thread
  old,      \* what it has found in gTest
  result,   \* what main_launch gave it
  status,   \* what launchBandwidthTest returned: TRUE for failure
  bandwidth \* "zero", "measured" or "wrong"
vars == <<gTest, freed, made, pc, old, result, status, bandwidth>>

Init ==
  /\ gTest \in {NULL, 1} /\ freed = {} /\ made = 1
  /\ pc = [t \in Threads |-> "launch"]
  /\ old = [t \in Threads |-> NULL] /\ result = [t \in Threads |-> NULL]
  /\ status = [t \in Threads |-> FALSE] /\ bandwidth = "zero"

Goto(t, from, to) == pc[t] = from /\ pc' = [pc EXCEPT ![t] = to]

\* if (gTest) iperf_free_test(gTest); a second thread may come in between.
ReadTest(t) ==
  /\ Goto(t, "launch", "free") /\ old' = [old EXCEPT ![t] = gTest]
  /\ UNCHANGED <<gTest, freed, made, result, status, bandwidth>>
FreeTest(t) ==
  /\ Goto(t, "free", "test")
  /\ freed' = freed \cup ({old[t]} \ {NULL}) /\ gTest' = NULL
  /\ UNCHANGED <<made, old, result, status, bandwidth>>

MainLaunch(t) ==
  /\ Goto(t, "test", "store")
  /\ \/ made' = made + 1 /\ result' = [result EXCEPT ![t] = made']
     \/ UNCHANGED <<made, result>>
  /\ UNCHANGED <<gTest, freed, old, status, bandwidth>>

StoreTest(t) ==
  /\ Goto(t, "store", "return") /\ gTest' = result[t]
  /\ UNCHANGED <<freed, made, old, result, status, bandwidth>>

\* gTest is read again, for what to return.
LaunchReturns(t) ==
  /\ Goto(t, "return", IF gTest = NULL THEN "tested" ELSE "get")
  /\ status' = [status EXCEPT ![t] = (gTest = NULL)]
  /\ UNCHANGED <<gTest, freed, made, old, result, bandwidth>>

\* The getters answer -1 without a test.
Get(t) ==
  /\ Goto(t, "get", "tested")
  /\ bandwidth' = IF gTest \in {NULL} \cup freed THEN "wrong" ELSE "measured"
  /\ UNCHANGED <<gTest, freed, made, old, result, status>>

\* run() takes the status for success.
Tested(t) ==
  /\ Goto(t, "tested", "done")
  /\ bandwidth' = IF t = "run" /\ status[t] = FALSE THEN "zero" ELSE bandwidth
  /\ UNCHANGED <<gTest, freed, made, old, result, status>>

Next == \E t \in Threads :
  ReadTest(t) \/ FreeTest(t) \/ MainLaunch(t) \/ StoreTest(t) \/ LaunchReturns(t)
    \/ Get(t) \/ Tested(t)

Spec == Init /\ [][Next]_vars
-----------------------------------------------------------------------------
\* MeasurementKept: once both threads are done, and the test of the started
\* thread has succeeded, the bandwidth is not the zero that run() stores when it
\* logs "Could not test bandwidth".
MeasurementKept ==
  (\A t \in Threads : pc[t] = "done") /\ ~status["run"] => bandwidth # "zero"
=============================================================================
