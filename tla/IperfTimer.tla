------------------------------ MODULE IperfTimer ------------------------------
(***************************************************************************)
(* The timers of timer.c.  A clock value is a number of microseconds; a    *)
(* struct timeval splits it.  Where time_t has 32 bits the microseconds of *)
(* its seconds are a 32-bit product, which wraps before it is widened.     *)
(***************************************************************************)
EXTENDS Integers

CONSTANTS
  SEC_TO_US, \* microseconds in a second
  TimeRange  \* 2^32: the values of the product
ASSUME TimeAssumption ==
  /\ SEC_TO_US \in Nat \ {0}
  /\ TimeRange \in Nat \ {0} /\ TimeRange % 2 = 0

gettimeofday(clock) == [tv_sec |-> clock \div SEC_TO_US, tv_usec |-> clock % SEC_TO_US]
Microseconds(tv) == tv.tv_sec * SEC_TO_US + tv.tv_usec

\* The distance of two times, without a sign, in doubles: no product wraps.
timeval_diff(tv0, tv1) ==
  LET d == Microseconds(tv0) - Microseconds(tv1) IN IF d < 0 THEN -d ELSE d

Wrapped(n) == ((n + (TimeRange \div 2)) % TimeRange) - (TimeRange \div 2)
Product(tv) == Wrapped(tv.tv_sec * SEC_TO_US) + tv.tv_usec

\* The microseconds are added as they are: an end is not in normal form.
Ending(begin, sec, usec) ==
  [begin |-> begin,
   end |-> [tv_sec |-> begin.tv_sec + sec, tv_usec |-> begin.tv_usec + usec]]
new_timer(clock, sec, usec) == Ending(gettimeofday(clock), sec, usec)
update_timer(clock, sec, usec) == Ending(gettimeofday(clock), sec, usec)
NoTimer == Ending([tv_sec |-> -1, tv_usec |-> 0], 0, 0) \* the null pointer

timer_expired(tp, clock) == tp # NoTimer /\ Product(gettimeofday(clock)) > Product(tp.end)

\* Whether the product is as far off for both times.
SameEra(tv0, tv1) == Product(tv0) - Product(tv1) = Microseconds(tv0) - Microseconds(tv1)
=============================================================================
