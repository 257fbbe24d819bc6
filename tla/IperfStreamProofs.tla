--------------------------- MODULE IperfStreamProofs ---------------------------
(***************************************************************************)
(* Lemmas about the functions of IperfStream and IperfOptions, for streams *)
(* and lists of every length.  A fold is the value that a recursive        *)
(* function takes for the whole sequence; the induction it needs is that   *)
(* of WellFoundedInduction on sets: every nonempty set of numbers has a    *)
(* least one.                                                              *)
(***************************************************************************)
EXTENDS IperfStream, SequenceTheorems, WellFoundedInduction, TLAPS

Less == {ss \in Nat \X Nat : ss[1] < ss[2]}

LEMMA LeastNumber ==
  ASSUME NEW T \in SUBSET Nat, T # {}
  PROVE  \E x \in T : \A y \in T : ~ (y < x)
<1>1. IsWellFoundedOn(Less, Nat)
  BY NatLessThanWellFounded DEF OpToRel, Less
<1>2. \E x \in T : \A y \in T : ~ (<<y, x>> \in Less)
  BY <1>1, WFMin
<1>. QED BY <1>2 DEF Less

\* Induction up to n, on the set of the numbers that have a property.
LEMMA UpTo ==
  ASSUME NEW n \in Nat, NEW T, 0 \in T, \A k \in 1 .. n : k - 1 \in T => k \in T
  PROVE  \A k \in 0 .. n : k \in T
<1>. DEFINE U == {k \in 0 .. n : k \notin T}
<1>. SUFFICES ASSUME U # {} PROVE FALSE
  OBVIOUS
<1>1. U \in SUBSET Nat
  OBVIOUS
<1>2. PICK x \in U : \A y \in U : ~ (y < x)
  BY <1>1, LeastNumber
<1>3. x \in 1 .. n /\ x - 1 \in 0 .. n /\ x - 1 < x
  BY <1>2
<1>4. x - 1 \in T
  BY <1>2, <1>3
<1>. QED BY <1>2, <1>3, <1>4
-----------------------------------------------------------------------------
(* FoldLeft, as a function of the sets of places that are left *)

LEMMA MaxOfTop ==
  ASSUME NEW m \in Nat, m # 0, NEW S \in SUBSET (1 .. m), m \in S
  PROVE  Max(S) = m
<1>. DEFINE P(x) == x \in S /\ \A y \in S : x >= y
<1>1. \A x : P(x) => x = m
  OBVIOUS
<1>2. P(m)
  OBVIOUS
<1>3. Max(S) = CHOOSE x : P(x)
  BY Zenon DEF Max
<1>. QED BY <1>1, <1>2, <1>3, Zenon

LEMMA MaxIn ==
  ASSUME NEW m \in Nat, NEW S \in SUBSET (1 .. m), S # {}
  PROVE  Max(S) \in S /\ Max(S) \in 1 .. m
<1>. DEFINE P(x) == x \in S /\ \A y \in S : x >= y
            T == {m - x : x \in S}
<1>1. T \in SUBSET Nat /\ T # {}
  <2>1. \A x \in 1 .. m : m - x \in Nat
    OBVIOUS
  <2>2. \A x \in S : m - x \in Nat
    BY <2>1
  <2>. HIDE DEF P
  <2>. QED BY <2>2, Zenon
<1>2. PICK t \in T : \A u \in T : ~ (u < t)
  BY <1>1, LeastNumber
<1>3. PICK x \in S : t = m - x
  BY <1>2
<1>4. ASSUME NEW y \in S PROVE x >= y
  <2>1. m - y \in T /\ ~ (m - y < t)
    BY <1>2
  <2>. QED BY <1>3, <2>1
<1>5. P(x)
  BY <1>4
<1>6. Max(S) = CHOOSE y : P(y)
  BY Zenon DEF Max
<1>7. P(CHOOSE y : P(y))
  BY <1>5, Zenon
<1>. QED BY <1>6, <1>7

\* The value for the places S of a function that takes the last place first.
Value(g, step, base, S) == IF S = {} THEN base ELSE step[g[S \ {Max(S)}]][Max(S)]

FoldsTo(g, n, A, step, base) ==
  /\ g \in [SUBSET (1 .. n) -> A]
  /\ \A S \in SUBSET (1 .. n) : g[S] = Value(g, step, base, S)

\* There is such a function, for every step that stays in a set of values.
LEMMA FoldExists ==
  ASSUME NEW n \in Nat, NEW A, NEW base \in A, NEW step \in [A -> [1 .. n -> A]]
  PROVE  \E g : FoldsTo(g, n, A, step, base)
<1>. DEFINE T == {m \in Nat : \E g : FoldsTo(g, m, A, step, base)}
<1>1. 0 \in T
  <2>. DEFINE g == [S \in SUBSET (1 .. 0) |-> base]
  <2>1. 1 .. 0 = {} /\ SUBSET {} = {{}}
    OBVIOUS
  <2>2. FoldsTo(g, 0, A, step, base)
    BY <2>1 DEF Value, FoldsTo
  <2>. QED BY <2>2
<1>2. ASSUME NEW m \in 1 .. n, m - 1 \in T PROVE m \in T
  <2>1. PICK h : FoldsTo(h, m - 1, A, step, base)
    BY <1>2
  <2>. DEFINE g == [S \in SUBSET (1 .. m) |->
                     IF m \in S THEN step[h[S \ {m}]][m] ELSE h[S]]
  <2>2. ASSUME NEW S \in SUBSET (1 .. m)
        PROVE  /\ m \notin S => S \in SUBSET (1 .. m - 1)
               /\ S \ {m} \in SUBSET (1 .. m - 1)
    <3>1. \A x \in 1 .. m : x # m => x \in 1 .. m - 1
      OBVIOUS
    <3>. QED BY <3>1
  <2>3. \A R \in SUBSET (1 .. m - 1) : R \in SUBSET (1 .. m) /\ g[R] = h[R] /\ h[R] \in A
    BY <2>1 DEF FoldsTo
  <2>4. ASSUME NEW S \in SUBSET (1 .. m) PROVE g[S] \in A /\ g[S] = Value(g, step, base, S)
    <3>1. CASE m \in S
      <4>1. Max(S) = m /\ S # {}
        BY <3>1, MaxOfTop
      <4>2. g[S] = step[h[S \ {m}]][m] /\ g[S \ {m}] = h[S \ {m}] /\ h[S \ {m}] \in A
        BY <2>2, <2>3, <3>1
      <4>3. m \in 1 .. n
        OBVIOUS
      <4>4. step[h[S \ {m}]][m] \in A
        BY <4>2, <4>3
      <4>. HIDE DEF g
      <4>. QED BY <4>1, <4>2, <4>4 DEF Value
    <3>2. CASE m \notin S
      <4>1. S \in SUBSET (1 .. m - 1) /\ S \ {Max(S)} \in SUBSET (1 .. m - 1)
        BY <2>2, <3>2
      <4>2. g[S] = h[S] /\ g[S \ {Max(S)}] = h[S \ {Max(S)}] /\ h[S] \in A
        BY <2>3, <4>1
      <4>3. h[S] = Value(h, step, base, S)
        BY <2>1, <4>1 DEF FoldsTo
      <4>. QED BY <4>2, <4>3 DEF Value
    <3>. QED BY <3>1, <3>2
  <2>5. g \in [SUBSET (1 .. m) -> A]
    <3>1. \A S \in SUBSET (1 .. m) : g[S] \in A
      BY <2>4
    <3>. QED BY <3>1
  <2>6. FoldsTo(g, m, A, step, base)
    BY <2>4, <2>5 DEF FoldsTo
  <2>7. m \in Nat
    OBVIOUS
  <2>. HIDE DEF g
  <2>. QED BY <2>6, <2>7
<1>3. n \in T
  <2>. HIDE DEF T
  <2>1. \A k \in 0 .. n : k \in T
    BY <1>1, <1>2, UpTo
  <2>. QED BY <2>1
<1>. QED BY <1>3

\* The places up to k: the last one is k, and without it they go up to k - 1.
LEMMA LastPlace ==
  ASSUME NEW n \in Nat, NEW k \in 1 .. n
  PROVE  /\ 1 .. k \in SUBSET (1 .. n) /\ 1 .. k # {} /\ Max(1 .. k) = k
         /\ (1 .. k) \ {k} = 1 .. (k - 1)
<1>1. k \in Nat /\ k # 0 /\ k \in 1 .. k /\ 1 .. k \in SUBSET (1 .. k)
  OBVIOUS
<1>2. Max(1 .. k) = k
  BY <1>1, MaxOfTop
<1>. QED BY <1>1, <1>2
-----------------------------------------------------------------------------
(* Totals: the sum over a list of one member of its records *)

\* The sums of the first records, place by place.
Sums(p, list, member) ==
  /\ p \in [0 .. Len(list) -> Int] /\ p[0] = 0
  /\ \A k \in 1 .. Len(list) : p[k] = p[k - 1] + list[k][member]
  /\ p[Len(list)] = Total(list, member)

LEMMA TotalSums ==
  ASSUME NEW R, NEW list \in Seq(R), NEW member, \A i \in 1 .. Len(list) : list[i][member] \in Int
  PROVE  \E p : Sums(p, list, member)
<1>. DEFINE n == Len(list)
            step == [a \in Int |-> [i \in 1 .. n |-> a + list[i][member]]]
            Eq(it) == it = [S \in SUBSET (DOMAIN list) |->
                              IF S = {} THEN 0 ELSE it[S \ {Max(S)}] + list[Max(S)][member]]
            it == CHOOSE x : Eq(x)
            p == [k \in 0 .. n |-> it[1 .. k]]
<1>1. n \in Nat /\ DOMAIN list = 1 .. n
  OBVIOUS
<1>2. step \in [Int -> [1 .. n -> Int]]
  OBVIOUS
<1>3. PICK g : FoldsTo(g, n, Int, step, 0)
  <2>1. 0 \in Int
    OBVIOUS
  <2>. HIDE DEF step, n
  <2>. QED BY <1>1, <1>2, <2>1, FoldExists
<1>4. Eq(g)
  <2>1. ASSUME NEW S \in SUBSET (1 .. n)
        PROVE  g[S] = IF S = {} THEN 0 ELSE g[S \ {Max(S)}] + list[Max(S)][member]
    <3>1. CASE S = {}
      BY <1>3, <3>1 DEF Value, FoldsTo
    <3>2. CASE S # {}
      <4>1. Max(S) \in 1 .. n /\ S \ {Max(S)} \in SUBSET (1 .. n)
        BY <1>1, <3>2, MaxIn
      <4>2. g[S] = step[g[S \ {Max(S)}]][Max(S)] /\ g[S \ {Max(S)}] \in Int
        BY <1>3, <3>2, <4>1 DEF Value, FoldsTo
      <4>. QED BY <3>2, <4>1, <4>2
    <3>. QED BY <3>1, <3>2
  <2>. QED BY <1>1, <1>3, <2>1 DEF FoldsTo
<1>5. Eq(it)
  <2>. HIDE DEF Eq
  <2>. QED BY <1>4, Zenon
<1>6. Total(list, member) = it[DOMAIN list]
  BY Zenon DEF Total, FoldLeft, MapThenFoldSet
<1>7. p[0] = 0 /\ \A k \in 1 .. n : p[k] = p[k - 1] + list[k][member]
  <2>. HIDE DEF it
  <2>1. 1 .. 0 = {}
    OBVIOUS
  <2>2. it[{}] = 0
    BY <1>1, <1>5
  <2>3. ASSUME NEW k \in 1 .. n PROVE it[1 .. k] = it[1 .. (k - 1)] + list[k][member]
    <3>1. /\ 1 .. k \in SUBSET (1 .. n) /\ 1 .. k # {} /\ Max(1 .. k) = k
          /\ (1 .. k) \ {k} = 1 .. (k - 1)
      BY <1>1, LastPlace
    <3>2. it[1 .. k] = it[(1 .. k) \ {Max(1 .. k)}] + list[Max(1 .. k)][member]
      BY <1>1, <1>5, <3>1
    <3>. QED BY <3>1, <3>2
  <2>. QED BY <1>1, <2>1, <2>2, <2>3
<1>8. p \in [0 .. n -> Int]
  <2>. HIDE DEF p, n
  <2>1. \A k \in 0 .. n : k \in {j \in Nat : p[j] \in Int}
    <3>. DEFINE T == {j \in Nat : p[j] \in Int}
    <3>1. 0 \in T /\ \A k \in 1 .. n : k - 1 \in T => k \in T
      BY <1>7 DEF n
    <3>. HIDE DEF T
    <3>2. \A k \in 0 .. n : k \in T
      BY <1>1, <3>1, UpTo
    <3>. QED BY <3>2 DEF T
  <2>. QED BY <2>1 DEF p
<1>9. p[n] = Total(list, member)
  BY <1>1, <1>6
<1>. HIDE DEF p
<1>. QED BY <1>1, <1>7, <1>8, <1>9 DEF Sums

\* Smaller members have smaller sums.
LEMMA SumsBelow ==
  ASSUME NEW s, NEW t, NEW m, NEW o, NEW p, NEW q, Sums(p, s, m), Sums(q, t, o),
         NEW n \in Nat, n <= Len(s), n <= Len(t), Len(s) \in Nat, Len(t) \in Nat,
         \A i \in 1 .. n : s[i][m] \in Int /\ t[i][o] \in Int /\ s[i][m] <= t[i][o]
  PROVE  \A k \in 0 .. n : p[k] <= q[k]
<1>. DEFINE T == {k \in Nat : p[k] <= q[k]}
<1>1. 0 \in T
  BY DEF Sums
<1>2. ASSUME NEW k \in 1 .. n, k - 1 \in T PROVE k \in T
  <2>1. p[k] = p[k - 1] + s[k][m] /\ q[k] = q[k - 1] + t[k][o]
    BY DEF Sums
  <2>2. p[k - 1] \in Int /\ q[k - 1] \in Int
    <3>1. k - 1 \in 0 .. Len(s) /\ k - 1 \in 0 .. Len(t)
      OBVIOUS
    <3>. QED BY <3>1 DEF Sums
  <2>3. s[k][m] \in Int /\ t[k][o] \in Int /\ s[k][m] <= t[k][o]
    OBVIOUS
  <2>. QED BY <1>2, <2>1, <2>2, <2>3
<1>3. \A k \in 0 .. n : k \in T
  <2>. HIDE DEF T
  <2>. QED BY <1>1, <1>2, UpTo
<1>. QED BY <1>3

LEMMA TotalInt ==
  ASSUME NEW R, NEW s \in Seq(R), NEW m, \A i \in 1 .. Len(s) : s[i][m] \in Int
  PROVE  Total(s, m) \in Int
<1>1. PICK p : Sums(p, s, m)
  BY TotalSums
<1>2. Len(s) \in 0 .. Len(s)
  BY LenProperties
<1>. QED BY <1>1, <1>2 DEF Sums

LEMMA TotalBelow ==
  ASSUME NEW R, NEW s \in Seq(R), NEW t \in Seq(R), Len(s) = Len(t), NEW m, NEW o,
         \A i \in 1 .. Len(s) : s[i][m] \in Int /\ t[i][o] \in Int /\ s[i][m] <= t[i][o]
  PROVE  Total(s, m) <= Total(t, o)
<1>1. PICK p : Sums(p, s, m)
  BY TotalSums
<1>2. PICK q : Sums(q, t, o)
  BY TotalSums
<1>3. Len(s) \in Nat /\ Len(s) <= Len(s) /\ Len(s) <= Len(t) /\ Len(t) \in Nat /\ Len(s) \in 0 .. Len(s)
  BY LenProperties
<1>4. \A k \in 0 .. Len(s) : p[k] <= q[k]
  BY <1>1, <1>2, <1>3, SumsBelow
<1>. QED BY <1>1, <1>2, <1>3, <1>4 DEF Sums

\* Two lists with the same members have the same total.
LEMMA TotalSame ==
  ASSUME NEW Q, NEW R, NEW s \in Seq(Q), NEW t \in Seq(R), Len(s) = Len(t), NEW m, NEW o,
         \A i \in 1 .. Len(s) : s[i][m] \in Int /\ s[i][m] = t[i][o]
  PROVE  Total(s, m) = Total(t, o)
<1>0. \A i \in 1 .. Len(t) : t[i][o] \in Int
  OBVIOUS
<1>1. PICK p : Sums(p, s, m)
  BY TotalSums
<1>2. PICK q : Sums(q, t, o)
  BY <1>0, TotalSums
<1>3. Len(s) \in Nat /\ Len(s) <= Len(s) /\ Len(s) <= Len(t) /\ Len(t) \in Nat /\ Len(s) \in 0 .. Len(s)
  BY LenProperties
<1>4. \A k \in 0 .. Len(s) : p[k] <= q[k]
  BY <1>1, <1>2, <1>3, SumsBelow
<1>5. \A k \in 0 .. Len(s) : q[k] <= p[k]
  <2>1. \A i \in 1 .. Len(s) : t[i][o] \in Int /\ s[i][m] \in Int /\ t[i][o] <= s[i][m]
    BY <1>0
  <2>. QED BY <1>1, <1>2, <1>3, <2>1, SumsBelow
<1>6. p[Len(s)] \in Int /\ q[Len(s)] \in Int
  BY <1>1, <1>2, <1>3 DEF Sums
<1>. QED BY <1>1, <1>2, <1>3, <1>4, <1>5, <1>6 DEF Sums

LEMMA TotalEmpty == ASSUME NEW m PROVE Total(<<>>, m) = 0
<1>1. <<>> \in Seq({}) /\ Len(<<>>) = 0
  OBVIOUS
<1>2. \A i \in 1 .. Len(<<>>) : <<>>[i][m] \in Int
  BY <1>1
<1>3. PICK p : Sums(p, <<>>, m)
  BY <1>1, <1>2, TotalSums
<1>. QED BY <1>1, <1>3 DEF Sums

\* One record more adds its member.
LEMMA TotalAppend ==
  ASSUME NEW R, NEW s \in Seq(R), NEW e \in R, NEW m,
         \A i \in 1 .. Len(s) : s[i][m] \in Int, e[m] \in Int
  PROVE  Total(Append(s, e), m) = Total(s, m) + e[m]
<1>. DEFINE t == Append(s, e)
            n == Len(s)
<1>1. /\ t \in Seq(R) /\ Len(t) = n + 1 /\ n \in Nat /\ t[n + 1] = e
      /\ \A i \in 1 .. n : t[i] = s[i]
  BY AppendProperties, LenProperties
<1>. HIDE DEF t
<1>2. \A i \in 1 .. n + 1 : t[i][m] \in Int
  <2>. SUFFICES ASSUME NEW i \in 1 .. n + 1 PROVE t[i][m] \in Int
    OBVIOUS
  <2>1. i = n + 1 \/ i \in 1 .. n
    BY <1>1
  <2>. QED BY <1>1, <2>1
<1>3. PICK p : Sums(p, s, m)
  BY TotalSums
<1>4. PICK q : Sums(q, t, m)
  BY <1>1, <1>2, TotalSums
<1>5. n <= Len(s) /\ n <= Len(t) /\ Len(t) \in Nat
  BY <1>1
<1>6. \A k \in 0 .. n : p[k] <= q[k]
  <2>1. \A i \in 1 .. n : s[i][m] \in Int /\ t[i][m] \in Int /\ s[i][m] <= t[i][m]
    BY <1>1
  <2>. HIDE DEF n
  <2>. QED BY <1>1, <1>3, <1>4, <1>5, <2>1, SumsBelow DEF n
<1>7. \A k \in 0 .. n : q[k] <= p[k]
  <2>1. \A i \in 1 .. n : t[i][m] \in Int /\ s[i][m] \in Int /\ t[i][m] <= s[i][m]
    BY <1>1
  <2>. QED BY <1>1, <1>3, <1>4, <1>5, <2>1, SumsBelow
<1>8. n \in 0 .. n /\ n + 1 \in 1 .. n + 1 /\ n \in 0 .. n + 1
  BY <1>1
<1>9. q[n] = p[n] /\ p[n] \in Int /\ q[n] \in Int
  BY <1>1, <1>3, <1>4, <1>6, <1>7, <1>8 DEF Sums
<1>10. q[n + 1] = q[(n + 1) - 1] + t[n + 1][m] /\ (n + 1) - 1 = n
  BY <1>1, <1>4, <1>8 DEF Sums
<1>. QED BY <1>1, <1>3, <1>4, <1>9, <1>10 DEF Sums, t

\* A change of one record changes the total by as much.
LEMMA TotalChange ==
  ASSUME NEW R, NEW s \in Seq(R), NEW t \in Seq(R), Len(s) = Len(t), NEW m, NEW i \in 1 .. Len(s),
         NEW d \in Int, \A j \in 1 .. Len(s) : s[j][m] \in Int,
         \A j \in 1 .. Len(s) : t[j][m] = IF j = i THEN s[j][m] + d ELSE s[j][m]
  PROVE  Total(t, m) = Total(s, m) + d
<1>. DEFINE n == Len(s)
<1>1. n \in Nat /\ n \in 0 .. n /\ i \in 1 .. n /\ i \in Int
  BY LenProperties
<1>2. \A j \in 1 .. Len(t) : t[j][m] \in Int
  OBVIOUS
<1>3. PICK p : Sums(p, s, m)
  BY TotalSums
<1>4. PICK q : Sums(q, t, m)
  BY <1>2, TotalSums
<1>. DEFINE T == {k \in Nat : q[k] = IF k < i THEN p[k] ELSE p[k] + d}
<1>5. 0 \in T
  BY <1>1, <1>3, <1>4 DEF Sums
<1>6. ASSUME NEW k \in 1 .. n, k - 1 \in T PROVE k \in T
  <2>1. p[k] = p[k - 1] + s[k][m] /\ q[k] = q[k - 1] + t[k][m]
    BY <1>3, <1>4 DEF Sums
  <2>2. p[k - 1] \in Int /\ q[k - 1] \in Int
    <3>1. k - 1 \in 0 .. Len(s) /\ k - 1 \in 0 .. Len(t)
      OBVIOUS
    <3>. QED BY <1>3, <1>4, <3>1 DEF Sums
  <2>3. s[k][m] \in Int /\ t[k][m] = IF k = i THEN s[k][m] + d ELSE s[k][m]
    OBVIOUS
  <2>4. q[k - 1] = IF k - 1 < i THEN p[k - 1] ELSE p[k - 1] + d
    BY <1>6
  <2>5. k \in Nat
    OBVIOUS
  <2>. QED BY <1>1, <2>1, <2>2, <2>3, <2>4, <2>5
<1>7. \A k \in 0 .. n : k \in T
  <2>. HIDE DEF T
  <2>. QED BY <1>1, <1>5, <1>6, UpTo
<1>8. q[n] = p[n] + d
  BY <1>1, <1>7
<1>. QED BY <1>3, <1>4, <1>8 DEF Sums

\* A total of counts is a count.
LEMMA TotalNat ==
  ASSUME NEW R, NEW s \in Seq(R), NEW m, \A i \in 1 .. Len(s) : s[i][m] \in Nat
  PROVE  Total(s, m) \in Nat
<1>0. \A i \in 1 .. Len(s) : s[i][m] \in Int
  OBVIOUS
<1>1. PICK p : Sums(p, s, m)
  BY <1>0, TotalSums
<1>2. Len(s) \in Nat /\ Len(s) \in 0 .. Len(s)
  BY LenProperties
<1>. DEFINE T == {k \in Nat : p[k] \in Nat}
<1>3. 0 \in T /\ \A k \in 1 .. Len(s) : k - 1 \in T => k \in T
  BY <1>1 DEF Sums
<1>4. \A k \in 0 .. Len(s) : k \in T
  <2>. HIDE DEF T
  <2>. QED BY <1>2, <1>3, UpTo
<1>. QED BY <1>1, <1>2, <1>4 DEF Sums
-----------------------------------------------------------------------------
(* parse_results: one line after the other *)

Line == [id : Nat, bytes : Int, cnt_error : Int, packet_count : Nat]
ParseStates == [streams : Seq(Stream), err : {"IENONE", "IESTREAMID"}]
LEMMA MinIn ==
  ASSUME NEW S \in SUBSET Nat, S # {}
  PROVE  Min(S) \in S
<1>. DEFINE P(x) == x \in S /\ \A y \in S : x =< y
<1>1. PICK x \in S : \A y \in S : ~ (y < x)
  BY LeastNumber
<1>2. P(x)
  BY <1>1
<1>3. Min(S) = CHOOSE y : P(y)
  BY Zenon DEF Min
<1>4. P(CHOOSE y : P(y))
  BY <1>2, Zenon
<1>. QED BY <1>3, <1>4

\* The place of the stream with a number, if there is one.
PlaceOf(list, id) == SelectInSeq(list, LAMBDA sp : sp.id = id)
LEMMA PlaceFound ==
  ASSUME NEW list \in Seq(Stream), NEW id
  PROVE  /\ PlaceOf(list, id) \in 0 .. Len(list)
         /\ PlaceOf(list, id) # 0 => list[PlaceOf(list, id)].id = id
         /\ \A i \in 1 .. Len(list) :
              list[i].id = id => PlaceOf(list, id) # 0
<1>. DEFINE I == {i \in 1 .. Len(list) : list[i].id = id}
<1>1. PlaceOf(list, id) = IF I # {} THEN Min(I) ELSE 0
  BY Zenon DEF PlaceOf, SelectInSeq
<1>2. I # {} => Min(I) \in I
  <2>1. I \in SUBSET Nat
    OBVIOUS
  <2>. HIDE DEF I
  <2>. QED BY <2>1, MinIn
<1>3. Len(list) \in Nat
  BY LenProperties
<1>4. \A i \in I : i \in 1 .. Len(list) /\ list[i].id = id
  OBVIOUS
<1>5. ASSUME NEW i \in 1 .. Len(list), list[i].id = id PROVE i \in I
  BY <1>5
<1>. HIDE DEF I
<1>6. CASE I = {}
  BY <1>1, <1>3, <1>5, <1>6
<1>7. CASE I # {}
  BY <1>1, <1>2, <1>3, <1>4, <1>7
<1>. QED BY <1>6, <1>7

\* What a line of the other end changes: the receiver's counts at the sender,
\* the bytes of the sender at the receiver.
Merged(options, sp, line) ==
  IF Sends(options)
  THEN [sp EXCEPT !.cnt_error = line.cnt_error, !.packet_count = line.packet_count,
                  !.bytes_received = line.bytes]
  ELSE [sp EXCEPT !.bytes_sent = line.bytes]

LEMMA MergedType ==
  ASSUME NEW o, NEW sp \in Stream, NEW line \in Line
  PROVE  Merged(o, sp, line) \in Stream
BY DEF Merged, Stream, Line

LEMMA ParseLineIs ==
  ASSUME NEW o, NEW r \in ParseStates, NEW line \in Line
  PROVE  LET i == PlaceOf(r.streams, line.id)
         IN /\ ParseLine(o, r, line) \in ParseStates
            /\ r.err # "IENONE" \/ i = 0 =>
                 ParseLine(o, r, line) = [streams |-> r.streams, err |-> "IESTREAMID"]
            /\ r.err = "IENONE" /\ i # 0 =>
                 /\ i \in 1 .. Len(r.streams)
                 /\ ParseLine(o, r, line) =
                      [streams |-> [r.streams EXCEPT ![i] = Merged(o, r.streams[i], line)],
                       err |-> "IENONE"]
<1>. DEFINE i == PlaceOf(r.streams, line.id)
<1>1. r.streams \in Seq(Stream) /\ r = [streams |-> r.streams, err |-> r.err]
  BY DEF ParseStates
<1>2. i \in 0 .. Len(r.streams) /\ Len(r.streams) \in Nat
  BY <1>1, PlaceFound, LenProperties
<1>3. ParseLine(o, r, line) =
        IF r.err # "IENONE" \/ i = 0 THEN [r EXCEPT !.err = "IESTREAMID"]
        ELSE [r EXCEPT !.streams[i] = Merged(o, @, line)]
  BY Zenon DEF ParseLine, PlaceOf, Merged
<1>. HIDE DEF i
<1>4. CASE r.err # "IENONE" \/ i = 0
  <2>1. ParseLine(o, r, line) = [streams |-> r.streams, err |-> "IESTREAMID"]
    BY <1>1, <1>3, <1>4
  <2>. QED BY <1>1, <1>4, <2>1 DEF ParseStates, i
<1>5. CASE r.err = "IENONE" /\ i # 0
  <2>1. i \in 1 .. Len(r.streams)
    BY <1>2, <1>5
  <2>2. Merged(o, r.streams[i], line) \in Stream
    BY <1>1, <2>1, ElementOfSeq, MergedType
  <2>3. [r.streams EXCEPT ![i] = Merged(o, r.streams[i], line)] \in Seq(Stream)
    BY <1>1, <2>1, <2>2, ExceptSeq
  <2>4. ParseLine(o, r, line) =
          [streams |-> [r.streams EXCEPT ![i] = Merged(o, r.streams[i], line)], err |-> "IENONE"]
    BY <1>1, <1>3, <1>5
  <2>. QED BY <1>5, <2>1, <2>3, <2>4 DEF ParseStates, i
<1>. QED BY <1>4, <1>5 DEF i

LEMMA ParseLineMiss ==
  ASSUME NEW o, NEW r \in ParseStates, NEW line \in Line,
         r.err # "IENONE" \/ PlaceOf(r.streams, line.id) = 0
  PROVE  ParseLine(o, r, line) = [streams |-> r.streams, err |-> "IESTREAMID"]
BY ParseLineIs, Zenon

TakenOver(o, r, i, line) ==
  [streams |-> [r.streams EXCEPT ![i] = Merged(o, r.streams[i], line)], err |-> "IENONE"]
LEMMA ParseLineHit ==
  ASSUME NEW o, NEW r \in ParseStates, NEW line \in Line,
         r.err = "IENONE", NEW i, i = PlaceOf(r.streams, line.id), i # 0
  PROVE  i \in 1 .. Len(r.streams) /\ ParseLine(o, r, line) = TakenOver(o, r, i, line)
BY ParseLineIs, Zenon DEF TakenOver

LEMMA ParseLineType ==
  ASSUME NEW o, NEW r \in ParseStates, NEW line \in Line
  PROVE  ParseLine(o, r, line) \in ParseStates
BY ParseLineIs

\* The states of the parser, after each line.
Parses(p, o, streams, lines) ==
  /\ p \in [0 .. Len(lines) -> ParseStates] /\ p[0] = [streams |-> streams, err |-> "IENONE"]
  /\ \A k \in 1 .. Len(lines) : p[k] = ParseLine(o, p[k - 1], lines[k])
  /\ p[Len(lines)] = parse_results(o, streams, lines)

LEMMA ParseSteps ==
  ASSUME NEW o, NEW streams \in Seq(Stream), NEW lines \in Seq(Line)
  PROVE  \E p : Parses(p, o, streams, lines)
<1>. DEFINE n == Len(lines)
            base == [streams |-> streams, err |-> "IENONE"]
            step == [r \in ParseStates |-> [i \in 1 .. n |-> ParseLine(o, r, lines[i])]]
            Eq(it) == it = [S \in SUBSET (DOMAIN lines) |->
                              IF S = {} THEN base
                              ELSE ParseLine(o, it[S \ {Max(S)}], lines[Max(S)])]
            it == CHOOSE x : Eq(x)
            p == [k \in 0 .. n |-> it[1 .. k]]
<1>1. n \in Nat /\ DOMAIN lines = 1 .. n
  OBVIOUS
<1>2. step \in [ParseStates -> [1 .. n -> ParseStates]]
  <2>1. \A r \in ParseStates, i \in 1 .. n : ParseLine(o, r, lines[i]) \in ParseStates
    BY ElementOfSeq, ParseLineType
  <2>. QED BY <2>1
<1>3. base \in ParseStates
  BY DEF ParseStates
<1>4. PICK g : FoldsTo(g, n, ParseStates, step, base)
  <2>. HIDE DEF step, n, base
  <2>. QED BY <1>1, <1>2, <1>3, FoldExists
<1>5. Eq(g)
  <2>1. ASSUME NEW S \in SUBSET (1 .. n)
        PROVE  g[S] = IF S = {} THEN base ELSE ParseLine(o, g[S \ {Max(S)}], lines[Max(S)])
    <3>1. CASE S = {}
      BY <1>4, <3>1 DEF Value, FoldsTo
    <3>2. CASE S # {}
      <4>1. Max(S) \in 1 .. n /\ S \ {Max(S)} \in SUBSET (1 .. n)
        BY <1>1, <3>2, MaxIn
      <4>2. g[S] = step[g[S \ {Max(S)}]][Max(S)] /\ g[S \ {Max(S)}] \in ParseStates
        BY <1>4, <3>2, <4>1 DEF Value, FoldsTo
      <4>. QED BY <3>2, <4>1, <4>2
    <3>. QED BY <3>1, <3>2
  <2>. QED BY <1>1, <1>4, <2>1 DEF FoldsTo
<1>6. Eq(it)
  <2>. HIDE DEF Eq
  <2>. QED BY <1>5, Zenon
<1>7. parse_results(o, streams, lines) = it[DOMAIN lines]
  BY Zenon DEF parse_results, FoldLeft, MapThenFoldSet
<1>8. p[0] = base /\ \A k \in 1 .. n : p[k] = ParseLine(o, p[k - 1], lines[k])
  <2>. HIDE DEF it
  <2>1. 1 .. 0 = {}
    OBVIOUS
  <2>2. it[{}] = base
    BY <1>1, <1>6
  <2>3. ASSUME NEW k \in 1 .. n PROVE it[1 .. k] = ParseLine(o, it[1 .. (k - 1)], lines[k])
    <3>1. /\ 1 .. k \in SUBSET (1 .. n) /\ 1 .. k # {} /\ Max(1 .. k) = k
          /\ (1 .. k) \ {k} = 1 .. (k - 1)
      BY <1>1, LastPlace
    <3>2. it[1 .. k] = ParseLine(o, it[(1 .. k) \ {Max(1 .. k)}], lines[Max(1 .. k)])
      BY <1>1, <1>6, <3>1
    <3>. QED BY <3>1, <3>2
  <2>. QED BY <1>1, <2>1, <2>2, <2>3
<1>9. p \in [0 .. n -> ParseStates]
  <2>. DEFINE T == {j \in Nat : p[j] \in ParseStates}
  <2>1. 0 \in T
    BY <1>3, <1>8
  <2>2. ASSUME NEW k \in 1 .. n, k - 1 \in T PROVE k \in T
    <3>1. p[k - 1] \in ParseStates /\ p[k] = ParseLine(o, p[k - 1], lines[k]) /\ lines[k] \in Line
      BY <1>8, <2>2, ElementOfSeq
    <3>. HIDE DEF p
    <3>2. p[k] \in ParseStates
      BY <3>1, ParseLineType
    <3>. QED BY <3>2
  <2>3. \A k \in 0 .. n : k \in T
    <3>. HIDE DEF T
    <3>. QED BY <1>1, <2>1, <2>2, UpTo
  <2>. QED BY <2>3 DEF p
<1>10. p[n] = parse_results(o, streams, lines)
  BY <1>1, <1>7
<1>. HIDE DEF p
<1>. QED BY <1>1, <1>8, <1>9, <1>10 DEF Parses

\* What no line changes: the number of the stream, its intervals and their
\* time, and the counts of this end.
Kept(o, sp, tp) ==
  /\ tp.id = sp.id /\ tp.interval_results = sp.interval_results
  /\ tp.start_time = sp.start_time /\ tp.end_time = sp.end_time
  /\ tp.bytes_sent_this_interval = sp.bytes_sent_this_interval
  /\ tp.bytes_received_this_interval = sp.bytes_received_this_interval
  /\ IF Sends(o) THEN tp.bytes_sent = sp.bytes_sent
     ELSE /\ tp.bytes_received = sp.bytes_received
          /\ tp.cnt_error = sp.cnt_error /\ tp.packet_count = sp.packet_count

LEMMA MergedKeeps ==
  ASSUME NEW o, NEW sp \in Stream, NEW line PROVE Kept(o, sp, Merged(o, sp, line))
BY DEF Merged, Stream, Kept

LEMMA KeptTwice ==
  ASSUME NEW o, NEW sp, NEW tp, NEW up, Kept(o, sp, tp), Kept(o, tp, up) PROVE Kept(o, sp, up)
BY DEF Kept

\* parse_results keeps the list of streams, whatever the lines say.
LEMMA ParseKeeps ==
  ASSUME NEW o, NEW streams \in Seq(Stream), NEW lines \in Seq(Line)
  PROVE  LET r == parse_results(o, streams, lines)
         IN /\ r \in ParseStates /\ r.streams \in Seq(Stream) /\ Len(r.streams) = Len(streams)
            /\ \A i \in 1 .. Len(streams) : Kept(o, streams[i], r.streams[i])
<1>. DEFINE n == Len(lines)
            OK(r) == /\ r \in ParseStates /\ Len(r.streams) = Len(streams)
                     /\ \A i \in 1 .. Len(streams) : Kept(o, streams[i], r.streams[i])
<1>1. PICK p : Parses(p, o, streams, lines)
  BY ParseSteps
<1>2. n \in Nat /\ n \in 0 .. n
  BY LenProperties
<1>. DEFINE T == {k \in Nat : OK(p[k])}
<1>3. 0 \in T
  <2>1. p[0] \in ParseStates /\ p[0].streams = streams
    BY <1>1, <1>2 DEF Parses
  <2>. QED BY <2>1 DEF Kept
<1>4. ASSUME NEW k \in 1 .. n, k - 1 \in T PROVE k \in T
  <2>. DEFINE r == p[k - 1]
  <2>1. OK(r) /\ p[k] = ParseLine(o, r, lines[k]) /\ lines[k] \in Line /\ r.streams \in Seq(Stream)
    <3>1. OK(r) /\ p[k] = ParseLine(o, r, lines[k]) /\ lines[k] \in Line
      BY <1>1, <1>4, ElementOfSeq DEF Parses
    <3>. QED BY <3>1 DEF ParseStates
  <2>. DEFINE j == PlaceOf(r.streams, lines[k].id)
  <2>. HIDE DEF r
  <2>2. p[k] \in ParseStates
    BY <2>1, ParseLineType
  <2>4. CASE r.err # "IENONE" \/ j = 0
    <3>1. p[k].streams = r.streams
      BY <2>1, <2>4, ParseLineMiss
    <3>2. OK(p[k])
      BY <2>1, <2>2, <3>1
    <3>. QED BY <3>2
  <2>5. CASE r.err = "IENONE" /\ j # 0
    <3>. DEFINE new == Merged(o, r.streams[j], lines[k])
    <3>1. j \in 1 .. Len(r.streams) /\ p[k].streams = [r.streams EXCEPT ![j] = new]
      <4>1. r \in ParseStates /\ lines[k] \in Line /\ p[k] = ParseLine(o, r, lines[k])
        BY <2>1
      <4>2. /\ j \in 1 .. Len(r.streams)
            /\ ParseLine(o, r, lines[k]) = TakenOver(o, r, j, lines[k])
        BY <2>5, <4>1, ParseLineHit
      <4>. QED BY <4>1, <4>2 DEF TakenOver
    <3>2. r.streams[j] \in Stream /\ new \in Stream
      BY <2>1, <3>1, ElementOfSeq, MergedType
    <3>3. Kept(o, r.streams[j], new)
      BY <3>2, MergedKeeps
    <3>. HIDE DEF new
    <3>4. /\ Len(p[k].streams) = Len(r.streams)
          /\ \A i \in 1 .. Len(r.streams) :
               p[k].streams[i] = IF i = j THEN new ELSE r.streams[i]
      BY <2>1, <3>1, <3>2, ExceptSeq
    <3>5. ASSUME NEW i \in 1 .. Len(streams) PROVE Kept(o, streams[i], p[k].streams[i])
      <4>1. Kept(o, streams[i], r.streams[i]) /\ Len(r.streams) = Len(streams)
        BY <2>1
      <4>2. CASE i = j
        BY <3>3, <3>4, <4>1, <4>2, KeptTwice
      <4>3. CASE i # j
        BY <3>4, <4>1, <4>3
      <4>. QED BY <4>2, <4>3
    <3>6. OK(p[k])
      BY <2>1, <2>2, <3>4, <3>5
    <3>. QED BY <3>6
  <2>. QED BY <2>4, <2>5
<1>5. \A k \in 0 .. n : k \in T
  <2>. HIDE DEF T
  <2>. QED BY <1>2, <1>3, <1>4, UpTo
<1>6. OK(parse_results(o, streams, lines))
  BY <1>1, <1>2, <1>5 DEF Parses
<1>. QED BY <1>6 DEF ParseStates

\* The numbers iperf_add_stream gives.
Number(i) == IF i = 1 THEN 1 ELSE i + 1
Numbered(list) == \A i \in 1 .. Len(list) : list[i].id = Number(i)

LEMMA PlaceIs ==
  ASSUME NEW list \in Seq(Stream), Numbered(list), NEW k \in 1 .. Len(list)
  PROVE  PlaceOf(list, Number(k)) = k
<1>1. /\ PlaceOf(list, Number(k)) \in 1 .. Len(list)
      /\ list[PlaceOf(list, Number(k))].id = Number(k)
  BY PlaceFound, LenProperties DEF Numbered
<1>2. Number(PlaceOf(list, Number(k))) = Number(k)
  BY <1>1 DEF Numbered
<1>3. \A i \in Nat, j \in Nat : i # 0 /\ j # 0 /\ Number(i) = Number(j) => i = j
  BY DEF Number
<1>4. k \in Nat /\ k # 0 /\ \A i \in 1 .. Len(list) : i \in Nat /\ i # 0
  OBVIOUS
<1>. QED BY <1>1, <1>2, <1>3, <1>4

\* Lines for the same numbers: every stream takes over its own line.
LEMMA ParseMatching ==
  ASSUME NEW o, NEW streams \in Seq(Stream), NEW lines \in Seq(Line), Len(lines) = Len(streams),
         Numbered(streams), Numbered(lines)
  PROVE  LET r == parse_results(o, streams, lines)
         IN /\ r.err = "IENONE"
            /\ \A i \in 1 .. Len(streams) : r.streams[i] = Merged(o, streams[i], lines[i])
<1>. DEFINE n == Len(lines)
            OK(r, k) == /\ r \in ParseStates /\ r.err = "IENONE" /\ Len(r.streams) = Len(streams)
                        /\ \A i \in 1 .. n :
                             r.streams[i] = IF i <= k THEN Merged(o, streams[i], lines[i])
                                            ELSE streams[i]
<1>1. PICK p : Parses(p, o, streams, lines)
  BY ParseSteps
<1>2. n \in Nat /\ n \in 0 .. n
  BY LenProperties
<1>. DEFINE T == {k \in Nat : OK(p[k], k)}
<1>3. 0 \in T
  <2>1. p[0] \in ParseStates /\ p[0].streams = streams /\ p[0].err = "IENONE"
    BY <1>1, <1>2 DEF Parses
  <2>. QED BY <2>1
<1>4. ASSUME NEW k \in 1 .. n, k - 1 \in T PROVE k \in T
  <2>. DEFINE r == p[k - 1]
  <2>1. /\ OK(r, k - 1) /\ p[k] = ParseLine(o, r, lines[k]) /\ lines[k] \in Line
        /\ r.streams \in Seq(Stream) /\ k \in Nat /\ streams[k] \in Stream
    <3>1. OK(r, k - 1) /\ p[k] = ParseLine(o, r, lines[k]) /\ lines[k] \in Line
      BY <1>1, <1>4, ElementOfSeq DEF Parses
    <3>2. k \in 1 .. Len(streams) /\ k \in Nat
      OBVIOUS
    <3>. QED BY <3>1, <3>2, ElementOfSeq DEF ParseStates
  <2>. HIDE DEF r
  <2>2. ASSUME NEW i \in 1 .. Len(r.streams) PROVE r.streams[i].id = Number(i)
    <3>1. i \in 1 .. n /\ i \in 1 .. Len(streams)
      BY <2>1
    <3>2. streams[i].id = Number(i) /\ streams[i] \in Stream
      BY <3>1, ElementOfSeq DEF Numbered
    <3>3. Merged(o, streams[i], lines[i]).id = streams[i].id
      <4>1. Kept(o, streams[i], Merged(o, streams[i], lines[i]))
        BY <3>2, MergedKeeps
      <4>. QED BY <4>1 DEF Kept
    <3>. QED BY <2>1, <3>1, <3>2, <3>3
  <2>3. lines[k].id = Number(k) /\ k \in 1 .. Len(r.streams)
    BY <2>1 DEF Numbered
  <2>4. PlaceOf(r.streams, lines[k].id) = k
    BY <2>1, <2>2, <2>3, PlaceIs DEF Numbered
  <2>5. r.streams[k] = streams[k]
    <3>1. k \in 1 .. n /\ ~ (k <= k - 1)
      BY <2>1
    <3>. QED BY <2>1, <3>1
  <2>. DEFINE new == Merged(o, streams[k], lines[k])
  <2>6. p[k] = [streams |-> [r.streams EXCEPT ![k] = new], err |-> "IENONE"]
    <3>1. k # 0 /\ r.err = "IENONE" /\ r \in ParseStates
      BY <2>1
    <3>2. ParseLine(o, r, lines[k]) = TakenOver(o, r, k, lines[k])
      BY <2>1, <2>4, <3>1, ParseLineHit
    <3>. QED BY <2>1, <2>5, <3>2 DEF TakenOver
  <2>7. p[k] \in ParseStates /\ new \in Stream
    BY <2>1, ParseLineType, MergedType
  <2>. HIDE DEF new
  <2>8. /\ Len(p[k].streams) = Len(r.streams)
        /\ \A i \in 1 .. Len(r.streams) :
             p[k].streams[i] = IF i = k THEN new ELSE r.streams[i]
    BY <2>1, <2>3, <2>6, <2>7, ExceptSeq
  <2>9. ASSUME NEW i \in 1 .. n
        PROVE  p[k].streams[i] = IF i <= k THEN Merged(o, streams[i], lines[i]) ELSE streams[i]
    <3>1. i \in 1 .. Len(r.streams) /\ i \in Nat
      BY <2>1
    <3>2. r.streams[i] = IF i <= k - 1 THEN Merged(o, streams[i], lines[i]) ELSE streams[i]
      BY <2>1
    <3>3. CASE i = k
      BY <2>8, <3>1, <3>3, <2>1 DEF new
    <3>4. CASE i # k
      <4>1. (i <= k - 1) <=> (i <= k)
        BY <2>1, <3>1, <3>4
      <4>2. p[k].streams[i] = r.streams[i]
        BY <2>8, <3>1, <3>4
      <4>. QED BY <3>2, <4>1, <4>2
    <3>. QED BY <3>3, <3>4
  <2>10. OK(p[k], k)
    <3>1. p[k].err = "IENONE"
      BY <2>6
    <3>. QED BY <2>1, <2>7, <2>8, <2>9, <3>1
  <2>. QED BY <2>1, <2>10
<1>5. \A k \in 0 .. n : k \in T
  <2>. HIDE DEF T
  <2>. QED BY <1>2, <1>3, <1>4, UpTo
<1>6. OK(p[n], n)
  BY <1>2, <1>5
<1>7. p[n] = parse_results(o, streams, lines)
  BY <1>1 DEF Parses
<1>. QED BY <1>2, <1>6, <1>7
-----------------------------------------------------------------------------
(* Streams, one step at a time *)

\* An assignment to one element of a sequence, which may be none of its own.
LEMMA UpdateSeq ==
  ASSUME NEW S, NEW s \in Seq(S), NEW i, NEW e, i \in 1 .. Len(s) => e \in S
  PROVE  LET t == [s EXCEPT ![i] = e]
         IN /\ t \in Seq(S) /\ Len(t) = Len(s)
            /\ \A k \in 1 .. Len(s) : t[k] = IF k = i THEN e ELSE s[k]
<1>. DEFINE t == [s EXCEPT ![i] = e]
<1>1. CASE i \in 1 .. Len(s)
  BY <1>1, ExceptSeq
<1>2. CASE i \notin 1 .. Len(s)
  <2>1. t = s
    BY <1>2
  <2>. QED BY <1>2, <2>1
<1>. QED BY <1>1, <1>2

\* What two records of a stream agree in, but for the numbers of the streams.
Counters(sp, tp) ==
  /\ tp.packet_count = sp.packet_count /\ tp.cnt_error = sp.cnt_error
  /\ tp.outoforder_packets = sp.outoforder_packets
Totals(sp, tp) == tp.bytes_sent = sp.bytes_sent /\ tp.bytes_received = sp.bytes_received
ThisInterval(sp, tp) ==
  /\ tp.bytes_sent_this_interval = sp.bytes_sent_this_interval
  /\ tp.bytes_received_this_interval = sp.bytes_received_this_interval
Times(sp, tp) ==
  /\ tp.start_time = sp.start_time /\ tp.end_time = sp.end_time
  /\ tp.interval_results = sp.interval_results

\* A new stream has counted nothing.
LEMMA NewStreamType ==
  ASSUME NEW s \in Int PROVE iperf_new_stream(s) \in Stream
BY DEF iperf_new_stream, Stream, Intervals

\* iperf_add_stream appends a stream under the next number.
LEMMA AddStream ==
  ASSUME NEW list \in Seq(Stream), NEW sp \in Stream
  PROVE  /\ iperf_add_stream(list, sp) \in Seq(Stream)
         /\ Len(iperf_add_stream(list, sp)) = Len(list) + 1
         /\ \A i \in 1 .. Len(list) : iperf_add_stream(list, sp)[i] = list[i]
         /\ LET new == iperf_add_stream(list, sp)[Len(list) + 1]
            IN /\ new.id = Number(Len(list) + 1)
               /\ Counters(sp, new) /\ Totals(sp, new) /\ ThisInterval(sp, new) /\ Times(sp, new)
<1>. DEFINE id == IF list = <<>> THEN 1 ELSE 2 + Len(list)
            new == [sp EXCEPT !.id = id]
<1>1. id \in Nat /\ id = Number(Len(list) + 1)
  BY DEF Number
<1>. HIDE DEF id
<1>2. /\ new \in Stream /\ new.id = Number(Len(list) + 1)
      /\ Counters(sp, new) /\ Totals(sp, new) /\ ThisInterval(sp, new) /\ Times(sp, new)
  BY <1>1 DEF Stream, Counters, Totals, ThisInterval, Times
<1>3. iperf_add_stream(list, sp) = Append(list, new)
  BY DEF iperf_add_stream, id
<1>. HIDE DEF new
<1>. QED BY <1>2, <1>3

\* A list of numbered streams stays one.
LEMMA AddNumbered ==
  ASSUME NEW list \in Seq(Stream), NEW sp \in Stream, Numbered(list)
  PROVE  Numbered(iperf_add_stream(list, sp))
<1>. DEFINE t == iperf_add_stream(list, sp)
<1>1. /\ Len(t) = Len(list) + 1 /\ Len(list) \in Nat
      /\ \A i \in 1 .. Len(list) : t[i] = list[i]
      /\ t[Len(list) + 1].id = Number(Len(list) + 1)
  BY AddStream, LenProperties
<1>. HIDE DEF t
<1>2. ASSUME NEW i \in 1 .. Len(t) PROVE t[i].id = Number(i)
  <2>1. i = Len(list) + 1 \/ i \in 1 .. Len(list)
    BY <1>1
  <2>. QED BY <1>1, <2>1 DEF Numbered
<1>. QED BY <1>2 DEF Numbered, t

\* Blocks that are sent or received change the bytes alone.
LEMMA SentIs ==
  ASSUME NEW sp \in Stream, NEW n \in Int
  PROVE  /\ Sent(sp, n) \in Stream /\ Sent(sp, n).id = sp.id
         /\ Counters(sp, Sent(sp, n)) /\ Times(sp, Sent(sp, n))
         /\ Sent(sp, n).bytes_sent = sp.bytes_sent + n
         /\ Sent(sp, n).bytes_sent_this_interval = sp.bytes_sent_this_interval + n
         /\ Sent(sp, n).bytes_received = sp.bytes_received
         /\ Sent(sp, n).bytes_received_this_interval = sp.bytes_received_this_interval
<1>. DEFINE a == [sp EXCEPT !.bytes_sent = @ + n]
<1>1. /\ a \in Stream /\ a.id = sp.id /\ Counters(sp, a) /\ Times(sp, a) /\ ThisInterval(sp, a)
      /\ a.bytes_sent = sp.bytes_sent + n /\ a.bytes_received = sp.bytes_received
  BY DEF Stream, Counters, Times, ThisInterval
<1>2. Sent(sp, n) = [a EXCEPT !.bytes_sent_this_interval = @ + n]
  BY DEF Sent, Stream
<1>. HIDE DEF a
<1>. QED BY <1>1, <1>2 DEF Stream, Counters, Times, ThisInterval

LEMMA ReceivedIs ==
  ASSUME NEW sp \in Stream, NEW n \in Int
  PROVE  /\ Received(sp, n) \in Stream /\ Received(sp, n).id = sp.id
         /\ Counters(sp, Received(sp, n)) /\ Times(sp, Received(sp, n))
         /\ Received(sp, n).bytes_received = sp.bytes_received + n
         /\ Received(sp, n).bytes_received_this_interval = sp.bytes_received_this_interval + n
         /\ Received(sp, n).bytes_sent = sp.bytes_sent
         /\ Received(sp, n).bytes_sent_this_interval = sp.bytes_sent_this_interval
<1>. DEFINE a == [sp EXCEPT !.bytes_received = @ + n]
<1>1. /\ a \in Stream /\ a.id = sp.id /\ Counters(sp, a) /\ Times(sp, a) /\ ThisInterval(sp, a)
      /\ a.bytes_received = sp.bytes_received + n /\ a.bytes_sent = sp.bytes_sent
  BY DEF Stream, Counters, Times, ThisInterval
<1>2. Received(sp, n) = [a EXCEPT !.bytes_received_this_interval = @ + n]
  BY DEF Received, Stream
<1>. HIDE DEF a
<1>. QED BY <1>1, <1>2 DEF Stream, Counters, Times, ThisInterval

\* The interval that CloseInterval adds.
Closing(sp, sends, t) ==
  [bytes |-> IF sends THEN sp.bytes_sent_this_interval ELSE sp.bytes_received_this_interval,
   start |-> IF sp.interval_results = <<>> THEN sp.start_time ELSE sp.end_time, end |-> t]

LEMMA CloseIntervalIs ==
  ASSUME NEW sp \in Stream, NEW sends \in BOOLEAN, NEW t \in Int
  PROVE  LET new == CloseInterval(sp, sends, t)
         IN /\ new \in Stream /\ new.id = sp.id /\ Counters(sp, new) /\ Totals(sp, new)
            /\ new.start_time = sp.start_time /\ new.end_time = t
            /\ new.bytes_sent_this_interval = 0 /\ new.bytes_received_this_interval = 0
            /\ new.interval_results = Append(sp.interval_results, Closing(sp, sends, t))
            /\ Closing(sp, sends, t) \in Interval
<1>. DEFINE list == Append(sp.interval_results, Closing(sp, sends, t))
<1>1. Closing(sp, sends, t) \in Interval
  BY DEF Stream, Interval, Closing
<1>2. list \in Intervals
  BY <1>1 DEF Stream, Intervals
<1>3. CloseInterval(sp, sends, t) =
        [sp EXCEPT !.interval_results = list, !.end_time = t,
                   !.bytes_sent_this_interval = 0, !.bytes_received_this_interval = 0]
  BY DEF CloseInterval, add_to_interval_list, Stream, Closing
<1>. HIDE DEF list
<1>. DEFINE a == [sp EXCEPT !.interval_results = list]
            b == [a EXCEPT !.end_time = t]
            c == [b EXCEPT !.bytes_sent_this_interval = 0]
            d == [c EXCEPT !.bytes_received_this_interval = 0]
            Same(x, y) == /\ x \in Stream /\ x.id = y.id /\ Counters(y, x) /\ Totals(y, x)
                          /\ x.start_time = y.start_time
<1>. USE DEF Counters, Totals
<1>4. Same(a, sp) /\ a.interval_results = list
  BY <1>2 DEF Stream
<1>5. Same(b, a) /\ b.interval_results = list /\ b.end_time = t
  <2>. HIDE DEF a
  <2>. QED BY <1>4 DEF Stream
<1>6. /\ Same(c, b) /\ c.interval_results = list /\ c.end_time = t
      /\ c.bytes_sent_this_interval = 0
  <2>. HIDE DEF b
  <2>. QED BY <1>5 DEF Stream
<1>7. /\ Same(d, c) /\ d.interval_results = list /\ d.end_time = t
      /\ d.bytes_sent_this_interval = 0 /\ d.bytes_received_this_interval = 0
  <2>. HIDE DEF c
  <2>. QED BY <1>6 DEF Stream
<1>8. CloseInterval(sp, sends, t) = d
  BY <1>3 DEF Stream
<1>. HIDE DEF a, b, c, d
<1>. QED BY <1>1, <1>4, <1>5, <1>6, <1>7, <1>8 DEF list

\* iperf_stats_callback closes the interval of every stream.
LEMMA StatsIs ==
  ASSUME NEW o, NEW list \in Seq(Stream), NEW t \in Int
  PROVE  /\ iperf_stats_callback(o, list, t) \in Seq(Stream)
         /\ Len(iperf_stats_callback(o, list, t)) = Len(list)
         /\ Sends(o) \in BOOLEAN
         /\ \A i \in 1 .. Len(list) :
              iperf_stats_callback(o, list, t)[i] = CloseInterval(list[i], Sends(o), t)
<1>1. Sends(o) \in BOOLEAN
  BY DEF Sends
<1>2. \A i \in 1 .. Len(list) : list[i] \in Stream
  OBVIOUS
<1>3. \A i \in 1 .. Len(list) : CloseInterval(list[i], Sends(o), t) \in Stream
  BY <1>1, <1>2, CloseIntervalIs
<1>4. iperf_stats_callback(o, list, t)
        = [i \in 1 .. Len(list) |-> CloseInterval(list[i], Sends(o), t)]
  BY DEF iperf_stats_callback
<1>. QED BY <1>1, <1>3, <1>4

\* A line of results for every stream, under its number.
LEMMA ResultsAre ==
  ASSUME NEW o, NEW list \in Seq(Stream)
  PROVE  /\ Results(o, list) \in Seq(Line) /\ Len(Results(o, list)) = Len(list)
         /\ \A i \in 1 .. Len(list) :
              LET line == Results(o, list)[i]
              IN /\ line.id = list[i].id
                 /\ line.bytes = IF Sends(o) THEN list[i].bytes_sent ELSE list[i].bytes_received
                 /\ line.cnt_error = list[i].cnt_error
                 /\ line.packet_count = list[i].packet_count
         /\ Numbered(list) => Numbered(Results(o, list))
<1>. DEFINE line(i) == [id |-> list[i].id,
                        bytes |-> IF Sends(o) THEN list[i].bytes_sent ELSE list[i].bytes_received,
                        cnt_error |-> list[i].cnt_error, packet_count |-> list[i].packet_count]
<1>1. \A i \in 1 .. Len(list) : list[i] \in Stream
  OBVIOUS
<1>2. \A i \in 1 .. Len(list) : line(i) \in Line
  BY <1>1 DEF Line, Stream
<1>3. Results(o, list) = [i \in 1 .. Len(list) |-> line(i)]
  BY DEF Results
<1>4. Results(o, list) \in Seq(Line) /\ Len(Results(o, list)) = Len(list)
  <2>. HIDE DEF line
  <2>. QED BY <1>2, <1>3
<1>5. \A i \in 1 .. Len(list) : Results(o, list)[i] = line(i)
  BY <1>3
<1>6. ASSUME NEW i \in 1 .. Len(list)
      PROVE  /\ Results(o, list)[i].id = list[i].id
             /\ Results(o, list)[i].bytes
                  = IF Sends(o) THEN list[i].bytes_sent ELSE list[i].bytes_received
             /\ Results(o, list)[i].cnt_error = list[i].cnt_error
             /\ Results(o, list)[i].packet_count = list[i].packet_count
  <2>1. Results(o, list)[i] = line(i)
    BY <1>5
  <2>. QED BY <2>1
<1>7. Numbered(list) => Numbered(Results(o, list))
  <2>. HIDE DEF line
  <2>. QED BY <1>4, <1>6 DEF Numbered
<1>. HIDE DEF line
<1>. QED BY <1>4, <1>6, <1>7
-----------------------------------------------------------------------------
(* The options: the command line, and what a client tells its server *)

\* The members that hold a number, and an assignment to one of them.
Numeric == {"server_port", "bind_address", "duration", "num_streams", "interval",
            "socket_bufsize", "blksize", "rate", "mss", "bytes", "tos", "reverse",
            "no_delay", "tcp_info"}

LEMMA SetMember ==
  ASSUME NEW t \in Options, NEW m \in Numeric, NEW v \in Nat, NEW u, u = [t EXCEPT ![m] = v]
  PROVE  /\ u \in Options /\ u[m] = v /\ u.role = t.role /\ u.protocol = t.protocol
         /\ \A k \in Numeric : k # m => u[k] = t[k]
BY DEF Options, Numeric

LEMMA MemberIs ==
  /\ DOMAIN Member = {"p", "t", "P", "B", "b", "l", "w", "i", "n", "N", "M", "R", "S", "T"}
  /\ \A l \in DOMAIN Member : Member[l] \in Numeric
  /\ Member["P"] = "num_streams" /\ Member["R"] = "reverse" /\ Member["w"] = "socket_bufsize"
  /\ Member["b"] = "rate" /\ Member["N"] = "no_delay" /\ Member["n"] = "bytes"
  /\ Member["t"] = "duration" /\ Member["l"] = "blksize" /\ Member["S"] = "tos"
  /\ \A l \in DOMAIN Member \ {"P"} : Member[l] # "num_streams"
BY DEF Member, Numeric

\* What the server may read, and what it does with it.
Params == [opt : {"p", "u", "m"} \cup DOMAIN Member, n : Nat, unit : {""}]

LEMMA ParameterIs ==
  ASSUME NEW t, NEW o
  PROVE  /\ o.opt = "p" => ParseParameter(t, o) = [t EXCEPT !.protocol = "tcp"]
         /\ o.opt = "u" => ParseParameter(t, o) = [t EXCEPT !.protocol = "udp"]
         /\ o.opt = "m" => ParseParameter(t, o) = [t EXCEPT !["mss"] = o.n]
         /\ o.opt \notin {"p", "u", "m"} => ParseParameter(t, o) = [t EXCEPT ![Member[o.opt]] = o.n]
BY DEF ParseParameter

LEMMA ParameterType ==
  ASSUME NEW t \in Options, NEW o \in Params
  PROVE  ParseParameter(t, o) \in Options
<1>. DEFINE u == ParseParameter(t, o)
<1>1. CASE o.opt = "p"
  <2>1. u = [t EXCEPT !.protocol = "tcp"]
    BY <1>1, ParameterIs
  <2>. HIDE DEF u
  <2>2. u \in Options
    BY <2>1 DEF Options
  <2>. QED BY <2>2 DEF u
<1>2. CASE o.opt = "u"
  <2>1. u = [t EXCEPT !.protocol = "udp"]
    BY <1>2, ParameterIs
  <2>. HIDE DEF u
  <2>2. u \in Options
    BY <2>1 DEF Options
  <2>. QED BY <2>2 DEF u
<1>3. ASSUME NEW m \in Numeric, u = [t EXCEPT ![m] = o.n] PROVE u \in Options
  <2>1. o.n \in Nat
    BY DEF Params
  <2>. DEFINE v == o.n
  <2>. HIDE DEF u, v
  <2>2. v \in Nat /\ u = [t EXCEPT ![m] = v]
    BY <1>3, <2>1 DEF v
  <2>. QED BY <2>2, SetMember
<1>4. CASE o.opt \notin {"p", "u"}
  <2>1. "mss" \in Numeric
    BY DEF Numeric
  <2>2. o.opt # "m" => Member[o.opt] \in Numeric
    BY <1>4, MemberIs DEF Params
  <2>3. PICK m \in Numeric : u = [t EXCEPT ![m] = o.n]
    BY <1>4, <2>1, <2>2, ParameterIs
  <2>. QED BY <1>3, <2>3
<1>. QED BY <1>1, <1>2, <1>4

\* What the server has after a list of parameters.
Understood(s, q) == FoldLeft(ParseParameter, s, q)

\* The options after each of them.
Understands(p, s, q) ==
  /\ p \in [0 .. Len(q) -> Options] /\ p[0] = s
  /\ \A k \in 1 .. Len(q) : p[k] = ParseParameter(p[k - 1], q[k])
  /\ p[Len(q)] = Understood(s, q)

LEMMA ParameterSteps ==
  ASSUME NEW s \in Options, NEW q \in Seq(Params)
  PROVE  \E p : Understands(p, s, q)
<1>. DEFINE n == Len(q)
            base == s
            step == [r \in Options |-> [i \in 1 .. n |-> ParseParameter(r, q[i])]]
            Eq(it) == it = [S \in SUBSET (DOMAIN q) |->
                              IF S = {} THEN base
                              ELSE ParseParameter(it[S \ {Max(S)}], q[Max(S)])]
            it == CHOOSE x : Eq(x)
            p == [k \in 0 .. n |-> it[1 .. k]]
<1>1. n \in Nat /\ DOMAIN q = 1 .. n
  OBVIOUS
<1>2. step \in [Options -> [1 .. n -> Options]]
  <2>1. \A r \in Options, i \in 1 .. n : ParseParameter(r, q[i]) \in Options
    BY ElementOfSeq, ParameterType
  <2>. QED BY <2>1
<1>3. base \in Options
  OBVIOUS
<1>4. PICK g : FoldsTo(g, n, Options, step, base)
  <2>. HIDE DEF step, n, base
  <2>. QED BY <1>1, <1>2, <1>3, FoldExists
<1>5. Eq(g)
  <2>1. ASSUME NEW S \in SUBSET (1 .. n)
        PROVE  g[S] = IF S = {} THEN base ELSE ParseParameter(g[S \ {Max(S)}], q[Max(S)])
    <3>1. CASE S = {}
      BY <1>4, <3>1 DEF Value, FoldsTo
    <3>2. CASE S # {}
      <4>1. Max(S) \in 1 .. n /\ S \ {Max(S)} \in SUBSET (1 .. n)
        BY <1>1, <3>2, MaxIn
      <4>2. g[S] = step[g[S \ {Max(S)}]][Max(S)] /\ g[S \ {Max(S)}] \in Options
        BY <1>4, <3>2, <4>1 DEF Value, FoldsTo
      <4>. QED BY <3>2, <4>1, <4>2
    <3>. QED BY <3>1, <3>2
  <2>. QED BY <1>1, <1>4, <2>1 DEF FoldsTo
<1>6. Eq(it)
  <2>. HIDE DEF Eq
  <2>. QED BY <1>5, Zenon
<1>7. Understood(s, q) = it[DOMAIN q]
  BY Zenon DEF Understood, FoldLeft, MapThenFoldSet
<1>8. p[0] = base /\ \A k \in 1 .. n : p[k] = ParseParameter(p[k - 1], q[k])
  <2>. HIDE DEF it
  <2>1. 1 .. 0 = {}
    OBVIOUS
  <2>2. it[{}] = base
    BY <1>1, <1>6
  <2>3. ASSUME NEW k \in 1 .. n PROVE it[1 .. k] = ParseParameter(it[1 .. (k - 1)], q[k])
    <3>1. /\ 1 .. k \in SUBSET (1 .. n) /\ 1 .. k # {} /\ Max(1 .. k) = k
          /\ (1 .. k) \ {k} = 1 .. (k - 1)
      BY <1>1, LastPlace
    <3>2. it[1 .. k] = ParseParameter(it[(1 .. k) \ {Max(1 .. k)}], q[Max(1 .. k)])
      BY <1>1, <1>6, <3>1
    <3>. QED BY <3>1, <3>2
  <2>. QED BY <1>1, <2>1, <2>2, <2>3
<1>9. p \in [0 .. n -> Options]
  <2>. DEFINE T == {j \in Nat : p[j] \in Options}
  <2>1. 0 \in T
    BY <1>3, <1>8
  <2>2. ASSUME NEW k \in 1 .. n, k - 1 \in T PROVE k \in T
    <3>1. p[k - 1] \in Options /\ p[k] = ParseParameter(p[k - 1], q[k]) /\ q[k] \in Params
      BY <1>8, <2>2, ElementOfSeq
    <3>. HIDE DEF p
    <3>2. p[k] \in Options
      BY <3>1, ElementOfSeq, ParameterType
    <3>. QED BY <3>2
  <2>3. \A k \in 0 .. n : k \in T
    <3>. HIDE DEF T
    <3>. QED BY <1>1, <2>1, <2>2, UpTo
  <2>. QED BY <2>3 DEF p
<1>10. p[n] = Understood(s, q)
  BY <1>1, <1>7
<1>. HIDE DEF p
<1>. QED BY <1>1, <1>8, <1>9, <1>10 DEF Understands

\* One parameter more.
LEMMA UnderstoodEmpty == ASSUME NEW s \in Options PROVE Understood(s, <<>>) = s
<1>1. <<>> \in Seq(Params) /\ Len(<<>>) = 0
  OBVIOUS
<1>2. PICK p : Understands(p, s, <<>>)
  BY <1>1, ParameterSteps
<1>. QED BY <1>1, <1>2 DEF Understands

LEMMA UnderstoodAppend ==
  ASSUME NEW s \in Options, NEW q \in Seq(Params), NEW e \in Params
  PROVE  /\ Understood(s, q) \in Options
         /\ Understood(s, Append(q, e)) = ParseParameter(Understood(s, q), e)
<1>. DEFINE t == Append(q, e)
            n == Len(q)
<1>1. /\ t \in Seq(Params) /\ Len(t) = n + 1 /\ n \in Nat /\ t[n + 1] = e
      /\ \A i \in 1 .. n : t[i] = q[i]
  BY AppendProperties, LenProperties
<1>. HIDE DEF t
<1>2. PICK f : Understands(f, s, q)
  BY ParameterSteps
<1>3. PICK g : Understands(g, s, t)
  BY <1>1, ParameterSteps
<1>. DEFINE T == {k \in Nat : g[k] = f[k]}
<1>4. 0 \in T
  BY <1>2, <1>3 DEF Understands
<1>5. ASSUME NEW k \in 1 .. n, k - 1 \in T PROVE k \in T
  <2>1. f[k] = ParseParameter(f[k - 1], q[k]) /\ g[k] = ParseParameter(g[k - 1], t[k])
    BY <1>1, <1>2, <1>3 DEF Understands
  <2>. QED BY <1>1, <1>5, <2>1
<1>6. \A k \in 0 .. n : k \in T
  <2>. HIDE DEF T, n
  <2>. QED BY <1>1, <1>4, <1>5, UpTo
<1>7. g[n] = f[n] /\ f[n] = Understood(s, q) /\ f[n] \in Options
  BY <1>1, <1>2, <1>6 DEF Understands
<1>8. g[n + 1] = ParseParameter(g[(n + 1) - 1], t[n + 1]) /\ (n + 1) - 1 = n
  BY <1>1, <1>3 DEF Understands
<1>9. g[n + 1] = Understood(s, t)
  BY <1>1, <1>3 DEF Understands
<1>. QED BY <1>1, <1>7, <1>8, <1>9 DEF t

\* A parameter that is written only when it is not zero.
LEMMA GivenStep ==
  ASSUME NEW s \in Options, NEW q \in Seq(Params), NEW letter, NEW m \in Numeric, NEW v \in Nat,
         \/ letter \in DOMAIN Member \ {"p"} /\ m = Member[letter]
         \/ letter = "m" /\ m = "mss"
  PROVE  LET x == Understood(s, q)
             y == Understood(s, q \o Given(letter, v))
         IN /\ q \o Given(letter, v) \in Seq(Params)
            /\ y = IF v = 0 THEN x ELSE [x EXCEPT ![m] = v]
<1>1. CASE v = 0
  <2>1. q \o Given(letter, v) = q
    BY <1>1, ConcatEmptySeq DEF Given
  <2>. QED BY <1>1, <2>1
<1>2. CASE v # 0
  <2>. DEFINE e == Option(letter, v, "")
  <2>1. e \in Params
    BY DEF Option, Params
  <2>2. Given(letter, v) = <<e>>
    BY <1>2 DEF Given
  <2>3. q \o <<e>> = Append(q, e) /\ Append(q, e) \in Seq(Params)
    BY <2>1, AppendIsConcat, AppendProperties
  <2>4. ParseParameter(Understood(s, q), e) = [Understood(s, q) EXCEPT ![m] = v]
    <3>1. letter \notin {"p", "u"} /\ (letter = "m" => letter \notin DOMAIN Member)
      BY MemberIs
    <3>2. e.opt = letter /\ e.n = v
      BY DEF Option
    <3>. HIDE DEF e
    <3>. QED BY <3>1, <3>2, ParameterIs
  <2>. HIDE DEF e
  <2>5. q \o Given(letter, v) = Append(q, e)
    BY <2>2, <2>3
  <2>6. Understood(s, Append(q, e)) = ParseParameter(Understood(s, q), e)
    BY <2>1, UnderstoodAppend
  <2>. QED BY <1>2, <2>3, <2>4, <2>5, <2>6
<1>. QED BY <1>1, <1>2

\* What the server knows of the client's test after the exchange.
Told == {"reverse", "socket_bufsize", "rate", "mss", "no_delay", "bytes", "duration",
         "blksize", "tos"}
Over(x, y, m, v) ==
  /\ y \in Options /\ y.role = x.role /\ y.protocol = x.protocol
  /\ y[m] = IF v = 0 THEN x[m] ELSE v
  /\ \A k \in Numeric : k # m => y[k] = x[k]

LEMMA GivenOver ==
  ASSUME NEW s \in Options, NEW q \in Seq(Params), NEW letter, NEW m \in Numeric, NEW v \in Nat,
         \/ letter \in DOMAIN Member \ {"p"} /\ m = Member[letter]
         \/ letter = "m" /\ m = "mss"
  PROVE  /\ q \o Given(letter, v) \in Seq(Params)
         /\ Over(Understood(s, q), Understood(s, q \o Given(letter, v)), m, v)
<1>1. Understood(s, q) \in Options
  <2>1. PICK p : Understands(p, s, q)
    BY ParameterSteps
  <2>. QED BY <2>1, LenProperties DEF Understands
<1>. DEFINE x == Understood(s, q)
            y == Understood(s, q \o Given(letter, v))
<1>2. q \o Given(letter, v) \in Seq(Params) /\ y = IF v = 0 THEN x ELSE [x EXCEPT ![m] = v]
  BY GivenStep
<1>. HIDE DEF x, y
<1>3. Over(x, y, m, v)
  <2>1. CASE v = 0
    BY <1>1, <1>2, <2>1 DEF Over, x
  <2>2. CASE v # 0
    <3>1. y = [x EXCEPT ![m] = v] /\ x \in Options
      BY <1>1, <1>2, <2>2 DEF x
    <3>2. /\ y \in Options /\ y[m] = v /\ y.role = x.role /\ y.protocol = x.protocol
          /\ \A k \in Numeric : k # m => y[k] = x[k]
      BY <3>1 DEF Options, Numeric
    <3>. QED BY <2>2, <3>2 DEF Over
  <2>. QED BY <2>1, <2>2
<1>. QED BY <1>2, <1>3 DEF x, y

LEMMA TailOfCons ==
  ASSUME NEW S, NEW e \in S, NEW q \in Seq(S)
  PROVE  Tail(<<e>> \o q) = q
<1>. DEFINE t == <<e>> \o q
<1>1. <<e>> \in Seq(S) /\ Len(<<e>>) = 1 /\ Len(q) \in Nat
  OBVIOUS
<1>2. /\ t \in Seq(S) /\ Len(t) = 1 + Len(q)
      /\ \A i \in 1 .. 1 + Len(q) : t[i] = IF i <= 1 THEN <<e>>[i] ELSE q[i - 1]
  BY <1>1, ConcatProperties
<1>. HIDE DEF t
<1>3. t # <<>>
  BY <1>1, <1>2
<1>4. /\ Tail(t) \in Seq(S) /\ Len(Tail(t)) = Len(t) - 1
      /\ \A i \in 1 .. Len(Tail(t)) : Tail(t)[i] = t[i + 1]
  BY <1>2, <1>3, HeadTailProperties
<1>5. \A i \in 1 .. Len(q) : Tail(t)[i] = q[i]
  BY <1>1, <1>2, <1>4
<1>6. Len(Tail(t)) = Len(q)
  BY <1>1, <1>2, <1>4
<1>7. Tail(t) = q
  BY <1>4, <1>5, <1>6, SeqEqual
<1>. QED BY <1>7 DEF t

LEMMA ServerTakes ==
  ASSUME NEW s \in Options, NEW t \in Options
  PROVE  LET p == parse_parameters(s, package_parameters(t))
         IN /\ p \in Options /\ p.role = s.role /\ p.protocol = s.protocol
            /\ p.num_streams = t.num_streams
            /\ \A m \in Told : p[m] = IF t[m] = 0 THEN s[m] ELSE t[m]
<1>. DEFINE o == Option("P", t.num_streams, "")
            q0 == <<o>>
            q1 == q0 \o Given("R", t.reverse)
            q2 == q1 \o Given("w", t.socket_bufsize)
            q3 == q2 \o Given("b", t.rate)
            q4 == q3 \o Given("m", t.mss)
            q5 == q4 \o Given("N", t.no_delay)
            q6 == q5 \o Given("n", t.bytes)
            q7 == q6 \o Given("t", t.duration)
            q8 == q7 \o Given("l", t.blksize)
            q9 == q8 \o Given("S", t.tos)
            e == Switch(IF t.protocol = "tcp" THEN "p" ELSE "u")
            x(q) == Understood(s, q)
<1>1. \A m \in Numeric : t[m] \in Nat
  BY DEF Options, Numeric
<1>2. /\ o \in Params /\ q0 \in Seq(Params) /\ q0 = Append(<<>>, o) /\ <<>> \in Seq(Params)
      /\ e \in Params
  BY <1>1, MemberIs DEF Params, Option, Switch, Numeric
<1>3. x(q0) = [s EXCEPT !.num_streams = t.num_streams]
  <2>1. x(q0) = ParseParameter(s, o)
    <3>. HIDE DEF o, q0
    <3>1. Understood(s, q0) = ParseParameter(Understood(s, <<>>), o)
      BY <1>2, UnderstoodAppend
    <3>. QED BY <3>1, UnderstoodEmpty
  <2>2. o.opt = "P" /\ o.n = t.num_streams
    BY DEF Option
  <2>. HIDE DEF o
  <2>. QED BY <2>1, <2>2, MemberIs, ParameterIs
<1>4. /\ x(q0) \in Options /\ x(q0).role = s.role /\ x(q0).protocol = s.protocol
      /\ x(q0).num_streams = t.num_streams
      /\ \A k \in Numeric : k # "num_streams" => x(q0)[k] = s[k]
  <2>. DEFINE v == t.num_streams
              y == x(q0)
  <2>1. "num_streams" \in Numeric /\ v \in Nat
    BY <1>1 DEF Numeric
  <2>2. y = [s EXCEPT !["num_streams"] = v]
    BY <1>3
  <2>. HIDE DEF v, y
  <2>3. /\ y \in Options /\ y["num_streams"] = v /\ y.role = s.role /\ y.protocol = s.protocol
        /\ \A k \in Numeric : k # "num_streams" => y[k] = s[k]
    BY <2>1, <2>2 DEF Options, Numeric
  <2>. QED BY <2>3 DEF v, y
<1>5. q1 \in Seq(Params) /\ Over(x(q0), x(q1), "reverse", t.reverse)
  <2>. HIDE DEF q0
  <2>. QED BY <1>1, <1>2, MemberIs, GivenOver DEF Numeric
<1>6. q2 \in Seq(Params) /\ Over(x(q1), x(q2), "socket_bufsize", t.socket_bufsize)
  <2>. HIDE DEF q1
  <2>. QED BY <1>1, <1>5, MemberIs, GivenOver DEF Numeric
<1>7. q3 \in Seq(Params) /\ Over(x(q2), x(q3), "rate", t.rate)
  <2>. HIDE DEF q2
  <2>. QED BY <1>1, <1>6, MemberIs, GivenOver DEF Numeric
<1>8. q4 \in Seq(Params) /\ Over(x(q3), x(q4), "mss", t.mss)
  <2>. HIDE DEF q3
  <2>. QED BY <1>1, <1>7, MemberIs, GivenOver DEF Numeric
<1>9. q5 \in Seq(Params) /\ Over(x(q4), x(q5), "no_delay", t.no_delay)
  <2>. HIDE DEF q4
  <2>. QED BY <1>1, <1>8, MemberIs, GivenOver DEF Numeric
<1>10. q6 \in Seq(Params) /\ Over(x(q5), x(q6), "bytes", t.bytes)
  <2>. HIDE DEF q5
  <2>. QED BY <1>1, <1>9, MemberIs, GivenOver DEF Numeric
<1>11. q7 \in Seq(Params) /\ Over(x(q6), x(q7), "duration", t.duration)
  <2>. HIDE DEF q6
  <2>. QED BY <1>1, <1>10, MemberIs, GivenOver DEF Numeric
<1>12. q8 \in Seq(Params) /\ Over(x(q7), x(q8), "blksize", t.blksize)
  <2>. HIDE DEF q7
  <2>. QED BY <1>1, <1>11, MemberIs, GivenOver DEF Numeric
<1>13. q9 \in Seq(Params) /\ Over(x(q8), x(q9), "tos", t.tos)
  <2>. HIDE DEF q8
  <2>. QED BY <1>1, <1>12, MemberIs, GivenOver DEF Numeric
<1>14. parse_parameters(s, package_parameters(t)) = x(q9)
  <2>1. package_parameters(t) = <<e>> \o q9
    BY DEF package_parameters
  <2>. HIDE DEF e, q9
  <2>2. Tail(<<e>> \o q9) = q9
    BY <1>2, <1>13, TailOfCons
  <2>. QED BY <2>1, <2>2 DEF parse_parameters, Understood
<1>. HIDE DEF q0, q1, q2, q3, q4, q5, q6, q7, q8, q9, x
<1>15. /\ x(q9) \in Options /\ x(q9).role = s.role /\ x(q9).protocol = s.protocol
       /\ x(q9).num_streams = t.num_streams
  BY <1>4, <1>5, <1>6, <1>7, <1>8, <1>9, <1>10, <1>11, <1>12, <1>13 DEF Over, Numeric
<1>16. \A m \in Told : x(q9)[m] = IF t[m] = 0 THEN s[m] ELSE t[m]
  BY <1>4, <1>5, <1>6, <1>7, <1>8, <1>9, <1>10, <1>11, <1>12, <1>13 DEF Over, Numeric, Told
<1>. QED BY <1>14, <1>15, <1>16
-----------------------------------------------------------------------------
\* What the command line may leave behind.
Within == {o \in Options : o.num_streams <= MAX_STREAMS}
Errors == {"IENONE", "IESERVCLIENT", "IECLIENTONLY", "usage", "IENOROLE", "IEDURATION",
           "IENUMSTREAMS", "IEBLOCKSIZE", "IEBUFSIZE", "IEINTERVAL", "IEMSS"}
Commands == [test : Within, ret : {"more", "ok", "error"}, err : Errors]

LEMMA WithinMember ==
  ASSUME NEW t \in Within, NEW m \in Numeric, NEW v \in Nat, m = "num_streams" => v <= MAX_STREAMS,
         NEW u, u = [t EXCEPT ![m] = v]
  PROVE  u \in Within
<1>1. t \in Options /\ t.num_streams <= MAX_STREAMS
  BY DEF Within
<1>2. u \in Options
  BY <1>1, SetMember
<1>3. u.num_streams = IF m = "num_streams" THEN v ELSE t.num_streams
  BY <1>1 DEF Options
<1>. QED BY <1>1, <1>2, <1>3 DEF Within

LEMMA WithinOptions ==
  ASSUME NEW t \in Within
  PROVE  /\ t \in Options
         /\ [t EXCEPT !.role = "c"] \in Within /\ [t EXCEPT !.role = "s"] \in Within
         /\ [t EXCEPT !.domain = "inet6"] \in Within
         /\ [t EXCEPT !.protocol = "udp", !.blksize = DEFAULT_UDP_BLKSIZE] \in Within
<1>1. t \in Options /\ t.num_streams <= MAX_STREAMS
  BY DEF Within
<1>2. [t EXCEPT !.role = "c"] \in Within
  BY <1>1 DEF Within, Options
<1>3. [t EXCEPT !.role = "s"] \in Within
  BY <1>1 DEF Within, Options
<1>4. [t EXCEPT !.domain = "inet6"] \in Within
  BY <1>1 DEF Within, Options
<1>5. [t EXCEPT !.protocol = "udp", !.blksize = DEFAULT_UDP_BLKSIZE] \in Within
  <2>. DEFINE u == [t EXCEPT !.protocol = "udp"]
  <2>1. u \in Within
    BY <1>1 DEF Within, Options
  <2>2. [t EXCEPT !.protocol = "udp", !.blksize = DEFAULT_UDP_BLKSIZE]
          = [u EXCEPT !["blksize"] = DEFAULT_UDP_BLKSIZE]
    BY DEF DEFAULT_UDP_BLKSIZE
  <2>3. "blksize" \in Numeric /\ "blksize" # "num_streams" /\ DEFAULT_UDP_BLKSIZE \in Nat
    BY DEF Numeric, DEFAULT_UDP_BLKSIZE
  <2>. DEFINE w == [u EXCEPT !["blksize"] = DEFAULT_UDP_BLKSIZE]
              v == DEFAULT_UDP_BLKSIZE
              m == "blksize"
  <2>4. w = [u EXCEPT ![m] = v] /\ m \in Numeric /\ m # "num_streams" /\ v \in Nat
    BY <2>3
  <2>. HIDE DEF w, u, v, m
  <2>5. w \in Within
    BY <2>1, <2>4, WithinMember
  <2>. QED BY <2>2, <2>5 DEF w
<1>. QED BY <1>1, <1>2, <1>3, <1>4, <1>5

LEMMA UnitNat == ASSUME NEW o \in Word PROVE unit_atof(o) \in Nat /\ unit_atoi(o) \in Nat
<1>1. Multiplier(o.unit) \in Nat
  BY DEF Multiplier
<1>2. \A a \in Nat, b \in Nat : a * b \in Nat
  OBVIOUS
<1>3. o.n \in Nat
  BY DEF Word
<1>. QED BY <1>1, <1>2, <1>3 DEF unit_atof, unit_atoi

LEMMA LimitIs ==
  /\ DOMAIN Limit = {"t", "P", "l", "w", "i", "M"} /\ Limit["P"] = MAX_STREAMS
  /\ \A l \in DOMAIN Limit : TooLarge[l] \in Errors
<1>1. DOMAIN Limit = {"t", "P", "l", "w", "i", "M"} /\ Limit["P"] = MAX_STREAMS
  BY DEF Limit
<1>2. \A l \in {"t", "P", "l", "w", "i", "M"} : TooLarge[l] \in Errors
  BY DEF TooLarge, Errors
<1>. QED BY <1>1, <1>2

\* One option of the command line.
LEMMA OptionType ==
  ASSUME NEW r \in Commands, NEW o \in Word
  PROVE  ParseOption(r, o) \in Commands
<1>. DEFINE value == CASE o.opt \in {"b", "w"} -> unit_atof(o)
                       [] o.opt \in {"l", "n"} -> unit_atoi(o)
                       [] OTHER -> o.n
            Error(e) == [r EXCEPT !.ret = "error", !.err = e]
<1>1. value \in Nat
  <2>1. o.n \in Nat
    BY DEF Word
  <2>. QED BY <2>1, UnitNat
<1>2. \A e \in Errors : Error(e) \in Commands
  BY DEF Commands
<1>3. r.test \in Within
  BY DEF Commands
<1>4. \A t \in Within : [r EXCEPT !.test = t] \in Commands
  BY DEF Commands
<1>5. \A t \in Within : [r EXCEPT !.ret = "ok", !.test = t] \in Commands
  BY DEF Commands
<1>6. [r EXCEPT !.ret = "ok", !.test.role = "c"] \in Commands
  <2>1. [r.test EXCEPT !.role = "c"] \in Within
    BY <1>3, WithinOptions
  <2>2. [r EXCEPT !.ret = "ok", !.test.role = "c"]
          = [r EXCEPT !.ret = "ok", !.test = [r.test EXCEPT !.role = "c"]]
    BY DEF Commands
  <2>. QED BY <1>5, <2>1, <2>2
<1>7. [r EXCEPT !.test.role = "s"] \in Commands
  <2>1. [r.test EXCEPT !.role = "s"] \in Within
    BY <1>3, WithinOptions
  <2>2. [r EXCEPT !.test.role = "s"] = [r EXCEPT !.test = [r.test EXCEPT !.role = "s"]]
    OBVIOUS
  <2>. QED BY <1>4, <2>1, <2>2
<1>8. [r EXCEPT !.test.domain = "inet6"] \in Commands
  <2>1. [r.test EXCEPT !.domain = "inet6"] \in Within
    BY <1>3, WithinOptions
  <2>2. [r EXCEPT !.test.domain = "inet6"] = [r EXCEPT !.test = [r.test EXCEPT !.domain = "inet6"]]
    OBVIOUS
  <2>. QED BY <1>4, <2>1, <2>2
<1>9. [r EXCEPT !.test.protocol = "udp", !.test.blksize = DEFAULT_UDP_BLKSIZE] \in Commands
  <2>1. [r.test EXCEPT !.protocol = "udp", !.blksize = DEFAULT_UDP_BLKSIZE] \in Within
    BY <1>3, WithinOptions
  <2>2. [r EXCEPT !.test.protocol = "udp", !.test.blksize = DEFAULT_UDP_BLKSIZE]
          = [r EXCEPT !.test = [r.test EXCEPT !.protocol = "udp", !.blksize = DEFAULT_UDP_BLKSIZE]]
    BY DEF Commands
  <2>. QED BY <1>4, <2>1, <2>2
<1>10. ASSUME o.opt \in DOMAIN Member, ~(o.opt \in DOMAIN Limit /\ value > Limit[o.opt])
       PROVE  [r EXCEPT !.test[Member[o.opt]] = value] \in Commands
  <2>. DEFINE m == Member[o.opt]
              u == [r.test EXCEPT ![m] = value]
  <2>1. m \in Numeric /\ (m = "num_streams" => o.opt = "P")
    BY <1>10, MemberIs
  <2>2. m = "num_streams" => value <= MAX_STREAMS
    <3>. HIDE DEF value
    <3>1. MAX_STREAMS \in Nat
      BY DEF MAX_STREAMS
    <3>. QED BY <1>1, <1>10, <2>1, <3>1, LimitIs
  <2>3. [r EXCEPT !.test[Member[o.opt]] = value] = [r EXCEPT !.test = u]
    <3>. HIDE DEF value
    <3>. QED OBVIOUS
  <2>4. u \in Within
    <3>1. u = [r.test EXCEPT ![m] = value]
      OBVIOUS
    <3>. HIDE DEF value, m, u
    <3>. QED BY <1>1, <1>3, <2>1, <2>2, <3>1, WithinMember
  <2>. HIDE DEF u, value
  <2>. QED BY <1>4, <2>3, <2>4
<1>. HIDE DEF value
<1>11. \/ ParseOption(r, o) \in {r, Error("IESERVCLIENT"), Error("IECLIENTONLY"), Error("usage")}
       \/ ParseOption(r, o) = [r EXCEPT !.ret = "ok", !.test.role = "c"]
       \/ ParseOption(r, o) = [r EXCEPT !.test.role = "s"]
       \/ o.opt \in DOMAIN Limit /\ ParseOption(r, o) = Error(TooLarge[o.opt])
       \/ /\ o.opt \in DOMAIN Member /\ ~(o.opt \in DOMAIN Limit /\ value > Limit[o.opt])
          /\ ParseOption(r, o) = [r EXCEPT !.test[Member[o.opt]] = value]
       \/ ParseOption(r, o)
            = [r EXCEPT !.test.protocol = "udp", !.test.blksize = DEFAULT_UDP_BLKSIZE]
       \/ ParseOption(r, o) = [r EXCEPT !.test.domain = "inet6"]
  BY Zenon DEF ParseOption, value
<1>12. {"IESERVCLIENT", "IECLIENTONLY", "usage"} \subseteq Errors
  BY DEF Errors
<1>13. r \in Commands
  OBVIOUS
<1>. HIDE DEF Error
<1>. QED BY <1>2, <1>6, <1>7, <1>8, <1>9, <1>10, <1>11, <1>12, <1>13, LimitIs, Zenon

StartOfLine == [test |-> iperf_defaults, ret |-> "more", err |-> "IENONE"]
Read(args) == FoldLeft(ParseOption, StartOfLine, args)

\* The command line, option by option.
Reads(p, args) ==
  /\ p \in [0 .. Len(args) -> Commands] /\ p[0] = StartOfLine
  /\ \A k \in 1 .. Len(args) : p[k] = ParseOption(p[k - 1], args[k])
  /\ p[Len(args)] = Read(args)

LEMMA CommandSteps ==
  ASSUME NEW args \in Seq(Word)
  PROVE  \E p : Reads(p, args)
<1>. DEFINE n == Len(args)
            base == StartOfLine
            step == [r \in Commands |-> [i \in 1 .. n |-> ParseOption(r, args[i])]]
            Eq(it) == it = [S \in SUBSET (DOMAIN args) |->
                              IF S = {} THEN base
                              ELSE ParseOption(it[S \ {Max(S)}], args[Max(S)])]
            it == CHOOSE x : Eq(x)
            p == [k \in 0 .. n |-> it[1 .. k]]
<1>1. n \in Nat /\ DOMAIN args = 1 .. n
  OBVIOUS
<1>2. step \in [Commands -> [1 .. n -> Commands]]
  <2>1. \A r \in Commands, i \in 1 .. n : ParseOption(r, args[i]) \in Commands
    BY ElementOfSeq, OptionType
  <2>. QED BY <2>1
<1>3. base \in Commands
  <2>1. iperf_defaults \in Options /\ iperf_defaults.num_streams = 1
    BY DEF Options, iperf_defaults
  <2>. QED BY <2>1 DEF StartOfLine, Commands, Within, MAX_STREAMS, Errors
<1>4. PICK g : FoldsTo(g, n, Commands, step, base)
  <2>. HIDE DEF step, n, base
  <2>. QED BY <1>1, <1>2, <1>3, FoldExists
<1>5. Eq(g)
  <2>1. ASSUME NEW S \in SUBSET (1 .. n)
        PROVE  g[S] = IF S = {} THEN base ELSE ParseOption(g[S \ {Max(S)}], args[Max(S)])
    <3>1. CASE S = {}
      BY <1>4, <3>1 DEF Value, FoldsTo
    <3>2. CASE S # {}
      <4>1. Max(S) \in 1 .. n /\ S \ {Max(S)} \in SUBSET (1 .. n)
        BY <1>1, <3>2, MaxIn
      <4>2. g[S] = step[g[S \ {Max(S)}]][Max(S)] /\ g[S \ {Max(S)}] \in Commands
        BY <1>4, <3>2, <4>1 DEF Value, FoldsTo
      <4>. QED BY <3>2, <4>1, <4>2
    <3>. QED BY <3>1, <3>2
  <2>. QED BY <1>1, <1>4, <2>1 DEF FoldsTo
<1>6. Eq(it)
  <2>. HIDE DEF Eq
  <2>. QED BY <1>5, Zenon
<1>7. Read(args) = it[DOMAIN args]
  BY Zenon DEF Read, StartOfLine, FoldLeft, MapThenFoldSet
<1>8. p[0] = base /\ \A k \in 1 .. n : p[k] = ParseOption(p[k - 1], args[k])
  <2>. HIDE DEF it
  <2>1. 1 .. 0 = {}
    OBVIOUS
  <2>2. it[{}] = base
    BY <1>1, <1>6
  <2>3. ASSUME NEW k \in 1 .. n PROVE it[1 .. k] = ParseOption(it[1 .. (k - 1)], args[k])
    <3>1. /\ 1 .. k \in SUBSET (1 .. n) /\ 1 .. k # {} /\ Max(1 .. k) = k
          /\ (1 .. k) \ {k} = 1 .. (k - 1)
      BY <1>1, LastPlace
    <3>2. it[1 .. k] = ParseOption(it[(1 .. k) \ {Max(1 .. k)}], args[Max(1 .. k)])
      BY <1>1, <1>6, <3>1
    <3>. QED BY <3>1, <3>2
  <2>. QED BY <1>1, <2>1, <2>2, <2>3
<1>9. p \in [0 .. n -> Commands]
  <2>. DEFINE T == {j \in Nat : p[j] \in Commands}
  <2>1. 0 \in T
    BY <1>3, <1>8
  <2>2. ASSUME NEW k \in 1 .. n, k - 1 \in T PROVE k \in T
    <3>1. p[k - 1] \in Commands /\ p[k] = ParseOption(p[k - 1], args[k]) /\ args[k] \in Word
      BY <1>8, <2>2, ElementOfSeq
    <3>. HIDE DEF p
    <3>2. p[k] \in Commands
      BY <3>1, ElementOfSeq, OptionType
    <3>. QED BY <3>2
  <2>3. \A k \in 0 .. n : k \in T
    <3>. HIDE DEF T
    <3>. QED BY <1>1, <2>1, <2>2, UpTo
  <2>. QED BY <2>3 DEF p
<1>10. p[n] = Read(args)
  BY <1>1, <1>7
<1>. HIDE DEF p
<1>. QED BY <1>1, <1>8, <1>9, <1>10 DEF Reads

\* What main_launch gets: options that keep the limit of the streams.
LEMMA ParsedWithin ==
  ASSUME NEW args \in Seq(Word)
  PROVE  iperf_parse_arguments(args).test \in Within
<1>1. PICK p : Reads(p, args)
  BY CommandSteps
<1>. DEFINE r == Read(args)
<1>2. r \in Commands
  BY <1>1, LenProperties DEF Reads
<1>3. r = FoldLeft(ParseOption, [test |-> iperf_defaults, ret |-> "more", err |-> "IENONE"], args)
  BY DEF Read, StartOfLine
<1>. HIDE DEF r
<1>4. iperf_parse_arguments(args) =
        IF r.ret # "more" THEN r
        ELSE IF ~CharIsSigned THEN [r EXCEPT !.ret = "error", !.err = "usage"]
        ELSE IF r.test.role = "none" THEN [r EXCEPT !.ret = "error", !.err = "IENOROLE"]
        ELSE [r EXCEPT !.ret = "ok"]
  BY <1>3 DEF iperf_parse_arguments
<1>5. iperf_parse_arguments(args).test = r.test
  BY <1>2, <1>4 DEF Commands
<1>. QED BY <1>2, <1>5 DEF Commands

-----------------------------------------------------------------------------
\* The streams of a test that has just begun: numbered, and nothing counted.
Blank(sp) ==
  /\ sp.bytes_sent = 0 /\ sp.bytes_received = 0
  /\ sp.start_time = 0 /\ sp.end_time = 0

LEMMA OpenType ==
  ASSUME NEW list \in Seq(Stream), NEW s \in Int
  PROVE  iperf_add_stream(list, iperf_new_stream(s)) \in Seq(Stream)
BY NewStreamType, AddStream

OpenedOver(list, q) == FoldLeft(LAMBDA l, s : iperf_add_stream(l, iperf_new_stream(s)), list, q)

\* The list after each of them.
Opens(p, list, q) ==
  /\ p \in [0 .. Len(q) -> Seq(Stream)] /\ p[0] = list
  /\ \A k \in 1 .. Len(q) : p[k] = iperf_add_stream(p[k - 1], iperf_new_stream(q[k]))
  /\ p[Len(q)] = OpenedOver(list, q)

LEMMA OpenSteps ==
  ASSUME NEW list \in Seq(Stream), NEW q \in Seq(Int)
  PROVE  \E p : Opens(p, list, q)
<1>. DEFINE n == Len(q)
            base == list
            step == [r \in Seq(Stream) |-> [i \in 1 .. n |-> iperf_add_stream(r, iperf_new_stream(q[i]))]]
            Eq(it) == it = [S \in SUBSET (DOMAIN q) |->
                              IF S = {} THEN base
                              ELSE iperf_add_stream(it[S \ {Max(S)}], iperf_new_stream(q[Max(S)]))]
            it == CHOOSE x : Eq(x)
            p == [k \in 0 .. n |-> it[1 .. k]]
<1>1. n \in Nat /\ DOMAIN q = 1 .. n
  OBVIOUS
<1>2. step \in [Seq(Stream) -> [1 .. n -> Seq(Stream)]]
  <2>1. \A r \in Seq(Stream), i \in 1 .. n : iperf_add_stream(r, iperf_new_stream(q[i])) \in Seq(Stream)
    BY ElementOfSeq, OpenType
  <2>. QED BY <2>1
<1>3. base \in Seq(Stream)
  OBVIOUS
<1>4. PICK g : FoldsTo(g, n, Seq(Stream), step, base)
  <2>. HIDE DEF step, n, base
  <2>. QED BY <1>1, <1>2, <1>3, FoldExists
<1>5. Eq(g)
  <2>1. ASSUME NEW S \in SUBSET (1 .. n)
        PROVE  g[S] = IF S = {} THEN base ELSE iperf_add_stream(g[S \ {Max(S)}], iperf_new_stream(q[Max(S)]))
    <3>1. CASE S = {}
      BY <1>4, <3>1 DEF Value, FoldsTo
    <3>2. CASE S # {}
      <4>1. Max(S) \in 1 .. n /\ S \ {Max(S)} \in SUBSET (1 .. n)
        BY <1>1, <3>2, MaxIn
      <4>2. g[S] = step[g[S \ {Max(S)}]][Max(S)] /\ g[S \ {Max(S)}] \in Seq(Stream)
        BY <1>4, <3>2, <4>1 DEF Value, FoldsTo
      <4>. QED BY <3>2, <4>1, <4>2
    <3>. QED BY <3>1, <3>2
  <2>. QED BY <1>1, <1>4, <2>1 DEF FoldsTo
<1>6. Eq(it)
  <2>. HIDE DEF Eq
  <2>. QED BY <1>5, Zenon
<1>7. OpenedOver(list, q) = it[DOMAIN q]
  BY Zenon DEF OpenedOver, FoldLeft, MapThenFoldSet
<1>8. p[0] = base /\ \A k \in 1 .. n : p[k] = iperf_add_stream(p[k - 1], iperf_new_stream(q[k]))
  <2>. HIDE DEF it
  <2>1. 1 .. 0 = {}
    OBVIOUS
  <2>2. it[{}] = base
    BY <1>1, <1>6
  <2>3. ASSUME NEW k \in 1 .. n PROVE it[1 .. k] = iperf_add_stream(it[1 .. (k - 1)], iperf_new_stream(q[k]))
    <3>1. /\ 1 .. k \in SUBSET (1 .. n) /\ 1 .. k # {} /\ Max(1 .. k) = k
          /\ (1 .. k) \ {k} = 1 .. (k - 1)
      BY <1>1, LastPlace
    <3>2. it[1 .. k] = iperf_add_stream(it[(1 .. k) \ {Max(1 .. k)}], iperf_new_stream(q[Max(1 .. k)]))
      BY <1>1, <1>6, <3>1
    <3>. QED BY <3>1, <3>2
  <2>. QED BY <1>1, <2>1, <2>2, <2>3
<1>9. p \in [0 .. n -> Seq(Stream)]
  <2>. DEFINE T == {j \in Nat : p[j] \in Seq(Stream)}
  <2>1. 0 \in T
    BY <1>3, <1>8
  <2>2. ASSUME NEW k \in 1 .. n, k - 1 \in T PROVE k \in T
    <3>1. p[k - 1] \in Seq(Stream) /\ p[k] = iperf_add_stream(p[k - 1], iperf_new_stream(q[k])) /\ q[k] \in Int
      BY <1>8, <2>2, ElementOfSeq
    <3>. HIDE DEF p
    <3>2. p[k] \in Seq(Stream)
      BY <3>1, ElementOfSeq, OpenType
    <3>. QED BY <3>2
  <2>3. \A k \in 0 .. n : k \in T
    <3>. HIDE DEF T
    <3>. QED BY <1>1, <2>1, <2>2, UpTo
  <2>. QED BY <2>3 DEF p
<1>10. p[n] = OpenedOver(list, q)
  BY <1>1, <1>7
<1>. HIDE DEF p
<1>. QED BY <1>1, <1>8, <1>9, <1>10 DEF Opens

\* iperf_create_streams, as far as stream k.
LEMMA NewStreamsAre ==
  ASSUME NEW k \in Nat
  PROVE  LET new == OpenedOver(<<>>, [s \in 1 .. k |-> s])
         IN /\ new \in Seq(Stream) /\ Len(new) = k /\ Numbered(new)
            /\ \A i \in 1 .. k : Blank(new[i])
<1>. DEFINE q == [s \in 1 .. k |-> s]
            OK(r, n) == /\ r \in Seq(Stream) /\ Len(r) = n /\ Numbered(r)
                        /\ \A i \in 1 .. n : Blank(r[i])
<1>1. q \in Seq(Int) /\ Len(q) = k /\ (\A i \in 1 .. k : q[i] = i) /\ <<>> \in Seq(Stream)
  OBVIOUS
<1>2. PICK p : Opens(p, <<>>, q)
  BY <1>1, OpenSteps
<1>. HIDE DEF q
<1>. DEFINE T == {n \in Nat : OK(p[n], n)}
<1>3. 0 \in T
  BY <1>1, <1>2 DEF Opens, Numbered
<1>4. ASSUME NEW n \in 1 .. k, n - 1 \in T PROVE n \in T
  <2>. DEFINE r == p[n - 1]
              sp == iperf_new_stream(n)
  <2>1. OK(r, n - 1) /\ p[n] = iperf_add_stream(r, sp) /\ n \in Nat /\ (n - 1) + 1 = n
    BY <1>1, <1>2, <1>4 DEF Opens
  <2>2. sp \in Stream /\ Blank(sp)
    BY NewStreamType DEF Blank, iperf_new_stream
  <2>. HIDE DEF r, sp
  <2>3. /\ p[n] \in Seq(Stream) /\ Len(p[n]) = n /\ \A i \in 1 .. n - 1 : p[n][i] = r[i]
        /\ Totals(sp, p[n][n]) /\ Times(sp, p[n][n])
    <3>. DEFINE t == p[n]
    <3>1. t = iperf_add_stream(r, sp) /\ Len(r) + 1 = n /\ Len(r) = n - 1 /\ r \in Seq(Stream)
      BY <2>1
    <3>. HIDE DEF t
    <3>2. t \in Seq(Stream) /\ Len(t) = Len(r) + 1 /\ \A i \in 1 .. Len(r) : t[i] = r[i]
      BY <2>2, <3>1, AddStream
    <3>3. Totals(sp, t[Len(r) + 1]) /\ Times(sp, t[Len(r) + 1])
      BY <2>2, <3>1, AddStream
    <3>. QED BY <3>1, <3>2, <3>3 DEF t
  <2>4. Numbered(p[n])
    BY <2>1, <2>2, AddNumbered
  <2>5. ASSUME NEW i \in 1 .. n PROVE Blank(p[n][i])
    <3>1. CASE i = n
      BY <2>2, <2>3, <3>1 DEF Blank, Totals, Times
    <3>2. CASE i # n
      <4>1. i \in 1 .. n - 1
        BY <2>1, <3>2
      <4>. QED BY <2>1, <2>3, <4>1
    <3>. QED BY <3>1, <3>2
  <2>. QED BY <2>1, <2>3, <2>4, <2>5
<1>5. \A n \in 0 .. k : n \in T
  <2>. HIDE DEF T
  <2>. QED BY <1>3, <1>4, UpTo
<1>6. OK(p[k], k) /\ p[k] = OpenedOver(<<>>, q)
  <2>1. p[k] = OpenedOver(<<>>, q)
    BY <1>1, <1>2 DEF Opens
  <2>2. k \in 0 .. k
    OBVIOUS
  <2>. QED BY <1>5, <2>1, <2>2
<1>. QED BY <1>6 DEF q

=============================================================================
