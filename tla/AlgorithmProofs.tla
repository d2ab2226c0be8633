--------------------------- MODULE AlgorithmProofs ---------------------------
(***************************************************************************)
(* Proofs about versions, conditions, dates, rules that are newer than the *)
(* build, the warnings of skipped rollouts, the reconnect backoff, the     *)
(* walk over the weights of a rollout and the spelling of numbers, for     *)
(* operands of any number and size.                                        *)
(***************************************************************************)
EXTENDS Algorithms, FiniteSetTheorems, SequenceTheorems, TLAPS, WellFoundedInduction

-----------------------------------------------------------------------------
(* Semantic versions are totally ordered, whatever their length.           *)

Signs == {-1, 0, 1}

\* How the signs of x to y, y to z and x to z hang together in an order.
Chained(xy, yz, xz) ==
    /\ xy = 0 /\ yz = 0 => xz = 0
    /\ xy <= 0 /\ yz <= 0 /\ (xy < 0 \/ yz < 0) => xz < 0

-----------------------------------------------------------------------------
(* Induction over sets of numbers, and what is defined by recursion.       *)

\* What holds at 0, and one further up to N, holds up to N.
LEMMA NumbersUpTo ==
    ASSUME NEW N \in Nat, NEW T, 0 \in T,
           \A n \in Nat : n < N /\ n \in T => n + 1 \in T
    PROVE  0 .. N \subseteq T
<1> DEFINE missing == {n \in 0 .. N : n \notin T}
<1>1. SUFFICES ASSUME missing # {} PROVE FALSE
  OBVIOUS
<1>2. PICK n \in missing : \A m \in missing : ~(<<m, n>> \in OpToRel(<, Nat))
  <2>1. missing \subseteq Nat
    OBVIOUS
  <2> HIDE DEF missing
  <2>2. QED
    BY <1>1, <2>1, NatLessThanWellFounded, WFMin
<1>3. n # 0 /\ n \in 0 .. N /\ n \notin T
  OBVIOUS
<1>4. n - 1 \in Nat /\ n - 1 < N /\ n - 1 \in 0 .. N /\ n - 1 < n
  BY <1>3
<1>5. n - 1 \in T
  <2>1. missing \subseteq Nat
    OBVIOUS
  <2>2. n - 1 \notin missing
    <3> HIDE DEF missing
    <3>1. \A m \in missing : ~(m < n)
      BY <1>2, <2>1 DEF OpToRel
    <3>2. QED
      BY <1>4, <3>1
  <2>3. QED
    BY <1>4, <2>2
<1>6. QED
  BY <1>3, <1>4, <1>5

\* A function defined by recursion over 0 .. N exists.
Recurses(g, N, S, start, next) ==
    /\ g \in [0 .. N -> S]
    /\ g[0] = start
    /\ \A i \in 1 .. N : g[i] = next[<<i, g[i - 1]>>]

LEMMA RecursionExists ==
    ASSUME NEW N \in Nat, NEW S, NEW start \in S, NEW next \in [(1 .. N) \X S -> S]
    PROVE  \E g : Recurses(g, N, S, start, next)
<1> DEFINE Solves(g, n) ==
             g = [i \in 0 .. n |-> IF i = 0 THEN start ELSE next[<<i, g[i - 1]>>]]
           T == {n \in 0 .. N : \E g \in [0 .. n -> S] : Solves(g, n)}
<1>1. 0 \in T
  <2> DEFINE h == [i \in 0 .. 0 |-> start]
  <2>1. h \in [0 .. 0 -> S] /\ Solves(h, 0)
    OBVIOUS
  <2> HIDE DEF Solves, h
  <2>2. QED
    BY <2>1
<1>2. ASSUME NEW n \in Nat, n < N, n \in T PROVE n + 1 \in T
  <2>1. PICK g \in [0 .. n -> S] : Solves(g, n)
    BY <1>2
  <2> DEFINE h == [i \in 0 .. n + 1 |-> IF i = n + 1 THEN next[<<n + 1, g[n]>>] ELSE g[i]]
  <2>2. g[n] \in S /\ n + 1 \in 1 .. N
    BY <1>2, <2>1
  <2>3. h \in [0 .. n + 1 -> S]
    BY <2>1, <2>2
  <2>4. ASSUME NEW i \in 0 .. n + 1
        PROVE  h[i] = IF i = 0 THEN start ELSE next[<<i, h[i - 1]>>]
    <3>1. CASE i = n + 1
      <4>1. i - 1 = n /\ n \in 0 .. n + 1 /\ n # n + 1 /\ i # 0
        BY <3>1
      <4>2. h[i - 1] = g[n] /\ h[i] = next[<<n + 1, g[n]>>]
        BY <3>1, <4>1
      <4>3. QED
        BY <3>1, <4>1, <4>2
    <3>2. CASE i # n + 1
      <4>1. i \in 0 .. n /\ h[i] = g[i]
        BY <3>2
      <4>2. g[i] = IF i = 0 THEN start ELSE next[<<i, g[i - 1]>>]
        BY <2>1, <4>1
      <4>3. CASE i = 0
        BY <4>1, <4>2, <4>3
      <4>4. CASE i # 0
        <5>1. i - 1 \in 0 .. n + 1 /\ i - 1 # n + 1
          BY <4>1, <4>4
        <5>2. QED
          BY <4>1, <4>2, <5>1
      <4>5. QED
        BY <4>3, <4>4
    <3>3. QED
      BY <3>1, <3>2
  <2>5. h = [i \in 0 .. n + 1 |-> h[i]]
    OBVIOUS
  <2> HIDE DEF h
  <2>6. Solves(h, n + 1)
    BY <2>4, <2>5
  <2>7. n + 1 \in 0 .. N
    BY <2>2
  <2> HIDE DEF Solves
  <2>8. QED
    BY <2>3, <2>6, <2>7
<1> HIDE DEF T
<1>3. 0 .. N \subseteq T
  BY <1>1, <1>2, NumbersUpTo
<1>4. PICK g \in [0 .. N -> S] : Solves(g, N)
  <2>1. N \in T
    BY <1>3
  <2>2. QED
    BY <2>1 DEF T
<1>5. g[0] = start
  BY <1>4
<1>6. ASSUME NEW i \in 1 .. N PROVE g[i] = next[<<i, g[i - 1]>>]
  BY <1>4
<1>7. Recurses(g, N, S, start, next)
  BY <1>4, <1>5, <1>6 DEF Recurses
<1>8. QED
  BY <1>7

-----------------------------------------------------------------------------
(* The first place at which two things differ.                             *)

\* There is a first one if there is any.
LEMMA FirstExists ==
    ASSUME NEW n \in Nat, NEW s, NEW k \in 1 .. n, s[k] # 0
    PROVE  \E i \in 1 .. n : s[i] # 0 /\ \A j \in 1 .. i - 1 : s[j] = 0
<1> DEFINE T == {i \in 1 .. n : s[i] # 0}
<1>1. T \subseteq Nat /\ k \in T
  OBVIOUS
<1>2. PICK i \in T : \A j \in T : ~(<<j, i>> \in OpToRel(<, Nat))
  BY <1>1, NatLessThanWellFounded, WFMin
<1>3. \A j \in T : ~(j < i)
  BY <1>1, <1>2 DEF OpToRel
<1>4. \A j \in 1 .. i - 1 : j \in 1 .. n /\ j < i
  BY <1>1
<1>5. QED
  BY <1>3, <1>4

LEMMA FirstDifferenceIs ==
    ASSUME NEW n \in Nat, NEW s \in [1 .. n -> Signs], NEW b
    PROVE  \/ (\A i \in 1 .. n : s[i] = 0) /\ FirstDifference(s, b) = b
           \/ \E i \in 1 .. n : /\ s[i] # 0 /\ \A j \in 1 .. i - 1 : s[j] = 0
                                /\ FirstDifference(s, b) = s[i]
<1>1. CASE \A i \in 1 .. n : s[i] = 0
  BY <1>1 DEF FirstDifference
<1>2. CASE ~(\A i \in 1 .. n : s[i] = 0)
  <2> DEFINE f == CHOOSE i \in 1 .. n : s[i] # 0 /\ \A j \in 1 .. i - 1 : s[j] = 0
  <2>1. \E i \in 1 .. n : s[i] # 0 /\ \A j \in 1 .. i - 1 : s[j] = 0
    BY <1>2, FirstExists
  <2>2. f \in 1 .. n /\ s[f] # 0 /\ \A j \in 1 .. f - 1 : s[j] = 0
    BY <2>1
  <2>3. FirstDifference(s, b) = s[f]
    BY <1>2 DEF FirstDifference
  <2> HIDE DEF f
  <2>4. QED
    BY <2>2, <2>3
<1>3. QED
  BY <1>1, <1>2

LEMMA FirstDifferenceAt ==
    ASSUME NEW n \in Nat, NEW s \in [1 .. n -> Signs], NEW b, NEW i \in 1 .. n,
           s[i] # 0, \A j \in 1 .. i - 1 : s[j] = 0
    PROVE  FirstDifference(s, b) = s[i]
<1>1. PICK k \in 1 .. n : /\ s[k] # 0 /\ \A j \in 1 .. k - 1 : s[j] = 0
                          /\ FirstDifference(s, b) = s[k]
  BY FirstDifferenceIs
<1>2. ~(k < i) /\ ~(i < k)
  <2>1. k < i => k \in 1 .. i - 1
    OBVIOUS
  <2>2. i < k => i \in 1 .. k - 1
    OBVIOUS
  <2>3. QED
    BY <1>1, <2>1, <2>2
<1>3. QED
  BY <1>1, <1>2

LEMMA FirstDifferenceNone ==
    ASSUME NEW n \in Nat, NEW s \in [1 .. n -> Signs], NEW b, \A i \in 1 .. n : s[i] = 0
    PROVE  FirstDifference(s, b) = b
BY FirstDifferenceIs

LEMMA FirstDifferenceType ==
    ASSUME NEW n \in Nat, NEW s \in [1 .. n -> Signs], NEW b \in Signs
    PROVE  FirstDifference(s, b) \in Signs
BY FirstDifferenceIs

\* The signs of the two directions are opposite.
LEMMA FirstDifferenceOpposite ==
    ASSUME NEW n \in Nat, NEW s \in [1 .. n -> Signs], NEW t \in [1 .. n -> Signs],
           \A i \in 1 .. n : t[i] = -s[i], NEW b \in Signs, NEW c \in Signs, b + c = 0
    PROVE  FirstDifference(t, c) = -FirstDifference(s, b)
<1>1. CASE \A i \in 1 .. n : s[i] = 0
  <2>1. \A i \in 1 .. n : t[i] = 0
    BY <1>1
  <2>2. FirstDifference(t, c) = c /\ FirstDifference(s, b) = b
    BY <1>1, <2>1, FirstDifferenceNone
  <2>3. c = -b
    BY DEF Signs
  <2>4. QED
    BY <2>2, <2>3
<1>2. CASE ~(\A i \in 1 .. n : s[i] = 0)
  <2>1. PICK i \in 1 .. n : /\ s[i] # 0 /\ \A j \in 1 .. i - 1 : s[j] = 0
                            /\ FirstDifference(s, b) = s[i]
    BY <1>2, FirstDifferenceIs
  <2>2. s[i] \in Signs /\ t[i] # 0
    BY <2>1 DEF Signs
  <2>3. \A j \in 1 .. i - 1 : j \in 1 .. n
    OBVIOUS
  <2>4. \A j \in 1 .. i - 1 : t[j] = 0
    BY <2>1, <2>3
  <2>5. FirstDifference(t, c) = t[i]
    BY <2>2, <2>4, FirstDifferenceAt
  <2>6. QED
    BY <2>1, <2>5
<1>3. QED
  BY <1>1, <1>2

\* A comparison place by place is as transitive as that of one place.
LEMMA FirstDifferenceChained ==
    ASSUME NEW n \in Nat,
           NEW s \in [1 .. n -> Signs], NEW t \in [1 .. n -> Signs], NEW u \in [1 .. n -> Signs],
           NEW b \in Signs, NEW c \in Signs, NEW d \in Signs,
           \A i \in 1 .. n : Chained(s[i], t[i], u[i]), Chained(b, c, d)
    PROVE  Chained(FirstDifference(s, b), FirstDifference(t, c), FirstDifference(u, d))
<1> DEFINE xy == FirstDifference(s, b)
           yz == FirstDifference(t, c)
           xz == FirstDifference(u, d)
<1>0. xy \in Signs /\ yz \in Signs /\ xz \in Signs
  BY FirstDifferenceType
<1>a. \A i \in 1 .. n : s[i] \in Signs /\ t[i] \in Signs /\ u[i] \in Signs
  OBVIOUS
<1>b. \A i \in 1 .. n : \A j \in 1 .. i - 1 : j \in 1 .. n
  OBVIOUS
<1>1. ASSUME NEW i \in 1 .. n, xy <= 0, yz <= 0,
             \A j \in 1 .. i - 1 : s[j] = 0 /\ t[j] = 0, s[i] # 0 \/ t[i] # 0
      PROVE  xz < 0
  <2>1. s[i] # 0 => xy = s[i]
    BY <1>1, FirstDifferenceAt
  <2>2. t[i] # 0 => yz = t[i]
    BY <1>1, FirstDifferenceAt
  <2>3. u[i] < 0
    BY <1>1, <1>a, <2>1, <2>2 DEF Chained, Signs
  <2>4. \A j \in 1 .. i - 1 : u[j] = 0
    BY <1>1, <1>b DEF Chained
  <2>5. u[i] # 0
    BY <2>3
  <2>6. xz = u[i]
    BY <2>4, <2>5, FirstDifferenceAt
  <2>7. QED
    BY <2>3, <2>6
<1>2. CASE \A i \in 1 .. n : s[i] = 0 /\ t[i] = 0
  <2>1. \A i \in 1 .. n : u[i] = 0
    BY <1>2 DEF Chained
  <2>2. xy = b /\ yz = c /\ xz = d
    BY <1>2, <2>1, FirstDifferenceNone
  <2>3. QED
    BY <2>2
<1>3. CASE ~(\A i \in 1 .. n : s[i] = 0 /\ t[i] = 0)
  <2> DEFINE e == [i \in 1 .. n |-> IF s[i] = 0 /\ t[i] = 0 THEN 0 ELSE 1]
  <2>0. \A i \in 1 .. n : e[i] = 0 <=> s[i] = 0 /\ t[i] = 0
    OBVIOUS
  <2> HIDE DEF e
  <2>1. PICK k \in 1 .. n : e[k] # 0
    BY <1>3, <2>0
  <2>2. PICK i \in 1 .. n : e[i] # 0 /\ \A j \in 1 .. i - 1 : e[j] = 0
    BY <2>1, FirstExists
  <2>3. (s[i] # 0 \/ t[i] # 0) /\ \A j \in 1 .. i - 1 : s[j] = 0 /\ t[j] = 0
    BY <1>b, <2>0, <2>2
  <2>4. xy # 0 \/ yz # 0
    BY <2>3, FirstDifferenceAt
  <2>5. xy <= 0 /\ yz <= 0 => xz < 0
    BY <1>1, <2>3
  <2> HIDE DEF xy, yz, xz
  <2>6. Chained(xy, yz, xz)
    BY <1>0, <2>4, <2>5 DEF Chained, Signs
  <2>7. QED
    BY <2>6 DEF xy, yz, xz
<1>4. QED
  BY <1>2, <1>3

\* A sequence that ends is like one that goes on with something that is less
\* than anything else.
Extends(e, N, s, p, m, n) ==
    /\ m \in Nat /\ n \in Nat /\ N \in Nat /\ m <= N /\ n <= N
    /\ p \in Nat /\ p <= m /\ p <= n /\ (p = m \/ p = n)
    /\ s \in [1 .. p -> Signs] /\ e \in [1 .. N -> Signs]
    /\ \A i \in 1 .. p : e[i] = s[i]
    /\ \A i \in 1 .. N : /\ i > m /\ i <= n => e[i] = -1
                         /\ i <= m /\ i > n => e[i] = 1
                         /\ i > m /\ i > n => e[i] = 0

LEMMA EndIsLeast ==
    ASSUME NEW m, NEW n, NEW N, NEW p, NEW s, NEW e, Extends(e, N, s, p, m, n)
    PROVE  FirstDifference(e, 0) = FirstDifference(s, Sign(m, n))
<1> USE DEF Extends
<1>0. 0 \in Signs /\ Sign(m, n) \in Signs
  BY DEF Signs, Sign
<1>a. \A i \in 1 .. p : i \in 1 .. N
  OBVIOUS
<1>1. CASE \A i \in 1 .. p : s[i] = 0
  <2>1. FirstDifference(s, Sign(m, n)) = Sign(m, n)
    BY <1>1, FirstDifferenceNone
  <2>2. CASE m = n
    <3>1. \A i \in 1 .. N : e[i] = 0
      <4> SUFFICES ASSUME NEW i \in 1 .. N PROVE e[i] = 0
        OBVIOUS
      <4>1. i \in 1 .. p \/ (i > m /\ i > n)
        BY <2>2
      <4>2. QED
        BY <1>1, <4>1
    <3>2. FirstDifference(e, 0) = 0
      BY <3>1, <1>0, FirstDifferenceNone
    <3>3. QED
      BY <2>1, <2>2, <3>2 DEF Sign
  <2>3. CASE m # n
    <3> DEFINE k == p + 1
    <3>1. k \in 1 .. N /\ \A j \in 1 .. k - 1 : j \in 1 .. p
      BY <2>3
    <3>2. /\ m < n => k > m /\ k <= n
          /\ n < m => k <= m /\ k > n
          /\ m < n \/ n < m
      BY <2>3
    <3>3. \A j \in 1 .. k - 1 : e[j] = 0
      BY <1>1, <3>1
    <3>4. e[k] = Sign(m, n) /\ e[k] # 0
      BY <3>1, <3>2 DEF Sign
    <3> HIDE DEF k
    <3>5. FirstDifference(e, 0) = e[k]
      BY <3>1, <3>3, <3>4, FirstDifferenceAt
    <3>6. QED
      BY <2>1, <3>4, <3>5
  <2>4. QED
    BY <2>2, <2>3
<1>2. CASE ~(\A i \in 1 .. p : s[i] = 0)
  <2>1. PICK i \in 1 .. p : /\ s[i] # 0 /\ \A j \in 1 .. i - 1 : s[j] = 0
                            /\ FirstDifference(s, Sign(m, n)) = s[i]
    BY <1>2, FirstDifferenceIs
  <2>2. \A j \in 1 .. i - 1 : j \in 1 .. p
    OBVIOUS
  <2>3. e[i] = s[i] /\ e[i] # 0 /\ i \in 1 .. N /\ \A j \in 1 .. i - 1 : e[j] = 0
    BY <1>a, <2>1, <2>2
  <2>4. FirstDifference(e, 0) = e[i]
    BY <2>3, FirstDifferenceAt
  <2>5. QED
    BY <2>1, <2>3, <2>4
<1>3. QED
  BY <1>1, <1>2

-----------------------------------------------------------------------------
(* Texts and numbers.                                                      *)

LEMMA SignOrders ==
    ASSUME NEW x \in Int, NEW y \in Int, NEW z \in Int
    PROVE  /\ Sign(x, y) \in Signs /\ Sign(y, x) = -Sign(x, y)
           /\ Chained(Sign(x, y), Sign(y, z), Sign(x, z))
BY DEF Sign, Signs, Chained

\* The sign of two characters, the end of a text being less than any.
CharSign(a, b, i) ==
    IF i <= Len(a) /\ i <= Len(b) THEN Sign(a[i], b[i])
    ELSE IF i <= Len(b) THEN -1 ELSE IF i <= Len(a) THEN 1 ELSE 0

LEMMA CharSignOrders ==
    ASSUME NEW a \in Seq(Int), NEW b \in Seq(Int), NEW c \in Seq(Int), NEW i \in Nat \ {0}
    PROVE  /\ CharSign(a, b, i) \in Signs /\ CharSign(b, a, i) = -CharSign(a, b, i)
           /\ Chained(CharSign(a, b, i), CharSign(b, c, i), CharSign(a, c, i))
<1>1. /\ i <= Len(a) => a[i] \in Int
      /\ i <= Len(b) => b[i] \in Int
      /\ i <= Len(c) => c[i] \in Int
  OBVIOUS
<1>2. CharSign(a, b, i) \in Signs /\ CharSign(b, a, i) = -CharSign(a, b, i)
  BY <1>1 DEF CharSign, Sign, Signs
<1>3. Chained(CharSign(a, b, i), CharSign(b, c, i), CharSign(a, c, i))
  <2>1. CASE i <= Len(a) /\ i <= Len(b) /\ i <= Len(c)
    BY <1>1, <2>1, SignOrders DEF CharSign
  <2>2. CASE ~(i <= Len(a))
    BY <1>1, <2>2 DEF CharSign, Chained, Sign
  <2>3. CASE i <= Len(a) /\ ~(i <= Len(b))
    BY <1>1, <2>3 DEF CharSign, Chained, Sign
  <2>4. CASE i <= Len(a) /\ i <= Len(b) /\ ~(i <= Len(c))
    BY <1>1, <2>4 DEF CharSign, Chained, Sign
  <2>5. QED
    BY <2>1, <2>2, <2>3, <2>4
<1>4. QED
  BY <1>2, <1>3

LEMMA CompareIs ==
    ASSUME NEW a \in Seq(Int), NEW b \in Seq(Int), NEW N \in Nat, Len(a) <= N, Len(b) <= N
    PROVE  Compare(a, b) = FirstDifference([i \in 1 .. N |-> CharSign(a, b, i)], 0)
<1> DEFINE p == Shorter(a, b)
           s == [i \in 1 .. p |-> Sign(a[i], b[i])]
           e == [i \in 1 .. N |-> CharSign(a, b, i)]
<1>1. /\ Len(a) \in Nat /\ Len(b) \in Nat /\ p \in Nat
      /\ p = IF Len(a) < Len(b) THEN Len(a) ELSE Len(b)
  BY DEF Shorter
<1>2. \A i \in 1 .. p : a[i] \in Int /\ b[i] \in Int /\ i <= Len(a) /\ i <= Len(b) /\ i \in 1 .. N
  BY <1>1
<1>3. e \in [1 .. N -> Signs]
  BY CharSignOrders
<1>4. s \in [1 .. p -> Signs]
  BY <1>2 DEF Sign, Signs
<1>5. /\ \A i \in 1 .. p : e[i] = s[i]
      /\ \A i \in 1 .. N : /\ i > Len(a) /\ i <= Len(b) => e[i] = -1
                           /\ i <= Len(a) /\ i > Len(b) => e[i] = 1
                           /\ i > Len(a) /\ i > Len(b) => e[i] = 0
  BY <1>1, <1>2 DEF CharSign
<1>6. Compare(a, b) = FirstDifference(s, Sign(Len(a), Len(b)))
  BY DEF Compare
<1> HIDE DEF p, s, e
<1>7. Extends(e, N, s, p, Len(a), Len(b))
  BY <1>1, <1>3, <1>4, <1>5 DEF Extends
<1>8. QED
  BY <1>6, <1>7, EndIsLeast DEF e

\* Texts are in a total order.
LEMMA CompareOrders ==
    ASSUME NEW a \in Seq(Int), NEW b \in Seq(Int), NEW c \in Seq(Int)
    PROVE  /\ Compare(a, b) \in Signs /\ Compare(b, a) = -Compare(a, b)
           /\ Chained(Compare(a, b), Compare(b, c), Compare(a, c))
<1> DEFINE N == Len(a) + Len(b) + Len(c)
           ab == [i \in 1 .. N |-> CharSign(a, b, i)]
           ba == [i \in 1 .. N |-> CharSign(b, a, i)]
           bc == [i \in 1 .. N |-> CharSign(b, c, i)]
           ac == [i \in 1 .. N |-> CharSign(a, c, i)]
<1>1. N \in Nat /\ Len(a) <= N /\ Len(b) <= N /\ Len(c) <= N
  OBVIOUS
<1> HIDE DEF N
<1>2. /\ Compare(a, b) = FirstDifference(ab, 0) /\ Compare(b, a) = FirstDifference(ba, 0)
      /\ Compare(b, c) = FirstDifference(bc, 0) /\ Compare(a, c) = FirstDifference(ac, 0)
  BY <1>1, CompareIs
<1>3. /\ ab \in [1 .. N -> Signs] /\ ba \in [1 .. N -> Signs]
      /\ bc \in [1 .. N -> Signs] /\ ac \in [1 .. N -> Signs]
  BY <1>1, CharSignOrders
<1>4. \A i \in 1 .. N : ba[i] = -ab[i] /\ Chained(ab[i], bc[i], ac[i])
  BY <1>1, CharSignOrders
<1>5. 0 \in Signs /\ 0 + 0 = 0 /\ Chained(0, 0, 0)
  <2>1. 0 \in Signs
    BY DEF Signs
  <2>2. 0 + 0 = 0
    OBVIOUS
  <2>3. Chained(0, 0, 0)
    BY DEF Chained
  <2>4. QED
    BY <2>1, <2>2, <2>3
<1> HIDE DEF ab, ba, bc, ac
<1>6. FirstDifference(ab, 0) \in Signs
  BY <1>1, <1>3, <1>5, FirstDifferenceType
<1>7. FirstDifference(ba, 0) = -FirstDifference(ab, 0)
  BY <1>1, <1>3, <1>4, <1>5, FirstDifferenceOpposite
<1>8. Chained(FirstDifference(ab, 0), FirstDifference(bc, 0), FirstDifference(ac, 0))
  BY <1>1, <1>3, <1>4, <1>5, FirstDifferenceChained
<1>9. QED
  BY <1>2, <1>6, <1>7, <1>8

LEMMA TrimZerosType ==
    ASSUME NEW s \in Seq(Int)
    PROVE  TrimZeros(s) \in Seq(Int)
<1>1. CASE \A i \in DOMAIN s : s[i] = 0
  BY <1>1 DEF TrimZeros
<1>2. CASE ~(\A i \in DOMAIN s : s[i] = 0)
  <2> DEFINE f == CHOOSE i \in DOMAIN s : s[i] # 0 /\ \A j \in 1 .. i - 1 : s[j] = 0
  <2>1. DOMAIN s = 1 .. Len(s) /\ Len(s) \in Nat
    OBVIOUS
  <2>2. \E i \in 1 .. Len(s) : s[i] # 0 /\ \A j \in 1 .. i - 1 : s[j] = 0
    BY <1>2, <2>1, FirstExists
  <2>3. f \in 1 .. Len(s)
    BY <2>1, <2>2
  <2>4. TrimZeros(s) = SubSeq(s, f, Len(s))
    BY <1>2 DEF TrimZeros
  <2> HIDE DEF f
  <2>5. \A i \in f .. Len(s) : s[i] \in Int
    BY <2>3
  <2>6. QED
    BY <2>3, <2>4, <2>5
<1>3. QED
  BY <1>1, <1>2

\* Numbers of any length are in a total order, by their length without leading
\* zeros and then as texts.
LEMMA CompareNumericStringOrders ==
    ASSUME NEW a \in Seq(Int), NEW b \in Seq(Int), NEW c \in Seq(Int)
    PROVE  /\ CompareNumericString(a, b) \in Signs
           /\ CompareNumericString(b, a) = -CompareNumericString(a, b)
           /\ Chained(CompareNumericString(a, b), CompareNumericString(b, c),
                      CompareNumericString(a, c))
<1> DEFINE x == TrimZeros(a)
           y == TrimZeros(b)
           z == TrimZeros(c)
<1>1. x \in Seq(Int) /\ y \in Seq(Int) /\ z \in Seq(Int)
  BY TrimZerosType
<1>2. /\ CompareNumericString(a, b) = IF Len(x) # Len(y) THEN Sign(Len(x), Len(y)) ELSE Compare(x, y)
      /\ CompareNumericString(b, a) = IF Len(y) # Len(x) THEN Sign(Len(y), Len(x)) ELSE Compare(y, x)
      /\ CompareNumericString(b, c) = IF Len(y) # Len(z) THEN Sign(Len(y), Len(z)) ELSE Compare(y, z)
      /\ CompareNumericString(a, c) = IF Len(x) # Len(z) THEN Sign(Len(x), Len(z)) ELSE Compare(x, z)
  BY DEF CompareNumericString
<1> HIDE DEF x, y, z
<1>3. /\ Compare(x, y) \in Signs /\ Compare(y, x) = -Compare(x, y)
      /\ Chained(Compare(x, y), Compare(y, z), Compare(x, z))
  BY <1>1, CompareOrders
<1>4. Len(x) \in Nat /\ Len(y) \in Nat /\ Len(z) \in Nat
  BY <1>1
<1>5. QED
  BY <1>2, <1>3, <1>4 DEF Sign, Signs, Chained

-----------------------------------------------------------------------------
(* Prereleases and versions.                                               *)

\* Identifiers: numbers among themselves, then the others as texts.
LEMMA ComparePrereleaseIDOrders ==
    ASSUME NEW a \in Seq(Int), NEW b \in Seq(Int), NEW c \in Seq(Int)
    PROVE  /\ ComparePrereleaseID(a, b) \in Signs
           /\ ComparePrereleaseID(b, a) = -ComparePrereleaseID(a, b)
           /\ Chained(ComparePrereleaseID(a, b), ComparePrereleaseID(b, c),
                      ComparePrereleaseID(a, c))
<1>1. /\ CompareNumericString(a, b) \in Signs
      /\ CompareNumericString(b, a) = -CompareNumericString(a, b)
      /\ Chained(CompareNumericString(a, b), CompareNumericString(b, c),
                 CompareNumericString(a, c))
  BY CompareNumericStringOrders
<1>2. /\ Compare(a, b) \in Signs /\ Compare(b, a) = -Compare(a, b)
      /\ Chained(Compare(a, b), Compare(b, c), Compare(a, c))
  BY CompareOrders
<1>3. ComparePrereleaseID(a, b) \in Signs /\ ComparePrereleaseID(b, a) = -ComparePrereleaseID(a, b)
  BY <1>1, <1>2 DEF ComparePrereleaseID, Signs
<1>4. Chained(ComparePrereleaseID(a, b), ComparePrereleaseID(b, c), ComparePrereleaseID(a, c))
  <2>1. CASE IsAllDigits(a) /\ IsAllDigits(b) /\ IsAllDigits(c)
    BY <1>1, <2>1 DEF ComparePrereleaseID
  <2>2. CASE ~IsAllDigits(a) /\ ~IsAllDigits(b) /\ ~IsAllDigits(c)
    BY <1>2, <2>2 DEF ComparePrereleaseID
  <2>3. CASE IsAllDigits(a) /\ ~IsAllDigits(c)
    BY <2>3 DEF ComparePrereleaseID, Chained
  <2>4. CASE ~IsAllDigits(a) /\ IsAllDigits(b)
    BY <2>4 DEF ComparePrereleaseID, Chained
  <2>5. CASE ~IsAllDigits(b) /\ IsAllDigits(c)
    BY <2>5 DEF ComparePrereleaseID, Chained
  <2>6. QED
    BY <2>1, <2>2, <2>3, <2>4, <2>5
<1>5. QED
  BY <1>3, <1>4

\* The sign of two identifiers, the end of a list being less than any.
IDSign(a, b, i) ==
    IF i <= Len(a) /\ i <= Len(b) THEN ComparePrereleaseID(a[i], b[i])
    ELSE IF i <= Len(b) THEN -1 ELSE IF i <= Len(a) THEN 1 ELSE 0

LEMMA IDSignOrders ==
    ASSUME NEW a \in Seq(Seq(Int)), NEW b \in Seq(Seq(Int)), NEW c \in Seq(Seq(Int)),
           NEW i \in Nat \ {0}
    PROVE  /\ IDSign(a, b, i) \in Signs /\ IDSign(b, a, i) = -IDSign(a, b, i)
           /\ Chained(IDSign(a, b, i), IDSign(b, c, i), IDSign(a, c, i))
<1>1. /\ i <= Len(a) => a[i] \in Seq(Int)
      /\ i <= Len(b) => b[i] \in Seq(Int)
      /\ i <= Len(c) => c[i] \in Seq(Int)
  OBVIOUS
<1>2. IDSign(a, b, i) \in Signs /\ IDSign(b, a, i) = -IDSign(a, b, i)
  <2>1. CASE i <= Len(a) /\ i <= Len(b)
    BY <1>1, <2>1, ComparePrereleaseIDOrders DEF IDSign
  <2>2. CASE ~(i <= Len(a) /\ i <= Len(b))
    BY <2>2 DEF IDSign, Signs
  <2>3. QED
    BY <2>1, <2>2
<1>3. Chained(IDSign(a, b, i), IDSign(b, c, i), IDSign(a, c, i))
  <2>1. CASE i <= Len(a) /\ i <= Len(b) /\ i <= Len(c)
    BY <1>1, <2>1, ComparePrereleaseIDOrders DEF IDSign
  <2>2. CASE ~(i <= Len(a) /\ i <= Len(b) /\ i <= Len(c))
    <3>1. /\ i <= Len(b) /\ ~(i <= Len(a)) => IDSign(a, b, i) = -1
          /\ i <= Len(a) /\ ~(i <= Len(b)) => IDSign(a, b, i) = 1
          /\ ~(i <= Len(a)) /\ ~(i <= Len(b)) => IDSign(a, b, i) = 0
      BY DEF IDSign
    <3>2. /\ i <= Len(c) /\ ~(i <= Len(b)) => IDSign(b, c, i) = -1
          /\ i <= Len(b) /\ ~(i <= Len(c)) => IDSign(b, c, i) = 1
          /\ ~(i <= Len(b)) /\ ~(i <= Len(c)) => IDSign(b, c, i) = 0
      BY DEF IDSign
    <3>3. /\ i <= Len(c) /\ ~(i <= Len(a)) => IDSign(a, c, i) = -1
          /\ i <= Len(a) /\ ~(i <= Len(c)) => IDSign(a, c, i) = 1
          /\ ~(i <= Len(a)) /\ ~(i <= Len(c)) => IDSign(a, c, i) = 0
      BY DEF IDSign
    <3>4. QED
      BY <2>2, <3>1, <3>2, <3>3 DEF Chained
  <2>3. QED
    BY <2>1, <2>2
<1>4. QED
  BY <1>2, <1>3

\* A list of identifiers, compared place by place, the longer one winning if
\* the shorter is how it begins.
LEMMA IdentifiersAre ==
    ASSUME NEW a \in Seq(Seq(Int)), NEW b \in Seq(Seq(Int)), a # <<>>, b # <<>>,
           NEW N \in Nat, Len(a) <= N, Len(b) <= N
    PROVE  ComparePrerelease(a, b) = FirstDifference([i \in 1 .. N |-> IDSign(a, b, i)], 0)
<1> DEFINE p == Shorter(a, b)
           s == [i \in 1 .. p |-> ComparePrereleaseID(a[i], b[i])]
           e == [i \in 1 .. N |-> IDSign(a, b, i)]
<1>1. /\ Len(a) \in Nat /\ Len(b) \in Nat /\ p \in Nat
      /\ p = IF Len(a) < Len(b) THEN Len(a) ELSE Len(b)
  BY DEF Shorter
<1>2. \A i \in 1 .. p : /\ a[i] \in Seq(Int) /\ b[i] \in Seq(Int)
                        /\ i <= Len(a) /\ i <= Len(b) /\ i \in 1 .. N
  BY <1>1
<1>3. e \in [1 .. N -> Signs]
  BY IDSignOrders
<1>4. s \in [1 .. p -> Signs]
  BY <1>2, ComparePrereleaseIDOrders
<1>5. /\ \A i \in 1 .. p : e[i] = s[i]
      /\ \A i \in 1 .. N : i > Len(a) /\ i <= Len(b) => e[i] = -1
      /\ \A i \in 1 .. N : i <= Len(a) /\ i > Len(b) => e[i] = 1
      /\ \A i \in 1 .. N : i > Len(a) /\ i > Len(b) => e[i] = 0
  BY <1>1, <1>2 DEF IDSign
<1>6. ComparePrerelease(a, b) = FirstDifference(s, Sign(Len(a), Len(b)))
  BY DEF ComparePrerelease
<1> HIDE DEF p, s, e
<1>7. Extends(e, N, s, p, Len(a), Len(b))
  BY <1>1, <1>3, <1>4, <1>5 DEF Extends
<1>8. QED
  BY <1>6, <1>7, EndIsLeast DEF e

\* Prereleases are in a total order, with no prerelease above them all.
LEMMA ComparePrereleaseOrders ==
    ASSUME NEW a \in Seq(Seq(Int)), NEW b \in Seq(Seq(Int)), NEW c \in Seq(Seq(Int))
    PROVE  /\ ComparePrerelease(a, b) \in Signs
           /\ ComparePrerelease(b, a) = -ComparePrerelease(a, b)
           /\ Chained(ComparePrerelease(a, b), ComparePrerelease(b, c), ComparePrerelease(a, c))
<1> DEFINE N == Len(a) + Len(b) + Len(c)
           ab == [i \in 1 .. N |-> IDSign(a, b, i)]
           ba == [i \in 1 .. N |-> IDSign(b, a, i)]
           bc == [i \in 1 .. N |-> IDSign(b, c, i)]
           ac == [i \in 1 .. N |-> IDSign(a, c, i)]
<1>1. N \in Nat /\ Len(a) <= N /\ Len(b) <= N /\ Len(c) <= N
  OBVIOUS
<1> HIDE DEF N
<1>2. /\ a # <<>> /\ b # <<>> => /\ ComparePrerelease(a, b) = FirstDifference(ab, 0)
                                 /\ ComparePrerelease(b, a) = FirstDifference(ba, 0)
      /\ b # <<>> /\ c # <<>> => ComparePrerelease(b, c) = FirstDifference(bc, 0)
      /\ a # <<>> /\ c # <<>> => ComparePrerelease(a, c) = FirstDifference(ac, 0)
  BY <1>1, IdentifiersAre
<1>3. /\ ab \in [1 .. N -> Signs] /\ ba \in [1 .. N -> Signs]
      /\ bc \in [1 .. N -> Signs] /\ ac \in [1 .. N -> Signs]
  BY <1>1, IDSignOrders
<1>4. \A i \in 1 .. N : ba[i] = -ab[i] /\ Chained(ab[i], bc[i], ac[i])
  BY <1>1, IDSignOrders
<1>5. 0 \in Signs /\ 0 + 0 = 0 /\ Chained(0, 0, 0)
  BY DEF Signs, Chained
<1> HIDE DEF ab, ba, bc, ac
<1>6. FirstDifference(ab, 0) \in Signs
  BY <1>1, <1>3, <1>5, FirstDifferenceType
<1>7. FirstDifference(ba, 0) = -FirstDifference(ab, 0)
  BY <1>1, <1>3, <1>4, <1>5, FirstDifferenceOpposite
<1>8. Chained(FirstDifference(ab, 0), FirstDifference(bc, 0), FirstDifference(ac, 0))
  BY <1>1, <1>3, <1>4, <1>5, FirstDifferenceChained
<1>9. CASE a # <<>> /\ b # <<>> /\ c # <<>>
  BY <1>2, <1>6, <1>7, <1>8, <1>9
<1>10. CASE ~(a # <<>> /\ b # <<>> /\ c # <<>>)
  <2>1. \A x, y \in {a, b, c} :
            /\ x = <<>> /\ y = <<>> => ComparePrerelease(x, y) = 0
            /\ x = <<>> /\ y # <<>> => ComparePrerelease(x, y) = 1
            /\ x # <<>> /\ y = <<>> => ComparePrerelease(x, y) = -1
    BY DEF ComparePrerelease
  <2>2. ComparePrerelease(a, b) \in Signs /\ ComparePrerelease(b, a) = -ComparePrerelease(a, b)
    <3>1. CASE a # <<>> /\ b # <<>>
      BY <1>2, <1>6, <1>7, <3>1
    <3>2. CASE ~(a # <<>> /\ b # <<>>)
      BY <2>1, <3>2 DEF Signs
    <3>3. QED
      BY <3>1, <3>2
  <2>3. Chained(ComparePrerelease(a, b), ComparePrerelease(b, c), ComparePrerelease(a, c))
    BY <1>10, <2>1 DEF Chained
  <2>4. QED
    BY <2>2, <2>3
<1>11. QED
  BY <1>9, <1>10

\* The sign of two segments, one that is not written being a zero.
SegmentSign(a, b, i) == CompareNumericString(Segment(a, i), Segment(b, i))

LEMMA SegmentSignOrders ==
    ASSUME NEW a \in Seq(Seq(Int)), NEW b \in Seq(Seq(Int)), NEW c \in Seq(Seq(Int)),
           NEW i \in Nat \ {0}
    PROVE  /\ SegmentSign(a, b, i) \in Signs /\ SegmentSign(b, a, i) = -SegmentSign(a, b, i)
           /\ Chained(SegmentSign(a, b, i), SegmentSign(b, c, i), SegmentSign(a, c, i))
           /\ i > Len(a) /\ i > Len(b) => SegmentSign(a, b, i) = 0
<1>0. <<0>> \in Seq(Int)
  OBVIOUS
<1>1. Segment(a, i) \in Seq(Int) /\ Segment(b, i) \in Seq(Int) /\ Segment(c, i) \in Seq(Int)
  BY <1>0 DEF Segment
<1>2. i > Len(a) /\ i > Len(b) => Segment(a, i) = Segment(b, i)
  BY DEF Segment
<1>3. CompareNumericString(Segment(a, i), Segment(a, i)) = 0
  <2> DEFINE d == CompareNumericString(Segment(a, i), Segment(a, i))
  <2>1. d \in Signs /\ d = -d
    BY <1>1, CompareNumericStringOrders
  <2> HIDE DEF d
  <2>2. d = 0
    BY <2>1 DEF Signs
  <2>3. QED
    BY <2>2 DEF d
<1>4. QED
  BY <1>1, <1>2, <1>3, CompareNumericStringOrders DEF SegmentSign

\* Zeros at the end of a release do not count, so two versions may be compared
\* at any length that holds them both.
LEMMA PartsAre ==
    ASSUME NEW a \in Seq(Seq(Int)), NEW b \in Seq(Seq(Int)), NEW r \in Signs,
           NEW N \in Nat, Len(a) <= N, Len(b) <= N
    PROVE  FirstDifference(CompareSegments(a, b), r)
               = FirstDifference([i \in 1 .. N |-> SegmentSign(a, b, i)], r)
<1> DEFINE p == Longer(a, b)
           s == CompareSegments(a, b)
           e == [i \in 1 .. N |-> SegmentSign(a, b, i)]
<1>1. p \in Nat /\ p <= N /\ Len(a) <= p /\ Len(b) <= p
  BY DEF Longer
<1>2. \A i \in 1 .. p : i \in 1 .. N
  BY <1>1
<1>3. s = [i \in 1 .. p |-> SegmentSign(a, b, i)]
  BY DEF CompareSegments, SegmentSign
<1>4. e \in [1 .. N -> Signs] /\ s \in [1 .. p -> Signs]
  BY <1>1, <1>3, SegmentSignOrders
<1>5. \A i \in 1 .. p : e[i] = s[i]
  BY <1>2, <1>3
<1>6. \A i \in 1 .. N : ~(i \in 1 .. p) => e[i] = 0
  BY <1>1, SegmentSignOrders
<1> HIDE DEF p, s, e
<1>7. CASE \A i \in 1 .. p : s[i] = 0
  <2>1. \A i \in 1 .. N : e[i] = 0
    BY <1>5, <1>6, <1>7
  <2>2. FirstDifference(e, r) = r
    BY <1>4, <2>1, FirstDifferenceNone
  <2>3. FirstDifference(s, r) = r
    BY <1>1, <1>4, <1>7, FirstDifferenceNone
  <2>4. QED
    BY <2>2, <2>3 DEF s, e
<1>8. CASE ~(\A i \in 1 .. p : s[i] = 0)
  <2>0. PICK k \in 1 .. p : s[k] # 0
    BY <1>8
  <2>a. PICK i \in 1 .. p : s[i] # 0 /\ \A j \in 1 .. i - 1 : s[j] = 0
    BY <1>1, <2>0, FirstExists
  <2>1. FirstDifference(s, r) = s[i]
    <3>1. p \in Nat /\ s \in [1 .. p -> Signs]
      BY <1>1, <1>4
    <3>2. QED
      BY <2>a, <3>1, FirstDifferenceAt
  <2>2. \A j \in 1 .. i - 1 : j \in 1 .. p
    BY <1>1
  <2>3. e[i] = s[i] /\ e[i] # 0 /\ i \in 1 .. N /\ \A j \in 1 .. i - 1 : e[j] = 0
    BY <1>2, <1>5, <2>a, <2>2
  <2>4. FirstDifference(e, r) = e[i]
    BY <1>4, <2>3, FirstDifferenceAt
  <2>5. QED
    BY <2>1, <2>3, <2>4 DEF s, e
<1>9. QED
  BY <1>7, <1>8

\* compareSemverParts is a total order on versions with any number of segments
\* and identifiers of any length: exactly one of less, equal and greater holds,
\* turning the two around turns the answer around, equal versions are equal to
\* the same ones, and it is transitive.
THEOREM VersionsAreTotallyOrdered ==
    ASSUME NEW x \in Version, NEW y \in Version, NEW z \in Version
    PROVE  /\ CompareSemverParts(x, y) \in Signs
           /\ CompareSemverParts(y, x) = -CompareSemverParts(x, y)
           /\ Chained(CompareSemverParts(x, y), CompareSemverParts(y, z),
                      CompareSemverParts(x, z))
<1> DEFINE a == x.release
           b == y.release
           c == z.release
           N == Len(a) + Len(b) + Len(c)
           xy == ComparePrerelease(x.prerelease, y.prerelease)
           yx == ComparePrerelease(y.prerelease, x.prerelease)
           yz == ComparePrerelease(y.prerelease, z.prerelease)
           xz == ComparePrerelease(x.prerelease, z.prerelease)
           ab == [i \in 1 .. N |-> SegmentSign(a, b, i)]
           ba == [i \in 1 .. N |-> SegmentSign(b, a, i)]
           bc == [i \in 1 .. N |-> SegmentSign(b, c, i)]
           ac == [i \in 1 .. N |-> SegmentSign(a, c, i)]
<1>1. \A v \in Version : v.release \in Seq(Seq(Int)) /\ v.prerelease \in Seq(Seq(Int))
  <2>1. \A s \in Seq(Digit) : s \in Seq(Int)
    BY DEF Digit
  <2>2. \A s \in Seq(Numeral) : s \in Seq(Seq(Int))
    BY <2>1 DEF Numeral
  <2>3. \A s \in Seq({t \in Seq(Int) : t # <<>>}) : s \in Seq(Seq(Int))
    OBVIOUS
  <2>4. QED
    BY <2>2, <2>3 DEF Version
<1>2. a \in Seq(Seq(Int)) /\ b \in Seq(Seq(Int)) /\ c \in Seq(Seq(Int))
  BY <1>1
<1>3. /\ xy \in Signs /\ yx = -xy /\ yz \in Signs /\ xz \in Signs /\ Chained(xy, yz, xz)
  BY <1>1, ComparePrereleaseOrders
<1>4. yx \in Signs /\ xy + yx = 0
  BY <1>3 DEF Signs
<1> HIDE DEF a, b, c, xy, yx, yz, xz
<1>5. N \in Nat /\ Len(a) <= N /\ Len(b) <= N /\ Len(c) <= N
  BY <1>2
<1> HIDE DEF N
<1>6. /\ CompareSemverParts(x, y) = FirstDifference(ab, xy)
      /\ CompareSemverParts(y, x) = FirstDifference(ba, yx)
      /\ CompareSemverParts(y, z) = FirstDifference(bc, yz)
      /\ CompareSemverParts(x, z) = FirstDifference(ac, xz)
  <2>1. /\ CompareSemverParts(x, y) = FirstDifference(CompareSegments(a, b), xy)
        /\ CompareSemverParts(y, x) = FirstDifference(CompareSegments(b, a), yx)
        /\ CompareSemverParts(y, z) = FirstDifference(CompareSegments(b, c), yz)
        /\ CompareSemverParts(x, z) = FirstDifference(CompareSegments(a, c), xz)
    BY DEF CompareSemverParts, a, b, c, xy, yx, yz, xz
  <2>2. QED
    BY <1>2, <1>3, <1>4, <1>5, <2>1, PartsAre
<1>7. /\ ab \in [1 .. N -> Signs] /\ ba \in [1 .. N -> Signs]
      /\ bc \in [1 .. N -> Signs] /\ ac \in [1 .. N -> Signs]
  BY <1>2, <1>5, SegmentSignOrders
<1>8. \A i \in 1 .. N : ba[i] = -ab[i] /\ Chained(ab[i], bc[i], ac[i])
  BY <1>2, <1>5, SegmentSignOrders
<1> HIDE DEF ab, ba, bc, ac
<1>9. FirstDifference(ab, xy) \in Signs
  BY <1>3, <1>5, <1>7, FirstDifferenceType
<1>10. FirstDifference(ba, yx) = -FirstDifference(ab, xy)
  <2>1. /\ N \in Nat /\ ab \in [1 .. N -> Signs] /\ ba \in [1 .. N -> Signs]
        /\ \A i \in 1 .. N : ba[i] = -ab[i]
        /\ xy \in Signs /\ yx \in Signs /\ xy + yx = 0
    BY <1>3, <1>4, <1>5, <1>7, <1>8
  <2>2. QED
    BY <2>1, FirstDifferenceOpposite
<1>11. Chained(FirstDifference(ab, xy), FirstDifference(bc, yz), FirstDifference(ac, xz))
  BY <1>3, <1>5, <1>7, <1>8, FirstDifferenceChained
<1>12. QED
  BY <1>6, <1>9, <1>10, <1>11

-----------------------------------------------------------------------------
(* Dates.                                                                   *)

LEMMA TestsOfDates ==
    ASSUME NEW m, NEW n
    PROVE  /\ Test("before", [moment |-> m], [moment |-> n])
                <=> /\ ParseDateTime(m) # None /\ ParseDateTime(n) # None
                    /\ Sign(ParseDateTime(m), ParseDateTime(n)) < 0
           /\ Test("after", [moment |-> m], [moment |-> n])
                <=> /\ ParseDateTime(m) # None /\ ParseDateTime(n) # None
                    /\ Sign(ParseDateTime(m), ParseDateTime(n)) > 0
BY DEF Test, CompareParsed, Satisfies

\* A moment in range is its second, any other is none.
LEMMA ParsedMoment ==
    ASSUME NEW m \in Moment
    PROVE  /\ m.written \in Int /\ m.offset \in Int
           /\ ParseDateTime(m) = IF m.written - m.offset \in FirstSecond .. LastSecond
                                 THEN m.written - m.offset ELSE None
BY ConditionsAssumption DEF ParseDateTime, InDateTimeOffsetRange, Moment

\* The comparison of dates is that of the moments they stand for.
LEMMA MomentsAlwaysAgree ==
    ASSUME NEW x \in Moment, NEW y \in Moment, NEW t \in Moment
    PROVE  MomentsAgree(x, y, t)
<1> DEFINE Real(m) == m.written - m.offset
<1>1. /\ Real(x) \in Int /\ Real(y) \in Int /\ Real(t) \in Int /\ None \notin Int
  BY ParsedMoment, ConditionsAssumption
<1>2. ASSUME Real(x) = Real(y), NEW op \in {"before", "after"}
      PROVE  Test(op, [moment |-> x], [moment |-> t]) = Test(op, [moment |-> y], [moment |-> t])
  <2>1. ParseDateTime(x) = ParseDateTime(y)
    BY <1>2, ParsedMoment
  <2>2. QED
    BY <2>1 DEF Test
<1>3. ASSUME Real(x) \notin FirstSecond .. LastSecond
      PROVE  ~Test("before", [moment |-> x], [moment |-> t])
             /\ ~Test("after", [moment |-> x], [moment |-> t])
  BY <1>3, ParsedMoment, TestsOfDates
<1>4. ASSUME Real(x) \in FirstSecond .. LastSecond, Real(t) \in FirstSecond .. LastSecond
      PROVE  /\ Test("before", [moment |-> x], [moment |-> t]) <=> Real(x) < Real(t)
             /\ Test("after", [moment |-> x], [moment |-> t]) <=> Real(x) > Real(t)
  <2>1. ParseDateTime(x) = Real(x) /\ ParseDateTime(t) = Real(t)
    BY <1>4, ParsedMoment
  <2>2. ParseDateTime(x) # None /\ ParseDateTime(t) # None
    BY <1>1, <2>1
  <2>3. /\ Test("before", [moment |-> x], [moment |-> t]) <=> Sign(Real(x), Real(t)) < 0
        /\ Test("after", [moment |-> x], [moment |-> t]) <=> Sign(Real(x), Real(t)) > 0
    BY <2>1, <2>2, TestsOfDates
  <2> HIDE DEF Real
  <2>4. QED
    BY <1>1, <2>3 DEF Sign
<1>5. QED
  BY <1>2, <1>3, <1>4 DEF MomentsAgree

-----------------------------------------------------------------------------
(* Conditions.                                                              *)

\* The disequality of truth values, as the code uses it to negate.
LEMMA Different ==
    ASSUME NEW P \in BOOLEAN, NEW Q \in BOOLEAN
    PROVE  (P # Q) <=> (P <=> ~Q)
OBVIOUS

LEMMA NumericEqualityIs ==
    ASSUME NEW op, NEW number, NEW targets, NEW negate \in BOOLEAN
    PROVE  EvaluateNumericEquality(op, number, targets, negate)
             <=> ((\E t \in targets : t.number = number)
                     <=> ((op \in {"notequals", "notin"}) <=> negate))
<1> DEFINE P == \E t \in targets : t.number = number
           Q == op \in {"notequals", "notin"}
<1>1. P \in BOOLEAN /\ Q \in BOOLEAN
  OBVIOUS
<1>2. EvaluateNumericEquality(op, number, targets, negate) = (P # (Q # negate))
  BY DEF EvaluateNumericEquality
<1> HIDE DEF P, Q
<1>3. (P # (Q # negate)) <=> (P <=> (Q <=> negate))
  BY <1>1
<1>4. QED
  BY <1>2, <1>3 DEF P, Q

\* An attribute that is there takes the numeric or the text path.
LEMMA ConditionIs ==
    ASSUME NEW c, c.negate \in BOOLEAN, NEW context,
           NEW raw, raw = RawAttribute(context, c.attribute), raw # None
    PROVE  EvaluateCondition(c, context) <=>
             IF c.operator \in Equalities /\ raw.numeric
             THEN (\E t \in c.values : t.number = raw.number)
                     <=> (c.operator \in {"notequals", "notin"} <=> c.negate)
             ELSE /\ c.operator \in Recognised
                  /\ EvaluateOperator(c.operator, raw.text, c.values) <=> ~c.negate
<1> DEFINE E == EvaluateOperator(c.operator, raw.text, c.values)
<1>1. E \in BOOLEAN
  BY DEF EvaluateOperator
<1>2. EvaluateCondition(c, context) =
         IF c.operator \in Equalities /\ raw.numeric
         THEN EvaluateNumericEquality(c.operator, raw.number, c.values, c.negate)
         ELSE c.operator \in Recognised /\ E # c.negate
  BY DEF EvaluateCondition
<1> HIDE DEF E
<1>3. (E # c.negate) <=> (E <=> ~c.negate)
  BY <1>1, Different
<1>4. EvaluateNumericEquality(c.operator, raw.number, c.values, c.negate)
         <=> ((\E t \in c.values : t.number = raw.number)
                 <=> (c.operator \in {"notequals", "notin"} <=> c.negate))
  BY NumericEqualityIs
<1>5. QED
  BY <1>2, <1>3, <1>4 DEF E

\* The text path, for one target.
LEMMA OneTarget ==
    ASSUME NEW op \in Recognised \ {"notequals", "notin", "notcontains"}, NEW v, NEW t
    PROVE  EvaluateOperator(op, v, {t}) <=> Test(op, v, t)
BY DEF EvaluateOperator, Complement

LEMMA RelationalTests ==
    ASSUME NEW v, NEW t,
           NEW op \in {"greaterthan", "lessthan", "greaterthanorequal", "lessthanorequal"}
    PROVE  Test(op, v, t) <=> v.number # None /\ t.number # None
                                /\ Satisfies(op, Sign(v.number, t.number))
BY DEF Test, CompareParsed

LEMMA VersionTests ==
    ASSUME NEW v, NEW t,
           NEW op \in {"semverequals", "semvergreaterthan", "semvergreaterthanorequal",
                       "semverlessthan", "semverlessthanorequal"}
    PROVE  Test(op, v, t) <=> v.version # None /\ t.version # None
                                /\ Satisfies(op, CompareSemverParts(v.version, t.version))
BY DEF Test, CompareParsed

\* Equality, order and "or equal" fit together for all values and targets.
LEMMA RelationsAlwaysAgree ==
    ASSUME NEW value \in ValueType, NEW t \in Texts
    PROVE  RelationsAgree(value, t)
<1> DEFINE Holds(op) == EvaluateCondition(
               [attribute |-> "age", operator |-> op, values |-> {t}, negate |-> FALSE],
               [user |-> None, attributes |-> [age |-> value]])
           numbers == {"greaterthan", "lessthan", "greaterthanorequal", "lessthanorequal"}
           versions == {"semverequals", "semvergreaterthan", "semvergreaterthanorequal",
                        "semverlessthan", "semverlessthanorequal"}
<1>1. /\ value # None /\ value.numeric \in BOOLEAN /\ value.text \in Texts
      /\ value.text.number \in Int \union {None} /\ t.number \in Int \union {None}
      /\ value.text.version \in Version \union {None} /\ t.version \in Version \union {None}
  BY ConditionsAssumption DEF ValueType
<1>2. ASSUME NEW op \in Recognised, op \notin Equalities, op # "notcontains"
      PROVE  Holds(op) <=> Test(op, value.text, t)
  <2>1. Holds(op) <=> EvaluateOperator(op, value.text, {t})
    BY <1>1, <1>2 DEF EvaluateCondition, RawAttribute, EvaluateOperator
  <2>2. op \in Recognised \ {"notequals", "notin", "notcontains"}
    BY <1>2 DEF Equalities
  <2> HIDE DEF Holds
  <2>3. QED
    BY <2>1, <2>2, OneTarget
<1>3. ASSUME NEW op \in {"equals", "in"}, value.numeric
      PROVE  Holds(op) <=> t.number = value.number
  <2>1. EvaluateNumericEquality(op, value.number, {t}, FALSE) <=> t.number = value.number
    <3>1. op \notin {"notequals", "notin"}
      OBVIOUS
    <3>2. PICK n, T, m : n \in BOOLEAN /\ n = FALSE /\ T = {t} /\ m = value.number
      OBVIOUS
    <3>3. EvaluateNumericEquality(op, m, T, n)
             <=> ((\E u \in T : u.number = m) <=> ((op \in {"notequals", "notin"}) <=> n))
      BY <3>2, NumericEqualityIs
    <3>4. QED
      BY <3>1, <3>2, <3>3
  <2>2. op \in Equalities
    BY DEF Equalities
  <2>3. Holds(op) = EvaluateNumericEquality(op, value.number, {t}, FALSE)
    BY <1>1, <1>3, <2>2 DEF EvaluateCondition, RawAttribute
  <2>4. QED
    BY <2>1, <2>3
<1>4. \A op \in numbers \union versions :
          op \in Recognised /\ op \notin Equalities /\ op # "notcontains"
  BY DEF Recognised, Equalities
<1> HIDE DEF Holds
<1>5. ASSUME value.text.number # None, t.number # None
      PROVE  /\ ~(Holds("lessthan") /\ Holds("greaterthan"))
             /\ Holds("lessthanorequal") <=> ~Holds("greaterthan")
             /\ Holds("greaterthanorequal") <=> ~Holds("lessthan")
             /\ value.numeric /\ value.number = value.text.number =>
                  /\ \E op \in {"lessthan", "equals", "greaterthan"} :
                       Holds(op) /\ \A p \in {"lessthan", "equals", "greaterthan"} \ {op} : ~Holds(p)
                  /\ Holds("in") <=> Holds("equals")
  <2> DEFINE a == value.text.number
             b == t.number
  <2>1. \A op \in numbers : Holds(op) <=> Satisfies(op, Sign(a, b))
    BY <1>2, <1>4, <1>5, RelationalTests
  <2>2. value.numeric /\ value.number = a => (Holds("equals") <=> b = a) /\ (Holds("in") <=> b = a)
    BY <1>3
  <2>3. b \in Int /\ a \in Int
    BY <1>1, <1>5
  <2> HIDE DEF a, b
  <2>4. /\ ~(Holds("lessthan") /\ Holds("greaterthan"))
        /\ Holds("lessthanorequal") <=> ~Holds("greaterthan")
        /\ Holds("greaterthanorequal") <=> ~Holds("lessthan")
    BY <2>1, <2>3 DEF Satisfies, Sign
  <2>5. ASSUME value.numeric, value.number = a
        PROVE  /\ \E op \in {"lessthan", "equals", "greaterthan"} :
                    Holds(op) /\ \A p \in {"lessthan", "equals", "greaterthan"} \ {op} : ~Holds(p)
               /\ Holds("in") <=> Holds("equals")
    BY <2>1, <2>2, <2>3, <2>5 DEF Satisfies, Sign
  <2>6. QED
    BY <2>4, <2>5 DEF a
<1>6. ASSUME value.text.version # None, t.version # None
      PROVE  /\ \E op \in {"semverlessthan", "semverequals", "semvergreaterthan"} :
                    Holds(op) /\ \A p \in {"semverlessthan", "semverequals", "semvergreaterthan"}
                                             \ {op} : ~Holds(p)
             /\ Holds("semverlessthanorequal") <=> ~Holds("semvergreaterthan")
             /\ Holds("semvergreaterthanorequal") <=> ~Holds("semverlessthan")
  <2> DEFINE s == CompareSemverParts(value.text.version, t.version)
  <2>1. \A op \in versions : Holds(op) <=> Satisfies(op, s)
    BY <1>2, <1>4, <1>6, VersionTests
  <2>2. s \in Signs
    BY <1>1, <1>6, VersionsAreTotallyOrdered
  <2> HIDE DEF s
  <2>3. QED
    BY <2>1, <2>2 DEF Satisfies, Signs
<1>7. QED
  BY <1>5, <1>6 DEF RelationsAgree, Holds

\* The opposite operator with the opposite negation, and one value more.
LEMMA OppositesAlwaysAgree ==
    ASSUME NEW c \in ConditionType, NEW context, NEW extra
    PROVE  OppositesAgree(c, context, extra)
<1> DEFINE raw == RawAttribute(context, c.attribute)
           Negated == [c EXCEPT !.negate = ~c.negate]
           Turned == [Negated EXCEPT !.operator = Complement[c.operator]]
           More == [c EXCEPT !.values = @ \union {extra}]
           Some(values) == \E t \in values : t.number = raw.number
           MeetsAny(op, values) == \E t \in values : Test(op, raw.text, t)
<1>1. /\ c.negate \in BOOLEAN
      /\ Turned.attribute = c.attribute /\ Turned.values = c.values
      /\ Turned.negate = ~c.negate /\ Turned.operator = Complement[c.operator]
      /\ More.attribute = c.attribute /\ More.values = c.values \union {extra}
      /\ More.negate = c.negate /\ More.operator = c.operator
  BY DEF ConditionType
<1>2. /\ DOMAIN Complement = {"notequals", "notin", "notcontains"}
      /\ Complement["notequals"] = "equals" /\ Complement["notin"] = "in"
      /\ Complement["notcontains"] = "contains"
  BY DEF Complement
<1>3. /\ {"equals", "in", "contains", "notequals", "notin", "notcontains"} \subseteq Recognised
      /\ Equalities = {"equals", "in", "notequals", "notin"}
  BY DEF Recognised, Equalities
<1>4. SUFFICES ASSUME raw # None
               PROVE  /\ c.operator \in DOMAIN Complement =>
                           (EvaluateCondition(c, context) <=> EvaluateCondition(Turned, context))
                      /\ c.operator \in Recognised =>
                           IF (c.operator \in DOMAIN Complement) # c.negate
                           THEN EvaluateCondition(More, context) => EvaluateCondition(c, context)
                           ELSE EvaluateCondition(c, context) => EvaluateCondition(More, context)
  BY DEF OppositesAgree
<1> HIDE DEF Turned, More
<1>5. \A op, values : EvaluateOperator(op, raw.text, values) <=>
          IF op \in DOMAIN Complement THEN ~MeetsAny(Complement[op], values)
          ELSE MeetsAny(op, values)
  BY DEF EvaluateOperator
<1>6. ASSUME NEW d, d.negate \in BOOLEAN, d.attribute = c.attribute
      PROVE  EvaluateCondition(d, context) <=>
               IF d.operator \in Equalities /\ raw.numeric
               THEN Some(d.values) <=> (d.operator \in {"notequals", "notin"} <=> d.negate)
               ELSE /\ d.operator \in Recognised
                    /\ EvaluateOperator(d.operator, raw.text, d.values) <=> ~d.negate
  BY <1>4, <1>6, ConditionIs
<1>a. Turned.negate \in BOOLEAN /\ Turned.attribute = c.attribute
  BY <1>1
<1>b. EvaluateCondition(Turned, context) <=>
         IF Turned.operator \in Equalities /\ raw.numeric
         THEN Some(Turned.values)
                  <=> (Turned.operator \in {"notequals", "notin"} <=> Turned.negate)
         ELSE /\ Turned.operator \in Recognised
              /\ EvaluateOperator(Turned.operator, raw.text, Turned.values) <=> ~Turned.negate
  BY <1>6, <1>a
<1>7. Some(c.values) => Some(More.values)
  BY <1>1
<1>8. \A op : MeetsAny(op, c.values) => MeetsAny(op, More.values)
  BY <1>1
<1> HIDE DEF Some, MeetsAny, raw
<1>9. ASSUME c.operator \in DOMAIN Complement
      PROVE  EvaluateCondition(c, context) <=> EvaluateCondition(Turned, context)
  <2>1. Turned.operator \notin DOMAIN Complement
    BY <1>1, <1>2, <1>9
  <2>2. CASE c.operator \in Equalities /\ raw.numeric
    <3>1. c.operator \in {"notequals", "notin"} /\ Turned.operator \in {"equals", "in"}
      BY <1>1, <1>2, <1>3, <1>9, <2>2
    <3>2. EvaluateCondition(c, context) <=> (Some(c.values) <=> c.negate)
      BY <1>1, <1>6, <2>2, <3>1
    <3>3. EvaluateCondition(Turned, context) <=> (Some(c.values) <=> ~Turned.negate)
      <4>1. Turned.operator \in Equalities /\ Turned.operator \notin {"notequals", "notin"}
        BY <1>3, <3>1
      <4>2. QED
        BY <1>1, <1>b, <2>2, <4>1
    <3>4. QED
      BY <1>1, <3>2, <3>3
  <2>3. CASE ~(c.operator \in Equalities /\ raw.numeric)
    <3>1. ~(Turned.operator \in Equalities /\ raw.numeric)
      BY <1>1, <1>2, <1>3, <1>9, <2>3
    <3>2. c.operator \in Recognised /\ Turned.operator \in Recognised
      BY <1>1, <1>2, <1>3, <1>9
    <3>3. EvaluateCondition(c, context)
             <=> (~MeetsAny(Complement[c.operator], c.values) <=> ~c.negate)
      BY <1>1, <1>5, <1>6, <1>9, <2>3, <3>2
    <3>4. EvaluateCondition(Turned, context)
             <=> (MeetsAny(Complement[c.operator], c.values) <=> ~Turned.negate)
      BY <1>1, <1>5, <1>b, <2>1, <3>1, <3>2
    <3>5. QED
      BY <1>1, <3>3, <3>4
  <2>4. QED
    BY <2>2, <2>3
<1>10. ASSUME c.operator \in Recognised
       PROVE  IF c.operator \in DOMAIN Complement <=> ~c.negate
              THEN EvaluateCondition(More, context) => EvaluateCondition(c, context)
              ELSE EvaluateCondition(c, context) => EvaluateCondition(More, context)
  <2>1. CASE c.operator \in Equalities /\ raw.numeric
    <3>1. c.operator \in {"notequals", "notin"} <=> c.operator \in DOMAIN Complement
      BY <1>2, <1>3, <2>1
    <3>2. /\ EvaluateCondition(c, context)
               <=> (Some(c.values) <=> (c.operator \in DOMAIN Complement <=> c.negate))
          /\ EvaluateCondition(More, context)
               <=> (Some(More.values) <=> (c.operator \in DOMAIN Complement <=> c.negate))
      BY <1>1, <1>6, <2>1, <3>1
    <3>3. QED
      BY <1>1, <1>7, <3>2
  <2>2. CASE ~(c.operator \in Equalities /\ raw.numeric)
    <3>1. /\ EvaluateCondition(c, context)
               <=> (EvaluateOperator(c.operator, raw.text, c.values) <=> ~c.negate)
          /\ EvaluateCondition(More, context)
               <=> (EvaluateOperator(c.operator, raw.text, More.values) <=> ~c.negate)
      BY <1>1, <1>6, <1>10, <2>2
    <3>2. QED
      BY <1>1, <1>5, <1>8, <3>1
  <2>3. QED
    BY <2>1, <2>2
<1>11. ((c.operator \in DOMAIN Complement) # c.negate)
          <=> (c.operator \in DOMAIN Complement <=> ~c.negate)
  BY <1>1, Different
<1>12. QED
  BY <1>9, <1>10, <1>11

-----------------------------------------------------------------------------
(* Rules that are newer than the build.                                     *)

\* What a new operator, and a group with a new logic, may mean.
KnownAs(c, operator) ==
    [c EXCEPT !.operator = IF c.operator \in Recognised THEN c.operator ELSE operator]
Nobody == [attribute |-> "userId", operator |-> "in", values |-> {}, negate |-> FALSE]
MeantAs(g, operator) ==
    [g EXCEPT !.conditions = IF g.operator \in KnownConditionLogic \union {""}
                             THEN {KnownAs(c, operator) : c \in g.conditions} ELSE {Nobody}]

\* An operator nobody knows matches only where any operator would.
LEMMA NewOperators ==
    ASSUME NEW c \in ConditionType, NEW operator \in Recognised, NEW context,
           EvaluateCondition(c, context)
    PROVE  EvaluateCondition(KnownAs(c, operator), context)
<1>1. CASE c.operator \in Recognised
  <2>1. KnownAs(c, operator) = c
    BY <1>1 DEF KnownAs, ConditionType
  <2>2. QED
    BY <2>1
<1>2. CASE c.operator \notin Recognised
  <2> DEFINE d == KnownAs(c, operator)
  <2>1. d.attribute = c.attribute /\ d.negate = c.negate
    BY DEF KnownAs, ConditionType
  <2>2. c.operator \notin Equalities
    BY <1>2 DEF Recognised, Equalities
  <2>3. RawAttribute(context, c.attribute) = None /\ c.negate
    BY <1>2, <2>2 DEF EvaluateCondition
  <2> HIDE DEF d
  <2>4. QED
    BY <2>1, <2>3 DEF EvaluateCondition, d
<1>3. QED
  BY <1>1, <1>2

LEMMA NewGroups ==
    ASSUME NEW g \in GroupType, NEW operator \in Recognised, NEW context,
           g.operator \in KnownConditionLogic \union {""},
           EvaluateConditions(g.conditions, g.operator, context)
    PROVE  LET m == MeantAs(g, operator)
           IN  EvaluateConditions(m.conditions, m.operator, context)
<1> DEFINE m == MeantAs(g, operator)
           C == g.conditions
           D == {KnownAs(c, operator) : c \in C}
<1>1. m.conditions = D /\ m.operator = g.operator /\ C \subseteq ConditionType
  BY DEF MeantAs, GroupType
<1>2. \A c \in C : EvaluateCondition(c, context) => EvaluateCondition(KnownAs(c, operator), context)
  BY <1>1, NewOperators
<1>3. C = {} => D = {}
  OBVIOUS
<1>4. (\E c \in C : EvaluateCondition(c, context)) => \E d \in D : EvaluateCondition(d, context)
  BY <1>2
<1>5. (\A c \in C : EvaluateCondition(c, context)) => \A d \in D : EvaluateCondition(d, context)
  BY <1>2
<1> HIDE DEF m, C, D
<1>6. EvaluateConditions(D, g.operator, context)
  BY <1>3, <1>4, <1>5 DEF EvaluateConditions, C
<1>7. QED
  BY <1>1, <1>6 DEF m

LEMMA MeantGroups ==
    ASSUME NEW g \in GroupType, NEW operator \in Recognised
    PROVE  MeantAs(g, operator) \in GroupType
<1> DEFINE C == IF g.operator \in KnownConditionLogic \union {""}
                THEN {KnownAs(c, operator) : c \in g.conditions} ELSE {Nobody}
<1>1. operator \in STRING
  BY ConditionsAssumption
<1>2. \A c \in ConditionType : KnownAs(c, operator) \in ConditionType
  BY <1>1 DEF KnownAs, ConditionType
<1>3. Nobody \in ConditionType
  <2>1. "userId" \in STRING /\ "in" \in STRING
    BY ConditionsAssumption DEF Recognised, Equalities
  <2>2. QED
    BY <2>1 DEF Nobody, ConditionType
<1>4. C \in SUBSET ConditionType
  BY <1>2, <1>3 DEF GroupType
<1> HIDE DEF C
<1>5. [g EXCEPT !.conditions = C] \in GroupType
  BY <1>4 DEF GroupType
<1>6. QED
  BY <1>5 DEF MeantAs, C

\* A rule that survives the filter matches nobody whom the meaning of the new
\* names would leave out.
LEMMA NewNamesAlwaysClose ==
    ASSUME NEW rule, NEW segments, NEW context, NEW operator \in Recognised,
           rule \in [segment : {rule.segment}, groups : SUBSET GroupType, serve : {rule.serve}],
           rule.segment \in DOMAIN segments \union {None},
           segments \in [DOMAIN segments -> GroupType \union {None}]
    PROVE  NewNamesCloseRules(rule, segments, context, operator)
<1> DEFINE flags == [f \in {"f"} |-> [fallthrough |-> "Fixed", rules |-> {rule}]]
           kept == DropUnevaluable(segments, "segment")
           meant == [rule EXCEPT !.groups = {MeantAs(g, operator) : g \in rule.groups}]
           all == [s \in DOMAIN segments |-> MeantAs(segments[s], operator)]
<1>1. SUFFICES ASSUME DropUnevaluable(flags, "flag")["f"] # None,
                      RuleMatches(rule, kept, context)
               PROVE  RuleMatches(meant, all, context)
  BY DEF NewNamesCloseRules, MeantAs, KnownAs, Nobody
<1>2. \A g \in rule.groups : g.operator \in KnownConditionLogic \union {""}
  <2>1. EvaluableFlag(flags["f"])
    BY <1>1 DEF DropUnevaluable, Evaluable
  <2>2. QED
    BY <2>1 DEF EvaluableFlag
<1>3. meant.segment = rule.segment /\ meant.groups = {MeantAs(g, operator) : g \in rule.groups}
  OBVIOUS
<1> HIDE DEF meant
<1>4. CASE rule.segment = None
  <2>1. EvaluateConditionGroups(rule.groups, context)
    BY <1>1, <1>4 DEF RuleMatches
  <2>2. \A g \in rule.groups : LET m == MeantAs(g, operator)
                               IN  EvaluateConditions(m.conditions, m.operator, context)
    BY <1>2, <2>1, NewGroups DEF EvaluateConditionGroups
  <2>3. EvaluateConditionGroups(meant.groups, context)
    BY <1>3, <2>2 DEF EvaluateConditionGroups
  <2>4. QED
    BY <1>3, <1>4, <2>3 DEF RuleMatches
<1>5. CASE rule.segment # None
  <2> DEFINE g == segments[rule.segment]
             m == MeantAs(g, operator)
  <2>1. rule.segment \in DOMAIN segments
    BY <1>5
  <2>2. /\ kept[rule.segment] # None
        /\ EvaluateConditions(kept[rule.segment].conditions, kept[rule.segment].operator, context)
    BY <1>1, <1>5 DEF RuleMatches
  <2>3. kept[rule.segment] = IF g # None /\ EvaluableSegment(g) THEN g ELSE None
    BY <2>1 DEF DropUnevaluable, Evaluable
  <2>4. g # None /\ EvaluableSegment(g) /\ EvaluateConditions(g.conditions, g.operator, context)
    BY <2>2, <2>3
  <2>5. g \in GroupType
    BY <2>1, <2>4
  <2>6. EvaluateConditions(m.conditions, m.operator, context)
    BY <2>4, <2>5, NewGroups DEF EvaluableSegment
  <2>7. m # None
    BY <2>5, MeantGroups, ConditionsAssumption
  <2>8. all[rule.segment] = m
    BY <2>1
  <2>9. QED
    BY <1>3, <1>5, <2>6, <2>7, <2>8 DEF RuleMatches
<1>6. QED
  BY <1>4, <1>5

-----------------------------------------------------------------------------
(* The theorems.                                                            *)

\* What is calculated with does not change.
ProbesStay == probe \in Probes \union {[about |-> "backoff"], [about |-> "warnings"]}

LEMMA OperandsStay == AlgorithmsSpec => []ProbesStay
<1>1. InitAlgorithms => ProbesStay
  BY DEF InitAlgorithms, ProbesStay
<1>2. ProbesStay /\ [NextAlgorithms]_algorithmVars => ProbesStay'
  BY DEF ProbesStay, NextAlgorithms, algorithmVars
<1>3. QED
  BY <1>1, <1>2, PTL DEF AlgorithmsSpec

\* evaluateCondition: a date is compared as the moment it is, in any clock.
THEOREM DatesAreMoments == AlgorithmsSpec => []MomentsAreOne
<1>1. ProbesStay => MomentsAreOne
  <2>1. SUFFICES ASSUME ProbesStay, probe.about = "moments"
                 PROVE  MomentsAgree(probe.x, probe.y, probe.target)
    BY DEF MomentsAreOne, About
  <2>2. probe \in Probes
    BY <2>1 DEF ProbesStay
  <2>3. {probe.x, probe.y, probe.target} \subseteq Moment
    BY <2>1, <2>2, AlgorithmsAssumption
  <2>4. QED
    BY <2>3, MomentsAlwaysAgree
<1>2. QED
  BY <1>1, OperandsStay, PTL

\* evaluateCondition: exactly one of less, equal and greater holds of numbers
\* and of versions, on whatever path each operator is decided.
THEOREM RelationsFit == AlgorithmsSpec => []RelationsAreConsistent
<1>1. ProbesStay => RelationsAreConsistent
  <2>1. SUFFICES ASSUME ProbesStay, probe.about = "relation"
                 PROVE  RelationsAgree(probe.value, probe.target)
    BY DEF RelationsAreConsistent, About
  <2>2. probe \in Probes
    BY <2>1 DEF ProbesStay
  <2>3. probe.value \in ValueType /\ probe.target \in Texts
    BY <2>1, <2>2, AlgorithmsAssumption
  <2>4. QED
    BY <2>3, RelationsAlwaysAgree
<1>2. QED
  BY <1>1, OperandsStay, PTL

\* evaluateCondition: the opposite operator negated is the operator, and a
\* value more turns nothing round.
THEOREM OppositesFit == AlgorithmsSpec => []OppositesAreOpposite
<1>1. ProbesStay => OppositesAreOpposite
  <2>1. SUFFICES ASSUME ProbesStay, probe.about = "condition", NEW extra \in probe.extras
                 PROVE  OppositesAgree(probe.condition, probe.context, extra)
    BY DEF OppositesAreOpposite, About
  <2>2. probe \in Probes
    BY <2>1 DEF ProbesStay
  <2>3. probe.condition \in ConditionType
    BY <2>1, <2>2, AlgorithmsAssumption
  <2>4. QED
    BY <2>3, OppositesAlwaysAgree
<1>2. QED
  BY <1>1, OperandsStay, PTL

\* The operators that divide values between rules leave no gap and no overlap.
THEOREM OperatorsAlwaysFit == AlgorithmsSpec => []OperatorsFit
<1>1. RelationsAreConsistent /\ MomentsAreOne /\ OppositesAreOpposite => OperatorsFit
  BY DEF OperatorsFit
<1>2. QED
  BY <1>1, RelationsFit, DatesAreMoments, OppositesFit, PTL

\* dropUnevaluable and evaluateCondition: a configuration newer than the build
\* opens no rule that its own meaning would keep closed.
THEOREM NewNamesStayClosed == AlgorithmsSpec => []NewNamesNeverOpen
<1>1. ProbesStay => NewNamesNeverOpen
  <2>1. SUFFICES ASSUME ProbesStay, probe.about = "rule", NEW operator \in Recognised
                 PROVE  NewNamesCloseRules(probe.rule, probe.segments, probe.context, operator)
    BY DEF NewNamesNeverOpen, About
  <2>2. probe \in Probes
    BY <2>1 DEF ProbesStay
  <2>3. /\ probe.rule \in [segment : {probe.rule.segment}, groups : SUBSET GroupType,
                           serve : {probe.rule.serve}]
        /\ probe.rule.segment \in DOMAIN probe.segments \union {None}
        /\ probe.segments \in [DOMAIN probe.segments -> GroupType \union {None}]
    BY <2>1, <2>2, AlgorithmsAssumption
  <2>4. QED
    BY <2>3, NewNamesAlwaysClose
<1>2. QED
  BY <1>1, OperandsStay, PTL

\* The warnings, with the size of the set in the place of its bound.
WarningsInv ==
    /\ logged \in Seq(WarningKeys) /\ IsFiniteSet(unbucketableSeen)
    /\ \A i, j \in 1 .. Len(logged) : logged[i] = logged[j] => i = j
    /\ unbucketableSeen = {logged[i] : i \in 1 .. Len(logged)}
    /\ Len(logged) = Cardinality(unbucketableSeen) /\ Len(logged) <= MaxKeys
    /\ skipped \subseteq unbucketableSeen \/ Len(logged) = MaxKeys

LEMMA WarnKeeps ==
    ASSUME WarningsInv, NEW key \in WarningKeys, WarnUnbucketable(key)
    PROVE  WarningsInv'
<1> DEFINE n == Len(logged)
           seen == unbucketableSeen
<1>0. n \in Nat /\ MaxKeys \in Nat
  BY RolloutAssumption DEF WarningsInv
<1>1. CASE key \in seen \/ Cardinality(seen) >= MaxKeys
  <2>1. UNCHANGED <<unbucketableSeen, logged>> /\ skipped' = skipped \union {key}
    BY <1>1 DEF WarnUnbucketable
  <2>2. skipped' \subseteq unbucketableSeen \/ Len(logged) = MaxKeys
    BY <1>0, <1>1, <2>1 DEF WarningsInv
  <2>3. QED
    BY <2>1, <2>2 DEF WarningsInv
<1>2. CASE key \notin seen /\ ~(Cardinality(seen) >= MaxKeys)
  <2>1. /\ unbucketableSeen' = seen \union {key} /\ logged' = Append(logged, key)
        /\ skipped' = skipped \union {key}
    BY <1>2 DEF WarnUnbucketable
  <2>2. /\ IsFiniteSet(unbucketableSeen') /\ Cardinality(unbucketableSeen') = Cardinality(seen) + 1
    BY <1>2, <2>1, FS_AddElement DEF WarningsInv
  <2>3. /\ logged' \in Seq(WarningKeys) /\ Len(logged') = n + 1
        /\ \A i \in 1 .. n : logged'[i] = logged[i]
        /\ logged'[n + 1] = key
    BY <2>1 DEF WarningsInv
  <2>4. \A i \in 1 .. n : logged[i] \in seen
    BY DEF WarningsInv
  <2>5. \A i, j \in 1 .. n + 1 : logged'[i] = logged'[j] => i = j
    BY <1>0, <1>2, <2>3, <2>4 DEF WarningsInv
  <2>6. unbucketableSeen' = {logged'[i] : i \in 1 .. n + 1}
    <3>1. seen = {logged[i] : i \in 1 .. n}
      BY DEF WarningsInv
    <3>2. \A i \in 1 .. n + 1 : i \in 1 .. n \/ i = n + 1
      BY <1>0
    <3>3. \A i \in 1 .. n : i \in 1 .. n + 1
      BY <1>0
    <3>4. n + 1 \in 1 .. n + 1
      BY <1>0
    <3>5. QED
      BY <2>1, <2>3, <3>1, <3>2, <3>3, <3>4
  <2>7. /\ Len(logged') = Cardinality(unbucketableSeen') /\ Len(logged') <= MaxKeys
    BY <1>0, <1>2, <2>2, <2>3 DEF WarningsInv
  <2>8. skipped \subseteq seen
    BY <1>0, <1>2 DEF WarningsInv
  <2>9. QED
    BY <2>1, <2>2, <2>3, <2>5, <2>6, <2>7, <2>8 DEF WarningsInv
<1>3. QED
  BY <1>1, <1>2

\* warnUnbucketable: whatever goroutines skip, a rollout is logged once, until
\* as many are logged as fit.
THEOREM SkipsAreLoggedOnce == AlgorithmsSpec => []SkipsAreToldOnce
<1>1. InitAlgorithms => WarningsInv
  <2>1. SUFFICES ASSUME unbucketableSeen = {}, logged = <<>>, skipped = {} PROVE WarningsInv
    BY DEF InitAlgorithms, InitWarnings
  <2>2. IsFiniteSet({}) /\ Cardinality({}) = 0
    BY FS_EmptySet
  <2>3. QED
    BY <2>1, <2>2, RolloutAssumption DEF WarningsInv
<1>2. WarningsInv /\ [NextAlgorithms]_algorithmVars => WarningsInv'
  <2>1. SUFFICES ASSUME WarningsInv, [NextAlgorithms]_algorithmVars PROVE WarningsInv'
    OBVIOUS
  <2>2. ASSUME UNCHANGED warnVars PROVE WarningsInv'
    BY <2>1, <2>2 DEF WarningsInv, warnVars
  <2>3. ASSUME NEW key \in WarningKeys, WarnUnbucketable(key) PROVE WarningsInv'
    BY <2>1, <2>3, WarnKeeps
  <2>4. QED
    BY <2>1, <2>2, <2>3 DEF NextAlgorithms, algorithmVars
<1>3. WarningsInv => SkipsAreToldOnce
  <2>1. SUFFICES ASSUME WarningsInv PROVE SkipsAreToldOnce
    OBVIOUS
  <2>2. DOMAIN logged = 1 .. Len(logged)
    BY <2>1 DEF WarningsInv
  <2>3. IsInjective(logged) /\ ToSet(logged) = unbucketableSeen
    BY <2>1, <2>2 DEF WarningsInv, IsInjective, ToSet
  <2>4. QED
    BY <2>1, <2>3 DEF WarningsInv, SkipsAreToldOnce
<1>4. QED
  BY <1>1, <1>2, <1>3, PTL DEF AlgorithmsSpec

-----------------------------------------------------------------------------
(* The backoff of the stream: doubling, counted by sets of subsets.        *)

LEMMA SubsetsOfFirst ==
    ASSUME NEW k \in Nat
    PROVE  IsFiniteSet(SUBSET (1 .. k)) /\ Cardinality(SUBSET (1 .. k)) = 2 ^ k
<1>1. IsFiniteSet(1 .. k) /\ Cardinality(1 .. k) = k
  BY FS_Interval
<1>2. QED
  BY <1>1, FS_SUBSET

LEMMA PowerType ==
    ASSUME NEW k \in Nat
    PROVE  2 ^ k \in Nat
BY SubsetsOfFirst, FS_CardinalityType

\* The subsets of 1 .. k + 1 are those of 1 .. k, without and with k + 1.
LEMMA PowerDoubles ==
    ASSUME NEW k \in Nat
    PROVE  2 ^ (k + 1) = 2 * 2 ^ k
<1> DEFINE without == SUBSET (1 .. k)
           with == {T \union {k + 1} : T \in without}
           extend == [T \in without |-> T \union {k + 1}]
<1>0. k + 1 \in Nat /\ k + 1 \notin 1 .. k /\ 1 .. k + 1 = (1 .. k) \union {k + 1}
  OBVIOUS
<1>1. IsFiniteSet(without) /\ Cardinality(without) = 2 ^ k
  BY SubsetsOfFirst
<1>2. ExistsBijection(without, with)
  <2>1. extend \in [without -> with]
    OBVIOUS
  <2>2. \A T, U \in without : extend[T] = extend[U] => T = U
    <3>1. SUFFICES ASSUME NEW T \in without, NEW U \in without,
                          T \union {k + 1} = U \union {k + 1}
                   PROVE  T = U
      OBVIOUS
    <3>2. k + 1 \notin T /\ k + 1 \notin U
      BY <1>0
    <3>3. QED
      BY <3>1, <3>2
  <2>3. \A W \in with : \E T \in without : extend[T] = W
    OBVIOUS
  <2>4. extend \in Bijection(without, with)
    <3> HIDE DEF without, with, extend
    <3>1. QED
      BY <2>1, <2>2, <2>3 DEF Bijection, Injection, Surjection, IsInjective
  <2>5. QED
    BY <2>4 DEF ExistsBijection
<1>3. IsFiniteSet(with) /\ Cardinality(with) = Cardinality(without)
  <2> HIDE DEF without, with
  <2>1. QED
    BY <1>1, <1>2, FS_Bijection
<1>4. without \cap with = {}
  BY <1>0
<1>5. SUBSET (1 .. k + 1) = without \union with
  <2>1. ASSUME NEW W \in SUBSET (1 .. k + 1) PROVE W \in without \union with
    <3>1. CASE k + 1 \notin W
      BY <1>0, <3>1
    <3>2. CASE k + 1 \in W
      <4>1. W \ {k + 1} \in without /\ (W \ {k + 1}) \union {k + 1} = W
        BY <1>0, <3>2
      <4>2. QED
        BY <4>1
    <3>3. QED
      BY <3>1, <3>2
  <2>2. without \union with \subseteq SUBSET (1 .. k + 1)
    BY <1>0
  <2>3. QED
    BY <2>1, <2>2
<1>6. Cardinality({}) = 0
  BY FS_EmptySet
<1>7. Cardinality(without \union with) = 2 ^ k + 2 ^ k
  <2>1. Cardinality(without) \in Nat
    BY <1>1, FS_CardinalityType
  <2> HIDE DEF without, with
  <2>2. Cardinality(without \union with) = Cardinality(without) + Cardinality(without) - 0
    BY <1>1, <1>3, <1>4, <1>6, FS_Union
  <2>3. QED
    BY <1>1, <2>1, <2>2
<1>8. Cardinality(SUBSET (1 .. k + 1)) = 2 ^ (k + 1)
  BY <1>0, SubsetsOfFirst
<1>9. 2 ^ k \in Nat
  BY PowerType
<1>10. ASSUME NEW a \in Nat PROVE a + a = 2 * a
  OBVIOUS
<1> HIDE DEF without, with
<1>11. QED
  BY <1>5, <1>7, <1>8, <1>9, <1>10

\* Doubling and capping is doubling, or the ceiling: a product that does not
\* fit comes out negative.
LEMMA DoublesOrCaps ==
    ASSUME NEW d \in Durations, maxReconnectDelay \in Durations
    PROVE  \/ Capped(Wrap(2 * d)) = maxReconnectDelay
           \/ Capped(Wrap(2 * d)) = 2 * d /\ 2 * d < maxReconnectDelay
<1>1. Half \in Nat /\ Half > 2 /\ d \in Int /\ 2 <= d /\ d < Half
  BY BackoffAssumption DEF Durations
<1>2. Wrap(2 * d) = IF 2 * d < Half THEN 2 * d ELSE 2 * d - 2 * Half
  <2>1. CASE 2 * d < Half
    BY <1>1, <2>1 DEF Wrap
  <2>2. CASE ~(2 * d < Half)
    BY <1>1, <2>2 DEF Wrap
  <2>3. QED
    BY <2>1, <2>2
<1>3. CASE 2 * d < Half
  BY <1>1, <1>2, <1>3 DEF Capped, Durations
<1>4. CASE ~(2 * d < Half)
  <2>1. Wrap(2 * d) <= 0
    BY <1>1, <1>2, <1>4
  <2>2. QED
    BY <2>1 DEF Capped
<1>5. QED
  BY <1>3, <1>4

\* What DoublesUntilCapped says of n failures, of a delay in range.
Grown(n, d) ==
    /\ d \in Durations
    /\ n <= 1 => d = reconnectDelay
    /\ n > 1 => \/ d = maxReconnectDelay
                \/ d = reconnectDelay * 2 ^ (n - 1) /\ d < maxReconnectDelay

\* The delay after n failures, from the one after n - 1.
NextDelay(i, d) == IF i <= 1 THEN reconnectDelay ELSE Capped(Wrap(2 * d))

LEMMA GrowsOn ==
    ASSUME reconnectDelay \in Durations, maxReconnectDelay \in Durations,
           NEW n \in Nat, NEW d, Grown(n, d)
    PROVE  Grown(n + 1, NextDelay(n + 1, d))
<1>1. CASE n = 0
  BY <1>1 DEF Grown, NextDelay
<1>2. CASE n > 0
  <2>1. /\ ~(n + 1 <= 1) /\ n + 1 > 1 /\ (n + 1) - 1 = n /\ d \in Durations
        /\ NextDelay(n + 1, d) = Capped(Wrap(2 * d))
    BY <1>2 DEF Grown, NextDelay
  <2>2. CASE Capped(Wrap(2 * d)) = maxReconnectDelay
    BY <2>1, <2>2 DEF Grown
  <2>3. CASE Capped(Wrap(2 * d)) = 2 * d /\ 2 * d < maxReconnectDelay
    <3>0. d \in Int /\ 2 <= d /\ maxReconnectDelay \in Int /\ 2 * d \in Durations
      BY <2>1, <2>3, BackoffAssumption DEF Durations
    <3>1. d # maxReconnectDelay
      BY <2>3, <3>0
    <3>2. d = reconnectDelay * 2 ^ (n - 1)
      <4>1. CASE n = 1
        <5>1. 2 ^ (n - 1) = 1 /\ d = reconnectDelay /\ reconnectDelay \in Int
          BY <4>1 DEF Grown, Durations
        <5>2. QED
          BY <5>1
      <4>2. CASE n > 1
        BY <3>1, <4>2 DEF Grown
      <4>3. QED
        BY <1>2, <4>1, <4>2
    <3>3. 2 ^ n = 2 * 2 ^ (n - 1) /\ 2 ^ (n - 1) \in Nat
      <4>1. n - 1 \in Nat /\ (n - 1) + 1 = n
        BY <1>2
      <4>2. 2 ^ ((n - 1) + 1) = 2 * 2 ^ (n - 1) /\ 2 ^ (n - 1) \in Nat
        BY <4>1, PowerDoubles, PowerType
      <4>3. QED
        BY <4>1, <4>2
    <3>4. 2 * d = reconnectDelay * 2 ^ n
      <4>1. ASSUME NEW r \in Int, NEW p \in Nat PROVE 2 * (r * p) = r * (2 * p)
        OBVIOUS
      <4>2. reconnectDelay \in Int
        BY DEF Durations
      <4>3. QED
        BY <3>2, <3>3, <4>1, <4>2
    <3>5. QED
      BY <2>1, <2>3, <3>0, <3>4 DEF Grown
  <2>4. QED
    BY <2>1, <2>2, <2>3, DoublesOrCaps
<1>3. QED
  BY <1>1, <1>2

\* The recursion of BackoffDelay has a solution, and every one of its values
\* is what doubling makes of the base delay.
LEMMA DelayIsGrown ==
    ASSUME reconnectDelay \in Durations, maxReconnectDelay \in Durations, NEW n \in Nat
    PROVE  Grown(n, BackoffDelay(n))
<1> DEFINE Solves(g, m) == g = [i \in 0 .. m |-> NextDelay(i, g[i - 1])]
           T == {m \in 0 .. n : \E g : Solves(g, m)}
<1>1. 0 \in T
  <2>1. Solves([i \in 0 .. 0 |-> reconnectDelay], 0)
    BY DEF NextDelay
  <2> HIDE DEF Solves
  <2>2. \E g : Solves(g, 0)
    BY <2>1
  <2>3. QED
    BY <2>2
<1>2. ASSUME NEW m \in Nat, m < n, m \in T PROVE m + 1 \in T
  <2>1. PICK g : Solves(g, m)
    BY <1>2
  <2> DEFINE h == [i \in 0 .. m + 1 |-> IF i = m + 1 THEN NextDelay(m + 1, g[m]) ELSE g[i]]
  <2>2. ASSUME NEW i \in 0 .. m + 1 PROVE h[i] = NextDelay(i, h[i - 1])
    <3>1. CASE i = m + 1
      <4>1. i - 1 = m /\ m \in 0 .. m + 1 /\ m # m + 1
        BY <3>1
      <4>2. h[i - 1] = g[m] /\ h[i] = NextDelay(m + 1, g[m])
        BY <3>1, <4>1
      <4>3. QED
        BY <3>1, <4>2
    <3>2. CASE i # m + 1
      <4>1. i \in 0 .. m /\ h[i] = g[i]
        BY <3>2
      <4>2. g[i] = NextDelay(i, g[i - 1])
        BY <2>1, <4>1
      <4>3. CASE i <= 1
        BY <4>1, <4>2, <4>3 DEF NextDelay
      <4>4. CASE ~(i <= 1)
        <5>1. i - 1 \in 0 .. m + 1 /\ i - 1 # m + 1
          BY <4>1, <4>4
        <5>2. QED
          BY <4>1, <4>2, <5>1
      <4>5. QED
        BY <4>3, <4>4
    <3>3. QED
      BY <3>1, <3>2
  <2>3. h = [i \in 0 .. m + 1 |-> h[i]]
    OBVIOUS
  <2> HIDE DEF h
  <2>4. Solves(h, m + 1)
    BY <2>2, <2>3
  <2>5. m + 1 \in 0 .. n
    BY <1>2
  <2>6. QED
    BY <2>4, <2>5
<1> DEFINE level == CHOOSE g : Solves(g, n)
<1>3. Solves(level, n)
  <2> HIDE DEF T
  <2>1. 0 .. n \subseteq T
    BY <1>1, <1>2, NumbersUpTo
  <2>2. n \in T
    BY <2>1
  <2>3. \E g : Solves(g, n)
    BY <2>2 DEF T
  <2>4. QED
    BY <2>3
<1>4. BackoffDelay(n) = level[n]
  BY DEF BackoffDelay, NextDelay
<1> HIDE DEF level
<1> DEFINE U == {m \in 0 .. n : Grown(m, level[m])}
<1>5. 0 \in U
  <2>1. level[0] = reconnectDelay
    BY <1>3 DEF NextDelay
  <2>2. QED
    BY <2>1 DEF Grown
<1>6. ASSUME NEW m \in Nat, m < n, m \in U PROVE m + 1 \in U
  <2>1. m + 1 \in 0 .. n /\ (m + 1) - 1 = m
    BY <1>6
  <2>2. level[m + 1] = NextDelay(m + 1, level[m])
    BY <1>3, <2>1
  <2>3. Grown(m, level[m])
    BY <1>6
  <2>4. Grown(m + 1, NextDelay(m + 1, level[m]))
    BY <2>3, GrowsOn
  <2>5. QED
    BY <2>1, <2>2, <2>4
<1> HIDE DEF U
<1>7. 0 .. n \subseteq U
  BY <1>5, <1>6, NumbersUpTo
<1>8. n \in U
  BY <1>7
<1>9. QED
  BY <1>4, <1>8 DEF U

\* The durations of the source stay, and the failures are counted from 0.
BackoffTyped ==
    /\ reconnectDelay \in Durations /\ maxReconnectDelay \in Durations
    /\ failures \in Nat

\* backoffDelay and withJitter: for every width of the integers and every pair
\* of durations, waits double from the base to the ceiling and stay positive.
THEOREM WaitsGrow == AlgorithmsSpec => []WaitsGrowWithinBounds
<1>1. InitAlgorithms => BackoffTyped
  BY BackoffAssumption DEF InitAlgorithms, Init, Resting, BackoffTyped, Durations
<1>2. BackoffTyped /\ [NextAlgorithms]_algorithmVars => BackoffTyped'
  BY DEF BackoffTyped, NextAlgorithms, algorithmVars, vars, Fail, Recover, Durations
<1>3. BackoffTyped => WaitsGrowWithinBounds
  <2>1. SUFFICES ASSUME BackoffTyped PROVE WaitsGrowWithinBounds
    OBVIOUS
  <2> DEFINE d == BackoffDelay(failures)
  <2>2. Grown(failures, d)
    BY <2>1, DelayIsGrown DEF BackoffTyped
  <2> HIDE DEF d
  <2>3. d \in Int /\ d >= 2 /\ (d = reconnectDelay \/ d <= maxReconnectDelay)
    BY <2>1, <2>2 DEF Grown, BackoffTyped, Durations
  <2>4. ASSUME NEW delay \in Jittered(d)
        PROVE  delay > 0 /\ (delay <= reconnectDelay \/ delay <= maxReconnectDelay)
    <3>1. delay \in d \div 2 .. 2 * (d \div 2)
      BY <2>3 DEF Jittered
    <3>2. d \div 2 \in Int /\ d \div 2 >= 1 /\ 2 * (d \div 2) <= d
      BY <2>3
    <3>3. delay \in Int /\ delay > 0 /\ delay <= d
      BY <2>3, <3>1, <3>2
    <3>4. reconnectDelay \in Int /\ maxReconnectDelay \in Int
      BY <2>1 DEF BackoffTyped, Durations
    <3>5. QED
      BY <2>3, <3>3, <3>4
  <2>5. WaitsWithinBounds
    BY <2>4 DEF WaitsWithinBounds, d
  <2>6. DoublesUntilCapped
    BY <2>1, <2>2 DEF DoublesUntilCapped, Grown, BackoffTyped, d
  <2>7. QED
    BY <2>5, <2>6 DEF WaitsGrowWithinBounds
<1>4. QED
  BY <1>1, <1>2, <1>3, PTL DEF AlgorithmsSpec

-----------------------------------------------------------------------------
(* The walk over the weights of a rollout.                                 *)

\* The sums that the walk adds up, from weight to weight.
LEMMA CumulativeUnfolds ==
    ASSUME NEW w, NEW n \in Nat, Len(w) = n
    PROVE  /\ Cumulative(w, 0) = 0
           /\ \A i \in 1 .. n : Cumulative(w, i) = Cumulative(w, i - 1) + w[i].weight
<1> DEFINE Add(i, d) == IF i = 0 THEN 0 ELSE d + w[i].weight
           Solves(g, m) == g = [i \in 0 .. m |-> Add(i, g[i - 1])]
           T == {m \in 0 .. n : \E g : Solves(g, m)}
<1>1. 0 \in T
  <2>1. Solves([i \in 0 .. 0 |-> 0], 0)
    OBVIOUS
  <2> HIDE DEF Solves
  <2>2. \E g : Solves(g, 0)
    BY <2>1
  <2>3. QED
    BY <2>2
<1>2. ASSUME NEW m \in Nat, m < n, m \in T PROVE m + 1 \in T
  <2>1. PICK g : Solves(g, m)
    BY <1>2
  <2> DEFINE h == [i \in 0 .. m + 1 |-> IF i = m + 1 THEN Add(m + 1, g[m]) ELSE g[i]]
  <2>2. ASSUME NEW i \in 0 .. m + 1 PROVE h[i] = Add(i, h[i - 1])
    <3>1. CASE i = m + 1
      <4>1. i - 1 = m /\ m \in 0 .. m + 1 /\ m # m + 1
        BY <3>1
      <4>2. h[i - 1] = g[m] /\ h[i] = Add(m + 1, g[m])
        BY <3>1, <4>1
      <4>3. QED
        BY <3>1, <4>2
    <3>2. CASE i # m + 1
      <4>1. i \in 0 .. m /\ h[i] = g[i]
        BY <3>2
      <4>2. g[i] = Add(i, g[i - 1])
        BY <2>1, <4>1
      <4>3. CASE i = 0
        BY <4>1, <4>2, <4>3
      <4>4. CASE i # 0
        <5>1. i - 1 \in 0 .. m + 1 /\ i - 1 # m + 1
          BY <4>1, <4>4
        <5>2. QED
          BY <4>1, <4>2, <5>1
      <4>5. QED
        BY <4>3, <4>4
    <3>3. QED
      BY <3>1, <3>2
  <2>3. h = [i \in 0 .. m + 1 |-> h[i]]
    OBVIOUS
  <2> HIDE DEF h
  <2>4. Solves(h, m + 1)
    BY <2>2, <2>3
  <2>5. m + 1 \in 0 .. n
    BY <1>2
  <2>6. QED
    BY <2>4, <2>5
<1> DEFINE sum == CHOOSE g : Solves(g, n)
<1>3. Solves(sum, n)
  <2> HIDE DEF T
  <2>1. 0 .. n \subseteq T
    BY <1>1, <1>2, NumbersUpTo
  <2>2. n \in T
    BY <2>1
  <2>3. \E g : Solves(g, n)
    BY <2>2 DEF T
  <2>4. QED
    BY <2>3
<1>4. ASSUME NEW i PROVE Cumulative(w, i) = sum[i]
  BY DEF Cumulative
<1> HIDE DEF sum
<1>5. sum[0] = 0
  BY <1>3
<1>6. ASSUME NEW i \in 1 .. n PROVE sum[i] = sum[i - 1] + w[i].weight
  BY <1>3
<1>7. QED
  BY <1>4, <1>5, <1>6

\* The sums are natural numbers and only grow.
LEMMA CumulativeGrows ==
    ASSUME NEW w, Weighted(w)
    PROVE  /\ \A i \in 0 .. Len(w) : Cumulative(w, i) \in Nat
           /\ \A i, j \in 0 .. Len(w) : i <= j => Cumulative(w, i) <= Cumulative(w, j)
<1> DEFINE n == Len(w)
           Grows(m) == \A i \in 0 .. m : /\ Cumulative(w, i) \in Nat
                                         /\ Cumulative(w, i) <= Cumulative(w, m)
           T == {m \in 0 .. n : Grows(m)}
<1>0. n \in Nat /\ \A i \in 1 .. n : w[i].weight \in Nat
  BY DEF Weighted
<1>1. 0 \in T
  <2>1. Cumulative(w, 0) = 0
    BY <1>0, CumulativeUnfolds
  <2>2. QED
    BY <1>0, <2>1
<1>2. ASSUME NEW m \in Nat, m < n, m \in T PROVE m + 1 \in T
  <2>1. m + 1 \in 1 .. n /\ (m + 1) - 1 = m
    BY <1>0, <1>2
  <2>2. Cumulative(w, m + 1) = Cumulative(w, m) + w[m + 1].weight
    BY <1>0, <2>1, CumulativeUnfolds
  <2>3. Grows(m) /\ Cumulative(w, m) \in Nat
    BY <1>2
  <2>4. ASSUME NEW i \in 0 .. m + 1
        PROVE  Cumulative(w, i) \in Nat /\ Cumulative(w, i) <= Cumulative(w, m + 1)
    <3>0. w[m + 1].weight \in Nat
      BY <1>0, <2>1
    <3>1. CASE i = m + 1
      BY <2>2, <2>3, <3>0, <3>1
    <3>2. CASE i \in 0 .. m
      <4>1. Cumulative(w, i) \in Nat /\ Cumulative(w, i) <= Cumulative(w, m)
        BY <2>3, <3>2
      <4>2. QED
        BY <2>2, <2>3, <3>0, <4>1
    <3>3. QED
      BY <3>1, <3>2
  <2>5. m + 1 \in 0 .. n
    BY <2>1
  <2>6. QED
    BY <2>4, <2>5
<1> HIDE DEF T
<1>3. 0 .. n \subseteq T
  BY <1>0, <1>1, <1>2, NumbersUpTo
<1>4. \A m \in 0 .. n : Grows(m)
  BY <1>3 DEF T
<1>5. \A m \in 0 .. n : Cumulative(w, m) \in Nat
  BY <1>4
<1>6. ASSUME NEW i \in 0 .. n, NEW j \in 0 .. n, i <= j
      PROVE  Cumulative(w, i) <= Cumulative(w, j)
  <2>1. i \in 0 .. j
    BY <1>0, <1>6
  <2>2. QED
    BY <1>4, <2>1
<1>7. QED
  BY <1>5, <1>6

\* Where the walk ends for a bucket: at the weight that passes it, or the last.
EndsAt(w, b, k) ==
    /\ k \in 1 .. Len(w) /\ Cumulative(w, k - 1) <= b
    /\ b < Cumulative(w, k) \/ k = Len(w)

LEMMA WalkEnds ==
    ASSUME NEW w, Weighted(w), NEW b \in Nat
    PROVE  \E k \in 1 .. Len(w) : EndsAt(w, b, k) /\ ServeBucket(w, b) = w[k].key
<1> DEFINE n == Len(w)
           reached == {i \in DOMAIN w : b < Cumulative(w, i)}
           walked == IF reached = {} THEN n
                     ELSE CHOOSE i \in reached : \A j \in reached : i <= j
<1>1. n \in Nat /\ n > 0 /\ DOMAIN w = 1 .. n
  BY DEF Weighted
<1>2. \A i \in 0 .. n : Cumulative(w, i) \in Nat
  BY CumulativeGrows
<1>3. ServeBucket(w, b) = w[walked].key
  BY DEF ServeBucket
<1>4. Cumulative(w, 0) = 0
  BY <1>1, CumulativeUnfolds
<1>5. EndsAt(w, b, walked)
  <2>1. CASE reached = {}
    <3>1. walked = n /\ n - 1 \in 0 .. n /\ n \in 1 .. n
      BY <1>1, <2>1
    <3>2. CASE n = 1
      BY <1>1, <1>4, <3>1, <3>2 DEF EndsAt
    <3>3. CASE n # 1
      <4>1. n - 1 \in 1 .. n
        BY <1>1, <3>3
      <4>2. ~(b < Cumulative(w, n - 1))
        BY <1>1, <2>1, <4>1
      <4>3. Cumulative(w, n - 1) \in Nat
        BY <1>2, <3>1
      <4>4. Cumulative(w, n - 1) <= b
        BY <4>2, <4>3
      <4>5. QED
        BY <3>1, <4>4 DEF EndsAt
    <3>4. QED
      BY <3>2, <3>3
  <2>2. CASE reached # {}
    <3>1. reached \subseteq Nat
      BY <1>1
    <3>2. \E i \in reached : \A j \in reached : i <= j
      <4> HIDE DEF reached
      <4>1. PICK i \in reached : \A j \in reached : ~(<<j, i>> \in OpToRel(<, Nat))
        BY <2>2, <3>1, NatLessThanWellFounded, WFMin
      <4>2. \A j \in reached : ~(j < i)
        BY <3>1, <4>1 DEF OpToRel
      <4>3. QED
        BY <3>1, <4>2
    <3>3. walked \in reached /\ \A j \in reached : walked <= j
      BY <2>2, <3>2
    <3> HIDE DEF walked
    <3>4. walked \in 1 .. n /\ b < Cumulative(w, walked)
      BY <1>1, <3>3
    <3>5. Cumulative(w, walked - 1) <= b
      <4>1. CASE walked = 1
        BY <1>4, <4>1
      <4>2. CASE walked # 1
        <5>1. walked - 1 \in 1 .. n /\ walked - 1 \in 0 .. n /\ ~(walked <= walked - 1)
          BY <1>1, <3>4, <4>2
        <5>2. walked - 1 \notin reached
          BY <3>3, <5>1
        <5>3. ~(b < Cumulative(w, walked - 1))
          BY <1>1, <5>1, <5>2
        <5>4. Cumulative(w, walked - 1) \in Nat
          BY <1>2, <5>1
        <5>5. QED
          BY <5>3, <5>4
      <4>3. QED
        BY <4>1, <4>2
    <3>6. QED
      BY <3>4, <3>5 DEF EndsAt
  <2>3. QED
    BY <2>1, <2>2
<1> HIDE DEF walked
<1>6. walked \in 1 .. n
  BY <1>5 DEF EndsAt
<1>7. QED
  BY <1>3, <1>5, <1>6

\* There is one such place.
LEMMA EndIsOne ==
    ASSUME NEW w, Weighted(w), NEW b \in Nat, NEW i, EndsAt(w, b, i), NEW k, EndsAt(w, b, k)
    PROVE  i = k
<1> DEFINE n == Len(w)
<1>1. n \in Nat /\ i \in 1 .. n /\ k \in 1 .. n
  BY DEF Weighted, EndsAt
<1>2. ASSUME NEW x \in 1 .. n, NEW y \in 1 .. n, x < y, EndsAt(w, b, x), EndsAt(w, b, y)
      PROVE  FALSE
  <2>1. x # n /\ x \in 0 .. n /\ y - 1 \in 0 .. n /\ x <= y - 1
    BY <1>1, <1>2
  <2>2. b < Cumulative(w, x) /\ Cumulative(w, y - 1) <= b
    BY <1>2, <2>1 DEF EndsAt
  <2>3. /\ Cumulative(w, x) \in Nat /\ Cumulative(w, y - 1) \in Nat
        /\ Cumulative(w, x) <= Cumulative(w, y - 1)
    BY <2>1, CumulativeGrows
  <2>4. QED
    BY <2>2, <2>3
<1>3. ~(i < k) /\ ~(k < i)
  BY <1>1, <1>2
<1>4. QED
  BY <1>1, <1>3

LEMMA ServedAt ==
    ASSUME NEW w, Weighted(w), NEW b \in Nat, NEW k, EndsAt(w, b, k)
    PROVE  ServeBucket(w, b) = w[k].key
<1>1. PICK i \in 1 .. Len(w) : EndsAt(w, b, i) /\ ServeBucket(w, b) = w[i].key
  BY WalkEnds
<1>2. i = k
  BY <1>1, EndIsOne
<1>3. QED
  BY <1>1, <1>2

\* A variation is served the buckets at which the walk ends with it.
LEMMA ServedExactly ==
    ASSUME NEW w, Weighted(w), NEW b \in Nat, NEW i \in 1 .. Len(w)
    PROVE  ServeBucket(w, b) = w[i].key <=> EndsAt(w, b, i)
<1>1. ASSUME ServeBucket(w, b) = w[i].key PROVE EndsAt(w, b, i)
  <2>1. PICK k \in 1 .. Len(w) : EndsAt(w, b, k) /\ ServeBucket(w, b) = w[k].key
    BY WalkEnds
  <2>2. k = i
    BY <1>1, <2>1 DEF Weighted
  <2>3. QED
    BY <2>1, <2>2
<1>2. QED
  BY <1>1, ServedAt

LEMMA SharesAlwaysFollow ==
    ASSUME NEW w, Weighted(w)
    PROVE  SharesFollowWeights(w)
<1> DEFINE n == Len(w)
           Mine(i) == {b \in 0 .. Buckets - 1 : ServeBucket(w, b) = w[i].key}
           Upto(i) == IF Cumulative(w, i) < Buckets THEN Cumulative(w, i) ELSE Buckets
<1>1. n \in Nat /\ n > 0 /\ Buckets \in Nat /\ Buckets > 0
  BY RolloutAssumption DEF Weighted
<1>2. \A i \in 0 .. n : Cumulative(w, i) \in Nat
  BY CumulativeGrows
<1>3. \A i \in 0 .. n : Upto(i) \in 0 .. Buckets
  BY <1>1, <1>2
<1>4. ASSUME NEW i \in 1 .. n - 1
      PROVE  Cardinality(Mine(i)) = Upto(i) - Upto(i - 1)
  <2>1. i \in 1 .. n /\ i \in 0 .. n /\ i - 1 \in 0 .. n /\ i # n /\ i - 1 <= i
    BY <1>1
  <2>2. /\ Cumulative(w, i - 1) \in Nat /\ Cumulative(w, i) \in Nat
        /\ Cumulative(w, i - 1) <= Cumulative(w, i)
    BY <2>1, CumulativeGrows
  <2>3. Upto(i - 1) \in Int /\ Upto(i) \in Int /\ Upto(i - 1) <= Upto(i)
    BY <1>1, <2>2
  <2>4. Mine(i) = Upto(i - 1) .. Upto(i) - 1
    <3>1. ASSUME NEW b \in 0 .. Buckets - 1
          PROVE  b \in Mine(i) <=> Cumulative(w, i - 1) <= b /\ b < Cumulative(w, i)
      <4>1. b \in Nat
        BY <1>1
      <4>2. ServeBucket(w, b) = w[i].key <=> EndsAt(w, b, i)
        BY <2>1, <4>1, ServedExactly
      <4>3. QED
        BY <2>1, <4>2 DEF EndsAt
    <3>2. ASSUME NEW b \in 0 .. Buckets - 1
          PROVE  Cumulative(w, i - 1) <= b /\ b < Cumulative(w, i) <=> b \in Upto(i - 1) .. Upto(i) - 1
      BY <1>1, <2>2
    <3>3. Upto(i - 1) .. Upto(i) - 1 \subseteq 0 .. Buckets - 1
      BY <1>1, <2>2
    <3>4. Mine(i) \subseteq 0 .. Buckets - 1
      OBVIOUS
    <3> HIDE DEF Mine, Upto
    <3>5. QED
      BY <3>1, <3>2, <3>3, <3>4
  <2> HIDE DEF Mine, Upto
  <2>5. Upto(i) - 1 \in Int
    BY <2>3
  <2>6. Cardinality(Mine(i)) =
          IF Upto(i - 1) > Upto(i) - 1 THEN 0 ELSE (Upto(i) - 1) - Upto(i - 1) + 1
    BY <2>3, <2>4, <2>5, FS_Interval
  <2>7. QED
    BY <2>3, <2>6
<1>5. Cardinality(Mine(n)) = Buckets - Upto(n - 1)
  <2>1. n \in 1 .. n /\ n - 1 \in 0 .. n
    BY <1>1
  <2>2. Cumulative(w, n - 1) \in Nat
    BY <1>2, <2>1
  <2>3. Upto(n - 1) \in Int /\ Upto(n - 1) <= Buckets
    BY <1>1, <2>2
  <2>4. Mine(n) = Upto(n - 1) .. Buckets - 1
    <3>1. ASSUME NEW b \in 0 .. Buckets - 1
          PROVE  b \in Mine(n) <=> Cumulative(w, n - 1) <= b
      <4>1. b \in Nat
        BY <1>1
      <4>2. ServeBucket(w, b) = w[n].key <=> EndsAt(w, b, n)
        BY <2>1, <4>1, ServedExactly
      <4>3. QED
        BY <2>1, <4>2 DEF EndsAt
    <3>2. ASSUME NEW b \in 0 .. Buckets - 1
          PROVE  Cumulative(w, n - 1) <= b <=> b \in Upto(n - 1) .. Buckets - 1
      BY <1>1, <2>2
    <3>3. Upto(n - 1) .. Buckets - 1 \subseteq 0 .. Buckets - 1
      BY <1>1, <2>2
    <3>4. Mine(n) \subseteq 0 .. Buckets - 1
      OBVIOUS
    <3> HIDE DEF Mine, Upto
    <3>5. QED
      BY <3>1, <3>2, <3>3, <3>4
  <2> HIDE DEF Mine, Upto
  <2>5. Buckets - 1 \in Int
    BY <1>1
  <2>6. Cardinality(Mine(n)) =
          IF Upto(n - 1) > Buckets - 1 THEN 0 ELSE (Buckets - 1) - Upto(n - 1) + 1
    BY <2>3, <2>4, <2>5, FS_Interval
  <2>7. QED
    BY <1>1, <2>3, <2>6
<1>6. QED
  BY <1>4, <1>5 DEF SharesFollowWeights

LEMMA WideningAlwaysKeeps ==
    ASSUME NEW w, Weighted(w), NEW v, Weighted(v)
    PROVE  WideningKeepsMembers(w, v)
<1>1. SUFFICES ASSUME NEW i \in DOMAIN w \cap DOMAIN v,
                      \A j \in 1 .. i - 1 : w[j] = v[j],
                      w[i].key = v[i].key, w[i].weight <= v[i].weight,
                      NEW b \in 0 .. Buckets - 1, b < Cumulative(w, i)
               PROVE  ServeBucket(w, b) = ServeBucket(v, b)
  BY DEF WideningKeepsMembers
<1>2. /\ Len(w) \in Nat /\ Len(v) \in Nat /\ i \in 1 .. Len(w) /\ i \in 1 .. Len(v) /\ b \in Nat
      /\ w[i].weight \in Nat /\ v[i].weight \in Nat
  BY <1>1, RolloutAssumption DEF Weighted
\* The sums agree before i, and at i that of v has grown.
<1> DEFINE T == {m \in 0 .. i - 1 : Cumulative(w, m) = Cumulative(v, m)}
<1>3. \A m \in 0 .. i - 1 : Cumulative(w, m) = Cumulative(v, m)
  <2>1. 0 \in T
    BY <1>2, CumulativeUnfolds
  <2>2. ASSUME NEW m \in Nat, m < i - 1, m \in T PROVE m + 1 \in T
    <3>1. /\ m + 1 \in 1 .. Len(w) /\ m + 1 \in 1 .. Len(v) /\ m + 1 \in 1 .. i - 1
          /\ (m + 1) - 1 = m /\ m + 1 \in 0 .. i - 1
      BY <1>2, <2>2
    <3>2. Cumulative(w, m + 1) = Cumulative(w, m) + w[m + 1].weight
      BY <1>2, <3>1, CumulativeUnfolds
    <3>3. Cumulative(v, m + 1) = Cumulative(v, m) + v[m + 1].weight
      BY <1>2, <3>1, CumulativeUnfolds
    <3>4. w[m + 1] = v[m + 1]
      BY <1>1, <3>1
    <3>5. QED
      BY <2>2, <3>1, <3>2, <3>3, <3>4
  <2>3. i - 1 \in Nat
    BY <1>2
  <2> HIDE DEF T
  <2>4. 0 .. i - 1 \subseteq T
    BY <2>1, <2>2, <2>3, NumbersUpTo
  <2>5. QED
    BY <2>4 DEF T
<1>4. b < Cumulative(v, i)
  <2>1. i - 1 \in 0 .. i - 1 /\ i - 1 \in 0 .. Len(w) /\ i \in 0 .. Len(w) /\ i \in 0 .. Len(v)
    BY <1>2
  <2>2. Cumulative(w, i) = Cumulative(w, i - 1) + w[i].weight
    BY <1>2, CumulativeUnfolds
  <2>3. Cumulative(v, i) = Cumulative(v, i - 1) + v[i].weight
    BY <1>2, CumulativeUnfolds
  <2>4. Cumulative(w, i - 1) = Cumulative(v, i - 1) /\ Cumulative(w, i - 1) \in Nat
    BY <1>3, <2>1, CumulativeGrows
  <2>5. QED
    BY <1>1, <1>2, <2>2, <2>3, <2>4
<1>5. PICK k \in 1 .. Len(w) : EndsAt(w, b, k) /\ ServeBucket(w, b) = w[k].key
  BY <1>2, WalkEnds
<1>6. k <= i
  <2>1. SUFFICES ASSUME i < k PROVE FALSE
    BY <1>2
  <2>2. i \in 0 .. Len(w) /\ k - 1 \in 0 .. Len(w) /\ i <= k - 1
    BY <1>2, <2>1
  <2>3. /\ Cumulative(w, i) \in Nat /\ Cumulative(w, k - 1) \in Nat
        /\ Cumulative(w, i) <= Cumulative(w, k - 1)
    BY <2>2, CumulativeGrows
  <2>4. Cumulative(w, k - 1) <= b
    BY <1>5 DEF EndsAt
  <2>5. QED
    BY <1>1, <1>2, <2>3, <2>4
<1>7. EndsAt(v, b, k) /\ w[k].key = v[k].key
  <2>1. k \in 1 .. Len(v) /\ k - 1 \in 0 .. i - 1
    BY <1>2, <1>6
  <2>2. Cumulative(v, k - 1) <= b
    BY <1>3, <1>5, <2>1 DEF EndsAt
  <2>3. CASE k = i
    BY <1>1, <1>4, <2>1, <2>2, <2>3 DEF EndsAt
  <2>4. CASE k < i
    <3>1. k # Len(w) /\ k \in 0 .. i - 1 /\ k \in 1 .. i - 1
      BY <1>2, <2>4
    <3>2. b < Cumulative(v, k)
      BY <1>3, <1>5, <3>1 DEF EndsAt
    <3>3. w[k] = v[k]
      BY <1>1, <3>1
    <3>4. QED
      BY <2>1, <2>2, <3>2, <3>3 DEF EndsAt
  <2>5. QED
    BY <1>2, <1>6, <2>3, <2>4
<1>8. QED
  BY <1>2, <1>5, <1>7, ServedAt

\* resolveServe: for weights of any number and size, each variation gets its
\* share of the buckets, and a rollout that is widened takes nobody back.
THEOREM RolloutsStayFair == AlgorithmsSpec => []RolloutsAreFair
<1>1. ProbesStay => RolloutsAreFair
  <2>1. SUFFICES ASSUME ProbesStay, probe.about = "weights" PROVE RolloutsAreFair
    BY DEF RolloutsAreFair, SharesAreExact, NobodyIsTakenBack, About
  <2>2. Weighted(probe.weights) /\ Weighted(probe.wider)
    BY <2>1, AlgorithmsAssumption DEF ProbesStay
  <2>3. QED
    BY <2>2, SharesAlwaysFollow, WideningAlwaysKeeps
       DEF RolloutsAreFair, SharesAreExact, NobodyIsTakenBack
<1>2. QED
  BY <1>1, OperandsStay, PTL

-----------------------------------------------------------------------------
(* The spelling of numbers.  The form of a text can be told from its first, *)
(* second and last places, and the number can be read from its form.        *)

LEMMA ZerosAre ==
    ASSUME NEW n \in Nat
    PROVE  Zeros(n) \in Seq(Int) /\ Len(Zeros(n)) = n /\ \A i \in 1 .. n : Zeros(n)[i] = 0
<1>1. Zeros(n) \in [1 .. n -> Int]
  BY DEF Zeros
<1>2. Zeros(n) \in Seq(Int)
  BY <1>1, SeqDef
<1>3. DOMAIN Zeros(n) = 1 .. n
  BY DEF Zeros
<1>4. QED
  BY <1>2, <1>3 DEF Zeros

\* What two texts come to one after the other.
Joins(t, a, b, m, k) ==
    /\ Len(t) = m + k
    /\ \A i \in 1 .. m : t[i] = a[i]
    /\ \A i \in 1 .. k : t[m + i] = b[i]

LEMMA Joined ==
    ASSUME NEW a \in Seq(Int), NEW b \in Seq(Int), NEW m \in Nat, NEW k \in Nat,
           Len(a) = m, Len(b) = k, NEW t, t = a \o b
    PROVE  t \in Seq(Int) /\ Joins(t, a, b, m, k)
<1>1. /\ t \in Seq(Int) /\ Len(t) = Len(a) + Len(b)
      /\ \A i \in 1 .. Len(a) + Len(b) : t[i] = IF i <= Len(a) THEN a[i] ELSE b[i - Len(a)]
  BY ConcatProperties
<1>2. \A i \in 1 .. k : m + i \in 1 .. m + k /\ ~(m + i <= m) /\ (m + i) - m = i
  OBVIOUS
<1>3. QED
  BY <1>1, <1>2 DEF Joins

\* A number other than zero.
Proper(d) == d \in Digits /\ d # <<>>

LEMMA ProperDigits ==
    ASSUME NEW d, Proper(d)
    PROVE  /\ Len(d) \in Nat /\ Len(d) > 0 /\ d \in Seq(Int)
           /\ \A i \in 1 .. Len(d) : d[i] \in 0 .. 9
           /\ d[1] # 0 /\ d[Len(d)] # 0
<1>1. d \in Seq(0 .. 9) /\ d # <<>> /\ d[1] # 0 /\ d[Len(d)] # 0
  BY DEF Proper, Digits
<1>2. d \in Seq(Int)
  <2>1. 0 .. 9 \subseteq Int
    OBVIOUS
  <2>2. QED
    BY <1>1, <2>1, SeqMonotonic
<1>3. Len(d) > 0
  BY <1>1, EmptySeq
<1>4. QED
  BY <1>1, <1>2, <1>3

\* The four forms, place by place.
Whole(t, d, n) ==
    /\ Len(d) <= n /\ Len(t) = n
    /\ \A i \in 1 .. Len(d) : t[i] = d[i]
    /\ \A i \in Len(d) + 1 .. n : t[i] = 0

Broken(t, d, n) ==
    /\ 0 < n /\ n < Len(d) /\ Len(t) = Len(d) + 1
    /\ \A i \in 1 .. n : t[i] = d[i]
    /\ t[n + 1] = Point
    /\ \A i \in n + 1 .. Len(d) : t[i + 1] = d[i]

Small(t, d, n) ==
    /\ n <= 0 /\ Len(t) = 2 - n + Len(d)
    /\ t[1] = 0 /\ t[2] = Point
    /\ \A i \in 1 .. -n : t[2 + i] = 0
    /\ \A i \in 1 .. Len(d) : t[2 - n + i] = d[i]

Short(t, d, n) ==
    /\ n > 21 \/ n <= -6
    /\ Len(d) = 1 /\ Len(t) = 3
    /\ t[1] = d[1] /\ t[2] = Exponent /\ t[3] = n - 1

Long(t, d, n) ==
    /\ n > 21 \/ n <= -6
    /\ Len(d) > 1 /\ Len(t) = Len(d) + 3
    /\ t[1] = d[1] /\ t[2] = Point
    /\ \A i \in 2 .. Len(d) : t[i + 1] = d[i]
    /\ t[Len(d) + 2] = Exponent /\ t[Len(d) + 3] = n - 1

Spelled(t, d, n) ==
    \/ Whole(t, d, n) \/ Broken(t, d, n) \/ Small(t, d, n) \/ Short(t, d, n) \/ Long(t, d, n)

LEMMA SpelledWhole ==
    ASSUME NEW d, Proper(d), NEW n \in Int, Len(d) <= n
    PROVE  d \o Zeros(n - Len(d)) \in Seq(Int) /\ Whole(d \o Zeros(n - Len(d)), d, n)
<1> DEFINE z == Zeros(n - Len(d))
           t == d \o z
<1>1. Len(d) \in Nat /\ d \in Seq(Int) /\ n - Len(d) \in Nat
  BY ProperDigits
<1>2. z \in Seq(Int) /\ Len(z) = n - Len(d) /\ \A i \in 1 .. n - Len(d) : z[i] = 0
  BY <1>1, ZerosAre
<1> HIDE DEF z
<1>3. /\ t \in Seq(Int) /\ Len(t) = n
      /\ \A i \in 1 .. n : t[i] = IF i <= Len(d) THEN d[i] ELSE z[i - Len(d)]
  BY <1>1, <1>2, ConcatProperties
<1> HIDE DEF t
<1>4. \A i \in 1 .. Len(d) : t[i] = d[i]
  BY <1>1, <1>3
<1>5. \A i \in Len(d) + 1 .. n : t[i] = 0
  <2>1. \A i \in Len(d) + 1 .. n : i \in 1 .. n /\ ~(i <= Len(d)) /\ i - Len(d) \in 1 .. n - Len(d)
    BY <1>1
  <2>2. QED
    BY <1>2, <1>3, <2>1
<1>6. QED
  BY <1>3, <1>4, <1>5 DEF Whole, t, z

LEMMA JoinedBroken ==
    ASSUME NEW d, NEW k \in Nat, Len(d) = k, NEW n \in Nat, 0 < n, n < k,
           NEW a, \A i \in 1 .. n : a[i] = d[i],
           NEW p, p[1] = Point, NEW c, \A i \in 1 .. k - n : c[i] = d[n + i],
           NEW ap, Joins(ap, a, p, n, 1), NEW t, Joins(t, ap, c, n + 1, k - n)
    PROVE  Broken(t, d, n)
<1>1. \A i \in 1 .. n : t[i] = d[i]
  <2>1. \A i \in 1 .. n : i \in 1 .. n + 1
    OBVIOUS
  <2>2. QED
    BY <2>1 DEF Joins
<1>2. t[n + 1] = Point
  <2>1. n + 1 \in 1 .. n + 1 /\ 1 \in 1 .. 1
    OBVIOUS
  <2>2. t[n + 1] = ap[n + 1] /\ ap[n + 1] = p[1]
    BY <2>1 DEF Joins
  <2>3. QED
    BY <2>2
<1>3. ASSUME NEW i \in n + 1 .. k PROVE t[i + 1] = d[i]
  <2>1. i - n \in 1 .. k - n /\ (n + 1) + (i - n) = i + 1 /\ n + (i - n) = i
    OBVIOUS
  <2>2. t[(n + 1) + (i - n)] = c[i - n] /\ c[i - n] = d[n + (i - n)]
    BY <2>1 DEF Joins
  <2>3. QED
    BY <2>1, <2>2
<1>4. Len(t) = k + 1
  <2>1. Len(t) = (n + 1) + (k - n)
    BY DEF Joins
  <2>2. QED
    BY <2>1
<1>5. QED
  BY <1>1, <1>2, <1>3, <1>4 DEF Broken

LEMMA SpelledBroken ==
    ASSUME NEW d, Proper(d), NEW n \in Int, 0 < n, n < Len(d),
           NEW t, t = SubSeq(d, 1, n) \o <<Point>> \o SubSeq(d, n + 1, Len(d))
    PROVE  t \in Seq(Int) /\ Broken(t, d, n)
<1> DEFINE k == Len(d)
           a == SubSeq(d, 1, n)
           c == SubSeq(d, n + 1, k)
           p == <<Point>>
           ap == a \o p
<1>1. k \in Nat /\ n \in Nat /\ \A i \in 1 .. k : d[i] \in Int
  BY ProperDigits
<1>2. a \in Seq(Int) /\ Len(a) = n /\ \A i \in 1 .. n : a[i] = d[i]
  <2>1. \A i \in 1 .. n : d[i] \in Int
    BY <1>1
  <2>2. /\ a \in Seq(Int) /\ Len(a) = IF 1 <= n THEN n - 1 + 1 ELSE 0
        /\ \A i \in 1 .. n - 1 + 1 : a[i] = d[1 + i - 1]
    BY <2>1, SubSeqProperties
  <2>3. QED
    BY <2>2
<1>3. c \in Seq(Int) /\ Len(c) = k - n /\ \A i \in 1 .. k - n : c[i] = d[n + i]
  <2>1. \A i \in n + 1 .. k : d[i] \in Int
    BY <1>1
  <2>2. /\ c \in Seq(Int) /\ Len(c) = IF n + 1 <= k THEN k - (n + 1) + 1 ELSE 0
        /\ \A i \in 1 .. k - (n + 1) + 1 : c[i] = d[(n + 1) + i - 1]
    BY <1>1, <2>1, SubSeqProperties
  <2>3. QED
    BY <1>1, <2>2
<1>4. p \in Seq(Int) /\ Len(p) = 1 /\ p[1] = Point
  BY DEF Point
<1>5. t = ap \o c /\ ap = a \o p /\ k - n \in Nat /\ n + 1 \in Nat
  BY <1>1
<1> HIDE DEF a, c, p, ap
<1>6. ap \in Seq(Int) /\ Joins(ap, a, p, n, 1)
  <2>1. /\ a \in Seq(Int) /\ Len(a) = n /\ p \in Seq(Int) /\ Len(p) = 1 /\ ap = a \o p
        /\ n \in Nat /\ 1 \in Nat
    BY <1>1, <1>2, <1>4, <1>5
  <2>2. QED
    BY <2>1, Joined
<1>7. Len(ap) = n + 1
  BY <1>6 DEF Joins
<1>8. t \in Seq(Int) /\ Joins(t, ap, c, n + 1, k - n)
  BY <1>3, <1>5, <1>6, <1>7, Joined
<1>9. QED
  BY <1>1, <1>2, <1>3, <1>4, <1>6, <1>8, JoinedBroken

LEMMA JoinedSmall ==
    ASSUME NEW d, NEW k \in Nat, Len(d) = k, NEW n \in Int, n <= 0,
           NEW p, p[1] = 0, p[2] = Point, NEW z, \A i \in 1 .. -n : z[i] = 0,
           NEW pz, Joins(pz, p, z, 2, -n), NEW t, Joins(t, pz, d, 2 + (-n), k)
    PROVE  Small(t, d, n)
<1>1. t[1] = 0 /\ t[2] = Point
  <2>1. 1 \in 1 .. 2 /\ 2 \in 1 .. 2 /\ 1 \in 1 .. 2 + (-n) /\ 2 \in 1 .. 2 + (-n)
    OBVIOUS
  <2>2. t[1] = pz[1] /\ pz[1] = p[1] /\ t[2] = pz[2] /\ pz[2] = p[2]
    BY <2>1 DEF Joins
  <2>3. QED
    BY <2>2
<1>2. ASSUME NEW i \in 1 .. -n PROVE t[2 + i] = 0
  <2>1. 2 + i \in 1 .. 2 + (-n)
    OBVIOUS
  <2>2. t[2 + i] = pz[2 + i] /\ pz[2 + i] = z[i]
    BY <2>1 DEF Joins
  <2>3. QED
    BY <2>2
<1>3. ASSUME NEW i \in 1 .. k PROVE t[2 - n + i] = d[i]
  <2>1. t[2 + (-n) + i] = d[i]
    BY DEF Joins
  <2>2. 2 + (-n) + i = 2 - n + i
    OBVIOUS
  <2>3. QED
    BY <2>1, <2>2
<1>4. Len(t) = 2 - n + k
  <2>1. Len(t) = 2 + (-n) + k
    BY DEF Joins
  <2>2. QED
    BY <2>1
<1>5. QED
  BY <1>1, <1>2, <1>3, <1>4 DEF Small

LEMMA SpelledSmall ==
    ASSUME NEW d, Proper(d), NEW n \in Int, n <= 0, NEW t, t = <<0, Point>> \o Zeros(-n) \o d
    PROVE  t \in Seq(Int) /\ Small(t, d, n)
<1> DEFINE k == Len(d)
           z == Zeros(-n)
           p == <<0, Point>>
           pz == p \o z
<1>1. k \in Nat /\ d \in Seq(Int) /\ -n \in Nat /\ 2 + (-n) \in Nat
  BY ProperDigits
<1>2. z \in Seq(Int) /\ Len(z) = -n /\ \A i \in 1 .. -n : z[i] = 0
  BY <1>1, ZerosAre
<1>3. p \in Seq(Int) /\ Len(p) = 2 /\ p[1] = 0 /\ p[2] = Point
  BY DEF Point
<1>4. t = pz \o d /\ pz = p \o z
  OBVIOUS
<1> HIDE DEF z, p, pz
<1>5. pz \in Seq(Int) /\ Joins(pz, p, z, 2, -n)
  BY <1>1, <1>2, <1>3, <1>4, Joined
<1>6. Len(pz) = 2 + (-n)
  BY <1>5 DEF Joins
<1>7. t \in Seq(Int) /\ Joins(t, pz, d, 2 + (-n), k)
  BY <1>1, <1>4, <1>5, <1>6, Joined
<1>8. QED
  BY <1>1, <1>2, <1>3, <1>5, <1>7, JoinedSmall

LEMMA SpelledShort ==
    ASSUME NEW d, Proper(d), NEW n \in Int, n > 21 \/ n <= -6, ~(Len(d) > 1),
           NEW t, t = <<Head(d)>> \o <<>> \o <<Exponent, n - 1>>
    PROVE  t \in Seq(Int) /\ Short(t, d, n)
<1>1. Len(d) = 1 /\ d \in Seq(Int) /\ Head(d) = d[1] /\ d[1] \in Int
  BY ProperDigits
<1> DEFINE h == <<d[1]>>
           e == <<Exponent, n - 1>>
<1>2. h \in Seq(Int) /\ Len(h) = 1 /\ h[1] = d[1]
  BY <1>1
<1>3. e \in Seq(Int) /\ Len(e) = 2 /\ e[1] = Exponent /\ e[2] = n - 1
  BY DEF Exponent
<1>4. t = h \o e
  <2>1. t = (h \o <<>>) \o e
    BY <1>1
  <2> HIDE DEF h, e
  <2>2. h \o <<>> = h
    BY <1>2, ConcatEmptySeq
  <2>3. QED
    BY <2>1, <2>2
<1> HIDE DEF h, e
<1>5. t \in Seq(Int) /\ Joins(t, h, e, 1, 2)
  BY <1>2, <1>3, <1>4, Joined
<1>6. Len(t) = 3 /\ t[1] = h[1] /\ t[1 + 1] = e[1] /\ t[1 + 2] = e[2]
  BY <1>5 DEF Joins
<1>7. QED
  BY <1>1, <1>2, <1>3, <1>5, <1>6 DEF Short

LEMMA JoinedLong ==
    ASSUME NEW d, NEW k \in Nat, Len(d) = k, k > 1, NEW n \in Int, n > 21 \/ n <= -6,
           NEW h, h[1] = d[1], NEW p, p[1] = Point,
           NEW r, \A i \in 1 .. k - 1 : r[i] = d[i + 1],
           NEW e, e[1] = Exponent, e[2] = n - 1,
           NEW pr, Joins(pr, p, r, 1, k - 1), NEW hpr, Joins(hpr, h, pr, 1, k),
           NEW t, Joins(t, hpr, e, k + 1, 2)
    PROVE  Long(t, d, n)
<1>1. t[1] = d[1]
  <2>1. 1 \in 1 .. k + 1 /\ 1 \in 1 .. 1
    OBVIOUS
  <2>2. t[1] = hpr[1] /\ hpr[1] = h[1]
    BY <2>1 DEF Joins
  <2>3. QED
    BY <2>2
<1>2. t[2] = Point
  <2>1. 2 \in 1 .. k + 1 /\ 1 \in 1 .. 1 /\ 1 \in 1 .. k /\ 1 + 1 = 2
    OBVIOUS
  <2>2. t[2] = hpr[2] /\ hpr[1 + 1] = pr[1] /\ pr[1] = p[1]
    BY <2>1 DEF Joins
  <2>3. QED
    BY <2>1, <2>2
<1>3. ASSUME NEW i \in 2 .. k PROVE t[i + 1] = d[i]
  <2>1. /\ i + 1 \in 1 .. k + 1 /\ 1 + i = i + 1 /\ i \in 1 .. k
        /\ i - 1 \in 1 .. k - 1 /\ 1 + (i - 1) = i /\ (i - 1) + 1 = i
    OBVIOUS
  <2>2. /\ t[i + 1] = hpr[i + 1] /\ hpr[1 + i] = pr[i] /\ pr[1 + (i - 1)] = r[i - 1]
        /\ r[i - 1] = d[(i - 1) + 1]
    BY <2>1 DEF Joins
  <2>3. QED
    BY <2>1, <2>2
<1>4. t[k + 2] = Exponent /\ t[k + 3] = n - 1
  <2>1. (k + 1) + 1 = k + 2 /\ (k + 1) + 2 = k + 3
    OBVIOUS
  <2>2. t[(k + 1) + 1] = e[1] /\ t[(k + 1) + 2] = e[2]
    BY DEF Joins
  <2>3. QED
    BY <2>1, <2>2
<1>5. Len(t) = k + 3
  <2>1. Len(t) = (k + 1) + 2
    BY DEF Joins
  <2>2. QED
    BY <2>1
<1>6. QED
  BY <1>1, <1>2, <1>3, <1>4, <1>5 DEF Long

LEMMA SpelledLong ==
    ASSUME NEW d, Proper(d), NEW n \in Int, n > 21 \/ n <= -6, Len(d) > 1,
           NEW t, t = <<Head(d)>> \o (<<Point>> \o Tail(d)) \o <<Exponent, n - 1>>
    PROVE  t \in Seq(Int) /\ Long(t, d, n)
<1> DEFINE k == Len(d)
           h == <<Head(d)>>
           p == <<Point>>
           r == Tail(d)
           pr == p \o r
           hpr == h \o pr
           e == <<Exponent, n - 1>>
<1>1. k \in Nat /\ k > 1 /\ d \in Seq(Int) /\ d # <<>> /\ Head(d) = d[1] /\ d[1] \in Int
  BY ProperDigits DEF Proper
<1>2. h \in Seq(Int) /\ Len(h) = 1 /\ h[1] = d[1]
  BY <1>1
<1>3. p \in Seq(Int) /\ Len(p) = 1 /\ p[1] = Point
  BY DEF Point
<1>4. r \in Seq(Int) /\ Len(r) = k - 1 /\ \A i \in 1 .. k - 1 : r[i] = d[i + 1]
  <2>1. r \in Seq(Int) /\ Len(r) = k - 1 /\ \A i \in 1 .. Len(r) : r[i] = d[i + 1]
    BY <1>1, HeadTailProperties
  <2>2. QED
    BY <2>1
<1>5. e \in Seq(Int) /\ Len(e) = 2 /\ e[1] = Exponent /\ e[2] = n - 1
  BY DEF Exponent
<1>6. t = hpr \o e /\ hpr = h \o pr /\ pr = p \o r
  OBVIOUS
<1>7. k - 1 \in Nat /\ 1 + (k - 1) = k /\ 1 + k = k + 1 /\ k + 1 \in Nat
  BY <1>1
<1> HIDE DEF h, p, r, e, pr, hpr
<1>8. pr \in Seq(Int) /\ Joins(pr, p, r, 1, k - 1)
  BY <1>3, <1>4, <1>6, <1>7, Joined
<1>9. Len(pr) = k
  BY <1>7, <1>8 DEF Joins
<1>10. hpr \in Seq(Int) /\ Joins(hpr, h, pr, 1, k)
  BY <1>1, <1>2, <1>6, <1>8, <1>9, Joined
<1>11. Len(hpr) = k + 1
  BY <1>7, <1>10 DEF Joins
<1>12. t \in Seq(Int) /\ Joins(t, hpr, e, k + 1, 2)
  BY <1>5, <1>6, <1>7, <1>10, <1>11, Joined
<1>13. QED
  BY <1>1, <1>2, <1>3, <1>4, <1>5, <1>8, <1>10, <1>12, JoinedLong

LEMMA EverySpelling ==
    ASSUME NEW d, Proper(d), NEW n \in Int
    PROVE  SpellPositive(d, n) \in Seq(Int) /\ Spelled(SpellPositive(d, n), d, n)
<1> DEFINE k == Len(d)
           t == SpellPositive(d, n)
<1>0. k \in Nat
  BY ProperDigits
<1>1. CASE k <= n /\ n <= 21
  <2>1. t = d \o Zeros(n - k)
    <3>1. ~(k > n /\ 0 < n /\ n <= 21) /\ ~(-6 < n /\ n <= 0)
      BY <1>0, <1>1, ProperDigits
    <3>2. QED
      BY <1>1, <3>1 DEF SpellPositive
  <2>2. QED
    BY <1>1, <2>1, SpelledWhole DEF Spelled
<1>2. CASE k > n /\ 0 < n /\ n <= 21
  <2>1. t = SubSeq(d, 1, n) \o <<Point>> \o SubSeq(d, n + 1, k)
    <3>1. ~(k <= n /\ n <= 21) /\ ~(-6 < n /\ n <= 0)
      BY <1>0, <1>2
    <3>2. QED
      BY <1>2, <3>1 DEF SpellPositive
  <2>2. n < k
    BY <1>0, <1>2
  <2> HIDE DEF t
  <2>3. t \in Seq(Int) /\ Broken(t, d, n)
    BY <1>2, <2>1, <2>2, SpelledBroken
  <2>4. QED
    BY <2>3 DEF Spelled, t
<1>3. CASE -6 < n /\ n <= 0
  <2>1. t = <<0, Point>> \o Zeros(-n) \o d
    <3>1. ~(k <= n /\ n <= 21) /\ ~(k > n /\ 0 < n /\ n <= 21)
      BY <1>0, <1>3, ProperDigits
    <3>2. QED
      BY <1>3, <3>1 DEF SpellPositive
  <2> HIDE DEF t
  <2>2. t \in Seq(Int) /\ Small(t, d, n)
    BY <1>3, <2>1, SpelledSmall
  <2>3. QED
    BY <2>2 DEF Spelled, t
<1>4. CASE ~(k <= n /\ n <= 21) /\ ~(k > n /\ 0 < n /\ n <= 21) /\ ~(-6 < n /\ n <= 0)
  <2>1. t = <<Head(d)>> \o (IF k > 1 THEN <<Point>> \o Tail(d) ELSE <<>>) \o <<Exponent, n - 1>>
    BY <1>4 DEF SpellPositive
  <2>2. n > 21 \/ n <= -6
    BY <1>0, <1>4
  <2> HIDE DEF t
  <2>3. CASE k > 1
    <3>1. t \in Seq(Int) /\ Long(t, d, n)
      BY <2>1, <2>2, <2>3, SpelledLong
    <3>2. QED
      BY <3>1 DEF Spelled, t
  <2>4. CASE ~(k > 1)
    <3>1. t \in Seq(Int) /\ Short(t, d, n)
      BY <2>1, <2>2, <2>4, SpelledShort
    <3>2. QED
      BY <3>1 DEF Spelled, t
  <2>5. QED
    BY <2>3, <2>4
<1>5. QED
  BY <1>1, <1>2, <1>3, <1>4

\* The form of a text, by its ends and by whether there is a point.
Form(t) ==
    IF t[Len(t)] \notin 0 .. 12 THEN IF t[2] = Exponent THEN "short" ELSE "long"
    ELSE IF t[1] = 0 THEN "small"
    ELSE IF \E i \in 1 .. Len(t) : t[i] = Point THEN "broken"
    ELSE "whole"

LEMMA WholeLooks ==
    ASSUME NEW d, Proper(d), NEW n \in Int, NEW t, Whole(t, d, n)
    PROVE  Form(t) = "whole" /\ t[1] \in 1 .. 9
<1> DEFINE k == Len(d)
<1>1. k \in Nat /\ k > 0 /\ (\A i \in 1 .. k : d[i] \in 0 .. 9) /\ d[1] # 0
  BY ProperDigits
<1>2. k <= n /\ Len(t) = n
  BY DEF Whole
<1>3. ASSUME NEW i \in 1 .. n PROVE t[i] \in 0 .. 9
  <2>1. CASE i \in 1 .. k
    BY <1>1, <2>1 DEF Whole
  <2>2. CASE i \in k + 1 .. n
    BY <1>1, <2>2 DEF Whole
  <2>3. QED
    BY <1>1, <1>2, <2>1, <2>2
<1>4. t[1] = d[1] /\ d[1] \in 0 .. 9
  BY <1>1 DEF Whole
<1>5. t[1] \in 1 .. 9
  BY <1>1, <1>4
<1>6. t[Len(t)] \in 0 .. 12
  <2>1. n \in 1 .. n
    BY <1>1, <1>2
  <2>2. t[n] \in 0 .. 9
    BY <1>3, <2>1
  <2>3. QED
    BY <1>2, <2>2
<1>7. \A i \in 1 .. Len(t) : t[i] # Point
  BY <1>2, <1>3 DEF Point
<1>8. t[1] # 0
  BY <1>5
<1>9. QED
  BY <1>5, <1>6, <1>7, <1>8 DEF Form

LEMMA BrokenLooks ==
    ASSUME NEW d, Proper(d), NEW n \in Int, NEW t, Broken(t, d, n)
    PROVE  Form(t) = "broken" /\ t[1] \in 1 .. 9
<1> DEFINE k == Len(d)
<1>1. k \in Nat /\ k > 0 /\ (\A i \in 1 .. k : d[i] \in 0 .. 9) /\ d[1] # 0
  BY ProperDigits
<1>2. 0 < n /\ n < k /\ Len(t) = k + 1 /\ t[n + 1] = Point
  BY DEF Broken
<1>3. t[1] = d[1] /\ d[1] \in 0 .. 9
  BY <1>1, <1>2 DEF Broken
<1>4. t[1] \in 1 .. 9 /\ t[1] # 0
  BY <1>1, <1>3
<1>5. t[Len(t)] \in 0 .. 12
  <2>1. k \in n + 1 .. k /\ k \in 1 .. k
    BY <1>1, <1>2
  <2>2. t[k + 1] = d[k] /\ d[k] \in 0 .. 9
    BY <1>1, <2>1 DEF Broken
  <2>3. QED
    BY <1>2, <2>2
<1>6. \E i \in 1 .. Len(t) : t[i] = Point
  <2>1. n + 1 \in 1 .. Len(t)
    BY <1>1, <1>2
  <2>2. QED
    BY <1>2, <2>1
<1>7. QED
  BY <1>4, <1>5, <1>6 DEF Form

LEMMA SmallLooks ==
    ASSUME NEW d, Proper(d), NEW n \in Int, NEW t, Small(t, d, n)
    PROVE  Form(t) = "small" /\ t[1] = 0 /\ Len(t) > 2
<1> DEFINE k == Len(d)
<1>1. k \in Nat /\ k > 0 /\ \A i \in 1 .. k : d[i] \in 0 .. 9
  BY ProperDigits
<1>2. n <= 0 /\ Len(t) = 2 - n + k /\ t[1] = 0
  BY DEF Small
<1>3. t[Len(t)] \in 0 .. 12
  <2>1. k \in 1 .. k
    BY <1>1
  <2>2. t[2 - n + k] = d[k] /\ d[k] \in 0 .. 9
    BY <1>1, <2>1 DEF Small
  <2>3. QED
    BY <1>2, <2>2
<1>4. Len(t) > 2
  BY <1>1, <1>2
<1>5. QED
  BY <1>2, <1>3, <1>4 DEF Form

LEMMA ShortLooks ==
    ASSUME NEW d, Proper(d), NEW n \in Int, NEW t, Short(t, d, n)
    PROVE  Form(t) = "short" /\ t[1] \in 1 .. 9
<1>1. Len(d) > 0 /\ Len(d) \in Nat /\ d[1] # 0 /\ \A i \in 1 .. Len(d) : d[i] \in 0 .. 9
  BY ProperDigits
<1>2. t[1] = d[1] /\ d[1] \in 1 .. 9
  BY <1>1 DEF Short
<1>3. Len(t) = 3 /\ t[3] = n - 1 /\ (n > 21 \/ n <= -6) /\ t[2] = Exponent
  BY DEF Short
<1>4. t[Len(t)] \notin 0 .. 12
  BY <1>3
<1>5. QED
  BY <1>2, <1>3, <1>4 DEF Form

LEMMA LongLooks ==
    ASSUME NEW d, Proper(d), NEW n \in Int, NEW t, Long(t, d, n)
    PROVE  Form(t) = "long" /\ t[1] \in 1 .. 9
<1>1. Len(d) > 0 /\ Len(d) \in Nat /\ d[1] # 0 /\ \A i \in 1 .. Len(d) : d[i] \in 0 .. 9
  BY ProperDigits
<1>2. t[1] = d[1] /\ d[1] \in 1 .. 9
  BY <1>1 DEF Long
<1>3. /\ Len(t) = Len(d) + 3 /\ t[Len(d) + 3] = n - 1 /\ (n > 21 \/ n <= -6)
      /\ t[2] = Point /\ Point # Exponent
  BY DEF Long, Point, Exponent
<1>4. t[Len(t)] \notin 0 .. 12
  <2>1. t[Len(t)] = n - 1
    BY <1>3
  <2>2. n - 1 \notin 0 .. 12
    BY <1>3
  <2>3. QED
    BY <2>1, <2>2
<1>5. QED
  BY <1>2, <1>3, <1>4 DEF Form

\* Two sequences of one length that agree place by place are one.
LEMMA DigitsAgree ==
    ASSUME NEW d, Proper(d), NEW e, Proper(e), Len(d) = Len(e),
           \A i \in 1 .. Len(d) : d[i] = e[i]
    PROVE  d = e
<1>1. d \in Seq(0 .. 9) /\ e \in Seq(0 .. 9)
  BY DEF Proper, Digits
<1>2. d = [i \in 1 .. Len(d) |-> d[i]] /\ e = [i \in 1 .. Len(e) |-> e[i]]
  BY <1>1
<1>3. QED
  BY <1>2

LEMMA WholeReads ==
    ASSUME NEW d, Proper(d), NEW n \in Int, NEW e, Proper(e), NEW m \in Int,
           NEW t, Whole(t, d, n), Whole(t, e, m)
    PROVE  n = m /\ d = e
<1>1. n = m
  BY DEF Whole
<1>2. ASSUME NEW x, Proper(x), NEW y, Proper(y), Whole(t, x, n), Whole(t, y, n), Len(x) < Len(y)
      PROVE  FALSE
  <2>1. Len(y) \in 1 .. Len(y) /\ y[Len(y)] # 0 /\ Len(x) \in Nat /\ Len(y) <= n
    BY <1>2, ProperDigits DEF Whole
  <2>2. t[Len(y)] = y[Len(y)]
    BY <1>2, <2>1 DEF Whole
  <2>3. Len(y) \in Len(x) + 1 .. n
    BY <1>2, <2>1
  <2>4. t[Len(y)] = 0
    BY <1>2, <2>3 DEF Whole
  <2>5. QED
    BY <2>1, <2>2, <2>4
<1>3. Len(d) = Len(e)
  <2>1. Len(d) \in Nat /\ Len(e) \in Nat
    BY ProperDigits
  <2>2. ~(Len(d) < Len(e)) /\ ~(Len(e) < Len(d))
    BY <1>1, <1>2
  <2>3. QED
    BY <2>1, <2>2
<1>4. \A i \in 1 .. Len(d) : d[i] = e[i]
  BY <1>3 DEF Whole
<1>5. QED
  BY <1>1, <1>3, <1>4, DigitsAgree

LEMMA BrokenReads ==
    ASSUME NEW d, Proper(d), NEW n \in Int, NEW e, Proper(e), NEW m \in Int,
           NEW t, Broken(t, d, n), Broken(t, e, m)
    PROVE  n = m /\ d = e
<1>1. Len(d) \in Nat /\ Len(e) \in Nat
  BY ProperDigits
<1>2. Len(d) = Len(e)
  <2>1. Len(t) = Len(d) + 1 /\ Len(t) = Len(e) + 1
    BY DEF Broken
  <2>2. QED
    BY <1>1, <2>1
<1>3. ASSUME NEW x, Proper(x), NEW a \in Int, Broken(t, x, a),
             NEW y, Proper(y), NEW b \in Int, Broken(t, y, b), a < b
      PROVE  FALSE
  <2>1. t[a + 1] = Point /\ 0 < a /\ 0 < b /\ b < Len(y) /\ Len(y) \in Nat
    BY <1>3, ProperDigits DEF Broken
  <2>2. a + 1 \in 1 .. b /\ a + 1 \in 1 .. Len(y)
    BY <1>3, <2>1
  <2>3. t[a + 1] = y[a + 1] /\ y[a + 1] \in 0 .. 9
    BY <1>3, <2>2, ProperDigits DEF Broken
  <2>4. QED
    BY <2>1, <2>3 DEF Point
<1>4. n = m
  <2>1. ~(n < m) /\ ~(m < n)
    BY <1>3
  <2>2. QED
    BY <2>1
<1>5. ASSUME NEW i \in 1 .. Len(d) PROVE d[i] = e[i]
  <2>1. CASE i \in 1 .. n
    BY <1>4, <2>1 DEF Broken
  <2>2. CASE i \in n + 1 .. Len(d)
    <3>1. t[i + 1] = d[i] /\ t[i + 1] = e[i]
      BY <1>2, <1>4, <2>2 DEF Broken
    <3>2. QED
      BY <3>1
  <2>3. QED
    BY <1>1, <2>1, <2>2
<1>6. QED
  BY <1>2, <1>4, <1>5, DigitsAgree

LEMMA SmallReads ==
    ASSUME NEW d, Proper(d), NEW n \in Int, NEW e, Proper(e), NEW m \in Int,
           NEW t, Small(t, d, n), Small(t, e, m)
    PROVE  n = m /\ d = e
<1>1. ASSUME NEW x, Proper(x), NEW a \in Int, Small(t, x, a),
             NEW y, Proper(y), NEW b \in Int, Small(t, y, b), b < a
      PROVE  FALSE
  <2>1. a <= 0 /\ 1 \in 1 .. Len(x) /\ x[1] # 0
    BY <1>1, ProperDigits DEF Small
  <2>2. t[2 - a + 1] = x[1]
    BY <1>1, <2>1 DEF Small
  <2>3. 1 - a \in 1 .. -b /\ 2 + (1 - a) = 2 - a + 1
    BY <1>1, <2>1
  <2>4. t[2 + (1 - a)] = 0
    BY <1>1, <2>3 DEF Small
  <2>5. QED
    BY <2>1, <2>2, <2>3, <2>4
<1>2. n = m
  <2>1. ~(n < m) /\ ~(m < n)
    BY <1>1
  <2>2. QED
    BY <2>1
<1>3. Len(d) = Len(e)
  <2>1. Len(t) = 2 - n + Len(d) /\ Len(t) = 2 - n + Len(e)
    BY <1>2 DEF Small
  <2>2. Len(d) \in Nat /\ Len(e) \in Nat
    BY ProperDigits
  <2>3. QED
    BY <2>1, <2>2
<1>4. ASSUME NEW i \in 1 .. Len(d) PROVE d[i] = e[i]
  <2>1. t[2 - n + i] = d[i] /\ t[2 - n + i] = e[i]
    BY <1>2, <1>3 DEF Small
  <2>2. QED
    BY <2>1
<1>5. QED
  BY <1>2, <1>3, <1>4, DigitsAgree

LEMMA ShortReads ==
    ASSUME NEW d, Proper(d), NEW n \in Int, NEW e, Proper(e), NEW m \in Int,
           NEW t, Short(t, d, n), Short(t, e, m)
    PROVE  n = m /\ d = e
<1>1. n - 1 = m - 1 /\ Len(d) = 1 /\ Len(e) = 1 /\ d[1] = e[1]
  BY DEF Short
<1>2. n = m
  BY <1>1
<1>3. \A i \in 1 .. Len(d) : d[i] = e[i]
  BY <1>1
<1>4. QED
  BY <1>1, <1>2, <1>3, DigitsAgree

LEMMA LongReads ==
    ASSUME NEW d, Proper(d), NEW n \in Int, NEW e, Proper(e), NEW m \in Int,
           NEW t, Long(t, d, n), Long(t, e, m)
    PROVE  n = m /\ d = e
<1>1. Len(d) = Len(e)
  <2>1. Len(t) = Len(d) + 3 /\ Len(t) = Len(e) + 3
    BY DEF Long
  <2>2. Len(d) \in Nat /\ Len(e) \in Nat
    BY ProperDigits
  <2>3. QED
    BY <2>1, <2>2
<1>2. n = m
  <2>1. t[Len(d) + 3] = n - 1 /\ t[Len(d) + 3] = m - 1
    BY <1>1 DEF Long
  <2>2. QED
    BY <2>1
<1>3. ASSUME NEW i \in 1 .. Len(d) PROVE d[i] = e[i]
  <2>1. CASE i = 1
    BY <2>1 DEF Long
  <2>2. CASE i \in 2 .. Len(d)
    <3>1. t[i + 1] = d[i] /\ t[i + 1] = e[i]
      BY <1>1, <2>2 DEF Long
    <3>2. QED
      BY <3>1
  <2>3. Len(d) \in Nat
    BY ProperDigits
  <2>4. QED
    BY <2>1, <2>2, <2>3
<1>4. QED
  BY <1>1, <1>2, <1>3, DigitsAgree

LEMMA SpellingReads ==
    ASSUME NEW d, Proper(d), NEW n \in Int, NEW e, Proper(e), NEW m \in Int,
           NEW t, Spelled(t, d, n), Spelled(t, e, m)
    PROVE  n = m /\ d = e
<1>1. ASSUME NEW x, Proper(x), NEW a \in Int, Spelled(t, x, a)
      PROVE  /\ Form(t) = "whole" => Whole(t, x, a)
             /\ Form(t) = "broken" => Broken(t, x, a)
             /\ Form(t) = "small" => Small(t, x, a)
             /\ Form(t) = "short" => Short(t, x, a)
             /\ Form(t) = "long" => Long(t, x, a)
             /\ Form(t) \in {"whole", "broken", "small", "short", "long"}
  <2>1. /\ Whole(t, x, a) => Form(t) = "whole"
        /\ Broken(t, x, a) => Form(t) = "broken"
        /\ Small(t, x, a) => Form(t) = "small"
        /\ Short(t, x, a) => Form(t) = "short"
        /\ Long(t, x, a) => Form(t) = "long"
    BY <1>1, WholeLooks, BrokenLooks, SmallLooks, ShortLooks, LongLooks
  <2>2. QED
    BY <1>1, <2>1 DEF Spelled
<1>2. CASE Form(t) = "whole"
  <2>1. Whole(t, d, n) /\ Whole(t, e, m)
    BY <1>1, <1>2
  <2>2. QED
    BY <2>1, WholeReads
<1>3. CASE Form(t) = "broken"
  <2>1. Broken(t, d, n) /\ Broken(t, e, m)
    BY <1>1, <1>3
  <2>2. QED
    BY <2>1, BrokenReads
<1>4. CASE Form(t) = "small"
  <2>1. Small(t, d, n) /\ Small(t, e, m)
    BY <1>1, <1>4
  <2>2. QED
    BY <2>1, SmallReads
<1>5. CASE Form(t) = "short"
  <2>1. Short(t, d, n) /\ Short(t, e, m)
    BY <1>1, <1>5
  <2>2. QED
    BY <2>1, ShortReads
<1>6. CASE Form(t) = "long"
  <2>1. Long(t, d, n) /\ Long(t, e, m)
    BY <1>1, <1>6
  <2>2. QED
    BY <2>1, LongReads
<1>7. QED
  BY <1>1, <1>2, <1>3, <1>4, <1>5, <1>6

\* What a positive number begins with, and that it is not the text of zero.
LEMMA SpellingBegins ==
    ASSUME NEW d, Proper(d), NEW n \in Int, NEW t, t \in Seq(Int), Spelled(t, d, n)
    PROVE  t[1] \in 0 .. 9 /\ t # <<0>>
<1>1. t[1] \in 1 .. 9 \/ (t[1] = 0 /\ Len(t) > 2)
  BY WholeLooks, BrokenLooks, SmallLooks, ShortLooks, LongLooks DEF Spelled
<1>2. t = <<0>> => Len(t) = 1 /\ t[1] = 0
  OBVIOUS
<1>3. t # <<0>>
  <2>1. ~(Len(t) = 1 /\ t[1] = 0)
    BY <1>1
  <2>2. QED
    BY <1>2, <2>1, Zenon
<1>4. t[1] \in 0 .. 9
  BY <1>1
<1>5. QED
  BY <1>3, <1>4

\* A number other than zero is its sign and then the spelling of its size.
LEMMA CanonicalForm ==
    ASSUME NEW x \in Numbers, x.digits # <<>>, NEW t, t = SpellPositive(x.digits, x.point)
    PROVE  /\ t \in Seq(Int) /\ Spelled(t, x.digits, x.point)
           /\ x.negative => /\ CanonicalNumber(x) = <<Minus>> \o t
                            /\ CanonicalNumber(x)[1] = Minus
           /\ ~x.negative => /\ CanonicalNumber(x) = t
                             /\ CanonicalNumber(x)[1] # Minus
           /\ CanonicalNumber(x) # <<0>>
<1>1. Proper(x.digits) /\ x.point \in Int /\ x.negative \in BOOLEAN
  BY DEF Numbers, Proper
<1>2. t \in Seq(Int) /\ Spelled(t, x.digits, x.point)
  BY <1>1, EverySpelling
<1>3. t[1] \in 0 .. 9 /\ t # <<0>>
  BY <1>1, <1>2, SpellingBegins
<1>4. ASSUME x.negative
      PROVE  /\ CanonicalNumber(x) = <<Minus>> \o t /\ CanonicalNumber(x)[1] = Minus
             /\ CanonicalNumber(x) # <<0>>
  <2>1. CanonicalNumber(x) = <<Minus>> \o t
    BY <1>4 DEF CanonicalNumber
  <2> DEFINE s == <<Minus>>
             c == s \o t
  <2>2. s \in Seq(Int) /\ Len(s) = 1 /\ s[1] = Minus /\ Minus # 0
    BY DEF Minus
  <2> HIDE DEF s
  <2>3. c[1] = s[1]
    <3>1. Len(t) \in Nat
      BY <1>2
    <3>2. Joins(c, s, t, 1, Len(t))
      BY <1>2, <2>2, <3>1, Joined
    <3>3. QED
      BY <3>2 DEF Joins
  <2>4. CanonicalNumber(x) = c
    BY <2>1 DEF s
  <2> HIDE DEF c
  <2>5. c # <<0>>
    <3>1. <<0>>[1] = 0
      OBVIOUS
    <3>2. QED
      BY <2>2, <2>3, <3>1
  <2>6. QED
    BY <2>1, <2>2, <2>3, <2>4, <2>5
<1>5. ASSUME ~x.negative
      PROVE  /\ CanonicalNumber(x) = t /\ CanonicalNumber(x)[1] # Minus
             /\ CanonicalNumber(x) # <<0>>
  <2>1. CanonicalNumber(x) = <<>> \o t
    BY <1>5 DEF CanonicalNumber
  <2>2. CanonicalNumber(x) = t
    BY <1>2, <2>1, ConcatEmptySeq
  <2>3. t[1] # Minus
    BY <1>3 DEF Minus
  <2>4. QED
    BY <1>3, <2>2, <2>3
<1>6. QED
  BY <1>2, <1>4, <1>5

SameNumber(x, y) ==
    x.digits = y.digits /\ (x.digits # <<>> => x.point = y.point /\ x.negative = y.negative)

\* Two numbers have one text only if they are one.
LEMMA CanonicalIsOne ==
    ASSUME NEW x \in Numbers, NEW y \in Numbers
    PROVE  CanonicalNumber(x) = CanonicalNumber(y) <=> SameNumber(x, y)
<1>1. ASSUME SameNumber(x, y) PROVE CanonicalNumber(x) = CanonicalNumber(y)
  BY <1>1 DEF SameNumber, CanonicalNumber
<1>2. ASSUME CanonicalNumber(x) = CanonicalNumber(y) PROVE SameNumber(x, y)
  <2>1. \A z \in Numbers : z.digits = <<>> => CanonicalNumber(z) = <<0>>
    BY DEF CanonicalNumber
  <2>2. CASE x.digits = <<>> \/ y.digits = <<>>
    <3>1. x.digits = <<>> /\ y.digits = <<>>
      BY <1>2, <2>1, <2>2, CanonicalForm
    <3>2. QED
      BY <3>1 DEF SameNumber
  <2>3. CASE x.digits # <<>> /\ y.digits # <<>>
    <3> DEFINE t == SpellPositive(x.digits, x.point)
               u == SpellPositive(y.digits, y.point)
    <3>1. /\ t \in Seq(Int) /\ Spelled(t, x.digits, x.point)
          /\ x.negative => CanonicalNumber(x) = <<Minus>> \o t /\ CanonicalNumber(x)[1] = Minus
          /\ ~x.negative => CanonicalNumber(x) = t /\ CanonicalNumber(x)[1] # Minus
      BY <2>3, CanonicalForm
    <3>2. /\ u \in Seq(Int) /\ Spelled(u, y.digits, y.point)
          /\ y.negative => CanonicalNumber(y) = <<Minus>> \o u /\ CanonicalNumber(y)[1] = Minus
          /\ ~y.negative => CanonicalNumber(y) = u /\ CanonicalNumber(y)[1] # Minus
      BY <2>3, CanonicalForm
    <3> HIDE DEF t, u
    <3>3. x.negative \in BOOLEAN /\ y.negative \in BOOLEAN
      BY DEF Numbers
    <3>4. x.negative = y.negative
      BY <1>2, <3>1, <3>2, <3>3
    <3>5. t = u
      <4>1. CASE x.negative
        <5>1. <<Minus>> \o t = <<Minus>> \o u /\ <<Minus>> \in Seq(Int)
          BY <1>2, <3>1, <3>2, <3>4, <4>1 DEF Minus
        <5>2. QED
          BY <3>1, <3>2, <5>1, ConcatSimplifications
      <4>2. CASE ~x.negative
        BY <1>2, <3>1, <3>2, <3>4, <4>2
      <4>3. QED
        BY <4>1, <4>2
    <3>6. Proper(x.digits) /\ Proper(y.digits) /\ x.point \in Int /\ y.point \in Int
      BY <2>3 DEF Numbers, Proper
    <3>7. x.point = y.point /\ x.digits = y.digits
      BY <3>1, <3>2, <3>5, <3>6, SpellingReads
    <3>8. QED
      BY <3>4, <3>7 DEF SameNumber
  <2>4. QED
    BY <2>2, <2>3
<1>3. QED
  BY <1>1, <1>2

\* An integer of at most 21 digits is spelled as a float of its value is.
LEMMA IntegersAreCanonical ==
    ASSUME NEW x \in Numbers, x.point >= Len(x.digits), x.point <= 21
    PROVE  IntegerText(x) = CanonicalNumber(x)
<1>1. CASE x.digits = <<>>
  BY <1>1 DEF IntegerText, CanonicalNumber
<1>2. CASE x.digits # <<>>
  <2> DEFINE d == x.digits
             n == x.point
             s == IF x.negative THEN <<Minus>> ELSE <<>>
             z == Zeros(n - Len(d))
  <2>1. Proper(d) /\ n \in Int
    BY <1>2 DEF Numbers, Proper
  <2>2. Len(d) \in Nat /\ Len(d) > 0 /\ d \in Seq(Int)
    BY <2>1, ProperDigits
  <2>3. SpellPositive(d, n) = d \o z
    <3>1. ~(Len(d) > n /\ 0 < n /\ n <= 21) /\ ~(-6 < n /\ n <= 0) /\ Len(d) <= n /\ n <= 21
      BY <2>1, <2>2
    <3>2. QED
      BY <3>1 DEF SpellPositive
  <2>4. CanonicalNumber(x) = s \o (d \o z)
    BY <1>2, <2>3 DEF CanonicalNumber
  <2>5. IntegerText(x) = (s \o d) \o z
    BY <1>2 DEF IntegerText
  <2>6. s \in Seq(Int)
    BY DEF Minus
  <2>7. z \in Seq(Int)
    <3>1. n - Len(d) \in Nat
      BY <2>1, <2>2
    <3>2. QED
      BY <3>1, ZerosAre
  <2> HIDE DEF s, d, z
  <2>8. (s \o d) \o z = s \o (d \o z)
    <3>1. d \in Seq(Int)
      BY <2>2
    <3>2. QED
      BY <3>1, <2>6, <2>7, ConcatAssociative
  <2>9. QED
    BY <2>4, <2>5, <2>8
<1>3. QED
  BY <1>1, <1>2

LEMMA NumbersAlwaysTold ==
    ASSUME NEW x, IsHeldNumber(x), NEW y, IsHeldNumber(y)
    PROVE  OneNumberOneText(x, y)
<1> DEFINE Ordinary(v) == v.kind = "float" \/ v.number.point <= 21
           Text(v, attribute) ==
             BucketValue([user |-> [kind |-> "absent"], attributes |-> [a \in {attribute} |-> v]],
                         attribute)
<1>1. ASSUME NEW v, IsHeldNumber(v), Ordinary(v), NEW attribute
      PROVE  v.number \in Numbers /\ Text(v, attribute) = CanonicalNumber(v.number)
  <2> DEFINE context == [user |-> [kind |-> "absent"], attributes |-> [a \in {attribute} |-> v]]
  <2>1. /\ v.number \in Numbers /\ v.kind \in {"float", "integer"}
        /\ v.kind = "integer" => v.number.point >= Len(v.number.digits)
    BY <1>1 DEF IsHeldNumber
  <2>2. BucketedBy(context, attribute) = v
    BY DEF BucketedBy
  <2> HIDE DEF context
  <2>3. CASE v.kind = "float"
    <3>1. BucketValue(context, attribute) = CanonicalNumber(v.number)
      BY <2>2, <2>3 DEF BucketValue
    <3>2. QED
      BY <2>1, <3>1 DEF context
  <2>4. CASE v.kind = "integer"
    <3>1. BucketValue(context, attribute) = IntegerText(v.number)
      BY <2>2, <2>4 DEF BucketValue
    <3>2. v.number.point <= 21 /\ v.number.point >= Len(v.number.digits)
      BY <1>1, <2>1, <2>4
    <3>3. QED
      BY <2>1, <3>1, <3>2, IntegersAreCanonical DEF context
  <2>5. QED
    BY <2>1, <2>3, <2>4
<1>2. SUFFICES ASSUME Ordinary(x), Ordinary(y)
               PROVE  Text(x, "user_id") = Text(y, "account") <=> SameNumber(x.number, y.number)
  BY DEF OneNumberOneText, SameNumber
<1> HIDE DEF Ordinary, Text
<1>3. /\ x.number \in Numbers /\ Text(x, "user_id") = CanonicalNumber(x.number)
      /\ y.number \in Numbers /\ Text(y, "account") = CanonicalNumber(y.number)
  BY <1>1, <1>2
<1>4. QED
  BY <1>3, CanonicalIsOne

\* bucketValue and canonicalNumber: a number of any size is one text to the
\* hash whatever holds it, and no other number is.
THEOREM NumbersStayTold == AlgorithmsSpec => []NumbersAreTold
<1>1. ProbesStay => NumbersAreTold
  <2>1. SUFFICES ASSUME ProbesStay, probe.about = "numbers"
                 PROVE  OneNumberOneText(probe.x, probe.y)
    BY DEF NumbersAreTold, About
  <2>2. IsHeldNumber(probe.x) /\ IsHeldNumber(probe.y)
    BY <2>1, AlgorithmsAssumption DEF ProbesStay
  <2>3. QED
    BY <2>2, NumbersAlwaysTold
<1>2. QED
  BY <1>1, OperandsStay, PTL

-----------------------------------------------------------------------------
(* The number a numeral stands for.                                        *)

\* What is in a set at first, and stays in it from each step to the next, is
\* in it throughout.
LEMMA RecursionStays ==
    ASSUME NEW N \in Nat, NEW S, NEW g, g[0] \in S,
           \A n \in 1 .. N : g[n - 1] \in S => g[n] \in S
    PROVE  \A n \in 0 .. N : g[n] \in S
<1> DEFINE T == {n \in Nat : g[n] \in S}
<1>1. 0 \in T
  OBVIOUS
<1>2. ASSUME NEW n \in Nat, n < N, n \in T PROVE n + 1 \in T
  <2>1. n + 1 \in 1 .. N /\ (n + 1) - 1 = n
    BY <1>2
  <2>2. g[n + 1] \in S
    BY <1>2, <2>1
  <2>3. QED
    BY <2>2
<1> HIDE DEF T
<1>3. 0 .. N \subseteq T
  BY <1>1, <1>2, NumbersUpTo
<1>4. QED
  BY <1>3 DEF T

\* What the digits of a text up to each place stand for.
Values(s) ==
    CHOOSE value : value = [n \in 0 .. Len(s) |->
                              IF n = 0 THEN 0 ELSE 10 * value[n - 1] + s[n]]

LEMMA ValuesUnfold ==
    ASSUME NEW s \in Seq(Digit)
    PROVE  /\ NumberOf(s) = Values(s)[Len(s)]
           /\ Values(s)[0] = 0
           /\ \A n \in 0 .. Len(s) : Values(s)[n] \in Nat
           /\ \A n \in 1 .. Len(s) : Values(s)[n] = 10 * Values(s)[n - 1] + s[n]
<1> DEFINE N == Len(s)
           next == [p \in (1 .. N) \X Nat |-> 10 * p[2] + s[p[1]]]
           Solves(g) == g = [n \in 0 .. N |-> IF n = 0 THEN 0 ELSE 10 * g[n - 1] + s[n]]
<1>1. N \in Nat /\ \A n \in 1 .. N : s[n] \in Nat
  BY DEF Digit
<1>2. next \in [(1 .. N) \X Nat -> Nat]
  BY <1>1
<1>3. \A n \in 1 .. N, v \in Nat : next[<<n, v>>] = 10 * v + s[n]
  OBVIOUS
<1> HIDE DEF next
<1>4. PICK g : Recurses(g, N, Nat, 0, next)
  <2> HIDE DEF N
  <2>1. 0 \in Nat
    OBVIOUS
  <2>2. QED
    BY <1>1, <1>2, <2>1, RecursionExists
<1>5. Solves(g)
  <2>1. ASSUME NEW n \in 0 .. N PROVE g[n] = IF n = 0 THEN 0 ELSE 10 * g[n - 1] + s[n]
    <3>1. CASE n = 0
      BY <1>4, <3>1 DEF Recurses
    <3>2. CASE n # 0
      <4>1. n \in 1 .. N /\ n - 1 \in 0 .. N
        BY <1>1, <3>2
      <4>2. g[n - 1] \in Nat
        BY <1>4, <4>1 DEF Recurses
      <4>3. g[n] = next[<<n, g[n - 1]>>]
        BY <1>4, <4>1 DEF Recurses
      <4>4. QED
        BY <1>3, <3>2, <4>1, <4>2, <4>3
    <3>3. QED
      BY <3>1, <3>2
  <2>2. g \in [0 .. N -> Nat]
    BY <1>4 DEF Recurses
  <2>3. QED
    BY <2>1, <2>2
<1>6. Values(s) = CHOOSE h : Solves(h)
  BY DEF Values
<1>7. Solves(Values(s))
  <2> HIDE DEF Solves
  <2>1. QED
    BY <1>5, <1>6
<1>8. NumberOf(s) = Values(s)[N]
  BY DEF NumberOf, Values
<1> DEFINE v == Values(s)
<1> HIDE DEF v
<1>9. v = [n \in 0 .. N |-> IF n = 0 THEN 0 ELSE 10 * v[n - 1] + s[n]]
  BY <1>7 DEF v
<1>10. v[0] = 0 /\ \A n \in 1 .. N : v[n] = 10 * v[n - 1] + s[n]
  BY <1>1, <1>9
<1>11. \A n \in 0 .. N : v[n] \in Nat
  <2>1. \A n \in 1 .. N : v[n - 1] \in Nat => v[n] \in Nat
    BY <1>1, <1>10
  <2>2. v[0] \in Nat
    BY <1>10
  <2> HIDE DEF N
  <2>3. QED
    BY <1>1, <2>1, <2>2, RecursionStays
<1>12. QED
  BY <1>8, <1>10, <1>11 DEF v

\* A numeral that is ahead stays ahead over as many digits, whichever they are.
LEMMA StaysAhead ==
    ASSUME NEW a \in Seq(Digit), NEW b \in Seq(Digit),
           NEW i \in 0 .. Len(a), NEW j \in 0 .. Len(b), Len(a) - i = Len(b) - j,
           Values(a)[i] < Values(b)[j]
    PROVE  NumberOf(a) < NumberOf(b)
<1> DEFINE T == {n \in Nat : Values(a)[i + n] < Values(b)[j + n]}
           N == Len(a) - i
<1>1. N \in Nat /\ i + N = Len(a) /\ j + N = Len(b) /\ i \in Nat /\ j \in Nat
  OBVIOUS
<1>2. 0 \in T
  OBVIOUS
<1>3. ASSUME NEW n \in Nat, n < N, n \in T PROVE n + 1 \in T
  <2> DEFINE k == i + n
             m == j + n
  <2>1. k \in 0 .. Len(a) /\ k + 1 \in 1 .. Len(a) /\ m \in 0 .. Len(b) /\ m + 1 \in 1 .. Len(b)
    BY <1>1, <1>3
  <2>2. i + (n + 1) = k + 1 /\ j + (n + 1) = m + 1 /\ (k + 1) - 1 = k /\ (m + 1) - 1 = m
    OBVIOUS
  <2>3. Values(a)[k] < Values(b)[m]
    BY <1>3
  <2> HIDE DEF k, m
  <2>4. a[k + 1] \in Digit /\ b[m + 1] \in Digit
    BY <2>1
  <2>5. /\ Values(a)[k] \in Nat /\ Values(b)[m] \in Nat
        /\ Values(a)[k + 1] = 10 * Values(a)[k] + a[k + 1]
        /\ Values(b)[m + 1] = 10 * Values(b)[m] + b[m + 1]
    BY <2>1, <2>2, ValuesUnfold
  <2>6. Values(a)[k + 1] < Values(b)[m + 1]
    <3>1. \A x, y \in Nat, c, d \in Digit : x < y => 10 * x + c < 10 * y + d
      BY DEF Digit
    <3>2. QED
      BY <2>3, <2>4, <2>5, <3>1
  <2>7. QED
    BY <2>2, <2>6
<1> HIDE DEF T
<1>4. 0 .. N \subseteq T
  <2> HIDE DEF N
  <2>1. QED
    BY <1>1, <1>2, <1>3, NumbersUpTo
<1>5. N \in T
  BY <1>1, <1>4
<1>6. Values(a)[Len(a)] < Values(b)[Len(b)]
  BY <1>1, <1>5 DEF T
<1>7. QED
  BY <1>6, ValuesUnfold

\* Numerals that are level stay level over the same digits.
LEMMA StaysLevel ==
    ASSUME NEW a \in Seq(Digit), NEW b \in Seq(Digit), NEW N \in Nat,
           NEW i \in 0 .. Len(a), NEW j \in 0 .. Len(b), i + N <= Len(a), j + N <= Len(b),
           Values(a)[i] = Values(b)[j], \A n \in 1 .. N : a[i + n] = b[j + n]
    PROVE  Values(a)[i + N] = Values(b)[j + N]
<1> DEFINE T == {n \in Nat : Values(a)[i + n] = Values(b)[j + n]}
<1>2. 0 \in T
  OBVIOUS
<1>3. ASSUME NEW n \in Nat, n < N, n \in T PROVE n + 1 \in T
  <2> DEFINE k == i + n
             m == j + n
  <2>1. k \in 0 .. Len(a) /\ k + 1 \in 1 .. Len(a) /\ m \in 0 .. Len(b) /\ m + 1 \in 1 .. Len(b)
    BY <1>3
  <2>2. i + (n + 1) = k + 1 /\ j + (n + 1) = m + 1 /\ (k + 1) - 1 = k /\ (m + 1) - 1 = m
    OBVIOUS
  <2>3. Values(a)[k] = Values(b)[m]
    BY <1>3
  <2>4. n + 1 \in 1 .. N
    BY <1>3
  <2>5. a[i + (n + 1)] = b[j + (n + 1)]
    BY <2>4
  <2> HIDE DEF k, m
  <2>6. /\ Values(a)[k + 1] = 10 * Values(a)[k] + a[k + 1]
        /\ Values(b)[m + 1] = 10 * Values(b)[m] + b[m + 1]
    BY <2>1, <2>2, ValuesUnfold
  <2>7. Values(a)[k + 1] = Values(b)[m + 1]
    BY <2>2, <2>3, <2>5, <2>6
  <2>8. QED
    BY <2>2, <2>7
<1> HIDE DEF T
<1>4. 0 .. N \subseteq T
  BY <1>2, <1>3, NumbersUpTo
<1>5. N \in T
  BY <1>4
<1>6. QED
  BY <1>5 DEF T
\* Zeros in front stand for nothing.
LEMMA TrimZerosIs ==
    ASSUME NEW s \in Seq(Digit)
    PROVE  \E z \in 0 .. Len(s) :
             /\ Len(TrimZeros(s)) = Len(s) - z
             /\ \A n \in 1 .. Len(s) - z : TrimZeros(s)[n] = s[z + n]
             /\ Values(s)[z] = 0
             /\ z < Len(s) => s[z + 1] # 0
<1>0. DOMAIN s = 1 .. Len(s) /\ Len(s) \in Nat
  OBVIOUS
<1>1. ASSUME NEW z \in 0 .. Len(s), \A n \in 1 .. z : s[n] = 0
      PROVE  Values(s)[z] = 0
  <2> DEFINE v == Values(s)
  <2>1. v[0] = 0 /\ \A n \in 1 .. Len(s) : v[n] = 10 * v[n - 1] + s[n]
    BY ValuesUnfold
  <2> DEFINE S == {0}
  <2> HIDE DEF v
  <2>2. z \in Nat /\ v[0] \in S
    BY <2>1
  <2>3. \A n \in 1 .. z : v[n - 1] \in S => v[n] \in S
    BY <1>0, <1>1, <2>1
  <2> HIDE DEF S
  <2>4. \A n \in 0 .. z : v[n] \in S
    BY <2>2, <2>3, RecursionStays
  <2>5. v[z] \in S
    BY <2>2, <2>4
  <2>6. QED
    BY <2>5 DEF v, S
<1>2. CASE \A i \in DOMAIN s : s[i] = 0
  <2>1. TrimZeros(s) = <<>>
    BY <1>2 DEF TrimZeros
  <2>2. Values(s)[Len(s)] = 0
    BY <1>0, <1>1, <1>2
  <2> DEFINE z == Len(s)
  <2>3. z \in 0 .. Len(s) /\ Len(TrimZeros(s)) = Len(s) - z /\ ~(z < Len(s))
    BY <1>0, <2>1
  <2>4. \A n \in 1 .. Len(s) - z : TrimZeros(s)[n] = s[z + n]
    BY <1>0
  <2>5. Values(s)[z] = 0
    BY <2>2
  <2> HIDE DEF z
  <2>6. QED
    BY <2>3, <2>4, <2>5
<1>3. CASE ~(\A i \in DOMAIN s : s[i] = 0)
  <2> DEFINE f == CHOOSE i \in DOMAIN s : s[i] # 0 /\ \A j \in 1 .. i - 1 : s[j] = 0
  <2>1. \E i \in 1 .. Len(s) : s[i] # 0 /\ \A j \in 1 .. i - 1 : s[j] = 0
    BY <1>0, <1>3, FirstExists
  <2>2. f \in 1 .. Len(s) /\ s[f] # 0 /\ \A j \in 1 .. f - 1 : s[j] = 0
    BY <1>0, <2>1
  <2>3. TrimZeros(s) = SubSeq(s, f, Len(s))
    BY <1>3 DEF TrimZeros
  <2> HIDE DEF f
  <2>4. f - 1 \in 0 .. Len(s) /\ Len(SubSeq(s, f, Len(s))) = Len(s) - (f - 1)
    BY <1>0, <2>2
  <2>5. \A n \in 1 .. Len(s) - (f - 1) : SubSeq(s, f, Len(s))[n] = s[(f - 1) + n]
    BY <1>0, <2>2
  <2>6. Values(s)[f - 1] = 0
    BY <1>1, <2>2, <2>4
  <2>7. s[(f - 1) + 1] # 0
    BY <1>0, <2>2
  <2>8. QED
    BY <2>3, <2>4, <2>5, <2>6, <2>7
<1>4. QED
  BY <1>2, <1>3

\* From the first digit on that is not a zero there is a number.
LEMMA ValuesBegin ==
    ASSUME NEW s \in Seq(Digit), NEW z \in 0 .. Len(s) - 1, s[z + 1] # 0,
           NEW n \in z + 1 .. Len(s)
    PROVE  Values(s)[n] > 0
<1> DEFINE v == Values(s)
           g == [i \in Nat |-> v[z + 1 + i]]
           N == Len(s) - (z + 1)
           S == Nat \ {0}
<1>1. \A i \in 0 .. Len(s) : v[i] \in Nat
  BY ValuesUnfold
<1>2. \A i \in 1 .. Len(s) : v[i] = 10 * v[i - 1] + s[i]
  BY ValuesUnfold
<1>3. \A i \in 1 .. Len(s) : s[i] \in Nat
  BY DEF Digit
<1> HIDE DEF v
<1>4. N \in Nat /\ n - (z + 1) \in 0 .. N /\ z + 1 + (n - (z + 1)) = n
  OBVIOUS
<1>5. g[0] \in S
  <2>1. z + 1 \in 1 .. Len(s) /\ z \in 0 .. Len(s) /\ (z + 1) - 1 = z
    OBVIOUS
  <2>2. v[z + 1] = 10 * v[z] + s[z + 1]
    BY <1>2, <2>1
  <2>3. v[z + 1] \in S
    BY <1>1, <1>3, <2>1, <2>2
  <2>4. g[0] = v[z + 1]
    OBVIOUS
  <2>5. QED
    BY <2>3, <2>4
<1>6. ASSUME NEW i \in 1 .. N, g[i - 1] \in S PROVE g[i] \in S
  <2> DEFINE k == z + 1 + i
  <2>1. k \in 1 .. Len(s) /\ k - 1 \in 0 .. Len(s) /\ z + 1 + (i - 1) = k - 1 /\ i \in Nat /\ i - 1 \in Nat
    OBVIOUS
  <2>2. g[i] = v[k] /\ g[i - 1] = v[k - 1]
    BY <2>1
  <2> HIDE DEF k, g
  <2>3. v[k] = 10 * v[k - 1] + s[k]
    BY <1>2, <2>1
  <2>4. v[k - 1] \in Nat /\ v[k - 1] # 0 /\ s[k] \in Nat
    BY <1>3, <1>6, <2>1, <2>2
  <2>5. v[k] \in Nat \ {0}
    BY <2>3, <2>4
  <2>6. QED
    BY <2>2, <2>5
<1> HIDE DEF N, S
<1>7. g[n - (z + 1)] \in S
  <2> HIDE DEF g
  <2>1. \A i \in 0 .. N : g[i] \in S
    BY <1>4, <1>5, <1>6, RecursionStays
  <2>2. QED
    BY <1>4, <2>1
<1>8. g[n - (z + 1)] = v[n]
  BY <1>4
<1> HIDE DEF g
<1>9. v[n] \in Nat \ {0}
  BY <1>7, <1>8 DEF S
<1>10. QED
  BY <1>9 DEF v
\* Fewer digits, without the zeros in front, are a smaller number.
LEMMA FewerDigits ==
    ASSUME NEW a \in Seq(Digit), NEW b \in Seq(Digit),
           Len(TrimZeros(a)) < Len(TrimZeros(b))
    PROVE  NumberOf(a) < NumberOf(b)
<1>1. PICK y \in 0 .. Len(a) : Len(TrimZeros(a)) = Len(a) - y /\ Values(a)[y] = 0
  BY TrimZerosIs
<1>2. PICK z \in 0 .. Len(b) : /\ Len(TrimZeros(b)) = Len(b) - z
                               /\ z < Len(b) => b[z + 1] # 0
  BY TrimZerosIs
<1> DEFINE j == Len(b) - (Len(a) - y)
<1>3. z \in 0 .. Len(b) - 1 /\ j \in z + 1 .. Len(b) /\ Len(a) - y = Len(b) - j /\ j \in 0 .. Len(b)
  BY <1>1, <1>2
<1> HIDE DEF j
<1>4. b[z + 1] # 0
  BY <1>2, <1>3
<1>5. Values(b)[j] > 0
  BY <1>3, <1>4, ValuesBegin
<1>6. Values(a)[y] < Values(b)[j]
  <2>1. Values(b)[j] \in Nat
    BY <1>3, ValuesUnfold
  <2>2. QED
    BY <1>1, <1>5, <2>1
<1>7. QED
  BY <1>3, <1>6, StaysAhead

\* compareNumericString orders numerals of any length as the numbers they are.
LEMMA NumbersCompare ==
    ASSUME NEW a \in Seq(Digit), NEW b \in Seq(Digit)
    PROVE  CompareNumericString(a, b) = Sign(NumberOf(a), NumberOf(b))
<1> DEFINE x == TrimZeros(a)
           y == TrimZeros(b)
<1>0. NumberOf(a) \in Nat /\ NumberOf(b) \in Nat
  <2>1. Len(a) \in 0 .. Len(a) /\ Len(b) \in 0 .. Len(b)
    OBVIOUS
  <2>2. QED
    BY <2>1, ValuesUnfold
<1>1. a \in Seq(Int) /\ b \in Seq(Int)
  BY DEF Digit
<1>2. x \in Seq(Int) /\ y \in Seq(Int) /\ Len(x) \in Nat /\ Len(y) \in Nat
  BY <1>1, TrimZerosType
<1>3. PICK u \in 0 .. Len(a) : /\ Len(x) = Len(a) - u
                               /\ \A n \in 1 .. Len(a) - u : x[n] = a[u + n]
                               /\ Values(a)[u] = 0
  BY TrimZerosIs
<1>4. PICK v \in 0 .. Len(b) : /\ Len(y) = Len(b) - v
                               /\ \A n \in 1 .. Len(b) - v : y[n] = b[v + n]
                               /\ Values(b)[v] = 0
  BY TrimZerosIs
<1>5. CompareNumericString(a, b) =
          IF Len(x) # Len(y) THEN Sign(Len(x), Len(y)) ELSE Compare(x, y)
  BY DEF CompareNumericString
<1>6. CASE Len(x) < Len(y)
  BY <1>0, <1>2, <1>5, <1>6, FewerDigits DEF Sign
<1>7. CASE Len(x) > Len(y)
  BY <1>0, <1>2, <1>5, <1>7, FewerDigits DEF Sign
<1>8. CASE Len(x) = Len(y)
  <2> DEFINE p == Len(x)
             s == [i \in 1 .. p |-> Sign(x[i], y[i])]
  <2>1. CompareNumericString(a, b) = FirstDifference(s, 0)
    BY <1>2, <1>5, <1>8 DEF Compare, Shorter, Sign
  <2>2. p \in Nat /\ \A i \in 1 .. p : x[i] \in Int /\ y[i] \in Int
    BY <1>2, <1>8
  <2>3. s \in [1 .. p -> Signs] /\ \A i \in 1 .. p : s[i] = Sign(x[i], y[i])
    BY <2>2 DEF Sign, Signs
  <2>4. /\ \A n \in 1 .. p : x[n] = a[u + n] /\ y[n] = b[v + n]
        /\ u + p = Len(a) /\ v + p = Len(b) /\ u \in Nat /\ v \in Nat
    BY <1>3, <1>4, <1>8
  <2> HIDE DEF s, p, x, y
  <2>5. ASSUME NEW n \in 0 .. p, \A i \in 1 .. n : s[i] = 0
        PROVE  Values(a)[u + n] = Values(b)[v + n]
    <3>1. \A i \in 1 .. n : a[u + i] = b[v + i]
      <4>1. ASSUME NEW i \in 1 .. n PROVE x[i] = y[i] /\ i \in 1 .. p
        BY <2>2, <2>3, <2>5 DEF Sign
      <4>2. QED
        BY <2>4, <4>1
    <3>2. n \in Nat /\ u + n <= Len(a) /\ v + n <= Len(b) /\ Values(a)[u] = Values(b)[v]
      BY <1>3, <1>4, <2>2, <2>4
    <3>3. QED
      BY <3>1, <3>2, StaysLevel
  <2>6. CASE \A i \in 1 .. p : s[i] = 0
    <3>1. p \in 0 .. p
      BY <2>2
    <3>2. Values(a)[Len(a)] = Values(b)[Len(b)]
      BY <2>4, <2>5, <2>6, <3>1
    <3>3. NumberOf(a) = NumberOf(b)
      BY <3>2, ValuesUnfold
    <3>4. FirstDifference(s, 0) = 0
      BY <2>2, <2>3, <2>6, FirstDifferenceNone
    <3>5. QED
      BY <1>0, <2>1, <3>3, <3>4 DEF Sign
  <2>7. CASE ~(\A i \in 1 .. p : s[i] = 0)
    <3>0. PICK k \in 1 .. p : s[k] # 0
      BY <2>7
    <3>1. PICK i \in 1 .. p : s[i] # 0 /\ \A j \in 1 .. i - 1 : s[j] = 0
      BY <2>2, <3>0, FirstExists
    <3>2. FirstDifference(s, 0) = Sign(x[i], y[i]) /\ x[i] # y[i]
      <4>1. FirstDifference(s, 0) = s[i]
        BY <2>2, <2>3, <3>1, FirstDifferenceAt
      <4>2. QED
        BY <2>2, <2>3, <3>1, <4>1 DEF Sign
    <3>3. Values(a)[u + (i - 1)] = Values(b)[v + (i - 1)]
      <4>1. i - 1 \in 0 .. p
        BY <2>2
      <4>2. QED
        BY <2>5, <3>1, <4>1
    <3> DEFINE e == u + i
               f == v + i
    <3>4. /\ e \in 1 .. Len(a) /\ f \in 1 .. Len(b) /\ e \in 0 .. Len(a) /\ f \in 0 .. Len(b)
          /\ u + (i - 1) = e - 1 /\ v + (i - 1) = f - 1 /\ Len(a) - e = Len(b) - f
          /\ e - 1 \in 0 .. Len(a)
      <4>1. /\ Len(a) \in Nat /\ Len(b) \in Nat /\ p \in Nat /\ i >= 1 /\ i <= p /\ i \in Nat
            /\ u + p = Len(a) /\ v + p = Len(b) /\ u \in Nat /\ v \in Nat
        BY <2>2, <2>4
      <4>2. e \in 1 .. Len(a) /\ f \in 1 .. Len(b) /\ e \in 0 .. Len(a) /\ f \in 0 .. Len(b)
        BY <4>1
      <4>3. u + (i - 1) = e - 1 /\ v + (i - 1) = f - 1 /\ Len(a) - e = Len(b) - f
        BY <4>1
      <4>4. e - 1 \in 0 .. Len(a)
        BY <4>1
      <4>5. QED
        BY <4>2, <4>3, <4>4
    <3>5. x[i] = a[e] /\ y[i] = b[f]
      BY <2>4
    <3> HIDE DEF e, f
    <3>6. /\ Values(a)[e] = 10 * Values(a)[e - 1] + x[i]
          /\ Values(b)[f] = 10 * Values(a)[e - 1] + y[i]
          /\ Values(a)[e - 1] \in Nat /\ x[i] \in Int /\ y[i] \in Int
      BY <2>2, <3>3, <3>4, <3>5, ValuesUnfold
    <3>7. CASE x[i] < y[i]
      <4>1. Values(a)[e] < Values(b)[f]
        BY <3>6, <3>7
      <4>2. NumberOf(a) < NumberOf(b)
        BY <3>4, <4>1, StaysAhead
      <4>3. QED
        BY <1>0, <2>1, <3>2, <3>7, <4>2 DEF Sign
    <3>8. CASE x[i] > y[i]
      <4>0. Len(b) - f = Len(a) - e
        BY <3>4
      <4>1. Values(b)[f] < Values(a)[e]
        BY <3>6, <3>8
      <4>2. NumberOf(b) < NumberOf(a)
        BY <3>4, <4>0, <4>1, StaysAhead
      <4>3. QED
        BY <1>0, <2>1, <3>2, <3>6, <3>8, <4>2 DEF Sign
    <3>9. QED
      BY <3>2, <3>6, <3>7, <3>8
  <2>8. QED
    BY <2>6, <2>7
<1>9. QED
  BY <1>2, <1>6, <1>7, <1>8
-----------------------------------------------------------------------------
(* Versions are in the order of the numbers they are written with.         *)

LEMMA NumbersAreNatural ==
    ASSUME NEW s \in Seq(Digit)
    PROVE  NumberOf(s) \in Nat
<1>1. Len(s) \in 0 .. Len(s)
  OBVIOUS
<1>2. QED
  BY <1>1, ValuesUnfold

LEMMA VersionTypes ==
    ASSUME NEW v \in Version
    PROVE  /\ v.release \in Seq(Seq(Digit)) /\ v.release \in Seq(Seq(Int))
           /\ v.release # <<>> /\ Len(v.release) \in Nat
           /\ \A i \in DOMAIN v.release : v.release[i] # <<>>
           /\ v.prerelease \in Seq(Seq(Int))
           /\ \A i \in DOMAIN v.prerelease : v.prerelease[i] # <<>>
<1>1. \A s \in Seq(Digit) : s \in Seq(Int)
  BY DEF Digit
<1>2. \A s \in Seq(Numeral) : /\ s \in Seq(Seq(Digit)) /\ s \in Seq(Seq(Int))
                              /\ \A i \in DOMAIN s : s[i] # <<>>
  BY <1>1 DEF Numeral
<1>3. \A s \in Seq({t \in Seq(Int) : t # <<>>}) :
          s \in Seq(Seq(Int)) /\ \A i \in DOMAIN s : s[i] # <<>>
  OBVIOUS
<1>4. v.release \in Seq(Numeral) /\ v.release # <<>> /\ v.prerelease \in Seq({t \in Seq(Int) : t # <<>>})
  BY DEF Version
<1>5. QED
  BY <1>2, <1>3, <1>4

\* Segments are compared as the numbers they are.
LEMMA SegmentsCompare ==
    ASSUME NEW a \in Seq(Seq(Digit)), NEW b \in Seq(Seq(Digit)), NEW i \in Nat \ {0}
    PROVE  /\ Segment(a, i) \in Seq(Digit) /\ Segment(b, i) \in Seq(Digit)
           /\ SegmentSign(a, b, i) = Sign(NumberOf(Segment(a, i)), NumberOf(Segment(b, i)))
<1>1. <<0>> \in Seq(Digit)
  <2>1. 0 \in Digit
    BY DEF Digit
  <2>2. QED
    BY <2>1
<1>2. Segment(a, i) \in Seq(Digit) /\ Segment(b, i) \in Seq(Digit)
  BY <1>1 DEF Segment
<1>3. QED
  BY <1>2, NumbersCompare DEF SegmentSign

\* Zeros that are not written count as if they were.
LEMMA PaddingIsNothing ==
    ASSUME NEW x \in Version
    PROVE  CompareSemverParts(x, [x EXCEPT !.release = Append(@, <<0, 0>>)]) = 0
<1> DEFINE r == x.release
           q == Append(r, <<0, 0>>)
           N == Len(r) + 1
           s == [i \in 1 .. N |-> SegmentSign(r, q, i)]
<1>1. r \in Seq(Seq(Digit)) /\ r \in Seq(Seq(Int)) /\ x.prerelease \in Seq(Seq(Int)) /\ Len(r) \in Nat
  BY VersionTypes
<1>2. 0 \in Digit /\ <<0>> \in Seq(Digit) /\ <<0, 0>> \in Seq(Digit) /\ <<0, 0>> \in Seq(Int)
  <2>1. 0 \in Digit /\ 0 \in Int
    BY DEF Digit
  <2>2. QED
    BY <2>1
<1>3. NumberOf(<<0>>) = 0 /\ NumberOf(<<0, 0>>) = 0
  <2> DEFINE b == <<0>>
             c == <<0, 0>>
  <2>1. b \in Seq(Digit) /\ c \in Seq(Digit)
    BY <1>2
  <2>2. Len(b) = 1 /\ Len(c) = 2 /\ b[1] = 0 /\ c[1] = 0 /\ c[2] = 0
    OBVIOUS
  <2> HIDE DEF b, c
  <2>3. \A t \in {b, c} :
            /\ NumberOf(t) = Values(t)[Len(t)] /\ Values(t)[0] = 0
            /\ \A n \in 1 .. Len(t) : Values(t)[n] = 10 * Values(t)[n - 1] + t[n]
    BY <2>1, ValuesUnfold
  <2>4. 1 \in 1 .. Len(b) /\ 1 \in 1 .. Len(c) /\ 2 \in 1 .. Len(c) /\ 1 - 1 = 0 /\ 2 - 1 = 1
    BY <2>2
  <2>a. Values(b)[1] = 10 * Values(b)[0] + b[1] /\ Values(b)[0] = 0
    BY <2>3, <2>4
  <2>b. Values(c)[1] = 10 * Values(c)[0] + c[1] /\ Values(c)[0] = 0
    BY <2>3, <2>4
  <2>c. Values(c)[2] = 10 * Values(c)[1] + c[2]
    BY <2>3, <2>4
  <2>d. NumberOf(b) = Values(b)[1] /\ NumberOf(c) = Values(c)[2]
    BY <2>2, <2>3
  <2>e. Values(b)[1] = 0 /\ Values(c)[1] = 0
    BY <2>2, <2>a, <2>b
  <2>5. NumberOf(b) = 0 /\ NumberOf(c) = 0
    BY <2>2, <2>c, <2>d, <2>e
  <2>6. QED
    BY <2>5 DEF b, c
<1>4. q \in Seq(Seq(Digit)) /\ q \in Seq(Seq(Int)) /\ Len(q) = N /\ Len(r) <= N /\ N \in Nat
  BY <1>1, <1>2
<1>5. ASSUME NEW i \in 1 .. N PROVE SegmentSign(r, q, i) = 0
  <2>1. i \in Nat \ {0}
    BY <1>4
  <2>2. SegmentSign(r, q, i) = Sign(NumberOf(Segment(r, i)), NumberOf(Segment(q, i)))
    <3> HIDE DEF q, r
    <3>1. QED
      BY <1>1, <1>4, <2>1, SegmentsCompare
  <2>3. NumberOf(Segment(r, i)) = NumberOf(Segment(q, i))
    <3>1. CASE i <= Len(r)
      <4>1. Segment(r, i) = Segment(q, i)
        BY <1>1, <1>4, <2>1, <3>1 DEF Segment
      <4>2. QED
        BY <4>1
    <3>2. CASE ~(i <= Len(r))
      <4>1. i = N /\ i <= Len(q)
        BY <1>1, <1>4, <2>1, <3>2
      <4>2. Segment(r, i) = <<0>> /\ Segment(q, i) = <<0, 0>>
        BY <1>1, <3>2, <4>1 DEF Segment
      <4>3. QED
        BY <1>3, <4>2
    <3>3. QED
      BY <3>1, <3>2
  <2>4. NumberOf(Segment(r, i)) \in Nat
    <3>1. Segment(r, i) \in Seq(Digit)
      BY <1>1, <2>1, SegmentsCompare
    <3>2. QED
      BY <3>1, NumbersAreNatural
  <2>5. QED
    BY <2>2, <2>3, <2>4 DEF Sign
<1> DEFINE w == [x EXCEPT !.release = Append(@, <<0, 0>>)]
<1>6. w.release = q /\ w.prerelease = x.prerelease
  BY DEF Version
<1>7. ComparePrerelease(x.prerelease, x.prerelease) = 0
  <2> DEFINE d == ComparePrerelease(x.prerelease, x.prerelease)
  <2>1. d \in Signs /\ d = -d
    BY <1>1, ComparePrereleaseOrders
  <2> HIDE DEF d
  <2>2. d = 0
    BY <2>1 DEF Signs
  <2>3. QED
    BY <2>2 DEF d
<1>8. CompareSemverParts(x, w) = FirstDifference(CompareSegments(r, q), 0)
  BY <1>6, <1>7 DEF CompareSemverParts
<1> HIDE DEF q, r, w, N
<1>9. FirstDifference(CompareSegments(r, q), 0) = FirstDifference(s, 0)
  <2>1. 0 \in Signs /\ Len(q) <= N
    BY <1>4 DEF Signs
  <2>2. QED
    BY <1>1, <1>4, <2>1, PartsAre
<1>10. s \in [1 .. N -> Signs] /\ \A i \in 1 .. N : s[i] = 0
  BY <1>5 DEF Signs
<1>11. FirstDifference(s, 0) = 0
  <2> HIDE DEF s
  <2>1. QED
    BY <1>4, <1>10, FirstDifferenceNone
<1>12. QED
  BY <1>8, <1>9, <1>11 DEF w

\* Two versions, compared by their numbers at as many places as both have
\* together.
LEMMA VersionsByNumber ==
    ASSUME NEW x \in Version, NEW y \in Version, NEW N \in Nat,
           Len(x.release) <= N, Len(y.release) <= N, NEW s,
           s = [i \in 1 .. N |-> Sign(NumberOf(Segment(x.release, i)),
                                      NumberOf(Segment(y.release, i)))]
    PROVE  /\ s \in [1 .. N -> Signs]
           /\ CompareSemverParts(x, y) =
                FirstDifference(s, ComparePrerelease(x.prerelease, y.prerelease))
<1> DEFINE a == x.release
           b == y.release
           e == [i \in 1 .. N |-> SegmentSign(a, b, i)]
           d == ComparePrerelease(x.prerelease, y.prerelease)
<1>1. /\ a \in Seq(Seq(Digit)) /\ a \in Seq(Seq(Int)) /\ b \in Seq(Seq(Digit)) /\ b \in Seq(Seq(Int))
      /\ x.prerelease \in Seq(Seq(Int)) /\ y.prerelease \in Seq(Seq(Int))
  BY VersionTypes
<1>2. d \in Signs
  BY <1>1, ComparePrereleaseOrders
<1>3. CompareSemverParts(x, y) = FirstDifference(CompareSegments(a, b), d)
  BY DEF CompareSemverParts
<1> HIDE DEF d
<1>4. Len(a) <= N /\ Len(b) <= N
  OBVIOUS
<1>5. \A i \in 1 .. N : i \in Nat \ {0}
  OBVIOUS
<1>6. \A i \in 1 .. N :
          SegmentSign(a, b, i) = Sign(NumberOf(Segment(a, i)), NumberOf(Segment(b, i)))
  <2> HIDE DEF a, b
  <2>1. QED
    BY <1>1, <1>5, SegmentsCompare
<1>7. e = s
  BY <1>6
<1> HIDE DEF a, b
<1>8. FirstDifference(CompareSegments(a, b), d) = FirstDifference(e, d)
  BY <1>1, <1>2, <1>4, PartsAre
<1>9. e \in [1 .. N -> Signs]
  BY <1>1, <1>5, SegmentSignOrders
<1>10. QED
  BY <1>3, <1>7, <1>8, <1>9 DEF d
LEMMA ReleaseIsNewest ==
    ASSUME NEW x \in Version, x.prerelease # <<>>
    PROVE  CompareSemverParts(x, [x EXCEPT !.prerelease = <<>>]) = -1
<1> DEFINE w == [x EXCEPT !.prerelease = <<>>]
           N == Len(x.release)
           s == [i \in 1 .. N |-> Sign(NumberOf(Segment(x.release, i)),
                                       NumberOf(Segment(w.release, i)))]
<1>1. w \in Version /\ w.release = x.release /\ w.prerelease = <<>>
  <2> DEFINE R == {t \in Seq(Numeral) : t # <<>>}
             P == Seq({t \in Seq(Int) : t # <<>>})
  <2>1. <<>> \in P
    OBVIOUS
  <2>2. Version = [release : R, prerelease : P]
    BY DEF Version
  <2> HIDE DEF R, P
  <2>3. QED
    BY <2>1, <2>2
<1>2. N \in Nat /\ Len(w.release) <= N /\ Len(x.release) <= N
  BY <1>1, VersionTypes
<1> HIDE DEF w, N
<1>3. /\ s \in [1 .. N -> Signs]
      /\ CompareSemverParts(x, w) = FirstDifference(s, ComparePrerelease(x.prerelease, w.prerelease))
  BY <1>1, <1>2, VersionsByNumber
<1>4. ComparePrerelease(x.prerelease, w.prerelease) = -1
  BY <1>1 DEF ComparePrerelease
<1>5. \A i \in 1 .. N : s[i] = 0
  <2>1. ASSUME NEW i \in 1 .. N PROVE s[i] = 0
    <3>1. x.release \in Seq(Seq(Digit)) /\ i \in Nat \ {0}
      BY <1>2, VersionTypes
    <3>2. NumberOf(Segment(x.release, i)) \in Nat
      BY <3>1, SegmentsCompare, NumbersAreNatural
    <3>3. QED
      BY <1>1, <3>2 DEF Sign
  <2>2. QED
    BY <2>1
<1> HIDE DEF s
<1>6. FirstDifference(s, -1) = -1
  BY <1>2, <1>3, <1>5, FirstDifferenceNone
<1>7. QED
  BY <1>3, <1>4, <1>6 DEF w

\* compareSemverParts is the order of the numbers.
LEMMA VersionsAlwaysInOrder ==
    ASSUME NEW x \in Version, NEW y \in Version, NEW z \in Version
    PROVE  VersionsInOrder(x, y, z)
<1> DEFINE At(v, i) == NumberOf(Segment(v.release, i))
           N == Len(x.release) + Len(y.release)
           first == {i \in 1 .. N : At(x, i) # At(y, i) /\ \A j \in 1 .. i - 1 : At(x, j) = At(y, j)}
           s == [i \in 1 .. N |-> Sign(At(x, i), At(y, i))]
           d == ComparePrerelease(x.prerelease, y.prerelease)
<1>1. CompareSemverParts(x, y) = -CompareSemverParts(y, x)
  <2> DEFINE c == CompareSemverParts(x, y)
             e == CompareSemverParts(y, x)
  <2>1. c \in Signs /\ e = -c
    BY VersionsAreTotallyOrdered
  <2> HIDE DEF c, e
  <2>2. c = -e
    BY <2>1 DEF Signs
  <2>3. QED
    BY <2>2 DEF c, e
<1>2. CompareSemverParts(x, y) <= 0 /\ CompareSemverParts(y, z) <= 0 => CompareSemverParts(x, z) <= 0
  <2> DEFINE xy == CompareSemverParts(x, y)
             yz == CompareSemverParts(y, z)
             xz == CompareSemverParts(x, z)
  <2>1. xy \in Signs /\ yz \in Signs /\ xz \in Signs /\ Chained(xy, yz, xz)
    BY VersionsAreTotallyOrdered
  <2> HIDE DEF xy, yz, xz
  <2>2. xy <= 0 /\ yz <= 0 => xz <= 0
    BY <2>1 DEF Signs, Chained
  <2>3. QED
    BY <2>2 DEF xy, yz, xz
<1>3. N \in Nat /\ Len(x.release) <= N /\ Len(y.release) <= N
  <2>1. Len(x.release) \in Nat /\ Len(y.release) \in Nat
    BY VersionTypes
  <2>2. \A m, n \in Nat : m + n \in Nat /\ m <= m + n /\ n <= m + n
    OBVIOUS
  <2>3. QED
    BY <2>1, <2>2
<1> HIDE DEF N
<1>4. \A i \in 1 .. N : At(x, i) \in Nat /\ At(y, i) \in Nat
  <2>1. ASSUME NEW i \in 1 .. N PROVE At(x, i) \in Nat /\ At(y, i) \in Nat
    <3>1. x.release \in Seq(Seq(Digit)) /\ y.release \in Seq(Seq(Digit)) /\ i \in Nat \ {0}
      BY <1>3, VersionTypes
    <3>2. QED
      BY <3>1, SegmentsCompare, NumbersAreNatural
  <2>2. QED
    BY <2>1
<1>5. s \in [1 .. N -> Signs] /\ CompareSemverParts(x, y) = FirstDifference(s, d)
  BY <1>3, VersionsByNumber
<1> HIDE DEF At, d
<1>6. \A i \in 1 .. N : s[i] = Sign(At(x, i), At(y, i)) /\ (s[i] = 0 <=> At(x, i) = At(y, i))
  <2>1. ASSUME NEW i \in 1 .. N PROVE Sign(At(x, i), At(y, i)) = 0 <=> At(x, i) = At(y, i)
    BY <1>4 DEF Sign
  <2>2. QED
    BY <2>1
<1> HIDE DEF s
<1>7. ASSUME NEW i \in first
      PROVE  CompareSemverParts(x, y) = Sign(At(x, i), At(y, i))
  <2>1. i \in 1 .. N /\ \A j \in 1 .. i - 1 : j \in 1 .. N
    BY <1>3
  <2>2. s[i] # 0 /\ \A j \in 1 .. i - 1 : s[j] = 0
    BY <1>6, <1>7, <2>1
  <2>3. FirstDifference(s, d) = s[i]
    BY <1>3, <1>5, <2>1, <2>2, FirstDifferenceAt
  <2>4. QED
    BY <1>5, <1>6, <2>1, <2>3
<1>8. ASSUME first = {} PROVE CompareSemverParts(x, y) = d
  <2>1. \A i \in 1 .. N : s[i] = 0
    <3>1. SUFFICES ASSUME NEW k \in 1 .. N, s[k] # 0 PROVE FALSE
      OBVIOUS
    <3>2. PICK i \in 1 .. N : s[i] # 0 /\ \A j \in 1 .. i - 1 : s[j] = 0
      BY <1>3, <3>1, FirstExists
    <3>3. \A j \in 1 .. i - 1 : j \in 1 .. N
      BY <1>3
    <3>4. i \in first
      BY <1>6, <3>2, <3>3
    <3>5. QED
      BY <1>8, <3>4
  <2>2. QED
    BY <1>3, <1>5, <2>1, FirstDifferenceNone
<1> HIDE DEF first
<1>9. ASSUME NEW i \in DOMAIN x.prerelease \intersect DOMAIN y.prerelease,
             \A j \in 1 .. i - 1 : x.prerelease[j] = y.prerelease[j],
             IsAllDigits(x.prerelease[i]), IsAllDigits(y.prerelease[i]),
             NumberOf(x.prerelease[i]) # NumberOf(y.prerelease[i]), first = {}
      PROVE  CompareSemverParts(x, y) = Sign(NumberOf(x.prerelease[i]), NumberOf(y.prerelease[i]))
  <2> DEFINE p == x.prerelease
             q == y.prerelease
             n == Shorter(p, q)
             t == [k \in 1 .. n |-> ComparePrereleaseID(p[k], q[k])]
  <2>1. p \in Seq(Seq(Int)) /\ q \in Seq(Seq(Int)) /\ i \in DOMAIN p /\ i \in DOMAIN q
    BY VersionTypes
  <2>2. /\ p # <<>> /\ q # <<>> /\ n \in Nat /\ i \in 1 .. n
        /\ \A k \in 1 .. n : p[k] \in Seq(Int) /\ q[k] \in Seq(Int)
    <3> HIDE DEF p, q
    <3>1. p # <<>> /\ q # <<>> /\ i \in 1 .. Len(p) /\ i \in 1 .. Len(q)
      BY <2>1
    <3>2. n \in Nat /\ n <= Len(p) /\ n <= Len(q) /\ i \in 1 .. n
      BY <2>1, <3>1 DEF Shorter
    <3> HIDE DEF n
    <3>3. \A k \in 1 .. n : p[k] \in Seq(Int) /\ q[k] \in Seq(Int)
      BY <2>1, <3>2
    <3>4. QED
      BY <3>1, <3>2, <3>3
  <2>3. d = FirstDifference(t, Sign(Len(p), Len(q)))
    BY <2>2 DEF d, ComparePrerelease
  <2>4. \A k \in 1 .. n : ComparePrereleaseID(p[k], q[k]) \in Signs
    BY <2>2, ComparePrereleaseIDOrders
  <2>5. p[i] \in Seq(Digit) /\ q[i] \in Seq(Digit)
    <3>1. \A u \in Seq(Int) : IsAllDigits(u) => u \in Seq(Digit)
      BY DEF IsAllDigits
    <3>2. QED
      BY <1>9, <2>2, <3>1
  <2>6. t[i] = Sign(NumberOf(p[i]), NumberOf(q[i]))
    <3>1. ComparePrereleaseID(p[i], q[i]) = CompareNumericString(p[i], q[i])
      BY <1>9 DEF ComparePrereleaseID
    <3>2. QED
      BY <2>2, <2>5, <3>1, NumbersCompare
  <2>7. t[i] # 0
    <3>1. NumberOf(p[i]) \in Nat /\ NumberOf(q[i]) \in Nat
      BY <2>5, NumbersAreNatural
    <3>2. QED
      BY <1>9, <2>6, <3>1 DEF Sign
  <2>8. \A j \in 1 .. i - 1 : t[j] = 0
    <3>1. ASSUME NEW j \in 1 .. i - 1 PROVE t[j] = 0
      <4>1. j \in 1 .. n /\ p[j] = q[j]
        BY <1>9, <2>2
      <4> DEFINE c == ComparePrereleaseID(p[j], p[j])
      <4>2. c \in Signs /\ c = -c
        BY <2>2, <4>1, ComparePrereleaseIDOrders
      <4> HIDE DEF c
      <4>3. c = 0
        BY <4>2 DEF Signs
      <4>4. QED
        BY <4>1, <4>3 DEF c
    <3>2. QED
      BY <3>1
  <2>9. t \in [1 .. n -> Signs]
    BY <2>4
  <2> HIDE DEF t, n
  <2>10. d = t[i]
    BY <2>2, <2>3, <2>7, <2>8, <2>9, FirstDifferenceAt
  <2>11. QED
    BY <1>8, <1>9, <2>6, <2>10
<1>10. CompareSemverParts(x, [x EXCEPT !.release = Append(@, <<0, 0>>)]) = 0
  BY PaddingIsNothing
<1>11. x.prerelease # <<>> => CompareSemverParts(x, [x EXCEPT !.prerelease = <<>>]) = -1
  BY ReleaseIsNewest
<1>12. QED
  BY <1>1, <1>2, <1>7, <1>9, <1>10, <1>11 DEF VersionsInOrder, At, first, N
-----------------------------------------------------------------------------
(* Versions are read as they are written.                                  *)

LEMMA BeforeIs ==
    ASSUME NEW s \in Seq(Int), NEW char \in Int
    PROVE  \/ Before(s, char) = 0 /\ \A i \in 1 .. Len(s) : s[i] # char
           \/ /\ Before(s, char) \in 1 .. Len(s) /\ s[Before(s, char)] = char
              /\ \A j \in 1 .. Before(s, char) - 1 : s[j] # char
<1> DEFINE places == {i \in 1 .. Len(s) : s[i] = char}
           least == CHOOSE i \in places : \A j \in places : i <= j
<1>1. Before(s, char) = IF places # {} THEN least ELSE 0
  BY DEF Before, SelectInSeq, Min
<1>2. CASE places = {}
  BY <1>1, <1>2
<1>3. CASE places # {}
  <2>1. places \subseteq Nat
    OBVIOUS
  <2>2. \E i \in places : \A j \in places : i <= j
    <3>1. PICK i \in places : \A j \in places : ~(<<j, i>> \in OpToRel(<, Nat))
      <4> HIDE DEF places
      <4>1. QED
        BY <1>3, <2>1, NatLessThanWellFounded, WFMin
    <3>2. \A j \in places : ~(j < i)
      BY <2>1, <3>1 DEF OpToRel
    <3>3. QED
      BY <2>1, <3>2
  <2>3. least \in places /\ \A j \in places : least <= j
    <3> HIDE DEF places
    <3>1. QED
      BY <2>2
  <2> HIDE DEF least
  <2>4. \A j \in 1 .. least - 1 : s[j] # char
    BY <2>1, <2>3
  <2>5. QED
    BY <1>1, <1>3, <2>3, <2>4
<1>4. QED
  BY <1>2, <1>3

LEMMA BeforeNone ==
    ASSUME NEW s \in Seq(Int), NEW char \in Int, \A i \in 1 .. Len(s) : s[i] # char
    PROVE  Before(s, char) = 0
BY BeforeIs

LEMMA BeforeAt ==
    ASSUME NEW s \in Seq(Int), NEW char \in Int, NEW i \in 1 .. Len(s), s[i] = char,
           \A j \in 1 .. i - 1 : s[j] # char
    PROVE  Before(s, char) = i
<1> DEFINE b == Before(s, char)
<1>1. b \in 1 .. Len(s) /\ s[b] = char /\ \A j \in 1 .. b - 1 : s[j] # char
  BY BeforeIs
<1> HIDE DEF b
<1>2. ~(b < i) /\ ~(i < b)
  <2>1. b < i => b \in 1 .. i - 1
    BY <1>1
  <2>2. i < b => i \in 1 .. b - 1
    BY <1>1
  <2>3. QED
    BY <1>1, <2>1, <2>2
<1>3. b = i
  BY <1>1, <1>2
<1>4. QED
  BY <1>3 DEF b

\* The parts of a text, once its first part is begun.
Parts(chars) == Seq(Seq(chars)) \ {<<>>}

LEMMA LengthenedType ==
    ASSUME NEW C, NEW parts \in Parts(C), NEW c \in C
    PROVE  Lengthened(parts, c) \in Parts(C)
<1>1. parts \in Seq(Seq(C)) /\ Len(parts) \in 1 .. Len(parts) /\ Len(parts) \in Nat
  BY DEF Parts
<1>2. CASE c = Dot
  <2>1. <<>> \in Seq(C)
    OBVIOUS
  <2>2. Append(parts, <<>>) \in Seq(Seq(C)) /\ Append(parts, <<>>) # <<>>
    BY <1>1, <2>1
  <2>3. QED
    BY <1>2, <2>2 DEF Lengthened, Parts
<1>3. CASE c # Dot
  <2> DEFINE e == Append(parts[Len(parts)], c)
             q == [parts EXCEPT ![Len(parts)] = e]
  <2>1. parts[Len(parts)] \in Seq(C)
    BY <1>1
  <2>2. e \in Seq(C)
    BY <2>1
  <2>3. Lengthened(parts, c) = q
    BY <1>3 DEF Lengthened
  <2> HIDE DEF e
  <2>4. q \in Seq(Seq(C)) /\ Len(q) = Len(parts)
    BY <1>1, <2>2, ExceptSeq
  <2> HIDE DEF q
  <2>5. q # <<>>
    BY <1>1, <2>4
  <2>6. QED
    BY <2>3, <2>4, <2>5 DEF Parts
<1>4. QED
  BY <1>2, <1>3

\* A dot begins a part, and any other character goes on the last.
LEMMA LengthenedDot ==
    ASSUME NEW parts
    PROVE  Lengthened(parts, Dot) = Append(parts, <<>>)
BY DEF Lengthened

LEMMA LengthenedChar ==
    ASSUME NEW C, NEW parts \in Seq(Seq(C)), NEW u \in Seq(C), NEW c \in C, c # Dot
    PROVE  Lengthened(Append(parts, u), c) = Append(parts, Append(u, c))
<1> DEFINE p == Append(parts, u)
           k == Len(parts) + 1
           q == [p EXCEPT ![k] = Append(u, c)]
           r == Append(parts, Append(u, c))
<1>1. Len(parts) \in Nat /\ p \in Seq(Seq(C)) /\ Len(p) = k /\ p[k] = u /\ k \in 1 .. Len(p)
  OBVIOUS
<1>2. \A i \in 1 .. k : p[i] = IF i = k THEN u ELSE parts[i]
  OBVIOUS
<1>3. Append(u, c) \in Seq(C)
  OBVIOUS
<1>4. r \in Seq(Seq(C)) /\ Len(r) = k /\ \A i \in 1 .. k : r[i] = IF i = k THEN Append(u, c) ELSE parts[i]
  BY <1>3
<1>5. Lengthened(p, c) = q
  BY <1>1 DEF Lengthened
<1> DEFINE e == Append(u, c)
<1> HIDE DEF p, e
<1>6. q \in Seq(Seq(C)) /\ Len(q) = k /\ \A i \in 1 .. k : q[i] = IF i = k THEN e ELSE p[i]
  BY <1>1, <1>3, ExceptSeq DEF e
<1> HIDE DEF q, r
<1>7. q = r
  BY <1>1, <1>2, <1>4, <1>6, SeqEqual DEF e
<1>8. QED
  BY <1>5, <1>7 DEF p, r
\* What strings.Split has made of a text up to each place.
Splits(s) ==
    CHOOSE split : split = [n \in 0 .. Len(s) |->
                              IF n = 0 THEN <<<<>>>> ELSE Lengthened(split[n - 1], s[n])]

LEMMA SplitsUnfold ==
    ASSUME NEW C, NEW s \in Seq(C)
    PROVE  /\ SplitDots(s) = Splits(s)[Len(s)]
           /\ Splits(s)[0] = <<<<>>>>
           /\ \A n \in 1 .. Len(s) : Splits(s)[n] = Lengthened(Splits(s)[n - 1], s[n])
           /\ SplitDots(s) \in Parts(C)
<1> DEFINE N == Len(s)
           S == Parts(C)
           next == [p \in (1 .. N) \X S |-> Lengthened(p[2], s[p[1]])]
           Solves(g) == g = [n \in 0 .. N |-> IF n = 0 THEN <<<<>>>> ELSE Lengthened(g[n - 1], s[n])]
<1>1. N \in Nat /\ \A n \in 1 .. N : s[n] \in C
  OBVIOUS
<1>2. <<<<>>>> \in S
  <2>1. <<>> \in Seq(C)
    OBVIOUS
  <2>2. QED
    BY <2>1 DEF Parts
<1> HIDE DEF S
<1>3. next \in [(1 .. N) \X S -> S]
  <2>1. ASSUME NEW p \in (1 .. N) \X S PROVE Lengthened(p[2], s[p[1]]) \in S
    BY <1>1, LengthenedType DEF S
  <2>2. QED
    BY <2>1
<1>4. \A n \in 1 .. N, v \in S : next[<<n, v>>] = Lengthened(v, s[n])
  OBVIOUS
<1> HIDE DEF next
<1>5. PICK g : Recurses(g, N, S, <<<<>>>>, next)
  <2> HIDE DEF N
  <2>1. QED
    BY <1>1, <1>2, <1>3, RecursionExists
<1>6. Solves(g)
  <2>1. ASSUME NEW n \in 0 .. N
        PROVE  g[n] = IF n = 0 THEN <<<<>>>> ELSE Lengthened(g[n - 1], s[n])
    <3>1. CASE n = 0
      BY <1>5, <3>1 DEF Recurses
    <3>2. CASE n # 0
      <4>1. n \in 1 .. N /\ n - 1 \in 0 .. N
        BY <1>1, <3>2
      <4>2. g[n - 1] \in S
        BY <1>5, <4>1 DEF Recurses
      <4>3. g[n] = next[<<n, g[n - 1]>>]
        BY <1>5, <4>1 DEF Recurses
      <4>4. QED
        BY <1>4, <3>2, <4>1, <4>2, <4>3
    <3>3. QED
      BY <3>1, <3>2
  <2>2. g \in [0 .. N -> S]
    BY <1>5 DEF Recurses
  <2>3. QED
    BY <2>1, <2>2
<1>7. Splits(s) = CHOOSE h : Solves(h)
  BY DEF Splits
<1>8. Solves(Splits(s))
  <2> HIDE DEF Solves
  <2>1. QED
    BY <1>6, <1>7
<1>9. SplitDots(s) = Splits(s)[N]
  BY DEF SplitDots, Splits
<1> DEFINE v == Splits(s)
<1> HIDE DEF v
<1>10. v = [n \in 0 .. N |-> IF n = 0 THEN <<<<>>>> ELSE Lengthened(v[n - 1], s[n])]
  BY <1>8 DEF v
<1>11. v[0] = <<<<>>>> /\ \A n \in 1 .. N : v[n] = Lengthened(v[n - 1], s[n])
  BY <1>1, <1>10
<1>12. v[N] \in S
  <2>1. ASSUME NEW n \in 1 .. N, v[n - 1] \in S PROVE v[n] \in S
    <3>1. s[n] \in C /\ v[n] = Lengthened(v[n - 1], s[n])
      BY <1>1, <1>11
    <3>2. QED
      BY <2>1, <3>1, LengthenedType DEF S
  <2>2. v[0] \in S
    BY <1>2, <1>11
  <2> HIDE DEF N
  <2>3. \A n \in 0 .. N : v[n] \in S
    BY <1>1, <2>1, <2>2, RecursionStays
  <2>4. QED
    BY <1>1, <2>3
<1>13. QED
  BY <1>9, <1>11, <1>12 DEF v, S

\* After m characters, a text has another in it.
Holds(s, m, part) == m + Len(part) <= Len(s) /\ \A i \in 1 .. Len(part) : s[m + i] = part[i]

\* A part without a dot is put together character by character.
LEMMA PartIsRead ==
    ASSUME NEW C, Dot \notin C, NEW D, NEW s \in Seq(D), NEW done \in Seq(Seq(C)),
           NEW part \in Seq(C), NEW m \in Nat, Holds(s, m, part),
           Splits(s)[m] = Append(done, <<>>)
    PROVE  Splits(s)[m + Len(part)] = Append(done, part)
<1> DEFINE N == Len(part)
           T == {i \in Nat : Splits(s)[m + i] = Append(done, SubSeq(part, 1, i))}
<1>1. N \in Nat /\ Len(s) \in Nat /\ m + N <= Len(s) /\ \A i \in 1 .. N : s[m + i] = part[i]
  BY DEF Holds
<1>2. 0 \in T
  <2>1. SubSeq(part, 1, 0) = <<>> /\ m + 0 = m
    OBVIOUS
  <2>2. QED
    BY <2>1
<1>3. ASSUME NEW i \in Nat, i < N, i \in T PROVE i + 1 \in T
  <2> DEFINE u == SubSeq(part, 1, i)
             c == part[i + 1]
             k == m + (i + 1)
  <2>1. Splits(s)[m + i] = Append(done, u)
    BY <1>3
  <2>2. i + 1 \in 1 .. N /\ k \in 1 .. Len(s) /\ k - 1 = m + i
    BY <1>1, <1>3
  <2>3. c \in C /\ c # Dot /\ u \in Seq(C) /\ s[k] = c
    BY <1>1, <2>2
  <2>4. SubSeq(part, 1, i + 1) = Append(u, c)
    BY <2>2
  <2> HIDE DEF u, c, k
  <2>5. Splits(s)[k] = Lengthened(Splits(s)[k - 1], s[k])
    BY <2>2, SplitsUnfold
  <2>6. Lengthened(Append(done, u), c) = Append(done, Append(u, c))
    BY <2>3, LengthenedChar
  <2>7. Splits(s)[k] = Append(done, SubSeq(part, 1, i + 1))
    BY <2>1, <2>2, <2>3, <2>4, <2>5, <2>6
  <2>8. QED
    BY <2>7 DEF k
<1> HIDE DEF T
<1>4. 0 .. N \subseteq T
  <2> HIDE DEF N
  <2>1. QED
    BY <1>1, <1>2, <1>3, NumbersUpTo
<1>5. N \in T
  <2> HIDE DEF N
  <2>1. QED
    BY <1>1, <1>4
<1>6. SubSeq(part, 1, N) = part
  OBVIOUS
<1>7. QED
  BY <1>5, <1>6 DEF T
\* What the first parts are when dots join them.
Dotteds(parts) ==
    CHOOSE text : text = [n \in 0 .. Len(parts) - 1 |->
                            IF n = 0 THEN parts[1] ELSE text[n - 1] \o <<Dot>> \o parts[n + 1]]

LEMMA DottedsUnfold ==
    ASSUME NEW C, NEW parts \in Seq(Seq(C)), parts # <<>>
    PROVE  /\ Dotted(parts) = Dotteds(parts)[Len(parts) - 1]
           /\ Dotteds(parts)[0] = parts[1]
           /\ \A n \in 1 .. Len(parts) - 1 :
                Dotteds(parts)[n] = Dotteds(parts)[n - 1] \o <<Dot>> \o parts[n + 1]
           /\ \A n \in 0 .. Len(parts) - 1 : Dotteds(parts)[n] \in Seq(C \union {Dot})
<1> DEFINE N == Len(parts) - 1
           S == Seq(C \union {Dot})
           next == [p \in (1 .. N) \X S |-> p[2] \o <<Dot>> \o parts[p[1] + 1]]
           Solves(g) == g = [n \in 0 .. N |->
                               IF n = 0 THEN parts[1] ELSE g[n - 1] \o <<Dot>> \o parts[n + 1]]
<1>1. N \in Nat /\ 1 \in 1 .. Len(parts) /\ \A n \in 0 .. N : n + 1 \in 1 .. Len(parts)
  OBVIOUS
<1>2. \A n \in 1 .. Len(parts) : parts[n] \in S
  <2>1. ASSUME NEW n \in 1 .. Len(parts) PROVE parts[n] \in S
    <3>1. parts[n] \in Seq(C)
      OBVIOUS
    <3>2. C \subseteq C \union {Dot}
      OBVIOUS
    <3>3. QED
      BY <3>1, <3>2, SeqMonotonic
  <2>2. QED
    BY <2>1
<1>3. <<Dot>> \in S
  OBVIOUS
<1>4. \A a, b \in S : a \o <<Dot>> \o b \in S
  <2>1. \A a, b \in S : a \o b \in S
    OBVIOUS
  <2>2. QED
    BY <1>3, <2>1
<1> HIDE DEF S
<1>5. next \in [(1 .. N) \X S -> S]
  <2>1. ASSUME NEW p \in (1 .. N) \X S PROVE p[2] \o <<Dot>> \o parts[p[1] + 1] \in S
    <3>1. p[2] \in S /\ p[1] \in 0 .. N
      BY <1>1
    <3>2. parts[p[1] + 1] \in S
      BY <1>1, <1>2, <3>1
    <3>3. QED
      BY <1>4, <3>1, <3>2
  <2>2. QED
    BY <2>1
<1>6. \A n \in 1 .. N, v \in S : next[<<n, v>>] = v \o <<Dot>> \o parts[n + 1]
  OBVIOUS
<1> HIDE DEF next
<1>7. PICK g : Recurses(g, N, S, parts[1], next)
  <2> HIDE DEF N
  <2>1. QED
    BY <1>1, <1>2, <1>5, RecursionExists
<1>8. Solves(g)
  <2>1. ASSUME NEW n \in 0 .. N
        PROVE  g[n] = IF n = 0 THEN parts[1] ELSE g[n - 1] \o <<Dot>> \o parts[n + 1]
    <3>1. CASE n = 0
      BY <1>7, <3>1 DEF Recurses
    <3>2. CASE n # 0
      <4>1. n \in 1 .. N /\ n - 1 \in 0 .. N
        BY <1>1, <3>2
      <4>2. g[n - 1] \in S
        BY <1>7, <4>1 DEF Recurses
      <4>3. g[n] = next[<<n, g[n - 1]>>]
        BY <1>7, <4>1 DEF Recurses
      <4>4. next[<<n, g[n - 1]>>] = g[n - 1] \o <<Dot>> \o parts[n + 1]
        BY <1>6, <4>1, <4>2
      <4>5. QED
        BY <3>2, <4>3, <4>4
    <3>3. QED
      BY <3>1, <3>2
  <2>2. g \in [0 .. N -> S]
    BY <1>7 DEF Recurses
  <2>3. QED
    BY <2>1, <2>2
<1>9. Dotteds(parts) = CHOOSE h : Solves(h)
  BY DEF Dotteds
<1>10. Solves(Dotteds(parts))
  <2> HIDE DEF Solves
  <2>1. QED
    BY <1>8, <1>9
<1>11. Dotted(parts) = Dotteds(parts)[N]
  BY DEF Dotted, Dotteds
<1> DEFINE v == Dotteds(parts)
<1> HIDE DEF v
<1>12. v = [n \in 0 .. N |-> IF n = 0 THEN parts[1] ELSE v[n - 1] \o <<Dot>> \o parts[n + 1]]
  BY <1>10 DEF v
<1>13. v[0] = parts[1] /\ \A n \in 1 .. N : v[n] = v[n - 1] \o <<Dot>> \o parts[n + 1]
  <2>1. 0 \in 0 .. N /\ \A n \in 1 .. N : n \in 0 .. N /\ n # 0
    BY <1>1
  <2> HIDE DEF N
  <2>2. v[0] = parts[1]
    BY <1>12, <2>1
  <2>3. ASSUME NEW n \in 1 .. N PROVE v[n] = v[n - 1] \o <<Dot>> \o parts[n + 1]
    BY <1>12, <2>1
  <2>4. QED
    BY <2>2, <2>3
<1>14. \A n \in 0 .. N : v[n] \in S
  <2>1. ASSUME NEW n \in 1 .. N, v[n - 1] \in S PROVE v[n] \in S
    <3>1. n \in 0 .. N
      BY <1>1
    <3>2. parts[n + 1] \in S
      BY <1>1, <1>2, <3>1
    <3>3. v[n] = v[n - 1] \o <<Dot>> \o parts[n + 1]
      BY <1>13
    <3>4. QED
      BY <1>4, <2>1, <3>2, <3>3
  <2>2. v[0] \in S
    BY <1>1, <1>2, <1>13
  <2> HIDE DEF N
  <2>3. QED
    BY <1>1, <2>1, <2>2, RecursionStays
<1>15. QED
  BY <1>11, <1>13, <1>14 DEF v, S

LEMMA DottedType ==
    ASSUME NEW C, NEW parts \in Seq(Seq(C)), parts # <<>>
    PROVE  Dotted(parts) \in Seq(C \union {Dot})
<1> DEFINE N == Len(parts) - 1
           S == Seq(C \union {Dot})
<1>1. N \in 0 .. N
  OBVIOUS
<1>2. Dotted(parts) = Dotteds(parts)[N] /\ \A n \in 0 .. N : Dotteds(parts)[n] \in S
  BY DottedsUnfold
<1> HIDE DEF N, S
<1>3. Dotted(parts) \in S
  BY <1>1, <1>2
<1>4. QED
  BY <1>3 DEF S

\* A text begins as another.
Begins(s, t) == Len(t) <= Len(s) /\ \A i \in 1 .. Len(t) : s[i] = t[i]

WithDot(t, part) == t \o <<Dot>> \o part

LEMMA BeginsWithDot ==
    ASSUME NEW D, NEW s \in Seq(D), NEW t \in Seq(D), NEW part \in Seq(D), Dot \in D,
           NEW b, b = WithDot(t, part), Begins(s, b), NEW n, n = Len(t) + 1
    PROVE  /\ Begins(s, t) /\ n \in 1 .. Len(s) /\ s[n] = Dot
           /\ Len(b) = n + Len(part) /\ Holds(s, n, part)
<1> DEFINE a == t \o <<Dot>>
           m == Len(t)
           k == Len(part)
<1>0. b = a \o part
  BY DEF WithDot
<1> HIDE DEF WithDot
<1>1. a \in Seq(D) /\ Len(a) = m + 1 /\ \A i \in 1 .. m + 1 : a[i] = IF i <= m THEN t[i] ELSE Dot
  <2> DEFINE dot == <<Dot>>
  <2>1. dot \in Seq(D) /\ Len(dot) = 1 /\ dot[1] = Dot
    OBVIOUS
  <2> HIDE DEF dot
  <2>2. /\ t \o dot \in Seq(D) /\ Len(t \o dot) = Len(t) + Len(dot)
        /\ \A i \in 1 .. Len(t) + Len(dot) :
             (t \o dot)[i] = IF i <= Len(t) THEN t[i] ELSE dot[i - Len(t)]
    BY <2>1, ConcatProperties
  <2>3. a = t \o dot /\ Len(t) \in Nat
    BY DEF dot
  <2> HIDE DEF a, m
  <2>4. a \in Seq(D) /\ Len(a) = m + 1
    BY <2>1, <2>2, <2>3 DEF m
  <2>5. ASSUME NEW i \in 1 .. m + 1 PROVE a[i] = IF i <= m THEN t[i] ELSE Dot
    <3>1. a[i] = IF i <= Len(t) THEN t[i] ELSE dot[i - Len(t)]
      BY <2>1, <2>2, <2>3 DEF m
    <3>2. ~(i <= Len(t)) => i - Len(t) = 1
      BY <2>3 DEF m
    <3>3. QED
      BY <2>1, <3>1, <3>2 DEF m
  <2>6. QED
    BY <2>4, <2>5
<1> HIDE DEF a
<1>2. /\ Len(b) = m + 1 + k
      /\ \A i \in 1 .. m + 1 + k : b[i] = IF i <= m + 1 THEN a[i] ELSE part[i - (m + 1)]
  <2>1. /\ Len(b) = Len(a) + Len(part)
        /\ \A i \in 1 .. Len(a) + Len(part) : b[i] = IF i <= Len(a) THEN a[i] ELSE part[i - Len(a)]
    <3>1. a \in Seq(D)
      BY <1>1
    <3>2. /\ Len(a \o part) = Len(a) + Len(part)
          /\ \A i \in 1 .. Len(a) + Len(part) :
               (a \o part)[i] = IF i <= Len(a) THEN a[i] ELSE part[i - Len(a)]
      BY <3>1, ConcatProperties
    <3>3. QED
      BY <1>0, <3>2
  <2> HIDE DEF m
  <2>2. Len(a) = m + 1
    BY <1>1
  <2>3. QED
    BY <2>1, <2>2
<1>4. m \in Nat /\ k \in Nat /\ Len(s) \in Nat
  OBVIOUS
<1> HIDE DEF m, k
<1>5. m + 1 + k <= Len(s) /\ \A i \in 1 .. m + 1 + k : s[i] = b[i]
  BY <1>2 DEF Begins
<1>6. m <= Len(s) /\ \A i \in 1 .. m : s[i] = t[i]
  <2>1. m <= Len(s) /\ \A i \in 1 .. m : i \in 1 .. m + 1 /\ i \in 1 .. m + 1 + k /\ i <= m /\ i <= m + 1
    BY <1>4, <1>5
  <2>2. QED
    BY <1>1, <1>2, <1>5, <2>1
<1>7. m + 1 \in 1 .. Len(s) /\ s[m + 1] = Dot
  <2>1. /\ m + 1 \in 1 .. Len(s) /\ m + 1 \in 1 .. m + 1 /\ m + 1 \in 1 .. m + 1 + k
        /\ ~(m + 1 <= m) /\ m + 1 <= m + 1
    BY <1>4, <1>5
  <2>2. a[m + 1] = Dot
    BY <1>1, <2>1
  <2>3. b[m + 1] = a[m + 1]
    BY <1>2, <2>1
  <2>4. QED
    BY <1>5, <2>1, <2>2, <2>3
<1>8. \A i \in 1 .. k : s[(m + 1) + i] = part[i]
  <2>1. ASSUME NEW i \in 1 .. k PROVE s[(m + 1) + i] = part[i]
    <3> DEFINE j == (m + 1) + i
    <3>1. j \in 1 .. m + 1 + k /\ ~(j <= m + 1) /\ j - (m + 1) = i
      BY <1>4
    <3> HIDE DEF j
    <3>2. s[j] = part[i]
      BY <1>2, <1>5, <3>1
    <3>3. QED
      BY <3>2 DEF j
  <2>2. QED
    BY <2>1
<1>9. n = m + 1
  BY DEF m
<1>10. n + Len(part) <= Len(s) /\ \A i \in 1 .. Len(part) : s[n + i] = part[i]
  BY <1>5, <1>8, <1>9 DEF k
<1>11. Begins(s, t) /\ Len(b) = n + Len(part)
  BY <1>2, <1>6, <1>9 DEF Begins, m, k
<1>12. QED
  BY <1>7, <1>9, <1>10, <1>11 DEF Holds
\* Splitting undoes joining, if no part has a dot.
LEMMA SplitIsJoined ==
    ASSUME NEW C, Dot \notin C, NEW parts \in Seq(Seq(C)), parts # <<>>
    PROVE  SplitDots(Dotted(parts)) = parts
<1> DEFINE D == C \union {Dot}
           X == Dotteds(parts)
           N == Len(parts) - 1
           T == {n \in Nat : \A s \in Seq(D) : Begins(s, X[n]) =>
                               Splits(s)[Len(X[n])] = SubSeq(parts, 1, n + 1)}
<1>1. N \in Nat /\ N + 1 = Len(parts) /\ \A n \in 0 .. N : n + 1 \in 1 .. Len(parts)
  OBVIOUS
<1>2. \A n \in 1 .. Len(parts) : parts[n] \in Seq(C) /\ parts[n] \in Seq(D)
  <2>1. ASSUME NEW n \in 1 .. Len(parts) PROVE parts[n] \in Seq(C) /\ parts[n] \in Seq(D)
    <3>1. parts[n] \in Seq(C)
      OBVIOUS
    <3>2. C \subseteq D
      OBVIOUS
    <3>3. QED
      BY <3>1, <3>2, SeqMonotonic
  <2>2. QED
    BY <2>1
<1>3. Dot \in D
  OBVIOUS
<1>4. /\ Dotted(parts) = X[N]
      /\ X[0] = parts[1]
      /\ \A n \in 1 .. N : X[n] = X[n - 1] \o <<Dot>> \o parts[n + 1]
      /\ \A n \in 0 .. N : X[n] \in Seq(D)
  BY DottedsUnfold
<1> HIDE DEF D, X
<1>5. 0 \in T
  <2>1. ASSUME NEW s \in Seq(D), Begins(s, X[0]) PROVE Splits(s)[Len(X[0])] = SubSeq(parts, 1, 1)
    <3> DEFINE part == parts[1]
               done == <<>>
    <3>1. part \in Seq(C) /\ done \in Seq(Seq(C)) /\ Len(part) \in Nat
      BY <1>1, <1>2
    <3>2. Begins(s, part)
      BY <1>4, <2>1
    <3>3. Holds(s, 0, part)
      <4> HIDE DEF part
      <4>1. 0 + Len(part) = Len(part) /\ \A i \in 1 .. Len(part) : 0 + i = i
        BY <3>1
      <4>2. QED
        BY <3>1, <3>2, <4>1 DEF Begins, Holds
    <3>4. Splits(s)[0] = Append(done, <<>>)
      <4>1. Splits(s)[0] = <<<<>>>>
        BY SplitsUnfold
      <4>2. QED
        BY <4>1
    <3>5. Append(done, part) = SubSeq(parts, 1, 1)
      BY <1>1
    <3> DEFINE m == 0
    <3>a. m \in Nat /\ Holds(s, m, part) /\ Splits(s)[m] = Append(done, <<>>)
      BY <3>3, <3>4
    <3> HIDE DEF part, done, m
    <3>b. Splits(s)[m + Len(part)] = Append(done, part)
      BY <3>1, <3>a, PartIsRead
    <3>6. Splits(s)[0 + Len(part)] = Append(done, part)
      BY <3>b DEF m
    <3>7. 0 + Len(part) = Len(part) /\ X[0] = part
      BY <1>4, <3>1 DEF part
    <3>8. QED
      BY <3>5, <3>6, <3>7
  <2>2. 0 + 1 = 1 /\ 0 \in Nat
    OBVIOUS
  <2>3. QED
    BY <2>1, <2>2
<1>6. ASSUME NEW n \in Nat, n < N, n \in T PROVE n + 1 \in T
  <2>1. ASSUME NEW s \in Seq(D), Begins(s, X[n + 1])
        PROVE  Splits(s)[Len(X[n + 1])] = SubSeq(parts, 1, (n + 1) + 1)
    <3> DEFINE part == parts[(n + 1) + 1]
               done == SubSeq(parts, 1, n + 1)
               t == X[n]
               m == Len(t) + 1
    <3>1. n + 1 \in 1 .. N /\ n \in 0 .. N /\ (n + 1) - 1 = n /\ (n + 1) + 1 \in 1 .. Len(parts)
      BY <1>1, <1>6
    <3>2. part \in Seq(C) /\ part \in Seq(D) /\ t \in Seq(D)
      BY <1>2, <1>4, <3>1
    <3>3. X[n + 1] = t \o <<Dot>> \o part
      BY <1>4, <3>1
    <3>4. /\ Begins(s, t) /\ m \in 1 .. Len(s) /\ s[m] = Dot
          /\ Len(X[n + 1]) = m + Len(part) /\ Holds(s, m, part)
      <4> DEFINE b == X[n + 1]
      <4>1. Begins(s, b) /\ b = WithDot(t, part) /\ m = Len(t) + 1
        BY <2>1, <3>3 DEF WithDot
      <4> HIDE DEF part, t, b, m
      <4>2. /\ Begins(s, t) /\ m \in 1 .. Len(s) /\ s[m] = Dot
            /\ Len(b) = m + Len(part) /\ Holds(s, m, part)
        BY <1>3, <3>2, <4>1, BeginsWithDot
      <4>3. QED
        BY <4>2 DEF b
    <3>5. Splits(s)[Len(t)] = done
      BY <1>6, <3>4
    <3>6. done \in Seq(Seq(C)) /\ SubSeq(parts, 1, (n + 1) + 1) = Append(done, part)
      BY <3>1
    <3>7. Splits(s)[m] = Append(done, <<>>)
      <4>1. Splits(s)[m] = Lengthened(Splits(s)[m - 1], s[m])
        BY <3>4, SplitsUnfold
      <4>2. m - 1 = Len(t)
        BY <3>2
      <4>3. Splits(s)[m] = Lengthened(done, Dot)
        BY <3>4, <3>5, <4>1, <4>2
      <4>4. QED
        BY <4>3, LengthenedDot
    <3>8. m \in Nat
      BY <3>4
    <3> HIDE DEF part, done, t, m
    <3>9. Splits(s)[m + Len(part)] = Append(done, part)
      BY <3>2, <3>4, <3>6, <3>7, <3>8, PartIsRead
    <3>10. QED
      BY <3>4, <3>6, <3>9
  <2>2. QED
    BY <2>1
<1>7. N \in T
  <2> HIDE DEF T, N
  <2>1. 0 .. N \subseteq T
    BY <1>1, <1>5, <1>6, NumbersUpTo
  <2>2. QED
    BY <1>1, <2>1
<1>8. N \in 0 .. N
  BY <1>1
<1>9. X[N] \in Seq(D) /\ Begins(X[N], X[N])
  <2>1. X[N] \in Seq(D)
    BY <1>4, <1>8
  <2>2. Len(X[N]) <= Len(X[N])
    <3> DEFINE s == X[N]
    <3>1. s \in Seq(D)
      BY <2>1
    <3> HIDE DEF s
    <3>2. Len(s) \in Nat
      BY <3>1
    <3>3. Len(s) <= Len(s)
      BY <3>2
    <3>4. QED
      BY <3>3 DEF s
  <2>3. QED
    BY <2>1, <2>2 DEF Begins
<1>10. Splits(X[N])[Len(X[N])] = SubSeq(parts, 1, N + 1)
  BY <1>7, <1>9
<1>11. SubSeq(parts, 1, N + 1) = parts
  BY <1>1
<1>12. SplitDots(X[N]) = Splits(X[N])[Len(X[N])]
  BY <1>9, SplitsUnfold
<1>13. QED
  BY <1>4, <1>10, <1>11, <1>12
\* What comes before and after a character that is there for the first time.
LEMMA CutIs ==
    ASSUME NEW s \in Seq(Int), NEW char \in Int, NEW n \in Nat, n + 1 <= Len(s), s[n + 1] = char,
           \A j \in 1 .. n : s[j] # char
    PROVE  /\ Before(s, char) = n + 1
           /\ Cut(s, char) = SubSeq(s, 1, n)
           /\ Rest(s, char) = SubSeq(s, n + 2, Len(s))
<1>1. n + 1 \in 1 .. Len(s) /\ (n + 1) - 1 = n /\ (n + 1) + 1 = n + 2 /\ n + 1 # 0
  OBVIOUS
<1>2. \A j \in 1 .. (n + 1) - 1 : s[j] # char
  BY <1>1
<1>3. Before(s, char) = n + 1
  <2> DEFINE i == n + 1
  <2>1. i \in 1 .. Len(s) /\ s[i] = char /\ \A j \in 1 .. i - 1 : s[j] # char
    BY <1>1, <1>2
  <2> HIDE DEF i
  <2>2. Before(s, char) = i
    BY <2>1, BeforeAt
  <2>3. QED
    BY <2>2 DEF i
<1>4. Cut(s, char) = SubSeq(s, 1, n)
  BY <1>1, <1>3 DEF Cut
<1>5. Rest(s, char) = SubSeq(s, n + 2, Len(s))
  BY <1>1, <1>3 DEF Rest
<1>6. QED
  BY <1>3, <1>4, <1>5

LEMMA CutNothing ==
    ASSUME NEW s \in Seq(Int), NEW char \in Int, \A j \in 1 .. Len(s) : s[j] # char
    PROVE  Before(s, char) = 0 /\ Cut(s, char) = s
BY BeforeNone DEF Cut

\* Two texts with a character between them.
LEMMA BetweenParts ==
    ASSUME NEW a \in Seq(Int), NEW b \in Seq(Int), NEW w \in Seq(Int),
           Len(w) = Len(a) + 1 + Len(b), \A i \in 1 .. Len(a) : w[i] = a[i],
           \A i \in 1 .. Len(b) : w[(Len(a) + 1) + i] = b[i]
    PROVE  SubSeq(w, 1, Len(a)) = a /\ SubSeq(w, Len(a) + 2, Len(w)) = b
<1> DEFINE m == Len(a)
           k == Len(b)
<1>1. m \in Nat /\ k \in Nat /\ Len(w) = m + 1 + k /\ \A i \in 1 .. m + 1 + k : w[i] \in Int
  OBVIOUS
<1>2. /\ \A i \in 1 .. m : w[i] = a[i]
      /\ \A i \in 1 .. k : w[(m + 1) + i] = b[i]
  OBVIOUS
<1> HIDE DEF m, k
<1>3. SubSeq(w, 1, m) = a
  <2> DEFINE u == SubSeq(w, 1, m)
  <2>1. u \in Seq(Int) /\ Len(u) = m /\ \A i \in 1 .. m : u[i] = w[i]
    BY <1>1
  <2> HIDE DEF u
  <2>2. \A i \in 1 .. m : u[i] = a[i]
    BY <1>2, <2>1
  <2>3. u = a
    BY <2>1, <2>2, SeqEqual DEF m
  <2>4. QED
    BY <2>3 DEF u
<1>4. SubSeq(w, m + 2, Len(w)) = b
  <2> DEFINE x == m + 2
             y == m + 1 + k
             u == SubSeq(w, x, y)
  <2>1. x \in Int /\ y \in Int /\ \A i \in x .. y : w[i] \in Int
    BY <1>1
  <2>2. y - x + 1 = k /\ (IF x <= y THEN y - x + 1 ELSE 0) = k
    BY <1>1
  <2>3. \A i \in 1 .. k : x + i - 1 = (m + 1) + i
    BY <1>1
  <2> HIDE DEF x, y
  <2>4. /\ u \in Seq(Int) /\ Len(u) = IF x <= y THEN y - x + 1 ELSE 0
        /\ \A i \in 1 .. y - x + 1 : u[i] = w[x + i - 1]
    BY <2>1, SubSeqProperties
  <2> HIDE DEF u
  <2>5. Len(u) = k /\ \A i \in 1 .. k : u[i] = w[x + i - 1]
    BY <2>2, <2>4
  <2>6. \A i \in 1 .. k : u[i] = b[i]
    BY <1>2, <2>3, <2>5
  <2>7. u = b
    BY <2>4, <2>5, <2>6, SeqEqual DEF k
  <2>8. QED
    BY <1>1, <2>7 DEF u, x, y
<1>5. QED
  BY <1>3, <1>4 DEF m, k

LEMMA Between ==
    ASSUME NEW a \in Seq(Int), NEW b \in Seq(Int), NEW c \in Int, NEW w, w = a \o <<c>> \o b
    PROVE  /\ w \in Seq(Int) /\ Len(w) = Len(a) + 1 + Len(b)
           /\ \A i \in 1 .. Len(a) : w[i] = a[i]
           /\ w[Len(a) + 1] = c
           /\ \A i \in 1 .. Len(b) : w[(Len(a) + 1) + i] = b[i]
           /\ SubSeq(w, 1, Len(a)) = a
           /\ SubSeq(w, Len(a) + 2, Len(w)) = b
<1> DEFINE t == <<c>>
           at == a \o t
           m == Len(a)
           k == Len(b)
<1>1. t \in Seq(Int) /\ Len(t) = 1 /\ t[1] = c /\ m \in Nat /\ k \in Nat /\ 1 \in Nat /\ m + 1 \in Nat
  OBVIOUS
<1>2. w = at \o b
  OBVIOUS
<1> HIDE DEF t
<1>3. at \in Seq(Int) /\ Joins(at, a, t, m, 1)
  BY <1>1, Joined
<1> HIDE DEF at
<1>4. Len(at) = m + 1
  BY <1>3 DEF Joins
<1>5. w \in Seq(Int) /\ Joins(w, at, b, m + 1, k)
  BY <1>1, <1>2, <1>3, <1>4, Joined
<1> HIDE DEF m, k
<1>6. /\ Len(w) = m + 1 + k
      /\ \A i \in 1 .. m + 1 : w[i] = at[i]
      /\ \A i \in 1 .. k : w[(m + 1) + i] = b[i]
  BY <1>5 DEF Joins
<1>7. (\A i \in 1 .. m : at[i] = a[i]) /\ at[m + 1] = c
  BY <1>1, <1>3 DEF Joins
<1>8. (\A i \in 1 .. m : w[i] = a[i]) /\ w[m + 1] = c
  <2>1. m + 1 \in 1 .. m + 1 /\ \A i \in 1 .. m : i \in 1 .. m + 1
    BY <1>1
  <2>2. \A i \in 1 .. m : w[i] = a[i]
    BY <1>6, <1>7, <2>1
  <2>3. w[m + 1] = c
    BY <1>6, <1>7, <2>1
  <2>4. QED
    BY <2>2, <2>3
<1>9. SubSeq(w, 1, m) = a /\ SubSeq(w, m + 2, Len(w)) = b
  BY <1>5, <1>6, <1>8, BetweenParts DEF m, k
<1>10. QED
  BY <1>5, <1>6, <1>8, <1>9 DEF m, k

\* Build metadata is cut off, whatever it is.
LEMMA BuildIsCut ==
    ASSUME NEW t \in Seq(Int), NEW build \in Seq(Int)
    PROVE  Cut(t \o <<Plus>> \o build, Plus) = Cut(t, Plus)
<1> DEFINE w == t \o <<Plus>> \o build
           m == Len(t)
<1>0. Plus \in Int
  BY DEF Plus
<1>1. /\ w \in Seq(Int) /\ Len(w) = m + 1 + Len(build)
      /\ \A i \in 1 .. m : w[i] = t[i]
      /\ w[m + 1] = Plus
      /\ SubSeq(w, 1, m) = t
  BY <1>0, Between
<1>2. m \in Nat /\ Len(build) \in Nat
  OBVIOUS
<1> HIDE DEF w, m
<1>3. CASE \A i \in 1 .. m : t[i] # Plus
  <2>1. Cut(t, Plus) = t
    BY <1>0, <1>3, CutNothing DEF m
  <2>2. m + 1 <= Len(w) /\ \A j \in 1 .. m : w[j] # Plus
    BY <1>1, <1>2, <1>3
  <2>3. Cut(w, Plus) = SubSeq(w, 1, m)
    BY <1>0, <1>1, <1>2, <2>2, CutIs
  <2>4. QED
    BY <1>1, <2>1, <2>3 DEF w
<1>4. CASE ~(\A i \in 1 .. m : t[i] # Plus)
  <2> DEFINE n == Before(t, Plus) - 1
  <2>1. n \in Nat /\ n + 1 \in 1 .. m /\ t[n + 1] = Plus /\ \A j \in 1 .. n : t[j] # Plus
    BY <1>0, <1>4, BeforeIs DEF m
  <2> HIDE DEF n
  <2>2. Cut(t, Plus) = SubSeq(t, 1, n)
    <3>1. n + 1 <= Len(t)
      BY <2>1 DEF m
    <3>2. QED
      BY <1>0, <2>1, <3>1, CutIs
  <2>3. n + 1 <= Len(w) /\ w[n + 1] = Plus /\ \A j \in 1 .. n : w[j] # Plus
    <3>1. \A j \in 1 .. n : j \in 1 .. m
      BY <1>2, <2>1
    <3>2. QED
      BY <1>1, <1>2, <2>1, <3>1
  <2>4. Cut(w, Plus) = SubSeq(w, 1, n)
    BY <1>0, <1>1, <2>1, <2>3, CutIs
  <2>5. SubSeq(w, 1, n) = SubSeq(t, 1, n)
    <3>1. n <= Len(t) /\ n <= Len(w) /\ \A j \in 1 .. n : w[j] = t[j] /\ w[j] \in Int /\ t[j] \in Int
      BY <1>1, <1>2, <2>1 DEF m
    <3>2. /\ SubSeq(w, 1, n) \in Seq(Int) /\ Len(SubSeq(w, 1, n)) = n
          /\ \A j \in 1 .. n : SubSeq(w, 1, n)[j] = w[j]
      BY <1>1, <2>1, <3>1
    <3>3. /\ SubSeq(t, 1, n) \in Seq(Int) /\ Len(SubSeq(t, 1, n)) = n
          /\ \A j \in 1 .. n : SubSeq(t, 1, n)[j] = t[j]
      BY <2>1, <3>1
    <3>4. QED
      BY <3>1, <3>2, <3>3, SeqEqual
  <2>6. QED
    BY <2>2, <2>4, <2>5 DEF w
<1>5. QED
  BY <1>3, <1>4
LEMMA UnprefixedBuild ==
    ASSUME NEW s \in Seq(Int), NEW build \in Seq(Int)
    PROVE  Cut(Unprefixed(s \o <<Plus>> \o build), Plus) = Cut(Unprefixed(s), Plus)
<1> DEFINE w == s \o <<Plus>> \o build
<1>0. Plus \in Int /\ Plus \notin {SmallV, CapitalV}
  BY DEF Plus, SmallV, CapitalV
<1>1. /\ w \in Seq(Int) /\ Len(w) = Len(s) + 1 + Len(build)
      /\ \A i \in 1 .. Len(s) : w[i] = s[i]
      /\ w[Len(s) + 1] = Plus
      /\ \A i \in 1 .. Len(build) : w[(Len(s) + 1) + i] = build[i]
  BY <1>0, Between
<1>2. Len(s) \in Nat /\ Len(build) \in Nat
  OBVIOUS
<1>3. Cut(w, Plus) = Cut(s, Plus)
  BY BuildIsCut
<1> HIDE DEF w
<1>4. w # <<>> /\ Head(w) = w[1]
  BY <1>1, <1>2
<1>5. CASE s = <<>>
  <2>1. Head(w) = Plus
    BY <1>1, <1>4, <1>5
  <2>2. Unprefixed(w) = w /\ Unprefixed(s) = s
    BY <1>0, <1>5, <2>1 DEF Unprefixed
  <2>3. QED
    BY <1>3, <2>2 DEF w
<1>6. CASE s # <<>>
  <2>1. Head(w) = Head(s)
    BY <1>1, <1>2, <1>4, <1>6
  <2>2. CASE Head(s) \in {SmallV, CapitalV}
    <3> DEFINE t == Tail(s)
               v == Tail(w)
               m == Len(t)
    <3>1. Unprefixed(w) = v /\ Unprefixed(s) = t
      BY <1>4, <1>6, <2>1, <2>2 DEF Unprefixed
    <3>2. t \in Seq(Int) /\ Len(s) = m + 1 /\ m \in Nat /\ \A i \in 1 .. m : t[i] = s[i + 1]
      BY <1>6
    <3>3. /\ v \in Seq(Int) /\ Len(v) = Len(w) - 1
          /\ \A i \in 1 .. Len(v) : v[i] = w[i + 1]
      BY <1>1, <1>4
    <3> DEFINE x == t \o <<Plus>> \o build
    <3>4. /\ x \in Seq(Int) /\ Len(x) = m + 1 + Len(build)
          /\ \A i \in 1 .. m : x[i] = t[i]
          /\ x[m + 1] = Plus
          /\ \A i \in 1 .. Len(build) : x[(m + 1) + i] = build[i]
      BY <1>0, <3>2, Between
    <3>5. Cut(x, Plus) = Cut(t, Plus)
      BY <3>2, BuildIsCut
    <3> HIDE DEF t, v, m, x
    <3>6. Len(v) = Len(x) /\ Len(x) = m + 1 + Len(build)
      <4>1. /\ Len(v) = Len(w) - 1 /\ Len(w) = Len(s) + 1 + Len(build) /\ Len(s) = m + 1
            /\ Len(x) = m + 1 + Len(build)
        BY <1>1, <3>2, <3>3, <3>4
      <4>2. m \in Nat /\ Len(build) \in Nat
        BY <3>2
      <4>3. QED
        BY <4>1, <4>2
    <3>7. ASSUME NEW i \in 1 .. Len(v) PROVE v[i] = x[i]
      <4>1. i \in Nat /\ i >= 1 /\ i <= m + 1 + Len(build) /\ v[i] = w[i + 1]
        <5>1. v[i] = w[i + 1]
          BY <3>3
        <5>2. m \in Nat /\ Len(build) \in Nat /\ Len(v) = m + 1 + Len(build)
          BY <3>2, <3>6
        <5>3. i \in Nat /\ i >= 1 /\ i <= m + 1 + Len(build)
          BY <5>2
        <5>4. QED
          BY <5>1, <5>3
      <4>2. CASE i <= m
        <5>1. i \in 1 .. m /\ i + 1 \in 1 .. Len(s)
          BY <3>2, <4>1, <4>2
        <5>2. QED
          BY <1>1, <3>2, <3>4, <4>1, <5>1
      <4>3. CASE i = m + 1
        <5>1. i + 1 = Len(s) + 1
          BY <3>2, <4>3
        <5>2. QED
          BY <1>1, <3>4, <4>1, <4>3, <5>1
      <4>4. CASE i > m + 1
        <5> DEFINE j == i - (m + 1)
        <5>1. j \in 1 .. Len(build) /\ i = (m + 1) + j /\ i + 1 = (Len(s) + 1) + j
          BY <1>2, <3>2, <4>1, <4>4
        <5> HIDE DEF j
        <5>2. w[i + 1] = build[j] /\ x[i] = build[j]
          BY <1>1, <3>4, <5>1
        <5>3. QED
          BY <4>1, <5>2
      <4>5. QED
        BY <3>2, <4>1, <4>2, <4>3, <4>4
    <3>8. v = x
      BY <3>3, <3>4, <3>6, <3>7, SeqEqual
    <3>9. QED
      BY <3>1, <3>5, <3>8 DEF w
  <2>3. CASE Head(s) \notin {SmallV, CapitalV}
    <3>1. Unprefixed(w) = w /\ Unprefixed(s) = s
      BY <2>1, <2>3 DEF Unprefixed
    <3>2. QED
      BY <1>3, <3>1 DEF w
  <2>4. QED
    BY <2>2, <2>3
<1>7. QED
  BY <1>5, <1>6

\* A leading v is passed over.
LEMMA PrefixIsPassed ==
    ASSUME NEW s \in Seq(Int), s = <<>> \/ Head(s) \notin {SmallV, CapitalV}
    PROVE  Unprefixed(<<SmallV>> \o s) = Unprefixed(s)
<1> DEFINE w == <<SmallV>> \o s
<1>1. SmallV \in Int
  BY DEF SmallV
<1>2. w # <<>> /\ Head(w) = SmallV /\ Tail(w) = s
  BY <1>1
<1> HIDE DEF w
<1>3. Unprefixed(w) = s
  BY <1>2 DEF Unprefixed
<1>4. Unprefixed(s) = s
  BY DEF Unprefixed
<1>5. QED
  BY <1>3, <1>4 DEF w

\* What is cut out of a text is of its characters.
LEMMA CutType ==
    ASSUME NEW C, C \subseteq Int, NEW s \in Seq(C), NEW char \in Int
    PROVE  Cut(s, char) \in Seq(C)
<1>1. s \in Seq(Int)
  BY SeqMonotonic
<1>2. CASE Before(s, char) = 0
  BY <1>2 DEF Cut
<1>3. CASE Before(s, char) # 0
  <2> DEFINE n == Before(s, char) - 1
  <2>1. n \in Nat /\ n <= Len(s) /\ Len(s) \in Nat
    BY <1>1, <1>3, BeforeIs
  <2>2. Cut(s, char) = SubSeq(s, 1, n)
    BY <1>3 DEF Cut
  <2> HIDE DEF n
  <2>3. \A i \in 1 .. n : s[i] \in C
    BY <2>1
  <2>4. SubSeq(s, 1, n) \in Seq(C)
    <3>1. n \in Int /\ 1 \in Int
      BY <2>1
    <3>2. QED
      BY <2>3, <3>1, SubSeqProperties
  <2>5. QED
    BY <2>2, <2>4
<1>4. QED
  BY <1>2, <1>3

\* A version has a digit in it.
LEMMA VersionHasDigit ==
    ASSUME NEW s \in Seq(Int), NEW none, ParseSemver(s, none) # none
    PROVE  \E i \in DOMAIN s : s[i] \in Digit
<1> DEFINE C == {s[i] : i \in DOMAIN s}
           u == Unprefixed(s)
           t == Cut(u, Plus)
           release == SplitDots(Cut(t, Hyphen))
<1>1. C \subseteq Int
  OBVIOUS
<1>2. s \in Seq(C)
  <2>1. s \in [1 .. Len(s) -> C] /\ Len(s) \in Nat
    OBVIOUS
  <2> HIDE DEF C
  <2>2. QED
    BY <2>1, SeqDef
<1>3. Plus \in Int /\ Hyphen \in Int
  BY DEF Plus, Hyphen
<1>4. \A i \in DOMAIN release : IsAllDigits(release[i])
  BY DEF ParseSemver, ParseParts
<1>5. QED
  <2> HIDE DEF C
  <2>1. u \in Seq(C)
    BY <1>2 DEF Unprefixed
  <2> HIDE DEF u
  <2>2. t \in Seq(C)
    BY <1>1, <1>3, <2>1, CutType
  <2> HIDE DEF t
  <2>3. Cut(t, Hyphen) \in Seq(C)
    BY <1>1, <1>3, <2>2, CutType
  <2>4. release \in Parts(C)
    BY <2>3, SplitsUnfold
  <2> HIDE DEF release
  <2>5. 1 \in DOMAIN release /\ release[1] \in Seq(C)
    BY <2>4 DEF Parts
  <2>6. release[1] # <<>> /\ \A i \in DOMAIN release[1] : release[1][i] \in Digit
    BY <1>4, <2>5 DEF IsAllDigits
  <2>7. release[1][1] \in Digit /\ release[1][1] \in C
    BY <2>5, <2>6
  <2>8. QED
    BY <2>7 DEF C
\* A version that is written is read as it was, if its identifiers have neither
\* dots nor pluses in them.
LEMMA WrittenIsRead ==
    ASSUME NEW v \in Version, NEW none,
           \A i \in DOMAIN v.prerelease :
             \A j \in DOMAIN v.prerelease[i] : v.prerelease[i][j] \notin {Dot, Plus}
    PROVE  ParseSemver(Written(v), none) = v
<1> DEFINE rel == v.release
           pre == v.prerelease
           E == Int \ {Dot, Plus}
           a == Dotted(rel)
           b == Dotted(pre)
           w == Written(v)
<1>0. /\ Plus \in Int /\ Hyphen \in Int /\ Dot \in Int /\ Dot \notin Digit /\ Dot \notin E
      /\ Plus # Hyphen /\ Hyphen \notin Digit \union {Dot} /\ Plus \notin Digit \union {Dot}
      /\ Plus \notin E \union {Dot} /\ Digit \union {Dot} \subseteq Int /\ E \union {Dot} \subseteq Int
      /\ Hyphen \notin {SmallV, CapitalV}
      /\ SmallV \notin Digit \union {Dot} /\ CapitalV \notin Digit \union {Dot}
  BY DEF Plus, Hyphen, Dot, Digit, SmallV, CapitalV
<1>1. /\ rel \in Seq(Seq(Digit)) /\ rel # <<>> /\ pre \in Seq(Seq(Int))
      /\ \A i \in DOMAIN rel : rel[i] # <<>>
      /\ \A i \in DOMAIN pre : pre[i] # <<>>
  BY VersionTypes
<1>2. pre \in Seq(Seq(E))
  <2>1. \A i \in 1 .. Len(pre) : pre[i] \in Seq(E)
    <3>1. ASSUME NEW i \in 1 .. Len(pre) PROVE pre[i] \in Seq(E)
      <4> DEFINE p == pre[i]
      <4>1. p \in Seq(Int) /\ \A j \in DOMAIN p : p[j] \notin {Dot, Plus}
        BY <1>1
      <4> HIDE DEF p
      <4>2. p \in [1 .. Len(p) -> E] /\ Len(p) \in Nat
        BY <4>1
      <4> HIDE DEF E
      <4>3. p \in Seq(E)
        BY <4>2, SeqDef
      <4>4. QED
        BY <4>3 DEF p
    <3>2. QED
      BY <3>1
  <2> HIDE DEF E
  <2>2. pre \in [1 .. Len(pre) -> Seq(E)] /\ Len(pre) \in Nat
    BY <1>1, <2>1
  <2>3. QED
    BY <2>2, SeqDef
<1>3. v = [release |-> rel, prerelease |-> pre]
  BY DEF Version
<1> HIDE DEF rel, pre, E
<1>4. a \in Seq(Digit \union {Dot}) /\ SplitDots(a) = rel
  <2>1. a \in Seq(Digit \union {Dot})
    BY <1>1, DottedType
  <2>2. QED
    BY <1>0, <1>1, <2>1, SplitIsJoined
<1>5. ASSUME pre # <<>> PROVE b \in Seq(E \union {Dot}) /\ SplitDots(b) = pre
  <2>1. b \in Seq(E \union {Dot})
    BY <1>2, <1>5, DottedType
  <2>2. QED
    BY <1>0, <1>2, <1>5, <2>1, SplitIsJoined
<1>6. w = a \o (IF pre = <<>> THEN <<>> ELSE <<Hyphen>> \o b)
  BY DEF Written, rel, pre
<1> HIDE DEF a, b, w
<1>7. /\ a \in Seq(Int) /\ Len(a) \in Nat
      /\ \A i \in 1 .. Len(a) : a[i] \in Digit \union {Dot} /\ a[i] # Hyphen /\ a[i] # Plus
                                /\ a[i] \notin {SmallV, CapitalV}
  <2>1. a \in Seq(Int)
    BY <1>0, <1>4, SeqMonotonic
  <2>2. \A i \in 1 .. Len(a) : a[i] \in Digit \union {Dot}
    BY <1>4, ElementOfSeq
  <2>3. QED
    BY <1>0, <2>1, <2>2
<1>8. /\ \A i \in DOMAIN rel : IsAllDigits(rel[i])
      /\ \A i \in DOMAIN pre : pre[i] # <<>>
  <2>1. ASSUME NEW i \in DOMAIN rel PROVE IsAllDigits(rel[i])
    <3>1. rel[i] \in Seq(Digit) /\ rel[i] # <<>>
      BY <1>1
    <3>2. QED
      BY <3>1 DEF IsAllDigits
  <2>2. QED
    BY <1>1, <2>1
<1>9. CASE pre = <<>>
  <2>1. w = a
    BY <1>6, <1>7, <1>9
  <2>2. Unprefixed(w) = w
    BY <1>7, <2>1 DEF Unprefixed
  <2>3. Cut(w, Plus) = w /\ Cut(w, Hyphen) = w /\ Before(w, Hyphen) = 0
    BY <1>0, <1>7, <2>1, CutNothing
  <2>4. ParseSemver(w, none) = ParseParts(w, none)
    BY <2>2, <2>3 DEF ParseSemver
  <2>5. ParseParts(w, none) = [release |-> rel, prerelease |-> pre]
    BY <1>4, <1>8, <1>9, <2>1, <2>3 DEF ParseParts
  <2>6. QED
    BY <1>3, <2>4, <2>5 DEF w
<1>10. CASE pre # <<>>
  <2>1. b \in Seq(E \union {Dot}) /\ SplitDots(b) = pre
    BY <1>5, <1>10
  <2>2. /\ b \in Seq(Int) /\ Len(b) \in Nat /\ \A i \in 1 .. Len(b) : b[i] # Plus
    <3>1. b \in Seq(Int)
      BY <1>0, <2>1, SeqMonotonic
    <3>2. \A i \in 1 .. Len(b) : b[i] \in E \union {Dot}
      BY <2>1, ElementOfSeq
    <3>3. QED
      BY <1>0, <3>1, <3>2
  <2>3. w = a \o <<Hyphen>> \o b
    <3> DEFINE h == <<Hyphen>>
    <3>1. h \in Seq(Int) /\ w = a \o (h \o b)
      BY <1>0, <1>6, <1>10
    <3> HIDE DEF h
    <3>2. a \in Seq(Int) /\ b \in Seq(Int)
      BY <1>7, <2>2
    <3>3. (a \o h) \o b = a \o (h \o b)
      BY <3>1, <3>2, ConcatAssociative
    <3>4. w = (a \o h) \o b
      BY <3>1, <3>3
    <3>5. QED
      BY <3>4 DEF h
  <2>4. /\ w \in Seq(Int) /\ Len(w) = Len(a) + 1 + Len(b)
        /\ \A i \in 1 .. Len(a) : w[i] = a[i]
        /\ w[Len(a) + 1] = Hyphen
        /\ \A i \in 1 .. Len(b) : w[(Len(a) + 1) + i] = b[i]
        /\ SubSeq(w, 1, Len(a)) = a
        /\ SubSeq(w, Len(a) + 2, Len(w)) = b
    <3> DEFINE c == Hyphen
    <3>1. a \in Seq(Int) /\ b \in Seq(Int) /\ c \in Int /\ w = a \o <<c>> \o b
      BY <1>0, <1>7, <2>2, <2>3
    <3> HIDE DEF c
    <3>2. /\ w \in Seq(Int) /\ Len(w) = Len(a) + 1 + Len(b)
          /\ \A i \in 1 .. Len(a) : w[i] = a[i]
          /\ w[Len(a) + 1] = c
          /\ \A i \in 1 .. Len(b) : w[(Len(a) + 1) + i] = b[i]
          /\ SubSeq(w, 1, Len(a)) = a
          /\ SubSeq(w, Len(a) + 2, Len(w)) = b
      BY <3>1, Between
    <3>3. QED
      BY <3>2 DEF c
  <2>5. \A i \in 1 .. Len(w) : w[i] # Plus
    <3>1. ASSUME NEW i \in 1 .. Len(w) PROVE w[i] # Plus
      <4>1. Len(a) \in Nat /\ Len(b) \in Nat /\ Len(w) = Len(a) + 1 + Len(b)
        BY <1>7, <2>2, <2>4
      <4>2. CASE i <= Len(a)
        <5>1. i \in 1 .. Len(a)
          BY <4>1, <4>2
        <5>2. QED
          BY <1>7, <2>4, <5>1
      <4>3. CASE i = Len(a) + 1
        BY <1>0, <2>4, <4>3
      <4>4. CASE i > Len(a) + 1
        <5> DEFINE j == i - (Len(a) + 1)
        <5>1. j \in 1 .. Len(b) /\ (Len(a) + 1) + j = i
          BY <4>1, <4>4
        <5> HIDE DEF j
        <5>2. w[i] = b[j]
          BY <2>4, <5>1
        <5>3. QED
          BY <2>2, <5>1, <5>2
      <4>5. QED
        BY <4>1, <4>2, <4>3, <4>4
    <3>2. QED
      BY <3>1
  <2>6. Unprefixed(w) = w
    <3>1. w # <<>> /\ Head(w) = w[1]
      BY <1>7, <2>2, <2>4
    <3>2. w[1] \notin {SmallV, CapitalV}
      <4>1. CASE Len(a) = 0
        <5>1. Len(a) + 1 = 1
          BY <4>1
        <5>2. QED
          BY <1>0, <2>4, <5>1
      <4>2. CASE Len(a) # 0
        <5>1. 1 \in 1 .. Len(a)
          BY <1>7, <4>2
        <5>2. QED
          BY <1>7, <2>4, <5>1
      <4>3. QED
        BY <4>1, <4>2
    <3>3. QED
      BY <3>1, <3>2 DEF Unprefixed
  <2>7. Cut(w, Plus) = w
    BY <1>0, <2>4, <2>5, CutNothing
  <2>8. Before(w, Hyphen) # 0 /\ Cut(w, Hyphen) = a /\ Rest(w, Hyphen) = b
    <3> DEFINE n == Len(a)
    <3>1. n \in Nat /\ n + 1 <= Len(w) /\ w[n + 1] = Hyphen /\ \A j \in 1 .. n : w[j] # Hyphen
      <4>1. n \in Nat /\ n + 1 <= Len(w)
        BY <1>7, <2>2, <2>4
      <4>2. QED
        BY <1>7, <2>4, <4>1
    <3>2. SubSeq(w, 1, n) = a /\ SubSeq(w, n + 2, Len(w)) = b
      BY <2>4
    <3> HIDE DEF n
    <3>3. /\ Before(w, Hyphen) = n + 1
          /\ Cut(w, Hyphen) = SubSeq(w, 1, n)
          /\ Rest(w, Hyphen) = SubSeq(w, n + 2, Len(w))
      BY <1>0, <2>4, <3>1, CutIs
    <3>4. n + 1 # 0
      BY <3>1
    <3>5. QED
      BY <3>2, <3>3, <3>4
  <2>9. ParseSemver(w, none) = ParseParts(w, none)
    BY <2>6, <2>7 DEF ParseSemver
  <2>10. ParseParts(w, none) = [release |-> rel, prerelease |-> pre]
    BY <1>4, <1>8, <2>1, <2>8 DEF ParseParts
  <2>11. QED
    BY <1>3, <2>9, <2>10 DEF w
<1>11. QED
  BY <1>9, <1>10

LEMMA VersionsAlwaysRead ==
    ASSUME NEW version \in Version, NEW s \in Seq(Int), NEW build \in Seq(Int),
           \A i \in DOMAIN version.prerelease :
             \A j \in DOMAIN version.prerelease[i] : version.prerelease[i][j] \notin {Dot, Plus}
    PROVE  VersionIsRead(version, s, build)
<1>1. ParseSemver(Written(version), None) = version
  BY WrittenIsRead
<1>2. ParseSemver(s \o <<Plus>> \o build, None) = ParseSemver(s, None)
  BY UnprefixedBuild DEF ParseSemver
<1>3. s = <<>> \/ Head(s) \notin {SmallV, CapitalV} =>
        ParseSemver(<<SmallV>> \o s, None) = ParseSemver(s, None)
  BY PrefixIsPassed DEF ParseSemver
<1>4. ParseSemver(s, None) # None => \E i \in DOMAIN s : s[i] \in Digit
  BY VersionHasDigit
<1>5. QED
  BY <1>1, <1>2, <1>3, <1>4 DEF VersionIsRead

\* VersionsFit: compareSemverParts orders versions of any length as the numbers
\* they are written with, a prerelease before its release; and parseSemver reads
\* back any version that is written, and passes over a leading v and any build
\* metadata.
THEOREM VersionsStayFit == AlgorithmsSpec => []VersionsFit
<1>1. AlgorithmsAssumption /\ ProbesStay => VersionsFit
  BY VersionsAlwaysInOrder, VersionsAlwaysRead
     DEF AlgorithmsAssumption, ProbesStay, VersionsFit, VersionsAreOrdered, VersionsAreRead, About
<1>2. QED
  BY <1>1, AlgorithmsAssumption, OperandsStay, PTL
=============================================================================
