------------------------- MODULE PaperBackup_proofs -------------------------
(***************************************************************************)
(* Theorems about PaperBackup, and so about the pages (PaperPages) and the *)
(* frames (PaperFrames) it is made of: the sizes are the best ones, codes  *)
(* and text are all on the pages and none runs off, the text runs on, and  *)
(* what is read back is a whole ciphertext or nothing.                     *)
(*                                                                         *)
(* In order: integers, loops and sums; the numbers of a layout; the text   *)
(* on the pages (TextInv); the codes and the lines on them (CodesInv,      *)
(* RowsInv); what the searches for a size find; the program from a size to *)
(* a printed document (ProgramInv); what sets of frames join to; what a    *)
(* reader gets (ReadInv).                                                  *)
(*                                                                         *)
(* The theorems of the library for induction take an operator; here        *)
(* EveryNatural is about a set, and a search or a sum is a recursive       *)
(* function, which Loops and Partial describe: every loop is followed to   *)
(* its end.                                                                *)
(***************************************************************************)
EXTENDS PaperBackup, FunctionTheorems, FiniteSetTheorems, TLAPS

-----------------------------------------------------------------------------
(* Integers. *)

LEMMA CeilType ==
    ASSUME NEW a \in Int, NEW b \in Nat \ {0}
    PROVE  Ceil(a, b) \in Int
BY DEF Ceil

LEMMA SmallerType ==
    ASSUME NEW a \in Int, NEW b \in Int
    PROVE  Smaller(a, b) \in Int /\ Larger(a, b) \in Int
BY DEF Smaller, Larger

LEMMA GridHeightType ==
    ASSUME NEW s, s.qr \in Int, s.gap \in Int, NEW r \in Int
    PROVE  GridHeight(s, r) \in Int
BY DEF GridHeight

LEMMA Times ==
    ASSUME NEW a \in Int, NEW b \in Int, NEW c \in Nat, a <= b
    PROVE  a * c <= b * c
BY SMT

LEMMA DivFits ==
    ASSUME NEW a \in Int, NEW b \in Nat \ {0}, NEW q \in Int, q <= a \div b
    PROVE  q * b <= a
<1>1. a \div b \in Int /\ (a \div b) * b <= a
  BY SMT
<1>2. q * b <= (a \div b) * b
  BY <1>1, Times
<1> QED BY <1>1, <1>2, SMT

LEMMA DivHolds ==
    ASSUME NEW a \in Int, NEW b \in Nat \ {0}, NEW m \in Int, m * b <= a
    PROVE  m <= a \div b
<1>1. a \div b \in Int /\ a < (a \div b + 1) * b
  BY SMT
<1>2. a \div b + 1 <= m => (a \div b + 1) * b <= m * b
  BY <1>1, Times
<1> QED BY <1>1, <1>2, SMT

\* What divides rounding up: the least multiple that covers.
LEMMA CeilFits ==
    ASSUME NEW a \in Int, NEW b \in Nat \ {0}
    PROVE  /\ Ceil(a, b) \in Int /\ a <= Ceil(a, b) * b
           /\ \A m \in Int : a <= m * b => Ceil(a, b) <= m
           /\ a > 0 => Ceil(a, b) > 0
<1>1. Ceil(a, b) \in Int /\ a <= Ceil(a, b) * b
  <2> DEFINE q == (a + b - 1) \div b
  <2>1. q \in Int /\ a + b - 1 < (q + 1) * b
    BY SMT
  <2>2. (q + 1) * b = q * b + b /\ q * b \in Int
    BY <2>1, SMT
  <2> HIDE DEF q
  <2>3. a <= q * b
    BY <2>1, <2>2
  <2> QED BY <2>1, <2>3 DEF Ceil, q
<1>2. ASSUME NEW m \in Int, a <= m * b PROVE Ceil(a, b) <= m
  <2> DEFINE q == (a + b - 1) \div b
  <2>1. q \in Int /\ q * b <= a + b - 1
    BY SMT
  <2>2. m + 1 <= q => (m + 1) * b <= q * b
    BY <2>1, Times
  <2>3. (m + 1) * b = m * b + b /\ m * b \in Int
    BY SMT
  <2>4. q * b \in Int
    BY <2>1
  <2> HIDE DEF q
  <2>5. q <= m
    BY <2>1, <2>2, <2>3, <2>4, <1>2
  <2> QED BY <2>5 DEF Ceil, q
<1>3. ASSUME a > 0 PROVE Ceil(a, b) > 0
  <2>1. 0 * b = 0 /\ (Ceil(a, b) <= 0 => Ceil(a, b) * b <= 0 * b)
    BY <1>1, Times
  <2>2. Ceil(a, b) * b \in Int
    BY <1>1
  <2> QED BY <1>1, <1>3, <2>1, <2>2
<1> QED BY <1>1, <1>2, <1>3

LEMMA DivUpIsCeil == \A a, b : DivUp(a, b) = Ceil(a, b)
BY DEF DivUp, Ceil

-----------------------------------------------------------------------------
(* Induction, over a set of naturals.  The numbers of S up to n are not in bijection with     *)
(* their successors, 0 is in the way.                                                         *)
LEMMA EveryNatural ==
    ASSUME NEW S, 0 \in S, \A n \in Nat : n \in S => n + 1 \in S
    PROVE  \A n \in Nat : n \in S
<1> SUFFICES ASSUME NEW n \in Nat, n \notin S PROVE FALSE
  OBVIOUS
<1> DEFINE A == {k \in 0..n : k \in S}
           B == {k \in 1..n : k - 1 \in A}
           f == [k \in A |-> k + 1]
<1>1. IsFiniteSet(A)
  <2>1. IsFiniteSet(0..n)
    BY FS_Interval
  <2>2. A \in SUBSET (0..n)
    OBVIOUS
  <2> QED BY <2>1, <2>2, FS_Subset
<1>2. \A k \in A : k + 1 \in A /\ k + 1 \in B
  OBVIOUS
<1>3. B \in SUBSET A /\ 0 \in A /\ 0 \notin B
  <2>1. \A k \in B : (k - 1) + 1 = k
    OBVIOUS
  <2> QED BY <1>2, <2>1
<1>4. f \in Bijection(A, B)
  <2>1. f \in [A -> B]
    BY <1>2
  <2>2. \A i, j \in A : f[i] = f[j] => i = j
    OBVIOUS
  <2>3. \A v \in B : \E i \in A : f[i] = v
    <3> TAKE v \in B
    <3>1. v - 1 \in A /\ f[v - 1] = v
      OBVIOUS
    <3> QED BY <3>1
  <2>4. DOMAIN f = A
    OBVIOUS
  <2> HIDE DEF f, A, B
  <2> QED BY <2>1, <2>2, <2>3, <2>4 DEF Bijection, Injection, Surjection, IsInjective
<1> HIDE DEF f, A, B
<1>5. Cardinality(B) = Cardinality(A)
  BY <1>1, <1>4, FS_Bijection, Fun_ExistsBij DEF ExistsBijection
<1>6. B = A
  BY <1>1, <1>3, <1>5, FS_Subset
<1> QED BY <1>3, <1>6

LEMMA GreatestOf ==
    ASSUME NEW n \in Nat, NEW S \in SUBSET (0..n), S # {}
    PROVE  \E m \in S : \A k \in S : k <= m
<1> SUFFICES ASSUME \A m \in S : \E k \in S : ~(k <= m) PROVE FALSE
  OBVIOUS
<1> DEFINE T == {i \in Nat : \E k \in S : i <= k}
<1>1. 0 \in T
  <2>1. PICK k \in S : TRUE
    OBVIOUS
  <2>2. 0 <= k
    OBVIOUS
  <2> QED BY <2>1, <2>2
<1>2. ASSUME NEW i \in Nat, i \in T PROVE i + 1 \in T
  <2>1. PICK k \in S : i <= k
    BY <1>2
  <2>2. PICK l \in S : ~(l <= k)
    OBVIOUS
  <2>3. k \in Int /\ l \in Int
    OBVIOUS
  <2> QED BY <2>1, <2>2, <2>3
<1> HIDE DEF T
<1>3. n + 1 \in T
  BY <1>1, <1>2, EveryNatural
<1> QED BY <1>3 DEF T

LEMMA LeastOf ==
    ASSUME NEW S \in SUBSET Nat, S # {}
    PROVE  \E m \in S : \A k \in S : m <= k
<1> SUFFICES ASSUME \A m \in S : \E k \in S : ~(m <= k) PROVE FALSE
  OBVIOUS
<1> DEFINE T == {i \in Nat : \A k \in S : i <= k}
<1>1. 0 \in T
  OBVIOUS
<1>2. ASSUME NEW i \in Nat, i \in T PROVE i + 1 \in T
  <2>1. i \notin S
    <3> SUFFICES ASSUME i \in S PROVE FALSE
      OBVIOUS
    <3>1. PICK k \in S : ~(i <= k)
      OBVIOUS
    <3> QED BY <1>2, <3>1
  <2>2. \A k \in S : k \in Nat /\ i <= k /\ i # k
    BY <1>2, <2>1
  <2> QED BY <2>2
<1>3. PICK n \in S : TRUE
  OBVIOUS
<1> HIDE DEF T
<1>4. n + 1 \in T
  BY <1>1, <1>2, EveryNatural
<1> QED BY <1>3, <1>4 DEF T

(* Loops: functions that call themselves last, on something smaller. *)

Descends(W, Stop, next, N, rank) ==
    /\ N \in Nat /\ rank \in [W -> 0..N]
    /\ \A w \in W \ Stop : next[w] \in W /\ rank[next[w]] < rank[w]

Loops(g, W, Stop, val, next) == g = [w \in W |-> IF w \in Stop THEN val[w] ELSE g[next[w]]]

LEMMA LoopDefined ==
    ASSUME NEW W, NEW Stop, NEW val, NEW next, NEW N, NEW rank, Descends(W, Stop, next, N, rank)
    PROVE  \E g : Loops(g, W, Stop, val, next)
<1>0. /\ N \in Nat /\ rank \in [W -> 0..N]
      /\ \A w \in W \ Stop : next[w] \in W /\ rank[next[w]] < rank[w]
  BY DEF Descends
<1> DEFINE Good(n, g) == \A w \in W : rank[w] < n => g[w] = IF w \in Stop THEN val[w] ELSE g[next[w]]
           S == {n \in Nat : \E g : g = [w \in W |-> g[w]] /\ Good(n, g)}
<1>1. 0 \in S
  <2> DEFINE g == [w \in W |-> val[w]]
  <2>1. \A w \in W : ~(rank[w] < 0)
    BY <1>0
  <2>2. g = [w \in W |-> g[w]]
    OBVIOUS
  <2> HIDE DEF g
  <2> QED BY <2>1, <2>2
<1>2. ASSUME NEW n \in Nat, n \in S PROVE n + 1 \in S
  <2>1. PICK g : g = [w \in W |-> g[w]] /\ Good(n, g)
    BY <1>2
  <2> DEFINE h == [w \in W |-> IF w \in Stop THEN val[w] ELSE g[next[w]]]
  <2>2. h = [w \in W |-> h[w]]
    OBVIOUS
  <2>3. \A w \in W : rank[w] < n => h[w] = g[w]
    BY <2>1
  <2>4. ASSUME NEW w \in W, rank[w] < n + 1 PROVE h[w] = IF w \in Stop THEN val[w] ELSE h[next[w]]
    <3>1. CASE w \in Stop
      BY <3>1
    <3>2. CASE w \notin Stop
      <4>1. next[w] \in W /\ rank[next[w]] < rank[w] /\ rank[next[w]] \in Nat /\ rank[w] \in Nat
        BY <3>2, <1>0
      <4>2. rank[next[w]] < n
        BY <2>4, <4>1
      <4>3. h[next[w]] = g[next[w]]
        BY <2>3, <4>1, <4>2
      <4> QED BY <3>2, <4>3
    <3> QED BY <3>1, <3>2
  <2> HIDE DEF h
  <2>5. Good(n + 1, h)
    BY <2>4
  <2> HIDE DEF Good
  <2> QED BY <2>2, <2>5
<1> HIDE DEF S
<1>3. N + 1 \in S
  BY <1>0, <1>1, <1>2, EveryNatural
<1>4. PICK g : g = [w \in W |-> g[w]] /\ Good(N + 1, g)
  BY <1>3 DEF S
<1>5. \A w \in W : rank[w] < N + 1
  BY <1>0
<1>6. \A w \in W : g[w] = IF w \in Stop THEN val[w] ELSE g[next[w]]
  BY <1>4, <1>5
<1>7. [w \in W |-> g[w]] = [w \in W |-> IF w \in Stop THEN val[w] ELSE g[next[w]]]
  BY <1>6
<1> HIDE DEF Good
<1> QED BY <1>4, <1>7 DEF Loops

\* What holds on a set that the loop does not leave: the values that it may end with.
Stays(I, V, W, Stop, val, next) ==
    /\ I \in SUBSET W
    /\ \A w \in I \ Stop : next[w] \in I
    /\ \A w \in I \cap Stop : val[w] \in V

LEMMA LoopYields ==
    ASSUME NEW W, NEW Stop, NEW val, NEW next, NEW N, NEW rank, Descends(W, Stop, next, N, rank),
           NEW g, Loops(g, W, Stop, val, next), NEW I, NEW V, Stays(I, V, W, Stop, val, next)
    PROVE  \A w \in I : g[w] \in V
<1>0. /\ N \in Nat /\ rank \in [W -> 0..N]
      /\ \A w \in W \ Stop : next[w] \in W /\ rank[next[w]] < rank[w]
  BY DEF Descends
<1>9. g = [w \in W |-> IF w \in Stop THEN val[w] ELSE g[next[w]]]
  BY DEF Loops
<1>8. /\ I \in SUBSET W
      /\ \A w \in I \ Stop : next[w] \in I
      /\ \A w \in I \cap Stop : val[w] \in V
  BY DEF Stays
<1> DEFINE S == {n \in Nat : \A w \in I : rank[w] < n => g[w] \in V}
<1>1. 0 \in S
  <2>1. \A w \in I : ~(rank[w] < 0)
    BY <1>0, <1>8
  <2> QED BY <2>1
<1>2. ASSUME NEW n \in Nat, n \in S PROVE n + 1 \in S
  <2>1. \A w \in I : rank[w] < n => g[w] \in V
    BY <1>2
  <2>2. ASSUME NEW w \in I, rank[w] < n + 1 PROVE g[w] \in V
    <3>1. CASE w \in Stop
      <4>1. g[w] = val[w]
        BY <1>8, <1>9, <3>1
      <4> QED BY <1>8, <3>1, <4>1
    <3>2. CASE w \notin Stop
      <4>1. next[w] \in I /\ rank[next[w]] < rank[w] /\ rank[next[w]] \in Nat /\ rank[w] \in Nat
        BY <1>0, <1>8, <3>2
      <4>2. rank[next[w]] < n
        BY <2>2, <4>1
      <4>3. g[next[w]] \in V
        BY <2>1, <4>1, <4>2, Zenon
      <4>4. g[w] = g[next[w]]
        BY <1>8, <1>9, <3>2
      <4> QED BY <4>3, <4>4
    <3> QED BY <3>1, <3>2
  <2> DEFINE m == n + 1
  <2>5. m \in Nat
    OBVIOUS
  <2>3. m \in Nat /\ \A w \in I : rank[w] < m => g[w] \in V
    BY <2>2, <2>5, Zenon
  <2> HIDE DEF m
  <2>4. m \in S
    BY <2>3, Zenon
  <2> QED BY <2>4 DEF m
<1> HIDE DEF S
<1>3. N + 1 \in S
  BY <1>0, <1>1, <1>2, EveryNatural
<1>4. \A w \in I : rank[w] < N + 1
  BY <1>0, <1>8
<1> QED BY <1>3, <1>4 DEF S

-----------------------------------------------------------------------------
(* Sums. *)

LEMMA SumDefined ==
    ASSUME NEW s \in Seq(Int)
    PROVE  \E g : g = [k \in 0..Len(s) |-> IF k = 0 THEN 0 ELSE g[k - 1] + s[k]]
<1> DEFINE n == Len(s)
           W == 0..n
           Good(m, g) == \A k \in W : k <= m => g[k] = IF k = 0 THEN 0 ELSE g[k - 1] + s[k]
           S == {m \in Nat : \E g : g = [k \in W |-> g[k]] /\ Good(m, g)}
<1>0. n \in Nat
  OBVIOUS
<1> HIDE DEF n
<1>1. 0 \in S
  <2> DEFINE g == [k \in W |-> 0]
  <2>1. g = [k \in W |-> g[k]] /\ Good(0, g)
    OBVIOUS
  <2> HIDE DEF g
  <2> QED BY <2>1
<1>2. ASSUME NEW m \in Nat, m \in S PROVE m + 1 \in S
  <2>1. PICK g : g = [k \in W |-> g[k]] /\ Good(m, g)
    BY <1>2
  <2> DEFINE h == [k \in W |-> IF k = 0 THEN 0 ELSE g[k - 1] + s[k]]
  <2>2. h = [k \in W |-> h[k]]
    OBVIOUS
  <2>3. \A k \in W : k <= m => h[k] = g[k]
    BY <2>1
  <2>4. ASSUME NEW k \in W, k <= m + 1 PROVE h[k] = IF k = 0 THEN 0 ELSE h[k - 1] + s[k]
    <3>1. CASE k = 0
      BY <3>1
    <3>2. CASE k # 0
      <4>1. k - 1 \in W /\ k - 1 <= m
        BY <3>2, <2>4, <1>0
      <4>2. h[k - 1] = g[k - 1]
        BY <2>3, <4>1
      <4> QED BY <3>2, <4>2
    <3> QED BY <3>1, <3>2
  <2> HIDE DEF h
  <2>5. m + 1 \in Nat /\ Good(m + 1, h)
    BY <2>4
  <2> HIDE DEF Good, W
  <2> QED BY <2>2, <2>5, Zenon
<1> HIDE DEF S
<1>3. n \in S
  BY <1>0, <1>1, <1>2, EveryNatural
<1>4. PICK g : g = [k \in W |-> g[k]] /\ Good(n, g)
  BY <1>3 DEF S
<1>5. \A k \in W : g[k] = IF k = 0 THEN 0 ELSE g[k - 1] + s[k]
  <2> TAKE k \in W
  <2>1. k <= n
    BY <1>0
  <2>2. Good(n, g)
    BY <1>4
  <2> QED BY <2>1, <2>2, Zenon
<1>6. [k \in W |-> g[k]] = [k \in W |-> IF k = 0 THEN 0 ELSE g[k - 1] + s[k]]
  BY <1>5
<1> HIDE DEF Good
<1> QED BY <1>4, <1>6 DEF n

\* The sums of what s begins with.
Partial(s) == CHOOSE g : g = [k \in 0..Len(s) |-> IF k = 0 THEN 0 ELSE g[k - 1] + s[k]]

LEMMA SumIsPartial == \A s : SumOf(s) = Partial(s)[Len(s)]
BY DEF SumOf, Partial

LEMMA PartialSums ==
    ASSUME NEW s \in Seq(Int)
    PROVE  /\ Partial(s)[0] = 0
           /\ \A k \in 1..Len(s) : Partial(s)[k] = Partial(s)[k - 1] + s[k]
           /\ \A k \in 0..Len(s) : Partial(s)[k] \in Int
<1> DEFINE g == Partial(s)
           n == Len(s)
<1>0. n \in Nat /\ \A k \in 1..n : s[k] \in Int
  OBVIOUS
<1>1. g = [k \in 0..n |-> IF k = 0 THEN 0 ELSE g[k - 1] + s[k]]
  BY SumDefined DEF Partial
<1> HIDE DEF g, n
<1>2. g[0] = 0
  BY <1>0, <1>1
<1>3. \A k \in 1..n : g[k] = g[k - 1] + s[k]
  BY <1>0, <1>1
<1> DEFINE S == {m \in Nat : m <= n => g[m] \in Int}
<1>4. 0 \in S
  BY <1>2
<1>5. ASSUME NEW m \in Nat, m \in S PROVE m + 1 \in S
  <2> SUFFICES ASSUME m + 1 <= n PROVE g[m + 1] \in Int
    OBVIOUS
  <2>1. m + 1 \in 1..n /\ (m + 1) - 1 = m
    BY <1>0
  <2>2. g[m + 1] = g[m] + s[m + 1]
    BY <1>3, <2>1
  <2> QED BY <1>0, <1>5, <2>1, <2>2
<1> HIDE DEF S
<1>6. \A m \in Nat : m \in S
  BY <1>4, <1>5, EveryNatural
<1>7. \A k \in 0..n : g[k] \in Int
  BY <1>6 DEF S
<1> QED BY <1>2, <1>3, <1>7 DEF g, n

\* Partial sums depend on what was summed.
LEMMA PartialPrefix ==
    ASSUME NEW s \in Seq(Int), NEW t \in Seq(Int), Len(s) <= Len(t),
           \A k \in 1..Len(s) : s[k] = t[k]
    PROVE  Partial(t)[Len(s)] = Partial(s)[Len(s)]
<1> DEFINE g == Partial(s)
           h == Partial(t)
           n == Len(s)
           S == {m \in Nat : m <= n => g[m] = h[m]}
<1>0. n \in Nat /\ Len(t) \in Nat /\ n <= Len(t)
  OBVIOUS
<1>1. /\ g[0] = 0 /\ h[0] = 0
      /\ \A k \in 1..n : g[k] = g[k - 1] + s[k]
      /\ \A k \in 1..Len(t) : h[k] = h[k - 1] + t[k]
  BY PartialSums
<1> HIDE DEF g, h, n
<1>2. 0 \in S
  BY <1>1
<1>3. ASSUME NEW m \in Nat, m \in S PROVE m + 1 \in S
  <2> SUFFICES ASSUME m + 1 <= n PROVE g[m + 1] = h[m + 1]
    OBVIOUS
  <2>1. m + 1 \in 1..n /\ m + 1 \in 1..Len(t) /\ (m + 1) - 1 = m
    BY <1>0
  <2>2. g[m + 1] = g[m] + s[m + 1] /\ h[m + 1] = h[m] + t[m + 1]
    BY <1>1, <2>1
  <2>3. s[m + 1] = t[m + 1]
    BY <2>1 DEF n
  <2> QED BY <1>0, <1>3, <2>1, <2>2, <2>3
<1> HIDE DEF S
<1>4. n \in S
  BY <1>0, <1>2, <1>3, EveryNatural
<1> QED BY <1>0, <1>4 DEF S, g, h, n

LEMMA SumType == ASSUME NEW s \in Seq(Int) PROVE SumOf(s) \in Int
<1>1. Len(s) \in 0..Len(s)
  OBVIOUS
<1> QED BY <1>1, PartialSums, SumIsPartial

LEMMA SumGrows ==
    ASSUME NEW s \in Seq(Int), NEW t \in Seq(Int), Len(t) = Len(s) + 1,
           \A k \in 1..Len(s) : s[k] = t[k]
    PROVE  SumOf(t) = SumOf(s) + t[Len(t)]
<1>1. Len(s) \in Nat /\ Len(s) <= Len(t) /\ Len(t) \in 1..Len(t) /\ Len(t) - 1 = Len(s)
  OBVIOUS
<1>2. Partial(t)[Len(t)] = Partial(t)[Len(t) - 1] + t[Len(t)]
  BY <1>1, PartialSums
<1>3. Partial(t)[Len(s)] = Partial(s)[Len(s)]
  BY <1>1, PartialPrefix
<1> QED BY <1>1, <1>2, <1>3, SumIsPartial

LEMMA SumOfNothing ==
    ASSUME NEW s \in Seq(Int), \A k \in 1..Len(s) : s[k] = 0
    PROVE  SumOf(s) = 0
<1> DEFINE g == Partial(s)
           n == Len(s)
           S == {m \in Nat : m <= n => g[m] = 0}
<1>1. n \in Nat /\ g[0] = 0 /\ \A k \in 1..n : g[k] = g[k - 1] + s[k]
  BY PartialSums
<1> HIDE DEF g, n
<1>2. 0 \in S
  BY <1>1
<1>3. ASSUME NEW m \in Nat, m \in S PROVE m + 1 \in S
  <2> SUFFICES ASSUME m + 1 <= n PROVE g[m + 1] = 0
    OBVIOUS
  <2>1. m + 1 \in 1..n /\ (m + 1) - 1 = m
    BY <1>1
  <2>2. g[m + 1] = g[m] + s[m + 1]
    BY <1>1, <2>1
  <2>3. s[m + 1] = 0
    BY <2>1 DEF n
  <2> QED BY <1>1, <1>3, <2>1, <2>2, <2>3
<1> HIDE DEF S
<1>4. n \in S
  BY <1>1, <1>2, <1>3, EveryNatural
<1> QED BY <1>1, <1>4, SumIsPartial DEF S, g, n

-----------------------------------------------------------------------------
(* The room there is. *)

(* The rows and columns of the grid are numbers.  With a text below it the grid has as many   *)
(* rows as fit beside the least text: the loop that takes rows away has nothing to do.        *)
LEMMA GridType ==
    ASSUME NEW d, Printable(d), NEW first \in BOOLEAN
    PROVE  /\ Top(d, first) \in Int /\ Columns(d) \in Int /\ Rows(d, first) \in Int
           /\ Rows(d, first) > 0 =>
                Top(d, first) + Rows(d, first) * d.sheet.qr <= d.sheet.height - d.sheet.margin
<1> DEFINE s == d.sheet
<1>1. /\ s.height \in Int /\ s.width \in Int /\ s.margin \in Int /\ s.gap \in Nat
      /\ s.maxRows \in Int /\ s.maxCols \in Int /\ s.minLines \in Nat
      /\ s.qr \in Nat \ {0} /\ s.line \in Nat \ {0}
  BY DEF Printable
<1>2. Top(d, first) \in Int
  BY DEF Printable, Top
<1>3. \A u \in Int, most \in Int :
        /\ Cells(u, s.qr, s.gap, most) \in Int
        /\ Cells(u, s.qr, s.gap, most) <= (u + s.gap) \div (s.qr + s.gap)
  <2> SUFFICES ASSUME NEW u \in Int, NEW most \in Int
               PROVE  /\ Cells(u, s.qr, s.gap, most) \in Int
                      /\ Cells(u, s.qr, s.gap, most) <= (u + s.gap) \div (s.qr + s.gap)
    OBVIOUS
  <2>1. s.qr + s.gap \in Nat \ {0}
    BY <1>1
  <2> DEFINE q == (u + s.gap) \div (s.qr + s.gap)
  <2>2. q \in Int
    BY <2>1, <1>1
  <2>3. Cells(u, s.qr, s.gap, most) = Smaller(q, most)
    BY DEF Cells
  <2> HIDE DEF q
  <2>4. Smaller(q, most) \in Int /\ Smaller(q, most) <= q
    BY <2>2 DEF Smaller
  <2> QED BY <2>3, <2>4 DEF q
<1>4. Columns(d) \in Int
  <2>1. s.width - 2 * s.margin \in Int /\ s.maxCols \in Int
    BY <1>1
  <2> QED BY <2>1, <1>3 DEF Columns
<1>5. MaxRows(d, first) \in Int
  BY <1>1 DEF MaxRows, Smaller
<1> DEFINE room == s.height - s.margin - Top(d, first)
           taken == IF ShowsText(d) THEN s.minLines * s.line ELSE 0
           fit == Cells(room - taken, s.qr, s.gap, MaxRows(d, first))
           enough == {r \in 1..fit : LinesBelow(d, first, r) >= s.minLines}
<1>6. room \in Int /\ taken \in Int
  BY <1>1, <1>2
<1>7. fit \in Int /\ fit <= (room - taken + s.gap) \div (s.qr + s.gap)
  <2> HIDE DEF room, taken
  <2>1. room - taken \in Int
    BY <1>6
  <2> QED BY <2>1, <1>3, <1>5
<1>8. ASSUME ShowsText(d) PROVE LinesBelow(d, first, fit) >= s.minLines
  <2> DEFINE rest == s.height - Top(d, first) - GridHeight(s, fit) - s.margin
  <2>1. fit * (s.qr + s.gap) <= room - taken + s.gap
    BY <1>1, <1>6, <1>7, DivFits
  <2>2. fit * (s.qr + s.gap) = GridHeight(s, fit) + s.gap
    BY <1>1, <1>7 DEF GridHeight
  <2>3. GridHeight(s, fit) \in Int
    BY <1>1, <1>7 DEF GridHeight
  <2>4. taken = s.minLines * s.line
    BY <1>8
  <2> HIDE DEF fit
  <2>5. rest \in Int /\ s.minLines * s.line <= rest
    BY <1>1, <1>2, <1>6, <2>1, <2>2, <2>3, <2>4
  <2>6. Larger(0, rest) \in Int /\ s.minLines * s.line <= Larger(0, rest)
    BY <1>1, <2>5 DEF Larger
  <2>7. s.minLines <= Larger(0, rest) \div s.line
    BY <1>1, <2>6, DivHolds
  <2> QED BY <1>1, <2>6, <2>7 DEF LinesBelow
<1>9. Rows(d, first) =
        IF fit <= 0 THEN 0
        ELSE IF ShowsText(d)
        THEN IF enough = {} THEN 0 ELSE CHOOSE r \in enough : \A q \in enough : q <= r
        ELSE IF ~d.style.advanced /\ room >= MaxRows(d, first) * s.qr THEN MaxRows(d, first)
        ELSE fit
  BY DEF Rows
<1> HIDE DEF fit
<1>10. ASSUME ShowsText(d), fit > 0
       PROVE  (CHOOSE r \in enough : \A q \in enough : q <= r) \in Int
  <2>1. fit \in enough /\ \A q \in enough : q <= fit
    BY <1>7, <1>8, <1>10
  <2>2. (CHOOSE r \in enough : \A q \in enough : q <= r) \in enough
    BY <2>1
  <2> QED BY <2>2, <1>7
<1>11. Rows(d, first) \in Int
  BY <1>5, <1>7, <1>9, <1>10
<1>12. ASSUME NEW r \in Int, 0 < r, r <= fit PROVE r * s.qr <= room
  <2>1. r * (s.qr + s.gap) <= fit * (s.qr + s.gap)
    BY <1>1, <1>7, <1>12, Times
  <2>2. fit * (s.qr + s.gap) <= room - taken + s.gap
    <3> HIDE DEF room, taken
    <3>1. room - taken + s.gap \in Int /\ s.qr + s.gap \in Nat \ {0}
      BY <1>1, <1>6
    <3> QED BY <1>7, <3>1, DivFits
  <2>3. 1 * s.gap <= r * s.gap
    BY <1>1, <1>12, Times
  <2>4. r * (s.qr + s.gap) = r * s.qr + r * s.gap /\ r * s.qr \in Int /\ r * s.gap \in Int
    BY <1>1, SMT
  <2>5. taken >= 0
    <3>1. s.minLines * s.line \in Nat
      BY <1>1, SMT
    <3> QED BY <3>1
  <2>6. fit * (s.qr + s.gap) \in Int
    BY <1>1, <1>7
  <2> HIDE DEF room, taken
  <2> QED BY <1>1, <1>6, <2>1, <2>2, <2>3, <2>4, <2>5, <2>6
<1>13. ASSUME Rows(d, first) > 0 PROVE Rows(d, first) * s.qr <= room
  <2>1. fit > 0
    BY <1>7, <1>9, <1>13
  <2>2. CASE ShowsText(d)
    <3>1. enough # {}
      BY <1>9, <1>13, <2>1, <2>2
    <3>2. Rows(d, first) = CHOOSE r \in enough : \A q \in enough : q <= r
      BY <1>7, <1>9, <2>1, <2>2, <3>1
    <3>3. fit \in enough /\ \A q \in enough : q <= fit
      BY <1>7, <1>8, <2>1, <2>2
    <3>4. Rows(d, first) \in enough
      <4> HIDE DEF enough
      <4> QED BY <3>2, <3>3, Zenon
    <3>5. Rows(d, first) <= fit
      BY <3>4
    <3> QED BY <1>11, <1>12, <1>13, <3>5
  <2>3. CASE ~ShowsText(d) /\ ~d.style.advanced /\ room >= MaxRows(d, first) * s.qr
    <3>1. Rows(d, first) = MaxRows(d, first)
      BY <1>7, <1>9, <2>1, <2>3
    <3>2. MaxRows(d, first) * s.qr \in Int
      BY <1>1, <1>5
    <3> HIDE DEF room
    <3> QED BY <1>6, <2>3, <3>1, <3>2
  <2>4. CASE ~ShowsText(d) /\ ~(~d.style.advanced /\ room >= MaxRows(d, first) * s.qr)
    <3>1. Rows(d, first) = fit
      BY <1>7, <1>9, <2>1, <2>4
    <3> QED BY <1>7, <1>12, <2>1, <3>1
  <2> QED BY <2>2, <2>3, <2>4
<1>14. Rows(d, first) * s.qr \in Int
  BY <1>1, <1>11
<1> QED BY <1>1, <1>2, <1>4, <1>11, <1>13, <1>14

(* The codes are counted page by page. *)
LEMMA FramesType ==
    ASSUME NEW d, Printable(d), ShowsQr(d), NEW p \in Nat
    PROVE  FrameStart(d, p) \in Int /\ FramesLeft(d, p) \in Int /\ InGrid(d, p) \in Int
<1>1. \A q \in Nat : PerPage(d, q) \in Int
  <2> SUFFICES ASSUME NEW q \in Nat PROVE PerPage(d, q) \in Int
    OBVIOUS
  <2>1. UsesFirst(d, q) \in BOOLEAN
    BY DEF UsesFirst
  <2>2. Rows(d, UsesFirst(d, q)) \in Int /\ Columns(d) \in Int
    BY <2>1, GridType
  <2> QED BY <2>2 DEF PerPage
<1>2. PerPage(d, 0) \in Int /\ PerPage(d, 1) \in Int /\ PerPage(d, p) \in Int
  BY <1>1
<1>3. ExtraSlots(d) \in Int
  BY DEF ExtraSlots
<1>4. FrameStart(d, p) \in Int
  BY <1>2, <1>3 DEF FrameStart, FirstCount
<1>5. FramesLeft(d, p) \in Int
  <2>1. d.qrs - FrameStart(d, p) \in Int
    BY <1>4 DEF Printable
  <2> QED BY <2>1 DEF FramesLeft, Larger
<1>6. InGrid(d, p) \in Int
  BY <1>2, <1>5, SmallerType DEF InGrid
<1> QED BY <1>4, <1>5, <1>6

(* So are the lines of a page.  InGrid divides by the columns, of which there is one. *)
LEMMA LinesType ==
    ASSUME NEW d, Printable(d), ShowsText(d), HasRoom(d, TRUE), NEW page \in Nat
    PROVE  /\ PageCapacity(d, page) \in Int /\ LineCapacity(d, page) \in Int
           /\ LineCapacity(d, page) <= PageCapacity(d, page)
           /\ EstimatedLines(d, page) \in Nat \ {0}
           /\ TextTop(d, page) \in Int /\ LineHeight(d) \in Nat \ {0}
           /\ PageCapacity(d, page) > 0 =>
                TextTop(d, page) + PageCapacity(d, page) * LineHeight(d) <= d.sheet.height - d.sheet.margin
<1>1. /\ d.sheet.height \in Int /\ d.sheet.margin \in Int /\ d.sheet.gap \in Int
      /\ d.sheet.textGap \in Int /\ d.sheet.qr \in Int /\ d.sheet.line \in Nat \ {0}
  BY DEF Printable
<1>2. d.kind \in ShardKinds \cup {"recovery"}
  BY DEF ShowsText
<1>3. /\ d.style.zone[d.kind].floor \in Nat
      /\ d.style.zone[d.kind].first \in Nat /\ d.style.zone[d.kind].rest \in Nat
  BY <1>2 DEF Printable
<1>4. LineHeight(d) \in Nat \ {0}
  BY <1>1, <1>3 DEF LineHeight, Larger
<1>5. \A first \in BOOLEAN :
        Top(d, first) \in Int /\ Rows(d, first) \in Int /\ Columns(d) \in Int
  BY GridType
<1>6. \A first \in BOOLEAN : ZoneLines(d, first) \in Nat \ {0}
  <2> SUFFICES ASSUME NEW first \in BOOLEAN PROVE ZoneLines(d, first) \in Nat \ {0}
    OBVIOUS
  <2> DEFINE zone == d.style.zone[d.kind]
             height == IF first THEN zone.first ELSE zone.rest
             below == d.sheet.height - d.sheet.margin - Top(d, first) - height
             high == IF d.kind = "recovery" THEN Larger(0, below) ELSE height
  <2>1. height \in Int /\ below \in Int
    BY <1>1, <1>3, <1>5
  <2>2. high \in Int
    BY <2>1, SmallerType
  <2>3. ZoneLines(d, first) = Larger(1, high \div LineHeight(d))
    BY DEF ZoneLines
  <2> HIDE DEF high
  <2>4. high \div LineHeight(d) \in Int
    BY <2>2, <1>4
  <2> QED BY <2>3, <2>4 DEF Larger
<1>7. \A first \in BOOLEAN, n \in Int :
        /\ WithinZone(d, first, n) \in Int /\ WithinZone(d, first, n) <= n
        /\ n > 0 => WithinZone(d, first, n) > 0
  BY <1>6 DEF WithinZone, Smaller
<1>8. UsesFirst(d, page) \in BOOLEAN /\ UsesFirst(d, 0) \in BOOLEAN
  BY DEF UsesFirst
<1>9. \A p \in Nat : GridRows(d, p) \in Int
  <2> SUFFICES ASSUME NEW p \in Nat, ShowsQr(d) PROVE GridRows(d, p) \in Int
    BY DEF GridRows
  <2>1. Columns(d) \in Nat \ {0}
    <3>1. Columns(d) \in Int
      BY <1>5
    <3> QED BY <3>1 DEF HasRoom
  <2>2. InGrid(d, p) \in Int
    BY FramesType
  <2> QED BY <2>1, <2>2, CeilType DEF GridRows
<1>10. TextTop(d, page) \in Int
  BY <1>1, <1>5, <1>8, <1>9 DEF TextTop, GridHeight
<1>11. PageCapacity(d, page) \in Int
  <2>1. (d.sheet.height - d.sheet.margin - TextTop(d, page)) \div LineHeight(d) \in Int
    BY <1>1, <1>4, <1>10
  <2>2. Larger(0, (d.sheet.height - d.sheet.margin - TextTop(d, page)) \div LineHeight(d)) \in Int
    BY <2>1, SmallerType
  <2>3. (page = 0) \in BOOLEAN
    OBVIOUS
  <2> QED BY <2>2, <2>3, <1>7 DEF PageCapacity
<1>15. ASSUME PageCapacity(d, page) > 0
       PROVE  TextTop(d, page) + PageCapacity(d, page) * LineHeight(d) <= d.sheet.height - d.sheet.margin
  <2> DEFINE below == d.sheet.height - d.sheet.margin - TextTop(d, page)
             fit == below \div LineHeight(d)
  <2>1. below \in Int /\ fit \in Int
    BY <1>1, <1>4, <1>10
  <2>2. PageCapacity(d, page) = WithinZone(d, page = 0, Larger(0, fit))
    BY DEF PageCapacity
  <2>3. (page = 0) \in BOOLEAN
    OBVIOUS
  <2> HIDE DEF fit
  <2>4. Larger(0, fit) \in Int /\ (Larger(0, fit) > 0 => Larger(0, fit) = fit)
    BY <2>1 DEF Larger
  <2>5. PageCapacity(d, page) <= Larger(0, fit)
    BY <1>7, <2>2, <2>3, <2>4
  <2>6. PageCapacity(d, page) <= fit
    BY <1>11, <1>15, <2>1, <2>4, <2>5
  <2>7. PageCapacity(d, page) * LineHeight(d) <= below
    BY <1>4, <1>11, <2>1, <2>6, DivFits DEF fit
  <2>8. PageCapacity(d, page) * LineHeight(d) \in Int
    BY <1>4, <1>11
  <2> QED BY <1>1, <1>10, <2>7, <2>8
<1>12. ASSUME NEW first \in BOOLEAN
       PROVE  LinesPerPage(d, first) \in Nat \ {0}
  <2>1. Top(d, first) \in Int /\ Rows(d, first) \in Int /\ ZoneLines(d, first) \in Nat \ {0}
    BY <1>5, <1>6
  <2>2. CASE d.style.advanced
    <3> DEFINE more == IF first /\ d.kind \in ShardKinds THEN d.style.estimate[d.kind] ELSE 0
    <3>1. LinesPerPage(d, first) = ZoneLines(d, first) + more
      BY <2>2 DEF LinesPerPage
    <3>2. more \in Nat
      BY DEF Printable
    <3> HIDE DEF more
    <3> QED BY <2>1, <3>1, <3>2
  <2>3. CASE ~d.style.advanced
    <3> DEFINE grid == d.sheet.height - Top(d, first) - GridHeight(d.sheet, Rows(d, first)) - d.sheet.margin
               none == d.sheet.height - Top(d, first) - d.sheet.margin
    <3>1. GridHeight(d.sheet, Rows(d, first)) \in Int
      BY <1>1, <2>1, GridHeightType
    <3>2. grid \in Int /\ none \in Int
      BY <1>1, <2>1, <3>1
    <3>3. LinesBelow(d, first, Rows(d, first)) = Larger(0, grid) \div d.sheet.line
      BY DEF LinesBelow
    <3> DEFINE room == IF ShowsQr(d) THEN Larger(0, grid) \div d.sheet.line
                       ELSE none \div d.sheet.line
    <3>4. LinesPerPage(d, first) = Larger(1, room)
      BY <2>3, <3>3 DEF LinesPerPage
    <3> HIDE DEF grid, none
    <3>5. Larger(0, grid) \in Int
      BY <3>2, SmallerType
    <3>6. Larger(0, grid) \div d.sheet.line \in Int /\ none \div d.sheet.line \in Int
      BY <1>1, <3>2, <3>5
    <3>7. room \in Int
      BY <3>6
    <3> HIDE DEF room
    <3> QED BY <3>4, <3>7 DEF Larger
  <2> QED BY <2>2, <2>3
<1>13. \A p \in Nat : EstimatedLines(d, p) \in Nat \ {0}
  <2> TAKE p \in Nat
  <2>1. UsesFirst(d, p) \in BOOLEAN /\ (p = 0) \in BOOLEAN
    BY DEF UsesFirst
  <2>2. LinesPerPage(d, UsesFirst(d, p)) \in Nat \ {0}
    BY <1>12, <2>1
  <2> DEFINE n == LinesPerPage(d, UsesFirst(d, p))
             first == (p = 0)
  <2>3. n \in Int /\ n > 0 /\ first \in BOOLEAN
    BY <2>1, <2>2
  <2>4. EstimatedLines(d, p) = WithinZone(d, first, n)
    BY DEF EstimatedLines
  <2> HIDE DEF n, first
  <2>5. WithinZone(d, first, n) \in Int /\ WithinZone(d, first, n) > 0
    BY <1>7, <2>3, Zenon
  <2> QED BY <2>4, <2>5
<1>14. LineCapacity(d, page) \in Int /\ LineCapacity(d, page) <= PageCapacity(d, page)
  <2>1. EstimatedLines(d, 0) \in Int
    BY <1>13
  <2> QED BY <1>11, <2>1 DEF LineCapacity, Smaller
<1> QED BY <1>4, <1>10, <1>11, <1>13, <1>14, <1>15

(* The codes of a page are an interval. *)
LEMMA QrsType ==
    ASSUME NEW d, Printable(d), HasRoom(d, TRUE), NEW page \in Nat
    PROVE  QrsOn(d, page) \in [from : Int, to : Int, repeated : BOOLEAN]
<1>1. CASE ~ShowsQr(d)
  BY <1>1 DEF QrsOn
<1>2. CASE ShowsQr(d)
  <2>1. FrameStart(d, page) \in Int /\ InGrid(d, page) \in Int /\ FramesLeft(d, page) \in Int
    BY <1>2, FramesType
  <2>2. BesideGrid(d, page) \in Int
    <3>1. FramesLeft(d, page) - InGrid(d, page) \in Int /\ ExtraSlots(d) \in Int
      BY <2>1 DEF ExtraSlots
    <3>2. Larger(0, FramesLeft(d, page) - InGrid(d, page)) \in Int
      BY <3>1, SmallerType
    <3> QED BY <3>1, <3>2, SmallerType DEF BesideGrid
  <2>3. Repeats(d, page) \in BOOLEAN
    BY DEF Repeats
  <2> DEFINE start == IF Repeats(d, page) THEN 0 ELSE FrameStart(d, page)
  <2>4. start \in Int
    BY <2>1
  <2>5. QrsOn(d, page) = [from |-> start + 1, to |-> start + InGrid(d, page) + BesideGrid(d, page),
                          repeated |-> Repeats(d, page)]
    BY <1>2 DEF QrsOn
  <2> HIDE DEF start
  <2> QED BY <2>1, <2>2, <2>3, <2>4, <2>5
<1> QED BY <1>1, <1>2

LEMMA SectionType ==
    ASSUME NEW d, Printable(d), ShowsText(d), HasRoom(d, TRUE), NEW page \in Nat,
           NEW section, NEW token
    PROVE  SectionCapacity(d, page, section, token) \in Int
<1>1. PageCapacity(d, page) \in Int
  BY LinesType
<1>2. /\ d.style.bonus.first \in Nat /\ d.style.bonus.rest \in Nat
      /\ d.style.bonus.perExtraSection \in Nat /\ d.style.bonus.quorumlessFirst \in Nat
      /\ d.style.bonus.quorumlessRest \in Nat /\ d.style.bonus.reserved \in Nat
  BY DEF Printable, NoBonus
<1>3. CASE page = 0
  <2> DEFINE loose == IF d.quorumless THEN d.style.bonus.quorumlessFirst ELSE 0
             extra == IF Len(d.texts) > 1 THEN d.style.bonus.perExtraSection ELSE 0
  <2>1. SectionCapacity(d, page, section, token) =
          PageCapacity(d, page) + d.style.bonus.first + loose + extra
    BY <1>3 DEF SectionCapacity
  <2>2. loose \in Int /\ extra \in Int
    BY <1>2
  <2> HIDE DEF loose, extra
  <2> QED BY <1>1, <1>2, <2>1, <2>2
<1>4. CASE page # 0
  <2> DEFINE later == PageCapacity(d, page) + d.style.bonus.rest
                        - (IF section = 2 /\ token = 0 THEN d.style.bonus.reserved ELSE 0)
  <2>1. later \in Int
    BY <1>1, <1>2
  <2>2. Larger(0, later) \in Int
    BY <2>1, SmallerType
  <2>3. SectionCapacity(d, page, section, token) =
          Larger(0, later) + (IF d.quorumless THEN d.style.bonus.quorumlessRest ELSE 0)
    BY <1>4 DEF SectionCapacity
  <2> QED BY <2>2, <2>3, <1>2
<1> QED BY <1>3, <1>4

(* A line holds a token. *)
LEMMA GroupsType ==
    ASSUME NEW d, Printable(d), ShowsText(d), NEW page
    PROVE  Groups(d, page) \in Nat \ {0}
<1>1. d.kind \in ShardKinds \cup {"recovery"}
  BY DEF ShowsText
<1>2. d.style.groups[d.kind] \in Nat /\ d.style.quorumlessGroups \in Nat
  BY <1>1 DEF Printable
<1>3. GroupBonus(d) \in Nat
  BY <1>2 DEF GroupBonus
<1>4. d.groups.first \in Nat \ {0} /\ d.groups.rest \in Nat \ {0}
  BY DEF Printable
<1> QED BY <1>3, <1>4 DEF Groups, LayoutGroups

-----------------------------------------------------------------------------
(* The codes of a document, counted over its pages. *)

\* Both layouts of a document have room for a code.
Roomy(d) == HasRoom(d, TRUE) /\ HasRoom(d, UsesFirst(d, 1))

LEMMA FrameCounts ==
    ASSUME NEW d, Printable(d), ShowsQr(d), Roomy(d)
    PROVE  /\ PerPage(d, 0) \in Nat \ {0} /\ PerPage(d, 1) \in Nat \ {0}
           /\ \A p \in Nat \ {0} : PerPage(d, p) = PerPage(d, 1)
           /\ ExtraSlots(d) \in {0, 1}
           /\ FirstCount(d) = PerPage(d, 0) + ExtraSlots(d) /\ FirstCount(d) \in Nat \ {0}
           /\ \A p \in Nat : Rows(d, UsesFirst(d, p)) \in Nat \ {0}
           /\ Columns(d) \in Nat \ {0}
<1>1. \A p \in Nat \ {0} : UsesFirst(d, p) = UsesFirst(d, 1)
  BY DEF UsesFirst
<1>2. UsesFirst(d, 0) = TRUE /\ UsesFirst(d, 1) \in BOOLEAN
  BY DEF UsesFirst
<1>3. /\ Columns(d) \in Nat \ {0}
      /\ Rows(d, TRUE) \in Nat \ {0} /\ Rows(d, UsesFirst(d, 1)) \in Nat \ {0}
  <2>1. Columns(d) \in Int /\ Rows(d, TRUE) \in Int
    BY GridType
  <2>2. Rows(d, UsesFirst(d, 1)) \in Int
    BY <1>2, GridType
  <2>3. Columns(d) > 0 /\ Rows(d, TRUE) > 0
    BY Zenon DEF Roomy, HasRoom
  <2>4. Rows(d, UsesFirst(d, 1)) > 0
    BY Zenon DEF Roomy, HasRoom
  <2> DEFINE one == Rows(d, TRUE)
             other == Rows(d, UsesFirst(d, 1))
  <2>5. one \in Int /\ one > 0 /\ other \in Int /\ other > 0
    BY <2>1, <2>2, <2>3, <2>4, Zenon
  <2> HIDE DEF one, other
  <2>6. one \in Nat \ {0} /\ other \in Nat \ {0} /\ Columns(d) \in Nat \ {0}
    BY <2>1, <2>3, <2>5
  <2> QED BY <2>6 DEF one, other
<1>4. \A p \in Nat : Rows(d, UsesFirst(d, p)) \in Nat \ {0}
  <2> TAKE p \in Nat
  <2>1. CASE p = 0
    BY <2>1, <1>2, <1>3
  <2>2. CASE p # 0
    BY <2>2, <1>1, <1>3
  <2> QED BY <2>1, <2>2
<1>5. \A p \in Nat \ {0} : PerPage(d, p) = PerPage(d, 1)
  BY <1>1 DEF PerPage
<1>6. PerPage(d, 0) \in Nat \ {0} /\ PerPage(d, 1) \in Nat \ {0}
  <2>1. \A a, b \in Nat \ {0} : a * b \in Nat \ {0}
    BY SMT
  <2>2. PerPage(d, 0) = Columns(d) * Rows(d, TRUE)
    BY <1>2 DEF PerPage
  <2>3. PerPage(d, 1) = Columns(d) * Rows(d, UsesFirst(d, 1))
    BY DEF PerPage
  <2> QED BY <1>3, <2>1, <2>2, <2>3
<1>7. ExtraSlots(d) \in {0, 1} /\ FirstCount(d) = PerPage(d, 0) + ExtraSlots(d)
  BY DEF ExtraSlots, FirstCount
<1>8. FirstCount(d) \in Nat \ {0}
  BY <1>6, <1>7
<1> QED BY <1>3, <1>4, <1>5, <1>6, <1>7, <1>8

LEMMA FrameStarts ==
    ASSUME NEW d, Printable(d), ShowsQr(d), Roomy(d)
    PROVE  /\ FrameStart(d, 0) = 0
           /\ \A p \in Nat : FrameStart(d, p) \in Nat
           /\ \A p \in Nat : FrameStart(d, p + 1) = FrameStart(d, p) + (IF p = 0 THEN FirstCount(d) ELSE PerPage(d, 1))
           /\ \A p, q \in Nat : p <= q => FrameStart(d, p) <= FrameStart(d, q)
<1> DEFINE each == PerPage(d, 1)
           first == FirstCount(d)
<1>1. each \in Nat \ {0} /\ first \in Nat \ {0}
  BY FrameCounts
<1>2. \A p \in Nat : FrameStart(d, p) = IF p = 0 THEN 0 ELSE first + (p - 1) * each
  BY DEF FrameStart
<1> HIDE DEF each, first
<1>3. ASSUME NEW p \in Nat PROVE FrameStart(d, p) \in Nat
  <2>1. p # 0 => (p - 1) * each \in Nat
    BY <1>1, SMT
  <2> QED BY <1>1, <1>2, <2>1
<1>4. ASSUME NEW p \in Nat
      PROVE  FrameStart(d, p + 1) = FrameStart(d, p) + (IF p = 0 THEN first ELSE each)
  <2>1. FrameStart(d, p + 1) = first + p * each
    BY <1>2
  <2>2. p * each = (p - 1) * each + each /\ (p - 1) * each \in Int /\ 0 * each = 0
    BY <1>1, SMT
  <2> QED BY <1>1, <1>2, <2>1, <2>2
<1>5. ASSUME NEW p \in Nat, NEW q \in Nat, p <= q PROVE FrameStart(d, p) <= FrameStart(d, q)
  <2>1. CASE p = 0
    BY <2>1, <1>2, <1>3
  <2>2. CASE p # 0
    <3>1. (p - 1) * each <= (q - 1) * each
      BY <1>1, <1>5, <2>2, Times
    <3>2. (p - 1) * each \in Int /\ (q - 1) * each \in Int
      BY <1>1
    <3> QED BY <1>1, <1>2, <1>5, <2>2, <3>1, <3>2
  <2> QED BY <2>1, <2>2
<1> QED BY <1>2, <1>3, <1>4, <1>5 DEF each, first

(* What a page shows: the first code again, or the codes from FrameStart on that it has room  *)
(* for.                                                                                       *)
LEMMA QrsOnPage ==
    ASSUME NEW d, Printable(d), ShowsQr(d), Roomy(d), NEW p \in Nat
    PROVE  LET x == QrsOn(d, p) IN
           /\ x.repeated => /\ x.from = 1 /\ x.to = 1
                            /\ Repeats(d, p) /\ d.qrs <= FrameStart(d, p)
           /\ ~x.repeated =>
                /\ ~Repeats(d, p)
                /\ x.from = FrameStart(d, p) + 1 /\ x.to \in Int /\ x.to <= FrameStart(d, p + 1)
                /\ x.from <= x.to => x.to <= d.qrs
                /\ \A q \in 1..d.qrs : FrameStart(d, p) < q /\ q <= FrameStart(d, p + 1) => q <= x.to
<1> DEFINE x == QrsOn(d, p)
           start == FrameStart(d, p)
           next == FrameStart(d, p + 1)
           rest == FramesLeft(d, p)
<1>0. d.qrs \in Nat \ {0}
  BY DEF Printable
<1>1. start \in Nat /\ next \in Nat /\ next = start + (IF p = 0 THEN FirstCount(d) ELSE PerPage(d, 1))
  BY FrameStarts
<1>2. /\ PerPage(d, p) \in Nat \ {0} /\ ExtraSlots(d) \in {0, 1} /\ FirstCount(d) = PerPage(d, 0) + ExtraSlots(d)
      /\ p # 0 => PerPage(d, p) = PerPage(d, 1)
  BY FrameCounts
<1>3. rest \in Nat /\ rest = (IF d.qrs > start THEN d.qrs - start ELSE 0)
  BY <1>0, <1>1 DEF FramesLeft, Larger
<1>4. Repeats(d, p) \in BOOLEAN /\ (Repeats(d, p) => rest = 0)
  BY DEF Repeats
<1>5. x = [from |-> (IF Repeats(d, p) THEN 0 ELSE start) + 1,
           to |-> (IF Repeats(d, p) THEN 0 ELSE start) + InGrid(d, p) + BesideGrid(d, p),
           repeated |-> Repeats(d, p)]
  BY DEF QrsOn
<1>6. CASE Repeats(d, p)
  <2>1. rest = 0 /\ d.qrs <= start
    BY <1>0, <1>1, <1>3, <1>4, <1>6
  <2>2. p # 0
    <3>1. p = 0 => start = 0
      BY FrameStarts
    <3> QED BY <3>1, <2>1, <1>0
  <2>3. InGrid(d, p) = 1 /\ BesideGrid(d, p) = 0
    BY <1>6, <2>2 DEF InGrid, BesideGrid
  <2>4. x.from = 1 /\ x.to = 1 /\ x.repeated = Repeats(d, p)
    BY <1>5, <1>6, <2>3
  <2> QED BY <1>6, <2>1, <2>4
<1>7. CASE ~Repeats(d, p)
  <2>1. InGrid(d, p) = Smaller(PerPage(d, p), rest)
    BY <1>7 DEF InGrid
  <2>2. InGrid(d, p) \in Nat /\ InGrid(d, p) = IF PerPage(d, p) < rest THEN PerPage(d, p) ELSE rest
    BY <1>2, <1>3, <2>1 DEF Smaller
  <2>3. BesideGrid(d, p) = IF p = 0 /\ ExtraSlots(d) = 1 /\ rest > InGrid(d, p) THEN 1 ELSE 0
    BY <1>2, <1>3, <2>2 DEF BesideGrid, Smaller, Larger
  <2>4. x.from = start + 1 /\ x.to = start + InGrid(d, p) + BesideGrid(d, p) /\ ~x.repeated
    BY <1>5, <1>7
  <2>5. BesideGrid(d, p) \in {0, 1}
    BY <2>3
  <2> HIDE DEF x, start, next, rest
  <2>6. CASE p = 0
    BY <2>6, <1>0, <1>1, <1>2, <1>3, <1>7, <2>2, <2>3, <2>4, <2>5 DEF x, start, next
  <2>7. CASE p # 0
    <3>1. next = start + PerPage(d, p) /\ BesideGrid(d, p) = 0
      BY <1>1, <1>2, <2>3, <2>7
    <3> QED BY <3>1, <1>0, <1>1, <1>2, <1>3, <1>7, <2>2, <2>4 DEF x, start, next
  <2> QED BY <2>6, <2>7
<1> QED BY <1>4, <1>6, <1>7

\* The pages that were estimated are enough for the codes: each is between two starts.
LEMMA TotalType ==
    ASSUME NEW d, Printable(d), Roomy(d)
    PROVE  /\ TotalPages(d) \in Nat \ {0}
           /\ ShowsQr(d) => Spread(d.qrs, FirstCount(d), PerPage(d, 1)) \in Int
                            /\ Spread(d.qrs, FirstCount(d), PerPage(d, 1)) <= TotalPages(d)
<1>1. \A n \in Int, a \in Int, b \in Nat \ {0} : Spread(n, a, b) \in Nat \ {0}
  <2> SUFFICES ASSUME NEW n \in Int, NEW a \in Int, NEW b \in Nat \ {0} PROVE Spread(n, a, b) \in Nat \ {0}
    OBVIOUS
  <2>1. n > a => Ceil(n - a, b) \in Int /\ Ceil(n - a, b) > 0
    BY CeilFits
  <2> QED BY <2>1 DEF Spread
<1> DEFINE byCodes == IF ShowsQr(d) THEN Spread(d.qrs, FirstCount(d), PerPage(d, 1)) ELSE 1
           byText == IF ShowsText(d) THEN Spread(TextLines(d), EstimatedLines(d, 0), EstimatedLines(d, 1)) ELSE 1
<1>2. byCodes \in Nat \ {0}
  <2>1. CASE ShowsQr(d)
    <3>1. d.qrs \in Int /\ FirstCount(d) \in Int /\ PerPage(d, 1) \in Nat \ {0}
      <4>1. d.qrs \in Int
        BY DEF Printable
      <4> QED BY <2>1, <4>1, FrameCounts
    <3> QED BY <2>1, <3>1, <1>1
  <2> QED BY <2>1
<1>3. byText \in Nat \ {0}
  <2>1. CASE ShowsText(d)
    <3>1. HasRoom(d, TRUE)
      BY DEF Roomy
    <3>2. EstimatedLines(d, 0) \in Nat \ {0} /\ EstimatedLines(d, 1) \in Nat \ {0}
      BY <2>1, <3>1, LinesType
    <3>3. TextLines(d) \in Int
      <4> DEFINE title == IF Titled(d) THEN 1 ELSE 0
                 h(i) == Ceil(d.texts[i], LayoutGroups(d, TRUE)) + title
                 n == Len(d.texts)
                 s == [i \in 1..n |-> h(i)]
                 more == IF Titled(d) THEN n - 1 ELSE 0
      <4>1. LayoutGroups(d, TRUE) \in Nat \ {0}
        <5>1. d.style.groups[d.kind] \in Nat /\ d.style.quorumlessGroups \in Nat /\ d.groups.first \in Nat \ {0}
          BY <2>1 DEF ShowsText, Printable
        <5> QED BY <5>1 DEF LayoutGroups, GroupBonus
      <4>2. d.texts \in Seq(Nat \ {0})
        BY DEF Printable
      <4>3. title \in Int /\ n \in Nat /\ more \in Int
        BY <4>2
      <4>4. TextLines(d) = SumOf(s) + more
        BY DEF TextLines
      <4> HIDE DEF title, n, more
      <4>5. \A i \in 1..n : h(i) \in Int
        <5> TAKE i \in 1..n
        <5>1. d.texts[i] \in Int
          BY <4>2 DEF n
        <5>2. Ceil(d.texts[i], LayoutGroups(d, TRUE)) \in Int
          BY <4>1, <5>1, CeilType
        <5> DEFINE c == Ceil(d.texts[i], LayoutGroups(d, TRUE))
        <5>3. c \in Int
          BY <5>2
        <5> HIDE DEF c
        <5>4. c + title \in Int
          BY <4>3, <5>3
        <5> QED BY <5>4, Zenon DEF c
      <4> HIDE DEF h
      <4>6. s \in [1..n -> Int]
        BY <4>5
      <4> HIDE DEF s
      <4>7. s \in Seq(Int)
        BY <4>3, <4>6
      <4>8. SumOf(s) \in Int
        BY <4>7, SumType
      <4> QED BY <4>3, <4>4, <4>8
    <3>4. EstimatedLines(d, 0) \in Int
      BY <3>2
    <3>5. Spread(TextLines(d), EstimatedLines(d, 0), EstimatedLines(d, 1)) \in Nat \ {0}
      BY <3>2, <3>3, <3>4, <1>1, Zenon
    <3> QED BY <2>1, <3>5
  <2> QED BY <2>1
<1>4. TotalPages(d) = Larger(byCodes, byText)
  BY DEF TotalPages
<1> HIDE DEF byCodes, byText
<1>5. TotalPages(d) \in Nat \ {0} /\ byCodes <= TotalPages(d)
  BY <1>2, <1>3, <1>4 DEF Larger
<1> QED BY <1>2, <1>5 DEF byCodes

LEMMA EveryCodeHasAPage ==
    ASSUME NEW d, Printable(d), ShowsQr(d), Roomy(d), NEW q \in 1..d.qrs
    PROVE  \E p \in 0..(TotalPages(d) - 1) : FrameStart(d, p) < q /\ q <= FrameStart(d, p + 1)
<1> DEFINE each == PerPage(d, 1)
           first == FirstCount(d)
<1>1. each \in Nat \ {0} /\ first \in Nat \ {0} /\ d.qrs \in Nat \ {0}
  <2>1. d.qrs \in Nat \ {0}
    BY DEF Printable
  <2> QED BY <2>1, FrameCounts
<1>2. TotalPages(d) \in Nat \ {0} /\ Spread(d.qrs, first, each) <= TotalPages(d)
  BY TotalType
<1>3. CASE q <= first
  <2>1. FrameStart(d, 0) = 0 /\ FrameStart(d, 0 + 1) = FrameStart(d, 0) + first
    BY FrameStarts
  <2>2. 0 \in 0..(TotalPages(d) - 1)
    BY <1>2
  <2>3. 0 < q
    OBVIOUS
  <2> HIDE DEF first
  <2>4. FrameStart(d, 0) < q /\ q <= FrameStart(d, 0 + 1)
    BY <1>1, <1>3, <2>1, <2>3
  <2> QED BY <2>2, <2>4
<1>4. CASE q > first
  <2> DEFINE p == Ceil(q - first, each)
             all == Ceil(d.qrs - first, each)
  <2>0. q - first \in Int /\ d.qrs - first \in Int
    BY <1>1
  <2>13. q - first > 0
    BY <1>1, <1>4
  <2>1. p \in Int /\ p > 0 /\ q - first <= p * each
    <3> HIDE DEF each, first
    <3> QED BY <1>1, <2>0, <2>13, CeilFits
  <2>2. (p - 1) * each < q - first
    <3>1. \A m \in Int : q - first <= m * each => p <= m
      <4> HIDE DEF each, first
      <4> QED BY <1>1, <2>0, CeilFits
    <3>2. (p - 1) * each \in Int /\ p - 1 \in Int
      BY <1>1, <2>1
    <3> HIDE DEF p, each, first
    <3> QED BY <2>0, <2>1, <3>1, <3>2
  <2>3. all \in Int /\ d.qrs - first <= all * each
    BY <1>1, <2>0, CeilFits
  <2>4. q - first <= all * each
    <3>1. all * each \in Int
      BY <1>1, <2>3
    <3> HIDE DEF all
    <3> QED BY <1>1, <2>0, <2>3, <3>1
  <2>5. p <= all
    BY <1>1, <2>0, <2>3, <2>4, CeilFits
  <2>6. Spread(d.qrs, first, each) = 1 + all
    BY <1>1, <1>4 DEF Spread
  <2>7. FrameStart(d, p) = first + (p - 1) * each
    BY <2>1 DEF FrameStart
  <2>8. FrameStart(d, p + 1) = first + p * each
    <3>1. FrameStart(d, p + 1) = first + (p + 1 - 1) * each
      BY <2>1 DEF FrameStart
    <3> HIDE DEF p
    <3>2. p + 1 - 1 = p
      BY <2>1
    <3> QED BY <3>1, <3>2
  <2> HIDE DEF p, all
  <2>9. (p - 1) * each \in Int /\ p * each \in Int
    BY <1>1, <2>1
  <2> HIDE DEF each, first
  <2>10. FrameStart(d, p) < q /\ q <= FrameStart(d, p + 1)
    BY <1>1, <2>1, <2>2, <2>7, <2>8, <2>9
  <2>11. p \in 0..(TotalPages(d) - 1)
    BY <1>2, <2>1, <2>3, <2>5, <2>6
  <2> QED BY <2>10, <2>11
<1> QED BY <1>1, <1>3, <1>4

\* The grid of a page has no more rows than its layout.
LEMMA GridRowsFit ==
    ASSUME NEW d, Printable(d), ShowsQr(d), Roomy(d), NEW p \in Nat
    PROVE  Top(d, UsesFirst(d, p)) + GridRows(d, p) * d.sheet.qr <= d.sheet.height - d.sheet.margin
<1> DEFINE rows == Rows(d, UsesFirst(d, p))
<1>1. rows \in Nat \ {0} /\ Columns(d) \in Nat \ {0}
  BY FrameCounts
<1>2. UsesFirst(d, p) \in BOOLEAN
  BY DEF UsesFirst
<1>3. /\ Top(d, UsesFirst(d, p)) \in Int
      /\ Top(d, UsesFirst(d, p)) + rows * d.sheet.qr <= d.sheet.height - d.sheet.margin
  BY <1>1, <1>2, GridType
<1>4. PerPage(d, p) = Columns(d) * rows
  BY DEF PerPage
<1>5. InGrid(d, p) \in Int /\ FramesLeft(d, p) \in Int
  BY FramesType
<1> HIDE DEF rows
<1>6. PerPage(d, p) = rows * Columns(d) /\ PerPage(d, p) \in Nat \ {0}
  <2>1. \A a, b \in Nat \ {0} : a * b \in Nat \ {0} /\ a * b = b * a
    BY SMT
  <2> QED BY <1>1, <1>4, <2>1
<1>7. InGrid(d, p) <= rows * Columns(d)
  BY <1>1, <1>5, <1>6 DEF InGrid, Smaller
<1>8. GridRows(d, p) = Ceil(InGrid(d, p), Columns(d))
  BY DEF GridRows
<1>9. GridRows(d, p) \in Int /\ GridRows(d, p) <= rows
  <2>1. \A m \in Int : InGrid(d, p) <= m * Columns(d) => Ceil(InGrid(d, p), Columns(d)) <= m
    BY <1>1, <1>5, CeilFits
  <2>2. Ceil(InGrid(d, p), Columns(d)) \in Int
    BY <1>1, <1>5, CeilFits
  <2> QED BY <1>1, <1>7, <1>8, <2>1, <2>2
<1>10. d.sheet.qr \in Nat /\ d.sheet.height \in Nat /\ d.sheet.margin \in Nat
  BY DEF Printable
<1>11. GridRows(d, p) * d.sheet.qr <= rows * d.sheet.qr
  BY <1>1, <1>9, <1>10, Times
<1>12. GridRows(d, p) * d.sheet.qr \in Int /\ rows * d.sheet.qr \in Int
  BY <1>1, <1>9, <1>10
<1> QED BY <1>3, <1>10, <1>11, <1>12 DEF rows

-----------------------------------------------------------------------------
(* The text of a document: an inductive invariant. *)

Sheets == [qrs : [from : Int, to : Int, repeated : BOOLEAN], instructions : BOOLEAN]

Blocks == [page : Nat, section : Nat \ {0}, titled : BOOLEAN, gap : {0, 1},
           from : Nat, to : Nat, offset : Int, lines : Int]

Sections == 1..Len(doc.texts)

\* The cursor is at a token that there is, or behind the last section.
CursorFits ==
    /\ cursor \in [section : 1..(Len(doc.texts) + 1), token : Nat]
    /\ cursor.section \in Sections => cursor.token < doc.texts[cursor.section]
    /\ cursor.section \notin Sections => cursor.token = 0

\* No line is counted of what the cursor has not reached.
FreshLines ==
    \A i \in Sections :
      (i > cursor.section \/ (i = cursor.section /\ cursor.token = 0)) => lines[i] = 0

\* The cursor stands where the block b ends.
StandsAfter(b) ==
    \/ cursor.token = 0 /\ cursor.section = b.section + 1 /\ b.to = doc.texts[b.section]
    \/ /\ cursor.token # 0 /\ cursor.section = b.section /\ cursor.token = b.to
       /\ lines[cursor.section] = b.offset + b.lines

Resumes ==
    /\ blocks = <<>> => cursor.section = 1 /\ cursor.token = 0
    /\ blocks # <<>> => StandsAfter(blocks[Len(blocks)])

\* The next block comes on the last page begun, or on a later one.
PagesGrow ==
    phase \in {"idle", "page", "text"} =>
      /\ pages \in Seq(Sheets)
      /\ \A k \in 1..Len(blocks) : blocks[k].page <= Len(pages)

PagesTypeOK ==
    /\ Printable(doc)
    /\ phase \in {"idle", "page", "text", "printed", "refused"}
    /\ left \in Int
    /\ blocks \in Seq(Blocks)
    /\ lines \in [Sections -> Int]

TextInv ==
    /\ PagesTypeOK
    /\ phase \in {"page", "text"} => HasRoom(doc, TRUE)
    /\ CursorFits
    /\ FreshLines
    /\ Resumes
    /\ PagesGrow
    /\ phase = "printed" => ~TextRemains
    /\ TextRunsOn

-----------------------------------------------------------------------------
(* The steps. *)

\* A document that has not been begun.
PagesStart == Printable(doc) /\ PagesInit(doc)

LEMMA TextStarts == PagesStart => TextInv
<1> SUFFICES ASSUME PagesStart PROVE TextInv
  OBVIOUS
<1>1. Printable(doc) /\ doc.texts \in Seq(Nat \ {0})
  BY DEF Printable, PagesStart
<1>2. Len(doc.texts) \in Nat /\ \A i \in Sections : doc.texts[i] \in Nat \ {0}
  BY <1>1 DEF Sections
<1>3. PagesTypeOK
  BY <1>1 DEF PagesStart, PagesInit, PagesTypeOK, Sections
<1>4. CursorFits /\ FreshLines
  BY <1>2 DEF PagesStart, PagesInit, CursorFits, FreshLines, Sections
<1>5. Resumes /\ PagesGrow /\ TextRunsOn
  BY DEF PagesStart, PagesInit, Resumes, PagesGrow, TextRunsOn
<1> QED BY <1>3, <1>4, <1>5 DEF TextInv, PagesStart, PagesInit

LEMMA BlockType ==
    ASSUME PagesTypeOK
    PROVE  /\ Len(blocks) \in Nat
           /\ \A k \in 1..Len(blocks) : blocks[k] \in Blocks
           /\ \A k \in 1..Len(blocks) : blocks[k].page \in Nat /\ blocks[k].section \in Nat \ {0}
           /\ blocks # <<>> => Len(blocks) \in 1..Len(blocks)
<1>1. blocks \in Seq(Blocks)
  BY DEF PagesTypeOK
<1>2. \A k \in 1..Len(blocks) : blocks[k] \in Blocks
  BY <1>1
<1>3. \A b \in Blocks : b.page \in Nat /\ b.section \in Nat \ {0}
  BY DEF Blocks
<1> QED BY <1>1, <1>2, <1>3

(* A step that leaves the text alone.  It may begin a page, refuse or end the document. *)
LEMMA TextKept ==
    ASSUME TextInv, UNCHANGED <<doc, blocks, cursor, lines>>,
           phase' \in {"page", "text", "refused", "printed"}, left' \in Int,
           phase' \in {"page", "text"} => HasRoom(doc, TRUE),
           phase' # "printed" => pages' \in Seq(Sheets) /\ Len(pages') >= Len(pages),
           phase \in {"idle", "page", "text"},
           phase' = "printed" => ~TextRemains
    PROVE  TextInv'
<1>1. PagesTypeOK'
  BY DEF TextInv, PagesTypeOK, Sections
<1>2. CursorFits' /\ FreshLines'
  BY DEF TextInv, CursorFits, FreshLines, Sections
<1>3. Resumes'
  BY DEF TextInv, Resumes, StandsAfter
<1>4. PagesGrow'
  <2> SUFFICES ASSUME phase' \in {"page", "text"}, NEW k \in 1..Len(blocks)
               PROVE  pages' \in Seq(Sheets) /\ blocks[k].page <= Len(pages')
    BY DEF PagesGrow
  <2>1. blocks[k].page <= Len(pages) /\ Len(pages) \in Nat
    BY DEF TextInv, PagesGrow
  <2>3. blocks[k].page \in Nat
    BY BlockType DEF TextInv
  <2>2. Len(pages') \in Nat
    OBVIOUS
  <2> QED BY <2>1, <2>2, <2>3
<1>5. TextRemains' = TextRemains
  BY DEF TextRemains
<1>6. TextRunsOn'
  <2>1. \A k \in 1..(Len(blocks) - 1) : Follows(blocks[k], blocks[k + 1])'
    <3>1. \A k \in 1..(Len(blocks) - 1) : Follows(blocks[k], blocks[k + 1])
      BY DEF TextInv, TextRunsOn
    <3> QED BY <3>1 DEF Follows, Titled
  <2>2. ASSUME phase' = "printed", ShowsText(doc)
        PROVE  /\ blocks # <<>>
               /\ blocks[Len(blocks)].section = Len(doc.texts)
               /\ blocks[Len(blocks)].to = doc.texts[Len(doc.texts)]
    <3>1. cursor.section > Len(doc.texts)
      BY <2>2 DEF TextRemains, TextInv, CursorFits
    <3>2. Len(doc.texts) \in Nat /\ Len(doc.texts) # 0
      BY <2>2 DEF Printable, TextInv, PagesTypeOK
    <3>3. cursor.section = Len(doc.texts) + 1 /\ cursor.token = 0
      BY <3>1, <3>2 DEF TextInv, CursorFits, Sections
    <3>4. blocks # <<>>
      BY <3>2, <3>3 DEF TextInv, Resumes
    <3>5. StandsAfter(blocks[Len(blocks)])
      BY <3>4 DEF TextInv, Resumes
    <3>6. blocks[Len(blocks)].section \in Nat
      BY <3>4, BlockType DEF TextInv
    <3> QED BY <3>2, <3>3, <3>4, <3>5, <3>6 DEF StandsAfter
  <2>3. blocks # <<>> => /\ blocks[1].section = 1 /\ blocks[1].from = 1 /\ blocks[1].offset = 0
                          /\ (blocks[1].titled = Titled(doc))'
    BY DEF TextInv, TextRunsOn, Titled
  <2> QED BY <2>1, <2>2, <2>3 DEF TextRunsOn
<1>7. phase' = "printed" => ~TextRemains'
  BY <1>5
<1>8. (phase \in {"page", "text"} => HasRoom(doc, TRUE))'
  BY DEF HasRoom
<1> QED BY <1>1, <1>2, <1>3, <1>4, <1>6, <1>7, <1>8 DEF TextInv

LEMMA LayOutKeepsText == TextInv /\ LayOut => TextInv'
<1> SUFFICES ASSUME TextInv, LayOut PROVE TextInv'
  OBVIOUS
<1>1. phase' = "page" => HasRoom(doc, TRUE)
  BY DEF LayOut
<1>2. pages' \in Seq(Sheets) /\ Len(pages') >= Len(pages)
  BY DEF TextInv, PagesGrow, LayOut
<1>3. left' \in Int
  BY DEF TextInv, PagesTypeOK, LayOut
<1> QED BY <1>1, <1>2, <1>3, TextKept DEF LayOut

LEMMA BeginPageKeepsText == TextInv /\ BeginPage => TextInv'
<1> SUFFICES ASSUME TextInv, BeginPage PROVE TextInv'
  OBVIOUS
<1> DEFINE page == Len(pages)
<1>1. Printable(doc) /\ phase = "page" /\ HasRoom(doc, TRUE) /\ pages \in Seq(Sheets)
  BY DEF TextInv, PagesTypeOK, PagesGrow, BeginPage
<1>2. page \in Nat
  BY <1>1
<1>3. [qrs |-> QrsOn(doc, page), instructions |-> ShowsInstructions(doc, page)] \in Sheets
  BY <1>1, <1>2, QrsType DEF Sheets, ShowsInstructions
<1>4. pages' \in Seq(Sheets) /\ Len(pages') >= Len(pages)
  BY <1>1, <1>3 DEF BeginPage
<1>5. left' \in Int
  <2>1. CASE TextRemains /\ PageCapacity(doc, page) > 0
    <3>1. ShowsText(doc)
      BY <2>1 DEF TextRemains
    <3>2. SectionCapacity(doc, page, cursor.section, cursor.token) \in Int
      BY <1>1, <1>2, <3>1, SectionType
    <3>3. LineCapacity(doc, page) \in Int
      BY <1>1, <1>2, <3>1, LinesType
    <3>4. left' = IF Titled(doc) THEN SectionCapacity(doc, page, cursor.section, cursor.token)
                  ELSE LineCapacity(doc, page)
      <4>1. PageCapacity(doc, page) \in Int
        BY <1>1, <1>2, <3>1, LinesType
      <4> QED BY <2>1, <4>1 DEF BeginPage
    <3> QED BY <3>2, <3>3, <3>4
  <2>2. CASE ~(TextRemains /\ PageCapacity(doc, page) > 0)
    BY <2>2 DEF BeginPage, TextInv, PagesTypeOK
  <2> QED BY <2>1, <2>2
<1>6. phase' \in {"page", "text", "refused"}
  BY <1>1 DEF BeginPage
<1> QED BY <1>1, <1>4, <1>5, <1>6, TextKept DEF BeginPage

LEMMA EndTextKeepsText == TextInv /\ EndText => TextInv'
<1> SUFFICES ASSUME TextInv, EndText PROVE TextInv'
  OBVIOUS
<1>1. phase = "text" /\ phase' \in {"page", "refused"}
  BY DEF EndText
<1>2. HasRoom(doc, TRUE) /\ left' \in Int
  BY <1>1 DEF TextInv, PagesTypeOK, EndText
<1>3. pages' \in Seq(Sheets) /\ Len(pages') >= Len(pages)
  BY <1>1 DEF TextInv, PagesGrow, EndText
<1> QED BY <1>1, <1>2, <1>3, TextKept DEF EndText

LEMMA FinishPagesKeepsText == TextInv /\ FinishPages => TextInv'
<1> SUFFICES ASSUME TextInv, FinishPages PROVE TextInv'
  OBVIOUS
<1>1. phase = "page" /\ phase' = "printed" /\ ~TextRemains /\ UNCHANGED <<doc, blocks, cursor, lines, left>>
  BY DEF FinishPages
<1>2. left' \in Int
  BY <1>1 DEF TextInv, PagesTypeOK
<1> QED BY <1>1, <1>2, TextKept

(* A block takes the lines that are left, of the section the cursor is in. *)
LEMMA PlaceBlockKeepsText == TextInv /\ PlaceBlock => TextInv'
<1> SUFFICES ASSUME TextInv, PlaceBlock PROVE TextInv'
  OBVIOUS
<1> DEFINE section == cursor.section
           token == cursor.token
           tokens == doc.texts[section]
           groups == Groups(doc, Len(pages) - 1)
           to == Smaller(tokens, token + Room * groups)
           used == Ceil(to - token, groups)
           block == [page |-> Len(pages), section |-> section, titled |-> Title = 1,
                     gap |-> Gap, from |-> token + 1, to |-> to,
                     offset |-> lines[section], lines |-> used]
<1>1. /\ phase = "text" /\ TextRemains /\ ShowsText(doc) /\ Room > 0
      /\ blocks' = Append(blocks, block)
      /\ lines' = Advanced(section, used)
      /\ left' = Room - used
      /\ cursor' = IF to = tokens THEN [section |-> section + 1, token |-> 0]
                   ELSE [cursor EXCEPT !.token = to]
      /\ UNCHANGED <<doc, phase, total, pages>>
  BY DEF PlaceBlock, Placeable, TextRemains
<1>2. Printable(doc) /\ left \in Int /\ lines \in [Sections -> Int]
  BY DEF TextInv, PagesTypeOK
<1>3. section \in Sections /\ Len(doc.texts) \in Nat /\ token \in Nat /\ tokens \in Nat \ {0} /\ token < tokens
  <2>1. doc.texts \in Seq(Nat \ {0})
    BY <1>2 DEF Printable
  <2>2. section \in 1..(Len(doc.texts) + 1) /\ token \in Nat /\ section <= Len(doc.texts)
    BY <1>1 DEF TextInv, CursorFits, TextRemains
  <2>3. section \in Sections /\ Len(doc.texts) \in Nat
    BY <2>1, <2>2 DEF Sections
  <2> QED BY <2>1, <2>2, <2>3 DEF TextInv, CursorFits, Sections
<1>4. groups \in Nat \ {0}
  BY <1>1, <1>2, GroupsType
<1>5. Gap \in {0, 1} /\ Title \in {0, 1} /\ (Title = 1 <=> Titled(doc) /\ token = 0)
  BY DEF Gap, Title
<1>6. Room \in Nat \ {0}
  BY <1>1, <1>2, <1>5 DEF Room
<1>7. to \in Nat /\ token < to /\ to <= tokens
  <2>1. Room * groups \in Nat \ {0}
    BY <1>4, <1>6
  <2> HIDE DEF groups
  <2> QED BY <2>1, <1>3 DEF Smaller
<1>8. used \in Int
  <2>1. to - token \in Int
    BY <1>3, <1>7
  <2> HIDE DEF to, groups
  <2> QED BY <2>1, <1>4, CeilType
<1> HIDE DEF to, used, groups
<1>9. pages \in Seq(Sheets) /\ Len(pages) \in Nat
  BY <1>1 DEF TextInv, PagesGrow
<1>10. block \in Blocks
  BY <1>2, <1>3, <1>5, <1>7, <1>8, <1>9 DEF Blocks, Sections
<1> HIDE DEF block
<1>11. /\ blocks \in Seq(Blocks) /\ Len(blocks) \in Nat
       /\ blocks' \in Seq(Blocks) /\ Len(blocks') = Len(blocks) + 1 /\ blocks' # <<>>
       /\ blocks'[Len(blocks) + 1] = block
       /\ \A k \in 1..Len(blocks) : blocks'[k] = blocks[k]
  BY <1>1, <1>10 DEF TextInv, PagesTypeOK
<1>12. /\ lines' \in [Sections -> Int]
       /\ lines'[section] = lines[section] + used
       /\ \A i \in Sections \ {section} : lines'[i] = lines[i]
  BY <1>1, <1>2, <1>3, <1>8 DEF Advanced
<1>13. Sections' = Sections /\ doc' = doc
  BY <1>1 DEF Sections
<1>14. PagesTypeOK'
  BY <1>1, <1>2, <1>6, <1>8, <1>11, <1>12, <1>13 DEF PagesTypeOK
<1>15. /\ to = tokens => cursor'.section = section + 1 /\ cursor'.token = 0
       /\ to # tokens => cursor'.section = section /\ cursor'.token = to
       /\ cursor' \in [section : 1..(Len(doc.texts) + 1), token : Nat]
  <2>1. cursor \in [section : 1..(Len(doc.texts) + 1), token : Nat]
    BY DEF TextInv, CursorFits
  <2> QED BY <1>1, <1>3, <1>7, <2>1 DEF Sections
<1>16. CursorFits'
  <2>1. CASE to = tokens
    <3>1. doc.texts \in Seq(Nat \ {0})
      BY <1>2 DEF Printable
    <3>2. section + 1 \in Sections => 0 < doc.texts[section + 1]
      BY <3>1 DEF Sections
    <3> QED BY <2>1, <3>2, <1>13, <1>15 DEF CursorFits
  <2>2. CASE to # tokens
    BY <2>2, <1>3, <1>7, <1>13, <1>15 DEF CursorFits
  <2> QED BY <2>1, <2>2
<1>17. FreshLines'
  <2> SUFFICES ASSUME NEW i \in Sections,
                      i > cursor'.section \/ (i = cursor'.section /\ cursor'.token = 0)
               PROVE  lines'[i] = 0
    BY <1>13 DEF FreshLines
  <2>1. i > section
    BY <1>3, <1>7, <1>15 DEF Sections
  <2>2. lines[i] = 0
    BY <2>1 DEF TextInv, FreshLines
  <2>3. i # section
    BY <2>1, <1>3 DEF Sections
  <2> QED BY <2>2, <2>3, <1>12
<1>18. block.section = section /\ block.to = to /\ block.from = token + 1 /\ block.page = Len(pages)
       /\ block.offset = lines[section] /\ block.lines = used /\ block.titled = (Title = 1)
  BY DEF block
<1>19. Resumes'
  <2>1. blocks'[Len(blocks')] = block
    BY <1>11
  <2>2. StandsAfter(blocks[Len(blocks)])'
    <3>1. CASE to = tokens
      BY <3>1, <2>1, <1>13, <1>15, <1>18 DEF StandsAfter
    <3>2. CASE to # tokens
      <4>1. cursor'.token # 0 /\ cursor'.section = section /\ cursor'.token = to
        BY <3>2, <1>3, <1>7, <1>15
      <4> QED BY <4>1, <2>1, <1>12, <1>18 DEF StandsAfter
    <3> QED BY <3>1, <3>2
  <2> QED BY <2>2, <1>11 DEF Resumes
<1>20. PagesGrow'
  BY <1>1, <1>9, <1>11, <1>18 DEF TextInv, PagesGrow
<1>21. TextRunsOn'
  <2>1. ASSUME blocks = <<>>
        PROVE  block.section = 1 /\ block.from = 1 /\ block.offset = 0 /\ block.titled = Titled(doc)
    <3>1. section = 1 /\ token = 0
      BY <2>1 DEF TextInv, Resumes
    <3>2. lines[section] = 0
      BY <3>1, <1>3 DEF TextInv, FreshLines
    <3> QED BY <3>1, <3>2, <1>5, <1>18 DEF Titled
  <2>2. ASSUME blocks # <<>>
        PROVE  Follows(blocks[Len(blocks)], block)
    <3> DEFINE b == blocks[Len(blocks)]
    <3>1. StandsAfter(b)
      BY <2>2 DEF TextInv, Resumes
    <3>2. b.page <= Len(pages)
      BY <2>2, <1>1, <1>11 DEF TextInv, PagesGrow
    <3> HIDE DEF b
    <3>3. CASE token = 0
      <4>1. lines[section] = 0
        BY <3>3, <1>3 DEF TextInv, FreshLines
      <4> QED BY <3>1, <3>2, <3>3, <4>1, <1>5, <1>18 DEF Follows, StandsAfter, Titled, b
    <3>4. CASE token # 0
      BY <3>1, <3>2, <3>4, <1>5, <1>18 DEF Follows, StandsAfter, b
    <3> QED BY <3>3, <3>4
  <2>3. \A k \in 1..Len(blocks) : Follows(blocks'[k], blocks'[k + 1])
    <3> SUFFICES ASSUME NEW k \in 1..Len(blocks) PROVE Follows(blocks'[k], blocks'[k + 1])
      OBVIOUS
    <3>1. CASE k = Len(blocks)
      BY <3>1, <2>2, <1>11
    <3>2. CASE k # Len(blocks)
      <4>1. k \in 1..(Len(blocks) - 1) /\ k + 1 \in 1..Len(blocks)
        BY <3>2, <1>11
      <4>2. Follows(blocks[k], blocks[k + 1])
        BY <4>1 DEF TextInv, TextRunsOn
      <4> QED BY <4>1, <4>2, <1>11
    <3> QED BY <3>1, <3>2
  <2>4. /\ blocks'[1].section = 1 /\ blocks'[1].from = 1 /\ blocks'[1].offset = 0
        /\ blocks'[1].titled = Titled(doc)
    <3>1. CASE blocks = <<>>
      BY <3>1, <2>1, <1>11
    <3>2. CASE blocks # <<>>
      BY <3>2, <1>11 DEF TextInv, TextRunsOn
    <3> QED BY <3>1, <3>2
  <2>5. phase' # "printed"
    BY <1>1
  <2>6. Len(blocks') - 1 = Len(blocks)
    BY <1>11
  <2> QED BY <2>3, <2>4, <2>5, <2>6, <1>11, <1>13 DEF TextRunsOn, Follows, Titled
<1>22. (phase \in {"page", "text"} => HasRoom(doc, TRUE))'
  BY <1>1 DEF TextInv, HasRoom
<1>23. (phase = "printed" => ~TextRemains)'
  BY <1>1
<1> QED BY <1>14, <1>16, <1>17, <1>19, <1>20, <1>21, <1>22, <1>23 DEF TextInv

LEMMA NextKeepsText == TextInv /\ [PagesNext]_pageVars => TextInv'
<1> SUFFICES ASSUME TextInv, [PagesNext]_pageVars PROVE TextInv'
  OBVIOUS
<1>1. CASE UNCHANGED pageVars
  BY <1>1 DEF pageVars, TextInv, PagesTypeOK, Sections, HasRoom, CursorFits, FreshLines, Resumes, StandsAfter,
              PagesGrow, TextRemains, TextRunsOn, Follows, Titled
<1> QED BY <1>1, LayOutKeepsText, BeginPageKeepsText, PlaceBlockKeepsText, EndTextKeepsText, FinishPagesKeepsText DEF PagesNext

-----------------------------------------------------------------------------
(* The codes of a document, and the lines of a page. *)

\* What a page that was begun shows.
PageFor(d, i) == [qrs |-> QrsOn(d, i - 1), instructions |-> ShowsInstructions(d, i - 1)]

\* The pages are those that were laid out, but for one that the end of a kit adds.
PagesShow ==
    /\ pages \in Seq(Sheets)
    /\ \A i \in 1..Len(pages) :
         pages[i] = PageFor(doc, i) \/ (phase = "printed" /\ pages[i].qrs.from > pages[i].qrs.to)

CodesInv ==
    /\ phase = "idle" => pages = <<>> /\ blocks = <<>>
    /\ phase \in {"page", "text"} => total = TotalPages(doc) /\ Roomy(doc)
    /\ PagesShow
    /\ pages # <<>> => Roomy(doc)
    /\ QrsInOrder

\* The lines printed on a page are as many as fit, and so are those with the lines left.
RowsFit ==
    /\ \A i \in Nat \ {0} : RowsUsed(i) > 0 => RowsUsed(i) <= PageCapacity(doc, i - 1)
    /\ phase = "text" => RowsUsed(Len(pages)) + left <= PageCapacity(doc, Len(pages) - 1)

RowsInv ==
    /\ blocks # <<>> => ShowsText(doc) /\ Roomy(doc)
    /\ phase = "text" => ShowsText(doc) /\ Len(pages) > 0
    /\ doc.style.bonus = NoBonus => RowsFit

PagesInv == TextInv /\ CodesInv /\ RowsInv

-----------------------------------------------------------------------------
\* Pages in which nothing is missing that shows a code show all of them in order.
LEMMA PagesInOrder ==
    ASSUME NEW d, Printable(d), ShowsQr(d), Roomy(d), NEW P \in Seq(Sheets),
           \A i \in 1..Len(P) : P[i] = PageFor(d, i) \/ (P[i].qrs.from = 1 /\ P[i].qrs.to = 0),
           \A i \in 1..TotalPages(d) :
             PageFor(d, i).qrs.from <= PageFor(d, i).qrs.to => i <= Len(P) /\ P[i] = PageFor(d, i)
    PROVE  /\ \A q \in 1..d.qrs : \E i \in 1..Len(P) :
                ~P[i].qrs.repeated /\ P[i].qrs.from <= q /\ q <= P[i].qrs.to
           /\ \A j \in 1..Len(P) : P[j].qrs.from <= P[j].qrs.to =>
                /\ P[j].qrs.to <= d.qrs
                /\ ~P[j].qrs.repeated => \A i \in 1..(j - 1) : P[i].qrs.to < P[j].qrs.from
<1>0. d.qrs \in Nat \ {0} /\ TotalPages(d) \in Nat \ {0} /\ Len(P) \in Nat
  <2>1. d.qrs \in Nat \ {0}
    BY DEF Printable
  <2> QED BY <2>1, TotalType
<1>1. \A i : PageFor(d, i).qrs = QrsOn(d, i - 1)
  BY DEF PageFor
<1>2. ASSUME NEW q \in 1..d.qrs
      PROVE  \E i \in 1..Len(P) : ~P[i].qrs.repeated /\ P[i].qrs.from <= q /\ q <= P[i].qrs.to
  <2>1. PICK p \in 0..(TotalPages(d) - 1) : FrameStart(d, p) < q /\ q <= FrameStart(d, p + 1)
    BY EveryCodeHasAPage
  <2> DEFINE x == QrsOn(d, p)
             i == p + 1
  <2>2. p \in Nat /\ FrameStart(d, p) \in Nat /\ FrameStart(d, p + 1) \in Nat
    <3>1. p \in Nat /\ p + 1 \in Nat
      BY <1>0
    <3> QED BY <3>1, FrameStarts
  <2>3. /\ x.repeated => d.qrs <= FrameStart(d, p)
        /\ ~x.repeated => /\ x.from = FrameStart(d, p) + 1 /\ x.to \in Int
                          /\ \A r \in 1..d.qrs : FrameStart(d, p) < r /\ r <= FrameStart(d, p + 1) => r <= x.to
    BY <2>2, QrsOnPage
  <2> HIDE DEF x
  <2>4. ~x.repeated
    BY <1>0, <2>1, <2>2, <2>3
  <2>5. x.from <= q /\ q <= x.to /\ x.from <= x.to
    BY <1>0, <2>1, <2>2, <2>3, <2>4
  <2>6. i \in 1..TotalPages(d) /\ i - 1 = p
    BY <1>0, <2>2
  <2>7. PageFor(d, i).qrs = x
    BY <1>1, <2>6 DEF x
  <2> HIDE DEF i
  <2>8. i <= Len(P) /\ P[i].qrs = x
    <3>1. PageFor(d, i).qrs.from <= PageFor(d, i).qrs.to
      BY <2>5, <2>7
    <3> QED BY <2>6, <2>7, <3>1
  <2>9. i \in 1..Len(P)
    BY <1>0, <2>6, <2>8
  <2> QED BY <2>4, <2>5, <2>8, <2>9
<1>3. ASSUME NEW j \in 1..Len(P), P[j].qrs.from <= P[j].qrs.to
      PROVE  /\ P[j].qrs.to <= d.qrs
             /\ ~P[j].qrs.repeated => \A i \in 1..(j - 1) : P[i].qrs.to < P[j].qrs.from
  <2> DEFINE p == j - 1
             x == QrsOn(d, p)
  <2>1. P[j] = PageFor(d, j)
    BY <1>3
  <2>2. p \in Nat /\ P[j].qrs = x
    BY <1>0, <1>1, <2>1
  <2>3. FrameStart(d, p) \in Nat
    BY <2>2, FrameStarts
  <2>4. /\ x.repeated => x.to = 1
        /\ ~x.repeated => x.from = FrameStart(d, p) + 1 /\ (x.from <= x.to => x.to <= d.qrs)
    BY <2>2, QrsOnPage
  <2>5. x.from <= x.to
    BY <1>3, <2>2
  <2> HIDE DEF x
  <2>6. x.to <= d.qrs
    BY <1>0, <2>4, <2>5
  <2>7. ASSUME ~x.repeated, NEW i \in 1..(j - 1) PROVE P[i].qrs.to < x.from
    <3> DEFINE o == i - 1
               y == QrsOn(d, o)
    <3>1. i \in 1..Len(P) /\ o \in Nat /\ i \in Nat /\ i <= p /\ o <= p /\ o + 1 = i
      BY <1>0
    <3>2. CASE P[i].qrs.from = 1 /\ P[i].qrs.to = 0
      BY <2>3, <2>4, <2>7, <3>2
    <3>3. CASE P[i] = PageFor(d, i)
      <4>1. P[i].qrs = y
        BY <1>1, <3>3
      <4>2. /\ y.repeated => y.to = 1 /\ d.qrs <= FrameStart(d, o)
            /\ ~y.repeated => y.to \in Int /\ y.to <= FrameStart(d, o + 1)
        BY <3>1, QrsOnPage
      <4>3. FrameStart(d, o) <= FrameStart(d, p) /\ FrameStart(d, o + 1) <= FrameStart(d, p)
        BY <2>2, <3>1, FrameStarts
      <4>4. FrameStart(d, o) \in Nat /\ FrameStart(d, o + 1) \in Nat
        BY <3>1, FrameStarts
      <4> HIDE DEF y, o
      <4>5. y.to <= FrameStart(d, p)
        BY <1>0, <2>3, <4>2, <4>3, <4>4
      <4>6. y.to \in Int
        BY <4>2
      <4> HIDE DEF p
      <4>7. y.to < x.from
        BY <2>3, <2>4, <2>7, <4>5, <4>6
      <4> QED BY <4>1, <4>7
    <3> QED BY <3>1, <3>2, <3>3
  <2> QED BY <2>2, <2>6, <2>7
<1> QED BY <1>2, <1>3

LEMMA FinishPagesKeepsCodes == PagesInv /\ FinishPages => CodesInv'
<1> SUFFICES ASSUME PagesInv, FinishPages PROVE CodesInv'
  OBVIOUS
<1> DEFINE n == Len(pages)
           kept == {i \in 1..n : HasContent(i)}
           last == CHOOSE i \in kept : \A j \in kept : j <= i
           noQrs == [from |-> 1, to |-> 0, repeated |-> FALSE]
           kitPage == [qrs |-> noQrs, instructions |-> TRUE]
           cut == IF kept = {} THEN <<>> ELSE SubSeq(pages, 1, last)
<1>1. /\ phase = "page" /\ phase' = "printed" /\ n >= total
      /\ pages' = IF doc.kind = "kit" THEN Append(pages, kitPage) ELSE cut
      /\ UNCHANGED <<doc, blocks>>
  BY DEF FinishPages
<1>2. /\ Printable(doc) /\ Roomy(doc) /\ total = TotalPages(doc)
      /\ pages \in Seq(Sheets) /\ \A i \in 1..n : pages[i] = PageFor(doc, i)
  BY <1>1 DEF PagesInv, TextInv, PagesTypeOK, CodesInv, PagesShow
<1>3. n \in Nat /\ TotalPages(doc) \in Nat \ {0} /\ TotalPages(doc) <= n
  BY <1>1, <1>2, TotalType
<1>4. kitPage \in Sheets /\ kitPage.qrs.from = 1 /\ kitPage.qrs.to = 0
  BY DEF Sheets
<1>5. /\ pages' \in Seq(Sheets)
      /\ \A i \in 1..Len(pages') : pages'[i] = PageFor(doc, i) \/ (pages'[i].qrs.from = 1 /\ pages'[i].qrs.to = 0)
      /\ \A i \in 1..n : pages[i].qrs.from <= pages[i].qrs.to => i <= Len(pages') /\ pages'[i] = pages[i]
  <2>1. CASE doc.kind = "kit"
    <3> HIDE DEF kitPage
    <3>1. pages' = Append(pages, kitPage)
      BY <1>1, <2>1
    <3>2. /\ pages' \in Seq(Sheets) /\ Len(pages') = n + 1 /\ pages'[n + 1] = kitPage
          /\ \A i \in 1..n : pages'[i] = pages[i]
      BY <1>2, <1>3, <1>4, <3>1
    <3> HIDE DEF n
    <3>3. \A i \in 1..(n + 1) : i \in 1..n \/ i = n + 1
      BY <1>3
    <3> QED BY <1>2, <1>3, <1>4, <3>2, <3>3
  <2>2. CASE doc.kind # "kit" /\ kept = {}
    <3>1. pages' = <<>>
      BY <1>1, <2>2
    <3>2. \A i \in 1..n : ~(pages[i].qrs.from <= pages[i].qrs.to)
      BY <2>2 DEF HasContent
    <3> QED BY <3>1, <3>2
  <2>3. CASE doc.kind # "kit" /\ kept # {}
    <3>1. last \in kept /\ \A j \in kept : j <= last
      <4>1. kept \in SUBSET (0..n)
        BY <1>3
      <4> HIDE DEF kept, n
      <4>2. \E m \in kept : \A k \in kept : k <= m
        BY <1>3, <2>3, <4>1, GreatestOf
      <4> QED BY <4>2, Zenon
    <3>2. pages' = SubSeq(pages, 1, last)
      BY <1>1, <2>3
    <3>3. last \in 1..n
      BY <3>1
    <3>4. \A i \in 1..n : pages[i].qrs.from <= pages[i].qrs.to => i <= last
      BY <3>1 DEF HasContent
    <3> HIDE DEF last, kept
    <3>5. /\ pages' \in Seq(Sheets) /\ Len(pages') = last
          /\ \A i \in 1..last : pages'[i] = pages[i]
      BY <1>2, <3>2, <3>3
    <3> QED BY <1>2, <1>3, <3>3, <3>4, <3>5
  <2> QED BY <2>1, <2>2, <2>3
<1> HIDE DEF kitPage, cut
<1>6. PagesShow'
  <2>1. \A i \in 1..Len(pages') : (pages'[i].qrs.from = 1 /\ pages'[i].qrs.to = 0) => pages'[i].qrs.from > pages'[i].qrs.to
    OBVIOUS
  <2>2. \A i : PageFor(doc, i)' = PageFor(doc, i)
    BY <1>1, Zenon DEF PageFor
  <2> QED BY <1>1, <1>5, <2>1, <2>2 DEF PagesShow
<1>7. QrsInOrder'
  <2> SUFFICES ASSUME ShowsQr(doc)
               PROVE  /\ \A q \in 1..doc.qrs : \E i \in 1..Len(pages') :
                           ~pages'[i].qrs.repeated /\ pages'[i].qrs.from <= q /\ q <= pages'[i].qrs.to
                      /\ \A j \in 1..Len(pages') : pages'[j].qrs.from <= pages'[j].qrs.to =>
                           /\ pages'[j].qrs.to <= doc.qrs
                           /\ ~pages'[j].qrs.repeated => \A i \in 1..(j - 1) : pages'[i].qrs.to < pages'[j].qrs.from
    BY <1>1 DEF QrsInOrder
  <2>1. \A i \in 1..TotalPages(doc) :
             PageFor(doc, i).qrs.from <= PageFor(doc, i).qrs.to => i <= Len(pages') /\ pages'[i] = PageFor(doc, i)
    <3> TAKE i \in 1..TotalPages(doc)
    <3>1. i \in 1..n
      BY <1>3
    <3> QED BY <1>2, <1>5, <3>1
  <2>5. PICK P : P = pages'
    OBVIOUS
  <2>2. P \in Seq(Sheets) /\ \A i \in 1..Len(P) : P[i] = PageFor(doc, i) \/ (P[i].qrs.from = 1 /\ P[i].qrs.to = 0)
    BY <1>5, <2>5
  <2>3. \A i \in 1..TotalPages(doc) :
             PageFor(doc, i).qrs.from <= PageFor(doc, i).qrs.to => i <= Len(P) /\ P[i] = PageFor(doc, i)
    BY <2>1, <2>5
  <2>4. /\ \A q \in 1..doc.qrs : \E i \in 1..Len(P) :
             ~P[i].qrs.repeated /\ P[i].qrs.from <= q /\ q <= P[i].qrs.to
        /\ \A j \in 1..Len(P) : P[j].qrs.from <= P[j].qrs.to =>
             /\ P[j].qrs.to <= doc.qrs
             /\ ~P[j].qrs.repeated => \A i \in 1..(j - 1) : P[i].qrs.to < P[j].qrs.from
    BY <1>2, <2>2, <2>3, PagesInOrder
  <2> QED BY <2>4, <2>5
<1>8. Roomy(doc)'
  BY <1>1, <1>2, Zenon
<1> QED BY <1>1, <1>6, <1>7, <1>8 DEF CodesInv

\* The other steps of the pages.
LEMMA CodesKept ==
    ASSUME PagesInv, PagesNext, ~FinishPages PROVE CodesInv'
<1>1. doc' = doc /\ phase' \in {"page", "text", "refused"}
  BY DEF PagesNext, LayOut, BeginPage, PlaceBlock, EndText
<1>2. \A i : PageFor(doc, i)' = PageFor(doc, i)
  BY <1>1, Zenon DEF PageFor
<1>3. Roomy(doc)' = Roomy(doc) /\ TotalPages(doc)' = TotalPages(doc)
  BY <1>1, Zenon
<1>4. pages \in Seq(Sheets) /\ phase \in {"idle", "page", "text"}
  BY DEF PagesInv, CodesInv, PagesShow, PagesNext, LayOut, BeginPage, PlaceBlock, EndText
<1>5. \A i \in 1..Len(pages) : pages[i] = PageFor(doc, i)
  BY <1>4 DEF PagesInv, CodesInv, PagesShow
<1>6. Roomy(doc) \/ (phase' = "refused" /\ pages' = <<>>)
  <2>1. CASE LayOut
    <3>1. pages' = <<>>
      BY <2>1 DEF LayOut, PagesInv, CodesInv
    <3>2. phase' # "refused" => Roomy(doc)
      <4>1. ~(HasRoom(doc, TRUE) /\ HasRoom(doc, UsesFirst(doc, 1))) => phase' = "refused"
        BY <2>1, Zenon DEF LayOut
      <4> QED BY <4>1, Zenon DEF Roomy
    <3>3. phase' = "refused" \/ phase' # "refused"
      OBVIOUS
    <3> QED BY <3>1, <3>2, <3>3, Zenon
  <2>2. CASE BeginPage \/ PlaceBlock \/ EndText
    BY <2>2 DEF BeginPage, PlaceBlock, EndText, PagesInv, CodesInv
  <2> QED BY <2>1, <2>2 DEF PagesNext
<1>7. phase' \in {"page", "text"} => total' = TotalPages(doc)
  <2>1. CASE LayOut
    BY <2>1 DEF LayOut
  <2>2. CASE BeginPage \/ PlaceBlock \/ EndText
    BY <2>2 DEF BeginPage, PlaceBlock, EndText, PagesInv, CodesInv
  <2> QED BY <2>1, <2>2 DEF PagesNext
<1>8. pages' \in Seq(Sheets) /\ \A i \in 1..Len(pages') : pages'[i] = PageFor(doc, i)
  <2>1. CASE LayOut \/ PlaceBlock \/ EndText
    BY <2>1, <1>4, <1>5 DEF LayOut, PlaceBlock, EndText
  <2>2. CASE BeginPage
    <3> DEFINE page == PageFor(doc, Len(pages) + 1)
    <3>1. Len(pages) \in Nat /\ Len(pages) + 1 - 1 = Len(pages)
      BY <1>4
    <3>2. pages' = Append(pages, page)
      BY <2>2, <3>1 DEF BeginPage, PageFor
    <3>3. page \in Sheets
      <4>1. Printable(doc) /\ HasRoom(doc, TRUE)
        BY <2>2 DEF BeginPage, PagesInv, TextInv, PagesTypeOK
      <4>2. QrsOn(doc, Len(pages)) \in [from : Int, to : Int, repeated : BOOLEAN]
        BY <3>1, <4>1, QrsType
      <4> QED BY <3>1, <4>2 DEF PageFor, Sheets, ShowsInstructions
    <3> HIDE DEF page
    <3>4. /\ pages' \in Seq(Sheets) /\ Len(pages') = Len(pages) + 1 /\ pages'[Len(pages) + 1] = page
          /\ \A i \in 1..Len(pages) : pages'[i] = pages[i]
      BY <1>4, <3>2, <3>3
    <3>5. \A i \in 1..(Len(pages) + 1) : i \in 1..Len(pages) \/ i = Len(pages) + 1
      BY <3>1
    <3> QED BY <1>5, <3>4, <3>5 DEF page
  <2> QED BY <2>1, <2>2 DEF PagesNext
<1>9. PagesShow'
  BY <1>2, <1>8 DEF PagesShow
<1>10. QrsInOrder'
  BY <1>1 DEF QrsInOrder
<1> QED BY <1>1, <1>3, <1>6, <1>7, <1>9, <1>10 DEF CodesInv

\* The lines that a block takes of page i.
Share(b, i) == IF b.page # i THEN 0 ELSE b.gap + b.lines + (IF b.titled THEN 1 ELSE 0)

LEMMA ShareType ==
    ASSUME NEW b \in Blocks, NEW i
    PROVE  Share(b, i) \in Int
<1>1. b.gap \in Int /\ b.lines \in Int
  BY DEF Blocks
<1>2. b.gap + b.lines + (IF b.titled THEN 1 ELSE 0) \in Int
  BY <1>1
<1> QED BY <1>2 DEF Share

LEMMA RowsType ==
    ASSUME PagesTypeOK, NEW i \in Nat
    PROVE  /\ RowsUsed(i) = SumOf([k \in 1..Len(blocks) |-> Share(blocks[k], i)])
           /\ [k \in 1..Len(blocks) |-> Share(blocks[k], i)] \in Seq(Int)
           /\ RowsUsed(i) \in Int
<1>1. Len(blocks) \in Nat /\ \A k \in 1..Len(blocks) : blocks[k] \in Blocks
  BY BlockType
<1>2. \A k \in 1..Len(blocks) : Share(blocks[k], i) \in Int
  BY <1>1, ShareType
<1>3. RowsUsed(i) = SumOf([k \in 1..Len(blocks) |-> Share(blocks[k], i)])
  BY DEF RowsUsed, Share
<1>4. [k \in 1..Len(blocks) |-> Share(blocks[k], i)] \in Seq(Int)
  BY <1>1, <1>2
<1>5. SumOf([k \in 1..Len(blocks) |-> Share(blocks[k], i)]) \in Int
  BY <1>4, SumType
<1> QED BY <1>3, <1>4, <1>5

\* Nothing is printed of the text on a page that no block is on.
LEMMA NoRows ==
    ASSUME PagesTypeOK, NEW i \in Nat, \A k \in 1..Len(blocks) : blocks[k].page # i
    PROVE  RowsUsed(i) = 0
<1> DEFINE s == [k \in 1..Len(blocks) |-> Share(blocks[k], i)]
<1>1. RowsUsed(i) = SumOf(s) /\ s \in Seq(Int)
  BY RowsType
<1>2. Len(blocks) \in Nat
  BY BlockType
<1>3. \A k \in 1..Len(s) : s[k] = 0
  BY <1>2 DEF Share
<1> HIDE DEF s
<1>4. SumOf(s) = 0
  BY <1>1, <1>3, SumOfNothing
<1> QED BY <1>1, <1>4

\* One block more.
LEMMA RowsGrow ==
    ASSUME PagesTypeOK, NEW b \in Blocks, blocks' = Append(blocks, b), NEW i \in Nat
    PROVE  RowsUsed(i)' = RowsUsed(i) + Share(b, i)
<1> DEFINE s == [k \in 1..Len(blocks) |-> Share(blocks[k], i)]
           n == Len(blocks)
           t == [k \in 1..Len(blocks') |-> Share(blocks'[k], i)]
<1>1. RowsUsed(i) = SumOf(s) /\ s \in Seq(Int)
  BY RowsType
<1>2. blocks \in Seq(Blocks) /\ n \in Nat
  BY DEF PagesTypeOK
<1>3. /\ blocks' \in Seq(Blocks) /\ Len(blocks') = n + 1 /\ blocks'[n + 1] = b
      /\ \A k \in 1..n : blocks'[k] = blocks[k]
  BY <1>2
<1>4. \A k \in 1..(n + 1) : blocks'[k] \in Blocks
  BY <1>3
<1>5. \A k \in 1..(n + 1) : Share(blocks'[k], i) \in Int
  BY <1>4, ShareType
<1>6. RowsUsed(i)' = SumOf(t)
  BY DEF RowsUsed, Share
<1>7. t \in Seq(Int) /\ Len(t) = n + 1 /\ t[n + 1] = Share(b, i) /\ \A k \in 1..n : t[k] = Share(blocks[k], i)
  BY <1>2, <1>3, <1>5
<1>8. Len(s) = n /\ \A k \in 1..n : s[k] = Share(blocks[k], i)
  BY <1>2
<1> HIDE DEF s, t, n
<1>9. SumOf(t) = SumOf(s) + t[Len(t)]
  BY <1>1, <1>2, <1>7, <1>8, SumGrows
<1> QED BY <1>1, <1>6, <1>7, <1>9

LEMMA RowsKept ==
    ASSUME PagesInv, PagesNext, ~PlaceBlock PROVE RowsInv'
<1>1. UNCHANGED <<doc, blocks>> /\ phase' \in {"page", "text", "refused", "printed"} /\ phase \in {"idle", "page", "text"}
  BY DEF PagesNext, LayOut, BeginPage, EndText, FinishPages
<1>2. \A i : RowsUsed(i)' = RowsUsed(i)
  BY <1>1, Zenon DEF RowsUsed
<1>3. \A i : PageCapacity(doc, i)' = PageCapacity(doc, i)
  BY <1>1, Zenon
<1>4. ShowsText(doc)' = ShowsText(doc) /\ Roomy(doc)' = Roomy(doc)
  BY <1>1, Zenon
<1>5. ASSUME phase' = "text"
      PROVE  /\ ShowsText(doc) /\ Len(pages') > 0
             /\ doc.style.bonus = NoBonus => RowsUsed(Len(pages')) + left' <= PageCapacity(doc, Len(pages') - 1)
  <2> DEFINE n == Len(pages)
  <2>1. /\ BeginPage /\ TextRemains /\ PageCapacity(doc, n) > 0
        /\ left' = IF Titled(doc) THEN SectionCapacity(doc, n, cursor.section, cursor.token)
                   ELSE LineCapacity(doc, n)
    <3>1. BeginPage
      BY <1>5 DEF PagesNext, LayOut, EndText, FinishPages
    <3> QED BY <1>5, <3>1 DEF BeginPage
  <2>2. Printable(doc) /\ HasRoom(doc, TRUE) /\ ShowsText(doc) /\ pages \in Seq(Sheets) /\ n \in Nat
    <3>1. phase = "page" /\ ShowsText(doc)
      BY <2>1 DEF BeginPage, TextRemains
    <3>2. Printable(doc) /\ HasRoom(doc, TRUE)
      BY <3>1, Zenon DEF PagesInv, TextInv, PagesTypeOK, CodesInv, Roomy
    <3>3. pages \in Seq(Sheets) /\ n \in Nat
      BY DEF PagesInv, CodesInv, PagesShow
    <3> QED BY <3>1, <3>2, <3>3
  <2>3. Len(pages') = n + 1
    BY <2>1, <2>2 DEF BeginPage
  <2>4. ASSUME doc.style.bonus = NoBonus
        PROVE  RowsUsed(n + 1) + left' <= PageCapacity(doc, n)
    <3>1. PageCapacity(doc, n) \in Int /\ LineCapacity(doc, n) \in Int /\ LineCapacity(doc, n) <= PageCapacity(doc, n)
      BY <2>2, LinesType
    <3>2. RowsUsed(n + 1) = 0
      <4>1. \A k \in 1..Len(blocks) : blocks[k].page <= n
        BY <1>1, <2>1 DEF BeginPage, PagesInv, TextInv, PagesGrow
      <4>2. PagesTypeOK
        BY DEF PagesInv, TextInv
      <4>3. \A k \in 1..Len(blocks) : blocks[k].page \in Nat
        BY <4>2, BlockType
      <4>4. \A k \in 1..Len(blocks) : blocks[k].page # n + 1
        BY <2>2, <4>1, <4>3
      <4>5. n + 1 \in Nat
        BY <2>2
      <4> QED BY <4>2, <4>4, <4>5, NoRows
    <3>3. SectionCapacity(doc, n, cursor.section, cursor.token) = PageCapacity(doc, n)
      <4>1. /\ doc.style.bonus.first = 0 /\ doc.style.bonus.rest = 0 /\ doc.style.bonus.perExtraSection = 0
            /\ doc.style.bonus.quorumlessFirst = 0 /\ doc.style.bonus.quorumlessRest = 0
            /\ doc.style.bonus.reserved = 0
        BY <2>4 DEF NoBonus
      <4> QED BY <2>1, <3>1, <4>1 DEF SectionCapacity, Larger
    <3>4. left' <= PageCapacity(doc, n) /\ left' \in Int
      BY <2>1, <3>1, <3>3
    <3> QED BY <3>1, <3>2, <3>4
  <2>5. n + 1 - 1 = n
    BY <2>2
  <2> QED BY <2>2, <2>3, <2>4, <2>5
<1>6. ASSUME doc.style.bonus = NoBonus PROVE RowsFit'
  <2>1. RowsFit
    BY <1>6 DEF PagesInv, RowsInv
  <2>2. \A i \in Nat \ {0} : RowsUsed(i)' > 0 => RowsUsed(i)' <= PageCapacity(doc, i - 1)'
    BY <1>2, <1>3, <2>1 DEF RowsFit
  <2>3. phase' = "text" => (RowsUsed(Len(pages)) + left <= PageCapacity(doc, Len(pages) - 1))'
    BY <1>1, <1>5, <1>6 DEF RowsUsed
  <2> QED BY <2>2, <2>3 DEF RowsFit
<1> QED BY <1>1, <1>4, <1>5, <1>6 DEF PagesInv, RowsInv

LEMMA PlaceBlockKeepsRows == PagesInv /\ PlaceBlock => RowsInv'
<1> SUFFICES ASSUME PagesInv, PlaceBlock PROVE RowsInv'
  OBVIOUS
<1> DEFINE section == cursor.section
           token == cursor.token
           tokens == doc.texts[section]
           n == Len(pages)
           groups == Groups(doc, n - 1)
           to == Smaller(tokens, token + Room * groups)
           used == Ceil(to - token, groups)
           block == [page |-> n, section |-> section, titled |-> Title = 1,
                     gap |-> Gap, from |-> token + 1, to |-> to,
                     offset |-> lines[section], lines |-> used]
<1>1. /\ phase = "text" /\ ShowsText(doc) /\ Room > 0
      /\ blocks' = Append(blocks, block)
      /\ left' = Room - used
      /\ UNCHANGED <<doc, phase, pages>>
  BY DEF PlaceBlock, Placeable, TextRemains
<1>2. /\ Printable(doc) /\ left \in Int /\ lines \in [Sections -> Int] /\ PagesTypeOK
      /\ pages \in Seq(Sheets) /\ n \in Nat \ {0} /\ Roomy(doc)
  BY <1>1 DEF PagesInv, TextInv, PagesTypeOK, CodesInv, PagesShow, RowsInv
<1>3. section \in Sections /\ token \in Nat /\ tokens \in Nat
  <2>1. doc.texts \in Seq(Nat \ {0})
    BY <1>2 DEF Printable
  <2>2. section \in 1..(Len(doc.texts) + 1) /\ token \in Nat /\ section <= Len(doc.texts)
    BY DEF PagesInv, TextInv, CursorFits, TextRemains, PlaceBlock, Placeable
  <2> QED BY <2>1, <2>2 DEF Sections
<1>4. groups \in Nat \ {0}
  BY <1>1, <1>2, GroupsType
<1>5. Gap \in {0, 1} /\ Title \in {0, 1} /\ Room \in Nat /\ Room = left - Gap - Title
  BY <1>1, <1>2 DEF Gap, Title, Room
<1>6. used \in Int /\ used <= Room /\ to \in Nat
  <2>1. Room * groups \in Nat
    BY <1>4, <1>5
  <2> HIDE DEF groups
  <2>2. to \in Nat /\ to - token <= Room * groups
    BY <1>3, <2>1 DEF Smaller
  <2>3. to - token \in Int
    BY <1>3, <2>2
  <2> HIDE DEF to
  <2>4. used \in Int
    BY <1>4, <2>3, CeilFits
  <2>5. \A m \in Int : to - token <= m * groups => Ceil(to - token, groups) <= m
    BY <1>4, <2>3, CeilFits
  <2> QED BY <1>5, <2>2, <2>4, <2>5
<1> HIDE DEF to, used, groups
<1>7. block \in Blocks
  BY <1>2, <1>3, <1>5, <1>6 DEF Blocks, Sections
<1>8. /\ block.page = n /\ block.gap = Gap /\ block.lines = used /\ (block.titled <=> Title = 1)
  OBVIOUS
<1> HIDE DEF block
<1>9. \A i \in Nat : Share(block, i) = IF i = n THEN Gap + used + Title ELSE 0
  BY <1>5, <1>6, <1>8 DEF Share
<1>10. \A i \in Nat : RowsUsed(i) \in Int /\ RowsUsed(i)' = RowsUsed(i) + Share(block, i)
  BY <1>1, <1>2, <1>7, RowsType, RowsGrow
<1>11. \A i : PageCapacity(doc, i)' = PageCapacity(doc, i)
  BY <1>1, Zenon
<1>12. ShowsText(doc)' = ShowsText(doc) /\ Roomy(doc)' = Roomy(doc)
  BY <1>1, Zenon
<1>13. ASSUME doc.style.bonus = NoBonus PROVE RowsFit'
  <2>1. RowsFit
    BY <1>13 DEF PagesInv, RowsInv
  <2>2. RowsUsed(n) + left <= PageCapacity(doc, n - 1)
    BY <1>1, <2>1 DEF RowsFit
  <2>3. n - 1 \in Nat /\ PageCapacity(doc, n - 1) \in Int
    <3>1. HasRoom(doc, TRUE)
      BY <1>2, Zenon DEF Roomy
    <3>2. n - 1 \in Nat
      BY <1>2
    <3> QED BY <1>1, <1>2, <3>1, <3>2, LinesType
  <2>4. PICK m \in Nat \ {0} : m = n
    BY <1>2
  <2>5. RowsUsed(m)' + left' <= PageCapacity(doc, m - 1) /\ RowsUsed(m)' <= PageCapacity(doc, m - 1)
    <3>1. RowsUsed(m)' = RowsUsed(m) + (Gap + used + Title) /\ RowsUsed(m) \in Int
      BY <1>9, <1>10, <2>4
    <3> QED BY <1>1, <1>2, <1>5, <1>6, <2>2, <2>3, <2>4, <3>1
  <2>6. \A i \in Nat \ {0} : RowsUsed(i)' > 0 => RowsUsed(i)' <= PageCapacity(doc, i - 1)
    <3> TAKE i \in Nat \ {0}
    <3>1. CASE i = m
      BY <2>5, <3>1
    <3>2. CASE i # m
      <4>1. RowsUsed(i)' = RowsUsed(i)
        BY <1>9, <1>10, <2>4, <3>2
      <4> QED BY <2>1, <4>1 DEF RowsFit
    <3> QED BY <3>1, <3>2
  <2>7. (RowsUsed(Len(pages)) + left <= PageCapacity(doc, Len(pages) - 1))'
    <3>1. Len(pages') = m
      BY <1>1, <2>4
    <3>2. RowsUsed(Len(pages))' = RowsUsed(m)'
      BY <3>1 DEF RowsUsed
    <3> QED BY <1>11, <2>5, <3>1, <3>2
  <2> QED BY <1>11, <2>6, <2>7 DEF RowsFit
<1> QED BY <1>1, <1>2, <1>12, <1>13 DEF PagesInv, RowsInv

-----------------------------------------------------------------------------
LEMMA PagesStartWell == PagesStart => PagesInv
<1> SUFFICES ASSUME PagesStart PROVE PagesInv
  OBVIOUS
<1>1. TextInv
  BY TextStarts
<1>2. CodesInv
  BY DEF PagesStart, PagesInit, CodesInv, PagesShow, QrsInOrder
<1>3. RowsInv
  <2>1. phase = "idle" /\ blocks = <<>>
    BY DEF PagesStart, PagesInit
  <2>2. \A i \in Nat \ {0} : RowsUsed(i) = 0
    <3> TAKE i \in Nat \ {0}
    <3>1. PagesTypeOK /\ \A k \in 1..Len(blocks) : blocks[k].page # i
      BY <1>1, <2>1 DEF TextInv
    <3> QED BY <3>1, NoRows
  <2> QED BY <2>1, <2>2 DEF RowsInv, RowsFit
<1> QED BY <1>1, <1>2, <1>3 DEF PagesInv

LEMMA PagesNextKeeps == PagesInv /\ [PagesNext]_pageVars => PagesInv'
<1> SUFFICES ASSUME PagesInv, [PagesNext]_pageVars PROVE PagesInv'
  OBVIOUS
<1>1. TextInv'
  BY NextKeepsText DEF PagesInv
<1>2. CASE UNCHANGED pageVars
  <2>1. UNCHANGED <<doc, phase, total, pages, blocks, left>>
    BY <1>2 DEF pageVars
  <2>2. CodesInv'
    <3>1. \A i : PageFor(doc, i)' = PageFor(doc, i)
      BY <2>1, Zenon DEF PageFor
    <3>2. Roomy(doc)' = Roomy(doc) /\ TotalPages(doc)' = TotalPages(doc) /\ ShowsQr(doc)' = ShowsQr(doc)
      BY <2>1, Zenon
    <3>3. PagesShow'
      BY <2>1, <3>1 DEF PagesInv, CodesInv, PagesShow
    <3>4. QrsInOrder'
      BY <2>1, <3>2 DEF PagesInv, CodesInv, QrsInOrder
    <3> QED BY <2>1, <3>2, <3>3, <3>4 DEF PagesInv, CodesInv
  <2>3. RowsInv'
    <3>1. \A i : RowsUsed(i)' = RowsUsed(i) /\ PageCapacity(doc, i)' = PageCapacity(doc, i)
      BY <2>1, Zenon DEF RowsUsed
    <3>2. Roomy(doc)' = Roomy(doc) /\ ShowsText(doc)' = ShowsText(doc)
      BY <2>1, Zenon
    <3>3. RowsFit => RowsFit'
      BY <2>1, <3>1 DEF RowsFit, RowsUsed
    <3> QED BY <2>1, <3>2, <3>3 DEF PagesInv, RowsInv
  <2> QED BY <1>1, <2>2, <2>3 DEF PagesInv
<1>3. CASE PagesNext
  <2>1. CodesInv'
    BY <1>3, CodesKept, FinishPagesKeepsCodes
  <2>2. RowsInv'
    BY <1>3, RowsKept, PlaceBlockKeepsRows
  <2> QED BY <1>1, <2>1, <2>2 DEF PagesInv
<1> QED BY <1>2, <1>3

\* The grid and the text of every page end above the lower margin.
LEMMA PagesHoldThem == PagesInv => CodesAndTextFit
<1> SUFFICES ASSUME PagesInv PROVE QrsInOrder /\ NothingOffThePage
  BY DEF CodesAndTextFit
<1>1. QrsInOrder
  BY DEF PagesInv, CodesInv
<1>2. Printable(doc) /\ PagesTypeOK
  BY DEF PagesInv, TextInv, PagesTypeOK
<1>3. ASSUME NEW i \in 1..Len(pages) PROVE i \in Nat \ {0} /\ i - 1 \in Nat
  <2>1. pages \in Seq(Sheets)
    BY DEF PagesInv, CodesInv, PagesShow
  <2> QED BY <2>1
<1>4. ASSUME NEW i \in 1..Len(pages), pages[i].qrs.from <= pages[i].qrs.to
      PROVE  Top(doc, UsesFirst(doc, i - 1)) + GridRows(doc, i - 1) * doc.sheet.qr <= Bottom
  <2>1. pages[i] = PageFor(doc, i) /\ Roomy(doc)
    <3>1. pages[i].qrs.from \in Int /\ pages[i].qrs.to \in Int
      <4>1. pages \in Seq(Sheets)
        BY DEF PagesInv, CodesInv, PagesShow
      <4>2. pages[i] \in Sheets
        BY <4>1
      <4> QED BY <4>2 DEF Sheets
    <3>2. ~(pages[i].qrs.from > pages[i].qrs.to)
      BY <1>4, <3>1
    <3>3. pages[i] = PageFor(doc, i)
      BY <3>2 DEF PagesInv, CodesInv, PagesShow
    <3>4. pages # <<>>
      OBVIOUS
    <3> QED BY <3>3, <3>4 DEF PagesInv, CodesInv
  <2>2. QrsOn(doc, i - 1).from <= QrsOn(doc, i - 1).to
    BY <1>4, <2>1 DEF PageFor
  <2>3. ShowsQr(doc)
    BY <2>2 DEF QrsOn
  <2> QED BY <1>2, <1>3, <2>1, <2>3, GridRowsFit DEF Bottom
<1>5. ASSUME NEW i \in 1..Len(pages), doc.style.bonus = NoBonus, RowsUsed(i) > 0
      PROVE  TextTop(doc, i - 1) + RowsUsed(i) * LineHeight(doc) <= Bottom
  <2> DEFINE most == PageCapacity(doc, i - 1)
             rows == RowsUsed(i)
  <2>1. rows \in Int /\ rows <= most
    BY <1>2, <1>3, <1>5, RowsType DEF PagesInv, RowsInv, RowsFit
  <2>2. ShowsText(doc) /\ HasRoom(doc, TRUE)
    <3>1. blocks # <<>>
      <4> SUFFICES ASSUME blocks = <<>> PROVE FALSE
        OBVIOUS
      <4>1. \A k \in 1..Len(blocks) : blocks[k].page # i
        OBVIOUS
      <4>2. RowsUsed(i) = 0
        BY <1>2, <1>3, <4>1, NoRows
      <4> QED BY <1>5, <4>2
    <3> QED BY <3>1 DEF PagesInv, RowsInv, Roomy
  <2>3. /\ most \in Int /\ LineHeight(doc) \in Nat \ {0} /\ TextTop(doc, i - 1) \in Int
        /\ most > 0 => TextTop(doc, i - 1) + most * LineHeight(doc) <= doc.sheet.height - doc.sheet.margin
    BY <1>2, <1>3, <2>2, LinesType
  <2>4. rows > 0
    BY <1>5
  <2> HIDE DEF most, rows
  <2>5. rows * LineHeight(doc) <= most * LineHeight(doc)
    BY <2>1, <2>3, Times
  <2>6. rows * LineHeight(doc) \in Int /\ most * LineHeight(doc) \in Int
    BY <2>1, <2>3
  <2>7. Bottom \in Int /\ Bottom = doc.sheet.height - doc.sheet.margin
    <3>1. doc.sheet.height \in Int /\ doc.sheet.margin \in Int
      BY <1>2 DEF Printable
    <3> QED BY <3>1 DEF Bottom
  <2>8. TextTop(doc, i - 1) + rows * LineHeight(doc) <= Bottom
    BY <2>1, <2>3, <2>4, <2>5, <2>6, <2>7
  <2> QED BY <2>8 DEF rows
<1> QED BY <1>1, <1>4, <1>5 DEF NothingOffThePage

-----------------------------------------------------------------------------
(* Chunks. *)

\* The longest chunk of what a size makes is no longer than the size, and makes as many.
LEMMA LongestChunk ==
    ASSUME NEW L \in Nat \ {0}, NEW c \in Nat \ {0}
    PROVE  /\ TotalOf(L, c) \in Nat \ {0} /\ TotalOf(L, c) <= L
           /\ LargestChunk(L, TotalOf(L, c)) \in Nat \ {0}
           /\ LargestChunk(L, TotalOf(L, c)) <= c
           /\ TotalOf(L, LargestChunk(L, TotalOf(L, c))) = TotalOf(L, c)
<1> DEFINE n == Ceil(L, c)
           g == Ceil(L, n)
<1>1. n \in Int /\ n > 0 /\ L <= n * c /\ \A m \in Int : L <= m * c => n <= m
  BY CeilFits
<1>2. n <= L
  <2>1. 1 * L <= c * L
    BY Times
  <2>2. 1 * L = L /\ c * L = L * c
    BY SMT
  <2> HIDE DEF n
  <2>3. L <= L * c
    BY <2>1, <2>2
  <2> QED BY <1>1, <2>3
<1> HIDE DEF n
<1>3. n \in Nat \ {0}
  BY <1>1
<1>4. g \in Int /\ g > 0 /\ L <= g * n /\ \A m \in Int : L <= m * n => g <= m
  BY <1>3, CeilFits
<1>5. g <= c
  <2>1. n * c = c * n
    BY <1>3
  <2> QED BY <1>1, <1>4, <2>1
<1> HIDE DEF g
<1>6. g \in Nat \ {0}
  BY <1>4
<1> DEFINE k == Ceil(L, g)
<1>7. k \in Int /\ k > 0 /\ L <= k * g /\ \A m \in Int : L <= m * g => k <= m
  BY <1>6, CeilFits
<1> HIDE DEF k
<1>8. k <= n
  <2>1. g * n = n * g
    BY <1>3, <1>6
  <2> QED BY <1>3, <1>4, <1>7, <2>1
<1>9. n <= k
  <2>1. g * k <= c * k
    BY <1>5, <1>6, <1>7, Times
  <2>2. g * k = k * g /\ c * k = k * c /\ k * g \in Int /\ k * c \in Int
    BY <1>6, <1>7
  <2>3. L <= k * c
    BY <1>7, <2>1, <2>2
  <2> QED BY <1>1, <1>7, <2>3
<1>10. k = n
  BY <1>3, <1>7, <1>8, <1>9
<1>11. TotalOf(L, c) = n /\ LargestChunk(L, n) = g /\ TotalOf(L, g) = k
  BY DivUpIsCeil DEF TotalOf, LargestChunk, n, g, k
<1> QED BY <1>2, <1>3, <1>5, <1>6, <1>10, <1>11

\* The larger the chunks, the fewer; the more there are, the smaller.
LEMMA FewerOrSmaller ==
    ASSUME NEW L \in Nat \ {0}, NEW a \in Nat \ {0}, NEW b \in Nat \ {0}, a <= b
    PROVE  TotalOf(L, b) <= TotalOf(L, a) /\ LargestChunk(L, b) <= LargestChunk(L, a)
<1> DEFINE m == Ceil(L, a)
<1>1. m \in Int /\ m > 0 /\ L <= m * a
  BY CeilFits
<1> HIDE DEF m
<1>2. a * m <= b * m
  BY <1>1, Times
<1>3. a * m = m * a /\ b * m = m * b /\ m * a \in Int /\ m * b \in Int
  BY <1>1
<1>4. L <= m * b
  BY <1>1, <1>2, <1>3
<1>5. Ceil(L, b) <= m
  BY <1>1, <1>4, CeilFits
<1> QED BY <1>5, DivUpIsCeil DEF TotalOf, LargestChunk, m

\* chunk_payload: the chunks are as long as the longest or a byte shorter, and join to all.
LEMMA ChunkStarts ==
    ASSUME NEW L \in Nat \ {0}, NEW n \in Nat \ {0}, n <= L
    PROVE  /\ ChunkStart(L, n, 0) = 0 /\ ChunkStart(L, n, n) = L
           /\ \A i \in Nat : ChunkStart(L, n, i) \in Nat
           /\ \A i \in Nat : ChunkStart(L, n, i) < ChunkStart(L, n, i + 1)
           /\ \A i \in Nat : ChunkStart(L, n, i + 1) - ChunkStart(L, n, i) <= LargestChunk(L, n)
<1> DEFINE q == L \div n
           r == L % n
           g == Ceil(L, n)
<1>1. q \in Nat /\ r \in 0..(n - 1) /\ L = n * q + r
  BY SMT
<1>2. q > 0
  <2>1. 1 <= L \div n
    BY DivHolds
  <2> QED BY <2>1
<1>3. \A i : ChunkStart(L, n, i) = i * q + (IF i < r THEN i ELSE r)
  BY DEF ChunkStart, Least2
<1>4. g \in Int /\ L <= g * n
  BY CeilFits
<1> HIDE DEF q, r, g
<1>5. q <= g /\ (r > 0 => q + 1 <= g)
  <2>1. g <= q => g * n <= q * n
    BY <1>1, <1>4, Times
  <2>2. g <= q - 1 => g * n <= (q - 1) * n
    BY <1>1, <1>4, Times
  <2>3. (q - 1) * n = q * n - n /\ n * q = q * n /\ q * n \in Int /\ g * n \in Int
    BY <1>1, <1>4
  <2> QED BY <1>1, <1>4, <2>1, <2>2, <2>3
<1>6. ASSUME NEW i \in Nat
      PROVE  /\ ChunkStart(L, n, i) \in Nat
             /\ ChunkStart(L, n, i) < ChunkStart(L, n, i + 1)
             /\ ChunkStart(L, n, i + 1) - ChunkStart(L, n, i) <= g
  <2>1. i * q \in Nat /\ (i + 1) * q = i * q + q
    BY <1>1
  <2> QED BY <1>1, <1>2, <1>3, <1>4, <1>5, <2>1
<1>7. ChunkStart(L, n, 0) = 0
  <2>1. 0 * q = 0
    BY <1>1
  <2> QED BY <1>1, <1>3, <2>1
<1>8. ChunkStart(L, n, n) = L
  BY <1>1, <1>3
<1>9. LargestChunk(L, n) = g
  BY DivUpIsCeil DEF LargestChunk, g
<1> QED BY <1>6, <1>7, <1>8, <1>9

-----------------------------------------------------------------------------
(* The size of a frame. *)

LEMMA VarintGrows ==
    ASSUME NEW m \in Nat, NEW n \in Nat, m <= n
    PROVE  VarintLen(m) \in Nat /\ VarintLen(n) \in Nat /\ VarintLen(m) <= VarintLen(n)
<1> DEFINE square == VarintRadix * VarintRadix
<1>1. VarintRadix \in Nat /\ square \in Nat
  BY FrameConstants
<1>2. \A k : VarintLen(k) = IF k < VarintRadix THEN 1 ELSE IF k < square THEN 2 ELSE 3
  BY DEF VarintLen
<1> HIDE DEF square
<1> QED BY <1>1, <1>2

\* Less data, under a lower index of fewer, makes no larger a code.
LEMMA FrameShrinks ==
    ASSUME NEW b, b.capacity \in Nat,
           NEW s \in Nat \ {0}, NEW t \in Nat, s <= t,
           NEW i \in Nat, NEW j \in Nat, i <= j, NEW m \in Nat, NEW n \in Nat, m <= n,
           FrameFits(b, t, j, n)
    PROVE  FrameFits(b, s, i, m)
<1> DEFINE small == FrameLen(s, i, m)
           large == FrameLen(t, j, n)
<1>1. small \in Nat /\ large \in Nat /\ small <= large
  <2>1. /\ VarintLen(i) \in Nat /\ VarintLen(j) \in Nat /\ VarintLen(i) <= VarintLen(j)
        /\ VarintLen(m) \in Nat /\ VarintLen(n) \in Nat /\ VarintLen(m) <= VarintLen(n)
        /\ VarintLen(s) \in Nat /\ VarintLen(t) \in Nat /\ VarintLen(s) <= VarintLen(t)
    BY VarintGrows
  <2> QED BY <2>1 DEF FrameLen
<1>2. QrLen(large, b.codec) <= b.capacity
  BY DEF FrameFits
<1> HIDE DEF small, large
<1>3. QrLen(small, b.codec) <= b.capacity
  <2>1. CASE b.codec = "raw"
    BY <2>1, <1>1, <1>2 DEF QrLen
  <2>2. CASE b.codec # "raw"
    <3>1. QrLen(small, b.codec) = DivUp(4 * small, 3) /\ QrLen(large, b.codec) = DivUp(4 * large, 3)
      BY <2>2 DEF QrLen
    <3>2. DivUp(4 * small, 3) <= DivUp(4 * large, 3) /\ DivUp(4 * small, 3) \in Int /\ DivUp(4 * large, 3) \in Int
      BY <1>1 DEF DivUp
    <3> QED BY <1>2, <3>1, <3>2
  <2> QED BY <2>1, <2>2
<1> QED BY <1>3 DEF FrameFits, small

-----------------------------------------------------------------------------
(* _max_fitting_frame_data_len: a size that fits, the next of which does not. *)

FittingSearch(b, n, upper) ==
    CHOOSE g : g = [w \in (1..upper) \X (1..upper) |->
                      IF w[1] >= w[2] THEN w[1]
                      ELSE g[IF Probe(b, (w[1] + w[2] + 1) \div 2, n)
                             THEN <<(w[1] + w[2] + 1) \div 2, w[2]>>
                             ELSE <<w[1], (w[1] + w[2] + 1) \div 2 - 1>>]]

LEMMA FittingSizeIs == \A b, n, upper : FittingSize(b, n, upper) = FittingSearch(b, n, upper)[<<1, upper>>]
BY DEF FittingSize, FittingSearch

LEMMA Middle ==
    ASSUME NEW lo \in Int, NEW hi \in Int, lo < hi
    PROVE  /\ (lo + hi + 1) \div 2 \in Int /\ lo < (lo + hi + 1) \div 2 /\ (lo + hi + 1) \div 2 <= hi
           /\ (lo + hi) \div 2 \in Int /\ lo <= (lo + hi) \div 2 /\ (lo + hi) \div 2 < hi
           /\ lo + 1 < hi => lo < (lo + hi) \div 2
OBVIOUS

LEMMA BestSize ==
    ASSUME NEW b, NEW n, NEW upper \in Nat \ {0}, Probe(b, 1, n)
    PROVE  LET s == FittingSize(b, n, upper) IN
           s \in 1..upper /\ Probe(b, s, n) /\ (s = upper \/ ~Probe(b, s + 1, n))
<1> DEFINE W == (1..upper) \X (1..upper)
           mid(w) == (w[1] + w[2] + 1) \div 2
           Stop == {w \in W : w[1] >= w[2]}
           val == [w \in W |-> w[1]]
           next == [w \in W |-> IF Probe(b, mid(w), n) THEN <<mid(w), w[2]>> ELSE <<w[1], mid(w) - 1>>]
           rank == [w \in W |-> IF w[1] >= w[2] THEN 0 ELSE w[2] - w[1]]
           I == {w \in W : w[1] <= w[2] /\ Probe(b, w[1], n) /\ (w[2] = upper \/ ~Probe(b, w[2] + 1, n))}
           V == {s \in 1..upper : Probe(b, s, n) /\ (s = upper \/ ~Probe(b, s + 1, n))}
           search == FittingSearch(b, n, upper)
<1>1. \A w \in W : w[1] \in 1..upper /\ w[2] \in 1..upper
  OBVIOUS
<1>2. rank \in [W -> 0..upper]
  <2>1. \A w \in W : (IF w[1] >= w[2] THEN 0 ELSE w[2] - w[1]) \in 0..upper
    BY <1>1
  <2> QED BY <2>1
<1>3. ASSUME NEW w \in W \ Stop
      PROVE  /\ mid(w) \in Int /\ w[1] < mid(w) /\ mid(w) <= w[2]
             /\ <<mid(w), w[2]>> \in W /\ <<w[1], mid(w) - 1>> \in W
  <2>1. w[1] \in 1..upper /\ w[2] \in 1..upper /\ w[1] < w[2]
    BY <1>1
  <2>2. mid(w) \in Int /\ w[1] < mid(w) /\ mid(w) <= w[2]
    BY <2>1, Middle
  <2> HIDE DEF mid
  <2> QED BY <2>1, <2>2
<1>4. \A w \in W \ Stop : next[w] \in W /\ rank[next[w]] < rank[w]
  <2> TAKE w \in W \ Stop
  <2>1. w[1] \in 1..upper /\ w[2] \in 1..upper /\ w[1] < w[2] /\ w \in W
    BY <1>1
  <2>2. next[w] = IF Probe(b, mid(w), n) THEN <<mid(w), w[2]>> ELSE <<w[1], mid(w) - 1>>
    BY <2>1
  <2>3. rank[w] = w[2] - w[1]
    BY <2>1
  <2>4. /\ mid(w) \in Int /\ w[1] < mid(w) /\ mid(w) <= w[2]
        /\ <<mid(w), w[2]>> \in W /\ <<w[1], mid(w) - 1>> \in W
    BY <1>3
  <2>5. /\ rank[<<mid(w), w[2]>>] = IF mid(w) >= w[2] THEN 0 ELSE w[2] - mid(w)
        /\ rank[<<w[1], mid(w) - 1>>] = IF w[1] >= mid(w) - 1 THEN 0 ELSE (mid(w) - 1) - w[1]
    BY <2>4
  <2> HIDE DEF next, rank, mid, W
  <2>6. rank[<<mid(w), w[2]>>] < rank[w] /\ rank[<<w[1], mid(w) - 1>>] < rank[w]
    BY <2>1, <2>3, <2>4, <2>5
  <2> QED BY <2>2, <2>4, <2>6
<1>5. Descends(W, Stop, next, upper, rank)
  <2>1. upper \in Nat
    OBVIOUS
  <2> QED BY <1>2, <1>4, <2>1, Zenon DEF Descends
<1>12. Loops(search, W, Stop, val, next)
  <2>1. PICK g : Loops(g, W, Stop, val, next)
    <3> HIDE DEF W, Stop, val, next, rank
    <3> QED BY <1>5, LoopDefined, Zenon
  <2>2. \A f : [w \in W |-> IF w \in Stop THEN val[w] ELSE f[next[w]]]
             = [w \in W |-> IF w[1] >= w[2] THEN w[1]
                            ELSE f[IF Probe(b, mid(w), n) THEN <<mid(w), w[2]>> ELSE <<w[1], mid(w) - 1>>]]
    OBVIOUS
  <2>3. g = [w \in W |-> IF w[1] >= w[2] THEN w[1]
                          ELSE g[IF Probe(b, mid(w), n) THEN <<mid(w), w[2]>> ELSE <<w[1], mid(w) - 1>>]]
    <3> HIDE DEF W, Stop, val, next, mid
    <3> QED BY <2>1, <2>2, Zenon DEF Loops
  <2>4. search = [w \in W |-> IF w[1] >= w[2] THEN w[1]
                            ELSE search[IF Probe(b, mid(w), n) THEN <<mid(w), w[2]>> ELSE <<w[1], mid(w) - 1>>]]
    BY <2>3, Zenon DEF FittingSearch
  <2> HIDE DEF W, Stop, val, next, mid, search
  <2> QED BY <2>2, <2>4, Zenon DEF Loops
<1>6. I \in SUBSET W
  OBVIOUS
<1>7. \A w \in I \ Stop : next[w] \in I
  <2> TAKE w \in I \ Stop
  <2>1. w \in W \ Stop /\ w[1] \in 1..upper /\ w[2] \in 1..upper
    BY <1>1
  <2>2. /\ mid(w) \in Int /\ w[1] < mid(w) /\ mid(w) <= w[2]
        /\ <<mid(w), w[2]>> \in W /\ <<w[1], mid(w) - 1>> \in W
    BY <1>3, <2>1
  <2>3. next[w] = IF Probe(b, mid(w), n) THEN <<mid(w), w[2]>> ELSE <<w[1], mid(w) - 1>>
    BY <2>1
  <2>4. w[1] <= w[2] /\ Probe(b, w[1], n) /\ (w[2] = upper \/ ~Probe(b, w[2] + 1, n))
    OBVIOUS
  <2> HIDE DEF mid, W, next
  <2>5. CASE Probe(b, mid(w), n)
    BY <2>2, <2>3, <2>4, <2>5
  <2>6. CASE ~Probe(b, mid(w), n)
    <3>1. w[1] <= mid(w) - 1 /\ mid(w) - 1 + 1 = mid(w)
      BY <2>1, <2>2
    <3>2. next[w] = <<w[1], mid(w) - 1>>
      BY <2>3, <2>6
    <3> QED BY <2>2, <2>4, <2>6, <3>1, <3>2
  <2> QED BY <2>5, <2>6
<1>8. \A w \in I \cap Stop : val[w] \in V
  <2> TAKE w \in I \cap Stop
  <2>1. w[1] \in 1..upper /\ w[2] \in 1..upper /\ w[1] = w[2]
    BY <1>1
  <2> QED BY <2>1
<1>9. <<1, upper>> \in I
  OBVIOUS
<1> HIDE DEF W, Stop, val, next, rank, I, V, search
<1>13. Stays(I, V, W, Stop, val, next)
  BY <1>6, <1>7, <1>8, Zenon DEF Stays
<1>10. \A w \in I : search[w] \in V
  BY <1>5, <1>12, <1>13, LoopYields, Zenon
<1>11. search[<<1, upper>>] \in V
  BY <1>9, <1>10, Zenon
<1> QED BY <1>11, FittingSizeIs DEF V, search

-----------------------------------------------------------------------------
(* The codes of a kit. *)

LargestCodeSearch(capacity, most) ==
    CHOOSE g : g = [w \in (1..most) \X (1..most) |->
                      IF w[1] + 1 >= w[2] THEN w[1]
                      ELSE g[IF (w[1] + w[2]) \div 2 <= capacity
                             THEN <<(w[1] + w[2]) \div 2, w[2]>> ELSE <<w[1], (w[1] + w[2]) \div 2>>]]

LEMMA LargestCodeIs ==
    \A capacity, most : LargestCode(capacity, most) =
                          IF most <= capacity THEN most ELSE LargestCodeSearch(capacity, most)[<<1, most>>]
BY DEF LargestCode, LargestCodeSearch

\* The search for the default size ends, with a size.
LEMMA LargestCodeType ==
    ASSUME NEW capacity \in Nat, NEW most \in Nat \ {0}
    PROVE  LargestCode(capacity, most) \in 1..most
<1> DEFINE W == (1..most) \X (1..most)
           mid(w) == (w[1] + w[2]) \div 2
           Stop == {w \in W : w[1] + 1 >= w[2]}
           val == [w \in W |-> w[1]]
           next == [w \in W |-> IF mid(w) <= capacity THEN <<mid(w), w[2]>> ELSE <<w[1], mid(w)>>]
           rank == [w \in W |-> IF w[1] >= w[2] THEN 0 ELSE w[2] - w[1]]
           V == 1..most
           search == LargestCodeSearch(capacity, most)
<1>1. \A w \in W : w[1] \in 1..most /\ w[2] \in 1..most
  OBVIOUS
<1>2. rank \in [W -> 0..most]
  <2>1. \A w \in W : (IF w[1] >= w[2] THEN 0 ELSE w[2] - w[1]) \in 0..most
    BY <1>1
  <2> QED BY <2>1
<1>3. \A w \in W \ Stop : next[w] \in W /\ rank[next[w]] < rank[w]
  <2> TAKE w \in W \ Stop
  <2>1. w[1] \in 1..most /\ w[2] \in 1..most /\ w[1] + 1 < w[2] /\ w \in W
    BY <1>1
  <2>2. mid(w) \in Int /\ w[1] < mid(w) /\ mid(w) < w[2]
    BY <2>1, Middle
  <2>3. next[w] = IF mid(w) <= capacity THEN <<mid(w), w[2]>> ELSE <<w[1], mid(w)>>
    BY <2>1
  <2>4. rank[w] = w[2] - w[1]
    BY <2>1
  <2> HIDE DEF mid, next
  <2>5. <<mid(w), w[2]>> \in W /\ <<w[1], mid(w)>> \in W
    BY <2>1, <2>2
  <2>6. /\ rank[<<mid(w), w[2]>>] = IF mid(w) >= w[2] THEN 0 ELSE w[2] - mid(w)
        /\ rank[<<w[1], mid(w)>>] = IF w[1] >= mid(w) THEN 0 ELSE mid(w) - w[1]
    BY <2>5
  <2> HIDE DEF rank, W
  <2>7. rank[<<mid(w), w[2]>>] < rank[w] /\ rank[<<w[1], mid(w)>>] < rank[w]
    BY <2>1, <2>2, <2>4, <2>6
  <2> QED BY <2>3, <2>5, <2>7
<1>4. Descends(W, Stop, next, most, rank)
  <2>1. most \in Nat
    OBVIOUS
  <2> QED BY <1>2, <1>3, <2>1, Zenon DEF Descends
<1>5. Loops(search, W, Stop, val, next)
  <2>1. PICK g : Loops(g, W, Stop, val, next)
    <3> HIDE DEF W, Stop, val, next, rank
    <3> QED BY <1>4, LoopDefined, Zenon
  <2>2. \A f : [w \in W |-> IF w \in Stop THEN val[w] ELSE f[next[w]]]
             = [w \in W |-> IF w[1] + 1 >= w[2] THEN w[1]
                            ELSE f[IF mid(w) <= capacity THEN <<mid(w), w[2]>> ELSE <<w[1], mid(w)>>]]
    OBVIOUS
  <2>3. g = [w \in W |-> IF w[1] + 1 >= w[2] THEN w[1]
                          ELSE g[IF mid(w) <= capacity THEN <<mid(w), w[2]>> ELSE <<w[1], mid(w)>>]]
    <3> HIDE DEF W, Stop, val, next, mid
    <3> QED BY <2>1, <2>2, Zenon DEF Loops
  <2>4. search = [w \in W |-> IF w[1] + 1 >= w[2] THEN w[1]
                          ELSE search[IF mid(w) <= capacity THEN <<mid(w), w[2]>> ELSE <<w[1], mid(w)>>]]
    BY <2>3, Zenon DEF LargestCodeSearch
  <2> HIDE DEF W, Stop, val, next, mid, search
  <2> QED BY <2>2, <2>4, Zenon DEF Loops
<1>6. Stays(W, V, W, Stop, val, next)
  <2>1. \A w \in W \cap Stop : val[w] \in V
    BY <1>1
  <2> HIDE DEF W, Stop, val, V, next
  <2> QED BY <1>3, <2>1 DEF Stays
<1>7. <<1, most>> \in W
  OBVIOUS
<1> HIDE DEF W, Stop, val, next, rank, V, search
<1>8. \A w \in W : search[w] \in V
  BY <1>4, <1>5, <1>6, LoopYields, Zenon
<1>9. search[<<1, most>>] \in V
  BY <1>7, <1>8, Zenon
<1>10. most \in 1..most
  OBVIOUS
<1> QED BY <1>9, <1>10, LargestCodeIs DEF V, search

\* What the code of a chunk weighs is a number.
LEMMA ScriptLenType ==
    ASSUME NEW b, b.wrapper \in Nat, b.escapes \subseteq Nat, NEW from \in Int, NEW to \in Int
    PROVE  ScriptLen(b, from, to) \in Int
<1> DEFINE E == {i \in b.escapes : from <= i /\ i <= to}
<1>1. IsFiniteSet(from..to) /\ E \in SUBSET (from..to)
  BY FS_Interval
<1>2. IsFiniteSet(E)
  BY <1>1, FS_Subset
<1> DEFINE n == Cardinality(E)
<1>3. n \in Nat
  BY <1>2, FS_CardinalityType
<1>4. ScriptLen(b, from, to) = b.wrapper + (to - from + 1) + 5 * n
  BY DEF ScriptLen
<1> HIDE DEF n
<1> QED BY <1>3, <1>4

\* _split_kit_payload_chunks: the most characters that fit.
FitsCode(b, most, from, n) == ScriptLen(b, from, from + n - 1) <= most

LastFittingSearch(b, most, from, rest) ==
    CHOOSE g : g = [w \in (1..(rest + 1)) \X (0..rest) \X (0..rest) |->
                      IF w[1] > w[2] THEN w[3]
                      ELSE g[IF FitsCode(b, most, from, (w[1] + w[2]) \div 2)
                             THEN <<(w[1] + w[2]) \div 2 + 1, w[2], (w[1] + w[2]) \div 2>>
                             ELSE <<w[1], (w[1] + w[2]) \div 2 - 1, w[3]>>]]

LEMMA LastFittingIs ==
    \A b, most, from :
      LastFitting(b, most, from) =
        LET rest == b.length - from + 1
            best == LastFittingSearch(b, most, from, rest)[<<1, rest, 0>>]
        IN  IF best = 0 THEN 0 ELSE from + best - 1
BY DEF LastFitting, LastFittingSearch, FitsCode

LEMMA MostCharacters ==
    ASSUME NEW b, NEW most, NEW from, NEW rest \in Nat
    PROVE  LET n == LastFittingSearch(b, most, from, rest)[<<1, rest, 0>>] IN
           /\ n \in 0..rest
           /\ n = 0 \/ FitsCode(b, most, from, n)
           /\ n = rest \/ ~FitsCode(b, most, from, n + 1)
<1> DEFINE W == (1..(rest + 1)) \X (0..rest) \X (0..rest)
           mid(w) == (w[1] + w[2]) \div 2
           fits(n) == FitsCode(b, most, from, n)
           Stop == {w \in W : w[1] > w[2]}
           val == [w \in W |-> w[3]]
           next == [w \in W |-> IF fits(mid(w)) THEN <<mid(w) + 1, w[2], mid(w)>> ELSE <<w[1], mid(w) - 1, w[3]>>]
           rank == [w \in W |-> IF w[1] > w[2] THEN 0 ELSE w[2] - w[1] + 1]
           I == {w \in W : /\ w[1] <= w[2] + 1 /\ w[3] = w[1] - 1
                           /\ w[3] = 0 \/ fits(w[3])
                           /\ w[2] = rest \/ ~fits(w[2] + 1)}
           V == {n \in 0..rest : (n = 0 \/ fits(n)) /\ (n = rest \/ ~fits(n + 1))}
           search == LastFittingSearch(b, most, from, rest)
<1> HIDE DEF fits
<1>1. \A w \in W : w[1] \in 1..(rest + 1) /\ w[2] \in 0..rest /\ w[3] \in 0..rest
  OBVIOUS
<1>2. rank \in [W -> 0..(rest + 1)]
  <2>1. \A w \in W : (IF w[1] > w[2] THEN 0 ELSE w[2] - w[1] + 1) \in 0..(rest + 1)
    BY <1>1
  <2> QED BY <2>1
<1>3. ASSUME NEW w \in W \ Stop
      PROVE  /\ mid(w) \in Int /\ w[1] <= mid(w) /\ mid(w) <= w[2]
             /\ <<mid(w) + 1, w[2], mid(w)>> \in W /\ <<w[1], mid(w) - 1, w[3]>> \in W
  <2>1. w[1] \in 1..(rest + 1) /\ w[2] \in 0..rest /\ w[3] \in 0..rest /\ w[1] <= w[2]
    BY <1>1
  <2>2. mid(w) \in Int /\ w[1] <= mid(w) /\ mid(w) <= w[2]
    BY <2>1, SMT
  <2> HIDE DEF mid
  <2>3. mid(w) + 1 \in 1..(rest + 1) /\ mid(w) \in 0..rest /\ mid(w) - 1 \in 0..rest
    BY <2>1, <2>2
  <2> QED BY <2>1, <2>2, <2>3
<1>4. \A w \in W \ Stop : next[w] \in W /\ rank[next[w]] < rank[w]
  <2> TAKE w \in W \ Stop
  <2>1. w[1] \in 1..(rest + 1) /\ w[2] \in 0..rest /\ w[1] <= w[2] /\ w \in W
    BY <1>1
  <2>2. next[w] = IF fits(mid(w)) THEN <<mid(w) + 1, w[2], mid(w)>> ELSE <<w[1], mid(w) - 1, w[3]>>
    BY <2>1
  <2>3. rank[w] = w[2] - w[1] + 1
    BY <2>1
  <2>4. /\ mid(w) \in Int /\ w[1] <= mid(w) /\ mid(w) <= w[2]
        /\ <<mid(w) + 1, w[2], mid(w)>> \in W /\ <<w[1], mid(w) - 1, w[3]>> \in W
    BY <1>3
  <2>5. /\ rank[<<mid(w) + 1, w[2], mid(w)>>] = IF mid(w) + 1 > w[2] THEN 0 ELSE w[2] - (mid(w) + 1) + 1
        /\ rank[<<w[1], mid(w) - 1, w[3]>>] = IF w[1] > mid(w) - 1 THEN 0 ELSE (mid(w) - 1) - w[1] + 1
    BY <2>4
  <2> HIDE DEF next, rank, mid, W
  <2>6. rank[<<mid(w) + 1, w[2], mid(w)>>] < rank[w] /\ rank[<<w[1], mid(w) - 1, w[3]>>] < rank[w]
    BY <2>1, <2>3, <2>4, <2>5
  <2> QED BY <2>2, <2>4, <2>6
<1>5. Descends(W, Stop, next, rest + 1, rank)
  <2>1. rest + 1 \in Nat
    OBVIOUS
  <2> QED BY <1>2, <1>4, <2>1, Zenon DEF Descends
<1>6. Loops(search, W, Stop, val, next)
  <2>1. PICK g : Loops(g, W, Stop, val, next)
    <3> HIDE DEF W, Stop, val, next, rank
    <3> QED BY <1>5, LoopDefined, Zenon
  <2>2. \A f : [w \in W |-> IF w \in Stop THEN val[w] ELSE f[next[w]]]
             = [w \in W |-> IF w[1] > w[2] THEN w[3]
                            ELSE f[IF fits(mid(w)) THEN <<mid(w) + 1, w[2], mid(w)>> ELSE <<w[1], mid(w) - 1, w[3]>>]]
    OBVIOUS
  <2>3. g = [w \in W |-> IF w[1] > w[2] THEN w[3]
                          ELSE g[IF fits(mid(w)) THEN <<mid(w) + 1, w[2], mid(w)>> ELSE <<w[1], mid(w) - 1, w[3]>>]]
    <3> HIDE DEF W, Stop, val, next, mid
    <3> QED BY <2>1, <2>2, Zenon DEF Loops
  <2>4. search = [w \in W |-> IF w[1] > w[2] THEN w[3]
                          ELSE search[IF fits(mid(w)) THEN <<mid(w) + 1, w[2], mid(w)>> ELSE <<w[1], mid(w) - 1, w[3]>>]]
    BY <2>3, Zenon DEF LastFittingSearch, fits
  <2> HIDE DEF W, Stop, val, next, mid, search
  <2> QED BY <2>2, <2>4, Zenon DEF Loops
<1>7. \A w \in I \ Stop : next[w] \in I
  <2> TAKE w \in I \ Stop
  <2>1. w \in W \ Stop /\ w[1] \in 1..(rest + 1) /\ w[2] \in 0..rest /\ w[3] \in 0..rest
    BY <1>1
  <2>2. /\ mid(w) \in Int /\ w[1] <= mid(w) /\ mid(w) <= w[2]
        /\ <<mid(w) + 1, w[2], mid(w)>> \in W /\ <<w[1], mid(w) - 1, w[3]>> \in W
    BY <1>3, <2>1
  <2>3. next[w] = IF fits(mid(w)) THEN <<mid(w) + 1, w[2], mid(w)>> ELSE <<w[1], mid(w) - 1, w[3]>>
    BY <2>1
  <2>4. w[3] = w[1] - 1 /\ (w[3] = 0 \/ fits(w[3])) /\ (w[2] = rest \/ ~fits(w[2] + 1))
    OBVIOUS
  <2> HIDE DEF mid, W, next
  <2>5. CASE fits(mid(w))
    <3>1. next[w] = <<mid(w) + 1, w[2], mid(w)>>
      BY <2>3, <2>5
    <3>2. mid(w) + 1 <= w[2] + 1 /\ mid(w) = mid(w) + 1 - 1
      BY <2>1, <2>2
    <3> QED BY <2>2, <2>4, <2>5, <3>1, <3>2
  <2>6. CASE ~fits(mid(w))
    <3>1. w[1] <= mid(w) - 1 + 1 /\ mid(w) - 1 + 1 = mid(w)
      BY <2>1, <2>2
    <3>2. next[w] = <<w[1], mid(w) - 1, w[3]>>
      BY <2>3, <2>6
    <3> QED BY <2>2, <2>4, <2>6, <3>1, <3>2
  <2> QED BY <2>5, <2>6
<1>8. \A w \in I \cap Stop : val[w] \in V
  <2> TAKE w \in I \cap Stop
  <2>1. w[1] \in 1..(rest + 1) /\ w[2] \in 0..rest /\ w[3] \in 0..rest /\ w[3] = w[2] /\ val[w] = w[3]
    BY <1>1
  <2> QED BY <2>1
<1>9. <<1, rest, 0>> \in I
  <2>1. <<1, rest, 0>> \in W
    OBVIOUS
  <2> HIDE DEF W
  <2> QED BY <2>1
<1>10. I \in SUBSET W
  OBVIOUS
<1> HIDE DEF W, Stop, val, next, rank, I, V, search
<1>11. Stays(I, V, W, Stop, val, next)
  BY <1>7, <1>8, <1>10, Zenon DEF Stays
<1>12. \A w \in I : search[w] \in V
  BY <1>5, <1>6, <1>11, LoopYields, Zenon
<1>13. search[<<1, rest, 0>>] \in V
  BY <1>9, <1>12, Zenon
<1> QED BY <1>13 DEF V, search, fits

\* A chunk of a kit, as long as its code allows.
LEMMA NextCut ==
    ASSUME NEW b, b.length \in Nat, NEW most, NEW from \in Nat \ {0}, from <= b.length
    PROVE  LET last == LastFitting(b, most, from) IN
           last = 0 \/ /\ last \in from..b.length
                       /\ ScriptLen(b, from, last) <= most
                       /\ last < b.length => ~(ScriptLen(b, from, last + 1) <= most)
<1> DEFINE rest == b.length - from + 1
           n == LastFittingSearch(b, most, from, rest)[<<1, rest, 0>>]
<1>1. rest \in Nat
  OBVIOUS
<1>2. LastFitting(b, most, from) = IF n = 0 THEN 0 ELSE from + n - 1
  BY LastFittingIs
<1> HIDE DEF rest
<1>3. /\ n \in 0..rest
      /\ n = 0 \/ FitsCode(b, most, from, n)
      /\ n = rest \/ ~FitsCode(b, most, from, n + 1)
  BY <1>1, MostCharacters
<1> HIDE DEF n
<1>4. CASE n = 0
  BY <1>2, <1>4
<1>5. CASE n # 0
  <2>1. from + n - 1 \in from..b.length /\ (from + n - 1 < b.length => n # rest) /\ from + (n + 1) - 1 = from + n - 1 + 1
    BY <1>1, <1>3, <1>5 DEF rest
  <2> QED BY <1>2, <1>3, <1>5, <2>1 DEF FitsCode
<1> QED BY <1>4, <1>5

-----------------------------------------------------------------------------
(* What a backup is, once it is chosen. *)

\* b is a backup: what BackupsAssumption says, as facts to cite one by one.
LEMMA BackupFacts ==
    ASSUME NEW b \in Backups
    PROVE  /\ Printable(DocumentOf(b, 1))
           /\ b.length \in Nat \ {0} /\ b.smallLen \in Nat \ {0} /\ b.capacity \in Nat \ {0}
           /\ b.preferred \in Nat /\ (b.kind # "kit" => b.preferred > 0)
           /\ b.wrapper \in Nat /\ b.escapes \subseteq Nat
           /\ b.kind \in {"main", "recovery", "kit", "shard", "signing"}
<1>1. Printable(DocumentOf(b, 1))
  BY BackupsAssumption, Zenon
<1>2. /\ b.length \in Nat \ {0} /\ b.smallLen \in Nat \ {0} /\ b.capacity \in Nat \ {0}
      /\ b.preferred \in Nat /\ (b.kind # "kit" => b.preferred > 0)
      /\ b.wrapper \in Nat /\ b.escapes \subseteq Nat
  BY BackupsAssumption, Zenon
<1>3. b.kind \in {"main", "recovery", "kit", "shard", "signing"}
  <2>1. DocumentOf(b, 1).kind = b.kind
    BY DEF DocumentOf
  <2>2. DocumentOf(b, 1).kind \in {"main", "recovery", "kit"} \cup ShardKinds
    BY <1>1, Zenon DEF Printable
  <2> QED BY <2>1, <2>2 DEF ShardKinds
<1> QED BY <1>1, <1>2, <1>3, Zenon

LEMMA DocumentFields ==
    ASSUME NEW b, NEW n
    PROVE  LET d == DocumentOf(b, n) IN
           /\ d.kind = b.kind /\ d.qrs = n /\ d.texts = TextsOf(b) /\ d.quorumless = b.quorumless
           /\ d.tops = b.tops /\ d.groups = b.groups /\ d.sheet = b.sheet /\ d.style = b.style
BY DEF DocumentOf

\* The number of its codes does not make a document unprintable.
LEMMA AnyNumberPrintable ==
    ASSUME NEW b \in Backups, NEW n \in Nat \ {0}
    PROVE  Printable(DocumentOf(b, n))
<1> DEFINE d == DocumentOf(b, 1)
           e == DocumentOf(b, n)
<1>1. Printable(d)
  BY BackupFacts
<1>2. /\ e.kind = d.kind /\ e.texts = d.texts /\ e.tops = d.tops /\ e.groups = d.groups
      /\ e.sheet = d.sheet /\ e.style = d.style /\ e.qrs = n
  BY DocumentFields
<1>3. ShowsText(e) = ShowsText(d)
  BY <1>2 DEF ShowsText
<1> HIDE DEF d, e
<1>4. /\ d.kind \in {"main", "recovery", "kit"} \cup ShardKinds
      /\ d.texts \in Seq(Nat \ {0})
      /\ ShowsText(d) => d.texts # <<>>
      /\ d.tops.first \in Nat /\ d.tops.rest \in Nat
      /\ d.groups.first \in Nat \ {0} /\ d.groups.rest \in Nat \ {0}
      /\ \A k \in {"height", "width", "margin", "gap", "textGap", "maxRows", "maxCols", "minLines"} :
           d.sheet[k] \in Nat
      /\ d.sheet.qr \in Nat \ {0} /\ d.sheet.line \in Nat \ {0}
      /\ d.style.quorumlessGroups \in Nat
      /\ \A k \in DOMAIN NoBonus : d.style.bonus[k] \in Nat
      /\ \A k \in ShardKinds : d.style.estimate[k] \in Nat
      /\ \A k \in ShardKinds \cup {"recovery"} :
           /\ d.style.groups[k] \in Nat
           /\ \A z \in {"floor", "first", "rest"} : d.style.zone[k][z] \in Nat
  BY <1>1, Zenon DEF Printable
<1>5. Printable(e)
  BY <1>2, <1>3, <1>4, Zenon DEF Printable
<1> QED BY <1>5 DEF e

-----------------------------------------------------------------------------
(* The loop over sizes. *)

Allowed == 1..Least2(backup.preferred, backup.length)
Longest(c) == LargestChunk(backup.length, TotalOf(backup.length, c))

\* No chunk that was asked for, and is easily made, is longer than n.
NoneLonger(n) == \A c \in Allowed : WorksEasily(c) => Longest(c) <= n

LEMMA AllowedSize ==
    ASSUME backup \in Backups, NEW c \in Allowed
    PROVE  /\ c \in Nat \ {0} /\ c <= Least2(backup.preferred, backup.length)
           /\ Longest(c) \in Nat \ {0} /\ Longest(c) <= c
           /\ TotalOf(backup.length, c) \in Nat \ {0}
           /\ TotalOf(backup.length, Longest(c)) = TotalOf(backup.length, c)
<1>1. backup.length \in Nat \ {0} /\ backup.preferred \in Nat
  BY BackupFacts
<1>2. c \in Nat \ {0} /\ c <= Least2(backup.preferred, backup.length)
  BY <1>1 DEF Allowed, Least2
<1> QED BY <1>1, <1>2, LongestChunk DEF Longest

\* What fits in the longest chunks fits with what is tried, which is no longer.
LEMMA EasyFits ==
    ASSUME backup \in Backups, NEW c \in Allowed, WorksEasily(c),
           NEW s \in Nat \ {0}, Longest(c) <= s, NEW t \in Nat \ {0}, t <= Longest(c)
    PROVE  /\ TotalOf(backup.length, s) <= MAX_MAIN_FRAME_TOTAL
           /\ Probe(backup, t, TotalOf(backup.length, s))
<1> DEFINE l == Longest(c)
           n == TotalOf(backup.length, s)
           m == TotalOf(backup.length, c)
<1>1. backup.length \in Nat \ {0} /\ backup.capacity \in Nat
  BY BackupFacts
<1>2. l \in Nat \ {0} /\ m \in Nat \ {0} /\ TotalOf(backup.length, l) = m
  BY AllowedSize
<1>3. n \in Nat \ {0} /\ n <= m
  <2> HIDE DEF l, m
  <2>1. l <= s
    BY DEF l
  <2>2. TotalOf(backup.length, s) <= TotalOf(backup.length, l)
    BY <1>1, <1>2, <2>1, FewerOrSmaller
  <2> QED BY <1>1, <1>2, <2>2, LongestChunk
<1>4. m <= MAX_MAIN_FRAME_TOTAL /\ Probe(backup, l, m)
  BY DEF WorksEasily, Longest
<1>5. n <= MAX_MAIN_FRAME_TOTAL
  BY <1>2, <1>3, <1>4, FrameConstants
<1>6. Probe(backup, t, n)
  <2>1. FrameFits(backup, l, m - 1, m)
    BY <1>4 DEF Probe
  <2>2. t <= l
    OBVIOUS
  <2> HIDE DEF l, n, m
  <2>3. l \in Nat /\ n - 1 \in Nat /\ m - 1 \in Nat /\ n - 1 <= m - 1 /\ n \in Nat /\ m \in Nat
    BY <1>2, <1>3
  <2>4. FrameFits(backup, t, n - 1, n)
    BY <1>1, <1>3, <2>1, <2>2, <2>3, FrameShrinks
  <2> QED BY <2>4 DEF Probe
<1> QED BY <1>5, <1>6

\* The first size is the longest that was asked for.
LEMMA FirstSize ==
    ASSUME backup \in Backups, backup.kind # "kit", size = Least2(backup.preferred, backup.length)
    PROVE  size \in Nat \ {0} /\ NoneLonger(size)
<1>1. backup.length \in Nat \ {0} /\ backup.preferred \in Nat \ {0}
  BY BackupFacts
<1>2. size \in Nat \ {0}
  BY <1>1 DEF Least2
<1>3. \A c \in Allowed : Longest(c) <= size
  <2> TAKE c \in Allowed
  <2>1. c \in Nat \ {0} /\ c <= size /\ Longest(c) \in Nat \ {0} /\ Longest(c) <= c
    BY AllowedSize
  <2> QED BY <1>2, <2>1
<1> QED BY <1>2, <1>3 DEF NoneLonger

\* One turn of the loop: the next size is the largest that fits among as many chunks.
LEMMA NextSize ==
    ASSUME backup \in Backups, size \in Nat \ {0}, NoneLonger(size),
           NEW n, n = TotalOf(backup.length, size),
           NEW largest, largest = LargestChunk(backup.length, n),
           ~Probe(backup, largest, n), Probe(backup, 1, n)
    PROVE  /\ FittingSize(backup, n, largest) \in Nat \ {0}
           /\ NoneLonger(FittingSize(backup, n, largest))
<1> DEFINE s == FittingSize(backup, n, largest)
<1>1. backup.length \in Nat \ {0}
  BY BackupFacts
<1>2. largest \in Nat \ {0}
  BY <1>1, LongestChunk
<1>3. s \in 1..largest /\ Probe(backup, s, n) /\ (s = largest \/ ~Probe(backup, s + 1, n))
  BY <1>2, BestSize
<1> HIDE DEF s
<1>4. s \in Nat \ {0} /\ s + 1 \in Nat \ {0} /\ ~Probe(backup, s + 1, n)
  <2>1. s # largest
    BY <1>3
  <2> QED BY <1>2, <1>3, <2>1
<1>5. ASSUME NEW c \in Allowed, WorksEasily(c) PROVE Longest(c) <= s
  <2>1. Longest(c) \in Nat \ {0}
    BY AllowedSize
  <2>2. Longest(c) <= size
    BY <1>5 DEF NoneLonger
  <2>3. s + 1 <= Longest(c) => Probe(backup, s + 1, n)
    BY <1>4, <1>5, <2>2, EasyFits
  <2> QED BY <1>4, <2>1, <2>3
<1> QED BY <1>4, <1>5 DEF NoneLonger, s

\* A refusal, of too many frames or of a code too small for one byte: nothing works.
LEMMA RefusedRightly ==
    ASSUME backup \in Backups, size \in Nat \ {0}, NoneLonger(size),
           NEW n, n = TotalOf(backup.length, size),
           n > MAX_MAIN_FRAME_TOTAL \/ ~Probe(backup, 1, n)
    PROVE  \A c \in Allowed : ~WorksEasily(c)
<1> SUFFICES ASSUME NEW c \in Allowed, WorksEasily(c) PROVE FALSE
  OBVIOUS
<1>1. Longest(c) \in Nat \ {0} /\ Longest(c) <= size
  BY AllowedSize DEF NoneLonger
<1>2. 1 \in Nat \ {0} /\ 1 <= Longest(c)
  BY <1>1
<1>3. n <= MAX_MAIN_FRAME_TOTAL /\ Probe(backup, 1, n)
  BY <1>1, <1>2, EasyFits
<1>4. n \in Nat
  <2>1. backup.length \in Nat \ {0}
    BY BackupFacts
  <2> QED BY <2>1, LongestChunk
<1> QED BY <1>3, <1>4, FrameConstants

\* The size that is settled on makes frames that fit their codes, and no shorter than need be.
LEMMA SizeSettled ==
    ASSUME backup \in Backups, size \in Nat \ {0}, NoneLonger(size),
           NEW n, n = TotalOf(backup.length, size), n <= MAX_MAIN_FRAME_TOTAL,
           Probe(backup, LargestChunk(backup.length, n), n)
    PROVE  Works(size) /\ NoneLonger(Longest(size))
<1> DEFINE g == LargestChunk(backup.length, n)
           L == backup.length
<1>1. L \in Nat \ {0} /\ backup.capacity \in Nat
  BY BackupFacts
<1>2. n \in Nat \ {0} /\ n <= L /\ g \in Nat \ {0}
  BY <1>1, LongestChunk
<1>3. ASSUME NEW i \in 1..n
      PROVE  LET f == Chunks(Ours, L, n)[i] IN FrameFits(backup, SizeOf(f), f.index, f.total)
  <2> DEFINE f == Chunks(Ours, L, n)[i]
             j == i - 1
             len == ChunkStart(L, n, j + 1) - ChunkStart(L, n, j)
  <2>1. j \in Nat /\ j + 1 = i /\ j <= n - 1 /\ n - 1 \in Nat /\ n \in Nat
    BY <1>2
  <2>2. f = MainFrame(Ours, L, n, j)
    BY DEF Chunks
  <2>3. /\ ChunkStart(L, n, j) \in Nat /\ ChunkStart(L, n, j + 1) \in Nat
        /\ ChunkStart(L, n, j) < ChunkStart(L, n, j + 1) /\ len <= g
    <3>1. j + 1 \in Nat
      BY <2>1
    <3> HIDE DEF j, g
    <3> QED BY <1>1, <1>2, <2>1, <3>1, ChunkStarts DEF g
  <2>4. SizeOf(f) = ChunkStart(L, n, j + 1) - (ChunkStart(L, n, j) + 1) + 1 /\ f.index = j /\ f.total = n
    BY <2>2 DEF MainFrame, SizeOf
  <2> HIDE DEF f, j, g
  <2>5. SizeOf(f) = len /\ len \in Nat \ {0} /\ g \in Nat
    BY <1>2, <2>3, <2>4
  <2>6. FrameFits(backup, g, n - 1, n)
    BY DEF Probe, g
  <2> HIDE DEF len
  <2>7. FrameFits(backup, len, j, n)
    BY <1>1, <2>1, <2>3, <2>5, <2>6, FrameShrinks
  <2>8. FrameFits(backup, SizeOf(f), f.index, f.total)
    BY <2>4, <2>5, <2>7
  <2> QED BY <2>8 DEF f
<1>4. Works(size)
  BY <1>3 DEF Works
<1>5. ASSUME NEW c \in Allowed, WorksEasily(c) PROVE Longest(c) <= Longest(size)
  <2> DEFINE m == TotalOf(backup.length, c)
  <2>1. Longest(c) \in Nat \ {0} /\ m \in Nat \ {0} /\ TotalOf(L, Longest(c)) = m
    BY AllowedSize
  <2>2. Longest(c) <= size
    BY <1>5 DEF NoneLonger
  <2>3. n <= m
    BY <1>1, <2>1, <2>2, FewerOrSmaller
  <2>4. Longest(c) = LargestChunk(L, m) /\ Longest(size) = LargestChunk(L, n)
    BY DEF Longest
  <2> HIDE DEF m
  <2> QED BY <1>1, <1>2, <2>1, <2>3, <2>4, FewerOrSmaller
<1> QED BY <1>4, <1>5 DEF NoneLonger

-----------------------------------------------------------------------------
(* From the size to the codes: an inductive invariant of the program. *)

\* The codes of a backup whose chunks have the size c.
FramesOf(b, c) ==
    LET chunks == Chunks(Ours, b.length, TotalOf(b.length, c)) IN
    CASE b.kind = "main" -> Append(chunks, AuthFrame(Ours))
      [] b.kind \in ShardKinds -> <<KeyFrame(Ours)>>
      [] OTHER -> chunks

Pieces == [from : Nat \ {0}, to : Nat \ {0}]

\* Chunks of a kit: one after the other, each as long as its code allows.
CutWell(s) ==
    /\ s \in Seq(Pieces)
    /\ \A i \in 1..Len(s) :
         /\ s[i].to <= backup.length
         /\ ScriptLen(backup, s[i].from, s[i].to) <= size
         /\ s[i].to < backup.length => ~(ScriptLen(backup, s[i].from, s[i].to + 1) <= size)
         /\ s[i].from = IF i = 1 THEN 1 ELSE s[i - 1].to + 1

Shelled(s) == <<[shell |-> Len(s)]>> \o s

Framed == stage \in {"print", "read", "end"}

KitInv ==
    \E s : /\ CutWell(s)
           /\ codes = s \/ codes = Shelled(s)
           /\ stage = "size" => codes = s
           /\ Framed => codes = Shelled(s)

FrameInv ==
    /\ stage \in {"size", "frame"} => codes = <<>>
    /\ Framed => codes = FramesOf(backup, size)
    /\ stage = "refused" => codes = <<>> \/ codes = FramesOf(backup, size)
    /\ stage = "size" => NoneLonger(size)

StageInv ==
    /\ stage \in {"size", "frame", "print", "read", "end", "refused"}
    /\ doc = DocumentOf(backup, doc.qrs)
    /\ stage = "frame" => backup.kind # "kit"
    /\ stage \in {"size", "frame"} => PagesInit(doc)
    /\ stage = "print" => phase \in {"idle", "page", "text"}
    /\ stage \in {"read", "end"} => phase = "printed"
    /\ Framed => doc.qrs = Len(codes)

ProgramInv ==
    /\ backup \in Backups /\ size \in Nat \ {0}
    /\ PagesInv
    /\ StageInv
    /\ backup.kind = "kit" => KitInv
    /\ backup.kind # "kit" => FrameInv
    /\ SizesAreBest

-----------------------------------------------------------------------------
\* A backup has a code at least, and its codes are frames.
LEMMA CodesOfBackup ==
    ASSUME NEW b \in Backups, b.kind # "kit", NEW c \in Nat \ {0}
    PROVE  LET n == TotalOf(b.length, c)
               made == FramesOf(b, c)
           IN  /\ n \in 1..b.length
               /\ Len(made) \in Nat \ {0} /\ made # <<>>
               /\ b.kind = "main" =>
                    /\ Len(made) = n + 1 /\ made[n + 1] = AuthFrame(Ours)
                    /\ \A i \in 1..n : made[i] = MainFrame(Ours, b.length, n, i - 1)
               /\ b.kind = "recovery" =>
                    Len(made) = n /\ \A i \in 1..n : made[i] = MainFrame(Ours, b.length, n, i - 1)
               /\ b.kind \in ShardKinds => made = <<KeyFrame(Ours)>>
<1> DEFINE n == TotalOf(b.length, c)
           chunks == Chunks(Ours, b.length, n)
           made == FramesOf(b, c)
<1>1. b.length \in Nat \ {0} /\ b.kind \in {"main", "recovery", "shard", "signing"}
  BY BackupFacts
<1>2. n \in Nat \ {0} /\ n <= b.length
  BY <1>1, LongestChunk
<1>3. /\ b.kind = "main" => made = Append(chunks, AuthFrame(Ours))
      /\ b.kind \in ShardKinds => made = <<KeyFrame(Ours)>>
      /\ b.kind = "recovery" => made = chunks
  BY DEF FramesOf, ShardKinds
<1>4. chunks = [i \in 1..n |-> MainFrame(Ours, b.length, n, i - 1)]
  BY DEF Chunks
<1> HIDE DEF n, made, chunks
<1> DEFINE S == {MainFrame(Ours, b.length, n, i) : i \in Int} \cup {AuthFrame(Ours)}
<1>5. chunks \in Seq(S) /\ Len(chunks) = n
  BY <1>2, <1>4
<1>6. AuthFrame(Ours) \in S
  OBVIOUS
<1> HIDE DEF S
<1>7. CASE b.kind = "main"
  <2>1. made = Append(chunks, AuthFrame(Ours))
    BY <1>3, <1>7
  <2>2. /\ Len(made) = n + 1 /\ made[n + 1] = AuthFrame(Ours)
        /\ \A i \in 1..n : made[i] = chunks[i]
    BY <1>2, <1>5, <1>6, <2>1
  <2>3. Len(made) \in Nat \ {0} /\ made # <<>>
    BY <1>2, <2>2
  <2> QED BY <1>2, <1>4, <1>7, <2>2, <2>3 DEF n, made, ShardKinds
<1>8. CASE b.kind = "recovery"
  <2>1. Len(made) \in Nat \ {0} /\ made # <<>>
    BY <1>2, <1>3, <1>5, <1>8
  <2> QED BY <1>2, <1>3, <1>4, <1>5, <1>8, <2>1 DEF n, made, ShardKinds
<1>9. CASE b.kind \in ShardKinds
  BY <1>2, <1>3, <1>9 DEF n, made, ShardKinds
<1> QED BY <1>1, <1>7, <1>8, <1>9 DEF ShardKinds

\* What the codes of a kit are says that they are as long as they can be.
LEMMA KitIsBest ==
    ASSUME backup \in Backups, size \in Nat \ {0}, backup.kind = "kit", KitInv
    PROVE  SizesAreBest
<1>1. PICK s : CutWell(s) /\ (codes = s \/ codes = Shelled(s))
  BY Zenon DEF KitInv
<1>2. s \in Seq(Pieces) /\ Len(s) \in Nat
  BY <1>1 DEF CutWell
<1>3. \A x \in Pieces : /\ DOMAIN x = {"from", "to"} /\ x.from \in Nat \ {0} /\ x.to \in Nat \ {0}
  BY DEF Pieces
<1>4. \A i \in 1..Len(s) : s[i] \in Pieces
  BY <1>2
<1>5. backup.length \in Nat /\ backup.wrapper \in Nat /\ backup.escapes \subseteq Nat
  BY BackupFacts
<1>6. \A i \in 1..Len(s) :
        /\ ScriptLen(backup, s[i].from, s[i].to) <= size
        /\ s[i].to < backup.length => ScriptLen(backup, s[i].from, s[i].to + 1) > size
  <2> TAKE i \in 1..Len(s)
  <2>1. s[i].from \in Int /\ s[i].to + 1 \in Int
    BY <1>3, <1>4
  <2>2. ScriptLen(backup, s[i].from, s[i].to + 1) \in Int
    BY <1>5, <2>1, ScriptLenType
  <2> QED BY <1>1, <2>2 DEF CutWell
<1>7. \A i \in 1..Len(codes) : "from" \in DOMAIN codes[i] =>
           /\ ScriptLen(backup, codes[i].from, codes[i].to) <= size
           /\ codes[i].to < backup.length => ScriptLen(backup, codes[i].from, codes[i].to + 1) > size
           /\ codes[i].from = IF i = 1 \/ "shell" \in DOMAIN codes[i - 1] THEN 1 ELSE codes[i - 1].to + 1
  <2>1. CASE codes = s
    <3> TAKE i \in 1..Len(codes)
    <3>1. i # 1 => i - 1 \in 1..Len(s)
      BY <1>2, <2>1
    <3>2. i # 1 => ~("shell" \in DOMAIN codes[i - 1])
      BY <1>3, <1>4, <2>1, <3>1
    <3>3. codes[i].from = IF i = 1 THEN 1 ELSE codes[i - 1].to + 1
      BY <1>1, <2>1 DEF CutWell
    <3> QED BY <1>6, <2>1, <3>2, <3>3
  <2>2. CASE codes = Shelled(s)
    <3> DEFINE shell == [shell |-> Len(s)]
    <3>1. /\ Len(codes) = Len(s) + 1 /\ codes[1] = shell
          /\ \A j \in 1..Len(s) : codes[j + 1] = s[j]
      <4>1. shell \in {shell} \cup Pieces /\ s \in Seq({shell} \cup Pieces)
        BY <1>2
      <4> HIDE DEF shell
      <4>2. <<shell>> \in Seq({shell} \cup Pieces)
        BY <4>1
      <4>3. codes = <<shell>> \o s
        BY <2>2 DEF Shelled, shell
      <4> QED BY <1>2, <4>1, <4>2, <4>3
    <3>2. DOMAIN shell = {"shell"}
      OBVIOUS
    <3> HIDE DEF shell
    <3> TAKE i \in 1..Len(codes)
    <3>3. CASE i = 1
      BY <3>1, <3>2, <3>3
    <3>4. CASE i # 1
      <4> DEFINE j == i - 1
      <4>1. j \in 1..Len(s) /\ codes[i] = s[j] /\ i - 1 = j
        BY <1>2, <3>1, <3>4
      <4>2. CASE j = 1
        <5>1. "shell" \in DOMAIN codes[i - 1]
          BY <3>1, <3>2, <4>2
        <5>2. s[j].from = 1
          BY <1>1, <4>1, <4>2 DEF CutWell
        <5> QED BY <1>6, <4>1, <5>1, <5>2
      <4>3. CASE j # 1
        <5>1. j - 1 \in 1..Len(s) /\ codes[i - 1] = s[j - 1]
          <6>1. j - 1 \in 1..Len(s) /\ (j - 1) + 1 = i - 1
            BY <1>2, <4>1, <4>3
          <6> QED BY <3>1, <6>1
        <5>2. ~("shell" \in DOMAIN codes[i - 1])
          BY <1>3, <1>4, <5>1
        <5>3. s[j].from = s[j - 1].to + 1
          BY <1>1, <4>1, <4>3 DEF CutWell
        <5> QED BY <1>6, <3>4, <4>1, <5>1, <5>2, <5>3
      <4> QED BY <4>2, <4>3
    <3> QED BY <3>3, <3>4
  <2> QED BY <1>1, <2>1, <2>2
<1> QED BY <1>7 DEF SizesAreBest

\* Of the other backups: what the size must have been found to be.
LEMMA FramesAreBest ==
    ASSUME backup.kind # "kit",
           stage = "frame" => Works(size) /\ NoneLonger(Longest(size)),
           stage = "refused" /\ codes = <<>> /\ FrameFits(backup, backup.smallLen, 0, 1) =>
             \A c \in Allowed : ~WorksEasily(c)
    PROVE  SizesAreBest
BY Zenon DEF SizesAreBest, NoneLonger, Longest, Allowed

-----------------------------------------------------------------------------
(* The program's steps. *)

\* What is said of sizes is said of the backup.
LEMMA SameSizes ==
    ASSUME backup' = backup, NEW n
    PROVE  /\ NoneLonger(n) => NoneLonger(n)'
           /\ Works(n) => Works(n)'
           /\ (\A c \in Allowed : ~WorksEasily(c)) => (\A c \in Allowed : ~WorksEasily(c))'
           /\ NoneLonger(Longest(n)) => NoneLonger(Longest(n))'
<1>1. Allowed' = Allowed /\ \A c : Longest(c)' = Longest(c) /\ (WorksEasily(c)' <=> WorksEasily(c))
  BY Zenon DEF Allowed, Longest, WorksEasily
<1>2. Works(n) => Works(n)'
  BY Zenon DEF Works
<1>3. \A m : NoneLonger(m) => NoneLonger(m)'
  BY <1>1, Zenon DEF NoneLonger
<1>4. NoneLonger(Longest(n)) => NoneLonger(Longest(n))'
  BY <1>1, Zenon DEF NoneLonger
<1>5. (\A c \in Allowed : ~WorksEasily(c)) => (\A c \in Allowed : ~WorksEasily(c))'
  BY <1>1, Zenon
<1> QED BY <1>2, <1>3, <1>4, <1>5

LEMMA SameCuts ==
    ASSUME UNCHANGED <<backup, size>>, NEW s, CutWell(s)
    PROVE  CutWell(s)'
BY DEF CutWell

\* A step that leaves the pages, the sizes and the codes alone.
LEMMA PagesStay ==
    ASSUME PagesInv, UNCHANGED pageVars PROVE PagesInv' /\ doc' = doc /\ phase' = phase
BY PagesNextKeeps DEF pageVars

LEMMA Resting ==
    ASSUME ProgramInv, UNCHANGED <<pageVars, backup, size, codes>>,
           stage' = stage \/ (stage = "read" /\ stage' = "end")
    PROVE  ProgramInv'
<1>1. PagesInv' /\ doc' = doc /\ phase' = phase
  BY PagesStay DEF ProgramInv
<1>2. PagesInit(doc) => PagesInit(doc)'
  BY DEF PagesInit, pageVars
<1>3. StageInv'
  <2>1. doc' = DocumentOf(backup, doc.qrs)'
    BY <1>1, Zenon DEF ProgramInv, StageInv
  <2> QED BY <1>1, <1>2, <2>1 DEF ProgramInv, StageInv, Framed
<1>4. backup.kind = "kit" => KitInv'
  <2> SUFFICES ASSUME backup.kind = "kit" PROVE KitInv'
    OBVIOUS
  <2>1. PICK s : /\ CutWell(s)
                 /\ codes = s \/ codes = Shelled(s)
                 /\ stage = "size" => codes = s
                 /\ Framed => codes = Shelled(s)
    BY DEF ProgramInv, KitInv
  <2>2. CutWell(s)'
    BY <2>1, SameCuts
  <2> QED BY <2>1, <2>2 DEF KitInv, Framed
<1>5. backup.kind # "kit" => FrameInv'
  <2>1. NoneLonger(size) => NoneLonger(size)'
    <3>1. \A n : NoneLonger(n) => NoneLonger(n)'
      BY SameSizes, Zenon
    <3> QED BY <3>1, Zenon DEF NoneLonger
  <2> QED BY <2>1 DEF ProgramInv, FrameInv, Framed
<1>6. SizesAreBest'
  <2>1. CASE backup.kind = "kit"
    <3>1. (backup \in Backups /\ size \in Nat \ {0} /\ backup.kind = "kit" /\ KitInv)'
      BY <1>4, <2>1 DEF ProgramInv
    <3> QED BY <3>1, KitIsBest, PTL
  <2>2. CASE backup.kind # "kit"
    BY <2>2 DEF ProgramInv, SizesAreBest, Works, WorksEasily
  <2> QED BY <2>1, <2>2
<1> QED BY <1>1, <1>3, <1>4, <1>5, <1>6 DEF ProgramInv

LEMMA Refusing ==
    ASSUME ProgramInv, Refuse, stage \in {"size", "frame"},
           backup.kind # "kit" /\ FrameFits(backup, backup.smallLen, 0, 1) =>
             \A c \in Allowed : ~WorksEasily(c)
    PROVE  ProgramInv'
<1>1. PagesInv' /\ doc' = doc /\ phase' = phase
  BY PagesStay DEF ProgramInv, Refuse
<1>2. stage' = "refused" /\ UNCHANGED <<backup, size, codes>>
  BY DEF Refuse
<1>3. StageInv'
  <2>1. doc' = DocumentOf(backup, doc.qrs)'
    BY <1>1, <1>2, Zenon DEF ProgramInv, StageInv
  <2> QED BY <1>1, <1>2, <2>1 DEF StageInv, Framed
<1>4. backup.kind = "kit" => KitInv'
  <2> SUFFICES ASSUME backup.kind = "kit" PROVE KitInv'
    OBVIOUS
  <2>1. PICK s : CutWell(s) /\ (codes = s \/ codes = Shelled(s))
    BY DEF ProgramInv, KitInv
  <2>2. CutWell(s)'
    BY <1>2, <2>1, SameCuts
  <2> QED BY <1>2, <2>1, <2>2 DEF KitInv, Framed
<1>5. backup.kind # "kit" => FrameInv' /\ codes' = <<>>
  BY <1>2 DEF ProgramInv, FrameInv, Framed
<1>6. SizesAreBest'
  <2>1. CASE backup.kind = "kit"
    <3>1. (backup \in Backups /\ size \in Nat \ {0} /\ backup.kind = "kit" /\ KitInv)'
      BY <1>2, <1>4, <2>1 DEF ProgramInv
    <3> QED BY <3>1, KitIsBest, PTL
  <2>2. CASE backup.kind # "kit"
    <3>1. FrameFits(backup, backup.smallLen, 0, 1)' => (\A c \in Allowed : ~WorksEasily(c))'
      BY <1>2, <2>2, SameSizes, Zenon
    <3>2. (backup.kind # "kit")' /\ ~(stage = "frame")'
      BY <1>2, <2>2
    <3> QED BY <3>1, <3>2, FramesAreBest, PTL
  <2> QED BY <2>1, <2>2
<1> QED BY <1>1, <1>2, <1>3, <1>4, <1>5, <1>6 DEF ProgramInv

-----------------------------------------------------------------------------
LEMMA ProgramStarts == Init => ProgramInv
<1> SUFFICES ASSUME Init PROVE ProgramInv
  OBVIOUS
<1>1. backup \in Backups /\ stage = "size" /\ codes = <<>> /\ PagesInit(DocumentOf(backup, 1))
  BY DEF Init
<1>2. doc = DocumentOf(backup, 1)
  BY <1>1 DEF PagesInit
<1>3. PagesInv
  <2>1. Printable(doc) /\ PagesInit(doc)
    BY <1>1, <1>2, BackupFacts, Zenon
  <2> QED BY <2>1, PagesStartWell DEF PagesStart
<1>4. StageInv
  <2>1. doc.qrs = 1
    BY <1>2 DEF DocumentOf
  <2> QED BY <1>1, <1>2, <2>1 DEF StageInv, Framed
<1>5. backup.length \in Nat \ {0} /\ backup.preferred \in Nat /\ backup.capacity \in Nat \ {0}
  BY <1>1, BackupFacts
<1>6. CASE backup.kind = "kit"
  <2>1. size \in Nat \ {0}
    <3>1. CASE backup.preferred > 0
      BY <1>5, <1>6, <3>1 DEF Init
    <3>2. CASE ~(backup.preferred > 0)
      <4> DEFINE l == LargestCode(backup.capacity, MAX_QR_PROBE_BYTES)
      <4>1. l \in 1..MAX_QR_PROBE_BYTES /\ DEFAULT_KIT_CHUNK_SIZE \in Nat \ {0} /\ MAX_QR_PROBE_BYTES \in Nat \ {0}
        BY <1>5, LargestCodeType, KitAssumption
      <4>2. size = Least2(DEFAULT_KIT_CHUNK_SIZE, l)
        BY <1>6, <3>2 DEF Init
      <4> HIDE DEF l
      <4> QED BY <4>1, <4>2 DEF Least2
    <3> QED BY <3>1, <3>2
  <2>2. KitInv
    <3>1. CutWell(<<>>)
      BY DEF CutWell
    <3> QED BY <1>1, <3>1 DEF KitInv, Framed
  <2>3. SizesAreBest
    BY <1>1, <1>6, <2>1, <2>2, KitIsBest
  <2> QED BY <1>1, <1>3, <1>4, <1>6, <2>1, <2>2, <2>3 DEF ProgramInv
<1>7. CASE backup.kind # "kit"
  <2>1. size = Least2(backup.preferred, backup.length)
    BY <1>7 DEF Init
  <2>2. size \in Nat \ {0} /\ NoneLonger(size)
    BY <1>1, <1>7, <2>1, FirstSize
  <2>3. FrameInv
    BY <1>1, <2>2 DEF FrameInv, Framed
  <2>4. SizesAreBest
    BY <1>1, <1>7, FramesAreBest
  <2> QED BY <1>1, <1>3, <1>4, <1>7, <2>2, <2>3, <2>4 DEF ProgramInv
<1> QED BY <1>6, <1>7

LEMMA ChooseSizeKeeps == ASSUME ProgramInv, ChooseSize PROVE ProgramInv'
<1> DEFINE n == TotalOf(backup.length, size)
           largest == LargestChunk(backup.length, n)
<1>1. /\ backup \in Backups /\ size \in Nat \ {0} /\ backup.kind # "kit" /\ stage = "size"
      /\ NoneLonger(size) /\ codes = <<>> /\ PagesInv
  BY DEF ProgramInv, FrameInv, ChooseSize
<1>2. n \in Nat \ {0} /\ MAX_MAIN_FRAME_TOTAL \in Nat
  <2>1. backup.length \in Nat \ {0}
    BY <1>1, BackupFacts
  <2> QED BY <1>1, <2>1, LongestChunk, FrameConstants
<1>3. CASE Refuse /\ (n > MAX_MAIN_FRAME_TOTAL \/ ~Probe(backup, 1, n))
  <2>1. \A c \in Allowed : ~WorksEasily(c)
    BY <1>1, <1>3, RefusedRightly
  <2> QED BY <1>1, <1>3, <2>1, Refusing
<1>4. CASE /\ n <= MAX_MAIN_FRAME_TOTAL /\ Probe(backup, largest, n)
           /\ stage' = "frame" /\ UNCHANGED <<pageVars, backup, size, codes>>
  <2>1. PagesInv' /\ doc' = doc /\ phase' = phase
    BY <1>1, <1>4, PagesStay
  <2>2. StageInv'
    <3>1. doc' = DocumentOf(backup, doc.qrs)'
      BY <1>4, <2>1, Zenon DEF ProgramInv, StageInv
    <3>2. PagesInit(doc)'
      BY <1>1, <1>4 DEF PagesInit, pageVars, ProgramInv, StageInv
    <3> QED BY <1>1, <1>4, <3>1, <3>2 DEF StageInv, Framed
  <2>3. FrameInv'
    BY <1>1, <1>4 DEF FrameInv, Framed
  <2>4. SizesAreBest'
    <3>1. Works(size) /\ NoneLonger(Longest(size))
      BY <1>1, <1>4, SizeSettled
    <3>2. PICK s : s = size
      OBVIOUS
    <3>3. Works(s)' /\ NoneLonger(Longest(s))'
      BY <1>4, <3>1, <3>2, SameSizes, Zenon
    <3>4. (Works(size) /\ NoneLonger(Longest(size)))'
      BY <1>4, <3>2, <3>3, Zenon DEF Works, NoneLonger, Longest
    <3>5. (backup.kind # "kit")' /\ ~(stage = "refused")'
      BY <1>1, <1>4
    <3> QED BY <3>4, <3>5, FramesAreBest, PTL
  <2> QED BY <1>1, <1>4, <2>1, <2>2, <2>3, <2>4 DEF ProgramInv
<1>5. CASE /\ n <= MAX_MAIN_FRAME_TOTAL /\ ~Probe(backup, largest, n) /\ Probe(backup, 1, n)
           /\ size' = FittingSize(backup, n, largest) /\ UNCHANGED <<pageVars, backup, stage, codes>>
  <2>1. PICK s : s = size'
    OBVIOUS
  <2>2. s \in Nat \ {0} /\ NoneLonger(s)
    BY <1>1, <1>5, <2>1, NextSize, Zenon
  <2>3. PagesInv' /\ doc' = doc /\ phase' = phase
    BY <1>1, <1>5, PagesStay
  <2>4. StageInv'
    <3>1. doc' = DocumentOf(backup, doc.qrs)'
      BY <1>5, <2>3, Zenon DEF ProgramInv, StageInv
    <3>2. PagesInit(doc)'
      BY <1>1, <1>5 DEF PagesInit, pageVars, ProgramInv, StageInv
    <3> QED BY <1>1, <1>5, <3>1, <3>2 DEF StageInv, Framed
  <2>5. NoneLonger(size)'
    <3>1. NoneLonger(s)'
      BY <1>5, <2>2, SameSizes, Zenon
    <3> QED BY <2>1, <3>1, Zenon DEF NoneLonger
  <2>6. FrameInv'
    BY <1>1, <1>5, <2>5 DEF FrameInv, Framed
  <2>7. SizesAreBest'
    <3>1. (backup.kind # "kit")' /\ ~(stage = "refused")' /\ ~(stage = "frame")'
      BY <1>1, <1>5
    <3> QED BY <3>1, FramesAreBest, PTL
  <2> QED BY <1>1, <1>5, <2>1, <2>2, <2>3, <2>4, <2>6, <2>7 DEF ProgramInv
<1> QED BY <1>2, <1>3, <1>4, <1>5 DEF ChooseSize

\* A step that makes the codes: the document is made anew, with as many.
LEMMA DocumentMade ==
    ASSUME ProgramInv, stage \in {"size", "frame"}, stage' = "print",
           NEW n \in Nat \ {0}, doc' = DocumentOf(backup, n), n = Len(codes'),
           UNCHANGED <<phase, total, pages, blocks, cursor, lines, left, backup>>
    PROVE  PagesInv' /\ StageInv'
<1>1. backup \in Backups /\ PagesInit(doc) /\ doc = DocumentOf(backup, doc.qrs)
  BY DEF ProgramInv, StageInv
<1> DEFINE d == DocumentOf(backup, n)
<1>2. d.qrs = n /\ d.texts = doc.texts
  <2>1. d.qrs = n /\ d.texts = TextsOf(backup)
    BY DocumentFields
  <2>2. doc.texts = TextsOf(backup)
    BY <1>1, DocumentFields
  <2> QED BY <2>1, <2>2
<1>3. Printable(d)
  BY <1>1, AnyNumberPrintable
<1> HIDE DEF d
<1>4. doc' = d
  BY DEF d
<1>5. PagesStart'
  <2>1. Printable(doc)'
    BY <1>3, <1>4, Zenon
  <2>2. PagesInit(doc)'
    BY <1>1, <1>2, <1>4 DEF PagesInit
  <2> QED BY <2>1, <2>2 DEF PagesStart
<1>6. PagesInv'
  BY <1>5, PagesStartWell, PTL
<1>7. doc' = DocumentOf(backup, doc.qrs)'
  BY <1>2, <1>4 DEF d
<1>8. StageInv'
  BY <1>1, <1>2, <1>4, <1>7 DEF StageInv, Framed, PagesInit
<1> QED BY <1>6, <1>8

LEMMA FrameDocumentKeeps == ASSUME ProgramInv, FrameDocument PROVE ProgramInv'
<1> DEFINE frames == FramesOf(backup, size)
           fits == FrameFits(backup, backup.smallLen, 0, 1)
<1>1. stage = "frame" /\ backup \in Backups /\ size \in Nat \ {0} /\ backup.kind # "kit"
  BY DEF ProgramInv, StageInv, FrameDocument
<1>2. CASE Refuse /\ ~fits
  BY <1>1, <1>2, Refusing
<1>3. CASE /\ codes' = frames /\ doc' = DocumentOf(backup, Len(frames)) /\ stage' = "print"
           /\ UNCHANGED <<phase, total, pages, blocks, cursor, lines, left, backup, size, read, outcome>>
  <2>1. Len(frames) \in Nat \ {0}
    BY <1>1, CodesOfBackup
  <2>2. PagesInv' /\ StageInv'
    <3> HIDE DEF frames
    <3> QED BY <1>1, <1>3, <2>1, DocumentMade
  <2>3. FrameInv'
    BY <1>3 DEF FrameInv, Framed
  <2>4. SizesAreBest'
    <3>1. (backup.kind # "kit")' /\ ~(stage = "refused")' /\ ~(stage = "frame")'
      BY <1>1, <1>3
    <3> QED BY <3>1, FramesAreBest, PTL
  <2> QED BY <1>1, <1>3, <2>2, <2>3, <2>4 DEF ProgramInv
<1>4. \/ Refuse /\ ~fits
      \/ /\ codes' = frames /\ doc' = DocumentOf(backup, Len(frames)) /\ stage' = "print"
         /\ UNCHANGED <<phase, total, pages, blocks, cursor, lines, left, backup, size, read, outcome>>
  BY Zenon DEF FrameDocument, FramesOf
<1> QED BY <1>2, <1>3, <1>4

\* The codes of a kit that is being cut.
LEMMA CutSoFar ==
    ASSUME ProgramInv, stage = "size", backup.kind = "kit"
    PROVE  /\ backup \in Backups /\ size \in Nat \ {0} /\ PagesInv
           /\ CutWell(codes) /\ codes \in Seq(Pieces) /\ Len(codes) \in Nat
           /\ Cut \in Nat
           /\ codes # <<>> => Cut = codes[Len(codes)].to
<1>1. backup \in Backups /\ size \in Nat \ {0} /\ PagesInv /\ CutWell(codes)
  BY DEF ProgramInv, KitInv
<1>2. codes \in Seq(Pieces)
  BY <1>1 DEF CutWell
<1>3. Len(codes) \in Nat /\ (codes # <<>> => codes[Len(codes)] \in Pieces)
  BY <1>2
<1> QED BY <1>1, <1>2, <1>3 DEF Cut, Pieces

LEMMA SplitKitKeeps == ASSUME ProgramInv, SplitKit PROVE ProgramInv'
<1> DEFINE last == LastFitting(backup, size, Cut + 1)
           piece == [from |-> Cut + 1, to |-> last]
<1>1. /\ stage = "size" /\ backup.kind = "kit" /\ Cut < backup.length
      /\ Refuse \/ (/\ last > 0 /\ codes' = Append(codes, piece)
                    /\ UNCHANGED <<pageVars, backup, stage, size>>)
  BY DEF SplitKit
<1>2. /\ backup \in Backups /\ size \in Nat \ {0} /\ PagesInv
      /\ CutWell(codes) /\ codes \in Seq(Pieces) /\ Len(codes) \in Nat
      /\ Cut \in Nat /\ (codes # <<>> => Cut = codes[Len(codes)].to)
  BY <1>1, CutSoFar
<1>3. CASE Refuse
  BY <1>1, <1>3, Refusing
<1>4. CASE /\ last > 0 /\ codes' = Append(codes, piece)
           /\ UNCHANGED <<pageVars, backup, stage, size>>
  <2>1. /\ last \in (Cut + 1)..backup.length
        /\ ScriptLen(backup, Cut + 1, last) <= size
        /\ last < backup.length => ~(ScriptLen(backup, Cut + 1, last + 1) <= size)
    <3>1. backup.length \in Nat
      BY <1>2, BackupFacts
    <3>2. Cut + 1 \in Nat \ {0} /\ Cut + 1 <= backup.length
      BY <1>1, <1>2, <3>1
    <3>3. last # 0
      BY <1>4
    <3> HIDE DEF last
    <3> QED BY <3>1, <3>2, <3>3, NextCut DEF last
  <2>2. piece.from = Cut + 1 /\ piece.to = last /\ piece \in Pieces
    <3>1. backup.length \in Nat
      BY <1>2, BackupFacts
    <3> HIDE DEF last
    <3> QED BY <1>2, <2>1, <3>1 DEF Pieces
  <2>3. Cut = IF codes = <<>> THEN 0 ELSE codes[Len(codes)].to
    BY DEF Cut
  <2> DEFINE cut == Cut
  <2>4. PICK s : s = Append(codes, piece)
    OBVIOUS
  <2> HIDE DEF last, piece, cut
  <2>5. /\ s \in Seq(Pieces) /\ Len(s) = Len(codes) + 1 /\ s[Len(s)] = piece
        /\ \A i \in 1..Len(codes) : s[i] = codes[i]
    BY <1>2, <2>2, <2>4
  <2>6. CutWell(s)
    <3> SUFFICES ASSUME NEW i \in 1..Len(s)
                 PROVE  /\ s[i].to <= backup.length
                        /\ ScriptLen(backup, s[i].from, s[i].to) <= size
                        /\ s[i].to < backup.length => ~(ScriptLen(backup, s[i].from, s[i].to + 1) <= size)
                        /\ s[i].from = IF i = 1 THEN 1 ELSE s[i - 1].to + 1
      BY <2>5 DEF CutWell
    <3>1. CASE i \in 1..Len(codes)
      <4>1. s[i] = codes[i] /\ (i # 1 => s[i - 1] = codes[i - 1])
        BY <1>2, <2>5, <3>1
      <4> QED BY <1>2, <3>1, <4>1 DEF CutWell
    <3>2. CASE i = Len(codes) + 1
      <4>1. s[i] = piece /\ (i # 1 => i - 1 = Len(codes) /\ codes # <<>> /\ s[i - 1] = codes[Len(codes)])
        BY <1>2, <2>5, <3>2
      <4>2. i = 1 => codes = <<>>
        BY <1>2, <3>2
      <4>3. piece.to <= backup.length
        <5>1. backup.length \in Nat
          BY <1>2, BackupFacts
        <5> QED BY <1>2, <2>1, <2>2, <5>1
      <4>4. piece.from = IF i = 1 THEN 1 ELSE s[i - 1].to + 1
        <5>1. CASE i = 1
          BY <2>2, <2>3, <4>2, <5>1
        <5>2. CASE i # 1
          BY <2>2, <2>3, <4>1, <5>2
        <5> QED BY <5>1, <5>2
      <4> QED BY <2>1, <2>2, <4>1, <4>3, <4>4
    <3> QED BY <1>2, <2>5, <3>1, <3>2
  <2>7. CutWell(s)'
    BY <1>4, <2>6, SameCuts
  <2>8. KitInv'
    BY <1>1, <1>4, <2>4, <2>7 DEF KitInv, Framed
  <2>9. PagesInv' /\ doc' = doc /\ phase' = phase
    BY <1>2, <1>4, PagesStay
  <2>10. StageInv'
    <3>1. doc' = DocumentOf(backup, doc.qrs)'
      BY <1>4, <2>9, Zenon DEF ProgramInv, StageInv
    <3>2. PagesInit(doc)'
      BY <1>1, <1>4 DEF PagesInit, pageVars, ProgramInv, StageInv
    <3> QED BY <1>1, <1>4, <3>1, <3>2 DEF StageInv, Framed
  <2>11. SizesAreBest'
    <3>1. (backup \in Backups /\ size \in Nat \ {0} /\ backup.kind = "kit" /\ KitInv)'
      BY <1>1, <1>2, <1>4, <2>8
    <3> QED BY <3>1, KitIsBest, PTL
  <2> QED BY <1>1, <1>2, <1>4, <2>8, <2>9, <2>10, <2>11 DEF ProgramInv
<1> QED BY <1>1, <1>3, <1>4

LEMMA FrameKitKeeps == ASSUME ProgramInv, FrameKit PROVE ProgramInv'
<1>1. /\ stage = "size" /\ backup.kind = "kit"
      /\ Refuse \/ (/\ codes' = Shelled(codes) /\ doc' = DocumentOf(backup, Len(codes) + 1) /\ stage' = "print"
                    /\ UNCHANGED <<phase, total, pages, blocks, cursor, lines, left, backup, size>>)
  BY DEF FrameKit, Shelled
<1>2. /\ backup \in Backups /\ size \in Nat \ {0}
      /\ CutWell(codes) /\ codes \in Seq(Pieces) /\ Len(codes) \in Nat
  BY <1>1, CutSoFar
<1>3. CASE Refuse
  BY <1>1, <1>3, Refusing
<1>4. CASE /\ codes' = Shelled(codes) /\ doc' = DocumentOf(backup, Len(codes) + 1) /\ stage' = "print"
           /\ UNCHANGED <<phase, total, pages, blocks, cursor, lines, left, backup, size>>
  <2> DEFINE n == Len(codes) + 1
  <2>1. n \in Nat \ {0} /\ n = Len(codes')
    <3> DEFINE shell == [shell |-> Len(codes)]
    <3>1. codes' = <<shell>> \o codes
      BY <1>4 DEF Shelled
    <3> HIDE DEF shell
    <3>2. <<shell>> \in Seq({shell} \cup Pieces) /\ codes \in Seq({shell} \cup Pieces) /\ Len(<<shell>>) = 1
      BY <1>2
    <3> QED BY <1>2, <3>1, <3>2
  <2>2. PagesInv' /\ StageInv'
    <3>1. doc' = DocumentOf(backup, n) /\ stage \in {"size", "frame"}
      BY <1>1, <1>4
    <3> HIDE DEF n
    <3> QED BY <1>4, <2>1, <3>1, DocumentMade
  <2>3. KitInv'
    <3>1. PICK s : s = codes
      OBVIOUS
    <3>2. CutWell(s)'
      BY <1>2, <1>4, <3>1, SameCuts
    <3> QED BY <1>4, <3>1, <3>2 DEF KitInv, Framed
  <2>4. SizesAreBest'
    <3>1. (backup \in Backups /\ size \in Nat \ {0} /\ backup.kind = "kit" /\ KitInv)'
      BY <1>1, <1>2, <1>4, <2>3
    <3> QED BY <3>1, KitIsBest, PTL
  <2> QED BY <1>1, <1>2, <1>4, <2>2, <2>3, <2>4 DEF ProgramInv
<1> QED BY <1>1, <1>3, <1>4

LEMMA RenderPagesKeeps == ASSUME ProgramInv, RenderPages PROVE ProgramInv'
<1>1. /\ stage = "print" /\ PagesNext /\ UNCHANGED <<backup, size, codes>>
      /\ stage' = CASE phase' = "printed" -> "read" [] phase' = "refused" -> "refused" [] OTHER -> "print"
  BY DEF RenderPages
<1>2. backup \in Backups /\ size \in Nat \ {0} /\ PagesInv /\ StageInv
  BY DEF ProgramInv
<1>3. PagesInv'
  BY <1>1, <1>2, PagesNextKeeps
<1>4. doc' = doc /\ phase' \in {"page", "text", "printed", "refused"}
  <2>1. CASE LayOut
    BY <2>1 DEF LayOut
  <2>2. CASE BeginPage
    BY <2>2 DEF BeginPage
  <2>3. CASE PlaceBlock
    BY <2>3 DEF PlaceBlock
  <2>4. CASE EndText
    BY <2>4 DEF EndText
  <2>5. CASE FinishPages
    BY <2>5 DEF FinishPages
  <2> QED BY <1>1, <2>1, <2>2, <2>3, <2>4, <2>5 DEF PagesNext
<1>5. /\ phase' = "printed" => stage' = "read"
      /\ phase' = "refused" => stage' = "refused"
      /\ phase' \in {"page", "text"} => stage' = "print"
  BY <1>1
<1>6. StageInv'
  <2>1. doc' = DocumentOf(backup, doc.qrs)'
    BY <1>1, <1>2, <1>4, Zenon DEF StageInv
  <2>2. doc.qrs = Len(codes)
    BY <1>1, <1>2 DEF StageInv, Framed
  <2> QED BY <1>1, <1>4, <1>5, <2>1, <2>2 DEF StageInv
<1>7. CASE backup.kind = "kit"
  <2>1. KitInv'
    <3>1. PICK s : CutWell(s) /\ codes = Shelled(s)
      BY <1>1, <1>7 DEF ProgramInv, KitInv, Framed
    <3>2. CutWell(s)'
      BY <1>1, <3>1, SameCuts
    <3> QED BY <1>1, <1>4, <1>5, <3>1, <3>2 DEF KitInv
  <2>2. SizesAreBest'
    <3>1. (backup \in Backups /\ size \in Nat \ {0} /\ backup.kind = "kit" /\ KitInv)'
      BY <1>1, <1>2, <1>7, <2>1
    <3> QED BY <3>1, KitIsBest, PTL
  <2> QED BY <1>1, <1>2, <1>3, <1>6, <1>7, <2>1, <2>2 DEF ProgramInv
<1>8. CASE backup.kind # "kit"
  <2>1. codes = FramesOf(backup, size) /\ codes # <<>>
    <3>1. codes = FramesOf(backup, size)
      BY <1>1, <1>8 DEF ProgramInv, FrameInv, Framed
    <3> QED BY <1>2, <1>8, <3>1, CodesOfBackup
  <2>2. FrameInv'
    BY <1>1, <1>4, <1>5, <2>1 DEF FrameInv
  <2>3. SizesAreBest'
    <3>1. (backup.kind # "kit")' /\ ~(codes = <<>>)' /\ ~(stage = "frame")'
      BY <1>1, <1>4, <1>5, <1>8, <2>1
    <3> QED BY <3>1, FramesAreBest, PTL
  <2> QED BY <1>1, <1>2, <1>3, <1>6, <1>8, <2>2, <2>3 DEF ProgramInv
<1> QED BY <1>7, <1>8

LEMMA ReaderKeeps == ASSUME ProgramInv, Reader PROVE ProgramInv'
<1>1. UNCHANGED <<pageVars, backup, size, codes>> /\ (stage' = stage \/ (stage = "read" /\ stage' = "end"))
  BY Zenon DEF Reader, ScanCode, ScanStray, TypeBlock, ReadScan, ReadPayloads, ReadShards, ReadText,
         ReadShardText, OpenKit, Note, End
<1> QED BY <1>1, Resting

LEMMA NextKeeps == ProgramInv /\ [Next]_vars => ProgramInv'
<1> SUFFICES ASSUME ProgramInv, [Next]_vars PROVE ProgramInv'
  OBVIOUS
<1>1. CASE UNCHANGED vars
  BY <1>1, Resting DEF vars
<1>2. CASE Program
  BY <1>2, ChooseSizeKeeps, FrameDocumentKeeps, SplitKitKeeps, FrameKitKeeps, RenderPagesKeeps DEF Program
<1>3. CASE Reader
  BY <1>3, ReaderKeeps
<1> QED BY <1>1, <1>2, <1>3 DEF Next

LEMMA ProgramAlways == Spec => []ProgramInv
BY ProgramStarts, NextKeeps, PTL DEF Spec

\* Of every backup, the size settled on makes frames that fit, none of those that were asked
\* for makes longer chunks easily, a refusal means that there is none, and the chunks of a kit
\* are as long as they can be and leave nothing out (choose_frame_chunk_size,
\* _split_kit_payload_chunks).
THEOREM SizesAlwaysBest == Spec => []SizesAreBest
<1>1. ProgramInv => SizesAreBest
  BY DEF ProgramInv
<1> QED BY <1>1, ProgramAlways, PTL

\* Every code is on one page, in order, and neither codes nor text run off a page, whatever
\* the template and the sheet (layout.py, pages.py, fallback.py).
THEOREM CodesAndTextAlwaysFit == Spec => []CodesAndTextFit
<1>1. ProgramInv => CodesAndTextFit
  BY PagesHoldThem DEF ProgramInv
<1> QED BY <1>1, ProgramAlways, PTL

\* The text of a document runs on from block to block and page to page to its end
\* (consume_fallback_blocks).
THEOREM TextAlwaysRunsOn == Spec => []TextRunsOn
<1>1. ProgramInv => TextRunsOn
  BY DEF ProgramInv, PagesInv, TextInv
<1> QED BY <1>1, ProgramAlways, PTL

-----------------------------------------------------------------------------
(* What a set of frames joins to. *)

ChunksOf(d, length, n) == {MainFrame(d, length, n, i) : i \in 0..(n - 1)}

LEMMA FrameFields ==
    ASSUME NEW d, NEW length, NEW n, NEW i
    PROVE  LET f == MainFrame(d, length, n, i) IN
           /\ f.type = "main" /\ f.doc = d /\ f.index = i /\ f.total = n
           /\ f.data.of = d /\ f.data.from = ChunkStart(length, n, i) + 1
           /\ f.data.to = ChunkStart(length, n, i + 1)
           /\ f # AuthFrame(Ours) /\ f # KeyFrame(Ours)
<1>1. AuthFrame(Ours).type = "auth" /\ KeyFrame(Ours).type = "key"
  BY DEF AuthFrame, KeyFrame, OneFrame
<1> QED BY <1>1 DEF MainFrame

\* The chunks of a ciphertext, all of them: one of each index.
LEMMA AllChunks ==
    ASSUME NEW d, NEW length, NEW n \in Nat \ {0}
    PROVE  LET M == ChunksOf(d, length, n) IN
           /\ M # {} /\ {f.index : f \in M} = 0..(n - 1)
           /\ \A f \in M : f.type = "main" /\ f.doc = d /\ f.total = n /\ f.index \in 0..(n - 1)
                           /\ f = MainFrame(d, length, n, f.index)
           /\ Joined(M) = [i \in 0..(n - 1) |-> MainFrame(d, length, n, i).data]
<1> DEFINE M == ChunksOf(d, length, n)
<1>1. \A i \in 0..(n - 1) : MainFrame(d, length, n, i) \in M
  BY DEF ChunksOf
<1>2. \A f \in M : /\ f.type = "main" /\ f.doc = d /\ f.total = n /\ f.index \in 0..(n - 1)
                   /\ f = MainFrame(d, length, n, f.index)
  <2> TAKE f \in M
  <2>1. PICK i \in 0..(n - 1) : f = MainFrame(d, length, n, i)
    BY DEF ChunksOf
  <2> QED BY <2>1, FrameFields
<1> HIDE DEF M
<1>3. 0 \in 0..(n - 1)
  OBVIOUS
<1>4. \A i : MainFrame(d, length, n, i).index = i
  BY FrameFields
<1>5. {f.index : f \in M} = 0..(n - 1)
  BY <1>1, <1>2, <1>4
<1>6. ASSUME NEW i \in 0..(n - 1) PROVE (CHOOSE f \in M : f.index = i) = MainFrame(d, length, n, i)
  <2> DEFINE c == CHOOSE f \in M : f.index = i
  <2>1. c \in M /\ c.index = i
    BY <1>1, <1>4
  <2> QED BY <1>2, <2>1
<1>7. Joined(M) = [i \in 0..(n - 1) |-> MainFrame(d, length, n, i).data]
  <2>1. Joined(M) = [i \in {f.index : f \in M} |-> (CHOOSE f \in M : f.index = i).data]
    BY DEF Joined
  <2>2. Joined(M) = [i \in 0..(n - 1) |-> (CHOOSE f \in M : f.index = i).data]
    BY <1>5, <2>1
  <2> QED BY <1>6, <2>2
<1> QED BY <1>1, <1>2, <1>3, <1>5, <1>7 DEF M

\* All the chunks of a ciphertext join to the whole of it.
LEMMA ChunksMakeWhole ==
    ASSUME NEW d, NEW length \in Nat \ {0}, NEW n \in 1..length, NEW F,
           OfType(F, "main") = ChunksOf(d, length, n)
    PROVE  PayloadOf(F) = [of |-> d, from |-> 1, to |-> length]
<1> DEFINE M == OfType(F, "main")
           joined == Joined(M)
           last == (CHOOSE f \in M : TRUE).total - 1
           start(i) == ChunkStart(length, n, i)
<1>1. n \in Nat \ {0} /\ n <= length
  OBVIOUS
<1>2. /\ M # {} /\ \A f \in M : f.total = n /\ f.index \in 0..(n - 1) /\ f = MainFrame(d, length, n, f.index)
      /\ joined = [i \in 0..(n - 1) |-> MainFrame(d, length, n, i).data]
  <2> DEFINE C == ChunksOf(d, length, n)
  <2>1. /\ C # {}
        /\ \A f \in C : f.total = n /\ f.index \in 0..(n - 1) /\ f = MainFrame(d, length, n, f.index)
        /\ Joined(C) = [i \in 0..(n - 1) |-> MainFrame(d, length, n, i).data]
    BY <1>1, AllChunks
  <2> HIDE DEF C
  <2>2. M = C
    BY DEF C
  <2> HIDE DEF M
  <2> QED BY <2>1, <2>2
<1>3. \A f \in M : f.data.of = d
  BY <1>2, FrameFields
<1>4. last = n - 1
  <2>1. (CHOOSE f \in M : TRUE) \in M
    BY <1>2
  <2> QED BY <1>2, <2>1
<1>5. \A i \in 0..(n - 1) : joined[i].of = d /\ joined[i].from = start(i) + 1 /\ joined[i].to = start(i + 1)
  <2> HIDE DEF joined
  <2> QED BY <1>2, FrameFields
<1>6. start(0) = 0 /\ start(n) = length /\ \A i \in Nat : start(i) \in Nat
  BY <1>1, ChunkStarts
<1> HIDE DEF M, joined, last, start
<1>7. \A i \in 1..last : joined[i].from = joined[i - 1].to + 1
  <2> TAKE i \in 1..last
  <2>1. i \in 0..(n - 1) /\ i - 1 \in 0..(n - 1) /\ (i - 1) + 1 = i
    BY <1>1, <1>4
  <2> QED BY <1>5, <2>1
<1>8. /\ joined[0].of = d /\ joined[0].from = 1 /\ joined[last].to = length
  <2>1. 0 \in 0..(n - 1) /\ n - 1 \in 0..(n - 1) /\ (n - 1) + 1 = n
    BY <1>1
  <2> QED BY <1>4, <1>5, <1>6, <2>1
<1>9. \A f, g \in M : f.data.of = g.data.of
  BY <1>3
<1>10. PayloadOf(F) = [of |-> joined[0].of, from |-> joined[0].from, to |-> joined[last].to]
  BY <1>7, <1>9, Zenon DEF PayloadOf, M, joined, last
<1> QED BY <1>8, <1>10, Zenon

\* Frames that are all chunks of their documents recover nothing but one whole ciphertext.
LEMMA RecoveredIsWhole ==
    ASSUME NEW b, NEW F, Recovers(F),
           \A f \in F : f.type = "main" => LengthOf(b, f.doc) \in Nat \ {0} /\ IsChunk(b, f)
    PROVE  \E x \in F : PayloadOf(F) = Whole(b, x.doc)
<1> DEFINE M == OfType(F, "main")
<1>1. /\ M # {} /\ \A f, g \in M : f.doc = g.doc /\ f.total = g.total
      /\ \A f \in M : {g.index : g \in M} = 0..(f.total - 1)
  BY DEF Recovers, Reassembles
<1>2. PICK x \in M : TRUE
  BY <1>1
<1>3. \A f \in M : f \in F /\ f.type = "main"
  BY DEF OfType
<1> DEFINE d == x.doc
           length == LengthOf(b, d)
           n == x.total
<1>4. ASSUME NEW f \in M
      PROVE  /\ f = MainFrame(d, length, n, f.index) /\ f.index \in 0..(n - 1)
             /\ n \in 1..length /\ length \in Nat \ {0}
  <2>1. f.doc = d /\ f.total = n /\ LengthOf(b, f.doc) \in Nat \ {0} /\ IsChunk(b, f)
    BY <1>1, <1>3
  <2>2. PICK m \in 1..length : \E i \in 0..(m - 1) : f = MainFrame(d, length, m, i)
    BY <2>1 DEF IsChunk
  <2>3. PICK i \in 0..(m - 1) : f = MainFrame(d, length, m, i)
    BY <2>2
  <2>4. f.total = m /\ f.index = i
    BY <2>3, FrameFields
  <2> QED BY <2>1, <2>2, <2>3, <2>4
<1>5. n \in 1..length /\ length \in Nat \ {0}
  BY <1>4
<1> HIDE DEF M, d, length, n
<1>6. M = ChunksOf(d, length, n)
  <2>1. ASSUME NEW i \in 0..(n - 1) PROVE MainFrame(d, length, n, i) \in M
    <3>1. {g.index : g \in M} = 0..(n - 1)
      BY <1>1 DEF n
    <3>2. PICK g \in M : g.index = i
      BY <3>1
    <3> QED BY <1>4, <3>2
  <2>2. \A f \in M : f \in ChunksOf(d, length, n)
    BY <1>4, Zenon DEF ChunksOf
  <2>3. \A f \in ChunksOf(d, length, n) : f \in M
    BY <2>1, Zenon DEF ChunksOf
  <2> QED BY <2>2, <2>3
<1>7. PayloadOf(F) = [of |-> d, from |-> 1, to |-> length]
  <2>1. OfType(F, "main") = ChunksOf(d, length, n)
    BY <1>6 DEF M
  <2> QED BY <1>5, <2>1, ChunksMakeWhole
<1> QED BY <1>2, <1>3, <1>7 DEF Whole, d, length

\* All the frames of a backup, with its AUTH frame or without, recover it.
LEMMA AllRecover ==
    ASSUME NEW b \in Backups, NEW n \in 1..b.length, NEW A \in SUBSET {AuthFrame(Ours)}
    PROVE  Recovers(ChunksOf(Ours, b.length, n) \cup A)
<1> DEFINE M == ChunksOf(Ours, b.length, n)
           F == M \cup A
<1>1. n \in Nat \ {0}
  BY BackupFacts
<1>2. /\ M # {} /\ {f.index : f \in M} = 0..(n - 1)
      /\ \A f \in M : /\ f.type = "main" /\ f.doc = Ours /\ f.total = n
                      /\ f = MainFrame(Ours, b.length, n, f.index)
  BY <1>1, AllChunks
<1>3. \A f \in A : f = AuthFrame(Ours) /\ f.type = "auth"
  BY DEF AuthFrame, OneFrame
<1>4. ~TooLarge(Joined(M))
  BY BackupsAssumption, Zenon DEF ChunksOf
<1> HIDE DEF M
<1>5. OfType(F, "main") = M /\ OfType(F, "key") = {}
  BY <1>2, <1>3 DEF OfType
<1>6. ~Clash(F)
  <2> SUFFICES ASSUME NEW f \in F, NEW g \in F, Slot(f) = Slot(g) PROVE f = g
    BY Zenon DEF Clash
  <2>1. f.type = g.type /\ f.index = g.index
    BY DEF Slot
  <2> QED BY <1>2, <1>3, <2>1
<1>7. Reassembles(M)
  BY <1>2, <1>4, Zenon DEF Reassembles
<1> QED BY <1>5, <1>6, <1>7, Zenon DEF Recovers, M

-----------------------------------------------------------------------------
(* What is read is one ciphertext or nothing. *)

TypedLines == [title : Nat, section : Nat, from : Nat, to : Nat]

Shown == {codes[q] : q \in 1..Len(codes)}

\* What a reader may come upon.
Readable == Shown \cup backup.strays \cup (IF blocks = <<>> THEN {} ELSE TypedLines)

\* r is a right outcome of reading what was read.
Right(r) ==
    /\ r.ok /\ backup.kind \in {"main", "recovery"} =>
         \E x \in Taken \ {Noise} :
           r.payload = Whole(backup, IF backup.kind = "main" THEN x.doc ELSE Ours)
    /\ r.ok /\ backup.kind \in ShardKinds => r.payload \subseteq {KeyFrame(Ours)} \cup Taken
    /\ AllRead => r.ok
    /\ AllRead /\ backup.kind = "kit" => \A i \in 2..Len(codes) : r.payload[i - 1] = codes[i]

ReadInv ==
    /\ stage \notin {"read", "end"} => read = <<>>
    /\ read \in Seq(Readable)
    /\ stage = "end" => Right(outcome)

\* Nothing that the program prints is damaged.
LEMMA NothingPrintedIsNoise ==
    /\ \A length \in Nat \ {0} : \A n \in 1..length : Noise \notin ChunksOf(Ours, length, n)
    /\ Noise # AuthFrame(Ours) /\ Noise # KeyFrame(Ours) /\ Noise \notin TypedLines
<1> DEFINE Data == [of : {Ours, "auth", "key"}, from : Nat, to : Nat]
           Frames == [type : {"main", "auth", "key"}, doc : {Ours}, index : Nat, total : Nat, data : Data]
<1>1. Noise \notin Frames /\ Noise \notin TypedLines
  BY NoiseAssumption, Zenon DEF TypedLines
<1>2. AuthFrame(Ours) \in Frames /\ KeyFrame(Ours) \in Frames
  BY DEF AuthFrame, KeyFrame, OneFrame
<1>3. ASSUME NEW length \in Nat \ {0}, NEW n \in 1..length, NEW f \in ChunksOf(Ours, length, n)
      PROVE  f \in Frames
  <2>1. PICK i \in 0..(n - 1) : f = MainFrame(Ours, length, n, i)
    BY DEF ChunksOf
  <2>2. i \in Nat /\ i + 1 \in Nat /\ n \in Nat \ {0} /\ n <= length
    OBVIOUS
  <2> DEFINE from == ChunkStart(length, n, i) + 1
             to == ChunkStart(length, n, i + 1)
             data == [of |-> Ours, from |-> from, to |-> to]
  <2>3. from \in Nat /\ to \in Nat
    <3>1. ChunkStart(length, n, i) \in Nat /\ to \in Nat
      BY <2>2, ChunkStarts
    <3> QED BY <3>1
  <2>4. f = [type |-> "main", doc |-> Ours, index |-> i, total |-> n, data |-> data]
    BY <2>1 DEF MainFrame
  <2> HIDE DEF from, to
  <2>5. data \in Data
    BY <2>3
  <2> HIDE DEF data, Data
  <2> QED BY <2>2, <2>4, <2>5
<1> HIDE DEF Frames
<1> QED BY <1>1, <1>2, <1>3

\* A document that is read.
LEMMA WhatIsPrinted ==
    ASSUME ProgramInv, stage = "read"
    PROVE  /\ backup \in Backups /\ size \in Nat \ {0}
           /\ doc.kind = backup.kind /\ doc.texts = TextsOf(backup) /\ phase = "printed"
           /\ TextRunsOn /\ blocks \in Seq(Blocks) /\ (blocks # <<>> => ShowsText(doc))
           /\ backup.kind # "kit" => codes = FramesOf(backup, size)
           /\ backup.kind # "recovery" => Printed = 1..Len(codes)
<1>1. /\ backup \in Backups /\ size \in Nat \ {0} /\ phase = "printed" /\ doc = DocumentOf(backup, doc.qrs)
      /\ doc.qrs = Len(codes)
  BY DEF ProgramInv, StageInv, Framed
<1>2. doc.kind = backup.kind /\ doc.texts = TextsOf(backup)
  BY <1>1, DocumentFields
<1>3. TextRunsOn /\ blocks \in Seq(Blocks) /\ (blocks # <<>> => ShowsText(doc)) /\ QrsInOrder
  BY DEF ProgramInv, PagesInv, TextInv, RowsInv, CodesInv, PagesTypeOK
<1>4. backup.kind # "kit" => codes = FramesOf(backup, size)
  BY DEF ProgramInv, FrameInv, Framed
<1>5. ASSUME backup.kind # "recovery" PROVE Printed = 1..Len(codes)
  <2>1. ShowsQr(doc)
    BY <1>2, <1>5 DEF ShowsQr
  <2>2. \A q \in 1..Len(codes) : \E i \in 1..Len(pages) : pages[i].qrs.from <= q /\ q <= pages[i].qrs.to
    BY <1>1, <1>3, <2>1 DEF QrsInOrder
  <2> QED BY <2>2 DEF Printed
<1> QED BY <1>1, <1>2, <1>3, <1>4, <1>5

LEMMA CodesShown ==
    ASSUME ProgramInv, stage = "read"
    PROVE  /\ backup.kind = "main" =>
                \E n \in 1..backup.length : Shown = ChunksOf(Ours, backup.length, n) \cup {AuthFrame(Ours)}
           /\ backup.kind = "recovery" =>
                \E n \in 1..backup.length : Shown = ChunksOf(Ours, backup.length, n)
           /\ backup.kind \in ShardKinds => Shown = {KeyFrame(Ours)}
<1> DEFINE L == backup.length
           n == TotalOf(L, size)
<1>1. backup \in Backups /\ size \in Nat \ {0} /\ (backup.kind # "kit" => codes = FramesOf(backup, size))
  BY WhatIsPrinted
<1>2. CASE backup.kind = "main"
  <2>1. /\ n \in 1..L /\ Len(codes) = n + 1 /\ codes[n + 1] = AuthFrame(Ours)
        /\ \A i \in 1..n : codes[i] = MainFrame(Ours, L, n, i - 1)
    BY <1>1, <1>2, CodesOfBackup
  <2>2. L \in Nat
    BY <1>1, BackupFacts
  <2> HIDE DEF n, L
  <2>3. n \in Nat
    BY <2>1, <2>2
  <2>4. ASSUME NEW x \in Shown PROVE x \in ChunksOf(Ours, L, n) \cup {AuthFrame(Ours)}
    <3>1. PICK q \in 1..(n + 1) : x = codes[q]
      BY <2>1 DEF Shown
    <3>2. CASE q = n + 1
      BY <2>1, <3>1, <3>2
    <3>3. CASE q \in 1..n
      <4>1. q - 1 \in 0..(n - 1) /\ x = MainFrame(Ours, L, n, q - 1)
        BY <2>1, <2>3, <3>1, <3>3
      <4> QED BY <4>1 DEF ChunksOf
    <3> QED BY <2>3, <3>2, <3>3
  <2>5. ASSUME NEW x \in ChunksOf(Ours, L, n) PROVE x \in Shown
    <3>1. PICK i \in 0..(n - 1) : x = MainFrame(Ours, L, n, i)
      BY DEF ChunksOf
    <3>2. i + 1 \in 1..n /\ (i + 1) - 1 = i /\ i + 1 \in 1..Len(codes)
      BY <2>1, <2>3
    <3>3. x = codes[i + 1]
      BY <2>1, <3>1, <3>2
    <3> QED BY <3>2, <3>3 DEF Shown
  <2>6. AuthFrame(Ours) \in Shown
    <3>1. n + 1 \in 1..Len(codes)
      BY <2>1, <2>3
    <3> QED BY <2>1, <3>1 DEF Shown
  <2>7. Shown = ChunksOf(Ours, L, n) \cup {AuthFrame(Ours)}
    BY <2>4, <2>5, <2>6
  <2> QED BY <1>2, <2>1, <2>7 DEF L, ShardKinds
<1>3. CASE backup.kind = "recovery"
  <2>1. n \in 1..L /\ Len(codes) = n /\ \A i \in 1..n : codes[i] = MainFrame(Ours, L, n, i - 1)
    BY <1>1, <1>3, CodesOfBackup
  <2>2. L \in Nat
    BY <1>1, BackupFacts
  <2> HIDE DEF n, L
  <2>3. n \in Nat
    BY <2>1, <2>2
  <2>4. ASSUME NEW x \in Shown PROVE x \in ChunksOf(Ours, L, n)
    <3>1. PICK q \in 1..n : x = codes[q]
      BY <2>1 DEF Shown
    <3>2. q - 1 \in 0..(n - 1) /\ x = MainFrame(Ours, L, n, q - 1)
      BY <2>1, <2>3, <3>1
    <3> QED BY <3>2 DEF ChunksOf
  <2>5. ASSUME NEW x \in ChunksOf(Ours, L, n) PROVE x \in Shown
    <3>1. PICK i \in 0..(n - 1) : x = MainFrame(Ours, L, n, i)
      BY DEF ChunksOf
    <3>2. i + 1 \in 1..n /\ (i + 1) - 1 = i /\ i + 1 \in 1..Len(codes)
      BY <2>1, <2>3
    <3>3. x = codes[i + 1]
      BY <2>1, <3>1, <3>2
    <3> QED BY <3>2, <3>3 DEF Shown
  <2>6. Shown = ChunksOf(Ours, L, n)
    BY <2>4, <2>5
  <2> QED BY <1>3, <2>1, <2>6 DEF L, ShardKinds
<1>4. CASE backup.kind \in ShardKinds
  <2>1. codes = <<KeyFrame(Ours)>>
    BY <1>1, <1>4, CodesOfBackup DEF ShardKinds
  <2> DEFINE key == KeyFrame(Ours)
  <2> HIDE DEF key
  <2>2. codes = <<key>>
    BY <2>1 DEF key
  <2>3. Shown = {key}
    BY <2>2 DEF Shown
  <2> QED BY <1>4, <2>3 DEF key, ShardKinds
<1> QED BY <1>2, <1>3, <1>4 DEF ShardKinds

-----------------------------------------------------------------------------
(* The readings. *)

\* A result with a payload, or none.
LEMMA ResultFields ==
    /\ Nothing.ok = FALSE
    /\ \A p, a : [ok |-> TRUE, payload |-> p, auth |-> a].ok = TRUE /\ [ok |-> TRUE, payload |-> p, auth |-> a].payload = p
    /\ \A p : [ok |-> TRUE, payload |-> p].ok = TRUE /\ [ok |-> TRUE, payload |-> p].payload = p
BY DEF Nothing

LEMMA WhatIsTaken ==
    ASSUME read \in Seq(Readable)
    PROVE  Taken \subseteq Readable /\ (read # <<>> => Taken # {})
<1>1. \A i \in 1..Len(read) : read[i] \in Readable
  OBVIOUS
<1>2. read # <<>> => 1 \in 1..Len(read)
  OBVIOUS
<1> QED BY <1>1, <1>2 DEF Taken

\* Codes of a main document, scanned or given as payloads.
LEMMA MainReadRight ==
    ASSUME ProgramInv, ReadInv, stage = "read", backup.kind = "main",
           NEW F \in SUBSET (Taken \ {Noise}),
           Noise \notin Taken /\ (\A x \in Taken : x.type \in {"main", "auth"}) => F = Taken
    PROVE  Right(Recovered(F))
<1>1. /\ backup \in Backups /\ blocks = <<>> /\ Printed = 1..Len(codes)
  BY WhatIsPrinted DEF ShowsText, ShardKinds
<1>2. PICK n \in 1..backup.length : Shown = ChunksOf(Ours, backup.length, n) \cup {AuthFrame(Ours)}
  BY CodesShown
<1>3. backup.length \in Nat \ {0} /\ n \in Nat \ {0}
  BY <1>1, BackupFacts
<1>4. \A f \in Taken \ {Noise} : f \in Shown \/ (f \in backup.strays /\ f # Noise)
  BY <1>1, WhatIsTaken DEF ReadInv, Readable
<1>5. \A f \in Taken \ {Noise} : f.type = "main" => LengthOf(backup, f.doc) \in Nat \ {0} /\ IsChunk(backup, f)
  <2> TAKE f \in Taken \ {Noise}
  <2>1. CASE f \in ChunksOf(Ours, backup.length, n)
    <3>1. PICK i \in 0..(n - 1) : f = MainFrame(Ours, backup.length, n, i)
      BY <2>1 DEF ChunksOf
    <3>2. f.doc = Ours /\ LengthOf(backup, Ours) = backup.length
      BY <3>1, FrameFields DEF LengthOf
    <3> QED BY <1>3, <3>1, <3>2 DEF IsChunk
  <2>2. CASE f = AuthFrame(Ours)
    BY <2>2 DEF AuthFrame, OneFrame
  <2>3. CASE f \in backup.strays /\ f # Noise
    BY <1>1, <2>3, BackupsAssumption, Zenon
  <2> QED BY <1>2, <1>4, <2>1, <2>2, <2>3
<1>6. ASSUME F # {}, Recovers(F)
      PROVE  \E x \in Taken \ {Noise} : PayloadOf(F) = Whole(backup, x.doc)
  <2>1. \A f \in F : f.type = "main" => LengthOf(backup, f.doc) \in Nat \ {0} /\ IsChunk(backup, f)
    BY <1>5
  <2>2. \E x \in F : PayloadOf(F) = Whole(backup, x.doc)
    BY <1>6, <2>1, RecoveredIsWhole
  <2> QED BY <2>2
<1>7. ASSUME AllRead PROVE F # {} /\ Recovers(F)
  <2>1. Taken = Shown
    BY <1>1, <1>7 DEF AllRead, Shown
  <2> DEFINE M == ChunksOf(Ours, backup.length, n)
  <2>2. M # {} /\ \A f \in M : f.type = "main"
    BY <1>3, AllChunks
  <2>3. Noise \notin M /\ Noise # AuthFrame(Ours)
    BY <1>3, NothingPrintedIsNoise
  <2>4. AuthFrame(Ours).type = "auth"
    BY DEF AuthFrame, OneFrame
  <2>5. Recovers(M \cup {AuthFrame(Ours)})
    BY <1>1, AllRecover
  <2> HIDE DEF M
  <2>6. Shown = M \cup {AuthFrame(Ours)}
    BY <1>2 DEF M
  <2>7. F = Taken
    BY <2>1, <2>2, <2>3, <2>4, <2>6
  <2> QED BY <2>1, <2>2, <2>5, <2>6, <2>7
<1> DEFINE r == Recovered(F)
<1>8. CASE F # {} /\ Recovers(F)
  <2>1. r = [ok |-> TRUE, payload |-> PayloadOf(F), auth |-> OfType(F, "auth") # {}]
    BY <1>8, Zenon DEF Recovered
  <2>2. r.ok = TRUE /\ r.payload = PayloadOf(F)
    BY <2>1, ResultFields, Zenon
  <2>3. PICK x \in Taken \ {Noise} : PayloadOf(F) = Whole(backup, x.doc)
    BY <1>6, <1>8
  <2> HIDE DEF r
  <2>4. \E y \in Taken \ {Noise} : r.payload = Whole(backup, IF backup.kind = "main" THEN y.doc ELSE Ours)
    BY <2>2, <2>3
  <2>5. backup.kind \notin ShardKinds /\ backup.kind # "kit"
    BY DEF ShardKinds
  <2>6. Right(r)
    BY <2>2, <2>4, <2>5 DEF Right
  <2> QED BY <2>6 DEF r
<1>9. CASE ~(F # {} /\ Recovers(F))
  <2>1. r = Nothing
    BY <1>9, Zenon DEF Recovered
  <2>2. ~r.ok
    BY <2>1, ResultFields
  <2>3. ~AllRead
    BY <1>7, <1>9
  <2> HIDE DEF r
  <2>4. Right(r)
    BY <2>2, <2>3 DEF Right
  <2> QED BY <2>4 DEF r
<1> QED BY <1>8, <1>9

-----------------------------------------------------------------------------
(* The text of a document, typed in the order of its blocks. *)

Held(s) == {i \in 1..Len(blocks) : blocks[i].section = s}

LEMMA LinesOfBlocks ==
    ASSUME blocks \in Seq(Blocks)
    PROVE  /\ Len(blocks) \in Nat /\ DOMAIN AsPrinted = 1..Len(blocks) /\ Len(AsPrinted) = Len(blocks)
           /\ \A k \in 1..Len(blocks) :
                LET line == AsPrinted[k] IN
                /\ line.title = IF blocks[k].titled THEN blocks[k].section ELSE NoTitle
                /\ line.section = blocks[k].section /\ line.from = blocks[k].from /\ line.to = blocks[k].to
                /\ line \in TypedLines /\ DOMAIN line = {"title", "section", "from", "to"}
                /\ blocks[k].section \in Nat \ {0} /\ blocks[k].titled \in BOOLEAN
<1>1. Len(blocks) \in Nat /\ \A k \in 1..Len(blocks) : blocks[k] \in Blocks
  OBVIOUS
<1>2. /\ DOMAIN AsPrinted = 1..Len(blocks)
      /\ \A k \in 1..Len(blocks) :
           AsPrinted[k] = [title |-> IF blocks[k].titled THEN blocks[k].section ELSE NoTitle,
                           section |-> blocks[k].section, from |-> blocks[k].from, to |-> blocks[k].to]
  BY DEF AsPrinted
<1>3. Len(AsPrinted) = Len(blocks)
  BY <1>1 DEF AsPrinted
<1>4. ASSUME NEW k \in 1..Len(blocks)
      PROVE  LET line == AsPrinted[k] IN
             /\ line.title = IF blocks[k].titled THEN blocks[k].section ELSE NoTitle
             /\ line.section = blocks[k].section /\ line.from = blocks[k].from /\ line.to = blocks[k].to
             /\ line \in TypedLines /\ DOMAIN line = {"title", "section", "from", "to"}
             /\ blocks[k].section \in Nat \ {0} /\ blocks[k].titled \in BOOLEAN
  <2> DEFINE t == IF blocks[k].titled THEN blocks[k].section ELSE NoTitle
             line == AsPrinted[k]
  <2>1. /\ blocks[k].section \in Nat \ {0} /\ blocks[k].titled \in BOOLEAN
        /\ blocks[k].from \in Nat /\ blocks[k].to \in Nat
    BY <1>1 DEF Blocks
  <2>2. t \in Nat
    BY <2>1 DEF NoTitle
  <2>3. line = [title |-> t, section |-> blocks[k].section, from |-> blocks[k].from, to |-> blocks[k].to]
    BY <1>2
  <2> HIDE DEF line, t
  <2>4. /\ line.title = t /\ line.section = blocks[k].section /\ line.from = blocks[k].from
        /\ line.to = blocks[k].to /\ DOMAIN line = {"title", "section", "from", "to"}
    BY <2>3
  <2>5. line \in TypedLines
    BY <2>1, <2>2, <2>3 DEF TypedLines
  <2> QED BY <2>1, <2>4, <2>5, Zenon DEF line, t
<1> QED BY <1>1, <1>2, <1>3, <1>4

\* From a block to the next: the same section, or the beginning of the next one.
LEMMA NextBlock ==
    ASSUME blocks \in Seq(Blocks), TextRunsOn, NEW i \in 1..(Len(blocks) - 1)
    PROVE  \/ /\ blocks[i + 1].section = blocks[i].section /\ ~blocks[i + 1].titled
              /\ blocks[i + 1].from = blocks[i].to + 1
           \/ /\ blocks[i + 1].section = blocks[i].section + 1 /\ (blocks[i + 1].titled <=> Titled(doc))
              /\ blocks[i + 1].from = 1 /\ blocks[i].to = doc.texts[blocks[i].section]
<1>1. Follows(blocks[i], blocks[i + 1])
  BY DEF TextRunsOn
<1> QED BY <1>1 DEF Follows

LEMMA SectionsInOrder ==
    ASSUME blocks \in Seq(Blocks), TextRunsOn
    PROVE  \A i \in 1..Len(blocks) : \A j \in 1..i : blocks[j].section <= blocks[i].section
<1> DEFINE sec(k) == blocks[k].section
           S == {m \in Nat : m \in 1..Len(blocks) => \A j \in 1..m : sec(j) <= sec(m)}
<1>1. Len(blocks) \in Nat /\ \A k \in 1..Len(blocks) : sec(k) \in Nat
  BY LinesOfBlocks
<1>2. \A i \in 1..(Len(blocks) - 1) : sec(i + 1) = sec(i) \/ sec(i + 1) = sec(i) + 1
  BY NextBlock
<1> HIDE DEF sec
<1>3. 0 \in S
  BY <1>1
<1>4. ASSUME NEW m \in Nat, m \in S PROVE m + 1 \in S
  <2> SUFFICES ASSUME m + 1 \in 1..Len(blocks), NEW j \in 1..(m + 1) PROVE sec(j) <= sec(m + 1)
    OBVIOUS
  <2>1. CASE j = m + 1
    BY <1>1, <2>1
  <2>2. CASE j # m + 1
    <3>1. j \in 1..m /\ m \in 1..Len(blocks) /\ m \in 1..(Len(blocks) - 1) /\ j \in 1..Len(blocks)
      BY <1>1, <2>2
    <3>2. sec(j) <= sec(m) /\ sec(m + 1) \in {sec(m), sec(m) + 1}
      BY <1>2, <1>4, <3>1
    <3> QED BY <1>1, <3>1, <3>2
  <2> QED BY <2>1, <2>2
<1> HIDE DEF S
<1>5. \A m \in Nat : m \in S
  BY <1>3, <1>4, EveryNatural
<1>6. ASSUME NEW i \in 1..Len(blocks), NEW j \in 1..i PROVE sec(j) <= sec(i)
  <2>1. i \in S
    BY <1>1, <1>5
  <2> QED BY <2>1 DEF S
<1> QED BY <1>6 DEF sec

\* A line belongs to the section of its block: every section begins under its title.
LEMMA UnderItsTitle ==
    ASSUME blocks \in Seq(Blocks), TextRunsOn, Titled(doc)
    PROVE  \A i \in 1..Len(blocks) : Under(AsPrinted, i) = blocks[i].section
<1> DEFINE N == Len(blocks)
           Begun(i, j) == /\ j \in 1..i /\ blocks[j].titled /\ blocks[j].section = blocks[i].section
                          /\ \A k \in (j + 1)..i : ~blocks[k].titled
           S == {m \in Nat : m \in 1..N => \E j \in 1..m : Begun(m, j)}
<1>1. /\ N \in Nat
      /\ \A k \in 1..N : blocks[k].section \in Nat \ {0} /\ blocks[k].titled \in BOOLEAN
      /\ \A k \in 1..N : AsPrinted[k].title = IF blocks[k].titled THEN blocks[k].section ELSE NoTitle
  BY LinesOfBlocks
<1>2. N > 0 => blocks[1].titled
  <2>1. blocks # <<>> => blocks[1].titled
    BY Zenon DEF TextRunsOn
  <2>2. N > 0 => blocks # <<>>
    OBVIOUS
  <2> QED BY <2>1, <2>2
<1>3. \A i \in 1..(N - 1) : blocks[i + 1].titled \/ blocks[i + 1].section = blocks[i].section
  BY NextBlock
<1>4. 0 \in S
  <2>1. 0 \in Nat /\ ~(0 \in 1..N)
    BY <1>1
  <2> QED BY <2>1, Zenon
<1>5. ASSUME NEW m \in Nat, m \in S PROVE m + 1 \in S
  <2>0. m + 1 \in Nat
    OBVIOUS
  <2> SUFFICES ASSUME m + 1 \in 1..N PROVE \E j \in 1..(m + 1) : Begun(m + 1, j)
    BY <2>0, Zenon
  <2>1. CASE blocks[m + 1].titled
    <3>1. m + 1 \in 1..(m + 1) /\ \A k \in ((m + 1) + 1)..(m + 1) : FALSE
      OBVIOUS
    <3>2. Begun(m + 1, m + 1)
      BY <2>1, <3>1, Zenon
    <3> QED BY <3>1, <3>2
  <2>2. CASE ~blocks[m + 1].titled
    <3>1. m \in 1..N /\ m \in 1..(N - 1)
      BY <1>1, <1>2, <2>2
    <3>2. blocks[m + 1].section = blocks[m].section
      BY <1>3, <2>2, <3>1
    <3>3. PICK j \in 1..m : Begun(m, j)
      BY <1>5, <3>1
    <3>4. ASSUME NEW k \in (j + 1)..(m + 1) PROVE ~blocks[k].titled
      <4>1. k = m + 1 \/ k \in (j + 1)..m
        OBVIOUS
      <4> QED BY <2>2, <3>3, <4>1
    <3>5. Begun(m + 1, j)
      BY <3>2, <3>3, <3>4
    <3> QED BY <3>5
  <2> QED BY <2>1, <2>2
<1>6. \A m \in Nat : m \in S
  <2> HIDE DEF S
  <2> QED BY <1>4, <1>5, EveryNatural
<1>7. ASSUME NEW i \in 1..N PROVE Under(AsPrinted, i) = blocks[i].section
  <2>1. PICK j \in 1..i : Begun(i, j)
    BY <1>1, <1>6
  <2> DEFINE above == {k \in 1..i : AsPrinted[k].title # NoTitle}
  <2>2. \A k \in 1..i : k \in 1..N
    BY <1>1
  <2>3. \A k \in 1..i : AsPrinted[k].title # NoTitle <=> blocks[k].titled
    BY <1>1, <2>2 DEF NoTitle
  <2>4. j \in above /\ \A k \in above : k <= j
    <3>1. \A k \in above : k \in 1..i /\ blocks[k].titled
      BY <2>3
    <3>2. \A k \in above : ~(k \in (j + 1)..i)
      BY <2>1, <3>1
    <3> QED BY <1>1, <2>1, <2>3, <3>1, <3>2
  <2>5. above \in SUBSET Nat
    BY <1>1
  <2> HIDE DEF above
  <2>6. (CHOOSE x \in above : \A k \in above : k <= x) = j
    <3> DEFINE c == CHOOSE x \in above : \A k \in above : k <= x
    <3>1. c \in above /\ \A k \in above : k <= c
      BY <2>4, Zenon
    <3> HIDE DEF c
    <3>2. c = j
      BY <2>4, <2>5, <3>1
    <3> QED BY <3>2 DEF c
  <2>7. above # {}
    BY <2>4
  <2>8. Under(AsPrinted, i) = AsPrinted[j].title
    BY <2>6, <2>7, Zenon DEF Under, above
  <2>9. AsPrinted[j].title = blocks[j].section
    BY <1>1, <2>1, <2>2
  <2> QED BY <2>1, <2>8, <2>9
<1> QED BY <1>7

\* The blocks of a section, one after the other, spell it.
LEMMA SectionsSpelled ==
    ASSUME blocks \in Seq(Blocks), TextRunsOn, phase = "printed", ShowsText(doc),
           NEW s \in {1, Len(doc.texts)}
    PROVE  Spells(AsPrinted, Held(s), s, doc.texts[s])
<1> DEFINE N == Len(blocks)
           I == Held(s)
<1>1. /\ N \in Nat
      /\ \A k \in 1..N : blocks[k].section \in Nat \ {0}
      /\ \A k \in 1..N : /\ AsPrinted[k].section = blocks[k].section
                         /\ AsPrinted[k].from = blocks[k].from /\ AsPrinted[k].to = blocks[k].to
  BY LinesOfBlocks
<1>2. /\ blocks # <<>> /\ blocks[1].section = 1 /\ blocks[1].from = 1
      /\ blocks[N].section = Len(doc.texts) /\ blocks[N].to = doc.texts[Len(doc.texts)]
  BY DEF TextRunsOn
<1>3. 1 \in 1..N /\ N \in 1..N
  BY <1>1, <1>2
<1>4. \A i \in I : i \in 1..N /\ blocks[i].section = s
  BY DEF Held
<1>5. \A i \in 1..N : blocks[i].section = s => i \in I
  BY DEF Held
<1>6. I # {}
  BY <1>2, <1>3, <1>5
<1>7. \A i \in I : AsPrinted[i].section = s
  BY <1>1, <1>4
<1> HIDE DEF I
<1>8. ASSUME NEW i \in I
      PROVE  LET before == {j \in I : j < i} IN
             AsPrinted[i].from = IF before = {} THEN 1
                                 ELSE AsPrinted[CHOOSE j \in before : \A k \in before : k <= j].to + 1
  <2> DEFINE before == {j \in I : j < i}
  <2>1. CASE i = 1
    <3>0. \A j \in I : ~(j < i)
      BY <1>1, <1>4, <2>1
    <3>1. before = {}
      BY <3>0
    <3> QED BY <1>1, <1>2, <1>4, <2>1, <3>1
  <2>2. CASE i # 1
    <3> DEFINE h == i - 1
    <3>1. h \in 1..N /\ h \in 1..(N - 1) /\ h + 1 = i /\ i \in 1..N
      BY <1>1, <1>4, <2>2
    <3>2. CASE blocks[i].section = blocks[h].section /\ blocks[i].from = blocks[h].to + 1
      <4>1. h \in before
        BY <1>4, <1>5, <3>1, <3>2
      <4>2. \A k \in before : k \in 1..N /\ k <= h
        BY <1>1, <1>4, <3>1
      <4>3. (CHOOSE j \in before : \A k \in before : k <= j) = h
        <5> DEFINE c == CHOOSE j \in before : \A k \in before : k <= j
        <5> HIDE DEF before
        <5>1. c \in before /\ \A k \in before : k <= c
          BY <4>1, <4>2, Zenon
        <5> HIDE DEF c
        <5>2. c = h
          BY <3>1, <4>1, <4>2, <5>1
        <5> QED BY <5>2 DEF c
      <4> QED BY <1>1, <3>1, <3>2, <4>1, <4>3
    <3>3. CASE blocks[i].section = blocks[h].section + 1 /\ blocks[i].from = 1
      <4>1. ASSUME NEW j \in before PROVE FALSE
        <5>1. j \in 1..h /\ j \in 1..N /\ blocks[j].section = s
          BY <1>1, <1>4, <3>1
        <5>2. blocks[j].section <= blocks[h].section
          BY <3>1, <5>1, SectionsInOrder
        <5> QED BY <1>1, <1>4, <3>1, <3>3, <5>1, <5>2
      <4>2. before = {}
        BY <4>1
      <4> QED BY <1>1, <3>1, <3>3, <4>2
    <3>4. \/ blocks[i].section = blocks[h].section /\ blocks[i].from = blocks[h].to + 1
          \/ blocks[i].section = blocks[h].section + 1 /\ blocks[i].from = 1
      BY <3>1, NextBlock
    <3> QED BY <3>2, <3>3, <3>4
  <2> QED BY <2>1, <2>2
<1>9. \E i \in I : (\A j \in I : j <= i) /\ AsPrinted[i].to = doc.texts[s]
  <2>1. I \in SUBSET (0..N)
    BY <1>1, <1>4
  <2>2. PICK i \in I : \A j \in I : j <= i
    BY <1>1, <1>6, <2>1, GreatestOf
  <2>3. blocks[i].to = doc.texts[s]
    <3>1. CASE i = N
      BY <1>2, <1>4, <3>1
    <3>2. CASE i # N
      <4>1. i \in 1..(N - 1) /\ i + 1 \in 1..N /\ ~(i + 1 <= i)
        BY <1>1, <1>4, <3>2
      <4>2. i + 1 \notin I
        BY <2>2, <4>1
      <4>3. blocks[i + 1].section # blocks[i].section
        BY <1>4, <1>5, <4>1, <4>2
      <4> QED BY <1>4, <4>1, <4>3, NextBlock
    <3> QED BY <3>1, <3>2
  <2> QED BY <1>1, <1>4, <2>2, <2>3
<1> QED BY <1>6, <1>7, <1>8, <1>9, Zenon DEF Spells, I

-----------------------------------------------------------------------------
\* Typed text of a recovery document.
LEMMA TextReadRight ==
    ASSUME ProgramInv, ReadInv, stage = "read", read # <<>>, backup.kind = "recovery"
    PROVE  Right(Recovered(TextRead))
<1> DEFINE L == backup.length
           F == TextRead
           chunk == MainFrame(Ours, L, 1, 0)
           r == Recovered(F)
<1>1. /\ backup \in Backups /\ doc.kind = "recovery" /\ doc.texts = TextsOf(backup) /\ phase = "printed"
      /\ TextRunsOn /\ blocks \in Seq(Blocks)
  BY WhatIsPrinted
<1>2. L \in Nat \ {0} /\ 1 \in 1..L /\ LengthOf(backup, Ours) = L
  BY <1>1, BackupFacts DEF LengthOf
<1>3. \E x \in Taken : x # Noise
  <2>1. PICK n \in 1..L : Shown = ChunksOf(Ours, L, n)
    BY CodesShown
  <2>2. Noise \notin Shown /\ Noise \notin TypedLines
    BY <1>2, <2>1, NothingPrintedIsNoise
  <2>3. Noise \notin backup.strays
    BY <1>1, BackupsAssumption, Zenon
  <2>4. Noise \notin Readable
    BY <2>2, <2>3 DEF Readable
  <2> QED BY <2>4, WhatIsTaken DEF ReadInv
<1>4. \A f \in F : f = chunk \/ f = AuthFrame(Ours)
  BY DEF TextRead, TextFrames
<1>5. ASSUME F # {}, Recovers(F) PROVE PayloadOf(F) = Whole(backup, Ours)
  <2>1. IsChunk(backup, chunk) /\ chunk.doc = Ours
    <3>1. chunk.doc = Ours
      BY FrameFields
    <3>2. 0 \in 0..(1 - 1)
      OBVIOUS
    <3> QED BY <1>2, <3>1, <3>2, Zenon DEF IsChunk
  <2>2. AuthFrame(Ours).type = "auth" /\ AuthFrame(Ours).doc = Ours
    BY DEF AuthFrame, OneFrame
  <2> HIDE DEF F, chunk
  <2>3. \A f \in F : f.type = "main" => LengthOf(backup, f.doc) \in Nat \ {0} /\ IsChunk(backup, f)
    BY <1>2, <1>4, <2>1, <2>2
  <2>4. PICK x \in F : PayloadOf(F) = Whole(backup, x.doc)
    BY <1>5, <2>3, RecoveredIsWhole
  <2> QED BY <1>4, <2>1, <2>2, <2>4
<1>6. ASSUME AllRead PROVE F # {} /\ Recovers(F)
  <2>1. read = AsPrinted
    BY <1>6 DEF AllRead
  <2>2. ShowsText(doc) /\ Titled(doc) /\ doc.texts = <<SmallTokens(backup), MainTokens(backup)>>
    <3>1. ShowsText(doc) /\ Titled(doc)
      BY <1>1 DEF ShowsText, Titled
    <3>2. TextsOf(backup) = <<SmallTokens(backup), MainTokens(backup)>>
      BY DEF TextsOf, ShardKinds
    <3> QED BY <1>1, <3>1, <3>2
  <2>3. Len(doc.texts) = 2
    BY <2>2
  <2>4. /\ Len(blocks) \in Nat /\ Len(read) = Len(blocks)
        /\ \A k \in 1..Len(blocks) :
             /\ read[k].title = IF blocks[k].titled THEN blocks[k].section ELSE NoTitle
             /\ blocks[k].section \in Nat \ {0}
    BY <1>1, <2>1, LinesOfBlocks
  <2>5. \A i \in 1..Len(blocks) : Under(read, i) = blocks[i].section
    BY <1>1, <2>1, <2>2, UnderItsTitle
  <2>6. InSection(read, Main) = Held(2) /\ InSection(read, Auth) = Held(1) /\ InSection(read, NoTitle) = {}
    BY <2>4, <2>5 DEF InSection, Held, Main, Auth, NoTitle
  <2>7. Typed(Held(2), Main) /\ Typed(Held(1), Auth)
    <3>1. \A s \in {1, 2} : Spells(read, Held(s), s, doc.texts[s])
      BY <1>1, <2>1, <2>2, <2>3, SectionsSpelled
    <3> QED BY <3>1 DEF Typed, Main, Auth
  <2>8. Marked(read)
    <3>1. 1 \in 1..Len(blocks)
      BY <2>4
    <3>2. Under(read, 1) # NoTitle
      BY <2>4, <2>5, <3>1 DEF NoTitle
    <3>3. {j \in 1..1 : read[j].title # NoTitle} # {}
      BY <3>2, Zenon DEF Under
    <3> QED BY <2>4, <3>1, <3>3 DEF Marked
  <2>9. F = TextFrames(TRUE, TRUE)
    BY <2>6, <2>7, <2>8, Zenon DEF TextRead
  <2>10. ChunksOf(Ours, L, 1) = {chunk}
    BY DEF ChunksOf
  <2>11. Recovers(ChunksOf(Ours, L, 1) \cup {AuthFrame(Ours)})
    BY <1>1, <1>2, AllRecover
  <2> HIDE DEF F
  <2>12. F = {chunk} \cup {AuthFrame(Ours)}
    BY <2>9 DEF TextFrames
  <2> QED BY <2>10, <2>11, <2>12
<1> HIDE DEF F
<1>7. CASE F # {} /\ Recovers(F)
  <2>1. r = [ok |-> TRUE, payload |-> PayloadOf(F), auth |-> OfType(F, "auth") # {}]
    BY <1>7, Zenon DEF Recovered
  <2>2. r.ok = TRUE /\ r.payload = PayloadOf(F)
    BY <2>1, ResultFields, Zenon
  <2> HIDE DEF r
  <2>3. \E y \in Taken \ {Noise} : r.payload = Whole(backup, IF backup.kind = "main" THEN y.doc ELSE Ours)
    BY <1>3, <1>5, <1>7, <2>2
  <2>4. backup.kind \notin ShardKinds /\ backup.kind # "kit"
    BY DEF ShardKinds
  <2>5. Right(r)
    BY <2>2, <2>3, <2>4 DEF Right
  <2> QED BY <2>5 DEF r, F
<1>8. CASE ~(F # {} /\ Recovers(F))
  <2>1. r = Nothing
    BY <1>8, Zenon DEF Recovered
  <2>2. ~r.ok
    BY <2>1, ResultFields
  <2>3. ~AllRead
    BY <1>6, <1>8
  <2> HIDE DEF r
  <2>4. Right(r)
    BY <2>2, <2>3 DEF Right
  <2> QED BY <2>4 DEF r, F
<1> QED BY <1>7, <1>8

\* Of typed blocks, none is a code.
LEMMA TypedBlocks ==
    ASSUME ProgramInv, stage = "read", read # <<>>, read = AsPrinted
    PROVE  /\ Taken \subseteq TypedLines /\ Noise \notin Taken
           /\ \E x \in Taken : "doc" \notin DOMAIN x
<1>1. blocks \in Seq(Blocks)
  BY WhatIsPrinted
<1>2. /\ Len(read) \in Nat /\ Len(read) = Len(blocks) /\ DOMAIN AsPrinted = 1..Len(blocks)
      /\ \A k \in 1..Len(blocks) : read[k] \in TypedLines /\ DOMAIN read[k] = {"title", "section", "from", "to"}
  BY <1>1, LinesOfBlocks
<1>3. 1 \in 1..Len(blocks)
  BY <1>2 DEF AsPrinted
<1> QED BY <1>2, <1>3, NothingPrintedIsNoise DEF Taken

\* Codes of shard documents.
LEMMA ShardsReadRight ==
    ASSUME ProgramInv, ReadInv, stage = "read", read # <<>>, backup.kind \in ShardKinds,
           \A x \in Decoded(Taken) : "doc" \in DOMAIN x,
           NEW keys, keys = OfType(Decoded(Taken), "key"),
           NEW r, r = IF keys = {} THEN Nothing ELSE [ok |-> TRUE, payload |-> keys]
    PROVE  Right(r)
<1>1. keys \subseteq Taken
  BY DEF OfType, Decoded
<1>2. backup.kind \notin {"main", "recovery"} /\ backup.kind # "kit"
  BY DEF ShardKinds
<1>3. ASSUME AllRead PROVE keys # {}
  <2>1. Taken = {codes[q] : q \in Printed} \/ read = AsPrinted
    BY <1>2, <1>3, Zenon DEF AllRead
  <2>2. CASE read = AsPrinted
    <3>1. \E x \in Decoded(Taken) : "doc" \notin DOMAIN x
      BY <2>2, TypedBlocks DEF Decoded
    <3> QED BY <3>1
  <2>3. CASE Taken = {codes[q] : q \in Printed}
    <3>1. Printed = 1..Len(codes)
      BY <1>2, WhatIsPrinted
    <3>2. Taken = {KeyFrame(Ours)}
      BY <2>3, <3>1, CodesShown DEF Shown
    <3>3. KeyFrame(Ours).type = "key" /\ KeyFrame(Ours) # Noise
      BY NothingPrintedIsNoise DEF KeyFrame, OneFrame
    <3>4. KeyFrame(Ours) \in keys
      BY <3>2, <3>3 DEF OfType, Decoded
    <3> QED BY <3>4
  <2> QED BY <2>1, <2>2, <2>3
<1>4. CASE keys = {}
  <2>1. ~r.ok
    BY <1>4, ResultFields
  <2> QED BY <1>3, <1>4, <2>1 DEF Right
<1>5. CASE keys # {}
  <2>1. r = [ok |-> TRUE, payload |-> keys]
    BY <1>5
  <2>2. r.ok = TRUE /\ r.payload = keys
    BY <2>1, ResultFields, Zenon
  <2> QED BY <1>1, <1>2, <2>2 DEF Right
<1> QED BY <1>4, <1>5

\* Typed text of shard documents.
LEMMA ShardTextRight ==
    ASSUME ProgramInv, ReadInv, stage = "read", read # <<>>, backup.kind \in ShardKinds,
           \A x \in Taken : "section" \in DOMAIN x,
           NEW r, r = IF Spells(read, 1..Len(read), 1, doc.texts[1])
                      THEN [ok |-> TRUE, payload |-> {KeyFrame(Ours)}] ELSE Nothing
    PROVE  Right(r)
<1>1. backup.kind \notin {"main", "recovery"} /\ backup.kind # "kit"
  BY DEF ShardKinds
<1>2. ASSUME AllRead PROVE Spells(read, 1..Len(read), 1, doc.texts[1])
  <2>1. Taken = {codes[q] : q \in Printed} \/ read = AsPrinted
    BY <1>1, <1>2, Zenon DEF AllRead
  <2>2. CASE Taken = {codes[q] : q \in Printed}
    <3>1. Printed = 1..Len(codes)
      BY <1>1, WhatIsPrinted
    <3>2. Taken = {KeyFrame(Ours)}
      BY <2>2, <3>1, CodesShown DEF Shown
    <3>3. DOMAIN KeyFrame(Ours) = {"type", "doc", "index", "total", "data"}
      BY DEF KeyFrame, OneFrame
    <3>4. "section" \in DOMAIN KeyFrame(Ours)
      BY <3>2
    <3> QED BY <3>3, <3>4
  <2>3. CASE read = AsPrinted
    <3>1. /\ doc.kind \in ShardKinds /\ doc.texts = TextsOf(backup) /\ phase = "printed"
          /\ TextRunsOn /\ blocks \in Seq(Blocks)
      BY WhatIsPrinted
    <3>2. ShowsText(doc) /\ doc.texts = <<SmallTokens(backup)>>
      BY <3>1 DEF ShowsText, TextsOf, ShardKinds
    <3>3. Len(doc.texts) = 1
      BY <3>2
    <3>4. Spells(AsPrinted, Held(1), 1, doc.texts[1])
      BY <3>1, <3>2, SectionsSpelled
    <3>5. /\ Len(blocks) \in Nat /\ Len(read) = Len(blocks)
          /\ \A k \in 1..Len(blocks) : blocks[k].section \in Nat \ {0}
      BY <2>3, <3>1, LinesOfBlocks
    <3>6. Held(1) = 1..Len(read)
      <4> SUFFICES ASSUME NEW k \in 1..Len(blocks) PROVE blocks[k].section = 1
        BY <3>5 DEF Held
      <4>1. blocks[Len(blocks)].section = 1
        BY <3>1, <3>2, <3>3 DEF TextRunsOn
      <4>2. k \in 1..Len(blocks) /\ Len(blocks) \in 1..Len(blocks)
        BY <3>5
      <4>3. blocks[k].section <= blocks[Len(blocks)].section
        BY <3>1, <4>2, SectionsInOrder
      <4> QED BY <3>5, <4>1, <4>3
    <3> QED BY <2>3, <3>4, <3>6
  <2> QED BY <2>1, <2>2, <2>3
<1>3. CASE Spells(read, 1..Len(read), 1, doc.texts[1])
  <2>1. r.ok = TRUE /\ r.payload = {KeyFrame(Ours)}
    BY <1>3, ResultFields
  <2> QED BY <1>1, <2>1 DEF Right
<1>4. CASE ~Spells(read, 1..Len(read), 1, doc.texts[1])
  <2>1. ~r.ok
    BY <1>4, ResultFields
  <2> QED BY <1>2, <1>4, <2>1 DEF Right
<1> QED BY <1>3, <1>4

-----------------------------------------------------------------------------
\* The codes of a kit.
LEMMA KitReadRight ==
    ASSUME ProgramInv, stage = "read", backup.kind = "kit",
           NEW pasted, pasted = SubSeq(read, 2, Len(read)),
           NEW r, r = IF /\ "shell" \in DOMAIN read[1]
                         /\ \A i \in 1..Len(pasted) : "from" \in DOMAIN pasted[i]
                         /\ read[1].shell = Len(pasted)
                      THEN [ok |-> TRUE, payload |-> pasted] ELSE Nothing
    PROVE  Right(r)
<1>1. backup.kind \notin {"main", "recovery"} \cup ShardKinds
  BY DEF ShardKinds
<1>2. SUFFICES ASSUME AllRead PROVE r.ok /\ \A i \in 2..Len(codes) : r.payload[i - 1] = codes[i]
  BY <1>1, Zenon DEF Right
<1>3. read = codes
  BY <1>1, <1>2, Zenon DEF AllRead
<1>4. PICK s : CutWell(s) /\ codes = Shelled(s)
  BY DEF ProgramInv, KitInv, Framed
<1>5. s \in Seq(Pieces) /\ Len(s) \in Nat
  BY <1>4 DEF CutWell
<1> DEFINE shell == [shell |-> Len(s)]
<1>6. DOMAIN shell = {"shell"} /\ shell.shell = Len(s)
  OBVIOUS
<1>7. codes = <<shell>> \o s
  BY <1>4 DEF Shelled
<1> HIDE DEF shell
<1>8. /\ Len(codes) = Len(s) + 1 /\ codes[1] = shell
      /\ \A j \in 1..Len(s) : codes[j + 1] = s[j]
      /\ codes \in Seq({shell} \cup Pieces)
  <2>1. <<shell>> \in Seq({shell} \cup Pieces) /\ s \in Seq({shell} \cup Pieces)
    BY <1>5
  <2> QED BY <1>5, <1>7, <2>1
<1>9. /\ Len(pasted) = Len(s) /\ \A j \in 1..Len(s) : pasted[j] = s[j]
  <2>1. pasted = [j \in 1..Len(s) |-> codes[j + 1]]
    BY <1>3, <1>5, <1>8
  <2>2. \A j \in 1..Len(s) : pasted[j] = codes[j + 1]
    BY <2>1
  <2>3. Len(pasted) = Len(s)
    BY <1>5, <2>1
  <2> QED BY <1>8, <2>2, <2>3
<1>10. \A j \in 1..Len(s) : "from" \in DOMAIN s[j]
  <2>1. \A j \in 1..Len(s) : s[j] \in Pieces
    BY <1>5
  <2> QED BY <2>1 DEF Pieces
<1>11. r = [ok |-> TRUE, payload |-> pasted]
  BY <1>3, <1>6, <1>8, <1>9, <1>10
<1>12. r.ok = TRUE /\ r.payload = pasted
  BY <1>11, ResultFields, Zenon
<1>13. ASSUME NEW i \in 2..Len(codes) PROVE r.payload[i - 1] = codes[i]
  <2>1. i - 1 \in 1..Len(s) /\ (i - 1) + 1 = i
    BY <1>5, <1>8
  <2> QED BY <1>8, <1>9, <1>12, <2>1
<1> QED BY <1>12, <1>13

-----------------------------------------------------------------------------
(* Every step of the program and of the reader. *)

\* What was read, and so what would be right, does not change when the reading ends.
LEMMA SameReading ==
    ASSUME UNCHANGED <<pageVars, backup, codes, read>>, NEW r, Right(r)
    PROVE  Right(r)'
<1>1. UNCHANGED <<pages, blocks, backup, codes, read>>
  BY DEF pageVars
<1>2. Taken' = Taken /\ Printed' = Printed
  BY <1>1, Zenon DEF Taken, Printed
<1>3. AllRead' <=> AllRead
  BY <1>1, <1>2, Zenon DEF AllRead, AsPrinted
<1> QED BY <1>1, <1>2, <1>3, Zenon DEF Right

LEMMA EndsRight ==
    ASSUME ReadInv, NEW r, Right(r), End(r)
    PROVE  ReadInv'
<1>1. /\ stage' = "end" /\ outcome' = r /\ UNCHANGED <<pageVars, backup, size, codes, read>>
  BY DEF End
<1>2. Right(r)'
  BY <1>1, SameReading
<1>3. Right(outcome)'
  BY <1>1, <1>2, Zenon DEF Right
<1>4. Readable' = Readable
  BY <1>1 DEF Readable, Shown, pageVars
<1>5. (read \in Seq(Readable))'
  BY <1>1, <1>4 DEF ReadInv
<1> QED BY <1>1, <1>3, <1>5 DEF ReadInv

\* One more thing is read.
LEMMA NotesKeep ==
    ASSUME ReadInv, stage = "read", NEW x \in Readable, Note(x)
    PROVE  ReadInv'
<1>1. /\ read' = Append(read, x) /\ UNCHANGED <<pageVars, backup, stage, size, codes, outcome>>
  BY DEF Note
<1>2. Readable' = Readable
  BY <1>1 DEF Readable, Shown, pageVars
<1>3. read' \in Seq(Readable)
  BY <1>1 DEF ReadInv
<1> QED BY <1>1, <1>2, <1>3 DEF ReadInv

LEMMA ReaderReadsRight == ASSUME ProgramInv, ReadInv, Reader PROVE ReadInv'
<1>1. CASE ScanCode
  <2>1. stage = "read"
    BY <1>1 DEF ScanCode, Reading
  <2>2. PICK q \in 1..Len(codes) : Note(codes[q])
    BY <1>1 DEF ScanCode, Printed
  <2>3. codes[q] \in Readable
    BY DEF Readable, Shown
  <2>4. PICK x : x = codes[q]
    OBVIOUS
  <2>5. Note(x)
    BY <2>2, <2>4 DEF Note
  <2> QED BY <2>1, <2>3, <2>4, <2>5, NotesKeep
<1>2. CASE ScanStray
  <2>1. stage = "read"
    BY <1>2 DEF ScanStray, Reading
  <2>2. PICK x \in backup.strays : Note(x)
    BY <1>2 DEF ScanStray
  <2>3. x \in Readable
    BY DEF Readable
  <2> QED BY <2>1, <2>2, <2>3, NotesKeep
<1>3. CASE TypeBlock
  <2>1. stage = "read"
    BY <1>3 DEF TypeBlock, Reading
  <2>2. PICK k \in 1..Len(blocks), withTitle \in BOOLEAN :
          Note([title |-> IF blocks[k].titled /\ withTitle THEN blocks[k].section ELSE NoTitle,
                section |-> blocks[k].section, from |-> blocks[k].from, to |-> blocks[k].to])
    BY <1>3 DEF TypeBlock
  <2>3. blocks \in Seq(Blocks)
    BY <2>1, WhatIsPrinted
  <2>4. blocks[k] \in Blocks /\ blocks # <<>>
    BY <2>3
  <2>5. blocks[k].section \in Nat /\ blocks[k].from \in Nat /\ blocks[k].to \in Nat
    BY <2>4 DEF Blocks
  <2>6. PICK t : t = IF blocks[k].titled /\ withTitle THEN blocks[k].section ELSE NoTitle
    OBVIOUS
  <2>7. t \in Nat
    BY <2>5, <2>6 DEF NoTitle
  <2>8. PICK x : x = [title |-> t, section |-> blocks[k].section, from |-> blocks[k].from, to |-> blocks[k].to]
    OBVIOUS
  <2>9. x \in Readable
    BY <2>4, <2>5, <2>7, <2>8 DEF Readable, TypedLines
  <2>10. Note(x)
    BY <2>2, <2>6, <2>8 DEF Note
  <2> QED BY <2>1, <2>9, <2>10, NotesKeep
<1>4. CASE ReadScan
  <2>1. stage = "read" /\ backup.kind = "main" /\ End(Recovered(FromScan(Taken)))
    BY <1>4 DEF ReadScan, End
  <2>2. FromScan(Taken) \in SUBSET (Taken \ {Noise})
    BY DEF FromScan, Decoded
  <2>3. Noise \notin Taken /\ (\A x \in Taken : x.type \in {"main", "auth"}) => FromScan(Taken) = Taken
    BY DEF FromScan, Decoded
  <2>4. Right(Recovered(FromScan(Taken)))
    BY <2>1, <2>2, <2>3, MainReadRight
  <2>5. PICK r : r = Recovered(FromScan(Taken))
    OBVIOUS
  <2> QED BY <2>1, <2>4, <2>5, EndsRight
<1>5. CASE ReadPayloads
  <2>1. stage = "read" /\ backup.kind = "main" /\ End(Recovered(FromPayloads(Taken)))
    BY <1>5 DEF ReadPayloads, End
  <2>2. FromPayloads(Taken) \in SUBSET (Taken \ {Noise})
    BY DEF FromPayloads
  <2>3. Noise \notin Taken /\ (\A x \in Taken : x.type \in {"main", "auth"}) => FromPayloads(Taken) = Taken
    BY DEF FromPayloads
  <2>4. Right(Recovered(FromPayloads(Taken)))
    BY <2>1, <2>2, <2>3, MainReadRight
  <2>5. PICK r : r = Recovered(FromPayloads(Taken))
    OBVIOUS
  <2> QED BY <2>1, <2>4, <2>5, EndsRight
<1>6. CASE ReadShards
  <2> DEFINE keys == OfType(Decoded(Taken), "key")
             result == IF keys = {} THEN Nothing ELSE [ok |-> TRUE, payload |-> keys]
  <2>1. /\ stage = "read" /\ read # <<>> /\ backup.kind \in ShardKinds
        /\ \A x \in Decoded(Taken) : "doc" \in DOMAIN x
        /\ End(result)
    BY <1>6 DEF ReadShards, End
  <2>2. PICK r : r = result
    OBVIOUS
  <2>3. PICK K : K = keys
    OBVIOUS
  <2>4. r = IF K = {} THEN Nothing ELSE [ok |-> TRUE, payload |-> K]
    BY <2>2, <2>3
  <2> HIDE DEF result
  <2>5. Right(r)
    BY <2>1, <2>3, <2>4, ShardsReadRight
  <2> QED BY <2>1, <2>2, <2>5, EndsRight
<1>7. CASE ReadText
  <2>1. stage = "read" /\ read # <<>> /\ backup.kind = "recovery" /\ End(Recovered(TextRead))
    BY <1>7 DEF ReadText, End
  <2>2. Right(Recovered(TextRead))
    BY <2>1, TextReadRight
  <2>3. PICK r : r = Recovered(TextRead)
    OBVIOUS
  <2> QED BY <2>1, <2>2, <2>3, EndsRight
<1>8. CASE ReadShardText
  <2> DEFINE result == IF Spells(read, 1..Len(read), 1, doc.texts[1])
                       THEN [ok |-> TRUE, payload |-> {KeyFrame(Ours)}] ELSE Nothing
  <2>1. /\ stage = "read" /\ read # <<>> /\ backup.kind \in ShardKinds
        /\ \A x \in Taken : "section" \in DOMAIN x
        /\ End(result)
    BY <1>8 DEF ReadShardText, End
  <2>2. PICK r : r = result
    OBVIOUS
  <2>3. Right(r)
    BY <2>1, <2>2, ShardTextRight
  <2> HIDE DEF result
  <2> QED BY <2>1, <2>2, <2>3, EndsRight
<1>9. CASE OpenKit
  <2> DEFINE pasted == SubSeq(read, 2, Len(read))
             result == IF /\ "shell" \in DOMAIN read[1]
                          /\ \A i \in 1..Len(pasted) : "from" \in DOMAIN pasted[i]
                          /\ read[1].shell = Len(pasted)
                       THEN [ok |-> TRUE, payload |-> pasted] ELSE Nothing
  <2>1. stage = "read" /\ backup.kind = "kit" /\ End(result)
    BY <1>9 DEF OpenKit, End
  <2>2. PICK p : p = pasted
    OBVIOUS
  <2>3. PICK r : r = result
    OBVIOUS
  <2>4. r = IF /\ "shell" \in DOMAIN read[1]
               /\ \A i \in 1..Len(p) : "from" \in DOMAIN p[i]
               /\ read[1].shell = Len(p)
            THEN [ok |-> TRUE, payload |-> p] ELSE Nothing
    BY <2>2, <2>3
  <2> HIDE DEF result
  <2>5. Right(r)
    BY <2>1, <2>2, <2>4, KitReadRight
  <2> QED BY <2>1, <2>3, <2>5, EndsRight
<1> QED BY <1>1, <1>2, <1>3, <1>4, <1>5, <1>6, <1>7, <1>8, <1>9 DEF Reader

LEMMA NextReadsRight == ProgramInv /\ ReadInv /\ [Next]_vars => ReadInv'
<1> SUFFICES ASSUME ProgramInv, ReadInv, [Next]_vars PROVE ReadInv'
  OBVIOUS
<1>1. CASE UNCHANGED vars
  <2>1. UNCHANGED <<pageVars, backup, stage, codes, read, outcome>>
    BY <1>1 DEF vars
  <2>2. Readable' = Readable
    BY <2>1 DEF Readable, Shown, pageVars
  <2>3. PICK r : r = outcome
    OBVIOUS
  <2>4. Right(r) => Right(r)'
    BY <2>1, SameReading
  <2>5. Right(outcome) => Right(outcome)'
    BY <2>1, <2>3, <2>4, Zenon DEF Right
  <2> QED BY <2>1, <2>2, <2>5 DEF ReadInv
<1>2. CASE Program
  <2>1. stage \notin {"read", "end"} /\ stage' # "end" /\ read' = read
    BY <1>2 DEF Program, ChooseSize, FrameDocument, SplitKit, FrameKit, RenderPages, Refuse
  <2>2. read' = <<>>
    BY <2>1 DEF ReadInv
  <2> QED BY <2>1, <2>2 DEF ReadInv
<1>3. CASE Reader
  BY <1>3, ReaderReadsRight
<1> QED BY <1>1, <1>2, <1>3 DEF Next

\* What is read is the whole ciphertext of the document it was read from or nothing, whatever
\* was mixed, lost or damaged, and all that was printed is enough to read it back: for codes
\* and typed text, of every backup (frames.py, chunking.py, fallback_parser.py, the kit's loader).
THEOREM AlwaysReadsBackOrRefuses == Spec => []ReadsBackOrRefuses
<1>1. Init => ReadInv
  BY DEF Init, ReadInv
<1>2. ReadInv => ReadsBackOrRefuses
  BY Zenon DEF ReadInv, Right, ReadsBackOrRefuses
<1> QED BY <1>1, <1>2, ProgramAlways, NextReadsRight, PTL DEF Spec
=============================================================================
